----------------------------- MODULE ByteStream -----------------------------
(***************************************************************************)
(* What a consumer of a remote file may rely on, however the bytes reach   *)
(* it: each call of `read` is answered by the next bytes of one version of *)
(* the resource, by end of file once all of them were given, or by an      *)
(* error.  Which version it is may still change while no byte was given.   *)
(***************************************************************************)
EXTENDS Integers

CONSTANTS Versions, Length

VARIABLES
  source,   \* the version being read
  count,    \* how many of its bytes the consumer has
  asked,    \* whether a call is in progress
  outcome,  \* the last call's answer, "none" while one is in progress
  failed    \* whether a call was answered by an error: what follows an
            \*   error, end of file included, is no longer promised

vars == <<source, count, asked, outcome, failed>>

Init ==
  /\ source \in Versions
  /\ count = 0
  /\ asked = FALSE
  /\ outcome = "none"
  /\ failed = FALSE

Ask ==
  /\ ~asked
  /\ asked' = TRUE
  /\ outcome' = "none"
  /\ UNCHANGED <<source, count, failed>>

Answer(r) ==
  /\ asked
  /\ asked' = FALSE
  /\ outcome' = r

Give ==
  /\ Answer("data")
  /\ count' \in count + 1 .. Length[source]
  /\ UNCHANGED <<source, failed>>

Finish ==
  /\ Answer("eof")
  /\ count = Length[source] \/ failed
  /\ UNCHANGED <<source, count, failed>>

Fail ==
  /\ Answer("error")
  /\ failed' = TRUE
  /\ UNCHANGED <<source, count>>

(* Nothing was given yet: another version may take its place.              *)
Choose ==
  /\ count = 0
  /\ source' \in Versions
  /\ UNCHANGED <<count, asked, outcome, failed>>

Next == Ask \/ Give \/ Finish \/ Fail \/ Choose

Spec == Init /\ [][Next]_vars
============================================================================
