------------------------------ MODULE AtomicPut ------------------------------
(***************************************************************************)
(* What concurrent callers that put an object under one key may rely on:   *)
(* the object is replaced in one step, by the whole content of a caller,   *)
(* at most once for each caller; a caller told "ok" has replaced it, one   *)
(* told "error" may have, or may still do so.                              *)
(***************************************************************************)
CONSTANTS Callers, Contents

VARIABLES
  content,  \* content[c]: what the caller puts
  value,    \* the content of the object, {} before the first
  status,   \* status[c]: what the caller was told, "none" yet
  stored    \* the callers that have replaced the object

vars == <<content, value, status, stored>>

Init ==
  /\ content \in [Callers -> Contents]
  /\ value = {}
  /\ status = [c \in Callers |-> "none"]
  /\ stored = {}

(* The caller is told the result.                                          *)
Tell(c, result) ==
  /\ status[c] = "none"
  /\ status' = [status EXCEPT ![c] = result]

(* The object is replaced; the caller may be told at once.                 *)
Replace(c) ==
  /\ c \notin stored
  /\ stored' = stored \cup {c}
  /\ value' = {content[c]}
  /\ UNCHANGED status \/ \E result \in {"ok", "error"} : Tell(c, result)
  /\ UNCHANGED content

Succeed(c) ==
  /\ c \in stored
  /\ Tell(c, "ok")
  /\ UNCHANGED <<content, value, stored>>

Fail(c) ==
  /\ Tell(c, "error")
  /\ UNCHANGED <<content, value, stored>>

Next == \E c \in Callers : Replace(c) \/ Succeed(c) \/ Fail(c)

Spec == Init /\ [][Next]_vars
============================================================================
