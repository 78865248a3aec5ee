------------------------ MODULE ResumableHttpReader ------------------------
(***************************************************************************)
(* The reader of src/src/resumable_http.rs: `read` returns the bytes of an *)
(* HTTP response and, when the connection drops, asks the server for the   *)
(* rest with a Range request and carries on.  The module holds the reader  *)
(* (offset, the headers kept from the first response, the loop of `read`   *)
(* and the loop of `resume`) and the server it talks to, which may replace *)
(* the resource between two requests.                                      *)
(*                                                                         *)
(* A byte is the pair of the version of the resource it belongs to and its *)
(* position in it, so a stream that mixes versions or skips bytes shows.   *)
(*                                                                         *)
(* A definition marked "Slip" is no part of the model: it is the definition*)
(* that follows with a plausible mistake, kept to show which property      *)
(* would notice it.                                                        *)
(***************************************************************************)
EXTENDS Integers

CONSTANTS
  Versions,      \* successive versions of the resource, oldest first: numbers
  Length,        \* Length[v]: how many bytes version v has
  Etag,          \* Etag[v]: the ETag a response for version v carries
  LastModified,  \* LastModified[v]: its Last-Modified
  NoHeader,      \* a header that is absent, or cannot be parsed
  HeaderSets,    \* the sets of headers a response may carry
  Traits,        \* what the server does beyond the plain case (see below)
  MaxRetries,    \* MAX_RETRIES
  MaxChunk       \* bound: the most bytes one response.read returns

(* "replaces": the resource moves on to later versions during the transfer. *)
(* "rollback": it may also go back to an earlier one (or the replicas       *)
(*             behind the URL differ).                                      *)
(* "restarts": a Range request may be answered by 200 and the whole body.   *)
(* "shortRange": a 206 may end before the end of the resource.              *)
(* "badRange": a 206 may start elsewhere or have no usable Content-Range.   *)
(* "unframed": a body without Content-Length may be delimited by the close  *)
(*             of the connection, where a drop looks like its end.          *)
AllTraits ==
  {"replaces", "rollback", "restarts", "shortRange", "badRange", "unframed"}

HeaderNames == {"content_length", "etag", "last_modified"}

Validators == {"etag", "last_modified"}

ASSUME VersionsAssumption == Versions # {} /\ Versions \subseteq Nat

ASSUME LengthAssumption == Length \in [Versions -> Nat]

ASSUME HeadersAssumption ==
  /\ \A v \in Versions : Etag[v] # NoHeader /\ LastModified[v] # NoHeader
  /\ NoHeader \notin Nat
  /\ HeaderSets # {}
  /\ HeaderSets \subseteq SUBSET HeaderNames

ASSUME TraitsAssumption == Traits \subseteq AllTraits

ASSUME BoundsAssumption == MaxRetries \in Nat \ {0} /\ MaxChunk \in Nat \ {0}

VARIABLES
  live,             \* the version the server holds
  response,         \* self.response: the body being read
  offset,           \* self.offset
  original,         \* self.content_length, self.etag, self.last_modified,
                    \*   with the version they describe (history)
  pc,               \* "idle" between calls, else where `read` is
  stalled_retries,  \* the counter of `read`
  attempt,          \* the loop variable of `resume`
  requests,         \* requests sent in this call of `read` (history)
  stream,           \* the bytes handed to the consumer (history)
  outcome,          \* what the last call returned
  failed            \* whether some call returned an error (history)

reader == <<offset, original, pc, stalled_retries, attempt>>
history == <<requests, stream, outcome, failed>>
vars == <<live, response, reader, history>>

----------------------------------------------------------------------------
(* The server and reqwest.                                                 *)

(* A header's value in a response that carries the headers h.              *)
Header(name, h, value) == IF name \in h THEN value ELSE NoHeader

(* The body of a response: bytes pos+1..end of version ver.                *)
Body(v, pos, end, framed) ==
  [ver |-> v, pos |-> pos, end |-> end, framed |-> framed, alive |-> TRUE]

(* Whether reqwest can tell a complete body from one cut short.            *)
Framings(h) ==
  IF "unframed" \in Traits /\ "content_length" \notin h THEN BOOLEAN ELSE {TRUE}

(* The status, Content-Range start and end of the replies to               *)
(* `Range: bytes=from-`; "other" is any status resume() takes as the       *)
(* request having been ignored.                                            *)
ReplyLines(from) ==
  LET starts == IF "badRange" \in Traits
                THEN 0 .. Length[live] - 1 \cup {NoHeader} ELSE {from}
      ends == IF "shortRange" \in Traits
              THEN from + 1 .. Length[live] ELSE {Length[live]}
      full == [status : {"200"}, start : {0}, end : {Length[live]}]
      partial == [status : {"206"}, start : starts, end : ends]
      refusal == [status : {"416"}, start : {0}, end : {0}]
      other == [status : {"other"}, start : {0}, end : {0}]
  IN  (IF "restarts" \in Traits THEN full ELSE {})
      \cup (IF from < Length[live] THEN partial ELSE refusal)
      \cup other

(* The reply with that line and the headers h: the body begins where its   *)
(* Content-Range says.                                                     *)
Reply(line, h, framed) ==
  [status |-> line.status,
   start |-> line.start,
   etag |-> Header("etag", h, Etag[live]),
   last_modified |-> Header("last_modified", h, LastModified[live]),
   body |-> Body(live, IF line.start = NoHeader THEN 0 ELSE line.start,
                 line.end, framed)]

(* The resource is replaced between two requests.                          *)
ResourceReplaced ==
  /\ live' \in {v \in Versions : \/ "replaces" \in Traits /\ v > live
                                 \/ "rollback" \in Traits /\ v # live}
  /\ UNCHANGED <<response, reader, history>>

----------------------------------------------------------------------------
(* Pure decisions of the reader.                                           *)

(* Slip: an unknown length counts as reached.                              *)
classify_unknown_as_complete(from, content_length) ==
  IF content_length = NoHeader \/ from >= content_length
  THEN "Complete" ELSE "Incomplete"

(* 416 at this offset: is the body complete?                               *)
classify_range_not_satisfiable(from, content_length) ==
  IF content_length # NoHeader /\ from >= content_length
  THEN "Complete" ELSE "Incomplete"

(* Slip: only a mismatch refuses, validators that went missing do not.     *)
compare_shared_only(kept, resumed) ==
  IF \E n \in Validators : /\ kept[n] # NoHeader /\ resumed[n] # NoHeader
                           /\ kept[n] # resumed[n]
  THEN "Modified" ELSE "Match"

(* Do the two sets of validators describe the same resource?               *)
compare_validators(kept, resumed) ==
  LET advertised == {n \in Validators : kept[n] # NoHeader}
      shared == {n \in advertised : resumed[n] # NoHeader}
  IN  CASE advertised = {} -> "Match"
        [] advertised # {} /\ \E n \in shared : kept[n] # resumed[n] -> "Modified"
        [] advertised # {} /\ shared = {} -> "Unverifiable"
        [] OTHER -> "Match"

(* Slip: where the 206 starts is not looked at.                            *)
AcceptableAnywhere(reply) == compare_validators(original, reply) = "Match"

(* accept_resumed_response: is the 206 the continuation asked for?         *)
Acceptable(reply) ==
  /\ reply.start = offset
  /\ compare_validators(original, reply) = "Match"

----------------------------------------------------------------------------
(* The reader.                                                             *)

(* `new`: the first response arrived, nothing has been read.               *)
Init ==
  /\ live \in Versions
  /\ \E h \in HeaderSets, framed \in BOOLEAN :
       /\ framed \in Framings(h)
       /\ response = Body(live, 0, Length[live], framed)
       /\ original = [ver |-> live,
                      content_length |-> Header("content_length", h, Length[live]),
                      etag |-> Header("etag", h, Etag[live]),
                      last_modified |-> Header("last_modified", h, LastModified[live])]
  /\ offset = 0
  /\ pc = "idle" /\ stalled_retries = 0 /\ attempt = 0
  /\ requests = 0 /\ stream = <<>> /\ outcome = "none" /\ failed = FALSE

(* One more request in this call; counted up to one past the bound.        *)
Counted == IF requests > MaxRetries * MaxRetries THEN requests ELSE requests + 1

(* The consumer calls `read`.                                              *)
CallRead ==
  /\ pc = "idle"
  /\ pc' = "reading"
  /\ requests' = 0
  /\ outcome' = "none"
  /\ UNCHANGED <<live, response, offset, original, stalled_retries, attempt,
                 stream, failed>>

(* The call returns r: its local variables are gone.                       *)
Return(r) ==
  /\ pc' = "idle"
  /\ outcome' = r
  /\ failed' = (failed \/ r = "error")
  /\ stalled_retries' = 0
  /\ attempt' = 0

(* response.read gives n > 0 bytes.                                        *)
ReadData ==
  /\ pc = "reading"
  /\ response.alive
  /\ \E n \in 1 .. MaxChunk :
       /\ response.pos + n <= response.end
       /\ response' = [response EXCEPT !.pos = @ + n]
       /\ offset' = offset + n
       /\ stream' = [i \in 1 .. offset + n |->
                       IF i <= offset THEN stream[i]
                       ELSE [ver |-> response.ver,
                             pos |-> response.pos + (i - offset)]]
  /\ Return("data")
  /\ UNCHANGED <<live, original, requests>>

(* response.read gives 0: the body is complete, or was cut where reqwest   *)
(* cannot tell, or had failed before (a failed body is over).              *)
ReadZero ==
  /\ pc = "reading"
  /\ \/ response.pos = response.end
     \/ ~response.framed
     \/ ~response.alive
  /\ Return("eof")
  /\ UNCHANGED <<live, response, offset, original, requests, stream>>

(* Slip: the reconnection is not counted.                                  *)
ReadErrorUncounted ==
  /\ pc = "reading"
  /\ response' = [response EXCEPT !.alive = FALSE]
  /\ pc' = "resuming"
  /\ UNCHANGED <<live, offset, original, stalled_retries, attempt, history>>

(* Slip: one reconnection too many.                                        *)
ReadErrorOffByOne ==
  /\ pc = "reading"
  /\ response' = [response EXCEPT !.alive = FALSE]
  /\ \/ stalled_retries > MaxRetries /\ Return("error")
     \/ /\ stalled_retries <= MaxRetries
        /\ stalled_retries' = stalled_retries + 1
        /\ pc' = "resuming"
        /\ UNCHANGED <<attempt, outcome, failed>>
  /\ UNCHANGED <<live, offset, original, requests, stream>>

(* response.read fails; resume unless this call has stalled too often.     *)
ReadError ==
  /\ pc = "reading"
  /\ response' = [response EXCEPT !.alive = FALSE]
  /\ \/ /\ stalled_retries >= MaxRetries
        /\ Return("error")
     \/ /\ stalled_retries < MaxRetries
        /\ stalled_retries' = stalled_retries + 1
        /\ pc' = "resuming"
        /\ UNCHANGED <<attempt, outcome, failed>>
  /\ UNCHANGED <<live, offset, original, requests, stream>>

(* Slip: giving up is reported as the end of the file.                     *)
SendFailsAsEof ==
  /\ pc = "resuming"
  /\ requests' = Counted
  /\ \/ /\ attempt + 1 < MaxRetries
        /\ attempt' = attempt + 1
        /\ UNCHANGED <<pc, stalled_retries, outcome, failed>>
     \/ attempt + 1 >= MaxRetries /\ Return("eof")
  /\ UNCHANGED <<live, response, offset, original, stream>>

(* Slip: one attempt too many.                                             *)
SendFailsOffByOne ==
  /\ pc = "resuming"
  /\ requests' = Counted
  /\ \/ /\ attempt < MaxRetries
        /\ attempt' = attempt + 1
        /\ UNCHANGED <<pc, stalled_retries, outcome, failed>>
     \/ attempt >= MaxRetries /\ Return("error")
  /\ UNCHANGED <<live, response, offset, original, stream>>

(* resume: the request does not reach the server; back off and try again,  *)
(* or give up after the last attempt (Resume::Failed).                     *)
SendFails ==
  /\ pc = "resuming"
  /\ requests' = Counted
  /\ \/ /\ attempt + 1 < MaxRetries
        /\ attempt' = attempt + 1
        /\ UNCHANGED <<pc, stalled_retries, outcome, failed>>
     \/ /\ attempt + 1 >= MaxRetries
        /\ Return("error")
  /\ UNCHANGED <<live, response, offset, original, stream>>

(* Resume::Resumed: the body is replaced and `read` loops.                 *)
Resumed(reply) ==
  /\ response' = reply.body
  /\ pc' = "reading"
  /\ attempt' = 0
  /\ UNCHANGED <<stalled_retries, outcome, failed>>

(* 200 before anything was delivered: start over with the new body.        *)
RestartFromZero(reply) ==
  /\ reply.status = "200" /\ offset = 0
  /\ Resumed(reply)

(* 206: continue, or fail if it is not the continuation.                   *)
PartialContent(reply) ==
  /\ reply.status = "206"
  /\ \/ Acceptable(reply) /\ Resumed(reply)
     \/ ~Acceptable(reply) /\ Return("error") /\ UNCHANGED response

(* 416: end of file if everything was read, else an error.                 *)
RangeNotSatisfiable(reply) ==
  /\ reply.status = "416"
  /\ IF classify_range_not_satisfiable(offset, original.content_length) = "Complete"
     THEN Return("eof") ELSE Return("error")
  /\ UNCHANGED response

(* Any other answer (Resume::Unsupported): the first failure is returned.  *)
RangeIgnored(reply) ==
  /\ \/ reply.status = "other"
     \/ reply.status = "200" /\ offset # 0
  /\ Return("error")
  /\ UNCHANGED response

(* The match on the status of the reply.                                   *)
Answered(reply) ==
  \/ RestartFromZero(reply)
  \/ PartialContent(reply)
  \/ RangeNotSatisfiable(reply)
  \/ RangeIgnored(reply)

(* resume: the server answers.                                             *)
ServerAnswers ==
  /\ pc = "resuming"
  /\ requests' = Counted
  /\ \E line \in ReplyLines(offset), h \in HeaderSets :
       \E framed \in Framings(h) : Answered(Reply(line, h, framed))
  /\ UNCHANGED <<live, offset, original, stream>>

(* The steps of a call of `read` once it has been made.                    *)
ReadStep == ReadData \/ ReadZero \/ ReadError \/ SendFails \/ ServerAnswers

Next == ResourceReplaced \/ CallRead \/ ReadStep

(* The loops of `read` and `resume` run until they return, and both send() *)
(* and response.read return, at the latest by the timeout of the client.   *)
Spec == Init /\ [][Next]_vars /\ WF_vars(ReadStep)

----------------------------------------------------------------------------
Bodies == [ver : Versions, pos : Nat, end : Nat, framed : BOOLEAN, alive : BOOLEAN]

(* Type invariant of the reader's fields and of its call state.            *)
TypeOK ==
  /\ live \in Versions
  /\ response \in Bodies
  /\ offset \in Nat
  /\ original.ver \in Versions
  /\ pc \in {"idle", "reading", "resuming"}
  /\ stalled_retries \in 0 .. MaxRetries
  /\ attempt \in 0 .. MaxRetries - 1
  /\ requests \in Nat
  /\ stream \in [1 .. offset -> [ver : Versions, pos : Nat]]
  /\ outcome \in {"none", "data", "eof", "error"}
  /\ failed \in BOOLEAN

(* Reconnections are invisible in the position of bytes ("The byte stream  *)
(* presented to the consumer is contiguous"): the i-th byte handed out is  *)
(* the i-th byte of the version it came from, whatever the server answers. *)
Contiguous == \A i \in 1 .. offset : stream[i].pos = i

(* Did the first response carry a validator?  Without one a resume is      *)
(* accepted unseen, the residual risk compare_validators documents.        *)
Advertised == \E n \in Validators : original[n] # NoHeader

(* "a mismatch fails the read rather than splicing mismatched data": all   *)
(* bytes handed to the consumer belong to one version of the resource.     *)
NoSplice ==
  Advertised => \A i, j \in 1 .. offset : stream[i].ver = stream[j].ver

(* A clean end of file is never a truncation: every byte of the version    *)
(* being read has been handed out, unless a call failed before or the body *)
(* has no framing that tells its end from a drop.                          *)
EofComplete ==
  Advertised /\ outcome = "eof" /\ ~failed =>
    offset = Length[response.ver] \/ ~response.framed

(* One call of `read` sends at most MAX_RETRIES requests for each of at    *)
(* most MAX_RETRIES reconnections that deliver nothing.                    *)
RequestsBounded == requests <= MaxRetries * MaxRetries

(* A call of `read` always returns: no server, however it answers, keeps   *)
(* it reconnecting forever.                                                *)
ReadReturns == pc # "idle" ~> pc = "idle"

----------------------------------------------------------------------------
(* What the consumer is promised (ByteStream): the bytes of one version in *)
(* order, and an end of file only after the last.                          *)
Promise == INSTANCE ByteStream WITH
  source <- response.ver, count <- offset, asked <- (pc # "idle")

ImplementsByteStream == Promise!Spec
============================================================================
