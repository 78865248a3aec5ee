--------------------- MODULE ResumableHttpReaderProofs ---------------------
(***************************************************************************)
(* Proofs, for every resource, server behaviour and bound, of what the     *)
(* runs of MCResumableHttpReader show on small ones.                       *)
(***************************************************************************)
EXTENDS ResumableHttpReader, TLAPS

(* What resume() may rely on in a reply, by its status.                    *)
IsReply(reply, from) ==
  /\ reply.body.ver = live
  /\ reply.body.pos \in Nat
  /\ reply.body \in Bodies
  /\ reply.body.alive
  /\ "unframed" \notin Traits => reply.body.framed
  /\ reply.status = "200" =>
       /\ "restarts" \in Traits
       /\ reply.body.pos = 0
       /\ reply.body.end = Length[live]
  /\ reply.status = "206" =>
       /\ from < Length[live]
       /\ reply.start # NoHeader => reply.body.pos = reply.start
       /\ reply.body.end \in from + 1 .. Length[live]
       /\ "shortRange" \notin Traits => reply.body.end = Length[live]
  /\ reply.status = "416" => Length[live] <= from
  /\ reply.etag \in {NoHeader, Etag[live]}
  /\ reply.last_modified \in {NoHeader, LastModified[live]}

(* Every reply the server may send (Reply of a line of ReplyLines) is one   *)
(* resume() may rely on in that sense.                                     *)
LEMMA ReplyFacts ==
  ASSUME live \in Versions, NEW from \in Nat, NEW line \in ReplyLines(from),
         NEW h \in HeaderSets, NEW framed \in Framings(h)
  PROVE  IsReply(Reply(line, h, framed), from)
  <1>1. Length[live] \in Nat /\ NoHeader \notin Nat
    BY LengthAssumption, HeadersAssumption
  <1>2. /\ line.status \in {"200", "206", "416", "other"}
        /\ line.status = "200" =>
             "restarts" \in Traits /\ line.start = 0 /\ line.end = Length[live]
        /\ line.status = "206" =>
             /\ from < Length[live]
             /\ line.end \in from + 1 .. Length[live]
             /\ "shortRange" \notin Traits => line.end = Length[live]
        /\ line.status = "416" => Length[live] <= from
        /\ line.start \in Nat \cup {NoHeader}
        /\ line.end \in Nat
    BY <1>1 DEF ReplyLines
  <1> DEFINE r == Reply(line, h, framed)
             p == IF line.start = NoHeader THEN 0 ELSE line.start
  <1> framed \in BOOLEAN /\ ("unframed" \notin Traits => framed)
    BY DEF Framings
  <1>3. /\ r.status = line.status
        /\ r.start = line.start
        /\ r.etag \in {NoHeader, Etag[live]}
        /\ r.last_modified \in {NoHeader, LastModified[live]}
        /\ r.body = [ver |-> live, pos |-> p, end |-> line.end,
                     framed |-> framed, alive |-> TRUE]
    BY DEF Reply, Header, Body
  <1>4. p \in Nat
    BY <1>2
  <1> HIDE DEF r, p
  <1>5. r.body \in Bodies
    BY <1>2, <1>3, <1>4 DEF Bodies
  <1>6. IsReply(r, from)
    BY <1>1, <1>2, <1>3, <1>4, <1>5 DEF IsReply, p
  <1>7. QED
    BY <1>6 DEF r

(* What a reconnection gets is such a reply, matched on its status.        *)
LEMMA AnswerFacts ==
  ASSUME live \in Versions, offset \in Nat, ServerAnswers
  PROVE  \E reply : IsReply(reply, offset) /\ Answered(reply)
  <1>1. PICK line \in ReplyLines(offset), h \in HeaderSets :
          \E framed \in Framings(h) : Answered(Reply(line, h, framed))
    BY DEF ServerAnswers
  <1>2. PICK framed \in Framings(h) : Answered(Reply(line, h, framed))
    BY <1>1
  <1>3. IsReply(Reply(line, h, framed), offset)
    BY ReplyFacts
  <1>4. QED
    BY <1>2, <1>3

(* Whatever the status, the reply is taken over or the call returns.       *)
LEMMA AnswerCases ==
  ASSUME NEW reply, Answered(reply)
  PROVE  \/ /\ Resumed(reply)
            /\ \/ reply.status = "200" /\ offset = 0
               \/ reply.status = "206" /\ Acceptable(reply)
         \/ /\ UNCHANGED response
            /\ \/ Return("error")
               \/ /\ Return("eof")
                  /\ reply.status = "416"
                  /\ classify_range_not_satisfiable
                       (offset, original.content_length) = "Complete"
  BY Zenon DEF Answered, RestartFromZero, PartialContent, RangeNotSatisfiable,
     RangeIgnored

(* A call that returns leaves typed call state behind.                     *)
LEMMA ReturnTyped ==
  ASSUME NEW r \in {"data", "eof", "error"}, Return(r)
  PROVE  /\ pc' = "idle" /\ outcome' = r /\ failed' \in BOOLEAN
         /\ stalled_retries' \in 0 .. MaxRetries
         /\ attempt' \in 0 .. MaxRetries - 1
  <1>1. failed' \in BOOLEAN
    BY Zenon DEF Return
  <1>2. QED
    BY <1>1, BoundsAssumption DEF Return

----------------------------------------------------------------------------
(* The reader's fields keep their types whatever the server answers.       *)
THEOREM Typing == Spec => []TypeOK
  <1>1. Init => TypeOK
    <2> SUFFICES ASSUME Init PROVE TypeOK
      OBVIOUS
    <2>1. PICK h \in HeaderSets, framed \in BOOLEAN :
            /\ response = Body(live, 0, Length[live], framed)
            /\ original.ver = live
      BY DEF Init
    <2>2. Length[live] \in Nat /\ live \in Versions
      BY LengthAssumption DEF Init
    <2>3. response \in Bodies
      BY <2>1, <2>2 DEF Body, Bodies
    <2>4. stream \in [1 .. offset -> [ver : Versions, pos : Nat]]
      BY DEF Init
    <2>5. stalled_retries \in 0 .. MaxRetries /\ attempt \in 0 .. MaxRetries - 1
      BY BoundsAssumption DEF Init
    <2>6. QED
      BY <2>1, <2>2, <2>3, <2>4, <2>5 DEF Init, TypeOK
  <1>2. TypeOK /\ [Next]_vars => TypeOK'
    <2> SUFFICES ASSUME TypeOK, [Next]_vars PROVE TypeOK'
      OBVIOUS
    <2> USE BoundsAssumption DEF TypeOK
    <2>1. CASE ResourceReplaced
      BY <2>1 DEF ResourceReplaced, reader, history
    <2>2. CASE CallRead
      BY <2>2 DEF CallRead
    <2>3. CASE ReadData
      <3>1. PICK n \in 1 .. MaxChunk :
              /\ response' = [response EXCEPT !.pos = @ + n]
              /\ offset' = offset + n
              /\ stream' = [i \in 1 .. offset + n |->
                              IF i <= offset THEN stream[i]
                              ELSE [ver |-> response.ver,
                                    pos |-> response.pos + (i - offset)]]
        BY <2>3 DEF ReadData
      <3>2. n \in Nat /\ response.pos + n \in Nat /\ response.ver \in Versions
            /\ response.pos \in Nat
        BY DEF Bodies
      <3>3. response' \in Bodies
        BY <3>1, <3>2 DEF Bodies
      <3>4. offset' \in Nat
        BY <3>1, <3>2
      <3>5. stream' \in [1 .. offset' -> [ver : Versions, pos : Nat]]
        BY <3>1, <3>2, SMTT(20)
      <3>6. Return("data")
        BY <2>3 DEF ReadData
      <3>7. QED
        BY <2>3, <3>3, <3>4, <3>5, <3>6, ReturnTyped DEF ReadData
    <2>4. CASE ReadZero
      BY <2>4, ReturnTyped DEF ReadZero
    <2>5. CASE ReadError
      <3>1. response' \in Bodies
        BY <2>5 DEF ReadError, Bodies
      <3>2. CASE Return("error")
        BY <2>5, <3>1, <3>2, ReturnTyped DEF ReadError
      <3>3. CASE ~Return("error")
        BY <2>5, <3>1, <3>3 DEF ReadError
      <3>4. QED
        BY <3>2, <3>3
    <2>6. CASE SendFails
      <3>1. requests' \in Nat
        BY <2>6 DEF SendFails, Counted
      <3>2. CASE Return("error")
        BY <2>6, <3>1, <3>2, ReturnTyped DEF SendFails
      <3>3. CASE ~Return("error")
        BY <2>6, <3>1, <3>3 DEF SendFails
      <3>4. QED
        BY <3>2, <3>3
    <2>7. CASE ServerAnswers
      <3>1. PICK reply : IsReply(reply, offset) /\ Answered(reply)
        BY <2>7, AnswerFacts
      <3>2. reply.body \in Bodies
        BY <3>1 DEF IsReply
      <3>3. UNCHANGED <<live, offset, original, stream>> /\ requests' \in Nat
        BY <2>7 DEF ServerAnswers, Counted
      <3>4. CASE Resumed(reply)
        BY <3>2, <3>3, <3>4 DEF Resumed
      <3>5. CASE /\ UNCHANGED response
                 /\ Return("eof") \/ Return("error")
        BY <3>3, <3>5, ReturnTyped
      <3>6. QED
        BY <3>1, <3>4, <3>5, AnswerCases
    <2>8. CASE UNCHANGED vars
      BY <2>8 DEF vars, reader, history
    <2>9. QED
      BY <2>1, <2>2, <2>3, <2>4, <2>5, <2>6, <2>7, <2>8 DEF Next, ReadStep
  <1>3. QED
    BY <1>1, <1>2, PTL DEF Spec

----------------------------------------------------------------------------
(* What Contiguous needs to be inductive: the body stands where the        *)
(* consumer does, also after it failed, and does not run past its end.     *)
Placed ==
  /\ response.pos = offset
  /\ response.pos <= response.end
  /\ Contiguous

(* The bytes a successful response.read adds.                              *)
LEMMA DataFacts ==
  ASSUME TypeOK, Placed, ReadData
  PROVE  \E n \in Nat \ {0} :
           /\ offset' = offset + n
           /\ response' = [response EXCEPT !.pos = offset + n]
           /\ offset + n <= response.end
           /\ \A i \in 1 .. offset' :
                 stream'[i] = IF i <= offset THEN stream[i]
                              ELSE [ver |-> response.ver, pos |-> i]
  <1>1. PICK n \in 1 .. MaxChunk :
          /\ response.pos + n <= response.end
          /\ response' = [response EXCEPT !.pos = @ + n]
          /\ offset' = offset + n
          /\ stream' = [i \in 1 .. offset + n |->
                          IF i <= offset THEN stream[i]
                          ELSE [ver |-> response.ver,
                                pos |-> response.pos + (i - offset)]]
    BY DEF ReadData
  <1>2. n \in Nat \ {0} /\ offset \in Nat /\ response.pos = offset
    BY BoundsAssumption DEF TypeOK, Placed
  <1>3. ASSUME NEW i \in 1 .. offset'
        PROVE  stream'[i] = IF i <= offset THEN stream[i]
                            ELSE [ver |-> response.ver, pos |-> i]
    BY <1>1, <1>2
  <1>4. QED
    BY <1>1, <1>2, <1>3

(* A 206 that is taken over begins at the next byte.                       *)
LEMMA ResumedPlace ==
  ASSUME TypeOK, NEW reply, IsReply(reply, offset), Resumed(reply),
         \/ reply.status = "200" /\ offset = 0
         \/ reply.status = "206" /\ Acceptable(reply)
  PROVE  response'.pos = offset /\ response'.pos <= response'.end
  <1>1. NoHeader \notin Nat /\ offset \in Nat /\ Length[live] \in Nat
    BY HeadersAssumption, LengthAssumption DEF TypeOK
  <1>2. CASE reply.status = "200" /\ offset = 0
    BY <1>1, <1>2 DEF IsReply, Resumed
  <1>3. CASE reply.status = "206" /\ Acceptable(reply)
    <2>1. reply.start = offset /\ reply.start # NoHeader
      BY <1>1, <1>3 DEF Acceptable
    <2>2. QED
      BY <1>1, <1>3, <2>1 DEF IsReply, Resumed
  <1>4. QED
    BY <1>2, <1>3

(* A step keeps the reader placed.                                         *)
LEMMA PlacedStep ==
  ASSUME TypeOK, Placed, [Next]_vars
  PROVE  Placed'
  <1> USE DEF Placed, Contiguous
  <1>1. CASE ResourceReplaced
    BY <1>1 DEF ResourceReplaced, reader, history
  <1>2. CASE CallRead
    BY <1>2 DEF CallRead
  <1>3. CASE ReadData
    <2>1. PICK n \in Nat \ {0} :
            /\ offset' = offset + n
            /\ response' = [response EXCEPT !.pos = offset + n]
            /\ offset + n <= response.end
            /\ \A i \in 1 .. offset' :
                  stream'[i] = IF i <= offset THEN stream[i]
                               ELSE [ver |-> response.ver, pos |-> i]
      BY <1>3, DataFacts
    <2>2. response'.pos = offset' /\ response'.pos <= response'.end
      BY <2>1 DEF TypeOK, Bodies
    <2>3. ASSUME NEW i \in 1 .. offset' PROVE stream'[i].pos = i
      <3>1. /\ i \in Nat /\ 1 <= i /\ offset \in Nat
            /\ stream'[i] = IF i <= offset THEN stream[i]
                            ELSE [ver |-> response.ver, pos |-> i]
        BY <2>1, <2>3 DEF TypeOK
      <3>2. CASE i <= offset
        BY <3>1, <3>2
      <3>3. CASE ~(i <= offset)
        BY <3>1, <3>3
      <3>4. QED
        BY <3>2, <3>3
    <2>4. QED
      BY <2>2, <2>3
  <1>4. CASE ReadZero
    BY <1>4 DEF ReadZero
  <1>5. CASE ReadError
    BY <1>5 DEF ReadError, TypeOK, Bodies
  <1>6. CASE SendFails
    BY <1>6 DEF SendFails
  <1>7. CASE ServerAnswers
    <2>1. PICK reply : IsReply(reply, offset) /\ Answered(reply)
      BY <1>7, AnswerFacts DEF TypeOK
    <2>2. UNCHANGED <<offset, stream>>
      BY <1>7 DEF ServerAnswers
    <2>3. response'.pos = offset /\ response'.pos <= response'.end
      BY <2>1, AnswerCases, ResumedPlace
    <2>4. QED
      BY <2>2, <2>3
  <1>8. CASE UNCHANGED vars
    BY <1>8 DEF vars, reader, history
  <1>9. QED
    BY <1>1, <1>2, <1>3, <1>4, <1>5, <1>6, <1>7, <1>8 DEF Next, ReadStep

(* The reader is always placed.                                            *)
LEMMA Placement == Spec => []Placed
  <1>1. Init => Placed
    <2> SUFFICES ASSUME Init PROVE Placed
      OBVIOUS
    <2>1. PICK h \in HeaderSets, framed \in BOOLEAN :
            response = Body(live, 0, Length[live], framed)
      BY DEF Init
    <2>2. Length[live] \in Nat
      BY LengthAssumption DEF Init
    <2>3. QED
      BY <2>1, <2>2 DEF Init, Placed, Contiguous, Body
  <1>2. QED
    BY <1>1, Typing, PlacedStep, PTL DEF Spec

(* The stream is contiguous across any number of reconnections, to any     *)
(* server: a 206 from elsewhere, a wrong or missing Content-Range included.*)
THEOREM Contiguity == Spec => []Contiguous
  <1>1. Placed => Contiguous
    BY DEF Placed
  <1>2. QED
    BY <1>1, Placement, PTL

----------------------------------------------------------------------------
(* The requests of a call, by where it is: each reconnection that has      *)
(* delivered nothing cost at most MaxRetries of them.                      *)
Spent ==
  /\ pc = "idle" => requests <= MaxRetries * MaxRetries
  /\ pc = "reading" => requests <= stalled_retries * MaxRetries
  /\ pc = "resuming" =>
       /\ stalled_retries >= 1
       /\ requests <= (stalled_retries - 1) * MaxRetries + attempt

(* The products Spent compares.                                            *)
LEMMA Products ==
  ASSUME NEW s \in 0 .. MaxRetries
  PROVE  /\ s * MaxRetries \in Nat
         /\ (s - 1) * MaxRetries + MaxRetries = s * MaxRetries
         /\ s * MaxRetries <= MaxRetries * MaxRetries
         /\ MaxRetries * MaxRetries \in Nat
  BY BoundsAssumption

(* One more request.                                                       *)
LEMMA CountedBy ==
  ASSUME TypeOK
  PROVE  Counted \in Nat /\ Counted <= requests + 1
  BY DEF TypeOK, Counted

(* A step keeps the count of requests within what the loops allow.         *)
LEMMA SpentStep ==
  ASSUME TypeOK, Spent, [Next]_vars
  PROVE  Spent'
  <1> DEFINE done == stalled_retries * MaxRetries
             before == (stalled_retries - 1) * MaxRetries
             all == MaxRetries * MaxRetries
  <1>1. /\ done \in Nat /\ all \in Nat /\ done <= all
        /\ before \in Int /\ before + MaxRetries = done
    BY Products, BoundsAssumption DEF TypeOK
  <1>2. /\ requests \in Nat /\ attempt \in 0 .. MaxRetries - 1
        /\ stalled_retries \in 0 .. MaxRetries /\ MaxRetries \in Nat
    BY BoundsAssumption DEF TypeOK
  <1>3. /\ pc = "idle" => requests <= all
        /\ pc = "reading" => requests <= done
        /\ pc = "resuming" => stalled_retries >= 1 /\ requests <= before + attempt
    BY DEF Spent
  <1>4. pc \in {"reading", "resuming"} => requests <= all
    BY <1>1, <1>2, <1>3
  <1>5. ASSUME UNCHANGED <<pc, requests, stalled_retries, attempt>> PROVE Spent'
    BY <1>5 DEF Spent
  <1>6. ASSUME pc' = "idle", requests' <= all PROVE Spent'
    BY <1>6 DEF Spent
  <1>7. CASE ResourceReplaced
    BY <1>7, <1>5 DEF ResourceReplaced, reader, history
  <1>8. CASE CallRead
    <2>1. pc' = "reading" /\ requests' = 0 /\ stalled_retries' = stalled_retries
      BY <1>8 DEF CallRead
    <2>2. QED
      BY <2>1, <1>1 DEF Spent
  <1>9. CASE ReadData \/ ReadZero
    <2>1. pc = "reading" /\ pc' = "idle" /\ requests' = requests
      BY <1>9 DEF ReadData, ReadZero, Return
    <2>2. QED
      BY <2>1, <1>4, <1>6
  <1>10. CASE ReadError
    <2>1. pc = "reading" /\ requests' = requests
      BY <1>10 DEF ReadError
    <2>2. CASE Return("error")
      BY <2>1, <2>2, <1>4, <1>6 DEF Return
    <2>3. CASE ~Return("error")
      <3>1. /\ stalled_retries' = stalled_retries + 1 /\ pc' = "resuming"
            /\ attempt' = attempt
        BY <1>10, <2>3 DEF ReadError
      <3>2. stalled_retries' - 1 = stalled_retries /\ stalled_retries' >= 1
        BY <3>1, <1>2
      <3>3. requests' <= done + attempt'
        BY <3>1, <2>1, <1>1, <1>2, <1>3
      <3>4. QED
        BY <3>1, <3>2, <3>3 DEF Spent
    <2>4. QED
      BY <2>2, <2>3
  <1>11. CASE SendFails
    <2>1. pc = "resuming" /\ requests' \in Nat /\ requests' <= before + attempt + 1
      BY <1>11, <1>1, <1>2, <1>3, CountedBy DEF SendFails
    <2>2. requests' <= all
      BY <2>1, <1>1, <1>2
    <2>3. CASE Return("error")
      BY <2>2, <2>3, <1>6 DEF Return
    <2>4. CASE ~Return("error")
      <3>1. attempt' = attempt + 1 /\ UNCHANGED <<pc, stalled_retries>>
        BY <1>11, <2>4 DEF SendFails
      <3>2. requests' <= before + attempt'
        BY <3>1, <2>1, <1>1, <1>2
      <3>3. QED
        BY <3>1, <3>2, <2>1, <1>3 DEF Spent
    <2>5. QED
      BY <2>3, <2>4
  <1>12. CASE ServerAnswers
    <2>1. pc = "resuming" /\ requests' \in Nat /\ requests' <= before + attempt + 1
      BY <1>12, <1>1, <1>2, <1>3, CountedBy DEF ServerAnswers
    <2>2. requests' <= done /\ requests' <= all
      BY <2>1, <1>1, <1>2
    <2>3. PICK reply : IsReply(reply, offset) /\ Answered(reply)
      BY <1>12, AnswerFacts DEF TypeOK
    <2>4. CASE Resumed(reply)
      <3>1. pc' = "reading" /\ stalled_retries' = stalled_retries
        BY <2>4 DEF Resumed
      <3>2. QED
        BY <3>1, <2>2 DEF Spent
    <2>5. CASE Return("error") \/ Return("eof")
      BY <2>2, <2>5, <1>6 DEF Return
    <2>6. QED
      BY <2>3, <2>4, <2>5, AnswerCases
  <1>13. CASE UNCHANGED vars
    BY <1>13, <1>5 DEF vars, reader, history
  <1>14. QED
    BY <1>7, <1>8, <1>9, <1>10, <1>11, <1>12, <1>13 DEF Next, ReadStep

(* However the server answers, one call of `read` sends at most            *)
(* MAX_RETRIES * MAX_RETRIES requests: the two loops nest, neither repeats.*)
THEOREM BoundedRequests == Spec => []RequestsBounded
  <1>1. Init => Spent
    BY Products, BoundsAssumption DEF Init, Spent
  <1>2. TypeOK /\ Spent => RequestsBounded
    <2> SUFFICES ASSUME TypeOK, Spent PROVE RequestsBounded
      OBVIOUS
    <2> DEFINE done == stalled_retries * MaxRetries
               before == (stalled_retries - 1) * MaxRetries
               all == MaxRetries * MaxRetries
    <2>1. /\ done \in Nat /\ all \in Nat /\ done <= all
          /\ before \in Int /\ before + MaxRetries = done
      BY Products, BoundsAssumption DEF TypeOK
    <2>2. requests \in Nat /\ attempt \in 0 .. MaxRetries - 1 /\ MaxRetries \in Nat
      BY BoundsAssumption DEF TypeOK
    <2>3. /\ pc = "idle" => requests <= all
          /\ pc = "reading" => requests <= done
          /\ pc = "resuming" => requests <= before + attempt
      BY DEF Spent
    <2>4. requests <= all
      BY <2>1, <2>2, <2>3 DEF TypeOK
    <2>5. QED
      BY <2>4 DEF RequestsBounded
  <1>3. QED
    BY <1>1, <1>2, Typing, SpentStep, PTL DEF Spec

----------------------------------------------------------------------------
(* What a call of `read` has left to do: the reconnections that may still  *)
(* be begun, each of at most MaxRetries requests, and the requests of the  *)
(* one under way.                                                          *)
Rank == (MaxRetries - stalled_retries) * (MaxRetries + 1)
        + (IF pc = "resuming" THEN MaxRetries - attempt ELSE 0)

(* The products Rank compares: those of the reconnections left, and of the *)
(* ones left after one more.                                               *)
LEMMA Remaining ==
  ASSUME NEW s \in 0 .. MaxRetries
  PROVE  /\ (MaxRetries - s) * (MaxRetries + 1) \in Nat
         /\ s < MaxRetries =>
              (MaxRetries - (s + 1)) * (MaxRetries + 1)
                = (MaxRetries - s) * (MaxRetries + 1) - (MaxRetries + 1)
  <1>1. MaxRetries - s \in Nat /\ MaxRetries + 1 \in Nat
    BY BoundsAssumption
  <1>2. (MaxRetries - s) * (MaxRetries + 1) \in Nat
    BY <1>1
  <1>3. (MaxRetries - (s + 1)) * (MaxRetries + 1)
          = (MaxRetries - s) * (MaxRetries + 1) - (MaxRetries + 1)
    BY BoundsAssumption
  <1>4. QED
    BY <1>2, <1>3

(* A step of the call leaves less to do, or ends it.                       *)
LEMMA ProgressStep ==
  ASSUME TypeOK, ReadStep
  PROVE  pc' = "idle" \/ (Rank' \in Nat /\ Rank' < Rank)
  <1> DEFINE left(s) == (MaxRetries - s) * (MaxRetries + 1)
  <1>1. /\ stalled_retries \in 0 .. MaxRetries /\ attempt \in 0 .. MaxRetries - 1
        /\ MaxRetries \in Nat
    BY BoundsAssumption DEF TypeOK
  <1>2. left(stalled_retries) \in Nat
    BY <1>1, Remaining
  <1>3. CASE pc' = "idle"
    BY <1>3
  <1>4. CASE ReadError /\ pc' # "idle"
    <2>1. /\ pc = "reading" /\ pc' = "resuming" /\ attempt' = attempt
          /\ stalled_retries < MaxRetries /\ stalled_retries' = stalled_retries + 1
      BY <1>4 DEF ReadError, Return
    <2>2. /\ left(stalled_retries') \in Nat
          /\ left(stalled_retries') = left(stalled_retries) - (MaxRetries + 1)
      BY <1>1, <2>1, Remaining
    <2>3. Rank = left(stalled_retries) + 0
      BY <2>1 DEF Rank
    <2>4. Rank' = left(stalled_retries') + (MaxRetries - attempt)
      BY <2>1 DEF Rank
    <2>5. QED
      BY <1>1, <1>2, <2>2, <2>3, <2>4
  <1>5. CASE SendFails /\ pc' # "idle"
    <2>1. /\ pc = "resuming" /\ pc' = "resuming" /\ attempt' = attempt + 1
          /\ attempt + 1 < MaxRetries /\ stalled_retries' = stalled_retries
      BY <1>5 DEF SendFails, Return
    <2>2. Rank = left(stalled_retries) + (MaxRetries - attempt)
      BY <2>1 DEF Rank
    <2>3. Rank' = left(stalled_retries) + (MaxRetries - (attempt + 1))
      BY <2>1 DEF Rank
    <2>4. QED
      BY <1>1, <1>2, <2>1, <2>2, <2>3
  <1>6. CASE ServerAnswers /\ pc' # "idle"
    <2>1. PICK reply : IsReply(reply, offset) /\ Answered(reply)
      BY <1>6, AnswerFacts DEF TypeOK
    <2>2. Resumed(reply)
      BY <1>6, <2>1, AnswerCases DEF Return
    <2>3. /\ pc = "resuming" /\ pc' = "reading"
          /\ stalled_retries' = stalled_retries
      BY <1>6, <2>2 DEF ServerAnswers, Resumed
    <2>4. Rank = left(stalled_retries) + (MaxRetries - attempt)
      BY <2>3 DEF Rank
    <2>5. Rank' = left(stalled_retries) + 0
      BY <2>3 DEF Rank
    <2>6. QED
      BY <1>1, <1>2, <2>4, <2>5
  <1>7. QED
    BY <1>3, <1>4, <1>5, <1>6 DEF ReadStep, ReadData, ReadZero, Return

(* The safety half of ReadReturns: no call of `read` can go on for ever,   *)
(* whatever the server and the network do.  Every step of its two loops    *)
(* uses up some of a natural number that only a new call restores, and a   *)
(* replacement of the resource takes nothing away from it.                 *)
THEOREM ReadsRunOut ==
  Spec => [][/\ ReadStep => pc' = "idle" \/ (Rank' \in Nat /\ Rank' < Rank)
             /\ ResourceReplaced => Rank' = Rank /\ pc' = pc]_vars
  <1>1. ASSUME ResourceReplaced PROVE Rank' = Rank /\ pc' = pc
    BY <1>1 DEF ResourceReplaced, reader, Rank
  <1>2. TypeOK => /\ ReadStep => pc' = "idle" \/ (Rank' \in Nat /\ Rank' < Rank)
                  /\ ResourceReplaced => Rank' = Rank /\ pc' = pc
    BY <1>1, ProgressStep
  <1>3. QED
    BY <1>2, Typing, PTL DEF Spec

----------------------------------------------------------------------------
(* What the server must do for a resume to be safe.  Equal validators mean *)
(* the same version; and a Range request is not answered by 200 by a       *)
(* server that also goes back to versions it has replaced (it is then that *)
(* a restart leaves the reader with the validators of another version).    *)
ValidatorsIdentify ==
  \A v, w \in Versions :
    Etag[v] = Etag[w] \/ LastModified[v] = LastModified[w] => v = w

ForwardRestarts == "restarts" \notin Traits \/ "rollback" \notin Traits

(* The kept headers describe the version of the first response.            *)
Kept ==
  /\ original.content_length \in {NoHeader, Length[original.ver]}
  /\ original.etag \in {NoHeader, Etag[original.ver]}
  /\ original.last_modified \in {NoHeader, LastModified[original.ver]}

(* Nothing handed out is of another version than the body being read, and  *)
(* that version lies between the first response's and the server's.        *)
OneVersion ==
  /\ Kept
  /\ Advertised => \A i \in 1 .. offset : stream[i].ver = response.ver
  /\ Advertised /\ "restarts" \notin Traits => response.ver = original.ver
  /\ "rollback" \notin Traits =>
       original.ver <= response.ver /\ response.ver <= live

(* compare_validators does its work: a 206 that passes it is of the        *)
(* version the kept headers describe.                                      *)
LEMMA AcceptedVersion ==
  ASSUME TypeOK, Kept, Advertised, ValidatorsIdentify,
         NEW reply, IsReply(reply, offset), Acceptable(reply)
  PROVE  original.ver = live
  <1>1. /\ reply.etag \in {NoHeader, Etag[live]}
        /\ reply.last_modified \in {NoHeader, LastModified[live]}
    BY DEF IsReply
  <1>2. PICK n \in Validators :
          original[n] # NoHeader /\ reply[n] # NoHeader /\ original[n] = reply[n]
    BY DEF Acceptable, compare_validators, Advertised
  <1>3. CASE n = "etag"
    BY <1>1, <1>2, <1>3 DEF Kept, ValidatorsIdentify, TypeOK
  <1>4. CASE n = "last_modified"
    BY <1>1, <1>2, <1>4 DEF Kept, ValidatorsIdentify, TypeOK
  <1>5. QED
    BY <1>2, <1>3, <1>4 DEF Validators

(* A step keeps the stream of one version.                                 *)
LEMMA OneVersionStep ==
  ASSUME TypeOK, Placed, OneVersion, [Next]_vars,
         ValidatorsIdentify, ForwardRestarts
  PROVE  OneVersion'
  <1>1. ASSUME UNCHANGED <<response, offset, original, stream>>,
               "rollback" \notin Traits => live' \in Nat /\ live <= live'
        PROVE  OneVersion'
    <2>1. live \in Nat /\ response.ver \in Nat /\ original.ver \in Nat
      BY VersionsAssumption DEF TypeOK, Bodies
    <2>2. QED
      BY <1>1, <2>1 DEF OneVersion, Kept, Advertised
  <1>2. live \in Nat /\ live <= live
    BY VersionsAssumption DEF TypeOK
  <1>3. CASE ResourceReplaced
    <2>1. "rollback" \notin Traits => live' \in Nat /\ live <= live'
      BY <1>2, <1>3, VersionsAssumption DEF ResourceReplaced
    <2>2. QED
      BY <1>1, <1>3, <2>1 DEF ResourceReplaced, reader, history
  <1>4. CASE CallRead
    BY <1>1, <1>2, <1>4 DEF CallRead
  <1>5. CASE ReadData
    <2>1. PICK n \in Nat \ {0} :
            /\ offset' = offset + n
            /\ response' = [response EXCEPT !.pos = offset + n]
            /\ offset + n <= response.end
            /\ \A i \in 1 .. offset' :
                  stream'[i] = IF i <= offset THEN stream[i]
                               ELSE [ver |-> response.ver, pos |-> i]
      BY <1>5, DataFacts
    <2>2. UNCHANGED <<live, original>> /\ response'.ver = response.ver
      BY <1>5, <2>1 DEF ReadData, TypeOK, Bodies
    <2>3. ASSUME Advertised, NEW i \in 1 .. offset'
          PROVE  stream'[i].ver = response.ver
      <3>1. /\ i \in Nat /\ 1 <= i /\ offset \in Nat
            /\ stream'[i] = IF i <= offset THEN stream[i]
                            ELSE [ver |-> response.ver, pos |-> i]
        BY <2>1 DEF TypeOK
      <3>2. CASE i <= offset
        BY <2>3, <3>1, <3>2 DEF OneVersion
      <3>3. CASE ~(i <= offset)
        BY <3>1, <3>3
      <3>4. QED
        BY <3>2, <3>3
    <2>4. QED
      BY <2>2, <2>3 DEF OneVersion, Kept, Advertised
  <1>6. CASE ReadZero
    BY <1>1, <1>2, <1>6 DEF ReadZero
  <1>7. CASE ReadError
    <2>1. UNCHANGED <<live, offset, original, stream>> /\ response'.ver = response.ver
      BY <1>7 DEF ReadError, TypeOK, Bodies
    <2>2. QED
      BY <2>1 DEF OneVersion, Kept, Advertised
  <1>8. CASE SendFails
    BY <1>1, <1>2, <1>8 DEF SendFails
  <1>9. CASE ServerAnswers
    <2>1. PICK reply : IsReply(reply, offset) /\ Answered(reply)
      BY <1>9, AnswerFacts DEF TypeOK
    <2>2. UNCHANGED <<live, offset, original, stream>>
      BY <1>9 DEF ServerAnswers
    <2>3. CASE UNCHANGED response
      BY <1>1, <1>2, <2>2, <2>3
    <2>4. CASE Resumed(reply)
      <3>1. response'.ver = live
        BY <2>1, <2>4 DEF IsReply, Resumed
      <3>2. CASE reply.status = "200" /\ offset = 0
        <4>1. "rollback" \notin Traits
          BY <2>1, <3>2 DEF IsReply, ForwardRestarts
        <4>2. original.ver \in Nat /\ response.ver \in Nat
          BY VersionsAssumption DEF TypeOK, Bodies
        <4>3. original.ver <= live
          BY <1>2, <4>1, <4>2 DEF OneVersion
        <4>4. "restarts" \in Traits
          BY <2>1, <3>2 DEF IsReply
        <4>5. QED
          BY <1>2, <2>2, <3>1, <3>2, <4>3, <4>4 DEF OneVersion, Kept, Advertised
      <3>3. CASE Acceptable(reply)
        <4>1. Advertised => original.ver = live
          BY <2>1, <3>3, AcceptedVersion DEF OneVersion
        <4>2. original.ver \in Nat /\ response.ver \in Nat
          BY VersionsAssumption DEF TypeOK, Bodies
        <4>3. "rollback" \notin Traits => original.ver <= live
          BY <1>2, <4>2 DEF OneVersion
        <4>4. Advertised => response.ver = live
          BY <1>2, <4>1, <4>2 DEF OneVersion, ForwardRestarts
        <4>5. QED
          BY <1>2, <2>2, <3>1, <4>1, <4>3, <4>4 DEF OneVersion, Kept, Advertised
      <3>4. QED
        BY <2>1, <2>3, <3>2, <3>3, <2>4, AnswerCases
    <2>5. QED
      BY <2>1, <2>3, <2>4, AnswerCases
  <1>10. CASE UNCHANGED vars
    BY <1>1, <1>2, <1>10 DEF vars, reader, history
  <1>11. QED
    BY <1>3, <1>4, <1>5, <1>6, <1>7, <1>8, <1>9, <1>10 DEF Next, ReadStep

(* The stream is of one version in every reachable state.                  *)
LEMMA Unmixed ==
  ASSUME ValidatorsIdentify, ForwardRestarts
  PROVE  Spec => []OneVersion
  <1>1. Init => OneVersion
    <2> SUFFICES ASSUME Init PROVE OneVersion
      OBVIOUS
    <2>1. PICK h \in HeaderSets, framed \in BOOLEAN :
            /\ response = Body(live, 0, Length[live], framed)
            /\ original = [ver |-> live,
                   content_length |-> Header("content_length", h, Length[live]),
                   etag |-> Header("etag", h, Etag[live]),
                   last_modified |-> Header("last_modified", h, LastModified[live])]
      BY DEF Init
    <2>2. response.ver = live /\ original.ver = live /\ offset = 0 /\ live \in Nat
      BY <2>1, VersionsAssumption DEF Init, Body
    <2>3. Kept
      BY <2>1 DEF Kept, Header
    <2>4. QED
      BY <2>2, <2>3 DEF OneVersion
  <1>2. TypeOK /\ Placed /\ OneVersion /\ [Next]_vars => OneVersion'
    BY OneVersionStep
  <1>3. QED
    BY <1>1, <1>2, Typing, Placement, PTL DEF Spec

(* Bytes of two versions are never mixed, for every resource and server    *)
(* whose validators tell versions apart, provided a 200 restart cannot be  *)
(* followed by the version the kept validators describe.                   *)
THEOREM NoSplicing ==
  ASSUME ValidatorsIdentify, ForwardRestarts
  PROVE  Spec => []NoSplice
  <1>1. OneVersion => NoSplice
    BY DEF OneVersion, NoSplice
  <1>2. QED
    BY <1>1, Unmixed, PTL

----------------------------------------------------------------------------
(* What an end of file needs beyond that: a 206 runs to the end of the     *)
(* resource, and where a 200 may restart the read (and leave the length of *)
(* another version behind) replacements are never shorter.                 *)
FullRanges == "shortRange" \notin Traits

GrowingRestarts ==
  "restarts" \in Traits =>
    \A v, w \in Versions : v <= w => Length[v] <= Length[w]

(* The body ends where its version does; a body that failed is over only   *)
(* when nothing was missing or a call has reported the failure.            *)
Whole ==
  /\ response.end = Length[response.ver]
  /\ pc # "idle" => outcome = "none"
  /\ ~response.alive /\ pc # "resuming" /\ Advertised /\ ~failed =>
       offset = Length[response.ver]
  /\ EofComplete

(* A 416 below the end of the body being read is never taken for its end.  *)
LEMMA CompleteMeansAll ==
  ASSUME TypeOK, Placed, OneVersion, Advertised, ForwardRestarts, GrowingRestarts,
         response.end = Length[response.ver],
         NEW reply, IsReply(reply, offset), reply.status = "416",
         classify_range_not_satisfiable(offset, original.content_length) = "Complete"
  PROVE  offset = Length[response.ver]
  <1>1. /\ offset \in Nat /\ live \in Versions /\ response.ver \in Versions
        /\ original.ver \in Versions
        /\ Length[live] \in Nat /\ Length[response.ver] \in Nat
    BY LengthAssumption DEF TypeOK, Bodies
  <1>2. offset <= Length[response.ver]
    BY DEF Placed
  <1>3. CASE "restarts" \notin Traits
    <2>1. response.ver = original.ver
      BY <1>3 DEF OneVersion
    <2>2. offset >= Length[original.ver]
      BY DEF classify_range_not_satisfiable, OneVersion, Kept
    <2>3. QED
      BY <1>1, <1>2, <2>1, <2>2
  <1>4. CASE "restarts" \in Traits
    <2>1. response.ver <= live
      BY <1>4 DEF OneVersion, ForwardRestarts
    <2>2. Length[response.ver] <= Length[live] /\ Length[live] <= offset
      BY <1>1, <1>4, <2>1 DEF GrowingRestarts, IsReply
    <2>3. QED
      BY <1>1, <1>2, <2>2
  <1>5. QED
    BY <1>3, <1>4

(* A step keeps the body whole.                                            *)
LEMMA WholeStep ==
  ASSUME TypeOK, Placed, OneVersion, Whole, [Next]_vars,
         ForwardRestarts, FullRanges, GrowingRestarts
  PROVE  Whole'
  <1>1. ASSUME UNCHANGED <<response, offset, original, pc, outcome, failed>>
        PROVE  Whole'
    BY <1>1 DEF Whole, EofComplete, Advertised
  <1>2. ASSUME Return("error"), UNCHANGED <<offset, original>>,
               response'.ver = response.ver, response'.end = response.end
        PROVE  Whole'
    <2>1. failed' /\ outcome' = "error" /\ pc' = "idle"
      BY <1>2, Zenon DEF Return
    <2>2. QED
      BY <1>2, <2>1 DEF Whole, EofComplete
  <1>3. ASSUME Return("eof"), UNCHANGED <<offset, original>>, UNCHANGED response,
               Advertised /\ ~failed =>
                 offset = Length[response.ver] \/ (~response.framed /\ response.alive)
        PROVE  Whole'
    <2>1. (failed' <=> failed) /\ outcome' = "eof" /\ pc' = "idle"
      BY <1>3, Zenon DEF Return
    <2>2. QED
      BY <1>3, <2>1 DEF Whole, EofComplete, Advertised
  <1>4. CASE ResourceReplaced
    BY <1>1, <1>4 DEF ResourceReplaced, reader, history
  <1>5. CASE CallRead
    BY <1>5 DEF CallRead, Whole, EofComplete, Advertised
  <1>6. CASE ReadData
    <2>1. (failed' <=> failed) /\ outcome' = "data" /\ pc' = "idle"
      BY <1>6, Zenon DEF ReadData, Return
    <2>2. /\ response'.ver = response.ver /\ response'.end = response.end
          /\ response'.alive
      <3>1. PICK n \in 1 .. MaxChunk : response' = [response EXCEPT !.pos = @ + n]
        BY <1>6 DEF ReadData
      <3>2. response.alive
        BY <1>6 DEF ReadData
      <3>3. QED
        BY <3>1, <3>2 DEF TypeOK, Bodies
    <2>3. QED
      BY <2>1, <2>2 DEF Whole, EofComplete
  <1>7. CASE ReadZero
    <2>1. /\ Return("eof") /\ UNCHANGED <<offset, original>> /\ UNCHANGED response
          /\ pc = "reading"
          /\ response.pos = response.end \/ ~response.framed \/ ~response.alive
      BY <1>7 DEF ReadZero
    <2>2. ASSUME Advertised, ~failed, offset # Length[response.ver]
          PROVE  ~response.framed /\ response.alive
      BY <2>1, <2>2 DEF Whole, Placed
    <2>3. QED
      BY <1>3, <2>1, <2>2
  <1>8. CASE ReadError
    <2>1. /\ UNCHANGED <<offset, original>>
          /\ response'.ver = response.ver /\ response'.end = response.end
      BY <1>8 DEF ReadError, TypeOK, Bodies
    <2>2. CASE Return("error")
      BY <1>2, <2>1, <2>2
    <2>3. CASE ~Return("error")
      <3>1. pc' = "resuming" /\ outcome' = "none"
        BY <1>8, <2>3 DEF ReadError, Whole
      <3>2. QED
        BY <2>1, <3>1 DEF Whole, EofComplete
    <2>4. QED
      BY <2>2, <2>3
  <1>9. CASE SendFails
    <2>1. UNCHANGED <<offset, original, response>>
      BY <1>9 DEF SendFails
    <2>2. CASE Return("error")
      BY <1>2, <2>1, <2>2
    <2>3. CASE ~Return("error")
      <3>1. UNCHANGED <<pc, outcome, failed>>
        BY <1>9, <2>3 DEF SendFails
      <3>2. QED
        BY <1>1, <2>1, <3>1
    <2>4. QED
      BY <2>2, <2>3
  <1>10. CASE ServerAnswers
    <2>1. PICK reply : IsReply(reply, offset) /\ Answered(reply)
      BY <1>10, AnswerFacts DEF TypeOK
    <2>2. UNCHANGED <<live, offset, original, stream>> /\ pc = "resuming"
      BY <1>10 DEF ServerAnswers
    <2>3. CASE Resumed(reply) /\ reply.status \in {"200", "206"}
      <3>1. response'.end = Length[response'.ver] /\ response'.alive
        BY <2>1, <2>3 DEF IsReply, Resumed, FullRanges
      <3>2. outcome' = "none" /\ pc' = "reading"
        BY <2>2, <2>3 DEF Resumed, Whole
      <3>3. QED
        BY <3>1, <3>2 DEF Whole, EofComplete
    <2>4. CASE UNCHANGED response /\ Return("error")
      BY <1>2, <2>2, <2>4
    <2>5. CASE /\ UNCHANGED response /\ Return("eof") /\ reply.status = "416"
               /\ classify_range_not_satisfiable
                    (offset, original.content_length) = "Complete"
      <3>1. Advertised => offset = Length[response.ver]
        BY <2>1, <2>5, CompleteMeansAll DEF Whole
      <3>2. QED
        BY <1>3, <2>2, <2>5, <3>1
    <2>6. QED
      BY <2>1, <2>3, <2>4, <2>5, AnswerCases
  <1>11. CASE UNCHANGED vars
    BY <1>1, <1>11 DEF vars, reader, history
  <1>12. QED
    BY <1>4, <1>5, <1>6, <1>7, <1>8, <1>9, <1>10, <1>11 DEF Next, ReadStep

(* The body stays whole in every reachable state.                          *)
LEMMA Wholeness ==
  ASSUME ValidatorsIdentify, ForwardRestarts, FullRanges, GrowingRestarts
  PROVE  Spec => []Whole
  <1>1. Init => Whole
    <2> SUFFICES ASSUME Init PROVE Whole
      OBVIOUS
    <2>1. PICK h \in HeaderSets, framed \in BOOLEAN :
            response = Body(live, 0, Length[live], framed)
      BY DEF Init
    <2>2. QED
      BY <2>1 DEF Init, Body, Whole, EofComplete
  <1>2. TypeOK /\ Placed /\ OneVersion /\ Whole /\ [Next]_vars => Whole'
    BY WholeStep
  <1>3. QED
    BY <1>1, <1>2, Typing, Placement, Unmixed, PTL DEF Spec

(* A clean end of file is never a truncation, for every resource and every *)
(* server that keeps to those conditions: the end of the body, a 416 and a *)
(* read after a failed one included.                                       *)
THEOREM EofIsComplete ==
  ASSUME ValidatorsIdentify, ForwardRestarts, FullRanges, GrowingRestarts
  PROVE  Spec => []EofComplete
  <1>1. Whole => EofComplete
    BY DEF Whole
  <1>2. QED
    BY <1>1, Wholeness, PTL

----------------------------------------------------------------------------
(* Every response carries a validator, and a length or chunks that tell a  *)
(* complete body from one cut short.                                       *)
Validated == \A h \in HeaderSets : h \cap Validators # {}

AllFramed == "unframed" \notin Traits

Sound == Advertised /\ response.framed

(* These conditions on the server show in every state of the reader.       *)
LEMMA Soundness ==
  ASSUME Validated, AllFramed
  PROVE  Spec => []Sound
  <1>1. Init => Sound
    <2> SUFFICES ASSUME Init PROVE Sound
      OBVIOUS
    <2>1. PICK h \in HeaderSets, framed \in BOOLEAN :
            /\ framed \in Framings(h)
            /\ response = Body(live, 0, Length[live], framed)
            /\ original = [ver |-> live,
                   content_length |-> Header("content_length", h, Length[live]),
                   etag |-> Header("etag", h, Etag[live]),
                   last_modified |-> Header("last_modified", h, LastModified[live])]
      BY DEF Init
    <2>2. response.framed
      BY <2>1 DEF Framings, AllFramed, Body
    <2>3. PICK n \in {"etag", "last_modified"} : n \in h
      BY DEF Validated, Validators
    <2>4. Etag[live] # NoHeader /\ LastModified[live] # NoHeader
      BY HeadersAssumption DEF Init
    <2>5. original[n] # NoHeader
      BY <2>1, <2>3, <2>4 DEF Header
    <2>6. QED
      BY <2>2, <2>5 DEF Sound, Advertised, Validators
  <1>2. TypeOK /\ Sound /\ [Next]_vars => Sound'
    <2> SUFFICES ASSUME TypeOK, Sound, [Next]_vars PROVE Sound'
      OBVIOUS
    <2>1. original' = original
      BY DEF Next, ReadStep, ResourceReplaced, CallRead, ReadData, ReadZero, ReadError,
             SendFails, ServerAnswers, vars, reader
    <2>2. Advertised'
      BY <2>1 DEF Sound, Advertised
    <2>3. CASE ServerAnswers
      <3>1. PICK reply : IsReply(reply, offset) /\ Answered(reply)
        BY <2>3, AnswerFacts DEF TypeOK
      <3>2. response' = reply.body \/ response' = response
        BY <3>1, AnswerCases DEF Resumed
      <3>3. QED
        BY <3>1, <3>2, <2>2 DEF Sound, IsReply, AllFramed
    <2>4. CASE ~ServerAnswers
      <3>1. response'.framed = response.framed
        BY <2>4 DEF Next, ReadStep, ResourceReplaced, CallRead, ReadData, ReadZero,
             ReadError, SendFails, vars, TypeOK, Bodies
      <3>2. QED
        BY <3>1, <2>2 DEF Sound
    <2>5. QED
      BY <2>3, <2>4
  <1>3. QED
    BY <1>1, <1>2, Typing, PTL DEF Spec

(* A call that returns is an answer of the promise.                        *)
LEMMA ReturnPromised ==
  ASSUME NEW r \in {"data", "eof", "error"}, pc # "idle", Return(r)
  PROVE  /\ Promise!Answer(r)
         /\ r = "error" => failed' = TRUE
         /\ r # "error" /\ TypeOK => failed' = failed
  <1>1. (pc # "idle") /\ (pc' # "idle") = FALSE /\ outcome' = r
    BY DEF Return
  <1>2. failed' = (failed \/ r = "error")
    BY Zenon DEF Return
  <1>3. r = "error" => failed' = TRUE
    BY <1>2
  <1>4. r # "error" /\ TypeOK => failed' = failed
    BY <1>2 DEF TypeOK
  <1>5. QED
    BY <1>1, <1>3, <1>4 DEF Promise!Answer

(* A step of the reader or its server is a step of the promise, or none.   *)
LEMMA PromisedStep ==
  ASSUME TypeOK, Placed, OneVersion, Whole, Sound, [Next]_vars,
         ValidatorsIdentify, ForwardRestarts, GrowingRestarts
  PROVE  [Promise!Next]_(Promise!vars)
  <1>1. ASSUME UNCHANGED <<response, offset, pc, outcome, failed>>
        PROVE  UNCHANGED Promise!vars
    BY <1>1 DEF Promise!vars
  <1>2. ASSUME pc # "idle", Return("error"), offset' = offset,
               response'.ver = response.ver
        PROVE  Promise!Fail
    BY <1>2, ReturnPromised DEF Promise!Fail
  <1>3. ASSUME pc # "idle", Return("eof"), offset' = offset, UNCHANGED response,
               failed \/ offset = Length[response.ver]
        PROVE  Promise!Finish
    BY <1>3, ReturnPromised DEF Promise!Finish
  <1>4. CASE ResourceReplaced
    BY <1>1, <1>4 DEF ResourceReplaced, reader, history
  <1>5. CASE CallRead
    BY <1>5 DEF CallRead, Promise!Ask, Promise!Next
  <1>6. CASE ReadData
    <2>1. PICK n \in Nat \ {0} :
            /\ offset' = offset + n
            /\ response' = [response EXCEPT !.pos = offset + n]
            /\ offset + n <= response.end
      BY <1>6, DataFacts
    <2>2. response'.ver = response.ver /\ response.end = Length[response.ver]
          /\ response.end \in Nat /\ offset \in Nat
      BY <2>1 DEF Whole, TypeOK, Bodies
    <2>3. offset' \in offset + 1 .. Length[response.ver]
      BY <2>1, <2>2
    <2>4. Promise!Answer("data") /\ failed' = failed
      BY <1>6, ReturnPromised DEF ReadData
    <2>5. QED
      BY <2>2, <2>3, <2>4 DEF Promise!Give, Promise!Next
  <1>7. CASE ReadZero
    <2>1. /\ pc = "reading" /\ Return("eof") /\ offset' = offset
          /\ UNCHANGED response
          /\ response.pos = response.end \/ ~response.framed \/ ~response.alive
      BY <1>7 DEF ReadZero
    <2>2. failed \/ offset = Length[response.ver]
      BY <2>1 DEF Whole, Placed, Sound
    <2>3. QED
      BY <1>3, <2>1, <2>2 DEF Promise!Next
  <1>8. CASE ReadError
    <2>1. /\ pc = "reading" /\ offset' = offset
          /\ response'.ver = response.ver
      BY <1>8 DEF ReadError, TypeOK, Bodies
    <2>2. CASE Return("error")
      BY <1>2, <2>1, <2>2 DEF Promise!Next
    <2>3. CASE ~Return("error")
      <3>1. pc' = "resuming" /\ UNCHANGED <<outcome, failed>>
        BY <1>8, <2>3 DEF ReadError
      <3>2. (pc' # "idle") = (pc # "idle")
        BY <2>1, <3>1
      <3>3. QED
        BY <2>1, <3>1, <3>2 DEF Promise!vars
    <2>4. QED
      BY <2>2, <2>3
  <1>9. CASE SendFails
    <2>1. pc = "resuming" /\ UNCHANGED <<offset, response>>
      BY <1>9 DEF SendFails
    <2>2. CASE Return("error")
      BY <1>2, <2>1, <2>2 DEF Promise!Next
    <2>3. CASE ~Return("error")
      <3>1. UNCHANGED <<pc, outcome, failed>>
        BY <1>9, <2>3 DEF SendFails
      <3>2. QED
        BY <1>1, <2>1, <3>1
    <2>4. QED
      BY <2>2, <2>3
  <1>10. CASE ServerAnswers
    <2>1. PICK reply : IsReply(reply, offset) /\ Answered(reply)
      BY <1>10, AnswerFacts DEF TypeOK
    <2>2. offset' = offset /\ pc = "resuming"
      BY <1>10 DEF ServerAnswers
    <2>3. CASE UNCHANGED response /\ Return("error")
      BY <1>2, <2>2, <2>3 DEF Promise!Next
    <2>4. CASE /\ UNCHANGED response /\ Return("eof") /\ reply.status = "416"
               /\ classify_range_not_satisfiable
                    (offset, original.content_length) = "Complete"
      <3>1. offset = Length[response.ver]
        BY <2>1, <2>4, CompleteMeansAll DEF Whole, Sound
      <3>2. QED
        BY <1>3, <2>2, <2>4, <3>1 DEF Promise!Next
    <2>5. CASE Resumed(reply)
      <3>1. /\ response'.ver = live /\ UNCHANGED <<outcome, failed>>
            /\ (pc' # "idle") = (pc # "idle")
        BY <2>1, <2>2, <2>5 DEF IsReply, Resumed
      <3>2. CASE offset = 0
        BY <2>2, <3>1, <3>2 DEF Promise!Choose, Promise!Next, TypeOK
      <3>3. CASE Acceptable(reply)
        <4>1. original.ver = live
          BY <2>1, <3>3, AcceptedVersion DEF OneVersion, Sound
        <4>2. /\ original.ver \in Nat /\ response.ver \in Nat /\ live \in Nat
          BY VersionsAssumption DEF TypeOK, Bodies
        <4>3. response.ver = live
          BY <4>1, <4>2 DEF OneVersion, ForwardRestarts, Sound
        <4>4. QED
          BY <2>2, <3>1, <4>3 DEF Promise!vars
      <3>4. QED
        BY <2>1, <2>3, <2>4, <3>2, <3>3, AnswerCases
    <2>6. QED
      BY <2>1, <2>3, <2>4, <2>5, AnswerCases
  <1>11. CASE UNCHANGED vars
    BY <1>1, <1>11 DEF vars, reader, history
  <1>12. QED
    BY <1>4, <1>5, <1>6, <1>7, <1>8, <1>9, <1>10, <1>11 DEF Next, ReadStep

(* The reader implements ByteStream, for every resource: every initial     *)
(* state and every step, reconnections included, is one of the stream of   *)
(* one version, in order and complete, that the consumer is promised.      *)
THEOREM KeepsPromise ==
  ASSUME ValidatorsIdentify, ForwardRestarts, FullRanges, GrowingRestarts,
         Validated, AllFramed
  PROVE  Spec => ImplementsByteStream
  <1>1. Init => Promise!Init
    <2> SUFFICES ASSUME Init PROVE Promise!Init
      OBVIOUS
    <2>1. response.ver = live /\ live \in Versions
      BY DEF Init, Body
    <2>2. QED
      BY <2>1 DEF Init, Promise!Init
  <1>2. TypeOK /\ Placed /\ OneVersion /\ Whole /\ Sound /\ [Next]_vars
          => [Promise!Next]_(Promise!vars)
    BY PromisedStep
  <1>3. QED
    BY <1>1, <1>2, Typing, Placement, Unmixed, Wholeness, Soundness, PTL
       DEF Spec, ImplementsByteStream, Promise!Spec
============================================================================
