--------------------------- MODULE S3UploadProofs ---------------------------
(***************************************************************************)
(* Proofs about S3Upload, for any number of callers, any files, any part   *)
(* sizes and limits and any number of retries and late requests: its       *)
(* typing, the place of the parts, what Ok means, when uploads are aborted,*)
(* the limits of the store, that it implements AtomicPut, and that no call *)
(* goes on for ever.                                                       *)
(***************************************************************************)
EXTENDS S3Upload, SequenceTheorems, TLAPS

(* What a theorem may assume of the environment beyond the module.         *)
FilesStay == "edits" \notin Traits
OpensSucceed == "openFails" \notin Traits
BodiesArrive == "bodyLost" \notin Traits

Results == {"none", "ok", "error"}

(* A multipart upload on the store.                                        *)
PartMaps == UNION {[numbers -> Segments] : numbers \in SUBSET (Nat \ {0})}

Uploads == [state : {"open", "completed", "aborted"}, parts : PartMaps]

(* Where the segments end, and so where the next one begins.               *)
End(content) == IF content = <<>> THEN 0 ELSE content[Len(content)].to

(* The steps of a call that has an upload, but for the opening of the file.*)
Parting == {"read", "part", "complete", "cleanup", "abort"}

(* The steps of a call that has sent a Complete.                           *)
Ending == {"complete", "cleanup", "abort", "done"}

(* The local variables s of a call.                                        *)
Well(s) ==
  /\ s \in Calls
  /\ s.pc \in {"stat", "create", "put", "done"} => s.id = 0
  /\ s.pc \in Parting => s.id # 0
  /\ s.pc \in {"stat", "create", "open"} => s.etags = <<>> /\ s.position = 0
  /\ Consecutive(s.etags)
  /\ s.pc = "read" => s.position = End(s.etags)
  /\ s.pc \in {"put", "part"} => Len(s.body) = 1
  /\ s.pc = "put" => s.body[1].from = 0
  /\ s.pc = "part" => s.body[1].from = End(s.etags) /\ s.body[1].to = s.position
  /\ s.pc = "complete" => s.body = s.etags
  /\ s.outcome # "none" <=> s.pc = "done"

(* A request under way.                                                    *)
Sane(r) ==
  /\ r \in Requests /\ r.number > 0
  /\ r.kind \in {"part", "complete", "abort"} => r.id # 0
  /\ r.kind \in {"create", "put"} => r.id = 0
  /\ r.kind = "part" => Len(r.content) = 1
  /\ r.kind \in {"complete", "put"} => Consecutive(r.content)

Typed ==
  /\ file \in [Callers -> Versions]
  /\ DOMAIN call = Callers /\ call = [c \in Callers |-> call[c]]
  /\ \A c \in Callers : Well(call[c]) /\ call[c].id <= Len(uploads)
  /\ \A r \in network : Sane(r) /\ r.id <= Len(uploads)
  /\ uploads \in Seq(Uploads)
  /\ object \in Seq(Segments)
  /\ stored \subseteq Callers

(* An upload is one caller's, who has stored it if it is complete.         *)
Owned ==
  /\ \A c, d \in Callers : call[c].id # 0 /\ call[c].id = call[d].id => c = d
  /\ \A r \in network, c \in Callers :
       r.id # 0 /\ call[c].id = r.id => r.by = c
  /\ \A c \in Callers :
       call[c].id # 0 /\ uploads[call[c].id].state = "completed" => c \in stored

(* The part k of the contents v.                                           *)
Nth(v, k) ==
  Segment(v, (k - 1) * ChunkSize(Length[v]),
             Smaller(k * ChunkSize(Length[v]), Length[v]))

(* The first parts of v, each of them needed.                              *)
Parts(content, v) ==
  /\ Len(content) <= TotalParts(Length[v])
  /\ \A k \in 1 .. Len(content) :
       content[k] = Nth(v, k) /\ (k - 1) * ChunkSize(Length[v]) < Length[v]

(* The local variables of a call whose file stays v.                       *)
Exact(s, v) ==
  /\ s.pc = "create" \/ s.id # 0 => s.size = Length[v]
  /\ Parts(s.etags, v)
  /\ s.pc = "put" => s.body = <<Segment(v, 0, Length[v])>>
  /\ s.pc = "part" => Parts(Append(s.etags, s.body[1]), v)
  /\ s.pc = "complete" => Len(s.etags) = TotalParts(Length[v])

ExactRequest(r, v) ==
  /\ r.kind = "put" => r.content = <<Segment(v, 0, Length[v])>>
  /\ r.kind = "part" => r.number <= TotalParts(Length[v])
  /\ r.kind = "complete" =>
       Parts(r.content, v) /\ Len(r.content) = TotalParts(Length[v])

Precise ==
  /\ \A c \in Callers : Exact(call[c], file[c])
  /\ \A r \in network : ExactRequest(r, file[r.by])

(* Nobody stores twice: who has stored is not to complete an open upload,  *)
(* and has no PUT under way.                                               *)
Once ==
  /\ \A c \in stored : call[c].pc \in {"put"} \cup Ending
  /\ \A c \in Callers : call[c].id # 0 /\ Open(call[c].id) => c \notin stored
  /\ \A r \in network :
       /\ r.kind = "complete" =>
            /\ Open(r.id) => r.by \notin stored
            /\ call[r.by].pc \in Ending
            /\ call[r.by].id \in {0, r.id}
       /\ r.kind = "put" =>
            r.by \notin stored /\ call[r.by].pc \in {"put", "done"}
  /\ \A r, q \in network :
       r.by = q.by /\ {r.kind, q.kind} \subseteq {"put", "complete"} =>
         r.kind = q.kind /\ r.id = q.id /\ (r.kind = "put" => r = q)
----------------------------------------------------------------------------
(* What the steps of a call assign.                                        *)

(* Where a step may lead from a place.                                     *)
Flows(from, to) ==
  /\ from # "done"
  /\ from = "put" => to = "done"
  /\ from \in Ending => to \in Ending
  /\ to = "put" => from = "open"
  /\ to = "complete" => from \in {"read", "complete"}

(* The call c takes the local variables t; it sends a request where it     *)
(* waits for an answer, others may be lost.                                *)
Moves(c, t) ==
  /\ call' = [call EXCEPT ![c] = t]
  /\ network' \subseteq network \cup
       (IF t.pc \in Kinds THEN {Request(c, t)} ELSE {})
  /\ Well(t) /\ t.id \in {call[c].id, 0} /\ Flows(call[c].pc, t.pc)
  /\ Exact(call[c], file[c]) => Exact(t, file[c])
  /\ t.pc = "done" =>
       /\ t.outcome = "error"
       /\ call[c].id # 0 => call[c].pc = "abort" \/ ~OpensSucceed

LEMMA ToPlace ==
  ASSUME NEW s \in Calls, NEW place \in Places
  PROVE  LET t == [s EXCEPT !.pc = place]
         IN  /\ t \in Calls /\ t.pc = place
             /\ t.size = s.size /\ t.id = s.id /\ t.position = s.position
             /\ t.body = s.body /\ t.etags = s.etags /\ t.outcome = s.outcome
  BY DEF Calls

LEMMA ToIdle ==
  ASSUME NEW place \in Places, NEW result \in Results,
         result # "none" <=> place = "done", place \in {"stat", "done"}
  PROVE  LET t == Idle(place, result)
         IN  /\ Well(t) /\ t.id = 0 /\ t.pc = place /\ t.outcome = result
             /\ t.etags = <<>> /\ t.size = 0
  <1>1. Idle(place, result) \in Calls
    BY BoundsAssumption DEF Idle, Calls, Results
  <1>2. Consecutive(<<>>)
    BY DEF Consecutive
  <1>3. QED
    BY <1>1, <1>2 DEF Idle, Well, Parting
----------------------------------------------------------------------------
(* The sizes of the parts.                                                 *)

LEMMA LimitsTyped ==
  /\ Requested \in Nat /\ MaxParts \in Nat /\ MaxParts > 0
  /\ MinPartSize \in Nat /\ MinPartSize > 0 /\ MaxRetries \in Nat
  /\ \A v \in Versions : Length[v] \in Nat
  BY BoundsAssumption, LengthAssumption

(* Division rounded up.                                                    *)
LEMMA RoundedUp ==
  ASSUME NEW n \in Nat, NEW d \in Nat, d > 0
  PROVE  LET q == (n + d - 1) \div d
         IN  q \in Nat /\ n <= q * d /\ q * d < n + d
  <1> DEFINE q == (n + d - 1) \div d
             m == (n + d - 1) % d
  <1>1. n + d - 1 \in Nat /\ n + d - 1 = d * q + m /\ m \in 0 .. d - 1 /\ q \in Int
    OBVIOUS
  <1>2. q \in Nat
    OBVIOUS
  <1>3. d * q = q * d
    BY <1>1
  <1> HIDE DEF q, m
  <1>4. n <= q * d /\ q * d < n + d
    BY <1>1, <1>2, <1>3
  <1>5. QED
    BY <1>2, <1>4 DEF q

(* Products keep their order.                                              *)
LEMMA Monotone ==
  ASSUME NEW a \in Int, NEW b \in Int, NEW d \in Nat, a <= b
  PROVE  a * d <= b * d
  OBVIOUS

LEMMA ChunkFacts ==
  ASSUME NEW size \in Nat
  PROVE  /\ ChunkSize(size) \in Nat /\ ChunkSize(size) > 0
         /\ ChunkSize(size) >= MinPartSize
         /\ size <= MaxParts * ChunkSize(size)
  <1> DEFINE required == (size + MaxParts - 1) \div MaxParts
  <1>1. required \in Nat /\ size <= required * MaxParts
    BY LimitsTyped, RoundedUp
  <1>2. /\ ChunkSize(size) \in Nat /\ ChunkSize(size) >= MinPartSize
        /\ ChunkSize(size) >= required
    <2> HIDE DEF required
    <2>1. ChunkSize(size) = Larger(Larger(Requested, required), MinPartSize)
      BY DEF ChunkSize, required
    <2>2. QED
      BY <1>1, <2>1, LimitsTyped DEF Larger
  <1> HIDE DEF required
  <1>3. required * MaxParts <= ChunkSize(size) * MaxParts
    BY <1>1, <1>2, LimitsTyped, Monotone
  <1>4. ChunkSize(size) * MaxParts = MaxParts * ChunkSize(size)
    BY <1>2, LimitsTyped
  <1>5. ChunkSize(size) * MaxParts \in Int /\ required * MaxParts \in Int
    BY <1>1, <1>2, LimitsTyped
  <1>6. QED
    BY <1>1, <1>2, <1>3, <1>4, <1>5, LimitsTyped

(* The parts cover the file, each is needed, and they are not too many.    *)
LEMMA PartFacts ==
  ASSUME NEW size \in Nat
  PROVE  /\ TotalParts(size) \in 0 .. MaxParts
         /\ \A n \in Nat : n < TotalParts(size) <=> n * ChunkSize(size) < size
  <1> DEFINE d == ChunkSize(size)
             q == TotalParts(size)
  <1>1. d \in Nat /\ d > 0 /\ size <= MaxParts * d
    BY ChunkFacts
  <1>2. q = (size + d - 1) \div d
    BY DEF TotalParts
  <1> HIDE DEF d, q
  <1>3. q \in Nat /\ size <= q * d /\ q * d < size + d
    BY <1>1, <1>2, RoundedUp
  <1>4. ASSUME NEW n \in Nat
        PROVE  n < q <=> n * d < size
    <2>1. CASE n < q
      <3>1. (n + 1) * d <= q * d
        BY <1>1, <1>3, <2>1, Monotone
      <3>2. (n + 1) * d = n * d + d /\ n * d \in Int /\ q * d \in Int
        BY <1>1, <1>3
      <3>3. QED
        BY <1>1, <1>3, <2>1, <3>1, <3>2
    <2>2. CASE n >= q
      <3>1. q * d <= n * d
        BY <1>1, <1>3, <2>2, Monotone
      <3>2. n * d \in Int /\ q * d \in Int
        BY <1>1, <1>3
      <3>3. QED
        BY <1>1, <1>3, <2>2, <3>1, <3>2
    <2>3. QED
      BY <1>3, <2>1, <2>2
  <1>5. q <= MaxParts
    <2>1. ~(MaxParts * d < size)
      BY <1>1, LimitsTyped
    <2>2. QED
      BY <1>3, <1>4, <2>1, LimitsTyped
  <1>6. QED
    BY <1>3, <1>4, <1>5, LimitsTyped DEF d, q

LEMMA Multiples ==
  ASSUME NEW n \in Int, NEW d \in Int
  PROVE  n * d \in Int /\ (n + 1) * d = n * d + d /\ (n - 1) * d = n * d - d
  OBVIOUS
(* A segment that begins where the others end.                             *)
LEMMA Chained ==
  ASSUME NEW content \in Seq(Segments), Consecutive(content),
         NEW seg \in Segments, seg.from = End(content)
  PROVE  LET longer == Append(content, seg)
         IN  /\ longer \in Seq(Segments) /\ Consecutive(longer)
             /\ longer # <<>> /\ End(longer) = seg.to
  BY SMTT(20) DEF Consecutive, End

(* Where the first parts end.                                              *)
LEMMA PartsEnd ==
  ASSUME NEW v \in Versions, NEW content \in Seq(Segments), Parts(content, v)
  PROVE  End(content) = Smaller(Len(content) * ChunkSize(Length[v]), Length[v])
  <1>1. Length[v] \in Nat /\ ChunkSize(Length[v]) \in Nat /\ Len(content) \in Nat
    BY LimitsTyped, ChunkFacts, LenProperties
  <1>2. CASE content = <<>>
    <2>1. Len(content) * ChunkSize(Length[v]) = 0
      BY <1>1, <1>2
    <2>2. QED
      BY <1>1, <1>2, <2>1 DEF End, Smaller
  <1>3. CASE content # <<>>
    <2>1. Len(content) \in 1 .. Len(content)
      BY <1>3
    <2>2. content[Len(content)] = Nth(v, Len(content))
      BY <2>1 DEF Parts
    <2>3. QED
      BY <1>3, <2>2 DEF End, Nth, Segment
  <1>4. QED
    BY <1>2, <1>3

(* One more part, read where the others end.                               *)
LEMMA NextPart ==
  ASSUME NEW v \in Versions, NEW content \in Seq(Segments), Parts(content, v),
         Len(content) < TotalParts(Length[v]), End(content) < Length[v]
  PROVE  LET from == End(content)
             to == Smaller(from + ChunkSize(Length[v]), Length[v])
         IN  Parts(Append(content, Segment(v, from, to)), v)
  <1> DEFINE d == ChunkSize(Length[v])
             n == Len(content)
             from == End(content)
             to == Smaller(from + d, Length[v])
             longer == Append(content, Segment(v, from, to))
  <1>1. Length[v] \in Nat /\ d \in Nat /\ n \in Nat
    BY LimitsTyped, ChunkFacts, LenProperties
  <1>2. n * d \in Int /\ (n + 1) * d = n * d + d
    BY <1>1, Multiples
  <1>3. from = Smaller(n * d, Length[v])
    BY PartsEnd
  <1>4. from = n * d /\ n * d < Length[v]
    BY <1>1, <1>2, <1>3 DEF Smaller
  <1>5. Segment(v, from, to) = Nth(v, n + 1)
    BY <1>1, <1>2, <1>4 DEF Nth
  <1>6. /\ Len(longer) = n + 1
        /\ \A k \in 1 .. n : longer[k] = content[k]
        /\ longer[n + 1] = Segment(v, from, to)
    OBVIOUS
  <1>7. TotalParts(Length[v]) \in Int
    BY <1>1, PartFacts, SMTT(20)
  <1>8. n + 1 <= TotalParts(Length[v])
    BY <1>1, <1>7
  <1>9. ASSUME NEW k \in 1 .. n + 1
        PROVE  longer[k] = Nth(v, k) /\ (k - 1) * d < Length[v]
    <2>1. CASE k = n + 1
      BY <1>1, <1>4, <1>5, <1>6, <2>1
    <2>2. CASE k # n + 1
      BY <1>1, <1>6, <2>2 DEF Parts
    <2>3. QED
      BY <2>1, <2>2
  <1>10. QED
    BY <1>6, <1>8, <1>9 DEF Parts

(* Nothing is left to read: all the parts are there.                       *)
LEMMA LastPart ==
  ASSUME NEW v \in Versions, NEW content \in Seq(Segments), Parts(content, v),
         ~(/\ Len(content) < TotalParts(Length[v])
           /\ End(content) < Length[v])
  PROVE  Len(content) = TotalParts(Length[v])
  <1> DEFINE d == ChunkSize(Length[v])
             n == Len(content)
             q == TotalParts(Length[v])
  <1>1. /\ Length[v] \in Nat /\ d \in Nat /\ n \in Nat
        /\ q \in Nat /\ n <= q
    <2>1. Length[v] \in Nat /\ d \in Nat /\ n \in Nat
      BY LimitsTyped, ChunkFacts, LenProperties
    <2>2. q \in 0 .. MaxParts
      BY <2>1, PartFacts
    <2>3. QED
      BY <2>1, <2>2, LimitsTyped DEF Parts
  <1>2. n * d \in Int
    BY <1>1, Multiples
  <1>3. End(content) = Smaller(n * d, Length[v])
    BY PartsEnd
  <1>4. n < q => n * d < Length[v]
    BY <1>1, PartFacts
  <1>5. QED
    BY <1>1, <1>2, <1>3, <1>4 DEF Smaller

LEMMA NoParts ==
  ASSUME NEW v \in Versions
  PROVE  Parts(<<>>, v)
  BY LimitsTyped, PartFacts DEF Parts

----------------------------------------------------------------------------
(* The steps of a call.                                                    *)

(* What is sent is sane.                                                   *)
LEMMA Sending ==
  ASSUME NEW c \in Callers, NEW s, Well(s), s.pc \in Kinds
  PROVE  Sane(Request(c, s)) /\ Request(c, s).id = s.id
  <1>1. s \in Calls /\ s.body \in Seq(Segments) /\ s.etags \in Seq(Segments)
    BY DEF Well, Calls
  <1>2. Request(c, s) \in Requests
    BY <1>1 DEF Request, Requests, Calls
  <1>3. /\ Request(c, s).kind = s.pc /\ Request(c, s).id = s.id
        /\ Request(c, s).content = s.body /\ Request(c, s).number = Len(s.etags) + 1
    BY DEF Request
  <1>4. s.pc \in {"complete", "put"} => Consecutive(s.body)
    BY <1>1 DEF Well, Consecutive
  <1>5. QED
    BY <1>1, <1>2, <1>3, <1>4 DEF Sane, Well, Parting
(* The call returns.                                                       *)
LEMMA GivesUp ==
  ASSUME Typed, NEW c \in Callers, Return(c, "error"),
         network' \subseteq network, call[c].pc # "done",
         call[c].id # 0 => call[c].pc = "abort" \/ ~OpensSucceed
  PROVE  Moves(c, Idle("done", "error"))
  <1> DEFINE t == Idle("done", "error")
  <1>1. call' = [call EXCEPT ![c] = t]
    BY DEF Return
  <1>2. /\ Well(t) /\ t.id = 0 /\ t.pc = "done" /\ t.etags = <<>>
        /\ t.outcome = "error"
    BY ToIdle DEF Places, Results
  <1> HIDE DEF t
  <1>3. Exact(t, file[c])
    BY <1>2, NoParts DEF Exact, Typed
  <1>4. QED
    BY <1>1, <1>2, <1>3 DEF Moves, Flows, Ending, t

LEMMA StatStep ==
  ASSUME Typed, NEW c \in Callers, Stat(c)
  PROVE  \E t : Moves(c, t)
  <1> DEFINE s == call[c]
  <1>1. Well(s) /\ s \in Calls /\ s.pc = "stat" /\ s.id = 0 /\ s.etags = <<>>
        /\ s.position = 0 /\ s.outcome = "none" /\ file[c] \in Versions
    BY DEF Typed, Well, Stat, Calls
  <1>2. Length[file[c]] \in Nat
    BY <1>1, LimitsTyped
  <1>3. CASE Goto(c, "open") /\ UNCHANGED network
    <2> DEFINE t == [s EXCEPT !.pc = "open"]
    <2>1. call' = [call EXCEPT ![c] = t]
      BY <1>3 DEF Goto
    <2>2. /\ t \in Calls /\ t.pc = "open" /\ t.size = s.size /\ t.id = 0
          /\ t.position = 0 /\ t.etags = <<>> /\ t.outcome = "none"
      BY <1>1, ToPlace DEF Places
    <2> HIDE DEF t
    <2>3. Well(t)
      BY <1>1, <2>2 DEF Well, Parting
    <2>4. Exact(t, file[c])
      BY <1>1, <2>2, NoParts DEF Exact
    <2>5. QED
      BY <1>1, <1>3, <2>1, <2>2, <2>3, <2>4 DEF Moves, Flows, Ending
  <1>4. CASE Send(c, [call[c] EXCEPT !.pc = "create", !.size = Length[file[c]]], network)
    <2> DEFINE t == [s EXCEPT !.pc = "create", !.size = Length[file[c]]]
    <2>1. call' = [call EXCEPT ![c] = t] /\ network' = network \cup {Request(c, t)}
      BY <1>4 DEF Send
    <2>2. /\ t \in Calls /\ t.pc = "create" /\ t.size = Length[file[c]] /\ t.id = 0
          /\ t.position = 0 /\ t.etags = <<>> /\ t.outcome = "none"
      BY <1>1, <1>2 DEF Calls, Places, Kinds
    <2> HIDE DEF t
    <2>3. Well(t)
      BY <1>1, <2>2 DEF Well, Parting
    <2>4. Exact(t, file[c])
      BY <1>1, <2>2, NoParts DEF Exact
    <2>5. QED
      BY <1>1, <2>1, <2>2, <2>3, <2>4 DEF Moves, Flows, Ending, Kinds
  <1>5. CASE Return(c, "error") /\ UNCHANGED network
    BY <1>1, <1>5, GivesUp
  <1>6. QED
    BY <1>3, <1>4, <1>5 DEF Stat
LEMMA OpenForPutStep ==
  ASSUME Typed, NEW c \in Callers, OpenForPut(c)
  PROVE  \E t : Moves(c, t)
  <1> DEFINE s == call[c]
             whole == <<Segment(file[c], 0, Length[file[c]])>>
  <1>1. Well(s) /\ s \in Calls /\ s.pc = "open" /\ s.id = 0 /\ s.etags = <<>>
        /\ s.position = 0 /\ s.outcome = "none" /\ file[c] \in Versions
    BY DEF Typed, Well, OpenForPut, Calls
  <1>2. CASE Send(c, [call[c] EXCEPT !.pc = "put", !.body = whole], network)
    <2> DEFINE t == [s EXCEPT !.pc = "put", !.body = whole]
    <2>1. call' = [call EXCEPT ![c] = t] /\ network' = network \cup {Request(c, t)}
      BY <1>2 DEF Send
    <2>2. Segment(file[c], 0, Length[file[c]]) \in Segments
      BY <1>1, LimitsTyped DEF Segment, Segments
    <2>3. whole \in Seq(Segments) /\ Len(whole) = 1 /\ whole[1].from = 0
      BY <2>2 DEF Segment
    <2> HIDE DEF whole
    <2>4. /\ t \in Calls /\ t.pc = "put" /\ t.size = s.size /\ t.id = 0
          /\ t.position = 0 /\ t.etags = <<>> /\ t.outcome = "none"
          /\ t.body = whole
      BY <1>1, <2>3 DEF Calls, Places, Kinds
    <2> HIDE DEF t
    <2>5. Well(t)
      BY <1>1, <2>3, <2>4 DEF Well, Parting
    <2>6. Exact(t, file[c])
      BY <1>1, <2>4, NoParts DEF Exact, whole
    <2>7. QED
      BY <1>1, <2>1, <2>4, <2>5, <2>6 DEF Moves, Flows, Ending, Kinds
  <1>3. CASE Return(c, "error") /\ UNCHANGED network
    BY <1>1, <1>3, GivesUp
  <1>4. QED
    BY <1>2, <1>3 DEF OpenForPut

(* A step to a local place that changes nothing else.                      *)
LEMMA PlaceStep ==
  ASSUME Typed, NEW c \in Callers, NEW place \in {"read", "cleanup"},
         Goto(c, place), network' \subseteq network, call[c].id # 0,
         place = "read" => call[c].pc = "open"
  PROVE  Moves(c, [call[c] EXCEPT !.pc = place])
  <1> DEFINE s == call[c]
             t == [s EXCEPT !.pc = place]
  <1>1. Well(s) /\ s \in Calls /\ s.pc \in Parting \cup {"open"}
    BY DEF Typed, Well, Calls, Places, Kinds, Parting
  <1>2. call' = [call EXCEPT ![c] = t]
    BY DEF Goto
  <1>3. /\ t \in Calls /\ t.pc = place /\ t.size = s.size /\ t.id = s.id
        /\ t.position = s.position /\ t.etags = s.etags /\ t.outcome = s.outcome
    BY <1>1, ToPlace DEF Places
  <1> HIDE DEF t
  <1>4. Well(t)
    BY <1>1, <1>3 DEF Well, Parting, End
  <1>5. Exact(s, file[c]) => Exact(t, file[c])
    BY <1>3 DEF Exact
  <1>6. Flows(s.pc, place)
    BY <1>1 DEF Flows, Ending, Parting
  <1>7. QED
    BY <1>2, <1>3, <1>4, <1>5, <1>6 DEF Moves, t

LEMMA OpenForPartsStep ==
  ASSUME Typed, NEW c \in Callers, OpenForParts(c)
  PROVE  \E t : Moves(c, t)
  <1>1. CASE Goto(c, "read")
    BY <1>1, PlaceStep DEF OpenForParts
  <1>2. CASE "openFails" \in Traits /\ Return(c, "error")
    <2>1. /\ ~OpensSucceed /\ Return(c, "error") /\ network' = network
          /\ call[c].pc = "open"
      BY <1>2 DEF OpenForParts, OpensSucceed
    <2>2. QED
      BY <2>1, GivesUp
  <1>3. QED
    BY <1>1, <1>2 DEF OpenForParts

LEMMA ReadPartStep ==
  ASSUME Typed, NEW c \in Callers, ReadPart(c)
  PROVE  \E t : Moves(c, t)
  <1> DEFINE s == call[c]
             from == s.position
             to == Smaller(from + ChunkSize(s.size), Length[file[c]])
             seg == Segment(file[c], from, to)
             t == [s EXCEPT !.pc = "part", !.attempt = 0, !.position = to,
                            !.body = <<seg>>]
  <1>1. /\ Well(s) /\ s \in Calls /\ s.pc = "read" /\ s.id # 0
        /\ s.outcome = "none" /\ file[c] \in Versions
        /\ s.size \in Nat /\ s.position \in Nat /\ s.etags \in Seq(Segments)
        /\ s.position = End(s.etags)
    BY DEF Typed, Well, Parting, ReadPart, Calls
  <1>2. call' = [call EXCEPT ![c] = t] /\ network' = network \cup {Request(c, t)}
    BY DEF ReadPart, Send
  <1>3. /\ Len(s.etags) < TotalParts(s.size) /\ from < Length[file[c]]
    BY DEF ReadPart, MoreToRead
  <1>4. to \in Nat
    <2>1. Length[file[c]] \in Nat /\ ChunkSize(s.size) \in Nat
      BY <1>1, LimitsTyped, ChunkFacts
    <2>2. QED
      BY <1>1, <2>1 DEF Smaller
  <1> HIDE DEF to
  <1>5. seg \in Segments /\ seg.from = from /\ seg.to = to
    BY <1>1, <1>4 DEF Segment, Segments
  <1>11. Exact(s, file[c]) => Parts(Append(s.etags, seg), file[c])
    <2> SUFFICES ASSUME Exact(s, file[c])
                 PROVE  Parts(Append(s.etags, seg), file[c])
      OBVIOUS
    <2>1. s.size = Length[file[c]] /\ Parts(s.etags, file[c])
      BY <1>1 DEF Exact
    <2>2. QED
      BY <1>1, <1>3, <2>1, NextPart DEF to
  <1> HIDE DEF seg
  <1>6. /\ <<seg>> \in Seq(Segments) /\ Len(<<seg>>) = 1 /\ <<seg>>[1] = seg
        /\ 0 \in 0 .. MaxRetries
    BY <1>5, LimitsTyped
  <1>7. /\ t \in Calls /\ t.pc = "part" /\ t.size = s.size /\ t.id = s.id
        /\ t.position = to /\ t.body = <<seg>> /\ t.etags = s.etags
        /\ t.outcome = s.outcome
    BY <1>1, <1>4, <1>6 DEF Calls, Places, Kinds
  <1> HIDE DEF t
  <1>8. Well(t)
    BY <1>1, <1>5, <1>6, <1>7 DEF Well, Parting
  <1>9. Exact(s, file[c]) => Exact(t, file[c])
    BY <1>1, <1>6, <1>7, <1>11 DEF Exact
  <1>10. QED
    BY <1>1, <1>2, <1>7, <1>8, <1>9 DEF Moves, Flows, Ending, Kinds

LEMMA CompleteStep ==
  ASSUME Typed, NEW c \in Callers, Complete(c)
  PROVE  \E t : Moves(c, t)
  <1> DEFINE s == call[c]
             t == [s EXCEPT !.pc = "complete", !.attempt = 0, !.body = s.etags]
  <1>1. /\ Well(s) /\ s \in Calls /\ s.pc = "read" /\ s.id # 0
        /\ s.outcome = "none" /\ file[c] \in Versions
        /\ s.etags \in Seq(Segments) /\ s.position = End(s.etags)
        /\ 0 \in 0 .. MaxRetries
    BY LimitsTyped DEF Typed, Well, Parting, Complete, Calls
  <1>2. call' = [call EXCEPT ![c] = t] /\ network' = network \cup {Request(c, t)}
    BY DEF Complete, Send
  <1>3. /\ t \in Calls /\ t.pc = "complete" /\ t.size = s.size /\ t.id = s.id
        /\ t.position = s.position /\ t.body = s.etags /\ t.etags = s.etags
        /\ t.outcome = s.outcome
    BY <1>1 DEF Calls, Places, Kinds
  <1> HIDE DEF t
  <1>4. Well(t)
    BY <1>1, <1>3 DEF Well, Parting
  <1>5. Exact(s, file[c]) => Exact(t, file[c])
    <2> SUFFICES ASSUME Exact(s, file[c])
                 PROVE  Exact(t, file[c])
      OBVIOUS
    <2>1. s.size = Length[file[c]] /\ Parts(s.etags, file[c])
      BY <1>1 DEF Exact
    <2>2. ~(/\ Len(s.etags) < TotalParts(Length[file[c]])
            /\ End(s.etags) < Length[file[c]])
      BY <1>1, <2>1 DEF Complete, MoreToRead
    <2>3. Len(s.etags) = TotalParts(Length[file[c]])
      BY <1>1, <2>1, <2>2, LastPart
    <2>4. QED
      BY <1>1, <1>3, <2>1, <2>3 DEF Exact
  <1>6. QED
    BY <1>1, <1>2, <1>3, <1>4, <1>5 DEF Moves, Flows, Ending, Kinds

LEMMA AbortStep ==
  ASSUME Typed, NEW c \in Callers, Abort(c)
  PROVE  \E t : Moves(c, t)
  <1> DEFINE s == call[c]
             t == [s EXCEPT !.pc = "abort", !.attempt = 0, !.body = <<>>]
  <1>1. /\ Well(s) /\ s \in Calls /\ s.pc = "cleanup" /\ s.id # 0
        /\ s.outcome = "none" /\ <<>> \in Seq(Segments) /\ 0 \in 0 .. MaxRetries
    BY LimitsTyped DEF Typed, Well, Parting, Abort, Calls
  <1>2. call' = [call EXCEPT ![c] = t] /\ network' = network \cup {Request(c, t)}
    BY DEF Abort, Send
  <1>3. /\ t \in Calls /\ t.pc = "abort" /\ t.size = s.size /\ t.id = s.id
        /\ t.position = s.position /\ t.body = <<>> /\ t.etags = s.etags
        /\ t.outcome = s.outcome
    BY <1>1 DEF Calls, Places, Kinds
  <1> HIDE DEF t
  <1>4. Well(t)
    BY <1>1, <1>3 DEF Well, Parting
  <1>5. Exact(s, file[c]) => Exact(t, file[c])
    BY <1>1, <1>3 DEF Exact
  <1>6. QED
    BY <1>1, <1>2, <1>3, <1>4, <1>5 DEF Moves, Flows, Ending, Kinds
(* What may be under way once a call has given up is part of what was.     *)
LEMMA GivenUpFacts ==
  ASSUME NEW c \in Callers, NEW under \in GivenUp(c)
  PROVE  under \subseteq network
  BY DEF GivenUp

LEMMA ResendStep ==
  ASSUME Typed, NEW c \in Callers, Resend(c)
  PROVE  \E t : Moves(c, t)
  <1> DEFINE s == call[c]
             t == [s EXCEPT !.attempt = s.attempt + 1]
  <1>1. /\ Well(s) /\ s \in Calls /\ s.pc \in {"create", "complete"}
        /\ s.attempt + 1 \in 0 .. MaxRetries
    BY LimitsTyped, SMTT(20) DEF Typed, Well, Resend, Calls
  <1>2. PICK under \in GivenUp(c) : Send(c, t, under)
    BY DEF Resend
  <1>3. /\ call' = [call EXCEPT ![c] = t]
        /\ network' \subseteq network \cup {Request(c, t)}
    BY <1>2, GivenUpFacts DEF Send
  <1>4. /\ t \in Calls /\ t.pc = s.pc /\ t.size = s.size /\ t.id = s.id
        /\ t.position = s.position /\ t.body = s.body /\ t.etags = s.etags
        /\ t.outcome = s.outcome
    BY <1>1 DEF Calls
  <1> HIDE DEF t
  <1>5. Well(t)
    BY <1>1, <1>4 DEF Well, Parting
  <1>6. Exact(s, file[c]) => Exact(t, file[c])
    BY <1>1, <1>4 DEF Exact
  <1>7. QED
    BY <1>1, <1>3, <1>4, <1>5, <1>6 DEF Moves, Flows, Ending, Kinds

LEMMA ResendPartStep ==
  ASSUME Typed, NEW c \in Callers, ResendPart(c)
  PROVE  \E t : Moves(c, t)
  <1> DEFINE s == call[c]
             old == s.body[1]
             seg == [old EXCEPT !.ver = file[c]]
             t == [s EXCEPT !.attempt = s.attempt + 1, !.position = old.to,
                            !.body = <<seg>>]
  <1>1. /\ Well(s) /\ s \in Calls /\ s.pc = "part" /\ s.id # 0
        /\ s.outcome = "none" /\ s.attempt + 1 \in 0 .. MaxRetries
        /\ file[c] \in Versions /\ s.body \in Seq(Segments) /\ Len(s.body) = 1
        /\ s.position \in Nat
    BY LimitsTyped, SMTT(20) DEF Typed, Well, Parting, ResendPart, Calls
  <1>2. PICK under \in GivenUp(c) :
          IF old.to <= Length[file[c]] THEN Send(c, t, under)
          ELSE Goto(c, "cleanup") /\ network' = under
    BY DEF ResendPart
  <1>3. CASE Send(c, t, under)
    <2>1. /\ call' = [call EXCEPT ![c] = t]
          /\ network' \subseteq network \cup {Request(c, t)}
      BY <1>3, GivenUpFacts DEF Send
    <2>2. old \in Segments /\ old.from = End(s.etags) /\ old.to = s.position
      BY <1>1 DEF Well
    <2>3. seg \in Segments /\ seg.from = old.from /\ seg.to = old.to
      BY <1>1, <2>2 DEF Segments
    <2>4. old.ver = file[c] => seg = old
      BY <2>2 DEF Segments
    <2> HIDE DEF old
    <2> HIDE DEF seg
    <2>5. <<seg>> \in Seq(Segments) /\ Len(<<seg>>) = 1 /\ <<seg>>[1] = seg
      BY <2>3
    <2>6. /\ t \in Calls /\ t.pc = "part" /\ t.size = s.size /\ t.id = s.id
          /\ t.position = old.to /\ t.body = <<seg>> /\ t.etags = s.etags
          /\ t.outcome = s.outcome
      BY <1>1, <2>2, <2>5 DEF Calls
    <2> HIDE DEF t
    <2>7. Well(t)
      BY <1>1, <2>2, <2>3, <2>5, <2>6 DEF Well, Parting
    <2>8. Exact(s, file[c]) => Exact(t, file[c])
      <3> SUFFICES ASSUME Exact(s, file[c])
                   PROVE  Exact(t, file[c])
        OBVIOUS
      <3>1. Parts(Append(s.etags, old), file[c]) /\ s.etags \in Seq(Segments)
        BY <1>1 DEF Exact, old, Calls
      <3>2. /\ Len(Append(s.etags, old)) = Len(s.etags) + 1
            /\ Append(s.etags, old)[Len(s.etags) + 1] = old
            /\ Len(s.etags) + 1 \in 1 .. Len(s.etags) + 1
        BY <2>2, <3>1
      <3>3. old = Nth(file[c], Len(s.etags) + 1)
        BY <3>1, <3>2 DEF Parts
      <3>4. old.ver = file[c]
        BY <3>3 DEF Nth, Segment
      <3>5. QED
        BY <1>1, <2>4, <2>5, <2>6, <3>1, <3>4 DEF Exact
    <2>9. QED
      BY <1>1, <2>1, <2>6, <2>7, <2>8 DEF Moves, Flows, Ending, Kinds
  <1>4. CASE Goto(c, "cleanup") /\ network' = under
    BY <1>1, <1>4, GivenUpFacts, PlaceStep
  <1>5. QED
    BY <1>2, <1>3, <1>4

LEMMA GiveUpStep ==
  ASSUME Typed, NEW c \in Callers, GiveUp(c)
  PROVE  \E t : Moves(c, t)
  <1>1. network' \subseteq network /\ call[c].pc # "done"
    BY GivenUpFacts DEF GiveUp, Kinds
  <1>2. call[c].pc \in {"part", "complete"} => call[c].id # 0
    BY DEF Typed, Well, Parting
  <1>3. CASE call[c].pc \in {"part", "complete"} /\ Goto(c, "cleanup")
    BY <1>1, <1>2, <1>3, PlaceStep
  <1>4. CASE Return(c, "error") /\ call[c].pc \notin {"part", "complete"}
    <2>1. call[c].pc \in {"create", "put", "abort"}
      BY <1>4 DEF GiveUp, Kinds
    <2>2. call[c].id # 0 => call[c].pc = "abort"
      BY <2>1 DEF Typed, Well
    <2>3. QED
      BY <1>1, <1>4, <2>2, GivesUp
  <1>5. QED
    BY <1>3, <1>4 DEF GiveUp

(* Every step of a call moves it on, and nothing else.                     *)
LEMMA CallSteps ==
  ASSUME Typed, NEW c \in Callers, CallStep(c)
  PROVE  (\E t : Moves(c, t)) /\ UNCHANGED <<file, store>>
  <1>1. CASE Stat(c)
    BY <1>1, StatStep DEF Stat
  <1>2. CASE OpenForPut(c)
    BY <1>2, OpenForPutStep DEF OpenForPut
  <1>3. CASE OpenForParts(c)
    BY <1>3, OpenForPartsStep DEF OpenForParts
  <1>4. CASE ReadPart(c)
    BY <1>4, ReadPartStep DEF ReadPart
  <1>5. CASE ReadFails(c)
    <2>1. Moves(c, [call[c] EXCEPT !.pc = "cleanup"])
      BY <1>5, PlaceStep DEF ReadFails, Typed, Well, Parting
    <2>2. QED
      BY <1>5, <2>1 DEF ReadFails
  <1>6. CASE Complete(c)
    BY <1>6, CompleteStep DEF Complete
  <1>7. CASE Abort(c)
    BY <1>7, AbortStep DEF Abort
  <1>8. CASE Resend(c)
    BY <1>8, ResendStep DEF Resend
  <1>9. CASE ResendPart(c)
    BY <1>9, ResendPartStep DEF ResendPart
  <1>10. CASE GiveUp(c)
    BY <1>10, GiveUpStep DEF GiveUp
  <1>11. QED
    BY <1>1, <1>2, <1>3, <1>4, <1>5, <1>6, <1>7, <1>8, <1>9, <1>10 DEF CallStep
----------------------------------------------------------------------------
(* The steps of the store.                                                 *)

(* The caller that waits for the answer to r hears it, and goes on to t.   *)
Hears(r, done, t) ==
  LET s == call[r.by]
  IN  /\ call' = [call EXCEPT ![r.by] = t]
      /\ r.by \in Callers /\ s.pc = r.kind /\ s.id = r.id
      /\ Well(t) /\ Flows(s.pc, t.pc)
      /\ Exact(s, file[r.by]) => Exact(t, file[r.by])
      /\ \/ t.id \in {s.id, 0}
         \/ done /\ r.kind = "create" /\ t.id = Len(uploads) + 1
      /\ t.outcome = "ok" =>
           r.kind \in {"complete", "put"} /\ Succeeds(r, done)
      /\ t.pc = "done" /\ r.kind = "complete" => Succeeds(r, done)
      /\ t.pc = "done" => r.kind # "part"

LEMMA SuccessHeard ==
  ASSUME Typed, NEW r \in network, r = Request(r.by, call[r.by]),
         NEW done \in BOOLEAN, Succeeds(r, done), HearSuccess(r.by)
  PROVE  \E t : Hears(r, done, t)
  <1> DEFINE c == r.by
             s == call[c]
  <1>1. /\ c \in Callers /\ s.pc = r.kind /\ s.id = r.id /\ r.kind \in Kinds
        /\ Well(s) /\ s \in Calls /\ s.outcome = "none" /\ s.id <= Len(uploads)
        /\ uploads \in Seq(Uploads)
    <2>1. r \in Requests
      BY DEF Typed, Sane
    <2>2. c \in Callers /\ r.kind \in Kinds
      BY <2>1 DEF Requests
    <2>3. s.pc = r.kind /\ s.id = r.id
      BY DEF Request
    <2>4. QED
      BY <2>2, <2>3 DEF Typed, Well, Kinds
  <1>2. CASE r.kind = "create"
    <2> DEFINE t == [s EXCEPT !.pc = "open", !.id = Len(uploads) + 1]
    <2>1. call' = [call EXCEPT ![c] = t]
      BY <1>1, <1>2 DEF HearSuccess
    <2>2. Len(uploads) + 1 \in Nat /\ Len(uploads) + 1 # 0
      BY <1>1, LenProperties
    <2>3. /\ t \in Calls /\ t.pc = "open" /\ t.size = s.size
          /\ t.id = Len(uploads) + 1 /\ t.position = s.position
          /\ t.etags = s.etags /\ t.outcome = s.outcome
      BY <1>1, <2>2 DEF Calls, Places
    <2> HIDE DEF t
    <2>4. Well(t)
      BY <1>1, <1>2, <2>2, <2>3 DEF Well, Parting
    <2>5. Exact(s, file[c]) => Exact(t, file[c])
      BY <1>1, <1>2, <2>3 DEF Exact
    <2>6. done
      BY <1>2 DEF Succeeds
    <2>7. QED
      BY <1>1, <1>2, <2>1, <2>3, <2>4, <2>5, <2>6 DEF Hears, Flows, Ending
  <1>3. CASE r.kind = "part"
    <2> DEFINE seg == s.body[1]
               longer == Append(s.etags, seg)
               t == [s EXCEPT !.pc = "read", !.etags = longer]
    <2>1. call' = [call EXCEPT ![c] = t]
      BY <1>1, <1>3 DEF HearSuccess
    <2>2. /\ seg \in Segments /\ seg.from = End(s.etags) /\ seg.to = s.position
          /\ s.etags \in Seq(Segments) /\ Consecutive(s.etags)
      BY <1>1, <1>3 DEF Well, Calls
    <2>3. /\ longer \in Seq(Segments) /\ Consecutive(longer)
          /\ End(longer) = s.position
      BY <2>2, Chained
    <2>4. Exact(s, file[c]) => Parts(longer, file[c])
      BY <1>1, <1>3 DEF Exact
    <2> HIDE DEF longer
    <2>5. /\ t \in Calls /\ t.pc = "read" /\ t.size = s.size
          /\ t.id = s.id /\ t.position = s.position
          /\ t.etags = longer /\ t.outcome = s.outcome
      BY <1>1, <2>3 DEF Calls, Places
    <2> HIDE DEF t
    <2>6. Well(t)
      BY <1>1, <1>3, <2>3, <2>5 DEF Well, Parting
    <2>7. Exact(s, file[c]) => Exact(t, file[c])
      BY <1>1, <1>3, <2>4, <2>5 DEF Exact
    <2>8. QED
      BY <1>1, <1>3, <2>1, <2>5, <2>6, <2>7 DEF Hears, Flows, Ending
  <1>4. CASE r.kind \in {"complete", "put", "abort"}
    <2>1. PICK result \in {"ok", "error"} :
            /\ Return(c, result)
            /\ result = "ok" => r.kind \in {"complete", "put"}
      BY <1>1, <1>4 DEF HearSuccess
    <2> DEFINE t == Idle("done", result)
    <2>2. /\ Well(t) /\ t.id = 0 /\ t.pc = "done" /\ t.etags = <<>>
          /\ t.outcome = result
      BY ToIdle DEF Places, Results
    <2> HIDE DEF t
    <2>3. Exact(t, file[c])
      BY <1>1, <2>2, NoParts DEF Exact, Typed
    <2>4. call' = [call EXCEPT ![c] = t]
      BY <2>1 DEF Return, t
    <2>5. QED
      BY <1>1, <1>4, <2>1, <2>2, <2>3, <2>4 DEF Hears, Flows, Ending
  <1>5. QED
    BY <1>1, <1>2, <1>3, <1>4 DEF Kinds

LEMMA FailureHeard ==
  ASSUME Typed, NEW r \in network, r = Request(r.by, call[r.by]),
         NEW done \in BOOLEAN, HearFailure(r.by)
  PROVE  \E t : Hears(r, done, t)
  <1> DEFINE c == r.by
             s == call[c]
  <1>1. /\ c \in Callers /\ s.pc = r.kind /\ s.id = r.id /\ r.kind \in Kinds
        /\ Well(s) /\ s \in Calls /\ s.outcome = "none"
    <2>1. r \in Requests
      BY DEF Typed, Sane
    <2>2. c \in Callers /\ r.kind \in Kinds
      BY <2>1 DEF Requests
    <2>3. s.pc = r.kind /\ s.id = r.id
      BY DEF Request
    <2>4. QED
      BY <2>2, <2>3 DEF Typed, Well, Kinds
  <1>2. CASE r.kind \in {"part", "complete"}
    <2> DEFINE t == [s EXCEPT !.pc = "cleanup"]
    <2>1. call' = [call EXCEPT ![c] = t]
      BY <1>1, <1>2 DEF HearFailure, Goto
    <2>2. /\ t \in Calls /\ t.pc = "cleanup" /\ t.size = s.size /\ t.id = s.id
          /\ t.position = s.position /\ t.etags = s.etags /\ t.outcome = "none"
      BY <1>1, ToPlace DEF Places
    <2> HIDE DEF t
    <2>3. Well(t)
      BY <1>1, <1>2, <2>2 DEF Well, Parting
    <2>4. Exact(s, file[c]) => Exact(t, file[c])
      BY <2>2 DEF Exact
    <2>5. QED
      BY <1>1, <1>2, <2>1, <2>2, <2>3, <2>4 DEF Hears, Flows, Ending
  <1>3. CASE r.kind \notin {"part", "complete"}
    <2> DEFINE t == Idle("done", "error")
    <2>1. /\ Well(t) /\ t.id = 0 /\ t.pc = "done" /\ t.etags = <<>>
          /\ t.outcome = "error"
      BY ToIdle DEF Places, Results
    <2> HIDE DEF t
    <2>2. Exact(t, file[c])
      BY <1>1, <2>1, NoParts DEF Exact, Typed
    <2>3. call' = [call EXCEPT ![c] = t]
      BY <1>1, <1>3 DEF HearFailure, Return, t
    <2>4. QED
      BY <1>1, <1>3, <2>1, <2>2, <2>3 DEF Hears, Flows, Ending, Kinds
  <1>4. QED
    BY <1>2, <1>3
(* What a request that takes effect does to the uploads: it adds one, or   *)
(* ends one that was open, or stores a part of it.                         *)
Changed(r) ==
  /\ uploads' \in Seq(Uploads)
  /\ Len(uploads') = Len(uploads) + (IF r.kind = "create" THEN 1 ELSE 0)
  /\ r.kind = "create" => uploads'[Len(uploads) + 1].state = "open"
  /\ \A n \in 1 .. Len(uploads) :
       uploads'[n].state =
         IF n # r.id THEN uploads[n].state
         ELSE CASE r.kind = "complete" -> "completed"
                [] r.kind = "abort" -> "aborted"
                [] OTHER -> uploads[n].state
  /\ r.kind \in {"part", "complete", "abort"} => Open(r.id)
  /\ IF r.kind \in {"complete", "put"}
     THEN object' = r.content /\ stored' = stored \cup {r.by}
     ELSE object' = object /\ stored' = stored

(* The upload n goes into another state, or gets another part.             *)
LEMMA UploadUpdate ==
  ASSUME uploads \in Seq(Uploads), NEW n \in 1 .. Len(uploads),
         NEW u \in Uploads, uploads' = [uploads EXCEPT ![n] = u]
  PROVE  /\ uploads' \in Seq(Uploads) /\ Len(uploads') = Len(uploads)
         /\ \A m \in 1 .. Len(uploads) :
              uploads'[m].state = IF m = n THEN u.state ELSE uploads[m].state
  BY ExceptSeq

LEMMA StoreFacts ==
  ASSUME Typed, NEW r \in network, Valid(r), TakeEffect(r)
  PROVE  Changed(r)
  <1>1. /\ r \in Requests /\ r.kind \in Kinds /\ uploads \in Seq(Uploads)
        /\ Len(uploads) \in Nat /\ r.id \in Nat /\ r.id <= Len(uploads)
        /\ r.kind \in {"part", "complete", "abort"} =>
             Open(r.id) /\ r.id \in 1 .. Len(uploads)
        /\ r.kind \in {"create", "put"} => r.id = 0
    <2>1. r \in Requests /\ r.kind \in Kinds /\ r.id \in Nat
      BY DEF Typed, Sane, Requests
    <2>2. uploads \in Seq(Uploads) /\ Len(uploads) \in Nat /\ r.id <= Len(uploads)
      BY LenProperties DEF Typed
    <2>3. r.kind \in {"part", "complete", "abort"} => Open(r.id) /\ r.id # 0
      BY DEF Typed, Sane, Valid
    <2>4. QED
      BY <2>1, <2>2, <2>3 DEF Typed, Sane
  <1>2. CASE r.kind = "create" /\ CreateUpload
    <2> DEFINE u == [state |-> "open", parts |-> <<>>]
    <2>1. <<>> \in [{} -> Segments]
      OBVIOUS
    <2>2. u \in Uploads
      BY <2>1 DEF Uploads, PartMaps
    <2>3. /\ uploads' = Append(uploads, u) /\ UNCHANGED <<object, stored>>
      BY <1>2 DEF CreateUpload
    <2>4. u.state = "open"
      OBVIOUS
    <2> HIDE DEF u
    <2>5. /\ uploads' \in Seq(Uploads) /\ Len(uploads') = Len(uploads) + 1
          /\ \A n \in 1 .. Len(uploads) : uploads'[n] = uploads[n]
          /\ uploads'[Len(uploads) + 1] = u
      BY <1>1, <2>2, <2>3, AppendProperties
    <2>6. uploads'[Len(uploads) + 1].state = "open"
      BY <2>4, <2>5 DEF Open
    <2>7. QED
      BY <1>1, <1>2, <2>3, <2>5, <2>6 DEF Changed
  <1>3. CASE r.kind = "part" /\ StorePart(r)
    <2> DEFINE old == uploads[r.id].parts
               new == [k \in DOMAIN old \cup {r.number} |->
                         IF k = r.number THEN r.content[1] ELSE old[k]]
               u == [uploads[r.id] EXCEPT !.parts = new]
    <2>1. uploads[r.id] \in Uploads
      BY <1>1, <1>3, ElementOfSeq
    <2>2. PICK numbers \in SUBSET (Nat \ {0}) : old \in [numbers -> Segments]
      BY <2>1 DEF Uploads, PartMaps
    <2>3. r.content \in Seq(Segments) /\ Len(r.content) = 1 /\ r.number \in Nat \ {0}
      BY <1>3 DEF Typed, Sane, Requests
    <2>4. r.content[1] \in Segments
      BY <2>3
    <2>5. new \in [numbers \cup {r.number} -> Segments]
      BY <2>2, <2>4
    <2>6. new \in PartMaps
      BY <2>3, <2>5, ZenonT(30) DEF PartMaps
    <2>7. uploads' = [uploads EXCEPT ![r.id] = u] /\ UNCHANGED <<object, stored>>
      BY <1>3 DEF StorePart
    <2> HIDE DEF new
    <2>8. u \in Uploads /\ u.state = uploads[r.id].state
      BY <2>1, <2>6 DEF Uploads
    <2> HIDE DEF u
    <2>9. /\ uploads' \in Seq(Uploads) /\ Len(uploads') = Len(uploads)
          /\ \A m \in 1 .. Len(uploads) :
               uploads'[m].state = IF m = r.id THEN u.state ELSE uploads[m].state
      BY <1>1, <1>3, <2>7, <2>8, UploadUpdate
    <2>10. QED
      BY <1>1, <1>3, <2>7, <2>8, <2>9 DEF Changed
  <1>4. CASE r.kind = "put" /\ StoreObject(r) /\ UNCHANGED uploads
    BY <1>1, <1>4 DEF Changed, StoreObject
  <1>5. ASSUME r.kind \in {"complete", "abort"},
               NEW state \in {"completed", "aborted"},
               uploads' = [uploads EXCEPT ![r.id].state = state]
        PROVE  /\ uploads' \in Seq(Uploads) /\ Len(uploads') = Len(uploads)
               /\ \A m \in 1 .. Len(uploads) :
                    uploads'[m].state = IF m = r.id THEN state ELSE uploads[m].state
    <2> DEFINE u == [uploads[r.id] EXCEPT !.state = state]
    <2>1. uploads[r.id] \in Uploads
      BY <1>1, <1>5, ElementOfSeq
    <2>2. u \in Uploads /\ u.state = state
      BY <2>1, <1>5 DEF Uploads
    <2>3. uploads' = [uploads EXCEPT ![r.id] = u]
      BY <1>5
    <2> HIDE DEF u
    <2>4. QED
      BY <1>1, <1>5, <2>2, <2>3, UploadUpdate
  <1>6. CASE /\ r.kind = "complete" /\ StoreObject(r)
             /\ uploads' = [uploads EXCEPT ![r.id].state = "completed"]
    BY <1>1, <1>5, <1>6 DEF Changed, StoreObject
  <1>7. CASE /\ r.kind = "abort" /\ UNCHANGED <<object, stored>>
             /\ uploads' = [uploads EXCEPT ![r.id].state = "aborted"]
    BY <1>1, <1>5, <1>7 DEF Changed
  <1>8. QED
    BY <1>2, <1>3, <1>4, <1>6, <1>7 DEF TakeEffect

(* A step of the store.                                                    *)
LEMMA HandleFacts ==
  ASSUME Typed, NEW r \in network, Handle(r)
  PROVE  /\ network' = network \ {r} /\ file' = file
         /\ \E done \in BOOLEAN :
              /\ IF done THEN Valid(r) /\ Changed(r) ELSE UNCHANGED store
              /\ call' = call \/ \E t : Hears(r, done, t)
  <1>1. network' = network \ {r} /\ file' = file
    BY DEF Handle
  <1>2. PICK done \in BOOLEAN :
          /\ IF done THEN Valid(r) /\ TakeEffect(r) ELSE UNCHANGED store
          /\ \/ UNCHANGED call
             \/ /\ r = Request(r.by, call[r.by])
                /\ \/ Succeeds(r, done) /\ HearSuccess(r.by)
                   \/ HearFailure(r.by)
    BY DEF Handle
  <1>3. IF done THEN Valid(r) /\ Changed(r) ELSE UNCHANGED store
    BY <1>2, StoreFacts
  <1>4. call' = call \/ \E t : Hears(r, done, t)
    BY <1>2, SuccessHeard, FailureHeard
  <1>5. QED
    BY <1>1, <1>3, <1>4
----------------------------------------------------------------------------
(* Typing, the place of the parts, and whose upload is whose.              *)

LEMMA Start ==
  ASSUME Init
  PROVE  Typed /\ Owned /\ Precise /\ Once
  <1> DEFINE s == Idle("stat", "none")
  <1>1. Well(s) /\ s.id = 0 /\ s.pc = "stat" /\ s.etags = <<>> /\ s.outcome = "none"
    BY ToIdle DEF Places, Results
  <1> HIDE DEF s
  <1>2. /\ file \in [Callers -> Versions] /\ network = {} /\ uploads = <<>>
        /\ object = <<>> /\ stored = {} /\ call = [c \in Callers |-> s]
    BY DEF Init, s
  <1>3. \A c \in Callers : call[c] = s
    BY <1>2
  <1>4. Typed
    <2>1. Len(uploads) = 0 /\ uploads \in Seq(Uploads) /\ object \in Seq(Segments)
      BY <1>2
    <2>2. QED
      BY <1>1, <1>2, <1>3, <2>1 DEF Typed
  <1>5. Owned
    BY <1>1, <1>2, <1>3 DEF Owned
  <1>6. Precise
    BY <1>1, <1>2, <1>3, NoParts DEF Precise, Exact
  <1>7. Once
    BY <1>1, <1>2, <1>3 DEF Once
  <1>8. QED
    BY <1>4, <1>5, <1>6, <1>7

(* A call moved on, the store untouched.                                   *)
LEMMA MoveTyped ==
  ASSUME Typed, NEW c \in Callers, NEW t, Moves(c, t), UNCHANGED <<file, store>>
  PROVE  /\ Typed'
         /\ call'[c] = t /\ \A d \in Callers : d # c => call'[d] = call[d]
         /\ \A r \in network' :
              r \in network \/ (t.pc \in Kinds /\ r = Request(c, t) /\ r.id = t.id)
  <1>1. call'[c] = t /\ \A d \in Callers : d # c => call'[d] = call[d]
    BY DEF Moves, Typed
  <1>2. t.id <= Len(uploads)
    <2>1. Len(uploads) \in Nat
      BY LenProperties DEF Typed
    <2>2. QED
      BY <2>1 DEF Moves, Typed
  <1>3. \A d \in Callers : Well(call'[d]) /\ call'[d].id <= Len(uploads)
    BY <1>1, <1>2 DEF Moves, Typed
  <1>4. \A r \in network' :
          r \in network \/ (t.pc \in Kinds /\ r = Request(c, t) /\ r.id = t.id)
    BY Sending DEF Moves
  <1>5. \A r \in network' : Sane(r) /\ r.id <= Len(uploads)
    BY <1>2, <1>4, Sending DEF Moves, Typed
  <1>6. DOMAIN call' = Callers /\ call' = [d \in Callers |-> call'[d]]
    BY DEF Moves, Typed
  <1>7. Typed'
    BY <1>3, <1>5, <1>6 DEF Typed, store
  <1>8. QED
    BY <1>1, <1>4, <1>7

LEMMA MoveOwned ==
  ASSUME Typed, Owned, NEW c \in Callers, NEW t, Moves(c, t),
         UNCHANGED <<file, store>>
  PROVE  Owned'
  <1>1. /\ call'[c] = t /\ \A d \in Callers : d # c => call'[d] = call[d]
        /\ \A r \in network' :
             r \in network \/ (t.pc \in Kinds /\ r = Request(c, t) /\ r.id = t.id)
    BY MoveTyped
  <1>2. t.id # 0 => t.id = call[c].id
    BY DEF Moves
  <1>3. \A d \in Callers : call'[d].id # 0 => call'[d].id = call[d].id
    BY <1>1, <1>2
  <1>4. Request(c, t).by = c
    BY DEF Request
  <1>5. ASSUME NEW r \in network', NEW d \in Callers,
               r.id # 0, call'[d].id = r.id
        PROVE  r.by = d
    <2>1. call[d].id = r.id
      BY <1>3, <1>5
    <2>2. CASE r \in network
      BY <1>5, <2>1, <2>2 DEF Owned
    <2>3. CASE r = Request(c, t) /\ r.id = t.id
      BY <1>2, <1>4, <1>5, <2>1, <2>3 DEF Owned
    <2>4. QED
      BY <1>1, <2>2, <2>3
  <1>6. QED
    BY <1>3, <1>5 DEF Owned, store
(* The call of one who heard.                                              *)
LEMMA HeardCall ==
  ASSUME Typed, NEW r \in network, NEW done, NEW t, Hears(r, done, t)
  PROVE  call'[r.by] = t /\ \A d \in Callers : d # r.by => call'[d] = call[d]
  BY DEF Hears, Typed

LEMMA HandleTyped ==
  ASSUME Typed, NEW r \in network, Handle(r)
  PROVE  Typed'
  <1>1. /\ network' = network \ {r} /\ file' = file /\ uploads \in Seq(Uploads)
        /\ Len(uploads) \in Nat /\ Sane(r) /\ r \in Requests
    BY HandleFacts, LenProperties DEF Typed, Sane
  <1>2. PICK done \in BOOLEAN :
          /\ IF done THEN Valid(r) /\ Changed(r) ELSE UNCHANGED store
          /\ call' = call \/ \E t : Hears(r, done, t)
    BY HandleFacts
  <1>3. /\ uploads' \in Seq(Uploads) /\ object' \in Seq(Segments)
        /\ stored' \subseteq Callers /\ Len(uploads') \in Nat
        /\ Len(uploads') = Len(uploads)
             + (IF done /\ r.kind = "create" THEN 1 ELSE 0)
    <2>1. CASE done
      <3>1. r.content \in Seq(Segments) /\ r.by \in Callers
        BY <1>1 DEF Requests
      <3>2. Changed(r)
        BY <1>2, <2>1
      <3>3. QED
        BY <1>1, <2>1, <3>1, <3>2 DEF Changed, Typed
    <2>2. CASE ~done
      BY <1>1, <1>2, <2>2 DEF store, Typed
    <2>3. QED
      BY <2>1, <2>2
  <1>4. /\ DOMAIN call' = Callers /\ call' = [d \in Callers |-> call'[d]]
        /\ \A d \in Callers : Well(call'[d]) /\ call'[d].id <= Len(uploads')
    <2>1. \A d \in Callers : call[d].id \in Nat /\ call[d].id <= Len(uploads')
      <3>1. \A d \in Callers : call[d].id \in Nat /\ call[d].id <= Len(uploads)
        BY DEF Typed, Well, Calls
      <3>2. QED
        BY <1>1, <1>3, <3>1
    <2>2. CASE call' = call
      BY <2>1, <2>2 DEF Typed
    <2>3. ASSUME NEW t, Hears(r, done, t)
          PROVE  /\ DOMAIN call' = Callers /\ call' = [d \in Callers |-> call'[d]]
                 /\ \A d \in Callers : Well(call'[d]) /\ call'[d].id <= Len(uploads')
      <3>1. call'[r.by] = t /\ \A d \in Callers : d # r.by => call'[d] = call[d]
        BY <2>3, HeardCall
      <3>2. t.id <= Len(uploads') /\ Well(t) /\ r.by \in Callers
        BY <1>1, <1>3, <2>1, <2>3 DEF Hears
      <3>3. DOMAIN call' = Callers /\ call' = [d \in Callers |-> call'[d]]
        BY <2>3 DEF Hears, Typed
      <3>4. QED
        BY <2>1, <3>1, <3>2, <3>3 DEF Typed
    <2>4. QED
      BY <1>2, <2>2, <2>3
  <1>5. \A q \in network' : Sane(q) /\ q.id <= Len(uploads')
    <2>1. \A q \in network' : Sane(q) /\ q.id \in Nat /\ q.id <= Len(uploads)
      BY <1>1 DEF Typed, Sane, Requests
    <2>2. QED
      BY <1>1, <1>3, <2>1
  <1>6. QED
    BY <1>1, <1>3, <1>4, <1>5 DEF Typed

(* No answer gives a caller the upload of another.                         *)
LEMMA HandleOwned ==
  ASSUME Typed, Owned, NEW r \in network, Handle(r)
  PROVE  Owned'
  <1>1. /\ network' = network \ {r} /\ Sane(r) /\ r \in Requests
        /\ uploads \in Seq(Uploads) /\ Len(uploads) \in Nat
    BY HandleFacts, LenProperties DEF Typed, Sane
  <1>2. PICK done \in BOOLEAN :
          /\ IF done THEN Valid(r) /\ Changed(r) ELSE UNCHANGED store
          /\ call' = call \/ \E t : Hears(r, done, t)
    BY HandleFacts
  <1>3. \A c \in Callers : call[c].id \in Nat /\ call[c].id <= Len(uploads)
    BY DEF Typed, Well, Calls
  <1>4. \A q \in network : q.id \in Nat /\ q.id <= Len(uploads)
    BY DEF Typed, Sane, Requests
  <1>5. (* The id of a call stays, or is given up, or is that of an upload *)
        (* that nobody can have known before.                              *)
        \A c \in Callers :
          \/ call'[c].id \in {call[c].id, 0}
          \/ /\ done /\ r.kind = "create" /\ c = r.by
             /\ call'[c].id = Len(uploads) + 1
    <2>1. CASE call' = call
      BY <2>1
    <2>2. ASSUME NEW t, Hears(r, done, t), NEW c \in Callers
          PROVE  \/ call'[c].id \in {call[c].id, 0}
                 \/ /\ done /\ r.kind = "create" /\ c = r.by
                    /\ call'[c].id = Len(uploads) + 1
      <3>1. call'[r.by] = t /\ \A d \in Callers : d # r.by => call'[d] = call[d]
        BY <2>2, HeardCall
      <3>2. QED
        BY <2>2, <3>1 DEF Hears
    <2>3. QED
      BY <1>2, <2>1, <2>2
  <1>6. ASSUME NEW c \in Callers, NEW d \in Callers,
               call'[c].id # 0, call'[c].id = call'[d].id
        PROVE  c = d
    BY <1>1, <1>3, <1>5, <1>6 DEF Owned
  <1>7. ASSUME NEW q \in network', NEW c \in Callers,
               q.id # 0, call'[c].id = q.id
        PROVE  q.by = c
    BY <1>1, <1>3, <1>4, <1>5, <1>7 DEF Owned
  <1>8. ASSUME NEW c \in Callers, call'[c].id # 0,
               uploads'[call'[c].id].state = "completed"
        PROVE  c \in stored'
    <2> DEFINE n == call'[c].id
    <2>1. CASE ~done
      <3>1. n = call[c].id
        BY <1>5, <1>8, <2>1
      <3>2. QED
        BY <1>2, <1>8, <2>1, <3>1 DEF Owned, store
    <2>2. CASE done
      <3>1. Changed(r)
        BY <1>2, <2>2
      <3>2. CASE n = call[c].id
        <4>1. n \in 1 .. Len(uploads)
          BY <1>1, <1>3, <1>8, <3>2
        <4>2. CASE n = r.id /\ r.kind = "complete"
          <5>1. r.by = c
            BY <1>8, <3>2, <4>2 DEF Owned
          <5>2. QED
            BY <3>1, <4>2, <5>1 DEF Changed
        <4>3. CASE ~(n = r.id /\ r.kind = "complete")
          <5>1. uploads[n].state = "completed"
            BY <1>8, <3>1, <4>1, <4>3 DEF Changed
          <5>2. c \in stored
            BY <1>8, <3>2, <5>1 DEF Owned
          <5>3. QED
            BY <3>1, <5>2 DEF Changed
        <4>4. QED
          BY <4>2, <4>3
      <3>3. CASE n = Len(uploads) + 1 /\ r.kind = "create"
        BY <1>8, <3>1, <3>3 DEF Changed
      <3>4. QED
        BY <1>5, <1>8, <3>2, <3>3
    <2>3. QED
      BY <2>1, <2>2
  <1>9. QED
    BY <1>6, <1>7, <1>8 DEF Owned

LEMMA EditTyped ==
  ASSUME Typed, Owned, NEW c \in Callers, FileEdited(c)
  PROVE  Typed' /\ Owned'
  <1>1. file' \in [Callers -> Versions]
    BY DEF FileEdited, Typed
  <1>2. UNCHANGED <<call, network, uploads, object, stored>>
    BY DEF FileEdited, store
  <1>3. QED
    BY <1>1, <1>2 DEF Typed, Owned

LEMMA TypedStep ==
  ASSUME Typed, Owned, [Next]_vars
  PROVE  Typed' /\ Owned'
  <1>1. ASSUME NEW c \in Callers, CallStep(c)
        PROVE  Typed' /\ Owned'
    BY <1>1, CallSteps, MoveTyped, MoveOwned
  <1>2. ASSUME NEW c \in Callers, FileEdited(c)
        PROVE  Typed' /\ Owned'
    BY <1>2, EditTyped
  <1>3. ASSUME NEW r \in network, Handle(r)
        PROVE  Typed' /\ Owned'
    BY <1>3, HandleTyped, HandleOwned
  <1>4. CASE UNCHANGED vars
    BY <1>4 DEF vars, store, Typed, Owned
  <1>5. QED
    BY <1>1, <1>2, <1>3, <1>4 DEF Next

LEMMA WellTyped == Spec => [](Typed /\ Owned)
  <1>1. Init => Typed /\ Owned
    BY Start
  <1>2. Typed /\ Owned /\ [Next]_vars => (Typed /\ Owned)'
    BY TypedStep
  <1>3. QED
    BY <1>1, <1>2, PTL DEF Spec

(* The local variables, the requests under way and what the store has keep *)
(* their types, a call counts no attempt beyond the last, and it refers to *)
(* an upload the store has created.                                        *)
THEOREM Typing == Spec => []TypeOK
  <1>1. Typed => TypeOK
    <2> SUFFICES ASSUME Typed PROVE TypeOK
      OBVIOUS
    <2>1. call \in [Callers -> Calls]
      BY DEF Typed, Well
    <2>2. ASSUME NEW n \in 1 .. Len(uploads)
          PROVE  /\ uploads[n].state \in {"open", "completed", "aborted"}
                 /\ \A k \in DOMAIN uploads[n].parts :
                      k \in Nat \ {0} /\ uploads[n].parts[k] \in Segments
      <3>1. uploads[n] \in Uploads
        BY ElementOfSeq DEF Typed
      <3>2. PICK numbers \in SUBSET (Nat \ {0}) :
              uploads[n].parts \in [numbers -> Segments]
        BY <3>1 DEF Uploads, PartMaps
      <3>3. QED
        BY <3>1, <3>2 DEF Uploads
    <2>3. network \subseteq Requests
      BY DEF Typed, Sane
    <2>4. QED
      BY <2>1, <2>2, <2>3 DEF Typed, TypeOK
  <1>2. QED
    BY <1>1, WellTyped, PTL
----------------------------------------------------------------------------
(* The properties of single answers and returns.                           *)

LEMMA PlaceKept ==
  ASSUME Typed, PartsInPlace, [Next]_vars
  PROVE  PartsInPlace'
  <1>1. ASSUME NEW r \in network, Handle(r)
        PROVE  PartsInPlace'
    <2>1. PICK done \in BOOLEAN :
            IF done THEN Valid(r) /\ Changed(r) ELSE UNCHANGED store
      BY <1>1, HandleFacts
    <2>2. CASE object' = object
      BY <2>2 DEF PartsInPlace, Consecutive
    <2>3. CASE r.kind \in {"complete", "put"} /\ object' = r.content
      BY <2>3 DEF Typed, Sane, PartsInPlace
    <2>4. QED
      BY <2>1, <2>2, <2>3 DEF Changed, store
  <1>2. ASSUME NEW c \in Callers, CallStep(c) \/ FileEdited(c)
        PROVE  PartsInPlace'
    <2>1. object' = object
      BY <1>2, CallSteps DEF FileEdited, store
    <2>2. QED
      BY <2>1 DEF PartsInPlace, Consecutive
  <1>3. CASE UNCHANGED vars
    BY <1>3 DEF vars, store, PartsInPlace, Consecutive
  <1>4. QED
    BY <1>1, <1>2, <1>3 DEF Next

(* The parts of an object lie in it where they were read in the file, also *)
(* when the file changes during the upload, whatever was sent again and    *)
(* whatever arrives late.                                                  *)
THEOREM PartsStayInPlace == Spec => []PartsInPlace
  <1>1. Init => PartsInPlace
    BY DEF Init, PartsInPlace, Consecutive
  <1>2. QED
    BY <1>1, PlaceKept, WellTyped, PTL DEF Spec

LEMMA OkKept ==
  ASSUME BodiesArrive, Typed, Owned, OkMeansStored, [Next]_vars
  PROVE  OkMeansStored'
  <1>1. ASSUME NEW r \in network, Handle(r)
        PROVE  OkMeansStored'
    <2>1. PICK done \in BOOLEAN :
            /\ IF done THEN Valid(r) /\ Changed(r) ELSE UNCHANGED store
            /\ call' = call \/ \E t : Hears(r, done, t)
      BY <1>1, HandleFacts
    <2>2. stored \subseteq stored'
      BY <2>1 DEF Changed, store
    <2>3. CASE call' = call
      BY <2>2, <2>3 DEF OkMeansStored
    <2>4. ASSUME NEW t, Hears(r, done, t)
          PROVE  OkMeansStored'
      <3>1. call'[r.by] = t /\ \A d \in Callers : d # r.by => call'[d] = call[d]
        BY <2>4, HeardCall
      <3>2. ASSUME t.outcome = "ok"
            PROVE  r.by \in stored'
        <4>1. r.kind \in {"complete", "put"} /\ Succeeds(r, done)
          BY <2>4, <3>2 DEF Hears
        <4>2. CASE done
          BY <2>1, <4>1, <4>2 DEF Changed
        <4>3. CASE ~done
          <5>1. r.kind = "complete" /\ uploads[r.id].state = "completed"
            BY <4>1, <4>3 DEF Succeeds, BodiesArrive
          <5>2. r.id # 0 /\ call[r.by].id = r.id /\ r.by \in Callers
            BY <2>4, <5>1 DEF Hears, Typed, Sane
          <5>3. QED
            BY <2>2, <5>1, <5>2 DEF Owned
        <4>4. QED
          BY <4>2, <4>3
      <3>3. QED
        BY <2>2, <3>1, <3>2 DEF OkMeansStored
    <2>5. QED
      BY <2>1, <2>3, <2>4
  <1>2. ASSUME NEW c \in Callers, CallStep(c)
        PROVE  OkMeansStored'
    <2>1. PICK t : Moves(c, t)
      BY <1>2, CallSteps
    <2>2. stored' = stored
      BY <1>2, CallSteps DEF store
    <2>3. call'[c] = t /\ \A d \in Callers : d # c => call'[d] = call[d]
      BY <1>2, <2>1, CallSteps, MoveTyped
    <2>4. t.outcome # "ok"
      BY <2>1 DEF Moves, Well
    <2>5. QED
      BY <2>2, <2>3, <2>4 DEF OkMeansStored
  <1>3. ASSUME NEW c \in Callers, FileEdited(c)
        PROVE  OkMeansStored'
    BY <1>3 DEF FileEdited, store, OkMeansStored
  <1>4. CASE UNCHANGED vars
    BY <1>4 DEF vars, store, OkMeansStored
  <1>5. QED
    BY <1>1, <1>2, <1>3, <1>4 DEF Next
(* Where the body of every answer can be read, a caller is told Ok only    *)
(* when its upload has taken effect, also when the answer it heard was to  *)
(* a Complete sent once more.                                              *)
THEOREM OkIsStored ==
  ASSUME BodiesArrive
  PROVE  Spec => []OkMeansStored
  <1>1. Init => OkMeansStored
    BY ToIdle DEF Init, OkMeansStored, Places, Results
  <1>2. Typed /\ Owned /\ OkMeansStored /\ [Next]_vars => OkMeansStored'
    BY OkKept
  <1>3. QED
    BY <1>1, <1>2, WellTyped, PTL DEF Spec

LEMMA AbortStepKept ==
  ASSUME BodiesArrive, OpensSucceed, Typed, Owned, [Next]_vars,
         NEW c \in Callers, call[c].pc \notin {"abort", "done"},
         call'[c].pc = "done", call[c].id # 0
  PROVE  uploads'[call[c].id].state # "open"
  <1>1. ASSUME NEW r \in network, Handle(r)
        PROVE  uploads'[call[c].id].state # "open"
    <2>1. PICK done \in BOOLEAN :
            /\ IF done THEN Valid(r) /\ Changed(r) ELSE UNCHANGED store
            /\ call' = call \/ \E t : Hears(r, done, t)
      BY <1>1, HandleFacts
    <2>2. PICK t : Hears(r, done, t)
      BY <2>1
    <2>3. call'[r.by] = t /\ \A d \in Callers : d # r.by => call'[d] = call[d]
      BY <2>2, HeardCall
    <2>4. c = r.by /\ t.pc = "done" /\ call[c].pc = r.kind /\ call[c].id = r.id
      BY <2>2, <2>3 DEF Hears
    <2>5. r.kind = "complete"
      <3>1. r.kind \in Kinds /\ (r.kind \in {"create", "put"} => r.id = 0)
        BY DEF Typed, Sane, Requests
      <3>2. r.kind # "part"
        BY <2>2, <2>4 DEF Hears
      <3>3. QED
        BY <2>4, <3>1, <3>2 DEF Kinds
    <2>6. Succeeds(r, done)
      BY <2>2, <2>4, <2>5 DEF Hears
    <2>7. r.id \in 1 .. Len(uploads)
      <3>1. r.id \in Nat /\ r.id <= Len(uploads) /\ Len(uploads) \in Nat
        BY LenProperties DEF Typed, Sane, Requests
      <3>2. QED
        BY <2>4, <3>1
    <2>8. CASE done
      BY <2>1, <2>4, <2>5, <2>7, <2>8 DEF Changed
    <2>9. CASE ~done
      BY <2>1, <2>4, <2>5, <2>6, <2>9 DEF Succeeds, BodiesArrive, store
    <2>10. QED
      BY <2>8, <2>9
  <1>2. ASSUME NEW d \in Callers, CallStep(d)
        PROVE  FALSE
    <2>1. PICK t : Moves(d, t)
      BY <1>2, CallSteps
    <2>2. call'[d] = t /\ \A e \in Callers : e # d => call'[e] = call[e]
      BY <1>2, <2>1, CallSteps, MoveTyped
    <2>3. d = c /\ t.pc = "done"
      BY <2>2
    <2>4. QED
      BY <2>1, <2>3 DEF Moves
  <1>3. ASSUME NEW d \in Callers, FileEdited(d)
        PROVE  FALSE
    BY <1>3 DEF FileEdited
  <1>4. CASE UNCHANGED vars
    BY <1>4 DEF vars
  <1>5. QED
    BY <1>1, <1>2, <1>3, <1>4 DEF Next

(* Where files that were found can be opened and the bodies of answers can *)
(* be read, a call never returns with its upload open on the store, unless *)
(* the abort it sent did not arrive.                                       *)
THEOREM UploadsAreAborted ==
  ASSUME BodiesArrive, OpensSucceed
  PROVE  Spec => AbortedBeforeReturn
  <1> DEFINE Step ==
        \A c \in Callers :
          call[c].pc \notin {"abort", "done"} /\ call'[c].pc = "done"
              /\ call[c].id # 0
            => uploads'[call[c].id].state # "open"
  <1>1. Typed /\ Owned /\ [Next]_vars => [Step]_vars
    BY AbortStepKept
  <1>2. QED
    BY <1>1, WellTyped, PTL DEF Spec, AbortedBeforeReturn
----------------------------------------------------------------------------
(* Files that stay as they are.                                            *)

LEMMA ExactSending ==
  ASSUME NEW c \in Callers, NEW s, NEW v \in Versions, Well(s), Exact(s, v)
  PROVE  ExactRequest(Request(c, s), v)
  <1> DEFINE r == Request(c, s)
  <1>1. /\ r.kind = s.pc /\ r.content = s.body /\ r.number = Len(s.etags) + 1
        /\ s.etags \in Seq(Segments)
    BY DEF Request, Well, Calls
  <1>2. CASE s.pc = "part"
    <2>1. Len(Append(s.etags, s.body[1])) = Len(s.etags) + 1
      BY <1>1
    <2>2. QED
      BY <1>1, <1>2, <2>1 DEF Exact, ExactRequest, Parts
  <1>3. CASE s.pc # "part"
    BY <1>1, <1>3 DEF Exact, ExactRequest, Well
  <1>4. QED
    BY <1>2, <1>3

LEMMA PreciseStep ==
  ASSUME FilesStay, Typed, Precise, [Next]_vars
  PROVE  Precise'
  <1>1. ASSUME NEW c \in Callers, CallStep(c)
        PROVE  Precise'
    <2>1. PICK t : Moves(c, t)
      BY <1>1, CallSteps
    <2>2. UNCHANGED <<file, store>> /\ file[c] \in Versions
      BY <1>1, CallSteps DEF Typed
    <2>3. /\ call'[c] = t /\ \A d \in Callers : d # c => call'[d] = call[d]
          /\ \A r \in network' : r \in network \/ r = Request(c, t)
      BY <2>1, <2>2, MoveTyped
    <2>4. Exact(t, file[c]) /\ Well(t)
      BY <2>1 DEF Moves, Precise
    <2>5. ExactRequest(Request(c, t), file[c]) /\ Request(c, t).by = c
      BY <2>2, <2>4, ExactSending DEF Request
    <2>6. \A r \in network' : ExactRequest(r, file[r.by])
      BY <2>3, <2>5 DEF Precise
    <2>7. QED
      BY <2>2, <2>3, <2>4, <2>6 DEF Precise
  <1>2. ASSUME NEW r \in network, Handle(r)
        PROVE  Precise'
    <2>1. /\ network' = network \ {r} /\ file' = file
      BY <1>2, HandleFacts
    <2>2. PICK done \in BOOLEAN : call' = call \/ \E t : Hears(r, done, t)
      BY <1>2, HandleFacts
    <2>3. ASSUME NEW t, Hears(r, done, t)
          PROVE  \A c \in Callers : Exact(call'[c], file[c])
      <3>1. call'[r.by] = t /\ \A d \in Callers : d # r.by => call'[d] = call[d]
        BY <2>3, HeardCall
      <3>2. Exact(t, file[r.by])
        BY <2>3 DEF Hears, Precise
      <3>3. QED
        BY <3>1, <3>2 DEF Precise
    <2>4. QED
      BY <2>1, <2>2, <2>3 DEF Precise
  <1>3. ASSUME NEW c \in Callers, FileEdited(c)
        PROVE  FALSE
    BY <1>3 DEF FileEdited, FilesStay
  <1>4. CASE UNCHANGED vars
    BY <1>4 DEF vars, Precise
  <1>5. QED
    BY <1>1, <1>2, <1>3, <1>4 DEF Next

LEMMA Precision ==
  ASSUME FilesStay
  PROVE  Spec => []Precise
  <1>1. Init => Precise
    BY Start
  <1>2. Typed /\ Precise /\ [Next]_vars => Precise'
    BY PreciseStep
  <1>3. QED
    BY <1>1, <1>2, WellTyped, PTL DEF Spec

(* All parts but the last are of the size that was chosen.                 *)
LEMMA FullPart ==
  ASSUME NEW v \in Versions, NEW content \in Seq(Segments), Parts(content, v),
         NEW k \in 1 .. Len(content) - 1
  PROVE  content[k].to - content[k].from = ChunkSize(Length[v])
  <1> DEFINE d == ChunkSize(Length[v])
  <1>1. Length[v] \in Nat /\ d \in Nat /\ Len(content) \in Nat
    BY LimitsTyped, ChunkFacts, LenProperties
  <1>2. k \in Int /\ k \in 1 .. Len(content) /\ k + 1 \in 1 .. Len(content)
    BY <1>1
  <1>3. content[k] = Nth(v, k) /\ ((k + 1) - 1) * d < Length[v]
    BY <1>2 DEF Parts
  <1>4. (k + 1) - 1 = k
    BY <1>2
  <1>5. k * d < Length[v] /\ k * d \in Int /\ (k - 1) * d = k * d - d
    BY <1>1, <1>2, <1>3, <1>4, Multiples
  <1>6. Smaller(k * d, Length[v]) = k * d
    BY <1>1, <1>5 DEF Smaller
  <1>7. content[k].to = k * d /\ content[k].from = (k - 1) * d
    BY <1>3, <1>6 DEF Nth, Segment
  <1>8. QED
    BY <1>1, <1>5, <1>7

(* As long as nobody changes the files, no request breaks a limit of the   *)
(* store, whatever part size is asked for and however large the file is.   *)
THEOREM LimitsAreKept ==
  ASSUME FilesStay
  PROVE  Spec => []LimitsKept
  <1>1. Typed /\ Precise => LimitsKept
    <2> SUFFICES ASSUME Typed, Precise, NEW r \in network
                 PROVE  WithinLimits(r)
      BY DEF LimitsKept
    <2> DEFINE v == file[r.by]
    <2>1. r \in Requests /\ v \in Versions /\ r.content \in Seq(Segments)
      BY DEF Typed, Sane, Requests
    <2>2. ExactRequest(r, v) /\ Length[v] \in Nat /\ r.number \in Nat
      BY <2>1, LimitsTyped DEF Precise, Requests
    <2> HIDE DEF v
    <2>3. CASE r.kind = "part"
      <3>1. r.number <= TotalParts(Length[v]) /\ TotalParts(Length[v]) \in 0 .. MaxParts
        BY <2>2, <2>3, PartFacts DEF ExactRequest
      <3>2. QED
        BY <2>2, <2>3, <3>1, LimitsTyped DEF WithinLimits
    <2>4. CASE r.kind = "complete"
      <3>1. Parts(r.content, v)
        BY <2>2, <2>4 DEF ExactRequest
      <3>2. \A k \in 1 .. Len(r.content) - 1 :
              r.content[k].to - r.content[k].from = ChunkSize(Length[v])
        BY <2>1, <3>1, FullPart
      <3>3. ChunkSize(Length[v]) >= MinPartSize
        BY <2>2, ChunkFacts
      <3>4. QED
        BY <2>4, <3>2, <3>3 DEF WithinLimits
    <2>5. CASE r.kind \notin {"part", "complete"}
      BY <2>5 DEF WithinLimits
    <2>6. QED
      BY <2>3, <2>4, <2>5
  <1>2. QED
    BY <1>1, WellTyped, Precision, PTL
----------------------------------------------------------------------------
(* Nobody stores twice.                                                    *)

LEMMA MoveOnce ==
  ASSUME Typed, Once, NEW c \in Callers, CallStep(c)
  PROVE  Once'
  <1>1. PICK t : Moves(c, t)
    BY CallSteps
  <1>2. /\ stored' = stored /\ uploads' = uploads
        /\ call'[c] = t /\ \A d \in Callers : d # c => call'[d] = call[d]
        /\ \A r \in network' :
             r \in network \/ (t.pc \in Kinds /\ r = Request(c, t) /\ r.id = t.id)
    BY <1>1, CallSteps, MoveTyped DEF store
  <1>3. /\ Flows(call[c].pc, t.pc) /\ t.id \in {call[c].id, 0}
        /\ t.pc = "complete" => t.id # 0
    BY <1>1 DEF Moves, Well, Parting
  <1>4. Request(c, t).by = c /\ Request(c, t).kind = t.pc
    BY DEF Request
  <1>5. \A d \in stored' : call'[d].pc \in {"put"} \cup Ending
    <2>1. stored \subseteq Callers
      BY DEF Typed
    <2>2. QED
      BY <1>2, <1>3, <2>1 DEF Once, Flows, Ending
  <1>6. \A d \in Callers :
          call'[d].id # 0 /\ uploads'[call'[d].id].state = "open"
            => d \notin stored'
    BY <1>2, <1>3 DEF Once, Open
  <1>7. ASSUME NEW r \in network'
        PROVE  /\ r.kind = "complete" =>
                    /\ uploads'[r.id].state = "open" => r.by \notin stored'
                    /\ call'[r.by].pc \in Ending
                    /\ call'[r.by].id \in {0, r.id}
               /\ r.kind = "put" =>
                    r.by \notin stored' /\ call'[r.by].pc \in {"put", "done"}
    <2>1. CASE r \in network
      <3>1. r.by \in Callers
        BY <2>1 DEF Typed, Sane, Requests
      <3>2. CASE r.by = c
        BY <1>2, <1>3, <2>1, <3>2 DEF Once, Open, Flows
      <3>3. CASE r.by # c
        BY <1>2, <2>1, <3>1, <3>3 DEF Once, Open
      <3>4. QED
        BY <3>2, <3>3
    <2>2. CASE r = Request(c, t) /\ r.id = t.id
      <3>1. r.kind = "complete" => call[c].id = t.id /\ t.id # 0
        BY <1>3, <1>4, <2>2
      <3>2. r.kind = "put" => call[c].pc = "open"
        BY <1>3, <1>4, <2>2 DEF Flows
      <3>3. QED
        BY <1>2, <1>4, <2>2, <3>1, <3>2 DEF Once, Open, Ending
    <2>3. QED
      BY <1>2, <2>1, <2>2
  <1>8. ASSUME NEW q \in network, q.by = c, q.kind \in {"put", "complete"},
               t.pc \in {"put", "complete"}
        PROVE  q.kind = "complete" /\ t.pc = "complete" /\ q.id = t.id
    <2>1. q.kind = "put" => call[c].pc \in {"put", "done"}
      BY <1>8 DEF Once
    <2>2. q.kind = "complete" => call[c].pc \in Ending /\ call[c].id \in {0, q.id}
      BY <1>8 DEF Once
    <2>3. QED
      BY <1>3, <1>8, <2>1, <2>2 DEF Flows, Ending
  <1>9. ASSUME NEW r \in network', NEW q \in network', r.by = q.by,
               {r.kind, q.kind} \subseteq {"put", "complete"}
        PROVE  r.kind = q.kind /\ r.id = q.id /\ (r.kind = "put" => r = q)
    <2>1. CASE r \in network /\ q \in network
      BY <1>9, <2>1 DEF Once
    <2>2. CASE r \in network /\ q = Request(c, t) /\ q.id = t.id
      BY <1>4, <1>8, <1>9, <2>2
    <2>3. CASE q \in network /\ r = Request(c, t) /\ r.id = t.id
      BY <1>4, <1>8, <1>9, <2>3
    <2>4. CASE r = Request(c, t) /\ q = Request(c, t)
      BY <2>4
    <2>5. QED
      BY <1>2, <2>1, <2>2, <2>3, <2>4
  <1>10. QED
    BY <1>5, <1>6, <1>7, <1>9 DEF Once, Open

LEMMA HandleOnce ==
  ASSUME Typed, Once, NEW r \in network, Handle(r)
  PROVE  Once'
  <1>1. /\ network' = network \ {r} /\ r.by \in Callers /\ Len(uploads) \in Nat
        /\ \A q \in network : q.by \in Callers /\ q.id \in Nat /\ q.id <= Len(uploads)
        /\ \A q \in network : q.kind = "complete" => q.id # 0
    BY HandleFacts, LenProperties DEF Typed, Sane, Requests
  <1>2. PICK done \in BOOLEAN :
          /\ IF done THEN Valid(r) /\ Changed(r) ELSE UNCHANGED store
          /\ call' = call \/ \E t : Hears(r, done, t)
    BY HandleFacts
  <1>3. \A c \in Callers : call[c].id \in Nat /\ call[c].id <= Len(uploads)
    BY DEF Typed, Well, Calls
  <1>4. (* What the step does to the call of c.                            *)
        ASSUME NEW c \in Callers
        PROVE  \/ call'[c] = call[c]
               \/ /\ c = r.by /\ call[c].pc = r.kind
                  /\ Flows(call[c].pc, call'[c].pc)
                  /\ \/ call'[c].id \in {call[c].id, 0}
                     \/ /\ done /\ r.kind = "create"
                        /\ call'[c].id = Len(uploads) + 1
    <2>1. CASE call' = call
      BY <2>1
    <2>2. ASSUME NEW t, Hears(r, done, t)
          PROVE  \/ call'[c] = call[c]
                 \/ /\ c = r.by /\ call[c].pc = r.kind
                    /\ Flows(call[c].pc, call'[c].pc)
                    /\ \/ call'[c].id \in {call[c].id, 0}
                       \/ /\ done /\ r.kind = "create"
                          /\ call'[c].id = Len(uploads) + 1
      <3>1. call'[r.by] = t /\ \A d \in Callers : d # r.by => call'[d] = call[d]
        BY <2>2, HeardCall
      <3>2. QED
        BY <2>2, <3>1 DEF Hears
    <2>3. QED
      BY <1>2, <2>1, <2>2
  <1>5. (* Who has stored it before, or does now.                          *)
        /\ stored \subseteq stored' /\ stored' \subseteq stored \cup {r.by}
        /\ stored \subseteq Callers
        /\ r.by \in stored' \ stored => done /\ r.kind \in {"complete", "put"}
    BY <1>2 DEF Changed, store, Typed
  <1>6. (* An upload that is open was so before.                           *)
        ASSUME NEW n \in 1 .. Len(uploads), uploads'[n].state = "open"
        PROVE  Open(n) /\ ~(done /\ r.kind = "complete" /\ n = r.id)
    BY <1>2, <1>6 DEF Changed, store, Open
  <1>7. ASSUME NEW c \in Callers, call[c].pc \in {"put"} \cup Ending
        PROVE  /\ call'[c].pc \in {"put"} \cup Ending
               /\ call[c].pc \in Ending => call'[c].pc \in Ending
               /\ call[c].pc \in {"put", "done"} => call'[c].pc \in {"put", "done"}
               /\ call'[c].id \in {call[c].id, 0}
    BY <1>4, <1>7 DEF Flows, Ending
  <1>8. \A c \in stored' : call'[c].pc \in {"put"} \cup Ending
    <2>1. ASSUME NEW c \in stored'
          PROVE  c \in Callers /\ call[c].pc \in {"put"} \cup Ending
      <3>1. CASE c \in stored
        BY <1>5, <3>1 DEF Once
      <3>2. CASE c = r.by /\ r.kind \in {"complete", "put"}
        BY <1>1, <3>2 DEF Once, Ending
      <3>3. QED
        BY <1>5, <2>1, <3>1, <3>2
    <2>2. QED
      BY <1>7, <2>1
  <1>9. ASSUME NEW c \in Callers, call'[c].id # 0, uploads'[call'[c].id].state = "open"
        PROVE  c \notin stored'
    <2>1. CASE call'[c].id = call[c].id
      <3>1. call[c].id \in 1 .. Len(uploads)
        BY <1>1, <1>3, <1>9, <2>1
      <3>2. Open(call[c].id) /\ ~(done /\ r.kind = "complete" /\ call[c].id = r.id)
        BY <1>6, <1>9, <2>1, <3>1
      <3>3. c \notin stored
        BY <1>9, <2>1, <3>2 DEF Once
      <3>4. CASE c = r.by /\ r.kind = "complete"
        <4>1. call[c].id = r.id
          BY <1>9, <2>1, <3>4 DEF Once
        <4>2. QED
          BY <1>5, <3>2, <3>3, <3>4, <4>1
      <3>5. CASE c = r.by /\ r.kind = "put"
        <4>1. call[c].pc \in {"put", "done"}
          BY <3>5 DEF Once
        <4>2. call[c].id = 0
          BY <4>1 DEF Typed, Well
        <4>3. QED
          BY <1>9, <2>1, <4>2
      <3>6. QED
        BY <1>5, <3>3, <3>4, <3>5
    <2>2. CASE call'[c].id = Len(uploads) + 1 /\ r.kind = "create" /\ c = r.by
      <3>1. CASE call'[c] = call[c]
        BY <2>1, <3>1
      <3>2. CASE call[c].pc = "create"
        BY <1>5, <2>2, <3>2 DEF Once, Ending
      <3>3. QED
        BY <1>4, <2>1, <2>2, <3>1, <3>2
    <2>3. QED
      BY <1>4, <1>9, <2>1, <2>2
  <1>10. ASSUME NEW q \in network', q.kind = "complete"
         PROVE  /\ uploads'[q.id].state = "open" => q.by \notin stored'
                /\ call'[q.by].pc \in Ending
                /\ call'[q.by].id \in {0, q.id}
    <2>1. /\ q \in network /\ q.by \in Callers /\ q.id \in 1 .. Len(uploads)
          /\ call[q.by].pc \in Ending /\ call[q.by].id \in {0, q.id}
          /\ Open(q.id) => q.by \notin stored
      BY <1>1, <1>10 DEF Once
    <2>2. ASSUME uploads'[q.id].state = "open" PROVE q.by \notin stored'
      <3>1. Open(q.id) /\ ~(done /\ r.kind = "complete" /\ q.id = r.id)
        BY <1>6, <2>1, <2>2
      <3>2. q.by = r.by /\ r.kind \in {"complete", "put"} =>
              r.kind = "complete" /\ q.id = r.id
        BY <1>10, <2>1 DEF Once
      <3>3. QED
        BY <1>5, <2>1, <3>1, <3>2
    <2>3. QED
      BY <1>7, <2>1, <2>2
  <1>11. ASSUME NEW q \in network', q.kind = "put"
         PROVE  q.by \notin stored' /\ call'[q.by].pc \in {"put", "done"}
    <2>1. /\ q \in network /\ q # r /\ q.by \in Callers
          /\ q.by \notin stored /\ call[q.by].pc \in {"put", "done"}
      BY <1>1, <1>11 DEF Once
    <2>2. q.by = r.by => r.kind \notin {"complete", "put"}
      BY <1>11, <2>1 DEF Once
    <2>3. call'[q.by].pc \in {"put", "done"}
      BY <1>7, <2>1 DEF Ending
    <2>4. QED
      BY <1>5, <2>1, <2>2, <2>3
  <1>12. \A p, q \in network' :
           p.by = q.by /\ {p.kind, q.kind} \subseteq {"put", "complete"} =>
             p.kind = q.kind /\ p.id = q.id /\ (p.kind = "put" => p = q)
    BY <1>1 DEF Once
  <1>13. QED
    BY <1>8, <1>9, <1>10, <1>11, <1>12 DEF Once, Open

LEMMA Singly == Spec => []Once
  <1>1. Init => Once
    BY Start
  <1>2. Typed /\ Once /\ [Next]_vars => Once'
    <2> SUFFICES ASSUME Typed, Once, [Next]_vars
                 PROVE  Once'
      OBVIOUS
    <2>1. ASSUME NEW c \in Callers, FileEdited(c)
          PROVE  Once'
      BY <2>1 DEF FileEdited, store, Once, Open
    <2>2. CASE UNCHANGED vars
      BY <2>2 DEF vars, store, Once, Open
    <2>3. QED
      BY <2>1, <2>2, MoveOnce, HandleOnce DEF Next
  <1>3. QED
    BY <1>1, <1>2, WellTyped, PTL DEF Spec
----------------------------------------------------------------------------
(* The upload implements AtomicPut.                                        *)

(* What a request that stores an object carries is the whole of one file,  *)
(* and of no other.                                                        *)
LEMMA WholeContent ==
  ASSUME NEW v \in Versions, NEW content \in Seq(Segments), content # <<>>,
         \/ content = <<Segment(v, 0, Length[v])>>
         \/ Parts(content, v) /\ Len(content) = TotalParts(Length[v])
              /\ Consecutive(content)
  PROVE  Whole(content, v) /\ \A w \in Versions : Whole(content, w) => w = v
  <1>1. Len(content) \in Nat /\ 1 \in 1 .. Len(content)
        /\ Len(content) \in 1 .. Len(content)
    BY LenProperties
  <1>2. CASE content = <<Segment(v, 0, Length[v])>>
    BY <1>2 DEF Whole, Consecutive, Segment
  <1>3. CASE Parts(content, v) /\ Len(content) = TotalParts(Length[v])
               /\ Consecutive(content)
    <2> DEFINE d == ChunkSize(Length[v])
               n == Len(content)
    <2>1. \A k \in 1 .. n : content[k].ver = v
      BY <1>3 DEF Parts, Nth, Segment
    <2>2. Length[v] \in Nat /\ d \in Nat /\ n * d \in Int
      <3>1. Length[v] \in Nat /\ d \in Nat
        BY LimitsTyped, ChunkFacts
      <3>2. QED
        BY <1>1, <3>1, Multiples
    <2>3. ~(n * d < Length[v])
      <3>1. n < TotalParts(Length[v]) <=> n * d < Length[v]
        BY <1>1, <2>2, PartFacts
      <3>2. QED
        BY <1>1, <1>3, <3>1
    <2>4. content[n].to = Smaller(n * d, Length[v])
      BY <1>1, <1>3 DEF Parts, Nth, Segment
    <2>5. content[n].to = Length[v]
      BY <2>2, <2>3, <2>4 DEF Smaller
    <2>6. QED
      BY <1>1, <1>3, <2>1, <2>5 DEF Whole
  <1>4. QED
    BY <1>2, <1>3

(* The object becomes the file of the one who sent r.                      *)
LEMMA ValueStored ==
  ASSUME Typed, Precise, NEW r \in network, Valid(r), Changed(r),
         r.kind \in {"complete", "put"}
  PROVE  Value' = {file[r.by]}
  <1> DEFINE v == file[r.by]
  <1>1. v \in Versions /\ r.content \in Seq(Segments)
        /\ (r.kind = "complete" => Consecutive(r.content))
    BY DEF Typed, Sane, Requests
  <1>2. ExactRequest(r, v)
    BY DEF Precise
  <1>3. r.content # <<>>
    <2>1. CASE r.kind = "complete"
      BY <2>1 DEF Valid, PartsMatch
    <2>2. CASE r.kind = "put"
      <3>1. r.content = <<Segment(v, 0, Length[v])>>
        BY <1>2, <2>2 DEF ExactRequest
      <3>2. Len(<<Segment(v, 0, Length[v])>>) = 1 /\ Len(<<>>) = 0
        OBVIOUS
      <3>3. QED
        BY <3>1, <3>2
    <2>3. QED
      BY <2>1, <2>2
  <1> HIDE DEF v
  <1>4. Whole(r.content, v) /\ \A w \in Versions : Whole(r.content, w) => w = v
    BY <1>1, <1>2, <1>3, WholeContent DEF ExactRequest
  <1>5. object' = r.content
    BY DEF Changed
  <1>6. Value' = {w \in Versions : Whole(r.content, w)}
    BY <1>5 DEF Value, Whole, Consecutive
  <1>7. Value' = {v}
    BY <1>1, <1>4, <1>6
  <1>8. QED
    BY <1>7 DEF v

(* What a caller is told, in the terms of AtomicPut.                       *)
LEMMA Told ==
  ASSUME Typed, NEW c \in Callers, NEW t, call' = [call EXCEPT ![c] = t],
         Well(t), call[c].pc # "done"
  PROVE  \/ t.outcome = "none" /\ Status' = Status
         \/ t.outcome \in {"ok", "error"} /\ Promise!Tell(c, t.outcome)
  <1>1. call'[c] = t /\ \A d \in Callers : d # c => call'[d] = call[d]
    BY DEF Typed
  <1>2. call[c].outcome = "none" /\ t.outcome \in {"none", "ok", "error"}
    BY DEF Typed, Well, Calls
  <1>3. Status' = [Status EXCEPT ![c] = t.outcome] /\ Status[c] = "none"
    <2>1. \A d \in Callers :
            call'[d].outcome = IF d = c THEN t.outcome ELSE call[d].outcome
      BY <1>1
    <2>2. Status' = [d \in Callers |-> IF d = c THEN t.outcome ELSE call[d].outcome]
      BY <2>1 DEF Status
    <2>3. QED
      BY <1>2, <2>2 DEF Status
  <1>4. t.outcome = "none" => Status' = Status
    BY <1>3 DEF Status
  <1>5. QED
    BY <1>2, <1>3, <1>4 DEF Promise!Tell

LEMMA MovePromised ==
  ASSUME Typed, NEW c \in Callers, CallStep(c)
  PROVE  [Promise!Next]_(Promise!vars)
  <1>1. PICK t : Moves(c, t)
    BY CallSteps
  <1>2. file' = file /\ object' = object /\ stored' = stored
    BY CallSteps DEF store
  <1>3. Value' = Value
    BY <1>2 DEF Value, Whole, Consecutive
  <1>4. \/ t.outcome = "none" /\ Status' = Status
        \/ t.outcome \in {"ok", "error"} /\ Promise!Tell(c, t.outcome)
    BY <1>1, Told DEF Moves, Flows
  <1>5. t.outcome # "ok"
    BY <1>1 DEF Moves, Well
  <1>6. CASE Status' = Status
    BY <1>2, <1>3, <1>6 DEF Promise!vars
  <1>7. CASE Promise!Tell(c, "error")
    BY <1>2, <1>3, <1>7 DEF Promise!Fail, Promise!Next
  <1>8. QED
    BY <1>4, <1>5, <1>6, <1>7

LEMMA HandlePromised ==
  ASSUME BodiesArrive, Typed, Owned, Precise, Once,
         NEW r \in network, Handle(r)
  PROVE  [Promise!Next]_(Promise!vars)
  <1> DEFINE c == r.by
  <1>1. c \in Callers /\ file' = file
    BY HandleFacts DEF Typed, Sane, Requests
  <1>2. PICK done \in BOOLEAN :
          /\ IF done THEN Valid(r) /\ Changed(r) ELSE UNCHANGED store
          /\ call' = call \/ \E t : Hears(r, done, t)
    BY HandleFacts
  <1> DEFINE stores == done /\ r.kind \in {"complete", "put"}
  <1>3. \/ Status' = Status
        \/ Promise!Tell(c, "error")
        \/ Promise!Tell(c, "ok") /\ (stores \/ c \in stored)
    <2>1. CASE call' = call
      BY <2>1 DEF Status
    <2>2. ASSUME NEW t, Hears(r, done, t)
          PROVE  \/ Status' = Status
                 \/ Promise!Tell(c, "error")
                 \/ Promise!Tell(c, "ok") /\ (stores \/ c \in stored)
      <3>1. \/ t.outcome = "none" /\ Status' = Status
            \/ t.outcome \in {"ok", "error"} /\ Promise!Tell(c, t.outcome)
        BY <2>2, Told DEF Hears, Flows
      <3>2. ASSUME t.outcome = "ok", ~stores
            PROVE  c \in stored
        <4>1. r.kind \in {"complete", "put"} /\ Succeeds(r, done)
          BY <2>2, <3>2 DEF Hears
        <4>2. r.kind = "complete" /\ uploads[r.id].state = "completed"
          BY <3>2, <4>1 DEF Succeeds, BodiesArrive
        <4>3. r.id # 0 /\ call[c].id = r.id
          BY <2>2, <4>2 DEF Hears, Typed, Sane
        <4>4. QED
          BY <1>1, <4>2, <4>3 DEF Owned
      <3>3. QED
        BY <3>1, <3>2
    <2>3. QED
      BY <1>2, <2>1, <2>2
  <1>4. CASE stores
    <2>1. Valid(r) /\ Changed(r) /\ r.kind \in {"complete", "put"}
      BY <1>2, <1>4
    <2>2. Value' = {file[c]}
      BY <2>1, ValueStored
    <2>3. stored' = stored \cup {c}
      BY <2>1 DEF Changed
    <2>4. c \notin stored
      BY <2>1 DEF Once, Changed
    <2>5. UNCHANGED Status \/ \E result \in {"ok", "error"} : Promise!Tell(c, result)
      BY <1>3
    <2>6. Promise!Replace(c)
      BY <1>1, <2>2, <2>3, <2>4, <2>5 DEF Promise!Replace
    <2>7. QED
      BY <1>1, <2>6 DEF Promise!Next
  <1>5. CASE ~stores
    <2>1. object' = object /\ stored' = stored
      BY <1>2, <1>5 DEF Changed, store
    <2>2. Value' = Value
      BY <2>1 DEF Value, Whole, Consecutive
    <2>3. CASE Status' = Status
      BY <1>1, <2>1, <2>2, <2>3 DEF Promise!vars
    <2>4. CASE Promise!Tell(c, "error")
      BY <1>1, <2>1, <2>2, <2>4 DEF Promise!Fail, Promise!Next
    <2>5. CASE Promise!Tell(c, "ok") /\ c \in stored
      BY <1>1, <2>1, <2>2, <2>5 DEF Promise!Succeed, Promise!Next
    <2>6. QED
      BY <1>3, <1>5, <2>3, <2>4, <2>5
  <1>6. QED
    BY <1>4, <1>5

(* As long as nobody changes the files and the bodies of answers can be    *)
(* read, any number of callers that upload under one key, by PUT or by     *)
(* parts, with any number of lost, late and repeated requests and failing  *)
(* answers, do what AtomicPut allows: the object is always the whole file  *)
(* of one caller, and every caller replaces it at most once.               *)
THEOREM PutsAtomically ==
  ASSUME FilesStay, BodiesArrive
  PROVE  Spec => ImplementsAtomicPut
  <1>1. Init => Promise!Init
    <2> SUFFICES ASSUME Init PROVE Promise!Init
      OBVIOUS
    <2>1. Value = {}
      BY DEF Init, Value, Whole
    <2>2. Status = [c \in Callers |-> "none"]
      BY ToIdle DEF Init, Status, Places, Results
    <2>3. QED
      BY <2>1, <2>2 DEF Init, Promise!Init
  <1>2. Typed /\ Owned /\ Precise /\ Once /\ [Next]_vars
          => [Promise!Next]_(Promise!vars)
    <2> SUFFICES ASSUME Typed, Owned, Precise, Once, [Next]_vars
                 PROVE  [Promise!Next]_(Promise!vars)
      OBVIOUS
    <2>1. ASSUME NEW c \in Callers, FileEdited(c)
          PROVE  FALSE
      BY <2>1 DEF FileEdited, FilesStay
    <2>2. CASE UNCHANGED vars
      BY <2>2 DEF vars, store, Promise!vars, Value, Status, Whole, Consecutive
    <2>3. QED
      BY <2>1, <2>2, MovePromised, HandlePromised DEF Next
  <1>3. QED
    BY <1>1, <1>2, WellTyped, Precision, Singly, PTL
       DEF Spec, ImplementsAtomicPut, Promise!Spec
----------------------------------------------------------------------------
(* The parts are counted against the size the file had at first, and the   *)
(* attempts against MaxRetries: no call can go on for ever.                *)

(* A call never has more ETags than parts planned, and one to come while   *)
(* it sends a part.                                                        *)
Fits(s) ==
  /\ Len(s.etags) <= TotalParts(s.size)
  /\ s.pc = "part" => Len(s.etags) < TotalParts(s.size)

Planned ==
  /\ \A c \in Callers : Fits(call[c])
  /\ \A r \in network : r.kind = "part" => r.number <= MaxParts

(* The steps the parts to come may take: each is read once, and sent once  *)
(* and MaxRetries times again.                                             *)
Left(s) == (TotalParts(s.size) - Len(s.etags)) * (MaxRetries + 2)

(* The steps a call with the local variables s may still take, once it has *)
(* looked at its file.                                                     *)
Rank(s) ==
  CASE s.pc = "create" -> 2 * MaxRetries + 6 + Left(s) - s.attempt
    [] s.pc = "open" /\ s.id # 0 -> MaxRetries + 5 + Left(s)
    [] s.pc = "read" -> MaxRetries + 4 + Left(s)
    [] s.pc = "part" -> MaxRetries + 3 + Left(s) - s.attempt
    [] s.pc = "complete" -> MaxRetries + 3 - s.attempt
    [] s.pc = "cleanup" \/ (s.pc = "open" /\ s.id = 0) -> 2
    [] s.pc \in {"put", "abort"} -> 1
    [] s.pc \in {"stat", "done"} -> 0

(* From s to t, a call gets on: it is not back at its first step, and what *)
(* it may still do is less.                                                *)
Descends(s, t) ==
  /\ t.pc # "stat"
  /\ s.pc = "stat" \/ Rank(t) < Rank(s)

LEMMA PartsTyped ==
  ASSUME NEW size \in Nat
  PROVE  TotalParts(size) \in Nat
  <1>1. TotalParts(size) \in 0 .. MaxParts /\ MaxParts \in Nat
    BY PartFacts, LimitsTyped
  <1>2. QED
    BY <1>1

LEMMA LeftFacts ==
  ASSUME NEW s \in Calls, Fits(s)
  PROVE  /\ Left(s) \in Nat
         /\ \A t : t.size = s.size /\ Len(t.etags) = Len(s.etags) + 1 =>
              Left(t) = Left(s) - (MaxRetries + 2)
  <1> DEFINE n == TotalParts(s.size)
             m == Len(s.etags)
             w == MaxRetries + 2
  <1>1. n \in Nat /\ m \in Nat /\ m <= n /\ w \in Nat
    BY PartFacts, LimitsTyped, LenProperties DEF Calls, Fits
  <1>2. (n - m) * w \in Nat /\ (n - (m + 1)) * w = (n - m) * w - w
    <2> HIDE DEF n, m, w
    <2>1. n - m \in Nat /\ n - (m + 1) = (n - m) - 1
      BY <1>1
    <2>2. QED
      BY <1>1, <2>1, Multiples
  <1>3. QED
    BY <1>2 DEF Left

(* A rank is a natural number.                                             *)
LEMMA RankTyped ==
  ASSUME NEW s \in Calls, Fits(s)
  PROVE  Rank(s) \in Nat
  <1>1. Left(s) \in Nat /\ s.attempt \in 0 .. MaxRetries /\ MaxRetries \in Nat
    BY LeftFacts, LimitsTyped DEF Calls
  <1>2. s.pc \in Places
    BY DEF Calls
  <1> HIDE DEF Left
  <1>3. QED
    BY <1>1, <1>2 DEF Rank, Places, Kinds

(* A call that is over has nothing left to do.                             *)
LEMMA OverDescends ==
  ASSUME NEW s \in Calls, Fits(s), s.pc # "done",
         NEW result \in Results, NEW t, t = Idle("done", result)
  PROVE  Fits(t) /\ Descends(s, t)
  <1>1. t.pc = "done" /\ t.etags = <<>> /\ t.size = 0
    BY DEF Idle
  <1>2. Len(t.etags) = 0 /\ TotalParts(t.size) \in Nat
    BY <1>1, PartFacts, LimitsTyped
  <1>3. Rank(t) = 0
    BY <1>1 DEF Rank
  <1>4. /\ Left(s) \in Nat /\ s.attempt \in 0 .. MaxRetries /\ MaxRetries \in Nat
        /\ s.pc \in Places
    BY LeftFacts, LimitsTyped DEF Calls
  <1>5. s.pc = "stat" \/ 0 < Rank(s)
    BY <1>4 DEF Rank, Places, Kinds
  <1>6. QED
    BY <1>1, <1>2, <1>3, <1>5 DEF Fits, Descends

(* A step of a call.                                                       *)
LEMMA CallDescends ==
  ASSUME Typed, NEW c \in Callers, Fits(call[c]), CallStep(c)
  PROVE  Fits(call'[c]) /\ Descends(call[c], call'[c])
  <1> DEFINE s == call[c]
             t == call'[c]
  <1>1. /\ s \in Calls /\ Well(s) /\ c \in DOMAIN call /\ file[c] \in Versions
        /\ Length[file[c]] \in Nat
    BY LimitsTyped DEF Typed, Well
  <1>2. /\ Left(s) \in Nat /\ s.attempt \in 0 .. MaxRetries /\ MaxRetries \in Nat
        /\ s.size \in Nat /\ TotalParts(s.size) \in Nat /\ Len(s.etags) \in Nat
        /\ Len(s.etags) <= TotalParts(s.size)
    <2>1. Left(s) \in Nat /\ Fits(s)
      BY <1>1, LeftFacts
    <2>2. /\ s.attempt \in 0 .. MaxRetries /\ s.size \in Nat
          /\ Len(s.etags) \in Nat
      BY <1>1, LenProperties DEF Calls
    <2>3. TotalParts(s.size) \in Nat
      BY <2>2, PartsTyped
    <2>4. QED
      BY <2>1, <2>2, <2>3, LimitsTyped DEF Fits
  <1>3. ASSUME Return(c, "error"), s.pc # "done"
        PROVE  Fits(t) /\ Descends(s, t)
    <2>1. t = Idle("done", "error")
      BY <1>1, <1>3 DEF Return
    <2>2. QED
      BY <1>1, <1>3, <2>1, OverDescends DEF Results
  <1>4. ASSUME t.pc \in Places \ {"stat", "part"}, t.size = s.size, t.etags = s.etags,
               s.pc = "stat" \/ Rank(t) < Rank(s)
        PROVE  Fits(t) /\ Descends(s, t)
    BY <1>2, <1>4 DEF Fits, Descends
  <1>5. ASSUME NEW place \in Places, Goto(c, place)
        PROVE  /\ t.pc = place /\ t.size = s.size /\ t.etags = s.etags
               /\ t.id = s.id
    <2>1. t = [s EXCEPT !.pc = place]
      BY <1>1, <1>5 DEF Goto
    <2>2. QED
      BY <1>1, <2>1, ToPlace
  <1>6. ASSUME t.size = s.size, t.etags = s.etags PROVE Left(t) = Left(s)
    BY <1>6 DEF Left
  <1> SUFFICES Fits(t) /\ Descends(s, t)
    OBVIOUS
  <1> HIDE DEF t
  <1>7. CASE Stat(c)
    <2>1. CASE Goto(c, "open")
      BY <1>2, <1>4, <1>5, <1>7, <2>1 DEF Stat, Places
    <2>2. CASE Send(c, [s EXCEPT !.pc = "create", !.size = Length[file[c]]], network)
      <3>1. t = [s EXCEPT !.pc = "create", !.size = Length[file[c]]]
        BY <1>1, <2>2 DEF Send, t
      <3>2. t.pc = "create" /\ t.size = Length[file[c]] /\ t.etags = s.etags
        BY <1>1, <3>1 DEF Calls
      <3>3. Len(t.etags) = 0 /\ TotalParts(t.size) \in Nat
        BY <1>1, <1>7, <3>2, PartFacts, LimitsTyped DEF Stat, Well
      <3>4. QED
        BY <1>7, <3>2, <3>3 DEF Fits, Descends, Stat
    <2>3. QED
      BY <1>3, <1>7, <2>1, <2>2 DEF Stat
  <1>8. CASE OpenForPut(c)
    <2>1. CASE Return(c, "error")
      BY <1>3, <1>8, <2>1 DEF OpenForPut
    <2>2. CASE ~Return(c, "error")
      <3> DEFINE whole == <<Segment(file[c], 0, Length[file[c]])>>
      <3>1. t = [s EXCEPT !.pc = "put", !.body = whole]
        BY <1>1, <1>8, <2>2 DEF OpenForPut, Send, t
      <3>2. t.pc = "put" /\ t.size = s.size /\ t.etags = s.etags
        BY <1>1, <3>1 DEF Calls
      <3>3. Rank(t) = 1 /\ Rank(s) = 2
        BY <1>8, <3>2 DEF Rank, OpenForPut
      <3>4. QED
        BY <1>4, <3>2, <3>3 DEF Places, Kinds
    <2>3. QED
      BY <2>1, <2>2
  <1>9. CASE OpenForParts(c)
    <2>1. CASE Return(c, "error")
      BY <1>3, <1>9, <2>1 DEF OpenForParts
    <2>2. CASE Goto(c, "read")
      <3>1. t.pc = "read" /\ t.size = s.size /\ t.etags = s.etags
        BY <1>5, <2>2 DEF Places
      <3>2. Rank(t) = MaxRetries + 4 + Left(t) /\ Rank(s) = MaxRetries + 5 + Left(s)
        BY <1>9, <3>1 DEF Rank, OpenForParts
      <3>3. QED
        BY <1>2, <1>4, <1>6, <3>1, <3>2 DEF Places
    <2>3. QED
      BY <1>9, <2>1, <2>2 DEF OpenForParts
  <1>10. CASE ReadPart(c)
    <2> DEFINE from == s.position
               to == Smaller(from + ChunkSize(s.size), Length[file[c]])
               chunk == <<Segment(file[c], from, to)>>
    <2>1. t = [s EXCEPT !.pc = "part", !.attempt = 0, !.position = to, !.body = chunk]
      BY <1>1, <1>10 DEF ReadPart, Send, t
    <2> HIDE DEF chunk, to
    <2>2. /\ t.pc = "part" /\ t.size = s.size /\ t.etags = s.etags /\ t.attempt = 0
      BY <1>1, <2>1 DEF Calls
    <2>3. Len(s.etags) < TotalParts(s.size) /\ s.pc = "read"
      BY <1>10 DEF ReadPart, MoreToRead
    <2>4. Rank(t) = MaxRetries + 3 + Left(t) - 0 /\ Rank(s) = MaxRetries + 4 + Left(s)
      BY <2>2, <2>3 DEF Rank
    <2>5. QED
      BY <1>2, <1>6, <2>2, <2>3, <2>4 DEF Fits, Descends
  <1>11. CASE ReadFails(c)
    <2>1. /\ t.pc = "cleanup" /\ t.size = s.size /\ t.etags = s.etags
          /\ s.pc = "read"
      BY <1>5, <1>11 DEF ReadFails, Places
    <2>2. Rank(t) = 2 /\ Rank(s) = MaxRetries + 4 + Left(s)
      BY <2>1 DEF Rank
    <2>3. QED
      BY <1>2, <1>4, <2>1, <2>2 DEF Places
  <1>12. CASE Complete(c)
    <2>1. t = [s EXCEPT !.pc = "complete", !.attempt = 0, !.body = s.etags]
      BY <1>1, <1>12 DEF Complete, Send, t
    <2>2. /\ t.pc = "complete" /\ t.size = s.size /\ t.etags = s.etags
          /\ t.attempt = 0 /\ s.pc = "read"
      BY <1>1, <1>12, <2>1 DEF Calls, Complete
    <2>3. Rank(t) = MaxRetries + 3 - 0 /\ Rank(s) = MaxRetries + 4 + Left(s)
      BY <2>2 DEF Rank
    <2>4. QED
      BY <1>2, <1>4, <2>2, <2>3 DEF Places, Kinds
  <1>13. CASE Abort(c)
    <2>1. t = [s EXCEPT !.pc = "abort", !.attempt = 0, !.body = <<>>]
      BY <1>1, <1>13 DEF Abort, Send, t
    <2>2. /\ t.pc = "abort" /\ t.size = s.size /\ t.etags = s.etags
          /\ s.pc = "cleanup"
      BY <1>1, <1>13, <2>1 DEF Calls, Abort
    <2>3. Rank(t) = 1 /\ Rank(s) = 2
      BY <2>2 DEF Rank
    <2>4. QED
      BY <1>4, <2>2, <2>3 DEF Places, Kinds
  <1>14. CASE Resend(c)
    <2>1. t = [s EXCEPT !.attempt = s.attempt + 1]
      BY <1>1, <1>14 DEF Resend, Send, t
    <2>2. /\ t.pc = s.pc /\ t.size = s.size /\ t.etags = s.etags
          /\ t.attempt = s.attempt + 1 /\ s.pc \in {"create", "complete"}
      BY <1>1, <1>14, <2>1 DEF Calls, Resend
    <2>3. Left(t) = Left(s)
      BY <1>6, <2>2
    <2>4. Rank(t) < Rank(s)
      <3>1. CASE s.pc = "create"
        <4>1. /\ Rank(s) = 2 * MaxRetries + 6 + Left(s) - s.attempt
              /\ Rank(t) = 2 * MaxRetries + 6 + Left(t) - t.attempt
          BY <2>2, <3>1 DEF Rank
        <4>2. QED
          BY <1>2, <2>2, <2>3, <4>1
      <3>2. CASE s.pc = "complete"
        <4>1. /\ Rank(s) = MaxRetries + 3 - s.attempt
              /\ Rank(t) = MaxRetries + 3 - t.attempt
          BY <2>2, <3>2 DEF Rank
        <4>2. QED
          BY <1>2, <2>2, <4>1
      <3>3. QED
        BY <2>2, <3>1, <3>2
    <2>5. QED
      BY <1>4, <2>2, <2>4 DEF Places, Kinds
  <1>15. CASE ResendPart(c)
    <2>1. PICK under \in GivenUp(c) :
            LET segment == s.body[1]
            IN  IF segment.to <= Length[file[c]]
                THEN Send(c, [s EXCEPT !.attempt = @ + 1, !.position = segment.to,
                                !.body = <<[segment EXCEPT !.ver = file[c]]>>], under)
                ELSE Goto(c, "cleanup") /\ network' = under
      BY <1>15 DEF ResendPart
    <2>2. s.pc = "part"
      BY <1>15 DEF ResendPart
    <2>3. Rank(s) = MaxRetries + 3 + Left(s) - s.attempt
      BY <2>2 DEF Rank
    <2>4. CASE Goto(c, "cleanup")
      <3>1. t.pc = "cleanup" /\ t.size = s.size /\ t.etags = s.etags
        BY <1>5, <2>4 DEF Places
      <3>2. Rank(t) = 2
        BY <3>1 DEF Rank
      <3>3. QED
        BY <1>2, <1>4, <2>3, <3>1, <3>2 DEF Places
    <2>5. CASE ~Goto(c, "cleanup")
      <3> DEFINE body == <<[s.body[1] EXCEPT !.ver = file[c]]>>
                 to == s.body[1].to
      <3>1. t = [s EXCEPT !.attempt = s.attempt + 1, !.position = to, !.body = body]
        BY <1>1, <2>1, <2>5 DEF Send, t
      <3> HIDE DEF body, to
      <3>2. /\ t.pc = "part" /\ t.size = s.size /\ t.etags = s.etags
            /\ t.attempt = s.attempt + 1
        BY <1>1, <2>2, <3>1 DEF Calls
      <3>3. Rank(t) = MaxRetries + 3 + Left(t) - t.attempt /\ Left(t) = Left(s)
        BY <1>6, <3>2 DEF Rank
      <3>4. QED
        BY <1>2, <2>2, <2>3, <3>2, <3>3 DEF Fits, Descends
    <2>6. QED
      BY <2>4, <2>5
  <1>16. CASE GiveUp(c)
    <2>1. CASE s.pc \in {"part", "complete"}
      <3>1. t.pc = "cleanup" /\ t.size = s.size /\ t.etags = s.etags
        BY <1>5, <1>16, <2>1 DEF GiveUp, Places
      <3>2. Rank(t) = 2
        BY <3>1 DEF Rank
      <3>3. Rank(s) >= 3
        BY <1>2, <2>1, SMTT(20) DEF Rank
      <3>4. Rank(s) \in Nat
        BY <1>1, RankTyped
      <3>5. QED
        BY <1>4, <3>1, <3>2, <3>3, <3>4 DEF Places
    <2>2. CASE s.pc \notin {"part", "complete"}
      BY <1>3, <1>16, <2>2 DEF GiveUp, Kinds
    <2>3. QED
      BY <2>1, <2>2
  <1>17. QED
    BY <1>7, <1>8, <1>9, <1>10, <1>11, <1>12, <1>13, <1>14, <1>15, <1>16
       DEF CallStep, t

(* A call hears the answer to its request.                                 *)
LEMMA HearDescends ==
  ASSUME Typed, NEW r \in network, Fits(call[r.by]),
         r = Request(r.by, call[r.by]), HearSuccess(r.by) \/ HearFailure(r.by)
  PROVE  Fits(call'[r.by]) /\ Descends(call[r.by], call'[r.by])
  <1> DEFINE c == r.by
             s == call[c]
             t == call'[c]
  <1>1. /\ c \in Callers /\ s \in Calls /\ Well(s) /\ c \in DOMAIN call
        /\ s.pc = r.kind /\ s.pc \in Kinds /\ uploads \in Seq(Uploads)
    <2>1. r \in Requests
      BY DEF Typed, Sane
    <2>2. c \in Callers /\ r.kind \in Kinds /\ s.pc = r.kind
      BY <2>1 DEF Requests, Request
    <2>3. QED
      BY <2>2 DEF Typed, Well
  <1>2. /\ Left(s) \in Nat /\ s.attempt \in 0 .. MaxRetries /\ MaxRetries \in Nat
        /\ TotalParts(s.size) \in Nat /\ Len(s.etags) \in Nat
        /\ s.etags \in Seq(Segments)
    <2>1. /\ s.size \in Nat /\ s.attempt \in 0 .. MaxRetries
          /\ s.etags \in Seq(Segments)
      BY <1>1 DEF Calls
    <2>2. Left(s) \in Nat
      BY <1>1, LeftFacts
    <2>3. TotalParts(s.size) \in Nat /\ MaxRetries \in Nat
      <3>1. TotalParts(s.size) \in 0 .. MaxParts
        BY <2>1, PartFacts
      <3>2. QED
        BY <3>1, LimitsTyped
    <2>4. Len(s.etags) \in Nat
      BY <2>1, LenProperties
    <2>5. QED
      BY <2>1, <2>2, <2>3, <2>4
  <1>3. ASSUME NEW result \in {"ok", "error"}, Return(c, result)
        PROVE  Fits(t) /\ Descends(s, t)
    <2>1. t = Idle("done", result) /\ s.pc # "done"
      BY <1>1, <1>3 DEF Return, Kinds
    <2>2. QED
      BY <1>1, <2>1, OverDescends DEF Results
  <1> SUFFICES Fits(t) /\ Descends(s, t)
    OBVIOUS
  <1> HIDE DEF t
  <1>4. CASE HearSuccess(c) /\ s.pc = "create"
    <2>1. t = [s EXCEPT !.pc = "open", !.id = Len(uploads) + 1]
      BY <1>1, <1>4 DEF HearSuccess, t
    <2>2. Len(uploads) + 1 # 0
      BY <1>1, LenProperties
    <2>3. t.pc = "open" /\ t.id # 0 /\ t.size = s.size /\ t.etags = s.etags
      BY <1>1, <2>1, <2>2 DEF Calls
    <2>4. /\ Rank(t) = MaxRetries + 5 + Left(t) /\ Left(t) = Left(s)
          /\ Rank(s) = 2 * MaxRetries + 6 + Left(s) - s.attempt
      BY <1>4, <2>3 DEF Rank, Left
    <2>5. QED
      BY <1>2, <2>3, <2>4 DEF Fits, Descends
  <1>5. CASE HearSuccess(c) /\ s.pc = "part"
    <2> DEFINE longer == Append(s.etags, s.body[1])
    <2>1. t = [s EXCEPT !.pc = "read", !.etags = longer]
      BY <1>1, <1>5 DEF HearSuccess, t
    <2>2. Len(longer) = Len(s.etags) + 1
      BY <1>2
    <2> HIDE DEF longer
    <2>3. t.pc = "read" /\ t.size = s.size /\ Len(t.etags) = Len(s.etags) + 1
      BY <1>1, <2>1, <2>2 DEF Calls
    <2>4. Len(s.etags) < TotalParts(s.size)
      BY <1>5 DEF Fits
    <2>5. Left(t) = Left(s) - (MaxRetries + 2)
      BY <1>1, <2>3, LeftFacts
    <2>6. /\ Rank(t) = MaxRetries + 4 + Left(t)
          /\ Rank(s) = MaxRetries + 3 + Left(s) - s.attempt
      BY <1>5, <2>3 DEF Rank
    <2>7. Rank(t) < Rank(s)
      BY <1>2, <2>5, <2>6
    <2>8. Fits(t)
      BY <1>2, <2>3, <2>4 DEF Fits
    <2>9. QED
      BY <2>3, <2>7, <2>8 DEF Descends
  <1>6. CASE HearSuccess(c) /\ s.pc \in {"complete", "put", "abort"}
    BY <1>3, <1>6 DEF HearSuccess
  <1>7. CASE HearFailure(c) /\ s.pc \in {"part", "complete"}
    <2>1. t = [s EXCEPT !.pc = "cleanup"]
      BY <1>1, <1>7 DEF HearFailure, Goto, t
    <2>2. t.pc = "cleanup" /\ t.size = s.size /\ t.etags = s.etags
      BY <1>1, <2>1 DEF Calls
    <2>3. Rank(t) = 2 /\ Rank(s) \in Nat
      BY <1>1, <2>2, RankTyped DEF Rank
    <2>4. 3 <= Rank(s)
      BY <1>2, <1>7, SMTT(20) DEF Rank
    <2>5. QED
      BY <1>2, <2>2, <2>3, <2>4 DEF Fits, Descends
  <1>8. CASE HearFailure(c) /\ s.pc \notin {"part", "complete"}
    BY <1>3, <1>8 DEF HearFailure
  <1>9. QED
    BY <1>1, <1>4, <1>5, <1>6, <1>7, <1>8 DEF Kinds

(* A step leaves every call as it is, or gets it on, and every part sent   *)
(* is one of those planned.                                                *)
LEMMA PlannedStep ==
  ASSUME Typed, Planned, [Next]_vars
  PROVE  /\ Planned'
         /\ \A c \in Callers :
              /\ call'[c] # call[c] => Descends(call[c], call'[c])
              /\ CallStep(c) => Descends(call[c], call'[c])
  <1>1. ASSUME NEW c \in Callers, CallStep(c)
        PROVE  /\ Planned' /\ Descends(call[c], call'[c])
               /\ \A d \in Callers : d # c => call'[d] = call[d]
    <2>1. PICK t : Moves(c, t)
      BY <1>1, CallSteps
    <2>2. /\ call'[c] = t /\ \A d \in Callers : d # c => call'[d] = call[d]
      BY <2>1 DEF Moves, Typed
    <2>3. Fits(t) /\ Descends(call[c], t)
      BY <1>1, <2>2, CallDescends DEF Planned
    <2>4. ASSUME NEW r \in network', r.kind = "part"
          PROVE  r.number <= MaxParts
      <3>1. CASE r \in network
        BY <2>4, <3>1 DEF Planned
      <3>2. CASE r \notin network
        <4>1. r = Request(c, t) /\ t \in Calls
          BY <2>1, <3>2 DEF Moves, Well
        <4>2. r.number = Len(t.etags) + 1 /\ t.pc = "part"
          BY <2>4, <4>1 DEF Request
        <4>3. Len(t.etags) < TotalParts(t.size)
          BY <2>3, <4>2 DEF Fits
        <4>4. TotalParts(t.size) \in 0 .. MaxParts /\ Len(t.etags) \in Nat
          BY <4>1, PartFacts, LenProperties DEF Calls
        <4>5. QED
          BY <4>2, <4>3, <4>4, LimitsTyped
      <3>3. QED
        BY <3>1, <3>2
    <2>5. QED
      BY <2>2, <2>3, <2>4 DEF Planned
  <1>2. ASSUME NEW r \in network, Handle(r)
        PROVE  /\ Planned'
               /\ \A c \in Callers :
                    call'[c] # call[c] => Descends(call[c], call'[c])
    <2>1. /\ \/ UNCHANGED call
             \/ /\ r = Request(r.by, call[r.by])
                /\ HearSuccess(r.by) \/ HearFailure(r.by)
          /\ network' = network \ {r}
      BY <1>2 DEF Handle
    <2>2. CASE UNCHANGED call
      BY <2>1, <2>2 DEF Planned
    <2>3. CASE /\ r = Request(r.by, call[r.by])
               /\ HearSuccess(r.by) \/ HearFailure(r.by)
      <3>1. r.by \in Callers
        BY DEF Typed, Sane, Requests
      <3>2. PICK done \in BOOLEAN : UNCHANGED call \/ \E t : Hears(r, done, t)
        BY <1>2, HandleFacts
      <3>3. \A c \in Callers : c # r.by => call'[c] = call[c]
        BY <3>2, HeardCall
      <3>4. Fits(call'[r.by]) /\ Descends(call[r.by], call'[r.by])
        BY <2>3, <3>1, HearDescends DEF Planned
      <3>5. QED
        BY <2>1, <3>3, <3>4 DEF Planned
    <2>4. QED
      BY <2>1, <2>2, <2>3
  <1>3. ASSUME UNCHANGED <<call, network>>
        PROVE  /\ Planned'
               /\ \A c \in Callers : call'[c] = call[c]
    BY <1>3 DEF Planned
  <1>4. ASSUME NEW c \in Callers, FileEdited(c) \/ UNCHANGED vars
        PROVE  UNCHANGED <<call, network>>
    BY <1>4 DEF FileEdited, vars
  <1>5. Planned'
    BY <1>1, <1>2, <1>3, <1>4 DEF Next, vars
  <1>6. ASSUME NEW c \in Callers, call'[c] # call[c]
        PROVE  Descends(call[c], call'[c])
    BY <1>1, <1>2, <1>3, <1>4, <1>6 DEF Next, vars
  <1>7. QED
    BY <1>1, <1>5, <1>6

LEMMA Planning == Spec => []Planned
  <1>1. Init => Planned
    <2> SUFFICES ASSUME Init PROVE Planned
      OBVIOUS
    <2>1. ASSUME NEW c \in Callers PROVE Fits(call[c])
      <3>1. call[c].pc = "stat" /\ Len(call[c].etags) = 0 /\ call[c].size = 0
        BY DEF Init, Idle
      <3>2. TotalParts(0) \in Nat
        BY PartFacts, LimitsTyped
      <3>3. QED
        BY <3>1, <3>2 DEF Fits
    <2>2. QED
      BY <2>1 DEF Init, Planned
  <1>2. Typed /\ Planned /\ [Next]_vars => Planned'
    BY PlannedStep
  <1>3. QED
    BY <1>1, <1>2, WellTyped, PTL DEF Spec

(* "auto-calculated part sizing to stay within S3's 10,000 part limit",    *)
(* without any assumption on the files: one that grows during the upload   *)
(* does not make the loop go on past the parts planned.                    *)
THEOREM PartsAreFew ==
  Spec => [](\A r \in network : r.kind = "part" => r.number <= MaxParts)
  <1>1. Planned => \A r \in network : r.kind = "part" => r.number <= MaxParts
    BY DEF Planned
  <1>2. QED
    BY <1>1, Planning, PTL

(* What is left to do is a natural number in every state.                  *)
THEOREM RanksAreNatural == Spec => [](\A c \in Callers : Rank(call[c]) \in Nat)
  <1>1. Typed /\ Planned => \A c \in Callers : Rank(call[c]) \in Nat
    BY RankTyped DEF Typed, Well, Planned
  <1>2. QED
    BY <1>1, WellTyped, Planning, PTL

(* The safety half of CallsReturn: no call goes on for ever, whatever the  *)
(* store, the network and those who change the files do.  Nothing gives a  *)
(* call back what it has used up, and each step of its own uses some.      *)
THEOREM CallsRunOut ==
  Spec => [][\A c \in Callers :
               /\ call'[c] # call[c] => Descends(call[c], call'[c])
               /\ CallStep(c) => Descends(call[c], call'[c])]_vars
  <1>1. Typed /\ Planned /\ [Next]_vars =>
          [\A c \in Callers :
             /\ call'[c] # call[c] => Descends(call[c], call'[c])
             /\ CallStep(c) => Descends(call[c], call'[c])]_vars
    BY PlannedStep
  <1>2. QED
    BY <1>1, WellTyped, Planning, PTL DEF Spec
============================================================================
