-------------------------- MODULE LocalCopyProofs --------------------------
(***************************************************************************)
(* Proofs, for any number of calls, of every kind, over any versions: the  *)
(* typing of LocalCopy; that copies which all end well leave what they     *)
(* copied; that the text of an error is not stored; that no call goes on   *)
(* for ever; and when a cached read may be trusted.                        *)
(***************************************************************************)
EXTENDS LocalCopy, SequenceTheorems, TLAPS

(* A call of this kind loses no write in silence.  That the calls are such *)
(* is the hypothesis of SettledIsWhole: without it TLC finds SettledWhole  *)
(* violated (trait closeFails and a download).                             *)
Reports(kind) == "closeFails" \notin Traits \/ kind \notin Retrying

ClosesReport == \A kind \in MayCall : Reports(kind)

(* A call stays one of those that may be made.                             *)
KindsKept == \A c \in Callers : call[c].kind \in MayCall

(* The places of an attempt from its first byte on.                        *)
Copying == {"copy", "close"}
Copied == {"reopen", "read"}

(* What a call's local variables l say by where it is.                     *)
Placed(l) ==
  /\ l.written <= l.received
  /\ l.pc \in {"begin", "request", "create"} => l.received = 0
  /\ l.pc \in Copying => l.wrote /\ l.ver # Hole
  /\ l.pc \in Copied => l.written = l.received
  /\ l.outcome # "none" => l.pc = "done" /\ l.written = l.received
  /\ l.pc = "begin" /\ l.wrote => l.kind \in Retrying
  /\ l.pc = "request" /\ l.kind \in {"http", "ftp"} => l.wrote

(* The local variables l, one by one (`attempts` and `seen` do not matter).*)
Has(l, kind, pc, ver, received, written, wrote, outcome) ==
  /\ l.kind = kind /\ l.pc = pc /\ l.ver = ver /\ l.received = received
  /\ l.written = written /\ l.wrote = wrote /\ l.outcome = outcome

AllPlaced == \A c \in Callers : Placed(call[c]) /\ (call[c].wrote => exists)

(* The attempt that created the file last for this call has not failed: it *)
(* still copies, or has ended well.                                        *)
Sound(l) ==
  \/ l.pc \in Copying \cup Copied
  \/ l.pc = "request" /\ l.kind \in {"http", "ftp"}
  \/ l.pc = "done" /\ l.outcome = "ok"

AllSound == \A c \in Writers : Sound(call[c])

(* The last byte was written by somebody.                                  *)
EndsWritten == bytes # <<>> => bytes[Len(bytes)] # Hole

(* Every byte is one that a writer has received, or nobody's.              *)
Owned == \A i \in 1 .. Len(bytes) :
  \/ bytes[i] = Hole
  \/ \E c \in Writers : bytes[i] = call[c].ver /\ i <= call[c].received

(* What the call has written is still there, its own or overwritten.       *)
Intact(c) == \A i \in 1 .. call[c].written : i <= Len(bytes) /\ bytes[i] # Hole

(* No byte is older than the attempts under way: the file holds what they  *)
(* have received, and all that the one that emptied it last has written.   *)
Fresh == AllSound => Owned /\ (Writers # {} => \E c \in Writers : Intact(c))

(* What a step that takes the local variables of c to r does to the file:  *)
(* it empties it, leaves it alone, or writes out the buffer of c. Only an  *)
(* attempt that was sound is so after the other two.                       *)
Emptied(r) == bytes' = <<>> /\ r.wrote /\ r.written = 0

Left(c, r) ==
  /\ bytes' = bytes /\ r.wrote = call[c].wrote
  /\ r.wrote /\ Sound(r) =>
       /\ Sound(call[c])
       /\ call[c].received = 0 \/ r.ver = call[c].ver
       /\ r.received >= call[c].received /\ r.written = call[c].written

WrittenOut(c, r) ==
  /\ bytes' = Flushed(c) /\ r.wrote = call[c].wrote
  /\ call[c].pc \in Fallible(c) \cup Copying
  /\ r.wrote /\ Sound(r) =>
       /\ Sound(call[c]) /\ r.ver = call[c].ver
       /\ r.received = call[c].received /\ r.written = call[c].received

(* The version that a step leaves in the local variables r.                *)
Picks(c, r) ==
  /\ r.kind = call[c].kind
  /\ r.ver \in {call[c].ver, Hole, live}
  /\ r.ver \in Pages => r.ver = call[c].ver \/ r.kind \in Unchecked \/ r.ver = Hole

(* A step of c to the local variables r, which are placed, and what it     *)
(* does to the file.                                                       *)
Moves(c, r) ==
  /\ call' = [call EXCEPT ![c] = r]
  /\ Placed(r) /\ (r.wrote => exists') /\ Picks(c, r)
  /\ live' = live /\ (exists => exists') /\ exists' \in BOOLEAN
  /\ \/ bytes' \in {<<>>, bytes}
     \/ bytes' = Flushed(c) /\ call[c].pc \in Fallible(c) \cup Copying
  /\ Reports(call[c].kind) => Emptied(r) \/ Left(c, r) \/ WrittenOut(c, r)

----------------------------------------------------------------------------
(* What writing out a buffer does to the file: the buffered bytes come to  *)
(* their place, the others stay, and no written byte is lost.              *)
LEMMA FlushedFacts ==
  ASSUME TypeOK, NEW c \in Callers,
         call[c].written < call[c].received => call[c].ver # Hole
  PROVE  LET after == Flushed(c)
         IN  /\ after \in Seq(Versions \cup {Hole})
             /\ \A i \in 1 .. Len(after) :
                  \/ after[i] = Hole
                  \/ i \in 1 .. Len(bytes) /\ after[i] = bytes[i]
                  \/ i <= call[c].received /\ after[i] = call[c].ver
             /\ \A i \in 1 .. Len(bytes) :
                  bytes[i] # Hole => i <= Len(after) /\ after[i] # Hole
             /\ \A i \in 1 .. call[c].received :
                  call[c].written < i => i <= Len(after) /\ after[i] # Hole
             /\ EndsWritten /\ after # <<>> => after[Len(after)] # Hole
  <1> DEFINE v == call[c].ver
             from == call[c].written
             to == call[c].received
             Bytes == Versions \cup {Hole}
  <1>1. /\ v \in Bytes /\ from \in Nat /\ to \in Nat /\ from <= to
        /\ bytes \in Seq(Bytes)
    BY DEF TypeOK, Calls
  <1>2. /\ Len(bytes) \in Nat
        /\ \A i \in 1 .. Len(bytes) : bytes[i] \in Bytes
        /\ bytes # <<>> => Len(bytes) # 0
    BY <1>1, LenProperties, ElementOfSeq, EmptySeq
  <1>3. CASE ~(from < to)
    BY <1>1, <1>2, <1>3 DEF Flushed, EndsWritten
  <1>4. CASE from < to
    <2> DEFINE n == Larger(Len(bytes), to)
               after == [i \in 1 .. n |->
                           IF from < i /\ i <= to THEN v
                           ELSE IF i <= Len(bytes) THEN bytes[i] ELSE Hole]
    <2>1. Flushed(c) = after
      BY <1>4 DEF Flushed, Written
    <2>2. n \in Nat /\ n >= Len(bytes) /\ n >= to /\ n \in {Len(bytes), to} /\ n > 0
      BY <1>1, <1>2, <1>4 DEF Larger
    <2> HIDE DEF n
    <2>3. after \in [1 .. n -> Bytes]
      BY <1>1, <1>2, <2>2
    <2>4. after \in Seq(Bytes) /\ Len(after) = n
      BY <2>2, <2>3, SeqDef, LenProperties
    <2>5. \A i \in 1 .. n :
            after[i] = IF from < i /\ i <= to THEN v
                       ELSE IF i <= Len(bytes) THEN bytes[i] ELSE Hole
      BY <2>2
    <2> HIDE DEF after
    <2>6. EndsWritten => after[n] # Hole
      BY <1>1, <1>2, <1>4, <2>2, <2>5 DEF EndsWritten
    <2>7. QED
      BY <1>1, <1>2, <1>4, <2>1, <2>2, <2>4, <2>5, <2>6
  <1>5. QED
    BY <1>3, <1>4

(* A step of one call, to local variables r, keeps the typing and places   *)
(* of all when those of r are right and the file does not go away.         *)
LEMMA OneCall ==
  ASSUME TypeOK, AllPlaced, NEW c \in Callers,
         live' = live, exists => exists', exists' \in BOOLEAN,
         bytes' \in Seq(Versions \cup {Hole}),
         ~exists' => bytes' = <<>>,
         NEW r \in Calls, call' = [call EXCEPT ![c] = r],
         Placed(r), r.wrote => exists'
  PROVE  TypeOK' /\ AllPlaced'
  <1>1. /\ call' \in [Callers -> Calls] /\ call'[c] = r
        /\ \A d \in Callers \ {c} : call'[d] = call[d]
    BY DEF TypeOK
  <1>2. AllPlaced'
    BY <1>1 DEF AllPlaced
  <1>3. QED
    BY <1>1, <1>2 DEF TypeOK, AllPlaced, Placed

----------------------------------------------------------------------------
(* Where a buffer is written out, its bytes have a version.                *)
LEMMA Buffered ==
  ASSUME TypeOK, AllPlaced, NEW c \in Callers,
         call[c].pc \in Fallible(c) \cup Copying
  PROVE  call[c].written < call[c].received =>
           call[c].pc \in Copying /\ call[c].wrote /\ call[c].ver # Hole /\ exists
  BY DEF TypeOK, Calls, AllPlaced, Placed, Fallible, Copying, Copied

(* Flushing a buffer keeps the file's type, and only writers flush.        *)
LEMMA FlushedTyping ==
  ASSUME TypeOK, AllPlaced, NEW c \in Callers,
         call[c].pc \in Fallible(c) \cup Copying
  PROVE  /\ Flushed(c) \in Seq(Versions \cup {Hole})
         /\ ~exists => Flushed(c) = <<>>
  <1>1. CASE call[c].written < call[c].received
    BY <1>1, Buffered, FlushedFacts
  <1>2. CASE ~(call[c].written < call[c].received)
    BY <1>2 DEF Flushed, TypeOK
  <1>3. QED
    BY <1>1, <1>2

(* Where a call begins.                                                    *)
LEMMA BeginGoes ==
  ASSUME NEW c \in Callers, Begin(c)
  PROVE  \E pc \in {"reopen", "create", "request"} :
           /\ Goto(c, pc)
           /\ pc = "reopen" => call[c].kind \in Reusing /\ exists
           /\ pc = "create" => call[c].kind \in {"http", "ftp"}
           /\ pc = "request" => call[c].kind \notin {"http", "ftp"}
  <1>1. CASE call[c].kind \in Reusing /\ exists
    <2>1. Goto(c, "reopen")
      BY <1>1 DEF Begin, Reusing
    <2>2. QED
      BY <1>1, <2>1
  <1>2. CASE ~(call[c].kind \in Reusing /\ exists) /\ call[c].kind \in {"http", "ftp"}
    <2>1. Goto(c, "create")
      BY <1>2 DEF Begin
    <2>2. QED
      BY <1>2, <2>1
  <1>3. CASE ~(call[c].kind \in Reusing /\ exists) /\ call[c].kind \notin {"http", "ftp"}
    <2>1. Goto(c, "request")
      BY <1>3 DEF Begin
    <2>2. QED
      BY <1>3, <2>1
  <1>4. QED
    BY <1>1, <1>2, <1>3

(* Every step of a call takes its local variables to some r that are       *)
(* placed, and treats the file in one of the three ways.                   *)
LEMMA OneStep ==
  ASSUME TypeOK, AllPlaced, NEW c \in Callers,
         CallStep(c) \/ Fault(c) \/ Killed(c)
  PROVE  \E r \in Calls : Moves(c, r)
  <1> DEFINE l == call[c]
  <1>1. /\ l \in Calls /\ Placed(l) /\ (l.wrote => exists)
        /\ l.written \in Nat /\ l.received \in Nat
        /\ exists \in BOOLEAN /\ live \in Versions /\ bytes \in Seq(Versions \cup {Hole})
    BY DEF TypeOK, AllPlaced, Calls
  <1>2. CASE Begin(c)
    <2>1. PICK pc \in {"reopen", "create", "request"} :
             /\ call' = [call EXCEPT ![c].pc = pc]
             /\ pc = "reopen" => l.kind \in Reusing
             /\ pc = "request" => l.kind \notin {"http", "ftp"}
      BY <1>2, BeginGoes DEF Goto
    <2> DEFINE r == [l EXCEPT !.pc = pc]
    <2>2. call' = [call EXCEPT ![c] = r]
      BY <2>1
    <2>3. /\ r \in Calls
          /\ Has(r, l.kind, pc, l.ver, l.received, l.written, l.wrote, l.outcome)
      BY <1>1 DEF Calls, Places, Has
    <2> HIDE DEF r
    <2>4. Placed(r)
      BY <1>1, <2>3, <1>2, <2>1
         DEF Begin, Placed, Copying, Copied, Retrying, Has
    <2>5. Left(c, r)
      <3>1. l.pc = "begin" /\ bytes' = bytes /\ r.wrote = l.wrote
        BY <1>2, <2>3 DEF Begin, Has
      <3>2. r.wrote => pc # "reopen"
        BY <1>1, <2>1, <2>3, <3>1 DEF Placed, Has, Reusing, Retrying
      <3>3. ~(r.wrote /\ Sound(r))
        BY <1>1, <2>1, <2>3, <2>4, <3>1, <3>2
           DEF Sound, Copying, Copied, Has, Placed, Retrying
      <3>4. QED
        BY <3>1, <3>3 DEF Left
    <2>6. Moves(c, r)
      BY <1>1, <2>2, <2>3, <2>4, <2>5, <1>2 DEF Moves, Picks, Begin, Has
    <2>7. QED
      BY <2>3, <2>6
  <1>3. CASE Create(c)
    <2> DEFINE next == IF l.ver = Hole THEN "request" ELSE "copy"
    <2> DEFINE r == [l EXCEPT !.wrote = TRUE, !.pc = next]
    <2>1. call' = [call EXCEPT ![c] = r]
      BY <1>3 DEF Create
    <2>2. /\ r \in Calls
          /\ Has(r, l.kind, next, l.ver, l.received, l.written, TRUE, l.outcome)
      BY <1>1 DEF Calls, Places, Has
    <2> HIDE DEF r
    <2>3. Placed(r)
      BY <1>1, <2>2, <1>3 DEF Create, Placed, Copying, Copied, Retrying, Has
    <2>4. Moves(c, r)
      BY <1>1, <2>1, <2>2, <2>3, <1>3
         DEF Moves, Picks, Create, Emptied, Sound, Copying, Copied, Has, Placed
    <2>5. QED
      BY <2>2, <2>4
  <1>4. CASE Request(c)
    <2> DEFINE next == IF l.kind \in {"http", "ftp"} THEN "copy" ELSE "create"
    <2> DEFINE r == [l EXCEPT !.ver = live, !.pc = next]
    <2>1. call' = [call EXCEPT ![c] = r]
      BY <1>4 DEF Request
    <2>2. /\ r \in Calls
          /\ Has(r, l.kind, next, live, l.received, l.written, l.wrote, l.outcome)
      BY <1>1 DEF Calls, Places, Has
    <2> HIDE DEF r
    <2>3. Placed(r)
      BY <1>1, <2>2, <1>4, HoleAssumption
         DEF Request, Placed, Copying, Copied, Retrying, Has
    <2>4. Moves(c, r)
      BY <1>1, <2>1, <2>2, <2>3, <1>4
         DEF Moves, Picks, Request, Left, Sound, Copying, Copied, Has, Placed
    <2>5. QED
      BY <2>2, <2>4
  <1>5. CASE Receive(c)
    <2>1. PICK n \in 1 .. MaxChunk : call' = [call EXCEPT ![c].received = @ + n]
      BY <1>5 DEF Receive
    <2>2. n \in Nat
      BY BoundsAssumption
    <2> DEFINE r == [l EXCEPT !.received = @ + n]
    <2>3. call' = [call EXCEPT ![c] = r]
      BY <2>1
    <2>4. /\ r \in Calls
          /\ Has(r, l.kind, l.pc, l.ver, l.received + n, l.written, l.wrote, l.outcome)
      BY <1>1, <2>2, SMTT(20) DEF Calls, Places, Has
    <2> HIDE DEF r
    <2>5. Placed(r)
      BY <1>1, <2>4, <1>5, <2>2
         DEF Receive, Placed, Copying, Copied, Retrying, Has
    <2>6. Moves(c, r)
      BY <1>1, <2>3, <2>4, <2>5, <1>5, <2>2
         DEF Moves, Picks, Receive, Left, Sound, Copying, Copied, Has, Placed
    <2>7. QED
      BY <2>4, <2>6
  <1>6. CASE Spill(c)
    <2> DEFINE r == [l EXCEPT !.written = l.received]
    <2>1. call' = [call EXCEPT ![c] = r]
      BY <1>6 DEF Spill
    <2>2. /\ r \in Calls
          /\ Has(r, l.kind, l.pc, l.ver, l.received, l.received, l.wrote, l.outcome)
      BY <1>1 DEF Calls, Places, Has
    <2> HIDE DEF r
    <2>3. Placed(r)
      BY <1>1, <2>2, <1>6 DEF Spill, Placed, Copying, Copied, Retrying, Has
    <2>4. Moves(c, r)
      BY <1>1, <2>1, <2>2, <2>3, <1>6
         DEF Moves, Picks, Spill, WrittenOut, Sound, Copying, Copied, Has, Placed
    <2>5. QED
      BY <2>2, <2>4
  <1>7. CASE EndOfResource(c)
    <2> DEFINE r == [l EXCEPT !.pc = "close"]
    <2>1. call' = [call EXCEPT ![c] = r]
      BY <1>7 DEF EndOfResource, Goto
    <2>2. /\ r \in Calls
          /\ Has(r, l.kind, "close", l.ver, l.received, l.written, l.wrote, l.outcome)
      BY <1>1 DEF Calls, Places, Has
    <2> HIDE DEF r
    <2>3. Placed(r)
      BY <1>1, <2>2, <1>7
         DEF EndOfResource, Placed, Copying, Copied, Retrying, Has
    <2>4. Moves(c, r)
      BY <1>1, <2>1, <2>2, <2>3, <1>7
         DEF Moves, Picks, EndOfResource, Left, Sound, Copying, Copied, Has, Placed
    <2>5. QED
      BY <2>2, <2>4
  <1>8. CASE Close(c)
    <2>1. /\ l.pc = "close" /\ bytes' \in {bytes, Flushed(c)}
          /\ Reports(l.kind) => bytes' = Flushed(c)
          /\ UNCHANGED <<live, exists>>
      BY <1>8 DEF Close, Reports
    <2>2. CASE l.kind \in Caching
      <3> DEFINE r == [l EXCEPT !.written = l.received, !.pc = "reopen"]
      <3>1. call' = [call EXCEPT ![c] = r]
        BY <1>8, <2>2 DEF Close
      <3>2. /\ r \in Calls
            /\ Has(r, l.kind, "reopen", l.ver, l.received, l.received, l.wrote, l.outcome)
        BY <1>1 DEF Calls, Places, Has
      <3> HIDE DEF r
      <3>3. Placed(r)
        BY <1>1, <3>2, <2>1 DEF Placed, Copying, Copied, Retrying, Has
      <3>4. Moves(c, r)
        BY <1>1, <3>1, <3>2, <3>3, <2>1
           DEF Moves, Picks, WrittenOut, Sound, Copying, Copied, Has, Placed
      <3>5. QED
        BY <3>2, <3>4
    <2>3. CASE l.kind \notin Caching
      <3> DEFINE r == [l EXCEPT !.written = l.received, !.pc = "done", !.outcome = "ok"]
      <3>1. call' = [call EXCEPT ![c] = r]
        BY <1>8, <2>3 DEF Close
      <3>2. /\ r \in Calls
            /\ Has(r, l.kind, "done", l.ver, l.received, l.received, l.wrote, "ok")
        BY <1>1 DEF Calls, Places, Has
      <3> HIDE DEF r
      <3>3. Placed(r)
        BY <1>1, <3>2, <2>1 DEF Placed, Copying, Copied, Retrying, Has
      <3>4. Moves(c, r)
        BY <1>1, <3>1, <3>2, <3>3, <2>1
           DEF Moves, Picks, WrittenOut, Sound, Copying, Copied, Has, Placed
      <3>5. QED
        BY <3>2, <3>4
    <2>4. QED
      BY <2>2, <2>3
  <1>9. CASE Fault(c) \/ Refused(c)
    <2> DEFINE r == [l EXCEPT !.pc = "failed"]
    <2>1. call' = [call EXCEPT ![c] = r]
      BY <1>9 DEF Fault, Refused, Goto
    <2>2. /\ r \in Calls
          /\ Has(r, l.kind, "failed", l.ver, l.received, l.written, l.wrote, l.outcome)
      BY <1>1 DEF Calls, Places, Has
    <2> HIDE DEF r
    <2>3. Placed(r)
      BY <1>1, <2>2, <1>9
         DEF Fault, Refused, Fallible, Placed, Copying, Copied, Retrying, Has
    <2>4. Moves(c, r)
      BY <1>1, <2>1, <2>2, <2>3, <1>9
         DEF Moves, Picks, Fault, Refused, Fallible, Left, WrittenOut, Sound, Copying,
             Copied, Has, Placed
    <2>5. QED
      BY <2>2, <2>4
  <1>10. CASE Failed(c) \/ Killed(c)
    <2>1. CASE Failed(c) /\ l.kind \in Retrying /\ l.attempts < Retries
      <3>1. l.attempts + 1 \in 0 .. Retries
        BY <1>1, <2>1, BoundsAssumption DEF Calls
      <3> DEFINE r == [l EXCEPT !.pc = "begin", !.attempts = @ + 1, !.ver = Hole,
                                !.received = 0, !.written = 0]
      <3>2. call' = [call EXCEPT ![c] = r]
        BY <2>1 DEF Failed
      <3>3. /\ r \in Calls
            /\ Has(r, l.kind, "begin", Hole, 0, 0, l.wrote, l.outcome)
        BY <1>1, <3>1 DEF Calls, Places, Has
      <3> HIDE DEF r
      <3>4. Placed(r)
        BY <1>1, <3>3, <2>1 DEF Failed, Placed, Copying, Copied, Retrying, Has
      <3>5. Moves(c, r)
        BY <1>1, <3>2, <3>3, <3>4, <2>1
           DEF Moves, Picks, Failed, Left, Sound, Copying, Copied, Has, Placed
      <3>6. QED
        BY <3>3, <3>5
    <2>2. ASSUME NEW result \in {"error", "killed"}, Stop(c, result),
                 UNCHANGED <<live, exists, bytes>>
          PROVE  \E r \in Calls : Moves(c, r)
      <3>1. 0 \in 0 .. Retries /\ <<>> \in Seq(Versions \cup {Hole})
        BY BoundsAssumption, EmptySeq
      <3> DEFINE r == [l EXCEPT !.pc = "done", !.outcome = result, !.attempts = 0,
                                !.ver = Hole, !.received = 0, !.written = 0,
                                !.seen = <<>>]
      <3>2. call' = [call EXCEPT ![c] = r]
        BY <2>2 DEF Stop
      <3>3. /\ r \in Calls
            /\ Has(r, l.kind, "done", Hole, 0, 0, l.wrote, result)
        BY <1>1, <3>1 DEF Calls, Places, Has
      <3> HIDE DEF r
      <3>4. Placed(r)
        BY <1>1, <3>3 DEF Placed, Copying, Copied, Retrying, Has
      <3>5. Moves(c, r)
        BY <1>1, <3>2, <3>3, <3>4, <2>2
           DEF Moves, Picks, Left, Sound, Copying, Copied, Has, Placed
      <3>6. QED
        BY <3>3, <3>5
    <2>3. QED
      BY <1>10, <2>1, <2>2 DEF Failed, Killed
  <1>11. CASE Reopen(c)
    <2> DEFINE r == [l EXCEPT !.pc = "read"]
    <2>1. call' = [call EXCEPT ![c] = r]
      BY <1>11 DEF Reopen, Goto
    <2>2. /\ r \in Calls
          /\ Has(r, l.kind, "read", l.ver, l.received, l.written, l.wrote, l.outcome)
      BY <1>1 DEF Calls, Places, Has
    <2> HIDE DEF r
    <2>3. Placed(r)
      BY <1>1, <2>2, <1>11 DEF Reopen, Placed, Copying, Copied, Retrying, Has
    <2>4. Moves(c, r)
      BY <1>1, <2>1, <2>2, <2>3, <1>11
         DEF Moves, Picks, Reopen, Left, Sound, Copying, Copied, Has, Placed
    <2>5. QED
      BY <2>2, <2>4
  <1>12. CASE ReadCached(c)
    <2>1. l.pc = "read" /\ UNCHANGED <<live, exists, bytes>>
      BY <1>12 DEF ReadCached
    <2>2. CASE Len(l.seen) >= Len(bytes)
      <3> DEFINE r == [l EXCEPT !.pc = "done", !.outcome = "ok"]
      <3>1. call' = [call EXCEPT ![c] = r]
        BY <1>12, <2>2 DEF ReadCached
      <3>2. /\ r \in Calls
            /\ Has(r, l.kind, "done", l.ver, l.received, l.written, l.wrote, "ok")
        BY <1>1 DEF Calls, Places, Has
      <3> HIDE DEF r
      <3>3. Placed(r)
        BY <1>1, <3>2, <2>1 DEF Placed, Copying, Copied, Retrying, Has
      <3>4. Moves(c, r)
        BY <1>1, <3>1, <3>2, <3>3, <2>1
           DEF Moves, Picks, Left, Sound, Copying, Copied, Has, Placed
      <3>5. QED
        BY <3>2, <3>4
    <2>3. CASE ~(Len(l.seen) >= Len(bytes))
      <3> DEFINE at == Len(l.seen)
                 Bytes == Versions \cup {Hole}
      <3>1. PICK n \in 1 .. MaxChunk :
              /\ at + n <= Len(bytes)
              /\ call' = [call EXCEPT ![c].seen = @ \o SubSeq(bytes, at + 1, at + n)]
        BY <1>12, <2>3 DEF ReadCached
      <3>2. l.seen \in Seq(Bytes) /\ at \in Nat /\ n \in Nat /\ Len(bytes) \in Nat
        BY <1>1, BoundsAssumption, LenProperties DEF Calls
      <3>3. \A i \in at + 1 .. at + n : i \in 1 .. Len(bytes)
        BY <3>1, <3>2
      <3>4. \A i \in at + 1 .. at + n : bytes[i] \in Bytes
        BY <1>1, <3>3, ElementOfSeq
      <3>5. SubSeq(bytes, at + 1, at + n) \in Seq(Bytes)
        BY <3>2, <3>4, SubSeqProperties
      <3>6. l.seen \o SubSeq(bytes, at + 1, at + n) \in Seq(Bytes)
        BY <3>2, <3>5, ConcatProperties
      <3> DEFINE r == [l EXCEPT !.seen = @ \o SubSeq(bytes, at + 1, at + n)]
      <3>7. call' = [call EXCEPT ![c] = r]
        BY <3>1
      <3>8. /\ r \in Calls
            /\ Has(r, l.kind, l.pc, l.ver, l.received, l.written, l.wrote, l.outcome)
        BY <1>1, <3>6 DEF Calls, Places, Has
      <3> HIDE DEF r
      <3>9. Placed(r)
        BY <1>1, <3>8, <2>1 DEF Placed, Copying, Copied, Retrying, Has
      <3>10. Moves(c, r)
        BY <1>1, <3>7, <3>8, <3>9, <2>1
           DEF Moves, Picks, Left, Sound, Copying, Copied, Has, Placed
      <3>11. QED
        BY <3>8, <3>10
    <2>4. QED
      BY <2>2, <2>3
  <1>13. QED
    BY <1>2, <1>3, <1>4, <1>5, <1>6, <1>7, <1>8, <1>9, <1>10, <1>11, <1>12
       DEF CallStep

(* TypeOK and AllPlaced are inductive together.                            *)
LEMMA TypingStep ==
  TypeOK /\ AllPlaced /\ [Next]_vars => TypeOK' /\ AllPlaced'
  <1> SUFFICES ASSUME TypeOK, AllPlaced, [Next]_vars PROVE TypeOK' /\ AllPlaced'
    OBVIOUS
  <1>1. CASE ResourceReplaced
    BY <1>1 DEF ResourceReplaced, TypeOK, AllPlaced
  <1>2. CASE UNCHANGED vars
    BY <1>2 DEF vars, TypeOK, AllPlaced
  <1>3. ASSUME NEW c \in Callers, CallStep(c) \/ Fault(c) \/ Killed(c)
        PROVE  TypeOK' /\ AllPlaced'
    <2>1. PICK r \in Calls : Moves(c, r)
      BY <1>3, OneStep
    <2>2. bytes' \in Seq(Versions \cup {Hole}) /\ (~exists' => bytes' = <<>>)
      BY <2>1, FlushedTyping, EmptySeq DEF Moves, Picks, TypeOK
    <2>3. QED
      BY <2>1, <2>2, OneCall DEF Moves
  <1>4. QED
    BY <1>1, <1>2, <1>3 DEF Next

----------------------------------------------------------------------------
(* EndsWritten and Fresh are inductive on top of TypeOK and AllPlaced, when *)
(* no failing write is lost in silence.                                    *)
LEMMA FreshStep ==
  ASSUME ClosesReport
  PROVE  TypeOK /\ AllPlaced /\ KindsKept /\ EndsWritten /\ Fresh /\ [Next]_vars
           => EndsWritten' /\ Fresh'
  <1> SUFFICES ASSUME TypeOK, AllPlaced, KindsKept, EndsWritten, Fresh, [Next]_vars
               PROVE  EndsWritten' /\ Fresh'
    OBVIOUS
  <1>1. CASE UNCHANGED <<bytes, call>>
    BY <1>1 DEF EndsWritten, Fresh, AllSound, Writers, Owned, Intact
  <1>2. ASSUME NEW c \in Callers, CallStep(c) \/ Fault(c) \/ Killed(c)
        PROVE  EndsWritten' /\ Fresh'
    <2> DEFINE l == call[c]
    <2>1. PICK r \in Calls :
            /\ call' = [call EXCEPT ![c] = r]
            /\ \/ bytes' \in {<<>>, bytes}
               \/ bytes' = Flushed(c) /\ l.pc \in Fallible(c) \cup Copying
            /\ Emptied(r) \/ Left(c, r) \/ WrittenOut(c, r)
      BY <1>2, OneStep DEF Moves, ClosesReport, KindsKept
    <2>2. /\ call'[c] = r
          /\ \A d \in Callers \ {c} : call'[d] = call[d]
          /\ Writers' = {d \in Callers : IF d = c THEN r.wrote ELSE call[d].wrote}
      BY <2>1 DEF TypeOK, Writers
    <2>3. /\ \A d \in Callers : call[d].written \in Nat /\ call[d].received \in Nat
          /\ Len(bytes) \in Nat /\ Len(<<>>) = 0
          /\ r.written \in Nat /\ r.received \in Nat
      BY LenProperties, EmptySeq DEF TypeOK, Calls
    <2>4. l.written < l.received /\ l.pc \in Fallible(c) \cup Copying
            => l.wrote /\ l.ver # Hole
      BY Buffered
    <2>5. EndsWritten'
      <3>1. CASE bytes' \in {<<>>, bytes}
        BY <3>1 DEF EndsWritten
      <3>2. CASE bytes' = Flushed(c) /\ l.pc \in Fallible(c) \cup Copying
        BY <2>4, <3>2, FlushedFacts DEF EndsWritten
      <3>3. QED
        BY <2>1, <3>1, <3>2
    <2>6. CASE Emptied(r)
      <3>1. bytes' = <<>> /\ r.wrote /\ call'[c].written = 0
        BY <2>2, <2>6 DEF Emptied
      <3>2. c \in Writers' /\ 1 .. 0 = {}
        BY <2>2, <3>1
      <3>3. Owned' /\ Intact(c)'
        BY <2>3, <3>1, <3>2 DEF Owned, Intact
      <3>4. QED
        BY <2>5, <3>2, <3>3 DEF Fresh
    (* A call that has not created the file does not matter.               *)
    <2>7. CASE ~r.wrote /\ ~Emptied(r)
      <3>1. ~l.wrote /\ bytes' = bytes
        BY <2>1, <2>4, <2>7 DEF Left, WrittenOut, Flushed
      <3>2. Writers' = Writers /\ c \notin Writers /\ Writers \subseteq Callers
        BY <2>2, <2>7, <3>1 DEF Writers
      <3>3. QED
        BY <2>2, <2>5, <3>1, <3>2 DEF Fresh, AllSound, Owned, Intact
    (* Nor does an attempt that has failed before the file is emptied.     *)
    <2>8. CASE r.wrote /\ ~Sound(r)
      <3>1. c \in Writers' /\ ~Sound(call'[c])
        BY <2>2, <2>8
      <3>2. QED
        BY <2>5, <3>1 DEF Fresh, AllSound
    <2>9. CASE r.wrote /\ Sound(r) /\ ~Emptied(r)
      <3>1. /\ l.wrote /\ Sound(l)
            /\ l.received = 0 \/ r.ver = l.ver
            /\ r.received >= l.received
            /\ \/ bytes' = bytes /\ r.written = l.written
               \/ /\ bytes' = Flushed(c) /\ r.ver = l.ver
                  /\ l.pc \in Fallible(c) \cup Copying
                  /\ r.written = l.received
        <4>1. CASE Left(c, r)
          BY <2>9, <4>1 DEF Left
        <4>2. CASE WrittenOut(c, r)
          BY <2>3, <2>9, <4>2 DEF WrittenOut
        <4>3. QED
          BY <2>1, <2>9, <4>1, <4>2
      <3>2. Writers' = Writers /\ c \in Writers /\ Writers \subseteq Callers
        BY <2>2, <2>9, <3>1 DEF Writers
      <3>3. SUFFICES ASSUME AllSound'
                     PROVE  Owned' /\ \E d \in Writers : Intact(d)'
        BY <2>5, <3>2 DEF Fresh
      <3>4. AllSound
        BY <2>2, <3>1, <3>2, <3>3 DEF AllSound
      <3>5. PICK w \in Writers : Intact(w)
        BY <3>2, <3>4 DEF Fresh
      <3>6. \A i \in 1 .. Len(bytes) :
              bytes[i] = Hole \/ \E d \in Writers : /\ bytes[i] = call'[d].ver
                                                    /\ i <= call'[d].received
        <4>1. Owned
          BY <3>4 DEF Fresh
        <4>2. ASSUME NEW i \in 1 .. Len(bytes), NEW d \in Writers,
                     bytes[i] = call[d].ver, i <= call[d].received
              PROVE  bytes[i] = call'[d].ver /\ i <= call'[d].received
          <5>1. CASE d # c
            BY <2>2, <3>2, <4>2, <5>1
          <5>2. CASE d = c
            BY <2>2, <2>3, <3>1, <4>2, <5>2
          <5>3. QED
            BY <5>1, <5>2
        <4>3. QED
          BY <4>1, <4>2 DEF Owned
      <3>7. CASE bytes' = bytes /\ r.written = l.written
        <4>1. Owned'
          BY <3>2, <3>6, <3>7 DEF Owned
        <4>2. call'[w].written = call[w].written
          BY <2>2, <3>2, <3>7
        <4>3. Intact(w)'
          BY <3>5, <3>7, <4>2 DEF Intact
        <4>4. QED
          BY <4>1, <4>3
      <3>8. CASE /\ bytes' = Flushed(c) /\ r.ver = l.ver
                 /\ l.pc \in Fallible(c) \cup Copying
                 /\ r.written = l.received
        <4>1. /\ \A i \in 1 .. Len(bytes') :
                   \/ bytes'[i] = Hole
                   \/ i \in 1 .. Len(bytes) /\ bytes'[i] = bytes[i]
                   \/ i <= l.received /\ bytes'[i] = l.ver
              /\ \A i \in 1 .. Len(bytes) :
                   bytes[i] # Hole => i <= Len(bytes') /\ bytes'[i] # Hole
              /\ \A i \in 1 .. l.received :
                   l.written < i => i <= Len(bytes') /\ bytes'[i] # Hole
              /\ bytes' \in Seq(Versions \cup {Hole})
          BY <2>4, <3>8, FlushedFacts
        <4>2. Len(bytes') \in Nat
          BY <4>1, LenProperties
        <4>3. Owned'
          <5>1. \A i \in Nat : i <= l.received => i <= call'[c].received
            BY <2>2, <2>3, <3>1
          <5>2. l.ver = call'[c].ver
            BY <2>2, <3>8
          <5>3. QED
            BY <3>2, <3>6, <4>1, <4>2, <5>1, <5>2 DEF Owned
        <4>4. Intact(w)'
          <5>1. CASE w # c
            <6>1. call'[w].written = call[w].written /\ call[w].written \in Nat
              BY <2>2, <2>3, <3>2, <5>1
            <6>2. QED
              BY <2>3, <3>5, <4>1, <6>1 DEF Intact
          <5>2. CASE w = c
            <6>1. call'[w].written = l.received
              BY <2>2, <3>8, <5>2
            <6>2. QED
              BY <2>3, <3>5, <4>1, <5>2, <6>1 DEF Intact
          <5>3. QED
            BY <5>1, <5>2
        <4>5. QED
          BY <4>3, <4>4
      <3>9. QED
        BY <3>1, <3>7, <3>8
    <2>10. QED
      BY <2>6, <2>5, <2>7, <2>8, <2>9
  <1>3. QED
    BY <1>1, <1>2 DEF Next, ResourceReplaced, vars

(* What Fresh means when everybody has ended well with the same version.   *)
LEMMA FreshMeansWhole ==
  TypeOK /\ AllPlaced /\ EndsWritten /\ Fresh => SettledWhole
  <1> SUFFICES ASSUME TypeOK, AllPlaced, EndsWritten, Fresh,
                      NEW v \in Versions, Writers # {},
                      \A c \in Writers : call[c].outcome = "ok" /\ call[c].ver = v
               PROVE  /\ \E c \in Writers :
                           /\ call[c].received <= Len(bytes)
                           /\ \A i \in 1 .. call[c].received : bytes[i] = v
                      /\ \E c \in Writers : Len(bytes) <= call[c].received
                      /\ \A i \in 1 .. Len(bytes) : bytes[i] \in {v, Hole}
    BY DEF SettledWhole
  <1>1. /\ Writers \subseteq Callers
        /\ \A c \in Writers : /\ Placed(call[c]) /\ call[c].pc = "done"
                              /\ call[c].received \in Nat
                              /\ call[c].written = call[c].received
    BY DEF Writers, AllPlaced, Placed, TypeOK, Calls
  <1>2. AllSound
    BY <1>1 DEF AllSound, Sound
  <1>3. Owned /\ \E c \in Writers : Intact(c)
    BY <1>2 DEF Fresh
  <1>4. /\ Len(bytes) \in Nat /\ bytes \in Seq(Versions \cup {Hole})
        /\ bytes # <<>> => Len(bytes) \in 1 .. Len(bytes)
        /\ bytes = <<>> => Len(bytes) = 0
        /\ \A i \in 1 .. Len(bytes) : bytes[i] \in Versions \cup {Hole}
    BY LenProperties, EmptySeq, ElementOfSeq DEF TypeOK
  <1>5. \A i \in 1 .. Len(bytes) :
          \/ bytes[i] = Hole
          \/ bytes[i] = v /\ \E c \in Writers : i <= call[c].received
    BY <1>3 DEF Owned
  <1>6. \E c \in Writers : Len(bytes) <= call[c].received
    <2>1. CASE bytes = <<>>
      BY <1>1, <1>4, <2>1
    <2>2. CASE bytes # <<>>
      BY <1>4, <1>5, <2>2 DEF EndsWritten
    <2>3. QED
      BY <2>1, <2>2
  <1>7. PICK w \in Writers : Intact(w)
    BY <1>3
  <1> DEFINE n == call[w].received
  <1>8. n \in Nat /\ \A i \in 1 .. n : i <= Len(bytes) /\ bytes[i] = v
    <2>1. n \in Nat /\ call[w].written = n
      BY <1>1
    <2>2. \A i \in 1 .. n : i <= Len(bytes) /\ bytes[i] # Hole
      BY <1>7, <2>1 DEF Intact
    <2>3. \A i \in 1 .. n : i \in 1 .. Len(bytes)
      BY <1>4, <2>1, <2>2
    <2>4. QED
      BY <1>5, <2>1, <2>2, <2>3
  <1> HIDE DEF n
  <1>9. n <= Len(bytes)
    <2>1. n = 0 \/ n \in 1 .. n
      BY <1>8
    <2>2. QED
      BY <1>4, <1>8, <2>1
  <1>10. QED
    BY <1>5, <1>6, <1>8, <1>9 DEF n

(* So the file is the whole version when everybody received the whole.     *)
AllReceivedWhole ==
  \A v \in Versions :
    /\ Writers # {}
    /\ \A c \in Writers : /\ call[c].outcome = "ok" /\ call[c].ver = v
                         /\ call[c].received = Length[v]
    => bytes = WholeOf(v)

LEMMA WholeWhenAllReceived ==
  TypeOK /\ SettledWhole => AllReceivedWhole
  <1> SUFFICES ASSUME TypeOK, SettledWhole, NEW v \in Versions, Writers # {},
                      \A c \in Writers : /\ call[c].outcome = "ok" /\ call[c].ver = v
                                         /\ call[c].received = Length[v]
               PROVE  bytes = WholeOf(v)
    BY DEF AllReceivedWhole
  <1>1. /\ Length[v] <= Len(bytes) /\ Len(bytes) <= Length[v]
        /\ \A i \in 1 .. Length[v] : bytes[i] = v
    BY DEF SettledWhole
  <1>2. /\ Length[v] \in Nat /\ Len(bytes) \in Nat
        /\ bytes = [i \in 1 .. Len(bytes) |-> bytes[i]]
    BY LengthAssumption, LenProperties DEF TypeOK
  <1>3. Len(bytes) = Length[v]
    BY <1>1, <1>2
  <1>4. QED
    BY <1>1, <1>2, <1>3 DEF WholeOf

----------------------------------------------------------------------------
(* At the start nobody has created the file.                               *)
LEMMA Start ==
  Init => TypeOK /\ AllPlaced /\ EndsWritten /\ Fresh
  <1> SUFFICES ASSUME Init PROVE TypeOK /\ AllPlaced /\ EndsWritten /\ Fresh
    OBVIOUS
  <1>1. PICK kind \in [Callers -> MayCall] :
          call = [c \in Callers |->
                    [kind |-> kind[c], pc |-> "begin", attempts |-> 0,
                     ver |-> Hole, received |-> 0, written |-> 0, wrote |-> FALSE,
                     seen |-> <<>>, outcome |-> "none"]]
    BY DEF Init
  <1>2. <<>> \in Seq(Versions \cup {Hole}) /\ 0 \in 0 .. Retries /\ Len(<<>>) = 0
    BY EmptySeq, BoundsAssumption
  <1>3. \A c \in Callers : call[c] \in Calls
    BY <1>1, <1>2, KindsAssumption DEF Calls, Places
  <1>4. \A c \in Callers : /\ Placed(call[c]) /\ ~call[c].wrote
                           /\ call[c].written <= call[c].received
    <2> SUFFICES ASSUME NEW c \in Callers
                 PROVE  Placed(call[c]) /\ ~call[c].wrote
                        /\ call[c].written <= call[c].received
      OBVIOUS
    <2>1. Has(call[c], kind[c], "begin", Hole, 0, 0, FALSE, "none")
      BY <1>1 DEF Has
    <2>2. QED
      BY <2>1 DEF Has, Placed, Copying, Copied
  <1>5. TypeOK
    <2>1. call \in [Callers -> Calls]
      BY <1>1, <1>3
    <2>2. QED
      BY <1>2, <1>4, <2>1 DEF Init, TypeOK
  <1>6. Writers = {}
    BY <1>4 DEF Writers
  <1>7. QED
    BY <1>2, <1>4, <1>5, <1>6 DEF Init, AllPlaced, EndsWritten, Fresh, Owned

(* No step turns a call into one of another kind.                          *)
LEMMA KindsStay ==
  /\ Init => KindsKept
  /\ TypeOK /\ AllPlaced /\ KindsKept /\ [Next]_vars => KindsKept'
  <1>1. ASSUME Init PROVE KindsKept
    <2>1. PICK kind \in [Callers -> MayCall] :
            call = [c \in Callers |->
                      [kind |-> kind[c], pc |-> "begin", attempts |-> 0,
                       ver |-> Hole, received |-> 0, written |-> 0, wrote |-> FALSE,
                       seen |-> <<>>, outcome |-> "none"]]
      BY <1>1 DEF Init
    <2>2. QED
      BY <2>1 DEF KindsKept
  <1>2. ASSUME TypeOK, AllPlaced, KindsKept, NEW c \in Callers,
               CallStep(c) \/ Fault(c) \/ Killed(c)
        PROVE  KindsKept'
    <2>1. PICK r \in Calls : Moves(c, r)
      BY <1>2, OneStep
    <2>2. QED
      BY <1>2, <2>1 DEF Moves, Picks, KindsKept, TypeOK
  <1>3. ASSUME KindsKept, UNCHANGED vars \/ ResourceReplaced PROVE KindsKept'
    BY <1>3 DEF vars, ResourceReplaced, KindsKept
  <1>4. QED
    BY <1>1, <1>2, <1>3 DEF Next

(* Only a call that does not look at the status holds the text of an error.*)
Checked == \A c \in Callers : call[c].kind \notin Unchecked => call[c].ver \notin Pages

(* A version is picked by a request, and forgotten by a new attempt.       *)
LEMMA CheckedStep ==
  TypeOK /\ AllPlaced /\ Checked /\ [Next]_vars => Checked'
  <1> SUFFICES ASSUME TypeOK, AllPlaced, Checked, [Next]_vars PROVE Checked'
    OBVIOUS
  <1>1. CASE UNCHANGED vars \/ ResourceReplaced
    BY <1>1 DEF vars, ResourceReplaced, Checked
  <1>2. ASSUME NEW c \in Callers, CallStep(c) \/ Fault(c) \/ Killed(c)
        PROVE  Checked'
    <2>1. PICK r \in Calls : Moves(c, r)
      BY <1>2, OneStep
    <2>2. Hole \notin Pages
      BY HoleAssumption, LengthAssumption
    <2>3. /\ call'[c] = r /\ Picks(c, r)
          /\ \A d \in Callers \ {c} : call'[d] = call[d]
      BY <2>1 DEF Moves, TypeOK
    <2>4. QED
      BY <2>2, <2>3 DEF Picks, Checked
  <1>3. QED
    BY <1>1, <1>2 DEF Next

(* A call that has opened the file stays a writer, and what it has read of *)
(* the cache is what it had read before, or a byte of the file.            *)
Keeps(c) ==
  /\ call[c].wrote => call'[c].wrote
  /\ \A i \in 1 .. Len(call'[c].seen) :
       \/ \E j \in 1 .. Len(call[c].seen) : call'[c].seen[i] = call[c].seen[j]
       \/ \E j \in 1 .. Len(bytes) : call'[c].seen[i] = bytes[j]

LEMMA StepKeeps ==
  ASSUME TypeOK, AllPlaced, NEW c \in Callers,
         CallStep(c) \/ Fault(c) \/ Killed(c)
  PROVE  Keeps(c)
  <1> DEFINE l == call[c]
             t == call'[c]
             Bytes == Versions \cup {Hole}
  <1>1. /\ l \in Calls /\ c \in DOMAIN call
        /\ l.seen \in Seq(Bytes) /\ bytes \in Seq(Bytes)
        /\ Len(l.seen) \in Nat /\ Len(bytes) \in Nat
    BY LenProperties DEF TypeOK, Calls
  <1>2. ASSUME t.seen = l.seen, l.wrote => t.wrote
        PROVE  Keeps(c)
    BY <1>2 DEF Keeps
  <1>3. ASSUME t.seen = <<>>, l.wrote => t.wrote
        PROVE  Keeps(c)
    BY <1>3, EmptySeq DEF Keeps
  <1>4. ASSUME NEW place, Goto(c, place)
        PROVE  Keeps(c)
    <2>1. t = [l EXCEPT !.pc = place]
      BY <1>1, <1>4 DEF Goto
    <2>2. t.seen = l.seen /\ t.wrote = l.wrote
      BY <1>1, <2>1 DEF Calls
    <2>3. QED
      BY <1>2, <2>2
  <1>5. ASSUME NEW result, Stop(c, result)
        PROVE  Keeps(c)
    <2>1. t = [l EXCEPT !.pc = "done", !.outcome = result, !.attempts = 0, !.ver = Hole,
                        !.received = 0, !.written = 0, !.seen = <<>>]
      BY <1>1, <1>5 DEF Stop
    <2>2. t.seen = <<>> /\ t.wrote = l.wrote
      BY <1>1, <2>1 DEF Calls
    <2>3. QED
      BY <1>3, <2>2
  <1>6. CASE Begin(c)
    <2>1. PICK place \in {"reopen", "create", "request"} : Goto(c, place)
      BY <1>6, BeginGoes
    <2>2. QED
      BY <1>4, <2>1
  <1>7. CASE Refused(c) \/ EndOfResource(c) \/ Reopen(c) \/ Fault(c)
    BY <1>4, <1>7 DEF Refused, EndOfResource, Reopen, Fault
  <1>8. CASE Request(c)
    <2>1. PICK place : t = [l EXCEPT !.ver = live, !.pc = place]
      BY <1>1, <1>8 DEF Request
    <2>2. t.seen = l.seen /\ t.wrote = l.wrote
      BY <1>1, <2>1 DEF Calls
    <2>3. QED
      BY <1>2, <2>2
  <1>9. CASE Create(c)
    <2>1. PICK place : t = [l EXCEPT !.wrote = TRUE, !.pc = place]
      BY <1>1, <1>9 DEF Create
    <2>2. t.seen = l.seen /\ t.wrote
      BY <1>1, <2>1 DEF Calls
    <2>3. QED
      BY <1>2, <2>2
  <1>10. CASE Receive(c)
    <2>1. PICK n \in 1 .. MaxChunk : t = [l EXCEPT !.received = @ + n]
      BY <1>1, <1>10 DEF Receive
    <2>2. t.seen = l.seen /\ t.wrote = l.wrote
      BY <1>1, <2>1 DEF Calls
    <2>3. QED
      BY <1>2, <2>2
  <1>11. CASE Spill(c)
    <2>1. t = [l EXCEPT !.written = l.received]
      BY <1>1, <1>11 DEF Spill
    <2>2. t.seen = l.seen /\ t.wrote = l.wrote
      BY <1>1, <2>1 DEF Calls
    <2>3. QED
      BY <1>2, <2>2
  <1>12. CASE Close(c)
    <2>1. \/ t = [l EXCEPT !.written = l.received, !.pc = "reopen"]
          \/ t = [l EXCEPT !.written = l.received, !.pc = "done", !.outcome = "ok"]
      BY <1>1, <1>12 DEF Close
    <2>2. t.seen = l.seen /\ t.wrote = l.wrote
      BY <1>1, <2>1 DEF Calls
    <2>3. QED
      BY <1>2, <2>2
  <1>13. CASE Failed(c)
    <2>1. CASE Stop(c, "error")
      BY <1>5, <2>1
    <2>2. CASE ~Stop(c, "error")
      <3>1. t = [l EXCEPT !.pc = "begin", !.attempts = l.attempts + 1, !.ver = Hole,
                          !.received = 0, !.written = 0]
        BY <1>1, <1>13, <2>2 DEF Failed
      <3>2. t.seen = l.seen /\ t.wrote = l.wrote
        BY <1>1, <3>1 DEF Calls
      <3>3. QED
        BY <1>2, <3>2
    <2>3. QED
      BY <2>1, <2>2
  <1>14. CASE Killed(c)
    BY <1>5, <1>14 DEF Killed
  <1>15. CASE ReadCached(c)
    <2>1. CASE t = [l EXCEPT !.pc = "done", !.outcome = "ok"]
      <3>1. t.seen = l.seen /\ t.wrote = l.wrote
        BY <1>1, <2>1 DEF Calls
      <3>2. QED
        BY <1>2, <3>1
    <2>2. CASE ~(t = [l EXCEPT !.pc = "done", !.outcome = "ok"])
      <3> DEFINE at == Len(l.seen)
      <3>1. PICK n \in 1 .. MaxChunk :
              /\ at + n <= Len(bytes)
              /\ t = [l EXCEPT !.seen = @ \o SubSeq(bytes, at + 1, at + n)]
        BY <1>1, <1>15, <2>2 DEF ReadCached
      <3> DEFINE a == at + 1
                 b == at + n
                 more == SubSeq(bytes, a, b)
                 seen == l.seen \o more
      <3>2. /\ n \in Nat /\ n >= 1 /\ a \in Nat /\ b \in Nat /\ a >= 1 /\ a <= b
            /\ b <= Len(bytes)
        BY <1>1, <3>1, BoundsAssumption
      <3>3. t.seen = seen /\ t.wrote = l.wrote
        BY <1>1, <3>1 DEF Calls
      <3> HIDE DEF at, a, b
      <3>4. \A i \in a .. b : i \in 1 .. Len(bytes) /\ bytes[i] \in Bytes
        BY <1>1, <3>2, ElementOfSeq
      <3>5. /\ more \in Seq(Bytes) /\ Len(more) = b - a + 1
            /\ \A i \in 1 .. b - a + 1 : more[i] = bytes[a + i - 1]
        BY <3>2, <3>4, SubSeqProperties
      <3> HIDE DEF more
      <3>6. /\ Len(seen) = Len(l.seen) + Len(more)
            /\ \A i \in 1 .. Len(l.seen) + Len(more) :
                 seen[i] = IF i <= Len(l.seen) THEN l.seen[i] ELSE more[i - Len(l.seen)]
        BY <1>1, <3>5, ConcatProperties
      <3> HIDE DEF seen
      <3>7. ASSUME NEW i \in 1 .. Len(seen)
            PROVE  \/ \E j \in 1 .. Len(l.seen) : seen[i] = l.seen[j]
                   \/ \E j \in 1 .. Len(bytes) : seen[i] = bytes[j]
        <4> DEFINE m == Len(l.seen)
                   k == Len(more)
        <4>1. m \in Nat /\ k \in Nat /\ i \in 1 .. m + k /\ k = b - a + 1
          BY <1>1, <3>2, <3>5, <3>6, LenProperties
        <4>2. seen[i] = IF i <= m THEN l.seen[i] ELSE more[i - m]
          BY <3>6, <4>1
        <4> HIDE DEF m, k
        <4>3. CASE i <= m
          BY <4>1, <4>2, <4>3 DEF m
        <4>4. CASE ~(i <= m)
          <5>1. i - m \in 1 .. b - a + 1
            BY <4>1, <4>4
          <5>2. a + (i - m) - 1 \in a .. b
            BY <3>2, <4>1, <5>1
          <5>3. seen[i] = bytes[a + (i - m) - 1]
            BY <3>5, <4>2, <4>4, <5>1
          <5>4. QED
            BY <3>4, <5>2, <5>3
        <4>5. QED
          BY <4>3, <4>4
      <3>8. QED
        BY <3>3, <3>7 DEF Keeps
    <2>3. QED
      BY <2>1, <2>2
  <1>16. QED
    BY <1>6, <1>7, <1>8, <1>9, <1>10, <1>11, <1>12, <1>13, <1>14, <1>15 DEF CallStep

(* What is written out comes from a writer, who has checked it.            *)
LEMMA CleanStep ==
  TypeOK /\ AllPlaced /\ Checked /\ StoresResource /\ [Next]_vars => StoresResource'
  <1> SUFFICES ASSUME TypeOK, AllPlaced, Checked, StoresResource, [Next]_vars
               PROVE  StoresResource'
    OBVIOUS
  <1>1. CASE UNCHANGED vars \/ ResourceReplaced
    <2>1. bytes' = bytes /\ call' = call
      BY <1>1 DEF vars, ResourceReplaced
    <2>2. QED
      BY <2>1 DEF StoresResource, Writers
  <1>2. ASSUME NEW c \in Callers, CallStep(c) \/ Fault(c) \/ Killed(c)
        PROVE  StoresResource'
    <2> DEFINE l == call[c]
    <2>1. PICK r \in Calls : Moves(c, r)
      BY <1>2, OneStep
    <2>2. /\ call'[c] = r /\ r.kind = l.kind
          /\ \A d \in Callers \ {c} : call'[d] = call[d]
      BY <2>1 DEF Moves, Picks, TypeOK
    <2>3. Keeps(c)
      BY <1>2, StepKeeps
    <2>4. \A d \in Callers : call'[d].kind = call[d].kind /\ (call[d].wrote => call'[d].wrote)
      BY <2>2, <2>3 DEF Keeps
    <2> SUFFICES ASSUME \A d \in Writers' : call'[d].kind \notin Unchecked
                 PROVE  /\ \A i \in 1 .. Len(bytes') : bytes'[i] \notin Pages
                        /\ \A d \in Callers : \A i \in 1 .. Len(call'[d].seen) :
                             call'[d].seen[i] \notin Pages
      BY DEF StoresResource
    <2>5. \A d \in Writers : call[d].kind \notin Unchecked
      BY <2>4 DEF Writers
    <2>6. /\ \A i \in 1 .. Len(bytes) : bytes[i] \notin Pages
          /\ \A d \in Callers : \A i \in 1 .. Len(call[d].seen) :
               call[d].seen[i] \notin Pages
      BY <2>5 DEF StoresResource
    <2>7. Hole \notin Pages /\ Len(<<>>) = 0
      BY EmptySeq, HoleAssumption, LengthAssumption
    <2>8. \A i \in 1 .. Len(bytes') : bytes'[i] \notin Pages
      <3>1. CASE bytes' \in {<<>>, bytes}
        BY <2>6, <2>7, <3>1
      <3>2. CASE bytes' = Flushed(c) /\ l.pc \in Fallible(c) \cup Copying
        <4>1. CASE l.written < l.received
          <5>1. l.wrote /\ l.ver # Hole
            BY <3>2, <4>1, Buffered
          <5>2. l.ver \notin Pages
            BY <2>5, <5>1 DEF Checked, Writers
          <5>3. \A i \in 1 .. Len(bytes') :
                  \/ bytes'[i] = Hole
                  \/ i \in 1 .. Len(bytes) /\ bytes'[i] = bytes[i]
                  \/ i <= l.received /\ bytes'[i] = l.ver
            BY <3>2, <5>1, FlushedFacts
          <5>4. QED
            BY <2>6, <2>7, <5>2, <5>3
        <4>2. CASE ~(l.written < l.received)
          BY <2>6, <3>2, <4>2 DEF Flushed
        <4>3. QED
          BY <4>1, <4>2
      <3>3. QED
        BY <2>1, <3>1, <3>2 DEF Moves
    <2>9. \A d \in Callers : \A i \in 1 .. Len(call'[d].seen) : call'[d].seen[i] \notin Pages
      <3> SUFFICES ASSUME NEW d \in Callers, NEW i \in 1 .. Len(call'[d].seen)
                   PROVE  call'[d].seen[i] \notin Pages
        OBVIOUS
      <3>1. CASE d = c
        <4>1. \/ \E j \in 1 .. Len(call[c].seen) : call'[c].seen[i] = call[c].seen[j]
              \/ \E j \in 1 .. Len(bytes) : call'[c].seen[i] = bytes[j]
          BY <2>3, <3>1 DEF Keeps
        <4>2. \A j \in 1 .. Len(call[c].seen) : call[c].seen[j] \notin Pages
          BY <2>6
        <4>3. call'[c].seen[i] \notin Pages
          BY <2>6, <4>1, <4>2
        <4>4. QED
          BY <3>1, <4>3
      <3>2. CASE d # c
        <4>1. call'[d] = call[d]
          BY <2>2, <3>2
        <4>2. i \in 1 .. Len(call[d].seen) /\ call'[d].seen[i] = call[d].seen[i]
          BY <4>1
        <4>3. QED
          BY <2>6, <4>2
      <3>3. QED
        BY <3>1, <3>2
    <2>10. QED
      BY <2>8, <2>9
  <1>3. QED
    BY <1>1, <1>2 DEF Next

(* The file and the local variables of every call keep their types, no     *)
(* buffer is behind its file, and a file that does not exist is empty.     *)
THEOREM Typing == Spec => []TypeOK
  <1>1. TypeOK /\ AllPlaced /\ [Next]_vars => (TypeOK /\ AllPlaced)'
    BY TypingStep
  <1>2. QED
    BY Start, <1>1, PTL DEF Spec

(* However many calls of whatever kinds copy into the file, interleave,    *)
(* fail and start over: when all that created it have ended well with one  *)
(* version, the file is as long as what one of them received at most,      *)
(* starts with all that one of them received, and has nothing else in it;  *)
(* it is the whole version when all of them received the whole.            *)
THEOREM SettledIsWhole ==
  ASSUME ClosesReport
  PROVE  Spec => [](SettledWhole /\ AllReceivedWhole)
  <1> DEFINE Inv == TypeOK /\ AllPlaced /\ KindsKept /\ EndsWritten /\ Fresh
  <1>1. Init => Inv
    BY Start, KindsStay
  <1>2. Inv /\ [Next]_vars => Inv'
    BY TypingStep, KindsStay, FreshStep
  <1>3. Inv => SettledWhole /\ AllReceivedWhole
    BY FreshMeansWhole, WholeWhenAllReceived
  <1>4. QED
    BY <1>1, <1>2, <1>3, PTL DEF Spec

(* Wherever a call failed, started over or overlapped another, and whenever*)
(* the resource went away: the text of an error is neither in the file nor *)
(* in what a cached read returned, unless download_async has written to it.*)
THEOREM OkIsResource == Spec => []StoresResource
  <1> DEFINE Inv == TypeOK /\ AllPlaced /\ Checked /\ StoresResource
  <1>1. Init => Inv
    <2> SUFFICES ASSUME Init PROVE Checked /\ StoresResource
      BY Start
    <2>1. PICK kind \in [Callers -> MayCall] :
            call = [c \in Callers |->
                      [kind |-> kind[c], pc |-> "begin", attempts |-> 0,
                       ver |-> Hole, received |-> 0, written |-> 0, wrote |-> FALSE,
                       seen |-> <<>>, outcome |-> "none"]]
      BY DEF Init
    <2>2. \A c \in Callers : call[c].ver = Hole /\ call[c].seen = <<>>
      BY <2>1
    <2>3. bytes = <<>> /\ Len(<<>>) = 0 /\ Hole \notin Pages
      BY EmptySeq, HoleAssumption, LengthAssumption DEF Init
    <2>4. QED
      BY <2>2, <2>3 DEF Checked, StoresResource
  <1>2. Inv /\ [Next]_vars => Inv'
    BY TypingStep, CheckedStep, CleanStep
  <1>3. QED
    BY <1>1, <1>2, PTL DEF Spec

----------------------------------------------------------------------------
(* No call goes on for ever.  The lengths of the versions are bounded: the *)
(* least bound there is, or any other, is `longest` here.                  *)
AreLengths(longest) ==
  longest \in Nat /\ \A v \in Versions : Length[v] <= longest

(* Nothing in a buffer, in the file or in what was read from it is longer. *)
Bounded(longest) ==
  /\ Len(bytes) <= longest
  /\ \A c \in Callers :
       call[c].received <= longest /\ Len(call[c].seen) <= longest

(* The steps an attempt takes at most, and all the attempts still allowed. *)
Attempt(longest) == 3 * longest + 8

Again(l, longest) == (Retries - l.attempts) * Attempt(longest)

(* The steps this attempt may still take, by the place it is at: a byte is *)
(* received, written, and read from the cache file.                        *)
Stage(l, longest) ==
  CASE l.pc = "begin" -> 3 * longest + 8
    [] l.pc = "create" /\ l.ver = Hole -> 3 * longest + 7
    [] l.pc = "request" -> 3 * longest + 6
    [] l.pc = "create" /\ l.ver # Hole -> 3 * longest + 5
    [] l.pc = "copy" -> 3 * longest + 4 - l.received - l.written
    [] l.pc = "close" -> longest + 3
    [] l.pc = "reopen" -> longest + 2
    [] l.pc = "read" -> longest - Len(l.seen) + 1
    [] l.pc = "failed" -> 1

(* What a call with the local variables l may still do.                    *)
Rank(l, longest) ==
  IF l.pc = "done" THEN 0 ELSE Again(l, longest) + Stage(l, longest)

LEMMA AgainFacts ==
  ASSUME NEW longest \in Nat, NEW l \in Calls
  PROVE  /\ Again(l, longest) \in Nat
         /\ \A t : t.attempts = l.attempts => Again(t, longest) = Again(l, longest)
         /\ \A t : t.attempts = l.attempts + 1 =>
              Again(t, longest) = Again(l, longest) - Attempt(longest)
  <1>1. /\ Retries \in Nat /\ l.attempts \in 0 .. Retries
        /\ Attempt(longest) \in Nat
    BY BoundsAssumption DEF Calls, Attempt
  <1>2. Again(l, longest) \in Nat
    BY <1>1 DEF Again
  <1>3. (Retries - (l.attempts + 1)) * Attempt(longest)
          = (Retries - l.attempts) * Attempt(longest) - Attempt(longest)
    BY <1>1
  <1>4. QED
    BY <1>2, <1>3 DEF Again

(* The rank of the local variables of a call is a natural number, and not 0*)
(* before it is over.                                                      *)
LEMMA RankTyped ==
  ASSUME NEW longest \in Nat, NEW l \in Calls, l.written <= l.received,
         l.received <= longest, Len(l.seen) <= longest
  PROVE  /\ l.pc # "done" => Stage(l, longest) \in Nat /\ Stage(l, longest) > 0
         /\ Rank(l, longest) \in Nat
         /\ l.pc # "done" => Rank(l, longest) > 0
  <1>1. /\ l.received \in Nat /\ l.written \in Nat /\ l.pc \in Places
        /\ l.seen \in Seq(Versions \cup {Hole})
    BY DEF Calls
  <1>2. Len(l.seen) \in Nat
    BY <1>1, LenProperties
  <1>3. l.pc # "done" => Stage(l, longest) \in Nat /\ Stage(l, longest) > 0
    <2>1. CASE l.pc = "copy"
      <3>1. Stage(l, longest) = 3 * longest + 4 - l.received - l.written
        BY <2>1 DEF Stage
      <3>2. QED
        BY <1>1, <3>1
    <2>2. CASE l.pc = "read"
      <3> DEFINE n == Len(l.seen)
      <3>1. Stage(l, longest) = longest - n + 1
        BY <2>2 DEF Stage
      <3>2. n \in Nat /\ n <= longest
        BY <1>2
      <3> HIDE DEF n
      <3>3. QED
        BY <3>1, <3>2
    <2>3. CASE l.pc \in {"close", "reopen", "failed", "request", "begin", "create"}
      <3>1. Stage(l, longest) \in
              {3 * longest + 8, 3 * longest + 7, 3 * longest + 6, 3 * longest + 5,
               longest + 3, longest + 2, 1}
        BY <2>3 DEF Stage
      <3>2. QED
        BY <3>1
    <2>4. QED
      BY <1>1, <2>1, <2>2, <2>3 DEF Places
  <1>4. Again(l, longest) \in Nat
    BY AgainFacts
  <1>5. QED
    BY <1>3, <1>4 DEF Rank

(* Writing out a buffer makes the file no longer than what was received.   *)
LEMMA FlushedBounded ==
  ASSUME TypeOK, NEW c \in Callers, NEW longest \in Nat,
         Len(bytes) <= longest, call[c].received <= longest
  PROVE  Len(Flushed(c)) <= longest
  <1> DEFINE to == call[c].received
             n == Larger(Len(bytes), to)
  <1>1. /\ to \in Nat /\ Len(bytes) \in Nat
    BY LenProperties DEF TypeOK, Calls
  <1>2. n \in Nat /\ n <= longest
    BY <1>1 DEF Larger
  <1> HIDE DEF n
  <1>3. \A from, v : Len([i \in 1 .. n |->
          IF from < i /\ i <= to THEN v
          ELSE IF i <= Len(bytes) THEN bytes[i] ELSE Hole]) = n
    BY <1>2
  <1>4. QED
    BY <1>2, <1>3 DEF Flushed, Written, n

(* What a step may not do to the bounds.                                   *)
Within(l, longest) == l.received <= longest /\ Len(l.seen) <= longest

(* A step of a call leaves it less to do, and everything within the bound. *)
LEMMA StepRunsOut ==
  ASSUME TypeOK, AllPlaced, NEW longest, AreLengths(longest), Bounded(longest),
         NEW c \in Callers, CallStep(c) \/ Fault(c) \/ Killed(c)
  PROVE  /\ Within(call'[c], longest)
         /\ Rank(call'[c], longest) < Rank(call[c], longest)
  <1> DEFINE l == call[c]
             t == call'[c]
             again == Again(l, longest)
  <1>1. /\ l \in Calls /\ Placed(l) /\ c \in DOMAIN call /\ longest \in Nat
        /\ l.written \in Nat /\ l.received \in Nat /\ l.written <= l.received
        /\ l.received <= longest /\ Len(l.seen) <= longest
        /\ l.seen \in Seq(Versions \cup {Hole}) /\ Len(l.seen) \in Nat
    BY LenProperties DEF TypeOK, AllPlaced, AreLengths, Bounded, Calls
  <1>2. again \in Nat
    BY <1>1, AgainFacts
  (* The step goes on in the same attempt.                                 *)
  <1>3. ASSUME t.attempts = l.attempts, t.pc # "done", l.pc # "done",
               Stage(t, longest) < Stage(l, longest), Stage(t, longest) \in Int,
               Stage(l, longest) \in Int
        PROVE  Rank(t, longest) < Rank(l, longest)
    <2>1. Again(t, longest) = again
      BY <1>1, <1>3, AgainFacts
    <2>2. /\ Rank(t, longest) = again + Stage(t, longest)
          /\ Rank(l, longest) = again + Stage(l, longest)
      BY <1>3, <2>1 DEF Rank
    <2> HIDE DEF again
    <2>3. QED
      BY <1>2, <1>3, <2>2
  <1>4. ASSUME t.pc = "done", l.pc # "done"
        PROVE  Rank(t, longest) < Rank(l, longest)
    <2>1. Rank(t, longest) = 0 /\ Rank(l, longest) > 0 /\ Rank(l, longest) \in Nat
      BY <1>1, <1>4, RankTyped DEF Rank
    <2>2. QED
      BY <2>1
  <1>5. ASSUME t.received = l.received, t.seen = l.seen PROVE Within(t, longest)
    BY <1>1, <1>5 DEF Within
  (* It only goes to another place.                                        *)
  <1>6. ASSUME NEW place \in Places, Goto(c, place)
        PROVE  /\ t.pc = place /\ t.attempts = l.attempts /\ t.ver = l.ver
               /\ t.received = l.received /\ t.written = l.written
               /\ t.seen = l.seen
    <2>1. t = [l EXCEPT !.pc = place]
      BY <1>1, <1>6 DEF Goto
    <2>2. QED
      BY <1>1, <2>1 DEF Calls
  <1>7. ASSUME NEW result, Stop(c, result), l.pc # "done"
        PROVE  Within(t, longest) /\ Rank(t, longest) < Rank(l, longest)
    <2>1. t = [l EXCEPT !.pc = "done", !.outcome = result, !.attempts = 0, !.ver = Hole,
                        !.received = 0, !.written = 0, !.seen = <<>>]
      BY <1>1, <1>7 DEF Stop
    <2>2. t.pc = "done" /\ t.received = 0 /\ t.seen = <<>>
      BY <1>1, <2>1 DEF Calls
    <2>3. QED
      BY <1>1, <1>4, <1>7, <2>2 DEF Within
  <1> SUFFICES Within(t, longest) /\ Rank(t, longest) < Rank(l, longest)
    BY DEF Within
  <1> HIDE DEF t
  <1>8. CASE Begin(c)
    <2>1. PICK place \in {"reopen", "create", "request"} : Goto(c, place)
      BY <1>8, BeginGoes
    <2>2. l.pc = "begin" /\ Stage(l, longest) = 3 * longest + 8
      BY <1>8 DEF Begin, Stage
    <2>3. /\ t.pc = place /\ t.attempts = l.attempts /\ t.received = l.received
          /\ t.seen = l.seen
      BY <1>6, <2>1 DEF Places
    <2>4. Stage(t, longest) \in {longest + 2, 3 * longest + 7, 3 * longest + 6,
                                 3 * longest + 5}
      BY <2>3 DEF Stage
    <2>5. Stage(t, longest) < Stage(l, longest) /\ Stage(t, longest) \in Int
      BY <1>1, <2>2, <2>4
    <2>6. QED
      BY <1>1, <1>3, <1>5, <2>2, <2>3, <2>5
  <1>9. CASE Create(c)
    <2> DEFINE next == IF l.ver = Hole THEN "request" ELSE "copy"
    <2>1. t = [l EXCEPT !.wrote = TRUE, !.pc = next]
      BY <1>1, <1>9 DEF Create, t
    <2>2. /\ t.pc = next /\ t.attempts = l.attempts /\ t.received = l.received
          /\ t.seen = l.seen /\ t.ver = l.ver /\ t.written = l.written
          /\ l.pc = "create"
      BY <1>1, <1>9, <2>1 DEF Calls, Create
    <2>3. l.received = 0 /\ l.written = 0
      BY <1>1, <2>2 DEF Placed
    <2>4. CASE l.ver = Hole
      <3>1. /\ Stage(l, longest) = 3 * longest + 7
            /\ Stage(t, longest) = 3 * longest + 6
        BY <2>2, <2>4 DEF Stage
      <3>2. QED
        BY <1>1, <1>3, <1>5, <2>2, <2>4, <3>1
    <2>5. CASE l.ver # Hole
      <3>1. /\ Stage(l, longest) = 3 * longest + 5
            /\ Stage(t, longest) = 3 * longest + 4 - t.received - t.written
        BY <2>2, <2>5 DEF Stage
      <3>2. Stage(t, longest) = 3 * longest + 4
        BY <1>1, <2>2, <2>3, <3>1
      <3>3. QED
        BY <1>1, <1>3, <1>5, <2>2, <2>5, <3>1, <3>2
    <2>6. QED
      BY <2>4, <2>5
  <1>10. CASE Request(c)
    <2> DEFINE next == IF l.kind \in {"http", "ftp"} THEN "copy" ELSE "create"
    <2>1. t = [l EXCEPT !.ver = live, !.pc = next]
      BY <1>1, <1>10 DEF Request, t
    <2>2. /\ t.pc \in {"copy", "create"} /\ t.attempts = l.attempts
          /\ t.received = l.received /\ t.seen = l.seen /\ t.ver = live
          /\ t.written = l.written /\ l.pc = "request"
      BY <1>1, <1>10, <2>1 DEF Calls, Request
    <2>3. l.received = 0 /\ l.written = 0 /\ live # Hole
      BY <1>1, <2>2, HoleAssumption DEF Placed, TypeOK
    <2>4. Stage(l, longest) = 3 * longest + 6
      BY <2>2 DEF Stage
    <2>5. Stage(t, longest) \in {3 * longest + 5, 3 * longest + 4 - t.received - t.written}
      BY <2>2, <2>3 DEF Stage
    <2>6. Stage(t, longest) \in {3 * longest + 5, 3 * longest + 4}
      BY <1>1, <2>2, <2>3, <2>5
    <2>7. QED
      BY <1>1, <1>3, <1>5, <2>2, <2>4, <2>6
  <1>11. CASE Refused(c)
    <2>1. t.pc = "failed" /\ t.attempts = l.attempts /\ t.received = l.received
          /\ t.seen = l.seen /\ l.pc = "request"
      BY <1>6, <1>11 DEF Refused, Places
    <2>2. Stage(l, longest) = 3 * longest + 6 /\ Stage(t, longest) = 1
      BY <2>1 DEF Stage
    <2>3. QED
      BY <1>1, <1>3, <1>5, <2>1, <2>2
  <1>12. CASE Receive(c)
    <2>1. PICK n \in 1 .. MaxChunk :
            /\ l.received + n <= Length[l.ver]
            /\ call' = [call EXCEPT ![c].received = @ + n]
      BY <1>12 DEF Receive
    <2>2. t = [l EXCEPT !.received = l.received + n]
      BY <1>1, <2>1 DEF t
    <2>3. /\ t.pc = "copy" /\ l.pc = "copy" /\ t.attempts = l.attempts
          /\ t.received = l.received + n /\ t.written = l.written /\ t.seen = l.seen
      BY <1>1, <1>12, <2>2 DEF Calls, Receive
    <2>4. l.ver \in Versions /\ Length[l.ver] \in Nat /\ n \in Nat /\ n >= 1
      BY <1>1, <2>3, LengthAssumption, BoundsAssumption
         DEF Placed, Copying, Calls
    <2>5. l.received + n <= longest
      BY <1>1, <2>1, <2>4 DEF AreLengths
    <2>6. /\ Stage(l, longest) = 3 * longest + 4 - l.received - l.written
          /\ Stage(t, longest) = 3 * longest + 4 - t.received - t.written
      BY <2>3 DEF Stage
    <2>7. Within(t, longest)
      BY <1>1, <2>3, <2>5 DEF Within
    <2>8. /\ Stage(t, longest) < Stage(l, longest)
          /\ Stage(t, longest) \in Int /\ Stage(l, longest) \in Int
      BY <1>1, <2>3, <2>4, <2>6, SMTT(20)
    <2>9. QED
      BY <1>3, <2>3, <2>7, <2>8
  <1>13. CASE Spill(c)
    <2>1. t = [l EXCEPT !.written = l.received]
      BY <1>1, <1>13 DEF Spill, t
    <2>2. /\ t.pc = "copy" /\ l.pc = "copy" /\ t.attempts = l.attempts
          /\ t.received = l.received /\ t.written = l.received /\ t.seen = l.seen
          /\ l.written < l.received
      BY <1>1, <1>13, <2>1 DEF Calls, Spill
    <2>3. /\ Stage(l, longest) = 3 * longest + 4 - l.received - l.written
          /\ Stage(t, longest) = 3 * longest + 4 - t.received - t.written
      BY <2>2 DEF Stage
    <2>4. /\ Stage(t, longest) < Stage(l, longest)
          /\ Stage(t, longest) \in Int /\ Stage(l, longest) \in Int
      BY <1>1, <2>2, <2>3, SMTT(20)
    <2>5. QED
      BY <1>3, <1>5, <2>2, <2>4
  <1>14. CASE EndOfResource(c)
    <2>1. t.pc = "close" /\ t.attempts = l.attempts /\ t.received = l.received
          /\ t.seen = l.seen /\ l.pc = "copy"
      BY <1>6, <1>14 DEF EndOfResource, Places
    <2>2. /\ Stage(l, longest) = 3 * longest + 4 - l.received - l.written
          /\ Stage(t, longest) = longest + 3
      BY <2>1 DEF Stage
    <2>3. /\ Stage(t, longest) < Stage(l, longest)
          /\ Stage(t, longest) \in Int /\ Stage(l, longest) \in Int
      BY <1>1, <2>2
    <2>4. QED
      BY <1>3, <1>5, <2>1, <2>3
  <1>15. CASE Close(c)
    <2>1. PICK next \in {"reopen", "done"} :
            /\ t.pc = next /\ t.attempts = l.attempts /\ t.received = l.received
            /\ t.seen = l.seen
      <3>1. CASE l.kind \in Caching
        <4>1. t = [l EXCEPT !.written = l.received, !.pc = "reopen"]
          BY <1>1, <1>15, <3>1 DEF Close, t
        <4>2. QED
          BY <1>1, <4>1 DEF Calls
      <3>2. CASE l.kind \notin Caching
        <4>1. t = [l EXCEPT !.written = l.received, !.pc = "done", !.outcome = "ok"]
          BY <1>1, <1>15, <3>2 DEF Close, t
        <4>2. QED
          BY <1>1, <4>1 DEF Calls
      <3>3. QED
        BY <3>1, <3>2
    <2>2. l.pc = "close" /\ Stage(l, longest) = longest + 3
      BY <1>15 DEF Close, Stage
    <2>3. CASE next = "reopen"
      <3>1. Stage(t, longest) = longest + 2
        BY <2>1, <2>3 DEF Stage
      <3>2. QED
        BY <1>1, <1>3, <1>5, <2>1, <2>2, <2>3, <3>1
    <2>4. CASE next = "done"
      BY <1>4, <1>5, <2>1, <2>2, <2>4
    <2>5. QED
      BY <2>3, <2>4
  <1>16. CASE Failed(c)
    <2>1. l.pc = "failed"
      BY <1>16 DEF Failed
    <2>2. CASE Stop(c, "error")
      BY <1>7, <2>1, <2>2
    <2>3. CASE ~Stop(c, "error")
      <3>1. t = [l EXCEPT !.pc = "begin", !.attempts = l.attempts + 1, !.ver = Hole,
                          !.received = 0, !.written = 0]
        BY <1>1, <1>16, <2>3 DEF Failed, t
      <3>2. /\ t.pc = "begin" /\ t.attempts = l.attempts + 1 /\ t.received = 0
            /\ t.seen = l.seen
        BY <1>1, <3>1 DEF Calls
      <3>3. Again(t, longest) = again - (3 * longest + 8)
        BY <1>1, <3>2, AgainFacts DEF Attempt
      <3>4. Stage(t, longest) = 3 * longest + 8 /\ Stage(l, longest) = 1
        BY <2>1, <3>2 DEF Stage
      <3>5. /\ Rank(l, longest) = again + 1
            /\ Rank(t, longest) = (again - (3 * longest + 8)) + (3 * longest + 8)
        BY <2>1, <3>2, <3>3, <3>4 DEF Rank
      <3>6. Rank(t, longest) < Rank(l, longest)
        <4> HIDE DEF again
        <4>1. QED
          BY <1>1, <1>2, <3>5
      <3>7. QED
        BY <1>1, <3>2, <3>6 DEF Within
    <2>4. QED
      BY <2>2, <2>3
  <1>17. CASE Reopen(c)
    <2>1. t.pc = "read" /\ t.attempts = l.attempts /\ t.received = l.received
          /\ t.seen = l.seen /\ l.pc = "reopen"
      BY <1>6, <1>17 DEF Reopen, Places
    <2> DEFINE at == Len(l.seen)
    <2>2. Stage(l, longest) = longest + 2
      BY <2>1 DEF Stage
    <2>3. /\ Stage(t, longest) < Stage(l, longest)
          /\ Stage(t, longest) \in Int /\ Stage(l, longest) \in Int
      <3>1. Stage(t, longest) = longest - at + 1
        BY <2>1 DEF Stage
      <3>2. at \in Nat /\ at <= longest /\ longest \in Nat
        BY <1>1
      <3> HIDE DEF at
      <3>3. QED
        BY <2>2, <3>1, <3>2
    <2>4. QED
      BY <1>3, <1>5, <2>1, <2>3
  <1>18. CASE ReadCached(c)
    <2> DEFINE at == Len(l.seen)
    <2>1. l.pc = "read"
      BY <1>18 DEF ReadCached
    <2>2. CASE at >= Len(bytes)
      <3>1. t = [l EXCEPT !.pc = "done", !.outcome = "ok"]
        BY <1>1, <1>18, <2>2 DEF ReadCached, t
      <3>2. t.pc = "done" /\ t.received = l.received /\ t.seen = l.seen
        BY <1>1, <3>1 DEF Calls
      <3>3. QED
        BY <1>4, <1>5, <2>1, <3>2
    <2>3. CASE ~(at >= Len(bytes))
      <3>1. PICK n \in 1 .. MaxChunk :
              /\ at + n <= Len(bytes)
              /\ call' = [call EXCEPT ![c].seen = @ \o SubSeq(bytes, at + 1, at + n)]
        BY <1>18, <2>3 DEF ReadCached
      <3> DEFINE more == l.seen \o SubSeq(bytes, at + 1, at + n)
      <3>2. t = [l EXCEPT !.seen = more]
        BY <1>1, <3>1 DEF t
      <3>3. /\ n \in Nat /\ n >= 1 /\ at \in Nat /\ Len(bytes) \in Nat
            /\ bytes \in Seq(Versions \cup {Hole})
        BY <1>1, BoundsAssumption, LenProperties DEF TypeOK
      <3>4. Len(more) = at + n
        <4>1. \A i \in at + 1 .. at + n : bytes[i] \in Versions \cup {Hole}
          BY <3>1, <3>3, ElementOfSeq, SMTT(20)
        <4>2. /\ SubSeq(bytes, at + 1, at + n) \in Seq(Versions \cup {Hole})
              /\ Len(SubSeq(bytes, at + 1, at + n)) = n
          <5> HIDE DEF at
          <5>1. /\ at + 1 \in Int /\ at + n \in Int /\ ~(at + 1 > at + n)
                /\ \A i \in at + 1 .. at + n : bytes[i] \in Versions \cup {Hole}
                /\ (at + n) - (at + 1) + 1 = n
            BY <3>3, <4>1
          <5>2. QED
            BY <3>3, <5>1, SubSeqProperties
        <4>3. QED
          BY <1>1, <4>2, ConcatProperties
      <3> HIDE DEF more
      <3>5. /\ t.pc = "read" /\ t.attempts = l.attempts /\ t.received = l.received
            /\ Len(t.seen) = at + n
        BY <1>1, <2>1, <3>2, <3>4 DEF Calls
      <3>6. at + n <= longest
        BY <3>1, <3>3, <1>1 DEF Bounded
      <3>7. /\ Stage(l, longest) = longest - at + 1
            /\ Stage(t, longest) = longest - (at + n) + 1
        BY <2>1, <3>5 DEF Stage
      <3> HIDE DEF at
      <3>8. /\ Stage(t, longest) < Stage(l, longest)
            /\ Stage(t, longest) \in Int /\ Stage(l, longest) \in Int
        BY <1>1, <3>3, <3>7
      <3>9. Within(t, longest)
        BY <1>1, <3>5, <3>6 DEF Within
      <3>10. QED
        BY <1>3, <2>1, <3>5, <3>8, <3>9
    <2>4. QED
      BY <2>2, <2>3
  <1>19. CASE Fault(c)
    <2>1. t.pc = "failed" /\ t.attempts = l.attempts /\ t.received = l.received
          /\ t.seen = l.seen
      BY <1>6, <1>19 DEF Fault, Places
    <2>2. Stage(t, longest) = 1
      BY <2>1 DEF Stage
    <2>3. l.pc \in {"create", "request", "copy", "reopen", "close"}
      BY <1>19 DEF Fault, Fallible
    <2>4. Stage(l, longest) \in
            {3 * longest + 7, 3 * longest + 6, 3 * longest + 5, longest + 3, longest + 2,
             3 * longest + 4 - l.received - l.written}
      BY <2>3 DEF Stage
    <2>5. Stage(l, longest) \in Int /\ Stage(l, longest) > 1
      BY <1>1, <2>4
    <2>6. QED
      BY <1>3, <1>5, <2>1, <2>2, <2>3, <2>5
  <1>20. CASE Killed(c)
    BY <1>7, <1>20 DEF Killed
  <1>21. QED
    BY <1>8, <1>9, <1>10, <1>11, <1>12, <1>13, <1>14, <1>15, <1>16, <1>17, <1>18,
       <1>19, <1>20 DEF CallStep

(* Nothing is ever longer than the longest version.                        *)
LEMMA BoundedStep ==
  ASSUME NEW longest, AreLengths(longest)
  PROVE  TypeOK /\ AllPlaced /\ Bounded(longest) /\ [Next]_vars
           => Bounded(longest)'
  <1> SUFFICES ASSUME TypeOK, AllPlaced, Bounded(longest), [Next]_vars
               PROVE  Bounded(longest)'
    OBVIOUS
  <1>1. CASE UNCHANGED vars \/ ResourceReplaced
    BY <1>1 DEF vars, ResourceReplaced, Bounded
  <1>2. ASSUME NEW c \in Callers, CallStep(c) \/ Fault(c) \/ Killed(c)
        PROVE  Bounded(longest)'
    <2>1. PICK r \in Calls : Moves(c, r)
      BY <1>2, OneStep
    <2>2. \A d \in Callers \ {c} : call'[d] = call[d]
      BY <2>1 DEF Moves, TypeOK
    <2>3. Within(call'[c], longest)
      BY <1>2, StepRunsOut
    <2>4. /\ longest \in Nat /\ Len(bytes) <= longest /\ Len(<<>>) = 0
          /\ \A d \in Callers : Within(call[d], longest)
      BY EmptySeq DEF AreLengths, Bounded, Within
    <2>5. Len(Flushed(c)) <= longest
      BY <2>4, FlushedBounded DEF Within
    <2>6. bytes' \in {<<>>, bytes, Flushed(c)}
      BY <2>1 DEF Moves
    <2>7. Len(bytes') <= longest
      BY <2>4, <2>5, <2>6
    <2>8. QED
      BY <2>2, <2>3, <2>4, <2>7 DEF Bounded, Within
  <1>3. QED
    BY <1>1, <1>2 DEF Next

(* What one step does to the rank of a call: its own step lowers it, and   *)
(* the steps of the others leave it alone.                                 *)
RunsOut(longest) ==
  \A c \in Callers :
    /\ CallStep(c) => Rank(call'[c], longest) < Rank(call[c], longest)
    /\ call'[c] # call[c] => Rank(call'[c], longest) < Rank(call[c], longest)

LEMMA RunningOut ==
  ASSUME NEW longest, AreLengths(longest)
  PROVE  TypeOK /\ AllPlaced /\ Bounded(longest) /\ [Next]_vars
           => [RunsOut(longest)]_vars
  <1> SUFFICES ASSUME TypeOK, AllPlaced, Bounded(longest), Next,
                      NEW d \in Callers
               PROVE  /\ CallStep(d) =>
                           Rank(call'[d], longest) < Rank(call[d], longest)
                      /\ call'[d] # call[d] =>
                           Rank(call'[d], longest) < Rank(call[d], longest)
    BY DEF RunsOut
  <1>1. CASE ResourceReplaced
    <2>1. call' = call
      BY <1>1 DEF ResourceReplaced
    <2>2. ASSUME CallStep(d)
          PROVE  Rank(call'[d], longest) < Rank(call[d], longest)
      BY <2>2, StepRunsOut
    <2>3. QED
      BY <2>1, <2>2
  <1>2. ASSUME NEW c \in Callers, CallStep(c) \/ Fault(c) \/ Killed(c)
        PROVE  call'[d] # call[d] =>
                 Rank(call'[d], longest) < Rank(call[d], longest)
    <2>1. PICK r \in Calls : Moves(c, r)
      BY <1>2, OneStep
    <2>2. d # c => call'[d] = call[d]
      BY <2>1 DEF Moves, TypeOK
    <2>3. d = c => Rank(call'[d], longest) < Rank(call[d], longest)
      BY <1>2, StepRunsOut
    <2>4. QED
      BY <2>2, <2>3
  <1>3. CallStep(d) => Rank(call'[d], longest) < Rank(call[d], longest)
    BY StepRunsOut
  <1>4. QED
    BY <1>1, <1>2, <1>3 DEF Next

(* The half of CallsReturn that is no matter of scheduling: whatever fails *)
(* and whatever the other calls do to the file, every step of a call of    *)
(* any kind takes it nearer to its end, by a rank that is a natural number *)
(* and that no step of another call changes; a retry spends an attempt.    *)
THEOREM CopiesRunOut ==
  ASSUME NEW longest, AreLengths(longest)
  PROVE  Spec => /\ []\A c \in Callers : Rank(call[c], longest) \in Nat
                 /\ [][RunsOut(longest)]_vars
  <1> DEFINE Inv == TypeOK /\ AllPlaced /\ Bounded(longest)
             Natural == \A c \in Callers : Rank(call[c], longest) \in Nat
  <1>1. Init => Inv
    <2>1. Init => Bounded(longest)
      BY EmptySeq DEF Init, Bounded, AreLengths
    <2>2. QED
      BY <2>1, Start
  <1>2. Inv /\ [Next]_vars => Inv'
    BY TypingStep, BoundedStep
  <1>3. Inv => Natural
    <2> SUFFICES ASSUME Inv, NEW c \in Callers
                 PROVE  Rank(call[c], longest) \in Nat
      OBVIOUS
    <2>1. /\ call[c] \in Calls /\ call[c].written <= call[c].received
          /\ call[c].received <= longest /\ Len(call[c].seen) <= longest
          /\ longest \in Nat
      BY DEF TypeOK, Bounded, AreLengths
    <2>2. QED
      BY <2>1, RankTyped
  <1>4. Inv /\ [Next]_vars => [RunsOut(longest)]_vars
    BY RunningOut
  <1> HIDE DEF Inv, Natural
  <1>5. Spec => []Natural /\ [][RunsOut(longest)]_vars
    BY <1>1, <1>2, <1>3, <1>4, PTL DEF Spec
  <1>6. QED
    BY <1>5 DEF Natural
----------------------------------------------------------------------------
(* What CacheServesWhole, which the run cache_hit refutes, relies on.      *)

Idle == {"begin", "done"}

(* No call of the cache overlaps another.                                  *)
OneAtATime ==
  \A c \in Callers : CallStep(c) => \A d \in Callers \ {c} : call[d].pc \in Idle

Whole(file) == \E v \in Versions : file = WholeOf(v)

(* The local variables l of a cached read and the file, when nobody else   *)
(* works on it.                                                            *)
Serving(l, there, file) ==
  /\ l.kind \in Caching
  /\ l.pc = "create" => l.ver \in Versions
  /\ l.pc \in Copying =>
       /\ there /\ l.ver \in Versions /\ l.received <= Length[l.ver]
       /\ file = [i \in 1 .. l.written |-> l.ver]
       /\ l.pc = "close" => l.received = Length[l.ver]
  /\ l.pc \in Copied => there
  /\ l.pc = "read" =>
       Len(l.seen) <= Len(file) /\ \A i \in 1 .. Len(l.seen) : l.seen[i] = file[i]
  /\ l.pc \notin {"read", "done"} => l.seen = <<>>
  /\ l.outcome = "ok" => Whole(l.seen)

(* Between two calls the file is whole, if there is one.                   *)
Alone ==
  /\ \A c, d \in Callers : c # d => call[c].pc \in Idle \/ call[d].pc \in Idle
  /\ \A c \in Callers : Serving(call[c], exists, bytes)
  /\ exists /\ (\A c \in Callers : call[c].pc \notin Copying) => Whole(bytes)

(* A prefix grows by what is in the buffer.                                *)
LEMMA PrefixGrows ==
  ASSUME TypeOK, NEW c \in Callers,
         bytes = [i \in 1 .. call[c].written |-> call[c].ver]
  PROVE  Flushed(c) = [i \in 1 .. call[c].received |-> call[c].ver]
  <1> DEFINE from == call[c].written
             to == call[c].received
             v == call[c].ver
  <1>1. from \in Nat /\ to \in Nat /\ from <= to
    BY DEF TypeOK, Calls
  <1>2. Len(bytes) = from
    BY <1>1
  <1>3. CASE from < to
    <2>1. Larger(Len(bytes), to) = to
      BY <1>2, <1>3 DEF Larger
    <2>2. Flushed(c) = [i \in 1 .. to |->
            IF from < i /\ i <= to THEN v ELSE IF i <= Len(bytes) THEN bytes[i] ELSE Hole]
      BY <1>3, <2>1 DEF Flushed, Written
    <2>3. \A i \in 1 .. to :
            (IF from < i /\ i <= to THEN v ELSE IF i <= Len(bytes) THEN bytes[i] ELSE Hole) = v
      BY <1>1, <1>2
    <2>4. QED
      BY <2>2, <2>3
  <1>4. CASE ~(from < to)
    <2>1. from = to /\ Flushed(c) = bytes
      BY <1>1, <1>4 DEF Flushed
    <2>2. QED
      BY <2>1
  <1>5. QED
    BY <1>3, <1>4

(* What a step of a call does to it and to the file.                       *)
LEMMA ServingStep ==
  ASSUME TypeOK, AllPlaced, NEW c \in Callers, CallStep(c),
         "cuts" \notin Traits, Serving(call[c], exists, bytes),
         exists /\ call[c].pc \notin Copying => Whole(bytes)
  PROVE  /\ Serving(call'[c], exists', bytes')
         /\ exists' /\ call'[c].pc \notin Copying => Whole(bytes')
  <1> DEFINE l == call[c]
             r == call'[c]
             Done == /\ Serving(r, exists', bytes')
                     /\ exists' /\ r.pc \notin Copying => Whole(bytes')
  <1>1. /\ l \in Calls /\ Placed(l) /\ c \in DOMAIN call
        /\ l.kind \in Caching /\ live \in Versions /\ l.kind \notin Retrying
        /\ l.kind \notin {"http", "ftp"} /\ l.received \in Nat /\ l.written \in Nat
        /\ l.written <= l.received
    BY DEF TypeOK, AllPlaced, Serving, Calls, Caching, Retrying
  (* It only goes to another place.                                        *)
  <1>2. ASSUME NEW place \in Places, Goto(c, place)
        PROVE  /\ r.pc = place /\ r.kind = l.kind /\ r.ver = l.ver
               /\ r.received = l.received /\ r.written = l.written
               /\ r.seen = l.seen /\ r.outcome = l.outcome
    <2>1. r = [l EXCEPT !.pc = place]
      BY <1>1, <1>2 DEF Goto
    <2>2. QED
      BY <1>1, <2>1 DEF Calls
  <1> SUFFICES Done
    OBVIOUS
  <1>3. CASE Begin(c)
    <2>1. PICK place \in {"reopen", "request"} :
            Goto(c, place) /\ (place = "reopen" => exists)
      BY <1>1, <1>3, BeginGoes
    <2>2. r.pc = place /\ r.kind = l.kind /\ r.seen = l.seen /\ r.outcome = l.outcome
      BY <1>2, <2>1 DEF Places
    <2>3. QED
      BY <1>3, <2>1, <2>2 DEF Begin, Serving, Copying, Copied
  <1>4. CASE Request(c)
    <2>1. r = [l EXCEPT !.ver = live, !.pc = "create"]
      BY <1>1, <1>4 DEF Request
    <2>2. /\ r.pc = "create" /\ r.ver = live /\ r.kind = l.kind /\ r.seen = l.seen
          /\ r.outcome = l.outcome
      BY <1>1, <2>1 DEF Calls
    <2>3. QED
      BY <1>1, <1>4, <2>2 DEF Request, Serving, Copying, Copied
  <1>5. CASE Refused(c)
    <2>1. r.pc = "failed" /\ r.kind = l.kind /\ r.seen = l.seen /\ r.outcome = l.outcome
      BY <1>2, <1>5 DEF Refused, Places
    <2>2. QED
      BY <1>5, <2>1 DEF Refused, Serving, Copying, Copied
  <1>6. CASE Create(c)
    <2>1. l.pc = "create" /\ l.ver \in Versions /\ l.ver # Hole /\ Length[l.ver] \in Nat
      BY <1>6, HoleAssumption, LengthAssumption DEF Create, Serving
    <2>2. r = [l EXCEPT !.wrote = TRUE, !.pc = "copy"]
      BY <1>1, <1>6, <2>1 DEF Create
    <2>3. /\ r.pc = "copy" /\ r.kind = l.kind /\ r.ver = l.ver /\ r.seen = l.seen
          /\ r.received = l.received /\ r.written = l.written /\ r.outcome = l.outcome
      BY <1>1, <2>2 DEF Calls
    <2>4. r.received = 0 /\ r.written = 0
      BY <1>1, <2>1, <2>3 DEF Placed
    <2>5. bytes' = [i \in 1 .. r.written |-> r.ver]
      <3> DEFINE none == [i \in 1 .. 0 |-> r.ver]
      <3>1. none \in Seq({r.ver}) /\ Len(none) = 0
        OBVIOUS
      <3>2. none = <<>>
        BY <3>1, EmptySeq
      <3>3. QED
        BY <1>6, <2>4, <3>2 DEF Create
    <2>6. QED
      <3>1. /\ l.seen = <<>> /\ l.kind \in Caching /\ (l.outcome = "ok" => Whole(l.seen))
            /\ exists' /\ r.received <= Length[r.ver] /\ r.ver \in Versions
        BY <1>6, <2>1, <2>3, <2>4 DEF Create, Serving
      <3> HIDE DEF l, r
      <3>2. QED
        BY <2>3, <2>5, <3>1 DEF Serving, Copying, Copied
  <1>7. CASE Receive(c)
    <2>1. PICK n \in 1 .. MaxChunk :
            /\ l.received + n <= Length[l.ver]
            /\ call' = [call EXCEPT ![c].received = @ + n]
      BY <1>7 DEF Receive
    <2>2. r = [l EXCEPT !.received = l.received + n]
      BY <1>1, <2>1
    <2>3. /\ r.pc = "copy" /\ l.pc = "copy" /\ r.kind = l.kind /\ r.ver = l.ver
          /\ r.seen = l.seen /\ r.received = l.received + n /\ r.written = l.written
          /\ r.outcome = l.outcome
      BY <1>1, <1>7, <2>2 DEF Calls, Receive
    <2>4. QED
      BY <1>7, <2>1, <2>3 DEF Receive, Serving, Copying, Copied
  <1>8. CASE Spill(c)
    <2>1. r = [l EXCEPT !.written = l.received]
      BY <1>1, <1>8 DEF Spill
    <2>2. /\ r.pc = "copy" /\ l.pc = "copy" /\ r.kind = l.kind /\ r.ver = l.ver
          /\ r.seen = l.seen /\ r.received = l.received /\ r.written = l.received
          /\ r.outcome = l.outcome
      BY <1>1, <1>8, <2>1 DEF Calls, Spill
    <2>3. bytes' = [i \in 1 .. r.written |-> r.ver]
      <3>1. bytes = [i \in 1 .. l.written |-> l.ver]
        BY <2>2 DEF Serving, Copying
      <3>2. Flushed(c) = [i \in 1 .. l.received |-> l.ver]
        BY <3>1, PrefixGrows
      <3>3. QED
        BY <1>8, <2>2, <3>2 DEF Spill
    <2>4. QED
      BY <1>8, <2>2, <2>3 DEF Spill, Serving, Copying, Copied
  <1>9. CASE EndOfResource(c)
    <2>1. /\ r.pc = "close" /\ l.pc = "copy" /\ r.kind = l.kind /\ r.ver = l.ver
          /\ r.seen = l.seen /\ r.received = l.received /\ r.written = l.written
          /\ r.outcome = l.outcome
      BY <1>2, <1>9 DEF EndOfResource, Places
    <2>2. l.received = Length[l.ver]
      BY <1>1, <1>9 DEF EndOfResource, Ends
    <2>3. QED
      BY <1>9, <2>1, <2>2 DEF EndOfResource, Serving, Copying, Copied
  <1>10. CASE Close(c)
    <2>1. r = [l EXCEPT !.written = l.received, !.pc = "reopen"]
      BY <1>1, <1>10 DEF Close
    <2>2. /\ r.pc = "reopen" /\ l.pc = "close" /\ r.kind = l.kind /\ r.seen = l.seen
          /\ r.outcome = l.outcome
      BY <1>1, <1>10, <2>1 DEF Calls, Close
    <2>3. /\ l.ver \in Versions /\ l.received = Length[l.ver] /\ exists
          /\ bytes = [i \in 1 .. l.written |-> l.ver]
      BY <2>2 DEF Serving, Copying
    <2>4. bytes' = Flushed(c)
      BY <1>1, <1>10 DEF Close
    <2>5. Whole(bytes')
      BY <2>3, <2>4, PrefixGrows DEF Whole, WholeOf
    <2>6. QED
      BY <1>10, <2>2, <2>3, <2>5 DEF Close, Serving, Copying, Copied
  <1>11. CASE Failed(c)
    <2>1. /\ r = [l EXCEPT !.pc = "done", !.outcome = "error", !.attempts = 0, !.ver = Hole,
                           !.received = 0, !.written = 0, !.seen = <<>>]
          /\ l.pc = "failed"
      BY <1>1, <1>11 DEF Failed, Stop
    <2>2. r.pc = "done" /\ r.kind = l.kind /\ r.outcome = "error"
      BY <1>1, <2>1 DEF Calls
    <2>3. QED
      BY <1>11, <2>1, <2>2 DEF Failed, Serving, Copying, Copied
  <1>12. CASE Reopen(c)
    <2>1. /\ r.pc = "read" /\ l.pc = "reopen" /\ r.kind = l.kind /\ r.seen = <<>>
          /\ r.outcome = l.outcome
      BY <1>2, <1>12 DEF Reopen, Places, Serving
    <2>2. Len(r.seen) = 0 /\ Len(bytes) \in Nat
      BY <2>1, EmptySeq, LenProperties DEF TypeOK
    <2>3. QED
      BY <1>12, <2>1, <2>2 DEF Reopen, Serving, Copying, Copied
  <1>13. CASE ReadCached(c)
    <2> DEFINE at == Len(l.seen)
               Bytes == Versions \cup {Hole}
    <2>1. /\ l.pc = "read" /\ exists /\ Whole(bytes) /\ UNCHANGED <<exists, bytes>>
          /\ l.seen \in Seq(Bytes) /\ bytes \in Seq(Bytes)
          /\ at \in Nat /\ Len(bytes) \in Nat /\ at <= Len(bytes)
          /\ \A i \in 1 .. at : l.seen[i] = bytes[i]
      BY <1>1, <1>13, LenProperties DEF ReadCached, Serving, Copying, Copied, TypeOK, Calls
    <2>2. CASE at >= Len(bytes)
      <3>1. r = [l EXCEPT !.pc = "done", !.outcome = "ok"]
        BY <1>1, <1>13, <2>2 DEF ReadCached
      <3>2. r.pc = "done" /\ r.kind = l.kind /\ r.seen = l.seen /\ r.outcome = "ok"
        BY <1>1, <3>1 DEF Calls
      <3>3. l.seen = bytes
        BY <2>1, <2>2, SeqEqual
      <3>4. QED
        BY <1>1, <2>1, <3>2, <3>3 DEF Serving, Copying, Copied
    <2>3. CASE ~(at >= Len(bytes))
      <3>1. PICK n \in 1 .. MaxChunk :
              /\ at + n <= Len(bytes)
              /\ call' = [call EXCEPT ![c].seen = @ \o SubSeq(bytes, at + 1, at + n)]
        BY <1>13, <2>3 DEF ReadCached
      <3> DEFINE more == SubSeq(bytes, at + 1, at + n)
                 seen == l.seen \o more
      <3>2. r = [l EXCEPT !.seen = seen]
        BY <1>1, <3>1
      <3>3. r.pc = "read" /\ r.kind = l.kind /\ r.seen = seen /\ r.outcome = l.outcome
        BY <1>1, <2>1, <3>2 DEF Calls
      <3>4. n \in Nat /\ n >= 1
        BY BoundsAssumption
      <3>5. /\ more \in Seq(Bytes) /\ Len(more) = n
            /\ \A i \in 1 .. n : more[i] = bytes[at + i]
        <4>1. \A i \in at + 1 .. at + n : bytes[i] \in Bytes
          BY <2>1, <3>1, <3>4, ElementOfSeq
        <4> DEFINE a == at + 1
                   b == at + n
        <4>2. a \in Int /\ b \in Int /\ a <= b /\ b - a + 1 = n
          BY <2>1, <3>4
        <4>3. /\ SubSeq(bytes, a, b) \in Seq(Bytes)
              /\ Len(SubSeq(bytes, a, b)) = b - a + 1
              /\ \A i \in 1 .. b - a + 1 : SubSeq(bytes, a, b)[i] = bytes[a + i - 1]
          <5> HIDE DEF a, b
          <5>1. \A i \in a .. b : bytes[i] \in Bytes
            BY <4>1 DEF a, b
          <5>2. QED
            BY <4>2, <5>1, SubSeqProperties
        <4>4. \A i \in 1 .. n : a + i - 1 = at + i
          BY <2>1, <3>4
        <4> HIDE DEF at
        <4>5. QED
          BY <4>2, <4>3, <4>4
      <3> HIDE DEF more
      <3>6. /\ Len(seen) = at + n
            /\ \A i \in 1 .. at : seen[i] = l.seen[i]
            /\ \A i \in 1 .. n : seen[at + i] = more[i]
        <4>1. l.seen \in Seq(Bytes) /\ more \in Seq(Bytes) /\ Len(more) = n
          BY <2>1, <3>5
        <4>2. /\ Len(seen) = Len(l.seen) + Len(more)
              /\ \A i \in 1 .. Len(l.seen) + Len(more) :
                   seen[i] = IF i <= Len(l.seen) THEN l.seen[i] ELSE more[i - Len(l.seen)]
          BY <4>1, ConcatProperties
        <4>3. /\ Len(seen) = at + n
              /\ \A i \in 1 .. at + n :
                   seen[i] = IF i <= at THEN l.seen[i] ELSE more[i - at]
          BY <4>1, <4>2
        <4>4. at \in Nat
          BY <2>1
        <4> HIDE DEF seen, at
        <4>5. ASSUME NEW i \in 1 .. at PROVE seen[i] = l.seen[i]
          BY <3>4, <4>3, <4>4
        <4>6. ASSUME NEW i \in 1 .. n PROVE seen[at + i] = more[i]
          <5>1. at + i \in 1 .. at + n /\ ~(at + i <= at) /\ (at + i) - at = i
            BY <3>4, <4>4
          <5>2. QED
            BY <4>3, <5>1
        <4>7. QED
          BY <4>3, <4>5, <4>6
      <3> HIDE DEF seen, at
      <3>7. ASSUME NEW i \in 1 .. at + n
            PROVE  seen[i] = bytes[i]
        <4>1. CASE i <= at
          BY <2>1, <3>6, <4>1
        <4>2. CASE ~(i <= at)
          <5>1. i - at \in 1 .. n /\ at + (i - at) = i
            BY <2>1, <3>4, <4>2
          <5>2. QED
            BY <3>5, <3>6, <5>1
        <4>3. QED
          BY <4>1, <4>2
      <3>8. Len(r.seen) <= Len(bytes) /\ \A i \in 1 .. Len(r.seen) : r.seen[i] = bytes[i]
        BY <3>1, <3>3, <3>6, <3>7
      <3>9. r.outcome # "ok"
        BY <1>1, <2>1, <3>3 DEF Placed
      <3>10. QED
        BY <1>1, <2>1, <3>3, <3>8, <3>9 DEF Serving, Copying, Copied
    <2>4. QED
      BY <2>2, <2>3
  <1>14. QED
    BY <1>3, <1>4, <1>5, <1>6, <1>7, <1>8, <1>9, <1>10, <1>11, <1>12, <1>13 DEF CallStep

(* Alone is inductive when calls do not overlap and nothing fails.         *)
LEMMA AloneStep ==
  ASSUME "faults" \notin Traits, "cuts" \notin Traits
  PROVE  TypeOK /\ AllPlaced /\ Alone /\ [Next /\ OneAtATime]_vars => Alone'
  <1> SUFFICES ASSUME TypeOK, AllPlaced, Alone, [Next /\ OneAtATime]_vars
               PROVE  Alone'
    OBVIOUS
  <1>1. CASE UNCHANGED vars \/ ResourceReplaced
    BY <1>1 DEF vars, ResourceReplaced, Alone, Serving
  <1>2. ASSUME NEW c \in Callers, CallStep(c), OneAtATime
        PROVE  Alone'
    <2>1. PICK r \in Calls : Moves(c, r)
      BY <1>2, OneStep
    <2>2. /\ \A d \in Callers \ {c} : call'[d] = call[d] /\ call[d].pc \in Idle
          /\ exists => exists'
      BY <1>2, <2>1 DEF Moves, TypeOK, OneAtATime
    <2>3. exists /\ call[c].pc \notin Copying => Whole(bytes)
      BY <2>2 DEF Alone, Idle, Copying
    <2>4. /\ Serving(call'[c], exists', bytes')
          /\ exists' /\ call'[c].pc \notin Copying => Whole(bytes')
      BY <1>2, <2>3, ServingStep DEF Alone
    <2>5. ASSUME NEW d \in Callers \ {c}
          PROVE  Serving(call'[d], exists', bytes')
      BY <2>2, <2>5 DEF Alone, Serving, Idle, Copying, Copied
    <2>6. QED
      BY <2>2, <2>4, <2>5 DEF Alone, Serving
  <1>3. QED
    BY <1>1, <1>2 DEF Next, Fault, Killed

(* Cached reads that follow one another, do not fail and are not cut short *)
(* serve the whole of one version, whichever of them downloaded it, with or*)
(* without force, and whenever the resource was replaced or gone.  Each    *)
(* hypothesis is needed: an overlap, an interrupted download, one that a   *)
(* closed connection cuts short in silence (as of any FTP URL), or one of  *)
(* another kind (which may empty the file before it asks) leaves a part of *)
(* a file, and a cached read takes it for the whole.                       *)
THEOREM CacheServesWholeAlone ==
  ASSUME "faults" \notin Traits, "cuts" \notin Traits, MayCall \subseteq Caching
  PROVE  Init /\ [][Next /\ OneAtATime]_vars => []CacheServesWhole
  <1> DEFINE Inv == TypeOK /\ AllPlaced /\ Alone
  <1>1. Init => Inv
    <2> SUFFICES ASSUME Init PROVE Alone
      BY Start
    <2>1. PICK kind \in [Callers -> MayCall] :
            call = [c \in Callers |->
                      [kind |-> kind[c], pc |-> "begin", attempts |-> 0,
                       ver |-> Hole, received |-> 0, written |-> 0, wrote |-> FALSE,
                       seen |-> <<>>, outcome |-> "none"]]
      BY DEF Init
    <2>2. ASSUME NEW c \in Callers
          PROVE  /\ call[c].kind \in Caching /\ call[c].pc = "begin"
                 /\ call[c].seen = <<>> /\ call[c].outcome = "none"
      BY <2>1
    <2>3. QED
      BY <2>2 DEF Init, Alone, Serving, Idle, Copying, Copied
  <1>2. Inv /\ [Next /\ OneAtATime]_vars => Inv'
    BY TypingStep, AloneStep
  <1>3. Inv => CacheServesWhole
    BY DEF Alone, Serving, Whole, CacheServesWhole
  <1>4. QED
    BY <1>1, <1>2, <1>3, PTL
============================================================================
