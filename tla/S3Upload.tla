------------------------------ MODULE S3Upload ------------------------------
(***************************************************************************)
(* `s3_upload` of src/src/s3/mod.rs: several callers store a local file    *)
(* each under one key of a bucket, small files by one PUT, larger ones by  *)
(* a multipart upload (create, one PUT for each part, complete, and abort  *)
(* when something failed).  The module holds the callers, the requests     *)
(* under way and the store; a request may be lost, answered by an error    *)
(* although it took effect, or take effect after its sender gave up on it. *)
(*                                                                         *)
(* What a request carries is a sequence of segments of a file: the version *)
(* of the file and the positions from..to it was read from.  An ETag is    *)
(* the segment it was computed from.                                       *)
(*                                                                         *)
(* A definition marked "Slip" is no part of the model: it is the definition*)
(* that follows with a plausible mistake, kept to show which property      *)
(* would notice it.                                                        *)
(***************************************************************************)
EXTENDS Integers, Sequences, FiniteSets

CONSTANTS
  Callers,     \* concurrent calls of s3_upload, all for one key
  Versions,    \* contents a local file may have
  Length,      \* Length[v]: their lengths
  Threshold,   \* multipart_threshold
  Requested,   \* multipart_chunk_size, the size of the parts asked for
  MaxParts,    \* MAX_PARTS, of an upload
  MinPartSize, \* MIN_PART_SIZE, of every part but the last
  MaxRetries,  \* ONEIO_S3_MAX_RETRIES
  MaxLate,     \* bound: requests under way that nobody waits for
  Traits       \* what may happen beyond the plain case (see below)

(* "edits":     a local file is changed during the upload.                  *)
(* "openFails": File::open fails although metadata() succeeded.             *)
(* "bodyLost":  the body of a 200 reply to Complete cannot be read.         *)
AllTraits == {"edits", "openFails", "bodyLost"}

ASSUME LengthAssumption == Length \in [Versions -> Nat]

ASSUME BoundsAssumption ==
  /\ Requested \in Nat /\ MaxParts \in Nat \ {0} /\ MinPartSize \in Nat \ {0}
  /\ Threshold \in Nat /\ MaxRetries \in Nat /\ MaxLate \in Nat

ASSUME TraitsAssumption == Traits \subseteq AllTraits

VARIABLES
  file,     \* file[c]: the version the caller's file has
  call,     \* call[c]: the local variables of the call
  network,  \* requests under way
  uploads,  \* the multipart uploads the store has created, in that order
  object,   \* the segments stored under the key; none yet: <<>>
  stored    \* the callers whose upload took effect (history)

store == <<uploads, object, stored>>
vars == <<file, call, network, store>>

(* Where a call is: at a local step, or waiting for the answer to its      *)
(* request of that kind.                                                   *)
Kinds == {"create", "part", "complete", "put", "abort"}
Places == Kinds \cup {"stat", "open", "read", "cleanup", "done"}

Segment(v, from, to) == [ver |-> v, from |-> from, to |-> to]

Smaller(a, b) == IF a < b THEN a ELSE b

Larger(a, b) == IF a < b THEN b ELSE a

(* A call without local variables: not begun, or over.                     *)
Idle(place, result) ==
  [pc |-> place, size |-> 0, id |-> 0, attempt |-> 0, position |-> 0,
   body |-> <<>>, etags |-> <<>>, outcome |-> result]

Init ==
  /\ file \in [Callers -> Versions]
  /\ call = [c \in Callers |-> Idle("stat", "none")]
  /\ network = {}
  /\ uploads = <<>> /\ object = <<>> /\ stored = {}

(* Somebody changes the caller's file.                                     *)
FileEdited(c) ==
  /\ "edits" \in Traits
  /\ call[c].pc # "done"
  /\ \E v \in Versions : file' = [file EXCEPT ![c] = v]
  /\ UNCHANGED <<call, network, store>>

----------------------------------------------------------------------------
(* Requests and returns.                                                   *)

(* The request a call in state s waits for an answer to.                   *)
Request(c, s) ==
  [kind |-> s.pc, by |-> c, id |-> s.id, number |-> Len(s.etags) + 1,
   attempt |-> s.attempt, content |-> s.body]

(* The call goes on to state s and sends that request, `under` being what  *)
(* else is under way.                                                      *)
Send(c, s, under) ==
  /\ call' = [call EXCEPT ![c] = s]
  /\ network' = under \cup {Request(c, s)}

Return(c, result) == call' = [call EXCEPT ![c] = Idle("done", result)]

(* Go on to a local step.                                                  *)
Goto(c, place) == call' = [call EXCEPT ![c].pc = place]

(* The call gives up waiting: its request was lost, or is only late.       *)
GivenUp(c) ==
  LET request == Request(c, call[c])
  IN  {network \ {request}} \cup
      (IF Cardinality(network \ {Request(d, call[d]) : d \in Callers}) < MaxLate
       THEN {network} ELSE {})

----------------------------------------------------------------------------
(* The caller's steps.                                                     *)

(* s3_upload: look at the file, choose the way to store it.                *)
Stat(c) ==
  /\ call[c].pc = "stat"
  /\ \/ /\ Length[file[c]] < Threshold
        /\ Goto(c, "open")
        /\ UNCHANGED network
     \/ /\ Length[file[c]] >= Threshold
        /\ Send(c, [call[c] EXCEPT !.pc = "create", !.size = Length[file[c]]], network)
     \/ Return(c, "error") /\ UNCHANGED network
  /\ UNCHANGED <<file, store>>

(* upload_single: send the whole file.                                     *)
OpenForPut(c) ==
  /\ call[c].pc = "open" /\ call[c].id = 0
  /\ \/ Send(c, [call[c] EXCEPT !.pc = "put",
                   !.body = <<Segment(file[c], 0, Length[file[c]])>>], network)
     \/ "openFails" \in Traits /\ Return(c, "error") /\ UNCHANGED network
  /\ UNCHANGED <<file, store>>

(* upload_multipart, the upload created: open the file.  A failure here    *)
(* returns at once.                                                        *)
OpenForParts(c) ==
  /\ call[c].pc = "open" /\ call[c].id # 0
  /\ \/ Goto(c, "read")
     \/ "openFails" \in Traits /\ Return(c, "error")
  /\ UNCHANGED <<file, network, store>>

(* Slip: rounded down, one part too many.                                 *)
ChunkSizeTooSmall(size) ==
  Larger(Larger(Requested, size \div MaxParts), MinPartSize)

(* calculate_chunk_size: as large as asked for, and as the limits need.    *)
ChunkSize(size) ==
  Larger(Larger(Requested, (size + MaxParts - 1) \div MaxParts), MinPartSize)

(* Slip: rounded down, the last short chunk is forgotten.                  *)
FullPartsOnly(size) == size \div ChunkSize(size)

(* How many parts the loop makes at most.                                  *)
TotalParts(size) == (size + ChunkSize(size) - 1) \div ChunkSize(size)

(* The loop over the parts: is there another chunk to read?                *)
MoreToRead(c) ==
  /\ Len(call[c].etags) < TotalParts(call[c].size)
  /\ call[c].position < Length[file[c]]

(* Read the next chunk and send it.                                        *)
ReadPart(c) ==
  /\ call[c].pc = "read"
  /\ MoreToRead(c)
  /\ LET from == call[c].position
         to == Smaller(from + ChunkSize(call[c].size), Length[file[c]])
     IN  Send(c, [call[c] EXCEPT !.pc = "part", !.attempt = 0, !.position = to,
                    !.body = <<Segment(file[c], from, to)>>], network)
  /\ UNCHANGED <<file, store>>

(* Nothing more to read: complete the upload with the ETags received.      *)
Complete(c) ==
  /\ call[c].pc = "read"
  /\ ~MoreToRead(c)
  /\ Send(c, [call[c] EXCEPT !.pc = "complete", !.attempt = 0,
                !.body = call[c].etags], network)
  /\ UNCHANGED <<file, store>>

(* A read of the file fails.                                               *)
ReadFails(c) ==
  /\ call[c].pc = "read"
  /\ Len(call[c].etags) < TotalParts(call[c].size)
  /\ Goto(c, "cleanup")
  /\ UNCHANGED <<file, network, store>>

(* abort_multipart_upload: one request, whatever comes of it.              *)
Abort(c) ==
  /\ call[c].pc = "cleanup"
  /\ Send(c, [call[c] EXCEPT !.pc = "abort", !.attempt = 0, !.body = <<>>], network)
  /\ UNCHANGED <<file, store>>

(* Slip: one attempt too many.                                             *)
ResendOffByOne(c) ==
  /\ call[c].pc \in {"create", "complete"}
  /\ call[c].attempt <= MaxRetries
  /\ \E under \in GivenUp(c) : Send(c, [call[c] EXCEPT !.attempt = @ + 1], under)
  /\ UNCHANGED <<file, store>>

(* Slip: the attempts are not counted.                                     *)
ResendForever(c) ==
  /\ call[c].pc \in {"create", "complete"}
  /\ \E under \in GivenUp(c) : Send(c, call[c], under)
  /\ UNCHANGED <<file, store>>

(* send_with_retry: another attempt with the same body.                    *)
Resend(c) ==
  /\ call[c].pc \in {"create", "complete"}
  /\ call[c].attempt < MaxRetries
  /\ \E under \in GivenUp(c) : Send(c, [call[c] EXCEPT !.attempt = @ + 1], under)
  /\ UNCHANGED <<file, store>>

(* Slip: the file is not rewound, what follows the chunk is sent.          *)
ResendNextChunk(c) ==
  /\ call[c].pc = "part"
  /\ call[c].attempt < MaxRetries
  /\ \E under \in GivenUp(c) :
       LET from == call[c].position
           to == Smaller(from + ChunkSize(call[c].size), Length[file[c]])
       IN  IF from < to
           THEN Send(c, [call[c] EXCEPT !.attempt = @ + 1, !.position = to,
                           !.body = <<Segment(file[c], from, to)>>], under)
           ELSE Goto(c, "cleanup") /\ network' = under
  /\ UNCHANGED <<file, store>>

(* upload_part_with_retry: the chunk was moved into the failed request, it *)
(* is read again at its offset.                                            *)
ResendPart(c) ==
  /\ call[c].pc = "part"
  /\ call[c].attempt < MaxRetries
  /\ \E under \in GivenUp(c) :
       LET segment == call[c].body[1]
       IN  IF segment.to <= Length[file[c]]
           THEN Send(c, [call[c] EXCEPT !.attempt = @ + 1,
                           !.position = segment.to,
                           !.body = <<[segment EXCEPT !.ver = file[c]]>>], under)
           ELSE Goto(c, "cleanup") /\ network' = under
  /\ UNCHANGED <<file, store>>

(* No attempt is left, or the error is not one to retry.                   *)
GiveUp(c) ==
  /\ call[c].pc \in Kinds
  /\ network' \in GivenUp(c)
  /\ IF call[c].pc \in {"part", "complete"}
     THEN Goto(c, "cleanup") ELSE Return(c, "error")
  /\ UNCHANGED <<file, store>>

----------------------------------------------------------------------------
(* The store.                                                              *)

Open(id) == uploads[id].state = "open"

(* The parts listed are those the store has.                               *)
PartsMatch(request) ==
  /\ request.content # <<>>
  /\ \A k \in 1 .. Len(request.content) :
       /\ k \in DOMAIN uploads[request.id].parts
       /\ uploads[request.id].parts[k] = request.content[k]

(* The limits of the store: on the number of a part, and on the sizes of   *)
(* all parts but the last.                                                 *)
WithinLimits(request) ==
  CASE request.kind = "part" -> request.number <= MaxParts
    [] request.kind = "complete" ->
         \A k \in 1 .. Len(request.content) - 1 :
           request.content[k].to - request.content[k].from >= MinPartSize
    [] OTHER -> TRUE

(* May the request take effect?                                            *)
Valid(request) ==
  /\ WithinLimits(request)
  /\ request.kind \in {"part", "complete", "abort"} => Open(request.id)
  /\ request.kind = "complete" => PartsMatch(request)

(* The effect of a valid request.                                          *)
CreateUpload ==
  /\ uploads' = Append(uploads, [state |-> "open", parts |-> <<>>])
  /\ UNCHANGED <<object, stored>>

StorePart(r) ==
  /\ uploads' = [uploads EXCEPT ![r.id].parts =
       [k \in DOMAIN @ \cup {r.number} |-> IF k = r.number THEN r.content[1] ELSE @[k]]]
  /\ UNCHANGED <<object, stored>>

StoreObject(r) ==
  /\ object' = r.content
  /\ stored' = stored \cup {r.by}

TakeEffect(r) ==
  \/ r.kind = "create" /\ CreateUpload
  \/ r.kind = "part" /\ StorePart(r)
  \/ r.kind = "put" /\ StoreObject(r) /\ UNCHANGED uploads
  \/ r.kind = "complete" /\ StoreObject(r)
       /\ uploads' = [uploads EXCEPT ![r.id].state = "completed"]
  \/ r.kind = "abort" /\ uploads' = [uploads EXCEPT ![r.id].state = "aborted"]
       /\ UNCHANGED <<object, stored>>

(* Slip: the body of the answer to Complete is not looked at.              *)
SucceedsByStatus(r, done) == done \/ r.kind = "complete"

(* The answer to the request read as success, or as failure.  A Complete   *)
(* of an upload that was completed before may be answered either way; one  *)
(* whose 200 has no readable body is read as success.                      *)
Succeeds(r, done) ==
  \/ done
  \/ r.kind = "complete" /\ (uploads[r.id].state = "completed" \/ "bodyLost" \in Traits)

(* What the caller does next.                                              *)
HearSuccess(c) ==
  CASE call[c].pc = "create" ->
         call' = [call EXCEPT ![c].pc = "open", ![c].id = Len(uploads) + 1]
    [] call[c].pc = "part" ->
         call' = [call EXCEPT ![c].pc = "read",
                              ![c].etags = Append(@, call[c].body[1])]
    [] call[c].pc \in {"complete", "put"} -> Return(c, "ok")
    [] call[c].pc = "abort" -> Return(c, "error")

(* Slip: a refused Complete returns at once.                               *)
HearFailureNoAbort(c) ==
  IF call[c].pc = "part" THEN Goto(c, "cleanup") ELSE Return(c, "error")

(* An answer read as failure: clean up what the call has on the store.     *)
HearFailure(c) ==
  IF call[c].pc \in {"part", "complete"}
  THEN Goto(c, "cleanup") ELSE Return(c, "error")

(* The store handles a request: it takes effect if it is valid and the     *)
(* store is able to, and its sender, if still waiting, may hear of it.     *)
Handle(r) ==
  /\ network' = network \ {r}
  /\ \E done \in BOOLEAN :
       /\ IF done THEN Valid(r) /\ TakeEffect(r) ELSE UNCHANGED store
       /\ \/ UNCHANGED call
          \/ /\ r = Request(r.by, call[r.by])
             /\ \/ Succeeds(r, done) /\ HearSuccess(r.by)
                \/ HearFailure(r.by)
  /\ UNCHANGED file

----------------------------------------------------------------------------
CallStep(c) ==
  \/ Stat(c) \/ OpenForPut(c) \/ OpenForParts(c)
  \/ ReadPart(c) \/ ReadFails(c) \/ Complete(c) \/ Abort(c)
  \/ Resend(c) \/ ResendPart(c) \/ GiveUp(c)

Next ==
  \/ \E c \in Callers : CallStep(c) \/ FileEdited(c)
  \/ \E r \in network : Handle(r)

(* A caller is never blocked for good: every request ends by an answer or  *)
(* by the timeout of the client.                                           *)
Spec == Init /\ [][Next]_vars /\ \A c \in Callers : WF_vars(CallStep(c))

----------------------------------------------------------------------------
Segments == [ver : Versions, from : Nat, to : Nat]

Requests == [kind : Kinds, by : Callers, id : Nat, number : Nat, attempt : Nat,
             content : Seq(Segments)]

Calls == [pc : Places, size : Nat, id : Nat, attempt : 0 .. MaxRetries,
          position : Nat, body : Seq(Segments), etags : Seq(Segments),
          outcome : {"none", "ok", "error"}]

(* Type invariant; a call refers to an upload the store has created.       *)
TypeOK ==
  /\ file \in [Callers -> Versions]
  /\ call \in [Callers -> Calls]
  /\ network \subseteq Requests
  /\ \A n \in 1 .. Len(uploads) :
       /\ uploads[n].state \in {"open", "completed", "aborted"}
       /\ \A k \in DOMAIN uploads[n].parts :
            k \in Nat \ {0} /\ uploads[n].parts[k] \in Segments
  /\ object \in Seq(Segments)
  /\ stored \subseteq Callers
  /\ \A c \in Callers : call[c].id <= Len(uploads)

(* Segments that follow one another from the start of the file.            *)
Consecutive(content) ==
  \A k \in 1 .. Len(content) :
    content[k].from = IF k = 1 THEN 0 ELSE content[k - 1].to

(* The parts of an object lie in it where they were read in the file: no   *)
(* retry, late request or change of the file leaves a gap, repeats a part  *)
(* or swaps two.                                                           *)
PartsInPlace == Consecutive(object)

(* The contents v, from the first byte to the last.                        *)
Whole(content, v) ==
  /\ content # <<>>
  /\ Consecutive(content)
  /\ \A k \in 1 .. Len(content) : content[k].ver = v
  /\ content[Len(content)].to = Length[v]

(* Ok(()) is only returned for an upload that took effect: "Validate HTTP  *)
(* status first, then parse the body to confirm success".                  *)
OkMeansStored == \A c \in Callers : call[c].outcome = "ok" => c \in stored

(* As long as nobody changes the files, no request breaks a limit of the   *)
(* store: "auto-calculated part sizing to stay within S3's 10,000 part     *)
(* limit", and no part but the last is too small.                          *)
LimitsKept == \A r \in network : WithinLimits(r)

(* A call never returns with its multipart upload (and the storage of its  *)
(* parts) left open on the store, unless the abort it sent did not arrive: *)
(* "Any failure triggers AbortMultipartUpload to clean up S3 state".       *)
AbortedBeforeReturn ==
  [][\A c \in Callers :
       call[c].pc \notin {"abort", "done"} /\ call'[c].pc = "done" /\ call[c].id # 0
         => uploads'[call[c].id].state # "open"]_vars

(* Every call returns: the retries of each request are bounded, and so are *)
(* the parts.                                                              *)
CallsReturn == \A c \in Callers : <>(call[c].pc = "done")

----------------------------------------------------------------------------
(* What the callers are promised (AtomicPut), as long as nobody changes    *)
(* the files: the object is always the whole of one of them.               *)
Value == {v \in Versions : Whole(object, v)}

Status == [c \in Callers |-> call[c].outcome]

Promise == INSTANCE AtomicPut WITH
  Contents <- Versions, content <- file, value <- Value, status <- Status

ImplementsAtomicPut == Promise!Spec
============================================================================
