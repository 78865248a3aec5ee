----------------------------- MODULE LocalCopy -----------------------------
(***************************************************************************)
(* Copies of a remote resource into one local file: `download`,            *)
(* `download_with_retry` and `get_cache_reader` of src/src/client.rs,      *)
(* `s3_download` of src/src/s3/mod.rs, `download_async` of                 *)
(* src/src/async_reader.rs and `download_with_progress` of                 *)
(* src/src/bin/oneio.rs, several calls of them at once.                    *)
(* They share nothing but the file: each has a handle with a position and  *)
(* a buffer of its own, and creating the file empties it for all of them.  *)
(*                                                                         *)
(* Byte i of the file is the version of the resource it was copied from,   *)
(* or Hole where nobody has written below a byte somebody wrote.           *)
(*                                                                         *)
(* A definition marked "Slip" is no part of the model: it is the definition*)
(* that follows with a plausible mistake, kept to show which property      *)
(* would notice it.                                                        *)
(***************************************************************************)
EXTENDS Integers, Sequences

CONSTANTS
  Callers,     \* calls, each for the same resource and the same file
  MayCall,     \* the functions they may call (see below)
  Versions,    \* versions of the resource, and what is sent instead of it
  Pages,       \* those sent instead: the text of an answer that is an error
  Length,      \* Length[v]: their lengths
  Hole,        \* a byte nobody has written
  Retries,     \* the argument `retry` of download_with_retry
  MaxChunk,    \* bound: bytes received, or read from the file, in one step
  Traits       \* what may happen beyond the plain case (see below)

(* "cache", "force": get_cache_reader without and with force_cache, of an   *)
(*                   HTTP or S3 URL.                                        *)
(* "ftp-cache", "ftp-force": the same of an FTP URL.                        *)
(* "http":           download, and download_with_retry, of an HTTP URL.     *)
(* "ftp":            the same of an FTP URL.                                *)
(* "s3":             s3_download, and download with an S3 URL.              *)
(* "async":          download_async, of an HTTP URL.                        *)
(* "progress":       download_with_progress, of an HTTP or S3 URL whose name*)
(*                   has no suffix of a compression: what it reads is what  *)
(*                   the decompressor makes of the resource. Its request for*)
(*                   the length before decides what is shown, no more.      *)
Kinds == {"cache", "force", "ftp-cache", "ftp-force", "http", "ftp", "s3", "async",
          "progress"}

Caching == {"cache", "force", "ftp-cache", "ftp-force"}
Retrying == {"http", "ftp", "s3"}

(* The functions that take the file there is, if any.                       *)
Reusing == {"cache", "ftp-cache"}

(* The functions that write what they read at once, without a buffer.       *)
Unbuffered == {"progress"}

(* The functions that do not look at the status of the answer.              *)
Unchecked == {"async"}

(* The functions that set no timeout: FtpStream::connect and what follows   *)
(* it, and reqwest::get. The blocking clients have one for every wait.      *)
Untimed == {"ftp-cache", "ftp-force", "ftp", "async"}

(* "replaces":   the resource is replaced by another version, goes away or  *)
(*               comes back.                                                *)
(* "faults":     a request, a transfer or a write fails, a process is       *)
(*               killed.                                                    *)
(* "cuts":       a connection is closed early and that looks like the end   *)
(*               of the resource: the data connection of an FTP transfer, or*)
(*               that of an HTTP body which nothing else delimits.          *)
(* "closeFails": the write of what is left in the buffer fails when the     *)
(*               writer is dropped.                                         *)
AllTraits == {"replaces", "faults", "cuts", "closeFails"}

ASSUME KindsAssumption == MayCall # {} /\ MayCall \subseteq Kinds

ASSUME LengthAssumption == Length \in [Versions -> Nat] /\ Pages \subseteq Versions

ASSUME HoleAssumption == Hole \notin Versions

ASSUME BoundsAssumption == Retries \in Nat /\ MaxChunk \in Nat \ {0}

ASSUME TraitsAssumption == Traits \subseteq AllTraits

VARIABLES
  live,    \* the version the server holds
  exists,  \* whether the local file exists
  bytes,   \* its bytes
  call     \* call[c]: the local variables of the call

vars == <<live, exists, bytes, call>>

Places == {"begin", "request", "create", "copy", "close", "failed", "reopen",
           "read", "done"}

Init ==
  /\ live \in Versions
  /\ exists = FALSE /\ bytes = <<>>
  /\ \E kind \in [Callers -> MayCall] :
       call = [c \in Callers |->
                 [kind |-> kind[c], pc |-> "begin", attempts |-> 0,
                  ver |-> Hole, received |-> 0, written |-> 0, wrote |-> FALSE,
                  seen |-> <<>>, outcome |-> "none"]]

ResourceReplaced ==
  /\ "replaces" \in Traits
  /\ live' \in Versions \ {live}
  /\ UNCHANGED <<exists, bytes, call>>

----------------------------------------------------------------------------
(* The file.                                                               *)

Larger(a, b) == IF a < b THEN b ELSE a

(* The file after bytes from+1..to of version v are written at their place.*)
Written(from, to, v) ==
  [i \in 1 .. Larger(Len(bytes), to) |->
     IF from < i /\ i <= to THEN v
     ELSE IF i <= Len(bytes) THEN bytes[i] ELSE Hole]

(* The caller's buffer goes to the file.                                   *)
Flushed(c) ==
  IF call[c].written < call[c].received
  THEN Written(call[c].written, call[c].received, call[c].ver) ELSE bytes

Goto(c, place) == call' = [call EXCEPT ![c].pc = place]

(* The call ends with an error, or its process does.                       *)
Stop(c, result) ==
  call' = [call EXCEPT ![c].pc = "done", ![c].outcome = result, ![c].attempts = 0,
                       ![c].ver = Hole, ![c].received = 0, ![c].written = 0,
                       ![c].seen = <<>>]

----------------------------------------------------------------------------
(* The calls.                                                              *)

(* Which file there is, if any, decides what a cached read does; HTTP and  *)
(* FTP downloads create the file first, the others ask for the resource.   *)
Begin(c) ==
  /\ call[c].pc = "begin"
  /\ Goto(c, CASE call[c].kind \in Reusing /\ exists -> "reopen"
               [] call[c].kind \in {"http", "ftp"} -> "create"
               [] OTHER -> "request")
  /\ UNCHANGED <<live, exists, bytes>>

(* Slip: an existing file is opened as it is.                              *)
CreateWithoutTruncate(c) ==
  /\ call[c].pc = "create"
  /\ exists' = TRUE
  /\ call' = [call EXCEPT ![c].wrote = TRUE,
                          ![c].pc = IF call[c].ver = Hole THEN "request" ELSE "copy"]
  /\ UNCHANGED <<live, bytes>>

(* get_writer_raw: create the file, or empty the one there is.             *)
Create(c) ==
  /\ call[c].pc = "create"
  /\ exists' = TRUE
  /\ bytes' = <<>>
  /\ call' = [call EXCEPT ![c].wrote = TRUE,
                          ![c].pc = IF call[c].ver = Hole THEN "request" ELSE "copy"]
  /\ UNCHANGED live

(* Slip: the status of the answer is not looked at.                        *)
RequestUnchecked(c) ==
  /\ call[c].pc = "request"
  /\ call' = [call EXCEPT ![c].ver = live,
                          ![c].pc = IF call[c].kind \in {"http", "ftp"}
                                    THEN "copy" ELSE "create"]
  /\ UNCHANGED <<live, exists, bytes>>

(* The resource is asked for, and its headers arrive.                      *)
Request(c) ==
  /\ call[c].pc = "request"
  /\ live \in Pages => call[c].kind \in Unchecked
  /\ call' = [call EXCEPT ![c].ver = live,
                          ![c].pc = IF call[c].kind \in {"http", "ftp"}
                                    THEN "copy" ELSE "create"]
  /\ UNCHANGED <<live, exists, bytes>>

(* The answer says that there is no such resource.                         *)
Refused(c) ==
  /\ call[c].pc = "request"
  /\ live \in Pages /\ call[c].kind \notin Unchecked
  /\ Goto(c, "failed")
  /\ UNCHANGED <<live, exists, bytes>>

(* Whether the call may read on.                                           *)
MayRead(c) == call[c].kind \in Unbuffered => call[c].written = call[c].received

(* io::copy: bytes arrive in the buffer.                                   *)
Receive(c) ==
  /\ call[c].pc = "copy" /\ MayRead(c)
  /\ \E n \in 1 .. MaxChunk :
       /\ call[c].received + n <= Length[call[c].ver]
       /\ call' = [call EXCEPT ![c].received = @ + n]
  /\ UNCHANGED <<live, exists, bytes>>

(* io::copy: a full buffer is written.                                     *)
Spill(c) ==
  /\ call[c].pc = "copy"
  /\ call[c].written < call[c].received
  /\ bytes' = Flushed(c)
  /\ call' = [call EXCEPT ![c].written = call[c].received]
  /\ UNCHANGED <<live, exists>>

(* Where the transfer may end without an error: nobody reads the reply     *)
(* that closes an FTP transfer, or compares an HTTP body with a length.    *)
Ends(c) ==
  IF "cuts" \in Traits THEN 0 .. Length[call[c].ver] ELSE {Length[call[c].ver]}

(* io::copy: the reader has no more bytes.                                 *)
EndOfResource(c) ==
  /\ call[c].pc = "copy" /\ MayRead(c)
  /\ call[c].received \in Ends(c)
  /\ Goto(c, "close")
  /\ UNCHANGED <<live, exists, bytes>>

(* get_cache_reader and download_async flush the writer; the downloads let *)
(* it be dropped, which writes the rest as well but tells nobody if that   *)
(* fails.                                                                  *)
Close(c) ==
  /\ call[c].pc = "close"
  /\ bytes' \in {Flushed(c)} \cup
       (IF "closeFails" \in Traits /\ call[c].kind \in Retrying THEN {bytes} ELSE {})
  /\ \/ /\ call[c].kind \in Caching
        /\ call' = [call EXCEPT ![c].written = call[c].received, ![c].pc = "reopen"]
     \/ /\ call[c].kind \notin Caching
        /\ call' = [call EXCEPT ![c].written = call[c].received, ![c].pc = "done",
                                ![c].outcome = "ok"]
  /\ UNCHANGED <<live, exists>>

(* The steps whose failure the call sees.                                  *)
Fallible(c) ==
  {"create", "request", "copy", "reopen"} \cup
  (IF call[c].kind \in Retrying \cup Unbuffered THEN {} ELSE {"close"})

(* A step fails: dropping the writer may still write what it has.          *)
Fault(c) ==
  /\ "faults" \in Traits
  /\ call[c].pc \in Fallible(c)
  /\ bytes' \in {bytes, Flushed(c)}
  /\ Goto(c, "failed")
  /\ UNCHANGED <<live, exists>>

(* Slip: one attempt too many.                                             *)
FailedOffByOne(c) ==
  /\ call[c].pc = "failed"
  /\ IF call[c].kind \in Retrying /\ call[c].attempts <= Retries
     THEN call' = [call EXCEPT ![c].pc = "begin", ![c].attempts = @ + 1, ![c].ver = Hole,
                               ![c].received = 0, ![c].written = 0]
     ELSE Stop(c, "error")
  /\ UNCHANGED <<live, exists, bytes>>

(* Slip: the attempts are not counted.                                     *)
FailedUncounted(c) ==
  /\ call[c].pc = "failed"
  /\ IF call[c].kind \in Retrying
     THEN call' = [call EXCEPT ![c].pc = "begin", ![c].ver = Hole,
                               ![c].received = 0, ![c].written = 0]
     ELSE Stop(c, "error")
  /\ UNCHANGED <<live, exists, bytes>>

(* download_with_retry starts over, the others return the error.           *)
Failed(c) ==
  /\ call[c].pc = "failed"
  /\ IF call[c].kind \in Retrying /\ call[c].attempts < Retries
     THEN call' = [call EXCEPT ![c].pc = "begin", ![c].attempts = @ + 1, ![c].ver = Hole,
                               ![c].received = 0, ![c].written = 0]
     ELSE Stop(c, "error")
  /\ UNCHANGED <<live, exists, bytes>>

(* The process is killed.                                                  *)
Killed(c) ==
  /\ "faults" \in Traits
  /\ call[c].pc # "done"
  /\ Stop(c, "killed")
  /\ UNCHANGED <<live, exists, bytes>>

(* get_reader of the cache file: Ok(reader) is returned.                   *)
Reopen(c) ==
  /\ call[c].pc = "reopen"
  /\ Goto(c, "read")
  /\ UNCHANGED <<live, exists, bytes>>

(* The caller reads from it, up to the end the file has by then.           *)
ReadCached(c) ==
  /\ call[c].pc = "read"
  /\ LET at == Len(call[c].seen)
     IN  IF at >= Len(bytes)
         THEN call' = [call EXCEPT ![c].pc = "done", ![c].outcome = "ok"]
         ELSE \E n \in 1 .. MaxChunk :
                /\ at + n <= Len(bytes)
                /\ call' = [call EXCEPT ![c].seen = @ \o SubSeq(bytes, at + 1, at + n)]
  /\ UNCHANGED <<live, exists, bytes>>

CallStep(c) ==
  \/ Begin(c) \/ Request(c) \/ Refused(c) \/ Create(c)
  \/ Receive(c) \/ Spill(c) \/ EndOfResource(c) \/ Close(c)
  \/ Failed(c) \/ Reopen(c) \/ ReadCached(c)

Next ==
  \/ ResourceReplaced
  \/ \E c \in Callers : CallStep(c) \/ Fault(c) \/ Killed(c)

(* The call may wait for the server for ever.                              *)
Waits(c) == call[c].kind \in Untimed /\ call[c].pc \in {"request", "copy"}

(* A call goes on, but need not while nothing limits its wait: a timeout   *)
(* is a fault.                                                             *)
Spec ==
  /\ Init /\ [][Next]_vars
  /\ \A c \in Callers : WF_vars(~Waits(c) /\ (CallStep(c) \/ Fault(c)))

----------------------------------------------------------------------------
Calls ==
  [kind : Kinds, pc : Places, attempts : 0 .. Retries,
   ver : Versions \cup {Hole}, received : Nat, written : Nat, wrote : BOOLEAN,
   seen : Seq(Versions \cup {Hole}), outcome : {"none", "ok", "error", "killed"}]

(* Type invariant; no copy is ahead of its source, no buffer is behind.    *)
TypeOK ==
  /\ live \in Versions
  /\ exists \in BOOLEAN
  /\ bytes \in Seq(Versions \cup {Hole})
  /\ call \in [Callers -> Calls]
  /\ \A c \in Callers : call[c].written <= call[c].received
  /\ ~exists => bytes = <<>>

WholeOf(v) == [i \in 1 .. Length[v] |-> v]

(* The calls that have opened the file for writing.                        *)
Writers == {c \in Callers : call[c].wrote}

(* Copies do not disturb one another: when every call that created the     *)
(* file has returned Ok with the same version of the resource, the file    *)
(* has all that one of them received from its first byte on, is no longer  *)
(* than what one of them received, and nothing of a failed attempt or of   *)
(* another version is left in it, however writes and truncations           *)
(* interleaved. So it is the whole version if all received the whole, and  *)
(* it is what the call received if there is only one; transfers that were  *)
(* cut at different places may leave a hole behind the shortest of them.   *)
SettledWhole ==
  \A v \in Versions :
    /\ Writers # {}
    /\ \A c \in Writers : call[c].outcome = "ok" /\ call[c].ver = v
    => /\ \E c \in Writers : /\ call[c].received <= Len(bytes)
                             /\ \A i \in 1 .. call[c].received : bytes[i] = v
       /\ \E c \in Writers : Len(bytes) <= call[c].received
       /\ \A i \in 1 .. Len(bytes) : bytes[i] \in {v, Hole}

(* The text of an error is never taken for the resource: whenever the      *)
(* resource goes away or comes back, in whichever attempt, no byte of that *)
(* text gets into the file or to a caller who reads the cache. That is said*)
(* of files that download_async has not written to: it does not look at    *)
(* the status, keeps the text as the file, and others serve it.            *)
StoresResource ==
  (\A c \in Writers : call[c].kind \notin Unchecked) =>
    /\ \A i \in 1 .. Len(bytes) : bytes[i] \notin Pages
    /\ \A c \in Callers : \A i \in 1 .. Len(call[c].seen) : call[c].seen[i] \notin Pages

(* What a cached read returns is the whole of one version of the resource. *)
CacheServesWhole ==
  \A c \in Callers :
    call[c].kind \in Caching /\ call[c].outcome = "ok" =>
      \E v \in Versions : call[c].seen = WholeOf(v)

(* Every call returns, after at most `retry` new attempts, or from some    *)
(* time on waits for a server that is silent for ever, which only those    *)
(* can that set no timeout.                                                *)
CallsReturn == \A c \in Callers : <>(call[c].pc = "done") \/ <>[]Waits(c)
============================================================================
