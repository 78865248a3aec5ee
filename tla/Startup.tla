------------------------------ MODULE Startup ------------------------------
(***************************************************************************)
(* What the first calls of a process share: the environment, into which    *)
(* the .env file is loaded, the crypto provider of rustls, and the cells   *)
(* (OnceLock) that hold the default client, the S3 client and the S3 retry *)
(* configuration: src/src/builder.rs, src/src/crypto.rs and                *)
(* src/src/s3/config.rs, with get_s3_client and s3_retry_config of         *)
(* src/src/s3/mod.rs.  Several threads make their first calls at once.     *)
(*                                                                         *)
(* A definition marked "Slip" is no part of the model: it is the definition*)
(* that follows with a plausible mistake, kept to show which property      *)
(* would notice it.                                                        *)
(***************************************************************************)
EXTENDS Integers, Sequences

CONSTANTS
  Threads,  \* threads, each of which makes one call
  Nobody,   \* no thread
  DotEnv,   \* the variables of the .env file, in its order
  Preset,   \* those the process was started with
  Traits    \* what may happen beyond the plain case (see below)

(* "installFails": rustls refuses a provider though it has none.            *)
(* "buildFails":   reqwest cannot build a client.                           *)
AllTraits == {"installFails", "buildFails"}

(* The variables that are read.  "tls" stands for ONEIO_CA_BUNDLE and      *)
(* ONEIO_ACCEPT_INVALID_CERTS, "aws" for the keys and the region.          *)
Variables == {"tls", "aws", "retries"}

ASSUME NobodyAssumption == Nobody \notin Threads

ASSUME EnvironmentAssumption ==
  /\ DotEnv \in Seq(Variables) /\ Preset \subseteq Variables

ASSUME TraitsAssumption == Traits \subseteq AllTraits

VARIABLES
  env,       \* env[v]: where the value of the variable comes from
  provider,  \* the provider installed
  cell,      \* cell[c]: the state of the OnceLock
  thread     \* thread[t]: the local variables of the call

vars == <<env, provider, cell, thread>>

(* "default": a free function, by default_oneio.                            *)
(* "builder": OneIo::new, or a builder of the caller's.                     *)
(* "s3":      an operation on S3.                                           *)
(* "ensure":  ensure_default_provider, at the start of the program or of an *)
(*            FTP or async transfer.                                        *)
(* "app":     the application installs a provider itself.                   *)
Calls == {"default", "builder", "s3", "ensure", "app"}

Cells == {"DOTENV_INIT", "DEFAULT_ONEIO", "S3_HTTP_CLIENT", "S3_RETRY_CONFIG"}

Places == {"start", "load", "tls", "check", "aws-lc", "again", "ring", "last",
           "build", "config", "client", "retry", "done"}

Empty == [state |-> "empty", by |-> Nobody, ok |-> FALSE]

Init ==
  /\ env = [v \in Variables |-> IF v \in Preset THEN "process" ELSE "unset"]
  /\ provider = "none"
  /\ cell = [c \in Cells |-> Empty]
  /\ \E kind \in [Threads -> Calls] :
       thread = [t \in Threads |->
                   [kind |-> kind[t], pc |-> "start", line |-> 0, then |-> "start",
                    read |-> [v \in Variables |-> "unread"], client |-> Nobody,
                    result |-> "none"]]

----------------------------------------------------------------------------
At(t, kinds, place) == thread[t].kind \in kinds /\ thread[t].pc = place

Goto(t, place) == thread' = [thread EXCEPT ![t].pc = place]

(* dotenvy::dotenv, and then on to the place.                              *)
Load(t, place) ==
  thread' = [thread EXCEPT ![t].pc = "load", ![t].line = 0, ![t].then = place]

Return(t, result, client) ==
  thread' = [thread EXCEPT ![t].pc = "done", ![t].result = result, ![t].client = client]

(* OnceLock::get_or_init: the first comer runs the closure, the others     *)
(* wait until it has returned.                                             *)
Claim(t, c) ==
  /\ cell[c].state = "empty"
  /\ cell' = [cell EXCEPT ![c] = [state |-> "busy", by |-> t, ok |-> FALSE]]

Full(c) == cell[c].state = "full"

Fill(t, c, good) ==
  cell' = [cell EXCEPT ![c] = [state |-> "full", by |-> t, ok |-> good]]

(* A closure that panics leaves the cell empty.                            *)
Vacate(c) == cell' = [cell EXCEPT ![c] = Empty]

----------------------------------------------------------------------------
(* The .env file.                                                          *)

(* dotenvy::dotenv: variables that are set are left alone.                 *)
LoadLine(t) ==
  /\ thread[t].pc = "load"
  /\ thread[t].line < Len(DotEnv)
  /\ LET v == DotEnv[thread[t].line + 1]
     IN  env' = [env EXCEPT ![v] = IF @ = "unset" THEN "file" ELSE @]
  /\ thread' = [thread EXCEPT ![t].line = @ + 1]
  /\ UNCHANGED <<provider, cell>>

(* Slip: ensure_dotenv does not note that the file has been loaded.        *)
LoadedUnnoted(t) ==
  /\ thread[t].pc = "load"
  /\ thread[t].line = Len(DotEnv)
  /\ Goto(t, thread[t].then)
  /\ UNCHANGED <<env, provider, cell>>

(* The end of the file.  ensure_dotenv has filled its cell with that.      *)
Loaded(t) ==
  /\ thread[t].pc = "load"
  /\ thread[t].line = Len(DotEnv)
  /\ Goto(t, thread[t].then)
  /\ IF thread[t].kind = "s3" THEN Fill(t, "DOTENV_INIT", TRUE) ELSE UNCHANGED cell
  /\ UNCHANGED <<env, provider>>

(* Slip: a flag that is set before the file is loaded, instead of a cell.  *)
EnsureDotenvFlag(t) ==
  /\ At(t, {"s3"}, "start")
  /\ \/ /\ cell["DOTENV_INIT"].state = "empty" /\ Fill(t, "DOTENV_INIT", TRUE)
        /\ Load(t, "config")
     \/ Full("DOTENV_INIT") /\ Goto(t, "config") /\ UNCHANGED cell
  /\ UNCHANGED <<env, provider>>

(* ensure_dotenv, called first by S3Config::from_env.                      *)
EnsureDotenv(t) ==
  /\ At(t, {"s3"}, "start")
  /\ \/ Claim(t, "DOTENV_INIT") /\ Load(t, "config")
     \/ Full("DOTENV_INIT") /\ Goto(t, "config") /\ UNCHANGED cell
  /\ UNCHANGED <<env, provider>>

----------------------------------------------------------------------------
(* ensure_default_provider.                                                *)

(* Install a provider: only the first one is accepted.                     *)
Installs(name) == provider = "none" /\ provider' = name

Refuses == (provider # "none" \/ "installFails" \in Traits) /\ UNCHANGED provider

(* Where a caller goes on with Ok.                                         *)
EnsureOk(t) ==
  CASE thread[t].kind = "ensure" -> Return(t, "ok", Nobody)
    [] thread[t].kind = "s3" -> Goto(t, "tls")
    [] OTHER -> Goto(t, "build")

(* Slip: build goes on without a provider, as get_s3_client does.          *)
EnsureFailsIgnored(t) ==
  CASE thread[t].kind = "s3" -> Goto(t, "tls") /\ UNCHANGED cell
    [] thread[t].kind \in {"default", "builder"} -> Goto(t, "build") /\ UNCHANGED cell
    [] OTHER -> Return(t, "error", Nobody) /\ UNCHANGED cell

(* Slip: the error goes past the cell, which stays in the making.          *)
EnsureFailsPast(t) ==
  /\ IF thread[t].kind = "s3" THEN Goto(t, "tls") ELSE Return(t, "error", Nobody)
  /\ UNCHANGED cell

(* And with an error: build returns it, get_s3_client prints a warning.    *)
EnsureFails(t) ==
  CASE thread[t].kind = "s3" -> Goto(t, "tls") /\ UNCHANGED cell
    [] thread[t].kind = "default" ->
         Return(t, "error", t) /\ Fill(t, "DEFAULT_ONEIO", FALSE)
    [] OTHER -> Return(t, "error", Nobody) /\ UNCHANGED cell

(* Is a provider installed?                                                *)
Check(t) ==
  /\ \/ At(t, {"ensure"}, "start")
     \/ thread[t].pc = "check"
  /\ IF provider # "none" THEN EnsureOk(t) ELSE Goto(t, "aws-lc")
  /\ UNCHANGED <<env, provider, cell>>

(* Slip: the refusal is the error.                                         *)
TryAwsLcOnce(t) ==
  /\ thread[t].pc = "aws-lc"
  /\ \/ Installs("aws-lc") /\ EnsureOk(t) /\ UNCHANGED cell
     \/ Refuses /\ EnsureFails(t)
  /\ UNCHANGED env

TryAwsLc(t) ==
  /\ thread[t].pc = "aws-lc"
  /\ \/ Installs("aws-lc") /\ EnsureOk(t)
     \/ Refuses /\ Goto(t, "again")
  /\ UNCHANGED <<env, cell>>

(* Refused because another thread has installed one by now?                *)
CheckAgain(t) ==
  /\ thread[t].pc = "again"
  /\ IF provider # "none" THEN EnsureOk(t) ELSE Goto(t, "ring")
  /\ UNCHANGED <<env, provider, cell>>

TryRing(t) ==
  /\ thread[t].pc = "ring"
  /\ \/ Installs("ring") /\ EnsureOk(t)
     \/ Refuses /\ Goto(t, "last")
  /\ UNCHANGED <<env, cell>>

LastCheck(t) ==
  /\ thread[t].pc = "last"
  /\ IF provider # "none" THEN EnsureOk(t) /\ UNCHANGED cell ELSE EnsureFails(t)
  /\ UNCHANGED <<env, provider>>

(* CryptoProvider::install_default, called by the application.             *)
AppInstalls(t) ==
  /\ At(t, {"app"}, "start")
  /\ \/ Installs("app") /\ Return(t, "ok", Nobody)
     \/ provider # "none" /\ Return(t, "error", Nobody) /\ UNCHANGED provider
  /\ UNCHANGED <<env, cell>>

----------------------------------------------------------------------------
(* The clients.                                                            *)

(* Slip: the cell is looked at, but not held while the client is built.    *)
DefaultOneIoUnlocked(t) ==
  /\ At(t, {"default"}, "start")
  /\ \/ ~Full("DEFAULT_ONEIO") /\ Load(t, "tls")
     \/ /\ Full("DEFAULT_ONEIO")
        /\ Return(t, IF cell["DEFAULT_ONEIO"].ok THEN "ok" ELSE "error",
                  cell["DEFAULT_ONEIO"].by)
  /\ UNCHANGED <<env, provider, cell>>

(* default_oneio: the first caller builds the client, or keeps the error.  *)
DefaultOneIo(t) ==
  /\ At(t, {"default"}, "start")
  /\ \/ Claim(t, "DEFAULT_ONEIO") /\ Load(t, "tls")
     \/ /\ Full("DEFAULT_ONEIO") /\ UNCHANGED cell
        /\ Return(t, IF cell["DEFAULT_ONEIO"].ok THEN "ok" ELSE "error",
                  cell["DEFAULT_ONEIO"].by)
  /\ UNCHANGED <<env, provider>>

(* OneIoBuilder::new.                                                      *)
NewBuilder(t) ==
  /\ At(t, {"builder"}, "start")
  /\ Load(t, "tls")
  /\ UNCHANGED <<env, provider, cell>>

(* Its settings are read; build loads the file once more.                  *)
BuilderReads(t) ==
  /\ At(t, {"builder", "default"}, "tls")
  /\ thread' = [thread EXCEPT ![t].pc = "load", ![t].line = 0, ![t].then = "check",
                              ![t].read["tls"] = env["tls"]]
  /\ UNCHANGED <<env, provider, cell>>

(* The end of OneIoBuilder::build.                                         *)
BuildClient(t) ==
  /\ At(t, {"builder", "default"}, "build")
  /\ \E good \in BOOLEAN :
       /\ good \/ "buildFails" \in Traits
       /\ Return(t, IF good THEN "ok" ELSE "error", t)
       /\ IF thread[t].kind = "default" THEN Fill(t, "DEFAULT_ONEIO", good)
          ELSE UNCHANGED cell
  /\ UNCHANGED <<env, provider>>

(* S3Config::from_env, after ensure_dotenv: a missing key is an error.     *)
(* What send_with_retry sends asks for the retries first; the put of a     *)
(* small file and the requests of the other operations never do.           *)
ReadConfig(t) ==
  /\ At(t, {"s3"}, "config")
  /\ \E place \in IF env["aws"] = "unset" THEN {"done"} ELSE {"retry", "client"} :
       thread' = [thread EXCEPT ![t].read["aws"] = env["aws"], ![t].pc = place,
                    ![t].result = IF place = "done" THEN "error" ELSE "none"]
  /\ UNCHANGED <<env, provider, cell>>

(* s3_retry_config, whose closure only reads the environment.              *)
RetryConfig(t) ==
  /\ At(t, {"s3"}, "retry")
  /\ thread' = [thread EXCEPT ![t].pc = "client",
                  ![t].read["retries"] =
                    IF Full("S3_RETRY_CONFIG") THEN @ ELSE env["retries"]]
  /\ IF Full("S3_RETRY_CONFIG") THEN UNCHANGED cell
     ELSE Fill(t, "S3_RETRY_CONFIG", TRUE)
  /\ UNCHANGED <<env, provider>>

(* get_s3_client, and the request is on its way.                           *)
GetS3Client(t) ==
  /\ At(t, {"s3"}, "client")
  /\ \/ Claim(t, "S3_HTTP_CLIENT") /\ Goto(t, "check")
     \/ /\ Full("S3_HTTP_CLIENT") /\ UNCHANGED cell
        /\ Return(t, "ok", cell["S3_HTTP_CLIENT"].by)
  /\ UNCHANGED <<env, provider>>

S3ClientReads(t) ==
  /\ At(t, {"s3"}, "tls")
  /\ thread' = [thread EXCEPT ![t].pc = "build", ![t].read["tls"] = env["tls"]]
  /\ UNCHANGED <<env, provider, cell>>

(* The client is built, or the expect panics.                              *)
BuildS3Client(t) ==
  /\ At(t, {"s3"}, "build")
  /\ \/ Fill(t, "S3_HTTP_CLIENT", TRUE) /\ Return(t, "ok", t)
     \/ /\ "buildFails" \in Traits
        /\ Vacate("S3_HTTP_CLIENT") /\ Return(t, "panic", Nobody)
  /\ UNCHANGED <<env, provider>>

----------------------------------------------------------------------------
ThreadStep(t) ==
  \/ LoadLine(t) \/ Loaded(t) \/ EnsureDotenv(t)
  \/ Check(t) \/ TryAwsLc(t) \/ CheckAgain(t) \/ TryRing(t) \/ LastCheck(t)
  \/ AppInstalls(t) \/ DefaultOneIo(t) \/ NewBuilder(t) \/ BuilderReads(t)
  \/ BuildClient(t) \/ ReadConfig(t) \/ RetryConfig(t) \/ GetS3Client(t)
  \/ S3ClientReads(t) \/ BuildS3Client(t)

Next == \E t \in Threads : ThreadStep(t)

(* Threads are scheduled.                                                  *)
Spec == Init /\ [][Next]_vars /\ \A t \in Threads : WF_vars(ThreadStep(t))

----------------------------------------------------------------------------
Sources == {"unset", "process", "file"}

(* Type invariant; a cell is held by a thread that is in its closure.      *)
TypeOK ==
  /\ env \in [Variables -> Sources]
  /\ provider \in {"none", "aws-lc", "ring", "app"}
  /\ cell \in [Cells -> [state : {"empty", "busy", "full"}, by : Threads \cup {Nobody},
                         ok : BOOLEAN]]
  /\ thread \in [Threads ->
       [kind : Calls, pc : Places, line : 0 .. Len(DotEnv), then : Places,
        read : [Variables -> Sources \cup {"unread"}],
        client : Threads \cup {Nobody}, result : {"none", "ok", "error", "panic"}]]
  /\ \A c \in Cells : cell[c].state = "busy" => thread[cell[c].by].pc \notin {"start", "done"}

(* The value the settings have once the .env file is loaded.               *)
Setting(v) ==
  IF v \in Preset THEN "process"
  ELSE IF \E n \in 1 .. Len(DotEnv) : DotEnv[n] = v THEN "file" ELSE "unset"

(* No configuration is read while the .env file is half loaded: whatever   *)
(* thread loads it, and whichever reads, every setting read is the one of  *)
(* the process or else the one of the file.                                *)
SettingsSeen ==
  \A t \in Threads, v \in Variables : thread[t].read[v] \in {"unread", Setting(v)}

(* A call is in ensure_default_provider.                                   *)
InEnsure(t) ==
  \/ At(t, {"ensure"}, "start")
  \/ thread[t].pc \in {"check", "aws-lc", "again", "ring", "last"}

(* Losing the race to install a provider is no failure: wherever it is in  *)
(* ensure_default_provider, a call that ends with an error has found no    *)
(* provider, and rustls has refused one though it had none.  "Fully        *)
(* thread-safe and idempotent".                                            *)
RaceIsNoError ==
  [][\A t \in Threads :
       InEnsure(t) /\ thread'[t].result = "error"
         => provider = "none" /\ "installFails" \in Traits]_vars

(* A client the builder makes has a provider to do TLS with.               *)
BuiltWithProvider ==
  \A t \in Threads :
    thread[t].kind \in {"builder", "default", "ensure"} /\ thread[t].result = "ok"
      => provider # "none"

(* All callers of the free functions share one client, or one error; all   *)
(* uploads share one client.                                               *)
OneClient ==
  \A kind \in {"default", "s3"} : \A t, u \in Threads :
    /\ thread[t].kind = kind /\ thread[u].kind = kind
    /\ thread[t].client # Nobody /\ thread[u].client # Nobody
    => /\ thread[t].client = thread[u].client
       /\ kind = "default" => thread[t].result = thread[u].result

(* Nobody waits for good on a cell, though its closure fail or panic.      *)
CallsReturn == \A t \in Threads : <>(thread[t].pc = "done")
============================================================================
