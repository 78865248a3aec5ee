--------------------------- MODULE StartupProofs ---------------------------
(***************************************************************************)
(* Proofs, for any number of threads, any .env file and any environment:   *)
(* the typing of Startup, and what its threads may rely on of what they    *)
(* share.  The invariant says of each thread, by where it is, what it has  *)
(* loaded, installed and claimed, so that a step of one thread keeps it    *)
(* for the others as long as it takes nothing away.  At the end: nobody    *)
(* waits for good.                                                         *)
(***************************************************************************)
EXTENDS Startup, SequenceTheorems, TLAPS

Envs == [Variables -> Sources]
Providers == {"none", "aws-lc", "ring", "app"}
CellType == [state : {"empty", "busy", "full"}, by : Threads \cup {Nobody}, ok : BOOLEAN]
CellStates == [Cells -> CellType]

ThreadType ==
  [kind : Calls, pc : Places, line : 0 .. Len(DotEnv), then : Places,
   read : [Variables -> Sources \cup {"unread"}],
   client : Threads \cup {Nobody}, result : {"none", "ok", "error", "panic"}]

Typed ==
  /\ env \in Envs /\ provider \in Providers /\ cell \in CellStates
  /\ thread \in [Threads -> ThreadType]

(* The calls that load the file, and those that build a client.            *)
Loading == {"default", "builder", "s3"}
Building == {"default", "builder"}

(* The places in ensure_default_provider, and those of a client's making.  *)
Ensuring == {"aws-lc", "again", "ring", "last"}
InClient == {"check", "tls", "build"} \cup Ensuring

(* In what follows l are the local variables of a thread t, e is the       *)
(* environment, p the provider and k the cells.                            *)

(* The .env file has been loaded, by whatever thread.                      *)
FileLoaded(e) == \A n \in 1 .. Len(DotEnv) : e[DotEnv[n]] # "unset"

(* Where a call of each kind can be, and where it goes after a load.       *)
Placed(l) ==
  /\ l.kind = "app" => l.pc \in {"start", "done"}
  /\ l.kind = "ensure" => l.pc \in {"start", "done"} \cup Ensuring
  /\ l.kind \in Building => l.pc \in {"start", "done", "load"} \cup InClient
  /\ l.kind = "s3" => l.pc \in {"start", "done", "load", "config", "client", "retry"}
                                \cup InClient
  /\ l.pc = "load" /\ l.kind = "s3" => l.then = "config"
  /\ l.pc = "load" /\ l.kind \in Building => l.then \in {"tls", "check"}
  /\ l.pc # "done" => l.result = "none"

(* What it has read and loaded.                                            *)
Informed(l, e) ==
  /\ \A v \in Variables : l.read[v] \in {"unread", Setting(v)}
  /\ l.pc = "load" => \A n \in 1 .. l.line : e[DotEnv[n]] # "unset"
  /\ l.kind \in Loading /\ l.pc \notin {"start", "load", "done"} => FileLoaded(e)

(* It has made sure of a provider, or goes on with what rustls refuses.    *)
Provided(l, p) ==
  /\ l.pc \in {"again", "ring", "last"} => p # "none" \/ "installFails" \in Traits
  /\ l.kind \in Building /\ l.pc = "build" => p # "none"
  /\ l.kind \in Building \cup {"ensure"} /\ l.result = "ok" => p # "none"

(* The closures a thread is in.                                            *)
Inside(l, c) ==
  \/ c = "DOTENV_INIT" /\ l.kind = "s3" /\ l.pc = "load"
  \/ c = "DEFAULT_ONEIO" /\ l.kind = "default" /\ l.pc \notin {"start", "done"}
  \/ c = "S3_HTTP_CLIENT" /\ l.kind = "s3" /\ l.pc \in InClient

(* A cell is busy with the thread that is in its closure.                  *)
Holds(t, l, k) ==
  \A c \in Cells : Inside(l, c) <=> k[c].state = "busy" /\ k[c].by = t

(* The client it uses is the one in the cell.                              *)
Shares(l, k) ==
  l.client # Nobody =>
    /\ l.kind = "s3" =>
         k["S3_HTTP_CLIENT"].state = "full" /\ l.client = k["S3_HTTP_CLIENT"].by
    /\ l.kind = "default" =>
         /\ l.pc = "done" /\ k["DEFAULT_ONEIO"].state = "full"
         /\ l.client = k["DEFAULT_ONEIO"].by
         /\ l.result = IF k["DEFAULT_ONEIO"].ok THEN "ok" ELSE "error"

Local(t, l, e, p, k) ==
  Placed(l) /\ Informed(l, e) /\ Provided(l, p) /\ Holds(t, l, k) /\ Shares(l, k)

(* Every variable has its setting, unless the file is yet to give it one.  *)
Environment(e) ==
  \A v \in Variables : e[v] = Setting(v) \/ (e[v] = "unset" /\ v \notin Preset)

(* What a full cell promises; and a busy one is somebody's.                *)
CellsKept(e, p, k) ==
  /\ k["DOTENV_INIT"].state = "full" => FileLoaded(e)
  /\ k["DEFAULT_ONEIO"].state = "full" /\ k["DEFAULT_ONEIO"].ok => p # "none"
  /\ k["S3_RETRY_CONFIG"].state # "busy"
  /\ \A c \in Cells : k[c].state = "busy" => k[c].by \in Threads

Global(e, p, k) == Environment(e) /\ CellsKept(e, p, k)

Inv ==
  /\ Typed /\ Global(env, provider, cell)
  /\ \A t \in Threads : Local(t, thread[t], env, provider, cell)

(* A step takes nothing away from others: what is set and installed stays, *)
(* and of the cells only an empty one, or the thread's own, changes.       *)
Grows(e, p) ==
  /\ \A v \in Variables : env[v] # "unset" => e[v] = env[v]
  /\ provider # "none" => p = provider

CellSteps(t, k) ==
  \A c \in Cells :
    \/ k[c] = cell[c]
    \/ /\ cell[c].state = "empty" \/ (cell[c].state = "busy" /\ cell[c].by = t)
       /\ k[c].state = "busy" => k[c].by = t

(* A step of t to the local variables r and the rest of the state.         *)
Moves(t, r, e, p, k) ==
  /\ r \in ThreadType /\ Local(t, r, e, p, k)
  /\ Grows(e, p) /\ CellSteps(t, k) /\ Global(e, p, k)
  /\ e \in Envs /\ p \in Providers /\ k \in CellStates

(* The local variables l, one by one.                                      *)
Has(l, kind, pc, line, then, read, client, result) ==
  /\ l.kind = kind /\ l.pc = pc /\ l.line = line /\ l.then = then
  /\ l.read = read /\ l.client = client /\ l.result = result

Step(t) ==
  \E r \in ThreadType :
    thread' = [thread EXCEPT ![t] = r] /\ Moves(t, r, env', provider', cell')

----------------------------------------------------------------------------

(* A step that takes nothing away keeps the invariant.                     *)
LEMMA StepKeeps ==
  ASSUME Inv, NEW t \in Threads, Step(t) PROVE Inv'
  <1>1. PICK r \in ThreadType :
          thread' = [thread EXCEPT ![t] = r] /\ Moves(t, r, env', provider', cell')
    BY DEF Step
  <1>2. /\ thread' \in [Threads -> ThreadType] /\ thread'[t] = r
        /\ \A u \in Threads \ {t} : thread'[u] = thread[u]
    BY <1>1 DEF Inv, Typed
  <1>3. Typed' /\ Global(env', provider', cell')
    BY <1>1, <1>2 DEF Typed, Moves
  <1>4. ASSUME NEW u \in Threads \ {t}
        PROVE  Local(u, thread[u], env', provider', cell')
    <2> DEFINE l == thread[u]
    <2>1. l \in ThreadType /\ Local(u, l, env, provider, cell)
      BY DEF Inv, Typed
    <2>2. \A n \in 1 .. Len(DotEnv) : DotEnv[n] \in Variables
      BY EnvironmentAssumption, ElementOfSeq
    <2>3. \A n \in 1 .. Len(DotEnv) :
            env[DotEnv[n]] # "unset" => env'[DotEnv[n]] # "unset"
      BY <1>1, <2>2 DEF Moves, Grows
    <2>4. l.line \in 0 .. Len(DotEnv) /\ Len(DotEnv) \in Nat
      BY <2>1, EnvironmentAssumption, LenProperties DEF ThreadType
    <2>5. \A n \in 1 .. l.line : n \in 1 .. Len(DotEnv)
      BY <2>4
    <2>6. Informed(l, env')
      BY <2>1, <2>3, <2>5 DEF Local, Informed, FileLoaded
    <2>7. Provided(l, provider')
      BY <1>1, <2>1 DEF Local, Provided, Moves, Grows
    <2>8. Holds(u, l, cell')
      BY <1>1, <2>1 DEF Local, Holds, Moves, CellSteps
    <2>9. Shares(l, cell')
      BY <1>1, <2>1 DEF Local, Shares, Moves, CellSteps, Cells
    <2>10. QED
      BY <2>1, <2>6, <2>7, <2>8, <2>9 DEF Local
  <1>5. QED
    BY <1>1, <1>2, <1>3, <1>4 DEF Inv, Moves

(* What the invariant says of one thread.                                  *)
LEMMA Facts ==
  ASSUME Inv, NEW t \in Threads
  PROVE  /\ thread[t] \in ThreadType /\ Local(t, thread[t], env, provider, cell)
         /\ Global(env, provider, cell)
         /\ env \in Envs /\ provider \in Providers /\ cell \in CellStates
         /\ Len(DotEnv) \in Nat
         /\ \A n \in 1 .. Len(DotEnv) : DotEnv[n] \in Variables
         /\ \A n \in 1 .. thread[t].line : n \in 1 .. Len(DotEnv)
  <1>1. thread[t] \in ThreadType /\ Local(t, thread[t], env, provider, cell)
    BY DEF Inv, Typed
  <1>2. Len(DotEnv) \in Nat /\ \A n \in 1 .. Len(DotEnv) : DotEnv[n] \in Variables
    BY EnvironmentAssumption, ElementOfSeq, LenProperties
  <1>3. QED
    BY <1>1, <1>2 DEF Inv, Typed, ThreadType


(* A cell is changed, the others are not.                                  *)
LEMMA CellSet ==
  ASSUME cell \in CellStates, NEW c \in Cells, NEW new \in CellType,
         cell' = [cell EXCEPT ![c] = new]
  PROVE  /\ cell' \in CellStates /\ cell'[c] = new
         /\ \A d \in Cells \ {c} : cell'[d] = cell[d]
  BY DEF CellStates

----------------------------------------------------------------------------

(* The steps that load the file.                                           *)
LEMMA FileSteps ==
  ASSUME Inv, NEW t \in Threads, LoadLine(t) \/ Loaded(t) \/ EnsureDotenv(t)
  PROVE  Step(t)
  <1> DEFINE l == thread[t]
  <1>1. /\ l \in ThreadType /\ Local(t, l, env, provider, cell)
        /\ Global(env, provider, cell)
        /\ env \in Envs /\ provider \in Providers /\ cell \in CellStates
        /\ Len(DotEnv) \in Nat /\ 0 \in 0 .. Len(DotEnv) /\ l.line \in 0 .. Len(DotEnv)
        /\ \A n \in 1 .. Len(DotEnv) : DotEnv[n] \in Variables
        /\ \A n \in 1 .. l.line : n \in 1 .. Len(DotEnv)
    BY Facts DEF ThreadType
  <1>2. CASE LoadLine(t)
    <2> DEFINE r == [l EXCEPT !.line = l.line + 1]
    <2>1. thread' = [thread EXCEPT ![t] = r]
      BY <1>2 DEF LoadLine
    <2>2. /\ r \in ThreadType
          /\ Has(r, l.kind, l.pc, l.line + 1, l.then, l.read, l.client, l.result)
      BY <1>1, <1>2 DEF ThreadType, Places, Has, LoadLine
    <2> HIDE DEF r
    <2>3. Local(t, r, env', provider', cell')
      BY <1>1, <2>2, <1>2
         DEF LoadLine, Envs, Sources, Setting, Has, Local, Global, CellsKept, Placed,
             Informed, FileLoaded, Provided, Holds, Inside, Shares, Building, Loading,
             InClient, Ensuring, Cells
    <2>4. Moves(t, r, env', provider', cell')
      <3> DEFINE v == DotEnv[l.line + 1]
      <3>1. /\ l.line + 1 \in 1 .. Len(DotEnv) /\ v \in Variables
            /\ env' = [env EXCEPT ![v] = IF env[v] = "unset" THEN "file" ELSE env[v]]
            /\ UNCHANGED <<provider, cell>>
        BY <1>1, <1>2 DEF LoadLine
      <3>2. Setting(v) = IF v \in Preset THEN "process" ELSE "file"
        BY <3>1 DEF Setting
      <3> HIDE DEF v
      <3>3. /\ env' \in Envs
            /\ \A u \in Variables :
                 env'[u] = IF u = v /\ env[v] = "unset" THEN "file" ELSE env[u]
        BY <1>1, <3>1 DEF Envs, Sources
      <3>4. Environment(env') /\ Grows(env', provider')
        <4>1. Environment(env)
          BY <1>1 DEF Global
        <4>2. env[v] = "unset" => Setting(v) = "file"
          BY <3>1, <3>2, <4>1 DEF Environment
        <4>3. QED
          BY <3>1, <3>3, <4>1, <4>2 DEF Environment, Grows
      <3>5. FileLoaded(env) => FileLoaded(env')
        BY <1>1, <3>3 DEF FileLoaded
      <3>6. CellsKept(env', provider', cell') /\ CellSteps(t, cell')
        BY <1>1, <3>1, <3>5 DEF Global, CellsKept, CellSteps
      <3>7. QED
        BY <1>1, <2>2, <2>3, <3>1, <3>3, <3>4, <3>6 DEF Moves, Global
    <2>5. QED
      BY <2>1, <2>2, <2>4 DEF Step
  <1>3. CASE Loaded(t) /\ l.kind = "s3"
    <2> DEFINE r == [l EXCEPT !.pc = l.then]
    <2>1. thread' = [thread EXCEPT ![t] = r]
      BY <1>3 DEF Loaded, Goto, Fill
    <2>2. /\ r \in ThreadType
          /\ Has(r, l.kind, l.then, l.line, l.then, l.read, l.client, l.result)
      BY <1>1 DEF ThreadType, Places, Has
    <2> HIDE DEF r
    <2>3. /\ cell' \in CellStates
          /\ cell'["DOTENV_INIT"] = [state |-> "full", by |-> t, ok |-> TRUE]
          /\ \A c \in Cells \ {"DOTENV_INIT"} : cell'[c] = cell[c]
      BY <1>1, <1>3, CellSet DEF Loaded, Goto, Fill, CellType, Cells
    <2>4. Local(t, r, env', provider', cell')
      BY <1>1, <2>2, <1>3, <2>3
         DEF Loaded, Goto, Fill, Has, Local, Global, CellsKept, Placed, Informed,
             FileLoaded, Provided, Holds, Inside, Shares, Building, Loading, InClient,
             Ensuring, Cells
    <2>5. Moves(t, r, env', provider', cell')
      BY <1>1, <2>2, <2>4, <1>3, <2>3
         DEF Loaded, Goto, Fill, Moves, Local, Placed, Informed, FileLoaded, Provided,
             Holds, Inside, Grows, CellType, CellSteps, Global, CellsKept, Environment,
             Envs, Building, Loading, InClient, Ensuring, Cells
    <2>6. QED
      BY <2>1, <2>2, <2>5 DEF Step
  <1>4. CASE Loaded(t) /\ l.kind # "s3"
    <2> DEFINE r == [l EXCEPT !.pc = l.then]
    <2>1. thread' = [thread EXCEPT ![t] = r]
      BY <1>4 DEF Loaded, Goto
    <2>2. /\ r \in ThreadType
          /\ Has(r, l.kind, l.then, l.line, l.then, l.read, l.client, l.result)
      BY <1>1 DEF ThreadType, Places, Has
    <2> HIDE DEF r
    <2>3. Local(t, r, env', provider', cell')
      <3>1. l.pc = "load" /\ l.line = Len(DotEnv) /\ UNCHANGED <<env, provider, cell>>
        BY <1>4 DEF Loaded
      <3>2. l.kind \in Building /\ r.pc \in {"tls", "check"}
        BY <1>1, <1>4, <2>2, <3>1
           DEF Has, Local, Placed, Building, Ensuring, ThreadType, Calls
      <3>3. Placed(r) /\ Provided(r, provider')
        BY <1>1, <2>2, <3>1, <3>2
           DEF Has, Local, Placed, Provided, Building, InClient, Ensuring
      <3>4. Informed(r, env')
        BY <1>1, <2>2, <3>1, <3>2
           DEF Has, Local, Informed, FileLoaded, Building, Loading
      <3>5. Holds(t, r, cell') /\ Shares(r, cell')
        BY <1>1, <2>2, <3>1, <3>2
           DEF Has, Local, Holds, Inside, Shares, Building, Cells
      <3>6. QED
        BY <3>3, <3>4, <3>5 DEF Local
    <2>4. Moves(t, r, env', provider', cell')
      BY <1>1, <2>2, <2>3, <1>4
         DEF Loaded, Goto, Moves, Local, Placed, Informed, FileLoaded, Provided, Holds,
             Inside, Grows, CellType, CellSteps, Global, CellsKept, Environment, Envs,
             Building, Loading, InClient, Ensuring, Cells
    <2>5. QED
      BY <2>1, <2>2, <2>4 DEF Step
  <1>5. CASE EnsureDotenv(t) /\ ~Full("DOTENV_INIT")
    <2> DEFINE r == [l EXCEPT !.pc = "load", !.line = 0, !.then = "config"]
    <2>1. thread' = [thread EXCEPT ![t] = r]
      BY <1>5 DEF EnsureDotenv, Claim, Load, Full, At
    <2>2. /\ r \in ThreadType
          /\ Has(r, l.kind, "load", 0, "config", l.read, l.client, l.result)
      BY <1>1 DEF ThreadType, Places, Has
    <2> HIDE DEF r
    <2>3. /\ cell' \in CellStates
          /\ cell'["DOTENV_INIT"] = [state |-> "busy", by |-> t, ok |-> FALSE]
          /\ \A c \in Cells \ {"DOTENV_INIT"} : cell'[c] = cell[c]
      BY <1>1, <1>5, CellSet DEF EnsureDotenv, Claim, Load, Full, At, CellType, Cells
    <2>4. Local(t, r, env', provider', cell')
      BY <1>1, <2>2, <1>5, <2>3
         DEF EnsureDotenv, Claim, Load, Full, At, Has, Local, Global, CellsKept, Placed,
             Informed, FileLoaded, Provided, Holds, Inside, Shares, Building, Loading,
             InClient, Ensuring, Cells
    <2>5. Moves(t, r, env', provider', cell')
      BY <1>1, <2>2, <2>4, <1>5, <2>3
         DEF EnsureDotenv, Claim, Load, Full, At, Moves, Local, Placed, Informed,
             FileLoaded, Provided, Holds, Inside, Grows, CellType, CellSteps, Global,
             CellsKept, Environment, Envs, Building, Loading, InClient, Ensuring, Cells
    <2>6. QED
      BY <2>1, <2>2, <2>5 DEF Step
  <1>6. CASE EnsureDotenv(t) /\ Full("DOTENV_INIT")
    <2> DEFINE r == [l EXCEPT !.pc = "config"]
    <2>1. thread' = [thread EXCEPT ![t] = r]
      BY <1>6 DEF EnsureDotenv, Claim, Goto, Full, At
    <2>2. /\ r \in ThreadType
          /\ Has(r, l.kind, "config", l.line, l.then, l.read, l.client, l.result)
      BY <1>1 DEF ThreadType, Places, Has
    <2> HIDE DEF r
    <2>3. Local(t, r, env', provider', cell')
      BY <1>1, <2>2, <1>6
         DEF EnsureDotenv, Claim, Goto, Full, At, Has, Local, Global, CellsKept, Placed,
             Informed, FileLoaded, Provided, Holds, Inside, Shares, Building, Loading,
             InClient, Ensuring, Cells
    <2>4. Moves(t, r, env', provider', cell')
      BY <1>1, <2>2, <2>3, <1>6
         DEF EnsureDotenv, Claim, Goto, Full, At, Moves, Local, Placed, Informed,
             FileLoaded, Provided, Holds, Inside, Grows, CellType, CellSteps, Global,
             CellsKept, Environment, Envs, Building, Loading, InClient, Ensuring, Cells
    <2>5. QED
      BY <2>1, <2>2, <2>4 DEF Step
  <1>7. QED
    BY <1>2, <1>3, <1>4, <1>5, <1>6

(* Once the file is loaded every variable has its setting.                 *)
LEMMA SettingFound ==
  ASSUME Environment(env), FileLoaded(env), NEW v \in Variables
  PROVE  env[v] = Setting(v)
  BY DEF Environment, FileLoaded, Setting

----------------------------------------------------------------------------

(* From ensure_default_provider with Ok: there is a provider.              *)
LEMMA EnsureOkStep ==
  ASSUME Inv, NEW t \in Threads,
         thread[t].pc \in {"check"} \cup Ensuring
           \/ (thread[t].kind = "ensure" /\ thread[t].pc = "start"),
         UNCHANGED <<env, cell>>, provider' \in Providers \ {"none"},
         provider # "none" => provider' = provider, EnsureOk(t)
  PROVE  Step(t)
  <1> DEFINE l == thread[t]
  <1>1. /\ l \in ThreadType /\ Local(t, l, env, provider, cell)
        /\ Global(env, provider, cell)
        /\ env \in Envs /\ provider \in Providers /\ cell \in CellStates
        /\ Len(DotEnv) \in Nat /\ 0 \in 0 .. Len(DotEnv) /\ l.line \in 0 .. Len(DotEnv)
        /\ \A n \in 1 .. Len(DotEnv) : DotEnv[n] \in Variables
        /\ \A n \in 1 .. l.line : n \in 1 .. Len(DotEnv)
    BY Facts DEF ThreadType
  <1>2. CASE l.kind = "ensure"
    <2> DEFINE r == [l EXCEPT !.pc = "done", !.result = "ok", !.client = Nobody]
    <2>1. thread' = [thread EXCEPT ![t] = r]
      BY <1>2 DEF EnsureOk, Return
    <2>2. /\ r \in ThreadType
          /\ Has(r, l.kind, "done", l.line, l.then, l.read, Nobody, "ok")
      BY <1>1 DEF ThreadType, Places, Has
    <2> HIDE DEF r
    <2>3. Local(t, r, env', provider', cell')
      BY <1>1, <2>2, <1>2
         DEF EnsureOk, Return, Has, Local, Global, CellsKept, Placed, Informed,
             FileLoaded, Provided, Holds, Inside, Shares, Building, Loading, InClient,
             Ensuring, Cells
    <2>4. Moves(t, r, env', provider', cell')
      BY <1>1, <2>2, <2>3, <1>2
         DEF EnsureOk, Return, Moves, Local, Placed, Informed, FileLoaded, Provided,
             Holds, Inside, Grows, CellType, CellSteps, Global, CellsKept, Environment,
             Envs, Building, Loading, InClient, Ensuring, Cells
    <2>5. QED
      BY <2>1, <2>2, <2>4 DEF Step
  <1>3. CASE l.kind = "s3"
    <2> DEFINE r == [l EXCEPT !.pc = "tls"]
    <2>1. thread' = [thread EXCEPT ![t] = r]
      BY <1>3 DEF EnsureOk, Goto
    <2>2. /\ r \in ThreadType
          /\ Has(r, l.kind, "tls", l.line, l.then, l.read, l.client, l.result)
      BY <1>1 DEF ThreadType, Places, Has
    <2> HIDE DEF r
    <2>3. Local(t, r, env', provider', cell')
      BY <1>1, <2>2, <1>3
         DEF EnsureOk, Goto, Has, Local, Global, CellsKept, Placed, Informed, FileLoaded,
             Provided, Holds, Inside, Shares, Building, Loading, InClient, Ensuring,
             Cells
    <2>4. Moves(t, r, env', provider', cell')
      BY <1>1, <2>2, <2>3, <1>3
         DEF EnsureOk, Goto, Moves, Local, Placed, Informed, FileLoaded, Provided, Holds,
             Inside, Grows, CellType, CellSteps, Global, CellsKept, Environment, Envs,
             Building, Loading, InClient, Ensuring, Cells
    <2>5. QED
      BY <2>1, <2>2, <2>4 DEF Step
  <1>4. CASE l.kind \notin {"ensure", "s3"}
    <2> DEFINE r == [l EXCEPT !.pc = "build"]
    <2>1. thread' = [thread EXCEPT ![t] = r]
      BY <1>4 DEF EnsureOk, Goto
    <2>2. /\ r \in ThreadType
          /\ Has(r, l.kind, "build", l.line, l.then, l.read, l.client, l.result)
      BY <1>1 DEF ThreadType, Places, Has
    <2> HIDE DEF r
    <2>3. Local(t, r, env', provider', cell')
      BY <1>1, <2>2, <1>4
         DEF EnsureOk, Goto, Has, Local, Global, CellsKept, Placed, Informed, FileLoaded,
             Provided, Holds, Inside, Shares, Building, Loading, InClient, Ensuring,
             Cells
    <2>4. Moves(t, r, env', provider', cell')
      BY <1>1, <2>2, <2>3, <1>4
         DEF EnsureOk, Goto, Moves, Local, Placed, Informed, FileLoaded, Provided, Holds,
             Inside, Grows, CellType, CellSteps, Global, CellsKept, Environment, Envs,
             Building, Loading, InClient, Ensuring, Cells
    <2>5. QED
      BY <2>1, <2>2, <2>4 DEF Step
  <1>5. QED
    BY <1>2, <1>3, <1>4

----------------------------------------------------------------------------

(* And on to the next place of it.                                         *)
LEMMA EnsureOnStep ==
  ASSUME Inv, NEW t \in Threads,
         thread[t].pc \in {"check"} \cup Ensuring
           \/ (thread[t].kind = "ensure" /\ thread[t].pc = "start"),
         UNCHANGED <<env, provider, cell>>, NEW place \in Ensuring, Goto(t, place),
         place = "aws-lc" \/ provider # "none" \/ "installFails" \in Traits
  PROVE  Step(t)
  <1> DEFINE l == thread[t]
  <1>1. /\ l \in ThreadType /\ Local(t, l, env, provider, cell)
        /\ Global(env, provider, cell)
        /\ env \in Envs /\ provider \in Providers /\ cell \in CellStates
        /\ Len(DotEnv) \in Nat /\ 0 \in 0 .. Len(DotEnv) /\ l.line \in 0 .. Len(DotEnv)
        /\ \A n \in 1 .. Len(DotEnv) : DotEnv[n] \in Variables
        /\ \A n \in 1 .. l.line : n \in 1 .. Len(DotEnv)
    BY Facts DEF ThreadType
  <1> DEFINE r == [l EXCEPT !.pc = place]
  <1>2. thread' = [thread EXCEPT ![t] = r]
    BY DEF Goto
  <1>3. /\ r \in ThreadType
        /\ Has(r, l.kind, place, l.line, l.then, l.read, l.client, l.result)
    BY <1>1 DEF ThreadType, Places, Has, Ensuring
  <1> HIDE DEF r
  <1>4. Local(t, r, env', provider', cell')
    BY <1>1, <1>3
       DEF Has, Local, Global, CellsKept, Placed, Informed, FileLoaded, Provided, Holds,
           Inside, Shares, Building, Loading, InClient, Ensuring, Cells
  <1>5. Moves(t, r, env', provider', cell')
    BY <1>1, <1>3, <1>4 DEF Moves, Grows, CellSteps, Global, CellsKept, FileLoaded
  <1>6. QED
    BY <1>2, <1>3, <1>5 DEF Step

----------------------------------------------------------------------------

(* With an error: only from the last place.                                *)
LEMMA EnsureFailsStep ==
  ASSUME Inv, NEW t \in Threads,
         thread[t].pc = "last", UNCHANGED <<env, provider>>, EnsureFails(t)
  PROVE  Step(t)
  <1> DEFINE l == thread[t]
  <1>1. /\ l \in ThreadType /\ Local(t, l, env, provider, cell)
        /\ Global(env, provider, cell)
        /\ env \in Envs /\ provider \in Providers /\ cell \in CellStates
        /\ Len(DotEnv) \in Nat /\ 0 \in 0 .. Len(DotEnv) /\ l.line \in 0 .. Len(DotEnv)
        /\ \A n \in 1 .. Len(DotEnv) : DotEnv[n] \in Variables
        /\ \A n \in 1 .. l.line : n \in 1 .. Len(DotEnv)
    BY Facts DEF ThreadType
  <1>2. CASE l.kind = "s3"
    <2> DEFINE r == [l EXCEPT !.pc = "tls"]
    <2>1. thread' = [thread EXCEPT ![t] = r]
      BY <1>2 DEF EnsureFails, Goto
    <2>2. /\ r \in ThreadType
          /\ Has(r, l.kind, "tls", l.line, l.then, l.read, l.client, l.result)
      BY <1>1 DEF ThreadType, Places, Has
    <2> HIDE DEF r
    <2>3. Local(t, r, env', provider', cell')
      BY <1>1, <2>2, <1>2
         DEF EnsureFails, Goto, Has, Local, Global, CellsKept, Placed, Informed,
             FileLoaded, Provided, Holds, Inside, Shares, Building, Loading, InClient,
             Ensuring, Cells
    <2>4. Moves(t, r, env', provider', cell')
      BY <1>1, <2>2, <2>3, <1>2
         DEF EnsureFails, Goto, Moves, Local, Placed, Informed, FileLoaded, Provided,
             Holds, Inside, Grows, CellType, CellSteps, Global, CellsKept, Environment,
             Envs, Building, Loading, InClient, Ensuring, Cells
    <2>5. QED
      BY <2>1, <2>2, <2>4 DEF Step
  <1>3. CASE l.kind = "default"
    <2> DEFINE r == [l EXCEPT !.pc = "done", !.result = "error", !.client = t]
    <2>1. thread' = [thread EXCEPT ![t] = r]
      BY <1>3 DEF EnsureFails, Return, Fill
    <2>2. r \in ThreadType /\ Has(r, l.kind, "done", l.line, l.then, l.read, t, "error")
      BY <1>1 DEF ThreadType, Places, Has
    <2> HIDE DEF r
    <2>3. /\ cell' \in CellStates
          /\ cell'["DEFAULT_ONEIO"] = [state |-> "full", by |-> t, ok |-> FALSE]
          /\ \A c \in Cells \ {"DEFAULT_ONEIO"} : cell'[c] = cell[c]
      BY <1>1, <1>3, CellSet DEF EnsureFails, Return, Fill, CellType, Cells
    <2>4. Local(t, r, env', provider', cell')
      BY <1>1, <2>2, <1>3, <2>3
         DEF EnsureFails, Return, Fill, Has, Local, Global, CellsKept, Placed, Informed,
             FileLoaded, Provided, Holds, Inside, Shares, Building, Loading, InClient,
             Ensuring, Cells
    <2>5. Moves(t, r, env', provider', cell')
      BY <1>1, <2>2, <2>4, <1>3, <2>3
         DEF EnsureFails, Return, Fill, Moves, Local, Placed, Informed, FileLoaded,
             Provided, Holds, Inside, Grows, CellType, CellSteps, Global, CellsKept,
             Environment, Envs, Building, Loading, InClient, Ensuring, Cells
    <2>6. QED
      BY <2>1, <2>2, <2>5 DEF Step
  <1>4. CASE l.kind \notin {"default", "s3"}
    <2> DEFINE r == [l EXCEPT !.pc = "done", !.result = "error", !.client = Nobody]
    <2>1. thread' = [thread EXCEPT ![t] = r]
      BY <1>4 DEF EnsureFails, Return
    <2>2. /\ r \in ThreadType
          /\ Has(r, l.kind, "done", l.line, l.then, l.read, Nobody, "error")
      BY <1>1 DEF ThreadType, Places, Has
    <2> HIDE DEF r
    <2>3. Local(t, r, env', provider', cell')
      BY <1>1, <2>2, <1>4
         DEF EnsureFails, Return, Has, Local, Global, CellsKept, Placed, Informed,
             FileLoaded, Provided, Holds, Inside, Shares, Building, Loading, InClient,
             Ensuring, Cells
    <2>4. Moves(t, r, env', provider', cell')
      BY <1>1, <2>2, <2>3, <1>4
         DEF EnsureFails, Return, Moves, Local, Placed, Informed, FileLoaded, Provided,
             Holds, Inside, Grows, CellType, CellSteps, Global, CellsKept, Environment,
             Envs, Building, Loading, InClient, Ensuring, Cells
    <2>5. QED
      BY <2>1, <2>2, <2>4 DEF Step
  <1>5. QED
    BY <1>2, <1>3, <1>4

(* Of its steps some go on to the next place, others leave it.             *)
LEMMA EnsureSteps ==
  ASSUME Inv, NEW t \in Threads,
         Check(t) \/ TryAwsLc(t) \/ CheckAgain(t) \/ TryRing(t) \/ LastCheck(t)
  PROVE  Step(t)
  <1>1. provider \in Providers /\ {"again", "ring", "last", "aws-lc"} \subseteq Ensuring
    BY Facts DEF Ensuring
  <1>2. CASE Check(t)
    BY <1>1, <1>2, EnsureOkStep, EnsureOnStep DEF Check, At
  <1>3. CASE TryAwsLc(t)
    BY <1>1, <1>3, EnsureOkStep, EnsureOnStep
       DEF TryAwsLc, Installs, Refuses, Ensuring, Providers
  <1>4. CASE CheckAgain(t)
    <2>1. provider # "none" \/ "installFails" \in Traits
      BY <1>4, Facts DEF CheckAgain, Local, Provided
    <2>2. QED
      BY <1>1, <1>4, <2>1, EnsureOkStep, EnsureOnStep DEF CheckAgain, Ensuring
  <1>5. CASE TryRing(t)
    BY <1>1, <1>5, EnsureOkStep, EnsureOnStep
       DEF TryRing, Installs, Refuses, Ensuring, Providers
  <1>6. CASE LastCheck(t)
    BY <1>1, <1>6, EnsureOkStep, EnsureFailsStep DEF LastCheck, Ensuring
  <1>7. QED
    BY <1>2, <1>3, <1>4, <1>5, <1>6

----------------------------------------------------------------------------

(* The default client, and clients of a builder of the caller's.           *)
LEMMA ClientSteps ==
  ASSUME Inv, NEW t \in Threads,
         AppInstalls(t) \/ DefaultOneIo(t) \/ NewBuilder(t) \/ BuilderReads(t)
           \/ BuildClient(t)
  PROVE  Step(t)
  <1> DEFINE l == thread[t]
  <1>1. /\ l \in ThreadType /\ Local(t, l, env, provider, cell)
        /\ Global(env, provider, cell)
        /\ env \in Envs /\ provider \in Providers /\ cell \in CellStates
        /\ Len(DotEnv) \in Nat /\ 0 \in 0 .. Len(DotEnv) /\ l.line \in 0 .. Len(DotEnv)
        /\ \A n \in 1 .. Len(DotEnv) : DotEnv[n] \in Variables
        /\ \A n \in 1 .. l.line : n \in 1 .. Len(DotEnv)
    BY Facts DEF ThreadType
  <1>2. CASE AppInstalls(t) /\ provider = "none"
    <2> DEFINE r == [l EXCEPT !.pc = "done", !.result = "ok", !.client = Nobody]
    <2>1. thread' = [thread EXCEPT ![t] = r]
      BY <1>2 DEF AppInstalls, At, Installs, Return
    <2>2. /\ r \in ThreadType
          /\ Has(r, l.kind, "done", l.line, l.then, l.read, Nobody, "ok")
      BY <1>1 DEF ThreadType, Places, Has
    <2> HIDE DEF r
    <2>3. Local(t, r, env', provider', cell')
      BY <1>1, <2>2, <1>2
         DEF AppInstalls, At, Installs, Return, Providers, Has, Local, Global, CellsKept,
             Placed, Informed, FileLoaded, Provided, Holds, Inside, Shares, Building,
             Loading, InClient, Ensuring, Cells
    <2>4. Moves(t, r, env', provider', cell')
      BY <1>1, <2>2, <2>3, <1>2
         DEF AppInstalls, At, Installs, Return, Providers, Moves, Local, Placed,
             Informed, FileLoaded, Provided, Holds, Inside, Grows, CellType, CellSteps,
             Global, CellsKept, Environment, Envs, Building, Loading, InClient, Ensuring,
             Cells
    <2>5. QED
      BY <2>1, <2>2, <2>4 DEF Step
  <1>3. CASE AppInstalls(t) /\ provider # "none"
    <2> DEFINE r == [l EXCEPT !.pc = "done", !.result = "error", !.client = Nobody]
    <2>1. thread' = [thread EXCEPT ![t] = r]
      BY <1>3 DEF AppInstalls, At, Installs, Return
    <2>2. /\ r \in ThreadType
          /\ Has(r, l.kind, "done", l.line, l.then, l.read, Nobody, "error")
      BY <1>1 DEF ThreadType, Places, Has
    <2> HIDE DEF r
    <2>3. Local(t, r, env', provider', cell')
      BY <1>1, <2>2, <1>3
         DEF AppInstalls, At, Installs, Return, Has, Local, Global, CellsKept, Placed,
             Informed, FileLoaded, Provided, Holds, Inside, Shares, Building, Loading,
             InClient, Ensuring, Cells
    <2>4. Moves(t, r, env', provider', cell')
      BY <1>1, <2>2, <2>3, <1>3
         DEF AppInstalls, At, Installs, Return, Moves, Local, Placed, Informed,
             FileLoaded, Provided, Holds, Inside, Grows, CellType, CellSteps, Global,
             CellsKept, Environment, Envs, Building, Loading, InClient, Ensuring, Cells
    <2>5. QED
      BY <2>1, <2>2, <2>4 DEF Step
  <1>4. CASE DefaultOneIo(t) /\ ~Full("DEFAULT_ONEIO")
    <2> DEFINE r == [l EXCEPT !.pc = "load", !.line = 0, !.then = "tls"]
    <2>1. thread' = [thread EXCEPT ![t] = r]
      BY <1>4 DEF DefaultOneIo, Claim, Load, Full, At
    <2>2. /\ r \in ThreadType
          /\ Has(r, l.kind, "load", 0, "tls", l.read, l.client, l.result)
      BY <1>1 DEF ThreadType, Places, Has
    <2> HIDE DEF r
    <2>3. /\ cell' \in CellStates
          /\ cell'["DEFAULT_ONEIO"] = [state |-> "busy", by |-> t, ok |-> FALSE]
          /\ \A c \in Cells \ {"DEFAULT_ONEIO"} : cell'[c] = cell[c]
      BY <1>1, <1>4, CellSet DEF DefaultOneIo, Claim, Load, Full, At, CellType, Cells
    <2>4. Local(t, r, env', provider', cell')
      BY <1>1, <2>2, <1>4, <2>3
         DEF DefaultOneIo, Claim, Load, Full, At, Has, Local, Global, CellsKept, Placed,
             Informed, FileLoaded, Provided, Holds, Inside, Shares, Building, Loading,
             InClient, Ensuring, Cells
    <2>5. Moves(t, r, env', provider', cell')
      BY <1>1, <2>2, <2>4, <1>4, <2>3, SMTT(20)
         DEF DefaultOneIo, Claim, Load, Full, At, Moves, Local, Placed, Informed,
             FileLoaded, Provided, Holds, Inside, Grows, CellType, CellSteps, Global,
             CellsKept, Environment, Envs, Building, Loading, InClient, Ensuring, Cells
    <2>6. QED
      BY <2>1, <2>2, <2>5 DEF Step
  <1>5. CASE DefaultOneIo(t) /\ Full("DEFAULT_ONEIO")
    <2> DEFINE by == cell["DEFAULT_ONEIO"].by
               result == IF cell["DEFAULT_ONEIO"].ok THEN "ok" ELSE "error"
    <2> DEFINE r == [l EXCEPT !.pc = "done",
                              !.result = result, !.client = by]
    <2>1. thread' = [thread EXCEPT ![t] = r]
      BY <1>5 DEF DefaultOneIo, Claim, Return, Full, At
    <2>2. /\ r \in ThreadType
          /\ Has(r, l.kind, "done", l.line, l.then,
                 l.read, by, result)
      BY <1>1, <1>5, ZenonT(30)
         DEF ThreadType, Places, Has, DefaultOneIo, Claim, Full, CellStates, CellType, Cells
    <2> HIDE DEF r
    <2>3. Local(t, r, env', provider', cell')
      BY <1>1, <2>2, <1>5
         DEF DefaultOneIo, Claim, Return, Full, At, Has, Local, Global, CellsKept,
             Placed, Informed, FileLoaded, Provided, Holds, Inside, Shares, Building,
             Loading, InClient, Ensuring, Cells
    <2>4. Moves(t, r, env', provider', cell')
      BY <1>1, <2>2, <2>3, <1>5
         DEF DefaultOneIo, Claim, Return, Full, At, Moves, Local, Placed, Informed,
             FileLoaded, Provided, Holds, Inside, Grows, CellType, CellSteps, Global,
             CellsKept, Environment, Envs, Building, Loading, InClient, Ensuring, Cells
    <2>5. QED
      BY <2>1, <2>2, <2>4 DEF Step
  <1>6. CASE NewBuilder(t)
    <2> DEFINE r == [l EXCEPT !.pc = "load", !.line = 0, !.then = "tls"]
    <2>1. thread' = [thread EXCEPT ![t] = r]
      BY <1>6 DEF NewBuilder, Load, At
    <2>2. /\ r \in ThreadType
          /\ Has(r, l.kind, "load", 0, "tls", l.read, l.client, l.result)
      BY <1>1 DEF ThreadType, Places, Has
    <2> HIDE DEF r
    <2>3. Local(t, r, env', provider', cell')
      BY <1>1, <2>2, <1>6
         DEF NewBuilder, Load, At, Has, Local, Global, CellsKept, Placed, Informed,
             FileLoaded, Provided, Holds, Inside, Shares, Building, Loading, InClient,
             Ensuring, Cells
    <2>4. Moves(t, r, env', provider', cell')
      BY <1>1, <2>2, <2>3, <1>6
         DEF NewBuilder, Load, At, Moves, Local, Placed, Informed, FileLoaded, Provided,
             Holds, Inside, Grows, CellType, CellSteps, Global, CellsKept, Environment,
             Envs, Building, Loading, InClient, Ensuring, Cells
    <2>5. QED
      BY <2>1, <2>2, <2>4 DEF Step
  <1>7. CASE BuilderReads(t)
    <2>0. env["tls"] = Setting("tls")
      BY <1>1, <1>7, SettingFound
         DEF BuilderReads, At, Local, Global, Placed, Informed, Loading, Building,
             InClient, Ensuring, Variables
    <2> DEFINE r == [l EXCEPT !.pc = "load", !.line = 0, !.then = "check",
                              !.read = [l.read EXCEPT !["tls"] = env["tls"]]]
    <2>1. thread' = [thread EXCEPT ![t] = r]
      BY <1>7, ZenonT(30) DEF BuilderReads, At
    <2>2. /\ r \in ThreadType
          /\ Has(r, l.kind, "load", 0, "check",
                 [l.read EXCEPT !["tls"] = env["tls"]], l.client, l.result)
      BY <1>1, <2>0, <1>7 DEF ThreadType, Places, Has, BuilderReads, Variables, Envs
    <2> HIDE DEF r
    <2>3. Local(t, r, env', provider', cell')
      BY <1>1, <2>2, <1>7, <2>0
         DEF BuilderReads, At, Variables, Has, Local, Global, CellsKept, Placed,
             Informed, FileLoaded, Provided, Holds, Inside, Shares, Building, Loading,
             InClient, Ensuring, Cells
    <2>4. Moves(t, r, env', provider', cell')
      BY <1>1, <2>2, <2>3, <1>7, <2>0
         DEF BuilderReads, At, Variables, Moves, Local, Placed, Informed, FileLoaded,
             Provided, Holds, Inside, Grows, CellType, CellSteps, Global, CellsKept,
             Environment, Envs, Building, Loading, InClient, Ensuring, Cells
    <2>5. QED
      BY <2>1, <2>2, <2>4 DEF Step
  <1>8. CASE BuildClient(t)
    <2>1. PICK good \in BOOLEAN :
            /\ Return(t, IF good THEN "ok" ELSE "error", t)
            /\ IF l.kind = "default" THEN Fill(t, "DEFAULT_ONEIO", good) ELSE UNCHANGED cell
      BY <1>8 DEF BuildClient
    <2>2. At(t, Building, "build") /\ UNCHANGED <<env, provider>>
      BY <1>8 DEF BuildClient, Building
    <2>3. CASE l.kind = "default"
      <3> DEFINE r == [l EXCEPT !.pc = "done",
                                !.result = (IF good THEN "ok" ELSE "error"), !.client = t]
      <3>1. thread' = [thread EXCEPT ![t] = r]
        BY <2>1, <2>3 DEF Return, Fill, At
      <3>2. /\ r \in ThreadType
            /\ Has(r, l.kind, "done", l.line, l.then,
                   l.read, t, (IF good THEN "ok" ELSE "error"))
        BY <1>1, <2>1, <2>2 DEF ThreadType, Places, Has
      <3> HIDE DEF r
      <3>3. /\ cell' \in CellStates
            /\ cell'["DEFAULT_ONEIO"] = [state |-> "full", by |-> t, ok |-> good]
            /\ \A c \in Cells \ {"DEFAULT_ONEIO"} : cell'[c] = cell[c]
        BY <1>1, <2>1, <2>3, CellSet DEF Return, Fill, At, CellType, Cells
      <3>4. Local(t, r, env', provider', cell')
        BY <1>1, <3>2, <2>3, <2>1, <2>2, <3>3
           DEF Return, Fill, At, Has, Local, Global, CellsKept, Placed, Informed,
               FileLoaded, Provided, Holds, Inside, Shares, Building, Loading, InClient,
               Ensuring, Cells
      <3>5. Moves(t, r, env', provider', cell')
        BY <1>1, <3>2, <3>4, <2>3, <2>1, <2>2, <3>3
           DEF Return, Fill, At, Moves, Local, Placed, Informed, FileLoaded, Provided,
               Holds, Inside, Grows, CellType, CellSteps, Global, CellsKept, Environment,
               Envs, Building, Loading, InClient, Ensuring, Cells
      <3>6. QED
        BY <3>1, <3>2, <3>5 DEF Step
    <2>4. CASE l.kind # "default"
      <3> DEFINE r == [l EXCEPT !.pc = "done",
                                !.result = (IF good THEN "ok" ELSE "error"), !.client = t]
      <3>1. thread' = [thread EXCEPT ![t] = r]
        BY <2>1, <2>4 DEF Return, At
      <3>2. /\ r \in ThreadType
            /\ Has(r, l.kind, "done", l.line, l.then,
                   l.read, t, (IF good THEN "ok" ELSE "error"))
        BY <1>1, <2>1, <2>2, ZenonT(30) DEF ThreadType, Places, Has
      <3> HIDE DEF r
      <3>3. Local(t, r, env', provider', cell')
        BY <1>1, <3>2, <2>4, <2>1, <2>2
           DEF Return, At, Has, Local, Global, CellsKept, Placed, Informed, FileLoaded,
               Provided, Holds, Inside, Shares, Building, Loading, InClient, Ensuring,
               Cells
      <3>4. Moves(t, r, env', provider', cell')
        BY <1>1, <3>2, <3>3, <2>4, <2>1, <2>2
           DEF Return, At, Moves, Local, Placed, Informed, FileLoaded, Provided, Holds,
               Inside, Grows, CellType, CellSteps, Global, CellsKept, Environment, Envs,
               Building, Loading, InClient, Ensuring, Cells
      <3>5. QED
        BY <3>1, <3>2, <3>4 DEF Step
    <2>5. QED
      BY <2>3, <2>4
  <1>9. QED
    BY <1>2, <1>3, <1>4, <1>5, <1>6, <1>7, <1>8

----------------------------------------------------------------------------

(* Uploads to S3.                                                          *)
LEMMA S3Steps ==
  ASSUME Inv, NEW t \in Threads,
         ReadConfig(t) \/ RetryConfig(t) \/ GetS3Client(t) \/ S3ClientReads(t)
           \/ BuildS3Client(t)
  PROVE  Step(t)
  <1> DEFINE l == thread[t]
  <1>1. /\ l \in ThreadType /\ Local(t, l, env, provider, cell)
        /\ Global(env, provider, cell)
        /\ env \in Envs /\ provider \in Providers /\ cell \in CellStates
        /\ Len(DotEnv) \in Nat /\ 0 \in 0 .. Len(DotEnv) /\ l.line \in 0 .. Len(DotEnv)
        /\ \A n \in 1 .. Len(DotEnv) : DotEnv[n] \in Variables
        /\ \A n \in 1 .. l.line : n \in 1 .. Len(DotEnv)
    BY Facts DEF ThreadType
  <1>2. CASE ReadConfig(t) /\ env["aws"] = "unset"
    <2>0. env["aws"] = Setting("aws")
      BY <1>1, <1>2, SettingFound
         DEF ReadConfig, At, Local, Global, Placed, Informed, Loading, Building,
             InClient, Ensuring, Variables
    <2> DEFINE r == [l EXCEPT !.pc = "done", !.result = "error",
                              !.read = [l.read EXCEPT !["aws"] = env["aws"]]]
    <2>1. thread' = [thread EXCEPT ![t] = r]
      <3>1. PICK place \in {"done"} :
              thread' = [thread EXCEPT ![t].read["aws"] = env["aws"], ![t].pc = place,
                           ![t].result = IF place = "done" THEN "error" ELSE "none"]
        BY <1>2 DEF ReadConfig
      <3>2. QED
        BY <3>1
    <2>2. /\ r \in ThreadType
          /\ Has(r, l.kind, "done", l.line, l.then,
                 [l.read EXCEPT !["aws"] = env["aws"]], l.client, "error")
      BY <1>1, <2>0, <1>2 DEF ThreadType, Places, Has, ReadConfig, Variables, Envs
    <2> HIDE DEF r
    <2>3. Local(t, r, env', provider', cell')
      BY <1>1, <2>2, <1>2, <2>0
         DEF ReadConfig, At, Variables, Has, Local, Global, CellsKept, Placed, Informed,
             FileLoaded, Provided, Holds, Inside, Shares, Building, Loading, InClient,
             Ensuring, Cells
    <2>4. Moves(t, r, env', provider', cell')
      BY <1>1, <2>2, <2>3, <1>2, <2>0
         DEF ReadConfig, At, Variables, Moves, Local, Placed, Informed, FileLoaded,
             Provided, Holds, Inside, Grows, CellType, CellSteps, Global, CellsKept,
             Environment, Envs, Building, Loading, InClient, Ensuring, Cells
    <2>5. QED
      BY <2>1, <2>2, <2>4 DEF Step
  <1>3. CASE ReadConfig(t) /\ env["aws"] # "unset"
    <2>0. env["aws"] = Setting("aws")
      BY <1>1, <1>3, SettingFound
         DEF ReadConfig, At, Local, Global, Placed, Informed, Loading, Building,
             InClient, Ensuring, Variables
    <2>a. PICK place \in {"retry", "client"} :
            thread' = [thread EXCEPT ![t].read["aws"] = env["aws"], ![t].pc = place,
                         ![t].result = IF place = "done" THEN "error" ELSE "none"]
      BY <1>3 DEF ReadConfig
    <2> DEFINE r == [l EXCEPT !.pc = place, !.result = "none",
                              !.read = [l.read EXCEPT !["aws"] = env["aws"]]]
    <2>1. thread' = [thread EXCEPT ![t] = r]
      BY <2>a
    <2>2. /\ r \in ThreadType
          /\ Has(r, l.kind, place, l.line, l.then,
                 [l.read EXCEPT !["aws"] = env["aws"]], l.client, "none")
      BY <1>1, <2>0, <1>3 DEF ThreadType, Places, Has, ReadConfig, Variables, Envs
    <2> HIDE DEF r
    <2>3. Local(t, r, env', provider', cell')
      <3>1. l.kind = "s3" /\ l.pc = "config" /\ UNCHANGED <<env, provider, cell>>
        BY <1>3 DEF ReadConfig, At
      <3>2. Placed(r) /\ Provided(r, provider')
        BY <2>2, <3>1 DEF Has, Placed, Provided, Building
      <3>3. Informed(r, env')
        BY <1>1, <2>0, <2>2, <3>1
           DEF Has, Local, Informed, FileLoaded, Loading, ThreadType, Variables
      <3>4. Holds(t, r, cell') /\ Shares(r, cell')
        BY <1>1, <2>2, <3>1
           DEF Has, Local, Holds, Inside, Shares, InClient, Ensuring, Cells
      <3>5. QED
        BY <3>2, <3>3, <3>4 DEF Local
    <2>4. Moves(t, r, env', provider', cell')
      BY <1>1, <2>2, <2>3, <1>3, <2>0
         DEF ReadConfig, At, Variables, Moves, Local, Placed, Informed, FileLoaded,
             Provided, Holds, Inside, Grows, CellType, CellSteps, Global, CellsKept,
             Environment, Envs, Building, Loading, InClient, Ensuring, Cells
    <2>5. QED
      BY <2>1, <2>2, <2>4 DEF Step
  <1>4. CASE GetS3Client(t) /\ ~Full("S3_HTTP_CLIENT")
    <2> DEFINE r == [l EXCEPT !.pc = "check"]
    <2>1. thread' = [thread EXCEPT ![t] = r]
      BY <1>4 DEF GetS3Client, Claim, Goto, Full, At
    <2>2. /\ r \in ThreadType
          /\ Has(r, l.kind, "check", l.line, l.then, l.read, l.client, l.result)
      BY <1>1 DEF ThreadType, Places, Has
    <2> HIDE DEF r
    <2>3. /\ cell' \in CellStates
          /\ cell'["S3_HTTP_CLIENT"] = [state |-> "busy", by |-> t, ok |-> FALSE]
          /\ \A c \in Cells \ {"S3_HTTP_CLIENT"} : cell'[c] = cell[c]
      BY <1>1, <1>4, CellSet DEF GetS3Client, Claim, Goto, Full, At, CellType, Cells
    <2>4. Local(t, r, env', provider', cell')
      BY <1>1, <2>2, <1>4, <2>3
         DEF GetS3Client, Claim, Goto, Full, At, Has, Local, Global, CellsKept, Placed,
             Informed, FileLoaded, Provided, Holds, Inside, Shares, Building, Loading,
             InClient, Ensuring, Cells
    <2>5. Moves(t, r, env', provider', cell')
      BY <1>1, <2>2, <2>4, <1>4, <2>3
         DEF GetS3Client, Claim, Goto, Full, At, Moves, Local, Placed, Informed,
             FileLoaded, Provided, Holds, Inside, Grows, CellType, CellSteps, Global,
             CellsKept, Environment, Envs, Building, Loading, InClient, Ensuring, Cells
    <2>6. QED
      BY <2>1, <2>2, <2>5 DEF Step
  <1>5. CASE GetS3Client(t) /\ Full("S3_HTTP_CLIENT")
    <2> DEFINE r == [l EXCEPT !.pc = "done", !.result = "ok",
                              !.client = cell["S3_HTTP_CLIENT"].by]
    <2>1. thread' = [thread EXCEPT ![t] = r]
      BY <1>5 DEF GetS3Client, Claim, Return, Full, At
    <2>2. /\ r \in ThreadType
          /\ Has(r, l.kind, "done", l.line, l.then,
                 l.read, cell["S3_HTTP_CLIENT"].by, "ok")
      BY <1>1, <1>5 DEF ThreadType, Places, Has, CellStates, CellType, Cells
    <2> HIDE DEF r
    <2>3. Local(t, r, env', provider', cell')
      BY <1>1, <2>2, <1>5
         DEF GetS3Client, Claim, Return, Full, At, Has, Local, Global, CellsKept, Placed,
             Informed, FileLoaded, Provided, Holds, Inside, Shares, Building, Loading,
             InClient, Ensuring, Cells
    <2>4. Moves(t, r, env', provider', cell')
      BY <1>1, <2>2, <2>3, <1>5
         DEF GetS3Client, Claim, Return, Full, At, Moves, Local, Placed, Informed, FileLoaded,
             Provided, Holds, Inside, Grows, CellType, CellSteps, Global, CellsKept,
             Environment, Envs, Building, Loading, InClient, Ensuring, Cells
    <2>5. QED
      BY <2>1, <2>2, <2>4 DEF Step
  <1>6. CASE S3ClientReads(t)
    <2>0. env["tls"] = Setting("tls")
      BY <1>1, <1>6, SettingFound
         DEF S3ClientReads, At, Local, Global, Placed, Informed, Loading, Building,
             InClient, Ensuring, Variables
    <2> DEFINE r == [l EXCEPT !.pc = "build",
                              !.read = [l.read EXCEPT !["tls"] = env["tls"]]]
    <2>1. thread' = [thread EXCEPT ![t] = r]
      BY <1>6 DEF S3ClientReads, At
    <2>2. /\ r \in ThreadType
          /\ Has(r, l.kind, "build", l.line, l.then,
                 [l.read EXCEPT !["tls"] = env["tls"]], l.client, l.result)
      BY <1>1, <2>0, <1>6 DEF ThreadType, Places, Has, S3ClientReads, Variables, Envs
    <2> HIDE DEF r
    <2>3. Local(t, r, env', provider', cell')
      BY <1>1, <2>2, <1>6, <2>0
         DEF S3ClientReads, At, Variables, Has, Local, Global, CellsKept, Placed,
             Informed, FileLoaded, Provided, Holds, Inside, Shares, Building, Loading,
             InClient, Ensuring, Cells
    <2>4. Moves(t, r, env', provider', cell')
      BY <1>1, <2>2, <2>3, <1>6, <2>0
         DEF S3ClientReads, At, Variables, Moves, Local, Placed, Informed, FileLoaded,
             Provided, Holds, Inside, Grows, CellType, CellSteps, Global, CellsKept,
             Environment, Envs, Building, Loading, InClient, Ensuring, Cells
    <2>5. QED
      BY <2>1, <2>2, <2>4 DEF Step
  <1>7. CASE At(t, {"s3"}, "build") /\ UNCHANGED <<env, provider>>
            /\ Fill(t, "S3_HTTP_CLIENT", TRUE)
            /\ Return(t, "ok", t)
    <2> DEFINE r == [l EXCEPT !.pc = "done", !.result = "ok", !.client = t]
    <2>1. thread' = [thread EXCEPT ![t] = r]
      BY <1>7 DEF Fill, Return, At
    <2>2. /\ r \in ThreadType
          /\ Has(r, l.kind, "done", l.line, l.then, l.read, t, "ok")
      BY <1>1 DEF ThreadType, Places, Has
    <2> HIDE DEF r
    <2>3. /\ cell' \in CellStates
          /\ cell'["S3_HTTP_CLIENT"] = [state |-> "full", by |-> t, ok |-> TRUE]
          /\ \A c \in Cells \ {"S3_HTTP_CLIENT"} : cell'[c] = cell[c]
      BY <1>1, <1>7, CellSet DEF Fill, Return, At, CellType, Cells
    <2>4. Local(t, r, env', provider', cell')
      BY <1>1, <2>2, <1>7, <2>3
         DEF Fill, Return, At, Has, Local, Global, CellsKept, Placed, Informed, FileLoaded,
             Provided, Holds, Inside, Shares, Building, Loading, InClient, Ensuring,
             Cells
    <2>5. Moves(t, r, env', provider', cell')
      BY <1>1, <2>2, <2>4, <1>7, <2>3
         DEF Fill, Return, At, Moves, Local, Placed, Informed, FileLoaded, Provided, Holds,
             Inside, Grows, CellType, CellSteps, Global, CellsKept, Environment, Envs,
             Building, Loading, InClient, Ensuring, Cells
    <2>6. QED
      BY <2>1, <2>2, <2>5 DEF Step
  <1>8. CASE At(t, {"s3"}, "build") /\ UNCHANGED <<env, provider>>
            /\ Vacate("S3_HTTP_CLIENT")
            /\ Return(t, "panic", Nobody)
    <2> DEFINE r == [l EXCEPT !.pc = "done", !.result = "panic", !.client = Nobody]
    <2>1. thread' = [thread EXCEPT ![t] = r]
      BY <1>8 DEF Vacate, Return, At, Empty
    <2>2. /\ r \in ThreadType
          /\ Has(r, l.kind, "done", l.line, l.then, l.read, Nobody, "panic")
      BY <1>1 DEF ThreadType, Places, Has
    <2> HIDE DEF r
    <2>3. /\ cell' \in CellStates /\ cell'["S3_HTTP_CLIENT"] = Empty
          /\ \A c \in Cells \ {"S3_HTTP_CLIENT"} : cell'[c] = cell[c]
      BY <1>1, <1>8, CellSet DEF Vacate, Return, At, Empty, CellType, Cells
    <2>4. Local(t, r, env', provider', cell')
      BY <1>1, <2>2, <1>8, <2>3
         DEF Vacate, Return, At, Empty, Has, Local, Global, CellsKept, Placed, Informed,
             FileLoaded, Provided, Holds, Inside, Shares, Building, Loading, InClient,
             Ensuring, Cells
    <2>5. Moves(t, r, env', provider', cell')
      BY <1>1, <2>2, <2>4, <1>8, <2>3
         DEF Vacate, Return, At, Empty, Moves, Local, Placed, Informed, FileLoaded,
             Provided, Holds, Inside, Grows, CellType, CellSteps, Global, CellsKept,
             Environment, Envs, Building, Loading, InClient, Ensuring, Cells
    <2>6. QED
      BY <2>1, <2>2, <2>5 DEF Step
  <1>9. CASE RetryConfig(t) /\ Full("S3_RETRY_CONFIG")
    <2> DEFINE r == [l EXCEPT !.pc = "client",
                              !.read = [l.read EXCEPT !["retries"] = l.read["retries"]]]
    <2>1. thread' = [thread EXCEPT ![t] = r]
      <3>1. thread' = [thread EXCEPT ![t].pc = "client",
                                     ![t].read["retries"] = @]
        BY <1>9 DEF RetryConfig
      <3>2. QED
        BY <3>1
    <2>2. /\ r \in ThreadType
          /\ Has(r, l.kind, "client", l.line, l.then,
                 [l.read EXCEPT !["retries"] = l.read["retries"]], l.client, l.result)
      BY <1>1, <1>9 DEF ThreadType, Places, Has, Variables
    <2> HIDE DEF r
    <2>3. Local(t, r, env', provider', cell')
      BY <1>1, <2>2, <1>9
         DEF RetryConfig, At, Variables, Has, Local, Global, CellsKept, Placed, Informed,
             FileLoaded, Provided, Holds, Inside, Shares, Building, Loading, InClient,
             Ensuring, Cells
    <2>4. Moves(t, r, env', provider', cell')
      BY <1>1, <2>2, <2>3, <1>9
         DEF RetryConfig, At, Variables, Moves, Local, Placed, Informed, FileLoaded,
             Provided, Holds, Inside, Grows, CellType, CellSteps, Global, CellsKept,
             Environment, Envs, Building, Loading, InClient, Ensuring, Cells
    <2>5. QED
      BY <2>1, <2>2, <2>4 DEF Step
  <1>10. CASE RetryConfig(t) /\ ~Full("S3_RETRY_CONFIG")
    <2>0. env["retries"] = Setting("retries")
      BY <1>1, <1>10, SettingFound
         DEF RetryConfig, At, Local, Global, Placed, Informed, Loading, Building,
             InClient, Ensuring, Variables
    <2> DEFINE r == [l EXCEPT !.pc = "client",
                              !.read = [l.read EXCEPT !["retries"] = env["retries"]]]
    <2>1. thread' = [thread EXCEPT ![t] = r]
      <3>1. thread' = [thread EXCEPT ![t].pc = "client",
                                     ![t].read["retries"] = env["retries"]]
        BY <1>10 DEF RetryConfig
      <3>2. QED
        BY <3>1
    <2>2. /\ r \in ThreadType
          /\ Has(r, l.kind, "client", l.line, l.then,
                 [l.read EXCEPT !["retries"] = env["retries"]], l.client, l.result)
      BY <1>1, <2>0, <1>10, ZenonT(30) DEF ThreadType, Places, Has, RetryConfig, Variables, Envs
    <2> HIDE DEF r
    <2>3. /\ cell' \in CellStates
          /\ cell'["S3_RETRY_CONFIG"] = [state |-> "full", by |-> t, ok |-> TRUE]
          /\ \A c \in Cells \ {"S3_RETRY_CONFIG"} : cell'[c] = cell[c]
      BY <1>1, <1>10, CellSet DEF RetryConfig, Fill, Full, At, CellType, Cells
    <2>4. Local(t, r, env', provider', cell')
      BY <1>1, <2>2, <1>10, <2>0, <2>3
         DEF RetryConfig, Fill, Full, At, Variables, CellStates, Has, Local, Global,
             CellsKept, Placed, Informed, FileLoaded, Provided, Holds, Inside, Shares,
             Building, Loading, InClient, Ensuring, Cells
    <2>5. Moves(t, r, env', provider', cell')
      BY <1>1, <2>2, <2>4, <1>10, <2>0, <2>3, SMTT(20)
         DEF RetryConfig, Fill, Full, At, Variables, CellStates, Moves, Local, Placed,
             Informed, FileLoaded, Provided, Holds, Inside, Grows, CellType, CellSteps,
             Global, CellsKept, Environment, Envs, Building, Loading, InClient, Ensuring,
             Cells
    <2>6. QED
      BY <2>1, <2>2, <2>5 DEF Step
  <1>11. QED
    BY <1>2, <1>3, <1>4, <1>5, <1>6, <1>7, <1>8, <1>9, <1>10 DEF BuildS3Client

----------------------------------------------------------------------------

(* The invariant, from the beginning on.                                   *)
LEMMA Start == Init => Inv
  <1> SUFFICES ASSUME Init PROVE Inv
    OBVIOUS
  <1>1. PICK kind \in [Threads -> Calls] :
          thread = [t \in Threads |->
                      [kind |-> kind[t], pc |-> "start", line |-> 0, then |-> "start",
                       read |-> [v \in Variables |-> "unread"], client |-> Nobody,
                       result |-> "none"]]
    BY DEF Init
  <1>2. Len(DotEnv) \in Nat /\ 0 \in 0 .. Len(DotEnv)
    BY EnvironmentAssumption, LenProperties
  <1>3. cell \in CellStates /\ \A c \in Cells : cell[c].state = "empty"
    BY DEF Init, Empty, CellStates, CellType
  <1>4. Typed
    BY <1>1, <1>2, <1>3 DEF Init, Typed, Envs, Sources, Providers, ThreadType, Places
  <1>5. Global(env, provider, cell)
    BY <1>3 DEF Init, Global, Environment, CellsKept, Setting, Cells
  <1>6. ASSUME NEW t \in Threads
        PROVE  Local(t, thread[t], env, provider, cell)
    <2>1. Has(thread[t], kind[t], "start", 0, "start", [v \in Variables |-> "unread"],
              Nobody, "none")
      BY <1>1 DEF Has
    <2>2. QED
      BY <1>3, <2>1 DEF Has, Local, Placed, Informed, Provided, Holds, Inside, Shares,
                        Building, Loading, InClient, Ensuring
  <1>7. QED
    BY <1>4, <1>5, <1>6 DEF Inv

(* Every step of a thread is of the kind that keeps it.                    *)
LEMMA EveryStep ==
  ASSUME Inv, NEW t \in Threads, ThreadStep(t) PROVE Step(t)
  BY FileSteps, EnsureSteps, ClientSteps, S3Steps DEF ThreadStep

(* The invariant is inductive.                                             *)
LEMMA InvStep == Inv /\ [Next]_vars => Inv'
  <1> SUFFICES ASSUME Inv, [Next]_vars PROVE Inv'
    OBVIOUS
  <1>1. CASE UNCHANGED vars
    BY <1>1 DEF vars, Inv, Typed
  <1>2. CASE Next
    BY <1>2, EveryStep, StepKeeps DEF Next
  <1>3. QED
    BY <1>1, <1>2

(* What a thread relies on of what it shares with others always holds.     *)
THEOREM Invariance == Spec => []Inv
  BY Start, InvStep, PTL DEF Spec

(* The shared state and the local variables of every thread keep their     *)
(* types, and a cell is busy only while its holder is in its closure.      *)
THEOREM Typing == Spec => []TypeOK
  <1>1. Inv => TypeOK
    <2> SUFFICES ASSUME Inv PROVE TypeOK
      OBVIOUS
    <2>1. ASSUME NEW c \in Cells, cell[c].state = "busy"
          PROVE  thread[cell[c].by].pc \notin {"start", "done"}
      BY <2>1 DEF Inv, Global, CellsKept, Local, Holds, Inside, InClient, Ensuring
    <2>2. QED
      BY <2>1 DEF Inv, Typed, TypeOK, Envs, Providers, CellStates, CellType, ThreadType
  <1>2. QED
    BY Invariance, <1>1, PTL

(* Whoever loads the .env file and whoever reads the environment: what is  *)
(* read is the setting of the process or else the one of the file.         *)
THEOREM SettingsAreSeen == Spec => []SettingsSeen
  <1>1. Inv => SettingsSeen
    BY DEF Inv, Local, Informed, SettingsSeen
  <1>2. QED
    BY Invariance, <1>1, PTL

(* No client comes out of the builder of a process without a provider.     *)
THEOREM ClientsHaveProvider == Spec => []BuiltWithProvider
  <1>1. Inv => BuiltWithProvider
    BY DEF Inv, Local, Provided, BuiltWithProvider, Building
  <1>2. QED
    BY Invariance, <1>1, PTL

(* All users of a cell share what its first holder made.                   *)
THEOREM ClientIsShared == Spec => []OneClient
  <1>1. Inv => OneClient
    BY DEF Inv, Local, Shares, OneClient
  <1>2. QED
    BY Invariance, <1>1, PTL

(* To lose the race for the provider is no error, at none of the places in *)
(* ensure_default_provider, for any number of threads: it fails only where *)
(* there is no provider and rustls has refused one although there was none.*)
THEOREM LosersGoOn == Spec => RaceIsNoError
  <1>1. ASSUME Inv, Next, NEW t \in Threads, InEnsure(t), thread'[t].result = "error"
        PROVE  provider = "none" /\ "installFails" \in Traits
    <2>1. PICK u \in Threads : ThreadStep(u)
      BY <1>1 DEF Next
    <2>2. /\ thread[t] \in ThreadType /\ thread[t].result = "none"
          /\ Placed(thread[t]) /\ Provided(thread[t], provider)
      BY <1>1 DEF Inv, Typed, Local, Placed, InEnsure, At
    <2>3. u = t
      BY <1>1, <2>1, <2>2, EveryStep DEF Step, Inv, Typed
    <2>4. ASSUME EnsureOk(t) \/ \E place : Goto(t, place)
          PROVE  FALSE
      <3>1. thread'[t].result \in {"none", "ok"}
        BY <1>1, <2>2, <2>4 DEF EnsureOk, Return, Goto, ThreadType, Inv, Typed
      <3>2. QED
        BY <1>1, <3>1
    <2>5. Check(t) \/ TryAwsLc(t) \/ CheckAgain(t) \/ TryRing(t) \/ LastCheck(t)
      BY <1>1, <2>1, <2>3
         DEF InEnsure, ThreadStep, LoadLine, Loaded, EnsureDotenv, AppInstalls,
             DefaultOneIo, NewBuilder, BuilderReads, BuildClient, ReadConfig,
             RetryConfig, GetS3Client, S3ClientReads, BuildS3Client, At
    <2>6. LastCheck(t) /\ provider = "none"
      BY <2>4, <2>5 DEF Check, TryAwsLc, CheckAgain, TryRing, LastCheck
    <2>7. QED
      BY <2>2, <2>6 DEF LastCheck, Provided
  <1>2. Inv /\ [Next]_vars =>
          [\A t \in Threads :
             InEnsure(t) /\ thread'[t].result = "error"
               => provider = "none" /\ "installFails" \in Traits]_vars
    BY <1>1
  <1>3. QED
    BY Invariance, <1>2, PTL DEF Spec, RaceIsNoError

----------------------------------------------------------------------------
(* Nobody waits for good.                                                  *)

(* The thread needs the cell to go on.                                     *)
Needs(t, c) ==
  \/ c = "DOTENV_INIT" /\ At(t, {"s3"}, "start")
  \/ c = "DEFAULT_ONEIO" /\ At(t, {"default"}, "start")
  \/ c = "S3_HTTP_CLIENT" /\ At(t, {"s3"}, "client")

(* A thread in whose closure a cell is has not returned and needs no other *)
(* cell: what it waits for while others wait for it is nobody.             *)
HoldersGoOn ==
  \A c \in Cells : cell[c].state = "busy" =>
    /\ cell[c].by \in Threads
    /\ thread[cell[c].by].pc # "done"
    /\ \A d \in Cells : ~Needs(cell[c].by, d)

(* The closures of the cells do not wait for one another, so that threads  *)
(* which wait for a cell wait for one that goes on: they never wait in a   *)
(* circle, nor for a thread that failed or panicked.                       *)
THEOREM NobodyHoldsAndWaits == Spec => []HoldersGoOn
  <1>1. Inv => HoldersGoOn
    <2> SUFFICES ASSUME Inv, NEW c \in Cells, cell[c].state = "busy"
                 PROVE  /\ cell[c].by \in Threads
                        /\ thread[cell[c].by].pc # "done"
                        /\ \A d \in Cells : ~Needs(cell[c].by, d)
      BY DEF HoldersGoOn
    <2>1. cell[c].by \in Threads
      BY DEF Inv, Global, CellsKept
    <2>2. Inside(thread[cell[c].by], c)
      BY <2>1 DEF Inv, Local, Holds
    <2>3. QED
      BY <2>1, <2>2 DEF Inside, Needs, At, InClient, Ensuring
  <1>2. QED
    BY Invariance, <1>1, PTL

(* The steps a call may still take, by where it is: the .env file is loaded*)
(* once or twice, line by line.                                            *)
Rank(l) ==
  CASE l.pc = "start" -> 2 * Len(DotEnv) + 12
    [] l.pc = "load" /\ l.then = "tls" -> 2 * Len(DotEnv) + 11 - l.line
    [] l.pc = "load" /\ l.then = "config" -> Len(DotEnv) + 11 - l.line
    [] l.pc = "load" /\ l.then = "check" -> Len(DotEnv) + 9 - l.line
    [] l.pc = "tls" /\ l.kind # "s3" -> Len(DotEnv) + 10
    [] l.pc = "config" -> 10
    [] l.pc = "retry" -> 9
    [] l.pc = "client" -> 8
    [] l.pc = "check" -> 7
    [] l.pc = "aws-lc" -> 6
    [] l.pc = "again" -> 5
    [] l.pc = "ring" -> 4
    [] l.pc = "last" -> 3
    [] l.pc = "tls" /\ l.kind = "s3" -> 2
    [] l.pc = "build" -> 1
    [] l.pc = "done" -> 0

(* The rank is a natural number.                                           *)
LEMMA RankTyped ==
  ASSUME Inv, NEW t \in Threads
  PROVE  /\ Rank(thread[t]) \in Nat
         /\ thread[t].pc # "done" => Rank(thread[t]) > 0
  <1> DEFINE l == thread[t]
             n == Len(DotEnv)
  <1>1. /\ l \in ThreadType /\ Placed(l) /\ n \in Nat /\ l.line \in 0 .. n
        /\ l.kind \in Calls /\ l.pc \in Places
    BY Facts DEF Local, ThreadType
  <1>2. l.pc = "load" => l.then \in {"tls", "config", "check"}
    BY <1>1 DEF Placed, Building, Calls, Ensuring
  <1> HIDE DEF l
  <1>3. l.pc # "done" =>
          Rank(l) \in {2 * n + 12, 2 * n + 11 - l.line, n + 11 - l.line, n + 9 - l.line, n + 10}
                        \cup 1 .. 10
    BY <1>1, <1>2, SMTT(20) DEF Rank, Places
  <1>4. l.pc = "done" => Rank(l) = 0
    BY DEF Rank
  <1> HIDE DEF n
  <1>5. Rank(l) \in Nat /\ (l.pc # "done" => Rank(l) > 0)
    BY <1>1, <1>3, <1>4
  <1>6. QED
    BY <1>5 DEF l

(* Past ensure_default_provider there is less to do, with Ok or without.   *)
LEMMA EnsuredRank ==
  ASSUME Inv, NEW t \in Threads, EnsureOk(t) \/ EnsureFails(t)
  PROVE  Rank(thread'[t]) \in 0 .. 2
  <1> DEFINE l == thread[t]
             r == thread'[t]
  <1>1. l \in ThreadType /\ t \in DOMAIN thread /\ l.kind \in Calls
    BY Facts DEF ThreadType, Inv, Typed
  <1>2. r.kind = l.kind /\ (r.pc = "done" \/ r.pc = "build" \/ (r.pc = "tls" /\ l.kind = "s3"))
    <2>1. CASE \E result, client : Return(t, result, client)
      BY <1>1, <2>1 DEF Return, ThreadType
    <2>2. CASE Goto(t, "build") \/ (l.kind = "s3" /\ Goto(t, "tls"))
      BY <1>1, <2>2 DEF Goto, ThreadType
    <2>3. QED
      BY <1>1, <2>1, <2>2 DEF EnsureOk, EnsureFails, Calls
  <1> HIDE DEF r
  <1>3. Rank(r) \in {0, 1, 2}
    BY <1>2 DEF Rank
  <1>4. QED
    BY <1>3 DEF r

(* A step of a thread leaves it less to do.                                *)
LEMMA StepRunsOut ==
  ASSUME Inv, NEW t \in Threads, ThreadStep(t)
  PROVE  Rank(thread'[t]) < Rank(thread[t])
  <1> DEFINE l == thread[t]
             r == thread'[t]
             n == Len(DotEnv)
  <1>1. /\ l \in ThreadType /\ Placed(l) /\ n \in Nat /\ l.line \in 0 .. n
        /\ l.kind \in Calls /\ t \in DOMAIN thread
        /\ l.pc = "load" => l.then \in {"tls", "config", "check"}
        /\ l.pc = "load" /\ l.then = "tls" => l.kind # "s3"
    <2>1. /\ l \in ThreadType /\ Placed(l) /\ n \in Nat /\ l.line \in 0 .. n
          /\ l.kind \in Calls /\ t \in DOMAIN thread
      BY Facts DEF Local, ThreadType, Inv, Typed
    <2>2. QED
      BY <2>1 DEF Placed, Building, Calls, Ensuring
  <1>2. /\ Rank(l) \in Nat /\ (l.pc # "done" => Rank(l) > 0)
        /\ l.pc = "start" => Rank(l) = 2 * n + 12
    BY RankTyped DEF Rank
  <1>3. ASSUME NEW place, Goto(t, place)
        PROVE  r.pc = place /\ r.kind = l.kind
    BY <1>1, <1>3 DEF Goto, ThreadType
  <1>4. ASSUME NEW result, NEW client, Return(t, result, client), l.pc # "done"
        PROVE  Rank(r) < Rank(l)
    <2>1. r.pc = "done"
      BY <1>1, <1>4 DEF Return, ThreadType
    <2>2. Rank(r) = 0
      BY <2>1 DEF Rank
    <2>3. QED
      BY <1>2, <1>4, <2>2
  <1>5. ASSUME NEW place, Load(t, place)
        PROVE  r.pc = "load" /\ r.kind = l.kind /\ r.then = place /\ r.line = 0
    BY <1>1, <1>5 DEF Load, ThreadType
  <1>6. ASSUME EnsureOk(t) \/ EnsureFails(t), Rank(l) >= 3
        PROVE  Rank(r) < Rank(l)
    <2>1. Rank(r) \in 0 .. 2
      BY <1>6, EnsuredRank
    <2>2. QED
      BY <1>2, <1>6, <2>1
  <1> SUFFICES Rank(r) < Rank(l)
    OBVIOUS
  <1>7. CASE LoadLine(t)
    <2>1. /\ l.pc = "load" /\ l.line < n /\ r.pc = "load" /\ r.then = l.then
          /\ r.line = l.line + 1
      BY <1>1, <1>7 DEF LoadLine, ThreadType
    <2> HIDE DEF r, l
    <2>2. \/ Rank(l) = 2 * n + 11 - l.line /\ Rank(r) = 2 * n + 11 - r.line
          \/ Rank(l) = n + 11 - l.line /\ Rank(r) = n + 11 - r.line
          \/ Rank(l) = n + 9 - l.line /\ Rank(r) = n + 9 - r.line
      BY <1>1, <2>1 DEF Rank
    <2> HIDE DEF n
    <2>3. QED
      BY <1>1, <2>1, <2>2
  <1>8. CASE Loaded(t)
    <2>1. l.pc = "load" /\ l.line = n /\ r.pc = l.then /\ r.kind = l.kind
      BY <1>3, <1>8 DEF Loaded
    <2> HIDE DEF r, l
    <2>2. \/ Rank(l) = 2 * n + 11 - l.line /\ Rank(r) = n + 10
          \/ Rank(l) = n + 11 - l.line /\ Rank(r) = 10
          \/ Rank(l) = n + 9 - l.line /\ Rank(r) = 7
      BY <1>1, <2>1 DEF Rank
    <2> HIDE DEF n
    <2>3. QED
      BY <1>1, <2>1, <2>2
  <1>9. CASE EnsureDotenv(t)
    <2>1. l.pc = "start"
      BY <1>9 DEF EnsureDotenv, At
    <2>2. CASE Load(t, "config")
      <3>1. Rank(r) = n + 11 - r.line /\ r.line = 0
        BY <1>5, <2>2 DEF Rank
      <3> HIDE DEF n, r, l
      <3>2. QED
        BY <1>1, <1>2, <2>1, <3>1
    <2>3. CASE Goto(t, "config")
      <3>1. Rank(r) = 10
        BY <1>3, <2>3 DEF Rank
      <3> HIDE DEF n, r, l
      <3>2. QED
        BY <1>1, <1>2, <2>1, <3>1
    <2>4. QED
      BY <1>9, <2>2, <2>3 DEF EnsureDotenv
  <1>10. CASE Check(t)
    <2>1. Rank(l) >= 7
      <3>1. l.pc \in {"start", "check"}
        BY <1>10 DEF Check, At
      <3>2. l.pc = "check" => Rank(l) = 7
        BY DEF Rank
      <3> HIDE DEF n, r, l
      <3>3. QED
        BY <1>1, <1>2, <3>1, <3>2
    <2>2. CASE EnsureOk(t)
      BY <1>2, <1>6, <2>1, <2>2
    <2>3. CASE Goto(t, "aws-lc")
      <3>1. Rank(r) = 6
        BY <1>3, <2>3 DEF Rank
      <3>2. QED
        BY <1>2, <2>1, <3>1
    <2>4. QED
      BY <1>10, <2>2, <2>3 DEF Check
  <1>11. CASE TryAwsLc(t) \/ CheckAgain(t) \/ TryRing(t)
    <2>1. PICK place \in {"again", "ring", "last"} :
            /\ l.pc = CASE place = "again" -> "aws-lc" [] place = "ring" -> "again"
                        [] OTHER -> "ring"
            /\ EnsureOk(t) \/ Goto(t, place)
      BY <1>11 DEF TryAwsLc, CheckAgain, TryRing
    <2>2. /\ Rank(l) \in {4, 5, 6}
          /\ \/ place = "again" /\ Rank(l) = 6
             \/ place = "ring" /\ Rank(l) = 5
             \/ place = "last" /\ Rank(l) = 4
      BY <2>1 DEF Rank
    <2>3. CASE EnsureOk(t)
      BY <1>6, <2>2, <2>3
    <2>4. CASE Goto(t, place)
      <3>1. r.pc = place
        BY <1>3, <2>4
      <3>2. /\ place = "again" => Rank(r) = 5
            /\ place = "ring" => Rank(r) = 4
            /\ place = "last" => Rank(r) = 3
        BY <3>1 DEF Rank
      <3>3. QED
        BY <2>2, <3>2
    <2>5. QED
      BY <2>1, <2>3, <2>4
  <1>12. CASE LastCheck(t)
    <2>1. Rank(l) = 3
      BY <1>12 DEF LastCheck, Rank
    <2>2. QED
      BY <1>6, <1>12, <2>1 DEF LastCheck
  <1>13. CASE AppInstalls(t)
    <2>1. l.pc = "start" /\ \E result : Return(t, result, Nobody)
      BY <1>13 DEF AppInstalls, At
    <2>2. QED
      BY <1>4, <2>1
  <1>14. CASE DefaultOneIo(t) \/ NewBuilder(t)
    <2>1. l.pc = "start" /\ (Load(t, "tls") \/ \E result, client : Return(t, result, client))
      BY <1>14 DEF DefaultOneIo, NewBuilder, At
    <2>2. CASE Load(t, "tls")
      <3>1. Rank(r) = 2 * n + 11 - r.line /\ r.line = 0
        BY <1>5, <2>2 DEF Rank
      <3> HIDE DEF n, r, l
      <3>2. QED
        BY <1>1, <1>2, <2>1, <3>1
    <2>3. QED
      BY <1>4, <2>1, <2>2
  <1>15. CASE BuilderReads(t)
    <2>1. /\ l.pc = "tls" /\ l.kind # "s3" /\ r.pc = "load" /\ r.line = 0
          /\ r.then = "check"
      BY <1>1, <1>15 DEF BuilderReads, At, ThreadType
    <2>2. Rank(l) = n + 10 /\ Rank(r) = n + 9 - r.line
      BY <2>1 DEF Rank
    <2> HIDE DEF n, r, l
    <2>3. QED
      BY <1>1, <2>1, <2>2
  <1>16. CASE BuildClient(t)
    <2>1. l.pc = "build" /\ \E result, client : Return(t, result, client)
      BY <1>16 DEF BuildClient, At
    <2>2. QED
      BY <1>4, <2>1
  <1>17. CASE ReadConfig(t)
    <2>1. l.pc = "config" /\ r.pc \in {"done", "retry", "client"}
      <3>1. PICK place \in {"done", "retry", "client"} :
              thread' = [thread EXCEPT ![t].read["aws"] = env["aws"], ![t].pc = place,
                           ![t].result = IF place = "done" THEN "error" ELSE "none"]
        BY <1>17 DEF ReadConfig
      <3>2. QED
        BY <1>1, <1>17, <3>1 DEF ReadConfig, At, ThreadType
    <2>2. Rank(l) = 10 /\ Rank(r) \in {0, 8, 9}
      BY <2>1 DEF Rank
    <2>3. QED
      BY <2>2
  <1>18. CASE RetryConfig(t)
    <2>1. l.pc = "retry" /\ r.pc = "client"
      BY <1>1, <1>18 DEF RetryConfig, At, ThreadType
    <2>2. Rank(l) = 9 /\ Rank(r) = 8
      BY <2>1 DEF Rank
    <2>3. QED
      BY <2>2
  <1>19. CASE GetS3Client(t)
    <2>1. l.pc = "client"
      BY <1>19 DEF GetS3Client, At
    <2>2. CASE Goto(t, "check")
      <3>1. r.pc = "check"
        BY <1>3, <2>2
      <3>2. Rank(l) = 8 /\ Rank(r) = 7
        BY <2>1, <3>1 DEF Rank
      <3>3. QED
        BY <3>2
    <2>3. CASE \E result, client : Return(t, result, client)
      BY <1>4, <2>1, <2>3
    <2>4. QED
      BY <1>19, <2>2, <2>3 DEF GetS3Client
  <1>20. CASE S3ClientReads(t)
    <2>1. l.pc = "tls" /\ l.kind = "s3" /\ r.pc = "build"
      BY <1>1, <1>20 DEF S3ClientReads, At, ThreadType
    <2>2. Rank(l) = 2 /\ Rank(r) = 1
      BY <2>1 DEF Rank
    <2>3. QED
      BY <2>2
  <1>21. CASE BuildS3Client(t)
    <2>1. l.pc = "build" /\ \E result, client : Return(t, result, client)
      BY <1>21 DEF BuildS3Client, At
    <2>2. QED
      BY <1>4, <2>1
  <1>22. QED
    BY <1>7, <1>8, <1>9, <1>10, <1>11, <1>12, <1>13, <1>14, <1>15, <1>16, <1>17,
       <1>18, <1>19, <1>20, <1>21 DEF ThreadStep

(* What one step does to the rank of a call: its own step lowers it, and   *)
(* the steps of the others leave it alone.                                 *)
RunsOut ==
  \A t \in Threads :
    /\ ThreadStep(t) => Rank(thread'[t]) < Rank(thread[t])
    /\ thread'[t] # thread[t] => Rank(thread'[t]) < Rank(thread[t])

(* The half of CallsReturn that is no matter of scheduling: every step of  *)
(* a call takes it nearer to its end, by a rank that is a natural number   *)
(* and that no step of another thread changes.                             *)
THEOREM CallsRunOut ==
  Spec => /\ []\A t \in Threads : Rank(thread[t]) \in Nat
          /\ [][RunsOut]_vars
  <1> DEFINE Natural == \A t \in Threads : Rank(thread[t]) \in Nat
  <1>1. Inv => Natural
    BY RankTyped
  <1>2. Inv /\ [Next]_vars => [RunsOut]_vars
    <2> SUFFICES ASSUME Inv, Next, NEW t \in Threads
                 PROVE  /\ ThreadStep(t) => Rank(thread'[t]) < Rank(thread[t])
                        /\ thread'[t] # thread[t] => Rank(thread'[t]) < Rank(thread[t])
      BY DEF RunsOut
    <2>1. PICK u \in Threads : ThreadStep(u)
      BY DEF Next
    <2>2. u # t => thread'[t] = thread[t]
      BY <2>1, EveryStep DEF Step, Inv, Typed
    <2>3. ThreadStep(t) => Rank(thread'[t]) < Rank(thread[t])
      BY StepRunsOut
    <2>4. QED
      BY <2>1, <2>2, <2>3
  <1> HIDE DEF Natural
  <1>3. Spec => []Natural /\ [][RunsOut]_vars
    BY Invariance, <1>1, <1>2, PTL DEF Spec
  <1>4. QED
    BY <1>3 DEF Natural

(* What is set, installed or held in a cell stays as it is; a cell that is *)
(* being filled is touched by its holder only.                             *)
NothingTakenBack ==
  [][/\ \A v \in Variables : env[v] # "unset" => env'[v] = env[v]
     /\ provider # "none" => provider' = provider
     /\ \A c \in Cells :
          /\ cell[c].state = "full" => cell'[c] = cell[c]
          /\ cell[c].state = "busy" =>
               cell'[c] = cell[c] \/ thread'[cell[c].by] # thread[cell[c].by]]_vars

(* Threads may rely on what they have seen of the shared state: the .env   *)
(* file overrides nothing, no provider replaces another, and a client is   *)
(* never replaced once callers may have it.                                *)
THEOREM SharedStays == Spec => NothingTakenBack
  <1>1. ASSUME Inv, Next
        PROVE  /\ \A v \in Variables : env[v] # "unset" => env'[v] = env[v]
               /\ provider # "none" => provider' = provider
               /\ \A c \in Cells :
                    /\ cell[c].state = "full" => cell'[c] = cell[c]
                    /\ cell[c].state = "busy" =>
                         cell'[c] = cell[c] \/ thread'[cell[c].by] # thread[cell[c].by]
    <2>1. PICK t \in Threads : ThreadStep(t)
      BY <1>1 DEF Next
    <2>2. PICK r \in ThreadType :
            thread' = [thread EXCEPT ![t] = r] /\ Moves(t, r, env', provider', cell')
      BY <1>1, <2>1, EveryStep DEF Step
    <2>3. Grows(env', provider') /\ CellSteps(t, cell')
      BY <2>2 DEF Moves
    <2>4. Rank(thread'[t]) < Rank(thread[t]) /\ Rank(thread[t]) \in Nat
      BY <1>1, <2>1, StepRunsOut, RankTyped
    <2>5. thread'[t] # thread[t]
      <3>1. ASSUME NEW n \in Nat PROVE ~(n < n)
        OBVIOUS
      <3>2. QED
        BY <2>4, <3>1
    <2>6. QED
      BY <2>3, <2>5 DEF Grows, CellSteps
  <1>2. QED
    BY Invariance, <1>1, PTL DEF Spec, NothingTakenBack
============================================================================
