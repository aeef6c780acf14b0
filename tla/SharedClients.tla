--------------------------- MODULE SharedClients ---------------------------
(***************************************************************************)
(* The Qdrant client of a process is a module global.  The lifespan of the *)
(* API sets it at startup and closes it at shutdown; a parse or ingest job *)
(* sets and closes it too, in a Celery worker of its own in production, in *)
(* the API's process, as a background task, in development.  Setting it    *)
(* also creates the collections that are missing and their indexes.        *)
(*                                                                         *)
(* Clients are numbered as they are created.  The Redis pool is global in  *)
(* the same way, but a closed pool connects again when it is used, so all  *)
(* that shows of it is the ping that may fail.                             *)
(***************************************************************************)
EXTENDS Integers, FiniteSets

CONSTANTS
    Requests,    \* API requests that use Qdrant, each made once
    Jobs,        \* parse and ingest jobs, each run once
    Workers,     \* Celery worker processes
    Api,         \* the API's process, and its boot as an actor
    Collections, \* how many collections there are, created in order
    MaxClients,  \* bound on the clients created
    MaxFaults,   \* bound on failures and crashes
    None

ASSUME ClientAssumption ==
    /\ Collections \in Nat \ {0} /\ MaxClients \in Nat /\ MaxFaults \in Nat
    /\ Api \notin Workers \cup Requests \cup Jobs
    /\ Requests \cap Jobs = {}
    /\ None \notin Workers \cup {Api} \cup (1..MaxClients)

VARIABLES
    development, \* APP_ENV
    global,      \* each process's _qdrant_client
    made,        \* the number of clients created
    open,        \* the clients not closed
    pc,          \* the step each actor is about to take
    host,        \* the process each job runs in
    held,        \* the client each actor is using
    at,          \* the collection each initialisation is at
    coll,        \* the collections in Qdrant
    faults,      \* failures and crashes so far
    interrupted, \* history: the collections whose creator failed at the indexes
    refused      \* the actors that were handed a closed client

vars == <<development, global, made, open, pc, host, held, at, coll, faults,
          interrupted, refused>>

Processes == Workers \cup {Api}
Clients   == 1..MaxClients
Actors    == {Api} \cup Jobs \cup Requests
InitSteps == {"redis", "connect", "verify", "check", "create", "index"}
Running   == InitSteps \cup {"get", "run", "close", "use"}

Process(a) == IF a \in Jobs THEN host[a] ELSE Api
Usable(a)  == held[a] \in open

Init ==
    /\ development \in BOOLEAN
    /\ global = [p \in Processes |-> None]
    /\ made = 0 /\ open = {}
    /\ pc = [a \in Actors |-> IF a = Api THEN "off" ELSE "idle"]
    /\ host = [j \in Jobs |-> None]
    /\ held = [a \in Actors |-> None]
    /\ at = [a \in Actors |-> 1]
    /\ coll = [k \in 1..Collections |-> "absent"]
    /\ faults = 0 /\ interrupted = {} /\ refused = {}

Goto(a, step) == pc' = [pc EXCEPT ![a] = step]

-----------------------------------------------------------------------------
(* init_redis_pool and init_qdrant_client, at startup and in each job.       *)

\* Mutant of StartApi: the clients are left to be created on first use.
StartLazily ==
    /\ pc[Api] = "off"
    /\ Goto(Api, "live")
    /\ UNCHANGED <<development, global, made, open, host, held, at, coll, faults,
                   interrupted, refused>>

StartApi ==
    /\ pc[Api] = "off"
    /\ Goto(Api, "redis")
    /\ UNCHANGED <<development, global, made, open, host, held, at, coll, faults,
                   interrupted, refused>>

\* Celery gives a worker process one task at a time; the API schedules a
\* background task after each upload.
StartJob(j) ==
    /\ pc[j] = "idle"
    /\ \E p \in Processes :
           /\ IF development THEN p = Api /\ pc[Api] = "live"
              ELSE p \in Workers /\ \A i \in Jobs : host[i] = p => pc[i] \notin Running
           /\ host' = [host EXCEPT ![j] = p]
    /\ Goto(j, "redis")
    /\ UNCHANGED <<development, global, made, open, held, at, coll, faults, interrupted, refused>>

InitRedis(a) ==
    /\ pc[a] = "redis"
    /\ Goto(a, "connect")
    /\ UNCHANGED <<development, global, made, open, host, held, at, coll, faults,
                   interrupted, refused>>

\* Mutant of Connect: an existing global is taken for an initialised one.
ConnectOnce(a) ==
    /\ pc[a] = "connect" /\ made < MaxClients
    /\ IF global[Process(a)] # None
       THEN Goto(a, "get") /\ UNCHANGED <<global, made, open, held>>
       ELSE /\ made' = made + 1
            /\ open' = open \cup {made + 1}
            /\ global' = [global EXCEPT ![Process(a)] = made + 1]
            /\ held' = [held EXCEPT ![a] = made + 1]
            /\ Goto(a, "verify")
    /\ UNCHANGED <<development, host, at, coll, faults, interrupted, refused>>

\* The global is overwritten, and its client used, before anything is awaited.
Connect(a) ==
    /\ pc[a] = "connect" /\ made < MaxClients
    /\ made' = made + 1
    /\ open' = open \cup {made + 1}
    /\ global' = [global EXCEPT ![Process(a)] = made + 1]
    /\ held' = [held EXCEPT ![a] = made + 1]
    /\ Goto(a, "verify")
    /\ UNCHANGED <<development, host, at, coll, faults, interrupted, refused>>

\* An exception.  In a job the initialisation precedes the try, so it closes
\* nothing; the boot that fails ends the process.
Raise(a) ==
    IF a = Api
    THEN /\ Goto(a, "off")
         /\ global' = [global EXCEPT ![Api] = None]
    ELSE /\ Goto(a, IF pc[a] = "run" THEN "close" ELSE "failed")
         /\ UNCHANGED global

\* After the answer the global is read again: it may be another job's.
Verify(a) ==
    /\ pc[a] = "verify"
    /\ IF Usable(a)
       THEN /\ Goto(a, "check")
            /\ held' = [held EXCEPT ![a] = global[Process(a)]]
            /\ at' = [at EXCEPT ![a] = 1]
            /\ UNCHANGED global
       ELSE Raise(a) /\ UNCHANGED <<held, at>>
    /\ UNCHANGED <<development, made, open, host, coll, faults, interrupted, refused>>

\* One collection is ready; get_qdrant follows in a job.
Ensured(a) ==
    IF at[a] < Collections
    THEN Goto(a, "check") /\ at' = [at EXCEPT ![a] = @ + 1]
    ELSE Goto(a, IF a = Api THEN "live" ELSE "get") /\ UNCHANGED at

\* Mutant of CheckCollection: a collection that cannot be read is left alone.
CheckOnly(a) ==
    /\ pc[a] = "check"
    /\ Ensured(a)
    /\ UNCHANGED <<development, global, made, open, host, held, coll, faults, interrupted, refused>>

\* "except (UnexpectedResponse, Exception)": whatever goes wrong means absent.
CheckCollection(a) ==
    /\ pc[a] = "check"
    /\ \/ Usable(a) /\ coll[at[a]] # "absent" /\ Ensured(a)
       \/ (~Usable(a) \/ coll[at[a]] = "absent") /\ Goto(a, "create") /\ UNCHANGED at
    /\ UNCHANGED <<development, global, made, open, host, held, coll, faults, interrupted, refused>>

\* Qdrant refuses to create a collection that exists.
CreateCollection(a) ==
    /\ pc[a] = "create"
    /\ IF Usable(a) /\ coll[at[a]] = "absent"
       THEN /\ coll' = [coll EXCEPT ![at[a]] = "bare"]
            /\ Goto(a, "index")
            /\ UNCHANGED global
       ELSE Raise(a) /\ UNCHANGED coll
    /\ UNCHANGED <<development, made, open, host, held, at, faults, interrupted, refused>>

IndexCollection(a) ==
    /\ pc[a] = "index"
    /\ IF Usable(a)
       THEN /\ coll' = [coll EXCEPT ![at[a]] = "indexed"]
            /\ Ensured(a)
            /\ UNCHANGED global
       ELSE Raise(a) /\ UNCHANGED <<coll, at>>
    /\ UNCHANGED <<development, made, open, host, held, faults, interrupted, refused>>

-----------------------------------------------------------------------------
(* get_qdrant, the use of what it returns, and close_qdrant_client.          *)

StartRequest(q) ==
    /\ pc[q] = "idle" /\ pc[Api] = "live"
    /\ held' = [held EXCEPT ![q] = global[Api]]
    /\ Goto(q, "use")
    /\ UNCHANGED <<development, global, made, open, host, at, coll, faults, interrupted, refused>>

GetClient(j) ==
    /\ pc[j] = "get"
    /\ held' = [held EXCEPT ![j] = global[Process(j)]]
    /\ Goto(j, "run")
    /\ UNCHANGED <<development, global, made, open, host, at, coll, faults, interrupted, refused>>

\* The work of a job or a request; for the readiness probe a refusal is a 503.
Use(a) ==
    /\ pc[a] \in {"run", "use"}
    /\ refused' = IF Usable(a) THEN refused ELSE refused \cup {a}
    /\ Goto(a, IF pc[a] = "run" THEN "close" ELSE "done")
    /\ UNCHANGED <<development, global, made, open, host, held, at, coll, faults, interrupted>>

\* The finally of a job closes the client that is global by then and leaves it
\* in place.
CloseClient(j) ==
    /\ pc[j] = "close"
    /\ open' = open \ {global[Process(j)]}
    /\ Goto(j, "done")
    /\ UNCHANGED <<development, global, made, host, held, at, coll, faults, interrupted, refused>>

\* The server lets requests and background tasks finish before the lifespan ends.
StopApi ==
    /\ pc[Api] = "live"
    /\ \A a \in Actors \ {Api} : pc[a] \in Running => Process(a) # Api
    /\ open' = open \ {global[Api]}
    /\ global' = [global EXCEPT ![Api] = None]
    /\ Goto(Api, "off")
    /\ UNCHANGED <<development, made, host, held, at, coll, faults, interrupted, refused>>

\* The collections that those who fail now leave without their indexes.
LeftBare(failing) == {at[a] : a \in {b \in failing : pc[b] = "index"}}

\* Redis or Qdrant does not answer; at "close" that is Redis, whose pool is closed
\* first, and the client then stays open.
Fault(a) ==
    /\ pc[a] \in InitSteps \cup {"run", "close"} /\ faults < MaxFaults
    /\ faults' = faults + 1
    /\ interrupted' = interrupted \cup LeftBare({a})
    /\ Raise(a)
    /\ UNCHANGED <<development, made, open, host, held, at, coll, refused>>

\* A process dies with everything that runs in it.
Crash(p) ==
    /\ faults < MaxFaults
    /\ faults' = faults + 1
    /\ interrupted' = interrupted \cup LeftBare({a \in Actors : Process(a) = p})
    /\ global' = [global EXCEPT ![p] = None]
    /\ pc' = [a \in Actors |->
                 IF a = Api /\ p = Api THEN "off"
                 ELSE IF a # Api /\ pc[a] \in Running /\ Process(a) = p THEN "failed"
                 ELSE pc[a]]
    /\ UNCHANGED <<development, made, open, host, held, at, coll, refused>>

Initialise(a) ==
    \/ InitRedis(a) \/ Connect(a) \/ Verify(a)
    \/ CheckCollection(a) \/ CreateCollection(a) \/ IndexCollection(a)

Next ==
    \/ StartApi \/ StopApi
    \/ \E j \in Jobs : StartJob(j) \/ GetClient(j) \/ CloseClient(j)
    \/ \E q \in Requests : StartRequest(q)
    \/ \E a \in Actors : Initialise(a) \/ Use(a) \/ Fault(a)
    \/ \E p \in Processes : Crash(p)

Spec == Init /\ [][Next]_vars

-----------------------------------------------------------------------------
TypeOK ==
    /\ development \in BOOLEAN
    /\ global \in [Processes -> Clients \cup {None}]
    /\ made \in 0..MaxClients /\ open \subseteq 1..made
    /\ pc \in [Actors -> Running \cup {"off", "live", "idle", "done", "failed"}]
    /\ host \in [Jobs -> Processes \cup {None}]
    /\ held \in [Actors -> Clients \cup {None}]
    /\ at \in [Actors -> 1..Collections]
    /\ coll \in [1..Collections -> {"absent", "bare", "indexed"}]
    /\ faults \in 0..MaxFaults
    /\ interrupted \subseteq 1..Collections
    /\ refused \subseteq Actors
    /\ pc[Api] = "live" => global[Api] # None
    /\ \A a \in Actors : pc[a] \in Running /\ a # Api => Process(a) \in Processes

\* With a process per worker no job or request is handed a client that another
\* one has closed, although each worker's global stays behind closed.
UsableInProduction == ~development => refused = {}

\* While the API is live every collection exists, and one has its payload
\* indexes unless they are being created or who was creating them failed just
\* then: neither processes that start together nor a client closed under another
\* one's hands lose them, nor any other failure.
LiveIsReady ==
    pc[Api] = "live" =>
        \A k \in 1..Collections :
            /\ coll[k] # "absent"
            /\ coll[k] = "bare" =>
                   k \in interrupted \/ \E a \in Jobs : pc[a] = "index" /\ at[a] = k
=============================================================================
