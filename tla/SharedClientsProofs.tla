------------------------ MODULE SharedClientsProofs ------------------------
(* Proofs about SharedClients.  The argument is about who may touch a        *)
(* process's global client: in production every process has one actor at a   *)
(* time that initialises or closes it, and requests use the API's only while *)
(* it is live.                                                               *)
EXTENDS SharedClients, TLAPS

-----------------------------------------------------------------------------
(* The inductive invariant.                                                  *)

\* Each actor takes only the steps of its kind: the API initialises, a job
\* initialises, runs and closes, a request uses.
StepsOf(a) ==
    CASE a = Api       -> InitSteps \cup {"off", "live"}
      [] a \in Jobs     -> InitSteps \cup {"get", "run", "close", "idle", "done", "failed"}
      [] a \in Requests -> {"use", "idle", "done", "failed"}

StepsByRole == \A a \in Actors : pc[a] \in StepsOf(a)

\* Nothing else runs in the API's process while it boots or is down; in
\* development that is every job.
OthersNeedTheApi ==
    \A a \in Actors \ {Api} : pc[a] \in Running /\ Process(a) = Api => pc[Api] = "live"

\* The steps of an actor that has set its process's global client, and those in
\* which it uses the one it holds.
HasClient  == {"verify", "check", "create", "index", "live", "get", "run", "close", "use"}
UsesClient == {"verify", "check", "create", "index", "run", "use"}

\* Clients are numbered in the order they are made and belong to one process.
ClientsAreOwned ==
    /\ \A p \in Processes : global[p] # None => global[p] \in 1..made
    /\ \A p, r \in Processes : global[p] = global[r] /\ global[p] # None => p = r

\* The API's process has a client from its connection on, and while it boots, in
\* either mode, that is the open one it holds.
ApiHasClient ==
    pc[Api] \in {"verify", "check", "create", "index", "live"} => global[Api] # None

BootingApiIsReady ==
    pc[Api] \in {"verify", "check", "create", "index"} =>
        held[Api] = global[Api] /\ held[Api] \in open

\* In production a job runs alone in a worker, and whoever is past creating the
\* client of its process finds it open, and holds it while it uses one.
JobsRunInWorkers == \A j \in Jobs : pc[j] \in Running => host[j] \in Workers

OneJobPerWorker ==
    \A i, j \in Jobs :
        pc[i] \in Running /\ pc[j] \in Running /\ host[i] = host[j] => i = j

ClientsAreOpen == \A a \in Actors : pc[a] \in HasClient => global[Process(a)] \in open

ClientsAreHeld == \A a \in Actors : pc[a] \in UsesClient => held[a] = global[Process(a)]

Production ==
    ~development =>
        /\ JobsRunInWorkers /\ OneJobPerWorker
        /\ ClientsAreOpen /\ ClientsAreHeld
        /\ refused = {}

\* In development no job creates a collection: it runs in the API's process while
\* that is live, and so when every collection is there.
JobsFindCollections ==
    development => \A j \in Jobs : /\ pc[j] \in Running => host[j] = Api
                                  /\ pc[j] # "index"

\* A collection that is bare is being indexed, or who was at that failed.
Explained(k) ==
    coll[k] = "bare" => k \in interrupted \/ \E a \in Actors : pc[a] = "index" /\ at[a] = k

CollectionsAreExplained ==
    /\ \A k \in 1..Collections : Explained(k)
    /\ pc[Api] = "live" => \A k \in 1..Collections : coll[k] # "absent"
    /\ pc[Api] \in {"check", "create", "index"} =>
           \A k \in 1..(at[Api] - 1) : coll[k] # "absent"
    /\ \A a \in Actors : pc[a] = "index" => coll[at[a]] # "absent"

Base == TypeOK /\ StepsByRole /\ OthersNeedTheApi /\ ApiHasClient

IInv ==
    /\ Base /\ ClientsAreOwned
    /\ BootingApiIsReady /\ Production /\ JobsFindCollections
    /\ CollectionsAreExplained
-----------------------------------------------------------------------------
\* What StepsOf says of each kind of actor.
LEMMA Roles ==
    /\ Api \notin Jobs \cup Requests /\ StepsOf(Api) = InitSteps \cup {"off", "live"}
    /\ \A j \in Jobs : /\ j \notin Requests /\ j # Api
                       /\ StepsOf(j) = InitSteps \cup {"get", "run", "close", "idle",
                                                       "done", "failed"}
    /\ \A q \in Requests : /\ q \notin Jobs /\ q # Api
                           /\ StepsOf(q) = {"use", "idle", "done", "failed"}
BY ClientAssumption DEF StepsOf

\* An actor that moves to a step of its kind leaves the program counters typed.
LEMMA MovesTyped ==
    ASSUME TypeOK, StepsByRole, NEW a \in Actors, NEW s \in StepsOf(a), Goto(a, s)
    PROVE  /\ pc' \in [Actors -> Running \cup {"off", "live", "idle", "done", "failed"}]
           /\ StepsByRole'
           /\ pc'[a] = s
           /\ \A b \in Actors \ {a} : pc'[b] = pc[b]
<1>1. s \in Running \cup {"off", "live", "idle", "done", "failed"}
  BY Roles DEF Actors, Running
<1>2. /\ pc'[a] = s
      /\ \A b \in Actors \ {a} : pc'[b] = pc[b]
  BY DEF Goto, TypeOK
<1>3. StepsByRole'
  BY <1>2 DEF StepsByRole
<1> QED
  BY <1>1, <1>2, <1>3 DEF Goto, TypeOK

\* An exception moves an actor to a step of its kind, and takes no client from a
\* process but the API's own when it boots.
LEMMA RaiseTyped ==
    ASSUME Base, NEW a \in Actors, pc[a] \in InitSteps \cup {"run", "close"}, Raise(a)
    PROVE  /\ a = Api => Goto(a, "off") /\ global' = [global EXCEPT ![Api] = None]
           /\ a # Api => /\ a \in Jobs /\ UNCHANGED global
                         /\ \E s \in {"close", "failed"} : Goto(a, s)
           /\ pc' \in [Actors -> Running \cup {"off", "live", "idle", "done", "failed"}]
           /\ StepsByRole'
           /\ pc'[a] \in {"off", "close", "failed"}
           /\ pc'[a] = "close" => pc[a] = "run"
           /\ \A b \in Actors \ {a} : pc'[b] = pc[b]
           /\ global' \in [Processes -> Clients \cup {None}]
           /\ a # Api => UNCHANGED global
<1> USE DEF Base
<1>1. a = Api \/ a \in Jobs
  BY Roles DEF StepsByRole, Actors, InitSteps
<1>2. PICK s \in {"off", "close", "failed"} :
          /\ Goto(a, s)
          /\ s = IF a = Api THEN "off" ELSE IF pc[a] = "run" THEN "close" ELSE "failed"
  BY DEF Raise
<1>3. s \in StepsOf(a)
  BY <1>1, <1>2, Roles
<1>4. /\ pc' \in [Actors -> Running \cup {"off", "live", "idle", "done", "failed"}]
      /\ StepsByRole'
      /\ pc'[a] = s
      /\ \A b \in Actors \ {a} : pc'[b] = pc[b]
  BY <1>2, <1>3, MovesTyped
<1>5. /\ a = Api => global' = [global EXCEPT ![Api] = None]
      /\ a # Api => UNCHANGED global
  BY DEF Raise
<1>6. global' \in [Processes -> Clients \cup {None}]
  BY <1>5 DEF TypeOK, Processes
<1> QED
  BY <1>1, <1>2, <1>4, <1>5, <1>6

\* So an exception, and nothing else, keeps the types.
LEMMA RaiseKeepsBase ==
    ASSUME Base, NEW a \in Actors, pc[a] \in InitSteps \cup {"run", "close"}, Raise(a),
           UNCHANGED <<development, made, open, host, held, at, coll, refused>>,
           faults' \in 0..MaxFaults, interrupted' \subseteq 1..Collections
    PROVE  Base'
<1> USE DEF Base
<1>1. /\ pc' \in [Actors -> Running \cup {"off", "live", "idle", "done", "failed"}]
      /\ StepsByRole'
      /\ global' \in [Processes -> Clients \cup {None}]
      /\ pc'[a] \in {"off", "close", "failed"}
      /\ \A b \in Actors \ {a} : pc'[b] = pc[b]
      /\ a = Api => pc'[Api] = "off"
      /\ a # Api => UNCHANGED global
  BY RaiseTyped DEF Goto, TypeOK, Actors
<1>2. Api \in Actors /\ (pc'[Api] \notin {"off", "close", "failed"} =>
                              pc'[Api] = pc[Api] /\ UNCHANGED global)
  BY <1>1 DEF Actors
<1>3. pc[a] \in Running /\ \A b \in Actors : pc'[b] \in Running => pc[b] \in Running
  BY <1>1 DEF Running
<1>4. TypeOK'
  <2>1. \A b \in Actors : pc'[b] \in Running /\ b # Api => Process(b)' \in Processes
    BY <1>3 DEF TypeOK, Process
  <2>2. pc'[Api] = "live" => global'[Api] # None
    BY <1>2 DEF TypeOK
  <2> QED
    BY <1>1, <2>1, <2>2 DEF TypeOK
<1>5. OthersNeedTheApi'
  <2>1. \A b \in Actors : pc'[b] \in Running /\ Process(b)' = Api =>
            pc[b] \in Running /\ Process(b) = Api
    BY <1>3 DEF Process
  <2>2. pc[Api] = "live" => pc'[Api] = "live"
    BY <1>1, <1>2 DEF InitSteps
  <2> QED
    BY <2>1, <2>2 DEF OthersNeedTheApi
<1>6. ApiHasClient'
  BY <1>2 DEF ApiHasClient
<1> QED
  BY <1>1, <1>4, <1>5, <1>6

\* The initialisation of a collection moves an actor to a step of its kind.
LEMMA EnsuredTyped ==
    ASSUME Base, NEW a \in Actors, pc[a] \in {"check", "index"}, Ensured(a)
    PROVE  /\ pc' \in [Actors -> Running \cup {"off", "live", "idle", "done", "failed"}]
           /\ StepsByRole'
           /\ pc'[a] \in IF a = Api THEN {"check", "live"} ELSE {"check", "get"}
           /\ pc'[a] = "check" => at' = [at EXCEPT ![a] = @ + 1]
           /\ pc'[a] # "check" => at[a] = Collections /\ UNCHANGED at
           /\ \A b \in Actors \ {a} : pc'[b] = pc[b]
           /\ at' \in [Actors -> 1..Collections]
<1> USE DEF Base
<1>1. a = Api \/ a \in Jobs
  BY Roles DEF StepsByRole, Actors
<1>2. at[a] \in 1..Collections /\ Collections \in Nat
  BY ClientAssumption DEF TypeOK
<1>3. PICK s \in {"check", "live", "get"} :
          /\ Goto(a, s)
          /\ s = IF at[a] < Collections THEN "check"
                 ELSE IF a = Api THEN "live" ELSE "get"
  BY DEF Ensured
<1>4. s \in StepsOf(a)
  BY <1>1, <1>3, Roles DEF InitSteps
<1>5. /\ pc' \in [Actors -> Running \cup {"off", "live", "idle", "done", "failed"}]
      /\ StepsByRole'
      /\ pc'[a] = s
      /\ \A b \in Actors \ {a} : pc'[b] = pc[b]
  BY <1>3, <1>4, MovesTyped
<1>6. IF at[a] < Collections THEN at' = [at EXCEPT ![a] = @ + 1]
      ELSE at[a] = Collections /\ UNCHANGED at
  BY <1>2 DEF Ensured
<1>7. at' \in [Actors -> 1..Collections]
  BY <1>2, <1>6 DEF TypeOK
<1> QED
  BY <1>3, <1>5, <1>6, <1>7

\* Base holds of any run: it is what the types of the state rest on.
LEMMA BaseStep == Base /\ [Next]_vars => Base'
<1> SUFFICES ASSUME Base, [Next]_vars PROVE Base'
  OBVIOUS
<1> USE ClientAssumption DEF Base, TypeOK, StepsByRole, OthersNeedTheApi,
        ApiHasClient, Processes, Clients, Actors, InitSteps, Running, Process,
        StepsOf,
        Goto
<1>1. CASE StartApi
  BY <1>1 DEF StartApi
<1>2. CASE StopApi
  BY <1>2 DEF StopApi
<1>3. ASSUME NEW j \in Jobs, StartJob(j) PROVE Base'
  BY <1>3 DEF StartJob
<1>4. ASSUME NEW j \in Jobs, GetClient(j) PROVE Base'
  BY <1>4 DEF GetClient
<1>5. ASSUME NEW j \in Jobs, CloseClient(j) PROVE Base'
  BY <1>5 DEF CloseClient
<1>6. ASSUME NEW q \in Requests, StartRequest(q) PROVE Base'
  BY <1>6 DEF StartRequest
<1>7. ASSUME NEW a \in Actors, InitRedis(a) PROVE Base'
  BY <1>7 DEF InitRedis
<1>8. ASSUME NEW a \in Actors, Connect(a) PROVE Base'
  <2>1. TypeOK'
    BY <1>8 DEF Connect
  <2>2. StepsByRole'
    BY <1>8 DEF Connect
  <2>3. OthersNeedTheApi'
    BY <1>8 DEF Connect
  <2>4. ApiHasClient'
    BY <1>8 DEF Connect
  <2> QED
    BY <2>1, <2>2, <2>3, <2>4
<1>9. ASSUME NEW a \in Actors, Verify(a) PROVE Base'
  <2>1. CASE ~Usable(a)
    BY <1>9, <2>1, RaiseKeepsBase DEF Verify, TypeOK, InitSteps
  <2>2. CASE Usable(a)
    <3>1. pc[a] = "verify" /\ Goto(a, "check")
      BY <1>9, <2>2 DEF Verify
    <3>2. (a = Api \/ a \in Jobs) /\ "check" \in StepsOf(a)
      BY <3>1
    <3>3. /\ pc' \in [Actors -> Running \cup {"off", "live", "idle", "done", "failed"}]
          /\ StepsByRole'
      BY <3>1, <3>2, MovesTyped
    <3>4. held' = [held EXCEPT ![a] = global[Process(a)]] /\ Process(a) \in Processes
      BY <1>9, <2>2, <3>1 DEF Verify
    <3> QED
      BY <1>9, <2>2, <3>1, <3>2, <3>3, <3>4 DEF Verify
  <2> QED
    BY <2>1, <2>2
<1>10. ASSUME NEW a \in Actors, CheckCollection(a) PROVE Base'
  <2>1. CASE Ensured(a)
    <3>1. pc[a] = "check"
      BY <1>10 DEF CheckCollection
    <3>2. TypeOK'
      BY <1>10, <2>1, <3>1, EnsuredTyped DEF CheckCollection
    <3>3. StepsByRole'
      BY <1>10, <2>1, <3>1, EnsuredTyped
    <3>4. OthersNeedTheApi'
      <4>1. /\ \A b \in Actors \ {a} : pc'[b] = pc[b]
            /\ pc[a] \in Running /\ UNCHANGED host
        BY <1>10, <2>1, <3>1, EnsuredTyped DEF CheckCollection
      <4>2. SUFFICES ASSUME NEW b \in Actors \ {Api}, pc'[b] \in Running, Process(b)' = Api
                     PROVE  pc'[Api] = "live"
        BY DEF OthersNeedTheApi
      <4>3. pc[b] \in Running /\ Process(b) = Api
        BY <4>1, <4>2 DEF Process
      <4>4. pc[Api] = "live"
        BY <4>3 DEF OthersNeedTheApi
      <4> QED
        BY <4>1, <4>4, <3>1 DEF Actors
    <3>5. ApiHasClient'
      BY <1>10, <2>1, <3>1, EnsuredTyped DEF CheckCollection
    <3> QED
      BY <3>2, <3>3, <3>4, <3>5
  <2>2. CASE Goto(a, "create") /\ UNCHANGED at
    <3>1. pc[a] = "check"
      BY <1>10 DEF CheckCollection
    <3>2. "create" \in StepsOf(a)
      BY <3>1
    <3>3. /\ pc' \in [Actors -> Running \cup {"off", "live", "idle", "done", "failed"}]
          /\ StepsByRole'
      BY <2>2, <3>2, MovesTyped
    <3> QED
      BY <1>10, <2>2, <3>3 DEF CheckCollection
  <2> QED
    BY <1>10, <2>1, <2>2 DEF CheckCollection
<1>11. ASSUME NEW a \in Actors, CreateCollection(a) PROVE Base'
  <2>1. CASE Raise(a) /\ UNCHANGED coll
    BY <1>11, <2>1, RaiseKeepsBase DEF CreateCollection, TypeOK, InitSteps
  <2>2. CASE Goto(a, "index") /\ UNCHANGED global
             /\ coll' = [coll EXCEPT ![at[a]] = "bare"]
    <3>1. pc[a] = "create"
      BY <1>11 DEF CreateCollection
    <3>2. "index" \in StepsOf(a)
      BY <3>1
    <3>3. /\ pc' \in [Actors -> Running \cup {"off", "live", "idle", "done", "failed"}]
          /\ StepsByRole'
      BY <2>2, <3>2, MovesTyped
    <3> QED
      BY <1>11, <2>2, <3>3 DEF CreateCollection
  <2> QED
    BY <1>11, <2>1, <2>2 DEF CreateCollection
<1>12. ASSUME NEW a \in Actors, IndexCollection(a) PROVE Base'
  <2>1. CASE Raise(a) /\ UNCHANGED <<coll, at>>
    BY <1>12, <2>1, RaiseKeepsBase DEF IndexCollection, TypeOK, InitSteps
  <2>2. CASE Ensured(a) /\ UNCHANGED global
             /\ coll' = [coll EXCEPT ![at[a]] = "indexed"]
    <3>1. pc[a] = "index"
      BY <1>12 DEF IndexCollection
    <3> QED
      BY <1>12, <2>2, <3>1, EnsuredTyped DEF IndexCollection
  <2> QED
    BY <1>12, <2>1, <2>2 DEF IndexCollection
<1>13. ASSUME NEW a \in Actors, Use(a) PROVE Base'
  BY <1>13 DEF Use
<1>14. ASSUME NEW a \in Actors, Fault(a) PROVE Base'
  <2>1. pc[a] \in InitSteps \cup {"run", "close"} /\ Raise(a)
        /\ faults' \in 0..MaxFaults /\ interrupted' \subseteq 1..Collections
    BY <1>14, ClientAssumption DEF Fault, TypeOK, LeftBare
  <2> QED
    BY <1>14, <2>1, RaiseKeepsBase DEF Fault
<1>15. ASSUME NEW p \in Processes, Crash(p) PROVE Base'
  BY <1>15 DEF Crash, LeftBare
<1>16. CASE UNCHANGED vars
  BY <1>16 DEF vars
<1> QED
  BY <1>1, <1>2, <1>3, <1>4, <1>5, <1>6, <1>7, <1>8, <1>9, <1>10, <1>11,
     <1>12, <1>13, <1>14, <1>15, <1>16 DEF Next, Initialise

\* Nothing runs at first.
LEMMA BaseInit == Init => Base
BY ClientAssumption, Roles DEF Init, Base, TypeOK, StepsByRole, OthersNeedTheApi,
   ApiHasClient, Processes, Clients, Actors, InitSteps, Running, Process

-----------------------------------------------------------------------------
(* Which client is whose.                                                    *)

\* A step gives a process the newest client, takes its client away, or leaves all
\* of them.
LEMMA GlobalStep ==
    ASSUME Base, [Next]_vars
    PROVE  \/ \E p \in Processes :
                  /\ made < MaxClients /\ made' = made + 1
                  /\ open' = open \cup {made + 1}
                  /\ global' = [global EXCEPT ![p] = made + 1]
           \/ /\ \/ UNCHANGED global
                 \/ \E p \in Processes : global' = [global EXCEPT ![p] = None]
              /\ made' = made /\ open' \subseteq open
<1> USE DEF Base
<1>1. ASSUME NEW a \in Actors, Connect(a) PROVE Process(a) \in Processes
  BY <1>1, Roles DEF Connect, TypeOK, Process, Processes, Actors, Running, InitSteps
<1>2. ASSUME NEW a \in Actors, Raise(a)
      PROVE  \/ UNCHANGED global
             \/ \E p \in Processes : global' = [global EXCEPT ![p] = None]
  BY <1>2 DEF Raise, Processes
<1>3. ASSUME NEW a \in Actors, Connect(a)
      PROVE  \E p \in Processes :
                  /\ made < MaxClients /\ made' = made + 1
                  /\ open' = open \cup {made + 1}
                  /\ global' = [global EXCEPT ![p] = made + 1]
  BY <1>1, <1>3 DEF Connect
<1>4. ASSUME NEW a \in Actors,
             Verify(a) \/ CreateCollection(a) \/ IndexCollection(a) \/ Fault(a)
      PROVE  /\ \/ UNCHANGED global
                \/ \E p \in Processes : global' = [global EXCEPT ![p] = None]
             /\ made' = made /\ open' = open
  BY <1>2, <1>4, Zenon DEF Verify, CreateCollection, IndexCollection, Fault
<1>5. ASSUME NEW a \in Actors, InitRedis(a) \/ CheckCollection(a) \/ Use(a)
      PROVE  UNCHANGED <<global, made, open>>
  BY <1>5 DEF InitRedis, CheckCollection, Use
<1>6. ASSUME NEW j \in Jobs, StartJob(j) \/ GetClient(j)
      PROVE  UNCHANGED <<global, made, open>>
  BY <1>6 DEF StartJob, GetClient
<1>7. ASSUME NEW j \in Jobs, CloseClient(j)
      PROVE  UNCHANGED <<global, made>> /\ open' \subseteq open
  BY <1>7 DEF CloseClient
<1>8. ASSUME NEW q \in Requests, StartRequest(q)
      PROVE  UNCHANGED <<global, made, open>>
  BY <1>8 DEF StartRequest
<1>9. CASE StartApi
  BY <1>9 DEF StartApi
<1>10. CASE StopApi
  BY <1>10 DEF StopApi, Processes
<1>11. ASSUME NEW p \in Processes, Crash(p)
       PROVE  global' = [global EXCEPT ![p] = None] /\ UNCHANGED <<made, open>>
  BY <1>11 DEF Crash
<1>12. CASE UNCHANGED vars
  BY <1>12 DEF vars
<1> QED
  BY <1>3, <1>4, <1>5, <1>6, <1>7, <1>8, <1>9, <1>10, <1>11, <1>12
     DEF Next, Initialise

\* A new client has the next number, so it is nobody else's.
LEMMA OwnedStep ==
    ASSUME Base, ClientsAreOwned, [Next]_vars
    PROVE  ClientsAreOwned'
<1> USE ClientAssumption DEF Base, TypeOK, ClientsAreOwned, Clients
<1>1. ASSUME NEW p \in Processes, made < MaxClients, made' = made + 1,
             global' = [global EXCEPT ![p] = made + 1]
      PROVE  ClientsAreOwned'
  BY <1>1
<1>2. ASSUME NEW p \in Processes, made' = made,
             global' = [global EXCEPT ![p] = None]
      PROVE  ClientsAreOwned'
  BY <1>2
<1>3. CASE made' = made /\ UNCHANGED global
  BY <1>3
<1> QED
  BY <1>1, <1>2, <1>3, GlobalStep

\* In production nobody else is at work in the process of an API that boots or of
\* a job.
LEMMA Alone ==
    ASSUME Base, ~development, JobsRunInWorkers, OneJobPerWorker,
           NEW a \in {Api} \cup Jobs, a = Api => pc[a] # "live", pc[a] \in Running,
           NEW b \in Actors \ {a}, pc[b] \in HasClient \cup Running
    PROVE  Process(b) # Process(a)
<1> USE ClientAssumption, Roles DEF Base
<1>1. pc[b] \in Running \/ b = Api
  BY DEF StepsByRole, Running, HasClient, InitSteps, Actors
<1>2. CASE a = Api
  BY <1>1, <1>2 DEF OthersNeedTheApi, Process, JobsRunInWorkers, Actors
<1>3. CASE a \in Jobs
  BY <1>1, <1>3 DEF Process, JobsRunInWorkers, OneJobPerWorker, Actors
<1> QED
  BY <1>2, <1>3

\* While the API boots nobody else touches its process, so its client stays open.
LEMMA BootingStep ==
    ASSUME Base, ClientsAreOwned, BootingApiIsReady, [Next]_vars
    PROVE  BootingApiIsReady'
<1> USE ClientAssumption, Roles
        DEF Base, TypeOK, StepsByRole, OthersNeedTheApi, ApiHasClient, Processes,
            Actors, InitSteps, Running, Process, Goto, Usable, ClientsAreOwned,
            BootingApiIsReady, Clients
<1>1. CASE StartApi
  BY <1>1 DEF StartApi
<1>2. CASE StopApi
  BY <1>2 DEF StopApi
<1>3. ASSUME NEW j \in Jobs, StartJob(j) PROVE BootingApiIsReady'
  BY <1>3 DEF StartJob
<1>4. ASSUME NEW j \in Jobs, GetClient(j) PROVE BootingApiIsReady'
  BY <1>4 DEF GetClient
<1>5. ASSUME NEW j \in Jobs, CloseClient(j) PROVE BootingApiIsReady'
  BY <1>5 DEF CloseClient
<1>6. ASSUME NEW q \in Requests, StartRequest(q) PROVE BootingApiIsReady'
  BY <1>6 DEF StartRequest
<1>7. ASSUME NEW a \in Actors, InitRedis(a) PROVE BootingApiIsReady'
  BY <1>7 DEF InitRedis
<1>8. ASSUME NEW a \in Actors, Connect(a) PROVE BootingApiIsReady'
  BY <1>8 DEF Connect
<1>9. ASSUME NEW a \in Actors, Verify(a) PROVE BootingApiIsReady'
  BY <1>9 DEF Verify, Raise
<1>10. ASSUME NEW a \in Actors, CheckCollection(a) PROVE BootingApiIsReady'
  BY <1>10 DEF CheckCollection, Ensured
<1>11. ASSUME NEW a \in Actors, CreateCollection(a) PROVE BootingApiIsReady'
  BY <1>11 DEF CreateCollection, Raise
<1>12. ASSUME NEW a \in Actors, IndexCollection(a) PROVE BootingApiIsReady'
  BY <1>12 DEF IndexCollection, Ensured, Raise
<1>13. ASSUME NEW a \in Actors, Use(a) PROVE BootingApiIsReady'
  BY <1>13 DEF Use
<1>14. ASSUME NEW a \in Actors, Fault(a) PROVE BootingApiIsReady'
  BY <1>14 DEF Fault, Raise
<1>15. ASSUME NEW p \in Processes, Crash(p) PROVE BootingApiIsReady'
  BY <1>15 DEF Crash
<1>16. CASE UNCHANGED vars
  BY <1>16 DEF vars
<1> QED
  BY <1>1, <1>2, <1>3, <1>4, <1>5, <1>6, <1>7, <1>8, <1>9, <1>10, <1>11,
     <1>12, <1>13, <1>14, <1>15, <1>16
     DEF Next, Initialise

\* Who has a client is at work in a process, unless it is the live API itself.
LEMMA AtWork ==
    ASSUME Base, NEW a \in Actors, pc[a] \in HasClient \cup Running
    PROVE  Process(a) \in Processes /\ (pc[a] \in Running \/ a = Api)
<1>1. pc[a] \in Running \/ a = Api
  BY Roles DEF Base, StepsByRole, Running, HasClient, InitSteps, Actors
<1> QED
  BY <1>1, Roles DEF Base, TypeOK, Process, Processes

\* A process without a client has none that is open.
LEMMA NoneIsNotOpen == Base => None \notin open
<1> SUFFICES ASSUME Base, None \in open PROVE FALSE
  OBVIOUS
<1>1. made \in 0..MaxClients /\ None \in 1..made
  BY DEF Base, TypeOK
<1>2. None \in 1..MaxClients
  BY <1>1, ClientAssumption
<1> QED
  BY <1>2, ClientAssumption

\* An exception takes a client from nobody but the API that boots.
LEMMA RaisingKeepsOpen ==
    ASSUME Base, ClientsAreOpen, NEW a \in Actors, pc[a] \in InitSteps \cup {"run", "close"},
           Raise(a), UNCHANGED <<host, open>>
    PROVE  ClientsAreOpen'
<1> USE Roles DEF Base
<1> SUFFICES ASSUME NEW b \in Actors, pc'[b] \in HasClient
             PROVE  global'[Process(b)'] \in open'
  BY DEF ClientsAreOpen
<1>1. Process(b)' = Process(b)
  BY DEF Process
<1>2. CASE a # Api
  <2>1. pc[b] \in HasClient /\ UNCHANGED global
    BY <1>2, RaiseTyped DEF HasClient
  <2> QED
    BY <1>1, <2>1 DEF ClientsAreOpen
<1>3. CASE a = Api
  <2>1. b # Api /\ pc[b] \in HasClient /\ pc[Api] # "live"
        /\ global' = [global EXCEPT ![Api] = None]
    BY <1>3, RaiseTyped DEF HasClient, InitSteps, Goto, TypeOK
  <2>2. pc[b] \in Running
    BY <2>1 DEF StepsByRole, HasClient, Running, InitSteps, Actors
  <2>3. Process(b) # Api /\ Process(b) \in Processes
    BY <2>1, <2>2 DEF OthersNeedTheApi, TypeOK
  <2> QED
    BY <1>1, <2>1, <2>3 DEF ClientsAreOpen, TypeOK
<1> QED
  BY <1>2, <1>3

\* In production a job only starts in a worker, and in one where none runs.
LEMMA WorkersStep ==
    ASSUME Base, ClientsAreOwned, Production, ~development, [Next]_vars
    PROVE  JobsRunInWorkers' /\ OneJobPerWorker'
<1> USE ClientAssumption, Roles
        DEF Base, TypeOK, StepsByRole, OthersNeedTheApi, ApiHasClient, Processes,
            Actors, InitSteps, Running, Process, Goto, Usable, ClientsAreOwned,
            Production, JobsRunInWorkers, OneJobPerWorker, ClientsAreOpen,
            ClientsAreHeld, HasClient, UsesClient, Clients
<1>0. ASSUME NEW a \in Actors, pc[a] \in Running, host' = host,
             \A b \in Actors \ {a} : pc'[b] = pc[b]
      PROVE  JobsRunInWorkers' /\ OneJobPerWorker'
  <2>1. \A j \in Jobs : j \in Actors /\ (pc'[j] \in Running => pc[j] \in Running)
    BY <1>0
  <2>2. JobsRunInWorkers /\ OneJobPerWorker
    OBVIOUS
  <2> HIDE DEF TypeOK, StepsByRole, OthersNeedTheApi, ApiHasClient
  <2> QED
    BY <1>0, <2>1, <2>2 DEF JobsRunInWorkers, OneJobPerWorker
<1>1. CASE StartApi
  BY <1>1 DEF StartApi
<1>2. CASE StopApi
  BY <1>2 DEF StopApi
<1>3. ASSUME NEW j \in Jobs, StartJob(j) PROVE JobsRunInWorkers' /\ OneJobPerWorker'
  BY <1>3 DEF StartJob
<1>4. ASSUME NEW j \in Jobs, GetClient(j) PROVE JobsRunInWorkers' /\ OneJobPerWorker'
  BY <1>4 DEF GetClient
<1>5. ASSUME NEW j \in Jobs, CloseClient(j) PROVE JobsRunInWorkers' /\ OneJobPerWorker'
  BY <1>5 DEF CloseClient
<1>6. ASSUME NEW q \in Requests, StartRequest(q) PROVE JobsRunInWorkers' /\ OneJobPerWorker'
  BY <1>6 DEF StartRequest
<1>7. ASSUME NEW a \in Actors, InitRedis(a) PROVE JobsRunInWorkers' /\ OneJobPerWorker'
  BY <1>7 DEF InitRedis
<1>8. ASSUME NEW a \in Actors, Connect(a) PROVE JobsRunInWorkers' /\ OneJobPerWorker'
  BY <1>8 DEF Connect
<1>9. ASSUME NEW a \in Actors, Verify(a) PROVE JobsRunInWorkers' /\ OneJobPerWorker'
  BY <1>9, SMTT(30) DEF Verify, Raise
<1>10. ASSUME NEW a \in Actors, CheckCollection(a) PROVE JobsRunInWorkers' /\ OneJobPerWorker'
  <2>1. pc[a] \in Running /\ host' = host
    BY <1>10 DEF CheckCollection
  <2>2. \A b \in Actors \ {a} : pc'[b] = pc[b]
    BY <1>10, EnsuredTyped DEF CheckCollection
  <2> QED
    BY <1>0, <2>1, <2>2
<1>11. ASSUME NEW a \in Actors, CreateCollection(a) PROVE JobsRunInWorkers' /\ OneJobPerWorker'
  <2>1. pc[a] \in Running /\ host' = host
    BY <1>11 DEF CreateCollection
  <2>2. \A b \in Actors \ {a} : pc'[b] = pc[b]
    BY <1>11, RaiseTyped DEF CreateCollection
  <2> QED
    BY <1>0, <2>1, <2>2
<1>12. ASSUME NEW a \in Actors, IndexCollection(a) PROVE JobsRunInWorkers' /\ OneJobPerWorker'
  <2>1. pc[a] \in Running /\ host' = host
    BY <1>12 DEF IndexCollection
  <2>2. \A b \in Actors \ {a} : pc'[b] = pc[b]
    BY <1>12, RaiseTyped, EnsuredTyped DEF IndexCollection
  <2> QED
    BY <1>0, <2>1, <2>2
<1>13. ASSUME NEW a \in Actors, Use(a) PROVE JobsRunInWorkers' /\ OneJobPerWorker'
  BY <1>13 DEF Use
<1>14. ASSUME NEW a \in Actors, Fault(a) PROVE JobsRunInWorkers' /\ OneJobPerWorker'
  BY <1>14 DEF Fault, Raise
<1>15. ASSUME NEW p \in Processes, Crash(p) PROVE JobsRunInWorkers' /\ OneJobPerWorker'
  BY <1>15 DEF Crash
<1>16. CASE UNCHANGED vars
  BY <1>16 DEF vars
<1> QED
  BY <1>1, <1>2, <1>3, <1>4, <1>5, <1>6, <1>7, <1>8, <1>9, <1>10, <1>11,
     <1>12, <1>13, <1>14, <1>15, <1>16
     DEF Next, Initialise

\* What closes a client, or takes it from a process, does so where nobody else is
\* at work.
LEMMA OpenStep ==
    ASSUME Base, ClientsAreOwned, Production, ~development, [Next]_vars
    PROVE  ClientsAreOpen'
<1> USE ClientAssumption, Roles
        DEF Base, TypeOK, StepsByRole, OthersNeedTheApi, ApiHasClient, Processes,
            Actors, InitSteps, Running, Process, Goto, Usable, ClientsAreOwned,
            Production, JobsRunInWorkers, OneJobPerWorker, ClientsAreOpen,
            ClientsAreHeld, HasClient, UsesClient, Clients
<1>1. CASE StartApi
  BY <1>1 DEF StartApi
<1>2. CASE StopApi
  <2> SUFFICES ASSUME NEW b \in Actors, pc'[b] \in HasClient
               PROVE  global'[Process(b)'] \in open'
    OBVIOUS
  <2>1. /\ pc[Api] = "live" /\ pc' = [pc EXCEPT ![Api] = "off"]
        /\ \A c \in Actors \ {Api} : pc[c] \in Running => Process(c) # Api
        /\ open' = open \ {global[Api]} /\ global' = [global EXCEPT ![Api] = None]
        /\ host' = host
    BY <1>2 DEF StopApi
  <2>2. b # Api /\ pc[b] \in HasClient
    BY <2>1
  <2>3. Process(b) # Api /\ Process(b) \in Processes
    BY <2>1, <2>2, AtWork
  <2>4. global[Process(b)] \in open
    BY <2>2
  <2>5. global[Process(b)] # None /\ global[Process(b)] # global[Api]
    BY <2>3, <2>4, NoneIsNotOpen
  <2> QED
    BY <2>1, <2>3, <2>4, <2>5
<1>3. ASSUME NEW j \in Jobs, StartJob(j) PROVE ClientsAreOpen'
  BY <1>3 DEF StartJob
<1>4. ASSUME NEW j \in Jobs, GetClient(j) PROVE ClientsAreOpen'
  BY <1>4 DEF GetClient
<1>5. ASSUME NEW j \in Jobs, CloseClient(j) PROVE ClientsAreOpen'
  <2> SUFFICES ASSUME NEW b \in Actors, pc'[b] \in HasClient
               PROVE  global'[Process(b)'] \in open'
    OBVIOUS
  <2>1. b # j /\ pc'[b] = pc[b] /\ Process(b)' = Process(b) /\ global' = global
    BY <1>5 DEF CloseClient
  <2>2. pc[j] = "close" /\ open' = open \ {global[Process(j)]}
    BY <1>5 DEF CloseClient
  <2>3. Process(b) # Process(j)
    BY <2>1, <2>2, Alone
  <2>4. Process(b) \in Processes /\ Process(j) \in Processes
    BY <2>1, <2>2, AtWork
  <2>5. global[Process(b)] \in open
    BY <2>1
  <2>6. global[Process(b)] # None
    BY <2>5, NoneIsNotOpen
  <2>7. global[Process(b)] # global[Process(j)]
    BY <2>3, <2>4, <2>6
  <2> QED
    BY <2>1, <2>2, <2>5, <2>7
<1>6. ASSUME NEW q \in Requests, StartRequest(q) PROVE ClientsAreOpen'
  BY <1>6 DEF StartRequest
<1>7. ASSUME NEW a \in Actors, InitRedis(a) PROVE ClientsAreOpen'
  BY <1>7 DEF InitRedis
<1>8. ASSUME NEW a \in Actors, Connect(a) PROVE ClientsAreOpen'
  BY <1>8 DEF Connect
<1>9. ASSUME NEW a \in Actors, Verify(a) PROVE ClientsAreOpen'
  BY <1>9 DEF Verify, Raise
<1>10. ASSUME NEW a \in Actors, CheckCollection(a) PROVE ClientsAreOpen'
  BY <1>10 DEF CheckCollection, Ensured
<1>11. ASSUME NEW a \in Actors, CreateCollection(a) PROVE ClientsAreOpen'
  <2>1. CASE Raise(a)
    BY <1>11, <2>1, RaisingKeepsOpen DEF CreateCollection
  <2>2. CASE Goto(a, "index") /\ UNCHANGED global
    BY <1>11, <2>2 DEF CreateCollection
  <2> QED
    BY <1>11, <2>1, <2>2 DEF CreateCollection
<1>12. ASSUME NEW a \in Actors, IndexCollection(a) PROVE ClientsAreOpen'
  BY <1>12 DEF IndexCollection, Ensured, Raise
<1>13. ASSUME NEW a \in Actors, Use(a) PROVE ClientsAreOpen'
  BY <1>13 DEF Use
<1>14. ASSUME NEW a \in Actors, Fault(a) PROVE ClientsAreOpen'
  BY <1>14, RaisingKeepsOpen DEF Fault
<1>15. ASSUME NEW p \in Processes, Crash(p) PROVE ClientsAreOpen'
  <2> SUFFICES ASSUME NEW b \in Actors, pc'[b] \in HasClient
               PROVE  global'[Process(b)'] \in open'
    OBVIOUS
  <2>1. pc'[b] = pc[b] /\ Process(b) # p
    <3>1. CASE b = Api
      BY <1>15, <3>1 DEF Crash
    <3>2. CASE b # Api
      <4>1. /\ pc[b] \in Running /\ Process(b) = p => pc'[b] = "failed"
            /\ ~(pc[b] \in Running /\ Process(b) = p) => pc'[b] = pc[b]
        BY <1>15, <3>2 DEF Crash
      <4> QED
        BY <3>2, <4>1, AtWork
    <3> QED
      BY <3>1, <3>2
  <2>2. Process(b)' = Process(b) /\ open' = open
        /\ global' = [global EXCEPT ![p] = None]
    BY <1>15 DEF Crash
  <2> QED
    BY <2>1, <2>2
<1>16. CASE UNCHANGED vars
  BY <1>16 DEF vars
<1> QED
  BY <1>1, <1>2, <1>3, <1>4, <1>5, <1>6, <1>7, <1>8, <1>9, <1>10, <1>11,
     <1>12, <1>13, <1>14, <1>15, <1>16
     DEF Next, Initialise

\* Nobody replaces the client of a process in which another one is at work.
LEMMA HeldStep ==
    ASSUME Base, ClientsAreOwned, Production, ~development, [Next]_vars
    PROVE  ClientsAreHeld'
<1> USE ClientAssumption, Roles
        DEF Base, TypeOK, StepsByRole, OthersNeedTheApi, ApiHasClient, Processes,
            Actors, InitSteps, Running, Process, Goto, Usable, ClientsAreOwned,
            Production, JobsRunInWorkers, OneJobPerWorker, ClientsAreOpen,
            ClientsAreHeld, HasClient, UsesClient, Clients
<1>1. CASE StartApi
  BY <1>1 DEF StartApi
<1>2. CASE StopApi
  BY <1>2 DEF StopApi
<1>3. ASSUME NEW j \in Jobs, StartJob(j) PROVE ClientsAreHeld'
  BY <1>3 DEF StartJob
<1>4. ASSUME NEW j \in Jobs, GetClient(j) PROVE ClientsAreHeld'
  BY <1>4 DEF GetClient
<1>5. ASSUME NEW j \in Jobs, CloseClient(j) PROVE ClientsAreHeld'
  BY <1>5 DEF CloseClient
<1>6. ASSUME NEW q \in Requests, StartRequest(q) PROVE ClientsAreHeld'
  BY <1>6 DEF StartRequest
<1>7. ASSUME NEW a \in Actors, InitRedis(a) PROVE ClientsAreHeld'
  BY <1>7 DEF InitRedis
<1>8. ASSUME NEW a \in Actors, Connect(a) PROVE ClientsAreHeld'
  <2> SUFFICES ASSUME NEW b \in Actors, pc'[b] \in UsesClient
               PROVE  held'[b] = global'[Process(b)']
    OBVIOUS
  <2>1. /\ pc[a] = "connect" /\ pc' = [pc EXCEPT ![a] = "verify"]
        /\ global' = [global EXCEPT ![Process(a)] = made + 1]
        /\ held' = [held EXCEPT ![a] = made + 1] /\ host' = host
    BY <1>8 DEF Connect
  <2>2. CASE b = a
    BY <2>1, <2>2
  <2>3. CASE b # a
    <3>1. pc[b] \in UsesClient /\ a \in {Api} \cup Jobs
      <4>1. pc'[b] = pc[b]
        BY <2>1, <2>3
      <4>2. a \in {Api} \cup Jobs
        <5>1. a \notin Requests
          BY <2>1
        <5> QED
          BY <5>1
      <4> QED
        BY <4>1, <4>2
    <3>2. Process(b) # Process(a)
      BY <2>1, <2>3, <3>1, Alone
    <3> QED
      BY <2>1, <2>3, <3>1, <3>2
  <2> QED
    BY <2>2, <2>3
<1>9. ASSUME NEW a \in Actors, Verify(a) PROVE ClientsAreHeld'
  BY <1>9, SMTT(30) DEF Verify, Raise
<1>10. ASSUME NEW a \in Actors, CheckCollection(a) PROVE ClientsAreHeld'
  BY <1>10 DEF CheckCollection, Ensured
<1>11. ASSUME NEW a \in Actors, CreateCollection(a) PROVE ClientsAreHeld'
  BY <1>11 DEF CreateCollection, Raise
<1>12. ASSUME NEW a \in Actors, IndexCollection(a) PROVE ClientsAreHeld'
  BY <1>12 DEF IndexCollection, Ensured, Raise
<1>13. ASSUME NEW a \in Actors, Use(a) PROVE ClientsAreHeld'
  BY <1>13 DEF Use
<1>14. ASSUME NEW a \in Actors, Fault(a) PROVE ClientsAreHeld'
  BY <1>14 DEF Fault, Raise
<1>15. ASSUME NEW p \in Processes, Crash(p) PROVE ClientsAreHeld'
  BY <1>15 DEF Crash
<1>16. CASE UNCHANGED vars
  BY <1>16 DEF vars
<1> QED
  BY <1>1, <1>2, <1>3, <1>4, <1>5, <1>6, <1>7, <1>8, <1>9, <1>10, <1>11,
     <1>12, <1>13, <1>14, <1>15, <1>16
     DEF Next, Initialise

\* So who uses a client finds it open.
LEMMA RefusedStep ==
    ASSUME Base, ClientsAreOwned, Production, ~development, [Next]_vars
    PROVE  refused' = {}
<1> USE ClientAssumption, Roles
        DEF Base, TypeOK, StepsByRole, OthersNeedTheApi, ApiHasClient, Processes,
            Actors, InitSteps, Running, Process, Goto, Usable, ClientsAreOwned,
            Production, JobsRunInWorkers, OneJobPerWorker, ClientsAreOpen,
            ClientsAreHeld, HasClient, UsesClient, Clients
<1>1. CASE StartApi
  BY <1>1 DEF StartApi
<1>2. CASE StopApi
  BY <1>2 DEF StopApi
<1>3. ASSUME NEW j \in Jobs, StartJob(j) PROVE refused' = {}
  BY <1>3 DEF StartJob
<1>4. ASSUME NEW j \in Jobs, GetClient(j) PROVE refused' = {}
  BY <1>4 DEF GetClient
<1>5. ASSUME NEW j \in Jobs, CloseClient(j) PROVE refused' = {}
  BY <1>5 DEF CloseClient
<1>6. ASSUME NEW q \in Requests, StartRequest(q) PROVE refused' = {}
  BY <1>6 DEF StartRequest
<1>7. ASSUME NEW a \in Actors, InitRedis(a) PROVE refused' = {}
  BY <1>7 DEF InitRedis
<1>8. ASSUME NEW a \in Actors, Connect(a) PROVE refused' = {}
  BY <1>8 DEF Connect
<1>9. ASSUME NEW a \in Actors, Verify(a) PROVE refused' = {}
  BY <1>9 DEF Verify, Raise
<1>10. ASSUME NEW a \in Actors, CheckCollection(a) PROVE refused' = {}
  BY <1>10 DEF CheckCollection, Ensured
<1>11. ASSUME NEW a \in Actors, CreateCollection(a) PROVE refused' = {}
  BY <1>11 DEF CreateCollection, Raise
<1>12. ASSUME NEW a \in Actors, IndexCollection(a) PROVE refused' = {}
  BY <1>12 DEF IndexCollection, Ensured, Raise
<1>13. ASSUME NEW a \in Actors, Use(a) PROVE refused' = {}
  BY <1>13 DEF Use
<1>14. ASSUME NEW a \in Actors, Fault(a) PROVE refused' = {}
  BY <1>14 DEF Fault, Raise
<1>15. ASSUME NEW p \in Processes, Crash(p) PROVE refused' = {}
  BY <1>15 DEF Crash
<1>16. CASE UNCHANGED vars
  BY <1>16 DEF vars
<1> QED
  BY <1>1, <1>2, <1>3, <1>4, <1>5, <1>6, <1>7, <1>8, <1>9, <1>10, <1>11,
     <1>12, <1>13, <1>14, <1>15, <1>16
     DEF Next, Initialise

-----------------------------------------------------------------------------
(* The collections.                                                          *)

\* Who indexes a collection can reach Qdrant: in production with its own client,
\* in development because only the booting API gets that far.
LEMMA IndexerIsUsable ==
    ASSUME Base, BootingApiIsReady, Production, JobsFindCollections,
           NEW a \in Actors, pc[a] = "index"
    PROVE  Usable(a)
<1>1. CASE a = Api
  BY <1>1 DEF BootingApiIsReady, Usable
<1>2. CASE a \in Jobs
  BY <1>2 DEF JobsFindCollections, Production, ClientsAreOpen, ClientsAreHeld, Usable,
     HasClient, UsesClient
<1> QED
  BY <1>1, <1>2, Roles DEF Base, StepsByRole, Actors

\* A job that runs in development finds the collection it looks for, or cannot
\* reach Qdrant at all.
LEMMA JobsStep ==
    ASSUME Base, JobsFindCollections, CollectionsAreExplained, [Next]_vars
    PROVE  JobsFindCollections'
<1> USE ClientAssumption, Roles
        DEF Base, TypeOK, StepsByRole, OthersNeedTheApi, Actors, InitSteps, Running,
            Process, Goto, Usable, JobsFindCollections, CollectionsAreExplained
<1>1. CASE StartApi
  BY <1>1 DEF StartApi
<1>2. CASE StopApi
  BY <1>2 DEF StopApi
<1>3. ASSUME NEW j \in Jobs, StartJob(j) PROVE JobsFindCollections'
  BY <1>3 DEF StartJob
<1>4. ASSUME NEW j \in Jobs, GetClient(j) PROVE JobsFindCollections'
  BY <1>4 DEF GetClient
<1>5. ASSUME NEW j \in Jobs, CloseClient(j) PROVE JobsFindCollections'
  BY <1>5 DEF CloseClient
<1>6. ASSUME NEW q \in Requests, StartRequest(q) PROVE JobsFindCollections'
  BY <1>6 DEF StartRequest
<1>7. ASSUME NEW a \in Actors, InitRedis(a) PROVE JobsFindCollections'
  BY <1>7 DEF InitRedis
<1>8. ASSUME NEW a \in Actors, Connect(a) PROVE JobsFindCollections'
  BY <1>8 DEF Connect
<1>9. ASSUME NEW a \in Actors, Verify(a) PROVE JobsFindCollections'
  BY <1>9 DEF Verify, Raise
<1>10. ASSUME NEW a \in Actors, CheckCollection(a) PROVE JobsFindCollections'
  BY <1>10 DEF CheckCollection, Ensured
<1>11. ASSUME NEW a \in Actors, CreateCollection(a) PROVE JobsFindCollections'
  BY <1>11 DEF CreateCollection, Raise
<1>12. ASSUME NEW a \in Actors, IndexCollection(a) PROVE JobsFindCollections'
  BY <1>12 DEF IndexCollection, Ensured, Raise
<1>13. ASSUME NEW a \in Actors, Use(a) PROVE JobsFindCollections'
  BY <1>13 DEF Use
<1>14. ASSUME NEW a \in Actors, Fault(a) PROVE JobsFindCollections'
  BY <1>14 DEF Fault, Raise
<1>15. ASSUME NEW p \in Processes, Crash(p) PROVE JobsFindCollections'
  BY <1>15 DEF Crash
<1>16. CASE UNCHANGED vars
  BY <1>16 DEF vars
<1> QED
  BY <1>1, <1>2, <1>3, <1>4, <1>5, <1>6, <1>7, <1>8, <1>9, <1>10, <1>11,
     <1>12, <1>13, <1>14, <1>15, <1>16
     DEF Next, Initialise

\* Nobody leaves a collection without its indexes but by failing at them.
LEMMA CollectionsStep ==
    ASSUME Base, ClientsAreOwned, BootingApiIsReady, Production, JobsFindCollections,
           CollectionsAreExplained, [Next]_vars
    PROVE  CollectionsAreExplained'
<1> USE ClientAssumption, Roles
        DEF Base, TypeOK, StepsByRole, OthersNeedTheApi, Actors, InitSteps, Running,
            Process, Goto, CollectionsAreExplained, Explained
<1>1. CASE StartApi
  BY <1>1 DEF StartApi
<1>2. CASE StopApi
  BY <1>2 DEF StopApi
<1>3. ASSUME NEW j \in Jobs, StartJob(j) PROVE CollectionsAreExplained'
  BY <1>3 DEF StartJob
<1>4. ASSUME NEW j \in Jobs, GetClient(j) PROVE CollectionsAreExplained'
  BY <1>4 DEF GetClient
<1>5. ASSUME NEW j \in Jobs, CloseClient(j) PROVE CollectionsAreExplained'
  BY <1>5 DEF CloseClient
<1>6. ASSUME NEW q \in Requests, StartRequest(q) PROVE CollectionsAreExplained'
  BY <1>6 DEF StartRequest
<1>7. ASSUME NEW a \in Actors, InitRedis(a) PROVE CollectionsAreExplained'
  BY <1>7 DEF InitRedis
<1>8. ASSUME NEW a \in Actors, Connect(a) PROVE CollectionsAreExplained'
  BY <1>8 DEF Connect
<1>9. ASSUME NEW a \in Actors, Verify(a) PROVE CollectionsAreExplained'
  <2>1. pc[a] = "verify" /\ coll' = coll /\ interrupted' = interrupted
    BY <1>9 DEF Verify
  <2>2. CASE Raise(a) /\ UNCHANGED at
    BY <2>1, <2>2, RaiseTyped
  <2>3. CASE Goto(a, "check") /\ at' = [at EXCEPT ![a] = 1]
    BY <2>1, <2>3
  <2> QED
    BY <1>9, <2>2, <2>3 DEF Verify
<1>10. ASSUME NEW a \in Actors, CheckCollection(a) PROVE CollectionsAreExplained'
  <2>1. pc[a] = "check" /\ coll' = coll /\ interrupted' = interrupted
    BY <1>10 DEF CheckCollection
  <2>2. CASE Goto(a, "create") /\ UNCHANGED at
    BY <2>1, <2>2
  <2>3. CASE coll[at[a]] # "absent" /\ Ensured(a)
    <3>1. /\ \A b \in Actors \ {a} : pc'[b] = pc[b] /\ at'[b] = at[b]
          /\ pc'[a] \in IF a = Api THEN {"check", "live"} ELSE {"check", "get"}
          /\ pc'[a] = "check" => at'[a] = at[a] + 1
          /\ pc'[a] # "check" => at[a] = Collections
      BY <2>1, <2>3, EnsuredTyped DEF Ensured
    <3>2. \A k \in 1..Collections : Explained(k)'
      <4> SUFFICES ASSUME NEW k \in 1..Collections, coll'[k] = "bare", k \notin interrupted
                   PROVE  \E b \in Actors : pc'[b] = "index" /\ at'[b] = k
        BY <2>1
      <4>1. PICK b \in Actors : pc[b] = "index" /\ at[b] = k
        BY <2>1
      <4> QED
        BY <2>1, <3>1, <4>1
    <3>3. pc'[Api] = "live" => \A k \in 1..Collections : coll'[k] # "absent"
      BY <2>1, <2>3, <3>1
    <3>4. pc'[Api] \in {"check", "create", "index"} =>
              \A k \in 1..(at'[Api] - 1) : coll'[k] # "absent"
      BY <2>1, <2>3, <3>1
    <3>5. \A b \in Actors : pc'[b] = "index" => coll'[at'[b]] # "absent"
      BY <2>1, <3>1
    <3> QED
      BY <3>2, <3>3, <3>4, <3>5
  <2> QED
    BY <1>10, <2>2, <2>3 DEF CheckCollection
<1>11. ASSUME NEW a \in Actors, CreateCollection(a) PROVE CollectionsAreExplained'
  BY <1>11 DEF CreateCollection, Raise
<1>12. ASSUME NEW a \in Actors, IndexCollection(a) PROVE CollectionsAreExplained'
  <2>1. /\ pc[a] = "index" /\ Ensured(a)
        /\ coll' = [coll EXCEPT ![at[a]] = "indexed"] /\ interrupted' = interrupted
    BY <1>12, IndexerIsUsable DEF IndexCollection
  <2>2. /\ \A b \in Actors \ {a} : pc'[b] = pc[b] /\ at'[b] = at[b]
        /\ pc'[a] \in IF a = Api THEN {"check", "live"} ELSE {"check", "get"}
        /\ pc'[a] = "check" => at'[a] = at[a] + 1
        /\ pc'[a] # "check" => at[a] = Collections
    BY <2>1, EnsuredTyped DEF Ensured
  <2>3. \A k \in 1..Collections :
            coll'[k] = IF k = at[a] THEN "indexed" ELSE coll[k]
    BY <2>1
  <2>4. \A k \in 1..Collections : Explained(k)'
    <3> SUFFICES ASSUME NEW k \in 1..Collections, coll'[k] = "bare", k \notin interrupted
                 PROVE  \E b \in Actors : pc'[b] = "index" /\ at'[b] = k
      BY <2>1
    <3>1. k # at[a] /\ coll[k] = "bare"
      BY <2>3
    <3>2. PICK b \in Actors : pc[b] = "index" /\ at[b] = k
      BY <3>1
    <3> QED
      BY <2>2, <3>1, <3>2, SMTT(30)
  <2>5. pc'[Api] = "live" => \A k \in 1..Collections : coll'[k] # "absent"
    BY <2>1, <2>2, <2>3
  <2>6. pc'[Api] \in {"check", "create", "index"} =>
            \A k \in 1..(at'[Api] - 1) : coll'[k] # "absent"
    BY <2>1, <2>2, <2>3
  <2>7. \A b \in Actors : pc'[b] = "index" => coll'[at'[b]] # "absent"
    BY <2>1, <2>2, <2>3
  <2> QED
    BY <2>4, <2>5, <2>6, <2>7
<1>13. ASSUME NEW a \in Actors, Use(a) PROVE CollectionsAreExplained'
  BY <1>13 DEF Use
<1>14. ASSUME NEW a \in Actors, Fault(a) PROVE CollectionsAreExplained'
  BY <1>14 DEF Fault, Raise, LeftBare
<1>15. ASSUME NEW p \in Processes, Crash(p) PROVE CollectionsAreExplained'
  BY <1>15 DEF Crash, LeftBare
<1>16. CASE UNCHANGED vars
  BY <1>16 DEF vars
<1> QED
  BY <1>1, <1>2, <1>3, <1>4, <1>5, <1>6, <1>7, <1>8, <1>9, <1>10, <1>11,
     <1>12, <1>13, <1>14, <1>15, <1>16
     DEF Next, Initialise

-----------------------------------------------------------------------------
(* The theorems.                                                             *)

\* The invariant holds at first,
LEMMA InitIInv == Init => IInv
<1> SUFFICES ASSUME Init PROVE IInv
  OBVIOUS
<1>1. Base
  BY BaseInit
<1>2. pc = [a \in Actors |-> IF a = Api THEN "off" ELSE "idle"]
  BY DEF Init
<1>3. ClientsAreOwned
  BY DEF Init, ClientsAreOwned
<1>4. BootingApiIsReady /\ JobsFindCollections
  BY <1>2, Roles DEF BootingApiIsReady, JobsFindCollections, Actors, Running, InitSteps
<1>5. Production
  BY <1>2, Roles DEF Init, Production, JobsRunInWorkers, OneJobPerWorker, ClientsAreOpen,
     ClientsAreHeld, HasClient, UsesClient, Actors, Running, InitSteps
<1>6. CollectionsAreExplained
  BY <1>2, Roles DEF Init, CollectionsAreExplained, Explained, Actors
<1> QED
  BY <1>1, <1>3, <1>4, <1>5, <1>6 DEF IInv

\* every step preserves it,
LEMMA NextIInv == IInv /\ [Next]_vars => IInv'
<1> SUFFICES ASSUME IInv, [Next]_vars PROVE IInv'
  OBVIOUS
<1> USE DEF IInv
<1>1. Base' /\ ClientsAreOwned' /\ BootingApiIsReady' /\ JobsFindCollections'
      /\ CollectionsAreExplained'
  BY BaseStep, OwnedStep, BootingStep, JobsStep, CollectionsStep
<1>2. development' = development
  BY DEF Next, vars, StartApi, StopApi, StartJob, GetClient, CloseClient, StartRequest,
     Initialise, InitRedis, Connect, Verify, CheckCollection, CreateCollection,
     IndexCollection, Use, Fault, Crash
<1>3. Production'
  BY <1>2, WorkersStep, OpenStep, HeldStep, RefusedStep DEF Production
<1> QED
  BY <1>1, <1>3

\* and so it holds throughout.
LEMMA Invariance == Spec => []IInv
BY InitIInv, NextIInv, PTL DEF Spec

\* Every client a process or an actor holds was made, every actor is at a step,
\* and a live API has a client.
THEOREM TypeCorrect == Spec => []TypeOK
<1>1. IInv => TypeOK
  BY DEF IInv, Base
<1> QED
  BY <1>1, Invariance, PTL

\* In production, for any number of workers, jobs and requests, nobody is handed a
\* client that somebody else has closed.
THEOREM NobodyIsRefused == Spec => []UsableInProduction
<1>1. IInv => UsableInProduction
  BY DEF IInv, Production, UsableInProduction
<1> QED
  BY <1>1, Invariance, PTL

\* A live API finds every collection, however many there are and whoever creates
\* them at the same time, and its indexes unless they are being created or who was
\* creating them failed just then, however many failures there are elsewhere.
THEOREM Readiness == Spec => []LiveIsReady
<1>1. IInv => LiveIsReady
  <2> SUFFICES ASSUME IInv, pc[Api] = "live", NEW k \in 1..Collections
               PROVE  /\ coll[k] # "absent"
                      /\ coll[k] = "bare" =>
                             k \in interrupted \/ \E a \in Jobs : pc[a] = "index" /\ at[a] = k
    BY DEF LiveIsReady
  <2>1. coll[k] # "absent" /\ Explained(k)
    BY DEF IInv, CollectionsAreExplained
  <2>2. \A a \in Actors : pc[a] = "index" => a \in Jobs
    BY Roles DEF IInv, Base, StepsByRole, Actors
  <2> QED
    BY <2>1, <2>2 DEF Explained
<1> QED
  BY <1>1, Invariance, PTL
=============================================================================
