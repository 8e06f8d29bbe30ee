---------------------------- MODULE ServerProofs ----------------------------
(***************************************************************************)
(* Migrations and configuration of Server, for any number of instances,    *)
(* starts, requests and migrations.                                        *)
(***************************************************************************)
EXTENDS Server, TLAPS

Held == {"version", "mark", "script", "clear"}
Changing == {"mark", "script", "clear"}
Serving == {"connect", "select", "draining", "closing"}

(***************************************************************************)
(* The inductive invariant.                                                *)
(***************************************************************************)

(* What the holder of the lock knows when statement is next. *)
Phase(statement, v) ==
  /\ v \in 1 .. Latest
  /\ statement = "mark"   => ~dirty /\ version = v - 1 /\ schema = 1 .. v - 1
  /\ statement = "script" => dirty /\ version = v /\ schema = 1 .. v - 1
  /\ statement = "clear"  => dirty /\ version = v /\ schema = 1 .. v

Migrated == version = Latest /\ ~dirty /\ schema = 1 .. Latest

LockAt(i)  == pc[i] \in Held <=> locker = i
PhaseAt(i) == pc[i] \in Changing => Phase(pc[i], target[i])
ServeAt(i) == /\ pc[i] \in Serving => Migrated
              /\ srv[i] # "off" => pc[i] \in Serving
ConfigAt(i) ==
  /\ pc[i] \notin {"down", "load"} => ~Rejected(env[i])
  /\ pc[i] \in Held \cup Serving => "url_malformed" \notin env[i]
  /\ srv[i] # "off" => "url_pgx5" \notin env[i]
  /\ srv[i] = "accepting" => "port_bad" \notin env[i]
AtOK(i) == LockAt(i) /\ PhaseAt(i) /\ ServeAt(i) /\ ConfigAt(i)

(* A session that was left behind knows what its instance knew. *)
OrphanOK == (locker = Orphan /\ orphan.statement \in Changing) =>
              Phase(orphan.statement, orphan.target)

ServerInv == TypeOK /\ SchemaMatchesVersion /\ OrphanOK /\ \A i \in Instances : AtOK(i)

(***************************************************************************)
(* Parts of the type invariant                                             *)
(***************************************************************************)
TableType == version \in 0 .. Latest /\ dirty \in BOOLEAN /\ schema \subseteq 1 .. Latest
SessionType ==
  /\ locker \in Instances \cup {Nobody, Orphan}
  /\ orphan \in [statement : MigrateLabels \cup {"none"}, target : 0 .. Latest]
ProcessType ==
  /\ pc \in [Instances -> MigrateLabels \cup {"down", "load", "connect", "select",
                                              "draining", "closing"}]
  /\ srv \in [Instances -> {"off", "starting", "accepting", "failed", "closed"}]
  /\ env \in [Instances -> SUBSET Faults] /\ target \in [Instances -> 0 .. Latest]
  /\ signalled \subseteq Instances /\ code \in [Instances -> {0, 1, Killed}]
  /\ boots \in 0 .. MaxBoots
TrafficType ==
  /\ dbUp \in BOOLEAN /\ rotation \subseteq Instances
  /\ request \in [Requests -> [at : Instances \cup {Nobody},
                               state : {"none", "working", "querying", "answered", "cut"}]]

LEMMA TypeParts ==
  TypeOK <=> TableType /\ SessionType /\ ProcessType /\ TrafficType
BY DEF TypeOK, TableType, SessionType, ProcessType, TrafficType

LEMMA TypePartsNext ==
  ASSUME TableType', SessionType', ProcessType', TrafficType'
  PROVE  TypeOK'
BY DEF TypeOK, TableType, SessionType, ProcessType, TrafficType

(***************************************************************************)
(* Frame                                                                   *)
(***************************************************************************)
SameFor(j) == pc'[j] = pc[j] /\ srv'[j] = srv[j] /\ env'[j] = env[j] /\ target'[j] = target[j]

(* A step of instance i that leaves the migrated schema as it is. *)
LEMMA InstanceStep ==
  ASSUME ServerInv, NEW i \in Instances, UNCHANGED <<version, dirty, schema>>,
         \A j \in Instances \ {i} : SameFor(j) /\ (locker' = j <=> locker = j),
         SessionType', ProcessType', TrafficType', OrphanOK', AtOK(i)'
  PROVE  ServerInv'
<1>1. TableType' /\ SchemaMatchesVersion'
  BY TypeParts DEF ServerInv, TableType, SchemaMatchesVersion
<1>2. ASSUME NEW j \in Instances \ {i} PROVE AtOK(j)'
  <2>1. AtOK(j)
    BY DEF ServerInv
  <2>2. SameFor(j) /\ (locker' = j <=> locker = j)
    OBVIOUS
  <2> QED BY <2>1, <2>2 DEF SameFor, AtOK, LockAt, PhaseAt, ServeAt, ConfigAt, Phase, Migrated
<1>3. TypeOK'
  BY <1>1, TypePartsNext
<1> QED BY <1>1, <1>2, <1>3 DEF ServerInv

(* The same when it does not touch the session of the migrations either. *)
LEMMA OwnStep ==
  ASSUME ServerInv, NEW i \in Instances, UNCHANGED database,
         \A j \in Instances \ {i} : SameFor(j),
         ProcessType', TrafficType', AtOK(i)'
  PROVE  ServerInv'
<1>1. SessionType' /\ OrphanOK'
  BY TypeParts DEF ServerInv, database, SessionType, OrphanOK, Phase
<1>2. UNCHANGED <<version, dirty, schema, locker>>
  BY DEF database
<1> QED BY <1>1, <1>2, InstanceStep

(* A step that changes neither the database nor the processes. *)
LEMMA TrafficStep ==
  ASSUME ServerInv, UNCHANGED <<database, process>>, TrafficType'
  PROVE  ServerInv'
<1>1. TableType' /\ SessionType' /\ ProcessType' /\ OrphanOK' /\ SchemaMatchesVersion'
  BY TypeParts DEF ServerInv, database, process, TableType, SessionType, ProcessType,
                   OrphanOK, Phase, SchemaMatchesVersion
<1>2. ASSUME NEW j \in Instances PROVE AtOK(j)'
  BY DEF ServerInv, database, process, AtOK, LockAt, PhaseAt, ServeAt, ConfigAt, Phase, Migrated
<1> QED BY <1>1, <1>2, TypePartsNext DEF ServerInv

(* The process of i is gone. *)
LEMMA ExitFacts ==
  ASSUME ServerInv, NEW i \in Instances, NEW result \in {0, 1, Killed}, Exit(i, result),
         UNCHANGED <<dbUp, rotation>>
  PROVE  /\ pc'[i] = "down" /\ srv'[i] = "off" /\ env'[i] = {} /\ target'[i] = 0
         /\ \A j \in Instances \ {i} : SameFor(j)
         /\ ProcessType' /\ TrafficType'
<1>1. ProcessType /\ TrafficType
  BY TypeParts DEF ServerInv
<1>2. /\ pc' = [pc EXCEPT ![i] = "down"] /\ srv' = [srv EXCEPT ![i] = "off"]
      /\ env' = [env EXCEPT ![i] = {}] /\ target' = [target EXCEPT ![i] = 0]
      /\ code' = [code EXCEPT ![i] = result] /\ signalled' = signalled \ {i} /\ boots' = boots
  BY DEF Exit, Goto
<1>3. ProcessType'
  <2>1. 0 \in 0 .. Latest
    BY ServerAssumption
  <2> QED BY <1>1, <1>2, <2>1 DEF ProcessType
<1>4. TrafficType'
  <2>1. ASSUME NEW q \in Requests
        PROVE  [request[q] EXCEPT !.state = "cut"] \in
                 [at : Instances \cup {Nobody},
                  state : {"none", "working", "querying", "answered", "cut"}]
    BY <1>1 DEF TrafficType
  <2> QED BY <1>1, <2>1 DEF Exit, Cut, TrafficType
<1> QED BY <1>1, <1>2, <1>3, <1>4 DEF SameFor, ProcessType

LEMMA DownOK ==
  ASSUME NEW i \in Instances, pc'[i] = "down", srv'[i] = "off", locker' # i
  PROVE  AtOK(i)'
BY DEF AtOK, LockAt, PhaseAt, ServeAt, ConfigAt, Held, Changing, Serving

(***************************************************************************)
(* Steps outside the migrations                                            *)
(***************************************************************************)
LEMMA InitOK == Init => ServerInv
<1> SUFFICES ASSUME Init PROVE ServerInv
  OBVIOUS
<1> USE DEF Init
<1>1. TypeOK
  <2>1. 0 \in 0 .. Latest /\ 0 \in 0 .. MaxBoots
    BY ServerAssumption
  <2>2. TableType
    BY <2>1 DEF TableType
  <2>3. SessionType
    BY <2>1 DEF SessionType
  <2>4. ProcessType
    BY <2>1 DEF ProcessType
  <2>5. TrafficType
    BY DEF TrafficType, NoRequest
  <2> QED BY <2>2, <2>3, <2>4, <2>5, TypeParts
<1>2. SchemaMatchesVersion /\ OrphanOK
  BY ServerAssumption DEF SchemaMatchesVersion, OrphanOK
<1>3. \A i \in Instances : AtOK(i)
  BY ServerAssumption DEF AtOK, LockAt, PhaseAt, ServeAt, ConfigAt, Held, Changing, Serving
<1> QED BY <1>1, <1>2, <1>3 DEF ServerInv

LEMMA BootOK ==
  ASSUME ServerInv, NEW i \in Instances, NEW e \in Environments, Boot(i, e)
  PROVE  ServerInv'
<1>1. ProcessType /\ TrafficType /\ AtOK(i)
  BY TypeParts DEF ServerInv
<1>2. /\ pc[i] = "down" /\ boots < MaxBoots /\ boots' = boots + 1
      /\ env' = [env EXCEPT ![i] = e] /\ pc' = [pc EXCEPT ![i] = "load"]
      /\ UNCHANGED <<dbUp, database, srv, target, signalled, code, request, rotation>>
  BY DEF Boot, Goto
<1>3. e \in SUBSET Faults
  BY ServerAssumption
<1>4. boots' \in 0 .. MaxBoots
  BY <1>1, <1>2, ServerAssumption DEF ProcessType
<1>5. ProcessType' /\ TrafficType'
  BY <1>1, <1>2, <1>3, <1>4 DEF ProcessType, TrafficType
<1>6. pc'[i] = "load" /\ srv'[i] = "off" /\ locker' = locker
      /\ \A j \in Instances \ {i} : SameFor(j)
  BY <1>1, <1>2 DEF ProcessType, SameFor, AtOK, ServeAt, Serving, database
<1>7. AtOK(i)'
  BY <1>1, <1>2, <1>6 DEF AtOK, LockAt, PhaseAt, ServeAt, ConfigAt, Held, Changing, Serving
<1> QED BY <1>2, <1>5, <1>6, <1>7, OwnStep

LEMMA LoadOK ==
  ASSUME ServerInv, NEW i \in Instances, Load(i)
  PROVE  ServerInv'
<1>1. ProcessType /\ TrafficType /\ AtOK(i)
  BY TypeParts DEF ServerInv
<1>2. pc[i] = "load" /\ UNCHANGED <<dbUp, database, rotation>> /\ locker' = locker
  BY DEF Load, database
<1>3. locker # i /\ srv[i] = "off"
  BY <1>1, <1>2 DEF AtOK, LockAt, ServeAt, Held, Serving
<1>4. CASE Rejected(env[i])
  <2>1. Exit(i, 1)
    BY <1>4 DEF Load
  <2> QED BY <1>2, <1>3, <2>1, ExitFacts, DownOK, OwnStep
<1>5. CASE ~Rejected(env[i])
  <2>1. pc' = [pc EXCEPT ![i] = "lock"]
        /\ UNCHANGED <<srv, env, target, signalled, code, boots, request>>
    BY <1>5 DEF Load, Goto
  <2>2. ProcessType' /\ TrafficType'
    BY <1>1, <1>2, <2>1 DEF ProcessType, TrafficType, MigrateLabels
  <2>3. pc'[i] = "lock" /\ \A j \in Instances \ {i} : SameFor(j)
    BY <1>1, <2>1 DEF ProcessType, SameFor
  <2>4. AtOK(i)'
    <3>1. env'[i] = env[i] /\ srv'[i] = "off"
      BY <1>3, <2>1
    <3>2. (~Rejected(env[i]))'
      BY <1>5, <3>1 DEF Rejected
    <3> QED BY <1>2, <1>3, <2>3, <3>1, <3>2
            DEF AtOK, LockAt, PhaseAt, ServeAt, ConfigAt, Held, Changing, Serving
  <2> QED BY <1>2, <2>2, <2>3, <2>4, OwnStep
<1> QED BY <1>4, <1>5

(* Steps of an instance that has migrated: it may go on, fail or close, and
   begins to accept only on a port it can have. *)
LEMMA ServingStep ==
  ASSUME ServerInv, NEW i \in Instances, pc[i] \in Serving,
         NEW l \in Serving, NEW x \in {"off", "starting", "accepting", "failed", "closed"},
         pc' = [pc EXCEPT ![i] = l], srv' = [srv EXCEPT ![i] = x],
         x # "off" => srv[i] # "off" \/ "url_pgx5" \notin env[i],
         x = "accepting" => srv[i] = "accepting" \/ "port_bad" \notin env[i],
         NEW result \in {0, 1, Killed}, code' = [code EXCEPT ![i] = result],
         signalled' \subseteq Instances,
         UNCHANGED <<dbUp, database, env, target, boots, request, rotation>>
  PROVE  ServerInv'
<1>1. ProcessType /\ TrafficType /\ AtOK(i)
  BY TypeParts DEF ServerInv
<1>2. ProcessType' /\ TrafficType'
  BY <1>1 DEF ProcessType, TrafficType, Serving
<1>3. pc'[i] = l /\ srv'[i] = x /\ env'[i] = env[i] /\ \A j \in Instances \ {i} : SameFor(j)
  BY <1>1 DEF ProcessType, SameFor
<1>4. UNCHANGED <<version, dirty, schema, locker>>
  BY DEF database
<1>5. AtOK(i)'
  <2>1. LockAt(i)' /\ PhaseAt(i)'
    BY <1>1, <1>3, <1>4 DEF AtOK, LockAt, PhaseAt, Held, Changing, Serving
  <2>2. ServeAt(i)'
    BY <1>1, <1>3, <1>4 DEF AtOK, ServeAt, Migrated
  <2>3. ~Rejected(env[i]) /\ "url_malformed" \notin env[i]
    BY <1>1 DEF AtOK, ConfigAt, Serving
  <2>4. /\ srv[i] # "off" => "url_pgx5" \notin env[i]
        /\ srv[i] = "accepting" => "port_bad" \notin env[i]
    BY <1>1 DEF AtOK, ConfigAt
  <2>5. (~Rejected(env[i]))'
    BY <1>3, <2>3 DEF Rejected
  <2> QED BY <1>3, <2>1, <2>2, <2>3, <2>4, <2>5 DEF AtOK, ConfigAt
<1> QED BY <1>2, <1>3, <1>5, OwnStep

LEMMA ServingOK ==
  ASSUME ServerInv, NEW i \in Instances,
         \/ Start(i) \/ Listen(i) \/ Signal(i) \/ ListenFailed(i)
         \/ Shutdown(i) \/ Drained(i) \/ DrainTimeout(i)
  PROVE  ServerInv'
<1>1. ProcessType /\ AtOK(i)
  BY TypeParts DEF ServerInv
<1>2. /\ code = [code EXCEPT ![i] = code[i]] /\ code[i] \in {0, 1, Killed}
      /\ srv = [srv EXCEPT ![i] = srv[i]] /\ pc = [pc EXCEPT ![i] = pc[i]]
      /\ srv[i] \in {"off", "starting", "accepting", "failed", "closed"}
      /\ signalled \subseteq Instances
  BY <1>1 DEF ProcessType
<1>3. srv[i] # "off" => pc[i] \in Serving
  BY <1>1 DEF AtOK, ServeAt
<1>4. CASE Start(i)
  <2>1. pc[i] = "connect" /\ UNCHANGED <<dbUp, database, rotation>>
    BY <1>4 DEF Start
  <2>2. CASE "url_pgx5" \in env[i]
    <3>1. Exit(i, 1)
      BY <1>4, <2>2 DEF Start
    <3>2. locker' # i
      BY <1>1, <2>1 DEF AtOK, LockAt, Held, database
    <3> QED BY <2>1, <3>1, <3>2, ExitFacts, DownOK, OwnStep
  <2>3. CASE "url_pgx5" \notin env[i]
    BY <1>2, <1>4, <2>3, ServingStep DEF Start, Goto, Serving
  <2> QED BY <2>2, <2>3
<1>5. CASE Listen(i)
  <2>1. pc[i] \in Serving
    BY <1>3, <1>5 DEF Listen
  <2>2. PICK x \in {"closed", "failed", "accepting"} :
          /\ srv' = [srv EXCEPT ![i] = x]
          /\ x = "accepting" => "port_bad" \notin env[i]
    BY <1>5 DEF Listen
  <2> QED BY <1>2, <1>5, <2>1, <2>2, ServingStep DEF Listen
<1>6. CASE Signal(i)
  BY <1>2, <1>6, ServingStep DEF Signal, Serving
<1>7. CASE ListenFailed(i)
  BY <1>2, <1>7, ServingStep DEF ListenFailed, Goto, Serving
<1>8. CASE Shutdown(i)
  <2>1. PICK x \in {"off", "starting", "failed", "closed"} : srv' = [srv EXCEPT ![i] = x]
    BY <1>2, <1>8 DEF Shutdown
  <2> QED BY <1>2, <1>8, <2>1, ServingStep DEF Shutdown, Goto, Serving
<1>9. CASE Drained(i)
  BY <1>2, <1>9, ServingStep DEF Drained, Goto, Serving
<1>10. CASE DrainTimeout(i)
  BY <1>2, <1>10, ServingStep DEF DrainTimeout, Goto, Serving
<1> QED BY <1>4, <1>5, <1>6, <1>7, <1>8, <1>9, <1>10

LEMMA ClosePoolOK ==
  ASSUME ServerInv, NEW i \in Instances, ClosePool(i)
  PROVE  ServerInv'
<1>1. ProcessType /\ AtOK(i)
  BY TypeParts DEF ServerInv
<1>2. /\ pc[i] = "closing" /\ Exit(i, code[i]) /\ code[i] \in {0, 1, Killed}
      /\ UNCHANGED <<dbUp, database, rotation>> /\ locker' = locker
  BY <1>1 DEF ClosePool, ProcessType, database
<1>3. locker # i
  BY <1>1, <1>2 DEF AtOK, LockAt, Held
<1> QED BY <1>2, <1>3, ExitFacts, DownOK, OwnStep

LEMMA TrafficOK ==
  ASSUME ServerInv, \/ Requesting \/ DbChange \/ \E i \in Instances : Probe(i)
  PROVE  ServerInv'
<1>1. TrafficType
  BY TypeParts DEF ServerInv
<1>2. CASE Requesting
  <2>1. ASSUME NEW r \in Requests, NEW i \in Instances \cup {Nobody},
               NEW x \in {"working", "querying", "answered"}, Change(r, i, x)
        PROVE  ServerInv'
    BY <1>1, <2>1, TrafficStep DEF Change, TrafficType
  <2>2. ASSUME NEW r \in Requests PROVE request[r].at \in Instances \cup {Nobody}
    BY <1>1 DEF TrafficType
  <2> QED BY <1>2, <2>1, <2>2 DEF Requesting, Accept, Query, Return, Answer
<1>3. CASE DbChange
  BY <1>1, <1>3, TrafficStep DEF DbChange, TrafficType
<1>4. CASE \E i \in Instances : Probe(i)
  BY <1>1, <1>4, TrafficStep DEF Probe, TrafficType
<1> QED BY <1>2, <1>3, <1>4

(***************************************************************************)
(* Migrations                                                              *)
(***************************************************************************)

(* Nobody serves while a statement of a migration is outstanding. *)
LEMMA NobodyServes ==
  ASSUME ServerInv, NEW st \in Changing, NEW v, Phase(st, v), NEW j \in Instances
  PROVE  pc[j] \notin Serving /\ srv[j] = "off"
<1>1. ~Migrated
  BY ServerAssumption DEF Phase, Changing, Migrated
<1> QED BY <1>1 DEF ServerInv, AtOK, ServeAt

(* The statement finds the schema it expects, and leaves what the next one
   expects. *)
LEMMA EffectFacts ==
  ASSUME ServerInv, NEW st \in Changing, NEW v, Phase(st, v)
  PROVE  /\ Applies(st, v)
         /\ Effect(st, v) =>
              /\ TableType' /\ SchemaMatchesVersion'
              /\ st = "mark" => Phase("script", v)'
              /\ st = "script" => Phase("clear", v)'
              /\ st = "clear" => version' = v /\ ~dirty' /\ schema' = 1 .. v
<1>1. v \in 1 .. Latest /\ Latest \in Nat
  BY ServerAssumption DEF Phase
<1>2. Applies(st, v)
  BY DEF Applies, Phase
<1>3. (1 .. v - 1) \cup {v} = 1 .. v /\ 1 .. v \subseteq 1 .. Latest /\ 1 .. v - 1 \subseteq 1 .. Latest
  BY <1>1
<1>4. ASSUME st = "mark", Effect(st, v)
      PROVE  TableType' /\ SchemaMatchesVersion' /\ Phase("script", v)'
  <2>1. version' = v /\ dirty' = TRUE /\ schema' = 1 .. v - 1
    BY <1>4 DEF Effect, Phase
  <2> QED BY <1>1, <1>3, <2>1 DEF TableType, SchemaMatchesVersion, Phase
<1>5. ASSUME st = "script", Effect(st, v)
      PROVE  TableType' /\ SchemaMatchesVersion' /\ Phase("clear", v)'
  <2>1. version' = v /\ dirty' = TRUE /\ schema' = 1 .. v
    <3>1. dirty = TRUE
      BY <1>5, TypeParts DEF Phase, ServerInv, TableType
    <3> QED BY <1>3, <1>5, <3>1 DEF Effect, Phase
  <2> QED BY <1>1, <1>3, <2>1 DEF TableType, SchemaMatchesVersion, Phase
<1>6. ASSUME st = "clear", Effect(st, v)
      PROVE  TableType' /\ SchemaMatchesVersion' /\ version' = v /\ ~dirty' /\ schema' = 1 .. v
  <2>1. version' = v /\ dirty' = FALSE /\ schema' = 1 .. v
    BY <1>6 DEF Effect, Phase
  <2>2. TableType'
    <3>1. version' \in 0 .. Latest /\ schema' \subseteq 1 .. Latest
      BY <1>1, <1>3, <2>1
    <3>2. dirty' \in BOOLEAN
      BY <2>1
    <3> QED BY <3>1, <3>2 DEF TableType
  <2>3. SchemaMatchesVersion'
    BY <2>1 DEF SchemaMatchesVersion
  <2> QED BY <2>1, <2>2, <2>3
<1> QED BY <1>2, <1>4, <1>5, <1>6 DEF Changing

(* An instance that does not hold the lock, while a migration is under way,
   depends on nothing of the tables. *)
LEMMA BystanderOK ==
  ASSUME ServerInv, NEW st \in Changing, NEW v, Phase(st, v),
         NEW j \in Instances, locker # j, locker' # j, SameFor(j)
  PROVE  AtOK(j)'
<1>1. pc[j] \notin Serving /\ srv[j] = "off"
  BY NobodyServes
<1>2. pc[j] \notin Held /\ ConfigAt(j)
  BY DEF ServerInv, AtOK, LockAt
<1>3. pc'[j] = pc[j] /\ srv'[j] = srv[j] /\ env'[j] = env[j]
  BY DEF SameFor
<1>4. LockAt(j)' /\ PhaseAt(j)' /\ ServeAt(j)'
  BY <1>1, <1>2, <1>3 DEF LockAt, PhaseAt, ServeAt, Held, Changing
<1>5. ConfigAt(j)'
  BY <1>2, <1>3 DEF ConfigAt, Rejected
<1> QED BY <1>4, <1>5 DEF AtOK

LEMMA LockMigrationsOK ==
  ASSUME ServerInv, NEW i \in Instances, LockMigrations(i)
  PROVE  ServerInv'
<1>1. ProcessType /\ SessionType /\ TrafficType /\ AtOK(i)
  BY TypeParts DEF ServerInv
<1>2. /\ pc[i] = "lock" /\ "url_malformed" \notin env[i] /\ locker = Nobody /\ locker' = i
      /\ pc' = [pc EXCEPT ![i] = "version"]
      /\ UNCHANGED <<dbUp, version, dirty, schema, orphan, srv, env, target, signalled,
                     code, boots, request, rotation>>
  BY DEF LockMigrations, LockFree, Goto
<1>3. ProcessType' /\ TrafficType' /\ SessionType'
  BY <1>1, <1>2 DEF ProcessType, TrafficType, SessionType, MigrateLabels
<1>4. pc'[i] = "version" /\ \A j \in Instances \ {i} : SameFor(j) /\ (locker' = j <=> locker = j)
  BY <1>1, <1>2, ServerAssumption DEF ProcessType, SameFor
<1>5. OrphanOK'
  BY <1>2, ServerAssumption DEF OrphanOK
<1>6. AtOK(i)'
  <2>1. ~Rejected(env[i]) /\ srv[i] = "off"
    BY <1>1, <1>2 DEF AtOK, ConfigAt, ServeAt, Serving
  <2>2. (~Rejected(env[i]))'
    BY <1>2, <2>1 DEF Rejected
  <2> QED BY <1>2, <1>4, <2>1, <2>2
          DEF AtOK, LockAt, PhaseAt, ServeAt, ConfigAt, Held, Changing, Serving
<1> QED BY <1>2, <1>3, <1>4, <1>5, <1>6, InstanceStep

(* An instance that ends, with its lock released or left to its session. *)
LEMMA ExitOK ==
  ASSUME ServerInv, NEW i \in Instances, NEW result \in {1, Killed}, Exit(i, result),
         UNCHANGED <<dbUp, rotation, version, dirty, schema>>,
         (locker = i /\ Unlock) \/ LeaveSession(i)
  PROVE  ServerInv'
<1>1. SessionType /\ ProcessType /\ OrphanOK /\ AtOK(i)
  BY TypeParts DEF ServerInv
<1>2. /\ pc'[i] = "down" /\ srv'[i] = "off" /\ ProcessType' /\ TrafficType'
      /\ \A j \in Instances \ {i} : SameFor(j)
  BY ExitFacts
<1>3. CASE locker = i /\ Unlock
  <2>1. locker' = Nobody /\ orphan' = orphan
    BY <1>3 DEF Unlock
  <2>2. SessionType' /\ OrphanOK' /\ locker' # i
    BY <1>1, <2>1, ServerAssumption DEF SessionType, OrphanOK
  <2>3. \A j \in Instances \ {i} : locker' = j <=> locker = j
    BY <1>3, <2>1, ServerAssumption
  <2> QED BY <1>2, <2>2, <2>3, DownOK, InstanceStep
<1>4. CASE locker = i /\ LeaveSession(i)
  <2>1. locker' = Orphan /\ orphan' = [statement |-> pc[i], target |-> target[i]]
    BY <1>4 DEF LeaveSession
  <2>2. pc[i] \in Held /\ PhaseAt(i)
    BY <1>1, <1>4 DEF AtOK, LockAt
  <2>3. SessionType' /\ locker' # i
    BY <1>1, <2>1, <2>2, ServerAssumption DEF SessionType, ProcessType, Held, MigrateLabels
  <2>4. OrphanOK'
    BY <2>1, <2>2 DEF OrphanOK, PhaseAt, Phase
  <2>5. \A j \in Instances \ {i} : locker' = j <=> locker = j
    BY <1>4, <2>1, ServerAssumption
  <2> QED BY <1>2, <2>3, <2>4, <2>5, DownOK, InstanceStep
<1>5. CASE locker # i /\ LeaveSession(i)
  <2>1. UNCHANGED database /\ locker' # i
    BY <1>5 DEF LeaveSession, database
  <2> QED BY <1>2, <2>1, DownOK, OwnStep
<1> QED BY <1>3, <1>4, <1>5

(* The holder of the lock goes on: with the next statement, or, once all the
   migrations are there, without the lock. *)
LEMMA AdvanceFacts ==
  ASSUME ServerInv, NEW i \in Instances, locker = i, NEW v \in 0 .. Latest,
         NEW l \in Changing \cup {"connect"}, Advance(i, v, l), UNCHANGED <<dbUp, rotation>>,
         l \in Changing => UNCHANGED <<locker, orphan>>,
         l = "connect" => Unlock,
         l \in Changing => Phase(l, v)',
         l = "connect" => Migrated'
  PROVE  /\ AtOK(i)' /\ ProcessType' /\ TrafficType' /\ SessionType' /\ OrphanOK'
         /\ \A j \in Instances \ {i} : SameFor(j) /\ locker # j /\ locker' # j
<1>1. SessionType /\ ProcessType /\ TrafficType /\ AtOK(i)
  BY TypeParts DEF ServerInv
<1>2. /\ target' = [target EXCEPT ![i] = v] /\ pc' = [pc EXCEPT ![i] = l]
      /\ UNCHANGED <<srv, env, signalled, code, boots, request>>
  BY DEF Advance, Goto
<1>3. ProcessType' /\ TrafficType'
  BY <1>1, <1>2 DEF ProcessType, TrafficType, Changing, MigrateLabels
<1>4. locker' = (IF l = "connect" THEN Nobody ELSE i) /\ orphan' = orphan
  BY DEF Unlock, Changing
<1>5. SessionType' /\ OrphanOK'
  BY <1>1, <1>4, ServerAssumption DEF SessionType, OrphanOK
<1>6. pc'[i] = l /\ target'[i] = v /\ srv'[i] = srv[i] /\ env'[i] = env[i]
  BY <1>1, <1>2 DEF ProcessType
<1>7. \A j \in Instances \ {i} : SameFor(j) /\ locker # j /\ locker' # j
  BY <1>1, <1>2, <1>4, ServerAssumption DEF SameFor, ProcessType
<1>8. pc[i] \in Held /\ srv[i] = "off" /\ ~Rejected(env[i]) /\ "url_malformed" \notin env[i]
  BY <1>1 DEF AtOK, LockAt, ServeAt, ConfigAt, Held, Serving
<1>9. AtOK(i)'
  <2>1. LockAt(i)'
    BY <1>4, <1>6, ServerAssumption DEF LockAt, Held, Changing
  <2>2. PhaseAt(i)' /\ ServeAt(i)'
    BY <1>6, <1>8 DEF PhaseAt, ServeAt, Changing, Serving
  <2>3. ConfigAt(i)'
    BY <1>6, <1>8 DEF ConfigAt, Rejected
  <2> QED BY <2>1, <2>2, <2>3 DEF AtOK
<1> QED BY <1>3, <1>5, <1>7, <1>9

LEMMA ReadVersionOK ==
  ASSUME ServerInv, NEW i \in Instances, ReadVersion(i)
  PROVE  ServerInv'
<1>1. TableType /\ SchemaMatchesVersion /\ AtOK(i)
  BY TypeParts DEF ServerInv
<1>2. pc[i] = "version" /\ UNCHANGED <<dbUp, version, dirty, schema, rotation>> /\ locker = i
  BY <1>1 DEF ReadVersion, AtOK, LockAt, Held
<1>3. CASE dirty /\ Exit(i, 1) /\ Unlock
  BY <1>2, <1>3, ExitOK
<1>4. CASE ~dirty /\ version = Latest /\ Advance(i, version, "connect") /\ Unlock
  <2>1. Migrated'
    BY <1>1, <1>2, <1>4 DEF Migrated, SchemaMatchesVersion
  <2>2. version \in 0 .. Latest
    BY <1>1 DEF TableType
  <2>3. /\ AtOK(i)' /\ ProcessType' /\ TrafficType' /\ SessionType' /\ OrphanOK'
        /\ \A j \in Instances \ {i} : SameFor(j) /\ locker # j /\ locker' # j
    BY <1>2, <1>4, <2>1, <2>2, AdvanceFacts DEF Changing
  <2> QED BY <1>2, <2>3, InstanceStep
<1>5. CASE /\ ~dirty /\ version < Latest
           /\ Advance(i, version + 1, "mark") /\ UNCHANGED <<locker, orphan>>
  <2>1. version + 1 \in 1 .. Latest /\ version + 1 \in 0 .. Latest /\ (version + 1) - 1 = version
    BY <1>1, <1>5, ServerAssumption DEF TableType
  <2>2. schema = 1 .. version
    BY <1>1, <1>5 DEF SchemaMatchesVersion
  <2>3. Phase("mark", version + 1)
    BY <1>5, <2>1, <2>2 DEF Phase
  <2>4. PICK w \in 0 .. Latest : w = version + 1
    BY <2>1
  <2>5. Phase("mark", w)' /\ Advance(i, w, "mark")
    BY <1>2, <1>5, <2>3, <2>4 DEF Phase
  <2>6. /\ AtOK(i)' /\ ProcessType' /\ TrafficType' /\ SessionType' /\ OrphanOK'
        /\ \A j \in Instances \ {i} : SameFor(j) /\ locker # j /\ locker' # j
    BY <1>2, <1>5, <2>5, AdvanceFacts DEF Changing
  <2> QED BY <1>2, <2>6, InstanceStep
<1> QED BY <1>3, <1>4, <1>5 DEF ReadVersion

LEMMA MigrationOK ==
  ASSUME ServerInv, NEW i \in Instances, Migration(i)
  PROVE  ServerInv'
<1>1. ProcessType /\ AtOK(i)
  BY TypeParts DEF ServerInv
<1>2. PICK st \in Changing, v \in 0 .. Latest : st = pc[i] /\ v = target[i]
  BY <1>1 DEF Migration, Changing, ProcessType
<1>3. Phase(st, v) /\ locker = i /\ UNCHANGED <<dbUp, rotation>>
  BY <1>1, <1>2 DEF Migration, AtOK, PhaseAt, LockAt, Held, Changing
<1>4. Effect(st, v) /\ Applies(st, v)
  BY <1>2, <1>3, EffectFacts DEF Migration
<1>5. TableType' /\ SchemaMatchesVersion'
  BY <1>3, <1>4, EffectFacts
<1>6. v \in 1 .. Latest /\ Latest \in Nat
  BY <1>3, ServerAssumption DEF Phase
<1>7. /\ AtOK(i)' /\ ProcessType' /\ TrafficType' /\ SessionType' /\ OrphanOK'
      /\ \A j \in Instances \ {i} : SameFor(j) /\ locker # j /\ locker' # j
  <2>1. CASE st = "mark"
    <3>1. Advance(i, v, "script") /\ UNCHANGED <<locker, orphan>>
      BY <1>2, <1>4, <2>1 DEF Migration
    <3>2. Phase("script", v)'
      BY <1>3, <1>4, <2>1, EffectFacts
    <3> QED BY <1>3, <3>1, <3>2, AdvanceFacts DEF Changing
  <2>2. CASE st = "script"
    <3>1. Advance(i, v, "clear") /\ UNCHANGED <<locker, orphan>>
      BY <1>2, <1>4, <2>2 DEF Migration
    <3>2. Phase("clear", v)'
      BY <1>3, <1>4, <2>2, EffectFacts
    <3> QED BY <1>3, <3>1, <3>2, AdvanceFacts DEF Changing
  <2>3. CASE st = "clear" /\ v < Latest
    <3>1. Advance(i, v + 1, "mark") /\ UNCHANGED <<locker, orphan>>
      BY <1>2, <1>4, <2>3 DEF Migration
    <3>2. version' = v /\ ~dirty' /\ schema' = 1 .. v
      BY <1>3, <1>4, <2>3, EffectFacts
    <3>3. PICK w \in 0 .. Latest : w = v + 1
      BY <1>6, <2>3
    <3>4. w \in 1 .. Latest /\ w - 1 = v
      BY <1>6, <2>3, <3>3
    <3>5. Phase("mark", w)'
      BY <3>2, <3>4 DEF Phase
    <3>6. Advance(i, w, "mark")
      BY <3>1, <3>3
    <3> QED BY <1>3, <3>1, <3>5, <3>6, AdvanceFacts DEF Changing
  <2>4. CASE st = "clear" /\ ~(v < Latest)
    <3>1. Advance(i, v, "connect") /\ Unlock
      BY <1>2, <1>4, <2>4 DEF Migration
    <3>2. v = Latest
      BY <1>6, <2>4
    <3>3. Migrated'
      BY <1>3, <1>4, <2>4, <3>2, EffectFacts DEF Migrated
    <3> QED BY <1>3, <3>1, <3>3, AdvanceFacts DEF Changing
  <2> QED BY <2>1, <2>2, <2>3, <2>4 DEF Changing
<1>8. ASSUME NEW j \in Instances \ {i} PROVE AtOK(j)'
  BY <1>3, <1>7, BystanderOK
<1> QED BY <1>5, <1>7, <1>8, TypePartsNext DEF ServerInv

LEMMA ReapOK ==
  ASSUME ServerInv, Reap
  PROVE  ServerInv'
<1>1. TableType /\ SessionType /\ ProcessType /\ TrafficType /\ OrphanOK
  BY TypeParts DEF ServerInv
<1>2. /\ locker = Orphan /\ locker' = Nobody
      /\ orphan' = [statement |-> "none", target |-> 0]
      /\ UNCHANGED <<dbUp, process, request, rotation>>
  BY DEF Reap
<1>3. SessionType' /\ ProcessType' /\ TrafficType' /\ OrphanOK'
  <2>1. 0 \in 0 .. Latest
    BY ServerAssumption
  <2> QED BY <1>1, <1>2, <2>1, ServerAssumption
          DEF SessionType, ProcessType, TrafficType, OrphanOK, process
<1>4. \A j \in Instances : SameFor(j) /\ locker # j /\ locker' # j
  BY <1>2, ServerAssumption DEF SameFor, process
<1>5. CASE UNCHANGED <<version, dirty, schema>>
  <2>1. TableType' /\ SchemaMatchesVersion'
    BY <1>1, <1>5 DEF TableType, ServerInv, SchemaMatchesVersion
  <2>2. ASSUME NEW j \in Instances PROVE AtOK(j)'
    <3>1. AtOK(j) /\ SameFor(j) /\ locker # j /\ locker' # j
      BY <1>4 DEF ServerInv
    <3> QED BY <1>5, <3>1 DEF SameFor, AtOK, LockAt, PhaseAt, ServeAt, ConfigAt, Phase, Migrated
  <2> QED BY <1>3, <2>1, <2>2, TypePartsNext DEF ServerInv
<1>6. CASE Effect(orphan.statement, orphan.target)
  <2>1. CASE orphan.statement \in Changing
    <3>1. PICK st \in Changing, v \in 0 .. Latest : st = orphan.statement /\ v = orphan.target
      BY <1>1, <2>1 DEF SessionType
    <3>2. Phase(st, v) /\ Effect(st, v)
      BY <1>1, <1>2, <1>6, <3>1 DEF OrphanOK
    <3>3. TableType' /\ SchemaMatchesVersion'
      BY <3>2, EffectFacts
    <3>4. ASSUME NEW j \in Instances PROVE AtOK(j)'
      BY <1>4, <3>2, BystanderOK
    <3> QED BY <1>3, <3>3, <3>4, TypePartsNext DEF ServerInv
  <2>2. CASE orphan.statement \notin Changing
    <3>1. version' = version /\ schema' = schema /\ dirty' = dirty
      BY <1>1, <1>6, <2>2 DEF Effect, Changing, TableType
    <3> QED BY <1>5, <3>1
  <2> QED BY <2>1, <2>2
<1> QED BY <1>5, <1>6 DEF Reap

LEMMA NextOK == ServerInv /\ [Next]_vars => ServerInv'
<1> SUFFICES ASSUME ServerInv, [Next]_vars PROVE ServerInv'
  OBVIOUS
<1>1. CASE UNCHANGED vars
  <2>1. TrafficType'
    BY <1>1, TypeParts DEF vars, ServerInv, TrafficType
  <2> QED BY <1>1, <2>1, TrafficStep DEF vars
<1>2. ASSUME NEW i \in Instances, Own(i) PROVE ServerInv'
  BY <1>2, LoadOK, LockMigrationsOK, ReadVersionOK, MigrationOK, ServingOK, ClosePoolOK DEF Own
<1>3. ASSUME NEW i \in Instances, NEW e \in Environments, Boot(i, e) PROVE ServerInv'
  BY <1>3, BootOK
<1>4. ASSUME NEW i \in Instances, MigrateFails(i) \/ Kill(i) PROVE ServerInv'
  <2>1. PICK result \in {1, Killed} : Exit(i, result)
    BY <1>4 DEF MigrateFails, Kill
  <2>2. LeaveSession(i) /\ UNCHANGED <<dbUp, rotation>>
    BY <1>4 DEF MigrateFails, Kill
  <2> QED BY <2>1, <2>2, ExitOK DEF LeaveSession
<1>5. ASSUME NEW i \in Instances, Signal(i) PROVE ServerInv'
  BY <1>5, ServingOK
<1>6. CASE Reap
  BY <1>6, ReapOK
<1>7. CASE Requesting \/ DbChange \/ \E i \in Instances : Probe(i)
  BY <1>7, TrafficOK
<1> QED BY <1>1, <1>2, <1>3, <1>4, <1>5, <1>6, <1>7 DEF Next, Environment

(***************************************************************************)
(* Theorems                                                                *)
(***************************************************************************)

(* What the instance that migrates, or the session it left behind, knows of
   the version table (db.Migrate), and what a serving one (run). *)
THEOREM ServerInvariance == Spec => []ServerInv
BY InitOK, NextOK, PTL DEF Spec

(* Instances, database and requests have their types. *)
THEOREM ServerTyped == Spec => []TypeOK
<1>1. ServerInv => TypeOK
  BY DEF ServerInv
<1> QED BY <1>1, ServerInvariance, PTL

(* schema_migrations tells the truth, however many instances migrate at the
   same time and wherever they die (db.Migrate). *)
THEOREM SchemaTruth == Spec => []SchemaMatchesVersion
<1>1. ServerInv => SchemaMatchesVersion
  BY DEF ServerInv
<1> QED BY <1>1, ServerInvariance, PTL

(* Whoever serves does so on the whole schema (run: Migrate comes first). *)
THEOREM OnlyMigratedServe == Spec => []ServesOnlyMigrated
<1>1. ServerInv => ServesOnlyMigrated
  BY DEF ServerInv, AtOK, ServeAt, Migrated, ServesOnlyMigrated
<1> QED BY <1>1, ServerInvariance, PTL

(* An instance with a bad environment never accepts a request: Load, Migrate
   or ListenAndServe stops it first (run). *)
THEOREM OnlyConfiguredServe == Spec => []MisconfiguredNeverServes
<1>1. ASSUME ServerInv PROVE MisconfiguredNeverServes
  <2> SUFFICES ASSUME NEW i \in Instances, srv[i] = "accepting" PROVE env[i] = {}
    BY DEF MisconfiguredNeverServes
  <2>1. ProcessType /\ ServeAt(i) /\ ConfigAt(i)
    BY <1>1, TypeParts DEF ServerInv, AtOK
  <2>2. /\ ~Rejected(env[i]) /\ "url_malformed" \notin env[i] /\ "url_pgx5" \notin env[i]
        /\ "port_bad" \notin env[i]
    BY <2>1 DEF ServeAt, ConfigAt, Serving
  <2>3. env[i] \in SUBSET Faults
    BY <2>1 DEF ProcessType
  <2> QED BY <2>2, <2>3 DEF Rejected, Faults
<1> QED BY <1>1, ServerInvariance, PTL

(***************************************************************************)
(* The end of run()                                                        *)
(***************************************************************************)

(* An instance that is shutting down accepts nothing, and one that closes its
   pool has drained, or knows that it has not. *)
ShutAt(i) ==
  /\ pc[i] \in {"draining", "closing"} => srv[i] # "accepting"
  /\ pc[i] = "closing" => code[i] = 1 \/ (code[i] = 0 /\ InFlight(i) = {})

ShutInv == \A i \in Instances : ShutAt(i)

(* Only an accepting instance gets requests. *)
LEMMA InFlightShrinks ==
  ASSUME ServerInv, [Next]_vars, NEW i \in Instances, srv[i] # "accepting"
  PROVE  InFlight(i)' \subseteq InFlight(i)
<1> USE DEF InFlight
<1>1. TrafficType
  BY TypeParts DEF ServerInv
<1>2. CASE UNCHANGED request
  BY <1>2
<1>3. ASSUME NEW j \in Instances, Cut(j) PROVE InFlight(i)' \subseteq InFlight(i)
  BY <1>1, <1>3 DEF Cut, TrafficType
<1>4. CASE Requesting
  <2>1. ASSUME NEW r \in Requests, NEW j \in Instances, Accept(r, j)
        PROVE  InFlight(i)' \subseteq InFlight(i)
    BY <1>1, <2>1 DEF Accept, Change, TrafficType
  <2>2. ASSUME NEW r \in Requests, Query(r) \/ Return(r) \/ Answer(r)
        PROVE  InFlight(i)' \subseteq InFlight(i)
    BY <1>1, <2>2 DEF Query, Return, Answer, Change, TrafficType
  <2> QED BY <1>4, <2>1, <2>2 DEF Requesting
<1>5. ASSUME NEW j \in Instances, Own(j) PROVE InFlight(i)' \subseteq InFlight(i)
  <2>1. request' = request \/ Cut(j)
    BY <1>5 DEF Own, Load, LockMigrations, ReadVersion, Migration, Start, Listen, ListenFailed,
         Shutdown, Drained, DrainTimeout, ClosePool, Exit, Advance
  <2> QED BY <1>2, <1>3, <2>1
<1>6. CASE Environment
  <2>1. request' = request \/ \E j \in Instances : Cut(j)
    BY <1>6 DEF Environment, Boot, MigrateFails, Signal, Kill, Probe, Reap, DbChange, Exit
  <2> QED BY <1>2, <1>3, <2>1
<1> QED BY <1>2, <1>4, <1>5, <1>6 DEF Next, vars

(* The steps of another instance leave its end alone. *)
LEMMA ShutKept ==
  ASSUME ServerInv, [Next]_vars, NEW i \in Instances, ShutAt(i),
         pc'[i] = pc[i], code'[i] = code[i],
         srv'[i] = srv[i] \/ (pc[i] \notin {"draining", "closing"}) \/ srv'[i] # "accepting"
  PROVE  ShutAt(i)'
<1>1. pc[i] = "closing" => InFlight(i)' \subseteq InFlight(i)
  BY InFlightShrinks DEF ShutAt
<1> QED BY <1>1 DEF ShutAt

(* Every step keeps it. *)
LEMMA ShutStep ==
  ASSUME ServerInv, ShutInv, [Next]_vars, NEW i \in Instances
  PROVE  ShutAt(i)'
<1> USE DEF ShutInv
<1>1. ProcessType
  BY TypeParts DEF ServerInv
<1>2. CASE UNCHANGED process
  BY <1>2, ShutKept DEF process
<1>3. ASSUME NEW j \in Instances, NEW result, Exit(j, result) PROVE ShutAt(i)'
  <2>1. CASE i = j
    BY <1>1, <1>3, <2>1 DEF Exit, Goto, ProcessType, ShutAt
  <2>2. CASE i # j
    <3>1. pc'[i] = pc[i] /\ code'[i] = code[i] /\ srv'[i] = srv[i]
      BY <1>1, <1>3, <2>2 DEF Exit, Goto, ProcessType
    <3> QED BY <3>1, ShutKept
  <2> QED BY <2>1, <2>2
<1>4. ASSUME NEW j \in Instances, NEW l \in MigrateLabels \cup {"load", "connect", "select"},
             Goto(j, l), code' = code,
             srv' = srv \/ srv' = [srv EXCEPT ![j] = "starting"]
      PROVE  ShutAt(i)'
  <2>1. CASE i = j
    BY <1>1, <1>4, <2>1 DEF Goto, ProcessType, ShutAt, MigrateLabels
  <2>2. CASE i # j
    <3>1. pc'[i] = pc[i] /\ code'[i] = code[i] /\ srv'[i] = srv[i]
      BY <1>1, <1>4, <2>2 DEF Goto, ProcessType
    <3> QED BY <3>1, ShutKept
  <2> QED BY <2>1, <2>2
<1>5. ASSUME NEW j \in Instances, Listen(j) PROVE ShutAt(i)'
  <2>1. pc' = pc /\ code' = code
    BY <1>5 DEF Listen
  <2>2. srv'[i] = srv[i] \/ pc[i] \notin {"draining", "closing"} \/ srv'[i] # "accepting"
    BY <1>1, <1>5 DEF Listen, ProcessType
  <2> QED BY <2>1, <2>2, ShutKept
<1>6. ASSUME NEW j \in Instances, ListenFailed(j) \/ Shutdown(j) \/ Drained(j) \/ DrainTimeout(j)
      PROVE  ShutAt(i)'
  <2>1. CASE i = j
    <3>1. CASE ListenFailed(i)
      BY <1>1, <3>1 DEF ListenFailed, Goto, ProcessType, ShutAt
    <3>2. CASE Shutdown(i)
      BY <1>1, <3>2 DEF Shutdown, Goto, ProcessType, ShutAt
    <3>3. CASE Drained(i)
      BY <1>1, <3>3 DEF Drained, Goto, ProcessType, ShutAt, InFlight
    <3>4. CASE DrainTimeout(i)
      BY <1>1, <3>4 DEF DrainTimeout, Goto, ProcessType, ShutAt
    <3> QED BY <1>6, <2>1, <3>1, <3>2, <3>3, <3>4
  <2>2. CASE i # j
    <3>1. pc'[i] = pc[i] /\ code'[i] = code[i] /\ srv'[i] = srv[i]
      BY <1>1, <1>6, <2>2 DEF ListenFailed, Shutdown, Drained, DrainTimeout, Goto, ProcessType
    <3> QED BY <3>1, ShutKept
  <2> QED BY <2>1, <2>2
<1>7. ASSUME NEW j \in Instances, Signal(j) PROVE ShutAt(i)'
  BY <1>7, ShutKept DEF Signal
<1>8. ASSUME NEW j \in Instances, Own(j) PROVE ShutAt(i)'
  <2>1. CASE Load(j)
    BY <1>3, <1>4, <2>1 DEF Load, MigrateLabels
  <2>2. CASE LockMigrations(j)
    BY <1>4, <2>2 DEF LockMigrations, MigrateLabels
  <2>3. CASE ReadVersion(j)
    BY <1>3, <1>4, <2>3 DEF ReadVersion, Advance, MigrateLabels
  <2>4. CASE Migration(j)
    BY <1>3, <1>4, <2>4 DEF Migration, Advance, MigrateLabels
  <2>5. CASE Start(j)
    BY <1>3, <1>4, <2>5 DEF Start
  <2>6. CASE ClosePool(j)
    BY <1>3, <2>6 DEF ClosePool
  <2> QED BY <1>5, <1>6, <1>8, <2>1, <2>2, <2>3, <2>4, <2>5, <2>6 DEF Own
<1>9. CASE Environment
  <2>1. ASSUME NEW j \in Instances, NEW e \in Environments, Boot(j, e) PROVE ShutAt(i)'
    BY <1>4, <2>1 DEF Boot
  <2>2. ASSUME NEW j \in Instances, MigrateFails(j) \/ Kill(j) PROVE ShutAt(i)'
    BY <1>3, <2>2 DEF MigrateFails, Kill
  <2>3. ASSUME NEW j \in Instances, Probe(j) PROVE ShutAt(i)'
    BY <1>2, <2>3 DEF Probe
  <2>4. Reap \/ DbChange => ShutAt(i)'
    BY <1>2 DEF Reap, DbChange
  <2> QED BY <1>7, <1>9, <2>1, <2>2, <2>3, <2>4 DEF Environment
<1>10. CASE Requesting
  BY <1>2, <1>10 DEF Requesting, Accept, Query, Return, Answer, Change
<1>11. CASE UNCHANGED vars
  BY <1>2, <1>11 DEF vars
<1> QED BY <1>8, <1>9, <1>10, <1>11 DEF Next

LEMMA ShutInvariance == Spec => [](ServerInv /\ ShutInv)
<1>1. Init => ShutInv
  BY DEF Init, ShutInv, ShutAt
<1>2. ServerInv /\ ShutInv /\ [Next]_vars => ShutInv'
  BY ShutStep DEF ShutInv
<1> QED BY <1>1, <1>2, ServerInvariance, PTL DEF Spec

(* Only ClosePool ends an instance that was closing, unless it is killed. *)
LEMMA EndOfRun ==
  ASSUME ServerInv, Next, NEW i \in Instances,
         pc[i] = "closing", pc'[i] = "down", code'[i] # Killed
  PROVE  PoolIdle(i) /\ code'[i] = code[i]
<1>1. ProcessType
  BY TypeParts DEF ServerInv
<1>2. ASSUME pc' = pc PROVE FALSE
  BY <1>2
<1>3. ASSUME NEW j \in Instances, NEW l, Goto(j, l) PROVE i = j
  BY <1>1, <1>3 DEF Goto, ProcessType
<1>4. ~Environment
  <2>1. ASSUME NEW j \in Instances, NEW e \in Environments, Boot(j, e) PROVE FALSE
    BY <1>3, <2>1 DEF Boot
  <2>2. ASSUME NEW j \in Instances, MigrateFails(j) PROVE FALSE
    BY <1>3, <2>2 DEF MigrateFails, Exit, MigrateLabels
  <2>3. ASSUME NEW j \in Instances, Kill(j) PROVE FALSE
    <3>1. i = j /\ code' = [code EXCEPT ![j] = Killed]
      BY <1>3, <2>3 DEF Kill, Exit
    <3> QED BY <1>1, <3>1 DEF ProcessType
  <2> QED BY <1>2, <2>1, <2>2, <2>3 DEF Environment, Signal, Probe, Reap, DbChange, process
<1>5. ~Requesting
  BY <1>2 DEF Requesting, Accept, Query, Return, Answer, Change, process
<1>6. PICK j \in Instances : Own(j)
  BY <1>4, <1>5 DEF Next
<1>7. ClosePool(j)
  BY <1>2, <1>3, <1>6
  DEF Own, Load, LockMigrations, ReadVersion, Migration, Start, Listen, ListenFailed, Shutdown,
      Drained, DrainTimeout, Exit, Advance
<1>8. i = j /\ code' = [code EXCEPT ![j] = code[j]]
  BY <1>3, <1>7 DEF ClosePool, Exit
<1> QED BY <1>1, <1>7, <1>8 DEF ClosePool, ProcessType

(* run() cuts no request inside a transaction, and none at all when it
   reports success (http.Server.Shutdown, then the deferred pool.Close). *)
THEOREM GracefulEnd == Spec => GracefulExit
<1>1. ASSUME ServerInv, ShutInv, [Next]_vars, NEW i \in Instances,
             pc[i] = "closing", pc'[i] = "down", code'[i] # Killed, NEW r \in InFlight(i)
      PROVE  request[r].state = "working" /\ code'[i] = 1
  <2>1. Next
    BY <1>1 DEF vars, process
  <2>2. PoolIdle(i) /\ code'[i] = code[i]
    BY <1>1, <2>1, EndOfRun
  <2>3. request[r].state = "working"
    BY <1>1, <2>2 DEF PoolIdle, Querying, InFlight
  <2> QED BY <1>1, <2>2, <2>3 DEF ShutInv, ShutAt
<1>2. ServerInv /\ ShutInv /\ [Next]_vars =>
        [\A i \in Instances :
           (pc[i] = "closing" /\ pc'[i] = "down" /\ code'[i] # Killed) =>
             \A r \in InFlight(i) : request[r].state = "working" /\ code'[i] = 1]_vars
  BY <1>1
<1> QED BY <1>2, ShutInvariance, PTL DEF Spec, GracefulExit
=============================================================================
