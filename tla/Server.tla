------------------------------- MODULE Server -------------------------------
(***************************************************************************)
(* cmd/server/main.go: the life of an instance of the service, from its    *)
(* environment (internal/config) over the migrations (internal/db) to      *)
(* serving, the signal and the graceful shutdown, with the requests that   *)
(* are in flight, a database that comes and goes, and instances that are   *)
(* killed.  Several instances share one database.                          *)
(*                                                                         *)
(* golang-migrate is modelled from its use: Up takes an advisory lock,     *)
(* reads the version, and for every missing migration marks the version    *)
(* dirty, executes the script (one implicit transaction) and clears the    *)
(* mark.  A session whose client is gone (orphan) keeps the lock until     *)
(* PostgreSQL has executed or dropped its last statement.                  *)
(***************************************************************************)
EXTENDS Integers, FiniteSets

CONSTANTS
  Instances, Requests,
  Latest,       \* number of migrations in migrations.FS
  Environments, \* each one the set of what is wrong with it
  Nobody, Orphan,
  MaxBoots      \* bound on the number of times an instance is started

VARIABLES
  dbUp, version, dirty, \* the database; table schema_migrations
  schema,     \* the scripts that have taken effect
  locker,     \* the session that holds the advisory lock
  orphan,     \* the last statement of the session whose client is gone
  pc,         \* instance -> where run() is
  srv,        \* instance -> what the goroutine of ListenAndServe is doing
  env,        \* instance -> its environment
  target,     \* instance -> the migration it is applying
  signalled,  \* instances whose ctx is done
  code,       \* instance -> its last exit code: 1 if run() returned an error
  boots,      \* number of starts
  request,    \* request -> its instance and its state
  rotation    \* instances that the platform sends requests to

database == <<version, dirty, schema, locker, orphan>>
process  == <<pc, srv, env, target, signalled, code, boots>>
vars     == <<dbUp, database, process, request, rotation>>

(* url_pgx5: the scheme pgx5://, which golang-migrate takes and pgxpool does not. *)
Faults == {"url_missing", "url_malformed", "url_pgx5", "secret_short", "seed_negative",
           "window_not_positive", "port_bad"}

ASSUME ServerAssumption ==
  /\ Latest \in Nat /\ MaxBoots \in Nat
  /\ Environments \subseteq SUBSET Faults
  /\ Nobody \notin Instances /\ Orphan \notin Instances /\ Nobody # Orphan

NoRequest == [at |-> Nobody, state |-> "none"]

Init ==
  /\ dbUp \in BOOLEAN /\ version = 0 /\ dirty = FALSE /\ schema = {}
  /\ locker = Nobody /\ orphan = [statement |-> "none", target |-> 0]
  /\ pc = [i \in Instances |-> "down"] /\ srv = [i \in Instances |-> "off"]
  /\ env = [i \in Instances |-> {}] /\ target = [i \in Instances |-> 0]
  /\ signalled = {} /\ code = [i \in Instances |-> 0] /\ boots = 0
  /\ request = [r \in Requests |-> NoRequest] /\ rotation = {}

Goto(i, label) == pc' = [pc EXCEPT ![i] = label]

InFlight(i) == {r \in Requests : request[r].at = i /\ request[r].state \in {"working", "querying"}}
Querying(i) == {r \in InFlight(i) : request[r].state = "querying"}

Cut(i) == request' = [r \in Requests |->
                        IF r \in InFlight(i) THEN [request[r] EXCEPT !.state = "cut"]
                        ELSE request[r]]

(* The process is gone.  If its session holds the lock, the statement it had
   sent is left to PostgreSQL. *)
Exit(i, result) ==
  /\ Goto(i, "down") /\ srv' = [srv EXCEPT ![i] = "off"]
  /\ code' = [code EXCEPT ![i] = result]
  /\ signalled' = signalled \ {i}
  /\ env' = [env EXCEPT ![i] = {}] /\ target' = [target EXCEPT ![i] = 0]
  /\ Cut(i)
  /\ UNCHANGED boots

LeaveSession(i) ==
  /\ IF locker = i
     THEN locker' = Orphan /\ orphan' = [statement |-> pc[i], target |-> target[i]]
     ELSE UNCHANGED <<locker, orphan>>
  /\ UNCHANGED <<version, dirty, schema>>

(***************************************************************************)
(* Configuration                                                           *)
(***************************************************************************)
Boot(i, e) ==
  /\ pc[i] = "down" /\ boots < MaxBoots
  /\ boots' = boots + 1
  /\ env' = [env EXCEPT ![i] = e]
  /\ Goto(i, "load")
  /\ UNCHANGED <<dbUp, database, srv, target, signalled, code, request, rotation>>

NothingRejected(e) == FALSE
Rejected(e) ==
  e \cap {"url_missing", "secret_short", "seed_negative", "window_not_positive"} # {}

Load(i) ==
  /\ pc[i] = "load"
  /\ IF Rejected(env[i]) THEN Exit(i, 1)
     ELSE /\ Goto(i, "lock")
          /\ UNCHANGED <<srv, env, target, signalled, code, boots, request>>
  /\ UNCHANGED <<dbUp, database, rotation>>

(***************************************************************************)
(* Migrate                                                                 *)
(***************************************************************************)
MigrateLabels == {"lock", "version", "mark", "script", "clear"}

NoLock == TRUE
LockFree == locker = Nobody

LockMigrations(i) ==
  /\ pc[i] = "lock" /\ dbUp /\ "url_malformed" \notin env[i] /\ LockFree
  /\ locker' = i
  /\ Goto(i, "version")
  /\ UNCHANGED <<dbUp, version, dirty, schema, orphan, srv, env, target, signalled,
                 code, boots, request, rotation>>

(* Up returns; the lock is released and the session closed. *)
Unlock == locker' = Nobody /\ UNCHANGED orphan

Advance(i, v, label) == /\ target' = [target EXCEPT ![i] = v]
                        /\ Goto(i, label)
                        /\ UNCHANGED <<srv, env, signalled, code, boots, request>>

(* Migrate accepts ErrDirty as it accepts ErrNoChange. *)
DirtyAccepted(i) ==
  /\ pc[i] = "version" /\ dbUp
  /\ IF dirty \/ version = Latest THEN Advance(i, version, "connect") /\ Unlock
     ELSE Advance(i, version + 1, "mark") /\ UNCHANGED <<locker, orphan>>
  /\ UNCHANGED <<dbUp, version, dirty, schema, rotation>>

ReadVersion(i) ==
  /\ pc[i] = "version" /\ dbUp
  /\ \/ dirty /\ Exit(i, 1) /\ Unlock /\ UNCHANGED rotation
     \/ /\ ~dirty /\ version = Latest
        /\ Advance(i, version, "connect") /\ Unlock /\ UNCHANGED rotation
     \/ /\ ~dirty /\ version < Latest
        /\ Advance(i, version + 1, "mark") /\ UNCHANGED <<locker, orphan, rotation>>
  /\ UNCHANGED <<dbUp, version, dirty, schema>>

(* What the statement changes in the database. *)
EffectAhead(statement, v) ==
  /\ version' = IF statement = "mark" THEN v + 1 ELSE version
  /\ dirty' = (statement = "mark" \/ (dirty /\ statement # "clear"))
  /\ schema' = IF statement = "script" THEN schema \cup {v} ELSE schema

Effect(statement, v) ==
  /\ version' = IF statement = "mark" THEN v ELSE version
  /\ dirty' = (statement = "mark" \/ (dirty /\ statement # "clear"))
  /\ schema' = IF statement = "script" THEN schema \cup {v} ELSE schema

(* The script meets the schema it was written for: CREATE TABLE and ALTER
   TABLE fail otherwise. *)
Applies(statement, v) == statement = "script" => schema = 1 .. v - 1

Migration(i) ==
  LET v == target[i] IN
  /\ pc[i] \in {"mark", "script", "clear"} /\ dbUp
  /\ IF ~Applies(pc[i], v)
     THEN Exit(i, 1) /\ Unlock /\ UNCHANGED <<version, dirty, schema>>
     ELSE /\ Effect(pc[i], v)
          /\ CASE pc[i] = "mark"   -> Advance(i, v, "script") /\ UNCHANGED <<locker, orphan>>
               [] pc[i] = "script" -> Advance(i, v, "clear") /\ UNCHANGED <<locker, orphan>>
               [] pc[i] = "clear" /\ v < Latest
                                   -> Advance(i, v + 1, "mark") /\ UNCHANGED <<locker, orphan>>
               [] OTHER            -> Advance(i, v, "connect") /\ Unlock
  /\ UNCHANGED <<dbUp, rotation>>

(* The url is malformed, the database is down or the connection lost, or the
   lock was not granted in time. *)
MigrateFails(i) ==
  /\ pc[i] \in MigrateLabels
  /\ pc[i] = "lock" => ~dbUp \/ locker # Nobody \/ "url_malformed" \in env[i]
  /\ Exit(i, 1) /\ LeaveSession(i)
  /\ UNCHANGED <<dbUp, rotation>>

(* PostgreSQL ends the session of a client that is gone. *)
Reap ==
  /\ locker = Orphan
  /\ locker' = Nobody /\ orphan' = [statement |-> "none", target |-> 0]
  /\ \/ UNCHANGED <<version, dirty, schema>>
     \/ /\ dbUp /\ Applies(orphan.statement, orphan.target)
        /\ Effect(orphan.statement, orphan.target)
  /\ UNCHANGED <<dbUp, process, request, rotation>>

(***************************************************************************)
(* Serving                                                                 *)
(***************************************************************************)

(* signal.NotifyContext; db.Connect parses the url again, for pgxpool, which
   dials lazily; the handler, and the goroutine of ListenAndServe. *)
Start(i) ==
  /\ pc[i] = "connect"
  /\ IF "url_pgx5" \in env[i] THEN Exit(i, 1)
     ELSE /\ Goto(i, "select") /\ srv' = [srv EXCEPT ![i] = "starting"]
          /\ UNCHANGED <<env, target, signalled, code, boots, request>>
  /\ UNCHANGED <<dbUp, database, rotation>>

(* After Shutdown was called, ListenAndServe returns ErrServerClosed. *)
Listen(i) ==
  /\ srv[i] = "starting"
  /\ srv' = [srv EXCEPT ![i] = CASE pc[i] # "select" -> "closed"
                                 [] pc[i] = "select" /\ "port_bad" \in env[i] -> "failed"
                                 [] OTHER -> "accepting"]
  /\ UNCHANGED <<dbUp, database, pc, env, target, signalled, code, boots, request, rotation>>

(* SIGTERM.  Before NotifyContext it kills the process. *)
Signal(i) ==
  /\ pc[i] = "select" /\ i \notin signalled
  /\ signalled' = signalled \cup {i}
  /\ UNCHANGED <<dbUp, database, pc, srv, env, target, code, boots, request, rotation>>

(* The two cases of the select. *)
ListenFailed(i) ==
  /\ pc[i] = "select" /\ srv[i] = "failed"
  /\ Goto(i, "closing") /\ code' = [code EXCEPT ![i] = 1]
  /\ UNCHANGED <<dbUp, database, srv, env, target, signalled, boots, request, rotation>>

Shutdown(i) ==
  /\ pc[i] = "select" /\ i \in signalled
  /\ Goto(i, "draining")
  /\ srv' = [srv EXCEPT ![i] = IF @ = "accepting" THEN "closed" ELSE @]
  /\ UNCHANGED <<dbUp, database, env, target, signalled, code, boots, request, rotation>>

(* Shutdown returns when every connection is idle ... *)
Drained(i) ==
  /\ pc[i] = "draining" /\ InFlight(i) = {}
  /\ Goto(i, "closing") /\ code' = [code EXCEPT ![i] = 0]
  /\ UNCHANGED <<dbUp, database, srv, env, target, signalled, boots, request, rotation>>

NoTimeout(i) == FALSE

(* ... or with an error after 10 s. *)
DrainTimeout(i) ==
  /\ pc[i] = "draining" /\ InFlight(i) # {}
  /\ Goto(i, "closing") /\ code' = [code EXCEPT ![i] = 1]
  /\ UNCHANGED <<dbUp, database, srv, env, target, signalled, boots, request, rotation>>

(* The deferred pool.Close waits until every connection has been returned;
   then main ends, and with it all that is still in flight. *)
NeverWait(i) == TRUE
PoolIdle(i) == Querying(i) = {}

ClosePool(i) ==
  /\ pc[i] = "closing" /\ PoolIdle(i)
  /\ Exit(i, code[i])
  /\ UNCHANGED <<dbUp, database, rotation>>

(* The platform kills it, or SIGTERM meets no handler. *)
Killed == 137
Kill(i) ==
  /\ pc[i] # "down"
  /\ Exit(i, Killed) /\ LeaveSession(i)
  /\ UNCHANGED <<dbUp, rotation>>

(***************************************************************************)
(* Requests, probes, the database                                          *)
(***************************************************************************)
Change(r, i, state) == /\ request' = [request EXCEPT ![r] = [at |-> i, state |-> state]]
                       /\ UNCHANGED <<dbUp, database, process, rotation>>

Accept(r, i) == /\ request[r] = NoRequest /\ i \in rotation /\ srv[i] = "accepting"
                /\ Change(r, i, "working")

(* A transaction keeps its connection to the end; a closed pool gives none. *)
Query(r) == LET i == request[r].at IN
            /\ request[r].state = "working" /\ dbUp /\ pc[i] # "closing"
            /\ Change(r, i, "querying")

(* Its last statement has been answered, or cancelled by the deadline. *)
Return(r) == /\ request[r].state = "querying"
             /\ Change(r, request[r].at, "working")

Answer(r) == /\ request[r].state = "working"
             /\ Change(r, request[r].at, "answered")

(* The process is up and serving. *)
Healthz(i) == srv[i] = "accepting"

(* The container and the platform probe /healthz, and only that. *)
Probe(i) ==
  /\ rotation' = IF Healthz(i) THEN rotation \cup {i} ELSE rotation \ {i}
  /\ UNCHANGED <<dbUp, database, process, request>>

DbChange == dbUp' = ~dbUp /\ UNCHANGED <<database, process, request, rotation>>

Own(i) == \/ Load(i) \/ LockMigrations(i) \/ ReadVersion(i) \/ Migration(i)
          \/ Start(i) \/ Listen(i) \/ ListenFailed(i)
          \/ Shutdown(i) \/ Drained(i) \/ DrainTimeout(i) \/ ClosePool(i)

Environment == \/ \E i \in Instances : \/ \E e \in Environments : Boot(i, e)
                                       \/ MigrateFails(i) \/ Signal(i) \/ Kill(i) \/ Probe(i)
               \/ Reap \/ DbChange

Requesting == \E r \in Requests : \/ \E i \in Instances : Accept(r, i)
                                  \/ Query(r) \/ Return(r) \/ Answer(r)

Next == (\E i \in Instances : Own(i)) \/ Environment \/ Requesting

Spec == Init /\ [][Next]_vars

(* The instance runs; a statement ends with its deadline at the latest; the
   platform goes on probing.  A handler may take for ever. *)
FairSpec ==
  /\ Spec
  /\ \A i \in Instances : WF_vars(Own(i)) /\ WF_vars(Probe(i))
  /\ \A r \in Requests : WF_vars(Return(r))

(***************************************************************************)
(* Properties                                                              *)
(***************************************************************************)
TypeOK ==
  /\ dbUp \in BOOLEAN /\ version \in 0 .. Latest /\ dirty \in BOOLEAN
  /\ schema \subseteq 1 .. Latest
  /\ locker \in Instances \cup {Nobody, Orphan}
  /\ orphan \in [statement : MigrateLabels \cup {"none"}, target : 0 .. Latest]
  /\ pc \in [Instances -> MigrateLabels \cup {"down", "load", "connect", "select",
                                              "draining", "closing"}]
  /\ srv \in [Instances -> {"off", "starting", "accepting", "failed", "closed"}]
  /\ env \in [Instances -> SUBSET Faults] /\ target \in [Instances -> 0 .. Latest]
  /\ signalled \subseteq Instances /\ code \in [Instances -> {0, 1, Killed}]
  /\ boots \in 0 .. MaxBoots /\ rotation \subseteq Instances
  /\ request \in [Requests -> [at : Instances \cup {Nobody},
                               state : {"none", "working", "querying", "answered", "cut"}]]

(* A misconfigured instance never serves traffic (config.Load): what Load
   does not look at, the url's syntax and the port, stops run() later. *)
MisconfiguredNeverServes == \A i \in Instances : srv[i] = "accepting" => env[i] = {}

(* The table schema_migrations tells the truth: a clean version has been
   reached script by script, a dirty one leaves only its own script in
   doubt, although instances start at the same time, die between any two
   statements, and leave a script running in the database. *)
SchemaMatchesVersion ==
  /\ ~dirty => schema = 1 .. version
  /\ dirty  => version # 0 /\ schema \in {1 .. version - 1, 1 .. version}

(* No instance serves before the whole schema is there; in particular none
   ever does after a crash has left a version dirty (db.Migrate fails). *)
ServesOnlyMigrated ==
  \A i \in Instances :
    srv[i] # "off" => version = Latest /\ ~dirty /\ schema = 1 .. Latest

(* When run() comes to its end, no request is cut inside a transaction, and
   if it reports success none is cut at all (Shutdown, then pool.Close). *)
GracefulExit ==
  [][\A i \in Instances :
       (pc[i] = "closing" /\ pc'[i] = "down" /\ code'[i] # Killed) =>
         \A r \in InFlight(i) : request[r].state = "working" /\ code'[i] = 1]_vars

(* A signal ends the process, even if handlers never end and the database is
   gone: the wait of Shutdown is bounded, and so is every statement. *)
SignalledExits == \A i \in Instances : i \in signalled ~> pc[i] = "down"

(* "/readyz (which pings the DB) takes the instance out of rotation during an
   outage": if the database stays down, no instance stays in rotation. *)
OutOfRotation == <>[]~dbUp => <>[](rotation = {})
=============================================================================
