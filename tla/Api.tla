-------------------------------- MODULE Api --------------------------------
(***************************************************************************)
(* internal/api: the chain of handlers round every request,                *)
(*   recovery(requestID(metrics(withTimeout(mux)))),                       *)
(* with authenticate inside the mux for the protected routes; the counters *)
(* of internal/obs/metrics.go and the log ring behind GET /logs.           *)
(*                                                                         *)
(* What the handlers do with the table users is Auth; a request is open    *)
(* here from the moment it enters the chain until metrics has counted it   *)
(* or recovery has caught its panic.                                       *)
(***************************************************************************)
EXTENDS Auth, Ring, Money, Bags

CONSTANTS PublicCalls, \* requests of routes without authentication or database
          MaxPanics    \* bound on the number of panics

VARIABLES
  stage,        \* request -> how far it is through the chain
  public,       \* request -> its public call and its answer
  recorded,     \* request -> the status in its statusRecorder
  pattern,      \* request -> r.Pattern, of the request that metrics holds
                \* (outer) and of the copy that the mux was given (inner)
  httpRequests, \* bag of route labels and codes
  authFailures, \* counter
  ring,         \* Ring.lines
  stderr        \* lines of slog's default logger

middleware == <<stage, public, recorded, pattern, httpRequests, authFailures, ring, stderr>>
apiVars == <<vars, middleware>>

Lines == [id : Requests \cup {Null}, code : Codes,
          event : {"request", "auth_failure", "db_unavailable", "panic"}]

ASSUME ApiAssumption ==
  /\ \A c \in PublicCalls : c.op = "nowhere" \/ (c.op = "logs" /\ c.limit \in Nat)
  /\ Null \notin [code : {200, 404}, body : Seq(Lines)]

ApiInit ==
  /\ Init
  /\ stage = [r \in Requests |-> "new"] /\ public = [r \in Requests |-> Null]
  /\ recorded = [r \in Requests |-> 200]
  /\ pattern = [r \in Requests |-> [outer |-> "", inner |-> ""]]
  /\ httpRequests = EmptyBag /\ authFailures = 0 /\ ring = <<>> /\ stderr = <<>>

(* Log(ctx): the logger that requestID put into the context, writing to the
   ring with the request's id, or else the default logger. *)
Line(id, event, code) == [id |-> id, event |-> event, code |-> code]
LogTo(r, event, code) == ring' = push(ring, Line(r, event, code))

(* The status that the client got; 0 while no header is out. *)
Status(r) == IF public[r] # Null THEN public[r].code ELSE reply[r].code

(* statusRecorder.WriteHeader: it remembers the last code it is given. *)
RecordNothing(r, code) == UNCHANGED recorded
Record(r, code) == recorded' = [recorded EXCEPT ![r] = code]

(***************************************************************************)
(* Into the chain                                                          *)
(***************************************************************************)
Route(c) == CASE c.op = "signup"  -> "POST /auth/signup"
              [] c.op = "login"   -> "POST /auth/login"
              [] c.op = "call"    -> "GET /accounts/me"
              [] c.op = "logs"    -> "GET /logs"
              [] c.op = "nowhere" -> ""

(* withTimeout hands the mux r.WithContext(ctx), a copy; the mux writes the
   pattern it matched into that copy. *)
Match(r, c) == pattern' = [pattern EXCEPT ![r].inner = Route(c)]

Enter(r, c) ==
  /\ stage[r] = "new"
  /\ stage' = [stage EXCEPT ![r] = "open"]
  /\ Match(r, c)

(* A call that is answered at once, a signup that is not valid, has its header
   written through the recorder. *)
Through(r) == IF reply'[r].code = reply[r].code THEN UNCHANGED recorded
              ELSE Record(r, reply'[r].code)

Dispatch(r, c) ==
  /\ Enter(r, c)
  /\ Arrive(r, c) /\ Through(r)
  /\ UNCHANGED <<public, httpRequests, authFailures, ring, stderr>>

(* GET /logs, and what the mux answers itself. *)
Serve(r, c) ==
  LET answer == IF c.op = "logs" THEN [code |-> 200, body |-> Limited(ring, c.limit)]
                ELSE [code |-> 404, body |-> <<>>]
  IN  /\ Enter(r, c)
      /\ public' = [public EXCEPT ![r] = answer] /\ Record(r, answer.code)
      /\ UNCHANGED <<vars, httpRequests, authFailures, ring, stderr>>

(***************************************************************************)
(* Inside                                                                  *)
(***************************************************************************)

(* What authFail and writeDomainError do besides the answer. *)
Report(r) ==
  LET code == reply'[r].code IN
  IF code = 401 /\ req[r].op = "call"
  THEN authFailures' = authFailures + 1 /\ LogTo(r, "auth_failure", 401)
  ELSE /\ UNCHANGED authFailures
       /\ IF code = 503 THEN LogTo(r, "db_unavailable", 503) ELSE UNCHANGED ring

Handler(r) ==
  /\ stage[r] = "open"
  /\ Statement(r) \/ Compute(r) \/ Abandon(r)
  /\ Through(r) /\ Report(r)
  /\ UNCHANGED <<stage, public, pattern, httpRequests, stderr>>

(***************************************************************************)
(* Out of the chain                                                        *)
(***************************************************************************)

(* The rest of metrics, when next.ServeHTTP has returned. *)
RouteLabel(r) == IF pattern[r].outer = "" THEN "unmatched" ELSE pattern[r].outer

Count(r) ==
  httpRequests' = httpRequests (+) SetToBag({<<RouteLabel(r), recorded[r]>>})

Finish(r) ==
  /\ stage[r] = "open" /\ Status(r) # 0
  /\ stage' = [stage EXCEPT ![r] = "finished"]
  /\ Count(r)
  /\ LogTo(r, "request", recorded[r])
  /\ UNCHANGED <<vars, public, recorded, pattern, authFailures, stderr>>

(* net/http: a second WriteHeader is ignored; the first one is what the client
   got. *)
WriteHeader(r) == IF Status(r) = 0 THEN Panic(r) ELSE UNCHANGED vars

(* A panic unwinds metrics without counting.  recovery is outside requestID:
   its request has no logger in its context; it is outside metrics too, so its
   500 does not pass through the recorder. *)
Unwind(r) ==
  /\ stage[r] = "open" /\ Len(stderr) < MaxPanics
  /\ stage' = [stage EXCEPT ![r] = "panicked"]
  /\ stderr' = Append(stderr, Line(Null, "panic", 0))

(* metrics with a defer: it runs before recovery has answered. *)
RecoverDeferred(r) ==
  /\ Unwind(r)
  /\ WriteHeader(r)
  /\ LogTo(r, "request", recorded[r])
  /\ UNCHANGED <<public, recorded, pattern, httpRequests, authFailures>>

Recover(r) ==
  /\ Unwind(r)
  /\ WriteHeader(r)
  /\ UNCHANGED <<public, recorded, pattern, httpRequests, authFailures, ring>>

(* After the answer, or beside it: the database and the clock. *)
Background == /\ Tick \/ \E r \in Requests : LateInsert(r)
              /\ UNCHANGED middleware

ApiIdle == (\A r \in Requests : stage[r] \in {"finished", "panicked"}) /\ UNCHANGED apiVars

ApiNext ==
  \/ \E r \in Requests : \/ \E c \in Calls : Dispatch(r, c)
                         \/ \E c \in PublicCalls : Serve(r, c)
                         \/ Handler(r) \/ Finish(r) \/ Recover(r)
  \/ Background \/ ApiIdle

ApiSpec == ApiInit /\ [][ApiNext]_apiVars

(***************************************************************************)
(* Properties                                                              *)
(***************************************************************************)
ApiTypeOK ==
  /\ stage \in [Requests -> {"new", "open", "finished", "panicked"}]
  /\ \A r \in Requests : public[r] = Null \/ public[r].code \in {200, 404}
  /\ recorded \in [Requests -> Codes]
  /\ IsABag(httpRequests) /\ authFailures \in Nat
  /\ ring \in Seq(Lines) /\ Len(ring) <= Cap /\ stderr \in Seq(Lines)

In(line) == \E i \in DOMAIN ring : ring[i] = line

(* GET /logs can be trusted: the lines of a request tell the status that its
   client got, at most one of each kind; the line of its end comes last, and
   that line is missing only if the request has not ended, has panicked, or
   Cap newer lines have pushed it out. *)
LogTellsStatus ==
  /\ \A i, j \in DOMAIN ring :
       /\ ring[i].code = Status(ring[i].id)
       /\ (i < j /\ ring[i].id = ring[j].id) =>
            /\ ring[i].event # "request" /\ ring[i].event # ring[j].event
  /\ \A r \in Requests :
       /\ stage[r] # "finished" => ~In(Line(r, "request", Status(r)))
       /\ (stage[r] = "finished" /\ Len(ring) < Cap) => In(Line(r, "request", Status(r)))

Ended == {r \in Requests : stage[r] = "finished"}

(* The counters tell the same story: every request that has left the chain
   without a panic is counted once, under the status its client got, and
   auth_failures_total is the number of calls that authenticate turned away. *)
CountedOnce ==
  /\ authFailures = Cardinality({r \in Requests : Answered(r, 401) /\ req[r].op = "call"})
  /\ \A code \in Codes :
       Total(httpRequests, {k \in BagToSet(httpRequests) : k[2] = code})
         = Cardinality({r \in Ended : Status(r) = code})

(* "HTTP requests by route": a request that matched a route is counted under
   that route. *)
CountedByRoute ==
  \A k \in BagToSet(httpRequests) : k[1] = "unmatched" => k[2] = 404
=============================================================================
