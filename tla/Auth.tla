-------------------------------- MODULE Auth --------------------------------
(***************************************************************************)
(* internal/service/auth.go, internal/repository/users.go and the          *)
(* authenticate middleware: signup, login and the bearer tokens that say   *)
(* who is calling.                                                         *)
(*                                                                         *)
(* Each statement on the table users is a transaction of its own.  A       *)
(* request whose statement is not answered in time is told 503; the INSERT *)
(* of a signup may by then be committed, or still be on its way to the     *)
(* database (late).                                                        *)
(***************************************************************************)
EXTENDS Integers, FiniteSets

CONSTANTS
  Requests,   \* HTTP requests; the user that signup r inserts has id r
  Usernames,  \* names that match usernameRe
  Passwords,  \* passwords of 8 to 72 bytes
  BadName,    \* a name that does not match
  BadPassword,\* a password that is too short or too long
  Null,       \* no token, no row
  Forged,     \* a token that was not signed with the secret, or is malformed
  Logins,     \* the signups and logins that clients try
  TTL,        \* tokenTTL
  MaxClock    \* bound on the server's clock

VARIABLES
  clock,    \* the clock of the server
  users,    \* committed rows: id -> username and password_hash
  pc,       \* request -> the step it is about to take
  req,      \* request -> its body, or its bearer token
  found,    \* request -> the row that Login has read
  identity, \* request -> the caller that authenticate put in the context
  reply,    \* request -> status code and token
  late      \* abandoned signups whose INSERT may still reach the database

vars == <<clock, users, pc, req, found, identity, reply, late>>

Credentials == [op : {"signup", "login"}, username : Usernames \cup {BadName},
                password : Passwords \cup {BadPassword}]
Token == [sub : Requests, exp : Nat]
Bearer == [op : {"call"}, token : Token \cup {Null, Forged}]

ASSUME AuthAssumption ==
  /\ BadName \notin Usernames /\ BadPassword \notin Passwords
  /\ Null \notin Requests \cup Token /\ Forged \notin Token
  /\ Null \notin Credentials \cup Bearer
  /\ Logins \subseteq Credentials
  /\ TTL \in Nat \ {0} /\ MaxClock \in Nat

Labels == {"idle", "insert", "inserted", "lookup", "compare", "authenticate",
           "handler", "done"}
Codes == {0, 200, 201, 400, 401, 404, 409, 500, 503}
Reply(code, token) == [code |-> code, token |-> token]
NoReply == Reply(0, Null)

Init ==
  /\ clock = 0 /\ users = [i \in {} |-> Null] /\ late = {}
  /\ pc = [r \in Requests |-> "idle"] /\ req = [r \in Requests |-> Null]
  /\ found = [r \in Requests |-> Null] /\ identity = [r \in Requests |-> Null]
  /\ reply = [r \in Requests |-> NoReply]

Goto(r, label) == pc' = [pc EXCEPT ![r] = label] /\ UNCHANGED reply

Answer(r, code, token) ==
  /\ pc' = [pc EXCEPT ![r] = "done"]
  /\ reply' = [reply EXCEPT ![r] = Reply(code, token)]

(* bcrypt: a salted hash, different for every signup, that can only be
   compared with a password. *)
Hash(r, password) == [salt |-> r, of |-> password]
NeverCompare(hash, password) == TRUE
CompareHashAndPassword(hash, password) == hash.of = password

(* The tokens that some client has been given; no other one carries a valid
   signature. *)
Issued == {reply[r].token : r \in Requests} \ {Null}

VerifyToken(token) == token \in Issued /\ clock < token.exp

AnySignup(c) == TRUE
ValidSignup(c) == c.username # BadName /\ c.password # BadPassword

Arrive(r, c) ==
  /\ pc[r] = "idle"
  /\ req' = [req EXCEPT ![r] = c]
  /\ CASE c.op = "signup" -> IF ValidSignup(c) THEN Goto(r, "insert")
                             ELSE Answer(r, 400, Null)
       [] c.op = "login"  -> Goto(r, "lookup")
       [] c.op = "call"   -> Goto(r, "authenticate")
  /\ UNCHANGED <<clock, users, found, identity, late>>

(***************************************************************************)
(* Signup                                                                  *)
(***************************************************************************)
Owners(username) == {i \in DOMAIN users : users[i].username = username}

Insert(r) ==
  users' = [i \in DOMAIN users \cup {r} |->
              IF i = r THEN [username     |-> req[r].username,
                             passwordHash |-> Hash(r, req[r].password)]
              ELSE users[i]]

NeverTaken(r) == FALSE
Taken(r) == Owners(req[r].username) # {}

(* An upsert instead of an insert: the new password replaces the old one. *)
UpsertUser(r) ==
  /\ pc[r] = "insert"
  /\ IF Taken(r)
     THEN /\ users' = [i \in DOMAIN users |->
                         IF i \in Owners(req[r].username)
                         THEN [users[i] EXCEPT !.passwordHash = Hash(r, req[r].password)]
                         ELSE users[i]]
          /\ Answer(r, 409, Null)
     ELSE Insert(r) /\ Goto(r, "inserted")
  /\ UNCHANGED <<clock, req, found, identity, late>>

(* INSERT INTO users ... RETURNING, committed at once. *)
CreateUser(r) ==
  /\ pc[r] = "insert"
  /\ IF Taken(r) THEN Answer(r, 409, Null) /\ UNCHANGED users
     ELSE Insert(r) /\ Goto(r, "inserted")
  /\ UNCHANGED <<clock, req, found, identity, late>>

issueToken(r, code, id) == Answer(r, code, [sub |-> id, exp |-> clock + TTL])

(* The result of the INSERT has arrived. *)
Created(r) ==
  /\ pc[r] = "inserted"
  /\ issueToken(r, 201, r)
  /\ UNCHANGED <<clock, users, req, found, identity, late>>

(***************************************************************************)
(* Login                                                                   *)
(***************************************************************************)
GetUserByUsername(r) ==
  /\ pc[r] = "lookup"
  /\ IF ~Taken(r) THEN Answer(r, 401, Null) /\ UNCHANGED found
     ELSE /\ \E i \in Owners(req[r].username) : found' = [found EXCEPT ![r] = i]
          /\ Goto(r, "compare")
  /\ UNCHANGED <<clock, users, req, identity, late>>

ComparePassword(r) ==
  /\ pc[r] = "compare"
  /\ IF CompareHashAndPassword(users[found[r]].passwordHash, req[r].password)
     THEN issueToken(r, 200, found[r])
     ELSE Answer(r, 401, Null)
  /\ UNCHANGED <<clock, users, req, found, identity, late>>

(***************************************************************************)
(* A call with a bearer token                                              *)
(***************************************************************************)
Authenticate(r) ==
  /\ pc[r] = "authenticate"
  /\ IF VerifyToken(req[r].token)
     THEN /\ identity' = [identity EXCEPT ![r] = [id |-> req[r].token.sub, at |-> clock]]
          /\ Goto(r, "handler")
     ELSE Answer(r, 401, Null) /\ UNCHANGED identity
  /\ UNCHANGED <<clock, users, req, found, late>>

(* GetMyAccount: the balance, no wallet, or what writeDomainError makes of any
   other error. *)
Handle(r) == /\ pc[r] = "handler"
             /\ \E code \in {200, 404, 503} : Answer(r, code, Null)
             /\ UNCHANGED <<clock, users, req, found, identity, late>>

(***************************************************************************)
(* Failures and time                                                       *)
(***************************************************************************)
Statements == {"insert", "inserted", "lookup", "handler"}

(* The request ends without the result of its statement; an INSERT that was
   sent may be executed later, or never. *)
CutOff(r, code) ==
  /\ late' = IF pc[r] = "insert" THEN late \cup {r} ELSE late
  /\ Answer(r, code, Null)
  /\ UNCHANGED <<clock, users, req, found, identity>>

(* CreateUser is the only statement that takes the context. *)
AbandonInsert(r) == pc[r] \in {"insert", "inserted", "handler"} /\ CutOff(r, 503)

(* The 10 s deadline, a lost connection: writeDomainError answers 503. *)
Abandon(r) == pc[r] \in Statements /\ CutOff(r, 503)

(* Nothing but the reply survives a panic of the handler (recovery). *)
Panic(r) == pc[r] \notin {"idle", "done"} /\ CutOff(r, 500)

LateInsert(r) ==
  /\ r \in late
  /\ late' = late \ {r}
  /\ IF Taken(r) THEN UNCHANGED users ELSE Insert(r)
  /\ UNCHANGED <<clock, pc, req, found, identity, reply>>

Tick == /\ clock < MaxClock /\ clock' = clock + 1
        /\ UNCHANGED <<users, pc, req, found, identity, reply, late>>

(* The database answers. *)
Statement(r) == CreateUser(r) \/ Created(r) \/ GetUserByUsername(r) \/ Handle(r)

(* The server computes. *)
Compute(r) == ComparePassword(r) \/ Authenticate(r)

Calls == Logins \cup {[op |-> "call", token |-> t] : t \in Issued \cup {Null, Forged}}

(* No request is left; the model stops here, the service waits for more. *)
Idle == (\A r \in Requests : pc[r] = "done") /\ UNCHANGED vars

Next == \/ \E r \in Requests : \/ \E c \in Calls : Arrive(r, c)
                               \/ Statement(r) \/ Compute(r)
                               \/ Abandon(r) \/ Panic(r) \/ LateInsert(r)
        \/ Tick \/ Idle

Spec == Init /\ [][Next]_vars

(* The server runs its goroutines and its timers.  The database owes nothing. *)
FairSpec == Spec /\ \A r \in Requests : WF_vars(Compute(r)) /\ WF_vars(Abandon(r))

(***************************************************************************)
(* Properties                                                              *)
(***************************************************************************)
User == [username : Usernames, passwordHash : [salt : Requests, of : Passwords]]

TypeOK ==
  /\ clock \in 0 .. MaxClock
  /\ DOMAIN users \in SUBSET Requests /\ users \in [DOMAIN users -> User]
  /\ pc \in [Requests -> Labels]
  /\ req \in [Requests -> Credentials \cup Bearer \cup {Null}]
  /\ found \in [Requests -> Requests \cup {Null}]
  /\ identity \in [Requests -> [id : Requests, at : Nat] \cup {Null}]
  /\ reply \in [Requests -> [code : Codes, token : Token \cup {Null}]]
  /\ late \in SUBSET Requests

(* Whatever the races of signups, retries and late INSERTs, a username has
   one owner (UNIQUE, and the one statement of CreateUser). *)
OneOwner == \A i, j \in DOMAIN users : users[i].username = users[j].username => i = j

Answered(r, code) == reply[r].code = code

(* s is a signup or a login that presented the password of user id, and was
   given a token for it. *)
Proved(s, id) ==
  /\ reply[s].token # Null /\ reply[s].token.sub = id
  /\ req[s].username = users[id].username
  /\ req[s].password = users[id].passwordHash.of

(* VerifyToken is the only source of identity and can be trusted: behind
   every caller that reaches a handler there is a row of users, and a signup
   or login with its name and password whose token had not yet expired. *)
IdentityEarned ==
  \A r \in Requests : identity[r] # Null =>
    /\ identity[r].id \in DOMAIN users
    /\ \E s \in Requests : Proved(s, identity[r].id) /\ identity[r].at < reply[s].token.exp

(* What Signup tells the client is true for ever: after a 201 the row is
   there, with the name and the password that were sent; after a 400 or a
   409 this request has left nothing behind, and somebody has the name. *)
SignupAnswersTrue ==
  \A r \in Requests : (req[r] # Null /\ req[r].op = "signup") =>
    /\ Answered(r, 201) =>
         /\ r \in DOMAIN users /\ users[r].username = req[r].username
         /\ users[r].passwordHash.of = req[r].password
    /\ Answered(r, 400) \/ Answered(r, 409) => r \notin DOMAIN users
    /\ Answered(r, 409) => Owners(req[r].username) # {}

(* A committed account stays reachable, also for a client that was told 503
   when it was created: a login that arrives after the commit with the name
   and the password of the row is never answered "invalid credentials". *)
LogsInWith(r, u, p) ==
  req[r] = [op |-> "login", username |-> u, password |-> p]
AccountsStayReachable ==
  \A r \in Requests, u \in Usernames, p \in Passwords :
    [](pc[r] = "idle" /\ (\E i \in Owners(u) : users[i].passwordHash.of = p)
         => [](LogsInWith(r, u, p) => ~Answered(r, 401)))

(* Every request is answered, even if the database never answers another
   statement: each wait for it ends with the deadline (withTimeout). *)
EveryRequestAnswered == \A r \in Requests : pc[r] # "idle" ~> pc[r] = "done"

(* "temporarily unable to process the request; safe to retry": a client
   that has been told nothing but 503 about a name is not told that it is
   taken. *)
SafeToRetry ==
  \A r \in Requests : Answered(r, 409) =>
    \E q \in Requests \ {r} :
      /\ req[q] # Null /\ req[q].op = "signup" /\ req[q].username = req[r].username
      /\ ~Answered(q, 503)
=============================================================================
