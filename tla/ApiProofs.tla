----------------------------- MODULE ApiProofs -----------------------------
(***************************************************************************)
(* Accounts and tokens, and the chain of handlers round them.  First of    *)
(* Auth alone: names have one owner, identities are earned, answers to     *)
(* signups are true.  Then of the chain: it is invisible to Auth, and what *)
(* it writes down in counters and log lines is what the clients were told, *)
(* for any number of requests and panics and any size of the ring.         *)
(***************************************************************************)
EXTENDS Api, MoneyProofs, SequenceTheorems, TLAPS

Signups == {c \in Credentials : c.op = "signup" /\ ValidSignup(c)}
LoginCalls == {c \in Credentials : c.op = "login"}

(***************************************************************************)
(* The inductive invariant: what a request knows at each of its steps.     *)
(***************************************************************************)
ReqAt(r) ==
  /\ pc[r] = "idle" => req[r] = Null
  /\ pc[r] # "idle" => req[r] \in Credentials \cup Bearer
  /\ pc[r] \in {"insert", "inserted"} => req[r] \in Signups
  /\ pc[r] \in {"lookup", "compare"} => req[r] \in LoginCalls
  /\ pc[r] \in {"authenticate", "handler"} => req[r] \in Bearer
  /\ pc[r] = "inserted" => r \in DOMAIN users
  /\ pc[r] = "compare" =>
       found[r] \in DOMAIN users /\ users[found[r]].username = req[r].username

(* A row was inserted by its own signup, with what that had sent. *)
RowAt(r) == r \in DOMAIN users =>
  /\ req[r] \in Signups
  /\ users[r].username = req[r].username /\ users[r].passwordHash.of = req[r].password
  /\ pc[r] = "inserted" \/ (pc[r] = "done" /\ reply[r].code \in {201, 500, 503})

LateAt(r) == r \in late =>
  /\ pc[r] = "done" /\ req[r] \in Signups /\ reply[r].code \in {500, 503}
  /\ r \notin DOMAIN users

(* A token is in the hands of a client that has shown the password. *)
ReplyAt(r) ==
  /\ pc[r] # "done" => reply[r] = NoReply
  /\ reply[r].code = 201 => r \in DOMAIN users
  /\ reply[r].code = 409 => Owners(req[r].username) # {}
  /\ reply[r].token # Null =>
       reply[r].token.sub \in DOMAIN users /\ Proved(r, reply[r].token.sub)

IdentityAt(r) == identity[r] # Null =>
  /\ identity[r].id \in DOMAIN users
  /\ \E s \in Requests : Proved(s, identity[r].id) /\ identity[r].at < reply[s].token.exp

AtOK(r) == ReqAt(r) /\ RowAt(r) /\ LateAt(r) /\ ReplyAt(r) /\ IdentityAt(r)

AuthInv == TypeOK /\ OneOwner /\ \A r \in Requests : AtOK(r)

(***************************************************************************)
(* Frame                                                                   *)
(***************************************************************************)

(* The table may have grown by the row of r. *)
Grows(r) == /\ DOMAIN users \subseteq DOMAIN users'
            /\ DOMAIN users' \subseteq DOMAIN users \cup {r}
            /\ \A i \in DOMAIN users : users'[i] = users[i]

(* What is not about r alone. *)
Frame(r) ==
  /\ Grows(r)
  /\ \A q \in Requests \ {r} :
       /\ pc'[q] = pc[q] /\ req'[q] = req[q] /\ found'[q] = found[q]
       /\ identity'[q] = identity[q] /\ reply'[q] = reply[q]
       /\ q \in late' => q \in late

(* A token that r was given stays what it is. *)
KeepsToken(r) == reply[r].token # Null => reply'[r] = reply[r] /\ req'[r] = req[r]

(* An owner of a name remains one. *)
LEMMA OwnersGrow ==
  ASSUME NEW r \in Requests, Grows(r), NEW n, Owners(n) # {}
  PROVE  (Owners(n))' # {}
BY DEF Grows, Owners

(* What a token or a row proves about a request stays proved. *)
LEMMA ProvedStays ==
  ASSUME AuthInv, NEW r \in Requests, Frame(r), KeepsToken(r),
         NEW s \in Requests, NEW id \in DOMAIN users, Proved(s, id)
  PROVE  Proved(s, id)' /\ reply'[s] = reply[s]
<1>1. reply'[s] = reply[s] /\ req'[s] = req[s]
  BY DEF Frame, KeepsToken, Proved
<1>2. users'[id] = users[id]
  BY DEF Frame, Grows
<1> QED BY <1>1, <1>2 DEF Proved

(* A step of r leaves the identity of any request q earned. *)
LEMMA IdentityStays ==
  ASSUME AuthInv, NEW r \in Requests, Frame(r), KeepsToken(r),
         NEW q \in Requests, identity'[q] = identity[q]
  PROVE  IdentityAt(q)'
<1> SUFFICES ASSUME identity[q] # Null
             PROVE  /\ identity[q].id \in DOMAIN users'
                    /\ \E s \in Requests : /\ Proved(s, identity[q].id)'
                                           /\ identity[q].at < reply'[s].token.exp
  BY DEF IdentityAt, Proved
<1>1. identity[q].id \in DOMAIN users
  BY DEF AuthInv, AtOK, IdentityAt
<1>2. PICK s \in Requests : Proved(s, identity[q].id) /\ identity[q].at < reply[s].token.exp
  BY DEF AuthInv, AtOK, IdentityAt
<1>3. Proved(s, identity[q].id)' /\ reply'[s] = reply[s]
  BY <1>1, <1>2, ProvedStays
<1> QED BY <1>1, <1>2, <1>3 DEF Frame, Grows

(* A step of r leaves what the others know as it is. *)
LEMMA Others ==
  ASSUME AuthInv, NEW r \in Requests, Frame(r), KeepsToken(r),
         NEW q \in Requests \ {r}
  PROVE  AtOK(q)'
<1>1. /\ pc'[q] = pc[q] /\ req'[q] = req[q] /\ found'[q] = found[q]
      /\ identity'[q] = identity[q] /\ reply'[q] = reply[q] /\ (q \in late' => q \in late)
  BY DEF Frame
<1>2. /\ DOMAIN users \subseteq DOMAIN users' /\ (q \in DOMAIN users' => q \in DOMAIN users)
      /\ \A i \in DOMAIN users : users'[i] = users[i]
  BY DEF Frame, Grows
<1>3. ReqAt(q) /\ RowAt(q) /\ LateAt(q) /\ ReplyAt(q)
  BY DEF AuthInv, AtOK
<1>4. ReqAt(q)'
  BY <1>1, <1>2, <1>3 DEF ReqAt
<1>5. RowAt(q)'
  BY <1>1, <1>2, <1>3 DEF RowAt
<1>6. LateAt(q)'
  BY <1>1, <1>2, <1>3 DEF LateAt
<1>7. ReplyAt(q)'
  <2>1. reply[q].code = 409 => (Owners(req[q].username))' # {}
    BY <1>1, <1>3, OwnersGrow DEF Frame, ReplyAt
  <2>2. reply[q].token # Null =>
          reply[q].token.sub \in DOMAIN users /\ Proved(q, reply[q].token.sub)'
    BY <1>3, ProvedStays DEF ReplyAt
  <2> QED BY <1>1, <1>2, <1>3, <2>1, <2>2 DEF ReplyAt, NoReply, Reply
<1>8. IdentityAt(q)'
  BY <1>1, IdentityStays
<1> QED BY <1>4, <1>5, <1>6, <1>7, <1>8 DEF AtOK

LEMMA Combine ==
  ASSUME AuthInv, NEW r \in Requests, Frame(r), KeepsToken(r),
         TypeOK', OneOwner', AtOK(r)'
  PROVE  AuthInv'
BY Others DEF AuthInv

(***************************************************************************)
(* Answers                                                                 *)
(***************************************************************************)

(* The request is answered, and nothing else changes but that its INSERT may
   be left behind. *)
LEMMA AnswerStep ==
  ASSUME AuthInv, NEW r \in Requests, pc[r] \notin {"idle", "done"},
         NEW code \in Codes, NEW token \in Token \cup {Null}, Answer(r, code, token),
         UNCHANGED <<clock, users, req, found, identity>>,
         \/ late' = late
         \/ pc[r] = "insert" /\ code \in {500, 503} /\ late' = late \cup {r},
         r \in DOMAIN users => code \in {201, 500, 503},
         code = 201 => r \in DOMAIN users,
         code = 409 => Owners(req[r].username) # {},
         token # Null => /\ token.sub \in DOMAIN users
                         /\ req[r].username = users[token.sub].username
                         /\ req[r].password = users[token.sub].passwordHash.of
  PROVE  AuthInv'
<1> USE DEF Answer
<1>1. TypeOK /\ OneOwner /\ ReqAt(r) /\ RowAt(r) /\ LateAt(r) /\ ReplyAt(r)
  BY DEF AuthInv, AtOK
<1>2. pc'[r] = "done" /\ reply'[r] = Reply(code, token)
  BY <1>1 DEF TypeOK
<1>3. reply[r].token = Null
  BY <1>1 DEF ReplyAt, NoReply, Reply
<1>4. Frame(r) /\ KeepsToken(r)
  BY <1>1, <1>3 DEF Frame, Grows, KeepsToken, TypeOK
<1>5. TypeOK'
  <2>1. Reply(code, token) \in [code : Codes, token : Token \cup {Null}]
    BY DEF Reply
  <2>2. reply' \in [Requests -> [code : Codes, token : Token \cup {Null}]]
    BY <1>1, <2>1 DEF TypeOK
  <2>3. pc' \in [Requests -> Labels] /\ late' \in SUBSET Requests
    BY <1>1 DEF TypeOK, Labels
  <2> QED BY <1>1, <2>2, <2>3 DEF TypeOK
<1>6. OneOwner'
  BY <1>1 DEF OneOwner
<1>7. ReqAt(r)'
  BY <1>1, <1>2 DEF ReqAt
<1>8. RowAt(r)'
  BY <1>1, <1>2 DEF RowAt, Reply
<1>9. LateAt(r)'
  <2>1. r \notin late
    BY <1>1 DEF LateAt
  <2>2. r \in late' => pc[r] = "insert" /\ code \in {500, 503}
    BY <2>1
  <2>3. pc[r] = "insert" => req[r] \in Signups /\ r \notin DOMAIN users
    BY <1>1 DEF ReqAt, RowAt
  <2> QED BY <1>2, <2>2, <2>3 DEF LateAt, Reply
<1>10. ReplyAt(r)'
  <2>1. (Owners(req[r].username))' = Owners(req[r].username)
    BY DEF Owners
  <2> QED BY <1>2, <2>1 DEF ReplyAt, Reply, Proved
<1>11. IdentityAt(r)'
  BY <1>4, IdentityStays
<1> QED BY <1>4, <1>5, <1>6, <1>7, <1>8, <1>9, <1>10, <1>11, Combine DEF AtOK

(* No token, and a code that says nothing about the table. *)
LEMMA PlainAnswer ==
  ASSUME AuthInv, NEW r \in Requests, pc[r] \notin {"idle", "inserted", "done"},
         NEW code \in {200, 401, 404, 503}, Answer(r, code, Null),
         UNCHANGED <<clock, users, req, found, identity, late>>
  PROVE  AuthInv'
<1>1. r \notin DOMAIN users
  BY DEF AuthInv, AtOK, RowAt
<1>2. code \in Codes
  BY DEF Codes
<1> QED BY <1>1, <1>2, AnswerStep

(* issueToken, to a request that has shown the password of user id. *)
LEMMA TokenStep ==
  ASSUME AuthInv, NEW r \in Requests, pc[r] \notin {"idle", "done"},
         NEW code \in {200, 201}, NEW id \in DOMAIN users, issueToken(r, code, id),
         UNCHANGED <<clock, users, req, found, identity, late>>,
         r \in DOMAIN users <=> code = 201,
         req[r].username = users[id].username,
         req[r].password = users[id].passwordHash.of
  PROVE  AuthInv'
<1> DEFINE token == [sub |-> id, exp |-> clock + TTL]
<1>1. token \in Token /\ token.sub = id
  BY AuthAssumption DEF AuthInv, TypeOK, Token
<1>2. Answer(r, code, token)
  BY DEF issueToken
<1>3. code \in Codes /\ code # 409
  BY DEF Codes
<1> HIDE DEF token
<1> QED BY <1>1, <1>2, <1>3, AnswerStep

(***************************************************************************)
(* Steps that go on                                                        *)
(***************************************************************************)

(* A request that is not answered yet goes on at label l. *)
LEMMA GotoStep ==
  ASSUME AuthInv, NEW r \in Requests, pc[r] # "done",
         NEW l \in Labels \ {"done"}, Goto(r, l), late' = late, Grows(r),
         \A q \in Requests \ {r} : /\ req'[q] = req[q] /\ found'[q] = found[q]
                                   /\ identity'[q] = identity[q],
         TypeOK', OneOwner', ReqAt(r)', RowAt(r)', IdentityAt(r)'
  PROVE  AuthInv'
<1>1. TypeOK /\ LateAt(r) /\ ReplyAt(r)
  BY DEF AuthInv, AtOK
<1>2. pc'[r] = l /\ reply' = reply /\ \A q \in Requests \ {r} : pc'[q] = pc[q]
  BY <1>1 DEF Goto, TypeOK
<1>3. reply[r] = NoReply
  BY <1>1 DEF ReplyAt
<1>4. Frame(r) /\ KeepsToken(r)
  BY <1>2, <1>3 DEF Frame, KeepsToken, NoReply, Reply
<1>5. LateAt(r)'
  BY <1>1 DEF LateAt
<1>6. ReplyAt(r)'
  BY <1>2, <1>3 DEF ReplyAt, NoReply, Reply
<1> QED BY <1>4, <1>5, <1>6, Combine DEF AtOK

LEMMA InitOK == Init => AuthInv
<1> SUFFICES ASSUME Init PROVE AuthInv
  OBVIOUS
<1> USE DEF Init
<1>1. TypeOK
  <2>1. NoReply \in [code : Codes, token : Token \cup {Null}]
    BY DEF NoReply, Reply, Codes
  <2>2. DOMAIN users = {}
    OBVIOUS
  <2> QED BY <2>1, <2>2, AuthAssumption DEF TypeOK, Labels
<1>2. OneOwner
  BY DEF OneOwner
<1>3. \A r \in Requests : AtOK(r)
  BY DEF AtOK, ReqAt, RowAt, LateAt, ReplyAt, IdentityAt, NoReply, Reply
<1> QED BY <1>1, <1>2, <1>3 DEF AuthInv

(* Tokens that were issued are tokens. *)
LEMMA CallsType == AuthInv => Calls \subseteq Credentials \cup Bearer
<1> SUFFICES ASSUME AuthInv, NEW c \in Calls PROVE c \in Credentials \cup Bearer
  OBVIOUS
<1>1. CASE c \in Logins
  BY <1>1, AuthAssumption
<1>2. CASE c \in {[op |-> "call", token |-> t] : t \in Issued \cup {Null, Forged}}
  <2>1. Issued \subseteq Token
    BY DEF Issued, AuthInv, TypeOK
  <2> QED BY <1>2, <2>1 DEF Bearer
<1> QED BY <1>1, <1>2 DEF Calls

LEMMA ArriveOK ==
  ASSUME AuthInv, NEW r \in Requests, NEW c \in Calls, Arrive(r, c)
  PROVE  AuthInv'
<1>1. c \in Credentials \cup Bearer
  BY CallsType
<1>2. pc[r] = "idle" /\ req' = [req EXCEPT ![r] = c]
      /\ UNCHANGED <<clock, users, found, identity, late>>
  BY DEF Arrive
<1>3. TypeOK /\ OneOwner /\ ReqAt(r) /\ RowAt(r) /\ LateAt(r) /\ ReplyAt(r)
  BY DEF AuthInv, AtOK
<1>4. r \notin DOMAIN users /\ r \notin late /\ reply[r] = NoReply
  BY <1>2, <1>3 DEF RowAt, LateAt, ReplyAt
<1>5. /\ req'[r] = c /\ req' \in [Requests -> Credentials \cup Bearer \cup {Null}]
      /\ \A q \in Requests \ {r} : req'[q] = req[q]
  BY <1>1, <1>2, <1>3 DEF TypeOK
<1>6. OneOwner' /\ RowAt(r)' /\ Grows(r)
  BY <1>2, <1>3, <1>4 DEF OneOwner, RowAt, Grows
<1>7. ASSUME Answer(r, 400, Null) PROVE AuthInv'
  <2>1. pc'[r] = "done" /\ reply'[r] = Reply(400, Null)
    BY <1>3, <1>7 DEF Answer, TypeOK
  <2>2. Frame(r) /\ KeepsToken(r)
    BY <1>2, <1>3, <1>4, <1>5, <1>6, <1>7
       DEF Frame, KeepsToken, Answer, TypeOK, NoReply, Reply
  <2>3. TypeOK'
    <3>1. Reply(400, Null) \in [code : Codes, token : Token \cup {Null}]
      BY DEF Reply, Codes
    <3>2. reply' \in [Requests -> [code : Codes, token : Token \cup {Null}]]
      BY <1>3, <1>7, <3>1 DEF Answer, TypeOK
    <3>3. pc' \in [Requests -> Labels]
      BY <1>3, <1>7 DEF Answer, TypeOK, Labels
    <3> QED BY <1>2, <1>3, <1>5, <3>2, <3>3 DEF TypeOK
  <2>4. ReqAt(r)' /\ LateAt(r)' /\ ReplyAt(r)'
    BY <1>1, <1>2, <1>4, <1>5, <2>1 DEF ReqAt, LateAt, ReplyAt, Reply
  <2>5. IdentityAt(r)'
    BY <1>2, <2>2, IdentityStays
  <2> QED BY <1>6, <2>2, <2>3, <2>4, <2>5, Combine DEF AtOK
<1>8. ASSUME NEW l \in {"insert", "lookup", "authenticate"}, Goto(r, l),
             l = "insert" => c \in Signups, l = "lookup" => c \in LoginCalls,
             l = "authenticate" => c \in Bearer
      PROVE  AuthInv'
  <2>1. TypeOK'
    BY <1>2, <1>3, <1>5, <1>8 DEF TypeOK, Goto, Labels
  <2>2. pc'[r] = l /\ reply' = reply
    BY <1>3, <1>8 DEF Goto, TypeOK
  <2>3. ReqAt(r)'
    BY <1>1, <1>5, <1>8, <2>2 DEF ReqAt
  <2>4. Frame(r) /\ KeepsToken(r)
    BY <1>2, <1>3, <1>4, <1>5, <1>6, <1>8
       DEF Frame, KeepsToken, Goto, TypeOK, NoReply, Reply
  <2>5. IdentityAt(r)'
    BY <1>2, <2>4, IdentityStays
  <2> QED BY <1>2, <1>5, <1>6, <1>8, <2>1, <2>3, <2>5, GotoStep DEF Labels
<1>9. CASE c.op = "signup"
  <2>1. c \in Credentials
    BY <1>1, <1>9 DEF Bearer
  <2>2. IF ValidSignup(c) THEN Goto(r, "insert") ELSE Answer(r, 400, Null)
    BY <1>9 DEF Arrive
  <2> QED BY <1>7, <1>8, <1>9, <2>1, <2>2 DEF Signups
<1>10. CASE c.op = "login"
  <2>1. c \in LoginCalls /\ Goto(r, "lookup")
    BY <1>1, <1>10 DEF Arrive, Bearer, LoginCalls
  <2> QED BY <1>8, <2>1
<1>11. CASE c.op = "call"
  <2>1. c \in Bearer /\ Goto(r, "authenticate")
    BY <1>1, <1>11 DEF Arrive, Credentials
  <2> QED BY <1>8, <2>1
<1>12. c.op \in {"signup", "login", "call"}
  BY <1>1 DEF Credentials, Bearer
<1> QED BY <1>9, <1>10, <1>11, <1>12

(***************************************************************************)
(* The database                                                            *)
(***************************************************************************)

(* The INSERT of a signup whose name is free. *)
LEMMA InsertFacts ==
  ASSUME AuthInv, NEW r \in Requests, req[r] \in Signups, r \notin DOMAIN users,
         ~Taken(r), Insert(r)
  PROVE  /\ Grows(r) /\ DOMAIN users' = DOMAIN users \cup {r}
         /\ users'[r].username = req[r].username
         /\ users'[r].passwordHash.of = req[r].password
         /\ DOMAIN users' \in SUBSET Requests /\ users' \in [DOMAIN users' -> User]
         /\ OneOwner'
<1>1. TypeOK /\ OneOwner
  BY DEF AuthInv
<1>2. req[r].username \in Usernames /\ req[r].password \in Passwords
  BY DEF Signups, Credentials, ValidSignup
<1> DEFINE row == [username |-> req[r].username, passwordHash |-> Hash(r, req[r].password)]
<1>3. row \in User /\ row.username = req[r].username /\ row.passwordHash.of = req[r].password
  BY <1>2 DEF User, Hash
<1>4. users' = [i \in DOMAIN users \cup {r} |-> IF i = r THEN row ELSE users[i]]
  BY DEF Insert
<1> HIDE DEF row
<1>5. DOMAIN users' = DOMAIN users \cup {r} /\ users'[r] = row
      /\ \A i \in DOMAIN users : users'[i] = users[i]
  BY <1>4
<1>6. users' \in [DOMAIN users' -> User]
  BY <1>1, <1>3, <1>4 DEF TypeOK
<1>7. \A i \in DOMAIN users : users[i].username # req[r].username
  BY DEF Taken, Owners
<1>8. OneOwner'
  BY <1>1, <1>3, <1>5, <1>7 DEF OneOwner
<1> QED BY <1>1, <1>3, <1>5, <1>6, <1>8 DEF Grows, TypeOK

LEMMA CreateUserOK ==
  ASSUME AuthInv, NEW r \in Requests, CreateUser(r)
  PROVE  AuthInv'
<1>1. pc[r] = "insert" /\ UNCHANGED <<clock, req, found, identity, late>>
  BY DEF CreateUser
<1>2. TypeOK /\ ReqAt(r) /\ RowAt(r) /\ LateAt(r)
  BY DEF AuthInv, AtOK
<1>3. req[r] \in Signups /\ r \notin DOMAIN users
  BY <1>1, <1>2 DEF ReqAt, RowAt
<1>4. CASE Taken(r)
  <2>1. Answer(r, 409, Null) /\ users' = users /\ Owners(req[r].username) # {}
    BY <1>4 DEF CreateUser, Taken
  <2>2. 409 \in Codes
    BY DEF Codes
  <2> QED BY <1>1, <1>3, <2>1, <2>2, AnswerStep
<1>5. CASE ~Taken(r)
  <2>1. Insert(r) /\ Goto(r, "inserted")
    BY <1>5 DEF CreateUser
  <2>2. /\ Grows(r) /\ DOMAIN users' = DOMAIN users \cup {r} /\ OneOwner'
        /\ users'[r].username = req[r].username /\ users'[r].passwordHash.of = req[r].password
        /\ DOMAIN users' \in SUBSET Requests /\ users' \in [DOMAIN users' -> User]
    BY <1>3, <1>5, <2>1, InsertFacts
  <2>3. TypeOK'
    BY <1>1, <1>2, <2>1, <2>2 DEF TypeOK, Goto, Labels
  <2>4. pc'[r] = "inserted" /\ reply' = reply
    BY <1>2, <2>1 DEF Goto, TypeOK
  <2>5. ReqAt(r)' /\ RowAt(r)'
    BY <1>1, <1>3, <2>2, <2>4 DEF ReqAt, RowAt, Signups
  <2>6. Frame(r) /\ KeepsToken(r)
    BY <1>1, <1>2, <2>1, <2>2 DEF Frame, KeepsToken, Goto, TypeOK
  <2>7. IdentityAt(r)'
    BY <1>1, <2>6, IdentityStays
  <2> QED BY <1>1, <2>1, <2>2, <2>3, <2>5, <2>7, GotoStep DEF Labels
<1> QED BY <1>4, <1>5

LEMMA LateInsertOK ==
  ASSUME AuthInv, NEW r \in Requests, LateInsert(r)
  PROVE  AuthInv'
<1>1. r \in late /\ late' = late \ {r} /\ UNCHANGED <<clock, pc, req, found, identity, reply>>
  BY DEF LateInsert
<1>2. TypeOK /\ OneOwner /\ ReqAt(r) /\ RowAt(r) /\ LateAt(r) /\ ReplyAt(r)
  BY DEF AuthInv, AtOK
<1>3. /\ pc[r] = "done" /\ req[r] \in Signups /\ reply[r].code \in {500, 503}
      /\ r \notin DOMAIN users
  BY <1>1, <1>2 DEF LateAt
<1>4. /\ Grows(r) /\ OneOwner'
      /\ DOMAIN users' \in SUBSET Requests /\ users' \in [DOMAIN users' -> User]
      /\ r \in DOMAIN users' => /\ users'[r].username = req[r].username
                                /\ users'[r].passwordHash.of = req[r].password
  <2>1. CASE Taken(r)
    <3>1. users' = users
      BY <2>1 DEF LateInsert
    <3> QED BY <1>2, <1>3, <3>1 DEF Grows, OneOwner, TypeOK
  <2>2. CASE ~Taken(r)
    <3>1. Insert(r)
      BY <2>2 DEF LateInsert
    <3> QED BY <1>3, <2>2, <3>1, InsertFacts
  <2> QED BY <2>1, <2>2
<1>5. Frame(r) /\ KeepsToken(r)
  BY <1>1, <1>4 DEF Frame, KeepsToken
<1>6. TypeOK'
  BY <1>1, <1>2, <1>4 DEF TypeOK
<1>7. ReqAt(r)' /\ RowAt(r)' /\ LateAt(r)'
  BY <1>1, <1>2, <1>3, <1>4 DEF ReqAt, RowAt, LateAt, Signups
<1>8. ReplyAt(r)'
  <2>1. reply[r].token # Null =>
          reply[r].token.sub \in DOMAIN users /\ Proved(r, reply[r].token.sub)'
    BY <1>2, <1>5, ProvedStays DEF ReplyAt
  <2> QED BY <1>1, <1>3, <1>4, <2>1 DEF ReplyAt, Grows
<1>9. IdentityAt(r)'
  BY <1>1, <1>5, IdentityStays
<1> QED BY <1>4, <1>5, <1>6, <1>7, <1>8, <1>9, Combine DEF AtOK

LEMMA CreatedOK ==
  ASSUME AuthInv, NEW r \in Requests, Created(r)
  PROVE  AuthInv'
<1>1. pc[r] = "inserted" /\ issueToken(r, 201, r)
      /\ UNCHANGED <<clock, users, req, found, identity, late>>
  BY DEF Created
<1>2. /\ r \in DOMAIN users /\ req[r].username = users[r].username
      /\ req[r].password = users[r].passwordHash.of
  BY <1>1 DEF AuthInv, AtOK, ReqAt, RowAt
<1> QED BY <1>1, <1>2, TokenStep

LEMMA GetUserByUsernameOK ==
  ASSUME AuthInv, NEW r \in Requests, GetUserByUsername(r)
  PROVE  AuthInv'
<1>1. pc[r] = "lookup" /\ UNCHANGED <<clock, users, req, identity, late>>
  BY DEF GetUserByUsername
<1>2. TypeOK /\ OneOwner /\ ReqAt(r) /\ RowAt(r)
  BY DEF AuthInv, AtOK
<1>3. CASE ~Taken(r)
  <2>1. Answer(r, 401, Null) /\ found' = found
    BY <1>3 DEF GetUserByUsername
  <2> QED BY <1>1, <2>1, PlainAnswer
<1>4. CASE Taken(r)
  <2>1. Goto(r, "compare")
    BY <1>4 DEF GetUserByUsername
  <2>2. PICK i \in Owners(req[r].username) : found' = [found EXCEPT ![r] = i]
    BY <1>4 DEF GetUserByUsername
  <2>3. i \in DOMAIN users /\ i \in Requests /\ users[i].username = req[r].username
    BY <1>2 DEF Owners, TypeOK
  <2>4. TypeOK'
    BY <1>1, <1>2, <2>1, <2>2, <2>3 DEF TypeOK, Goto, Labels
  <2>5. pc'[r] = "compare" /\ found'[r] = i /\ reply' = reply
        /\ \A q \in Requests \ {r} : pc'[q] = pc[q] /\ found'[q] = found[q]
    BY <1>2, <2>1, <2>2 DEF Goto, TypeOK
  <2>6. ReqAt(r)' /\ RowAt(r)'
    BY <1>1, <1>2, <2>3, <2>5 DEF ReqAt, RowAt, LoginCalls
  <2>7. OneOwner' /\ Grows(r)
    BY <1>1, <1>2 DEF OneOwner, Grows
  <2>8. Frame(r) /\ KeepsToken(r)
    BY <1>1, <2>5, <2>7 DEF Frame, KeepsToken
  <2>9. IdentityAt(r)'
    BY <1>1, <2>8, IdentityStays
  <2> QED BY <1>1, <2>1, <2>4, <2>5, <2>6, <2>7, <2>9, GotoStep DEF Labels
<1> QED BY <1>3, <1>4

(***************************************************************************)
(* The server                                                              *)
(***************************************************************************)
LEMMA ComparePasswordOK ==
  ASSUME AuthInv, NEW r \in Requests, ComparePassword(r)
  PROVE  AuthInv'
<1>1. pc[r] = "compare" /\ UNCHANGED <<clock, users, req, found, identity, late>>
  BY DEF ComparePassword
<1>2. /\ found[r] \in DOMAIN users /\ req[r].username = users[found[r]].username
      /\ r \notin DOMAIN users
  BY <1>1 DEF AuthInv, AtOK, ReqAt, RowAt
<1>3. CASE CompareHashAndPassword(users[found[r]].passwordHash, req[r].password)
  <2>1. issueToken(r, 200, found[r]) /\ req[r].password = users[found[r]].passwordHash.of
    BY <1>3 DEF ComparePassword, CompareHashAndPassword
  <2> QED BY <1>1, <1>2, <2>1, TokenStep
<1>4. CASE ~CompareHashAndPassword(users[found[r]].passwordHash, req[r].password)
  <2>1. Answer(r, 401, Null)
    BY <1>4 DEF ComparePassword
  <2> QED BY <1>1, <2>1, PlainAnswer
<1> QED BY <1>3, <1>4

LEMMA AuthenticateOK ==
  ASSUME AuthInv, NEW r \in Requests, Authenticate(r)
  PROVE  AuthInv'
<1>1. pc[r] = "authenticate" /\ UNCHANGED <<clock, users, req, found, late>>
  BY DEF Authenticate
<1>2. TypeOK /\ OneOwner /\ ReqAt(r) /\ RowAt(r)
  BY DEF AuthInv, AtOK
<1>3. CASE ~VerifyToken(req[r].token)
  <2>1. Answer(r, 401, Null) /\ identity' = identity
    BY <1>3 DEF Authenticate
  <2> QED BY <1>1, <2>1, PlainAnswer
<1>4. CASE VerifyToken(req[r].token)
  <2> DEFINE caller == [id |-> req[r].token.sub, at |-> clock]
  <2>1. identity' = [identity EXCEPT ![r] = caller] /\ Goto(r, "handler")
    BY <1>4 DEF Authenticate
  <2>2. PICK s \in Requests : reply[s].token = req[r].token /\ reply[s].token # Null
    BY <1>4 DEF VerifyToken, Issued
  <2>3. /\ Proved(s, req[r].token.sub) /\ req[r].token.sub \in DOMAIN users
        /\ clock < reply[s].token.exp
    BY <1>4, <2>2 DEF VerifyToken, AuthInv, AtOK, ReplyAt
  <2>4. caller \in [id : Requests, at : Nat]
    BY <1>2, <2>3, AuthAssumption DEF TypeOK
  <2>5. TypeOK'
    BY <1>1, <1>2, <2>1, <2>4 DEF TypeOK, Goto, Labels
  <2>6. pc'[r] = "handler" /\ identity'[r] = caller /\ reply' = reply
        /\ \A q \in Requests \ {r} : identity'[q] = identity[q]
    BY <1>2, <2>1 DEF Goto, TypeOK
  <2>7. OneOwner' /\ Grows(r) /\ ReqAt(r)' /\ RowAt(r)'
    BY <1>1, <1>2, <2>6 DEF OneOwner, Grows, ReqAt, RowAt
  <2>8. IdentityAt(r)'
    <3>1. Proved(s, req[r].token.sub)'
      BY <1>1, <2>3, <2>6 DEF Proved
    <3> QED BY <1>1, <2>3, <2>6, <3>1 DEF IdentityAt
  <2> QED BY <1>1, <2>1, <2>5, <2>6, <2>7, <2>8, GotoStep DEF Labels
<1> QED BY <1>3, <1>4

LEMMA HandleOK ==
  ASSUME AuthInv, NEW r \in Requests, Handle(r)
  PROVE  AuthInv'
<1>1. PICK code \in {200, 404, 503} : Answer(r, code, Null)
  BY DEF Handle
<1> QED BY <1>1, PlainAnswer DEF Handle

(* Deadlines, lost connections and panics. *)
LEMMA CutOffOK ==
  ASSUME AuthInv, NEW r \in Requests, pc[r] \notin {"idle", "done"},
         NEW code \in {500, 503}, CutOff(r, code)
  PROVE  AuthInv'
<1>1. Answer(r, code, Null) /\ UNCHANGED <<clock, users, req, found, identity>>
  BY DEF CutOff
<1>2. late' = late \/ (pc[r] = "insert" /\ late' = late \cup {r})
  BY DEF CutOff
<1>3. code \in Codes /\ code \notin {201, 409}
  BY DEF Codes
<1> QED BY <1>1, <1>2, <1>3, AnswerStep

LEMMA TickOK == ASSUME AuthInv, Tick PROVE AuthInv'
<1>1. clock \in 0 .. MaxClock /\ clock' \in 0 .. MaxClock
  BY AuthAssumption DEF Tick, AuthInv, TypeOK
<1>2. TypeOK'
  BY <1>1 DEF Tick, AuthInv, TypeOK
<1>3. OneOwner'
  BY DEF Tick, AuthInv, OneOwner
<1>4. ASSUME NEW r \in Requests PROVE AtOK(r)'
  <2>1. AtOK(r)
    BY DEF AuthInv
  <2> QED BY <2>1 DEF Tick, AtOK, ReqAt, RowAt, LateAt, ReplyAt, IdentityAt, Proved, Owners
<1> QED BY <1>2, <1>3, <1>4 DEF AuthInv

LEMMA StutterOK == ASSUME AuthInv, UNCHANGED vars PROVE AuthInv'
BY DEF vars, AuthInv, TypeOK, OneOwner, AtOK, ReqAt, RowAt, LateAt, ReplyAt, IdentityAt,
       Proved, Owners

LEMMA NextOK == AuthInv /\ [Next]_vars => AuthInv'
<1> SUFFICES ASSUME AuthInv, [Next]_vars PROVE AuthInv'
  OBVIOUS
<1>1. CASE UNCHANGED vars
  BY <1>1, StutterOK
<1>2. ASSUME NEW r \in Requests, NEW c \in Calls, Arrive(r, c) PROVE AuthInv'
  BY <1>2, ArriveOK
<1>3. ASSUME NEW r \in Requests, Statement(r) PROVE AuthInv'
  BY <1>3, CreateUserOK, CreatedOK, GetUserByUsernameOK, HandleOK DEF Statement
<1>4. ASSUME NEW r \in Requests, Compute(r) PROVE AuthInv'
  BY <1>4, ComparePasswordOK, AuthenticateOK DEF Compute
<1>5. ASSUME NEW r \in Requests, Abandon(r) PROVE AuthInv'
  BY <1>5, CutOffOK DEF Abandon, Statements
<1>6. ASSUME NEW r \in Requests, Panic(r) PROVE AuthInv'
  BY <1>6, CutOffOK DEF Panic
<1>7. ASSUME NEW r \in Requests, LateInsert(r) PROVE AuthInv'
  BY <1>7, LateInsertOK
<1>8. CASE Tick
  BY <1>8, TickOK
<1>9. CASE Idle
  BY <1>9, StutterOK DEF Idle
<1> QED BY <1>1, <1>2, <1>3, <1>4, <1>5, <1>6, <1>7, <1>8, <1>9 DEF Next

(***************************************************************************)
(* Theorems                                                                *)
(***************************************************************************)

(* What a request knows at each step of Signup, Login and authenticate. *)
THEOREM AuthInvariance == Spec => []AuthInv
BY InitOK, NextOK, PTL DEF Spec

(* The table users and the requests have their types. *)
THEOREM AuthTyped == Spec => []TypeOK
<1>1. AuthInv => TypeOK
  BY DEF AuthInv
<1> QED BY <1>1, AuthInvariance, PTL

(* A username has one owner, whatever the races of signups, retries and
   INSERTs that arrive late (CreateUser, UNIQUE). *)
THEOREM OwnersUnique == Spec => []OneOwner
<1>1. AuthInv => OneOwner
  BY DEF AuthInv
<1> QED BY <1>1, AuthInvariance, PTL

(* Behind every caller that reaches a handler is a row of users and a signup
   or login with its password, whose token had not expired (VerifyToken). *)
THEOREM IdentitiesEarned == Spec => []IdentityEarned
<1>1. AuthInv => IdentityEarned
  BY DEF AuthInv, AtOK, IdentityAt, IdentityEarned
<1> QED BY <1>1, AuthInvariance, PTL

(* What Signup answers is true for ever: 201 means the account is there with
   the name and the password sent, 400 and 409 that nothing was left behind. *)
THEOREM SignupTruth == Spec => []SignupAnswersTrue
<1>1. ASSUME AuthInv PROVE SignupAnswersTrue
  <2> SUFFICES ASSUME NEW r \in Requests
               PROVE  /\ Answered(r, 201) =>
                           /\ r \in DOMAIN users /\ users[r].username = req[r].username
                           /\ users[r].passwordHash.of = req[r].password
                      /\ Answered(r, 400) \/ Answered(r, 409) => r \notin DOMAIN users
                      /\ Answered(r, 409) => Owners(req[r].username) # {}
    BY DEF SignupAnswersTrue
  <2>1. RowAt(r) /\ ReplyAt(r)
    BY <1>1 DEF AuthInv, AtOK
  <2>2. pc[r] = "inserted" => reply[r].code = 0
    BY <2>1 DEF ReplyAt, NoReply, Reply
  <2> QED BY <2>1, <2>2 DEF RowAt, ReplyAt, Answered
<1> QED BY <1>1, AuthInvariance, PTL

(***************************************************************************)
(* Accounts stay reachable                                                 *)
(***************************************************************************)
HasAccount(u, p) == \E i \in Owners(u) : users[i].passwordHash.of = p

(* What is true of a login from the moment its account is there. *)
Reachable(r, u, p) == HasAccount(u, p) /\ (LogsInWith(r, u, p) => reply[r].code # 401)

(* Rows are never changed or deleted, requests never replaced, and a request
   is answered once. *)
LEMMA AccountsStay ==
  ASSUME AuthInv, [Next]_vars, NEW r \in Requests
  PROVE  /\ \A i \in DOMAIN users : i \in DOMAIN users' /\ users'[i] = users[i]
         /\ pc[r] = "done" => reply'[r] = reply[r] /\ req'[r] = req[r]
<1>1. TypeOK
  BY DEF AuthInv
<1>2. ASSUME NEW q \in Requests, Insert(q), q \notin DOMAIN users
      PROVE  \A i \in DOMAIN users : i \in DOMAIN users' /\ users'[i] = users[i]
  BY <1>2 DEF Insert
<1>3. ASSUME NEW q \in Requests, NEW c \in Calls, Arrive(q, c)
      PROVE  users' = users /\ (pc[r] = "done" => reply'[r] = reply[r] /\ req'[r] = req[r])
  <2>1. pc[q] = "idle" /\ req' = [req EXCEPT ![q] = c] /\ users' = users
    BY <1>3 DEF Arrive
  <2>2. c.op \in {"signup", "login", "call"}
    BY CallsType DEF Credentials, Bearer
  <2>3. reply' = reply \/ Answer(q, 400, Null)
    BY <1>3, <2>2 DEF Arrive, Goto
  <2> QED BY <1>1, <2>1, <2>3 DEF Answer, TypeOK
<1>4. ASSUME NEW q \in Requests, Statement(q) \/ Compute(q) \/ Abandon(q) \/ Panic(q)
      PROVE  /\ users' = users \/ (Insert(q) /\ q \notin DOMAIN users)
             /\ pc[r] = "done" => reply'[r] = reply[r] /\ req'[r] = req[r]
  <2>1. /\ pc[q] \notin {"idle", "done"} /\ req' = req
        /\ users' = users \/ (Insert(q) /\ pc[q] = "insert")
        /\ reply' = reply \/ \E code, token : Answer(q, code, token)
    BY <1>4 DEF Statement, CreateUser, Created, GetUserByUsername, Handle, Compute,
                ComparePassword, Authenticate, Abandon, Statements, Panic, CutOff, issueToken, Goto
  <2>2. pc[q] = "insert" => q \notin DOMAIN users
    BY DEF AuthInv, AtOK, RowAt
  <2> QED BY <1>1, <2>1, <2>2 DEF Answer, TypeOK
<1>5. ASSUME NEW q \in Requests, LateInsert(q)
      PROVE  /\ users' = users \/ (Insert(q) /\ q \notin DOMAIN users)
             /\ reply' = reply /\ req' = req
  BY <1>5 DEF LateInsert, AuthInv, AtOK, LateAt
<1>6. CASE Tick \/ Idle \/ UNCHANGED vars
  BY <1>6 DEF Tick, Idle, vars
<1> QED BY <1>2, <1>3, <1>4, <1>5, <1>6 DEF Next

LEMMA ReachableStep ==
  ASSUME AuthInv, [Next]_vars, NEW r \in Requests, NEW u \in Usernames, NEW p \in Passwords,
         Reachable(r, u, p)
  PROVE  Reachable(r, u, p)'
<1>1. TypeOK /\ OneOwner /\ ReqAt(r) /\ ReplyAt(r) /\ TypeOK'
  BY NextOK DEF AuthInv, AtOK
<1>2. PICK i \in Owners(u) : users[i].passwordHash.of = p
  BY DEF Reachable, HasAccount
<1>3. i \in DOMAIN users /\ users[i].username = u /\ i \in DOMAIN users' /\ users'[i] = users[i]
  BY <1>2, AccountsStay DEF Owners
<1>4. HasAccount(u, p)'
  BY <1>2, <1>3 DEF HasAccount, Owners
<1>5. SUFFICES ASSUME LogsInWith(r, u, p)', reply'[r].code = 401 PROVE FALSE
  BY <1>4 DEF Reachable
<1>6. req'[r].op = "login" /\ req'[r].username = u /\ req'[r].password = p
  BY <1>5 DEF LogsInWith
<1>7. pc[r] # "done"
  BY <1>5, AccountsStay DEF Reachable, LogsInWith
<1>8. reply[r].code = 0
  BY <1>1, <1>7 DEF ReplyAt, NoReply, Reply
<1>9. ASSUME NEW q \in Requests, NEW code, NEW token, Answer(q, code, token)
      PROVE  q = r /\ code = 401
  BY <1>1, <1>5, <1>8, <1>9 DEF Answer, TypeOK, Reply
<1>10. reply' # reply
  BY <1>5, <1>8
<1>11. ASSUME NEW q \in Requests, NEW c \in Calls, Arrive(q, c) PROVE FALSE
  <2>1. c.op \in {"signup", "login", "call"}
    BY CallsType DEF Credentials, Bearer
  <2>2. Answer(q, 400, Null)
    BY <1>10, <1>11, <2>1 DEF Arrive, Goto
  <2> QED BY <1>9, <2>2
<1>12. ASSUME NEW q \in Requests, Abandon(q) \/ Panic(q) PROVE FALSE
  BY <1>9, <1>12 DEF Abandon, Panic, CutOff
<1>13. ASSUME NEW q \in Requests, Statement(q) PROVE FALSE
  <2>1. CASE CreateUser(q)
    BY <1>9, <1>10, <2>1 DEF CreateUser, Goto
  <2>2. CASE Created(q)
    BY <1>9, <2>2 DEF Created, issueToken
  <2>3. CASE GetUserByUsername(q)
    <3>1. ~Taken(q) /\ q = r /\ req' = req
      BY <1>9, <1>10, <2>3 DEF GetUserByUsername, Goto
    <3> QED BY <1>2, <1>6, <3>1 DEF Taken
  <2>4. CASE Handle(q)
    BY <1>9, <2>4 DEF Handle
  <2> QED BY <1>13, <2>1, <2>2, <2>3, <2>4 DEF Statement
<1>14. ASSUME NEW q \in Requests, Compute(q) PROVE FALSE
  <2>1. CASE ComparePassword(q)
    <3>1. /\ q = r /\ req' = req /\ pc[r] = "compare"
          /\ users[found[r]].passwordHash.of # req[r].password
      BY <1>9, <2>1 DEF ComparePassword, issueToken, CompareHashAndPassword
    <3>2. found[r] \in DOMAIN users /\ users[found[r]].username = u
      BY <1>1, <1>6, <3>1 DEF ReqAt
    <3>3. found[r] = i
      BY <1>1, <1>3, <3>2 DEF OneOwner
    <3> QED BY <1>2, <1>6, <3>1, <3>3
  <2>2. CASE Authenticate(q)
    <3>1. q = r /\ req' = req /\ pc[r] = "authenticate"
      BY <1>9, <1>10, <2>2 DEF Authenticate, Goto
    <3> QED BY <1>1, <1>6, <3>1 DEF ReqAt, Bearer
  <2> QED BY <1>14, <2>1, <2>2 DEF Compute
<1> QED BY <1>10, <1>11, <1>12, <1>13, <1>14 DEF Next, LateInsert, Tick, Idle, vars

(* A committed account stays reachable: whoever arrives after the commit with
   its name and its password is never told "invalid credentials" (Login). *)
THEOREM AccountsReachable == Spec => AccountsStayReachable
<1>1. ASSUME NEW r \in Requests, NEW u \in Usernames, NEW p \in Passwords
      PROVE  Spec => [](pc[r] = "idle" /\ (\E i \in Owners(u) : users[i].passwordHash.of = p)
                          => [](LogsInWith(r, u, p) => ~Answered(r, 401)))
  <2>1. AuthInv /\ pc[r] = "idle" /\ (\E i \in Owners(u) : users[i].passwordHash.of = p)
          => Reachable(r, u, p)
    BY AuthAssumption DEF AuthInv, AtOK, ReqAt, Reachable, HasAccount, LogsInWith, Credentials
  <2>2. AuthInv /\ Reachable(r, u, p) /\ [Next]_vars => Reachable(r, u, p)'
    BY ReachableStep
  <2>3. Reachable(r, u, p) => (LogsInWith(r, u, p) => ~Answered(r, 401))
    BY DEF Reachable, Answered
  <2> QED BY <2>1, <2>2, <2>3, AuthInvariance, PTL DEF Spec
<1> QED BY <1>1 DEF AccountsStayReachable

(***************************************************************************)
(***************************************************************************)
(* The chain of handlers                                                   *)
(***************************************************************************)
(***************************************************************************)

Written == {"request", "auth_failure", "db_unavailable"}
PublicAnswers == [code : {200, 404}, body : Seq(Lines)]

(***************************************************************************)
(* The inductive invariant.                                                *)
(***************************************************************************)

(* Where a request is in the chain, and where its handler is. *)
ChainAt(r) ==
  /\ stage[r] = "new" => pc[r] = "idle" /\ public[r] = Null
  /\ public[r] # Null => pc[r] = "idle" /\ public[r] \in PublicAnswers
  /\ stage[r] = "open" /\ public[r] = Null => pc[r] # "idle"
  /\ stage[r] = "finished" => Status(r) # 0

ChainType == stage \in [Requests -> {"new", "open", "finished", "panicked"}]
ChainInv == /\ ChainType /\ public \in [Requests -> PublicAnswers \cup {Null}]
            /\ \A r \in Requests : ChainAt(r)

(* The recorder of a request that is in the chain holds what its client was
   told. *)
RecordedAt(r) == (stage[r] = "open" /\ Status(r) # 0) => recorded[r] = Status(r)
RecordedInv == recorded \in [Requests -> Codes] /\ \A r \in Requests : RecordedAt(r)

(* A line was written when its request was answered, or when it ended. *)
LineAt(i) ==
  /\ ring[i].id \in Requests /\ ring[i].code # 0 /\ ring[i].code = Status(ring[i].id)
  /\ ring[i].event = "request" => stage[ring[i].id] = "finished"

LaterAt(i, j) == (i < j /\ ring[i].id = ring[j].id) =>
                   ring[i].event # "request" /\ ring[i].event # ring[j].event

EndAt(r) == (stage[r] = "finished" /\ Len(ring) < Cap) => In(Line(r, "request", Status(r)))

RingType == ring \in Seq(Lines) /\ Len(ring) <= Cap
LogInv == /\ RingType /\ stderr \in Seq(Lines)
          /\ \A i \in DOMAIN ring : LineAt(i)
          /\ \A i, j \in DOMAIN ring : LaterAt(i, j)
          /\ \A r \in Requests : EndAt(r)

(* The coins of Total are the single counts under a status. *)
Under(code) == {k \in BagToSet(httpRequests) : k[2] = code}
EndedWith(code) == {r \in Ended : Status(r) = code}
CountAt(code) ==
  /\ IsFiniteSet(Coins(httpRequests, Under(code))) /\ IsFiniteSet(EndedWith(code))
  /\ Total(httpRequests, Under(code)) = Cardinality(EndedWith(code))

TurnedAway == {r \in Requests : Answered(r, 401) /\ req[r].op = "call"}
CountInv == /\ IsABag(httpRequests)
            /\ IsFiniteSet(TurnedAway) /\ authFailures = Cardinality(TurnedAway)
            /\ \A code \in Codes : CountAt(code)

(***************************************************************************)
(* The chain and Auth                                                      *)
(***************************************************************************)

(* Each step of the chain is a step of Auth, or none. *)
LEMMA ChainStep == [ApiNext]_apiVars => [Next]_vars
<1> SUFFICES ASSUME [ApiNext]_apiVars PROVE Next \/ UNCHANGED vars
  OBVIOUS
<1>1. ASSUME NEW r \in Requests, NEW c \in Calls, Dispatch(r, c) PROVE Next
  BY <1>1 DEF Dispatch, Next
<1>2. ASSUME NEW r \in Requests, NEW c \in PublicCalls, Serve(r, c) PROVE UNCHANGED vars
  BY <1>2 DEF Serve
<1>3. ASSUME NEW r \in Requests, Handler(r) PROVE Next
  BY <1>3 DEF Handler, Next
<1>4. ASSUME NEW r \in Requests, Finish(r) PROVE UNCHANGED vars
  BY <1>4 DEF Finish
<1>5. ASSUME NEW r \in Requests, Recover(r) PROVE Next \/ UNCHANGED vars
  BY <1>5 DEF Recover, WriteHeader, Next
<1>6. CASE Background
  BY <1>6 DEF Background, Next
<1>7. CASE ApiIdle \/ UNCHANGED apiVars
  BY <1>7 DEF ApiIdle, apiVars
<1> QED BY <1>1, <1>2, <1>3, <1>4, <1>5, <1>6, <1>7 DEF ApiNext

(* What a step of r's handler leaves alone. *)
Touches(r) ==
  /\ pc[r] # "done" /\ pc'[r] # "idle"
  /\ \A q \in Requests \ {r} : pc'[q] = pc[q] /\ reply'[q] = reply[q] /\ req'[q] = req[q]

LEMMA ArriveTouches ==
  ASSUME AuthInv, NEW r \in Requests, NEW c \in Calls, Arrive(r, c)
  PROVE  Touches(r) /\ pc[r] = "idle" /\ reply'[r].code \in {0, 400}
<1>1. TypeOK /\ ReplyAt(r)
  BY DEF AuthInv, AtOK
<1>2. pc[r] = "idle" /\ req' = [req EXCEPT ![r] = c]
  BY DEF Arrive
<1>3. reply[r] = NoReply
  BY <1>1, <1>2 DEF ReplyAt
<1>4. c.op \in {"signup", "login", "call"}
  BY CallsType DEF Credentials, Bearer
<1>5. Answer(r, 400, Null) \/ \E l \in {"insert", "lookup", "authenticate"} : Goto(r, l)
  BY <1>4 DEF Arrive
<1>6. CASE Answer(r, 400, Null)
  BY <1>1, <1>2, <1>6 DEF Touches, Answer, TypeOK, Reply
<1>7. CASE \E l \in {"insert", "lookup", "authenticate"} : Goto(r, l)
  BY <1>1, <1>2, <1>3, <1>7 DEF Touches, Goto, TypeOK, NoReply, Reply
<1> QED BY <1>5, <1>6, <1>7

LEMMA HandlerTouches ==
  ASSUME AuthInv, NEW r \in Requests, Statement(r) \/ Compute(r) \/ Abandon(r) \/ Panic(r)
  PROVE  Touches(r) /\ pc[r] # "idle" /\ req' = req /\ reply[r].code = 0
<1>1. TypeOK /\ ReplyAt(r)
  BY DEF AuthInv, AtOK
<1>2. /\ pc[r] \notin {"idle", "done"} /\ req' = req
      /\ \/ \E code, token : Answer(r, code, token)
         \/ \E l \in {"inserted", "compare", "handler"} : Goto(r, l)
  BY DEF Statement, CreateUser, Created, GetUserByUsername, Handle, Compute, ComparePassword,
         Authenticate, Abandon, Statements, Panic, CutOff, issueToken
<1>3. reply[r].code = 0
  BY <1>1, <1>2 DEF ReplyAt, NoReply, Reply
<1>4. CASE \E code, token : Answer(r, code, token)
  BY <1>1, <1>2, <1>3, <1>4 DEF Touches, Answer, TypeOK
<1>5. CASE \E l \in {"inserted", "compare", "handler"} : Goto(r, l)
  BY <1>1, <1>2, <1>3, <1>5 DEF Touches, Goto, TypeOK
<1> QED BY <1>2, <1>4, <1>5

(* A request that has not been answered has no status yet. *)
LEMMA NoStatus ==
  ASSUME AuthInv, ChainInv, NEW r \in Requests, pc[r] # "done", public[r] = Null
  PROVE  Status(r) = 0
BY DEF AuthInv, AtOK, ReplyAt, NoReply, Reply, Status

(* The status of a request is fixed by whoever answers it first. *)
LEMMA StatusStep ==
  ASSUME AuthInv, ChainInv, [ApiNext]_apiVars, NEW q \in Requests, Status(q) # 0
  PROVE  Status(q)' = Status(q)
<1>1. ASSUME NEW r \in Requests, Touches(r), public' = public PROVE Status(q)' = Status(q)
  <2>1. CASE public[q] # Null
    BY <1>1, <2>1 DEF Status
  <2>2. CASE public[q] = Null
    <3>1. q # r
      BY <1>1, <2>2, NoStatus DEF Touches
    <3> QED BY <1>1, <2>2, <3>1 DEF Touches, Status
  <2> QED BY <2>1, <2>2
<1>2. ASSUME UNCHANGED vars, public' = public PROVE Status(q)' = Status(q)
  BY <1>2 DEF Status, vars
<1>3. ASSUME NEW r \in Requests, NEW c \in Calls, Dispatch(r, c) PROVE Status(q)' = Status(q)
  BY <1>1, <1>3, ArriveTouches DEF Dispatch
<1>4. ASSUME NEW r \in Requests, NEW c \in PublicCalls, Serve(r, c)
      PROVE  Status(q)' = Status(q)
  <2>1. stage[r] = "new" /\ UNCHANGED vars
    BY <1>4 DEF Serve, Enter
  <2>2. pc[r] # "done" /\ public[r] = Null
    BY <2>1 DEF ChainInv, ChainAt
  <2>3. q # r
    BY <2>2, NoStatus
  <2>4. public'[q] = public[q]
    BY <1>4, <2>3 DEF Serve, ChainInv
  <2> QED BY <2>1, <2>4 DEF Status, vars
<1>5. ASSUME NEW r \in Requests, Handler(r) PROVE Status(q)' = Status(q)
  BY <1>1, <1>5, HandlerTouches DEF Handler
<1>6. ASSUME NEW r \in Requests, Finish(r) PROVE Status(q)' = Status(q)
  BY <1>2, <1>6 DEF Finish
<1>7. ASSUME NEW r \in Requests, Recover(r) PROVE Status(q)' = Status(q)
  BY <1>1, <1>2, <1>7, HandlerTouches DEF Recover, WriteHeader
<1>8. CASE Background
  BY <1>8 DEF Background, Tick, LateInsert, Status, middleware
<1>9. CASE ApiIdle \/ UNCHANGED apiVars
  BY <1>2, <1>9 DEF ApiIdle, apiVars, middleware
<1> QED BY <1>3, <1>4, <1>5, <1>6, <1>7, <1>8, <1>9 DEF ApiNext

(* The page of GET /logs is made of lines of the ring. *)
LEMMA LimitedType ==
  ASSUME NEW S, NEW s \in Seq(S), NEW n \in Nat PROVE Limited(s, n) \in Seq(S)
<1>1. CASE n > 0 /\ n < Len(s)
  <2>1. Len(s) - n + 1 \in 1 .. Len(s) + 1
    BY <1>1, LenProperties
  <2> QED BY <1>1, <2>1, SubSeqProperties DEF Limited, LastN
<1>2. CASE ~(n > 0 /\ n < Len(s))
  BY <1>2 DEF Limited
<1> QED BY <1>1, <1>2

LEMMA ChainInit == ApiInit => ChainInv
<1> SUFFICES ASSUME ApiInit PROVE ChainInv
  OBVIOUS
<1>1. /\ stage = [r \in Requests |-> "new"] /\ public = [r \in Requests |-> Null]
      /\ pc = [r \in Requests |-> "idle"]
  BY DEF ApiInit, Init
<1> QED BY <1>1 DEF ChainInv, ChainType, ChainAt

LEMMA ChainNext ==
  ASSUME AuthInv, ChainInv, RingType, [ApiNext]_apiVars
  PROVE  ChainInv'
<1> USE DEF ChainInv, ChainType
<1>1. ASSUME NEW r \in Requests, Touches(r), public' = public, public[r] = Null,
             NEW l, stage' = [stage EXCEPT ![r] = l],
             l \in {"open", "panicked"}
      PROVE  ChainInv'
  <2>1. ASSUME NEW q \in Requests PROVE ChainAt(q)'
    <3>1. Status(q) # 0 => Status(q)' = Status(q)
      BY StatusStep
    <3>2. ChainAt(q)
      OBVIOUS
    <3>3. CASE q = r
      BY <1>1, <3>2, <3>3 DEF ChainAt, Touches
    <3>4. CASE q # r
      BY <1>1, <3>1, <3>2, <3>4 DEF ChainAt, Touches
    <3> QED BY <3>3, <3>4
  <2> QED BY <1>1, <2>1
<1>2. ASSUME pc' = pc, public' = public,
             stage' = stage \/ \E r \in Requests, l \in {"finished", "panicked"} :
                                 /\ stage' = [stage EXCEPT ![r] = l]
                                 /\ Status(r) # 0
      PROVE  ChainInv'
  <2>1. ASSUME NEW q \in Requests PROVE ChainAt(q)'
    <3>1. Status(q) # 0 => Status(q)' = Status(q)
      BY StatusStep
    <3> QED BY <1>2, <3>1 DEF ChainAt
  <2> QED BY <1>2, <2>1
<1>3. ASSUME NEW r \in Requests, NEW c \in Calls, Dispatch(r, c) PROVE ChainInv'
  BY <1>1, <1>3, ArriveTouches DEF Dispatch, Enter, ChainAt
<1>4. ASSUME NEW r \in Requests, NEW c \in PublicCalls, Serve(r, c) PROVE ChainInv'
  <2>1. PICK answer : public' = [public EXCEPT ![r] = answer] /\ answer \in PublicAnswers
    <3>1. c.op = "logs" => Limited(ring, c.limit) \in Seq(Lines)
      BY ApiAssumption, LimitedType DEF RingType
    <3> DEFINE answer == IF c.op = "logs" THEN [code |-> 200, body |-> Limited(ring, c.limit)]
                         ELSE [code |-> 404, body |-> <<>>]
    <3>2. answer \in PublicAnswers
      BY <3>1 DEF PublicAnswers
    <3>3. public' = [public EXCEPT ![r] = answer]
      BY <1>4 DEF Serve
    <3> HIDE DEF answer
    <3> QED BY <3>2, <3>3
  <2>2. stage[r] = "new" /\ stage' = [stage EXCEPT ![r] = "open"] /\ UNCHANGED vars
    BY <1>4 DEF Serve, Enter
  <2>3. ASSUME NEW q \in Requests PROVE ChainAt(q)'
    <3>1. ChainAt(q) /\ ChainAt(r) /\ (Status(q) # 0 => Status(q)' = Status(q))
      BY StatusStep
    <3>2. pc' = pc
      BY <2>2 DEF vars
    <3>3. CASE q = r
      <4>1. public'[q] # Null
        BY <2>1, <3>3, ApiAssumption DEF PublicAnswers
      <4> QED BY <2>1, <2>2, <3>1, <3>2, <3>3, <4>1 DEF ChainAt
    <3>4. CASE q # r
      BY <2>1, <2>2, <3>1, <3>2, <3>4 DEF ChainAt
    <3> QED BY <3>3, <3>4
  <2> QED BY <2>1, <2>2, <2>3
<1>5. ASSUME NEW r \in Requests, Handler(r) PROVE ChainInv'
  <2>1. Touches(r) /\ pc[r] # "idle" /\ stage[r] = "open" /\ UNCHANGED <<stage, public>>
    BY <1>5, HandlerTouches DEF Handler
  <2> QED BY <1>1, <2>1 DEF ChainAt
<1>6. ASSUME NEW r \in Requests, Finish(r) PROVE ChainInv'
  BY <1>2, <1>6 DEF Finish, vars
<1>7. ASSUME NEW r \in Requests, Recover(r) PROVE ChainInv'
  <2>1. stage' = [stage EXCEPT ![r] = "panicked"] /\ public' = public
    BY <1>7 DEF Recover, Unwind
  <2>2. CASE Status(r) = 0
    <3>1. Touches(r) /\ pc[r] # "idle"
      BY <1>7, <2>2, HandlerTouches DEF Recover, WriteHeader
    <3> QED BY <1>1, <2>1, <3>1 DEF ChainAt
  <2>3. CASE Status(r) # 0
    BY <1>2, <1>7, <2>1, <2>3 DEF Recover, WriteHeader, vars
  <2> QED BY <2>2, <2>3
<1>8. CASE Background
  BY <1>2, <1>8 DEF Background, Tick, LateInsert, middleware
<1>9. CASE ApiIdle \/ UNCHANGED apiVars
  BY <1>2, <1>9 DEF ApiIdle, apiVars, middleware, vars
<1> QED BY <1>3, <1>4, <1>5, <1>6, <1>7, <1>8, <1>9 DEF ApiNext

(* Every answer from inside the chain goes through the recorder, and nothing
   else does. *)
LEMMA RecordedInit == ApiInit => RecordedInv
<1> SUFFICES ASSUME ApiInit PROVE RecordedInv
  OBVIOUS
<1>1. stage = [r \in Requests |-> "new"] /\ recorded = [r \in Requests |-> 200]
  BY DEF ApiInit
<1> QED BY <1>1 DEF RecordedInv, RecordedAt, Codes

LEMMA RecordedNext ==
  ASSUME AuthInv, AuthInv', ChainInv, RingType, RecordedInv, [ApiNext]_apiVars
  PROVE  RecordedInv'
<1> USE DEF ChainInv, ChainType
<1>0. /\ recorded \in [Requests -> Codes] /\ \A q \in Requests : RecordedAt(q)
      /\ reply' \in [Requests -> [code : Codes, token : Token \cup {Null}]]
  BY DEF RecordedInv, AuthInv, TypeOK
<1>1. ASSUME NEW q \in Requests, recorded'[q] = recorded[q], stage'[q] \in {stage[q], "finished", "panicked"},
             reply'[q] = reply[q] \/ stage'[q] # "open", public'[q] = public[q]
      PROVE  RecordedAt(q)'
  BY <1>0, <1>1 DEF RecordedAt, Status
<1>2. ASSUME NEW r \in Requests, Touches(r), Through(r), UNCHANGED public, public[r] = Null,
             stage' = stage \/ stage' = [stage EXCEPT ![r] = "open"]
      PROVE  RecordedInv'
  <2>1. reply[r].code = 0 /\ reply'[r].code \in Codes
    BY <1>0, <1>2, NoStatus DEF Touches, Status
  <2>2. recorded' \in [Requests -> Codes]
    BY <1>0, <1>2, <2>1 DEF Through, Record
  <2>3. RecordedAt(r)'
    BY <1>0, <1>2, <2>1 DEF Through, Record, RecordedAt, Status
  <2>4. ASSUME NEW q \in Requests \ {r} PROVE RecordedAt(q)'
    <3>1. recorded'[q] = recorded[q] /\ reply'[q] = reply[q] /\ stage'[q] = stage[q]
      BY <1>0, <1>2 DEF Through, Record, Touches
    <3> QED BY <1>1, <1>2, <3>1
  <2> QED BY <2>2, <2>3, <2>4 DEF RecordedInv
<1>3. ASSUME UNCHANGED <<recorded, public, reply>>,
             \A q \in Requests : stage'[q] \in {stage[q], "finished", "panicked"}
      PROVE  RecordedInv'
  BY <1>0, <1>1, <1>3 DEF RecordedInv
<1>4. ASSUME NEW r \in Requests, NEW c \in Calls, Dispatch(r, c) PROVE RecordedInv'
  BY <1>2, <1>4, ArriveTouches DEF Dispatch, Enter, ChainAt
<1>5. ASSUME NEW r \in Requests, NEW c \in PublicCalls, Serve(r, c) PROVE RecordedInv'
  <2>1. PICK answer \in PublicAnswers :
          /\ public' = [public EXCEPT ![r] = answer]
          /\ recorded' = [recorded EXCEPT ![r] = answer.code]
    <3> DEFINE answer == IF c.op = "logs" THEN [code |-> 200, body |-> Limited(ring, c.limit)]
                         ELSE [code |-> 404, body |-> <<>>]
    <3>1. /\ public' = [public EXCEPT ![r] = answer]
          /\ recorded' = [recorded EXCEPT ![r] = answer.code]
      BY <1>5 DEF Serve, Record
    <3>2. answer \in PublicAnswers
      <4>1. c.op = "logs" => Limited(ring, c.limit) \in Seq(Lines)
        BY ApiAssumption, LimitedType DEF RingType
      <4> QED BY <4>1 DEF PublicAnswers
    <3> HIDE DEF answer
    <3> WITNESS answer \in PublicAnswers
    <3> QED BY <3>1
  <2>2. stage' = [stage EXCEPT ![r] = "open"] /\ reply' = reply
    BY <1>5 DEF Serve, Enter, vars
  <2>3. answer # Null /\ answer.code \in {200, 404}
    BY <2>1, ApiAssumption DEF PublicAnswers
  <2>4. RecordedAt(r)' /\ recorded' \in [Requests -> Codes]
    BY <1>0, <2>1, <2>3 DEF RecordedAt, Status, Codes
  <2>5. ASSUME NEW q \in Requests \ {r} PROVE RecordedAt(q)'
    BY <1>1, <2>1, <2>2
  <2> QED BY <2>4, <2>5 DEF RecordedInv
<1>6. ASSUME NEW r \in Requests, Handler(r) PROVE RecordedInv'
  BY <1>2, <1>6, HandlerTouches DEF Handler, ChainAt
<1>7. ASSUME NEW r \in Requests, Finish(r) PROVE RecordedInv'
  BY <1>3, <1>7 DEF Finish, vars
<1>8. ASSUME NEW r \in Requests, Recover(r) PROVE RecordedInv'
  <2>1. stage' = [stage EXCEPT ![r] = "panicked"] /\ UNCHANGED <<public, recorded>>
    BY <1>8 DEF Recover, Unwind
  <2>2. ASSUME NEW q \in Requests \ {r} PROVE reply'[q] = reply[q]
    BY <1>8, <2>2, HandlerTouches DEF Recover, WriteHeader, Touches, vars
  <2>3. ASSUME NEW q \in Requests PROVE RecordedAt(q)'
    <3>1. stage'[q] \in {stage[q], "panicked"} /\ (reply'[q] = reply[q] \/ stage'[q] # "open")
      BY <2>1, <2>2
    <3> QED BY <1>1, <2>1, <3>1
  <2> QED BY <1>0, <2>1, <2>3 DEF RecordedInv
<1>9. CASE Background
  BY <1>3, <1>9 DEF Background, Tick, LateInsert, middleware
<1>10. CASE ApiIdle \/ UNCHANGED apiVars
  BY <1>3, <1>10 DEF ApiIdle, apiVars, middleware, vars
<1> QED BY <1>4, <1>5, <1>6, <1>7, <1>8, <1>9, <1>10 DEF ApiNext

(***************************************************************************)
(* The log                                                                 *)
(***************************************************************************)

(* Each old line that is left has moved by d, and none is lost before the
   ring is full. *)
Shifted(s, t, d) ==
  /\ Len(t) = Len(s) + 1 - d /\ (d = 1 => Len(t) = Cap)
  /\ \A i \in 1 .. Len(t) - 1 : i + d \in 1 .. Len(s) /\ t[i] = s[i + d]

Pushed(S, s, e, t) ==
  /\ t \in Seq(S) /\ Len(t) \in 1 .. Cap /\ t[Len(t)] = e
  /\ \E d \in 0 .. 1 : Shifted(s, t, d)

(* push keeps the newest lines. *)
LEMMA PushFacts ==
  ASSUME NEW S, NEW s \in Seq(S), Len(s) <= Cap, NEW e \in S
  PROVE  Pushed(S, s, e, push(s, e))
<1> DEFINE all == Append(s, e)
           t == push(s, e)
<1>1. /\ all \in Seq(S) /\ Len(all) = Len(s) + 1 /\ all[Len(s) + 1] = e
      /\ \A i \in 1 .. Len(s) : all[i] = s[i]
      /\ Len(s) \in Nat /\ Cap \in Nat \ {0}
  BY RingAssumption, AppendProperties, LenProperties
<1>2. t = SubSeq(all, IF Len(all) > Cap THEN Len(all) - Cap + 1 ELSE 1, Len(all))
  BY DEF push, LastN
<1> SUFFICES Pushed(S, s, e, t)
  OBVIOUS
<1> HIDE DEF all, t
<1>3. CASE Len(all) > Cap
  <2>1. Len(s) = Cap /\ t = SubSeq(all, 2, Cap + 1)
    <3>1. Len(s) = Cap /\ Len(all) = Cap + 1 /\ Len(all) - Cap + 1 = 2
      BY <1>1, <1>3
    <3> QED BY <1>2, <1>3, <3>1
  <2>2. t \in Seq(S) /\ Len(t) = Cap /\ \A i \in 1 .. Cap : t[i] = all[i + 1]
    BY <1>1, <2>1, SubSeqProperties
  <2>3. Shifted(s, t, 1)
    BY <1>1, <2>1, <2>2 DEF Shifted
  <2> QED BY <1>1, <2>1, <2>2, <2>3 DEF Pushed
<1>4. CASE ~(Len(all) > Cap)
  <2>1. t = SubSeq(all, 1, Len(s) + 1) /\ Len(s) + 1 <= Cap
    BY <1>1, <1>2, <1>4
  <2>2. t \in Seq(S) /\ Len(t) = Len(s) + 1 /\ \A i \in 1 .. Len(s) + 1 : t[i] = all[i]
    BY <1>1, <2>1, SubSeqProperties
  <2>3. Shifted(s, t, 0)
    <3>1. \A i \in 1 .. Len(t) - 1 : i + 0 \in 1 .. Len(s) /\ t[i] = s[i + 0]
      BY <1>1, <2>2
    <3> QED BY <1>1, <2>2, <3>1 DEF Shifted
  <2> QED BY <1>1, <2>1, <2>2, <2>3 DEF Pushed
<1> QED BY <1>3, <1>4

LEMMA LogInit == ApiInit => LogInv
<1> SUFFICES ASSUME ApiInit PROVE LogInv
  OBVIOUS
<1>1. ring = <<>> /\ stderr = <<>> /\ \A r \in Requests : stage[r] = "new"
  BY DEF ApiInit
<1>2. RingType /\ stderr \in Seq(Lines)
  BY <1>1, RingAssumption DEF RingType
<1> QED BY <1>1, <1>2 DEF LogInv, EndAt

(* Steps that write nothing and end nothing. *)
LEMMA NothingLogged ==
  ASSUME AuthInv, ChainInv, LogInv, [ApiNext]_apiVars, ring' = ring,
         stderr' = stderr \/ (\E line \in Lines : stderr' = Append(stderr, line)),
         \A r \in Requests : stage[r] = "finished" <=> stage'[r] = "finished"
  PROVE  LogInv'
<1>1. RingType' /\ stderr' \in Seq(Lines)
  BY DEF LogInv, RingType
<1>2. ASSUME NEW i \in DOMAIN ring' PROVE LineAt(i)'
  <2>1. LineAt(i) /\ i \in DOMAIN ring
    BY DEF LogInv
  <2>2. Status(ring[i].id)' = Status(ring[i].id)
    BY <2>1, StatusStep DEF LineAt
  <2> QED BY <2>1, <2>2 DEF LineAt
<1>3. ASSUME NEW r \in Requests PROVE EndAt(r)'
  <2>1. EndAt(r) /\ (stage[r] = "finished" => Status(r)' = Status(r))
    BY StatusStep DEF LogInv, ChainInv, ChainAt
  <2> QED BY <2>1 DEF EndAt, In, Line
<1>4. \A i, j \in DOMAIN ring' : LaterAt(i, j)'
  BY DEF LogInv, LaterAt
<1> QED BY <1>1, <1>2, <1>3, <1>4 DEF LogInv

(* A line is written about r. *)
LEMMA LineLogged ==
  ASSUME AuthInv, ChainInv, LogInv, [ApiNext]_apiVars, stderr' = stderr,
         NEW r \in Requests, NEW event \in Written, NEW code \in Codes,
         LogTo(r, event, code), code # 0, code = Status(r)',
         \A i \in DOMAIN ring : ring[i].id = r =>
           ring[i].event # "request" /\ ring[i].event # event,
         \A q \in Requests :
           stage'[q] = "finished" <=> stage[q] = "finished" \/ (q = r /\ event = "request")
  PROVE  LogInv'
<1> DEFINE line == Line(r, event, code)
<1>1. line \in Lines /\ line.id = r /\ line.event = event /\ line.code = code
  BY DEF Line, Lines, Written
<1>2. ring' = push(ring, line)
  BY DEF LogTo
<1> HIDE DEF line
<1>3. RingType
  BY DEF LogInv
<1>4. /\ ring' \in Seq(Lines) /\ Len(ring') \in 1 .. Cap /\ ring'[Len(ring')] = line
      /\ \E d \in 0 .. 1 : Shifted(ring, ring', d)
  <2>1. Pushed(Lines, ring, line, push(ring, line))
    BY <1>1, <1>3, PushFacts DEF RingType
  <2> QED BY <1>2, <2>1 DEF Pushed
<1>5. PICK d \in 0 .. 1 :
        /\ Len(ring') = Len(ring) + 1 - d /\ (d = 1 => Len(ring') = Cap)
        /\ \A i \in 1 .. Len(ring') - 1 : i + d \in 1 .. Len(ring) /\ ring'[i] = ring[i + d]
  BY <1>4 DEF Shifted
<1>6. /\ DOMAIN ring = 1 .. Len(ring) /\ DOMAIN ring' = 1 .. Len(ring')
      /\ Len(ring) \in Nat /\ Cap \in Nat
  BY <1>3, <1>4, LenProperties, RingAssumption DEF RingType
<1>7. RingType' /\ stderr' \in Seq(Lines)
  BY <1>4, <1>6 DEF LogInv, RingType
<1>8. ASSUME NEW i \in DOMAIN ring' PROVE LineAt(i)'
  <2>1. CASE i = Len(ring')
    <3>1. ring'[i].id = r /\ ring'[i].event = event /\ ring'[i].code = code
      BY <1>1, <1>4, <2>1
    <3> QED BY <3>1 DEF LineAt
  <2>2. CASE i # Len(ring')
    <3>1. i + d \in DOMAIN ring /\ ring'[i] = ring[i + d]
      BY <1>5, <1>6, <2>2
    <3>2. LineAt(i + d)
      BY <3>1 DEF LogInv
    <3>3. PICK q \in Requests : q = ring'[i].id /\ Status(q) # 0
      BY <3>1, <3>2 DEF LineAt
    <3>4. Status(q)' = Status(q)
      BY <3>3, StatusStep
    <3> QED BY <3>1, <3>2, <3>3, <3>4 DEF LineAt
  <2> QED BY <2>1, <2>2
<1>9. ASSUME NEW i \in DOMAIN ring', NEW j \in DOMAIN ring' PROVE LaterAt(i, j)'
  <2> SUFFICES ASSUME i < j, ring'[i].id = ring'[j].id
               PROVE  ring'[i].event # "request" /\ ring'[i].event # ring'[j].event
    BY DEF LaterAt
  <2>1. i + d \in DOMAIN ring /\ ring'[i] = ring[i + d]
    <3>1. i \in 1 .. Len(ring') - 1
      BY <1>4, <1>6
    <3> QED BY <1>5, <1>6, <3>1
  <2>2. CASE j = Len(ring')
    <3>1. ring'[j].id = r /\ ring'[j].event = event
      BY <1>1, <1>4, <2>2
    <3> QED BY <2>1, <3>1
  <2>3. CASE j # Len(ring')
    <3>1. j + d \in DOMAIN ring /\ ring'[j] = ring[j + d] /\ i + d < j + d
      BY <1>5, <1>6, <2>3
    <3>2. LaterAt(i + d, j + d)
      BY <2>1, <3>1 DEF LogInv
    <3> QED BY <2>1, <3>1, <3>2 DEF LaterAt
  <2> QED BY <2>2, <2>3
<1>10. ASSUME NEW q \in Requests PROVE EndAt(q)'
  <2> SUFFICES ASSUME stage'[q] = "finished", Len(ring') < Cap
               PROVE  In(Line(q, "request", Status(q)))'
    BY DEF EndAt
  <2>1. d = 0
    BY <1>5
  <2>2. CASE q = r /\ event = "request"
    <3>1. line = Line(q, "request", Status(q)')
      BY <2>2 DEF line
    <3>2. Len(ring') \in DOMAIN ring'
      BY <1>4, <1>6
    <3> QED BY <1>4, <3>1, <3>2 DEF In, Line
  <2>3. CASE stage[q] = "finished"
    <3>1. Status(q)' = Status(q)
      BY <2>3, StatusStep DEF ChainInv, ChainAt
    <3>2. EndAt(q) /\ Len(ring) < Cap
      BY <1>5, <1>6, <2>1 DEF LogInv
    <3>3. PICK i \in DOMAIN ring : ring[i] = Line(q, "request", Status(q))
      BY <2>3, <3>2 DEF EndAt, In
    <3>4. i \in DOMAIN ring' /\ ring'[i] = ring[i]
      <4>1. i \in 1 .. Len(ring') - 1
        BY <1>5, <1>6, <2>1
      <4>2. ring'[i] = ring[i + d] /\ i + d = i
        BY <1>5, <1>6, <2>1, <4>1
      <4> QED BY <1>4, <1>6, <4>1, <4>2
    <3> QED BY <3>1, <3>3, <3>4 DEF In, Line
  <2> QED BY <2>2, <2>3
<1> QED BY <1>7, <1>8, <1>9, <1>10 DEF LogInv

LEMMA LogNext ==
  ASSUME AuthInv, ChainInv, RecordedInv, LogInv, [ApiNext]_apiVars
  PROVE  LogInv'
<1> USE DEF ChainInv, ChainType
<1>1. ASSUME NEW r \in Requests, stage[r] # "finished", NEW l \in {"open", "panicked"},
             stage' = [stage EXCEPT ![r] = l]
      PROVE  \A q \in Requests : stage[q] = "finished" <=> stage'[q] = "finished"
  BY <1>1
<1>2. ASSUME NEW r \in Requests, NEW c \in Calls, Dispatch(r, c) PROVE LogInv'
  BY <1>1, <1>2, NothingLogged DEF Dispatch, Enter
<1>3. ASSUME NEW r \in Requests, NEW c \in PublicCalls, Serve(r, c) PROVE LogInv'
  BY <1>1, <1>3, NothingLogged DEF Serve, Enter
<1>4. ASSUME NEW r \in Requests, Handler(r) PROVE LogInv'
  <2>1. /\ stage[r] = "open" /\ Report(r) /\ UNCHANGED <<stage, public, stderr>>
        /\ pc[r] # "idle" /\ pc[r] # "done"
    BY <1>4, HandlerTouches DEF Handler, Touches
  <2>2. public[r] = Null /\ Status(r) = 0
    BY <2>1, NoStatus DEF ChainAt
  <2>3. \A i \in DOMAIN ring : ring[i].id # r
    BY <2>2 DEF LogInv, LineAt
  <2>4. Status(r)' = reply'[r].code
    BY <2>1, <2>2 DEF Status
  <2>5. ASSUME NEW code \in {401, 503}, NEW event \in {"auth_failure", "db_unavailable"},
               reply'[r].code = code, LogTo(r, event, code)
        PROVE  LogInv'
    BY <2>1, <2>3, <2>4, <2>5, LineLogged DEF Written, Codes
  <2>6. CASE ring' = ring
    BY <2>1, <2>6, NothingLogged
  <2> QED BY <2>1, <2>5, <2>6 DEF Report
<1>5. ASSUME NEW r \in Requests, Finish(r) PROVE LogInv'
  <2>1. /\ stage[r] = "open" /\ Status(r) # 0 /\ stderr' = stderr
        /\ stage' = [stage EXCEPT ![r] = "finished"] /\ LogTo(r, "request", Status(r))
    BY <1>5 DEF Finish, RecordedInv, RecordedAt
  <2>2. Status(r)' = Status(r)
    BY <2>1, StatusStep
  <2>3. Status(r) \in Codes
    BY DEF AuthInv, TypeOK, Status, PublicAnswers, Codes
  <2>4. \A i \in DOMAIN ring : ring[i].id = r => ring[i].event # "request"
    BY <2>1 DEF LogInv, LineAt
  <2> QED BY <2>1, <2>2, <2>3, <2>4, LineLogged DEF Written
<1>6. ASSUME NEW r \in Requests, Recover(r) PROVE LogInv'
  <2>1. /\ stage[r] = "open" /\ stage' = [stage EXCEPT ![r] = "panicked"]
        /\ stderr' = Append(stderr, Line(Null, "panic", 0)) /\ ring' = ring
    BY <1>6 DEF Recover, Unwind
  <2>2. Line(Null, "panic", 0) \in Lines
    BY DEF Line, Lines, Codes
  <2> QED BY <1>1, <2>1, <2>2, NothingLogged
<1>7. CASE Background \/ ApiIdle \/ UNCHANGED apiVars
  BY <1>7, NothingLogged DEF Background, ApiIdle, apiVars, middleware
<1> QED BY <1>2, <1>3, <1>4, <1>5, <1>6, <1>7 DEF ApiNext

(***************************************************************************)
(* The counters                                                            *)
(***************************************************************************)
LEMMA CoinIn ==
  ASSUME NEW f, NEW S
  PROVE  \A coin : coin \in Coins(f, S) <=> \E x \in S : \E n \in 1 .. f[x] : coin = <<x, n>>
BY DEF Coins

(* Counter.Inc: one more of its kind. *)
OneMore(B, k, B2) ==
  /\ IsABag(B2) /\ DOMAIN B2 = DOMAIN B \cup {k}
  /\ \A x \in DOMAIN B \ {k} : B2[x] = B[x]
  /\ \E n \in Nat : /\ B2[k] = n + 1
                    /\ (k \in DOMAIN B /\ B[k] = n) \/ (k \notin DOMAIN B /\ n = 0)

(* Adding a singleton bag is that. *)
LEMMA BagAdd ==
  ASSUME NEW B, IsABag(B), NEW k
  PROVE  OneMore(B, k, B (+) SetToBag({k}))
<1> DEFINE B2 == B (+) SetToBag({k})
<1> DEFINE one == SetToBag({k})
<1>1. DOMAIN one = {k} /\ one[k] = 1
  BY DEF SetToBag
<1>2. B2 = [e \in DOMAIN B \cup DOMAIN one |->
              (IF e \in DOMAIN B THEN B[e] ELSE 0) + (IF e \in DOMAIN one THEN one[e] ELSE 0)]
  BY DEF (+)
<1> SUFFICES OneMore(B, k, B2)
  OBVIOUS
<1> HIDE DEF one, B2
<1>3. \A x \in DOMAIN B : B[x] \in Nat /\ B[x] > 0
  BY DEF IsABag
<1>4. DOMAIN B2 = DOMAIN B \cup {k}
  BY <1>1, <1>2
<1>5. \A x \in DOMAIN B \ {k} : B2[x] = B[x]
  BY <1>1, <1>2, <1>3
<1>6. B2[k] = (IF k \in DOMAIN B THEN B[k] ELSE 0) + 1
  BY <1>1, <1>2
<1>7. IsABag(B2)
  <2>1. \A x \in DOMAIN B2 : B2[x] \in {n \in Nat : n > 0}
    BY <1>3, <1>4, <1>5, <1>6
  <2>2. B2 = [x \in DOMAIN B2 |-> B2[x]]
    BY <1>2
  <2> QED BY <2>1, <2>2 DEF IsABag
<1>8. CASE k \in DOMAIN B
  BY <1>3, <1>4, <1>5, <1>6, <1>7, <1>8 DEF OneMore
<1>9. CASE k \notin DOMAIN B
  BY <1>4, <1>5, <1>6, <1>7, <1>9 DEF OneMore
<1> QED BY <1>8, <1>9

LEMMA CountInit == ApiInit => CountInv
<1> SUFFICES ASSUME ApiInit PROVE CountInv
  OBVIOUS
<1>1. httpRequests = EmptyBag /\ authFailures = 0
  BY DEF ApiInit
<1>2. IsABag(httpRequests) /\ DOMAIN httpRequests = {}
  BY <1>1 DEF EmptyBag, SetToBag, IsABag
<1>3. TurnedAway = {}
  <2>1. \A r \in Requests : ~Answered(r, 401)
    <3>1. reply = [r \in Requests |-> NoReply] /\ NoReply.code = 0
      BY DEF ApiInit, Init, NoReply, Reply
    <3> QED BY <3>1 DEF Answered
  <2> QED BY <2>1 DEF TurnedAway
<1>4. ASSUME NEW code PROVE EndedWith(code) = {} /\ Under(code) = {}
  BY <1>2 DEF EndedWith, Ended, ApiInit, Under, BagToSet
<1>5. Cardinality({}) = 0 /\ IsFiniteSet({})
  BY FS_EmptySet
<1>6. ASSUME NEW code PROVE CountAt(code)
  <2>1. Coins(httpRequests, Under(code)) = {}
    BY <1>4 DEF Coins
  <2> QED BY <1>4, <1>5, <2>1 DEF CountAt, Total
<1> QED BY <1>1, <1>2, <1>3, <1>5, <1>6 DEF CountInv

(* No request ends, nothing is counted. *)
LEMMA NothingCounted ==
  ASSUME AuthInv, ChainInv, CountInv, [ApiNext]_apiVars, httpRequests' = httpRequests,
         \A r \in Requests : stage[r] = "finished" <=> stage'[r] = "finished",
         NEW code \in Codes
  PROVE  CountAt(code)'
<1>1. ASSUME NEW r \in Requests PROVE r \in EndedWith(code)' <=> r \in EndedWith(code)
  <2>1. stage[r] = "finished" => Status(r)' = Status(r)
    BY StatusStep DEF ChainInv, ChainAt
  <2> QED BY <2>1 DEF EndedWith, Ended
<1>2. EndedWith(code)' = EndedWith(code)
  BY <1>1 DEF EndedWith, Ended
<1>3. Under(code)' = Under(code) /\ CountAt(code)
  BY DEF Under, CountInv
<1> QED BY <1>2, <1>3 DEF CountAt

(* The request r ends and is counted under its status. *)
LEMMA FinishCounted ==
  ASSUME AuthInv, ChainInv, RecordedInv, CountInv, NEW r \in Requests, Finish(r), ApiNext,
         NEW code \in Codes
  PROVE  CountAt(code)' /\ IsABag(httpRequests)'
<1> DEFINE key == <<RouteLabel(r), Status(r)>>
<1>1. /\ stage[r] = "open" /\ Status(r) # 0 /\ stage' = [stage EXCEPT ![r] = "finished"]
      /\ httpRequests' = httpRequests (+) SetToBag({key})
  BY DEF Finish, Count, RecordedInv, RecordedAt
<1>2. key[2] = Status(r)
  OBVIOUS
<1> HIDE DEF key
<1>3. IsABag(httpRequests) /\ CountAt(code)
  BY DEF CountInv
<1>4. /\ IsABag(httpRequests') /\ DOMAIN httpRequests' = DOMAIN httpRequests \cup {key}
      /\ \A x \in DOMAIN httpRequests \ {key} : httpRequests'[x] = httpRequests[x]
      /\ \E n \in Nat : /\ httpRequests'[key] = n + 1
                        /\ \/ key \in DOMAIN httpRequests /\ httpRequests[key] = n
                           \/ key \notin DOMAIN httpRequests /\ n = 0
  <2>1. OneMore(httpRequests, key, httpRequests')
    BY <1>1, <1>3, BagAdd
  <2> QED BY <2>1 DEF OneMore
<1>5. ASSUME NEW q \in Requests
      PROVE  q \in EndedWith(code)' <=> q \in EndedWith(code) \/ (q = r /\ code = Status(r))
  <2>1. ChainInv /\ ChainAt(q) /\ ChainType
    BY DEF ChainInv
  <2>2. Status(q) # 0 => Status(q)' = Status(q)
    BY StatusStep
  <2> QED BY <1>1, <2>1, <2>2 DEF EndedWith, Ended, ChainAt, ChainType
<1>6. CASE code # Status(r)
  <2>1. EndedWith(code)' = EndedWith(code)
    BY <1>5, <1>6 DEF EndedWith, Ended
  <2>2. Under(code)' = Under(code) /\ key \notin Under(code)
    BY <1>2, <1>4, <1>6 DEF Under, BagToSet
  <2>3. Coins(httpRequests', Under(code)) = Coins(httpRequests, Under(code))
    <3>1. \A x \in Under(code) : httpRequests'[x] = httpRequests[x]
      BY <1>4, <2>2 DEF Under, BagToSet
    <3> QED BY <3>1 DEF Coins
  <2> QED BY <1>3, <1>4, <2>1, <2>2, <2>3 DEF CountAt, Total
<1>7. CASE code = Status(r)
  <2>1. PICK n \in Nat :
          /\ httpRequests'[key] = n + 1
          /\ \/ key \in DOMAIN httpRequests /\ httpRequests[key] = n
             \/ key \notin DOMAIN httpRequests /\ n = 0
    BY <1>4
  <2> DEFINE old == Coins(httpRequests, Under(code))
             new == Coins(httpRequests', Under(code)')
  <2>2. Under(code)' = Under(code) \cup {key}
    BY <1>2, <1>4, <1>7 DEF Under, BagToSet
  <2>3. \A x \in Under(code) \ {key} : httpRequests'[x] = httpRequests[x]
    BY <1>4 DEF Under, BagToSet
  <2>4. key \in Under(code) <=> key \in DOMAIN httpRequests
    BY <1>2, <1>7 DEF Under, BagToSet
  <2>5. <<key, n + 1>> \notin old
    <3> SUFFICES ASSUME NEW x \in Under(code), NEW m \in 1 .. httpRequests[x],
                        <<key, n + 1>> = <<x, m>>
                 PROVE  FALSE
      BY CoinIn
    <3> QED BY <2>1, <2>4
  <2>6. new = old \cup {<<key, n + 1>>}
    <3>1. ASSUME NEW coin \in new PROVE coin \in old \cup {<<key, n + 1>>}
      <4> PICK x \in Under(code) \cup {key} : \E m \in 1 .. httpRequests'[x] : coin = <<x, m>>
        BY <2>2, <3>1, CoinIn
      <4>1. PICK m \in 1 .. httpRequests'[x] : coin = <<x, m>>
        OBVIOUS
      <4>2. CASE x # key
        <5>1. x \in Under(code) /\ m \in 1 .. httpRequests[x]
          BY <2>3, <4>1, <4>2
        <5> QED BY <4>1, <5>1, CoinIn
      <4>3. CASE x = key /\ m = n + 1
        BY <4>1, <4>3
      <4>4. CASE x = key /\ m # n + 1
        <5>1. m \in 1 .. n
          BY <2>1, <4>1, <4>4
        <5>2. key \in Under(code) /\ m \in 1 .. httpRequests[key]
          BY <2>1, <2>4, <5>1
        <5> QED BY <4>1, <4>4, <5>2, CoinIn
      <4> QED BY <4>2, <4>3, <4>4
    <3>2. ASSUME NEW coin \in old PROVE coin \in new
      <4> PICK x \in Under(code) : \E m \in 1 .. httpRequests[x] : coin = <<x, m>>
        BY <3>2, CoinIn
      <4>1. PICK m \in 1 .. httpRequests[x] : coin = <<x, m>>
        OBVIOUS
      <4>2. x \in Under(code)' /\ m \in 1 .. httpRequests'[x]
        <5>1. CASE x # key
          BY <2>2, <2>3, <5>1
        <5>2. CASE x = key
          BY <2>1, <2>2, <2>4, <5>2
        <5> QED BY <5>1, <5>2
      <4> QED BY <4>1, <4>2, CoinIn
    <3>3. <<key, n + 1>> \in new
      <4>1. key \in Under(code)' /\ n + 1 \in 1 .. httpRequests'[key]
        BY <2>1, <2>2
      <4> QED BY <4>1, CoinIn
    <3> HIDE DEF old, new
    <3> QED BY <3>1, <3>2, <3>3
  <2>7. EndedWith(code)' = EndedWith(code) \cup {r} /\ r \notin EndedWith(code)
    BY <1>1, <1>5, <1>7 DEF EndedWith, Ended
  <2>8. /\ IsFiniteSet(old) /\ IsFiniteSet(EndedWith(code))
        /\ Cardinality(old) = Cardinality(EndedWith(code))
    BY <1>3 DEF CountAt, Total
  <2>9. /\ IsFiniteSet(new) /\ IsFiniteSet(EndedWith(code)')
        /\ Cardinality(new) = Cardinality(EndedWith(code)')
    <3> HIDE DEF old, new
    <3>1. IsFiniteSet(new) /\ Cardinality(new) = Cardinality(old) + 1
      BY <2>5, <2>6, <2>8, FS_AddElement
    <3>2. /\ IsFiniteSet(EndedWith(code)')
          /\ Cardinality(EndedWith(code)') = Cardinality(EndedWith(code)) + 1
      BY <2>7, <2>8, FS_AddElement
    <3> QED BY <2>8, <3>1, <3>2
  <2> QED BY <1>4, <2>9 DEF CountAt, Total
<1> QED BY <1>6, <1>7

(* authFail is the only answer that adds to TurnedAway. *)
LEMMA TurnedStep ==
  ASSUME AuthInv, NEW r \in Requests, Touches(r)
  PROVE  /\ r \notin TurnedAway
         /\ TurnedAway' = IF reply'[r].code = 401 /\ req'[r].op = "call"
                          THEN TurnedAway \cup {r} ELSE TurnedAway
<1>1. reply[r].code = 0
  BY DEF Touches, AuthInv, AtOK, ReplyAt, NoReply, Reply
<1>2. ASSUME NEW q \in Requests \ {r} PROVE q \in TurnedAway' <=> q \in TurnedAway
  BY <1>2 DEF Touches, TurnedAway, Answered
<1>3. r \notin TurnedAway /\ (r \in TurnedAway' <=> reply'[r].code = 401 /\ req'[r].op = "call")
  BY <1>1 DEF TurnedAway, Answered
<1>4. TurnedAway \subseteq Requests /\ TurnedAway' \subseteq Requests
  BY DEF TurnedAway
<1> QED BY <1>2, <1>3, <1>4

LEMMA CountNext ==
  ASSUME AuthInv, ChainInv, RecordedInv, CountInv, [ApiNext]_apiVars
  PROVE  CountInv'
<1>1. /\ IsABag(httpRequests) /\ IsFiniteSet(TurnedAway)
      /\ authFailures = Cardinality(TurnedAway)
  BY DEF CountInv
<1>2. ASSUME NEW r \in Requests, stage[r] # "finished", NEW l \in {"open", "panicked"},
             stage' = [stage EXCEPT ![r] = l]
      PROVE  \A q \in Requests : stage[q] = "finished" <=> stage'[q] = "finished"
  BY <1>2 DEF ChainInv, ChainType
<1>3. ASSUME httpRequests' = httpRequests,
             \A q \in Requests : stage[q] = "finished" <=> stage'[q] = "finished",
             \/ TurnedAway' = TurnedAway /\ authFailures' = authFailures
             \/ \E r \in Requests : /\ r \notin TurnedAway /\ TurnedAway' = TurnedAway \cup {r}
                                    /\ authFailures' = authFailures + 1
      PROVE  CountInv'
  <2>1. \A code \in Codes : CountAt(code)'
    BY <1>3, NothingCounted
  <2>2. IsFiniteSet(TurnedAway)' /\ (authFailures = Cardinality(TurnedAway))'
    BY <1>1, <1>3, FS_AddElement
  <2> QED BY <1>1, <1>3, <2>1, <2>2 DEF CountInv
<1>4. ASSUME UNCHANGED vars PROVE TurnedAway' = TurnedAway
  BY <1>4 DEF vars, TurnedAway, Answered
<1>5. ASSUME NEW r \in Requests, NEW c \in Calls, Dispatch(r, c) PROVE CountInv'
  <2>1. Touches(r) /\ reply'[r].code # 401
    BY <1>5, ArriveTouches DEF Dispatch
  <2> QED BY <1>2, <1>3, <1>5, <2>1, TurnedStep DEF Dispatch, Enter
<1>6. ASSUME NEW r \in Requests, NEW c \in PublicCalls, Serve(r, c) PROVE CountInv'
  BY <1>2, <1>3, <1>4, <1>6 DEF Serve, Enter
<1>7. ASSUME NEW r \in Requests, Handler(r) PROVE CountInv'
  <2>1. Touches(r) /\ req' = req
    BY <1>7, HandlerTouches DEF Handler
  <2>2. UNCHANGED <<stage, httpRequests>> /\ Report(r)
    BY <1>7 DEF Handler
  <2>3. CASE reply'[r].code = 401 /\ req[r].op = "call"
    BY <1>3, <2>1, <2>2, <2>3, TurnedStep DEF Report
  <2>4. CASE ~(reply'[r].code = 401 /\ req[r].op = "call")
    BY <1>3, <2>1, <2>2, <2>4, TurnedStep DEF Report
  <2> QED BY <2>3, <2>4
<1>8. ASSUME NEW r \in Requests, Finish(r) PROVE CountInv'
  <2>1. CASE ApiNext
    <3>1. \A code \in Codes : CountAt(code)' /\ IsABag(httpRequests)'
      BY <1>8, <2>1, FinishCounted
    <3>2. TurnedAway' = TurnedAway /\ authFailures' = authFailures
      BY <1>4, <1>8 DEF Finish
    <3>3. IsABag(httpRequests)'
      BY <3>1 DEF Codes
    <3> QED BY <1>1, <3>1, <3>2, <3>3 DEF CountInv
  <2> QED BY <1>8, <2>1 DEF ApiNext
<1>9. ASSUME NEW r \in Requests, Recover(r) PROVE CountInv'
  <2>1. /\ stage[r] = "open" /\ stage' = [stage EXCEPT ![r] = "panicked"]
        /\ UNCHANGED <<httpRequests, authFailures>>
    BY <1>9 DEF Recover, Unwind
  <2>2. TurnedAway' = TurnedAway
    <3>1. CASE UNCHANGED vars
      BY <1>4, <3>1
    <3>2. CASE Panic(r)
      <4>1. Touches(r)
        BY <3>2, HandlerTouches
      <4>2. reply'[r].code = 500
        BY <3>2 DEF Panic, CutOff, Answer, Reply, AuthInv, TypeOK
      <4> QED BY <4>1, <4>2, TurnedStep
    <3> QED BY <1>9, <3>1, <3>2 DEF Recover, WriteHeader
  <2> QED BY <1>2, <1>3, <2>1, <2>2
<1>10. CASE Background
  <2>1. TurnedAway' = TurnedAway
    BY <1>10 DEF Background, Tick, LateInsert, TurnedAway, Answered
  <2> QED BY <1>3, <1>10, <2>1 DEF Background, middleware
<1>11. CASE ApiIdle \/ UNCHANGED apiVars
  <2>1. UNCHANGED vars /\ UNCHANGED middleware
    BY <1>11 DEF ApiIdle, apiVars
  <2> QED BY <1>3, <1>4, <2>1 DEF middleware
<1> QED BY <1>5, <1>6, <1>7, <1>8, <1>9, <1>10, <1>11 DEF ApiNext

(***************************************************************************)
(* Theorems                                                                *)
(***************************************************************************)
ApiInv == AuthInv /\ ChainInv /\ RecordedInv /\ LogInv /\ CountInv

(* Where each request is, what was logged about it and how it was counted
   belong together, in every state of the chain. *)
THEOREM ApiInvariance == ApiSpec => []ApiInv
<1>1. ApiInit => ApiInv
  BY InitOK, ChainInit, RecordedInit, LogInit, CountInit DEF ApiInit, ApiInv
<1>2. ApiInv /\ [ApiNext]_apiVars => ApiInv'
  <2> SUFFICES ASSUME ApiInv, [ApiNext]_apiVars PROVE ApiInv'
    OBVIOUS
  <2>1. AuthInv'
    BY ChainStep, NextOK DEF ApiInv
  <2>2. ChainInv'
    BY ChainNext DEF ApiInv, LogInv
  <2>3. RecordedInv'
    BY <2>1, RecordedNext DEF ApiInv, LogInv
  <2>4. LogInv' /\ CountInv'
    BY LogNext, CountNext DEF ApiInv
  <2> QED BY <2>1, <2>2, <2>3, <2>4 DEF ApiInv
<1> QED BY <1>1, <1>2, PTL DEF ApiSpec

(* The state of the chain has its types; the ring never outgrows Cap (push). *)
THEOREM ApiTyped == ApiSpec => []ApiTypeOK
<1>1. ASSUME ApiInv PROVE ApiTypeOK
  <2>1. authFailures \in Nat
    BY <1>1, FS_CardinalityType DEF ApiInv, CountInv
  <2>2. \A r \in Requests : public[r] = Null \/ public[r].code \in {200, 404}
    BY <1>1 DEF ApiInv, ChainInv, PublicAnswers
  <2> QED BY <1>1, <2>1, <2>2
          DEF ApiInv, ChainInv, ChainType, RecordedInv, LogInv, RingType, CountInv, ApiTypeOK
<1> QED BY <1>1, ApiInvariance, PTL

(* What GET /logs shows of a request is what its client was told, once and in
   order (requestID, metrics, authFail, writeDomainError). *)
THEOREM LogsTruth == ApiSpec => []LogTellsStatus
<1>1. ASSUME ApiInv PROVE LogTellsStatus
  <2>1. LogInv
    BY <1>1 DEF ApiInv
  <2>2. \A i \in DOMAIN ring : ring[i].code = Status(ring[i].id)
    BY <2>1 DEF LogInv, LineAt
  <2>3. \A i, j \in DOMAIN ring : (i < j /\ ring[i].id = ring[j].id) =>
          ring[i].event # "request" /\ ring[i].event # ring[j].event
    BY <2>1 DEF LogInv, LaterAt
  <2>4. ASSUME NEW r \in Requests, stage[r] # "finished"
        PROVE  ~In(Line(r, "request", Status(r)))
    BY <2>1, <2>4 DEF LogInv, LineAt, In, Line
  <2>5. \A r \in Requests :
          (stage[r] = "finished" /\ Len(ring) < Cap) => In(Line(r, "request", Status(r)))
    BY <2>1 DEF LogInv, EndAt
  <2> QED BY <2>2, <2>3, <2>4, <2>5 DEF LogTellsStatus
<1> QED BY <1>1, ApiInvariance, PTL

(* Every request that ends is counted once, under the status that its client
   got, and every rejected token once (metrics, authFail). *)
THEOREM CountersTruth == ApiSpec => []CountedOnce
<1>1. ASSUME ApiInv PROVE CountedOnce
  <2>1. authFailures = Cardinality(TurnedAway)
    BY <1>1 DEF ApiInv, CountInv
  <2>2. \A code \in Codes :
          Total(httpRequests, Under(code)) = Cardinality(EndedWith(code))
    BY <1>1 DEF ApiInv, CountInv, CountAt
  <2> QED BY <2>1, <2>2 DEF CountedOnce, TurnedAway, Under, EndedWith
<1> QED BY <1>1, ApiInvariance, PTL
=============================================================================
