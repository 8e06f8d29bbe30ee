------------------------- MODULE WalletSystemProofs -------------------------
(***************************************************************************)
(* IInv is an invariant of the service, for any users, requests, calls,    *)
(* seed, window, pool size and word size.                                  *)
(***************************************************************************)
EXTENDS WalletInvariants, MoneyProofs

(***************************************************************************)
(* Steps of one request that leave the tables alone                        *)
(***************************************************************************)

(* A step that changes nothing but the control state of r keeps IInv if what
   r then holds is its own: the rest of the invariant does not mention it. *)
LEMMA LocalStep ==
  ASSUME IInv, NEW r \in Requests, UNCHANGED tables, TypeOK', GoneOK',
         \A q \in Requests \ {r} : pc'[q] = pc[q] /\ req'[q] = req[q] /\ tx'[q] = tx[q],
         r \notin DOMAIN transfers, AtOK(r)',
         tx'[r].created \cap DOMAIN wallets = {},
         \A q \in Requests \ {r} : /\ tx'[r].locked \cap tx[q].locked = {}
                                   /\ tx'[r].created \cap tx[q].created = {}
  PROVE  IInv'
<1>1. RowsOK'
  BY DEF IInv, RowsOK, TypeOK, tables
<1>2. Exclusive'
  BY DEF IInv, Exclusive, tables
<1>3. ASSUME NEW q \in Requests \ {r} PROVE AtOK(q)'
  <2>1. pc'[q] = pc[q] /\ req'[q] = req[q] /\ tx'[q] = tx[q] /\ AtOK(q)
    BY DEF IInv
  <2>2. OpAt(q)' /\ TransferAt(q)' /\ ClaimAt(q)'
    BY <2>1 DEF AtOK, OpAt, TransferAt, ClaimAt, ValidTransfer, tr, tables
  <2>3. LoopsAt(q)' /\ FreshAt(q)'
    BY <2>1 DEF AtOK, LoopsAt, FreshAt, LockedBalance, ids, senderID, recipientID,
                tr, IsTransfer, tables
  <2>4. DecidedAt(q)'
    BY <2>1 DEF AtOK, DecidedAt, SumActiveHolds, RowsOfKey, CheckBalance,
                senderAfter, recipientAfter, amountPaise, senderID, recipientID, tr,
                IsTransfer, tables
  <2> QED BY <2>2, <2>3, <2>4 DEF AtOK
<1> QED BY <1>1, <1>2, <1>3 DEF IInv

(* The id of a row that r has still to insert is fresh. *)
LEMMA FreshId ==
  ASSUME IInv, NEW r \in Requests, pc[r] # "done"
  PROVE  r \notin DOMAIN transfers
BY DEF IInv, RowsOK

LEMMA NoTxType == NoTx \in Tx
BY StoreAssumption DEF NoTx, Tx

(* No transaction: nothing locked, nothing created. *)
LEMMA NoTxFacts ==
  NoTx.locked = {} /\ NoTx.created = {} /\ NoTx.now = 0
BY DEF NoTx

(* The new control state of r is well typed. *)
LEMMA LocalType ==
  ASSUME IInv, NEW r \in Requests, NEW l \in Labels, NEW t \in Tx, NEW rep \in Response,
         pc' = [pc EXCEPT ![r] = l], tx' = [tx EXCEPT ![r] = t],
         resp' = [resp EXCEPT ![r] = rep] \/ resp' = resp,
         UNCHANGED <<tables, req>>, gone' \in SUBSET Requests
  PROVE  TypeOK'
BY DEF IInv, TypeOK, tables

(* A request whose transaction is over, or never began, is done. *)
LEMMA EndStep ==
  ASSUME IInv, NEW r \in Requests, pc[r] \notin {"idle", "done"},
         NEW l \in {"done", "resolve"}, l = "resolve" => pc[r] \in LockedLabels,
         NEW rep \in Response, pc' = [pc EXCEPT ![r] = l],
         resp' = [resp EXCEPT ![r] = rep] \/ resp' = resp,
         (tx' = tx /\ pc[r] \notin OpenLabels) \/ Rollback(r),
         UNCHANGED <<tables, req>>, gone' = gone \ {r}
  PROVE  IInv'
<1>1. PICK t \in Tx : /\ tx' = [tx EXCEPT ![r] = t] /\ t.locked = {} /\ t.created = {}
                      /\ t.now <= clock
  <2>1. CASE tx' = tx /\ pc[r] \notin OpenLabels
    <3>1. tx[r] \in Tx /\ tx' = [tx EXCEPT ![r] = tx[r]]
      BY <2>1 DEF IInv, TypeOK
    <3>2. tx[r].locked = {} /\ tx[r].created = {} /\ tx[r].now <= clock
      BY <2>1 DEF IInv, AtOK, LoopsAt, DecidedAt
    <3> QED BY <3>1, <3>2
  <2>2. CASE Rollback(r)
    <3>1. 0 <= clock BY DEF IInv, TypeOK
    <3> QED BY <2>2, <3>1, NoTxType, NoTxFacts DEF Rollback, Set
  <2> QED BY <2>1, <2>2
<1>2. l \in Labels
  BY DEF Labels
<1>3. TypeOK'
  BY <1>1, <1>2, LocalType DEF IInv, TypeOK
<1>4. GoneOK'
  BY DEF IInv, TypeOK, GoneOK
<1>5. pc'[r] = l /\ tx'[r] = t /\ req'[r] = req[r] /\ req[r] \in Calls
  BY <1>1 DEF IInv, TypeOK, AtOK, OpAt
<1>6. AtOK(r)'
  <2>1. OpAt(r)'
    BY <1>5 DEF IInv, AtOK, OpAt, LockedLabels
  <2>2. TransferAt(r)' /\ ClaimAt(r)'
    BY <1>5 DEF IInv, AtOK, OpAt, TransferAt, ClaimAt, ValidTransfer, tr, LockedLabels, tables
  <2>3. LoopsAt(r)' /\ FreshAt(r)' /\ DecidedAt(r)'
    BY <1>1, <1>5 DEF LoopsAt, FreshAt, DecidedAt, LockedLabels, OpenLabels, TxLabels, tables
  <2> QED BY <2>1, <2>2, <2>3 DEF AtOK
<1>7. \A q \in Requests \ {r} : pc'[q] = pc[q] /\ req'[q] = req[q] /\ tx'[q] = tx[q]
  BY <1>1 DEF IInv, TypeOK
<1>8. r \notin DOMAIN transfers
  BY FreshId
<1> QED BY <1>1, <1>3, <1>4, <1>5, <1>6, <1>7, <1>8, LocalStep

(* r goes on at label l with transaction t; AtOK(r)' is left to the action. *)
LEMMA GotoStep ==
  ASSUME IInv, NEW r \in Requests, pc[r] # "done", r \notin gone,
         NEW l \in Labels, NEW t \in Tx,
         Goto(r, l), tx' = [tx EXCEPT ![r] = t], UNCHANGED <<tables, req, gone>>,
         AtOK(r)', t.created \cap DOMAIN wallets = {},
         \A q \in Requests \ {r} : /\ t.locked \cap tx[q].locked = {}
                                   /\ t.created \cap tx[q].created = {}
  PROVE  IInv'
<1>1. pc' = [pc EXCEPT ![r] = l] /\ resp' = resp
  BY DEF Goto
<1>2. TypeOK'
  <2>1. \E rep \in Response : resp' = [resp EXCEPT ![r] = rep]
    <3>1. resp[r] \in Response /\ resp = [resp EXCEPT ![r] = resp[r]]
      BY DEF IInv, TypeOK
    <3> QED BY <1>1, <3>1
  <2> QED BY <1>1, <2>1, LocalType DEF IInv, TypeOK
<1>3. GoneOK'
  BY <1>1 DEF IInv, TypeOK, GoneOK
<1>4. tx'[r] = t
  BY DEF IInv, TypeOK
<1>5. \A q \in Requests \ {r} : pc'[q] = pc[q] /\ req'[q] = req[q] /\ tx'[q] = tx[q]
  BY <1>1 DEF IInv, TypeOK
<1> QED BY <1>2, <1>3, <1>4, <1>5, FreshId, LocalStep

(* The same when the transaction stays as it is. *)
LEMMA GotoOnly ==
  ASSUME IInv, NEW r \in Requests, pc[r] # "done", r \notin gone,
         NEW l \in Labels, Goto(r, l), UNCHANGED <<tables, req, tx, gone>>, AtOK(r)'
  PROVE  IInv'
<1>1. tx[r] \in Tx /\ tx' = [tx EXCEPT ![r] = tx[r]]
  BY DEF IInv, TypeOK
<1>2. /\ tx[r].created \cap DOMAIN wallets = {}
      /\ \A q \in Requests \ {r} : /\ tx[r].locked \cap tx[q].locked = {}
                                   /\ tx[r].created \cap tx[q].created = {}
  BY DEF IInv, Exclusive
<1>3. UNCHANGED <<tables, req, gone>>
  OBVIOUS
<1> QED BY <1>1, <1>2, <1>3, GotoStep

(***************************************************************************)
(* The actions of WalletService and the beginnings of TransferService      *)
(***************************************************************************)

(* Replies are well formed. *)
LEMMA RejectionType ==
  ASSUME NEW k \in Replies PROVE Rejection(k) \in Response
BY DEF Rejection, Reply, Response

LEMMA LookupInv ==
  ASSUME IInv, NEW r \in Requests, Lookup(r) PROVE IInv'
<1>1. At(r, "lookup") /\ UNCHANGED <<tables, req, tx, gone>>
  BY DEF Lookup
<1>2. CASE Answer(r, Rejection("unknown_recipient")) \/ Answer(r, Rejection("self_transfer"))
  <2>1. Rejection("unknown_recipient") \in Response /\ Rejection("self_transfer") \in Response
    BY RejectionType DEF Replies
  <2>2. pc[r] \notin OpenLabels /\ gone' = gone \ {r}
    BY <1>1 DEF At, OpenLabels, TxLabels
  <2> QED BY <1>1, <1>2, <2>1, <2>2, EndStep DEF At, Answer
<1>3. CASE req[r].to # Null /\ req[r].to # req[r].caller /\ Goto(r, "begin")
  <2>1. pc'[r] = "begin" /\ req'[r] = req[r] /\ tx'[r] = tx[r] /\ pc[r] = "lookup"
    BY <1>1, <1>3 DEF Goto, At, IInv, TypeOK
  <2>2. req[r] \in TransferCall
    BY <1>1, StoreAssumption DEF IInv, AtOK, OpAt, At, TransferCall, IdCall, UserCall
  <2>3. OpAt(r)' /\ TransferAt(r)' /\ ClaimAt(r)'
    BY <1>3, <2>1, <2>2 DEF IInv, AtOK, OpAt, TransferAt, ClaimAt, ValidTransfer, TransferCall
  <2>4. LoopsAt(r)' /\ FreshAt(r)' /\ DecidedAt(r)'
    BY <1>1, <2>1 DEF IInv, AtOK, LoopsAt, FreshAt, DecidedAt, LockedLabels, OpenLabels,
                      TxLabels, LockedBalance, tables
  <2> QED BY <1>1, <1>3, <2>1, <2>3, <2>4, GotoOnly DEF AtOK, At, Labels
<1> QED BY <1>2, <1>3 DEF Lookup

LEMMA BeginInv ==
  ASSUME IInv, NEW r \in Requests, Begin(r) PROVE IInv'
<1> DEFINE l == IF IsTransfer(r) THEN "exists" ELSE "lock"
           t == [NoTx EXCEPT !.now = clock, !.todo = ids(r)]
<1>1. At(r, "begin") /\ UNCHANGED <<tables, req, gone>> /\ Goto(r, l)
      /\ tx' = [tx EXCEPT ![r] = t]
  BY DEF Begin, BeginTx, Set
<1>2. ids(r) \subseteq Users /\ ids(r) # {}
  BY <1>1, StoreAssumption DEF IInv, TypeOK, AtOK, OpAt, TransferAt, ClaimAt, At, ids,
       senderID, recipientID, IsTransfer, tr, TransferCall, IdCall, UserCall, Transfer
<1>3. t \in Tx /\ t.locked = {} /\ t.created = {} /\ t.now = clock /\ t.todo = ids(r)
  <2>1. clock \in Nat BY DEF IInv, TypeOK
  <2> QED BY <1>2, <2>1, NoTxType, NoTxFacts DEF Tx
<1> HIDE DEF t
<1>4. pc'[r] = l /\ req'[r] = req[r] /\ tx'[r] = t /\ pc[r] = "begin"
  BY <1>1 DEF Goto, At, IInv, TypeOK
<1>5. OpAt(r)' /\ TransferAt(r)' /\ ClaimAt(r)'
  BY <1>1, <1>4 DEF IInv, AtOK, OpAt, TransferAt, ClaimAt, ValidTransfer, IsTransfer, tr, tables
<1>6. (ids(r))' = ids(r)
  BY <1>1, <1>4 DEF ids, senderID, recipientID, IsTransfer, tr, tables
<1>7. pc'[r] = "lock" => ids(r) \subseteq DOMAIN wallets
  BY <1>4 DEF IInv, AtOK, OpAt, ClaimAt, RowsOK, ids, senderID, recipientID, IsTransfer, tr
<1>8. LoopsAt(r)' /\ FreshAt(r)' /\ DecidedAt(r)'
  BY <1>1, <1>2, <1>3, <1>4, <1>6, <1>7
     DEF LoopsAt, FreshAt, DecidedAt, LockedLabels, OpenLabels, TxLabels, tables, IInv, TypeOK
<1> QED BY <1>1, <1>3, <1>4, <1>5, <1>8, GotoStep DEF AtOK, At, Labels, TxLabels

(***************************************************************************)
(* The loops over the two wallets                                          *)
(***************************************************************************)

(* Both ids are users, and different ones. *)
LEMMA IdsType ==
  ASSUME IInv, NEW r \in Requests,
         pc[r] \notin {"idle", "done", "lookup", "load"}, req[r].op \in {"transfer", "claim"}
  PROVE  /\ senderID(r) \in Users /\ recipientID(r) \in Users
         /\ senderID(r) # recipientID(r)
BY StoreAssumption DEF IInv, TypeOK, RowsOK, AtOK, OpAt, TransferAt, ClaimAt,
     senderID, recipientID, IsTransfer, tr, TransferCall, IdCall, UserCall, Transfer

(* The loop variable is one of the ids still to be visited. *)
LEMMA NextIdIn ==
  ASSUME IInv, NEW r \in Requests, pc[r] \in {"exists", "insert", "lock"}
  PROVE  NextId(r) \in tx[r].todo /\ NextId(r) \in ids(r) /\ NextId(r) \in Users
<1> DEFINE a == senderID(r)
           b == recipientID(r)
<1>1. a \in Nat /\ b \in Nat /\ a \in Users /\ b \in Users
  BY IdsType, StoreAssumption DEF IInv, AtOK, OpAt
<1>2. tx[r].todo # {} /\ tx[r].todo \subseteq {a, b} /\ ids(r) = {a, b}
  BY DEF IInv, AtOK, LoopsAt, ids
<1> HIDE DEF a, b
<1>3. \E u \in tx[r].todo : \A v \in tx[r].todo : u <= v
  BY <1>1, <1>2
<1>4. NextId(r) \in tx[r].todo
  BY <1>3 DEF NextId
<1> QED BY <1>1, <1>2, <1>4

(* One round of the get-or-create loop, with u's row now there or created. *)
LEMMA CreateRound ==
  ASSUME IInv, NEW r \in Requests, pc[r] \in {"exists", "insert"}, r \notin gone,
         NEW u, u = NextId(r), NEW t \in Tx,
         t.todo = tx[r].todo, t.now = tx[r].now, t.locked = {},
         tx[r].created \subseteq t.created, t.created \subseteq ids(r),
         u \in DOMAIN wallets \cup t.created, t.created \cap DOMAIN wallets = {},
         \A q \in Requests \ {r} : t.created \cap tx[q].created = {},
         Visited(r, t, u, "exists", "lock", ids(r)), UNCHANGED <<tables, req, gone>>
  PROVE  IInv'
<1>1. /\ req[r].op = "transfer" /\ tx[r].todo # {} /\ tx[r].todo \subseteq ids(r)
      /\ ids(r) \ tx[r].todo \subseteq DOMAIN wallets \cup tx[r].created
      /\ u \in tx[r].todo /\ tx[r].now <= clock
      /\ ids(r) \subseteq Users /\ ids(r) # {}
  BY NextIdIn, IdsType DEF IInv, AtOK, OpAt, LoopsAt, DecidedAt, ids
<1>2. PICK l \in {"exists", "lock"}, rest \in SUBSET ids(r) :
        /\ tx' = [tx EXCEPT ![r] = [t EXCEPT !.todo = rest]] /\ Goto(r, l)
        /\ l = "exists" => rest = tx[r].todo \ {u}
        /\ l = "lock" => rest = ids(r) /\ tx[r].todo = {u}
        /\ rest # {}
  <2>1. CASE t.todo = {u}
    <3>1. tx' = [tx EXCEPT ![r] = [t EXCEPT !.todo = ids(r)]] /\ Goto(r, "lock")
      BY <2>1 DEF Visited, Set
    <3> QED BY <1>1, <2>1, <3>1
  <2>2. CASE t.todo # {u}
    <3>1. tx' = [tx EXCEPT ![r] = [t EXCEPT !.todo = tx[r].todo \ {u}]] /\ Goto(r, "exists")
      BY <2>2 DEF Visited, Set
    <3>2. tx[r].todo \ {u} \in SUBSET ids(r) /\ tx[r].todo \ {u} # {}
      BY <1>1, <2>2
    <3> QED BY <3>1, <3>2
  <2> QED BY <2>1, <2>2
<1> DEFINE s == [t EXCEPT !.todo = rest]
<1>3. s \in Tx /\ s.todo = rest /\ s.now = t.now /\ s.locked = t.locked
      /\ s.created = t.created
  BY <1>1 DEF Tx
<1>4. tx' = [tx EXCEPT ![r] = s]
  BY <1>2
<1> HIDE DEF s
<1>5. pc'[r] = l /\ req'[r] = req[r] /\ tx'[r] = s
  BY <1>2, <1>4 DEF Goto, IInv, TypeOK
<1>6. OpAt(r)' /\ TransferAt(r)' /\ ClaimAt(r)'
  BY <1>1, <1>5 DEF IInv, AtOK, OpAt, TransferAt, ClaimAt, ValidTransfer
<1>7. (ids(r))' = ids(r)
  BY <1>5 DEF ids, senderID, recipientID, IsTransfer, tr, tables
<1>8. LoopsAt(r)' /\ FreshAt(r)' /\ DecidedAt(r)'
  BY <1>1, <1>2, <1>3, <1>5, <1>7
     DEF LoopsAt, FreshAt, DecidedAt, LockedLabels, OpenLabels, TxLabels, tables
<1>9. l \in Labels /\ pc[r] # "done" /\ AtOK(r)'
  BY <1>6, <1>8 DEF Labels, TxLabels, AtOK
<1>10. /\ s.created \cap DOMAIN wallets = {}
       /\ \A q \in Requests \ {r} : /\ s.locked \cap tx[q].locked = {}
                                      /\ s.created \cap tx[q].created = {}
  BY <1>3
<1> QED BY <1>2, <1>3, <1>4, <1>9, <1>10, GotoStep

LEMMA CheckWalletInv ==
  ASSUME IInv, NEW r \in Requests, CheckWallet(r) PROVE IInv'
<1> DEFINE u == NextId(r)
<1>1. At(r, "exists") /\ UNCHANGED <<tables, req, gone>>
  BY DEF CheckWallet
<1>2. CASE WalletExists(r, u) /\ Visited(r, tx[r], u, "exists", "lock", ids(r))
  <2>1. tx[r] \in Tx
    BY DEF IInv, TypeOK
  <2>2. tx[r].locked = {} /\ tx[r].created \subseteq ids(r)
    BY <1>1 DEF At, IInv, AtOK, LoopsAt, OpenLabels, TxLabels
  <2>3. tx[r].created \cap DOMAIN wallets = {}
        /\ \A q \in Requests \ {r} : tx[r].created \cap tx[q].created = {}
    BY DEF IInv, Exclusive
  <2> QED BY <1>1, <1>2, <2>1, <2>2, <2>3, CreateRound DEF At, WalletExists
<1>3. CASE Goto(r, "insert") /\ UNCHANGED tx
  <2>1. pc'[r] = "insert" /\ pc[r] = "exists" /\ req'[r] = req[r] /\ tx'[r] = tx[r]
    BY <1>1, <1>3 DEF Goto, At, IInv, TypeOK
  <2>2. OpAt(r)' /\ TransferAt(r)' /\ ClaimAt(r)'
    BY <2>1 DEF IInv, AtOK, OpAt, TransferAt, ClaimAt, ValidTransfer
  <2>3. LoopsAt(r)' /\ FreshAt(r)' /\ DecidedAt(r)'
    BY <1>1, <2>1 DEF IInv, AtOK, OpAt, LoopsAt, FreshAt, DecidedAt, LockedLabels, OpenLabels,
         TxLabels, LockedBalance, ids, senderID, recipientID, IsTransfer, tr, tables
  <2> QED BY <1>1, <1>3, <2>1, <2>2, <2>3, GotoOnly DEF AtOK, At, Labels, TxLabels
<1> QED BY <1>2, <1>3 DEF CheckWallet

LEMMA InsertWalletInv ==
  ASSUME IInv, NEW r \in Requests, InsertWallet(r) PROVE IInv'
<1> DEFINE u == NextId(r)
           t == [tx[r] EXCEPT !.created = @ \cup ({u} \ DOMAIN wallets)]
<1>1. At(r, "insert") /\ UNCHANGED <<tables, req, gone>> /\ ~InsertBlocked(r, u)
      /\ Visited(r, t, u, "exists", "lock", ids(r))
  BY DEF InsertWallet
<1>2. tx[r] \in Tx /\ tx[r].locked = {} /\ tx[r].created \subseteq ids(r)
  BY <1>1 DEF At, IInv, TypeOK, AtOK, LoopsAt, OpenLabels, TxLabels
<1>3. u \in ids(r) /\ u \in Users
  BY <1>1, NextIdIn DEF At
<1> HIDE DEF u
<1>4. /\ t \in Tx /\ t.todo = tx[r].todo /\ t.now = tx[r].now /\ t.locked = tx[r].locked
      /\ t.created = tx[r].created \cup ({u} \ DOMAIN wallets)
  BY <1>2, <1>3 DEF Tx
<1> HIDE DEF t
<1>5. tx[r].created \cap DOMAIN wallets = {}
      /\ \A q \in Requests \ {r} : tx[r].created \cap tx[q].created = {}
  BY DEF IInv, Exclusive
<1>6. t.created \cap DOMAIN wallets = {} /\ u \in DOMAIN wallets \cup t.created
      /\ t.created \subseteq ids(r) /\ tx[r].created \subseteq t.created
  BY <1>2, <1>3, <1>4, <1>5
<1>7. \A q \in Requests \ {r} : t.created \cap tx[q].created = {}
  BY <1>1, <1>4, <1>5 DEF InsertBlocked
<1>8. pc[r] \in {"exists", "insert"} /\ r \notin gone /\ t.locked = {}
  BY <1>1, <1>2, <1>4 DEF At
<1> QED BY <1>1, <1>4, <1>6, <1>7, <1>8, CreateRound DEF u

(* What is read under a lock is a balance. *)
LEMMA LockedBalanceType ==
  ASSUME IInv, NEW r, NEW u \in Users PROVE LockedBalance(r, u) \in 0 .. MaxInt64
BY StoreAssumption DEF IInv, TypeOK, LockedBalance

LEMMA LockWalletInv ==
  ASSUME IInv, NEW r \in Requests, LockWallet(r) PROVE IInv'
<1> DEFINE u == NextId(r)
           b == LockedBalance(r, u)
           t == [tx[r] EXCEPT !.locked = @ \cup {u}, !.bal[u] = b]
           next == IF IsTransfer(r) THEN "holds" ELSE "mark_reversed"
<1>1. At(r, "lock") /\ UNCHANGED <<tables, req, gone>> /\ ~RowLocked(r, u)
  BY DEF LockWallet
<1>2. /\ tx[r] \in Tx /\ tx[r].locked = ids(r) \ tx[r].todo /\ tx[r].created \subseteq ids(r)
      /\ ids(r) \subseteq DOMAIN wallets \cup tx[r].created
      /\ req[r].op \in {"transfer", "claim"} /\ tx[r].now <= clock
      /\ tx[r].todo \subseteq ids(r)
  BY <1>1 DEF At, IInv, TypeOK, AtOK, OpAt, LoopsAt, DecidedAt, OpenLabels, TxLabels
<1>3. u \in tx[r].todo /\ u \in ids(r) /\ u \in Users
  BY <1>1, NextIdIn DEF At
<1>4. Visited(r, t, u, "lock", next, {})
  BY <1>2, <1>3 DEF LockWallet, WalletExists
<1> HIDE DEF u, b
<1>5. b \in Int
  <2>1. b \in 0 .. MaxInt64 BY <1>3, LockedBalanceType DEF b
  <2> QED BY <2>1
<1>6. /\ t \in Tx /\ t.todo = tx[r].todo /\ t.now = tx[r].now
      /\ t.created = tx[r].created /\ t.locked = tx[r].locked \cup {u}
      /\ t.bal = [tx[r].bal EXCEPT ![u] = b]
  BY <1>2, <1>3, <1>5 DEF Tx
<1> HIDE DEF t
<1>7. PICK l \in {"lock", next}, rest \in SUBSET ids(r) :
        /\ tx' = [tx EXCEPT ![r] = [t EXCEPT !.todo = rest]] /\ Goto(r, l)
        /\ rest = tx[r].todo \ {u}
        /\ l = "lock" => rest # {}
        /\ l = next => rest = {}
  <2>1. CASE t.todo = {u}
    <3>1. tx' = [tx EXCEPT ![r] = [t EXCEPT !.todo = {}]] /\ Goto(r, next)
      BY <1>4, <2>1 DEF Visited, Set
    <3>2. {} = tx[r].todo \ {u} /\ next # "lock"
      BY <1>6, <2>1
    <3> QED BY <3>1, <3>2
  <2>2. CASE t.todo # {u}
    <3>1. tx' = [tx EXCEPT ![r] = [t EXCEPT !.todo = t.todo \ {u}]] /\ Goto(r, "lock")
      BY <1>4, <2>2 DEF Visited, Set
    <3>2. tx[r].todo \ {u} \in SUBSET ids(r) /\ tx[r].todo \ {u} # {} /\ next # "lock"
      BY <1>2, <1>3, <1>6, <2>2
    <3> QED BY <1>6, <3>1, <3>2
  <2> QED BY <2>1, <2>2
<1> DEFINE s == [t EXCEPT !.todo = rest]
<1>8. /\ s \in Tx /\ s.todo = rest /\ s.now = t.now /\ s.locked = t.locked
      /\ s.created = t.created /\ s.bal = t.bal
  BY <1>2, <1>6, <1>7 DEF Tx
<1>9. tx' = [tx EXCEPT ![r] = s]
  BY <1>7
<1> HIDE DEF s
<1>10. pc'[r] = l /\ pc[r] = "lock" /\ req'[r] = req[r] /\ tx'[r] = s
  BY <1>1, <1>7, <1>9 DEF Goto, At, IInv, TypeOK
<1>11. OpAt(r)' /\ TransferAt(r)' /\ ClaimAt(r)'
  BY <1>1, <1>2, <1>10
     DEF IInv, AtOK, OpAt, TransferAt, ClaimAt, ValidTransfer, IsTransfer, tr, tables
<1>12. (ids(r))' = ids(r)
  BY <1>1, <1>10 DEF ids, senderID, recipientID, IsTransfer, tr, tables
<1>13. s.locked = ids(r) \ rest
  BY <1>2, <1>3, <1>6, <1>7, <1>8
<1>14. LoopsAt(r)' /\ DecidedAt(r)'
  <2>1. l \in {"lock", "holds", "mark_reversed"} /\ wallets' = wallets /\ clock' = clock
    BY <1>1, <1>7 DEF tables
  <2>2. s.created \subseteq ids(r) /\ ids(r) \subseteq DOMAIN wallets \cup s.created
    BY <1>2, <1>6, <1>8
  <2>3. l = "lock" => rest # {}
    BY <1>7
  <2>4. l # "lock" => rest = {}
    BY <1>7
  <2>5. LoopsAt(r)'
    <3>1. CASE l = "lock"
      BY <1>10, <1>8, <1>12, <1>13, <2>1, <2>2, <2>3, <3>1 DEF LoopsAt, LockedLabels, OpenLabels, TxLabels
    <3>2. CASE l # "lock"
      <4>1. s.locked = ids(r)
        BY <1>13, <2>4, <3>2
      <4> QED BY <1>10, <1>12, <2>1, <2>2, <3>2, <4>1 DEF LoopsAt, LockedLabels, OpenLabels, TxLabels
    <3> QED BY <3>1, <3>2
  <2>6. DecidedAt(r)'
    <3>1. s.now <= clock
      BY <1>2, <1>6, <1>8
    <3> QED BY <1>10, <2>1, <3>1 DEF DecidedAt
  <2> QED BY <2>5, <2>6
<1>15. FreshAt(r)'
  <2>1. \A v \in s.locked : s.bal[v] = LockedBalance(r, v)
    <3>1. \A v \in tx[r].locked : tx[r].bal[v] = LockedBalance(r, v) /\ v # u
      BY <1>2, <1>3 DEF IInv, AtOK, FreshAt
    <3>2. tx[r].bal \in [Users -> Int] /\ tx[r].locked \subseteq Users
      BY <1>2 DEF Tx
    <3> QED BY <1>3, <1>6, <1>8, <3>1, <3>2 DEF b
  <2> QED BY <1>1, <1>10, <2>1 DEF FreshAt, LockedBalance, tables
<1>16. \A q \in Requests \ {r} : /\ s.locked \cap tx[q].locked = {}
                                  /\ s.created \cap tx[q].created = {}
  BY <1>1, <1>6, <1>8 DEF IInv, Exclusive, RowLocked
<1>17. s.created \cap DOMAIN wallets = {} /\ pc[r] # "done" /\ r \notin gone
  BY <1>1, <1>6, <1>8, <1>10 DEF IInv, Exclusive, At
<1>18. l \in Labels /\ AtOK(r)'
  BY <1>11, <1>14, <1>15 DEF Labels, TxLabels, AtOK
<1> QED BY <1>1, <1>7, <1>8, <1>9, <1>16, <1>17, <1>18, GotoStep

(***************************************************************************)
(* Execute under its locks                                                 *)
(***************************************************************************)

(* A hold sum is a natural number, and it can only shrink as time passes; under
   a longer window it can only be greater. *)
LEMMA HoldsType ==
  ASSUME IInv, NEW u, NEW n, NEW win
  PROVE  /\ SumActiveHolds(u, n, win) \in Nat
         /\ IsFiniteSet(ActiveHolds(transfers, u, n, win))
         /\ \A t \in ActiveHolds(transfers, u, n, win) : amountOf(transfers)[t] \in Nat
<1>1. IsFiniteSet(ActiveHolds(transfers, u, n, win))
  <2>1. ActiveHolds(transfers, u, n, win) \subseteq Requests
    BY DEF ActiveHolds, IInv, TypeOK
  <2> QED BY <2>1, FS_Subset, StoreAssumption
<1>2. \A t \in ActiveHolds(transfers, u, n, win) : amountOf(transfers)[t] \in Nat
  BY DEF ActiveHolds, amountOf, IInv, TypeOK, Transfer
<1> QED BY <1>1, <1>2, TotalNat DEF SumActiveHolds

LEMMA HoldsShrink ==
  ASSUME IInv, NEW u, NEW m \in Nat, NEW n \in Nat, m <= n, NEW win \in Windows
  PROVE  SumActiveHolds(u, n, Window) <= SumActiveHolds(u, m, win)
<1>1. ActiveHolds(transfers, u, n, Window) \subseteq ActiveHolds(transfers, u, m, win)
  <2> SUFFICES ASSUME NEW t \in DOMAIN transfers, Active(transfers[t], n, Window)
               PROVE  Active(transfers[t], m, win)
    BY DEF ActiveHolds
  <2>1. transfers[t].createdAt \in Nat /\ Window \in Nat /\ win \in Nat /\ Window <= win
    BY StoreAssumption DEF IInv, TypeOK, Transfer
  <2> QED BY <2>1 DEF Active
<1> QED BY <1>1, HoldsType, TotalSubset DEF SumActiveHolds

LEMMA SumHoldsInv ==
  ASSUME IInv, NEW r \in Requests, SumHolds(r) PROVE IInv'
<1>1. At(r, "holds") /\ UNCHANGED <<tables, req, gone>>
  BY DEF SumHolds
<1>0. PICK win \in Windows :
        LET held == SumActiveHolds(senderID(r), tx[r].now, win)
        IN  \/ Set(r, [tx[r] EXCEPT !.held = held]) /\ Goto(r, "insert_transfer")
            \/ Rollback(r) /\ Answer(r, Unavailable)
  BY DEF SumHolds
<1> DEFINE held == SumActiveHolds(senderID(r), tx[r].now, win)
           t == [tx[r] EXCEPT !.held = held]
<1>2. CASE Set(r, t) /\ Goto(r, "insert_transfer")
  <2>1. tx[r] \in Tx /\ held \in Nat
    BY HoldsType DEF IInv, TypeOK
  <2>2. held >= SumActiveHolds(senderID(r), clock, Window)
    <3>1. tx[r].now \in Nat /\ clock \in Nat /\ tx[r].now <= clock
      BY DEF IInv, TypeOK, Tx, AtOK, DecidedAt
    <3>2. SumActiveHolds(senderID(r), clock, Window) \in Nat
      BY HoldsType
    <3> QED BY <2>1, <3>1, <3>2, HoldsShrink
  <2> HIDE DEF held
  <2>3. /\ t \in Tx /\ t.held = held /\ t.now = tx[r].now /\ t.locked = tx[r].locked
        /\ t.created = tx[r].created /\ t.bal = tx[r].bal
    BY <2>1 DEF Tx
  <2>4. tx' = [tx EXCEPT ![r] = t]
    BY <1>2 DEF Set
  <2> HIDE DEF t
  <2>5. pc'[r] = "insert_transfer" /\ pc[r] = "holds" /\ req'[r] = req[r] /\ tx'[r] = t
    BY <1>1, <1>2, <2>4 DEF Goto, At, IInv, TypeOK
  <2>6. OpAt(r)' /\ TransferAt(r)' /\ ClaimAt(r)'
    BY <2>5 DEF IInv, AtOK, OpAt, TransferAt, ClaimAt, ValidTransfer
  <2>7. (ids(r))' = ids(r) /\ (senderID(r))' = senderID(r)
    BY <1>1, <2>5 DEF ids, senderID, recipientID, IsTransfer, tr, tables
  <2>8. LoopsAt(r)' /\ FreshAt(r)'
    BY <1>1, <2>3, <2>5, <2>7 DEF IInv, AtOK, LoopsAt, FreshAt, LockedBalance,
         LockedLabels, OpenLabels, TxLabels, tables
  <2>9. DecidedAt(r)'
    BY <1>1, <2>2, <2>3, <2>5, <2>7 DEF IInv, AtOK, DecidedAt, SumActiveHolds, tables
  <2>10. t.created \cap DOMAIN wallets = {} /\ AtOK(r)'
         /\ \A q \in Requests \ {r} : /\ t.locked \cap tx[q].locked = {}
                                       /\ t.created \cap tx[q].created = {}
    BY <2>3, <2>6, <2>8, <2>9 DEF IInv, Exclusive, AtOK
  <2> QED BY <1>1, <1>2, <2>3, <2>4, <2>5, <2>10, GotoStep DEF At, Labels, TxLabels
<1>3. CASE Rollback(r) /\ Answer(r, Unavailable)
  <2>1. Unavailable \in Response
    BY RejectionType DEF Unavailable, Replies
  <2>2. gone' = gone \ {r}
    BY <1>1 DEF At
  <2> QED BY <1>1, <1>3, <2>1, <2>2, EndStep DEF At, Answer
<1> QED BY <1>0, <1>2, <1>3

(* Under the locks r may go on from l to m without touching its transaction;
   what it decided on the way is left to the action. *)
LEMMA LockedGoto ==
  ASSUME IInv, NEW r \in Requests, NEW m \in LockedLabels,
         pc[r] \in LockedLabels, r \notin gone,
         Goto(r, m), UNCHANGED <<tables, req, tx, gone>>,
         m \in {"insert_transfer", "settle"} => req[r].op = "transfer",
         m \in {"mark_reversed", "reverse"} => req[r].op = "claim",
         m # "holds",
         DecidedAt(r)'
  PROVE  IInv'
<1>1. pc'[r] = m /\ req'[r] = req[r] /\ tx'[r] = tx[r]
  BY DEF Goto, IInv, TypeOK
<1>2. OpAt(r)' /\ TransferAt(r)' /\ ClaimAt(r)'
  BY <1>1 DEF IInv, AtOK, OpAt, TransferAt, ClaimAt, ValidTransfer, LockedLabels, tr, tables
<1>3. LoopsAt(r)' /\ FreshAt(r)'
  BY <1>1 DEF IInv, AtOK, LoopsAt, FreshAt, LockedBalance, ids, senderID, recipientID,
       IsTransfer, tr, LockedLabels, OpenLabels, TxLabels, tables
<1>4. m \in Labels /\ pc[r] # "done" /\ AtOK(r)'
  BY <1>2, <1>3 DEF AtOK, Labels, TxLabels, LockedLabels
<1> QED BY <1>4, GotoOnly

LEMMA InsertTransferInv ==
  ASSUME IInv, NEW r \in Requests, InsertTransfer(r) PROVE IInv'
<1>1. At(r, "insert_transfer") /\ UNCHANGED <<tables, req, gone>>
  BY DEF InsertTransfer
<1>2. CASE Rollback(r) /\ Goto(r, "resolve")
  <2>1. gone' = gone \ {r} /\ \E rep : rep \in Response
    BY <1>1, RejectionType DEF At, Replies
  <2> QED BY <1>1, <1>2, <2>1, EndStep DEF At, Goto, LockedLabels
<1>3. CASE ~KeyTaken(r) /\ Goto(r, "settle") /\ UNCHANGED tx
  <2>1. pc'[r] = "settle" /\ pc[r] = "insert_transfer"
    BY <1>1, <1>3 DEF Goto, At, IInv, TypeOK
  <2>2. DecidedAt(r)'
    BY <1>1, <1>3, <2>1 DEF IInv, AtOK, DecidedAt, KeyTaken, RowsOfKey, SumActiveHolds,
         senderID, tables
  <2>3. req[r].op = "transfer"
    BY <2>1 DEF IInv, AtOK, OpAt
  <2> QED BY <1>1, <1>3, <2>1, <2>2, <2>3, LockedGoto DEF At, LockedLabels
<1> QED BY <1>2, <1>3 DEF InsertTransfer

LEMMA SettleInv ==
  ASSUME IInv, NEW r \in Requests, Settle(r) PROVE IInv'
<1>1. At(r, "settle") /\ UNCHANGED <<tables, req, gone>>
  BY DEF Settle
<1>2. CASE Rollback(r) /\ \E k \in Replies : Answer(r, Rejection(k))
  <2>1. gone' = gone \ {r}
    BY <1>1 DEF At
  <2> QED BY <1>1, <1>2, <2>1, RejectionType, EndStep DEF At, Answer
<1>3. CASE /\ ~Insufficient(r) /\ Goto(r, "commit") /\ UNCHANGED tx
           /\ CheckBalance(senderAfter(r)) /\ CheckBalance(recipientAfter(r))
  <2>1. pc'[r] = "commit" /\ pc[r] = "settle"
    BY <1>1, <1>3 DEF Goto, At, IInv, TypeOK
  <2>2. req[r].op = "transfer" /\ req[r] \in TransferCall /\ tx[r] \in Tx
    BY <2>1, StoreAssumption DEF IInv, TypeOK, AtOK, OpAt, TransferCall, IdCall, UserCall
  <2>3. senderAfter(r) >= tx[r].held
    BY <1>3, <2>2 DEF Insufficient, senderAfter, IsTransfer, senderID, amountPaise,
         TransferCall, Amounts, Tx
  <2>4. (senderAfter(r))' = senderAfter(r) /\ (recipientAfter(r))' = recipientAfter(r)
    BY <1>1, <1>3 DEF senderAfter, recipientAfter, IsTransfer, senderID, recipientID,
         amountPaise, tr, tables
  <2>5. DecidedAt(r)'
    BY <1>1, <1>3, <2>1, <2>2, <2>3, <2>4 DEF IInv, AtOK, DecidedAt, RowsOfKey,
         SumActiveHolds, senderID, CheckBalance, tables
  <2> QED BY <1>1, <1>3, <2>1, <2>2, <2>5, LockedGoto DEF At, LockedLabels
<1> QED BY <1>2, <1>3 DEF Settle, Unavailable, Replies

(* A reply from outside a transaction. *)
LEMMA AnswerOnly ==
  ASSUME IInv, NEW r \in Requests, pc[r] \notin OpenLabels \cup {"idle", "done"},
         r \notin gone, NEW rep \in Response, Answer(r, rep),
         UNCHANGED <<tables, req, tx, gone>>
  PROVE  IInv'
<1>1. gone' = gone \ {r}
  OBVIOUS
<1> QED BY <1>1, EndStep DEF Answer

LEMMA UnavailableType == Unavailable \in Response
BY RejectionType DEF Unavailable, Replies

LEMMA resolveExistingKeyInv ==
  ASSUME IInv, NEW r \in Requests, resolveExistingKey(r) PROVE IInv'
<1> DEFINE found == RowsOfKey(senderID(r), req[r].key)
           t == CHOOSE t \in found : TRUE
           rep == IF found = {} THEN Unavailable
                  ELSE IF ~SameBody(transfers[t], r) THEN Rejection("idempotency_conflict")
                  ELSE Reply("transfer_replayed", t, transfers[t].senderBalanceAfter, Null)
<1>1. At(r, "resolve") /\ UNCHANGED <<tables, req, tx, gone>> /\ Answer(r, rep)
  BY DEF resolveExistingKey
<1>2. rep \in Response
  <2>1. CASE found = {}
    BY <2>1, UnavailableType
  <2>2. CASE found # {}
    <3>1. t \in DOMAIN transfers
      BY <2>2 DEF RowsOfKey
    <3>2. t \in Requests /\ transfers[t].senderBalanceAfter \in Int
      BY <3>1 DEF IInv, TypeOK, Transfer
    <3>3. Reply("transfer_replayed", t, transfers[t].senderBalanceAfter, Null) \in Response
      BY <3>2 DEF Reply, Response, Replies
    <3>4. Rejection("idempotency_conflict") \in Response
      BY RejectionType DEF Replies
    <3> QED BY <2>2, <3>3, <3>4
  <2> QED BY <2>1, <2>2
<1> HIDE DEF rep
<1> QED BY <1>1, <1>2, AnswerOnly DEF At, OpenLabels, TxLabels

(***************************************************************************)
(* ClaimBack and GetByID                                                   *)
(***************************************************************************)
LEMMA replayClaimType ==
  ASSUME IInv, NEW t \in DOMAIN transfers, transfers[t].status = "reversed"
  PROVE  replayClaim(t) \in Response
BY DEF IInv, TypeOK, RowsOK, replayClaim, Reply, Response, Replies

LEMMA LoadTransferInv ==
  ASSUME IInv, NEW r \in Requests, LoadTransfer(r) PROVE IInv'
<1>1. At(r, "load") /\ UNCHANGED <<tables, req, tx, gone>>
  BY DEF LoadTransfer
<1>2. CASE Answer(r, Rejection("not_found"))
  <2>1. Rejection("not_found") \in Response BY RejectionType DEF Replies
  <2> QED BY <1>1, <1>2, <2>1, AnswerOnly DEF At, OpenLabels, TxLabels
<1>3. CASE req[r].id \in DOMAIN transfers /\ tr(r).sender = req[r].caller
           /\ tr(r).status = "reversed" /\ Answer(r, replayClaim(req[r].id))
  <2>1. replayClaim(req[r].id) \in Response BY <1>3, replayClaimType DEF tr
  <2> QED BY <1>1, <1>3, <2>1, AnswerOnly DEF At, OpenLabels, TxLabels
<1>4. CASE req[r].id \in DOMAIN transfers /\ tr(r).sender = req[r].caller
           /\ Goto(r, "begin")
  <2>1. pc'[r] = "begin" /\ req'[r] = req[r] /\ tx'[r] = tx[r] /\ pc[r] = "load"
    BY <1>1, <1>4 DEF Goto, At, IInv, TypeOK
  <2>2. OpAt(r)' /\ TransferAt(r)' /\ ClaimAt(r)'
    BY <1>1, <1>4, <2>1 DEF IInv, AtOK, OpAt, TransferAt, ClaimAt, ValidTransfer, tr, tables
  <2>3. LoopsAt(r)' /\ FreshAt(r)' /\ DecidedAt(r)'
    BY <1>1, <2>1 DEF IInv, AtOK, LoopsAt, FreshAt, DecidedAt, LockedLabels, OpenLabels,
                      TxLabels, LockedBalance, tables
  <2> QED BY <1>1, <1>4, <2>1, <2>2, <2>3, GotoOnly DEF AtOK, At, Labels
<1> QED BY <1>2, <1>3, <1>4 DEF LoadTransfer

LEMMA MarkReversedInv ==
  ASSUME IInv, NEW r \in Requests, MarkReversed(r) PROVE IInv'
<1>1. At(r, "mark_reversed") /\ UNCHANGED <<tables, req, gone>>
  BY DEF MarkReversed
<1>2. CASE /\ \E win \in Windows : Reversible(tr(r), tx[r].now, win)
           /\ Goto(r, "reverse") /\ UNCHANGED tx
  <2>1. pc'[r] = "reverse" /\ pc[r] = "mark_reversed"
    BY <1>1, <1>2 DEF Goto, At, IInv, TypeOK
  <2>2. DecidedAt(r)'
    BY <1>1, <1>2, <2>1 DEF IInv, AtOK, DecidedAt, Reversible, tr, tables
  <2>3. req[r].op = "claim"
    BY <2>1 DEF IInv, AtOK, OpAt
  <2> QED BY <1>1, <1>2, <2>1, <2>2, <2>3, LockedGoto DEF At, LockedLabels
<1>3. CASE Rollback(r) /\ Goto(r, "resolve")
  <2>1. gone' = gone \ {r} /\ \E rep : rep \in Response
    BY <1>1, UnavailableType DEF At
  <2> QED BY <1>1, <1>3, <2>1, EndStep DEF At, Goto, LockedLabels
<1> QED BY <1>2, <1>3 DEF MarkReversed

LEMMA ReverseInv ==
  ASSUME IInv, NEW r \in Requests, Reverse(r) PROVE IInv'
<1>1. At(r, "reverse") /\ UNCHANGED <<tables, req, gone>>
  BY DEF Reverse
<1>2. CASE /\ CheckBalance(recipientAfter(r)) /\ CheckBalance(senderAfter(r))
           /\ Goto(r, "commit") /\ UNCHANGED tx
  <2>1. pc'[r] = "commit" /\ pc[r] = "reverse"
    BY <1>1, <1>2 DEF Goto, At, IInv, TypeOK
  <2>2. req[r].op = "claim"
    BY <2>1 DEF IInv, AtOK, OpAt
  <2>3. (senderAfter(r))' = senderAfter(r) /\ (recipientAfter(r))' = recipientAfter(r)
    BY <1>1, <1>2 DEF senderAfter, recipientAfter, IsTransfer, senderID, recipientID,
         amountPaise, tr, tables
  <2>4. DecidedAt(r)'
    BY <1>1, <1>2, <2>1, <2>2, <2>3 DEF IInv, AtOK, DecidedAt, CheckBalance, tr, tables
  <2> QED BY <1>1, <1>2, <2>1, <2>2, <2>4, LockedGoto DEF At, LockedLabels
<1>3. CASE Rollback(r) /\ Answer(r, Unavailable)
  <2>1. gone' = gone \ {r}
    BY <1>1 DEF At
  <2> QED BY <1>1, <1>3, <2>1, UnavailableType, EndStep DEF At, Answer
<1> QED BY <1>2, <1>3 DEF Reverse

LEMMA resolveUnappliedClaimInv ==
  ASSUME IInv, NEW r \in Requests, resolveUnappliedClaim(r) PROVE IInv'
<1>1. At(r, "resolve") /\ UNCHANGED <<tables, req, tx, gone>> /\ ~IsTransfer(r)
  BY DEF resolveUnappliedClaim
<1>2. req[r].id \in DOMAIN transfers
  BY <1>1 DEF At, IsTransfer, IInv, AtOK, OpAt, ClaimAt
<1>3. Rejection("claim_window_expired") \in Response
  BY RejectionType DEF Replies
<1>4. PICK rep \in Response : Answer(r, rep)
  BY <1>2, <1>3, replayClaimType DEF resolveUnappliedClaim, tr
<1> QED BY <1>1, <1>4, AnswerOnly DEF At, OpenLabels, TxLabels

LEMMA ReadTransferInv ==
  ASSUME IInv, NEW r \in Requests, ReadTransfer(r) PROVE IInv'
<1>1. At(r, "read") /\ UNCHANGED <<tables, req, tx, gone>>
  BY DEF ReadTransfer
<1>2. Rejection("not_found") \in Response
  BY RejectionType DEF Replies
<1>3. ASSUME NEW t \in DOMAIN transfers
      PROVE  Reply("details", t, 0, transfers[t].reversedAt) \in Response
  BY DEF IInv, TypeOK, Transfer, Reply, Response, Replies
<1>4. PICK rep \in Response : Answer(r, rep)
  BY <1>2, <1>3 DEF ReadTransfer
<1> QED BY <1>1, <1>4, AnswerOnly DEF At, OpenLabels, TxLabels

(***************************************************************************)
(* COMMIT                                                                  *)
(***************************************************************************)

(* What is known of a transaction that is about to commit: it has both rows,
   and what it is about to write are balances. *)
LEMMA CommitFacts ==
  ASSUME IInv, NEW r \in Requests, pc[r] = "commit"
  PROVE  /\ req[r].op \in {"transfer", "claim"}
         /\ senderID(r) \in Users /\ recipientID(r) \in Users
         /\ senderID(r) # recipientID(r)
         /\ tx[r].locked = {senderID(r), recipientID(r)}
         /\ {senderID(r), recipientID(r)} \subseteq DOMAIN wallets \cup tx[r].created
         /\ tx[r].created \subseteq {senderID(r), recipientID(r)}
         /\ amountPaise(r) \in 1 .. MaxInt64
         /\ tx[r].bal[senderID(r)] \in 0 .. MaxInt64
         /\ tx[r].bal[recipientID(r)] \in 0 .. MaxInt64
         /\ senderAfter(r) \in 0 .. MaxInt64 /\ recipientAfter(r) \in 0 .. MaxInt64
<1>1. req[r].op \in {"transfer", "claim"} /\ req[r] \in Calls
  BY DEF IInv, AtOK, OpAt
<1>2. senderID(r) \in Users /\ recipientID(r) \in Users /\ senderID(r) # recipientID(r)
  BY <1>1, IdsType
<1>3. /\ tx[r].locked = {senderID(r), recipientID(r)}
      /\ {senderID(r), recipientID(r)} \subseteq DOMAIN wallets \cup tx[r].created
      /\ tx[r].created \subseteq {senderID(r), recipientID(r)}
  BY DEF IInv, AtOK, LoopsAt, ids, LockedLabels, OpenLabels, TxLabels
<1>4. amountPaise(r) \in 1 .. MaxInt64
  <2>1. CASE req[r].op = "transfer"
    BY <1>1, <2>1, StoreAssumption DEF IInv, AtOK, TransferAt, ValidTransfer, amountPaise,
         IsTransfer, TransferCall, IdCall, UserCall, Amounts
  <2>2. CASE req[r].op = "claim"
    BY <2>2 DEF IInv, TypeOK, AtOK, ClaimAt, amountPaise, IsTransfer, tr, Transfer
  <2> QED BY <1>1, <2>1, <2>2
<1>5. \A u \in tx[r].locked : u \in Users => tx[r].bal[u] \in 0 .. MaxInt64
  BY LockedBalanceType DEF IInv, AtOK, FreshAt
<1>6. tx[r].bal[senderID(r)] \in 0 .. MaxInt64 /\ tx[r].bal[recipientID(r)] \in 0 .. MaxInt64
  BY <1>2, <1>3, <1>5
<1>7. senderAfter(r) >= 0 /\ recipientAfter(r) >= 0
  BY DEF IInv, AtOK, DecidedAt, CheckBalance
<1>8. senderAfter(r) \in 0 .. MaxInt64 /\ recipientAfter(r) \in 0 .. MaxInt64
  BY <1>4, <1>6, <1>7, StoreAssumption DEF senderAfter, recipientAfter, Wrap
<1> QED BY <1>1, <1>2, <1>3, <1>4, <1>6, <1>8

(* The tables after a commit. *)
LEMMA CommitTables ==
  ASSUME IInv, NEW r \in Requests, pc[r] = "commit", CommitTx(r)
  PROVE  /\ DOMAIN wallets' = DOMAIN wallets \cup tx[r].created
         /\ DOMAIN wallets' \in SUBSET Users /\ wallets' \in [DOMAIN wallets' -> 0 .. MaxInt64]
         /\ \A u \in DOMAIN wallets \ tx[r].locked : wallets'[u] = wallets[u]
         /\ DOMAIN transfers' \in SUBSET Requests
         /\ transfers' \in [DOMAIN transfers' -> Transfer]
         /\ DOMAIN transfers \subseteq DOMAIN transfers'
         /\ late' \in SUBSET DOMAIN transfers'
<1> USE CommitFacts
<1>1. /\ DOMAIN wallets' = DOMAIN wallets \cup tx[r].created
      /\ DOMAIN wallets' \in SUBSET Users /\ wallets' \in [DOMAIN wallets' -> 0 .. MaxInt64]
      /\ \A u \in DOMAIN wallets \ tx[r].locked : wallets'[u] = wallets[u]
  BY DEF CommitTx, IInv, TypeOK
<1>2. CASE IsTransfer(r)
  <2>1. req[r] \in TransferCall /\ req[r].key \in Keys /\ tx[r].now \in Nat /\ req[r].to \in Users
    <3>1. req[r] \in TransferCall
      BY <1>2, StoreAssumption DEF IInv, AtOK, OpAt, IsTransfer, TransferCall, IdCall, UserCall
    <3>2. req[r].key # BadKey /\ req[r].to \in Users
      BY <1>2 DEF IInv, AtOK, TransferAt, ValidTransfer, IsTransfer
    <3>3. tx[r].now \in Nat
      BY DEF IInv, TypeOK, Tx
    <3> QED BY <3>1, <3>2, <3>3 DEF TransferCall
  <2>2. NewTransfer(r) \in Transfer
    BY <2>1 DEF NewTransfer, Transfer, hashBody, TransferCall
  <2>3. transfers' = [t \in DOMAIN transfers \cup {r} |->
                        IF t = r THEN NewTransfer(r) ELSE transfers[t]] /\ late' = late
    BY <1>2 DEF CommitTx
  <2> QED BY <1>1, <2>2, <2>3 DEF IInv, TypeOK
<1>3. CASE ~IsTransfer(r)
  <2>1. req[r].id \in DOMAIN transfers /\ tr(r) \in Transfer /\ tx[r].now \in Nat
    BY <1>3 DEF IInv, TypeOK, AtOK, ClaimAt, IsTransfer, tr, Tx
  <2>2. Reversed(r) \in Transfer
    <3>1. senderAfter(r) \in Int
      BY StoreAssumption
    <3> HIDE CommitFacts
    <3> QED BY <2>1, <3>1 DEF Reversed, Transfer
  <2>3. transfers' = [transfers EXCEPT ![req[r].id] = Reversed(r)]
        /\ late' \subseteq late \cup {req[r].id}
    BY <1>3 DEF CommitTx
  <2> QED BY <1>1, <2>1, <2>2, <2>3 DEF IInv, TypeOK
<1> QED BY <1>2, <1>3

(* The row a commit writes. *)
LEMMA CommitRow ==
  ASSUME IInv, NEW r \in Requests, pc[r] = "commit", CommitTx(r)
  PROVE  \E w \in DOMAIN transfers' :
           /\ w = r \/ w \in DOMAIN transfers
           /\ DOMAIN transfers' = DOMAIN transfers \cup {w}
           /\ \A t \in DOMAIN transfers \ {w} : transfers'[t] = transfers[t]
           /\ transfers'[w].sender = senderID(r) /\ transfers'[w].recipient = recipientID(r)
           /\ w \in DOMAIN transfers =>
                 /\ transfers[w].sender = senderID(r) /\ transfers[w].recipient = recipientID(r)
                 /\ transfers'[w].amount = transfers[w].amount
                 /\ transfers[w].status = "completed" /\ ~IsTransfer(r)
                 /\ transfers'[w].status = "reversed"
           /\ w \notin DOMAIN transfers => w = r /\ IsTransfer(r)
           /\ transfers'[w].status = "reversed" =>
                transfers'[w].reversedAt \in Nat
                /\ transfers'[w].senderBalanceAfterReversal \in Int
           /\ late' = IF IsTransfer(r) \/ Active(transfers[w], clock, Window) THEN late
                      ELSE late \cup {w}
<1>1. CASE IsTransfer(r)
  <2>1. r \notin DOMAIN transfers
    BY FreshId
  <2>2. transfers' = [t \in DOMAIN transfers \cup {r} |->
                        IF t = r THEN NewTransfer(r) ELSE transfers[t]]
        /\ late' = late
    BY <1>1 DEF CommitTx
  <2>3. /\ NewTransfer(r).sender = senderID(r) /\ NewTransfer(r).recipient = recipientID(r)
        /\ NewTransfer(r).status = "completed"
    BY DEF NewTransfer
  <2> QED BY <1>1, <2>1, <2>2, <2>3
<1>2. CASE ~IsTransfer(r)
  <2>1. /\ req[r].id \in DOMAIN transfers /\ tr(r) \in Transfer /\ tx[r].now \in Nat
        /\ tr(r).sender = senderID(r) /\ tr(r).recipient = recipientID(r)
        /\ tr(r).status = "completed"
    BY <1>2, CommitFacts DEF IInv, TypeOK, AtOK, ClaimAt, DecidedAt, IsTransfer, tr, Tx, senderID,
         recipientID
  <2>2. transfers' = [transfers EXCEPT ![req[r].id] = Reversed(r)]
    BY <1>2 DEF CommitTx
  <2>3. senderAfter(r) \in Int
    BY CommitFacts, StoreAssumption
  <2>4. /\ Reversed(r).sender = tr(r).sender /\ Reversed(r).recipient = tr(r).recipient
        /\ Reversed(r).amount = tr(r).amount /\ Reversed(r).status = "reversed"
        /\ Reversed(r).reversedAt = tx[r].now
        /\ Reversed(r).senderBalanceAfterReversal = senderAfter(r)
    BY <2>1 DEF Reversed, Transfer
  <2>5. transfers'[req[r].id] = Reversed(r) /\ DOMAIN transfers' = DOMAIN transfers
        /\ \A t \in DOMAIN transfers \ {req[r].id} : transfers'[t] = transfers[t]
    BY <2>1, <2>2
  <2>6. tr(r) = transfers[req[r].id]
    BY DEF tr
  <2>7. late' = IF Active(tr(r), clock, Window) THEN late ELSE late \cup {req[r].id}
    BY <1>2 DEF CommitTx
  <2> QED BY <1>2, <2>1, <2>3, <2>4, <2>5, <2>6, <2>7
<1> QED BY <1>1, <1>2

(* A commit does not change the holds on a wallet other than the recipient's. *)
LEMMA CommitKeepsHolds ==
  ASSUME IInv, NEW r \in Requests, pc[r] = "commit", CommitTx(r),
         NEW u, u # recipientID(r), NEW n
  PROVE  SumActiveHolds(u, n, Window)' = SumActiveHolds(u, n, Window)
<1>1. PICK w \in DOMAIN transfers' :
           /\ DOMAIN transfers' = DOMAIN transfers \cup {w}
           /\ \A t \in DOMAIN transfers \ {w} : transfers'[t] = transfers[t]
           /\ transfers'[w].recipient = recipientID(r)
           /\ w \in DOMAIN transfers => transfers[w].recipient = recipientID(r)
  BY CommitRow
<1>3. ActiveHolds(transfers', u, n, Window) = ActiveHolds(transfers, u, n, Window)
  BY <1>1 DEF ActiveHolds, Active
<1>4. \A t \in ActiveHolds(transfers, u, n, Window) : amountOf(transfers')[t] = amountOf(transfers)[t]
  BY <1>1 DEF ActiveHolds, amountOf
<1>5. Total(amountOf(transfers'), ActiveHolds(transfers, u, n, Window))
        = Total(amountOf(transfers), ActiveHolds(transfers, u, n, Window))
  BY <1>4, TotalEqual
<1> QED BY <1>3, <1>5 DEF SumActiveHolds

(* The commit of r disturbs no other request: what the others have read and
   decided concerns rows they have locked, and r has locked all it writes. *)
LEMMA CommitOthers ==
  ASSUME IInv, NEW r \in Requests, pc[r] = "commit", CommitTx(r), UNCHANGED req,
         NEW q \in Requests, q # r, pc'[q] = pc[q]
  PROVE  AtOK(q)'
<1>1. PICK w \in DOMAIN transfers' :
        /\ w = r \/ w \in DOMAIN transfers
        /\ DOMAIN transfers' = DOMAIN transfers \cup {w}
        /\ \A t \in DOMAIN transfers \ {w} : transfers'[t] = transfers[t]
        /\ transfers'[w].sender = senderID(r) /\ transfers'[w].recipient = recipientID(r)
        /\ w \in DOMAIN transfers =>
              /\ transfers[w].sender = senderID(r) /\ transfers[w].recipient = recipientID(r)
              /\ transfers'[w].amount = transfers[w].amount
  BY CommitRow
<1>2. AtOK(q) /\ tx'[q] = tx[q] /\ req'[q] = req[q] /\ clock' = clock
  BY DEF IInv, TypeOK, CommitTx, Set
<1>3. tx[q].locked \cap tx[r].locked = {} /\ tx[q].created \cap tx[r].created = {}
  BY DEF IInv, Exclusive
<1>4. \A t \in DOMAIN transfers : /\ t \in DOMAIN transfers'
                                  /\ transfers'[t].sender = transfers[t].sender
                                  /\ transfers'[t].recipient = transfers[t].recipient
                                  /\ transfers'[t].amount = transfers[t].amount
  BY <1>1
<1>5. OpAt(q)' /\ TransferAt(q)' /\ ClaimAt(q)'
  BY <1>2, <1>4 DEF AtOK, OpAt, TransferAt, ClaimAt, ValidTransfer, tr
<1>6. ASSUME pc[q] \in OpenLabels \cup {"begin"}
      PROVE  /\ (ids(q))' = ids(q) /\ (senderID(q))' = senderID(q)
             /\ (recipientID(q))' = recipientID(q) /\ (amountPaise(q))' = amountPaise(q)
             /\ (senderAfter(q))' = senderAfter(q) /\ (recipientAfter(q))' = recipientAfter(q)
  <2>1. req[q].op = "claim" => req[q].id \in DOMAIN transfers
    BY <1>2, <1>6 DEF AtOK, ClaimAt, OpenLabels, TxLabels
  <2>2. req[q].op \in {"transfer", "claim"}
    BY <1>2, <1>6 DEF AtOK, OpAt, OpenLabels, TxLabels
  <2>3. (senderID(q))' = senderID(q) /\ (recipientID(q))' = recipientID(q)
        /\ (amountPaise(q))' = amountPaise(q)
    BY <1>2, <1>4, <2>1, <2>2 DEF senderID, recipientID, amountPaise, IsTransfer, tr
  <2> QED BY <1>2, <2>3 DEF ids, senderAfter, recipientAfter, IsTransfer
<1>7. LoopsAt(q)'
  BY <1>2, <1>6, CommitTables DEF AtOK, LoopsAt, OpenLabels, LockedLabels, TxLabels
<1>8. tx[q].locked \subseteq DOMAIN wallets \cup tx[q].created
  BY <1>2 DEF AtOK, LoopsAt, OpenLabels, LockedLabels, TxLabels
<1>9. FreshAt(q)'
  <2> SUFFICES ASSUME NEW u \in tx[q].locked
               PROVE  (LockedBalance(q, u))' = LockedBalance(q, u)
    BY <1>2 DEF AtOK, FreshAt
  <2>1. u \notin tx[r].locked
    BY <1>3
  <2>2. u \notin tx[r].created
    BY <2>1, CommitFacts
  <2> QED BY <2>1, <2>2, CommitTables DEF LockedBalance
<1>10. DecidedAt(q)'
  <2>1. CASE pc[q] \in LockedLabels
    <3>1. senderID(q) \in tx[q].locked /\ senderID(q) \notin tx[r].locked
      BY <1>2, <1>3, <2>1 DEF AtOK, LoopsAt, ids
    <3>2. senderID(q) # senderID(r)
      BY <3>1, CommitFacts
    <3>3. RowsOfKey(senderID(q), req[q].key) = {} =>
            (RowsOfKey(senderID(q), req[q].key))' = {}
      BY <1>1, <1>2, <3>2 DEF RowsOfKey, senderID
    <3>4. SumActiveHolds(senderID(q), clock, Window)' = SumActiveHolds(senderID(q), clock, Window)
      <4>1. \A n : SumActiveHolds(req[q].caller, n, Window)' = SumActiveHolds(req[q].caller, n, Window)
        BY <3>1, CommitFacts, CommitKeepsHolds DEF senderID
      <4> QED BY <1>2, <4>1 DEF senderID, SumActiveHolds
    <3>5. req[q].op = "claim" => tr(q)' = tr(q)
      <4>1. req[q].op = "claim" => req[q].id \in DOMAIN transfers /\ tr(q).sender = senderID(q)
        BY <1>2, <2>1 DEF AtOK, ClaimAt, LockedLabels, senderID
      <4> QED BY <1>1, <1>2, <3>2, <4>1 DEF tr
    <3> QED BY <1>2, <1>6, <2>1, <3>3, <3>4, <3>5
        DEF AtOK, DecidedAt, CheckBalance, OpenLabels, LockedLabels, TxLabels
  <2>2. CASE pc[q] \notin LockedLabels
    BY <1>2, <2>2 DEF AtOK, DecidedAt, LockedLabels
  <2> QED BY <2>1, <2>2
<1> QED BY <1>5, <1>7, <1>9, <1>10 DEF AtOK

(* A commit, whether its client still waits or not. *)
LEMMA CommitStep ==
  ASSUME IInv, NEW r \in Requests, pc[r] = "commit", CommitTx(r),
         pc' = [pc EXCEPT ![r] = "done"], UNCHANGED req, gone' = gone \ {r},
         resp' \in [Requests -> Response]
  PROVE  IInv'
<1>1. tx' = [tx EXCEPT ![r] = NoTx] /\ clock' = clock
  BY DEF CommitTx, Set
<1>2. TypeOK'
  BY <1>1, CommitTables, NoTxType DEF IInv, TypeOK, Labels
<1>3. GoneOK'
  BY DEF IInv, TypeOK, GoneOK
<1>4. pc'[r] = "done" /\ tx'[r] = NoTx /\ req'[r] = req[r]
      /\ \A q \in Requests \ {r} : pc'[q] = pc[q] /\ tx'[q] = tx[q]
  BY <1>1 DEF IInv, TypeOK
<1>5. RowsOK'
  <2>1. PICK w \in DOMAIN transfers' :
        /\ w = r \/ w \in DOMAIN transfers
        /\ DOMAIN transfers' = DOMAIN transfers \cup {w}
        /\ \A t \in DOMAIN transfers \ {w} : transfers'[t] = transfers[t]
        /\ transfers'[w].sender = senderID(r) /\ transfers'[w].recipient = recipientID(r)
        /\ transfers'[w].status = "reversed" =>
             transfers'[w].reversedAt \in Nat
             /\ transfers'[w].senderBalanceAfterReversal \in Int
        /\ w \in DOMAIN transfers => transfers'[w].status = "reversed"
        /\ w \notin DOMAIN transfers => IsTransfer(r)
        /\ late' = IF IsTransfer(r) \/ Active(transfers[w], clock, Window) THEN late
                   ELSE late \cup {w}
    BY CommitRow
  <2>2. \A t \in DOMAIN transfers : pc'[t] = "done"
    BY <1>4 DEF IInv, TypeOK, RowsOK
  <2>3. {senderID(r), recipientID(r)} \subseteq DOMAIN wallets' /\ senderID(r) # recipientID(r)
        /\ DOMAIN wallets \subseteq DOMAIN wallets'
    BY CommitFacts, CommitTables
  <2>4. \A t \in late' : transfers'[t].status = "reversed"
    BY <2>1 DEF IInv, RowsOK, TypeOK
  <2> QED BY <1>4, <2>1, <2>2, <2>3, <2>4 DEF IInv, RowsOK
<1>6. Exclusive'
  <2>1. ASSUME NEW q \in Requests PROVE tx'[q].created \cap DOMAIN wallets' = {}
    <3>1. DOMAIN wallets' = DOMAIN wallets \cup tx[r].created
      BY CommitTables
    <3>2. CASE q = r
      BY <1>4, <3>2, NoTxFacts
    <3>3. CASE q # r
      BY <1>4, <3>1, <3>3 DEF IInv, Exclusive
    <3> QED BY <3>2, <3>3
  <2> QED BY <1>4, <2>1, NoTxFacts DEF IInv, Exclusive
<1>7. AtOK(r)'
  <2>1. req[r] \in Calls /\ 0 <= clock
    BY DEF IInv, TypeOK, AtOK, OpAt
  <2>2. OpAt(r)' /\ TransferAt(r)' /\ ClaimAt(r)'
    BY <1>4, <2>1 DEF OpAt, TransferAt, ClaimAt
  <2>3. LoopsAt(r)' /\ FreshAt(r)' /\ DecidedAt(r)'
    BY <1>1, <1>4, <2>1, NoTxFacts
       DEF LoopsAt, FreshAt, DecidedAt, LockedLabels, OpenLabels, TxLabels
  <2> QED BY <2>2, <2>3 DEF AtOK
<1>8. \A q \in Requests \ {r} : AtOK(q)'
  BY <1>4, CommitOthers
<1> QED BY <1>2, <1>3, <1>5, <1>6, <1>7, <1>8 DEF IInv

LEMMA CommitInv ==
  ASSUME IInv, NEW r \in Requests, Commit(r) PROVE IInv'
<1>1. pc[r] = "commit" /\ CommitTx(r) /\ UNCHANGED <<req, gone>> /\ r \notin gone
  BY DEF Commit, At
<1>2. PICK rep \in Response : Answer(r, rep)
  <2>1. senderAfter(r) \in Int /\ tx[r].now \in Int
    BY <1>1, CommitFacts, StoreAssumption DEF IInv, TypeOK, Tx
  <2>2. ~IsTransfer(r) => req[r].id \in Requests
    BY <1>1, CommitFacts DEF IInv, TypeOK, AtOK, ClaimAt, IsTransfer
  <2>3. Reply("transfer_applied", r, senderAfter(r), Null) \in Response
    BY <2>1 DEF Reply, Response, Replies
  <2>4. ~IsTransfer(r) => Reply("claim_applied", req[r].id, senderAfter(r), tx[r].now) \in Response
    BY <2>1, <2>2 DEF Reply, Response, Replies
  <2> QED BY <2>3, <2>4 DEF Commit
<1>3. pc' = [pc EXCEPT ![r] = "done"] /\ resp' \in [Requests -> Response] /\ gone' = gone \ {r}
  BY <1>1, <1>2 DEF Answer, IInv, TypeOK
<1> QED BY <1>1, <1>3, CommitStep

(***************************************************************************)
(* WalletService                                                           *)
(***************************************************************************)

(* A wallet is opened by a request that has no transaction. *)
LEMMA OpenStep ==
  ASSUME IInv, NEW r \in Requests, pc[r] = "account_inserting",
         NEW u \in Users, u = req[r].caller, ~InsertBlocked(r, u), OpenWallet(u),
         NEW l \in {"done", "account_read_created", "account_read_existing"},
         pc' = [pc EXCEPT ![r] = l], gone' = gone \ {r},
         resp' = resp, UNCHANGED <<clock, transfers, late, req, tx>>
  PROVE  IInv'
<1>1. /\ DOMAIN wallets' = DOMAIN wallets \cup {u}
      /\ \A v \in DOMAIN wallets : wallets'[v] = wallets[v]
      /\ u \notin DOMAIN wallets => wallets'[u] = Seed
      /\ wallets' \in [DOMAIN wallets' -> 0 .. MaxInt64]
  BY StoreAssumption DEF OpenWallet, IInv, TypeOK
<1>2. TypeOK'
  BY <1>1 DEF IInv, TypeOK, Labels
<1>3. GoneOK'
  BY DEF IInv, TypeOK, GoneOK
<1>4. pc'[r] = l /\ \A q \in Requests \ {r} : pc'[q] = pc[q]
  BY DEF IInv, TypeOK
<1>5. RowsOK'
  BY <1>1, <1>4 DEF IInv, TypeOK, RowsOK
<1>6. \A q \in Requests : u \notin tx[q].created
  BY DEF InsertBlocked, IInv, AtOK, LoopsAt, OpenLabels
<1>7. Exclusive'
  BY <1>1, <1>6 DEF IInv, Exclusive
<1>8. ASSUME NEW q \in Requests PROVE AtOK(q)'
  <2>1. AtOK(q)
    BY DEF IInv
  <2>2. OpAt(q)' /\ TransferAt(q)' /\ ClaimAt(q)'
    BY <1>4, <2>1 DEF AtOK, OpAt, TransferAt, ClaimAt, ValidTransfer, tr
  <2>3. LoopsAt(q)'
    BY <1>1, <1>4, <2>1 DEF AtOK, LoopsAt, ids, senderID, recipientID, IsTransfer, tr,
         LockedLabels, OpenLabels, TxLabels
  <2>4. tx[q].locked \subseteq DOMAIN wallets \cup tx[q].created
    BY <2>1 DEF AtOK, LoopsAt, OpenLabels, LockedLabels, TxLabels
  <2>5. FreshAt(q)'
    BY <1>1, <1>6, <2>1, <2>4 DEF AtOK, FreshAt, LockedBalance
  <2>6. DecidedAt(q)'
    BY <1>4, <2>1 DEF AtOK, DecidedAt, SumActiveHolds, RowsOfKey, CheckBalance,
         senderAfter, recipientAfter, amountPaise, senderID, recipientID, tr, IsTransfer
  <2> QED BY <2>2, <2>3, <2>5, <2>6 DEF AtOK
<1> QED BY <1>2, <1>3, <1>5, <1>7, <1>8 DEF IInv

(* The caller of an authenticated request is a user. *)
LEMMA CallerType ==
  ASSUME IInv, NEW r \in Requests, pc[r] # "idle"
  PROVE  req[r] \in Calls /\ req[r].caller \in Users
BY StoreAssumption DEF IInv, AtOK, OpAt, TransferCall, IdCall, UserCall

LEMMA AccountGoto ==
  ASSUME IInv, NEW r \in Requests, pc[r] \in {"account_exists", "account_insert"},
         r \notin gone, NEW l \in {"account_read_existing", "account_insert", "account_inserting"},
         Goto(r, l), UNCHANGED <<tables, req, tx, gone>>
  PROVE  IInv'
<1>1. pc'[r] = l /\ req'[r] = req[r] /\ tx'[r] = tx[r]
  BY DEF Goto, IInv, TypeOK
<1>2. OpAt(r)' /\ TransferAt(r)' /\ ClaimAt(r)'
  BY <1>1 DEF IInv, AtOK, OpAt, TransferAt, ClaimAt
<1>3. LoopsAt(r)' /\ FreshAt(r)' /\ DecidedAt(r)'
  BY <1>1 DEF IInv, AtOK, LoopsAt, FreshAt, DecidedAt, LockedLabels, OpenLabels, TxLabels,
       LockedBalance, tables
<1> QED BY <1>1, <1>2, <1>3, GotoOnly DEF AtOK, Labels, TxLabels

LEMMA WalletStepInv ==
  ASSUME IInv, NEW r \in Requests, WalletStep(r) PROVE IInv'
<1>1. CASE AccountExists(r)
  BY <1>1, AccountGoto DEF AccountExists, At
<1>2. CASE AccountAcquire(r)
  BY <1>2, AccountGoto DEF AccountAcquire, At
<1>3. CASE AccountInsert(r)
  <2>1. pc[r] = "account_inserting" /\ req[r].caller \in Users /\ gone' = gone \ {r}
    BY <1>3, CallerType DEF AccountInsert, At
  <2> QED BY <1>3, <2>1, OpenStep DEF AccountInsert, Goto
<1>4. CASE AccountRead(r)
  <2>1. PICK rep \in Response : Answer(r, rep)
    <3>1. ASSUME NEW u \in DOMAIN wallets, NEW k \in {"wallet_created", "wallet_existing"}
          PROVE  Reply(k, Null, wallets[u], Null) \in Response
      BY DEF IInv, TypeOK, Reply, Response, Replies
    <3> QED BY <1>4, <3>1, UnavailableType DEF AccountRead
  <2> QED BY <1>4, <2>1, AnswerOnly DEF AccountRead, At, OpenLabels, TxLabels
<1>5. CASE GetBalance(r)
  <2>1. PICK rep \in Response : Answer(r, rep)
    <3>1. ASSUME NEW u \in DOMAIN wallets, NEW win \in Windows
          PROVE  Reply("balances", Null, wallets[u], wallets[u] - SumActiveHolds(u, clock, win))
                   \in Response
      <4>1. wallets[u] \in Int /\ SumActiveHolds(u, clock, win) \in Int
        BY HoldsType DEF IInv, TypeOK
      <4> QED BY <4>1 DEF Reply, Response, Replies
    <3>2. Rejection("no_wallet") \in Response
      BY RejectionType DEF Replies
    <3> QED BY <1>5, <3>1, <3>2, UnavailableType DEF GetBalance
  <2> QED BY <1>5, <2>1, AnswerOnly DEF GetBalance, At, OpenLabels, TxLabels
<1> QED BY <1>1, <1>2, <1>3, <1>4, <1>5 DEF WalletStep

(***************************************************************************)
(* Arrivals, time and failures                                             *)
(***************************************************************************)
LEMMA ArriveInv ==
  ASSUME IInv, NEW r \in Requests, NEW c \in Calls, Arrive(r, c) PROVE IInv'
<1>1. pc[r] = "idle" /\ r \notin gone /\ UNCHANGED <<tables, tx, gone>>
      /\ req' = [req EXCEPT ![r] = c]
  BY DEF Arrive, At
<1>2. c.op \in {"transfer", "claim", "read", "account", "balance"}
  BY StoreAssumption DEF TransferCall, IdCall, UserCall
<1>3. PICK l \in Labels : /\ pc' = [pc EXCEPT ![r] = l]
                          /\ resp' \in [Requests -> Response]
                          /\ \/ l = "done"
                             \/ l = "lookup" /\ c.op = "transfer" /\ ValidTransfer(c)
                             \/ l = "load" /\ c.op = "claim"
                             \/ l = "read" /\ c.op = "read"
                             \/ l = "account_exists" /\ c.op = "account"
                             \/ l = "balances" /\ c.op = "balance"
  <2>1. CASE Answer(r, Rejection("validation_error"))
    <3>1. Rejection("validation_error") \in Response
      BY RejectionType DEF Replies
    <3> QED BY <2>1, <3>1 DEF Answer, Labels, IInv, TypeOK
  <2>2. CASE Goto(r, Entry(c.op)) /\ (c.op = "transfer" => ValidTransfer(c))
    <3>1. pc' = [pc EXCEPT ![r] = Entry(c.op)] /\ resp' \in [Requests -> Response]
      BY <2>2 DEF Goto, IInv, TypeOK
    <3>2. Entry(c.op) \in Labels /\
             \/ Entry(c.op) = "lookup" /\ c.op = "transfer"
             \/ Entry(c.op) = "load" /\ c.op = "claim"
             \/ Entry(c.op) = "read" /\ c.op = "read"
             \/ Entry(c.op) = "account_exists" /\ c.op = "account"
             \/ Entry(c.op) = "balances" /\ c.op = "balance"
      BY <1>2 DEF Entry, Labels
    <3> QED BY <2>2, <3>1, <3>2
  <2> QED BY <2>1, <2>2 DEF Arrive
<1>4. TypeOK'
  BY <1>1, <1>3 DEF IInv, TypeOK, tables
<1>5. GoneOK'
  BY <1>1, <1>3 DEF IInv, TypeOK, GoneOK
<1>6. pc'[r] = l /\ req'[r] = c /\ tx'[r] = tx[r]
      /\ \A q \in Requests \ {r} : pc'[q] = pc[q] /\ req'[q] = req[q] /\ tx'[q] = tx[q]
  BY <1>1, <1>3 DEF IInv, TypeOK
<1>7. OpAt(r)' /\ TransferAt(r)' /\ ClaimAt(r)'
  BY <1>3, <1>6 DEF OpAt, TransferAt, ClaimAt, ValidTransfer
<1>8. LoopsAt(r)' /\ FreshAt(r)' /\ DecidedAt(r)'
  BY <1>1, <1>3, <1>6 DEF IInv, AtOK, LoopsAt, FreshAt, DecidedAt, LockedLabels, OpenLabels,
       TxLabels, LockedBalance, tables
<1> QED BY <1>1, <1>4, <1>5, <1>6, <1>7, <1>8, FreshId, LocalStep DEF AtOK, IInv, Exclusive

(* As time passes holds expire; what was decided with more of them stands. *)
LEMMA TickInv ==
  ASSUME IInv, Tick PROVE IInv'
<1>1. clock \in Nat /\ clock' = clock + 1 /\ clock' \in Nat /\ clock' \in 0 .. MaxClock
      /\ UNCHANGED <<wallets, transfers, late, pc, req, tx, resp, gone>>
  BY StoreAssumption DEF Tick, IInv, TypeOK
<1>2. TypeOK' /\ RowsOK' /\ Exclusive' /\ GoneOK'
  BY <1>1 DEF IInv, TypeOK, RowsOK, Exclusive, GoneOK
<1>3. ASSUME NEW q \in Requests PROVE AtOK(q)'
  <2>1. AtOK(q) /\ tx[q] \in Tx
    BY DEF IInv, TypeOK
  <2>2. OpAt(q)' /\ TransferAt(q)' /\ ClaimAt(q)' /\ LoopsAt(q)' /\ FreshAt(q)'
    BY <1>1, <2>1 DEF AtOK, OpAt, TransferAt, ClaimAt, ValidTransfer, tr, LoopsAt, FreshAt,
         LockedBalance, ids, senderID, recipientID, IsTransfer
  <2>3. /\ SumActiveHolds(senderID(q), clock', Window) <= SumActiveHolds(senderID(q), clock, Window)
        /\ SumActiveHolds(senderID(q), clock, Window) \in Nat
        /\ SumActiveHolds(senderID(q), clock', Window) \in Nat
    BY <1>1, HoldsShrink, HoldsType, StoreAssumption
  <2>4. SumActiveHolds(senderID(q), clock, Window)' = SumActiveHolds(senderID(q), clock', Window)
    BY <1>1 DEF SumActiveHolds, senderID
  <2>5. DecidedAt(q)'
    BY <1>1, <2>1, <2>3, <2>4 DEF AtOK, DecidedAt, RowsOfKey, CheckBalance, senderAfter,
         recipientAfter, amountPaise, senderID, recipientID, tr, IsTransfer, Tx
  <2> QED BY <2>2, <2>5 DEF AtOK
<1> QED BY <1>2, <1>3 DEF IInv

LEMMA AbandonInv ==
  ASSUME IInv, NEW r \in Requests, Abandon(r) PROVE IInv'
<1>1. pc[r] \notin {"idle", "done"} /\ r \notin gone /\ UNCHANGED <<tables, req, tx>>
      /\ resp' = [resp EXCEPT ![r] = Unavailable]
  BY DEF Abandon
<1>2. CASE pc[r] \in TxLabels /\ gone' = gone \cup {r} /\ UNCHANGED pc
  <2>1. TypeOK' /\ GoneOK'
    BY <1>1, <1>2, UnavailableType DEF IInv, TypeOK, GoneOK, tables
  <2>2. AtOK(r)'
    <3>1. pc'[r] = pc[r] /\ req'[r] = req[r] /\ tx'[r] = tx[r] /\ AtOK(r)
      BY <1>1, <1>2 DEF IInv
    <3>2. OpAt(r)' /\ TransferAt(r)' /\ ClaimAt(r)'
      BY <1>1, <3>1 DEF AtOK, OpAt, TransferAt, ClaimAt, ValidTransfer, tr, tables
    <3>3. LoopsAt(r)' /\ FreshAt(r)'
      BY <1>1, <3>1 DEF AtOK, LoopsAt, FreshAt, LockedBalance, ids, senderID, recipientID,
                  tr, IsTransfer, tables
    <3>4. DecidedAt(r)'
      BY <1>1, <3>1 DEF AtOK, DecidedAt, SumActiveHolds, RowsOfKey, CheckBalance,
                  senderAfter, recipientAfter, amountPaise, senderID, recipientID, tr,
                  IsTransfer, tables
    <3> QED BY <3>2, <3>3, <3>4 DEF AtOK
  <2> QED BY <1>1, <1>2, <2>1, <2>2, FreshId, LocalStep DEF IInv, Exclusive
<1>3. CASE pc[r] \notin TxLabels /\ pc' = [pc EXCEPT ![r] = "done"] /\ UNCHANGED gone
  <2>1. gone' = gone \ {r} /\ pc[r] \notin OpenLabels
    BY <1>1, <1>3 DEF OpenLabels
  <2> QED BY <1>1, <1>3, <2>1, UnavailableType, EndStep
<1> QED BY <1>2, <1>3 DEF Abandon

LEMMA ReapInv ==
  ASSUME IInv, NEW r \in Requests, Reap(r) \/ ReapCommit(r) \/ ReapInsert(r)
  PROVE  IInv'
<1>1. r \in gone /\ pc' = [pc EXCEPT ![r] = "done"] /\ gone' = gone \ {r}
      /\ UNCHANGED <<req, resp>>
  BY DEF Reap, ReapCommit, ReapInsert, End
<1>2. pc[r] \in TxLabels
  BY <1>1 DEF IInv, GoneOK
<1>3. CASE Reap(r)
  BY <1>1, <1>2, <1>3, UnavailableType, EndStep DEF Reap, TxLabels
<1>4. CASE ReapCommit(r)
  BY <1>1, <1>4, CommitStep DEF ReapCommit, IInv, TypeOK
<1>5. CASE ReapInsert(r)
  <2>1. pc[r] = "account_inserting" /\ req[r].caller \in Users
    BY <1>5, CallerType DEF ReapInsert
  <2> QED BY <1>1, <1>5, <2>1, OpenStep DEF ReapInsert
<1> QED BY <1>3, <1>4, <1>5

(***************************************************************************)
(* The theorems                                                            *)
(***************************************************************************)
LEMMA TransferStepInv ==
  ASSUME IInv, NEW r \in Requests, TransferStep(r) PROVE IInv'
BY LookupInv, BeginInv, CheckWalletInv, InsertWalletInv, LockWalletInv, SumHoldsInv,
   InsertTransferInv, SettleInv, resolveExistingKeyInv, LoadTransferInv, MarkReversedInv,
   ReverseInv, resolveUnappliedClaimInv, CommitInv, ReadTransferInv DEF TransferStep

LEMMA StutterInv ==
  ASSUME IInv, UNCHANGED vars PROVE IInv'
BY DEF IInv, vars, TypeOK, RowsOK, Exclusive, GoneOK, AtOK, OpAt, TransferAt, ClaimAt,
       ValidTransfer, LoopsAt, FreshAt, DecidedAt, LockedBalance, ids, senderID, recipientID,
       IsTransfer, tr, SumActiveHolds, RowsOfKey, CheckBalance, senderAfter, recipientAfter,
       amountPaise

LEMMA InitInv == Init => IInv
<1> SUFFICES ASSUME Init PROVE IInv
  OBVIOUS
<1>1. TypeOK
  BY StoreAssumption, NoTxType, RejectionType DEF Init, TypeOK, Labels, Replies
<1>2. RowsOK /\ Exclusive /\ GoneOK
  BY NoTxFacts DEF Init, RowsOK, Exclusive, GoneOK
<1>3. ASSUME NEW r \in Requests PROVE AtOK(r)
  BY NoTxFacts DEF Init, AtOK, OpAt, TransferAt, ClaimAt, LoopsAt, FreshAt, DecidedAt,
       LockedLabels, OpenLabels, TxLabels
<1> QED BY <1>1, <1>2, <1>3 DEF IInv

LEMMA NextInv == IInv /\ [Next]_vars => IInv'
<1> SUFFICES ASSUME IInv, [Next]_vars PROVE IInv'
  OBVIOUS
<1>1. CASE \E r \in Requests : Step(r)
  BY <1>1, TransferStepInv, WalletStepInv DEF Step
<1>2. CASE \E r \in Requests : \E c \in Calls : Arrive(r, c)
  BY <1>2, ArriveInv
<1>3. CASE Tick
  BY <1>3, TickInv
<1>4. CASE Idle
  BY <1>4, StutterInv DEF Idle
<1>5. CASE Faults
  BY <1>5, AbandonInv, ReapInv DEF Faults
<1>6. CASE UNCHANGED vars
  BY <1>6, StutterInv
<1> QED BY <1>1, <1>2, <1>3, <1>4, <1>5, <1>6 DEF Next, QuietNext

(* What IInv says of every statement of every request is always true, in spite
   of interleavings and failures: in particular the balances a transaction of
   Execute or ClaimBack has read under its locks are current when it commits. *)
THEOREM Invariance == Spec => []IInv
<1>1. Init => IInv BY InitInv
<1>2. IInv /\ [Next]_vars => IInv' BY NextInv
<1> QED BY <1>1, <1>2, PTL DEF Spec

(* The state is always well typed; committed balances never leave
   0 .. MaxInt64, although Execute and ClaimBack add int64 values unchecked. *)
THEOREM TypeCorrect == Spec => []TypeOK
<1>1. IInv => TypeOK BY DEF IInv
<1> QED BY <1>1, Invariance, PTL

(* After the wallet locks nothing waits: the unique index of the keys and the
   conditional UPDATE of MarkReversed never meet an uncommitted rival, so the
   lock on the sender's wallet alone decides which duplicate comes first. *)
THEOREM Serialization == Spec => []LocksSerialize
<1>1. IInv => LocksSerialize
  <2> SUFFICES ASSUME IInv, NEW r \in Requests
               PROVE  /\ pc[r] = "insert_transfer" => ~KeyPending(r)
                      /\ pc[r] = "mark_reversed" => ~ReversalPending(r)
    BY DEF LocksSerialize
  <2>1. ASSUME NEW q \in Requests, pc[q] \in LockedLabels
        PROVE  senderID(q) \in tx[q].locked
    BY <2>1 DEF IInv, AtOK, LoopsAt, ids
  <2>2. \A q \in Requests \ {r} : tx[q].locked \cap tx[r].locked = {}
    BY DEF IInv, Exclusive
  <2>3. pc[r] = "insert_transfer" => ~KeyPending(r)
    BY <2>1, <2>2 DEF KeyPending, LockedLabels
  <2>4. ASSUME NEW q \in Requests, pc[q] \in {"mark_reversed", "reverse", "commit"}, ~IsTransfer(q)
        PROVE  tr(q).sender = senderID(q)
    BY <2>4 DEF IInv, AtOK, OpAt, ClaimAt, IsTransfer, senderID
  <2>5. pc[r] = "mark_reversed" => ~ReversalPending(r)
    <3> SUFFICES ASSUME pc[r] = "mark_reversed", NEW q \in Requests \ {r},
                        pc[q] \in {"reverse", "commit"}, ~IsTransfer(q), req[q].id = req[r].id
                 PROVE  FALSE
      BY DEF ReversalPending
    <3>1. ~IsTransfer(r)
      BY DEF IInv, AtOK, OpAt, IsTransfer
    <3>2. tr(q) = tr(r)
      BY DEF tr
    <3>3. senderID(q) = senderID(r)
      BY <2>4, <3>1, <3>2
    <3> QED BY <2>1, <2>2, <3>3 DEF LockedLabels
  <2> QED BY <2>3, <2>5
<1> QED BY <1>1, Invariance, PTL

(***************************************************************************)
(* Which steps change the tables                                           *)
(***************************************************************************)

(* One of: time passes, a wallet opens, a transaction commits. *)
LEMMA TableSteps ==
  ASSUME IInv, [Next]_vars
  PROVE  \/ UNCHANGED tables
         \/ Tick
         \/ \E u \in Users : OpenWallet(u) /\ UNCHANGED <<clock, transfers, late>>
         \/ \E r \in Requests : pc[r] = "commit" /\ CommitTx(r)
<1>1. ASSUME NEW r \in Requests, TransferStep(r)
      PROVE  UNCHANGED tables \/ (pc[r] = "commit" /\ CommitTx(r))
  BY <1>1 DEF TransferStep, Lookup, Begin, CheckWallet, InsertWallet, LockWallet, SumHolds,
       InsertTransfer, Settle, resolveExistingKey, LoadTransfer, MarkReversed, Reverse,
       resolveUnappliedClaim, Commit, ReadTransfer, At
<1>2. ASSUME NEW r \in Requests, WalletStep(r)
      PROVE  \/ UNCHANGED tables
             \/ \E u \in Users : OpenWallet(u) /\ UNCHANGED <<clock, transfers, late>>
  <2>1. CASE AccountInsert(r)
    <3>1. req[r].caller \in Users
      BY <2>1, CallerType DEF AccountInsert, At
    <3> QED BY <2>1, <3>1 DEF AccountInsert
  <2> QED BY <1>2, <2>1 DEF WalletStep, AccountExists, AccountAcquire, AccountRead, GetBalance
<1>3. ASSUME NEW r \in Requests, NEW c \in Calls, Arrive(r, c) PROVE UNCHANGED tables
  BY <1>3 DEF Arrive
<1>4. ASSUME NEW r \in Requests, Abandon(r) \/ Reap(r) \/ ReapCommit(r) \/ ReapInsert(r)
      PROVE  \/ UNCHANGED tables
             \/ \E u \in Users : OpenWallet(u) /\ UNCHANGED <<clock, transfers, late>>
             \/ pc[r] = "commit" /\ CommitTx(r)
  <2>1. CASE ReapInsert(r)
    <3>1. req[r].caller \in Users
      BY <2>1, CallerType DEF ReapInsert
    <3> QED BY <2>1, <3>1 DEF ReapInsert
  <2> QED BY <1>4, <2>1 DEF Abandon, Reap, ReapCommit
<1>5. CASE Idle \/ UNCHANGED vars
  BY <1>5 DEF Idle, vars, tables
<1> QED BY <1>1, <1>2, <1>3, <1>4, <1>5 DEF Next, QuietNext, Faults, Step

(* A commit moves the amount between the two current balances, exactly: the
   int64 sum did not wrap around, or the CHECK would have refused it. *)
LEMMA CommitBalances ==
  ASSUME IInv, NEW r \in Requests, pc[r] = "commit", CommitTx(r)
  PROVE  LET s == senderID(r)
             d == recipientID(r)
             a == amountPaise(r)
         IN  /\ DOMAIN wallets' = DOMAIN wallets \cup {s, d}
             /\ LockedBalance(r, s) \in Nat /\ LockedBalance(r, d) \in Nat
             /\ IsTransfer(r) => /\ wallets'[s] = LockedBalance(r, s) - a
                                 /\ wallets'[d] = LockedBalance(r, d) + a
             /\ ~IsTransfer(r) => /\ wallets'[s] = LockedBalance(r, s) + a
                                  /\ wallets'[d] = LockedBalance(r, d) - a
             /\ \A u \in DOMAIN wallets \ {s, d} : wallets'[u] = wallets[u]
             /\ wallets'[s] \in Nat /\ wallets'[d] \in Nat
<1> DEFINE s == senderID(r)
           d == recipientID(r)
<1> USE CommitFacts
<1>1. tx[r].bal[s] = LockedBalance(r, s) /\ tx[r].bal[d] = LockedBalance(r, d)
  BY DEF IInv, AtOK, FreshAt
<1>2. DOMAIN wallets' = DOMAIN wallets \cup {s, d}
      /\ \A u \in DOMAIN wallets \ {s, d} : wallets'[u] = wallets[u]
  BY CommitTables
<1>3. wallets'[s] = senderAfter(r) /\ wallets'[d] = recipientAfter(r)
  BY DEF CommitTx
<1>4. IsTransfer(r) => /\ senderAfter(r) = tx[r].bal[s] - amountPaise(r)
                      /\ recipientAfter(r) = tx[r].bal[d] + amountPaise(r)
  BY StoreAssumption DEF senderAfter, recipientAfter, Wrap
<1>5. ~IsTransfer(r) => /\ senderAfter(r) = tx[r].bal[s] + amountPaise(r)
                       /\ recipientAfter(r) = tx[r].bal[d] - amountPaise(r)
  BY StoreAssumption DEF senderAfter, recipientAfter, Wrap
<1> QED BY <1>1, <1>2, <1>3, <1>4, <1>5
=============================================================================
