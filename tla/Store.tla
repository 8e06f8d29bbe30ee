------------------------------- MODULE Store -------------------------------
(***************************************************************************)
(* The PostgreSQL tables of the wallet service, the open transactions on   *)
(* them and the statements of internal/repository, at READ COMMITTED:      *)
(*                                                                         *)
(*   - a plain SELECT sees committed rows (and the transaction's own);     *)
(*   - SELECT ... FOR UPDATE waits for the row lock and then reads the     *)
(*     latest committed balance;                                           *)
(*   - INSERT ... ON CONFLICT DO NOTHING waits for the transaction that    *)
(*     holds an uncommitted row with the same key;                         *)
(*   - now() is the time at which the TRANSACTION began, whatever the      *)
(*     time of the statement.                                              *)
(*                                                                         *)
(* What a transaction writes stays in its own record tx[r] until Commit.   *)
(***************************************************************************)
EXTENDS Integers, FiniteSets, Money

CONSTANTS
  Users,     \* registered users: numbers, ordered as the ids' strings are
  Requests,  \* HTTP requests; the transfer row that request r inserts has
             \* id r (gen_random_uuid never repeats an id)
  Keys,      \* idempotency keys of legal length
  BadKey,    \* an empty key, or one of more than 128 characters
  Null,      \* SQL NULL, an unknown username, an absent id
  Calls,     \* the calls that clients make
  Seed,      \* INITIAL_BALANCE_PAISE
  Windows,   \* CLAIM_WINDOW of the instances: a restart or a rolling deploy
             \* may change it, and a window is not stored with a transfer
  Window,    \* the shortest of them
  MaxConns,  \* size of the connection pool
  MaxInt64,  \* largest int64 / BIGINT
  MaxClock   \* bound on the database clock

VARIABLES
  clock,     \* the database clock
  wallets,   \* committed wallets: user -> balance_paise
  transfers, \* committed transfers: id -> row
  late,      \* history: transfers whose reversal committed after expiry
  pc,        \* request -> the statement it is about to execute
  req,       \* request -> its call
  tx,        \* request -> its open transaction and its local variables
  resp,      \* request -> the reply
  gone       \* requests that were answered 503 while their transaction was
             \* still open in the database

vars == <<clock, wallets, transfers, late, pc, req, tx, resp, gone>>

(* Everything but the control state and the reply of a request. *)
tables == <<clock, wallets, transfers, late>>

(***************************************************************************)
(* Calls, rows and replies                                                 *)
(***************************************************************************)
Amounts == -MaxInt64 .. MaxInt64

TransferCall == [op : {"transfer"}, caller : Users, to : Users \cup {Null},
                 amount : Amounts, key : Keys \cup {BadKey}]
IdCall       == [op : {"claim", "read"}, caller : Users, id : Requests]
UserCall     == [op : {"account", "balance"}, caller : Users]

ASSUME StoreAssumption ==
  /\ Users \subseteq Nat /\ IsFiniteSet(Users)
  /\ IsFiniteSet(Requests)
  /\ Null \notin Users \cup Requests
  /\ BadKey \notin Keys
  /\ MaxInt64 \in Nat /\ Seed \in 0 .. MaxInt64
  /\ Windows \subseteq Nat \ {0}
  /\ Window \in Windows /\ \A w \in Windows : Window <= w
  /\ MaxConns \in Nat \ {0} /\ MaxClock \in Nat
  /\ Calls \subseteq TransferCall \cup IdCall \cup UserCall /\ Null \notin Calls

(* hashBody is SHA-256 over "to|amount": distinct bodies, distinct hashes. *)
hashBody(to, amount) == <<to, amount>>

Transfer == [sender : Users, recipient : Users, amount : 1 .. MaxInt64,
             key : Keys, bodyHash : Users \X Amounts, senderBalanceAfter : Int,
             status : {"completed", "reversed"}, createdAt : Nat,
             reversedAt : Nat \cup {Null},
             senderBalanceAfterReversal : Int \cup {Null}]

Replies == {"none", "validation_error", "unknown_recipient", "self_transfer",
            "insufficient_funds", "idempotency_conflict", "not_found",
            "claim_window_expired", "no_wallet", "service_unavailable",
            "transfer_applied", "transfer_replayed", "claim_applied",
            "claim_replayed", "wallet_created", "wallet_existing",
            "balances", "details"}

(* The amounts in a reply: the caller's balance, and the available balance or
   the time of a reversal where the reply has one. *)
Response == [kind : Replies, id : Requests \cup {Null}, balance : Int,
             extra : Int \cup {Null}]

Reply(kind, id, balance, extra) ==
  [kind |-> kind, id |-> id, balance |-> balance, extra |-> extra]
Rejection(kind) == Reply(kind, Null, 0, Null)
Unavailable == Rejection("service_unavailable")

(***************************************************************************)
(* A transaction: when it began, the wallet rows it inserted and locked,   *)
(* and the local variables of the service function that runs it: the ids   *)
(* its loop has still to visit, the balances it read and the hold sum.     *)
(***************************************************************************)
NoTx == [now |-> 0, created |-> {}, locked |-> {}, todo |-> {},
         bal |-> [u \in Users |-> 0], held |-> 0]

Tx == [now : Nat, created : SUBSET Users, locked : SUBSET Users,
       todo : SUBSET Users, bal : [Users -> Int], held : Nat]

(* Statements between BEGIN and COMMIT; the POST /accounts insert is a
   transaction of one statement. *)
TxLabels == {"exists", "insert", "lock", "holds", "insert_transfer", "settle",
             "mark_reversed", "reverse", "commit", "account_inserting"}

Labels == TxLabels \cup
  {"idle", "lookup", "load", "begin", "resolve", "account_exists",
   "account_insert", "account_read_created", "account_read_existing",
   "balances", "read", "done"}

(* The client of r still waits and r's next statement is l. *)
At(r, l) == pc[r] = l /\ r \notin gone

(* The pool has a connection left for one more statement or transaction.
   A connection whose request was cut off is closed and replaced. *)
HeldWhileResolving ==
  Cardinality({q \in Requests : pc[q] \in TxLabels \cup {"resolve"} /\ q \notin gone}) < MaxConns
NeverReleased ==
  Cardinality({q \in Requests : pc[q] \in TxLabels \cup {"done"} /\ q \notin gone}) < MaxConns
PoolFree ==
  Cardinality({q \in Requests : pc[q] \in TxLabels /\ q \notin gone}) < MaxConns

Goto(r, l)      == pc' = [pc EXCEPT ![r] = l] /\ UNCHANGED resp
Answer(r, rep)  == /\ pc' = [pc EXCEPT ![r] = "done"]
                   /\ resp' = [resp EXCEPT ![r] = rep]
Set(r, t)       == tx' = [tx EXCEPT ![r] = t]

(* WithTx: every error, and every early return, rolls the transaction back:
   its rows vanish and its locks are free. *)
Rollback(r) == Set(r, NoTx)

(* pool.Begin; now() is fixed here for the whole transaction. *)
BeginTx(r, ids) == Set(r, [NoTx EXCEPT !.now = clock, !.todo = ids])

(***************************************************************************)
(* The statements of repository/tx.go                                      *)
(***************************************************************************)
WalletExists(r, u) == u \in DOMAIN wallets \cup tx[r].created

(* Another transaction holds an uncommitted wallets row for u. *)
InsertBlocked(r, u) == \E q \in Requests \ {r} : u \in tx[q].created

(* Another transaction holds the lock of u's wallets row. *)
NoLockWait(r, u) == FALSE
RowLocked(r, u) == \E q \in Requests \ {r} : u \in tx[q].locked

(* The loops of Execute and ClaimBack visit the ids in ascending order. *)
CallerFirst(r) == IF req[r].caller \in tx[r].todo THEN req[r].caller
                  ELSE CHOOSE u \in tx[r].todo : TRUE
NextId(r) == CHOOSE u \in tx[r].todo : \A v \in tx[r].todo : u <= v

(* The balance the transaction reads under its own lock. *)
LockedBalance(r, u) == IF u \in DOMAIN wallets THEN wallets[u] ELSE Seed

(* created_at > now() - window *)
Active(row, now, window) == row.createdAt > now - window

(* WHERE recipient_id = u AND status = 'completed' AND ... *)
ActiveHolds(rows, u, now, window) ==
  {t \in DOMAIN rows : /\ rows[t].recipient = u /\ rows[t].status = "completed"
                       /\ Active(rows[t], now, window)}
amountOf(rows) == [t \in DOMAIN rows |-> rows[t].amount]

SumActiveHolds(u, now, window) ==
  Total(amountOf(transfers), ActiveHolds(transfers, u, now, window))

(* (sender_id, idempotency_key) is in the unique index. *)
RowsOfKey(u, k) ==
  {t \in DOMAIN transfers : transfers[t].sender = u /\ transfers[t].key = k}

(* Go and BIGINT arithmetic: int64 sums wrap around. *)
Wrap(x) == IF x > MaxInt64 THEN x - 2 * (MaxInt64 + 1)
           ELSE IF x < -MaxInt64 - 1 THEN x + 2 * (MaxInt64 + 1)
           ELSE x

(* CHECK (balance_paise >= 0) on the wallets table. *)
NoCheck(x) == TRUE
CheckBalance(x) == x >= 0
=============================================================================
