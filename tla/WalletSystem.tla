---------------------------- MODULE WalletSystem ----------------------------
(***************************************************************************)
(* The whole request path: handlers, services and database, any number of  *)
(* requests at a time, the passing of time, and the failures a request can *)
(* meet.                                                                   *)
(*                                                                         *)
(* Failures.  A request is cut off by its 10 s deadline, by a client that  *)
(* hangs up, by a lost connection or by the death of the server: the       *)
(* client gets a 503 (or nothing), and the transaction stays open in the   *)
(* database, with its locks, until PostgreSQL notices (Reap).  A COMMIT    *)
(* that was already on its way may still take effect (ReapCommit).         *)
(***************************************************************************)
EXTENDS TransferService, WalletService

Entry(op) == CASE op = "transfer" -> "lookup" [] op = "claim" -> "load"
               [] op = "read" -> "read" [] op = "account" -> "account_exists"
               [] op = "balance" -> "balances"

Init ==
  /\ clock = 0 /\ wallets = [u \in {} |-> 0] /\ transfers = [t \in {} |-> 0]
  /\ late = {} /\ gone = {}
  /\ pc = [r \in Requests |-> "idle"] /\ req = [r \in Requests |-> Null]
  /\ tx = [r \in Requests |-> NoTx]
  /\ resp = [r \in Requests |-> Rejection("none")]

(* An authenticated request reaches its handler; Execute rejects a malformed
   transfer before it touches the database. *)
Arrive(r, c) ==
  /\ At(r, "idle")
  /\ req' = [req EXCEPT ![r] = c]
  /\ IF c.op = "transfer" /\ ~ValidTransfer(c)
     THEN Answer(r, Rejection("validation_error"))
     ELSE Goto(r, Entry(c.op))
  /\ UNCHANGED <<tables, tx, gone>>

Tick == /\ clock < MaxClock
        /\ clock' = clock + 1
        /\ UNCHANGED <<wallets, transfers, late, pc, req, tx, resp, gone>>

(* The request is cut off.  Outside a transaction that is the end of it. *)
Abandon(r) ==
  /\ pc[r] \notin {"idle", "done"} /\ r \notin gone
  /\ resp' = [resp EXCEPT ![r] = Unavailable]
  /\ IF pc[r] \in TxLabels
     THEN gone' = gone \cup {r} /\ UNCHANGED pc
     ELSE pc' = [pc EXCEPT ![r] = "done"] /\ UNCHANGED gone
  /\ UNCHANGED <<tables, req, tx>>

End(r) == /\ pc' = [pc EXCEPT ![r] = "done"]
          /\ gone' = gone \ {r}
          /\ UNCHANGED <<req, resp>>

(* PostgreSQL aborts the transaction of a request that was cut off. *)
Reap(r) == r \in gone /\ Rollback(r) /\ End(r) /\ UNCHANGED tables

(* Its COMMIT had been sent: the transaction commits although the client
   was told 503. *)
ReapCommit(r) == r \in gone /\ pc[r] = "commit" /\ CommitTx(r) /\ End(r)

(* The same for the autocommitted INSERT of POST /accounts. *)
ReapInsert(r) ==
  /\ r \in gone /\ pc[r] = "account_inserting"
  /\ ~InsertBlocked(r, req[r].caller)
  /\ OpenWallet(req[r].caller)
  /\ End(r)
  /\ UNCHANGED <<clock, transfers, late, tx>>

Step(r) == TransferStep(r) \/ WalletStep(r)

(* No request is left; the model stops here, the service waits for more. *)
Idle == (\A r \in Requests : pc[r] = "done") /\ UNCHANGED vars

QuietNext == \/ \E r \in Requests : Step(r) \/ \E c \in Calls : Arrive(r, c)
             \/ Tick \/ Idle

Faults == \E r \in Requests :
            Abandon(r) \/ Reap(r) \/ ReapCommit(r) \/ ReapInsert(r)

Next == QuietNext \/ Faults

(* Without failures: no request is cut off. *)
QuietSpec == Init /\ [][QuietNext]_vars

Spec == Init /\ [][Next]_vars

(* The server and the database execute a statement that can run, and
   PostgreSQL gets rid of abandoned transactions.  Nothing forces clients to
   call, requests to be cut off, or time to pass. *)
FairSpec == Spec /\ \A r \in Requests : WF_vars(Step(r)) /\ WF_vars(Reap(r))

(***************************************************************************)
(* Type correctness                                                        *)
(***************************************************************************)
TypeOK ==
  /\ clock \in 0 .. MaxClock
  /\ DOMAIN wallets \in SUBSET Users /\ wallets \in [DOMAIN wallets -> 0 .. MaxInt64]
  /\ DOMAIN transfers \in SUBSET Requests
  /\ transfers \in [DOMAIN transfers -> Transfer]
  /\ late \in SUBSET DOMAIN transfers
  /\ pc \in [Requests -> Labels]
  /\ req \in [Requests -> Calls \cup {Null}]
  /\ tx \in [Requests -> Tx]
  /\ resp \in [Requests -> Response]
  /\ gone \in SUBSET Requests

(***************************************************************************)
(* Safety                                                                  *)
(***************************************************************************)

(* The committed tables, as the abstract ledger sees them. *)
LedgerRows == [t \in DOMAIN transfers |->
                 [sender |-> transfers[t].sender, recipient |-> transfers[t].recipient,
                  amount |-> transfers[t].amount, key |-> transfers[t].key,
                  status |-> transfers[t].status]]

L == INSTANCE Ledger WITH Ids <- Requests, Amounts <- 1 .. MaxInt64,
                          transfers <- LedgerRows

(* The service implements the ledger: whatever the interleaving, the locks,
   the retries and the failures, every step of the committed tables is one
   whole wallet opening, one whole transfer of money that is there under a
   fresh key, or one first reversal (Execute and ClaimBack, WithTx). *)
LedgerSpec == L!Spec

(* Bookkeeping: every committed balance is the seed plus
   the completed transfers in, minus those out. *)
BalancesReconcile == L!Reconciled

(* What late reversals took out of u's wallet. *)
LateReversals(u) == {t \in late : transfers[t].recipient = u}

(* The money that senders may claim from u under the shortest window is in u's
   wallet, up to the reversals committed after that window: claims begun inside
   of it, or served by an instance with a longer one.  These are the only ways
   in which the hold of SumActiveHolds can be undercut. *)
HoldsCoveredButLate ==
  \A u \in DOMAIN wallets :
    wallets[u] + Total(amountOf(transfers), LateReversals(u)) >= SumActiveHolds(u, clock, Window)

(* "The reversal can never fail for lack of funds" (ClaimBack): once the row
   is marked reversed, the recipient's UPDATE passes the CHECK. *)
ClaimAlwaysFunded ==
  \A r \in Requests : pc[r] = "reverse" => CheckBalance(recipientAfter(r))

SameKey(q, r) ==
  /\ req[q] # Null /\ req[r] # Null /\ IsTransfer(q) /\ IsTransfer(r)
  /\ senderID(q) = senderID(r) /\ req[q].key = req[r].key

TransferReplied(r) == resp[r].kind \in {"transfer_applied", "transfer_replayed"}

(* Retries of a transfer agree: two successful replies for one sender and one
   key report the same transfer and the same balance, at most one of them says
   it was applied, and that transfer is the one in the table, with the body
   the client sent (resolveExistingKey). *)
RetriesAgree ==
  \A r \in Requests : TransferReplied(r) =>
    /\ resp[r].id \in DOMAIN transfers
    /\ LET row == transfers[resp[r].id] IN
         /\ row.sender = senderID(r) /\ row.key = req[r].key
         /\ row.recipient = req[r].to /\ row.amount = req[r].amount
    /\ \A q \in Requests \ {r} : (TransferReplied(q) /\ SameKey(q, r)) =>
         /\ resp[q].id = resp[r].id /\ resp[q].balance = resp[r].balance
         /\ "transfer_replayed" \in {resp[q].kind, resp[r].kind}

ClaimReplied(r) == resp[r].kind \in {"claim_applied", "claim_replayed"}

(* The same for claims: all successful replies for one transfer report one
   reversal, at one time, with one balance, only one applied it, and whoever
   reads the transfer is told either nothing of it or the same time. *)
ClaimsAgree ==
  \A r \in Requests : ClaimReplied(r) =>
    /\ tr(r).status = "reversed" /\ tr(r).sender = req[r].caller
    /\ \A q \in Requests \ {r} : (ClaimReplied(q) /\ req[q].id = req[r].id) =>
         /\ resp[q].balance = resp[r].balance /\ resp[q].extra = resp[r].extra
         /\ "claim_replayed" \in {resp[q].kind, resp[r].kind}
    /\ \A q \in Requests : (resp[q].kind = "details" /\ resp[q].id = req[r].id) =>
         resp[q].extra \in {Null, resp[r].extra}

(* Of the requests that get or create one user's wallet, at most one is told
   that it created it. *)
CreatedOnce ==
  \A q, r \in Requests :
    (/\ resp[q].kind = "wallet_created" /\ resp[r].kind = "wallet_created"
     /\ req[q].caller = req[r].caller) => q = r

(* Reversed transfers, and those that a claim answered 503 asked for. *)
Reversals == {t \in DOMAIN transfers : transfers[t].status = "reversed"}
ReversalsUntold ==
  {t \in Reversals : \E q \in Requests : /\ req[q] # Null /\ req[q].op = "claim"
                                        /\ req[q].id = t /\ resp[q] = Unavailable}

(* How far the counters can be from the ledger: "Transfers that moved money"
   misses exactly the transfers whose client was told 503 while the COMMIT was
   on its way, whatever their retries are told; "Transfers reversed at the
   sender's request" counts none twice and misses only such claims. *)
CountersExplained ==
  /\ Cardinality(DOMAIN transfers) =
       TransfersApplied + Cardinality({t \in DOMAIN transfers : resp[t] = Unavailable})
  /\ ClaimsApplied <= Cardinality(Reversals)
  /\ Cardinality(Reversals) <= ClaimsApplied + Cardinality(ReversalsUntold)

(***************************************************************************)
(* Waiting                                                                 *)
(***************************************************************************)

(* The transactions that the statement of r waits for. *)
WaitsFor(r) ==
  {q \in Requests \ {r} :
     \/ pc[r] = "insert" /\ NextId(r) \in tx[q].created
     \/ pc[r] = "account_inserting" /\ req[r].caller \in tx[q].created
     \/ pc[r] = "lock" /\ NextId(r) \in tx[q].locked}

(* No set of transactions each waiting for another of the set: concurrent
   transfers and claims in opposite directions, wallet creations included,
   cannot deadlock (the ascending order of ids). *)
NoDeadlock ==
  \A S \in (SUBSET Requests) \ {{}} : \E r \in S : WaitsFor(r) \cap S = {}

(* r's next statement can be executed: its rows are free (LocksSerialize: a
   statement after the locks never waits), and it has a connection or there is
   one in the pool; or PostgreSQL may end it. *)
Busy(r)  == pc[r] \notin {"idle", "done"}
CanGo(r) == r \in gone \/ (WaitsFor(r) = {} /\ (pc[r] \in TxLabels \/ PoolFree))

(* While anybody is under way, somebody can go on without the help of the
   deadline: waits for rows by transactions that keep their connection, and
   waits for a connection between two transactions (resolveExistingKey,
   resolveUnappliedClaim, the SELECT after an INSERT), never close a circle,
   however small the pool. *)
NoStandstill ==
  (\E r \in Requests : Busy(r)) => \E r \in Requests : Busy(r) /\ CanGo(r)

(* The wallet locks serialize everything: no statement after them ever meets
   an uncommitted transfer with its key or an uncommitted reversal of its
   transfer, so the unique index and the conditional UPDATE never wait. *)
LocksSerialize ==
  \A r \in Requests : /\ pc[r] = "insert_transfer" => ~KeyPending(r)
                      /\ pc[r] = "mark_reversed" => ~ReversalPending(r)

(***************************************************************************)
(* Steps                                                                   *)
(***************************************************************************)

(* "Insufficient funds" is never the answer for a key that has already moved
   money: the key is claimed before the funds are checked. *)
RejectionMeansUnused ==
  [][\A r \in Requests :
       (resp'[r].kind = "insufficient_funds" /\ resp[r].kind # "insufficient_funds")
         => RowsOfKey(senderID(r), req[r].key) = {}]_vars

(* The payer has the money, and it does not fit the payee's BIGINT. *)
CreditTooLarge(r) ==
  LET payer == IF IsTransfer(r) THEN senderID(r) ELSE recipientID(r)
      payee == IF IsTransfer(r) THEN recipientID(r) ELSE senderID(r)
  IN  /\ pc[r] \in {"settle", "reverse"}
      /\ amountPaise(r) <= tx[r].bal[payer]
      /\ tx[r].bal[payee] + amountPaise(r) > MaxInt64

(* The shortest window has closed on something r still counts with: on the
   transfer it is reversing, since MarkReversed let it pass, or on a hold that
   its statement sums up, as of BEGIN or under a longer window. *)
WindowClosed(r) ==
  \/ pc[r] = "reverse" /\ ~Active(tr(r), clock, Window)
  \/ /\ pc[r] \in {"holds", "balances"}
     /\ \E w \in Windows :
          \E t \in ActiveHolds(transfers, req[r].caller,
                              IF pc[r] = "holds" THEN tx[r].now ELSE clock, w) :
             ~Active(transfers[t], clock, Window)

(* An earlier late reversal took money that was held. *)
HoldsUndercut(r) ==
  \/ pc[r] = "reverse" /\ LateReversals(recipientID(r)) # {}
  \/ pc[r] \in {"holds", "balances"} /\ LateReversals(req[r].caller) # {}

(* Why a 503 that nothing from outside has caused is given: a statement of
   the request itself ends it for an amount past int64, or for a window that
   closed too early, on itself or on a late claim before.  In particular no
   wallet it locks or reads is missing, no key it was refused for is free, and
   no claim in time lacks the money (writeDomainError's default case). *)
UnavailableExplained ==
  [][\A r \in Requests :
       (/\ resp'[r] # resp[r] /\ resp'[r].kind = "service_unavailable"
        /\ Step(r))
         => CreditTooLarge(r) \/ WindowClosed(r) \/ HoldsUndercut(r)]_vars

(* What ClaimBack writes into the row of a transfer; all else is fixed by Execute. *)
ReversalFields == {"status", "reversedAt", "senderBalanceAfterReversal"}

(* A reply is final, and so is a reversed transfer; a committed transfer never
   loses its row, and all that ever happens to it is its one reversal, which
   leaves sender, recipient, amount, key, body, time and the sender's balance
   after the transfer as they are. *)
HistoryIsFinal ==
  [][/\ \A t \in DOMAIN transfers :
          /\ t \in DOMAIN transfers'
          /\ \/ transfers'[t] = transfers[t]
             \/ /\ transfers[t].status = "completed" /\ transfers'[t].status = "reversed"
                /\ \A field \in DOMAIN transfers[t] \ ReversalFields :
                     transfers'[t][field] = transfers[t][field]
     /\ \A r \in Requests : resp[r].kind # "none" => resp'[r] = resp[r]]_vars

(* A bound on the statements that r has still to execute. *)
Left(r) ==
  LET n == Cardinality(tx[r].todo) IN
  CASE pc[r] = "done" -> 0
    [] pc[r] \in {"resolve", "read", "balances"} -> 1
    [] pc[r] \in {"commit", "account_read_created", "account_read_existing"} -> 2
    [] pc[r] \in {"settle", "reverse", "account_inserting"} -> 3
    [] pc[r] \in {"insert_transfer", "mark_reversed", "account_insert"} -> 4
    [] pc[r] \in {"holds", "account_exists"} -> 5
    [] pc[r] = "lock" -> 5 + n
    [] pc[r] = "insert" -> 7 + 2 * n
    [] pc[r] = "exists" -> 8 + 2 * n
    [] pc[r] = "begin" -> 13
    [] pc[r] \in {"lookup", "load"} -> 14
    [] OTHER -> 15

(* Nobody goes round in circles: whatever moves a request, a key that is
   taken, a claim that is too late and a failure included, leaves it strictly
   less to do, and what other requests do never gives it more. *)
OnlyForward ==
  [][\A r \in Requests : (pc'[r] # pc[r] \/ tx'[r] # tx[r]) => Left(r)' < Left(r)]_vars

(***************************************************************************)
(* Liveness                                                                *)
(***************************************************************************)

(* Every request is answered and its transaction ends, without the help of
   the deadline, in spite of waits for locks, for uncommitted rows and for
   connections, and of other requests being cut off. *)
EveryRequestEnds ==
  \A r \in Requests : pc[r] # "idle" ~> pc[r] = "done"
=============================================================================
