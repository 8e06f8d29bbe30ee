-------------------------- MODULE TransferService --------------------------
(***************************************************************************)
(* internal/service/transfer.go: Execute, ClaimBack and GetByID, one       *)
(* action per database statement.  Between two statements of one request   *)
(* any other request may run.                                              *)
(*                                                                         *)
(* The uncommitted writes of a transaction are a function of its call and  *)
(* of the balances it read (senderAfter, recipientAfter), so they are not  *)
(* stored; Commit makes them visible all at once.                          *)
(***************************************************************************)
EXTENDS Store

IsTransfer(r) == req[r].op = "transfer"

(* ClaimBack's local tr; the fields it uses never change once committed. *)
tr(r) == transfers[req[r].id]

(* The caller is the sender: of the new transfer, or of the one that
   ClaimBack has already checked to be the caller's own. *)
senderID(r)    == req[r].caller
recipientID(r) == IF IsTransfer(r) THEN req[r].to ELSE tr(r).recipient
amountPaise(r) == IF IsTransfer(r) THEN req[r].amount ELSE tr(r).amount
ids(r)         == {senderID(r), recipientID(r)}

(* newBalance of Execute, senderAfter of ClaimBack. *)
senderAfter(r) ==
  IF IsTransfer(r) THEN tx[r].bal[senderID(r)] - amountPaise(r)
                   ELSE Wrap(tx[r].bal[senderID(r)] + amountPaise(r))
recipientAfter(r) ==
  IF IsTransfer(r) THEN Wrap(tx[r].bal[recipientID(r)] + amountPaise(r))
                   ELSE tx[r].bal[recipientID(r)] - amountPaise(r)

(***************************************************************************)
(* Execute: validation, recipient lookup, BEGIN                            *)
(***************************************************************************)
ValidTransfer(c) == c.amount > 0 /\ c.key # BadKey

Lookup(r) ==
  /\ At(r, "lookup") /\ PoolFree
  /\ CASE req[r].to = Null          -> Answer(r, Rejection("unknown_recipient"))
       [] req[r].to = req[r].caller -> Answer(r, Rejection("self_transfer"))
       [] OTHER                     -> Goto(r, "begin")
  /\ UNCHANGED <<tables, req, tx, gone>>

Begin(r) ==
  /\ At(r, "begin") /\ PoolFree
  /\ BeginTx(r, ids(r))
  /\ Goto(r, IF IsTransfer(r) THEN "exists" ELSE "lock")
  /\ UNCHANGED <<tables, req, gone>>

(***************************************************************************)
(* Get-or-create both wallets, then lock both                              *)
(***************************************************************************)

(* The loop at label l is done with id u; after the last id it goes on at
   label next, whose own loop visits rest. *)
Visited(r, t, u, l, next, rest) ==
  IF t.todo = {u}
  THEN Set(r, [t EXCEPT !.todo = rest]) /\ Goto(r, next)
  ELSE Set(r, [t EXCEPT !.todo = @ \ {u}]) /\ Goto(r, l)

CheckWallet(r) ==
  LET u == NextId(r) IN
  /\ At(r, "exists")
  /\ IF WalletExists(r, u)
     THEN Visited(r, tx[r], u, "exists", "lock", ids(r))
     ELSE Goto(r, "insert") /\ UNCHANGED tx
  /\ UNCHANGED <<tables, req, gone>>

(* ON CONFLICT DO NOTHING: a request that lost the race inserts nothing. *)
InsertWallet(r) ==
  LET u == NextId(r) IN
  /\ At(r, "insert")
  /\ ~InsertBlocked(r, u)
  /\ Visited(r, [tx[r] EXCEPT !.created = @ \cup ({u} \ DOMAIN wallets)], u,
             "exists", "lock", ids(r))
  /\ UNCHANGED <<tables, req, gone>>

LockWallet(r) ==
  LET u == NextId(r) IN
  /\ At(r, "lock")
  /\ ~RowLocked(r, u)
  /\ IF WalletExists(r, u)
     THEN Visited(r, [tx[r] EXCEPT !.locked = @ \cup {u},
                                   !.bal[u] = LockedBalance(r, u)], u,
                  "lock", IF IsTransfer(r) THEN "holds" ELSE "mark_reversed", {})
     ELSE Rollback(r) /\ Answer(r, Unavailable)
  /\ UNCHANGED <<tables, req, gone>>

(***************************************************************************)
(* Execute: holds, idempotency key, funds, money                           *)
(***************************************************************************)

(* Rejecting an overdraft before the key is looked at. *)
FundsBeforeKey(r) ==
  \E window \in Windows :
    LET held == SumActiveHolds(senderID(r), tx[r].now, window) IN
    /\ At(r, "holds")
    /\ IF senderAfter(r) >= held
       THEN Set(r, [tx[r] EXCEPT !.held = held]) /\ Goto(r, "insert_transfer")
       ELSE Rollback(r) /\ Answer(r, Rejection("insufficient_funds"))
    /\ UNCHANGED <<tables, req, gone>>

(* The window is that of the instance that serves r.  SUM is numeric; a sum
   that does not fit the Go int64 is a scan error. *)
SumHolds(r) ==
  \E window \in Windows :
    LET held == SumActiveHolds(senderID(r), tx[r].now, window) IN
    /\ At(r, "holds")
    /\ IF held <= MaxInt64
       THEN Set(r, [tx[r] EXCEPT !.held = held]) /\ Goto(r, "insert_transfer")
       ELSE Rollback(r) /\ Answer(r, Unavailable)
    /\ UNCHANGED <<tables, req, gone>>

(* Another open transaction has inserted a row with r's sender and key. *)
KeyPending(r) ==
  \E q \in Requests \ {r} :
    /\ pc[q] \in {"settle", "commit"} /\ IsTransfer(q)
    /\ senderID(q) = senderID(r) /\ req[q].key = req[r].key

KeyNeverTaken(r) == FALSE
KeyTaken(r) == RowsOfKey(senderID(r), req[r].key) # {}

RetryTakenKey(r) ==
  /\ At(r, "insert_transfer")
  /\ ~KeyPending(r)
  /\ IF KeyTaken(r) THEN Rollback(r) /\ Goto(r, "begin")
                    ELSE Goto(r, "settle") /\ UNCHANGED tx
  /\ UNCHANGED <<tables, req, gone>>
InsertTransfer(r) ==
  /\ At(r, "insert_transfer")
  /\ ~KeyPending(r)
  /\ IF KeyTaken(r) THEN Rollback(r) /\ Goto(r, "resolve")
                    ELSE Goto(r, "settle") /\ UNCHANGED tx
  /\ UNCHANGED <<tables, req, gone>>

(* The funds check and the two UPDATEs.  The rows they write are locked, so
   nothing can happen between them; each is subject to the CHECK. *)
IgnoresHolds(r) == senderAfter(r) < 0
NeverInsufficient(r) == FALSE
Insufficient(r) == senderAfter(r) < tx[r].held

Settle(r) ==
  /\ At(r, "settle")
  /\ CASE Insufficient(r) ->
            Rollback(r) /\ Answer(r, Rejection("insufficient_funds"))
       [] ~Insufficient(r) /\ ~(/\ CheckBalance(senderAfter(r))
                                /\ CheckBalance(recipientAfter(r))) ->
            Rollback(r) /\ Answer(r, Unavailable)
       [] OTHER -> Goto(r, "commit") /\ UNCHANGED tx
  /\ UNCHANGED <<tables, req, gone>>

(* After the rollback, in a statement of its own. *)
SameBody(row, r) == row.bodyHash = hashBody(req[r].to, req[r].amount)

resolveExistingKey(r) ==
  LET found == RowsOfKey(senderID(r), req[r].key)
      t     == CHOOSE t \in found : TRUE
  IN  /\ At(r, "resolve") /\ IsTransfer(r) /\ PoolFree
      /\ Answer(r, IF found = {} THEN Unavailable
                   ELSE IF ~SameBody(transfers[t], r)
                   THEN Rejection("idempotency_conflict")
                   ELSE Reply("transfer_replayed", t,
                              transfers[t].senderBalanceAfter, Null))
      /\ UNCHANGED <<tables, req, tx, gone>>

(***************************************************************************)
(* ClaimBack                                                               *)
(***************************************************************************)
replayClaim(t) == Reply("claim_replayed", t,
                        transfers[t].senderBalanceAfterReversal,
                        transfers[t].reversedAt)

LoadTransfer(r) ==
  LET t == req[r].id IN
  /\ At(r, "load") /\ PoolFree
  /\ IF t \notin DOMAIN transfers \/ tr(r).sender # req[r].caller
     THEN Answer(r, Rejection("not_found"))
     ELSE IF tr(r).status = "reversed"
     THEN Answer(r, replayClaim(t))
     ELSE Goto(r, "begin")
  /\ UNCHANGED <<tables, req, tx, gone>>

(* Another open transaction has updated the transfers row of r's claim. *)
ReversalPending(r) ==
  \E q \in Requests \ {r} :
    /\ pc[q] \in {"reverse", "commit"} /\ ~IsTransfer(q)
    /\ req[q].id = req[r].id

(* WHERE status = 'completed' AND created_at > now() - window *)
ReversibleWhileActive(row, now, window) == Active(row, now, window)
Reversible(row, now, window) == row.status = "completed" /\ Active(row, now, window)

MarkReversed(r) ==
  /\ At(r, "mark_reversed")
  /\ ~ReversalPending(r)
  /\ \E window \in Windows :
       IF Reversible(tr(r), tx[r].now, window)
       THEN Goto(r, "reverse") /\ UNCHANGED tx
       ELSE Rollback(r) /\ Goto(r, "resolve")
  /\ UNCHANGED <<tables, req, gone>>

(* The two UPDATEs of ClaimBack. *)
Reverse(r) ==
  /\ At(r, "reverse")
  /\ IF CheckBalance(recipientAfter(r)) /\ CheckBalance(senderAfter(r))
     THEN Goto(r, "commit") /\ UNCHANGED tx
     ELSE Rollback(r) /\ Answer(r, Unavailable)
  /\ UNCHANGED <<tables, req, gone>>

resolveUnappliedClaim(r) ==
  /\ At(r, "resolve") /\ ~IsTransfer(r) /\ PoolFree
  /\ Answer(r, IF tr(r).status = "reversed" THEN replayClaim(req[r].id)
               ELSE Rejection("claim_window_expired"))
  /\ UNCHANGED <<tables, req, tx, gone>>

(***************************************************************************)
(* COMMIT                                                                  *)
(***************************************************************************)
NewTransfer(r) ==
  [sender |-> senderID(r), recipient |-> recipientID(r),
   amount |-> amountPaise(r), key |-> req[r].key,
   bodyHash |-> hashBody(req[r].to, req[r].amount),
   senderBalanceAfter |-> senderAfter(r), status |-> "completed",
   createdAt |-> tx[r].now, reversedAt |-> Null,
   senderBalanceAfterReversal |-> Null]

Reversed(r) ==
  [tr(r) EXCEPT !.status = "reversed", !.reversedAt = tx[r].now,
                !.senderBalanceAfterReversal = senderAfter(r)]

(* The writes of r's transaction become visible. *)
CommitTx(r) ==
  /\ wallets' = [u \in DOMAIN wallets \cup tx[r].created |->
                   IF u = senderID(r) THEN senderAfter(r)
                   ELSE IF u = recipientID(r) THEN recipientAfter(r)
                   ELSE wallets[u]]
  /\ IF IsTransfer(r)
     THEN /\ transfers' = [t \in DOMAIN transfers \cup {r} |->
                             IF t = r THEN NewTransfer(r) ELSE transfers[t]]
          /\ UNCHANGED late
     ELSE /\ transfers' = [transfers EXCEPT ![req[r].id] = Reversed(r)]
          /\ late' = IF Active(tr(r), clock, Window) THEN late
                     ELSE late \cup {req[r].id}
  /\ Set(r, NoTx)
  /\ UNCHANGED clock

Commit(r) ==
  /\ At(r, "commit")
  /\ CommitTx(r)
  /\ Answer(r, IF IsTransfer(r)
               THEN Reply("transfer_applied", r, senderAfter(r), Null)
               ELSE Reply("claim_applied", req[r].id, senderAfter(r), tx[r].now))
  /\ UNCHANGED <<req, gone>>

(* The counters transfers_applied_total and claims_applied_total go up when
   WithTx has returned without an error, with the reply, over all instances
   and restarts. *)
ReplaysCounted ==
  Cardinality({r \in Requests : resp[r].kind \in {"transfer_applied", "transfer_replayed"}})
TransfersApplied == Cardinality({r \in Requests : resp[r].kind = "transfer_applied"})
ClaimsApplied    == Cardinality({r \in Requests : resp[r].kind = "claim_applied"})

(***************************************************************************)
(* GetByID: the sender and the recipient see the transfer, nobody else.    *)
(***************************************************************************)
ReadTransfer(r) ==
  LET t == req[r].id IN
  /\ At(r, "read") /\ PoolFree
  /\ Answer(r, IF /\ t \in DOMAIN transfers
                  /\ req[r].caller \in {tr(r).sender, tr(r).recipient}
               THEN Reply("details", t, 0, transfers[t].reversedAt)
               ELSE Rejection("not_found"))
  /\ UNCHANGED <<tables, req, tx, gone>>

TransferStep(r) ==
  \/ Lookup(r) \/ Begin(r) \/ CheckWallet(r) \/ InsertWallet(r) \/ LockWallet(r)
  \/ SumHolds(r) \/ InsertTransfer(r) \/ Settle(r) \/ resolveExistingKey(r)
  \/ LoadTransfer(r) \/ MarkReversed(r) \/ Reverse(r) \/ resolveUnappliedClaim(r)
  \/ Commit(r) \/ ReadTransfer(r)
=============================================================================
