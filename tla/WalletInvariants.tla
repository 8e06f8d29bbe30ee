-------------------------- MODULE WalletInvariants --------------------------
(***************************************************************************)
(* The inductive invariant of WalletSystem: what is true of a request at   *)
(* each of its statements, and how the row locks keep the balances that a  *)
(* transaction has read equal to the committed ones until it commits.      *)
(***************************************************************************)
EXTENDS WalletSystem

(* A transaction of Execute or ClaimBack is open. *)
OpenLabels == TxLabels \ {"account_inserting"}

(* Both wallet rows are locked. *)
LockedLabels == {"holds", "insert_transfer", "settle", "mark_reversed", "reverse",
                 "commit"}

(* A request is at a statement of the operation it called. *)
OpAt(r) ==
  /\ pc[r] = "idle" \/ req[r] \in Calls
  /\ pc[r] \in {"lookup", "exists", "insert", "holds", "insert_transfer", "settle"}
       => req[r].op = "transfer"
  /\ pc[r] \in {"load", "mark_reversed", "reverse"} => req[r].op = "claim"
  /\ pc[r] \in {"begin", "lock", "commit", "resolve"}
       => req[r].op \in {"transfer", "claim"}
  /\ pc[r] = "read" => req[r].op = "read"
  /\ pc[r] \in {"account_exists", "account_insert", "account_inserting",
                "account_read_created", "account_read_existing"}
       => req[r].op = "account"
  /\ pc[r] = "balances" => req[r].op = "balance"

(* A transfer past its validation, and past its lookup. *)
TransferAt(r) ==
  (pc[r] \notin {"idle", "done"} /\ req[r].op = "transfer") =>
    /\ ValidTransfer(req[r])
    /\ pc[r] # "lookup" => req[r].to \in Users \ {req[r].caller}

(* A claim past its first read. *)
ClaimAt(r) ==
  (pc[r] \notin {"idle", "done", "load"} /\ req[r].op = "claim") =>
    req[r].id \in DOMAIN transfers /\ tr(r).sender = req[r].caller

(* A row is committed once, by the request it is named after, its two wallets
   exist, and a reversed row has what replayClaim dereferences. *)
RowsOK ==
  /\ \A t \in DOMAIN transfers :
       /\ pc[t] = "done"
       /\ transfers[t].sender # transfers[t].recipient
       /\ {transfers[t].sender, transfers[t].recipient} \subseteq DOMAIN wallets
       /\ transfers[t].status = "reversed" =>
            transfers[t].reversedAt \in Nat /\ transfers[t].senderBalanceAfterReversal \in Int
  /\ \A t \in late : transfers[t].status = "reversed"

(* The two loops over the ids. *)
LoopsAt(r) ==
  /\ pc[r] \in {"exists", "insert", "lock"} => tx[r].todo # {} /\ tx[r].todo \subseteq ids(r)
  /\ pc[r] \in {"exists", "insert"} => 
       tx[r].locked = {} /\ ids(r) \ tx[r].todo \subseteq DOMAIN wallets \cup tx[r].created
  /\ pc[r] = "lock" => tx[r].locked = ids(r) \ tx[r].todo
  /\ pc[r] \in LockedLabels => tx[r].locked = ids(r)
  /\ pc[r] \in LockedLabels \cup {"lock"} => ids(r) \subseteq DOMAIN wallets \cup tx[r].created
  /\ pc[r] \in OpenLabels => tx[r].created \subseteq ids(r)
  /\ pc[r] \notin OpenLabels => tx[r].locked = {} /\ tx[r].created = {}

(* A row has one locker, a new row one creator, and new rows are new. *)
Exclusive ==
  /\ \A r \in Requests : tx[r].created \cap DOMAIN wallets = {}
  /\ \A q, r \in Requests : q # r =>
       tx[q].locked \cap tx[r].locked = {} /\ tx[q].created \cap tx[r].created = {}

(* What a transaction has read under its locks is still what is committed:
   no update is lost. *)
FreshAt(r) == \A u \in tx[r].locked : tx[r].bal[u] = LockedBalance(r, u)

(* The decisions taken under the locks still hold when they are used. *)
DecidedAt(r) ==
  /\ tx[r].now <= clock
  /\ (pc[r] \in {"settle", "commit"} /\ req[r].op = "transfer") =>
       RowsOfKey(senderID(r), req[r].key) = {}
  /\ (pc[r] \in {"insert_transfer", "settle", "commit"} /\ req[r].op = "transfer") =>
       tx[r].held >= SumActiveHolds(senderID(r), clock, Window)
  /\ (pc[r] \in {"reverse", "commit"} /\ req[r].op = "claim") => tr(r).status = "completed"
  /\ pc[r] = "commit" => CheckBalance(senderAfter(r)) /\ CheckBalance(recipientAfter(r))
  /\ (pc[r] = "commit" /\ req[r].op = "transfer") => senderAfter(r) >= tx[r].held

AtOK(r) == /\ OpAt(r) /\ TransferAt(r) /\ ClaimAt(r)
           /\ LoopsAt(r) /\ FreshAt(r) /\ DecidedAt(r)

(* Only a transaction can be left behind. *)
GoneOK == \A r \in gone : pc[r] \in TxLabels

IInv == TypeOK /\ RowsOK /\ Exclusive /\ GoneOK /\ \A r \in Requests : AtOK(r)

(***************************************************************************)
(* What "a claim can always be honored" and "left alone" take for granted  *)
(***************************************************************************)

(* The seeds of all users together are an int64. *)
SeedsFit == Seed * Cardinality(Users) <= MaxInt64

(* A claim that has passed the check of its window is inside the shortest. *)
ClaimsOnTime ==
  \A r \in Requests :
    (pc[r] \in {"reverse", "commit"} /\ req[r].op = "claim") => Active(tr(r), clock, Window)

(* Every hold that a statement is about to count, under the window of any
   instance, is one under the shortest and has not expired since BEGIN. *)
SumsOnTime ==
  \A r \in Requests, w \in Windows :
    /\ pc[r] = "holds" => \A t \in ActiveHolds(transfers, senderID(r), tx[r].now, w) :
                             Active(transfers[t], clock, Window)
    /\ pc[r] = "balances" => \A t \in ActiveHolds(transfers, req[r].caller, clock, w) :
                                Active(transfers[t], clock, Window)

(* What a request has learned from one statement on the pool and relies on in
   the next: the key is taken, the wallet is there. *)
FollowUpAt(r) ==
  /\ (pc[r] = "resolve" /\ req[r].op = "transfer") => KeyTaken(r)
  /\ pc[r] \in {"account_read_created", "account_read_existing"}
       => req[r].caller \in DOMAIN wallets

FollowUp == \A r \in Requests : FollowUpAt(r)

(* Nobody is told that the service is unavailable. *)
NeverUnavailable == \A r \in Requests : resp[r].kind # "service_unavailable"
=============================================================================
