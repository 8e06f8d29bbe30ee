--------------------------- MODULE RequestProofs ---------------------------
(***************************************************************************)
(* What clients are told, and what requests wait for: proofs of the        *)
(* properties of WalletSystem that relate replies to rows, replies to each *)
(* other, and the locks of one request to the wishes of another; when a    *)
(* claim is always funded, and why a 503 is the answer; that somebody can  *)
(* always go on, and nobody goes in circles; and what the counters tell.   *)
(***************************************************************************)
EXTENDS MoneyFlowProofs

(***************************************************************************)
(* The inductive invariant of the replies                                  *)
(***************************************************************************)

(* A row remembers the body it was inserted for, has no time of reversal
   before it is reversed, and is the only one of its sender and key. *)
RowsTrue ==
  /\ \A t \in DOMAIN transfers :
       /\ transfers[t].bodyHash = hashBody(transfers[t].recipient, transfers[t].amount)
       /\ transfers[t].status = "completed" => transfers[t].reversedAt = Null
  /\ \A s, t \in DOMAIN transfers :
       (transfers[s].sender = transfers[t].sender /\ transfers[s].key = transfers[t].key)
         => s = t

(* A reply comes at the end, or cuts the request off. *)
AnsweredAt(r) == resp[r].kind # "none" => pc[r] = "done" \/ r \in gone

(* A successful transfer is told from its row; only its own request is told
   that it was applied. *)
TransferToldAt(r) ==
  TransferReplied(r) =>
    /\ req[r] \in Calls /\ req[r].op = "transfer"
    /\ resp[r].id \in DOMAIN transfers
    /\ LET row == transfers[resp[r].id] IN
         /\ row.sender = req[r].caller /\ row.key = req[r].key
         /\ row.recipient = req[r].to /\ row.amount = req[r].amount
         /\ resp[r].balance = row.senderBalanceAfter
    /\ resp[r].kind = "transfer_applied" => resp[r].id = r

(* A successful claim is told from the reversed row. *)
ClaimToldAt(r) ==
  ClaimReplied(r) =>
    /\ req[r].op = "claim" /\ req[r].id \in DOMAIN transfers
    /\ tr(r).status = "reversed" /\ tr(r).sender = req[r].caller
    /\ resp[r].balance = tr(r).senderBalanceAfterReversal
    /\ resp[r].extra = tr(r).reversedAt

(* A reader was told nothing of a reversal, or when it was. *)
DetailsToldAt(r) ==
  resp[r].kind = "details" =>
    /\ resp[r].id \in DOMAIN transfers
    /\ resp[r].extra # Null => /\ transfers[resp[r].id].status = "reversed"
                               /\ resp[r].extra = transfers[resp[r].id].reversedAt

ToldAt(r) == AnsweredAt(r) /\ TransferToldAt(r) /\ ClaimToldAt(r) /\ DetailsToldAt(r)

(* At most one claim of a transfer is told that it was applied. *)
OneClaimApplied ==
  \A q, r \in Requests :
    (/\ resp[q].kind = "claim_applied" /\ resp[r].kind = "claim_applied"
     /\ req[q].id = req[r].id) => q = r

(* RowsAffected() = 1 in POST /accounts, and the reply that says so. *)
Creator(r) == pc[r] = "account_read_created" \/ resp[r].kind = "wallet_created"

OneCreator ==
  /\ \A r \in Requests : Creator(r) => req[r].caller \in DOMAIN wallets
  /\ \A q, r \in Requests :
       (Creator(q) /\ Creator(r) /\ req[q].caller = req[r].caller) => q = r

ReplyInv == RowsTrue /\ OneClaimApplied /\ OneCreator /\ \A r \in Requests : ToldAt(r)

(***************************************************************************)
(* The inductive invariant of the waits                                    *)
(***************************************************************************)

(* Each of the two passes visits the ids in ascending order, and the pass
   that creates wallets has created none that it has yet to visit. *)
AscendingAt(r) ==
  /\ pc[r] \in {"exists", "insert", "lock"} =>
       \A u \in ids(r) \ tx[r].todo, v \in tx[r].todo : u < v
  /\ pc[r] \in {"exists", "insert"} => tx[r].created \cap tx[r].todo = {}

OrderInv == \A r \in Requests : AscendingAt(r)

(***************************************************************************)
(* One request at a time                                                   *)
(***************************************************************************)
Acts(a) == Step(a) \/ (\E c \in Calls : Arrive(a, c)) \/ Abandon(a)
           \/ Reap(a) \/ ReapCommit(a) \/ ReapInsert(a)

Rests(q) == /\ pc'[q] = pc[q] /\ req'[q] = req[q] /\ resp'[q] = resp[q] /\ tx'[q] = tx[q]
            /\ (q \in gone' <=> q \in gone)

(* What one request does leaves the others where they are. *)
LEMMA OthersRest ==
  ASSUME IInv, NEW a \in Requests, Acts(a), NEW q \in Requests, q # a
  PROVE  Rests(q)
<1> USE DEF IInv, TypeOK, Rests
<1>1. CASE TransferStep(a)
  <2> USE DEF Goto, Answer, Set, Rollback
  <2>1. CASE Lookup(a) \/ Begin(a) \/ SumHolds(a) \/ InsertTransfer(a)
    BY <2>1 DEF Lookup, Begin, BeginTx, SumHolds, InsertTransfer
  <2>2. CASE CheckWallet(a) \/ InsertWallet(a) \/ LockWallet(a)
    BY <2>2 DEF CheckWallet, InsertWallet, LockWallet, Visited
  <2>3. CASE Settle(a) \/ MarkReversed(a) \/ Reverse(a)
    BY <2>3 DEF Settle, MarkReversed, Reverse
  <2>4. CASE resolveExistingKey(a) \/ LoadTransfer(a) \/ resolveUnappliedClaim(a) \/ ReadTransfer(a)
    BY <2>4 DEF resolveExistingKey, LoadTransfer, resolveUnappliedClaim, ReadTransfer
  <2>5. CASE Commit(a)
    BY <2>5 DEF Commit, CommitTx
  <2> QED BY <1>1, <2>1, <2>2, <2>3, <2>4, <2>5 DEF TransferStep
<1>2. CASE WalletStep(a)
  BY <1>2 DEF WalletStep, AccountExists, AccountAcquire, AccountInsert, AccountRead,
              GetBalance, Goto, Answer
<1>3. CASE \E c \in Calls : Arrive(a, c)
  BY <1>3 DEF Arrive, Goto, Answer
<1>4. CASE Abandon(a)
  BY <1>4 DEF Abandon
<1>5. CASE Reap(a) \/ ReapCommit(a) \/ ReapInsert(a)
  BY <1>5 DEF Reap, ReapCommit, ReapInsert, CommitTx, Rollback, Set, End
<1> QED BY <1>1, <1>2, <1>3, <1>4, <1>5 DEF Acts, Step

(* A step is the act of one request, or everything but the clock stays. *)
LEMMA OneActor ==
  ASSUME IInv, [Next]_vars
  PROVE  \/ \E a \in Requests : Acts(a)
         \/ UNCHANGED <<wallets, transfers, late, pc, req, tx, resp, gone>>
BY DEF Next, QuietNext, Faults, Acts, Tick, Idle, vars

(***************************************************************************)
(* History                                                                 *)
(***************************************************************************)

(* What a step may do to a committed row: nothing but reverse it, once. *)
KeptRow(t) ==
  /\ t \in DOMAIN transfers'
  /\ transfers'[t].sender = transfers[t].sender /\ transfers'[t].key = transfers[t].key
  /\ transfers'[t].recipient = transfers[t].recipient
  /\ transfers'[t].amount = transfers[t].amount
  /\ transfers'[t].bodyHash = transfers[t].bodyHash
  /\ transfers'[t].senderBalanceAfter = transfers[t].senderBalanceAfter
  /\ transfers[t].status = "reversed" => transfers'[t] = transfers[t]

(* What a commit writes. *)
LEMMA CommitWrites ==
  ASSUME IInv, NEW r \in Requests, pc[r] = "commit", CommitTx(r)
  PROVE  /\ IsTransfer(r) =>
              /\ r \notin DOMAIN transfers /\ DOMAIN transfers' = DOMAIN transfers \cup {r}
              /\ transfers'[r] = NewTransfer(r)
              /\ \A t \in DOMAIN transfers : transfers'[t] = transfers[t]
         /\ ~IsTransfer(r) =>
              /\ req[r].op = "claim" /\ req[r].id \in DOMAIN transfers
              /\ tr(r) \in Transfer /\ tr(r).status = "completed"
              /\ tr(r).sender = req[r].caller
              /\ DOMAIN transfers' = DOMAIN transfers
              /\ transfers'[req[r].id] = Reversed(r)
              /\ \A t \in DOMAIN transfers \ {req[r].id} : transfers'[t] = transfers[t]
<1>1. r \notin DOMAIN transfers
  BY FreshId
<1>2. transfers = [t \in DOMAIN transfers |-> transfers[t]]
  BY DEF IInv, TypeOK
<1>3. ASSUME ~IsTransfer(r)
      PROVE  /\ req[r].op = "claim" /\ req[r].id \in DOMAIN transfers
             /\ tr(r).status = "completed" /\ tr(r).sender = req[r].caller
             /\ tr(r) \in Transfer
  <2>1. req[r].op = "claim"
    BY <1>3, CommitFacts DEF IsTransfer
  <2> QED BY <2>1 DEF IInv, TypeOK, AtOK, ClaimAt, DecidedAt, tr
<1> QED BY <1>1, <1>2, <1>3 DEF CommitTx

LEMMA RowsKept ==
  ASSUME IInv, [Next]_vars, NEW t \in DOMAIN transfers
  PROVE  KeptRow(t)
<1>1. CASE UNCHANGED transfers
  BY <1>1 DEF KeptRow
<1>2. CASE \E r \in Requests : pc[r] = "commit" /\ CommitTx(r)
  <2>1. PICK r \in Requests : pc[r] = "commit" /\ CommitTx(r)
    BY <1>2
  <2>2. CASE IsTransfer(r)
    BY <2>1, <2>2, CommitWrites DEF KeptRow
  <2>3. CASE ~IsTransfer(r)
    <3>1. CASE t # req[r].id
      BY <2>1, <2>3, <3>1, CommitWrites DEF KeptRow
    <3>2. CASE t = req[r].id
      <4>1. transfers'[t] = Reversed(r) /\ t \in DOMAIN transfers' /\ tr(r) = transfers[t]
            /\ transfers[t] \in Transfer /\ transfers[t].status = "completed"
        BY <2>1, <2>3, <3>2, CommitWrites DEF tr
      <4> QED BY <4>1 DEF KeptRow, Reversed, Transfer
    <3> QED BY <3>1, <3>2
  <2> QED BY <2>2, <2>3
<1> QED BY <1>1, <1>2, TableSteps DEF tables, Tick

(* A wallet, once there, stays. *)
LEMMA WalletsKept ==
  ASSUME IInv, [Next]_vars
  PROVE  DOMAIN wallets \subseteq DOMAIN wallets'
BY TableSteps DEF tables, Tick, OpenWallet, CommitTx

(***************************************************************************)
(* Who is told what                                                        *)
(***************************************************************************)

(* The replies that say something of a row. *)
Told == {"transfer_applied", "transfer_replayed", "claim_applied", "claim_replayed", "details"}

(* The statements that may answer with one of them. *)
Tells(a) == resolveExistingKey(a) \/ LoadTransfer(a) \/ resolveUnappliedClaim(a)
            \/ ReadTransfer(a) \/ Commit(a)

LEMMA RejectionKind == ASSUME NEW k PROVE Rejection(k).kind = k
BY DEF Rejection, Reply

(* The reply of a request changes once, when it ends or is cut off; only a
   statement that has met a row tells of it, only Settle finds the funds
   insufficient. *)
LEMMA ReplySteps ==
  ASSUME IInv, NEW a \in Requests, Acts(a)
  PROVE  \/ resp'[a] = resp[a]
         \/ /\ pc[a] # "done" /\ a \notin gone
            /\ pc'[a] = "done" \/ a \in gone'
            /\ Tells(a) \/ resp'[a].kind \notin Told
            /\ resp'[a].kind = "insufficient_funds" =>
                 Tells(a) \/ (At(a, "settle") /\ UNCHANGED transfers)
            /\ resp'[a].kind = "wallet_created" => Tells(a) \/ pc[a] = "account_read_created"
<1> USE RejectionKind DEF IInv, TypeOK
<1>1. CASE Tells(a)
  BY <1>1 DEF Tells, resolveExistingKey, LoadTransfer, resolveUnappliedClaim, ReadTransfer,
       Commit, CommitTx, At, Answer, Goto
<1>2. CASE TransferStep(a) /\ ~Tells(a)
  <2> USE DEF Goto, Answer, At, Told, Unavailable
  <2>1. CASE Lookup(a)
    BY <2>1 DEF Lookup
  <2>2. CASE Begin(a) \/ CheckWallet(a) \/ InsertWallet(a) \/ InsertTransfer(a) \/ MarkReversed(a)
    BY <2>2 DEF Begin, CheckWallet, InsertWallet, InsertTransfer, MarkReversed, Visited
  <2>3. CASE LockWallet(a) \/ SumHolds(a) \/ Reverse(a)
    BY <2>3 DEF LockWallet, SumHolds, Reverse, Visited
  <2>4. CASE Settle(a)
    BY <2>4 DEF Settle, tables
  <2> QED BY <1>2, <2>1, <2>2, <2>3, <2>4 DEF TransferStep, Tells
<1>3. CASE WalletStep(a)
  BY <1>3 DEF WalletStep, AccountExists, AccountAcquire, AccountInsert, AccountRead,
              GetBalance, Goto, Answer, At, Told, Unavailable, Reply
<1>4. CASE \E c \in Calls : Arrive(a, c)
  BY <1>4 DEF Arrive, Goto, Answer, At, Told
<1>5. CASE Abandon(a)
  BY <1>5 DEF Abandon, Unavailable, Told
<1>6. CASE Reap(a) \/ ReapCommit(a) \/ ReapInsert(a)
  BY <1>6 DEF Reap, ReapCommit, ReapInsert, End
<1> QED BY <1>1, <1>2, <1>3, <1>4, <1>5, <1>6 DEF Acts, Step

(* The call of a request changes only when it arrives; an answered request
   stays answered. *)
LEMMA CallSteps ==
  ASSUME IInv, NEW a \in Requests, Acts(a)
  PROVE  /\ req'[a] = req[a] \/ (pc[a] = "idle" /\ a \notin gone)
         /\ pc[a] = "done" => a \in gone
         /\ a \in gone => pc'[a] = "done" /\ req'[a] = req[a] /\ resp'[a] = resp[a]
<1> USE DEF IInv, TypeOK
<1>1. CASE TransferStep(a)
  BY <1>1 DEF TransferStep, Lookup, Begin, CheckWallet, InsertWallet, LockWallet, SumHolds,
       InsertTransfer, Settle, resolveExistingKey, LoadTransfer, MarkReversed, Reverse,
       resolveUnappliedClaim, Commit, ReadTransfer, At
<1>2. CASE WalletStep(a)
  BY <1>2 DEF WalletStep, AccountExists, AccountAcquire, AccountInsert, AccountRead,
              GetBalance, At
<1>3. CASE \E c \in Calls : Arrive(a, c)
  BY <1>3 DEF Arrive, At
<1>4. CASE Abandon(a)
  BY <1>4 DEF Abandon
<1>5. CASE Reap(a) \/ ReapCommit(a) \/ ReapInsert(a)
  BY <1>5 DEF Reap, ReapCommit, ReapInsert, End
<1> QED BY <1>1, <1>2, <1>3, <1>4, <1>5 DEF Acts, Step

(* Before its answer a request has none. *)
LEMMA NotYetTold ==
  ASSUME ReplyInv, NEW a \in Requests, pc[a] # "done", a \notin gone
  PROVE  resp[a].kind = "none"
BY DEF ReplyInv, ToldAt, AnsweredAt

(* What was told stays true: rows are kept. *)
LEMMA ToldStays ==
  ASSUME IInv, ReplyInv, [Next]_vars, NEW q \in Requests,
         resp'[q] = resp[q], req'[q] = req[q] \/ resp[q].kind = "none",
         resp[q].kind # "none" => pc'[q] = "done" \/ q \in gone'
  PROVE  ToldAt(q)'
<1>1. AnsweredAt(q)'
  BY DEF AnsweredAt
<1>2. CASE resp[q].kind = "none"
  BY <1>1, <1>2 DEF ToldAt, TransferToldAt, ClaimToldAt, DetailsToldAt, TransferReplied, ClaimReplied
<1>3. CASE resp[q].kind # "none" /\ req'[q] = req[q]
  <2>0. ToldAt(q)
    BY DEF ReplyInv
  <2>1. TransferToldAt(q)'
    <3> SUFFICES ASSUME TransferReplied(q)' PROVE TransferToldAt(q)'
      BY DEF TransferToldAt
    <3>1. TransferReplied(q)
      BY DEF TransferReplied
    <3>2. resp[q].id \in DOMAIN transfers
      BY <2>0, <3>1 DEF ToldAt, TransferToldAt
    <3>3. KeptRow(resp[q].id)
      BY <3>2, RowsKept
    <3> QED BY <1>3, <2>0, <3>1, <3>3 DEF ToldAt, TransferToldAt, KeptRow
  <2>2. ClaimToldAt(q)'
    <3> SUFFICES ASSUME ClaimReplied(q)' PROVE ClaimToldAt(q)'
      BY DEF ClaimToldAt
    <3>1. ClaimReplied(q)
      BY DEF ClaimReplied
    <3>2. req[q].id \in DOMAIN transfers /\ transfers[req[q].id].status = "reversed"
      BY <2>0, <3>1 DEF ToldAt, ClaimToldAt, tr
    <3>3. KeptRow(req[q].id)
      BY <3>2, RowsKept
    <3> QED BY <1>3, <2>0, <3>1, <3>2, <3>3 DEF ToldAt, ClaimToldAt, KeptRow, tr
  <2>3. DetailsToldAt(q)'
    <3> SUFFICES ASSUME resp[q].kind = "details" PROVE DetailsToldAt(q)'
      BY DEF DetailsToldAt
    <3>1. resp[q].id \in DOMAIN transfers
      BY <2>0 DEF ToldAt, DetailsToldAt
    <3>2. KeptRow(resp[q].id)
      BY <3>1, RowsKept
    <3> QED BY <2>0, <3>1, <3>2 DEF ToldAt, DetailsToldAt, KeptRow
  <2> QED BY <1>1, <2>1, <2>2, <2>3 DEF ToldAt
<1> QED BY <1>2, <1>3

(* A reply that does not tell of a row. *)
LEMMA UntoldStep ==
  ASSUME NEW a \in Requests, resp'[a].kind \notin Told, pc'[a] = "done" \/ a \in gone'
  PROVE  ToldAt(a)'
BY DEF ToldAt, AnsweredAt, TransferToldAt, ClaimToldAt, DetailsToldAt, TransferReplied,
       ClaimReplied, Told

(* The call of an Execute or a ClaimBack that is under way. *)
LEMMA CallOf ==
  ASSUME IInv, NEW a \in Requests, pc[a] # "idle"
  PROVE  /\ req[a] \in Calls
         /\ req[a].op = "transfer" => req[a] \in TransferCall
         /\ req[a].op \in {"claim", "read"} => req[a] \in IdCall
BY StoreAssumption DEF IInv, AtOK, OpAt, TransferCall, IdCall, UserCall

LEMMA ReplayTold ==
  ASSUME IInv, ReplyInv, NEW a \in Requests, resolveExistingKey(a)
  PROVE  ToldAt(a)'
<1> DEFINE found == RowsOfKey(senderID(a), req[a].key)
           t == CHOOSE t \in found : TRUE
<1>1. /\ pc[a] = "resolve" /\ IsTransfer(a) /\ req' = req /\ transfers' = transfers
      /\ pc'[a] = "done"
      /\ resp'[a] = (IF found = {} THEN Unavailable
                     ELSE IF ~SameBody(transfers[t], a) THEN Rejection("idempotency_conflict")
                     ELSE Reply("transfer_replayed", t, transfers[t].senderBalanceAfter, Null))
  BY DEF resolveExistingKey, At, Answer, tables, IInv, TypeOK
<1>2. CASE found = {} \/ ~SameBody(transfers[t], a)
  BY <1>1, <1>2, UntoldStep, RejectionKind DEF Unavailable, Told
<1>3. CASE found # {} /\ SameBody(transfers[t], a)
  <2>1. t \in DOMAIN transfers /\ transfers[t].sender = senderID(a) /\ transfers[t].key = req[a].key
    BY <1>3 DEF RowsOfKey
  <2>2. transfers[t].recipient = req[a].to /\ transfers[t].amount = req[a].amount
    BY <1>3, <2>1 DEF SameBody, hashBody, ReplyInv, RowsTrue
  <2>3. req[a] \in Calls /\ req[a].op = "transfer"
    BY <1>1, CallOf DEF IsTransfer
  <2> HIDE DEF t, found
  <2>4. /\ resp'[a].kind = "transfer_replayed" /\ resp'[a].id = t
        /\ resp'[a].balance = transfers[t].senderBalanceAfter
    BY <1>1, <1>3 DEF Reply
  <2> QED BY <1>1, <2>1, <2>2, <2>3, <2>4 DEF ToldAt, AnsweredAt, TransferToldAt, ClaimToldAt,
            DetailsToldAt, ClaimReplied, senderID
<1> QED BY <1>2, <1>3

(* The reply of a claim that found its row reversed. *)
LEMMA ClaimReplayTold ==
  ASSUME IInv, ReplyInv, NEW a \in Requests, pc[a] \in {"load", "resolve"},
         req[a].op = "claim", req[a].id \in DOMAIN transfers, tr(a).sender = req[a].caller,
         tr(a).status = "reversed", Answer(a, replayClaim(req[a].id)),
         UNCHANGED <<transfers, req>>
  PROVE  ToldAt(a)'
<1>1. /\ resp'[a].kind = "claim_replayed" /\ pc'[a] = "done"
      /\ resp'[a].balance = tr(a).senderBalanceAfterReversal
      /\ resp'[a].extra = tr(a).reversedAt
  BY DEF Answer, replayClaim, Reply, tr, IInv, TypeOK
<1> QED BY <1>1 DEF ToldAt, AnsweredAt, TransferToldAt, ClaimToldAt, DetailsToldAt,
                    TransferReplied, tr

LEMMA LoadTold ==
  ASSUME IInv, ReplyInv, NEW a \in Requests, LoadTransfer(a)
  PROVE  resp'[a] = resp[a] \/ ToldAt(a)'
<1>1. /\ pc[a] = "load" /\ req' = req /\ transfers' = transfers /\ req[a].op = "claim"
  BY DEF LoadTransfer, At, tables, IInv, AtOK, OpAt
<1>2. CASE Answer(a, Rejection("not_found"))
  BY <1>2, UntoldStep, RejectionKind DEF Answer, Told, IInv, TypeOK
<1>3. CASE /\ req[a].id \in DOMAIN transfers /\ tr(a).sender = req[a].caller
           /\ tr(a).status = "reversed" /\ Answer(a, replayClaim(req[a].id))
  BY <1>1, <1>3, ClaimReplayTold
<1> QED BY <1>2, <1>3 DEF LoadTransfer, Goto

LEMMA UnappliedTold ==
  ASSUME IInv, ReplyInv, NEW a \in Requests, resolveUnappliedClaim(a)
  PROVE  ToldAt(a)'
<1>1. /\ pc[a] = "resolve" /\ req' = req /\ transfers' = transfers /\ req[a].op = "claim"
      /\ req[a].id \in DOMAIN transfers /\ tr(a).sender = req[a].caller
  BY DEF resolveUnappliedClaim, At, tables, IInv, AtOK, OpAt, ClaimAt, IsTransfer
<1>2. CASE Answer(a, Rejection("claim_window_expired"))
  BY <1>2, UntoldStep, RejectionKind DEF Answer, Told, IInv, TypeOK
<1>3. CASE tr(a).status = "reversed" /\ Answer(a, replayClaim(req[a].id))
  BY <1>1, <1>3, ClaimReplayTold
<1> QED BY <1>2, <1>3 DEF resolveUnappliedClaim

LEMMA ReadTold ==
  ASSUME IInv, ReplyInv, NEW a \in Requests, ReadTransfer(a)
  PROVE  ToldAt(a)'
<1> DEFINE t == req[a].id
<1>1. req' = req /\ transfers' = transfers
  BY DEF ReadTransfer, tables
<1>2. CASE Answer(a, Rejection("not_found"))
  BY <1>2, UntoldStep, RejectionKind DEF Answer, Told, IInv, TypeOK
<1>3. CASE t \in DOMAIN transfers /\ Answer(a, Reply("details", t, 0, transfers[t].reversedAt))
  <2>1. /\ resp'[a].kind = "details" /\ pc'[a] = "done" /\ resp'[a].id = t
        /\ resp'[a].extra = transfers[t].reversedAt
    BY <1>3 DEF Answer, Reply, IInv, TypeOK
  <2>2. transfers[t].reversedAt # Null => transfers[t].status = "reversed"
    BY <1>3 DEF ReplyInv, RowsTrue, IInv, TypeOK, Transfer
  <2> QED BY <1>1, <1>3, <2>1, <2>2 DEF ToldAt, AnsweredAt, TransferToldAt, ClaimToldAt,
            DetailsToldAt, TransferReplied, ClaimReplied
<1> QED BY <1>2, <1>3 DEF ReadTransfer

LEMMA CommitTold ==
  ASSUME IInv, ReplyInv, NEW a \in Requests, Commit(a)
  PROVE  ToldAt(a)'
<1>1. pc[a] = "commit" /\ CommitTx(a) /\ req' = req /\ pc'[a] = "done"
  BY DEF Commit, At, Answer, IInv, TypeOK
<1>2. CASE IsTransfer(a)
  <2>1. DOMAIN transfers' = DOMAIN transfers \cup {a} /\ transfers'[a] = NewTransfer(a)
    BY <1>1, <1>2, CommitWrites
  <2>2. /\ resp'[a].kind = "transfer_applied" /\ resp'[a].id = a
        /\ resp'[a].balance = senderAfter(a)
    BY <1>2 DEF Commit, Answer, Reply, IInv, TypeOK
  <2>3. req[a] \in Calls /\ req[a].op = "transfer"
    BY <1>1, <1>2, CallOf DEF IsTransfer
  <2> QED BY <1>1, <1>2, <2>1, <2>2, <2>3 DEF NewTransfer, ToldAt, AnsweredAt, TransferToldAt,
            ClaimToldAt, DetailsToldAt, ClaimReplied, senderID, recipientID, amountPaise
<1>3. CASE ~IsTransfer(a)
  <2>1. /\ req[a].op = "claim" /\ req[a].id \in DOMAIN transfers'
        /\ transfers'[req[a].id] = Reversed(a) /\ tr(a) \in Transfer
        /\ tr(a).sender = req[a].caller
    BY <1>1, <1>3, CommitWrites
  <2>2. /\ resp'[a].kind = "claim_applied" /\ resp'[a].extra = tx[a].now
        /\ resp'[a].balance = senderAfter(a)
    BY <1>3 DEF Commit, Answer, Reply, IInv, TypeOK
  <2>3. /\ Reversed(a).status = "reversed" /\ Reversed(a).sender = req[a].caller
        /\ Reversed(a).senderBalanceAfterReversal = senderAfter(a)
        /\ Reversed(a).reversedAt = tx[a].now
    BY <2>1 DEF Reversed, Transfer
  <2> QED BY <1>1, <2>1, <2>2, <2>3 DEF ToldAt, AnsweredAt, TransferToldAt, ClaimToldAt,
            DetailsToldAt, TransferReplied, tr
<1> QED BY <1>2, <1>3

LEMMA TellsTold ==
  ASSUME IInv, ReplyInv, NEW a \in Requests, Tells(a)
  PROVE  resp'[a] = resp[a] \/ ToldAt(a)'
BY ReplayTold, LoadTold, UnappliedTold, ReadTold, CommitTold DEF Tells

LEMMA ToldNext ==
  ASSUME IInv, ReplyInv, [Next]_vars, NEW q \in Requests
  PROVE  ToldAt(q)'
<1>0. ToldAt(q)
  BY DEF ReplyInv
<1>1. CASE Rests(q)
  <2>1. resp[q].kind # "none" => pc'[q] = "done" \/ q \in gone'
    BY <1>0, <1>1 DEF ToldAt, AnsweredAt, Rests
  <2> QED BY <1>1, <2>1, ToldStays DEF Rests
<1>2. CASE Acts(q)
  <2>1. CASE resp'[q] = resp[q]
    <3>1. req'[q] = req[q] \/ resp[q].kind = "none"
      BY <1>2, CallSteps, NotYetTold
    <3>2. resp[q].kind # "none" => pc'[q] = "done" \/ q \in gone'
      BY <1>2, CallSteps, NotYetTold
    <3> QED BY <2>1, <3>1, <3>2, ToldStays
  <2>2. CASE resp'[q] # resp[q] /\ Tells(q)
    BY <2>2, TellsTold
  <2>3. CASE resp'[q] # resp[q] /\ ~Tells(q)
    BY <1>2, <2>3, ReplySteps, UntoldStep
  <2> QED BY <2>1, <2>2, <2>3
<1>3. CASE UNCHANGED <<wallets, transfers, late, pc, req, tx, resp, gone>>
  BY <1>1, <1>3 DEF Rests
<1> QED BY <1>1, <1>2, <1>3, OneActor, OthersRest

LEMMA RowsTrueNext ==
  ASSUME IInv, ReplyInv, [Next]_vars
  PROVE  RowsTrue'
<1>0. RowsTrue
  BY DEF ReplyInv
<1>1. CASE UNCHANGED transfers
  BY <1>0, <1>1 DEF RowsTrue
<1>2. ASSUME NEW r \in Requests, pc[r] = "commit", CommitTx(r) PROVE RowsTrue'
  <2>1. CASE IsTransfer(r)
    <3>1. /\ r \notin DOMAIN transfers /\ DOMAIN transfers' = DOMAIN transfers \cup {r}
          /\ transfers'[r] = NewTransfer(r)
          /\ \A t \in DOMAIN transfers : transfers'[t] = transfers[t]
      BY <1>2, <2>1, CommitWrites
    <3>2. /\ NewTransfer(r).bodyHash = hashBody(NewTransfer(r).recipient, NewTransfer(r).amount)
          /\ NewTransfer(r).reversedAt = Null
          /\ NewTransfer(r).sender = senderID(r) /\ NewTransfer(r).key = req[r].key
      BY <2>1 DEF NewTransfer, recipientID, amountPaise
    <3>3. RowsOfKey(senderID(r), req[r].key) = {}
      BY <1>2, <2>1 DEF IInv, AtOK, DecidedAt, IsTransfer
    <3>4. \A t \in DOMAIN transfers :
            ~(transfers[t].sender = senderID(r) /\ transfers[t].key = req[r].key)
      BY <3>3 DEF RowsOfKey
    <3>5. ASSUME NEW t \in DOMAIN transfers'
          PROVE  /\ transfers'[t].bodyHash = hashBody(transfers'[t].recipient, transfers'[t].amount)
                 /\ transfers'[t].status = "completed" => transfers'[t].reversedAt = Null
      BY <1>0, <3>1, <3>2, <3>5 DEF RowsTrue, hashBody
    <3>6. ASSUME NEW s \in DOMAIN transfers', NEW t \in DOMAIN transfers',
                 transfers'[s].sender = transfers'[t].sender, transfers'[s].key = transfers'[t].key
          PROVE  s = t
      BY <1>0, <3>1, <3>2, <3>4, <3>6 DEF RowsTrue
    <3> QED BY <3>5, <3>6 DEF RowsTrue, hashBody
  <2>2. CASE ~IsTransfer(r)
    <3> DEFINE w == req[r].id
    <3>1. /\ w \in DOMAIN transfers /\ transfers[w] \in Transfer
          /\ DOMAIN transfers' = DOMAIN transfers /\ transfers'[w] = Reversed(r)
          /\ \A t \in DOMAIN transfers \ {w} : transfers'[t] = transfers[t]
      BY <1>2, <2>2, CommitWrites DEF tr
    <3>2. /\ Reversed(r).bodyHash = transfers[w].bodyHash
          /\ Reversed(r).recipient = transfers[w].recipient
          /\ Reversed(r).amount = transfers[w].amount /\ Reversed(r).sender = transfers[w].sender
          /\ Reversed(r).key = transfers[w].key /\ Reversed(r).status = "reversed"
      BY <3>1 DEF Reversed, tr, Transfer
    <3> HIDE DEF w
    <3>3. \A t \in DOMAIN transfers : /\ transfers'[t].sender = transfers[t].sender
                                      /\ transfers'[t].key = transfers[t].key
      BY <3>1, <3>2
    <3>4. ASSUME NEW t \in DOMAIN transfers
          PROVE  /\ transfers'[t].bodyHash = hashBody(transfers'[t].recipient, transfers'[t].amount)
                 /\ transfers'[t].status = "completed" => transfers'[t].reversedAt = Null
      BY <1>0, <3>1, <3>2, <3>4 DEF RowsTrue, hashBody
    <3> QED BY <1>0, <3>1, <3>3, <3>4 DEF RowsTrue, hashBody
  <2> QED BY <2>1, <2>2
<1> QED BY <1>1, <1>2, TableSteps DEF tables, Tick

(* A commit of a claim is the first that is told "applied": its row was not
   reversed before. *)
LEMMA OneClaimNext ==
  ASSUME IInv, ReplyInv, [Next]_vars
  PROVE  OneClaimApplied'
<1>0. OneClaimApplied /\ \A q \in Requests : ToldAt(q)
  BY DEF ReplyInv
<1>1. CASE UNCHANGED <<wallets, transfers, late, pc, req, tx, resp, gone>>
  BY <1>0, <1>1 DEF OneClaimApplied
<1>2. ASSUME NEW a \in Requests, Acts(a) PROVE OneClaimApplied'
  <2>1. \A q \in Requests \ {a} : resp'[q] = resp[q] /\ req'[q] = req[q]
    BY <1>2, OthersRest DEF Rests
  <2>2. CASE resp'[a] = resp[a]
    <3>1. resp[a].kind = "claim_applied" => req'[a] = req[a]
      BY <1>2, CallSteps, NotYetTold
    <3> QED BY <1>0, <2>1, <2>2, <3>1 DEF OneClaimApplied
  <2>3. CASE resp'[a].kind # "claim_applied"
    BY <1>0, <2>1, <2>3 DEF OneClaimApplied
  <2>4. CASE resp'[a] # resp[a] /\ resp'[a].kind = "claim_applied"
    <3>1. Tells(a)
      BY <1>2, <2>4, ReplySteps DEF Told
    <3>2. Commit(a) /\ ~IsTransfer(a)
      BY <2>4, <3>1, RejectionKind DEF Tells, resolveExistingKey, LoadTransfer,
           resolveUnappliedClaim, ReadTransfer, Commit, Answer, Goto, Reply, replayClaim,
           Unavailable, IInv, TypeOK
    <3>3. req' = req /\ tr(a).status = "completed"
      BY <3>2, CommitWrites DEF Commit, At
    <3>4. ASSUME NEW q \in Requests \ {a}, resp'[q].kind = "claim_applied",
                 req'[q].id = req'[a].id
          PROVE  FALSE
      <4>1. resp[q].kind = "claim_applied" /\ req[q].id = req[a].id
        BY <2>1, <3>3, <3>4
      <4> QED BY <1>0, <3>3, <4>1 DEF ToldAt, ClaimToldAt, ClaimReplied, tr
    <3> QED BY <1>0, <2>1, <3>4 DEF OneClaimApplied
  <2> QED BY <2>2, <2>3, <2>4
<1> QED BY <1>1, <1>2, OneActor

(* Only an INSERT that found no row makes its request a creator. *)
LEMMA CreatorSteps ==
  ASSUME IInv, ReplyInv, NEW a \in Requests, Acts(a), Creator(a)'
  PROVE  /\ req'[a] = req[a]
         /\ Creator(a) \/ (req[a].caller \notin DOMAIN wallets /\ req[a].caller \in DOMAIN wallets')
<1>1. CASE resp'[a].kind = "wallet_created"
  <2>1. CASE resp'[a] = resp[a]
    BY <1>1, <2>1, CallSteps, NotYetTold DEF Creator
  <2>2. CASE resp'[a] # resp[a]
    <3>1. ~Tells(a)
      BY <1>1, <2>2, RejectionKind DEF Tells, resolveExistingKey, LoadTransfer,
           resolveUnappliedClaim, ReadTransfer, Commit, Answer, Goto, Reply, replayClaim,
           Unavailable, IInv, TypeOK
    <3>2. pc[a] = "account_read_created"
      BY <1>1, <2>2, <3>1, ReplySteps
    <3> QED BY <3>2, CallSteps DEF Creator
  <2> QED BY <2>1, <2>2
<1>2. CASE pc'[a] = "account_read_created"
  <2> USE DEF IInv, TypeOK
  <2>1. CASE TransferStep(a)
    <3> USE DEF Goto, Answer
    <3>1. CASE Lookup(a) \/ Begin(a) \/ SumHolds(a) \/ InsertTransfer(a)
      BY <1>2, <3>1 DEF Lookup, Begin, SumHolds, InsertTransfer
    <3>2. CASE CheckWallet(a) \/ InsertWallet(a) \/ LockWallet(a)
      BY <1>2, <3>2 DEF CheckWallet, InsertWallet, LockWallet, Visited
    <3>3. CASE Settle(a) \/ MarkReversed(a) \/ Reverse(a)
      BY <1>2, <3>3 DEF Settle, MarkReversed, Reverse
    <3>4. CASE resolveExistingKey(a) \/ LoadTransfer(a) \/ resolveUnappliedClaim(a) \/ ReadTransfer(a)
      BY <1>2, <3>4 DEF resolveExistingKey, LoadTransfer, resolveUnappliedClaim, ReadTransfer
    <3>5. CASE Commit(a)
      BY <1>2, <3>5 DEF Commit
    <3> QED BY <2>1, <3>1, <3>2, <3>3, <3>4, <3>5 DEF TransferStep
  <2>2. CASE AccountInsert(a)
    BY <1>2, <2>2 DEF AccountInsert, Created, OpenWallet, Goto
  <2>3. CASE WalletStep(a) /\ ~AccountInsert(a)
    BY <1>2, <2>3 DEF WalletStep, AccountExists, AccountAcquire, AccountRead, GetBalance,
                      Goto, Answer
  <2>4. CASE \E c \in Calls : Arrive(a, c)
    BY <1>2, <2>4, StoreAssumption DEF Arrive, Goto, Answer, Entry, TransferCall, IdCall, UserCall
  <2>5. CASE Abandon(a)
    BY <1>2, <2>5 DEF Abandon, TxLabels
  <2>6. CASE Reap(a) \/ ReapCommit(a) \/ ReapInsert(a)
    BY <1>2, <2>6 DEF Reap, ReapCommit, ReapInsert, End
  <2> QED BY <2>1, <2>2, <2>3, <2>4, <2>5, <2>6 DEF Acts, Step
<1> QED BY <1>1, <1>2 DEF Creator

LEMMA OneCreatorNext ==
  ASSUME IInv, ReplyInv, [Next]_vars
  PROVE  OneCreator'
<1>0. OneCreator /\ DOMAIN wallets \subseteq DOMAIN wallets'
  BY WalletsKept DEF ReplyInv
<1>1. CASE UNCHANGED <<wallets, transfers, late, pc, req, tx, resp, gone>>
  BY <1>0, <1>1 DEF OneCreator, Creator
<1>2. ASSUME NEW a \in Requests, Acts(a) PROVE OneCreator'
  <2>1. \A q \in Requests \ {a} : (Creator(q)' <=> Creator(q)) /\ req'[q] = req[q]
    BY <1>2, OthersRest DEF Rests, Creator
  <2>2. CASE ~Creator(a)'
    BY <1>0, <2>1, <2>2 DEF OneCreator
  <2>3. CASE Creator(a)' /\ Creator(a) /\ req'[a] = req[a]
    BY <1>0, <2>1, <2>3 DEF OneCreator
  <2>4. CASE /\ Creator(a)' /\ req'[a] = req[a]
             /\ req[a].caller \notin DOMAIN wallets /\ req[a].caller \in DOMAIN wallets'
    <3>1. \A q \in Requests \ {a} : Creator(q) => req[q].caller # req[a].caller
      BY <1>0, <2>4 DEF OneCreator
    <3> QED BY <1>0, <2>1, <2>4, <3>1 DEF OneCreator
  <2> QED BY <1>2, <2>2, <2>3, <2>4, CreatorSteps
<1> QED BY <1>1, <1>2, OneActor

LEMMA ReplyInit == Init => ReplyInv
BY RejectionKind DEF Init, ReplyInv, RowsTrue, OneClaimApplied, OneCreator, Creator, ToldAt,
     AnsweredAt, TransferToldAt, ClaimToldAt, DetailsToldAt, TransferReplied, ClaimReplied

LEMMA ReplyNext == IInv /\ ReplyInv /\ [Next]_vars => ReplyInv'
BY ToldNext, RowsTrueNext, OneClaimNext, OneCreatorNext DEF ReplyInv

(* Whatever the interleaving, the retries and the failures, every reply is
   true of the committed tables, now and ever after. *)
THEOREM RepliesTrue == Spec => []ReplyInv
BY ReplyInit, ReplyNext, Invariance, PTL DEF Spec

(***************************************************************************)
(* The theorems about replies                                              *)
(***************************************************************************)

(* Retries of a transfer agree (resolveExistingKey): one transfer, one
   balance, applied once, with the body the client sent. *)
THEOREM RetryAgreement == Spec => []RetriesAgree
<1>1. ReplyInv => RetriesAgree
  <2> SUFFICES ASSUME ReplyInv, NEW r \in Requests, TransferReplied(r)
               PROVE  /\ resp[r].id \in DOMAIN transfers
                      /\ LET row == transfers[resp[r].id] IN
                           /\ row.sender = senderID(r) /\ row.key = req[r].key
                           /\ row.recipient = req[r].to /\ row.amount = req[r].amount
                      /\ \A q \in Requests \ {r} : (TransferReplied(q) /\ SameKey(q, r)) =>
                           /\ resp[q].id = resp[r].id /\ resp[q].balance = resp[r].balance
                           /\ "transfer_replayed" \in {resp[q].kind, resp[r].kind}
    BY DEF RetriesAgree
  <2>1. \A q \in Requests : TransferReplied(q) => TransferToldAt(q)
    BY DEF ReplyInv, ToldAt
  <2>2. ASSUME NEW q \in Requests \ {r}, TransferReplied(q), SameKey(q, r)
        PROVE  /\ resp[q].id = resp[r].id /\ resp[q].balance = resp[r].balance
               /\ "transfer_replayed" \in {resp[q].kind, resp[r].kind}
    <3>1. TransferToldAt(q) /\ TransferToldAt(r)
      BY <2>1, <2>2
    <3>2. resp[q].id = resp[r].id
      BY <2>2, <3>1 DEF TransferToldAt, SameKey, senderID, ReplyInv, RowsTrue
    <3> QED BY <2>2, <3>1, <3>2 DEF TransferToldAt, TransferReplied
  <2> QED BY <2>1, <2>2 DEF TransferToldAt, senderID
<1> QED BY <1>1, RepliesTrue, PTL

(* All successful claims of one transfer, and all readers of it, are told of
   one and the same reversal; one claim applied it (MarkReversed). *)
THEOREM ClaimAgreement == Spec => []ClaimsAgree
<1>1. ReplyInv => ClaimsAgree
  <2> SUFFICES ASSUME ReplyInv, NEW r \in Requests, ClaimReplied(r)
               PROVE  /\ tr(r).status = "reversed" /\ tr(r).sender = req[r].caller
                      /\ \A q \in Requests \ {r} :
                           (ClaimReplied(q) /\ req[q].id = req[r].id) =>
                             /\ resp[q].balance = resp[r].balance
                             /\ resp[q].extra = resp[r].extra
                             /\ "claim_replayed" \in {resp[q].kind, resp[r].kind}
                      /\ \A q \in Requests :
                           (resp[q].kind = "details" /\ resp[q].id = req[r].id) =>
                             resp[q].extra \in {Null, resp[r].extra}
    BY DEF ClaimsAgree
  <2>1. ClaimToldAt(r)
    BY DEF ReplyInv, ToldAt
  <2>2. ASSUME NEW q \in Requests \ {r}, ClaimReplied(q), req[q].id = req[r].id
        PROVE  /\ resp[q].balance = resp[r].balance /\ resp[q].extra = resp[r].extra
               /\ "claim_replayed" \in {resp[q].kind, resp[r].kind}
    <3>1. ClaimToldAt(q)
      BY DEF ReplyInv, ToldAt
    <3>2. ~(resp[q].kind = "claim_applied" /\ resp[r].kind = "claim_applied")
      BY <2>2 DEF ReplyInv, OneClaimApplied
    <3> QED BY <2>1, <2>2, <3>1, <3>2 DEF ClaimToldAt, ClaimReplied, tr
  <2>3. ASSUME NEW q \in Requests, resp[q].kind = "details", resp[q].id = req[r].id
        PROVE  resp[q].extra \in {Null, resp[r].extra}
    <3>1. DetailsToldAt(q)
      BY DEF ReplyInv, ToldAt
    <3> QED BY <2>1, <2>3, <3>1 DEF ClaimToldAt, DetailsToldAt, tr
  <2> QED BY <2>1, <2>2, <2>3 DEF ClaimToldAt
<1> QED BY <1>1, RepliesTrue, PTL

(* One request at most is told that it created the wallet of a user
   (RowsAffected of POST /accounts). *)
THEOREM CreationOnce == Spec => []CreatedOnce
<1>1. ReplyInv => CreatedOnce
  BY DEF ReplyInv, OneCreator, Creator, CreatedOnce
<1> QED BY <1>1, RepliesTrue, PTL

(* Execute answers "insufficient funds" only for a key that has moved no
   money: at Settle the key is the transaction's own. *)
THEOREM RejectionsUnused == Spec => RejectionMeansUnused
<1> DEFINE Unused == \A r \in Requests :
       (resp'[r].kind = "insufficient_funds" /\ resp[r].kind # "insufficient_funds")
         => RowsOfKey(senderID(r), req[r].key) = {}
<1>1. IInv /\ [Next]_vars => [Unused]_vars
  <2> SUFFICES ASSUME IInv, [Next]_vars, NEW r \in Requests,
                      resp'[r].kind = "insufficient_funds", resp[r].kind # "insufficient_funds"
               PROVE  RowsOfKey(senderID(r), req[r].key) = {}
    OBVIOUS
  <2>1. Acts(r)
    BY OneActor, OthersRest DEF Rests
  <2>2. ~Tells(r)
    BY RejectionKind DEF Tells, resolveExistingKey, LoadTransfer, resolveUnappliedClaim,
         ReadTransfer, Commit, Answer, Goto, Reply, replayClaim, Unavailable, IInv, TypeOK
  <2>3. pc[r] = "settle"
    BY <2>1, <2>2, ReplySteps DEF At
  <2> QED BY <2>3 DEF IInv, AtOK, OpAt, DecidedAt
<1>2. RejectionMeansUnused <=> [][Unused]_vars
  BY DEF RejectionMeansUnused
<1> QED BY <1>1, <1>2, Invariance, PTL DEF Spec

(* The row t is the same, or its one reversal has been written into it. *)
ReversedOnce(t) ==
  \/ transfers'[t] = transfers[t]
  \/ /\ transfers[t].status = "completed" /\ transfers'[t].status = "reversed"
     /\ \A field \in DOMAIN transfers[t] \ ReversalFields :
          transfers'[t][field] = transfers[t][field]

LEMMA RowsReversedOnce ==
  ASSUME IInv, [Next]_vars, NEW t \in DOMAIN transfers
  PROVE  ReversedOnce(t)
<1>1. CASE UNCHANGED transfers
  BY <1>1 DEF ReversedOnce
<1>2. CASE \E r \in Requests : pc[r] = "commit" /\ CommitTx(r)
  <2>1. PICK r \in Requests : pc[r] = "commit" /\ CommitTx(r)
    BY <1>2
  <2>2. CASE IsTransfer(r) \/ t # req[r].id
    BY <2>1, <2>2, CommitWrites DEF ReversedOnce
  <2>3. CASE ~IsTransfer(r) /\ t = req[r].id
    <3>1. transfers'[t] = Reversed(r) /\ tr(r) = transfers[t]
          /\ transfers[t] \in Transfer /\ transfers[t].status = "completed"
      BY <2>1, <2>3, CommitWrites DEF tr
    <3>2. transfers'[t].status = "reversed"
      BY <3>1 DEF Reversed, Transfer
    <3>3. ASSUME NEW field \in DOMAIN transfers[t] \ ReversalFields
          PROVE  transfers'[t][field] = transfers[t][field]
      BY <3>1 DEF Reversed, Transfer, ReversalFields
    <3> QED BY <3>1, <3>2, <3>3 DEF ReversedOnce
  <2> QED BY <2>2, <2>3
<1> QED BY <1>1, <1>2, TableSteps DEF tables, Tick

(* A reply is never replaced or withdrawn; a committed transfer never loses
   its row, and all that is ever written into it is its one reversal: status,
   time and the sender's balance after it, once and for all. *)
THEOREM HistoryFinal == Spec => HistoryIsFinal
<1> DEFINE Final ==
      /\ \A t \in DOMAIN transfers :
           /\ t \in DOMAIN transfers'
           /\ \/ transfers'[t] = transfers[t]
              \/ /\ transfers[t].status = "completed" /\ transfers'[t].status = "reversed"
                 /\ \A field \in DOMAIN transfers[t] \ ReversalFields :
                      transfers'[t][field] = transfers[t][field]
      /\ \A r \in Requests : resp[r].kind # "none" => resp'[r] = resp[r]
<1>1. IInv /\ ReplyInv /\ [Next]_vars => [Final]_vars
  <2> SUFFICES ASSUME IInv, ReplyInv, [Next]_vars PROVE Final
    OBVIOUS
  <2>1. ASSUME NEW t \in DOMAIN transfers PROVE t \in DOMAIN transfers' /\ ReversedOnce(t)
    BY RowsKept, RowsReversedOnce DEF KeptRow
  <2>2. ASSUME NEW r \in Requests, resp[r].kind # "none" PROVE resp'[r] = resp[r]
    BY <2>2, OneActor, OthersRest, ReplySteps, NotYetTold DEF Rests
  <2> QED BY <2>1, <2>2 DEF ReversedOnce
<1>2. HistoryIsFinal <=> [][Final]_vars
  BY DEF HistoryIsFinal
<1> QED BY <1>1, <1>2, Invariance, RepliesTrue, PTL DEF Spec

(***************************************************************************)
(* Waiting                                                                 *)
(***************************************************************************)

(* The loops of Execute and ClaimBack take the smallest id that is left. *)
LEMMA NextIdLeast ==
  ASSUME IInv, NEW r \in Requests, pc[r] \in {"exists", "insert", "lock"}
  PROVE  /\ NextId(r) \in tx[r].todo /\ \A v \in tx[r].todo : NextId(r) <= v
         /\ tx[r].todo \subseteq ids(r) /\ ids(r) \subseteq Nat
<1> DEFINE a == senderID(r)
           b == recipientID(r)
<1>1. a \in Nat /\ b \in Nat
  BY IdsType, StoreAssumption DEF IInv, AtOK, OpAt
<1>2. tx[r].todo # {} /\ tx[r].todo \subseteq {a, b} /\ ids(r) = {a, b}
  BY DEF IInv, AtOK, LoopsAt, ids
<1> HIDE DEF a, b
<1>3. \E u \in tx[r].todo : \A v \in tx[r].todo : u <= v
  <2>1. CASE a \in tx[r].todo /\ b \in tx[r].todo
    BY <1>1, <1>2, <2>1
  <2>2. CASE a \notin tx[r].todo \/ b \notin tx[r].todo
    BY <1>1, <1>2, <2>2
  <2> QED BY <2>1, <2>2
<1> QED BY <1>1, <1>2, <1>3 DEF NextId

(* The ids of a request that is at work do not change. *)
LEMMA IdsKept ==
  ASSUME IInv, [Next]_vars, NEW q \in Requests, pc[q] \in {"begin", "exists", "insert", "lock"},
         req'[q] = req[q]
  PROVE  ids(q)' = ids(q)
<1>1. CASE IsTransfer(q)
  BY <1>1 DEF ids, senderID, recipientID, IsTransfer
<1>2. CASE ~IsTransfer(q)
  <2>1. req[q].id \in DOMAIN transfers
    BY <1>2 DEF IInv, AtOK, OpAt, ClaimAt, IsTransfer
  <2>2. KeptRow(req[q].id)
    BY <2>1, RowsKept
  <2> QED BY <1>2, <2>2 DEF ids, senderID, recipientID, IsTransfer, tr, KeptRow
<1> QED BY <1>1, <1>2

(* One round of a pass: the smallest id left joins the ones visited. *)
LEMMA VisitedAscends ==
  ASSUME IInv, OrderInv, [Next]_vars, NEW a \in Requests, pc[a] \in {"exists", "insert", "lock"},
         UNCHANGED req, NEW t \in Tx, t.todo = tx[a].todo, NEW next, NEW rest,
         next \in {"exists", "insert", "lock"} => next = "lock" /\ rest = ids(a),
         NEW l \in {"exists", "lock"}, l = "exists" => t.created \cap tx[a].todo \subseteq {NextId(a)},
         Visited(a, t, NextId(a), l, next, rest)
  PROVE  AscendingAt(a)'
<1> DEFINE u == NextId(a)
<1>0. /\ ids(a)' = ids(a) /\ u \in tx[a].todo /\ \A v \in tx[a].todo : u <= v
      /\ tx[a].todo \subseteq ids(a) /\ ids(a) \subseteq Nat
  BY NextIdLeast, IdsKept
<1>1. \A w \in ids(a) \ tx[a].todo, v \in tx[a].todo : w < v
  BY DEF OrderInv, AscendingAt
<1>2. CASE tx[a].todo = {u}
  <2>1. tx'[a].todo = rest /\ pc'[a] = next
    BY <1>2 DEF Visited, Set, Goto, IInv, TypeOK, Tx
  <2> QED BY <1>0, <2>1 DEF AscendingAt
<1>3. CASE tx[a].todo # {u}
  <2>1. tx'[a].todo = tx[a].todo \ {u} /\ tx'[a].created = t.created /\ pc'[a] = l
    BY <1>3 DEF Visited, Set, Goto, IInv, TypeOK, Tx
  <2>2. \A w \in ids(a) \ tx'[a].todo, v \in tx'[a].todo : w < v
    <3> SUFFICES ASSUME NEW w \in ids(a) \ (tx[a].todo \ {u}), NEW v \in tx[a].todo \ {u}
                 PROVE  w < v
      BY <2>1
    <3>1. w \in Nat /\ v \in Nat /\ u \in Nat /\ v # u /\ u <= v
      BY <1>0
    <3> HIDE DEF u
    <3> QED BY <1>1, <3>1
  <2>3. l = "exists" => tx'[a].created \cap tx'[a].todo = {}
    BY <2>1
  <2> HIDE DEF u
  <2> QED BY <1>0, <2>1, <2>2, <2>3 DEF AscendingAt
<1> QED BY <1>2, <1>3

LEMMA BeginAscends ==
  ASSUME IInv, [Next]_vars, NEW a \in Requests, Begin(a) PROVE AscendingAt(a)'
<1>1. pc[a] = "begin" /\ req' = req
  BY DEF Begin, At
<1>2. tx'[a].todo = ids(a) /\ tx'[a].created = {}
  BY DEF Begin, BeginTx, Set, NoTx, IInv, TypeOK
<1>3. ids(a)' = ids(a)
  BY <1>1, IdsKept
<1> QED BY <1>2, <1>3 DEF AscendingAt

LEMMA CreateAscends ==
  ASSUME IInv, OrderInv, [Next]_vars, NEW a \in Requests, CheckWallet(a) \/ InsertWallet(a)
  PROVE  AscendingAt(a)'
<1> DEFINE u == NextId(a)
           t == [tx[a] EXCEPT !.created = @ \cup ({u} \ DOMAIN wallets)]
<1>1. /\ pc[a] \in {"exists", "insert"} /\ req' = req /\ tx[a] \in Tx
      /\ tx[a].created \cap tx[a].todo = {} /\ u \in Users
  BY NextIdIn DEF CheckWallet, InsertWallet, At, IInv, TypeOK, OrderInv, AscendingAt
<1>2. CASE Visited(a, tx[a], u, "exists", "lock", ids(a))
  BY <1>1, <1>2, VisitedAscends
<1>3. CASE Visited(a, t, u, "exists", "lock", ids(a))
  <2>1. t \in Tx /\ t.todo = tx[a].todo /\ t.created \subseteq tx[a].created \cup {u}
    BY <1>1 DEF Tx
  <2>2. t.created \cap tx[a].todo \subseteq {u}
    BY <1>1, <2>1
  <2> HIDE DEF t
  <2> QED BY <1>1, <1>3, <2>1, <2>2, VisitedAscends
<1>4. CASE Goto(a, "insert") /\ UNCHANGED tx
  <2>1. ids(a)' = ids(a)
    BY <1>1, IdsKept
  <2> QED BY <1>1, <1>4, <2>1 DEF AscendingAt, OrderInv
<1> QED BY <1>2, <1>3, <1>4 DEF CheckWallet, InsertWallet

LEMMA LockAscends ==
  ASSUME IInv, OrderInv, [Next]_vars, NEW a \in Requests, LockWallet(a)
  PROVE  AscendingAt(a)'
<1> DEFINE u == NextId(a)
           b == LockedBalance(a, u)
           t == [tx[a] EXCEPT !.locked = @ \cup {u}, !.bal[u] = b]
           next == IF IsTransfer(a) THEN "holds" ELSE "mark_reversed"
<1>1. pc[a] = "lock" /\ req' = req /\ tx[a] \in Tx /\ u \in Users /\ b \in Int
  BY NextIdIn, LockedBalanceType, StoreAssumption DEF LockWallet, At, IInv, TypeOK
<1>2. CASE Visited(a, t, u, "lock", next, {})
  <2>1. t \in Tx /\ t.todo = tx[a].todo
    BY <1>1 DEF Tx
  <2> HIDE DEF t
  <2> QED BY <1>1, <1>2, <2>1, VisitedAscends
<1>3. CASE Answer(a, Unavailable)
  BY <1>3 DEF Answer, AscendingAt, IInv, TypeOK
<1> QED BY <1>2, <1>3 DEF LockWallet

(* No other step enters one of the two passes. *)
LEMMA OutsidePasses ==
  ASSUME IInv, NEW a \in Requests, Acts(a), pc'[a] \in {"exists", "insert", "lock"}
  PROVE  \/ Begin(a) \/ CheckWallet(a) \/ InsertWallet(a) \/ LockWallet(a)
         \/ pc[a] = pc'[a] /\ UNCHANGED <<tx, req>>
<1> USE DEF IInv, TypeOK, Goto, Answer
<1>1. CASE TransferStep(a)
  <2>1. CASE Lookup(a) \/ SumHolds(a) \/ InsertTransfer(a) \/ Commit(a)
    BY <2>1 DEF Lookup, SumHolds, InsertTransfer, Commit
  <2>2. CASE Settle(a) \/ MarkReversed(a) \/ Reverse(a)
    BY <2>2 DEF Settle, MarkReversed, Reverse
  <2>3. CASE resolveExistingKey(a) \/ LoadTransfer(a) \/ resolveUnappliedClaim(a) \/ ReadTransfer(a)
    BY <2>3 DEF resolveExistingKey, LoadTransfer, resolveUnappliedClaim, ReadTransfer
  <2> QED BY <1>1, <2>1, <2>2, <2>3 DEF TransferStep
<1>2. CASE WalletStep(a)
  BY <1>2 DEF WalletStep, AccountExists, AccountAcquire, AccountInsert, AccountRead, GetBalance
<1>3. CASE \E c \in Calls : Arrive(a, c)
  BY <1>3, StoreAssumption DEF Arrive, Entry, TransferCall, IdCall, UserCall
<1>4. CASE Abandon(a)
  BY <1>4 DEF Abandon
<1>5. CASE Reap(a) \/ ReapCommit(a) \/ ReapInsert(a)
  BY <1>5 DEF Reap, ReapCommit, ReapInsert, End
<1> QED BY <1>1, <1>2, <1>3, <1>4, <1>5 DEF Acts, Step

LEMMA OrderNext == IInv /\ OrderInv /\ [Next]_vars => OrderInv'
<1> SUFFICES ASSUME IInv, OrderInv, [Next]_vars, NEW q \in Requests PROVE AscendingAt(q)'
  BY DEF OrderInv
<1>1. CASE pc'[q] = pc[q] /\ tx'[q] = tx[q] /\ req'[q] = req[q]
  <2>1. pc[q] \in {"exists", "insert", "lock"} => ids(q)' = ids(q)
    BY <1>1, IdsKept
  <2> QED BY <1>1, <2>1 DEF OrderInv, AscendingAt
<1>2. CASE Acts(q) /\ pc'[q] \in {"exists", "insert", "lock"}
  BY <1>1, <1>2, OutsidePasses, BeginAscends, CreateAscends, LockAscends
<1>3. CASE pc'[q] \notin {"exists", "insert", "lock"}
  BY <1>3 DEF AscendingAt
<1> QED BY <1>1, <1>2, <1>3, OneActor, OthersRest DEF Rests

LEMMA OrderInvariance == Spec => []OrderInv
<1>1. Init => OrderInv
  BY DEF Init, OrderInv, AscendingAt
<1> QED BY <1>1, OrderNext, Invariance, PTL DEF Spec

(* A finite set has an element of greatest rank. *)
LEMMA GreatestRank ==
  ASSUME NEW S, IsFiniteSet(S), S # {}, NEW rank \in [S -> Nat]
  PROVE  \E x \in S : \A y \in S : rank[y] <= rank[x]
<1> DEFINE above == [x \in S |-> {y \in S : rank[y] > rank[x]}]
           sizes == {Cardinality(above[x]) : x \in S}
           less == OpToRel(<, Nat)
<1>1. \A x \in S : IsFiniteSet(above[x]) /\ Cardinality(above[x]) \in Nat
  BY FS_Subset, FS_CardinalityType
<1>2. sizes \subseteq Nat /\ sizes # {}
  BY <1>1
<1>3. PICK m \in sizes : \A n \in sizes : ~(<<n, m>> \in less)
  BY <1>2, NatLessThanWellFounded, WFMin
<1>4. \A n \in sizes : ~(n < m)
  BY <1>2, <1>3 DEF OpToRel
<1>5. PICK x \in S : m = Cardinality(above[x])
  OBVIOUS
<1>6. ASSUME NEW y \in S, rank[y] > rank[x] PROVE FALSE
  <2>1. above[y] \subseteq above[x] /\ y \in above[x] /\ y \notin above[y]
    BY <1>6
  <2>2. Cardinality(above[y]) <= Cardinality(above[x])
        /\ Cardinality(above[y]) # Cardinality(above[x])
    BY <1>1, <2>1, FS_Subset
  <2>3. Cardinality(above[y]) \in sizes
    OBVIOUS
  <2>4. Cardinality(above[y]) \in Nat /\ Cardinality(above[x]) \in Nat
    BY <1>1
  <2>5. ~(Cardinality(above[y]) < Cardinality(above[x]))
    BY <1>4, <1>5, <2>3
  <2> HIDE DEF above
  <2> QED BY <2>2, <2>4, <2>5
<1> QED BY <1>6

(* Who waits, waits for one that has come further. *)
LEMMA WaitsForFurther ==
  ASSUME IInv, OrderInv, NEW r \in Requests, NEW q \in WaitsFor(r), WaitsFor(q) # {}
  PROVE  \/ pc[r] = "account_inserting" /\ pc[q] \in {"insert", "lock"}
         \/ pc[r] = "insert" /\ pc[q] = "lock"
         \/ pc[r] = pc[q] /\ pc[q] \in {"insert", "lock"} /\ NextId(r) < NextId(q)
<1>1. q \in Requests /\ pc[q] \in {"insert", "account_inserting", "lock"}
  BY DEF WaitsFor
<1>2. pc[q] # "account_inserting" /\ (pc[r] = "lock" => pc[q] = "lock")
  BY <1>1 DEF WaitsFor, IInv, AtOK, LoopsAt, OpenLabels
<1>3. ASSUME pc[r] = "insert", pc[q] = "insert" PROVE NextId(r) < NextId(q)
  <2>1. NextId(r) \in tx[q].created
    BY <1>3 DEF WaitsFor
  <2>2. NextId(r) \in ids(q) \ tx[q].todo
    BY <1>1, <1>3, <2>1 DEF IInv, AtOK, LoopsAt, OpenLabels, TxLabels, OrderInv, AscendingAt
  <2>3. NextId(q) \in tx[q].todo
    BY <1>1, <1>3, NextIdLeast
  <2> QED BY <1>1, <1>3, <2>2, <2>3 DEF OrderInv, AscendingAt
<1>4. ASSUME pc[r] = "lock", pc[q] = "lock" PROVE NextId(r) < NextId(q)
  <2>1. NextId(r) \in ids(q) \ tx[q].todo
    BY <1>1, <1>4 DEF WaitsFor, IInv, AtOK, LoopsAt
  <2>2. NextId(q) \in tx[q].todo
    BY <1>1, <1>4, NextIdLeast
  <2> QED BY <1>1, <1>4, <2>1, <2>2 DEF OrderInv, AscendingAt
<1> QED BY <1>1, <1>2, <1>3, <1>4 DEF WaitsFor

(* No transfers and claims, in whatever directions, and no wallet creations
   wait for each other in a circle: both passes of Execute and the one of
   ClaimBack visit the ids in ascending order, and who locks never waits for
   one who creates. *)
THEOREM DeadlockFree == Spec => []NoDeadlock
<1>1. IInv /\ OrderInv => NoDeadlock
  <2> SUFFICES ASSUME IInv, OrderInv, NEW S \in SUBSET Requests, S # {},
                      \A r \in S : WaitsFor(r) \cap S # {}
               PROVE  FALSE
    BY DEF NoDeadlock
  <2>1. IsFiniteSet(S) /\ \A r \in S : r \in Requests /\ WaitsFor(r) # {}
    BY StoreAssumption, FS_Subset
  <2>2. ASSUME NEW T \in SUBSET S, T # {}, NEW l \in {"insert", "lock"},
               \A r \in T : pc[r] = l, \A r \in T : WaitsFor(r) \cap T # {}
        PROVE  FALSE
    <3> DEFINE rank == [r \in T |-> NextId(r)]
    <3>1. rank \in [T -> Nat] /\ IsFiniteSet(T)
      BY <2>1, <2>2, NextIdLeast, FS_Subset
    <3>2. PICK x \in T : \A y \in T : rank[y] <= rank[x]
      BY <2>2, <3>1, GreatestRank
    <3>3. PICK y \in T : y \in WaitsFor(x)
      BY <2>2, <3>2
    <3>4. NextId(x) < NextId(y)
      BY <2>1, <2>2, <3>2, <3>3, WaitsForFurther
    <3>5. rank[x] = NextId(x) /\ rank[y] = NextId(y) /\ rank[x] \in Nat /\ rank[y] \in Nat
      BY <3>1
    <3> HIDE DEF rank
    <3> QED BY <3>2, <3>4, <3>5
  <2> DEFINE Locking == {r \in S : pc[r] = "lock"}
             Inserting == {r \in S : pc[r] = "insert"}
  <2>3. \A r \in S : \E q \in S : q \in WaitsFor(r) /\ pc[q] \in {"insert", "lock"}
    BY <2>1, WaitsForFurther
  <2>4. Locking = {}
    <3> SUFFICES ASSUME Locking # {} PROVE FALSE
      OBVIOUS
    <3>1. \A r \in Locking : WaitsFor(r) \cap Locking # {}
      BY <2>1, WaitsForFurther
    <3> QED BY <2>2, <3>1
  <2>5. Inserting # {}
    BY <2>3, <2>4
  <2>6. \A r \in Inserting : WaitsFor(r) \cap Inserting # {}
    BY <2>3, <2>4
  <2> QED BY <2>2, <2>5, <2>6
<1> QED BY <1>1, Invariance, OrderInvariance, PTL

(***************************************************************************)
(* Claims in time                                                          *)
(***************************************************************************)

(* If no claim outlives its window, no reversal is late. *)
LEMMA LateNever ==
  ASSUME IInv, late = {}, ClaimsOnTime, [Next]_vars
  PROVE  late' = {}
<1>1. ASSUME NEW r \in Requests, pc[r] = "commit", CommitTx(r) PROVE late' = late
  BY <1>1, CommitFacts DEF CommitTx, ClaimsOnTime, IsTransfer
<1> QED BY <1>1, TableSteps DEF tables, Tick

(* Without late reversals what is held of a user is in the wallet. *)
LEMMA HeldIsThere ==
  ASSUME IInv, HoldsCoveredButLate, NEW u \in Users, LateReversals(u) = {}
  PROVE  /\ SumActiveHolds(u, clock, Window) \in Nat
         /\ u \in DOMAIN wallets =>
              /\ wallets[u] \in 0 .. MaxInt64
              /\ SumActiveHolds(u, clock, Window) <= wallets[u]
         /\ SumActiveHolds(u, clock, Window) <= MaxInt64
<1>1. SumActiveHolds(u, clock, Window) \in Nat
  BY HoldsType
<1>2. CASE u \in DOMAIN wallets
  <2>1. wallets[u] \in 0 .. MaxInt64
    BY <1>2 DEF IInv, TypeOK
  <2>2. wallets[u] + LateTotal(u) >= SumActiveHolds(u, clock, Window)
    BY <1>2 DEF HoldsCoveredButLate, LateTotal
  <2>3. LateTotal(u) = 0
    BY TotalEmpty DEF LateTotal
  <2> QED BY <1>1, <2>1, <2>2, <2>3, StoreAssumption
<1>3. CASE u \notin DOMAIN wallets
  BY <1>3, NoWalletNoHolds, StoreAssumption
<1> QED BY <1>1, <1>2, <1>3

(* One of the holds is no more than their sum. *)
LEMMA OneHold ==
  ASSUME IInv, NEW u, NEW n, NEW t \in ActiveHolds(transfers, u, n, Window)
  PROVE  transfers[t].amount <= SumActiveHolds(u, n, Window)
<1> DEFINE f == amountOf(transfers)
           H == ActiveHolds(transfers, u, n, Window)
<1>1. IsFiniteSet(H) /\ \A o \in H : f[o] \in Nat
  BY HoldsType
<1>2. f[t] = transfers[t].amount
  BY DEF ActiveHolds, amountOf
<1>3. SumActiveHolds(u, n, Window) = Total(f, H)
  BY DEF SumActiveHolds
<1> HIDE DEF f, H
<1>4. Total(f, H) = Total(f, H \ {t}) + f[t]
  BY <1>1, TotalRemove DEF H
<1>5. Total(f, H \ {t}) \in Nat
  BY <1>1, TotalNat, FS_Subset
<1>6. f[t] \in Nat
  BY <1>1 DEF H
<1> QED BY <1>2, <1>3, <1>4, <1>5, <1>6

(* The recipient of a claim in time still has the money. *)
LEMMA ClaimFunded ==
  ASSUME IInv, HoldsCoveredButLate, NEW r \in Requests, pc[r] = "reverse",
         Active(tr(r), clock, Window), LateReversals(recipientID(r)) = {}
  PROVE  amountPaise(r) <= tx[r].bal[recipientID(r)] /\ CheckBalance(recipientAfter(r))
<1> DEFINE d == recipientID(r)
<1>1. req[r].op = "claim" /\ ~IsTransfer(r)
  BY DEF IInv, AtOK, OpAt, IsTransfer
<1>2. /\ req[r].id \in DOMAIN transfers /\ tr(r) \in Transfer
      /\ tr(r).recipient = d /\ tr(r).amount = amountPaise(r)
      /\ tr(r).status = "completed" /\ Active(tr(r), clock, Window)
  BY <1>1 DEF IInv, TypeOK, AtOK, ClaimAt, DecidedAt, tr, recipientID, amountPaise
<1>3. req[r].id \in ActiveHolds(transfers, d, clock, Window)
  BY <1>2 DEF ActiveHolds, tr
<1>4. amountPaise(r) <= SumActiveHolds(d, clock, Window)
  BY <1>2, <1>3, OneHold DEF tr
<1>5. d \in Users /\ d \in DOMAIN wallets
  BY <1>2 DEF IInv, RowsOK, tr, Transfer
<1>6. tx[r].bal[d] = wallets[d]
  <2>1. d \in tx[r].locked
    BY DEF IInv, AtOK, LoopsAt, LockedLabels, ids
  <2>2. tx[r].bal[d] = LockedBalance(r, d)
    BY <2>1 DEF IInv, AtOK, FreshAt
  <2> QED BY <1>5, <2>2 DEF LockedBalance
<1>7. amountPaise(r) \in Nat
  BY <1>2, StoreAssumption DEF Transfer
<1>8. SumActiveHolds(d, clock, Window) \in Nat /\ SumActiveHolds(d, clock, Window) <= wallets[d]
      /\ wallets[d] \in Nat
  <2>1. LateReversals(d) = {}
    OBVIOUS
  <2> HIDE DEF d
  <2> QED BY <1>5, <2>1, HeldIsThere, StoreAssumption
<1>9. amountPaise(r) <= tx[r].bal[d] /\ tx[r].bal[d] \in Nat
  BY <1>4, <1>6, <1>7, <1>8
<1> QED BY <1>1, <1>7, <1>9 DEF CheckBalance, recipientAfter

(* "The reversal can never fail for lack of funds", wherever every claim that
   passed the check of its window commits inside of it: the window between
   the two is the only gap, and the run claim_unfunded falls into it. *)
THEOREM ClaimsFunded == Spec /\ []ClaimsOnTime => []ClaimAlwaysFunded
<1>1. Init => late = {}
  BY DEF Init
<1>2. IInv /\ late = {} /\ ClaimsOnTime /\ [Next]_vars => (late = {})'
  BY LateNever
<1>3. IInv /\ HoldsCoveredButLate /\ late = {} /\ ClaimsOnTime => ClaimAlwaysFunded
  <2> SUFFICES ASSUME IInv, HoldsCoveredButLate, late = {}, ClaimsOnTime,
                      NEW r \in Requests, pc[r] = "reverse"
               PROVE  CheckBalance(recipientAfter(r))
    BY DEF ClaimAlwaysFunded
  <2>1. Active(tr(r), clock, Window)
    BY DEF IInv, AtOK, OpAt, ClaimsOnTime
  <2>2. LateReversals(recipientID(r)) = {}
    BY DEF LateReversals
  <2> QED BY <2>1, <2>2, ClaimFunded
<1> QED BY <1>1, <1>2, <1>3, Invariance, HoldsCoverage, PTL DEF Spec

(***************************************************************************)
(* Why a request is told 503                                               *)
(***************************************************************************)

(* A commit takes no key and no wallet away, so what a request has learned
   stays true. *)
LEMMA LearnedStays ==
  ASSUME IInv, [Next]_vars, NEW q \in Requests, FollowUpAt(q),
         pc'[q] = pc[q], req'[q] = req[q]
  PROVE  FollowUpAt(q)'
<1>1. DOMAIN wallets \subseteq DOMAIN wallets'
  BY WalletsKept
<1>2. \A t \in RowsOfKey(req[q].caller, req[q].key) : t \in RowsOfKey(req[q].caller, req[q].key)'
  BY RowsKept DEF RowsOfKey, KeptRow
<1>3. KeyTaken(q) => KeyTaken(q)'
  BY <1>2 DEF KeyTaken, senderID
<1> QED BY <1>1, <1>3 DEF FollowUpAt

(* How a request gets to a follow-up statement. *)
LEMMA FollowUpSteps ==
  ASSUME IInv, NEW a \in Requests, Acts(a), FollowUpAt(a), pc'[a] # pc[a] \/ req'[a] # req[a]
  PROVE  FollowUpAt(a)'
<1> USE DEF IInv, TypeOK
<1>1. CASE TransferStep(a)
  <2> USE DEF Goto, Answer, FollowUpAt
  <2>1. CASE Lookup(a) \/ Begin(a) \/ SumHolds(a)
    BY <2>1 DEF Lookup, Begin, SumHolds
  <2>2. CASE CheckWallet(a) \/ InsertWallet(a) \/ LockWallet(a)
    BY <2>2 DEF CheckWallet, InsertWallet, LockWallet, Visited
  <2>3. CASE InsertTransfer(a)
    BY <2>3 DEF InsertTransfer, KeyTaken, RowsOfKey, senderID, tables
  <2>4. CASE Settle(a) \/ Reverse(a)
    BY <2>4 DEF Settle, Reverse
  <2>5. CASE MarkReversed(a)
    BY <2>5 DEF MarkReversed, At, AtOK, OpAt
  <2>6. CASE resolveExistingKey(a) \/ LoadTransfer(a) \/ resolveUnappliedClaim(a) \/ ReadTransfer(a)
    BY <2>6 DEF resolveExistingKey, LoadTransfer, resolveUnappliedClaim, ReadTransfer
  <2>7. CASE Commit(a)
    BY <2>7 DEF Commit
  <2> QED BY <1>1, <2>1, <2>2, <2>3, <2>4, <2>5, <2>6, <2>7 DEF TransferStep
<1>2. CASE WalletStep(a)
  <2> USE DEF Goto, Answer, FollowUpAt
  <2>1. CASE AccountExists(a)
    <3>1. tx[a].created = {}
      BY <2>1 DEF AccountExists, At, AtOK, LoopsAt, OpenLabels, TxLabels
    <3> QED BY <2>1, <3>1 DEF AccountExists, WalletExists, tables
  <2>2. CASE AccountInsert(a)
    BY <2>2 DEF AccountInsert, OpenWallet
  <2>3. CASE AccountAcquire(a) \/ AccountRead(a) \/ GetBalance(a)
    BY <2>3 DEF AccountAcquire, AccountRead, GetBalance
  <2> QED BY <1>2, <2>1, <2>2, <2>3 DEF WalletStep
<1>3. CASE \E c \in Calls : Arrive(a, c)
  BY <1>3, StoreAssumption DEF Arrive, Goto, Answer, Entry, FollowUpAt, TransferCall, IdCall, UserCall
<1>4. CASE Abandon(a)
  BY <1>4 DEF Abandon, FollowUpAt
<1>5. CASE Reap(a) \/ ReapCommit(a) \/ ReapInsert(a)
  BY <1>5 DEF Reap, ReapCommit, ReapInsert, End, FollowUpAt
<1> QED BY <1>1, <1>2, <1>3, <1>4, <1>5 DEF Acts, Step

(* What one statement on the pool has found is still so at the next one. *)
LEMMA FollowUpNext == IInv /\ FollowUp /\ [Next]_vars => FollowUp'
<1> SUFFICES ASSUME IInv, FollowUp, [Next]_vars, NEW q \in Requests PROVE FollowUpAt(q)'
  BY DEF FollowUp
<1>1. CASE pc'[q] = pc[q] /\ req'[q] = req[q]
  BY <1>1, LearnedStays DEF FollowUp
<1>2. CASE pc'[q] # pc[q] \/ req'[q] # req[q]
  <2>1. Acts(q)
    BY <1>2, OneActor, OthersRest DEF Rests
  <2> QED BY <1>2, <2>1, FollowUpSteps DEF FollowUp
<1> QED BY <1>1, <1>2

(* Holds that are all active under the shortest window sum up to no more than
   the holds under it. *)
LEMMA OnTimeFits ==
  ASSUME IInv, NEW u, NEW n, NEW win,
         \A t \in ActiveHolds(transfers, u, n, win) : Active(transfers[t], clock, Window)
  PROVE  SumActiveHolds(u, n, win) <= SumActiveHolds(u, clock, Window)
<1>1. ActiveHolds(transfers, u, n, win) \subseteq ActiveHolds(transfers, u, clock, Window)
  BY DEF ActiveHolds
<1> QED BY <1>1, HoldsType, TotalSubset DEF SumActiveHolds

(* A credit that fits leaves a balance. *)
LEMMA CreditNat ==
  ASSUME IInv, NEW r \in Requests, pc[r] \in {"settle", "reverse"}, NEW v \in ids(r),
         NEW a \in Nat, ~(tx[r].bal[v] + a > MaxInt64)
  PROVE  Wrap(tx[r].bal[v] + a) \in Nat
<1>1. v \in Users /\ v \in tx[r].locked
  BY IdsType DEF ids, IInv, AtOK, OpAt, LoopsAt, LockedLabels
<1>2. tx[r].bal[v] \in Nat
  BY <1>1, LockedBalanceType, StoreAssumption DEF IInv, AtOK, FreshAt
<1> QED BY <1>2, StoreAssumption DEF Wrap

(* No other answer 503 of a request's own steps is reached. *)
LEMMA ExplainedStep ==
  ASSUME IInv, HoldsCoveredButLate, FollowUp, NEW r \in Requests, Step(r), resp'[r] # resp[r],
         ~CreditTooLarge(r), ~WindowClosed(r), ~HoldsUndercut(r)
  PROVE  resp'[r].kind # "service_unavailable"
<1> USE RejectionKind DEF Answer, Goto
<1>0. resp \in [Requests -> Response]
  BY DEF IInv, TypeOK
<1>1. CASE Lookup(r) \/ Begin(r) \/ CheckWallet(r) \/ InsertWallet(r) \/ InsertTransfer(r)
           \/ MarkReversed(r)
  BY <1>0, <1>1 DEF Lookup, Begin, CheckWallet, InsertWallet, InsertTransfer, MarkReversed, Visited
<1>2. CASE LockWallet(r)
  <2>1. WalletExists(r, NextId(r))
    BY <1>2, NextIdIn DEF LockWallet, At, WalletExists, IInv, AtOK, LoopsAt
  <2> QED BY <1>2, <2>1 DEF LockWallet, Visited
<1>3. CASE SumHolds(r)
  <2> DEFINE u == senderID(r)
  <2>1. pc[r] = "holds" /\ u \in Users /\ u = req[r].caller /\ LateReversals(u) = {}
    BY <1>3, IdsType DEF SumHolds, At, IInv, AtOK, OpAt, HoldsUndercut, senderID
  <2>2. tx[r].now \in Nat /\ clock \in Nat /\ tx[r].now <= clock
    BY DEF IInv, TypeOK, Tx, AtOK, DecidedAt
  <2>3. ASSUME NEW win \in Windows PROVE SumActiveHolds(u, tx[r].now, win) <= MaxInt64
    <3>1. \A t \in ActiveHolds(transfers, u, tx[r].now, win) : Active(transfers[t], clock, Window)
      BY <2>1 DEF WindowClosed
    <3> HIDE DEF u
    <3> QED BY <2>1, <3>1, OnTimeFits, HeldIsThere, HoldsType, StoreAssumption
  <2> QED BY <1>3, <2>3 DEF SumHolds
<1>4. CASE Settle(r)
  <2>0. /\ pc[r] = "settle" /\ req[r].op = "transfer" /\ req[r] \in Calls
        /\ ValidTransfer(req[r])
    BY <1>4 DEF Settle, At, IInv, AtOK, OpAt, TransferAt
  <2>1. /\ pc[r] = "settle" /\ IsTransfer(r) /\ req[r].amount \in Nat
        /\ senderID(r) # recipientID(r) /\ {senderID(r), recipientID(r)} = ids(r)
    <3>1. req[r].amount \in Nat
      BY <2>0, StoreAssumption DEF ValidTransfer, TransferCall, IdCall, UserCall, Amounts
    <3> QED BY <2>0, <3>1, IdsType DEF IsTransfer, ids
  <2>2. tx[r].held \in Nat /\ tx[r].bal[senderID(r)] \in Int
    BY <2>1, IdsType DEF IInv, TypeOK, Tx, AtOK, OpAt
  <2>3. ASSUME ~Insufficient(r) PROVE CheckBalance(senderAfter(r)) /\ CheckBalance(recipientAfter(r))
    <3>1. senderAfter(r) = tx[r].bal[senderID(r)] - req[r].amount
      BY <2>1 DEF senderAfter, amountPaise
    <3>2. senderAfter(r) >= 0 /\ req[r].amount <= tx[r].bal[senderID(r)]
      BY <2>1, <2>2, <2>3, <3>1 DEF Insufficient
    <3>3. ~(tx[r].bal[recipientID(r)] + amountPaise(r) > MaxInt64)
      BY <2>1, <3>2 DEF CreditTooLarge, amountPaise
    <3>4. recipientAfter(r) \in Nat
      BY <2>1, <3>3, CreditNat DEF recipientAfter, amountPaise
    <3> QED BY <3>2, <3>4 DEF CheckBalance
  <2> QED BY <1>0, <1>4, <2>3 DEF Settle
<1>5. CASE Reverse(r)
  <2>1. /\ pc[r] = "reverse" /\ ~IsTransfer(r) /\ amountPaise(r) \in Nat
        /\ senderID(r) # recipientID(r) /\ {senderID(r), recipientID(r)} = ids(r)
    BY <1>5, IdsType, StoreAssumption DEF Reverse, At, IInv, TypeOK, AtOK, OpAt, ClaimAt,
         IsTransfer, ids, amountPaise, tr, Transfer
  <2>2. amountPaise(r) <= tx[r].bal[recipientID(r)] /\ CheckBalance(recipientAfter(r))
    BY <2>1, ClaimFunded DEF WindowClosed, HoldsUndercut
  <2>3. ~(tx[r].bal[senderID(r)] + amountPaise(r) > MaxInt64)
    BY <2>1, <2>2 DEF CreditTooLarge
  <2>4. senderAfter(r) \in Nat
    BY <2>1, <2>3, CreditNat DEF senderAfter
  <2> QED BY <1>0, <1>5, <2>2, <2>4 DEF Reverse, CheckBalance
<1>6. CASE resolveExistingKey(r)
  <2>1. RowsOfKey(senderID(r), req[r].key) # {}
    BY <1>6 DEF resolveExistingKey, At, IsTransfer, FollowUp, FollowUpAt, KeyTaken
  <2> QED BY <1>0, <1>6, <2>1 DEF resolveExistingKey, Reply
<1>7. CASE LoadTransfer(r) \/ resolveUnappliedClaim(r) \/ ReadTransfer(r) \/ Commit(r)
  BY <1>0, <1>7 DEF LoadTransfer, resolveUnappliedClaim, ReadTransfer, Commit, replayClaim, Reply
<1>8. CASE AccountExists(r) \/ AccountAcquire(r) \/ AccountInsert(r)
  BY <1>8 DEF AccountExists, AccountAcquire, AccountInsert
<1>9. CASE AccountRead(r)
  <2>1. req[r].caller \in DOMAIN wallets
    BY <1>9 DEF AccountRead, FollowUp, FollowUpAt
  <2> QED BY <1>0, <1>9, <2>1 DEF AccountRead, Reply
<1>10. CASE GetBalance(r)
  <2> DEFINE u == req[r].caller
  <2>1. u \in Users /\ pc[r] = "balances" /\ LateReversals(u) = {}
    BY <1>10, CallerType DEF GetBalance, At, HoldsUndercut
  <2>2. ASSUME NEW win \in Windows, u \in DOMAIN wallets
        PROVE  ~(wallets[u] - SumActiveHolds(u, clock, win) < -MaxInt64 - 1)
    <3>1. \A t \in ActiveHolds(transfers, u, clock, win) : Active(transfers[t], clock, Window)
      BY <2>1 DEF WindowClosed
    <3>2. /\ wallets[u] \in Nat /\ SumActiveHolds(u, clock, win) \in Nat
          /\ SumActiveHolds(u, clock, win) <= SumActiveHolds(u, clock, Window)
          /\ SumActiveHolds(u, clock, Window) \in Nat /\ SumActiveHolds(u, clock, Window) <= wallets[u]
      <4> HIDE DEF u
      <4> QED BY <2>1, <2>2, <3>1, OnTimeFits, HeldIsThere, HoldsType, StoreAssumption
    <3> HIDE DEF u
    <3> QED BY <3>2, StoreAssumption
  <2> QED BY <1>0, <1>10, <2>2 DEF GetBalance, Reply
<1> QED BY <1>1, <1>2, <1>3, <1>4, <1>5, <1>6, <1>7, <1>8, <1>9, <1>10
        DEF Step, TransferStep, WalletStep

(* A request is told 503 by a step of its own for one of the three reasons
   only, whatever other requests do, are cut off in or leave behind: a wallet
   that it locks or reads is there, a key that it was refused for is taken, a
   claim in time has the money, and a sum of holds in time can be scanned. *)
THEOREM UnavailabilityExplained == Spec => UnavailableExplained
<1> DEFINE Explained ==
      \A r \in Requests :
        (/\ resp'[r] # resp[r] /\ resp'[r].kind = "service_unavailable"
         /\ Step(r))
          => CreditTooLarge(r) \/ WindowClosed(r) \/ HoldsUndercut(r)
<1>1. IInv /\ HoldsCoveredButLate /\ FollowUp => [Explained]_vars
  BY ExplainedStep
<1>2. Init => FollowUp
  BY DEF Init, FollowUp, FollowUpAt
<1>3. IInv /\ FollowUp /\ [Next]_vars => FollowUp'
  BY FollowUpNext
<1>4. UnavailableExplained <=> [][Explained]_vars
  BY DEF UnavailableExplained
<1> QED BY <1>1, <1>2, <1>3, <1>4, Invariance, HoldsCoverage, PTL DEF Spec

(***************************************************************************)
(* Requests that are left alone                                            *)
(***************************************************************************)

(* A wallet that is opened with the seed adds it to the money and to the
   seeds. *)
LEMMA SeedAdded ==
  ASSUME NEW f, NEW S, IsFiniteSet(S), NEW u, \A x \in S \cup {u} : f[x] \in Nat,
         Total(f, S) = Seed * Cardinality(S), u \in S \/ f[u] = Seed
  PROVE  Total(f, S \cup {u}) = Seed * Cardinality(S \cup {u}) /\ IsFiniteSet(S \cup {u})
<1>1. CASE u \in S
  <2>1. S \cup {u} = S
    BY <1>1
  <2> QED BY <2>1
<1>2. CASE u \notin S
  <2>1. Total(f, S \cup {u}) = Seed * Cardinality(S) + Seed
    BY <1>2, TotalAdd
  <2>2. Cardinality(S \cup {u}) = Cardinality(S) + 1 /\ IsFiniteSet(S \cup {u})
    BY <1>2, FS_AddElement
  <2>3. Cardinality(S) \in Nat /\ Seed \in Nat
    BY FS_CardinalityType, StoreAssumption
  <2>4. \A n \in Nat : Seed * n + Seed = Seed * (n + 1)
    BY <2>3
  <2> QED BY <2>1, <2>2, <2>3, <2>4
<1> QED BY <1>1, <1>2

(* Two wallets together never hold more than all seeds. *)
LEMMA TwoBalancesFit ==
  ASSUME IInv, L!Conserved, SeedsFit, NEW r, NEW s \in Users, NEW d \in Users, s # d
  PROVE  LockedBalance(r, s) + LockedBalance(r, d) <= MaxInt64
<1> DEFINE f == [u \in Users |-> LockedBalance(r, u)]
           D == DOMAIN wallets
           E == (D \cup {s}) \cup {d}
<1>1. D \subseteq Users /\ IsFiniteSet(D) /\ IsFiniteSet(Users) /\ IsFiniteSet({s})
  BY FS_Subset, FS_Singleton, StoreAssumption DEF IInv, TypeOK
<1>2. \A u \in Users : f[u] \in Nat /\ f[u] = LockedBalance(r, u)
  BY LockedBalanceType, StoreAssumption
<1>3. \A u \in D : f[u] = wallets[u]
  BY <1>1 DEF LockedBalance
<1>4. \A u \in Users \ D : f[u] = Seed
  BY DEF LockedBalance
<1>5. Total(wallets, D) = Seed * Cardinality(D)
  BY DEF L!Conserved, L!Total, L!Coins, L!Cardinality, Total, Coins, Cardinality
<1> HIDE DEF f, D
<1>6. Total(f, D) = Seed * Cardinality(D)
  BY <1>3, <1>5, TotalEqual
<1>7. Total(f, D \cup {s}) = Seed * Cardinality(D \cup {s}) /\ IsFiniteSet(D \cup {s})
  BY <1>1, <1>2, <1>4, <1>6, SeedAdded
<1>8. Total(f, E) = Seed * Cardinality(E) /\ IsFiniteSet(E)
  BY <1>1, <1>2, <1>4, <1>7, SeedAdded
<1>9. E \subseteq Users /\ Cardinality(E) <= Cardinality(Users)
      /\ Cardinality(E) \in Nat /\ Cardinality(Users) \in Nat
  BY <1>1, <1>8, FS_Subset, FS_CardinalityType
<1>10. Seed * Cardinality(E) <= MaxInt64 /\ Seed * Cardinality(E) \in Nat
  <2>1. \A m, n \in Nat : m <= n => Seed * m <= Seed * n
    BY StoreAssumption
  <2>2. \A m \in Nat : Seed * m \in Nat
    BY StoreAssumption
  <2> QED BY <1>9, <2>1, <2>2, StoreAssumption DEF SeedsFit
<1>11. Total(f, {s} \cup {d}) <= Total(f, E)
  <2>1. {s} \cup {d} \subseteq E /\ \A x \in E : f[x] \in Nat
    BY <1>2, <1>9
  <2> QED BY <1>8, <2>1, TotalSubset
<1>12. Total(f, {s} \cup {d}) = Total(f, {s}) + f[d]
  BY <1>1, <1>2, TotalAdd
<1>13. Total(f, {s}) = f[s]
  <2>1. Total(f, {} \cup {s}) = Total(f, {}) + f[s]
    BY <1>2, FS_EmptySet, TotalAdd
  <2>2. {} \cup {s} = {s}
    OBVIOUS
  <2> QED BY <1>2, <2>1, <2>2, TotalEmpty
<1>14. f[s] + f[d] <= MaxInt64
  <2> DEFINE m == Seed * Cardinality(E)
  <2>1. f[s] + f[d] <= m /\ m <= MaxInt64 /\ m \in Nat
    <3> HIDE DEF E
    <3> QED BY <1>8, <1>10, <1>11, <1>12, <1>13
  <2>2. f[s] \in Nat /\ f[d] \in Nat
    BY <1>2
  <2> HIDE DEF m
  <2> QED BY <2>1, <2>2, StoreAssumption
<1> QED BY <1>2, <1>14

(* What is paid fits the recipient's wallet. *)
LEMMA CreditFits ==
  ASSUME IInv, L!Conserved, SeedsFit, NEW r \in Requests, pc[r] \in {"settle", "reverse"},
         NEW a \in Nat, NEW u \in ids(r), NEW v \in ids(r), u # v, a <= tx[r].bal[u]
  PROVE  ~(tx[r].bal[v] + a > MaxInt64)
<1>1. u \in Users /\ v \in Users
  BY IdsType DEF ids, IInv, AtOK, OpAt
<1>2. tx[r].bal[u] = LockedBalance(r, u) /\ tx[r].bal[v] = LockedBalance(r, v)
  <2>1. u \in tx[r].locked /\ v \in tx[r].locked
    BY DEF IInv, AtOK, LoopsAt, LockedLabels
  <2> QED BY <2>1 DEF IInv, AtOK, FreshAt
<1>3. LockedBalance(r, u) + LockedBalance(r, v) <= MaxInt64
  BY <1>1, TwoBalancesFit
<1>4. LockedBalance(r, u) \in Nat /\ LockedBalance(r, v) \in Nat
  BY <1>1, LockedBalanceType, StoreAssumption
<1> QED BY <1>2, <1>3, <1>4, StoreAssumption

(* None of the three reasons arises. *)
LEMMA AloneStep ==
  ASSUME IInv, HoldsCoveredButLate, L!Conserved, FollowUp, late = {}, ClaimsOnTime, SumsOnTime,
         SeedsFit, NEW r \in Requests, Step(r), resp'[r] # resp[r]
  PROVE  resp'[r].kind # "service_unavailable"
<1>1. ~WindowClosed(r)
  BY DEF WindowClosed, ClaimsOnTime, SumsOnTime, senderID, IInv, AtOK, OpAt
<1>2. ~HoldsUndercut(r)
  BY DEF HoldsUndercut, LateReversals
<1>3. ~CreditTooLarge(r)
  <2> SUFFICES ASSUME CreditTooLarge(r) PROVE FALSE
    OBVIOUS
  <2>1. /\ req[r].op \in {"transfer", "claim"} /\ req[r] \in Calls
        /\ {senderID(r), recipientID(r)} = ids(r) /\ pc[r] \in {"settle", "reverse"}
    BY DEF CreditTooLarge, IInv, AtOK, OpAt, ids
  <2>2. amountPaise(r) \in Nat /\ senderID(r) # recipientID(r)
    BY <2>1, IdsType, StoreAssumption DEF CreditTooLarge, IInv, TypeOK, AtOK, OpAt, TransferAt, ClaimAt,
         IsTransfer, ids, amountPaise, tr, Transfer, ValidTransfer, TransferCall, IdCall, UserCall,
         Amounts
  <2>3. PICK u \in ids(r), v \in ids(r) :
          /\ u # v /\ amountPaise(r) <= tx[r].bal[u]
          /\ tx[r].bal[v] + amountPaise(r) > MaxInt64
    BY <2>1, <2>2 DEF CreditTooLarge
  <2> QED BY <2>1, <2>2, <2>3, CreditFits
<1> QED BY <1>1, <1>2, <1>3, ExplainedStep

(* Where nobody is cut off, nobody is told that the service is unavailable. *)
LEMMA AloneNext ==
  ASSUME IInv, HoldsCoveredButLate, L!Conserved, FollowUp, late = {}, ClaimsOnTime, SumsOnTime,
         SeedsFit, NeverUnavailable, [QuietNext]_vars
  PROVE  NeverUnavailable'
<1> SUFFICES ASSUME NEW q \in Requests PROVE resp'[q].kind # "service_unavailable"
  BY DEF NeverUnavailable
<1>1. CASE resp'[q] = resp[q]
  BY <1>1 DEF NeverUnavailable
<1>2. CASE resp'[q] # resp[q]
  <2>1. [Next]_vars
    BY DEF Next
  <2>2. Acts(q)
    BY <1>2, <2>1, OneActor, OthersRest DEF Rests
  <2>3. CASE \E r \in Requests : Step(r)
    <3>1. PICK r \in Requests : Step(r)
      BY <2>3
    <3>2. r = q
      BY <1>2, <3>1, OthersRest DEF Rests, Acts
    <3> QED BY <1>2, <3>1, <3>2, AloneStep
  <2>4. CASE \E r \in Requests : \E c \in Calls : Arrive(r, c)
    BY <1>2, <2>4, RejectionKind DEF Arrive, Answer, Goto, IInv, TypeOK
  <2> QED BY <1>2, <2>3, <2>4 DEF QuietNext, Tick, Idle, vars
<1> QED BY <1>1, <1>2

LEMMA QuietIsSpec == QuietSpec => Spec
<1>1. [QuietNext]_vars => [Next]_vars
  BY DEF Next
<1> QED BY <1>1, PTL DEF QuietSpec, Spec

(* A request that nothing cuts off is never answered 503: no wallet it locks
   or reads is missing, no key it was refused for is free, no credit wraps
   around, no claim lacks the money, no sum is too large to scan.  It takes
   that the seeds together are an int64, and that the shortest window does not
   close on a claim between its check and its commit, or on a hold before it
   is counted. *)
THEOREM LeftAlone ==
  ASSUME SeedsFit
  PROVE  QuietSpec /\ []ClaimsOnTime /\ []SumsOnTime => []NeverUnavailable
<1>1. QuietSpec => Spec
  BY QuietIsSpec
<1>2. Init => late = {} /\ FollowUp /\ NeverUnavailable
  BY RejectionKind DEF Init, FollowUp, FollowUpAt, NeverUnavailable
<1>3. IInv /\ late = {} /\ ClaimsOnTime /\ [Next]_vars => (late = {})'
  BY LateNever
<1>4. IInv /\ FollowUp /\ [Next]_vars => FollowUp'
  BY FollowUpNext
<1>5. IInv /\ HoldsCoveredButLate /\ L!Conserved /\ FollowUp /\ late = {} /\ ClaimsOnTime
      /\ SumsOnTime /\ NeverUnavailable /\ [QuietNext]_vars => NeverUnavailable'
  BY AloneNext
<1> QED BY <1>1, <1>2, <1>3, <1>4, <1>5, Invariance, HoldsCoverage, MoneyConserved, PTL
        DEF QuietSpec, Spec

(***************************************************************************)
(* Somebody can always go on                                               *)
(***************************************************************************)

(* Whoever a request waits for has a transaction open, and it is not waiting
   itself for a connection. *)
LEMMA WaitsForOpen ==
  ASSUME IInv, NEW r \in Requests, NEW q \in WaitsFor(r)
  PROVE  q \in Requests /\ pc[q] \in TxLabels
BY DEF WaitsFor, IInv, AtOK, LoopsAt, OpenLabels

(* Requests that wait for rows wait for open transactions, of which one waits
   for nobody (NoDeadlock); with no transaction open the pool is free. *)
THEOREM StandstillFree == Spec => []NoStandstill
<1>1. IInv /\ NoDeadlock => NoStandstill
  <2> SUFFICES ASSUME IInv, NoDeadlock, NEW b \in Requests, Busy(b)
               PROVE  \E r \in Requests : Busy(r) /\ CanGo(r)
    BY DEF NoStandstill
  <2> DEFINE T == {r \in Requests : pc[r] \in TxLabels}
  <2>1. CASE T = {}
    <3>1. WaitsFor(b) = {}
      BY <2>1, WaitsForOpen
    <3>2. {q \in Requests : pc[q] \in TxLabels /\ q \notin gone} = {}
      BY <2>1
    <3>3. PoolFree
      BY <3>2, FS_EmptySet, StoreAssumption DEF PoolFree
    <3> QED BY <3>1, <3>3 DEF CanGo
  <2>2. CASE T # {}
    <3>1. PICK r \in T : WaitsFor(r) \cap T = {}
      BY <2>2 DEF NoDeadlock
    <3>2. WaitsFor(r) = {}
      BY <3>1, WaitsForOpen
    <3>3. Busy(r)
      BY <3>1 DEF Busy, TxLabels
    <3> QED BY <3>1, <3>2, <3>3 DEF CanGo
  <2> QED BY <2>1, <2>2
<1> QED BY <1>1, Invariance, DeadlockFree, PTL

(***************************************************************************)
(* No request goes round in circles                                        *)
(***************************************************************************)

(* The two ids of a transfer. *)
LEMMA IdsSize ==
  ASSUME NEW r PROVE IsFiniteSet(ids(r)) /\ Cardinality(ids(r)) \in 1 .. 2
<1>1. ids(r) = {senderID(r)} \cup {recipientID(r)}
  BY DEF ids
<1>2. IsFiniteSet({senderID(r)}) /\ Cardinality({senderID(r)}) = 1
  BY FS_Singleton
<1> QED BY <1>1, <1>2, FS_AddElement

(* A request has at most two ids to visit, and visiting one leaves fewer. *)
LEMMA TodoSize ==
  ASSUME IInv, NEW r \in Requests, pc[r] \in {"exists", "insert", "lock"}
  PROVE  /\ IsFiniteSet(tx[r].todo) /\ Cardinality(tx[r].todo) \in 1 .. 2
         /\ NextId(r) \in tx[r].todo
         /\ Cardinality(tx[r].todo \ {NextId(r)}) = Cardinality(tx[r].todo) - 1
<1>1. NextId(r) \in tx[r].todo /\ tx[r].todo \subseteq ids(r)
  BY NextIdLeast
<1>2. IsFiniteSet(ids(r)) /\ Cardinality(ids(r)) \in 1 .. 2
  BY IdsSize
<1>3. IsFiniteSet(tx[r].todo) /\ Cardinality(tx[r].todo) \in Nat
      /\ Cardinality(tx[r].todo) <= Cardinality(ids(r))
  BY <1>1, <1>2, FS_Subset, FS_CardinalityType
<1>4. Cardinality(tx[r].todo \ {NextId(r)}) = Cardinality(tx[r].todo) - 1
  BY <1>1, <1>3, FS_RemoveElement
<1>5. Cardinality(tx[r].todo) # 0
  BY <1>1, <1>3, FS_EmptySet
<1> QED BY <1>1, <1>2, <1>3, <1>4, <1>5

(* The bound at the statements outside of the loops. *)
LEMMA LeftOutside ==
  ASSUME NEW r
  PROVE  /\ pc[r] = "done" => Left(r) = 0
         /\ pc[r] \in {"resolve", "read", "balances"} => Left(r) = 1
         /\ pc[r] \in {"commit", "account_read_created", "account_read_existing"} => Left(r) = 2
         /\ pc[r] \in {"settle", "reverse", "account_inserting"} => Left(r) = 3
         /\ pc[r] \in {"insert_transfer", "mark_reversed", "account_insert"} => Left(r) = 4
         /\ pc[r] \in {"holds", "account_exists"} => Left(r) = 5
         /\ pc[r] = "begin" => Left(r) = 13
         /\ pc[r] \in {"lookup", "load"} => Left(r) = 14
         /\ pc[r] = "idle" => Left(r) = 15
BY DEF Left

(* And inside of them. *)
LEMMA LeftInside ==
  ASSUME IInv, NEW r \in Requests, pc[r] \in {"exists", "insert", "lock"}
  PROVE  /\ pc[r] = "lock" => Left(r) = 5 + Cardinality(tx[r].todo) /\ Left(r) \in 6 .. 7
         /\ pc[r] = "insert" => Left(r) = 7 + 2 * Cardinality(tx[r].todo) /\ Left(r) \in 9 .. 11
         /\ pc[r] = "exists" => Left(r) = 8 + 2 * Cardinality(tx[r].todo) /\ Left(r) \in 10 .. 12
<1> DEFINE n == Cardinality(tx[r].todo)
<1>1. n \in 1 .. 2
  BY TodoSize
<1>2. /\ pc[r] = "lock" => Left(r) = 5 + n
      /\ pc[r] = "insert" => Left(r) = 7 + 2 * n
      /\ pc[r] = "exists" => Left(r) = 8 + 2 * n
  BY DEF Left
<1> HIDE DEF n
<1>3. 5 + n \in 6 .. 7 /\ 7 + 2 * n \in 9 .. 11 /\ 8 + 2 * n \in 10 .. 12
  BY <1>1
<1> QED BY <1>2, <1>3 DEF n

(* Ending is progress from everywhere. *)
LEMMA EndingIsLess ==
  ASSUME IInv, NEW r \in Requests, pc[r] # "done", pc'[r] = "done"
  PROVE  Left(r)' < Left(r)
<1>1. Left(r)' = 0
  BY DEF Left
<1>2. CASE pc[r] \in {"exists", "insert", "lock"}
  BY <1>1, <1>2, LeftInside
<1>3. CASE pc[r] \notin {"exists", "insert", "lock"}
  BY <1>1, <1>3, LeftOutside DEF IInv, TypeOK, Labels, TxLabels
<1> QED BY <1>2, <1>3

(* A round of a loop. *)
LEMMA RoundIsLess ==
  ASSUME IInv, NEW a \in Requests, pc[a] \in {"exists", "insert", "lock"},
         NEW t \in Tx, t.todo = tx[a].todo,
         \/ pc[a] # "lock" /\ Visited(a, t, NextId(a), "exists", "lock", ids(a))
         \/ /\ pc[a] = "lock"
            /\ \E next \in {"holds", "mark_reversed"} :
                 Visited(a, t, NextId(a), "lock", next, {})
  PROVE  Left(a)' < Left(a)
<1> DEFINE u == NextId(a)
           todo == tx[a].todo
<1>1. /\ IsFiniteSet(todo) /\ Cardinality(todo) \in 1 .. 2
      /\ Cardinality(todo \ {u}) = Cardinality(todo) - 1
  BY TodoSize
<1>2. CASE todo = {u} /\ pc[a] # "lock"
  <2>1. pc'[a] = "lock" /\ tx'[a].todo = ids(a)
    BY <1>2 DEF Visited, Set, Goto, IInv, TypeOK, Tx
  <2>2. Left(a)' = 5 + Cardinality(ids(a))
    BY <2>1 DEF Left
  <2>3. Left(a)' \in 6 .. 7
    BY <2>2, IdsSize
  <2> QED BY <1>2, <2>3, LeftInside
<1>3. CASE todo = {u} /\ pc[a] = "lock"
  <2>1. pc'[a] \in {"holds", "mark_reversed"}
    BY <1>3 DEF Visited, Goto, IInv, TypeOK
  <2>2. Left(a)' \in {4, 5}
    BY <2>1 DEF Left
  <2> QED BY <1>3, <2>2, LeftInside
<1>4. CASE todo # {u}
  <2>1. /\ tx'[a].todo = todo \ {u}
        /\ pc'[a] = IF pc[a] = "lock" THEN "lock" ELSE "exists"
    BY <1>4 DEF Visited, Set, Goto, IInv, TypeOK, Tx
  <2>2. Left(a)' = IF pc[a] = "lock" THEN 5 + Cardinality(todo \ {u})
                                    ELSE 8 + 2 * Cardinality(todo \ {u})
    BY <2>1 DEF Left
  <2> HIDE DEF todo, u
  <2>3. CASE pc[a] = "lock"
    BY <1>1, <2>2, <2>3, LeftInside DEF todo
  <2>4. CASE pc[a] \in {"exists", "insert"}
    BY <1>1, <2>2, <2>4, LeftInside DEF todo
  <2> QED BY <2>3, <2>4
<1> QED BY <1>2, <1>3, <1>4

LEMMA BeginIsLess ==
  ASSUME IInv, NEW a \in Requests, Begin(a) PROVE Left(a)' < Left(a)
<1>1. /\ pc[a] = "begin" /\ pc'[a] \in {"exists", "lock"}
      /\ tx'[a].todo = ids(a)
  BY DEF Begin, At, BeginTx, Set, Goto, NoTx, IInv, TypeOK
<1>2. Left(a)' \in {5 + Cardinality(ids(a)), 8 + 2 * Cardinality(ids(a))}
  BY <1>1 DEF Left
<1> QED BY <1>1, <1>2, LeftOutside, IdsSize

LEMMA LoopIsLess ==
  ASSUME IInv, NEW a \in Requests, CheckWallet(a) \/ InsertWallet(a) \/ LockWallet(a)
  PROVE  Left(a)' < Left(a)
<1> DEFINE u == NextId(a)
           n == Cardinality(tx[a].todo)
<1>1. tx[a] \in Tx /\ pc[a] \in {"exists", "insert", "lock"} /\ u \in Users
  BY NextIdIn DEF CheckWallet, InsertWallet, LockWallet, At, IInv, TypeOK
<1>2. CASE CheckWallet(a)
  <2>1. CASE Visited(a, tx[a], u, "exists", "lock", ids(a))
    BY <1>1, <1>2, <2>1, RoundIsLess DEF CheckWallet, At
  <2>2. CASE Goto(a, "insert") /\ UNCHANGED tx
    <3>1. pc[a] = "exists" /\ Left(a)' = 7 + 2 * n
      BY <1>2, <2>2 DEF CheckWallet, At, Goto, Left, IInv, TypeOK
    <3>2. n \in 1 .. 2 /\ Left(a) = 8 + 2 * n
      BY <1>1, <3>1, TodoSize, LeftInside
    <3> HIDE DEF n
    <3> QED BY <3>1, <3>2
  <2> QED BY <1>2, <2>1, <2>2 DEF CheckWallet
<1>3. CASE InsertWallet(a)
  <2> DEFINE t == [tx[a] EXCEPT !.created = @ \cup ({u} \ DOMAIN wallets)]
  <2>1. t \in Tx /\ t.todo = tx[a].todo
    BY <1>1 DEF Tx
  <2>2. pc[a] = "insert" /\ Visited(a, t, u, "exists", "lock", ids(a))
    BY <1>3 DEF InsertWallet, At
  <2> HIDE DEF t, u
  <2> QED BY <2>1, <2>2, RoundIsLess DEF u
<1>4. CASE LockWallet(a)
  <2> DEFINE b == LockedBalance(a, u)
             t == [tx[a] EXCEPT !.locked = @ \cup {u}, !.bal[u] = b]
             next == IF IsTransfer(a) THEN "holds" ELSE "mark_reversed"
  <2>1. b \in Int
    BY <1>1, <1>4, LockedBalanceType DEF IInv
  <2>2. t \in Tx /\ t.todo = tx[a].todo
    BY <1>1, <2>1 DEF Tx
  <2>3. pc[a] = "lock"
    BY <1>4 DEF LockWallet, At
  <2>4. CASE Visited(a, t, u, "lock", next, {})
    <3> HIDE DEF t, u
    <3> QED BY <2>2, <2>3, <2>4, RoundIsLess DEF u
  <2>5. CASE Answer(a, Unavailable)
    BY <2>3, <2>5, EndingIsLess DEF Answer, IInv, TypeOK
  <2> QED BY <1>4, <2>4, <2>5 DEF LockWallet
<1> QED BY <1>2, <1>3, <1>4

(* The statements after the loops, and those of the other operations. *)
LEMMA StraightIsLess ==
  ASSUME IInv, NEW a \in Requests,
         pc[a] \notin {"exists", "insert", "lock", "begin", "done"},
         \/ pc'[a] = "done"
         \/ pc[a] = "idle" /\ pc'[a] \in {"lookup", "load", "read", "account_exists", "balances"}
         \/ pc[a] \in {"lookup", "load"} /\ pc'[a] = "begin"
         \/ pc[a] = "holds" /\ pc'[a] = "insert_transfer"
         \/ pc[a] = "insert_transfer" /\ pc'[a] \in {"settle", "resolve"}
         \/ pc[a] = "mark_reversed" /\ pc'[a] \in {"reverse", "resolve"}
         \/ pc[a] \in {"settle", "reverse"} /\ pc'[a] = "commit"
         \/ pc[a] = "account_exists" /\ pc'[a] \in {"account_insert", "account_read_existing"}
         \/ pc[a] = "account_insert" /\ pc'[a] = "account_inserting"
         \/ /\ pc[a] = "account_inserting"
            /\ pc'[a] \in {"account_read_created", "account_read_existing"}
  PROVE  Left(a)' < Left(a)
<1>1. CASE pc'[a] = "done"
  BY <1>1, EndingIsLess
<1>2. CASE pc'[a] # "done"
  <2>1. /\ pc'[a] \in {"resolve", "read", "balances"} => Left(a)' = 1
        /\ pc'[a] \in {"commit", "account_read_created", "account_read_existing"} => Left(a)' = 2
        /\ pc'[a] \in {"settle", "reverse", "account_inserting"} => Left(a)' = 3
        /\ pc'[a] \in {"insert_transfer", "mark_reversed", "account_insert"} => Left(a)' = 4
        /\ pc'[a] \in {"holds", "account_exists"} => Left(a)' = 5
        /\ pc'[a] = "begin" => Left(a)' = 13
        /\ pc'[a] \in {"lookup", "load"} => Left(a)' = 14
    BY DEF Left
  <2> QED BY <1>2, <2>1, LeftOutside
<1> QED BY <1>1, <1>2

LEMMA ActsIsLess ==
  ASSUME IInv, NEW a \in Requests, Acts(a), pc'[a] # pc[a] \/ tx'[a] # tx[a]
  PROVE  Left(a)' < Left(a)
<1> USE DEF IInv, TypeOK, Goto, Answer
<1>1. CASE TransferStep(a)
  <2> USE DEF At
  <2>1. CASE Lookup(a) \/ SumHolds(a) \/ InsertTransfer(a) \/ Commit(a)
    BY <2>1, StraightIsLess DEF Lookup, SumHolds, InsertTransfer, Commit
  <2>2. CASE Settle(a) \/ MarkReversed(a) \/ Reverse(a)
    BY <2>2, StraightIsLess DEF Settle, MarkReversed, Reverse
  <2>3. CASE resolveExistingKey(a) \/ LoadTransfer(a) \/ resolveUnappliedClaim(a) \/ ReadTransfer(a)
    BY <2>3, StraightIsLess DEF resolveExistingKey, LoadTransfer, resolveUnappliedClaim, ReadTransfer
  <2>4. CASE Begin(a) \/ CheckWallet(a) \/ InsertWallet(a) \/ LockWallet(a)
    BY <2>4, BeginIsLess, LoopIsLess
  <2> QED BY <1>1, <2>1, <2>2, <2>3, <2>4 DEF TransferStep
<1>2. CASE WalletStep(a)
  BY <1>2, StraightIsLess DEF WalletStep, AccountExists, AccountAcquire, AccountInsert,
     AccountRead, GetBalance, At
<1>3. CASE \E c \in Calls : Arrive(a, c)
  <2>1. pc[a] = "idle" /\ pc'[a] \in {"done", "lookup", "load", "read", "account_exists", "balances"}
    BY <1>3, StoreAssumption DEF Arrive, At, Entry, TransferCall, IdCall, UserCall
  <2> QED BY <2>1, StraightIsLess
<1>4. CASE Abandon(a)
  <2>1. pc[a] # "done" /\ pc'[a] = "done"
    BY <1>4 DEF Abandon
  <2> QED BY <2>1, EndingIsLess
<1>5. CASE Reap(a) \/ ReapCommit(a) \/ ReapInsert(a)
  <2>1. pc[a] # "done" /\ pc'[a] = "done"
    BY <1>5 DEF Reap, ReapCommit, ReapInsert, End, GoneOK, TxLabels
  <2> QED BY <2>1, EndingIsLess
<1> QED BY <1>1, <1>2, <1>3, <1>4, <1>5 DEF Acts, Step

(* Whatever happens to a request brings it nearer to its end, and nothing
   that happens to others takes it further away: after at most 15 steps of
   its own it is over. *)
THEOREM ForwardOnly == Spec => OnlyForward
<1> DEFINE Forward == \A r \in Requests :
             (pc'[r] # pc[r] \/ tx'[r] # tx[r]) => Left(r)' < Left(r)
<1>1. IInv /\ [Next]_vars => Forward
  <2> SUFFICES ASSUME IInv, [Next]_vars, NEW r \in Requests, pc'[r] # pc[r] \/ tx'[r] # tx[r]
               PROVE  Left(r)' < Left(r)
    OBVIOUS
  <2>1. PICK a \in Requests : Acts(a)
    BY OneActor
  <2>2. a = r
    BY <2>1, OthersRest DEF Rests
  <2> QED BY <2>1, <2>2, ActsIsLess
<1>2. OnlyForward <=> [][Forward]_vars
  BY DEF OnlyForward
<1> QED BY <1>1, <1>2, Invariance, PTL DEF Spec

(***************************************************************************)
(* The counters and the ledger                                             *)
(***************************************************************************)

(* Who left its transaction behind was told 503; the sender of a committed
   transfer was told that it was applied, or 503; and so was, for a reversed
   one, somebody who claimed it. *)
AskedFor(q, t) == req[q] # Null /\ req[q].op = "claim" /\ req[q].id = t /\ pc[q] = "done"

FateInv ==
  /\ \A r \in gone : resp[r] = Unavailable /\ req[r] # Null
  /\ \A t \in DOMAIN transfers : resp[t].kind = "transfer_applied" \/ resp[t] = Unavailable
  /\ \A t \in Reversals : \E q \in Requests :
       AskedFor(q, t) /\ (resp[q].kind = "claim_applied" \/ resp[q] = Unavailable)

(* Who commits has its answer: that it is applied, or 503 already. *)
LEMMA CommitAnswers ==
  ASSUME IInv, NEW a \in Requests, Acts(a)
  PROVE  \/ UNCHANGED transfers
         \/ /\ pc[a] = "commit" /\ CommitTx(a) /\ pc'[a] = "done" /\ req'[a] = req[a]
            /\ \/ a \in gone /\ resp'[a] = resp[a]
               \/ resp'[a].kind = IF IsTransfer(a) THEN "transfer_applied" ELSE "claim_applied"
<1> USE DEF IInv, TypeOK
<1>1. CASE Commit(a)
  BY <1>1 DEF Commit, At, Answer, Reply
<1>2. CASE TransferStep(a) /\ ~Commit(a)
  BY <1>2 DEF TransferStep, Lookup, Begin, CheckWallet, InsertWallet, LockWallet, SumHolds,
       InsertTransfer, Settle, resolveExistingKey, LoadTransfer, MarkReversed, Reverse,
       resolveUnappliedClaim, ReadTransfer, tables
<1>3. CASE WalletStep(a)
  BY <1>3 DEF WalletStep, AccountExists, AccountAcquire, AccountInsert, AccountRead,
       GetBalance, tables
<1>4. CASE \E c \in Calls : Arrive(a, c)
  BY <1>4 DEF Arrive, tables
<1>5. CASE Abandon(a) \/ Reap(a) \/ ReapInsert(a)
  BY <1>5 DEF Abandon, Reap, ReapInsert, tables
<1>6. CASE ReapCommit(a)
  BY <1>6 DEF ReapCommit, End
<1> QED BY <1>1, <1>2, <1>3, <1>4, <1>5, <1>6 DEF Acts, Step

(* Only being cut off makes a request one of gone. *)
LEMMA GoneSteps ==
  ASSUME IInv, NEW a \in Requests, Acts(a), a \in gone', a \notin gone
  PROVE  resp'[a] = Unavailable /\ req'[a] = req[a]
<1> USE DEF IInv, TypeOK
<1>1. CASE TransferStep(a)
  BY <1>1 DEF TransferStep, Lookup, Begin, CheckWallet, InsertWallet, LockWallet, SumHolds,
       InsertTransfer, Settle, resolveExistingKey, LoadTransfer, MarkReversed, Reverse,
       resolveUnappliedClaim, Commit, ReadTransfer
<1>2. CASE WalletStep(a)
  BY <1>2 DEF WalletStep, AccountExists, AccountAcquire, AccountInsert, AccountRead, GetBalance
<1>3. CASE \E c \in Calls : Arrive(a, c)
  BY <1>3 DEF Arrive
<1>4. CASE Abandon(a)
  BY <1>4 DEF Abandon
<1>5. CASE Reap(a) \/ ReapCommit(a) \/ ReapInsert(a)
  BY <1>5 DEF Reap, ReapCommit, ReapInsert, End
<1> QED BY <1>1, <1>2, <1>3, <1>4, <1>5 DEF Acts, Step

(* A request that is over stays as it is. *)
LEMMA OverStays ==
  ASSUME IInv, [Next]_vars, NEW q \in Requests, pc[q] = "done"
  PROVE  pc'[q] = pc[q] /\ req'[q] = req[q] /\ resp'[q] = resp[q]
<1>1. q \notin gone
  BY DEF IInv, GoneOK, TxLabels
<1>2. CASE \E a \in Requests : Acts(a)
  <2>1. PICK a \in Requests : Acts(a)
    BY <1>2
  <2>2. a # q
    BY <1>1, <2>1, CallSteps
  <2> QED BY <2>1, <2>2, OthersRest DEF Rests
<1> QED BY <1>2, OneActor

LEMMA GoneFate ==
  ASSUME IInv, FateInv, [Next]_vars, NEW r \in gone'
  PROVE  resp'[r] = Unavailable /\ req'[r] # Null
<1>0. r \in Requests
  <2>1. TypeOK'
    BY NextInv DEF IInv
  <2> QED BY <2>1 DEF TypeOK
<1>1. CASE \E a \in Requests : Acts(a)
  <2>1. PICK a \in Requests : Acts(a)
    BY <1>1
  <2>2. CASE a # r
    BY <1>0, <2>1, <2>2, OthersRest DEF Rests, FateInv
  <2>3. CASE a = r /\ r \in gone
    BY <2>1, <2>3, CallSteps DEF FateInv
  <2>4. CASE a = r /\ r \notin gone
    <3>1. resp'[r] = Unavailable /\ req'[r] = req[r]
      BY <1>0, <2>1, <2>4, GoneSteps
    <3>2. pc'[r] \in TxLabels
      BY NextInv DEF IInv, GoneOK
    <3>3. req'[r] \in Calls
      BY <1>0, <3>2, NextInv DEF IInv, AtOK, OpAt, TxLabels
    <3> QED BY <3>1, <3>3, StoreAssumption
  <2> QED BY <2>2, <2>3, <2>4
<1>2. CASE UNCHANGED <<wallets, transfers, late, pc, req, tx, resp, gone>>
  BY <1>2 DEF FateInv
<1> QED BY <1>1, <1>2, OneActor

(* A committing request's answer, from the invariant. *)
LEMMA CommitFate ==
  ASSUME IInv, FateInv, NEW a \in Requests, Acts(a), transfers' # transfers
  PROVE  /\ pc[a] = "commit" /\ CommitTx(a) /\ pc'[a] = "done" /\ req'[a] = req[a]
         /\ req[a] # Null
         /\ \/ resp'[a] = Unavailable
            \/ resp'[a].kind = IF IsTransfer(a) THEN "transfer_applied" ELSE "claim_applied"
<1>1. pc[a] = "commit" => req[a] \in Calls
  BY DEF IInv, AtOK, OpAt
<1> QED BY <1>1, CommitAnswers, StoreAssumption DEF FateInv

LEMMA FateNext == IInv /\ FateInv /\ [Next]_vars => FateInv'
<1> SUFFICES ASSUME IInv, FateInv, [Next]_vars PROVE FateInv'
  OBVIOUS
<1>1. \A r \in gone' : resp'[r] = Unavailable /\ req'[r] # Null
  BY GoneFate
<1>2. ASSUME NEW t \in DOMAIN transfers'
      PROVE  resp'[t].kind = "transfer_applied" \/ resp'[t] = Unavailable
  <2>1. CASE t \in DOMAIN transfers
    <3>1. pc[t] = "done" /\ t \in Requests
      BY <2>1 DEF IInv, RowsOK, TypeOK
    <3> QED BY <2>1, <3>1, OverStays DEF FateInv
  <2>2. CASE t \notin DOMAIN transfers
    <3>1. PICK a \in Requests : Acts(a)
      BY <2>2, OneActor
    <3>2. pc[a] = "commit" /\ CommitTx(a) /\ transfers' # transfers
      BY <2>2, <3>1, CommitFate
    <3>3. IsTransfer(a) /\ t = a
      BY <2>2, <3>2, CommitWrites
    <3> QED BY <3>1, <3>2, <3>3, CommitFate
  <2> QED BY <2>1, <2>2
<1>3. ASSUME NEW t \in Reversals'
      PROVE  \E q \in Requests :
               AskedFor(q, t)' /\ (resp'[q].kind = "claim_applied" \/ resp'[q] = Unavailable)
  <2>0. t \in DOMAIN transfers' /\ transfers'[t].status = "reversed"
    BY DEF Reversals
  <2>1. CASE t \in Reversals
    <3>1. PICK q \in Requests : AskedFor(q, t) /\ (resp[q].kind = "claim_applied" \/ resp[q] = Unavailable)
      BY <2>1 DEF FateInv
    <3> QED BY <3>1, OverStays DEF AskedFor
  <2>2. CASE t \notin Reversals
    <3>0. transfers' # transfers
      BY <2>0, <2>2 DEF Reversals
    <3>1. PICK a \in Requests : Acts(a)
      BY <3>0, OneActor
    <3>2. pc[a] = "commit" /\ CommitTx(a)
      BY <3>0, <3>1, CommitFate
    <3>3. ~IsTransfer(a) /\ t = req[a].id /\ req[a].op = "claim"
      <4>1. CASE IsTransfer(a)
        <5>1. NewTransfer(a).status # "reversed"
          BY DEF NewTransfer
        <5> QED BY <2>0, <2>2, <3>2, <4>1, <5>1, CommitWrites DEF Reversals
      <4>2. CASE ~IsTransfer(a)
        BY <2>0, <2>2, <3>2, <4>2, CommitWrites DEF Reversals
      <4> QED BY <4>1, <4>2
    <3> QED BY <3>0, <3>1, <3>3, CommitFate DEF AskedFor
  <2> QED BY <2>1, <2>2
<1> QED BY <1>1, <1>2, <1>3 DEF FateInv

(* Every transfer is counted but those committed after a 503; every reversal
   is counted at most once, and at least once if none of its claims was
   answered 503. *)
THEOREM CountersTrue == Spec => []CountersExplained
<1>1. Init => FateInv
  BY DEF Init, FateInv, Reversals
<1>2. IInv /\ ReplyInv /\ FateInv => CountersExplained
  <2> SUFFICES ASSUME IInv, ReplyInv, FateInv PROVE CountersExplained
    OBVIOUS
  <2> DEFINE Applied == {r \in Requests : resp[r].kind = "transfer_applied"}
             Untold  == {t \in DOMAIN transfers : resp[t] = Unavailable}
             Claimed == {r \in Requests : resp[r].kind = "claim_applied"}
             Of      == [r \in Claimed |-> req[r].id]
  <2>0. DOMAIN transfers \subseteq Requests /\ Unavailable.kind = "service_unavailable"
    BY RejectionKind DEF IInv, TypeOK, Unavailable
  <2>1. /\ IsFiniteSet(Applied) /\ IsFiniteSet(Untold) /\ IsFiniteSet(Claimed)
        /\ IsFiniteSet(Reversals) /\ IsFiniteSet(ReversalsUntold)
    <3>1. /\ Applied \subseteq Requests /\ Untold \subseteq Requests /\ Claimed \subseteq Requests
          /\ Reversals \subseteq Requests /\ ReversalsUntold \subseteq Requests
      BY <2>0 DEF Reversals, ReversalsUntold
    <3> QED BY <3>1, StoreAssumption, FS_Subset
  <2>2. Cardinality(DOMAIN transfers) = TransfersApplied + Cardinality(Untold)
    <3>1. Applied \subseteq DOMAIN transfers
      BY DEF ReplyInv, ToldAt, TransferToldAt, TransferReplied
    <3>2. DOMAIN transfers = Applied \cup Untold /\ Applied \cap Untold = {}
      BY <2>0, <3>1 DEF FateInv
    <3>3. Cardinality(Applied \cup Untold) = Cardinality(Applied) + Cardinality(Untold)
      <4>1. Cardinality(Applied \cap Untold) = 0
        BY <3>2, FS_EmptySet
      <4>2. Cardinality(Applied) \in Nat /\ Cardinality(Untold) \in Nat
        BY <2>1, FS_CardinalityType
      <4>3. Cardinality(Applied \cup Untold) =
              Cardinality(Applied) + Cardinality(Untold) - Cardinality(Applied \cap Untold)
        BY <2>1, FS_Union
      <4> HIDE DEF Applied, Untold
      <4> QED BY <4>1, <4>2, <4>3
    <3> QED BY <3>2, <3>3 DEF TransfersApplied
  <2>3. Of \in Injection(Claimed, Reversals)
    <3>1. \A r \in Claimed : req[r].id \in Reversals
      BY DEF ReplyInv, ToldAt, ClaimToldAt, ClaimReplied, Reversals, tr
    <3>2. \A q, r \in Claimed : req[q].id = req[r].id => q = r
      BY DEF ReplyInv, OneClaimApplied
    <3> QED BY <3>1, <3>2 DEF Injection, IsInjective
  <2>4. Cardinality(Claimed) <= Cardinality(Reversals)
    BY <2>1, <2>3, FS_Injection
  <2>5. Cardinality(Reversals) <= Cardinality(Claimed) + Cardinality(ReversalsUntold)
    <3> DEFINE Image == {Of[r] : r \in Claimed}
    <3>1. Reversals \subseteq Image \cup ReversalsUntold
      BY DEF FateInv, AskedFor, ReversalsUntold
    <3>2. Of \in Surjection(Claimed, Image)
      BY DEF Surjection
    <3>3. IsFiniteSet(Image) /\ Cardinality(Image) <= Cardinality(Claimed)
      BY <2>1, <3>2, FS_Surjection
    <3> HIDE DEF Image, Claimed
    <3>4. /\ IsFiniteSet(Image \cup ReversalsUntold)
          /\ Cardinality(Image \cup ReversalsUntold) =
               Cardinality(Image) + Cardinality(ReversalsUntold) - Cardinality(Image \cap ReversalsUntold)
      BY <2>1, <3>3, FS_Union
    <3>5. IsFiniteSet(Image \cap ReversalsUntold)
      BY <2>1, FS_Intersection
    <3>6. Cardinality(Reversals) <= Cardinality(Image \cup ReversalsUntold)
      BY <3>1, <3>4, FS_Subset
    <3>7. /\ Cardinality(Image) \in Nat /\ Cardinality(ReversalsUntold) \in Nat
          /\ Cardinality(Image \cap ReversalsUntold) \in Nat /\ Cardinality(Reversals) \in Nat
          /\ Cardinality(Claimed) \in Nat
      BY <2>1, <3>3, <3>5, FS_CardinalityType
    <3> QED BY <3>3, <3>4, <3>6, <3>7
  <2> QED BY <2>2, <2>4, <2>5 DEF CountersExplained, ClaimsApplied
<1> QED BY <1>1, <1>2, FateNext, Invariance, RepliesTrue, PTL DEF Spec
=============================================================================
