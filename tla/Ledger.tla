------------------------------- MODULE Ledger -------------------------------
(***************************************************************************)
(* What the wallet service promises, without statements, locks, pools,     *)
(* retries or failures: a ledger in which a wallet opens with the seed, a  *)
(* transfer moves money that is there and uses up its key, and a transfer  *)
(* is reversed at most once.  Each of these is one atomic step.            *)
(***************************************************************************)
EXTENDS Integers, FiniteSets, Money

CONSTANTS Users, Ids, Keys, Seed,
          Amounts   \* the amounts a transfer may have

VARIABLES wallets, transfers

ledger == <<wallets, transfers>>

(* What the promise takes for granted of its constants. *)
LedgerAssumption ==
  IsFiniteSet(Users) /\ IsFiniteSet(Ids) /\ Seed \in Nat /\ Amounts \subseteq Nat \ {0}

Row == [sender : Users, recipient : Users, amount : Amounts, key : Keys,
        status : {"completed", "reversed"}]

LedgerTypeOK ==
  /\ DOMAIN wallets \in SUBSET Users /\ wallets \in [DOMAIN wallets -> Nat]
  /\ DOMAIN transfers \in SUBSET Ids /\ transfers \in [DOMAIN transfers -> Row]
  /\ \A t \in DOMAIN transfers :
       /\ transfers[t].sender # transfers[t].recipient
       /\ {transfers[t].sender, transfers[t].recipient} \subseteq DOMAIN wallets

Init == /\ wallets = [u \in {} |-> 0]
        /\ transfers = [t \in {} |-> 0]

(* A wallet that is not there yet has the seed as its balance. *)
Balance(u) == IF u \in DOMAIN wallets THEN wallets[u] ELSE Seed

Open(u) ==
  /\ u \notin DOMAIN wallets
  /\ wallets' = [v \in DOMAIN wallets \cup {u} |-> Balance(v)]
  /\ UNCHANGED transfers

Moved(s, r, a) == [u \in DOMAIN wallets \cup {s, r} |->
                     IF u = s THEN Balance(u) - a
                     ELSE IF u = r THEN Balance(u) + a ELSE Balance(u)]

HasFunds(u, a) == a <= Balance(u)

KeyUnused(s, k) ==
  \A o \in DOMAIN transfers : transfers[o].sender = s => transfers[o].key # k

Move(t, s, r, a, k) ==
  /\ t \notin DOMAIN transfers /\ s # r
  /\ HasFunds(s, a) /\ KeyUnused(s, k)
  /\ wallets' = Moved(s, r, a)
  /\ transfers' = [o \in DOMAIN transfers \cup {t} |->
                     IF o = t THEN [sender |-> s, recipient |-> r, amount |-> a,
                                    key |-> k, status |-> "completed"]
                     ELSE transfers[o]]

ReverseMove(t) ==
  LET row == transfers[t] IN
  /\ t \in DOMAIN transfers /\ row.status = "completed"
  /\ HasFunds(row.recipient, row.amount)
  /\ wallets' = Moved(row.recipient, row.sender, row.amount)
  /\ transfers' = [transfers EXCEPT ![t].status = "reversed"]

Next ==
  \/ \E u \in Users : Open(u)
  \/ \E t \in Ids, s, r \in Users, a \in Amounts, k \in Keys : Move(t, s, r, a, k)
  \/ \E t \in Ids : ReverseMove(t)

Spec == Init /\ [][Next]_ledger

(***************************************************************************)
(* Properties                                                              *)
(***************************************************************************)
amountOf == [t \in DOMAIN transfers |-> transfers[t].amount]
Completed == {t \in DOMAIN transfers : transfers[t].status = "completed"}
Sent(u)     == {t \in Completed : transfers[t].sender = u}
Received(u) == {t \in Completed : transfers[t].recipient = u}

(* Every balance is explained by the history: the seed, plus what the
   completed transfers brought in, minus what they took out. *)
Reconciled ==
  \A u \in DOMAIN wallets :
    wallets[u] + Total(amountOf, Sent(u)) = Seed + Total(amountOf, Received(u))

(* Money is neither created nor lost: all balances together are the seeds. *)
Conserved ==
  Total(wallets, DOMAIN wallets) = Seed * Cardinality(DOMAIN wallets)

(* A sender's key names at most one transfer. *)
KeysUnique ==
  \A s, t \in DOMAIN transfers :
    (transfers[s].sender = transfers[t].sender /\ transfers[s].key = transfers[t].key)
      => s = t
=============================================================================
