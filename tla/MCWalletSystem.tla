--------------------------- MODULE MCWalletSystem ---------------------------
(***************************************************************************)
(* The calls of the model-checking runs of WalletSystem.                   *)
(***************************************************************************)
EXTENDS WalletInvariants, TLC, FiniteSetsExt

CONSTANTS k1, k2

(* Total counts the same sum as adding the amounts up one by one. *)
ASSUME TotalIsSum ==
  \A f \in [1 .. 3 -> 0 .. 3] : \A S \in SUBSET (1 .. 3) :
    Total(f, S) = MapThenSumSet(LAMBDA x : f[x], S)

Pay(s, d, a, k) == [op |-> "transfer", caller |-> s, to |-> d, amount |-> a, key |-> k]
Claim(u, t) == [op |-> "claim", caller |-> u, id |-> t]
Read(u, t)  == [op |-> "read", caller |-> u, id |-> t]
Account(u)  == [op |-> "account", caller |-> u]
Balances(u) == [op |-> "balance", caller |-> u]

(* Retries, a reused key, overdrafts, both directions, wallet creation, and
   the calls that are turned away at once. *)
TransferCalls == {Pay(1, 2, 1, k1), Pay(1, 2, 2, k1), Pay(2, 1, 2, k1),
                  Pay(2, 1, 1, k2), Pay(1, 2, 0, k1), Pay(1, 2, 1, BadKey),
                  Pay(1, Null, 1, k1), Pay(1, 1, 1, k1),
                  Account(1), Account(2), Balances(1)}

(* A transfer, its claims, what the recipient does with the money, reads. *)
ClaimCalls == {Pay(1, 2, 1, k1), Pay(2, 1, 2, k1)}
              \cup {Claim(1, t) : t \in Requests}
              \cup {Read(2, t) : t \in Requests}

(* Payments around a ring of three users, in both directions. *)
RingCalls == {Pay(1, 2, 1, k1), Pay(2, 3, 1, k1), Pay(3, 1, 1, k1),
              Pay(2, 1, 1, k2), Account(2)}
             \cup {Claim(1, t) : t \in Requests}

(* What a fair scheduler must get through: lock waits in both directions, a
   duplicate key, a race to create a wallet.  All claims are of one transfer:
   with three requests no second transfer can be claimed as well, and which of
   them it is makes no difference. *)
FairCalls == {Pay(1, 2, 1, k1), Pay(2, 1, 1, k1), Account(2),
              Claim(1, CHOOSE t \in Requests : TRUE)}

Symmetry == Permutations(Requests)
=============================================================================
