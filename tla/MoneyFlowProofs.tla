-------------------------- MODULE MoneyFlowProofs ---------------------------
(***************************************************************************)
(* The money of the service, from commit to commit: the holds on what was  *)
(* received are covered, and the service implements the ledger.            *)
(***************************************************************************)
EXTENDS WalletSystemProofs

(***************************************************************************)
(* The hold on received money: what senders may still claim back is in the *)
(* recipient's wallet, up to the reversals that committed late.            *)
(***************************************************************************)

LateTotal(u) == Total(amountOf(transfers), LateReversals(u))

(* The sum over the late reversals is a natural number. *)
LEMMA LateType ==
  ASSUME IInv, NEW u
  PROVE  /\ LateTotal(u) \in Nat /\ IsFiniteSet(LateReversals(u))
         /\ \A t \in LateReversals(u) : amountOf(transfers)[t] \in Nat
<1>1. LateReversals(u) \subseteq Requests /\ LateReversals(u) \subseteq DOMAIN transfers
  BY DEF LateReversals, IInv, TypeOK
<1>2. IsFiniteSet(LateReversals(u))
  BY <1>1, FS_Subset, StoreAssumption
<1>3. \A t \in LateReversals(u) : amountOf(transfers)[t] \in Nat
  BY <1>1 DEF amountOf, IInv, TypeOK, Transfer
<1> QED BY <1>2, <1>3, TotalNat DEF LateTotal

LEMMA HeldType ==
  ASSUME IInv, NEW u, NEW n PROVE SumActiveHolds(u, n, Window) \in Nat
BY HoldsType

(* Nobody has paid a user who has no wallet. *)
LEMMA NoWalletNoHolds ==
  ASSUME IInv, NEW u, u \notin DOMAIN wallets, NEW n
  PROVE  SumActiveHolds(u, n, Window) = 0
<1>1. ActiveHolds(transfers, u, n, Window) = {}
  BY DEF ActiveHolds, IInv, RowsOK
<1> QED BY <1>1, TotalEmpty DEF SumActiveHolds

(* The sums of the late reversals after a commit, for everyone but the
   recipient of a late claim. *)
LEMMA CommitKeepsLate ==
  ASSUME IInv, NEW r \in Requests, pc[r] = "commit", CommitTx(r), NEW u,
         u # recipientID(r) \/ late' = late
  PROVE  LateTotal(u)' = LateTotal(u)
<1>1. PICK w \in DOMAIN transfers' :
        /\ \A t \in DOMAIN transfers \ {w} : transfers'[t] = transfers[t]
        /\ transfers'[w].recipient = recipientID(r)
        /\ w \in DOMAIN transfers => /\ transfers[w].recipient = recipientID(r)
                                     /\ transfers'[w].amount = transfers[w].amount
        /\ DOMAIN transfers' = DOMAIN transfers \cup {w}
        /\ late' = late \/ late' = late \cup {w}
  BY CommitRow
<1>2. late \subseteq DOMAIN transfers
  BY DEF IInv, TypeOK
<1>3. (LateReversals(u))' = LateReversals(u)
  BY <1>1, <1>2 DEF LateReversals
<1>4. \A t \in LateReversals(u) : amountOf(transfers')[t] = amountOf(transfers)[t]
  BY <1>1, <1>2 DEF LateReversals, amountOf
<1>5. Total(amountOf(transfers'), LateReversals(u)) = Total(amountOf(transfers), LateReversals(u))
  BY <1>4, TotalEqual
<1> QED BY <1>3, <1>5 DEF LateTotal

(* A committed transfer adds at most its amount to the recipient's holds. *)
LEMMA TransferAddsHold ==
  ASSUME IInv, NEW r \in Requests, pc[r] = "commit", CommitTx(r), IsTransfer(r),
         NEW u, u = recipientID(r), NEW n
  PROVE  SumActiveHolds(u, n, Window)' <= SumActiveHolds(u, n, Window) + amountPaise(r)
<1> DEFINE H == ActiveHolds(transfers, u, n, Window)
           f == amountOf(transfers')
<1>1. r \notin DOMAIN transfers
  BY FreshId
<1>2. transfers' = [t \in DOMAIN transfers \cup {r} |->
                      IF t = r THEN NewTransfer(r) ELSE transfers[t]]
  BY DEF CommitTx
<1>3. NewTransfer(r).amount = amountPaise(r)
  BY DEF NewTransfer
<1>4. ActiveHolds(transfers', u, n, Window) \subseteq H \cup {r} /\ r \notin H
  BY <1>1, <1>2 DEF ActiveHolds, Active
<1>5. f[r] = amountPaise(r) /\ \A t \in H : f[t] = amountOf(transfers)[t]
  BY <1>1, <1>2, <1>3 DEF amountOf, ActiveHolds
<1>6. IsFiniteSet(H) /\ \A t \in H : amountOf(transfers)[t] \in Nat
  BY HoldsType
<1>7. amountPaise(r) \in Nat
  BY CommitFacts
<1>8. \A t \in H \cup {r} : f[t] \in Nat
  BY <1>5, <1>6, <1>7
<1>9. IsFiniteSet(H \cup {r})
  BY <1>6, FS_AddElement
<1> HIDE DEF f, H
<1>10. Total(f, H \cup {r}) = Total(f, H) + f[r]
  BY <1>4, <1>6, <1>8, TotalAdd
<1>11. Total(f, ActiveHolds(transfers', u, n, Window)) <= Total(f, H \cup {r})
  BY <1>4, <1>8, <1>9, TotalSubset
<1>12. Total(f, H) = Total(amountOf(transfers), H)
  BY <1>5, TotalEqual
<1>13. Total(f, ActiveHolds(transfers', u, n, Window)) <= Total(amountOf(transfers), H) + amountPaise(r)
  BY <1>5, <1>10, <1>11, <1>12
<1>14. SumActiveHolds(u, n, Window) = Total(amountOf(transfers), H)
  BY DEF SumActiveHolds, H
<1>15. SumActiveHolds(u, n, Window)' = Total(f, ActiveHolds(transfers', u, n, Window))
  BY DEF SumActiveHolds, f
<1> QED BY <1>13, <1>14, <1>15

(* A claim that commits in time takes its amount out of the holds; a late one
   adds it to the late reversals. *)
LEMMA ClaimTakesHold ==
  ASSUME IInv, NEW r \in Requests, pc[r] = "commit", CommitTx(r), ~IsTransfer(r),
         NEW u, u = recipientID(r), NEW n, n = clock
  PROVE  \/ /\ SumActiveHolds(u, n, Window) = SumActiveHolds(u, n, Window)' + amountPaise(r)
            /\ LateTotal(u)' = LateTotal(u)
         \/ /\ SumActiveHolds(u, n, Window) = SumActiveHolds(u, n, Window)'
            /\ LateTotal(u)' = LateTotal(u) + amountPaise(r)
<1> DEFINE w == req[r].id
           f == amountOf(transfers)
           g == amountOf(transfers')
           H == ActiveHolds(transfers, u, n, Window)
           K == ActiveHolds(transfers', u, n, Window)
<1>1. /\ w \in DOMAIN transfers /\ transfers[w] \in Transfer
      /\ transfers[w].status = "completed" /\ transfers[w].recipient = u
      /\ transfers[w].amount = amountPaise(r) /\ w \notin late
  BY CommitFacts DEF IInv, TypeOK, RowsOK, AtOK, ClaimAt, DecidedAt, IsTransfer, tr, recipientID,
       amountPaise
<1>2. transfers' = [transfers EXCEPT ![w] = Reversed(r)]
      /\ late' = IF Active(transfers[w], n, Window) THEN late ELSE late \cup {w}
  BY DEF CommitTx, tr
<1>3. /\ Reversed(r).recipient = u /\ Reversed(r).status = "reversed"
      /\ Reversed(r).amount = amountPaise(r)
  BY <1>1 DEF Reversed, tr, Transfer
<1>4. K = H \ {w}
  BY <1>1, <1>2, <1>3 DEF ActiveHolds, Active
<1>5. (w \in H) <=> Active(transfers[w], n, Window)
  BY <1>1 DEF ActiveHolds
<1>6. f[w] = amountPaise(r) /\ \A t \in DOMAIN transfers : g[t] = f[t]
  BY <1>1, <1>2, <1>3 DEF amountOf
<1>7. IsFiniteSet(H) /\ (\A t \in H : f[t] \in Nat) /\ H \subseteq DOMAIN transfers
      /\ amountPaise(r) \in Nat
  <2>1. IsFiniteSet(H) /\ (\A t \in H : f[t] \in Nat)
    BY HoldsType
  <2>2. H \subseteq DOMAIN transfers
    BY DEF ActiveHolds
  <2>3. amountPaise(r) \in Nat
    BY CommitFacts
  <2> QED BY <2>1, <2>2, <2>3
<1>8. SumActiveHolds(u, n, Window) = Total(f, H) /\ SumActiveHolds(u, n, Window)' = Total(g, K)
  BY DEF SumActiveHolds
<1>9. CASE Active(transfers[w], n, Window)
  <2>1. Total(f, H) = Total(f, H \ {w}) + amountPaise(r)
    <3> HIDE DEF w, f, H
    <3> QED BY <1>5, <1>6, <1>7, <1>9, TotalRemove
  <2>2. Total(g, K) = Total(f, K)
    <3>1. \A t \in K : g[t] = f[t]
      BY <1>4, <1>6, <1>7
    <3> HIDE DEF f, g, K
    <3> QED BY <3>1, TotalEqual
  <2>3. LateTotal(u)' = LateTotal(u)
    BY <1>2, <1>9, CommitKeepsLate
  <2> HIDE DEF f, g, H, K, w
  <2> QED BY <1>4, <1>8, <2>1, <2>2, <2>3
<1>10. CASE ~Active(transfers[w], n, Window)
  <2>1. K = H
    BY <1>4, <1>5, <1>10
  <2>2. Total(g, H) = Total(f, H)
    <3>1. \A t \in H : g[t] = f[t]
      BY <1>6, <1>7
    <3> HIDE DEF f, g, H
    <3> QED BY <3>1, TotalEqual
  <2> DEFINE M == LateReversals(u)
  <2>3. (LateReversals(u))' = M \cup {w} /\ w \notin M
    BY <1>1, <1>2, <1>3, <1>10 DEF LateReversals, IInv, TypeOK
  <2>4. IsFiniteSet(M) /\ (\A t \in M : f[t] \in Nat) /\ M \subseteq DOMAIN transfers
    BY LateType DEF LateReversals, IInv, TypeOK
  <2>5. \A t \in M \cup {w} : g[t] = f[t] /\ f[t] \in Nat
    BY <1>1, <1>6, <1>7, <2>4
  <2>6. LateTotal(u) = Total(f, M) /\ LateTotal(u)' = Total(g, M \cup {w})
    BY <2>3 DEF LateTotal
  <2> HIDE DEF f, g, H, K, w, M
  <2>7. Total(g, M \cup {w}) = Total(f, M \cup {w})
    BY <2>5, TotalEqual
  <2>8. Total(f, M \cup {w}) = Total(f, M) + f[w]
    BY <2>3, <2>4, <2>5, TotalAdd
  <2>9. LateTotal(u)' = LateTotal(u) + amountPaise(r)
    BY <1>6, <2>6, <2>7, <2>8
  <2> QED BY <1>8, <2>1, <2>2, <2>9
<1> QED BY <1>9, <1>10

(* Every commit keeps the holds covered. *)
LEMMA CommitCovers ==
  ASSUME IInv, HoldsCoveredButLate, NEW r \in Requests, pc[r] = "commit", CommitTx(r),
         IInv', NEW u \in DOMAIN wallets', NEW n, n = clock
  PROVE  wallets'[u] + LateTotal(u)' >= SumActiveHolds(u, n, Window)'
<1> DEFINE s == senderID(r)
           d == recipientID(r)
           a == amountPaise(r)
<1>1. /\ LateTotal(u) \in Nat /\ SumActiveHolds(u, n, Window) \in Nat /\ a \in Nat
      /\ s # d /\ clock' = clock
  BY LateType, HoldsType, CommitFacts DEF CommitTx
<1>2. LateTotal(u)' \in Nat /\ SumActiveHolds(u, n, Window)' \in Nat
  <2>1. \A v : LateTotal(v) \in Nat BY LateType
  <2>2. (IInv => LateTotal(u) \in Nat)'
    BY LateType, PTL
  <2>3. (IInv => SumActiveHolds(u, n, Window) \in Nat)'
    BY HeldType, PTL
  <2> QED BY <2>2, <2>3
<1>3. u \in DOMAIN wallets => wallets[u] \in Nat /\ wallets[u] + LateTotal(u) >= SumActiveHolds(u, n, Window)
  BY DEF HoldsCoveredButLate, LateTotal, IInv, TypeOK
<1>4. CASE u \notin {s, d}
  <2>1. u \in DOMAIN wallets /\ wallets'[u] = wallets[u]
    BY <1>4, CommitBalances
  <2>2. SumActiveHolds(u, n, Window)' = SumActiveHolds(u, n, Window) /\ LateTotal(u)' = LateTotal(u)
    BY <1>4, CommitKeepsHolds, CommitKeepsLate
  <2> QED BY <1>3, <2>1, <2>2
<1>5. CASE u = s
  <2>1. SumActiveHolds(u, n, Window)' = SumActiveHolds(u, n, Window) /\ LateTotal(u)' = LateTotal(u)
    BY <1>1, <1>5, CommitKeepsHolds, CommitKeepsLate
  <2>2. CASE IsTransfer(r)
    <3>1. wallets'[s] = senderAfter(r)
      BY CommitFacts DEF CommitTx
    <3>2. senderAfter(r) >= tx[r].held /\ tx[r].held >= SumActiveHolds(s, n, Window)
      BY <2>2 DEF IInv, AtOK, DecidedAt, IsTransfer
    <3>3. senderAfter(r) \in Int /\ tx[r].held \in Nat
      BY CommitFacts, StoreAssumption DEF IInv, TypeOK, Tx
    <3> QED BY <1>1, <1>5, <2>1, <3>1, <3>2, <3>3
  <2>3. CASE ~IsTransfer(r)
    <3>1. s \in DOMAIN wallets
      <4>1. req[r].id \in DOMAIN transfers /\ tr(r).sender = s
        BY <2>3, CommitFacts DEF IInv, AtOK, ClaimAt, OpAt, IsTransfer, senderID
      <4>2. tr(r).sender \in DOMAIN wallets
        BY <4>1 DEF IInv, RowsOK, tr
      <4> QED BY <4>1, <4>2
    <3>2. wallets'[s] = wallets[s] + a
      BY <2>3, <3>1, CommitBalances DEF LockedBalance
    <3> QED BY <1>1, <1>3, <1>5, <2>1, <3>1, <3>2
  <2> QED BY <2>2, <2>3
<1>6. CASE u = d
  <2>1. CASE IsTransfer(r)
    <3>1. wallets'[d] = LockedBalance(r, d) + a /\ LockedBalance(r, d) \in Nat
      BY <2>1, CommitBalances
    <3>2. SumActiveHolds(u, n, Window)' <= SumActiveHolds(u, n, Window) + a
      BY <1>6, <2>1, TransferAddsHold
    <3>3. LateTotal(u)' = LateTotal(u)
      BY <2>1, CommitKeepsLate DEF CommitTx
    <3>4. LockedBalance(r, d) + LateTotal(u) >= SumActiveHolds(u, n, Window)
      <4>1. CASE d \in DOMAIN wallets
        BY <1>3, <1>6, <4>1 DEF LockedBalance
      <4>2. CASE d \notin DOMAIN wallets
        BY <1>1, <1>6, <3>1, <4>2, NoWalletNoHolds
      <4> QED BY <4>1, <4>2
    <3> QED BY <1>1, <1>2, <1>6, <3>1, <3>2, <3>3, <3>4
  <2>2. CASE ~IsTransfer(r)
    <3>1. d \in DOMAIN wallets
      BY <2>2, CommitFacts DEF IInv, AtOK, ClaimAt, RowsOK, IsTransfer, recipientID, tr
    <3>2. wallets'[d] = wallets[d] - a
      BY <2>2, <3>1, CommitBalances DEF LockedBalance
    <3>3. \/ /\ SumActiveHolds(u, n, Window) = SumActiveHolds(u, n, Window)' + a
             /\ LateTotal(u)' = LateTotal(u)
          \/ /\ SumActiveHolds(u, n, Window) = SumActiveHolds(u, n, Window)'
             /\ LateTotal(u)' = LateTotal(u) + a
      BY <1>6, <2>2, ClaimTakesHold
    <3> QED BY <1>1, <1>2, <1>3, <1>6, <3>1, <3>2, <3>3
  <2> QED BY <2>1, <2>2
<1> QED BY <1>4, <1>5, <1>6

(* No step uncovers a hold. *)
LEMMA HoldsNext ==
  IInv /\ HoldsCoveredButLate /\ [Next]_vars /\ IInv' => HoldsCoveredButLate'
<1> SUFFICES ASSUME IInv, HoldsCoveredButLate, [Next]_vars, IInv'
             PROVE  HoldsCoveredButLate'
  OBVIOUS
<1>1. CASE UNCHANGED tables
  BY <1>1 DEF HoldsCoveredButLate, LateReversals, SumActiveHolds, tables
<1>2. CASE Tick
  <2>1. clock \in Nat /\ clock' \in Nat /\ clock <= clock'
    BY <1>2 DEF Tick, IInv, TypeOK
  <2> SUFFICES ASSUME NEW u \in DOMAIN wallets
               PROVE  wallets[u] + LateTotal(u) >= SumActiveHolds(u, clock', Window)
    BY <1>2 DEF Tick, HoldsCoveredButLate, LateTotal, LateReversals, SumActiveHolds
  <2>2. /\ SumActiveHolds(u, clock', Window) <= SumActiveHolds(u, clock, Window)
        /\ SumActiveHolds(u, clock, Window) \in Nat /\ SumActiveHolds(u, clock', Window) \in Nat
    BY <2>1, HoldsShrink, HoldsType, StoreAssumption
  <2>3. wallets[u] + LateTotal(u) >= SumActiveHolds(u, clock, Window)
    BY DEF HoldsCoveredButLate, LateTotal
  <2>4. wallets[u] \in Nat /\ LateTotal(u) \in Nat
    BY LateType DEF IInv, TypeOK
  <2> QED BY <2>2, <2>3, <2>4
<1>3. CASE \E v \in Users : OpenWallet(v) /\ UNCHANGED <<clock, transfers, late>>
  <2>1. PICK v \in Users : OpenWallet(v) /\ UNCHANGED <<clock, transfers, late>>
    BY <1>3
  <2> SUFFICES ASSUME NEW u \in DOMAIN wallets'
               PROVE  wallets'[u] + LateTotal(u) >= SumActiveHolds(u, clock, Window)
    BY <2>1 DEF HoldsCoveredButLate, LateTotal, LateReversals, SumActiveHolds
  <2>2. CASE u \in DOMAIN wallets
    BY <2>1, <2>2 DEF OpenWallet, HoldsCoveredButLate, LateTotal
  <2>3. CASE u \notin DOMAIN wallets
    <3>1. wallets'[u] = Seed /\ Seed \in Nat
      BY <2>1, <2>3, StoreAssumption DEF OpenWallet
    <3>2. SumActiveHolds(u, clock, Window) = 0 /\ LateTotal(u) \in Nat
      BY <2>3, NoWalletNoHolds, LateType
    <3> QED BY <3>1, <3>2
  <2> QED BY <2>2, <2>3
<1>4. CASE \E r \in Requests : pc[r] = "commit" /\ CommitTx(r)
  <2>1. PICK r \in Requests : pc[r] = "commit" /\ CommitTx(r)
    BY <1>4
  <2>2. clock' = clock
    BY <2>1 DEF CommitTx
  <2> SUFFICES ASSUME NEW u \in DOMAIN wallets', NEW n, n = clock
               PROVE  wallets'[u] + LateTotal(u)' >= SumActiveHolds(u, n, Window)'
    BY <2>2 DEF HoldsCoveredButLate, LateTotal, SumActiveHolds
  <2> QED BY <2>1, CommitCovers
<1> QED BY <1>1, <1>2, <1>3, <1>4, TableSteps

(* The money that senders may still claim from a wallet is in it, but for what
   late reversals took: the only gap in the guarantee that Execute's check
   against SumActiveHolds is there to give, for any users, requests, amounts,
   window and timing. *)
THEOREM HoldsCoverage == Spec => []HoldsCoveredButLate
<1>1. Init => HoldsCoveredButLate
  BY DEF Init, HoldsCoveredButLate
<1>2. IInv /\ HoldsCoveredButLate /\ [Next]_vars /\ IInv' => HoldsCoveredButLate'
  BY HoldsNext
<1> QED BY <1>1, <1>2, Invariance, PTL DEF Spec

(***************************************************************************)
(* The service implements the ledger: each step of WalletSystem is one     *)
(* step of Ledger, or leaves wallets and LedgerRows unchanged.             *)
(***************************************************************************)

(* A row as the ledger sees it. *)
LedgerRow(row) == [sender |-> row.sender, recipient |-> row.recipient,
                   amount |-> row.amount, key |-> row.key, status |-> row.status]

(* The ledger's rows are the rows of the table. *)
LEMMA LedgerRowsFacts ==
  /\ DOMAIN LedgerRows = DOMAIN transfers
  /\ \A t \in DOMAIN transfers : LedgerRows[t] = LedgerRow(transfers[t])
BY DEF LedgerRows, LedgerRow

(* The wallet rows a transaction has locked are the balances of the ledger. *)
LEMMA BalanceIsLocked ==
  ASSUME NEW r, NEW u PROVE L!Balance(u) = LockedBalance(r, u)
BY DEF L!Balance, LockedBalance

(* The commit of a transfer is one Move, of money that is there, under a key
   the sender has not used. *)
LEMMA CommitIsMove ==
  ASSUME IInv, NEW r \in Requests, pc[r] = "commit", CommitTx(r), IsTransfer(r)
  PROVE  L!Next
<1> DEFINE s == senderID(r)
           d == recipientID(r)
           a == amountPaise(r)
           k == req[r].key
<1>1. /\ s \in Users /\ d \in Users /\ s # d /\ a \in 1 .. MaxInt64
      /\ a \in Nat
  BY CommitFacts, StoreAssumption
<1>2. k \in Keys
  <2>1. req[r] \in TransferCall
    BY StoreAssumption, CommitFacts DEF IInv, AtOK, OpAt, IsTransfer, TransferCall, IdCall, UserCall
  <2>2. k # BadKey
    BY DEF IInv, AtOK, TransferAt, ValidTransfer, IsTransfer
  <2> QED BY <2>1, <2>2 DEF TransferCall
<1>3. r \notin DOMAIN transfers
  BY FreshId
<1>4. L!HasFunds(s, a)
  <2>1. wallets'[s] = LockedBalance(r, s) - a /\ wallets'[s] \in Nat /\ LockedBalance(r, s) \in Nat
    BY CommitBalances
  <2> QED BY <1>1, <2>1, BalanceIsLocked DEF L!HasFunds
<1>5. L!KeyUnused(s, k)
  <2>1. RowsOfKey(s, k) = {}
    BY DEF IInv, AtOK, DecidedAt, IsTransfer
  <2> QED BY <2>1, LedgerRowsFacts DEF L!KeyUnused, RowsOfKey, LedgerRow
<1>6. wallets' = L!Moved(s, d, a)
  <2>1. /\ DOMAIN wallets' = DOMAIN wallets \cup {s, d}
        /\ wallets'[s] = LockedBalance(r, s) - a /\ wallets'[d] = LockedBalance(r, d) + a
        /\ \A u \in DOMAIN wallets \ {s, d} : wallets'[u] = wallets[u]
    BY CommitBalances
  <2>2. wallets' = [u \in DOMAIN wallets' |-> wallets'[u]]
    BY CommitTables
  <2>3. \A u \in DOMAIN wallets \ {s, d} : L!Balance(u) = wallets[u]
    BY DEF L!Balance
  <2>4. \A u \in DOMAIN wallets \cup {s, d} :
          wallets'[u] = IF u = s THEN L!Balance(u) - a
                        ELSE IF u = d THEN L!Balance(u) + a ELSE L!Balance(u)
    BY <1>1, <2>1, <2>3, BalanceIsLocked
  <2> HIDE DEF s, d, a
  <2> QED BY <2>1, <2>2, <2>4 DEF L!Moved
<1>7. LedgerRows' = [o \in DOMAIN LedgerRows \cup {r} |->
                       IF o = r THEN [sender |-> s, recipient |-> d, amount |-> a,
                                      key |-> k, status |-> "completed"]
                       ELSE LedgerRows[o]]
  <2>1. transfers' = [t \in DOMAIN transfers \cup {r} |->
                        IF t = r THEN NewTransfer(r) ELSE transfers[t]]
    BY DEF CommitTx
  <2>2. LedgerRow(NewTransfer(r)) = [sender |-> s, recipient |-> d, amount |-> a,
                                     key |-> k, status |-> "completed"]
    BY DEF LedgerRow, NewTransfer
  <2>3. LedgerRows' = [t \in DOMAIN transfers' |-> LedgerRow(transfers'[t])]
    BY DEF LedgerRows, LedgerRow
  <2> HIDE DEF s, d, a, k
  <2> QED BY <2>1, <2>2, <2>3, LedgerRowsFacts
<1>8. L!Move(r, s, d, a, k)
  BY <1>1, <1>3, <1>4, <1>5, <1>6, <1>7, LedgerRowsFacts DEF L!Move
<1> HIDE DEF s, d, a, k
<1> QED BY <1>1, <1>2, <1>8 DEF L!Next

(* The commit of a claim is the one reversal of a completed transfer. *)
LEMMA CommitIsReversal ==
  ASSUME IInv, NEW r \in Requests, pc[r] = "commit", CommitTx(r), ~IsTransfer(r)
  PROVE  L!Next
<1> DEFINE w == req[r].id
           s == senderID(r)
           d == recipientID(r)
           a == amountPaise(r)
<1>1. /\ w \in DOMAIN transfers /\ w \in Requests /\ transfers[w] \in Transfer
      /\ transfers[w].status = "completed" /\ transfers[w].sender = s
      /\ transfers[w].recipient = d /\ transfers[w].amount = a
  BY CommitFacts DEF IInv, TypeOK, AtOK, ClaimAt, DecidedAt, IsTransfer, tr, senderID,
       recipientID, amountPaise
<1>2. /\ LedgerRows[w].sender = s /\ LedgerRows[w].recipient = d
      /\ LedgerRows[w].amount = a /\ LedgerRows[w].status = "completed"
      /\ w \in DOMAIN LedgerRows
  BY <1>1, LedgerRowsFacts DEF LedgerRow
<1>3. s # d /\ a \in Nat
  BY CommitFacts
<1>4. L!HasFunds(d, a)
  <2>1. wallets'[d] = LockedBalance(r, d) - a /\ wallets'[d] \in Nat /\ LockedBalance(r, d) \in Nat
    BY CommitBalances
  <2> QED BY <1>3, <2>1, BalanceIsLocked DEF L!HasFunds
<1>5. wallets' = L!Moved(d, s, a)
  <2>1. /\ DOMAIN wallets' = DOMAIN wallets \cup {s, d}
        /\ wallets'[s] = LockedBalance(r, s) + a /\ wallets'[d] = LockedBalance(r, d) - a
        /\ \A u \in DOMAIN wallets \ {s, d} : wallets'[u] = wallets[u]
    BY CommitBalances
  <2>2. wallets' = [u \in DOMAIN wallets' |-> wallets'[u]]
    BY CommitTables
  <2>3. \A u \in DOMAIN wallets \ {s, d} : L!Balance(u) = wallets[u]
    BY DEF L!Balance
  <2>4. \A u \in DOMAIN wallets \cup {d, s} :
          wallets'[u] = IF u = d THEN L!Balance(u) - a
                        ELSE IF u = s THEN L!Balance(u) + a ELSE L!Balance(u)
    BY <1>3, <2>1, <2>3, BalanceIsLocked
  <2> HIDE DEF s, d, a
  <2>5. DOMAIN wallets' = DOMAIN wallets \cup {d, s}
    BY <2>1
  <2> QED BY <2>2, <2>4, <2>5 DEF L!Moved
<1>6. LedgerRows' = [LedgerRows EXCEPT ![w].status = "reversed"]
  <2>1. transfers' = [transfers EXCEPT ![w] = Reversed(r)]
    BY DEF CommitTx
  <2>2. /\ Reversed(r).sender = transfers[w].sender
        /\ Reversed(r).recipient = transfers[w].recipient
        /\ Reversed(r).amount = transfers[w].amount /\ Reversed(r).key = transfers[w].key
        /\ Reversed(r).status = "reversed"
    BY <1>1 DEF Reversed, tr, Transfer
  <2>3. LedgerRow(Reversed(r)) = [LedgerRow(transfers[w]) EXCEPT !.status = "reversed"]
    BY <2>2 DEF LedgerRow
  <2>4. LedgerRows' = [t \in DOMAIN transfers' |-> LedgerRow(transfers'[t])]
    BY DEF LedgerRows, LedgerRow
  <2>5. LedgerRows = [t \in DOMAIN transfers |-> LedgerRow(transfers[t])]
    BY DEF LedgerRows, LedgerRow
  <2> HIDE DEF w
  <2> QED BY <1>1, <2>1, <2>3, <2>4, <2>5
<1>7. L!ReverseMove(w)
  BY <1>2, <1>4, <1>5, <1>6 DEF L!ReverseMove
<1> HIDE DEF w, s, d, a
<1> QED BY <1>1, <1>7 DEF L!Next

(* A get-or-create opens the wallet, or finds it and changes nothing. *)
LEMMA OpenIsOpen ==
  ASSUME IInv, NEW u \in Users, OpenWallet(u), UNCHANGED transfers
  PROVE  L!Next \/ UNCHANGED <<wallets, LedgerRows>>
<1>1. UNCHANGED LedgerRows
  BY DEF LedgerRows
<1>2. CASE u \in DOMAIN wallets
  <2>1. wallets = [v \in DOMAIN wallets |-> wallets[v]]
    BY DEF IInv, TypeOK
  <2>2. wallets' = [v \in DOMAIN wallets |-> wallets[v]]
    BY <1>2 DEF OpenWallet
  <2> QED BY <1>1, <2>1, <2>2
<1>3. CASE u \notin DOMAIN wallets
  <2>1. wallets' = [v \in DOMAIN wallets \cup {u} |-> L!Balance(v)]
    BY DEF OpenWallet, L!Balance
  <2>2. L!Open(u)
    BY <1>1, <1>3, <2>1 DEF L!Open
  <2> QED BY <2>2 DEF L!Next
<1> QED BY <1>2, <1>3

(* Every step of the service is a step of the ledger or leaves it alone. *)
LEMMA StepSimulation == IInv /\ [Next]_vars => [L!Next]_<<wallets, LedgerRows>>
<1> SUFFICES ASSUME IInv, [Next]_vars PROVE L!Next \/ UNCHANGED <<wallets, LedgerRows>>
  OBVIOUS
<1>1. CASE UNCHANGED tables \/ Tick
  BY <1>1 DEF tables, Tick, LedgerRows
<1>2. ASSUME NEW u \in Users, OpenWallet(u), UNCHANGED <<clock, transfers, late>>
      PROVE  L!Next \/ UNCHANGED <<wallets, LedgerRows>>
  BY <1>2, OpenIsOpen
<1>3. ASSUME NEW r \in Requests, pc[r] = "commit", CommitTx(r) PROVE L!Next
  BY <1>3, CommitIsMove, CommitIsReversal
<1> QED BY <1>1, <1>2, <1>3, TableSteps

(* The service implements the ledger, for any number of users, requests and
   connections and any failures: Execute, ClaimBack and GetOrCreateWallet
   change the committed tables by whole ledger steps only. *)
THEOREM Refinement == Spec => LedgerSpec
<1>1. Init => L!Init
  BY DEF Init, L!Init, LedgerRows
<1>2. IInv /\ [Next]_vars => [L!Next]_(L!ledger)
  BY StepSimulation DEF L!ledger
<1> QED BY <1>1, <1>2, Invariance, PTL DEF Spec, LedgerSpec, L!Spec

(* What is proved of the ledger, about the committed tables. *)
LP == INSTANCE LedgerProofs WITH Ids <- Requests, Amounts <- 1 .. MaxInt64,
                                 transfers <- LedgerRows

(* The two instances of Ledger are one: its assumption on the constants holds
   here, and the service implements it. *)
LEMMA LedgerInstance == LP!LedgerAssumption /\ (Spec => LP!Spec)
<1>1. LP!LedgerAssumption
  <2>1. LP!IsFiniteSet(Users) /\ LP!IsFiniteSet(Requests)
    BY StoreAssumption DEF LP!IsFiniteSet, IsFiniteSet
  <2> QED BY <2>1, StoreAssumption DEF LP!LedgerAssumption
<1>2. L!Init => LP!Init
  BY DEF L!Init, LP!Init
<1>3. [L!Next]_(L!ledger) => [LP!Next]_(LP!ledger)
  BY DEF L!Next, L!Open, L!Move, L!ReverseMove, L!HasFunds, L!KeyUnused, L!Moved, L!Balance,
       L!ledger, LP!Next, LP!Open, LP!Move, LP!ReverseMove, LP!HasFunds, LP!KeyUnused, LP!Moved,
       LP!Balance, LP!ledger
<1>4. Spec => LP!Spec
  BY <1>2, <1>3, Refinement, PTL DEF LedgerSpec, L!Spec, LP!Spec
<1> QED BY <1>1, <1>4

(* Both instances count money the same way. *)
LEMMA SameTotal == \A f, S : LP!Total(f, S) = L!Total(f, S)
BY DEF LP!Total, LP!Coins, LP!Cardinality, L!Total, L!Coins, L!Cardinality

(* Every committed balance is the seed plus the completed transfers in, minus
   those out, whatever the interleaving of Execute and ClaimBack and whatever
   failed on the way: no update is lost or applied twice. *)
THEOREM Bookkeeping == Spec => []BalancesReconcile
<1>1. LP!Spec => []LP!Reconciled
  BY LedgerInstance, LP!Reconciliation, PTL
<1>2. LP!Reconciled => BalancesReconcile
  BY SameTotal DEF LP!Reconciled, LP!Sent, LP!Received, LP!Completed, LP!amountOf,
       BalancesReconcile, L!Reconciled, L!Sent, L!Received, L!Completed, L!amountOf
<1> QED BY <1>1, <1>2, LedgerInstance, PTL

(* The committed balances of the service always add up to the seeds of the
   wallets that GetOrCreateWallet and Execute have created. *)
THEOREM MoneyConserved == Spec => []L!Conserved
<1>1. LP!Spec => []LP!Conserved
  BY LedgerInstance, LP!Conservation, PTL
<1>2. LP!Conserved => L!Conserved
  <2>1. LP!Cardinality(DOMAIN wallets) = L!Cardinality(DOMAIN wallets)
    BY DEF LP!Cardinality, L!Cardinality
  <2> QED BY <2>1, SameTotal DEF LP!Conserved, L!Conserved
<1> QED BY <1>1, <1>2, LedgerInstance, PTL
=============================================================================
