---------------------------- MODULE LedgerProofs ----------------------------
(***************************************************************************)
(* The ledger's books: balances are explained by the history, money is     *)
(* conserved, a key names one transfer.                                    *)
(***************************************************************************)
EXTENDS Ledger, MoneyProofs

(***************************************************************************)
(* A sum when two items change                                             *)
(***************************************************************************)

(* What is taken from one item and given to another leaves the sum alone. *)
LEMMA TotalMoved ==
  ASSUME NEW f, NEW g, NEW S, IsFiniteSet(S), NEW x \in S, NEW y \in S, x # y, NEW a \in Nat,
         \A z \in S : f[z] \in Nat /\ g[z] \in Nat,
         g[x] = f[x] - a, g[y] = f[y] + a, \A z \in S \ {x, y} : g[z] = f[z]
  PROVE  Total(g, S) = Total(f, S)
<1> DEFINE R == S \ {x}
           Q == R \ {y}
<1>1. IsFiniteSet(R) /\ IsFiniteSet(Q) /\ y \in R
  BY FS_RemoveElement
<1>2. Total(f, S) = Total(f, R) + f[x] /\ Total(f, R) = Total(f, Q) + f[y]
  BY <1>1, TotalRemove
<1>3. Total(g, S) = Total(g, R) + g[x] /\ Total(g, R) = Total(g, Q) + g[y]
  BY <1>1, TotalRemove
<1>4. Total(g, Q) = Total(f, Q)
  BY TotalEqual
<1>5. Total(f, Q) \in Nat
  BY <1>1, TotalNat
<1> HIDE DEF R, Q
<1> QED BY <1>2, <1>3, <1>4, <1>5

(***************************************************************************)
(* Types                                                                   *)
(***************************************************************************)

(* A step keeps the tables well typed; in particular no balance is negative. *)
LEMMA TypeStep ==
  ASSUME LedgerAssumption, LedgerTypeOK, [Next]_ledger PROVE LedgerTypeOK'
<1> USE DEF LedgerAssumption
<1>0. \A u : Balance(u) \in Nat
  BY DEF Balance, LedgerTypeOK
<1>1. ASSUME NEW u \in Users, Open(u) PROVE LedgerTypeOK'
  BY <1>0, <1>1 DEF Open, LedgerTypeOK
<1>2. ASSUME NEW t \in Ids, NEW s \in Users, NEW r \in Users, NEW a \in Amounts, NEW k \in Keys,
             Move(t, s, r, a, k)
      PROVE  LedgerTypeOK'
  <2>1. /\ DOMAIN wallets' = DOMAIN wallets \cup {s, r}
        /\ wallets' \in [DOMAIN wallets' -> Nat]
    <3>1. a \in Nat /\ Balance(s) - a \in Nat
      <4>1. a \in Nat OBVIOUS
      <4>2. a <= Balance(s) BY <1>2 DEF Move, HasFunds
      <4> HIDE DEF LedgerAssumption
      <4> QED BY <1>0, <4>1, <4>2
    <3>2. wallets' = Moved(s, r, a)
      BY <1>2 DEF Move
    <3>3. \A u : Balance(u) + a \in Nat
      BY <1>0, <3>1
    <3> QED BY <1>0, <3>1, <3>2, <3>3 DEF Moved
  <2>2. [sender |-> s, recipient |-> r, amount |-> a, key |-> k, status |-> "completed"] \in Row
    BY DEF Row
  <2>3. /\ DOMAIN transfers' = DOMAIN transfers \cup {t}
        /\ transfers' \in [DOMAIN transfers' -> Row]
    BY <1>2, <2>2 DEF Move, LedgerTypeOK
  <2>4. \A o \in DOMAIN transfers' :
          /\ transfers'[o].sender # transfers'[o].recipient
          /\ {transfers'[o].sender, transfers'[o].recipient} \subseteq DOMAIN wallets'
    BY <1>2, <2>1 DEF Move, LedgerTypeOK
  <2> QED BY <2>1, <2>3, <2>4 DEF LedgerTypeOK
<1>3. ASSUME NEW t \in Ids, ReverseMove(t) PROVE LedgerTypeOK'
  <2>1. transfers[t] \in Row /\ t \in DOMAIN transfers
    BY <1>3 DEF ReverseMove, LedgerTypeOK
  <2>2. /\ DOMAIN wallets' = DOMAIN wallets
        /\ wallets' \in [DOMAIN wallets' -> Nat]
    BY <1>0, <1>3, <2>1 DEF ReverseMove, Moved, HasFunds, LedgerTypeOK, Row
  <2>3. /\ DOMAIN transfers' = DOMAIN transfers
        /\ transfers' \in [DOMAIN transfers' -> Row]
    BY <1>3, <2>1 DEF ReverseMove, LedgerTypeOK, Row
  <2>4. \A o \in DOMAIN transfers : /\ transfers'[o].sender = transfers[o].sender
                                    /\ transfers'[o].recipient = transfers[o].recipient
    BY <1>3 DEF ReverseMove, LedgerTypeOK, Row
  <2> QED BY <2>2, <2>3, <2>4 DEF LedgerTypeOK
<1>4. CASE UNCHANGED ledger
  BY <1>4 DEF ledger, LedgerTypeOK
<1> QED BY <1>1, <1>2, <1>3, <1>4 DEF Next

(* The ledger is always well typed: nobody spends what is not there, and a
   transfer joins two different wallets that exist. *)
THEOREM LedgerTyped ==
  ASSUME LedgerAssumption PROVE Spec => []LedgerTypeOK
<1>1. Init => LedgerTypeOK
  BY DEF Init, LedgerTypeOK
<1>2. LedgerTypeOK /\ [Next]_ledger => LedgerTypeOK'
  BY TypeStep
<1> QED BY <1>1, <1>2, PTL DEF Spec

(* A sender's key names at most one transfer, for ever: the unique index of
   the transfers table as a property of histories. *)
THEOREM LedgerKeys ==
  ASSUME LedgerAssumption PROVE Spec => []KeysUnique
<1>1. Init => KeysUnique
  BY DEF Init, KeysUnique
<1>2. LedgerTypeOK /\ KeysUnique /\ [Next]_ledger => KeysUnique'
  <2> SUFFICES ASSUME LedgerTypeOK, KeysUnique, [Next]_ledger PROVE KeysUnique'
    OBVIOUS
  <2>1. ASSUME NEW u \in Users, Open(u) PROVE KeysUnique'
    BY <2>1 DEF Open, KeysUnique
  <2>2. ASSUME NEW t \in Ids, NEW s \in Users, NEW r \in Users, NEW a \in Amounts,
               NEW k \in Keys, Move(t, s, r, a, k)
        PROVE  KeysUnique'
    BY <2>2 DEF Move, KeyUnused, KeysUnique
  <2>3. ASSUME NEW t \in Ids, ReverseMove(t) PROVE KeysUnique'
    <3>1. /\ DOMAIN transfers' = DOMAIN transfers
          /\ \A o \in DOMAIN transfers : /\ transfers'[o].sender = transfers[o].sender
                                         /\ transfers'[o].key = transfers[o].key
      BY <2>3 DEF ReverseMove, LedgerTypeOK, Row
    <3> QED BY <3>1 DEF KeysUnique
  <2>4. CASE UNCHANGED ledger
    BY <2>4 DEF ledger, KeysUnique
  <2> QED BY <2>1, <2>2, <2>3, <2>4 DEF Next
<1> QED BY <1>1, <1>2, LedgerTyped, PTL DEF Spec

(***************************************************************************)
(* Reconciliation                                                          *)
(***************************************************************************)

(* What the completed transfers took from u and brought to u. *)
Out(u) == Total(amountOf, Sent(u))
In(u)  == Total(amountOf, Received(u))

(* The books of a user with balance b. *)
Explains(u, b) == b + Out(u) = Seed + In(u)

(* The sums are numbers, and they are 0 for a user without a wallet. *)
LEMMA SumsType ==
  ASSUME LedgerAssumption, LedgerTypeOK, NEW u
  PROVE  /\ IsFiniteSet(Sent(u)) /\ IsFiniteSet(Received(u))
         /\ \A t \in DOMAIN transfers : amountOf[t] \in Nat
         /\ Out(u) \in Nat /\ In(u) \in Nat
         /\ u \notin DOMAIN wallets => Out(u) = 0 /\ In(u) = 0
<1>1. Sent(u) \subseteq DOMAIN transfers /\ Received(u) \subseteq DOMAIN transfers
  BY DEF Sent, Received, Completed
<1>2. IsFiniteSet(DOMAIN transfers)
  BY FS_Subset DEF LedgerAssumption, LedgerTypeOK
<1>3. IsFiniteSet(Sent(u)) /\ IsFiniteSet(Received(u))
  BY <1>1, <1>2, FS_Subset
<1>4. \A t \in DOMAIN transfers : amountOf[t] \in Nat
  BY DEF LedgerAssumption, amountOf, LedgerTypeOK, Row
<1>5. Out(u) \in Nat /\ In(u) \in Nat
  BY <1>1, <1>3, <1>4, TotalNat DEF Out, In
<1>6. ASSUME u \notin DOMAIN wallets PROVE Out(u) = 0 /\ In(u) = 0
  <2>1. Sent(u) = {} /\ Received(u) = {}
    BY <1>6 DEF Sent, Received, Completed, LedgerTypeOK
  <2> QED BY <2>1, TotalEmpty DEF Out, In
<1> QED BY <1>3, <1>4, <1>5, <1>6

(* A balance is explained whether or not the wallet is open yet. *)
LEMMA BalanceExplained ==
  ASSUME LedgerAssumption, LedgerTypeOK, Reconciled, NEW u
  PROVE  Explains(u, Balance(u)) /\ Balance(u) \in Nat
<1>1. CASE u \in DOMAIN wallets
  BY <1>1 DEF Reconciled, Explains, Out, In, Balance, LedgerTypeOK
<1>2. CASE u \notin DOMAIN wallets
  BY <1>2, SumsType DEF LedgerAssumption, Explains, Balance
<1> QED BY <1>1, <1>2

(* A transfer enters the sums of its sender and of its recipient. *)
LEMMA MoveSums ==
  ASSUME LedgerAssumption, LedgerTypeOK,
         NEW t \in Ids, NEW s \in Users, NEW r \in Users, NEW a \in Amounts,
         NEW k \in Keys, Move(t, s, r, a, k), NEW u
  PROVE  /\ Out(u)' = IF u = s THEN Out(u) + a ELSE Out(u)
         /\ In(u)' = IF u = r THEN In(u) + a ELSE In(u)
<1>1. /\ t \notin DOMAIN transfers /\ DOMAIN transfers' = DOMAIN transfers \cup {t}
      /\ \A o \in DOMAIN transfers : transfers'[o] = transfers[o]
      /\ transfers'[t].sender = s /\ transfers'[t].recipient = r
      /\ transfers'[t].amount = a /\ transfers'[t].status = "completed"
  BY DEF Move
<1>2. /\ Sent(u)' = IF u = s THEN Sent(u) \cup {t} ELSE Sent(u)
      /\ Received(u)' = IF u = r THEN Received(u) \cup {t} ELSE Received(u)
  BY <1>1 DEF Sent, Received, Completed
<1> DEFINE f == amountOf
           g == amountOf'
<1>3. g[t] = a /\ \A o \in DOMAIN transfers : g[o] = f[o] /\ f[o] \in Nat
  BY <1>1, SumsType DEF amountOf
<1>4. a \in Nat
  BY DEF LedgerAssumption
<1>5. /\ IsFiniteSet(Sent(u)) /\ t \notin Sent(u) /\ Sent(u) \subseteq DOMAIN transfers
      /\ IsFiniteSet(Received(u)) /\ t \notin Received(u)
      /\ Received(u) \subseteq DOMAIN transfers
  BY <1>1, SumsType DEF Sent, Received, Completed
<1>6. /\ Out(u) = Total(f, Sent(u)) /\ Out(u)' = Total(g, Sent(u)')
      /\ In(u) = Total(f, Received(u)) /\ In(u)' = Total(g, Received(u)')
  BY DEF Out, In
<1> HIDE DEF f, g
<1>7. /\ Total(g, Sent(u) \cup {t}) = Total(f, Sent(u)) + a
      /\ Total(g, Received(u) \cup {t}) = Total(f, Received(u)) + a
  <2> DEFINE S == Sent(u)
             R == Received(u)
  <2>1. /\ IsFiniteSet(S) /\ t \notin S /\ \A o \in S : g[o] = f[o] /\ f[o] \in Nat
        /\ IsFiniteSet(R) /\ t \notin R /\ \A o \in R : g[o] = f[o] /\ f[o] \in Nat
        /\ g[t] \in Nat
    BY <1>3, <1>4, <1>5
  <2> HIDE DEF S, R
  <2>2. Total(g, S) = Total(f, S) /\ Total(g, R) = Total(f, R)
    BY <2>1, TotalEqual
  <2>3. Total(g, S \cup {t}) = Total(g, S) + g[t]
    BY <2>1, TotalAdd
  <2>4. Total(g, R \cup {t}) = Total(g, R) + g[t]
    BY <2>1, TotalAdd
  <2> QED BY <1>3, <2>2, <2>3, <2>4 DEF S, R
<1>8. /\ Total(g, Sent(u)) = Total(f, Sent(u))
      /\ Total(g, Received(u)) = Total(f, Received(u))
  BY <1>3, <1>5, TotalEqual
<1> QED BY <1>2, <1>6, <1>7, <1>8

(* A reversal takes the transfer out of both sums. *)
LEMMA ReverseSums ==
  ASSUME LedgerAssumption, LedgerTypeOK, NEW t \in Ids, ReverseMove(t), NEW u
  PROVE  LET row == transfers[t] IN
         /\ Out(u) = IF u = row.sender THEN Out(u)' + row.amount ELSE Out(u)'
         /\ In(u) = IF u = row.recipient THEN In(u)' + row.amount ELSE In(u)'
<1> DEFINE row == transfers[t]
           a == row.amount
           f == amountOf
           g == amountOf'
<1>1. /\ t \in DOMAIN transfers /\ row \in Row /\ row.status = "completed"
      /\ DOMAIN transfers' = DOMAIN transfers
      /\ \A o \in DOMAIN transfers \ {t} : transfers'[o] = transfers[o]
      /\ transfers'[t].amount = a /\ transfers'[t].status = "reversed"
  BY DEF ReverseMove, LedgerTypeOK, Row
<1>2. /\ Sent(u)' = Sent(u) \ {t} /\ Received(u)' = Received(u) \ {t}
      /\ t \in Sent(u) <=> u = row.sender
      /\ t \in Received(u) <=> u = row.recipient
  BY <1>1 DEF Sent, Received, Completed
<1>3. f[t] = a /\ \A o \in DOMAIN transfers : g[o] = f[o] /\ f[o] \in Nat
  BY <1>1, SumsType DEF amountOf
<1>4. /\ IsFiniteSet(Sent(u)) /\ Sent(u) \subseteq DOMAIN transfers
      /\ IsFiniteSet(Received(u)) /\ Received(u) \subseteq DOMAIN transfers
  BY SumsType DEF Sent, Received, Completed
<1>5. /\ Out(u) = Total(f, Sent(u)) /\ Out(u)' = Total(g, Sent(u)')
      /\ In(u) = Total(f, Received(u)) /\ In(u)' = Total(g, Received(u)')
  BY DEF Out, In
<1> HIDE DEF f, g
<1>6. /\ Total(g, Sent(u) \ {t}) = Total(f, Sent(u) \ {t})
      /\ Total(g, Received(u) \ {t}) = Total(f, Received(u) \ {t})
  BY <1>3, <1>4, TotalEqual
<1>7. /\ t \in Sent(u) => Total(f, Sent(u)) = Total(f, Sent(u) \ {t}) + a
      /\ t \in Received(u) => Total(f, Received(u)) = Total(f, Received(u) \ {t}) + a
  BY <1>3, <1>4, TotalRemove
<1>8. /\ t \notin Sent(u) => Sent(u) \ {t} = Sent(u)
      /\ t \notin Received(u) => Received(u) \ {t} = Received(u)
  OBVIOUS
<1> QED BY <1>2, <1>5, <1>6, <1>7, <1>8

(* Every balance is the seed plus the completed transfers in, minus those out. *)
THEOREM Reconciliation ==
  ASSUME LedgerAssumption PROVE Spec => []Reconciled
<1>1. Init => Reconciled
  BY DEF Init, Reconciled
<1>2. LedgerTypeOK /\ Reconciled /\ [Next]_ledger => Reconciled'
  <2> SUFFICES ASSUME LedgerTypeOK, Reconciled, [Next]_ledger, NEW u \in DOMAIN wallets'
               PROVE  wallets'[u] + Out(u)' = Seed + In(u)'
    BY DEF Reconciled, Out, In
  <2> USE DEF LedgerAssumption
  <2>0. /\ Balance(u) + Out(u) = Seed + In(u) /\ Balance(u) \in Nat
        /\ Out(u) \in Nat /\ In(u) \in Nat
    BY BalanceExplained, SumsType DEF Explains
  <2>1. ASSUME NEW v \in Users, Open(v) PROVE wallets'[u] + Out(u)' = Seed + In(u)'
    <3>1. wallets'[u] = Balance(u)
      BY <2>1 DEF Open
    <3>2. Out(u)' = Out(u) /\ In(u)' = In(u)
      BY <2>1 DEF Open, Out, In, Sent, Received, Completed, amountOf
    <3> QED BY <2>0, <3>1, <3>2
  <2>2. ASSUME NEW t \in Ids, NEW s \in Users, NEW r \in Users, NEW a \in Amounts,
               NEW k \in Keys, Move(t, s, r, a, k)
        PROVE  wallets'[u] + Out(u)' = Seed + In(u)'
    <3>1. s # r /\ a \in Nat
      BY <2>2 DEF Move
    <3>2. wallets'[u] = IF u = s THEN Balance(u) - a
                        ELSE IF u = r THEN Balance(u) + a ELSE Balance(u)
      BY <2>2 DEF Move, Moved
    <3>3. /\ Out(u)' = IF u = s THEN Out(u) + a ELSE Out(u)
          /\ In(u)' = IF u = r THEN In(u) + a ELSE In(u)
      BY <2>2, MoveSums
    <3> QED BY <2>0, <3>1, <3>2, <3>3
  <2>3. ASSUME NEW t \in Ids, ReverseMove(t) PROVE wallets'[u] + Out(u)' = Seed + In(u)'
    <3> DEFINE s == transfers[t].sender
               r == transfers[t].recipient
               a == transfers[t].amount
    <3>1. s # r /\ a \in Nat
      BY <2>3 DEF ReverseMove, LedgerTypeOK, Row
    <3>2. wallets'[u] = IF u = r THEN Balance(u) - a
                        ELSE IF u = s THEN Balance(u) + a ELSE Balance(u)
      BY <2>3 DEF ReverseMove, Moved
    <3>3. /\ Out(u) = IF u = s THEN Out(u)' + a ELSE Out(u)'
          /\ In(u) = IF u = r THEN In(u)' + a ELSE In(u)'
      BY <2>3, ReverseSums
    <3>4. Out(u)' \in Nat /\ In(u)' \in Nat
      <4>1. LedgerTypeOK'
        BY TypeStep
      <4>2. (LedgerTypeOK => Out(u) \in Nat /\ In(u) \in Nat)'
        BY SumsType, PTL
      <4> QED BY <4>1, <4>2
    <3> HIDE DEF s, r, a
    <3> QED BY <2>0, <3>1, <3>2, <3>3, <3>4
  <2>4. CASE UNCHANGED ledger
    <3>1. wallets'[u] = Balance(u)
      BY <2>4 DEF ledger, Balance
    <3>2. Out(u)' = Out(u) /\ In(u)' = In(u)
      BY <2>4 DEF ledger, Out, In, Sent, Received, Completed, amountOf
    <3> QED BY <2>0, <3>1, <3>2
  <2> QED BY <2>1, <2>2, <2>3, <2>4 DEF Next
<1> QED BY <1>1, <1>2, LedgerTyped, PTL DEF Spec

(***************************************************************************)
(* Conservation                                                            *)
(***************************************************************************)

(* The books with one more wallet, opened with the seed. *)
LEMMA SeedAdded ==
  ASSUME Seed \in Nat, NEW f, NEW g, NEW D, IsFiniteSet(D), NEW u,
         \A v \in D : g[v] = f[v] /\ f[v] \in Nat,
         u \notin D => g[u] = Seed,
         Total(f, D) = Seed * Cardinality(D)
  PROVE  /\ Total(g, D \cup {u}) = Seed * Cardinality(D \cup {u})
         /\ IsFiniteSet(D \cup {u}) /\ \A v \in D \cup {u} : g[v] \in Nat
<1>1. CASE u \in D
  <2>1. D \cup {u} = D
    BY <1>1
  <2>2. Total(g, D) = Total(f, D)
    BY TotalEqual
  <2> QED BY <2>1, <2>2
<1>2. CASE u \notin D
  <2>1. g[u] = Seed /\ Seed \in Nat
    BY <1>2
  <2>2. Total(g, D \cup {u}) = Total(f, D) + g[u]
    <3>1. Total(g, D) = Total(f, D)
      BY TotalEqual
    <3>2. Total(g, D \cup {u}) = Total(g, D) + g[u]
      BY <1>2, <2>1, TotalAdd
    <3> QED BY <3>1, <3>2
  <2>3. Cardinality(D \cup {u}) = Cardinality(D) + 1 /\ Cardinality(D) \in Nat
        /\ IsFiniteSet(D \cup {u})
    BY <1>2, FS_AddElement, FS_CardinalityType
  <2>4. \A n \in Nat : Seed * (n + 1) = Seed * n + Seed
    BY <2>1
  <2>5. Seed * Cardinality(D \cup {u}) = Seed * Cardinality(D) + Seed
    BY <2>3, <2>4
  <2> QED BY <2>1, <2>2, <2>3, <2>5
<1> QED BY <1>1, <1>2

(* Opening the wallets of s and r, where they are missing, keeps the books. *)
LEMMA BothOpened ==
  ASSUME LedgerAssumption, LedgerTypeOK, Conserved, NEW s \in Users, NEW r \in Users
  PROVE  LET E == DOMAIN wallets \cup {s, r}
             b == [u \in E |-> Balance(u)]
         IN  Total(b, E) = Seed * Cardinality(E) /\ IsFiniteSet(E)
<1> DEFINE D == DOMAIN wallets
           f == [u \in D \cup {s} |-> Balance(u)]
           b == [u \in D \cup {s, r} |-> Balance(u)]
<1>0. Seed \in Nat
  BY DEF LedgerAssumption
<1>1. IsFiniteSet(D) /\ \A v \in D : wallets[v] \in Nat
  BY FS_Subset DEF LedgerAssumption, LedgerTypeOK
<1>2. /\ \A v \in D : f[v] = wallets[v] /\ wallets[v] \in Nat
      /\ s \notin D => f[s] = Seed
  BY <1>1 DEF Balance
<1>3. Total(wallets, D) = Seed * Cardinality(D)
  BY DEF Conserved
<1>4. \A v \in D \cup {s} : b[v] = f[v]
  OBVIOUS
<1>5. r \notin D \cup {s} => b[r] = Seed
  BY DEF Balance
<1>6. (D \cup {s}) \cup {r} = D \cup {s, r}
  OBVIOUS
<1> HIDE DEF D, f, b
<1>7. /\ Total(f, D \cup {s}) = Seed * Cardinality(D \cup {s})
      /\ IsFiniteSet(D \cup {s}) /\ \A v \in D \cup {s} : f[v] \in Nat
  BY <1>0, <1>1, <1>2, <1>3, SeedAdded
<1> DEFINE C == D \cup {s}
<1>8. /\ Total(f, C) = Seed * Cardinality(C) /\ IsFiniteSet(C)
      /\ \A v \in C : b[v] = f[v] /\ f[v] \in Nat
      /\ r \notin C => b[r] = Seed
  BY <1>4, <1>5, <1>7
<1>9. C \cup {r} = D \cup {s, r}
  BY <1>6
<1> HIDE DEF C
<1>10. Total(b, C \cup {r}) = Seed * Cardinality(C \cup {r}) /\ IsFiniteSet(C \cup {r})
  BY <1>0, <1>8, SeedAdded
<1> QED BY <1>9, <1>10 DEF D, b

(* Moving money that is there between two of the wallets keeps the books. *)
LEMMA MovedConserves ==
  ASSUME LedgerAssumption, LedgerTypeOK, Conserved, NEW s \in Users, NEW r \in Users, s # r,
         NEW a \in Nat, HasFunds(s, a), wallets' = Moved(s, r, a)
  PROVE  Conserved'
<1> DEFINE E == DOMAIN wallets \cup {s, r}
           b == [u \in E |-> Balance(u)]
<1>1. Total(b, E) = Seed * Cardinality(E) /\ IsFiniteSet(E)
  BY BothOpened
<1>2. \A u : Balance(u) \in Nat
  BY DEF LedgerAssumption, Balance, LedgerTypeOK
<1>3. a <= Balance(s)
  BY DEF HasFunds
<1>4. DOMAIN wallets' = E /\ s \in E /\ r \in E
  BY DEF Moved
<1>5. /\ wallets'[s] = b[s] - a /\ wallets'[r] = b[r] + a
      /\ \A u \in E \ {s, r} : wallets'[u] = b[u]
  BY DEF Moved
<1>6. \A u \in E : b[u] \in Nat
  BY <1>2
<1>7. a <= b[s]
  BY <1>3
<1> HIDE DEF E, b
<1>8. \A u \in E : wallets'[u] \in Nat
  <2>1. wallets'[s] \in Nat /\ wallets'[r] \in Nat
    BY <1>4, <1>5, <1>6, <1>7
  <2> QED BY <1>5, <1>6, <2>1
<1>9. Total(wallets', E) = Total(b, E)
  <2> DEFINE w == wallets'
  <2>1. \A u \in E : b[u] \in Nat /\ w[u] \in Nat
    BY <1>6, <1>8
  <2>2. w[s] = b[s] - a /\ w[r] = b[r] + a /\ \A u \in E \ {s, r} : w[u] = b[u]
    BY <1>5
  <2> HIDE DEF w
  <2>3. Total(w, E) = Total(b, E)
    BY <1>1, <1>4, <2>1, <2>2, TotalMoved
  <2> QED BY <2>3 DEF w
<1> QED BY <1>1, <1>4, <1>9 DEF Conserved

(* All balances together are exactly the seeds of the open wallets: transfers
   and reversals neither create nor lose money. *)
THEOREM Conservation ==
  ASSUME LedgerAssumption PROVE Spec => []Conserved
<1>1. Init => Conserved
  <2> SUFFICES ASSUME Init PROVE Conserved
    OBVIOUS
  <2>1. DOMAIN wallets = {}
    BY DEF Init
  <2>2. Total(wallets, {}) = 0 /\ Cardinality({}) = 0
    BY TotalEmpty, FS_EmptySet
  <2> QED BY <2>1, <2>2 DEF LedgerAssumption, Conserved
<1>2. LedgerTypeOK /\ Conserved /\ [Next]_ledger => Conserved'
  <2> SUFFICES ASSUME LedgerTypeOK, Conserved, [Next]_ledger PROVE Conserved'
    OBVIOUS
  <2>1. ASSUME NEW u \in Users, Open(u) PROVE Conserved'
    <3> DEFINE D == DOMAIN wallets
               w == wallets'
    <3>0. Seed \in Nat
      BY DEF LedgerAssumption
    <3>1. /\ IsFiniteSet(D) /\ Total(wallets, D) = Seed * Cardinality(D)
          /\ \A v \in D : wallets[v] \in Nat
      BY FS_Subset DEF LedgerAssumption, Conserved, LedgerTypeOK
    <3>2. /\ DOMAIN w = D \cup {u} /\ \A v \in D : w[v] = wallets[v]
          /\ u \notin D => w[u] = Seed
      BY <2>1 DEF Open, Balance
    <3> HIDE DEF D, w
    <3>3. Total(w, D \cup {u}) = Seed * Cardinality(D \cup {u})
      BY <3>0, <3>1, <3>2, SeedAdded
    <3> QED BY <3>2, <3>3 DEF Conserved, w
  <2>2. ASSUME NEW t \in Ids, NEW s \in Users, NEW r \in Users, NEW a \in Amounts,
               NEW k \in Keys, Move(t, s, r, a, k)
        PROVE  Conserved'
    <3>1. a \in Nat
      BY DEF LedgerAssumption
    <3> QED BY <2>2, <3>1, MovedConserves DEF Move
  <2>3. ASSUME NEW t \in Ids, ReverseMove(t) PROVE Conserved'
    <3> DEFINE s == transfers[t].sender
               r == transfers[t].recipient
               a == transfers[t].amount
    <3>1. s \in Users /\ r \in Users /\ s # r /\ a \in Nat
      BY <2>3 DEF LedgerAssumption, ReverseMove, LedgerTypeOK, Row
    <3>2. HasFunds(r, a) /\ wallets' = Moved(r, s, a)
      BY <2>3 DEF ReverseMove
    <3> HIDE DEF s, r, a
    <3> QED BY <3>1, <3>2, MovedConserves
  <2>4. CASE UNCHANGED ledger
    BY <2>4 DEF ledger, Conserved
  <2> QED BY <2>1, <2>2, <2>3, <2>4 DEF Next
<1> QED BY <1>1, <1>2, LedgerTyped, PTL DEF Spec
=============================================================================
