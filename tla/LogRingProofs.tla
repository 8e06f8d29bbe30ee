--------------------------- MODULE LogRingProofs ---------------------------
(***************************************************************************)
(* The log ring holds the newest lines of everything that was written, for *)
(* any number of writers and readers, any records and any capacity.        *)
(***************************************************************************)
EXTENDS LogRing, NaturalsInduction, SequenceTheorems, FiniteSetTheorems, TLAPS

(***************************************************************************)
(* Induction and recursion                                                 *)
(***************************************************************************)

(* Induction over the natural numbers, for a set. *)
LEMMA SetInduction ==
  ASSUME NEW S, 0 \in S, \A n \in Nat : n \in S => n + 1 \in S
  PROVE  \A n \in Nat : n \in S
<1> DEFINE T == Nat \ S
           less == OpToRel(<, Nat)
<1> SUFFICES ASSUME T # {} PROVE FALSE
  OBVIOUS
<1>1. PICK m \in T : \A n \in T : ~(<<n, m>> \in less)
  BY NatLessThanWellFounded, WFMin
<1>2. m \in Nat /\ m # 0
  OBVIOUS
<1>3. m - 1 \in Nat /\ m - 1 < m /\ (m - 1) + 1 = m
  BY <1>2
<1>4. m - 1 \in T
  BY <1>3
<1> QED BY <1>1, <1>2, <1>3, <1>4 DEF OpToRel

(* g begins with z and goes on with F. *)
Unfolds(g, n, z, F) == g[0] = z /\ \A i \in 1 .. n : g[i] = F[<<g[i - 1], i>>]

(* Such a function exists. *)
LEMMA Recursion ==
  ASSUME NEW Z, NEW z \in Z, NEW F \in [Z \X Nat -> Z], NEW n \in Nat
  PROVE  \E g \in [0 .. n -> Z] : Unfolds(g, n, z, F)
<1> DEFINE Follows(g, m) == Unfolds(g, m, z, F)
           S == {m \in Nat : \E g \in [0 .. m -> Z] : Follows(g, m)}
<1>1. 0 \in S
  <2> DEFINE g == [i \in 0 .. 0 |-> z]
  <2>1. g \in [0 .. 0 -> Z] /\ Follows(g, 0)
    BY DEF Unfolds
  <2> HIDE DEF g, Follows
  <2> QED BY <2>1
<1>2. ASSUME NEW m \in Nat, m \in S PROVE m + 1 \in S
  <2>1. PICK g \in [0 .. m -> Z] : Follows(g, m)
    BY <1>2
  <2> DEFINE h == [i \in 0 .. m + 1 |-> IF i = m + 1 THEN F[<<g[m], m + 1>>] ELSE g[i]]
  <2>2. h \in [0 .. m + 1 -> Z]
    <3> SUFFICES ASSUME NEW i \in 0 .. m + 1 PROVE h[i] \in Z
      OBVIOUS
    <3>1. CASE i = m + 1
      <4>1. <<g[m], m + 1>> \in Z \X Nat
        OBVIOUS
      <4> QED BY <3>1, <4>1
    <3>2. CASE i # m + 1
      BY <3>2
    <3> QED BY <3>1, <3>2
  <2>3. h[0] = z
    BY <2>1 DEF Unfolds
  <2>4. ASSUME NEW i \in 1 .. m + 1 PROVE h[i] = F[<<h[i - 1], i>>]
    <3>1. CASE i = m + 1
      <4>1. i - 1 = m /\ m \in 0 .. m + 1 /\ m # m + 1
        BY <3>1
      <4>2. h[m] = g[m] /\ h[i] = F[<<g[m], i>>]
        BY <3>1, <4>1
      <4> HIDE DEF h
      <4> QED BY <4>1, <4>2
    <3>2. CASE i \in 1 .. m
      <4>1. g[i] = F[<<g[i - 1], i>>]
        BY <2>1, <3>2 DEF Unfolds
      <4>2. h[i] = g[i] /\ h[i - 1] = g[i - 1]
        BY <3>2
      <4> HIDE DEF h
      <4> QED BY <4>1, <4>2
    <3> QED BY <3>1, <3>2
  <2>5. Follows(h, m + 1)
    <3> HIDE DEF h
    <3> QED BY <2>3, <2>4 DEF Unfolds
  <2> HIDE DEF h, Follows
  <2> QED BY <2>2, <2>5
<1>3. n \in S
  <2> HIDE DEF S
  <2> QED BY <1>1, <1>2, SetInduction
<1> QED BY <1>3

(* The loop of Write, step by step. *)
ScanStep(p, s, i) ==
  IF p[i] # NL THEN s
  ELSE [start |-> i + 1,
        out   |-> IF i > s.start THEN Append(s.out, SubSeq(p, s.start, i - 1)) ELSE s.out]
ScanState(T) == [start : Nat \ {0}, out : Seq(Seq(T))]

(* A part of a sequence is one of the same elements. *)
LEMMA SliceType ==
  ASSUME NEW T, NEW p \in Seq(T), NEW a \in Nat \ {0}, NEW b \in Int, b <= Len(p)
  PROVE  SubSeq(p, a, b) \in Seq(T)
<1>1. \A i \in a .. b : p[i] \in T
  BY ElementOfSeq, LenProperties
<1> QED BY <1>1, SubSeqProperties

(* The loop keeps its state well typed. *)
LEMMA ScanStepType ==
  ASSUME NEW T, NEW p \in Seq(T), NEW i \in 1 .. Len(p), NEW s \in ScanState(T)
  PROVE  ScanStep(p, s, i) \in ScanState(T)
<1>1. s.start \in Nat \ {0} /\ s.out \in Seq(Seq(T)) /\ i + 1 \in Nat \ {0}
  BY DEF ScanState
<1>2. SubSeq(p, s.start, i - 1) \in Seq(T)
  BY <1>1, SliceType
<1>3. Append(s.out, SubSeq(p, s.start, i - 1)) \in Seq(Seq(T))
  BY <1>1, <1>2, AppendProperties
<1> QED BY <1>1, <1>3 DEF ScanStep, ScanState

(* The states of the loop at the first n bytes. *)
ScanStart == [start |-> 1, out |-> <<>>]
Scans(p, n, scan) ==
  scan = [i \in 0 .. n |-> IF i = 0 THEN ScanStart ELSE ScanStep(p, scan[i - 1], i)]
ScanOf(p, n) == CHOOSE scan : Scans(p, n, scan)

(* Scan is the last of them, ... *)
LEMMA ScanDefinition == ASSUME NEW p PROVE Scan(p) = ScanOf(p, Len(p))[Len(p)]
BY DEF Scan, ScanOf, Scans, ScanStep, ScanStart

(* ... and each one comes from the one before. *)
LEMMA ScanUnfolds ==
  ASSUME NEW p, NEW Z, ScanStart \in Z, NEW n \in Nat,
         \A s \in Z, i \in 1 .. n : ScanStep(p, s, i) \in Z
  PROVE  /\ ScanOf(p, n)[0] = ScanStart
         /\ \A i \in 1 .. n : ScanOf(p, n)[i] = ScanStep(p, ScanOf(p, n)[i - 1], i)
<1> DEFINE F == [zi \in Z \X Nat |-> IF zi[2] \in 1 .. n THEN ScanStep(p, zi[1], zi[2])
                                     ELSE ScanStart]
<1>1. F \in [Z \X Nat -> Z]
  OBVIOUS
<1>2. PICK g \in [0 .. n -> Z] : Unfolds(g, n, ScanStart, F)
  <2> HIDE DEF F
  <2> QED BY <1>1, Recursion
<1>3. \A i \in 1 .. n : F[<<g[i - 1], i>>] = ScanStep(p, g[i - 1], i)
  OBVIOUS
<1>4. g[0] = ScanStart /\ \A i \in 1 .. n : g[i] = ScanStep(p, g[i - 1], i)
  <2> HIDE DEF F
  <2> QED BY <1>2, <1>3 DEF Unfolds
<1>5. Scans(p, n, g)
  <2> HIDE DEF F
  <2> QED BY <1>4 DEF Scans
<1>6. Scans(p, n, ScanOf(p, n))
  <2> HIDE DEF F
  <2> QED BY <1>5 DEF ScanOf
<1> HIDE DEF F
<1>7. \A scan : Scans(p, n, scan) =>
        /\ scan[0] = ScanStart
        /\ \A i \in 1 .. n : scan[i] = ScanStep(p, scan[i - 1], i)
  BY DEF Scans
<1> QED BY <1>6, <1>7

(***************************************************************************)
(* What the loop cuts are the lines                                        *)
(***************************************************************************)
IsRun(p, a, b) == /\ a \in 1 .. Len(p) /\ b \in 1 .. Len(p) /\ a <= b
                  /\ \A i \in a .. b : p[i] # NL
                  /\ a = 1 \/ p[a - 1] = NL
                  /\ b = Len(p) \/ p[b + 1] = NL

(* Runs, without the pairs. *)
LEMMA RunIs ==
  ASSUME NEW p
  PROVE  /\ \A ab \in Runs(p) : ab = <<ab[1], ab[2]>> /\ IsRun(p, ab[1], ab[2])
         /\ \A a, b : IsRun(p, a, b) => <<a, b>> \in Runs(p)
BY DEF Runs, IsRun

(* The runs that end before a byte, in their order. *)
Enumerates(p, f, end) ==
  /\ f \in Seq(Runs(p))
  /\ \A j, k \in 1 .. Len(f) : j < k => f[j][1] < f[k][1]
  /\ \A k \in 1 .. Len(f) : f[k][2] < end
  /\ \A ab \in Runs(p) : ab[2] < end => \E k \in 1 .. Len(f) : f[k] = ab

Cuts(p, f, out) == Len(out) = Len(f) /\ \A k \in 1 .. Len(f) : out[k] = SubSeq(p, f[k][1], f[k][2])

CutUpTo(p, out, end) == \E f \in Seq(Runs(p)) : Enumerates(p, f, end) /\ Cuts(p, f, out)

(* Write looks at byte i: nothing since start is a newline, and all the runs
   before start are cut. *)
ScanAt(p, i, s) ==
  /\ s.start \in 1 .. i + 1
  /\ s.start = 1 \/ p[s.start - 1] = NL
  /\ \A k \in s.start .. i : p[k] # NL
  /\ CutUpTo(p, s.out, s.start)

(* One run more. *)
LEMMA CutOneMore ==
  ASSUME NEW T, NEW p \in Seq(T), NEW out \in Seq(Seq(T)), NEW start \in Nat, NEW end \in Nat,
         CutUpTo(p, out, start), NEW b \in Nat, <<start, b>> \in Runs(p), start <= b, b < end,
         \A ab \in Runs(p) : ab[2] < end => ab[2] < start \/ ab = <<start, b>>
  PROVE  CutUpTo(p, Append(out, SubSeq(p, start, b)), end)
<1>1. PICK f \in Seq(Runs(p)) : Enumerates(p, f, start) /\ Cuts(p, f, out)
  BY DEF CutUpTo
<1> DEFINE n == Len(f)
           r == <<start, b>>
           g == Append(f, r)
           line == SubSeq(p, start, b)
           more == Append(out, line)
<1>2. n \in Nat /\ n = Len(out)
  BY <1>1, LenProperties DEF Cuts
<1>3. /\ g \in Seq(Runs(p)) /\ Len(g) = n + 1 /\ g[n + 1] = r
      /\ \A k \in 1 .. n : g[k] = f[k]
  BY AppendProperties
<1>4. line \in Seq(T)
  <2>1. IsRun(p, start, b)
    BY RunIs
  <2> QED BY <2>1, SliceType, LenProperties DEF IsRun
<1>5. /\ Len(more) = n + 1 /\ more[n + 1] = line
      /\ \A k \in 1 .. n : more[k] = out[k]
  BY <1>2, <1>4, AppendProperties
<1>6. \A k \in 1 .. n : f[k] \in Runs(p) /\ f[k][1] \in Nat /\ f[k][2] \in Nat
                        /\ f[k][1] <= f[k][2] /\ f[k][2] < start
  BY <1>1, ElementOfSeq, RunIs DEF IsRun, Enumerates
<1> HIDE DEF n, g, line, more
<1>7. \A k \in 1 .. n + 1 : g[k][2] < end
  <2> SUFFICES ASSUME NEW k \in 1 .. n + 1 PROVE g[k][2] < end
    OBVIOUS
  <2>1. CASE k = n + 1
    BY <1>3, <2>1
  <2>2. CASE k \in 1 .. n
    <3>1. g[k] = f[k] /\ f[k][2] \in Nat /\ f[k][2] < start
      BY <1>3, <1>6, <2>2
    <3> QED BY <3>1
  <2> QED BY <1>2, <2>1, <2>2
<1>8. \A j, k \in 1 .. n + 1 : j < k => g[j][1] < g[k][1]
  <2> SUFFICES ASSUME NEW j \in 1 .. n + 1, NEW k \in 1 .. n + 1, j < k PROVE g[j][1] < g[k][1]
    OBVIOUS
  <2>1. j \in 1 .. n /\ g[j] = f[j]
    BY <1>2, <1>3
  <2>2. CASE k = n + 1
    <3>1. f[j][1] \in Nat /\ f[j][2] \in Nat /\ f[j][1] <= f[j][2] /\ f[j][2] < start
      BY <1>6, <2>1
    <3>2. g[k][1] = start
      BY <1>3, <2>2
    <3> QED BY <2>1, <3>1, <3>2
  <2>3. CASE k \in 1 .. n
    BY <1>1, <1>2, <1>3, <2>1, <2>3 DEF Enumerates, n
  <2>4. k = n + 1 \/ k \in 1 .. n
    BY <1>2
  <2> QED BY <2>2, <2>3, <2>4
<1>9. \A ab \in Runs(p) : ab[2] < end => \E k \in 1 .. n + 1 : g[k] = ab
  <2> SUFFICES ASSUME NEW ab \in Runs(p), ab[2] < end PROVE \E k \in 1 .. n + 1 : g[k] = ab
    OBVIOUS
  <2>1. CASE ab = r
    BY <1>2, <1>3, <2>1
  <2>2. CASE ab[2] < start
    <3>1. PICK k \in 1 .. n : f[k] = ab
      BY <1>1, <2>2 DEF Enumerates, n
    <3> QED BY <1>2, <1>3, <3>1
  <2> QED BY <2>1, <2>2
<1>10. Cuts(p, g, more)
  <2>1. \A k \in 1 .. n : out[k] = SubSeq(p, f[k][1], f[k][2])
    BY <1>1 DEF Cuts, n
  <2>2. ASSUME NEW k \in 1 .. n + 1 PROVE more[k] = SubSeq(p, g[k][1], g[k][2])
    <3>1. CASE k = n + 1
      BY <1>3, <1>5, <3>1 DEF line
    <3>2. CASE k \in 1 .. n
      BY <1>3, <1>5, <2>1, <3>2
    <3> QED BY <1>2, <3>1, <3>2
  <2> QED BY <1>3, <1>5, <2>2 DEF Cuts
<1> QED BY <1>3, <1>7, <1>8, <1>9, <1>10 DEF CutUpTo, Enumerates, more, line

(* Since start there was no newline: the only run that may end in between is
   all of it. *)
LEMMA RunFromStart ==
  ASSUME NEW p, Len(p) \in Nat, NEW start \in Nat \ {0}, start = 1 \/ p[start - 1] = NL,
         NEW m \in Nat, m <= Len(p), \A k \in start .. m : p[k] # NL,
         NEW ab \in Runs(p), ab[2] >= start, ab[2] <= m
  PROVE  ab = <<start, m>>
<1> DEFINE a == ab[1]
           b == ab[2]
<1>1. IsRun(p, a, b)
  BY RunIs
<1>2. /\ a \in Nat \ {0} /\ b \in Nat /\ a <= b /\ b <= Len(p)
      /\ \A i \in a .. b : p[i] # NL
      /\ a = 1 \/ p[a - 1] = NL
      /\ b = Len(p) \/ p[b + 1] = NL
  BY <1>1 DEF IsRun
<1>3. b >= start /\ b <= m
  OBVIOUS
<1> HIDE DEF a, b
<1>4. ~(a < start)
  <2> SUFFICES ASSUME a < start PROVE FALSE
    OBVIOUS
  <2>1. start - 1 \in a .. b /\ p[start - 1] = NL
    BY <1>2, <1>3
  <2> QED BY <1>2, <2>1
<1>5. ~(a > start)
  <2> SUFFICES ASSUME a > start PROVE FALSE
    OBVIOUS
  <2>1. a - 1 \in start .. m /\ p[a - 1] = NL
    BY <1>2, <1>3
  <2> QED BY <2>1
<1>6. ~(b < m)
  <2> SUFFICES ASSUME b < m PROVE FALSE
    OBVIOUS
  <2>1. b + 1 \in start .. m /\ p[b + 1] = NL
    BY <1>2, <1>3
  <2> QED BY <2>1
<1>7. a = start /\ b = m
  BY <1>2, <1>3, <1>4, <1>5, <1>6
<1> QED BY <1>7, RunIs DEF a, b

(* One byte more. *)
LEMMA ScanNext ==
  ASSUME NEW T, NEW p \in Seq(T), NEW i \in 1 .. Len(p), NEW s \in ScanState(T),
         ScanAt(p, i - 1, s)
  PROVE  ScanAt(p, i, ScanStep(p, s, i))
<1> DEFINE start == s.start
           out == s.out
<1>1. /\ start \in Nat \ {0} /\ out \in Seq(Seq(T)) /\ start <= i
      /\ start = 1 \/ p[start - 1] = NL
      /\ \A k \in start .. i - 1 : p[k] # NL
      /\ CutUpTo(p, out, start)
  BY DEF ScanState, ScanAt
<1>2. Len(p) \in Nat /\ i \in Nat /\ i <= Len(p) /\ i >= 1
  BY LenProperties
<1>3. CASE p[i] # NL
  <2>1. ScanStep(p, s, i) = s
    BY <1>3 DEF ScanStep
  <2>2. \A k \in start .. i : p[k] # NL
    BY <1>1, <1>2, <1>3
  <2> QED BY <1>1, <1>2, <2>1, <2>2 DEF ScanAt
<1>4. CASE p[i] = NL
  <2> DEFINE t == ScanStep(p, s, i)
  <2>1. /\ t.start = i + 1
        /\ t.out = IF i > start THEN Append(out, SubSeq(p, start, i - 1)) ELSE out
    BY <1>4 DEF ScanStep
  <2>2. \A ab \in Runs(p) : ab[2] < i + 1 => ab[2] < start \/ ab = <<start, i - 1>>
    <3> SUFFICES ASSUME NEW ab \in Runs(p), ab[2] < i + 1, ~(ab[2] < start)
                 PROVE  ab = <<start, i - 1>>
      OBVIOUS
    <3>1. ab[2] \in Nat /\ ab[1] \in Nat /\ ab[1] <= ab[2] /\ p[ab[2]] # NL
      BY <1>2, RunIs DEF IsRun
    <3>2. ab[2] <= i - 1 /\ ab[2] >= start
      BY <1>1, <1>2, <1>4, <3>1
    <3>3. i - 1 \in Nat /\ i - 1 <= Len(p)
      BY <1>2
    <3> HIDE DEF start
    <3> QED BY <1>1, <1>2, <3>2, <3>3, RunFromStart
  <2>3. CASE i > start
    <3>1. IsRun(p, start, i - 1)
      BY <1>1, <1>2, <1>4, <2>3 DEF IsRun
    <3>2. <<start, i - 1>> \in Runs(p) /\ i - 1 \in Nat /\ i + 1 \in Nat /\ start <= i - 1
      BY <1>1, <1>2, <2>3, <3>1, RunIs
    <3> HIDE DEF start, out
    <3>3. CutUpTo(p, Append(out, SubSeq(p, start, i - 1)), i + 1)
      BY <1>1, <1>2, <2>2, <3>2, CutOneMore
    <3> QED BY <1>2, <1>4, <2>1, <2>3, <3>3 DEF ScanAt
  <2>4. CASE i = start
    <3>1. \A ab \in Runs(p) : ab[2] < i + 1 => ab[2] < start
      <4> SUFFICES ASSUME NEW ab \in Runs(p), ab[2] < i + 1 PROVE ab[2] < start
        OBVIOUS
      <4>1. ab[2] \in Nat /\ ab[1] \in Nat /\ ab[1] <= ab[2]
        BY <1>2, RunIs DEF IsRun
      <4>2. CASE ab = <<start, i - 1>>
        BY <1>2, <2>4, <4>1, <4>2
      <4> QED BY <2>2, <4>2
    <3>2. PICK f \in Seq(Runs(p)) : Enumerates(p, f, start) /\ Cuts(p, f, out)
      BY <1>1 DEF CutUpTo
    <3>3. \A k \in 1 .. Len(f) : f[k] \in Runs(p) /\ f[k][2] \in Nat
      BY <1>2, ElementOfSeq, RunIs DEF IsRun
    <3>4. \A k \in 1 .. Len(f) : f[k][2] < i + 1
      BY <1>2, <2>4, <3>2, <3>3 DEF Enumerates
    <3>5. Enumerates(p, f, i + 1)
      BY <3>1, <3>2, <3>4 DEF Enumerates
    <3>6. CutUpTo(p, out, i + 1)
      BY <3>2, <3>5 DEF CutUpTo
    <3>7. t.start = i + 1 /\ t.out = out
      BY <1>2, <2>1, <2>4
    <3> HIDE DEF t, out
    <3>8. ScanAt(p, i, t)
      BY <1>2, <1>4, <3>6, <3>7 DEF ScanAt
    <3> QED BY <3>8 DEF t
  <2> QED BY <1>1, <1>2, <2>3, <2>4
<1> QED BY <1>3, <1>4

(* The loop at its end. *)
LEMMA ScanEnd ==
  ASSUME NEW T, NEW p \in Seq(T)
  PROVE  Scan(p) \in ScanState(T) /\ ScanAt(p, Len(p), Scan(p))
<1> DEFINE Z == ScanState(T)
           n == Len(p)
           scan == ScanOf(p, n)
           S == {m \in Nat : m <= n => scan[m] \in Z /\ ScanAt(p, m, scan[m])}
<1>1. n \in Nat
  BY LenProperties
<1>2. ScanStart \in Z
  BY EmptySeq DEF ScanStart, ScanState
<1>3. ScanAt(p, 0, ScanStart)
  <2>1. ScanStart.start = 1 /\ ScanStart.out = <<>>
    BY DEF ScanStart
  <2>2. \A ab \in Runs(p) : ~(ab[2] < 1)
    BY <1>1, RunIs DEF IsRun
  <2>3. CutUpTo(p, <<>>, 1)
    <3> DEFINE f == <<>>
    <3>1. f \in Seq(Runs(p)) /\ Len(f) = 0
      BY EmptySeq
    <3>2. Enumerates(p, f, 1)
      BY <2>2, <3>1 DEF Enumerates
    <3>3. Cuts(p, f, <<>>)
      BY <3>1 DEF Cuts
    <3> QED BY <3>1, <3>2, <3>3 DEF CutUpTo
  <2> QED BY <2>1, <2>3 DEF ScanAt
<1>4. \A s \in Z, i \in 1 .. n : ScanStep(p, s, i) \in Z
  BY ScanStepType
<1>5. \A s \in Z, i \in 1 .. n : ScanAt(p, i - 1, s) => ScanAt(p, i, ScanStep(p, s, i))
  BY ScanNext
<1> HIDE DEF Z, n
<1>6. scan[0] = ScanStart /\ \A i \in 1 .. n : scan[i] = ScanStep(p, scan[i - 1], i)
  BY <1>1, <1>2, <1>4, ScanUnfolds
<1> HIDE DEF scan
<1>7. 0 \in S
  BY <1>2, <1>3, <1>6
<1>8. ASSUME NEW m \in Nat, m \in S PROVE m + 1 \in S
  <2> SUFFICES ASSUME m + 1 <= n PROVE scan[m + 1] \in Z /\ ScanAt(p, m + 1, scan[m + 1])
    OBVIOUS
  <2>1. m + 1 \in 1 .. n /\ (m + 1) - 1 = m /\ scan[m] \in Z /\ ScanAt(p, m, scan[m])
    BY <1>1, <1>8
  <2>2. scan[m + 1] = ScanStep(p, scan[m], m + 1)
    BY <1>6, <2>1
  <2> QED BY <1>4, <1>5, <2>1, <2>2
<1>9. n \in S
  <2> HIDE DEF S
  <2> QED BY <1>1, <1>7, <1>8, SetInduction
<1>10. Scan(p) = scan[n]
  BY ScanDefinition DEF scan, n
<1> QED BY <1>1, <1>9, <1>10 DEF Z, n

(* Write pushes every run of its bytes, in their order. *)
LEMMA SegmentsCut ==
  ASSUME NEW T, NEW p \in Seq(T)
  PROVE  Segments(p) \in Seq(Seq(T)) /\ CutUpTo(p, Segments(p), Len(p) + 1)
<1> DEFINE s == Scan(p)
           start == s.start
           n == Len(p)
<1>1. /\ start \in Nat \ {0} /\ s.out \in Seq(Seq(T)) /\ start <= n + 1 /\ n \in Nat
      /\ start = 1 \/ p[start - 1] = NL
      /\ \A k \in start .. n : p[k] # NL
      /\ CutUpTo(p, s.out, start)
  BY ScanEnd, LenProperties DEF ScanState, ScanAt
<1>2. CASE start <= n
  <2>1. Segments(p) = Append(s.out, SubSeq(p, start, n))
    BY <1>2 DEF Segments
  <2>2. SubSeq(p, start, n) \in Seq(T)
    BY <1>1, SliceType
  <2>3. IsRun(p, start, n)
    BY <1>1, <1>2 DEF IsRun
  <2>4. <<start, n>> \in Runs(p) /\ n < n + 1 /\ n + 1 \in Nat
    BY <1>1, <2>3, RunIs
  <2>5. \A ab \in Runs(p) : ab[2] < n + 1 => ab[2] < start \/ ab = <<start, n>>
    <3> SUFFICES ASSUME NEW ab \in Runs(p), ~(ab[2] < start) PROVE ab = <<start, n>>
      OBVIOUS
    <3>1. ab[2] \in Nat /\ ab[2] <= n
      BY <1>1, RunIs DEF IsRun
    <3>2. ab[2] >= start
      BY <1>1, <3>1
    <3>3. Len(p) \in Nat /\ n <= Len(p) /\ n \in Nat
      BY <1>1
    <3> HIDE DEF start, n
    <3> QED BY <1>1, <3>1, <3>2, <3>3, RunFromStart
  <2> HIDE DEF s, start
  <2>6. CutUpTo(p, Append(s.out, SubSeq(p, start, n)), n + 1)
    BY <1>1, <1>2, <2>4, <2>5, CutOneMore
  <2> QED BY <1>1, <2>1, <2>2, <2>6, AppendProperties
<1>3. CASE start = n + 1
  BY <1>1, <1>3 DEF Segments
<1> QED BY <1>1, <1>2, <1>3

(* f enumerates R in ascending order. *)
Ranks(R, n, f) ==
  /\ Cardinality(R) = n
  /\ \A k \in 1 .. n : \A ab \in R :
       Cardinality({cd \in R : cd[1] < ab[1]}) = k - 1 <=> ab = f[k]

(* In an ascending enumeration the element with k - 1 before it is the k-th. *)
LEMMA Ranked ==
  ASSUME NEW R, NEW n \in Nat, NEW f \in [1 .. n -> R],
         \A k \in 1 .. n : f[k][1] \in Nat,
         \A j, k \in 1 .. n : j < k => f[j][1] < f[k][1],
         \A ab \in R : \E k \in 1 .. n : f[k] = ab
  PROVE  Ranks(R, n, f)
<1> DEFINE Less(ab) == {cd \in R : cd[1] < ab[1]}
<1>1. \A j, k \in 1 .. n : f[j][1] < f[k][1] <=> j < k
  OBVIOUS
<1>2. \A j, k \in 1 .. n : f[j] = f[k] => j = k
  <2> SUFFICES ASSUME NEW j \in 1 .. n, NEW k \in 1 .. n, f[j] = f[k] PROVE j = k
    OBVIOUS
  <2>1. ~(j < k) /\ ~(k < j)
    BY <1>1
  <2> QED BY <2>1
<1>3. Cardinality(R) = n
  <2>1. f \in Bijection(1 .. n, R)
    BY <1>2 DEF Bijection, Injection, Surjection, IsInjective
  <2> QED BY <2>1, FS_CountingElements DEF ExistsBijection
<1>4. ASSUME NEW k \in 1 .. n PROVE Cardinality(Less(f[k])) = k - 1
  <2> DEFINE g == [j \in 1 .. k - 1 |-> f[j]]
  <2>1. \A j \in 1 .. k - 1 : j \in 1 .. n /\ f[j] \in Less(f[k])
    BY <1>1
  <2>2. \A ab \in Less(f[k]) : \E j \in 1 .. k - 1 : f[j] = ab
    <3> SUFFICES ASSUME NEW ab \in Less(f[k]) PROVE \E j \in 1 .. k - 1 : f[j] = ab
      OBVIOUS
    <3>1. PICK j \in 1 .. n : f[j] = ab
      OBVIOUS
    <3>2. j < k
      BY <1>1, <3>1
    <3> QED BY <3>1, <3>2
  <2> HIDE DEF Less
  <2>3. g \in [1 .. k - 1 -> Less(f[k])]
    BY <2>1
  <2>4. g \in Bijection(1 .. k - 1, Less(f[k]))
    BY <1>2, <2>1, <2>2, <2>3 DEF Bijection, Injection, Surjection, IsInjective
  <2>5. k - 1 \in Nat
    OBVIOUS
  <2> HIDE DEF g
  <2> QED BY <2>4, <2>5, FS_CountingElements DEF ExistsBijection
<1>5. ASSUME NEW k \in 1 .. n, NEW ab \in R PROVE Cardinality(Less(ab)) = k - 1 <=> ab = f[k]
  <2>1. PICK j \in 1 .. n : f[j] = ab
    OBVIOUS
  <2>2. Cardinality(Less(ab)) = j - 1
    BY <1>4, <2>1
  <2> HIDE DEF Less
  <2> QED BY <1>2, <2>1, <2>2
<1> QED BY <1>3, <1>5 DEF Ranks

(* The loop of Write cuts its bytes into lines, whatever they are: the longest
   runs without a newline, in their order. *)
THEOREM SegmentsAreLines ==
  ASSUME NEW T, NEW p \in Seq(T)
  PROVE  Segments(p) = LinesOf(p) /\ LinesOf(p) \in Seq(Seq(T))
<1> DEFINE R == Runs(p)
           out == Segments(p)
           lines_ == LinesOf(p)
<1>1. out \in Seq(Seq(T)) /\ CutUpTo(p, out, Len(p) + 1)
  BY SegmentsCut
<1>2. PICK f \in Seq(R) : Enumerates(p, f, Len(p) + 1) /\ Cuts(p, f, out)
  BY <1>1 DEF CutUpTo
<1> DEFINE n == Len(f)
<1>3. /\ n \in Nat /\ f \in [1 .. n -> R] /\ Len(out) = n
      /\ \A k \in 1 .. n : out[k] = SubSeq(p, f[k][1], f[k][2])
      /\ \A j, k \in 1 .. n : j < k => f[j][1] < f[k][1]
  BY <1>2, LenProperties DEF Enumerates, Cuts
<1>4. \A ab \in R : ab[1] \in Nat /\ ab[2] \in Nat /\ ab[2] < Len(p) + 1
  BY LenProperties, RunIs DEF IsRun
<1>5. \A ab \in R : \E k \in 1 .. n : f[k] = ab
  BY <1>2, <1>4 DEF Enumerates
<1>6. \A k \in 1 .. n : f[k] \in R /\ f[k][1] \in Nat
  BY <1>3, <1>4
<1> HIDE DEF R, n, out
<1>7. Ranks(R, n, f)
  BY <1>3, <1>5, <1>6, Ranked
<1>8. \A k \in 1 .. n : \A ab \in R : Cardinality(Before(p, ab)) = k - 1 <=> ab = f[k]
  BY <1>7 DEF Before, Ranks, R
<1>9. \A k \in 1 .. n : Kth(p, k) = f[k]
  BY <1>6, <1>8 DEF Kth, R
<1>10. lines_ = [k \in 1 .. n |-> SubSeq(p, Kth(p, k)[1], Kth(p, k)[2])]
  BY <1>7 DEF LinesOf, Ranks, R
<1>11. lines_ = [k \in 1 .. n |-> out[k]]
  BY <1>3, <1>9, <1>10
<1>12. out = [k \in 1 .. n |-> out[k]]
  BY <1>1, <1>3, LenProperties
<1> QED BY <1>1, <1>11, <1>12 DEF out

(***************************************************************************)
(* The lines of several records                                            *)
(***************************************************************************)
Joined(ss, s, i) == s \o ss[i]
Flattens(ss, n, flatten) ==
  flatten = [i \in 1 .. n |-> IF i = 1 THEN ss[i] ELSE Joined(ss, flatten[i - 1], i)]
FlattenOf(ss, n) == CHOOSE flatten : Flattens(ss, n, flatten)

(* FlattenSeq, step by step, as Scan above. *)
LEMMA FlattenDefinition ==
  ASSUME NEW ss, Len(ss) # 0 PROVE FlattenSeq(ss) = FlattenOf(ss, Len(ss))[Len(ss)]
BY DEF FlattenSeq, FlattenOf, Flattens, Joined

(* Each step comes from the one before. *)
LEMMA FlattenUnfolds ==
  ASSUME NEW ss, NEW Z, NEW n \in Nat \ {0}, ss[1] \in Z,
         \A s \in Z, i \in 1 .. n : Joined(ss, s, i) \in Z
  PROVE  /\ FlattenOf(ss, n)[1] = ss[1]
         /\ \A i \in 2 .. n : FlattenOf(ss, n)[i] = Joined(ss, FlattenOf(ss, n)[i - 1], i)
<1> DEFINE F == [zi \in Z \X Nat |-> IF zi[2] \in 1 .. n - 1 THEN Joined(ss, zi[1], zi[2] + 1)
                                     ELSE ss[1]]
<1>1. F \in [Z \X Nat -> Z]
  OBVIOUS
<1>2. PICK g \in [0 .. n - 1 -> Z] : Unfolds(g, n - 1, ss[1], F)
  <2>1. n - 1 \in Nat
    OBVIOUS
  <2> HIDE DEF F
  <2> QED BY <1>1, <2>1, Recursion
<1>3. g[0] = ss[1] /\ \A i \in 1 .. n - 1 : g[i] = F[<<g[i - 1], i>>]
  <2> HIDE DEF F
  <2> QED BY <1>2 DEF Unfolds
<1>4. \A i \in 1 .. n - 1 : F[<<g[i - 1], i>>] = Joined(ss, g[i - 1], i + 1)
  OBVIOUS
<1> DEFINE h == [i \in 1 .. n |-> g[i - 1]]
<1> HIDE DEF F
<1>5. \A i \in 1 .. n : h[i] = IF i = 1 THEN ss[i] ELSE Joined(ss, h[i - 1], i)
  <2> SUFFICES ASSUME NEW i \in 1 .. n
               PROVE  h[i] = IF i = 1 THEN ss[i] ELSE Joined(ss, h[i - 1], i)
    OBVIOUS
  <2>1. CASE i = 1
    BY <1>3, <2>1
  <2>2. CASE i # 1
    <3>1. i - 1 \in 1 .. n - 1 /\ (i - 1) + 1 = i
      BY <2>2
    <3>2. h[i] = g[i - 1] /\ h[i - 1] = g[(i - 1) - 1]
      BY <3>1
    <3> HIDE DEF h
    <3> QED BY <1>3, <1>4, <2>2, <3>1, <3>2
  <2> QED BY <2>1, <2>2
<1>6. Flattens(ss, n, h)
  BY <1>5 DEF Flattens
<1> HIDE DEF h
<1>7. Flattens(ss, n, FlattenOf(ss, n))
  BY <1>6 DEF FlattenOf
<1>8. \A f : Flattens(ss, n, f) =>
        f[1] = ss[1] /\ \A i \in 2 .. n : f[i] = Joined(ss, f[i - 1], i)
  BY DEF Flattens
<1> QED BY <1>7, <1>8

(* One sequence more. *)
LEMMA FlattenAppend ==
  ASSUME NEW T, NEW ss \in Seq(Seq(T)), NEW s \in Seq(T)
  PROVE  /\ FlattenSeq(ss) \in Seq(T)
         /\ FlattenSeq(Append(ss, s)) = FlattenSeq(ss) \o s
<1> DEFINE Z == Seq(T)
           n == Len(ss)
           tt == Append(ss, s)
           g == FlattenOf(ss, n)
           h == FlattenOf(tt, n + 1)
<1>1. /\ n \in Nat /\ tt \in Seq(Z) /\ Len(tt) = n + 1 /\ tt[n + 1] = s
      /\ \A i \in 1 .. n : tt[i] = ss[i] /\ ss[i] \in Z
  BY AppendProperties, LenProperties, ElementOfSeq
<1>2. FlattenSeq(tt) = h[n + 1]
  <2> HIDE DEF tt, n
  <2>1. Len(tt) # 0
    BY <1>1
  <2>2. FlattenSeq(tt) = FlattenOf(tt, Len(tt))[Len(tt)]
    BY <2>1, FlattenDefinition
  <2> QED BY <1>1, <2>2
<1>3. ASSUME NEW z \in Z, NEW y \in Z PROVE z \o y \in Z
  BY ConcatProperties
<1>4. \A z \in Z, i \in 1 .. n + 1 : Joined(tt, z, i) \in Z
  BY <1>1, <1>3 DEF Joined
<1>5. tt[1] \in Z
  BY <1>1
<1> HIDE DEF Z
<1>6. h[1] = tt[1] /\ \A i \in 2 .. n + 1 : h[i] = Joined(tt, h[i - 1], i)
  <2>1. n + 1 \in Nat \ {0}
    BY <1>1
  <2> HIDE DEF n, tt
  <2> QED BY <1>4, <1>5, <2>1, FlattenUnfolds
<1>7. CASE n = 0
  <2>1. FlattenSeq(ss) = <<>> /\ ss = <<>>
    BY <1>7, EmptySeq DEF FlattenSeq
  <2>2. h[1] = s
    BY <1>1, <1>6, <1>7
  <2> QED BY <1>2, <1>7, <2>1, <2>2, EmptySeq, ConcatEmptySeq
<1>8. CASE n # 0
  <2>1. FlattenSeq(ss) = g[n]
    BY <1>8, FlattenDefinition
  <2>2. \A z \in Z, i \in 1 .. n : Joined(ss, z, i) \in Z /\ Joined(tt, z, i) = Joined(ss, z, i)
    BY <1>1, <1>3 DEF Joined
  <2>3. g[1] = ss[1] /\ \A i \in 2 .. n : g[i] = Joined(ss, g[i - 1], i)
    <3>1. n \in Nat \ {0} /\ ss[1] \in Z
      BY <1>1, <1>8
    <3> HIDE DEF n
    <3> QED BY <2>2, <3>1, FlattenUnfolds
  <2> HIDE DEF g, h, tt, n
  <2> DEFINE S == {i \in Nat : i \in 1 .. n => g[i] \in Z /\ h[i] = g[i]}
  <2>4. 0 \in S
    OBVIOUS
  <2>5. ASSUME NEW i \in Nat, i \in S PROVE i + 1 \in S
    <3> SUFFICES ASSUME i + 1 \in 1 .. n PROVE g[i + 1] \in Z /\ h[i + 1] = g[i + 1]
      OBVIOUS
    <3>1. CASE i = 0
      BY <1>1, <1>6, <2>3, <3>1
    <3>2. CASE i # 0
      <4>1. i \in 1 .. n /\ i + 1 \in 2 .. n /\ i + 1 \in 2 .. n + 1 /\ (i + 1) - 1 = i
        BY <1>1, <3>2
      <4>2. g[i] \in Z /\ h[i] = g[i]
        BY <2>5, <4>1
      <4>3. g[i + 1] = Joined(ss, g[i], i + 1) /\ h[i + 1] = Joined(tt, h[i], i + 1)
        BY <1>6, <2>3, <4>1
      <4> QED BY <2>2, <4>1, <4>2, <4>3
    <3> QED BY <3>1, <3>2
  <2>6. n \in S
    <3> HIDE DEF S
    <3> QED BY <1>1, <2>4, <2>5, SetInduction
  <2>7. g[n] \in Z /\ h[n] = g[n]
    BY <1>1, <1>8, <2>6
  <2>8. h[n + 1] = Joined(tt, h[n], n + 1)
    <3>1. n + 1 \in 2 .. n + 1 /\ (n + 1) - 1 = n
      BY <1>1, <1>8
    <3> QED BY <1>6, <3>1
  <2>9. h[n + 1] = g[n] \o s
    BY <1>1, <2>7, <2>8 DEF Joined
  <2> QED BY <1>2, <2>1, <2>7, <2>9 DEF Z, tt
<1> QED BY <1>7, <1>8

(***************************************************************************)
(* The newest lines                                                        *)
(***************************************************************************)

(* t is the end of s. *)
EndOf(t, s) == /\ Len(t) <= Len(s)
               /\ \A i \in 1 .. Len(t) : t[i] = s[i + (Len(s) - Len(t))]

(* LastN(s, n) is the end of s, as long as n and s allow. *)
LEMMA LastNFacts ==
  ASSUME NEW T, NEW s \in Seq(T), NEW n \in Nat
  PROVE  LastN(s, n) \in Seq(T) /\ EndOf(LastN(s, n), s) /\ Len(LastN(s, n)) = Smaller(n, Len(s))
<1> DEFINE l == Len(s)
           a == IF l > n THEN l - n + 1 ELSE 1
           t == SubSeq(s, a, l)
<1>1. l \in Nat /\ \A i \in 1 .. l : s[i] \in T
  BY LenProperties, ElementOfSeq
<1>2. a \in 1 .. l + 1
  BY <1>1
<1>3. \A i \in a .. l : s[i] \in T
  BY <1>1, <1>2
<1> HIDE DEF a, l
<1>4. /\ t \in Seq(T) /\ Len(t) = IF a <= l THEN l - a + 1 ELSE 0
      /\ \A i \in 1 .. l - a + 1 : t[i] = s[a + i - 1]
  BY <1>1, <1>2, <1>3, SubSeqProperties
<1>5. Len(t) = l - a + 1
  BY <1>1, <1>2, <1>4
<1>6. \A i \in 1 .. Len(t) : t[i] = s[i + (l - Len(t))]
  <2> SUFFICES ASSUME NEW i \in 1 .. Len(t) PROVE t[i] = s[i + (l - Len(t))]
    OBVIOUS
  <2>1. i \in 1 .. l - a + 1 /\ a + i - 1 = i + (l - Len(t))
    BY <1>1, <1>2, <1>5
  <2> QED BY <1>4, <2>1
<1>7. l - a + 1 = Smaller(n, l) /\ l - a + 1 <= l
  BY <1>1 DEF a, Smaller
<1>8. LastN(s, n) = t
  BY DEF LastN, a, l
<1> HIDE DEF t
<1> QED BY <1>4, <1>5, <1>6, <1>7, <1>8 DEF EndOf, l

(* Ends of the same length are equal. *)
LEMMA EndUnique ==
  ASSUME NEW T, NEW s, NEW t \in Seq(T), NEW u \in Seq(T),
         EndOf(t, s), EndOf(u, s), Len(t) = Len(u)
  PROVE  t = u
BY SeqEqual DEF EndOf

(* What push keeps does not depend on the lines that were dropped before. *)
LEMMA PushKeepsNewest ==
  ASSUME NEW T, NEW s \in Seq(T), NEW x \in T
  PROVE  push(LastN(s, Cap), x) = LastN(Append(s, x), Cap)
<1> DEFINE l == Len(s)
           t == LastN(s, Cap)
           k == Len(t)
           t2 == Append(t, x)
           s2 == Append(s, x)
           u == LastN(t2, Cap)
           v == LastN(s2, Cap)
<1>0. Cap \in Nat /\ Cap > 0
  BY RingAssumption
<1>1. t \in Seq(T) /\ k = Smaller(Cap, l) /\ l \in Nat /\ k \in Nat /\ EndOf(t, s)
  BY <1>0, LastNFacts, LenProperties
<1>2. /\ t2 \in Seq(T) /\ Len(t2) = k + 1 /\ t2[k + 1] = x /\ \A i \in 1 .. k : t2[i] = t[i]
      /\ s2 \in Seq(T) /\ Len(s2) = l + 1 /\ s2[l + 1] = x /\ \A i \in 1 .. l : s2[i] = s[i]
  BY <1>1, AppendProperties
<1> HIDE DEF t, t2, s2, k, l
<1>3. /\ u \in Seq(T) /\ EndOf(u, t2) /\ Len(u) = Smaller(Cap, k + 1)
      /\ v \in Seq(T) /\ EndOf(v, s2) /\ Len(v) = Smaller(Cap, l + 1)
  BY <1>0, <1>2, LastNFacts
<1>4. Len(u) = Len(v) /\ Len(u) \in Nat /\ Len(u) <= k + 1 /\ k <= l
  BY <1>0, <1>1, <1>3 DEF Smaller
<1>5. \A i \in 1 .. k + 1 : t2[i] = s2[i + (l - k)]
  <2> SUFFICES ASSUME NEW i \in 1 .. k + 1 PROVE t2[i] = s2[i + (l - k)]
    OBVIOUS
  <2>1. CASE i = k + 1
    BY <1>1, <1>2, <1>4, <2>1
  <2>2. CASE i \in 1 .. k
    <3>1. t[i] = s[i + (l - k)] /\ i + (l - k) \in 1 .. l
      BY <1>1, <1>4, <2>2 DEF EndOf, k, l
    <3> QED BY <1>2, <2>2, <3>1
  <2> QED BY <1>1, <2>1, <2>2
<1> HIDE DEF u, v
<1>6. EndOf(u, s2)
  <2>1. ASSUME NEW i \in 1 .. Len(u) PROVE u[i] = s2[i + (Len(s2) - Len(u))]
    <3>1. u[i] = t2[i + ((k + 1) - Len(u))]
      BY <1>2, <1>3 DEF EndOf
    <3>2. i + ((k + 1) - Len(u)) \in 1 .. k + 1
      BY <1>1, <1>4
    <3>3. Len(s2) = l + 1
      BY <1>2
    <3>4. (i + ((k + 1) - Len(u))) + (l - k) = i + (Len(s2) - Len(u))
      <4> DEFINE e == Len(u)
      <4>1. e \in Nat /\ i \in Nat /\ l \in Nat /\ k \in Nat
        BY <1>1, <1>4
      <4> HIDE DEF e
      <4>2. (i + ((k + 1) - e)) + (l - k) = i + ((l + 1) - e)
        BY <4>1
      <4> QED BY <3>3, <4>2 DEF e
    <3> QED BY <1>5, <3>1, <3>2, <3>4
  <2> QED BY <1>1, <1>2, <1>4, <2>1 DEF EndOf
<1>7. u = v
  BY <1>3, <1>4, <1>6, EndUnique
<1> QED BY <1>7 DEF push, t, t2, s2, u, v

(* limit=n of the newest lines. *)
LEMMA LimitedNewest ==
  ASSUME NEW T, NEW s \in Seq(T), NEW n \in Nat
  PROVE  Limited(LastN(s, Cap), n) = LastN(s, IF n > 0 THEN Smaller(n, Cap) ELSE Cap)
<1> DEFINE l == Len(s)
           t == LastN(s, Cap)
           k == Len(t)
           u == LastN(t, n)
           m == IF n > 0 THEN Smaller(n, Cap) ELSE Cap
           v == LastN(s, m)
<1>0. Cap \in Nat /\ m \in Nat
  BY RingAssumption DEF Smaller
<1>1. t \in Seq(T) /\ k = Smaller(Cap, l) /\ l \in Nat /\ k \in Nat /\ EndOf(t, s)
  BY <1>0, LastNFacts, LenProperties
<1> HIDE DEF t, k, l, m
<1>2. u \in Seq(T) /\ EndOf(u, t) /\ Len(u) = Smaller(n, k)
  BY <1>1, LastNFacts DEF k
<1>3. v \in Seq(T) /\ EndOf(v, s) /\ Len(v) = Smaller(m, l)
  BY <1>0, LastNFacts DEF l
<1> HIDE DEF u, v
<1>4. CASE n > 0 /\ n < k
  <2>1. Len(u) = n /\ Len(v) = n /\ k <= l
    BY <1>0, <1>1, <1>2, <1>3, <1>4 DEF Smaller, m
  <2>2. EndOf(u, s)
    <3>1. ASSUME NEW i \in 1 .. n PROVE u[i] = s[i + (l - n)]
      <4>1. u[i] = t[i + (k - n)] /\ i + (k - n) \in 1 .. k
        BY <1>1, <1>2, <1>4, <2>1 DEF EndOf, k
      <4>2. t[i + (k - n)] = s[(i + (k - n)) + (l - k)]
        BY <1>1, <4>1 DEF EndOf, k, l
      <4>3. (i + (k - n)) + (l - k) = i + (l - n)
        BY <1>1
      <4> QED BY <4>1, <4>2, <4>3
    <3> QED BY <1>1, <1>4, <2>1, <3>1 DEF EndOf, l
  <2>3. u = v
    BY <1>2, <1>3, <2>1, <2>2, EndUnique
  <2> QED BY <1>4, <2>3 DEF Limited, u, v, t, k, m
<1>5. CASE ~(n > 0 /\ n < k)
  <2>1. Len(v) = k
    BY <1>0, <1>1, <1>3, <1>5 DEF Smaller, m
  <2>2. t = v
    BY <1>1, <1>3, <2>1, EndUnique DEF k
  <2> QED BY <1>5, <2>2 DEF Limited, v, t, k, m
<1> QED BY <1>4, <1>5

(***************************************************************************)
(* The inductive invariant                                                 *)
(***************************************************************************)
Text == Seq(Seq(Bytes))

(* The ring's mutex is taken inside the handler's.  Between the two the ring
   is one record behind stdout. *)
MutexInv ==
  /\ mu # Nobody => mu = handler
  /\ IF handler # Nobody /\ mu = Nobody
     THEN \E p \in Payloads : stdout = Append(written, p)
     ELSE stdout = written

(* Who holds the ring's mutex has pushed everything but what he has to do. *)
Pushed(todos) ==
  \E past \in Text : past \o todos = AllLines(written) /\ lines = LastN(past, Cap)
LinesInv == IF mu = Nobody THEN lines = Newest(written, Cap) ELSE Pushed(todo[mu])

(* A reader has copied the newest lines of the first records. *)
CopiedAt(g) ==
  /\ seen[g] <= Len(written)
  /\ snap[g].state = "copied" => snap[g].lines = Newest(SubSeq(written, 1, seen[g]), Cap)
  /\ snap[g].state = "served" =>
       snap[g].lines = Newest(SubSeq(written, 1, seen[g]),
                              IF snap[g].limit > 0 THEN Smaller(snap[g].limit, Cap) ELSE Cap)

LogRingInv == /\ TypeOK /\ MutexInv /\ LinesInv
              /\ \A g \in Readers : CopiedAt(g)

(* Segments and LinesOf agree on what is logged. *)
LEMMA RecordLines ==
  ASSUME NEW p \in Payloads
  PROVE  p \in Seq(Bytes) /\ Segments(p) = LinesOf(p) /\ LinesOf(p) \in Text
<1>1. p \in Seq(Bytes)
  BY LogRingAssumption
<1> QED BY <1>1, SegmentsAreLines DEF Text

(* All the lines of some records, and of one record more. *)
LEMMA AllLinesType ==
  ASSUME NEW records \in Seq(Payloads) PROVE AllLines(records) \in Text
<1> DEFINE n == Len(records)
           L == [i \in 1 .. n |-> LinesOf(records[i])]
<1>1. n \in Nat /\ \A i \in 1 .. n : LinesOf(records[i]) \in Text
  BY LenProperties, ElementOfSeq, RecordLines
<1> HIDE DEF n
<1>2. L \in Seq(Text) /\ <<>> \in Seq(Seq(Bytes))
  BY <1>1
<1> HIDE DEF L
<1>3. FlattenSeq(L) \in Text
  BY <1>2, FlattenAppend DEF Text
<1> QED BY <1>3 DEF AllLines, L, n

(* A record appends its segments. *)
LEMMA AllLinesOf ==
  ASSUME NEW records \in Seq(Payloads), NEW p \in Payloads
  PROVE  /\ AllLines(records) \in Text
         /\ AllLines(Append(records, p)) = AllLines(records) \o Segments(p)
<1> DEFINE n == Len(records)
           more == Append(records, p)
           L == [i \in 1 .. n |-> LinesOf(records[i])]
           M == [i \in 1 .. n + 1 |-> LinesOf(more[i])]
<1>1. /\ n \in Nat /\ Len(more) = n + 1 /\ more[n + 1] = p
      /\ \A i \in 1 .. n : more[i] = records[i] /\ records[i] \in Payloads
  BY AppendProperties, LenProperties, ElementOfSeq
<1>2. \A i \in 1 .. n : LinesOf(records[i]) \in Text
  BY <1>1, RecordLines
<1>3. LinesOf(p) \in Text /\ Segments(p) = LinesOf(p)
  BY RecordLines
<1> HIDE DEF more, n
<1>4. L \in Seq(Text) /\ Len(L) = n
  BY <1>1, <1>2
<1>5. Append(L, LinesOf(p)) = M
  <2> DEFINE A == Append(L, LinesOf(p))
  <2>1. /\ A \in Seq(Text) /\ Len(A) = n + 1 /\ A[n + 1] = LinesOf(p)
        /\ \A i \in 1 .. n : A[i] = LinesOf(records[i])
    <3>1. \A i \in 1 .. n : L[i] = LinesOf(records[i])
      OBVIOUS
    <3> HIDE DEF L
    <3> QED BY <1>3, <1>4, <3>1, AppendProperties
  <2>2. A \in [1 .. n + 1 -> Text]
    BY <2>1, LenProperties
  <2>3. \A i \in 1 .. n + 1 : A[i] = LinesOf(more[i])
    <3> HIDE DEF A
    <3> SUFFICES ASSUME NEW i \in 1 .. n + 1 PROVE A[i] = LinesOf(more[i])
      OBVIOUS
    <3>1. CASE i = n + 1
      BY <1>1, <2>1, <3>1
    <3>2. CASE i \in 1 .. n
      BY <1>1, <2>1, <3>2
    <3> QED BY <1>1, <3>1, <3>2
  <2> HIDE DEF A
  <2> QED BY <2>2, <2>3 DEF A
<1> HIDE DEF L, M
<1>6. FlattenSeq(L) \in Text /\ FlattenSeq(Append(L, LinesOf(p))) = FlattenSeq(L) \o LinesOf(p)
  BY <1>3, <1>4, FlattenAppend DEF Text
<1>7. AllLines(records) = FlattenSeq(L) /\ AllLines(more) = FlattenSeq(M)
  BY <1>1 DEF AllLines, L, M, n
<1> QED BY <1>3, <1>5, <1>6, <1>7 DEF more

(* No record, no line. *)
LEMMA NoLines == AllLines(<<>>) = <<>>
<1>1. [i \in 1 .. Len(<<>>) |-> LinesOf(<<>>[i])] = <<>>
  OBVIOUS
<1> QED BY <1>1 DEF AllLines, FlattenSeq

(***************************************************************************)
(* Steps                                                                   *)
(***************************************************************************)
LEMMA RingInit == Init => LogRingInv
<1> SUFFICES ASSUME Init PROVE LogRingInv
  OBVIOUS
<1>1. TypeOK
  BY RingAssumption, EmptySeq DEF Init, TypeOK
<1>2. MutexInv
  BY DEF Init, MutexInv
<1>3. LinesInv
  <2>1. LastN(<<>>, Cap) = <<>>
    <3>1. LastN(<<>>, Cap) = SubSeq(<<>>, 1, 0)
      BY RingAssumption DEF LastN
    <3> QED BY <3>1, SubSeqEmpty
  <2> QED BY <2>1, NoLines DEF Init, LinesInv, Newest
<1>4. \A g \in Readers : CopiedAt(g)
  BY EmptySeq DEF Init, CopiedAt
<1> QED BY <1>1, <1>2, <1>3, <1>4 DEF LogRingInv

(* Handler, ring, ring, handler: the mutexes nest. *)
LEMMA MutexNext ==
  ASSUME LogRingInv, [Next]_vars PROVE MutexInv'
<1> USE DEF LogRingInv, MutexInv
<1>1. ASSUME NEW w \in Writers, NEW p \in Payloads, Log(w, p) PROVE MutexInv'
  BY <1>1, LogRingAssumption DEF Log, HandlerFree
<1>2. ASSUME NEW w \in Writers, Lock(w) PROVE MutexInv'
  <2>1. w # Nobody
    BY LogRingAssumption
  <2>2. PICK p \in Payloads : stdout = Append(written, p)
    BY <1>2, <2>1 DEF Lock
  <2>3. written \in Seq(Payloads)
    BY DEF TypeOK
  <2>4. Last(stdout) = p
    BY <2>2, <2>3, AppendProperties DEF Last
  <2> QED BY <1>2, <2>1, <2>2, <2>4 DEF Lock
<1>3. ASSUME NEW w \in Writers, Push(w) PROVE MutexInv'
  BY <1>3 DEF Push
<1>4. ASSUME NEW w \in Writers, Unlock(w) PROVE MutexInv'
  BY <1>4, LogRingAssumption DEF Unlock
<1>5. ASSUME NEW g \in Readers, ServeHTTP(g) \/ Reload(g) \/ \E n \in Limits : Snapshot(g, n)
      PROVE  MutexInv'
  BY <1>5 DEF ServeHTTP, Reload, Snapshot, Copy
<1>6. CASE UNCHANGED vars
  BY <1>6 DEF vars
<1> QED BY <1>1, <1>2, <1>3, <1>4, <1>5, <1>6 DEF Next

(* The record that gets the ring's mutex is one of the payloads. *)
LEMMA LockedRecord ==
  ASSUME LogRingInv, NEW w \in Writers, Lock(w)
  PROVE  \E p \in Payloads : /\ written' = Append(written, p)
                             /\ todo' = [todo EXCEPT ![w] = Segments(p)]
<1>1. handler # Nobody /\ mu = Nobody
  BY LogRingAssumption DEF Lock
<1>2. PICK p \in Payloads : stdout = Append(written, p)
  BY <1>1 DEF LogRingInv, MutexInv
<1>3. written \in Seq(Payloads)
  BY DEF LogRingInv, TypeOK
<1>4. Last(stdout) = p
  BY <1>2, <1>3, AppendProperties DEF Last
<1> QED BY <1>4 DEF Lock

(* Types are kept. *)
LEMMA TypeNext ==
  ASSUME LogRingInv, [Next]_vars PROVE TypeOK'
<1> USE DEF TypeOK
<1>0. TypeOK /\ Cap \in Nat \ {0}
  BY RingAssumption DEF LogRingInv
<1>1. ASSUME NEW w \in Writers, NEW p \in Payloads, Log(w, p) PROVE TypeOK'
  <2>1. Append(stdout, p) \in Seq(Payloads)
    BY <1>0, AppendProperties
  <2> QED BY <1>0, <1>1, <2>1 DEF Log
<1>2. ASSUME NEW w \in Writers, Lock(w) PROVE TypeOK'
  <2>1. PICK p \in Payloads : /\ written' = Append(written, p)
                              /\ todo' = [todo EXCEPT ![w] = Segments(p)]
    BY <1>2, LockedRecord
  <2>2. Segments(p) \in Text
    BY RecordLines
  <2>3. Append(written, p) \in Seq(Payloads)
    BY <1>0, AppendProperties
  <2>4. [todo EXCEPT ![w] = Segments(p)] \in [Writers -> Text]
    BY <1>0, <2>2 DEF Text
  <2> QED BY <1>0, <1>2, <2>1, <2>3, <2>4 DEF Lock, Text
<1>3. ASSUME NEW w \in Writers, Push(w) PROVE TypeOK'
  <2> DEFINE t == todo[w]
  <2>1. t \in Text /\ t # <<>>
    BY <1>0, <1>3 DEF Push, Text
  <2>2. Head(t) \in Seq(Bytes) /\ Tail(t) \in Text
    BY <2>1, HeadTailProperties DEF Text
  <2> HIDE DEF t
  <2>3. push(lines, Head(t)) \in Text /\ Len(push(lines, Head(t))) <= Cap
    <3>1. Append(lines, Head(t)) \in Text
      BY <1>0, <2>2, AppendProperties DEF Text
    <3>2. Len(Append(lines, Head(t))) \in Nat
      BY <3>1, LenProperties DEF Text
    <3>3. /\ LastN(Append(lines, Head(t)), Cap) \in Text
          /\ Len(LastN(Append(lines, Head(t)), Cap)) = Smaller(Cap, Len(Append(lines, Head(t))))
      BY <1>0, <3>1, LastNFacts DEF Text
    <3> QED BY <1>0, <3>2, <3>3 DEF push, Smaller
  <2>4. lines' = push(lines, Head(t)) /\ todo' = [todo EXCEPT ![w] = Tail(t)]
    BY <1>3 DEF Push, t
  <2>5. [todo EXCEPT ![w] = Tail(t)] \in [Writers -> Text]
    BY <1>0, <2>2 DEF Text
  <2> QED BY <1>0, <1>3, <2>3, <2>4, <2>5 DEF Push, Text
<1>4. ASSUME NEW w \in Writers, Unlock(w) PROVE TypeOK'
  BY <1>0, <1>4 DEF Unlock
<1>5. ASSUME NEW g \in Readers, NEW n \in Limits, Snapshot(g, n) PROVE TypeOK'
  <2>1. Len(written) \in Nat
    BY <1>0, LenProperties
  <2> QED BY <1>0, <1>5, <2>1 DEF Snapshot, Copy
<1>6. ASSUME NEW g \in Readers, ServeHTTP(g) PROVE TypeOK'
  <2> DEFINE shown == Limited(snap[g].lines, snap[g].limit)
  <2>0. snap[g] \in [state : {"idle", "copied", "served"}, limit : Limits \cup {0}, lines : Text]
    BY <1>0 DEF Text
  <2>1. snap[g].lines \in Text /\ snap[g].limit \in Nat
    BY <2>0, LogRingAssumption
  <2>2. shown \in Text
    <3>1. LastN(snap[g].lines, snap[g].limit) \in Text
      BY <2>1, LastNFacts DEF Text
    <3> QED BY <2>1, <3>1 DEF Limited
  <2> DEFINE Snaps == [state : {"idle", "copied", "served"}, limit : Limits \cup {0}, lines : Text]
             s == [snap[g] EXCEPT !.state = "served", !.lines = shown]
  <2>3. snap' = [snap EXCEPT ![g] = s]
    BY <1>0, <1>6 DEF ServeHTTP
  <2>4. s \in Snaps
    <3> HIDE DEF shown
    <3> QED BY <2>0, <2>2
  <2> HIDE DEF s
  <2>5. snap' \in [Readers -> Snaps]
    BY <1>0, <2>3, <2>4 DEF Text
  <2> QED BY <1>0, <1>6, <2>5 DEF ServeHTTP, Text
<1>7. ASSUME NEW g \in Readers, Reload(g) PROVE TypeOK'
  BY <1>0, <1>7, EmptySeq DEF Reload
<1>8. CASE UNCHANGED vars
  BY <1>0, <1>8 DEF vars
<1> QED BY <1>1, <1>2, <1>3, <1>4, <1>5, <1>6, <1>7, <1>8 DEF Next

(* Lines go from the record through push into the ring, in order. *)
LEMMA LinesNext ==
  ASSUME LogRingInv, [Next]_vars PROVE LinesInv'
<1>0. /\ todo \in [Writers -> Text] /\ lines \in Text /\ written \in Seq(Payloads)
      /\ Nobody \notin Writers /\ Cap \in Nat
  BY RingAssumption, LogRingAssumption DEF LogRingInv, TypeOK, Text
<1>1. LinesInv
  BY DEF LogRingInv
<1>2. ASSUME NEW w \in Writers, NEW p \in Payloads, Log(w, p) PROVE LinesInv'
  BY <1>1, <1>2 DEF Log, LinesInv, Pushed, AllLines, Newest
<1>3. ASSUME NEW w \in Writers, Lock(w) PROVE LinesInv'
  <2>1. PICK p \in Payloads : /\ written' = Append(written, p)
                              /\ todo' = [todo EXCEPT ![w] = Segments(p)]
    BY <1>3, LockedRecord
  <2>2. lines = LastN(AllLines(written), Cap) /\ lines' = lines /\ mu' = w
    BY <1>1, <1>3 DEF Lock, LinesInv, Newest
  <2>3. AllLines(written) \in Text /\ AllLines(written)' = AllLines(written) \o Segments(p)
    BY <1>0, <2>1, AllLinesOf
  <2>4. todo'[mu'] = Segments(p)
    BY <1>0, <2>1, <2>2
  <2>5. Pushed(todo[mu])'
    BY <2>2, <2>3, <2>4 DEF Pushed
  <2> QED BY <1>0, <2>2, <2>5 DEF LinesInv
<1>4. ASSUME NEW w \in Writers, Push(w) PROVE LinesInv'
  <2> DEFINE t == todo[w]
  <2>1. /\ mu = w /\ mu' = w /\ t \in Text /\ t # <<>> /\ written' = written
        /\ lines' = push(lines, Head(t)) /\ todo' = [todo EXCEPT ![w] = Tail(t)]
    BY <1>0, <1>4 DEF Push
  <2>2. PICK past \in Text : past \o t = AllLines(written) /\ lines = LastN(past, Cap)
    BY <1>0, <1>1, <2>1 DEF LinesInv, Pushed
  <2>3. todo'[mu'] = Tail(t)
    BY <1>0, <2>1
  <2> HIDE DEF t
  <2> DEFINE x == Head(t)
             now == Append(past, x)
  <2>4. x \in Seq(Bytes) /\ Tail(t) \in Text /\ t = <<x>> \o Tail(t)
    <3>1. t \in Seq(Seq(Bytes))
      BY <2>1 DEF Text
    <3>2. x \in Seq(Bytes) /\ Tail(t) \in Seq(Seq(Bytes))
      BY <2>1, <3>1, HeadTailProperties
    <3>3. Len(t) \in Nat \ {0}
      BY <2>1, <3>1, EmptySeq
    <3>4. t = SubSeq(t, 1, Len(t)) /\ x = t[1] /\ Tail(t) = SubSeq(t, 2, Len(t))
      BY <2>1, <3>1, SubSeqFull, TailIsSubSeq
    <3>5. SubSeq(t, 1, Len(t)) = <<t[1]>> \o SubSeq(t, 1 + 1, Len(t))
      BY <3>1, <3>3, SubSeqRecursiveFirst
    <3> QED BY <3>2, <3>4, <3>5 DEF Text
  <2> HIDE DEF x
  <2>5. now \in Text /\ now = past \o <<x>>
    BY <2>2, <2>4, AppendProperties, AppendIsConcat DEF Text
  <2>6. now \o Tail(t) = AllLines(written)
    <3>1. <<x>> \in Text
      BY <2>4 DEF Text
    <3>2. (past \o <<x>>) \o Tail(t) = past \o (<<x>> \o Tail(t))
      BY <2>2, <2>4, <3>1, ConcatAssociative DEF Text
    <3> QED BY <2>2, <2>4, <2>5, <3>2
  <2>7. lines' = LastN(now, Cap)
    BY <2>1, <2>2, <2>4, PushKeepsNewest DEF Text, x
  <2> HIDE DEF now
  <2>8. AllLines(written)' = AllLines(written)
    BY <2>1 DEF AllLines
  <2>9. Pushed(todo[mu])'
    BY <2>3, <2>5, <2>6, <2>7, <2>8 DEF Pushed
  <2> QED BY <1>0, <2>1, <2>9 DEF LinesInv
<1>5. ASSUME NEW w \in Writers, Unlock(w) PROVE LinesInv'
  <2>1. /\ mu = w /\ mu' = Nobody /\ todo[w] = <<>> /\ lines' = lines /\ written' = written
    BY <1>5 DEF Unlock
  <2>2. PICK past \in Text : past \o <<>> = AllLines(written) /\ lines = LastN(past, Cap)
    BY <1>0, <1>1, <2>1 DEF LinesInv, Pushed
  <2>3. past \o <<>> = past
    BY ConcatEmptySeq DEF Text
  <2>4. lines = Newest(written, Cap)
    BY <2>2, <2>3 DEF Newest
  <2> QED BY <2>1, <2>4 DEF LinesInv, Newest, AllLines
<1>6. ASSUME NEW g \in Readers, ServeHTTP(g) \/ Reload(g) \/ \E n \in Limits : Snapshot(g, n)
      PROVE  LinesInv'
  <2>1. UNCHANGED <<mu, lines, todo, written>>
    BY <1>6 DEF ServeHTTP, Reload, Snapshot, Copy
  <2> QED BY <1>1, <2>1 DEF LinesInv, Pushed, AllLines, Newest
<1>7. CASE UNCHANGED vars
  BY <1>1, <1>7 DEF vars, LinesInv, Pushed, AllLines, Newest
<1> QED BY <1>2, <1>3, <1>4, <1>5, <1>6, <1>7 DEF Next

(* Append changes nothing that was there before. *)
LEMMA BeginningKept ==
  ASSUME NEW T, NEW s \in Seq(T), NEW x \in T, NEW m \in 0 .. Len(s)
  PROVE  /\ SubSeq(Append(s, x), 1, m) = SubSeq(s, 1, m)
         /\ SubSeq(Append(s, x), 1, Len(s)) = s
<1>1. /\ Append(s, x) = s \o <<x>> /\ <<x>> \in Seq(T) /\ Len(s) \in Nat
  BY AppendIsConcat, LenProperties
<1>2. ASSUME NEW n \in 1 .. Len(s) PROVE SubSeq(Append(s, x), 1, n) = SubSeq(s, 1, n)
  <2>1. 1 \in 1 .. Len(s)
    BY <1>1
  <2> QED BY <1>1, <2>1, SubSeqOfConcat1
<1>3. SubSeq(Append(s, x), 1, 0) = <<>> /\ SubSeq(s, 1, 0) = <<>>
  BY SubSeqEmpty
<1>4. SubSeq(s, 1, Len(s)) = s
  BY SubSeqFull
<1>5. \A n \in 0 .. Len(s) : SubSeq(Append(s, x), 1, n) = SubSeq(s, 1, n)
  BY <1>1, <1>2, <1>3
<1> QED BY <1>1, <1>4, <1>5

(* What a reader has copied are lines of a beginning of written, which later
   records do not change. *)
LEMMA CopiedNext ==
  ASSUME LogRingInv, [Next]_vars, NEW g \in Readers PROVE CopiedAt(g)'
<1>0. /\ TypeOK /\ CopiedAt(g) /\ written \in Seq(Payloads) /\ seen[g] \in Nat
  BY DEF LogRingInv, TypeOK
<1>1. CASE UNCHANGED <<snap, seen>>
  <2> DEFINE m == seen[g]
  <2>1. written' = written \/ \E p \in Payloads : written' = Append(written, p)
    <3>1. ASSUME NEW w \in Writers, Lock(w) PROVE \E p \in Payloads : written' = Append(written, p)
      BY <3>1, LockedRecord
    <3> QED BY <3>1 DEF Next, Log, Push, Unlock, ServeHTTP, Reload, Snapshot, Copy, vars
  <2>2. Len(written) \in Nat /\ m \in Nat /\ m <= Len(written)
    BY <1>0, LenProperties DEF CopiedAt
  <2>3. SubSeq(written', 1, m) = SubSeq(written, 1, m) /\ m <= Len(written')
    <3>1. ASSUME NEW p \in Payloads, written' = Append(written, p)
          PROVE  SubSeq(written', 1, m) = SubSeq(written, 1, m) /\ m <= Len(written')
      <4>1. Len(written') = Len(written) + 1
        BY <1>0, <3>1, AppendProperties
      <4>2. m \in 0 .. Len(written)
        BY <2>2
      <4> HIDE DEF m
      <4> QED BY <1>0, <2>2, <3>1, <4>1, <4>2, BeginningKept
    <3> QED BY <2>1, <2>2, <3>1
  <2> QED BY <1>0, <1>1, <2>3 DEF CopiedAt
<1>2. ASSUME NEW q \in Readers, NEW n \in Limits, Snapshot(q, n) PROVE CopiedAt(g)'
  <2>1. /\ snap' = [snap EXCEPT ![q] = [state |-> "copied", limit |-> n, lines |-> lines]]
        /\ seen' = [seen EXCEPT ![q] = Len(written)] /\ written' = written /\ mu = Nobody
    BY <1>2 DEF Snapshot, Copy
  <2>2. CASE q = g
    <3>1. /\ snap'[g].state = "copied" /\ snap'[g].lines = lines /\ seen'[g] = Len(written)
      BY <1>0, <2>1, <2>2 DEF TypeOK
    <3>2. lines = Newest(written, Cap)
      BY <2>1 DEF LogRingInv, LinesInv
    <3>3. SubSeq(written, 1, Len(written)) = written /\ Len(written) \in Nat
      BY <1>0, SubSeqFull, LenProperties
    <3>4. SubSeq(written', 1, seen'[g]) = written /\ seen'[g] <= Len(written')
      BY <2>1, <3>1, <3>3
    <3>5. snap'[g].lines = Newest(SubSeq(written', 1, seen'[g]), Cap)
      BY <3>1, <3>2, <3>4
    <3> QED BY <3>1, <3>4, <3>5 DEF CopiedAt
  <2>3. CASE q # g
    <3>1. snap'[g] = snap[g] /\ seen'[g] = seen[g]
      BY <1>0, <2>1, <2>3 DEF TypeOK
    <3> QED BY <1>0, <2>1, <3>1 DEF CopiedAt
  <2> QED BY <2>2, <2>3
<1>3. ASSUME NEW q \in Readers, ServeHTTP(q) PROVE CopiedAt(g)'
  <2>1. seen' = seen /\ written' = written
    BY <1>3 DEF ServeHTTP
  <2>2. CASE q = g
    <3> DEFINE n == snap[g].limit
               records == SubSeq(written, 1, seen[g])
    <3>1. snap[g].state = "copied" /\ snap[g].limit \in Limits \cup {0}
      BY <1>0, <1>3, <2>2 DEF ServeHTTP, TypeOK
    <3>2. /\ snap'[g].state = "served" /\ snap'[g].limit = n
          /\ snap'[g].lines = Limited(snap[g].lines, n)
      BY <1>0, <1>3, <2>2 DEF ServeHTTP, TypeOK
    <3>3. snap[g].lines = LastN(AllLines(records), Cap)
      BY <1>0, <3>1 DEF CopiedAt, Newest
    <3>4. n \in Nat
      <4>1. Limits \cup {0} \subseteq Nat
        BY LogRingAssumption
      <4> QED BY <3>1, <4>1
    <3>5. records \in Seq(Payloads)
      BY <1>0, SliceType DEF CopiedAt
    <3> HIDE DEF n, records
    <3>6. snap'[g].lines = LastN(AllLines(records), IF n > 0 THEN Smaller(n, Cap) ELSE Cap)
      BY <3>2, <3>3, <3>4, <3>5, AllLinesType, LimitedNewest DEF Text
    <3> QED BY <1>0, <2>1, <3>2, <3>6 DEF CopiedAt, Newest, n, records
  <2>3. CASE q # g
    <3>1. snap'[g] = snap[g]
      BY <1>0, <1>3, <2>3 DEF ServeHTTP, TypeOK
    <3> QED BY <1>0, <2>1, <3>1 DEF CopiedAt
  <2> QED BY <2>2, <2>3
<1>4. ASSUME NEW q \in Readers, Reload(q) PROVE CopiedAt(g)'
  <2>1. written' = written /\ Len(written) \in Nat
    BY <1>0, <1>4, LenProperties DEF Reload
  <2>2. CASE q = g
    <3>1. snap'[g].state = "idle" /\ seen'[g] = 0
      BY <1>0, <1>4, <2>2 DEF Reload, TypeOK
    <3> QED BY <2>1, <3>1 DEF CopiedAt
  <2>3. CASE q # g
    <3>1. snap'[g] = snap[g] /\ seen'[g] = seen[g]
      BY <1>0, <1>4, <2>3 DEF Reload, TypeOK
    <3> QED BY <1>0, <2>1, <3>1 DEF CopiedAt
  <2> QED BY <2>2, <2>3
<1>5. CASE \E w \in Writers : Lock(w) \/ Push(w) \/ Unlock(w) \/ \E p \in Payloads : Log(w, p)
  BY <1>1, <1>5 DEF Lock, Push, Unlock, Log
<1>6. CASE UNCHANGED vars
  BY <1>1, <1>6 DEF vars
<1> QED BY <1>2, <1>3, <1>4, <1>5, <1>6 DEF Next

(***************************************************************************)
(* Theorems                                                                *)
(***************************************************************************)

(* The invariant of the ring and its mutexes, whatever is logged. *)
THEOREM LogRingInvariance == Spec => []LogRingInv
<1>1. Init => LogRingInv
  BY RingInit
<1>2. LogRingInv /\ [Next]_vars => LogRingInv'
  BY TypeNext, MutexNext, LinesNext, CopiedNext DEF LogRingInv
<1> QED BY <1>1, <1>2, PTL DEF Spec

(* The lines of the ring, of a record that is being pushed and of a snapshot
   are lines, and never more than the ring has room for. *)
THEOREM LogRingTyped == Spec => []TypeOK
<1>1. LogRingInv => TypeOK
  BY DEF LogRingInv
<1> QED BY <1>1, LogRingInvariance, PTL

(* "Ring keeps the most recent log lines" (log.go): push, line by line, comes
   to the newest lines of everything that Write was given. *)
THEOREM RingTruth == Spec => []RingHoldsNewest
<1>1. LogRingInv => RingHoldsNewest
  BY DEF LogRingInv, LinesInv, RingHoldsNewest
<1> QED BY <1>1, LogRingInvariance, PTL

(* GET /logs serves the newest lines of whole records, however the Writes and
   the Snapshots interleave. *)
THEOREM ServedTruth == Spec => []ServedWhole
<1>1. LogRingInv => ServedWhole
  BY DEF LogRingInv, CopiedAt, ServedWhole
<1> QED BY <1>1, LogRingInvariance, PTL

(* stdout and the ring get the records in one order, and the ring is at most
   one behind. *)
THEOREM StdoutFollowed == Spec => []RingFollowsStdout
<1>1. ASSUME LogRingInv PROVE RingFollowsStdout
  <2>1. written \in Seq(Payloads)
    BY <1>1 DEF LogRingInv, TypeOK
  <2>2. Len(written) \in Nat
    BY <2>1, LenProperties
  <2>3. CASE stdout = written
    <3>1. SubSeq(written, 1, Len(written)) = written
      BY <2>1, SubSeqFull
    <3> QED BY <2>2, <2>3, <3>1 DEF RingFollowsStdout
  <2>4. ASSUME NEW p \in Payloads, stdout = Append(written, p) PROVE RingFollowsStdout
    <3>1. Len(stdout) = Len(written) + 1
      BY <2>1, <2>4, AppendProperties
    <3>2. SubSeq(stdout, 1, Len(written)) = written
      BY <2>1, <2>4, BeginningKept
    <3> QED BY <2>2, <3>1, <3>2 DEF RingFollowsStdout
  <2> QED BY <1>1, <2>3, <2>4 DEF LogRingInv, MutexInv
<1> QED BY <1>1, LogRingInvariance, PTL
=============================================================================
