-------------------------------- MODULE Ring --------------------------------
(***************************************************************************)
(* internal/obs/log.go, without concurrency: how Write cuts what it is     *)
(* given into lines, how push keeps the newest ones, and what limit=n      *)
(* selects.                                                                *)
(***************************************************************************)
EXTENDS Integers, Sequences

CONSTANTS Cap, \* capacity of the ring
          NL   \* the newline byte

ASSUME RingAssumption == Cap \in Nat \ {0}

LastN(s, n) == SubSeq(s, IF Len(s) > n THEN Len(s) - n + 1 ELSE 1, Len(s))

NeverTrim(lines, line) == Append(lines, line)
push(lines, line) == LastN(Append(lines, line), Cap)

(* The loop of Write: a line ends at a newline, empty ones are skipped. *)
Scan(p) ==
  LET scan[i \in 0 .. Len(p)] ==
        IF i = 0 THEN [start |-> 1, out |-> <<>>]
        ELSE LET s == scan[i - 1] IN
             IF p[i] # NL THEN s
             ELSE [start |-> i + 1,
                   out   |-> IF i > s.start THEN Append(s.out, SubSeq(p, s.start, i - 1))
                             ELSE s.out]
  IN scan[Len(p)]

DropPartial(p) == Scan(p).out

(* All the lines of one Write: what is left after the last newline too. *)
Segments(p) ==
  LET s == Scan(p) IN
  IF s.start <= Len(p) THEN Append(s.out, SubSeq(p, s.start, Len(p))) ELSE s.out

(* ?limit=n; 0 stands for no limit, or one that is not a number. *)
Limited(lines, n) == IF n > 0 /\ n < Len(lines) THEN LastN(lines, n) ELSE lines
=============================================================================
