------------------------------ MODULE LogRing ------------------------------
(***************************************************************************)
(* The logger of the service: goroutines that write log records to stdout  *)
(* and to the ring, one after the other (io.MultiWriter), and requests of  *)
(* GET /logs that read the ring.  The ring's mutex is explicit: Write      *)
(* pushes line by line while it holds it.                                  *)
(***************************************************************************)
EXTENDS Ring, FiniteSetsExt, SequencesExt

CONSTANTS Writers,   \* goroutines that log
          Readers,   \* requests of GET /logs
          Payloads,  \* byte strings given to Write
          Limits,    \* values of ?limit=
          Nobody,
          MaxWrites  \* bound on the number of records

Bytes == UNION {Range(p) : p \in Payloads}

ASSUME LogRingAssumption ==
  /\ Payloads \subseteq Seq(Bytes) /\ Limits \subseteq Nat /\ Nobody \notin Writers

VARIABLES stdout,  \* the records written to stdout
          handler, \* holder of the mutex of slog's JSONHandler
          mu,      \* holder of Ring.mu
          lines,   \* Ring.lines
          todo,    \* writer -> the lines of its record that it has yet to push
          snap,    \* reader -> its snapshot, or what it has served
          written, \* history: the records, in the order in which they got mu
          seen     \* history: reader -> the number of records before its snapshot

vars == <<stdout, handler, mu, lines, todo, snap, written, seen>>

Init ==
  /\ stdout = <<>> /\ handler = Nobody /\ mu = Nobody
  /\ lines = <<>> /\ todo = [w \in Writers |-> <<>>]
  /\ snap = [g \in Readers |-> [state |-> "idle", limit |-> 0, lines |-> <<>>]]
  /\ written = <<>> /\ seen = [g \in Readers |-> 0]

(* slog formats the record, takes its mutex and writes to stdout. *)
NoMutex == TRUE
HandlerFree == handler = Nobody
Log(w, p) ==
  /\ HandlerFree /\ Len(stdout) < MaxWrites
  /\ handler' = w
  /\ stdout' = Append(stdout, p)
  /\ UNCHANGED <<mu, lines, todo, snap, written, seen>>

(* Ring.Write begins. *)
Lock(w) ==
  /\ handler = w /\ mu = Nobody /\ Len(written) < Len(stdout)
  /\ mu' = w
  /\ written' = Append(written, Last(stdout))
  /\ todo' = [todo EXCEPT ![w] = Segments(Last(stdout))]
  /\ UNCHANGED <<stdout, handler, lines, snap, seen>>

Push(w) ==
  /\ mu = w /\ todo[w] # <<>>
  /\ lines' = push(lines, Head(todo[w]))
  /\ todo' = [todo EXCEPT ![w] = Tail(@)]
  /\ UNCHANGED <<stdout, handler, mu, snap, written, seen>>

Unlock(w) ==
  /\ mu = w /\ todo[w] = <<>>
  /\ mu' = Nobody /\ handler' = Nobody
  /\ UNCHANGED <<stdout, lines, todo, snap, written, seen>>

Copy(g, n) ==
  /\ snap[g].state = "idle"
  /\ snap' = [snap EXCEPT ![g] = [state |-> "copied", limit |-> n, lines |-> lines]]
  /\ seen' = [seen EXCEPT ![g] = Len(written)]
  /\ UNCHANGED <<stdout, handler, mu, lines, todo, written>>

SnapshotUnlocked(g, n) == Copy(g, n)
Snapshot(g, n) == mu = Nobody /\ Copy(g, n)

ServeHTTP(g) ==
  /\ snap[g].state = "copied"
  /\ snap' = [snap EXCEPT ![g].state = "served",
                          ![g].lines = Limited(@, snap[g].limit)]
  /\ UNCHANGED <<stdout, handler, mu, lines, todo, written, seen>>

(* The client looks again. *)
Reload(g) ==
  /\ snap[g].state = "served"
  /\ snap' = [snap EXCEPT ![g] = [state |-> "idle", limit |-> 0, lines |-> <<>>]]
  /\ seen' = [seen EXCEPT ![g] = 0]
  /\ UNCHANGED <<stdout, handler, mu, lines, todo, written>>

Next ==
  \/ \E w \in Writers : Lock(w) \/ Push(w) \/ Unlock(w) \/ \E p \in Payloads : Log(w, p)
  \/ \E g \in Readers : ServeHTTP(g) \/ Reload(g) \/ \E n \in Limits : Snapshot(g, n)

Spec == Init /\ [][Next]_vars

(***************************************************************************)
(* Properties                                                              *)
(***************************************************************************)
TypeOK ==
  /\ stdout \in Seq(Payloads) /\ written \in Seq(Payloads)
  /\ handler \in Writers \cup {Nobody} /\ mu \in Writers \cup {Nobody}
  /\ lines \in Seq(Seq(Bytes)) /\ Len(lines) <= Cap
  /\ todo \in [Writers -> Seq(Seq(Bytes))]
  /\ snap \in [Readers -> [state : {"idle", "copied", "served"},
                           limit : Limits \cup {0}, lines : Seq(Seq(Bytes))]]
  /\ seen \in [Readers -> Nat]

(* What a line is, independently of the loop: a longest run of bytes without
   a newline; the k-th one has k - 1 before it. *)
Runs(p) ==
  {ab \in (1 .. Len(p)) \X (1 .. Len(p)) :
     LET a == ab[1] b == ab[2] IN
     /\ a <= b
     /\ \A i \in a .. b : p[i] # NL
     /\ a = 1 \/ p[a - 1] = NL
     /\ b = Len(p) \/ p[b + 1] = NL}
Before(p, ab) == {cd \in Runs(p) : cd[1] < ab[1]}
Kth(p, k) == CHOOSE ab \in Runs(p) : Cardinality(Before(p, ab)) = k - 1
LinesOf(p) ==
  [k \in 1 .. Cardinality(Runs(p)) |-> SubSeq(p, Kth(p, k)[1], Kth(p, k)[2])]

AllLines(records) == FlattenSeq([i \in 1 .. Len(records) |-> LinesOf(records[i])])
Newest(records, n) == LastN(AllLines(records), n)

(* "Ring keeps the most recent log lines": whenever the mutex is free, the
   ring holds exactly the newest Cap lines of everything that was written. *)
RingHoldsNewest == mu = Nobody => lines = Newest(written, Cap)

Smaller(a, b) == IF a < b THEN a ELSE b

(* What GET /logs serves are the newest lines, as many as there are, as the
   ring can hold and as were asked for, of whole records: never a part of a
   record that is being written, whatever was written since the snapshot. *)
ServedWhole ==
  \A g \in Readers : snap[g].state = "served" =>
    snap[g].lines = Newest(SubSeq(written, 1, seen[g]),
                           IF snap[g].limit > 0 THEN Smaller(snap[g].limit, Cap) ELSE Cap)

(* "Full history still goes to stdout": stdout and the ring see the records in
   one order, and the ring is at most the record that is being written behind. *)
RingFollowsStdout ==
  /\ Len(stdout) - Len(written) \in {0, 1}
  /\ written = SubSeq(stdout, 1, Len(written))
=============================================================================
