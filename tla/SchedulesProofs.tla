--------------------------- MODULE SchedulesProofs ---------------------------
(***************************************************************************)
(* What recurring schedules promise, for any number of schedules,           *)
(* evaluators and definitions, any clock that is put back by no more than   *)
(* the fold window, and any quota.  The argument: an armed schedule's due   *)
(* slot is later than every slot it was handled for, and evaluation never   *)
(* chooses an earlier one.                                                  *)
(***************************************************************************)
EXTENDS Schedules, FiniteSetTheorems, WellFoundedInduction, TLAPS

Typed ==
  /\ now \in Minutes
  /\ sched \in [Schedules -> Row \cup {None}]
  /\ live \subseteq occs /\ \A o \in occs : o.s \in Schedules /\ o.at \in Minutes
  /\ IsFiniteSet(live) /\ others \in Nat

\* What is armed is active, for a slot of its definition that lies after all
\* that were handled.
Armed ==
  \A s \in Schedules : Exists(s) =>
    /\ sched[s].last # None => sched[s].last <= now
    /\ sched[s].due # None =>
         /\ ~sched[s].paused /\ IsOccurrence(sched[s].def, sched[s].due)
         /\ sched[s].last # None => sched[s].last < sched[s].due
         /\ \A o \in Of(s) : o.at < sched[s].due

\* Occurrences are slots of their schedule, none in the future, one per slot.
Handled ==
  /\ \A o \in occs : /\ Exists(o.s) /\ o.at <= now
                     /\ \E d \in Defs : IsOccurrence(d, o.at)
  /\ \A o, q \in occs : o.s = q.s /\ o.at = q.at => o = q

\* A run that is live belongs to its schedule's latest occurrence with a run.
Latest ==
  \A o \in live : /\ o.status = "STARTED"
                  /\ \A q \in occs : q.s = o.s /\ q.status = "STARTED" => q.at <= o.at

WithinRuns == NonterminalRuns <= MaxRuns

Inv == Typed /\ Armed /\ Handled /\ Latest /\ WithinRuns

-----------------------------------------------------------------------------
\* A non-empty set of minutes has a first and a last.
LEMMA FirstAndLast ==
  ASSUME NEW S, S \subseteq Minutes, S # {}
  PROVE  /\ Min(S) \in S /\ \A u \in S : Min(S) <= u
         /\ Max(S) \in S /\ \A u \in S : Max(S) >= u
<1>0. Horizon \in Nat /\ Minutes \subseteq Nat /\ \A u \in Minutes : u <= Horizon
  BY SchedulesAssumption DEF Minutes
<1>1. ASSUME NEW T, T \subseteq Nat, T # {} PROVE \E x \in T : \A y \in T : x <= y
  <2> DEFINE R == OpToRel(<, Nat)
  <2>1. IsWellFoundedOn(R, Nat)
    BY NatLessThanWellFounded
  <2>2. \A x, y \in Nat : y < x => <<y, x>> \in R
    BY DEF OpToRel
  <2> HIDE DEF R
  <2>3. PICK x \in T : \A y \in T : ~(<<y, x>> \in R)
    BY <1>1, <2>1, WFMin
  <2>4. \A y \in T : ~(y < x)
    BY <1>1, <2>2, <2>3
  <2>5. \A y \in T : x <= y
    BY <1>1, <2>4
  <2> QED
    BY <2>5
<1>2. \E x \in S : \A y \in S : x <= y
  BY <1>0, <1>1
<1>3. \E x \in S : \A y \in S : x >= y
  <2> DEFINE T == {Horizon - u : u \in S}
  <2>1. T \subseteq Nat /\ T # {}
    <3>1. \A u \in S : Horizon - u \in Nat
      BY <1>0
    <3>2. PICK u : u \in S
      OBVIOUS
    <3>3. Horizon - u \in T
      BY <3>2
    <3> QED
      BY <3>1, <3>3
  <2>2. PICK t \in T : \A y \in T : t <= y
    BY <1>1, <2>1
  <2>3. PICK x \in S : t = Horizon - x
    OBVIOUS
  <2>4. \A y \in S : Horizon - x <= Horizon - y
    BY <2>2, <2>3
  <2> QED
    BY <1>0, <2>4
<1> QED
  BY <1>2, <1>3 DEF Min, Max

\* NextOccurrence finds a slot of the definition that is later, or none.
LEMMA NextIsLater ==
  ASSUME NEW d, NEW after, NextOccurrence(d, after) # None
  PROVE  /\ NextOccurrence(d, after) \in Minutes /\ NextOccurrence(d, after) > after
         /\ IsOccurrence(d, NextOccurrence(d, after))
         /\ \A u \in Minutes : u > after /\ IsOccurrence(d, u) => NextOccurrence(d, after) <= u
<1> DEFINE later == {u \in Minutes : u > after /\ IsOccurrence(d, u)}
<1>1. later # {} /\ NextOccurrence(d, after) = Min(later)
  BY DEF NextOccurrence
<1> HIDE DEF NextOccurrence
<1>2. Min(later) \in later /\ \A u \in later : Min(later) <= u
  BY <1>1, FirstAndLast
<1> QED
  BY <1>1, <1>2

\* CoalesceMissed finds the latest slot missed, if there is one.
LEMMA CoalesceFindsLatest ==
  ASSUME NEW d, NEW last, NEW at,
         NEW u \in Minutes, u > last, u <= at, IsOccurrence(d, u)
  PROVE  LET c == CoalesceMissed(d, last, at).latest
         IN /\ c \in Minutes /\ c # None /\ c > last /\ c <= at /\ IsOccurrence(d, c)
            /\ \A v \in Minutes : v > last /\ v <= at /\ IsOccurrence(d, v) => v <= c
<1> DEFINE missed == {v \in Minutes : v > last /\ v <= at /\ IsOccurrence(d, v)}
<1>1. missed # {} /\ missed \subseteq Minutes
  OBVIOUS
<1>2. CoalesceMissed(d, last, at).latest = Max(missed)
  BY <1>1 DEF CoalesceMissed
<1>3. Max(missed) \in missed /\ \A v \in missed : Max(missed) >= v
  BY <1>1, FirstAndLast
<1>4. Minutes \subseteq Int /\ None \notin Int
  BY SchedulesAssumption DEF Minutes
<1> QED
  BY <1>2, <1>3, <1>4

-----------------------------------------------------------------------------
\* What is known of a row.
LEMMA RowFacts ==
  ASSUME Inv, NEW s \in Schedules, Exists(s)
  PROVE  /\ sched[s] \in Row /\ sched[s].def \in Defs /\ sched[s].paused \in BOOLEAN
         /\ sched[s].due # None => sched[s].due \in Nat /\ sched[s].due \in Minutes
         /\ sched[s].last # None => sched[s].last \in Nat /\ sched[s].last \in Minutes
         /\ now \in Nat /\ now \in Minutes /\ Minutes \subseteq Nat
BY SchedulesAssumption DEF Inv, Typed, Exists, Row, Minutes

\* The slot an evaluation chooses is the due one or a later one, not in the
\* future, and none is left between it and now unless it is the first.
LEMMA ChosenIsCurrent ==
  ASSUME Inv, NEW s \in Schedules, IsDue(s)
  PROVE  LET c == Chosen(sched[s]) IN
         /\ c.at \in Minutes /\ sched[s].due <= c.at /\ c.at <= now
         /\ IsOccurrence(sched[s].def, c.at)
         /\ sched[s].last # None =>
              \A u \in Minutes : u > c.at /\ IsOccurrence(sched[s].def, u) => u > now
<1> DEFINE r == sched[s]
           c == Chosen(r)
           m == CoalesceMissed(r.def, r.last, now)
<1>0. /\ Exists(s) /\ r.due \in Minutes /\ r.due <= now /\ IsOccurrence(r.def, r.due)
      /\ r.last # None => r.last < r.due /\ r.last \in Minutes
      /\ Minutes \subseteq Nat /\ now \in Nat
  BY RowFacts DEF IsDue, Inv, Armed
<1> HIDE DEF r
<1>1. CASE r.last = None
  <2>1. c.at = r.due
    BY <1>1 DEF Chosen
  <2> QED
    BY <1>0, <1>1, <2>1 DEF r
<1>2. CASE r.last # None
  <2>1. /\ m.latest \in Minutes /\ m.latest # None /\ m.latest > r.last /\ m.latest <= now
        /\ IsOccurrence(r.def, m.latest)
        /\ \A v \in Minutes : v > r.last /\ v <= now /\ IsOccurrence(r.def, v) => v <= m.latest
    BY <1>0, <1>2, CoalesceFindsLatest
  <2>2. c.at = m.latest
    BY <1>2, <2>1 DEF Chosen
  <2> HIDE DEF m, c
  <2>3. r.due <= m.latest
    BY <1>0, <1>2, <2>1
  <2>4. ASSUME NEW u \in Minutes, u > m.latest, IsOccurrence(r.def, u) PROVE u > now
    <3> PICK l \in Nat : l = m.latest
      BY <1>0, <2>1
    <3> PICK f \in Nat : f = r.last
      BY <1>0, <1>2
    <3>1. u \in Nat /\ now \in Nat /\ u > l /\ l > f
      BY <1>0, <2>1, <2>4
    <3>2. u > f /\ ~(u <= l)
      BY <3>1
    <3>3. ~(u <= now)
      BY <2>1, <2>4, <3>2
    <3> QED
      BY <3>1, <3>3
  <2> QED
    BY <2>1, <2>2, <2>3, <2>4 DEF r, c
<1> QED
  BY <1>1, <1>2

\* Every occurrence of a schedule that is due lies before the slot chosen.
LEMMA ChosenIsNew ==
  ASSUME Inv, NEW s \in Schedules, IsDue(s), NEW q \in Of(s)
  PROVE  q.at < Chosen(sched[s]).at
<1> PICK at \in Minutes : at = Chosen(sched[s]).at /\ sched[s].due <= at
  BY ChosenIsCurrent
<1>1. /\ q.at < sched[s].due /\ q.at \in Nat /\ sched[s].due \in Nat /\ at \in Nat
  BY RowFacts DEF IsDue, Inv, Armed, Typed, Of
<1> QED
  BY <1>1

\* A row that has been evaluated is armed for the slot after.
LEMMA AdvancedRow ==
  ASSUME Inv, NEW s \in Schedules, Exists(s), NEW at \in Minutes
  PROVE  LET r == Advanced(sched[s], at) IN
         /\ r \in Row /\ r.def = sched[s].def /\ r.paused = sched[s].paused /\ r.last = at
         /\ r.due = NextOccurrence(sched[s].def, at)
<1>1. sched[s] \in Row
  BY RowFacts
<1>2. NextOccurrence(sched[s].def, at) \in Minutes \cup {None}
  BY NextIsLater
<1> QED
  BY <1>1, <1>2 DEF Advanced, Row

\* A paused row is not armed.
LEMMA PausedIsUnarmed ==
  ASSUME Inv, NEW s \in Schedules, Exists(s)
  PROVE  LET r == PausedRow(sched[s]) IN
         /\ r \in Row /\ r.due = None /\ r.last = sched[s].last /\ r.def = sched[s].def
<1>1. sched[s] \in Row
  BY RowFacts
<1> QED
  BY <1>1 DEF PausedRow, Row

-----------------------------------------------------------------------------
\* An evaluation that records an occurrence keeps the invariant, and what it
\* records is current.
LEMMA RecordInv ==
  ASSUME Inv, NEW s \in Schedules, IsDue(s), NEW row \in Row, NEW c, c = Chosen(sched[s]),
         NEW status, NEW debit, Record(s, row, c, status, debit), UNCHANGED <<now, others>>,
         \/ row.due = None /\ row.last = sched[s].last
         \/ row = Advanced(sched[s], c.at),
         status = "STARTED" => ~Overlaps(s) /\ NonterminalRuns < MaxRuns
  PROVE  Inv' /\ CurrentStep
<1>e. Exists(s)
  BY DEF IsDue
<1>1. PICK o : /\ o.s = s /\ o.at = c.at /\ o.status = status /\ o.rev = sched[s].rev
               /\ occs' = occs \cup {o}
               /\ live' = IF status = "STARTED" THEN live \cup {o} ELSE live
               /\ sched' = [sched EXCEPT ![s] = row]
  BY DEF Record
<1>2. /\ o.at \in Minutes /\ sched[s].due <= o.at /\ o.at <= now
      /\ IsOccurrence(sched[s].def, o.at) /\ sched[s].def \in Defs
      /\ sched[s].last # None =>
           \A u \in Minutes : u > o.at /\ IsOccurrence(sched[s].def, u) => u > now
  BY <1>e, <1>1, ChosenIsCurrent, RowFacts
<1>3. \A q \in occs : q.s = s => q.at < o.at
  BY <1>1, ChosenIsNew DEF Of
<1>4. ~sched[s].paused
  BY <1>e DEF IsDue, Inv, Armed
<1>n. o.at \in Nat /\ now \in Nat /\ Minutes \subseteq Nat /\ \A q \in occs : q.at \in Nat
  BY <1>2, <1>e, RowFacts DEF Inv, Typed
<1>5. /\ row.last # None => row.last <= now
      /\ row.due # None => /\ row.due \in Minutes /\ row.due > o.at /\ ~row.paused
                           /\ IsOccurrence(row.def, row.due)
                           /\ row.last # None => row.last < row.due
      /\ row.due # None /\ sched[s].last # None => row.due > now
  <2>1. CASE row.due = None /\ row.last = sched[s].last
    BY <1>e, <2>1 DEF Inv, Armed
  <2>2. CASE row = Advanced(sched[s], c.at)
    <3>1. /\ row.def = sched[s].def /\ row.paused = sched[s].paused /\ row.last = o.at
          /\ row.due = NextOccurrence(sched[s].def, o.at)
      BY <1>e, <1>1, <1>2, <2>2, AdvancedRow
    <3>2. row.due # None => /\ row.due \in Minutes /\ row.due > o.at
                            /\ IsOccurrence(sched[s].def, row.due)
      BY <3>1, NextIsLater
    <3>3. row.due # None => row.last < row.due
      BY <1>n, <3>1, <3>2
    <3> QED
      BY <1>2, <1>4, <3>1, <3>2, <3>3
  <2> QED
    BY <2>1, <2>2
<1>6. /\ sched'[s] = row /\ row # None /\ \A x \in Schedules \ {s} : sched'[x] = sched[x]
      /\ sched' \in [Schedules -> Row \cup {None}]
  BY <1>1, RowAssumption DEF Inv, Typed
<1>7. Typed'
  <2>1. IsFiniteSet(live')
    BY <1>1, FS_AddElement DEF Inv, Typed
  <2> QED
    BY <1>1, <1>2, <1>6, <2>1 DEF Inv, Typed
<1>8. Armed'
  <2> SUFFICES ASSUME NEW x \in Schedules, sched'[x] # None
               PROVE  /\ sched'[x].last # None => sched'[x].last <= now
                      /\ sched'[x].due # None =>
                           /\ ~sched'[x].paused
                           /\ IsOccurrence(sched'[x].def, sched'[x].due)
                           /\ sched'[x].last # None => sched'[x].last < sched'[x].due
                           /\ \A q \in occs' : q.s = x => q.at < sched'[x].due
    BY DEF Armed, Exists, Of, IsOccurrence
  <2>1. CASE x = s
    <3>1. ASSUME row.due # None, NEW q \in occs', q.s = s PROVE q.at < row.due
      <4>1. q.at \in Nat /\ q.at <= o.at
        BY <1>1, <1>3, <1>n, <3>1
      <4>2. row.due \in Nat /\ row.due > o.at
        BY <1>5, <1>n, <3>1
      <4> QED
        BY <1>n, <4>1, <4>2
    <3> QED
      BY <1>5, <1>6, <2>1, <3>1
  <2>2. CASE x # s
    BY <1>1, <1>6, <2>2 DEF Inv, Armed, Exists, Of
  <2> QED
    BY <2>1, <2>2
<1>9. Handled'
  <2>1. \A q \in occs' : sched'[q.s] # None /\ q.at <= now /\ \E d \in Defs : IsOccurrence(d, q.at)
    BY <1>1, <1>2, <1>6 DEF Inv, Handled, Exists, Typed
  <2>2. \A p, q \in occs' : p.s = q.s /\ p.at = q.at => p = q
    <3>1. \A q \in occs : q.s = s => q.at # o.at
      BY <1>3, <1>n
    <3> QED
      BY <1>1, <3>1 DEF Inv, Handled
  <2> QED
    BY <2>1, <2>2 DEF Handled, Exists, IsOccurrence
<1>10. status = "STARTED" => \A q \in live : q.s # s
  BY DEF Inv, Latest, Typed, Overlaps
<1>11. Latest'
  <2> SUFFICES ASSUME NEW p \in live'
               PROVE  /\ p.status = "STARTED"
                      /\ \A q \in occs' : q.s = p.s /\ q.status = "STARTED" => q.at <= p.at
    BY DEF Latest
  <2>1. CASE status # "STARTED"
    BY <1>1, <2>1 DEF Inv, Latest
  <2>2. CASE status = "STARTED"
    <3>1. CASE p = o
      BY <1>1, <1>3, <1>n, <2>2, <3>1
    <3>2. CASE p # o
      BY <1>1, <1>10, <2>2, <3>2 DEF Inv, Latest
    <3> QED
      BY <3>1, <3>2
  <2> QED
    BY <2>1, <2>2
<1>12. WithinRuns'
  <2>1. others \in Nat /\ IsFiniteSet(live) /\ Cardinality(live) + others <= MaxRuns
    BY DEF Inv, Typed, WithinRuns, NonterminalRuns
  <2>2. Cardinality(live) \in Nat /\ MaxRuns \in Nat
    BY <2>1, FS_CardinalityType, SchedulesAssumption
  <2>3. CASE status # "STARTED"
    BY <1>1, <2>1, <2>3 DEF WithinRuns, NonterminalRuns
  <2>4. CASE status = "STARTED"
    <3>1. Cardinality(live') <= Cardinality(live) + 1 /\ Cardinality(live') \in Nat
      <4>1. live' = live \cup {o}
        BY <1>1, <2>4
      <4>2. \/ Cardinality(live \cup {o}) = Cardinality(live)
            \/ Cardinality(live \cup {o}) = Cardinality(live) + 1
        BY <2>1, FS_AddElement
      <4> QED
        BY <2>2, <4>1, <4>2
    <3>2. Cardinality(live) + others < MaxRuns
      BY <2>4 DEF NonterminalRuns
    <3>3. Cardinality(live') + others <= MaxRuns
      BY <2>1, <2>2, <3>1, <3>2
    <3> QED
      BY <3>3 DEF WithinRuns, NonterminalRuns
  <2> QED
    BY <2>3, <2>4
<1>13. CurrentStep
  <2>1. ASSUME NEW p \in live' \ live
        PROVE  /\ Exists(p.s) /\ ~sched[p.s].paused /\ p.rev = sched[p.s].rev /\ p.at <= now
               /\ \A q \in Of(p.s) : q.at < p.at
    <3>1. p = o
      BY <1>1, <2>1
    <3> QED
      BY <1>e, <1>1, <1>2, <1>3, <1>4, <3>1 DEF Of
  <2>2. ASSUME NEW x \in Schedules, Exists(x), IsDue(x), sched[x].last # None, sched'[x] # sched[x]
        PROVE  sched'[x] = None \/ sched'[x].due = None \/ sched'[x].due > now
    BY <1>5, <1>6, <2>2
  <2> QED
    BY <2>1, <2>2 DEF CurrentStep
<1> QED
  BY <1>7, <1>8, <1>9, <1>11, <1>12, <1>13 DEF Inv

\* evaluateLocked on a schedule that is due.
LEMMA EvaluateInv ==
  ASSUME Inv, NEW v \in Evaluators, NEW s \in Schedules, Evaluate(v, s)
  PROVE  Inv' /\ CurrentStep
<1> DEFINE c == Chosen(sched[s])
<1>1. IsDue(s) /\ Exists(s) /\ UNCHANGED <<now, others>>
  BY DEF Evaluate, Decided, IsDue
<1>2. ~Claimed(s, c.at)
  <2>1. c.at \in Nat /\ \A q \in Of(s) : q.at < c.at /\ q.at \in Nat
    BY <1>1, ChosenIsCurrent, ChosenIsNew, RowFacts DEF Inv, Typed, Of
  <2> HIDE DEF c
  <2> QED
    BY <2>1 DEF Claimed, Of
<1>3. /\ Advanced(sched[s], c.at) \in Row
      /\ PausedRow(sched[s]) \in Row /\ PausedRow(sched[s]).due = None
      /\ PausedRow(sched[s]).last = sched[s].last
  BY <1>1, ChosenIsCurrent, AdvancedRow, PausedIsUnarmed
<1>4. Admission = "admitted" => NonterminalRuns < MaxRuns
  <2>1. others \in Nat /\ Cardinality(live) \in Nat /\ MaxRuns \in Nat
    BY FS_CardinalityType, SchedulesAssumption DEF Inv, Typed
  <2>2. Admission = "admitted" => ~(NonterminalRuns >= MaxRuns)
    <3> SUFFICES ASSUME NonterminalRuns >= MaxRuns PROVE Admission # "admitted"
      OBVIOUS
    <3>0. open \/ ~open
      OBVIOUS
    <3>1. CASE ~open
      BY <3>1 DEF Admission
    <3>2. CASE open /\ tokens = 0
      BY <3>2 DEF Admission
    <3>3. CASE open /\ tokens # 0
      BY <3>3 DEF Admission
    <3> QED
      BY <3>0, <3>1, <3>2, <3>3
  <2> QED
    BY <2>1, <2>2 DEF NonterminalRuns
<1>5. \/ \E d \in {0, 1} : SkipOccurrence(s, c, d)
      \/ \E d \in {0, 1} : MarkErrorPaused(s, c, d)
      \/ ~Overlaps(s) /\ Admission = "admitted" /\ StartRun(s, c)
  BY <1>2 DEF Evaluate
<1> HIDE DEF c
<1>6. ASSUME NEW d \in {0, 1}, SkipOccurrence(s, c, d) PROVE Inv' /\ CurrentStep
  BY <1>1, <1>3, <1>6, RecordInv DEF SkipOccurrence, c
<1>7. ASSUME NEW d \in {0, 1}, MarkErrorPaused(s, c, d) PROVE Inv' /\ CurrentStep
  BY <1>1, <1>3, <1>7, RecordInv DEF MarkErrorPaused, c
<1>8. CASE ~Overlaps(s) /\ Admission = "admitted" /\ StartRun(s, c)
  BY <1>1, <1>3, <1>4, <1>8, RecordInv DEF StartRun, c
<1> QED
  BY <1>5, <1>6, <1>7, <1>8

-----------------------------------------------------------------------------
\* A definition that is written is unarmed, or armed for the future.
LEMMA RowInv ==
  ASSUME Inv, NEW s \in Schedules, NEW row \in Row, sched' = [sched EXCEPT ![s] = row],
         UNCHANGED <<now, occs, live, others>>,
         row.last # None => row.last \in Minutes /\ row.last <= now,
         row.due # None => /\ row.due \in Minutes /\ row.due > now /\ ~row.paused
                           /\ IsOccurrence(row.def, row.due)
  PROVE  Inv' /\ CurrentStep
<1>1. /\ sched'[s] = row /\ row # None /\ \A x \in Schedules \ {s} : sched'[x] = sched[x]
      /\ sched' \in [Schedules -> Row \cup {None}]
  BY RowAssumption DEF Inv, Typed
<1>n. Minutes \subseteq Nat /\ now \in Nat
  BY SchedulesAssumption DEF Inv, Typed, Minutes
<1>2. Typed' /\ Latest' /\ WithinRuns'
  BY <1>1 DEF Inv, Typed, Latest, WithinRuns, NonterminalRuns
<1>3. Handled'
  BY <1>1 DEF Inv, Handled, Exists, Typed, IsOccurrence
<1>4. Armed'
  <2> SUFFICES ASSUME NEW x \in Schedules, sched'[x] # None
               PROVE  /\ sched'[x].last # None => sched'[x].last <= now
                      /\ sched'[x].due # None =>
                           /\ ~sched'[x].paused
                           /\ IsOccurrence(sched'[x].def, sched'[x].due)
                           /\ sched'[x].last # None => sched'[x].last < sched'[x].due
                           /\ \A q \in occs : q.s = x => q.at < sched'[x].due
    BY DEF Armed, Exists, Of, IsOccurrence
  <2>1. CASE x = s
    <3>1. ASSUME row.due # None
          PROVE  /\ row.last # None => row.last < row.due
                 /\ \A q \in occs : q.s = s => q.at < row.due
      <4> PICK d \in Nat : d = row.due /\ d > now
        BY <1>n, <3>1
      <4>1. \A n \in Nat : n <= now => n < d
        BY <1>n
      <4>2. \A q \in occs : q.at \in Nat /\ q.at <= now
        BY <1>n DEF Inv, Typed, Handled
      <4> QED
        BY <1>n, <4>1, <4>2
    <3> QED
      BY <1>1, <2>1, <3>1
  <2>2. CASE x # s
    BY <1>1, <2>2 DEF Inv, Armed, Exists, Of
  <2> QED
    BY <2>1, <2>2
<1>5. CurrentStep
  BY <1>1 DEF CurrentStep
<1> QED
  BY <1>2, <1>3, <1>4, <1>5 DEF Inv

\* Create, update, pause and resume.
LEMMA DefinitionInv ==
  ASSUME Inv, NEW s \in Schedules,
         Pause(s) \/ Resume(s) \/ \E d \in Defs : Create(s, d) \/ Update(s, d)
  PROVE  Inv' /\ CurrentStep
<1>0. ASSUME NEW d \in Defs, NextOccurrence(d, now) # None
      PROVE  /\ NextOccurrence(d, now) \in Minutes /\ NextOccurrence(d, now) > now
             /\ IsOccurrence(d, NextOccurrence(d, now))
  BY <1>0, NextIsLater
<1>r. ASSUME Exists(s)
      PROVE  /\ sched[s] \in Row
             /\ sched[s].last # None => sched[s].last \in Minutes /\ sched[s].last <= now
  BY <1>r, RowFacts DEF Inv, Armed
<1>1. CASE Pause(s)
  <2>1. Exists(s) /\ sched' = [sched EXCEPT ![s] = PausedRow(sched[s])]
    BY <1>1 DEF Pause
  <2>2. UNCHANGED <<now, occs, live, others>>
    BY <1>1 DEF Pause
  <2> QED
    BY <1>r, <2>1, <2>2, PausedIsUnarmed, RowInv
<1>2. CASE Resume(s)
  <2> PICK u : u = NextOccurrence(sched[s].def, now)
    OBVIOUS
  <2>1. /\ Exists(s) /\ u # None /\ UNCHANGED <<now, occs, live, others>>
        /\ sched' = [sched EXCEPT ![s].paused = FALSE, ![s].due = u]
    BY <1>2 DEF Resume
  <2>2. u \in Minutes /\ u > now /\ IsOccurrence(sched[s].def, u)
    BY <1>0, <1>r, <2>1 DEF Row
  <2> PICK row : row = [sched[s] EXCEPT !.paused = FALSE, !.due = u]
    OBVIOUS
  <2>3. /\ row \in Row /\ row.due = u /\ row.paused = FALSE
        /\ row.last = sched[s].last /\ row.def = sched[s].def
    BY <1>r, <2>1, <2>2 DEF Row
  <2>4. sched' = [sched EXCEPT ![s] = row]
    BY <2>1 DEF Inv, Typed
  <2>5. /\ row.last # None => row.last \in Minutes /\ row.last <= now
        /\ row.due \in Minutes /\ row.due > now /\ ~row.paused
        /\ IsOccurrence(row.def, row.due)
    BY <1>r, <2>1, <2>2, <2>3
  <2> QED
    BY <2>1, <2>3, <2>4, <2>5, RowInv
<1>3. ASSUME NEW d \in Defs, Create(s, d) PROVE Inv' /\ CurrentStep
  <2> PICK u : u = NextOccurrence(d, now)
    OBVIOUS
  <2> PICK row : row = [def |-> d, rev |-> 1, paused |-> FALSE, due |-> u, last |-> None]
    OBVIOUS
  <2>1. /\ u # None /\ UNCHANGED <<now, occs, live, others>>
        /\ sched' = [sched EXCEPT ![s] = row]
    BY <1>3 DEF Create
  <2>2. u \in Minutes /\ u > now /\ IsOccurrence(d, u)
    BY <1>0, <2>1
  <2>3. row \in Row /\ row.due = u /\ row.paused = FALSE /\ row.last = None /\ row.def = d
    BY <2>2, SchedulesAssumption DEF Row
  <2> QED
    BY <2>1, <2>2, <2>3, RowInv
<1>4. ASSUME NEW d \in Defs, Update(s, d) PROVE Inv' /\ CurrentStep
  <2> PICK u : u = IF sched[s].paused THEN None ELSE NextOccurrence(d, now)
    OBVIOUS
  <2> PICK n : n = sched[s].rev + 1
    OBVIOUS
  <2>1. /\ Exists(s) /\ UNCHANGED <<now, occs, live, others>> /\ sched[s].rev < MaxRev
        /\ sched' = [sched EXCEPT ![s].def = d, ![s].rev = n, ![s].due = u]
    BY <1>4 DEF Update
  <2>2. n \in 1..MaxRev
    <3>1. sched[s].rev \in 1..MaxRev /\ MaxRev \in Nat
      BY <1>r, <2>1, SchedulesAssumption DEF Row
    <3> QED
      BY <2>1, <3>1
  <2>3. u # None => u \in Minutes /\ u > now /\ IsOccurrence(d, u) /\ ~sched[s].paused
    BY <1>0
  <2> PICK row : row = [sched[s] EXCEPT !.def = d, !.rev = n, !.due = u]
    OBVIOUS
  <2>4. /\ row \in Row /\ row.due = u /\ row.paused = sched[s].paused
        /\ row.last = sched[s].last /\ row.def = d
    BY <1>r, <2>1, <2>2, <2>3 DEF Row
  <2>5. sched' = [sched EXCEPT ![s] = row]
    BY <2>1 DEF Inv, Typed
  <2>6. /\ row.last # None => row.last \in Minutes /\ row.last <= now
        /\ row.due # None => /\ row.due \in Minutes /\ row.due > now /\ ~row.paused
                             /\ IsOccurrence(row.def, row.due)
    BY <1>r, <2>1, <2>3, <2>4
  <2> QED
    BY <2>1, <2>4, <2>5, <2>6, RowInv
<1> QED
  BY <1>1, <1>2, <1>3, <1>4

\* Its occurrences go with a schedule; its runs stay within the quota.
LEMMA DeleteInv ==
  ASSUME Inv, NEW s \in Schedules, Delete(s) PROVE Inv' /\ CurrentStep
<1> DEFINE kept == {o \in live : o.s # s}
           gone == {o \in live : o.s = s}
<1>1. /\ sched' = [sched EXCEPT ![s] = None] /\ occs' = {o \in occs : o.s # s}
      /\ live' = kept /\ others' = others + Cardinality(gone) /\ now' = now
  BY DEF Delete
<1>2. /\ sched'[s] = None /\ \A x \in Schedules \ {s} : sched'[x] = sched[x]
      /\ sched' \in [Schedules -> Row \cup {None}]
  BY <1>1 DEF Inv, Typed
<1>3. /\ IsFiniteSet(kept) /\ IsFiniteSet(gone)
      /\ Cardinality(kept) \in Nat /\ Cardinality(gone) \in Nat
      /\ Cardinality(live) = Cardinality(kept) + Cardinality(gone)
  <2>1. IsFiniteSet(live) /\ kept \in SUBSET live /\ gone \in SUBSET live
    BY DEF Inv, Typed
  <2>2. IsFiniteSet(kept) /\ IsFiniteSet(gone)
    BY <2>1, FS_Subset
  <2>3. kept \cup gone = live /\ kept \cap gone = {}
    OBVIOUS
  <2> HIDE DEF kept, gone
  <2>4. Cardinality(kept \cup gone) = Cardinality(kept) + Cardinality(gone) - Cardinality(kept \cap gone)
    BY <2>2, FS_Union
  <2>5. Cardinality({}) = 0
    BY FS_EmptySet
  <2>6. Cardinality(kept) \in Nat /\ Cardinality(gone) \in Nat
    BY <2>2, FS_CardinalityType
  <2>7. Cardinality(live) = Cardinality(kept) + Cardinality(gone) - 0
    BY <2>3, <2>4, <2>5
  <2> QED
    BY <2>2, <2>6, <2>7
<1>4. others \in Nat /\ Cardinality(live) + others <= MaxRuns
  BY DEF Inv, Typed, WithinRuns, NonterminalRuns
<1>5. Typed'
  BY <1>1, <1>2, <1>3, <1>4 DEF Inv, Typed
<1>6. Handled' /\ Latest'
  BY <1>1, <1>2 DEF Inv, Typed, Handled, Latest, Exists, IsOccurrence
<1>7. Armed'
  BY <1>1, <1>2 DEF Inv, Armed, Exists, Of, IsOccurrence
<1>8. WithinRuns'
  <2> HIDE DEF kept, gone
  <2>1. Cardinality(kept) + (others + Cardinality(gone)) = Cardinality(live) + others
    BY <1>3, <1>4
  <2> QED
    BY <1>1, <1>4, <2>1 DEF WithinRuns, NonterminalRuns
<1>9. CurrentStep
  BY <1>1, <1>2 DEF CurrentStep
<1> QED
  BY <1>5, <1>6, <1>7, <1>8, <1>9 DEF Inv

\* Steps that touch neither definitions nor occurrences.
LEMMA RestInv ==
  ASSUME Inv, UNCHANGED <<sched, occs>>, now' \in Minutes, now <= now', live' \subseteq live,
         others' \in Nat, IsFiniteSet(live'), Cardinality(live') + others' <= MaxRuns
  PROVE  Inv' /\ CurrentStep
<1>n. Minutes \subseteq Nat /\ now \in Nat
  BY SchedulesAssumption DEF Inv, Typed, Minutes
<1>1. Typed' /\ Latest'
  BY DEF Inv, Typed, Latest
<1>2. Armed'
  <2>1. ASSUME NEW s \in Schedules, Exists(s), sched[s].last # None PROVE sched[s].last <= now'
    <3>1. sched[s].last \in Nat /\ sched[s].last <= now
      BY <2>1, RowFacts DEF Inv, Armed
    <3> QED
      BY <1>n, <3>1
  <2> QED
    BY <2>1 DEF Inv, Armed, Exists, Of, IsOccurrence
<1>3. Handled'
  <2>1. ASSUME NEW o \in occs PROVE o.at <= now'
    <3>1. o.at \in Minutes /\ o.at <= now
      BY DEF Inv, Typed, Handled
    <3>2. PICK i, m, n : i = o.at /\ m = now /\ n = now'
      OBVIOUS
    <3>3. i \in Nat /\ m \in Nat /\ n \in Nat /\ i <= m /\ m <= n
      BY <1>n, <3>1, <3>2
    <3>4. i <= n
      BY <3>3
    <3> QED
      BY <3>2, <3>4
  <2> QED
    BY <2>1 DEF Inv, Handled, Exists, IsOccurrence
<1>4. WithinRuns'
  BY DEF WithinRuns, NonterminalRuns
<1>5. CurrentStep
  BY DEF CurrentStep
<1> QED
  BY <1>1, <1>2, <1>3, <1>4, <1>5 DEF Inv

\* The rest of the environment, and evaluations that write nothing.
LEMMA EnvironmentInv ==
  ASSUME Inv, \/ Environment \/ UNCHANGED vars
              \/ \E v \in Evaluators : \/ FindDue(v)
                                        \/ \E s \in Schedules : NotDue(v, s) \/ EvaluationFails(v, s)
  PROVE  Inv' /\ CurrentStep
<1>0. /\ IsFiniteSet(live) /\ others \in Nat /\ Cardinality(live) \in Nat /\ MaxRuns \in Nat
      /\ Cardinality(live) + others <= MaxRuns
      /\ now \in Minutes /\ Minutes \subseteq Nat /\ Minutes = 0..Horizon /\ Horizon \in Nat
  BY FS_CardinalityType, SchedulesAssumption DEF Inv, Typed, WithinRuns, NonterminalRuns, Minutes
<1>1. CASE Tick
  <2>1. now' = now + 1 /\ now < Horizon /\ UNCHANGED <<sched, occs, live, others>>
    BY <1>1 DEF Tick
  <2>2. now' \in Minutes /\ now <= now'
    BY <1>0, <2>1
  <2> QED
    BY <1>0, <2>1, <2>2, RestInv
<1>2. CASE CreateRun
  <2>1. UNCHANGED <<now, sched, occs, live>> /\ others' = others + 1 /\ Admission = "admitted"
    BY <1>2 DEF CreateRun
  <2>2. ~(Cardinality(live) + others >= MaxRuns)
    <3> SUFFICES ASSUME NonterminalRuns >= MaxRuns PROVE FALSE
      BY DEF NonterminalRuns
    <3>1. open \/ ~open
      OBVIOUS
    <3>2. CASE ~open
      BY <2>1, <3>2 DEF Admission
    <3>3. CASE open
      BY <2>1, <3>3 DEF Admission
    <3> QED
      BY <3>1, <3>2, <3>3
  <2>3. others' \in Nat /\ Cardinality(live') + others' <= MaxRuns
    BY <1>0, <2>1, <2>2
  <2> QED
    BY <1>0, <2>1, <2>3, RestInv
<1>3. CASE RunEnds
  <2>1. ASSUME NEW o \in live, live' = live \ {o}, UNCHANGED <<now, sched, occs, others>>
        PROVE  Inv' /\ CurrentStep
    <3>1. IsFiniteSet(live') /\ Cardinality(live') = Cardinality(live) - 1
      BY <1>0, <2>1, FS_RemoveElement
    <3>2. Cardinality(live') + others' <= MaxRuns
      BY <1>0, <2>1, <3>1
    <3> QED
      BY <1>0, <2>1, <3>1, <3>2, RestInv
  <2>2. CASE others > 0 /\ others' = others - 1 /\ UNCHANGED <<now, sched, occs, live>>
    <3>1. others' \in Nat /\ Cardinality(live') + others' <= MaxRuns
      BY <1>0, <2>2
    <3> QED
      BY <1>0, <2>2, <3>1, RestInv
  <2> QED
    BY <1>3, <2>1, <2>2 DEF RunEnds
<1>4. CASE UNCHANGED <<now, sched, occs, live, others>>
  BY <1>0, <1>4, RestInv
<1> QED
  BY <1>1, <1>2, <1>3, <1>4
  DEF Environment, ActivateDeployment, SwitchAdmission, FindDue, NotDue, EvaluationFails,
      Decided, vars

-----------------------------------------------------------------------------
\* Nothing is scheduled at first.
LEMMA InitInv == Init => Inv
<1> SUFFICES ASSUME Init PROVE Inv
  OBVIOUS
<1>1. /\ now = 0 /\ sched = [s \in Schedules |-> None] /\ occs = {} /\ live = {} /\ others = 0
  BY DEF Init
<1>2. IsFiniteSet(live) /\ Cardinality(live) = 0 /\ MaxRuns \in Nat /\ Horizon \in Nat
  BY <1>1, FS_EmptySet, SchedulesAssumption
<1>3. Typed /\ WithinRuns
  BY <1>1, <1>2 DEF Typed, WithinRuns, NonterminalRuns, Minutes
<1>4. Armed /\ Handled /\ Latest
  BY <1>1 DEF Armed, Handled, Latest, Exists
<1> QED
  BY <1>3, <1>4 DEF Inv

\* Every step keeps the invariant and is current.
LEMMA NextInv == Inv /\ [Next]_vars => Inv' /\ CurrentStep
<1> SUFFICES ASSUME Inv, [Next]_vars PROVE Inv' /\ CurrentStep
  OBVIOUS
<1>1. ASSUME NEW s \in Schedules, Definition(s) PROVE Inv' /\ CurrentStep
  BY <1>1, DefinitionInv, DeleteInv DEF Definition
<1>2. ASSUME NEW v \in Evaluators, Evaluation(v) PROVE Inv' /\ CurrentStep
  BY <1>2, EvaluateInv, EnvironmentInv DEF Evaluation
<1>3. CASE Environment \/ UNCHANGED vars
  BY <1>3, EnvironmentInv
<1> QED
  BY <1>1, <1>2, <1>3 DEF Next

\* The invariant holds in every state of every execution.
THEOREM SchedulesInvariant == Spec => []Inv
<1> QED
  BY InitInv, NextInv, PTL DEF Spec

\* previousScheduledRunStatus, EvaluateOverlap and the quota of CreateRunInTx:
\* a schedule has at most one nonterminal run, though only its latest run is
\* looked at, and all runs together stay within the quota.
THEOREM AlwaysOneLiveRun == Spec => []OneLiveRun
<1>1. Inv => OneLiveRun
  <2> SUFFICES ASSUME Inv, NEW s \in Schedules PROVE Cardinality(live \cap Of(s)) <= 1
    BY DEF Inv, WithinRuns, OneLiveRun
  <2>1. ASSUME NEW o \in live \cap Of(s), NEW q \in live \cap Of(s) PROVE o = q
    <3>1. o.at <= q.at /\ q.at <= o.at /\ o.at \in Minutes /\ q.at \in Minutes
      BY DEF Inv, Latest, Typed, Of
    <3>2. PICK i, j : i = o.at /\ j = q.at
      OBVIOUS
    <3>3. i \in Nat /\ j \in Nat /\ i <= j /\ j <= i
      BY <3>1, <3>2, SchedulesAssumption DEF Minutes
    <3>4. o.at = q.at
      BY <3>2, <3>3
    <3> QED
      BY <3>4 DEF Inv, Handled, Of
  <2>2. CASE live \cap Of(s) = {}
    BY <2>2, FS_EmptySet
  <2>3. CASE live \cap Of(s) # {}
    <3>1. PICK o : live \cap Of(s) = {o}
      BY <2>1, <2>3
    <3>2. Cardinality({o}) = 1
      BY FS_Singleton
    <3> QED
      BY <3>1, <3>2
  <2> QED
    BY <2>2, <2>3
<1> QED
  BY <1>1, SchedulesInvariant, PTL

\* isRepeatedUTCOccurrence: a wall-clock minute that comes twice is run for
\* once, whatever was edited, paused or coalesced in between.
THEOREM AlwaysOncePerWallTime == Spec => []OncePerWallTime
<1>1. Inv => OncePerWallTime
  <2> SUFFICES ASSUME Inv, NEW s \in Schedules, NEW o \in Of(s), NEW q \in Of(s),
                      Wall[o.at] = Wall[q.at]
               PROVE  o = q
    BY DEF OncePerWallTime
  <2>0. o.at \in Minutes /\ q.at \in Minutes /\ Minutes \subseteq Nat /\ FoldWindow \in Nat
    BY SchedulesAssumption DEF Inv, Typed, Of, Minutes
  <2>1. ASSUME NEW a \in Minutes, NEW b \in Minutes, Wall[a] = Wall[b], a < b,
               NEW d \in Defs, IsOccurrence(d, b)
        PROVE  FALSE
    <3>1. b - a <= FoldWindow
      BY <2>1, SchedulesAssumption
    <3>2. PICK k \in 1..FoldWindow : k = b - a
      BY <2>0, <2>1, <3>1
    <3>3. b - k = a
      BY <2>0, <3>2
    <3>4. b - k \in Minutes => Wall[b - k] # Wall[b]
      BY <2>1, <3>2 DEF IsOccurrence
    <3> QED
      BY <2>1, <3>3, <3>4
  <2>2. (\E d \in Defs : IsOccurrence(d, o.at)) /\ (\E d \in Defs : IsOccurrence(d, q.at))
    BY DEF Inv, Handled, Of
  <2>3. ~(o.at < q.at) /\ ~(q.at < o.at)
    BY <2>0, <2>1, <2>2
  <2>4. PICK i, j : i = o.at /\ j = q.at
    OBVIOUS
  <2>5. i \in Nat /\ j \in Nat /\ ~(i < j) /\ ~(j < i)
    BY <2>0, <2>3, <2>4
  <2>6. i = j
    BY <2>5
  <2> QED
    BY <2>4, <2>6 DEF Inv, Handled, Of
<1> QED
  BY <1>1, SchedulesInvariant, PTL

\* lockSchedule and CoalesceMissed: runs are created only for schedules that
\* are active, for slots later than all before, and one evaluation catches up.
THEOREM EvaluationsAlwaysCurrent == Spec => EvaluationsAreCurrent
<1>1. Inv /\ [Next]_vars => [CurrentStep]_vars
  BY NextInv
<1> QED
  BY <1>1, SchedulesInvariant, PTL DEF Spec, EvaluationsAreCurrent
=============================================================================
