------------------------------ MODULE Schedules ------------------------------
(***************************************************************************)
(* Recurring schedules (internal/scheduling): definitions that operators    *)
(* create, edit, pause, resume and delete (schedule_service.go), and the    *)
(* evaluators that turn a due schedule into an occurrence and a run         *)
(* (engine.go, evaluator.go, cron.go).  An evaluator reads the due          *)
(* schedules in one transaction and decides each in another, so the list it *)
(* works from is old; the deciding transaction holds the environment        *)
(* admission lock and the schedule row, and is one step here.  Time is in   *)
(* minutes and the wall clock is a function of it that may jump forward and *)
(* back.                                                                    *)
(***************************************************************************)
EXTENDS Integers, FiniteSets, FiniteSetsExt

CONSTANTS
  Schedules,   \* schedule identifiers
  Evaluators,  \* control planes that run EvaluateDue
  Horizon,     \* bound: the last minute
  Wall,        \* the wall-clock minute at each minute, Location's work
  Defs,        \* definitions: cron expression, time zone and deployment pin
  Matching,    \* the wall-clock minutes each definition matches
  Pinned,      \* the definitions that pin a deployment
  FoldWindow,  \* how far back isRepeatedUTCOccurrence looks (120 minutes); no clock is put back further
  MaxActive,   \* MaxActiveSchedulesPerEnvironment
  MaxRuns,     \* maxNonterminalRuns
  MaxTokens,   \* the create-rate bucket
  MaxRev,      \* bound: revisions of a schedule
  None         \* NULL

Minutes == 0..Horizon

ASSUME SchedulesAssumption ==
  /\ Horizon \in Nat /\ None \notin Int
  /\ Matching \in [Defs -> SUBSET Int] /\ Pinned \subseteq Defs
  /\ MaxRuns \in Nat /\ MaxRev \in Nat \ {0} /\ FoldWindow \in Nat
  /\ \A u, v \in Minutes : u < v /\ Wall[u] = Wall[v] => v - u <= FoldWindow

VARIABLES
  now,      \* clock_timestamp()
  sched,    \* schedules rows, None where there is none
  occs,     \* schedule_occurrences rows
  live,     \* runs of occurrences that are nonterminal
  others,   \* nonterminal runs of the environment that no schedule created
  tokens,   \* environment_admissions.create_rate_tokens
  channel,  \* the workflow's active deployment: none, fit, or unfit for an empty input
  open,     \* system_recovery_controls admits new runs
  cands     \* the due schedules each evaluator has read and not decided yet

vars == <<now, sched, occs, live, others, tokens, channel, open, cands>>

-----------------------------------------------------------------------------
(* cron.go and evaluator.go *)

(* A mutant: only the minute before is compared. *)
IsOccurrence_shortWindow(d, u) ==
  Wall[u] \in Matching[d] /\ (u - 1 \in Minutes => Wall[u - 1] # Wall[u])

\* MatchesLocal, isRepeatedUTCOccurrence.  A wall time the clock jumps over is
\* no Wall[u], which is all isValidWallTime asks.
IsOccurrence(d, u) ==
  /\ Wall[u] \in Matching[d]
  /\ \A k \in 1..FoldWindow : u - k \in Minutes => Wall[u - k] # Wall[u]

\* NextOccurrence, with the end of its search at the horizon.
NextOccurrence(d, after) ==
  LET later == {u \in Minutes : u > after /\ IsOccurrence(d, u)}
  IN IF later = {} THEN None ELSE Min(later)

(* A mutant: the slot that is run for counts as skipped. *)
CoalesceMissed_allSkipped(d, last, at) ==
  LET missed == {u \in Minutes : u > last /\ u <= at /\ IsOccurrence(d, u)}
  IN [latest |-> IF missed = {} THEN None ELSE Max(missed), skipped |-> Cardinality(missed)]

\* CoalesceMissed: walk from last to now, keep the latest and the count.
CoalesceMissed(d, last, at) ==
  LET missed == {u \in Minutes : u > last /\ u <= at /\ IsOccurrence(d, u)}
  IN [latest |-> IF missed = {} THEN None ELSE Max(missed),
      skipped |-> IF missed = {} THEN 0 ELSE Cardinality(missed) - 1]

-----------------------------------------------------------------------------
Row == [def : Defs, rev : 1..MaxRev, paused : BOOLEAN, due : Minutes \cup {None},
        last : Minutes \cup {None}]

ASSUME RowAssumption == None \notin Row

Occ == [s : Schedules, rev : 1..MaxRev, at : Minutes,
        status : {"PENDING", "STARTED", "SKIPPED"}, skipped : 0..Horizon]

TypeOK ==
  /\ now \in Minutes
  /\ sched \in [Schedules -> Row \cup {None}]
  /\ occs \subseteq Occ /\ live \subseteq occs
  /\ others \in 0..MaxRuns /\ tokens \in 0..MaxTokens
  /\ channel \in {"none", "fit", "unfit"} /\ open \in BOOLEAN
  /\ cands \in [Evaluators -> SUBSET Schedules]

Init ==
  /\ now = 0 /\ sched = [s \in Schedules |-> None]
  /\ occs = {} /\ live = {} /\ others = 0 /\ tokens = MaxTokens
  /\ channel \in {"none", "fit"} /\ open = TRUE
  /\ cands = [v \in Evaluators |-> {}]

Exists(s) == sched[s] # None

Active == {s \in Schedules : Exists(s) /\ ~sched[s].paused}

(* A mutant: a paused schedule keeps its due time and is not asked again. *)
PausedRow_armed(r) == [r EXCEPT !.paused = TRUE]

PausedRow(r) == [r EXCEPT !.paused = TRUE, !.due = None]

IsDue(s) == Exists(s) /\ sched[s].due # None /\ sched[s].due <= now

NonterminalRuns == Cardinality(live) + others

-----------------------------------------------------------------------------
(* schedule_service.go: each request is one transaction. *)

Create(s, d) ==
  /\ ~Exists(s) /\ \A o \in occs : o.s # s   \* a new row has a new id
  /\ Cardinality(Active) < MaxActive
  /\ NextOccurrence(d, now) # None
  /\ sched' = [sched EXCEPT ![s] = [def |-> d, rev |-> 1, paused |-> FALSE,
                                    due |-> NextOccurrence(d, now), last |-> None]]
  /\ UNCHANGED <<now, occs, live, others, tokens, channel, open, cands>>

\* An edit takes the row lock only; it re-arms a schedule that is not paused.
Update(s, d) ==
  /\ Exists(s) /\ sched[s].rev < MaxRev
  /\ sched[s].paused \/ NextOccurrence(d, now) # None
  /\ sched' = [sched EXCEPT ![s].def = d, ![s].rev = @ + 1,
                 ![s].due = IF sched[s].paused THEN None ELSE NextOccurrence(d, now)]
  /\ UNCHANGED <<now, occs, live, others, tokens, channel, open, cands>>

Pause(s) ==
  /\ Exists(s) /\ ~sched[s].paused
  /\ sched' = [sched EXCEPT ![s] = PausedRow(@)]
  /\ UNCHANGED <<now, occs, live, others, tokens, channel, open, cands>>

Resume(s) ==
  /\ Exists(s) /\ sched[s].paused
  /\ Cardinality(Active) < MaxActive
  /\ NextOccurrence(sched[s].def, now) # None
  /\ sched' = [sched EXCEPT ![s].paused = FALSE,
                            ![s].due = NextOccurrence(sched[s].def, now)]
  /\ UNCHANGED <<now, occs, live, others, tokens, channel, open, cands>>

\* The occurrences go with the row (ON DELETE CASCADE); their runs stay.
Delete(s) ==
  /\ Exists(s)
  /\ sched' = [sched EXCEPT ![s] = None]
  /\ occs' = {o \in occs : o.s # s}
  /\ live' = {o \in live : o.s # s}
  /\ others' = others + Cardinality({o \in live : o.s = s})
  /\ UNCHANGED <<now, tokens, channel, open, cands>>

-----------------------------------------------------------------------------
(* engine.go *)

\* EvaluateDue's read.
FindDue(v) ==
  /\ cands[v] = {}
  /\ \E s \in Active : IsDue(s)
  /\ cands' = [cands EXCEPT ![v] = {s \in Active : IsDue(s)}]
  /\ UNCHANGED <<now, sched, occs, live, others, tokens, channel, open>>

\* The slot to run for: the due one, or the latest missed one.  A slot is the
\* start of its minute, so one that is due is before now.
Chosen(r) ==
  IF r.last # None
  THEN LET c == CoalesceMissed(r.def, r.last, now)
       IN IF c.latest = None THEN [at |-> r.due, skipped |-> 0]
          ELSE [at |-> c.latest, skipped |-> c.skipped]
  ELSE [at |-> r.due, skipped |-> 0]

Advanced(r, at) == [r EXCEPT !.due = NextOccurrence(r.def, at), !.last = at]

(* A mutant: the latest occurrence decides, though it may have no run. *)
Overlaps_anyOccurrence(s) ==
  \E o \in occs : o.s = s /\ o \in live /\ \A q \in occs : q.s = s => q.at <= o.at

\* previousScheduledRunStatus and EvaluateOverlap: the latest occurrence that
\* has a run decides.
Overlaps(s) ==
  LET withRun == {o \in occs : o.s = s /\ o.status = "STARTED"}
  IN \E o \in withRun : o \in live /\ \A q \in withRun : q.at <= o.at

\* CreateRunInTx: the recovery gate, the rate bucket and the quota, in order.
Admission ==
  CASE ~open -> "refused"
    [] open /\ tokens = 0 -> "refused"
    [] open /\ tokens # 0 /\ NonterminalRuns >= MaxRuns -> "refused and debited"
    [] OTHER -> "admitted"

\* evaluateLocked, up to the row's end; cands[v] loses s whatever comes of it.
Decided(v, s) ==
  /\ s \in cands[v]
  /\ cands' = [cands EXCEPT ![v] = @ \ {s}]
  /\ UNCHANGED <<now, others, channel, open>>

\* The schedule is gone, paused or was decided by someone else.
NotDue(v, s) ==
  /\ Decided(v, s)
  /\ ~IsDue(s)
  /\ UNCHANGED <<sched, occs, live, tokens>>

\* The transaction rolls back (a lost connection): EvaluateDue logs and goes on.
EvaluationFails(v, s) ==
  /\ Decided(v, s)
  /\ UNCHANGED <<sched, occs, live, tokens>>

\* What evaluateLocked writes: the row, a new occurrence, its run, the debit.
Record(s, row, c, status, debit) ==
  LET o == [s |-> s, rev |-> sched[s].rev, at |-> c.at, status |-> status, skipped |-> c.skipped]
  IN /\ sched' = [sched EXCEPT ![s] = row]
     /\ occs' = occs \cup {o}
     /\ live' = IF status = "STARTED" THEN live \cup {o} ELSE live
     /\ tokens' = tokens - debit

SkipOccurrence(s, c, debit) == Record(s, Advanced(sched[s], c.at), c, "SKIPPED", debit)

StartRun(s, c) == Record(s, Advanced(sched[s], c.at), c, "STARTED", 1)

\* The occurrence that was just inserted stays PENDING.
MarkErrorPaused(s, c, debit) ==
  Record(s, PausedRow(sched[s]), c, "PENDING", debit)

\* resolveDeployment finds one; the workflow it has accepts an empty input.
Usable(r) == r.def \in Pinned \/ channel # "none"

Fit(r) == r.def \in Pinned \/ channel = "fit"

Claimed(s, at) == \E o \in occs : o.s = s /\ o.rev = sched[s].rev /\ o.at = at

\* evaluateLocked for a schedule that is due.
Evaluate(v, s) ==
  /\ Decided(v, s) /\ IsDue(s)
  /\ LET r == sched[s]
         c == Chosen(r)
     IN IF Claimed(s, c.at)
        THEN sched' = [sched EXCEPT ![s] = Advanced(r, c.at)] /\ UNCHANGED <<occs, live, tokens>>
        ELSE \/ Overlaps(s) /\ SkipOccurrence(s, c, 0)
             \/ ~Overlaps(s) /\ ~Usable(r) /\ MarkErrorPaused(s, c, 0)
             \/ /\ ~Overlaps(s) /\ Usable(r)
                /\ \/ Admission = "refused" /\ SkipOccurrence(s, c, 0)
                   \/ Admission = "refused and debited" /\ SkipOccurrence(s, c, 1)
                   \/ Admission = "admitted" /\ ~Fit(r) /\ MarkErrorPaused(s, c, 1)
                   \/ Admission = "admitted" /\ Fit(r) /\ StartRun(s, c)

-----------------------------------------------------------------------------
(* The rest of the environment. *)

\* A request creates a run through the same CreateRunInTx; a refusal rolls back.
CreateRun ==
  /\ Admission = "admitted" /\ channel # "none"
  /\ others' = others + 1 /\ tokens' = tokens - 1
  /\ UNCHANGED <<now, sched, occs, live, channel, open, cands>>

RunEnds ==
  /\ \/ \E o \in live : live' = live \ {o} /\ UNCHANGED others
     \/ others > 0 /\ others' = others - 1 /\ UNCHANGED live
  /\ UNCHANGED <<now, sched, occs, tokens, channel, open, cands>>

ActivateDeployment ==
  /\ \E c \in {"fit", "unfit"} : c # channel /\ channel' = c
  /\ UNCHANGED <<now, sched, occs, live, others, tokens, open, cands>>

SwitchAdmission ==
  /\ open' = ~open
  /\ UNCHANGED <<now, sched, occs, live, others, tokens, channel, cands>>

\* A minute passes and the bucket refills.
Tick ==
  /\ now < Horizon /\ now' = now + 1
  /\ tokens' = IF tokens < MaxTokens THEN tokens + 1 ELSE tokens
  /\ UNCHANGED <<sched, occs, live, others, channel, open, cands>>

Definition(s) ==
  Pause(s) \/ Resume(s) \/ Delete(s) \/ \E d \in Defs : Create(s, d) \/ Update(s, d)

Evaluation(v) ==
  FindDue(v) \/ \E s \in Schedules : NotDue(v, s) \/ EvaluationFails(v, s) \/ Evaluate(v, s)

Environment == CreateRun \/ RunEnds \/ ActivateDeployment \/ SwitchAdmission \/ Tick

Next ==
  \/ \E s \in Schedules : Definition(s)
  \/ \E v \in Evaluators : Evaluation(v)
  \/ Environment

Spec == Init /\ [][Next]_vars

-----------------------------------------------------------------------------
Of(s) == {o \in occs : o.s = s}

Started(s) == {o \in Of(s) : o.status = "STARTED"}

\* A wall-clock minute that the clock shows twice is run for once, whatever
\* was edited, paused or coalesced between the two (isRepeatedUTCOccurrence).
OncePerWallTime ==
  \A s \in Schedules : \A o, q \in Of(s) : Wall[o.at] = Wall[q.at] => o = q

\* Skip-overlap: a schedule never has two nonterminal runs, though only the
\* latest run is looked at and evaluators race (previousScheduledRunStatus);
\* and the runs of schedules and of requests together stay within the quota.
OneLiveRun ==
  /\ \A s \in Schedules : Cardinality(live \cap Of(s)) <= 1
  /\ NonterminalRuns <= MaxRuns

\* Every slot is accounted for: between its first and its last handled slot
\* an unedited schedule's occurrences and their skipped counts add up to the
\* slots there were, across downtime, pauses and skips (CoalesceMissed).
SlotsAccounted ==
  \A s \in Schedules :
    LET handled == {o \in Of(s) : o.status # "PENDING"}
    IN Exists(s) /\ sched[s].rev = 1 /\ handled # {} =>
         LET first == Min({o.at : o \in handled})
         IN MapThenSumSet(LAMBDA o : 1 + o.skipped, handled)
              = Cardinality({u \in first..sched[s].last : IsOccurrence(sched[s].def, u)})
                + (CHOOSE o \in handled : o.at = first).skipped

\* What EvaluationsAreCurrent says of a step.
CurrentStep ==
  /\ \A o \in live' \ live :
       /\ Exists(o.s) /\ ~sched[o.s].paused /\ o.rev = sched[o.s].rev /\ o.at <= now
       /\ \A q \in Of(o.s) : q.at < o.at
  /\ \A s \in Schedules :
       Exists(s) /\ IsDue(s) /\ sched[s].last # None /\ sched'[s] # sched[s] =>
         sched'[s] = None \/ sched'[s].due = None \/ sched'[s].due > now

\* A run is created only for a schedule that is active at that moment, for a
\* slot later than all before it: an evaluator's old list starts nothing
\* after a pause, an edit or another evaluator's turn (lockSchedule).  And one
\* evaluation makes up for any downtime: it leaves the schedule paused or with
\* its next slot in the future, however many slots were missed.  The first
\* evaluation of a schedule is excepted, as in the code: it runs for the first
\* slot and leaves the rest to the second.
EvaluationsAreCurrent == [][CurrentStep]_vars
=============================================================================
