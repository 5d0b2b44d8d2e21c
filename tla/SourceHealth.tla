---------------------------- MODULE SourceHealth ----------------------------
(***************************************************************************)
(* The health of one source: internal/ingest/health.go, which adds the     *)
(* counts of each poll to a row per day and judges the row of today        *)
(* against the sum of the days before it, and internal/sourcehealth, the   *)
(* judgement itself. The statements of an evaluation are separate steps,   *)
(* so that two polls of the source, and midnight, can come between them.   *)
(*                                                                         *)
(* Rates are compared exactly, by cross-multiplication; the code divides   *)
(* float64s, which differs only at a drop of exactly the limit. Counts of  *)
(* polls, failures and 304s serve the operator's report and are left out.  *)
(***************************************************************************)
EXTENDS Integers, FiniteSets, Functions

CONSTANTS
  Runners,                  \* pollers that only take an active source
  Operators,                \* pollers started by hand, which take any
  Fields,                   \* alertingFields
  Reports,                  \* what a poll may have counted
  MinSample, YieldDropLimit, FillDropLimit, FillFloorToCare,   \* limits in percent
  ConsecutiveToQuarantine,
  BaselineWindowDays,
  MaxDay,                   \* bound: midnights
  MaxPolls,                 \* bound: polls in all
  MaxFaults                 \* bound: statements that fail

Pollers == Runners \cup Operators
Days == 0..MaxDay
Metrics == [postings : Nat, usable : Nat, fill : [Fields -> Nat]]
Outcomes == {"ok", "failed", "not_modified"}
NoPostings == [postings |-> 0, usable |-> 0, fill |-> [f \in Fields |-> 0]]

ASSUME PollersAssumption ==
  Runners \cap Operators = {} /\ IsFiniteSet(Runners) /\ IsFiniteSet(Operators)
ASSUME FieldsAssumption == "yield" \notin Fields
ASSUME ReportsAssumption ==
  /\ IsFiniteSet(Reports) /\ Reports \subseteq Metrics
  /\ \A m \in Reports : m.usable <= m.postings /\ \A f \in Fields : m.fill[f] <= m.postings
ASSUME LimitsAssumption ==
  /\ MinSample \in Nat \ {0} /\ ConsecutiveToQuarantine \in Nat \ {0}
  /\ BaselineWindowDays \in Nat \ {0}
  /\ {YieldDropLimit, FillDropLimit, FillFloorToCare} \subseteq 1..100
ASSUME BoundsAssumption == MaxDay \in Nat /\ MaxPolls \in Nat /\ MaxFaults \in Nat

VARIABLES
  day,          \* CURRENT_DATE
  daily,        \* Days -> SUBSET Metrics: source_health_daily, {} for no row
  consecutive,  \* source.consecutive_degraded
  status,       \* source.status
  eval,         \* Pollers -> Evals: the evaluations under way
  log,          \* Days -> [Reports -> Nat]: the polls of each day, as counted
  judged,       \* Days -> Nat: the verdicts that came on the day they are of, capped,
                \*   since a fault or a healthy verdict of another day
  faults

vars == <<day, daily, consecutive, status, eval, log, judged, faults>>

Evals == [pc : {"none", "today", "base", "clear", "set", "read", "quarantine"},
          on : SUBSET Days,         \* the day of the row, until it is judged on another
          today : Metrics]
NoEval == [pc |-> "none", on |-> {}, today |-> NoPostings]

TypeOK ==
  /\ day \in Days
  /\ daily \in [Days -> SUBSET Metrics] /\ \A d \in Days : Cardinality(daily[d]) <= 1
  /\ consecutive \in Nat
  /\ status \in {"active", "quarantined"}
  /\ eval \in [Pollers -> Evals]
  /\ log \in [Days -> [Reports -> Nat]]
  /\ judged \in [Days -> 0..ConsecutiveToQuarantine]
  /\ faults \in 0..MaxFaults
-----------------------------------------------------------------------------
(* Compare and its parts: X_Y is X with a fault in it.                      *)
YieldDropped(current, baseline) ==
  /\ baseline.usable > 0
  /\ LET b == baseline.usable * current.postings
         c == current.usable * baseline.postings
     IN 100 * (b - c) >= YieldDropLimit * b

FillDropped(f, current, baseline) ==
  /\ baseline.postings > 0
  /\ 100 * baseline.fill[f] >= FillFloorToCare * baseline.postings
  /\ LET b == baseline.fill[f] * current.postings
         c == current.fill[f] * baseline.postings
     IN 100 * (b - c) >= FillDropLimit * b

Compare(current, baseline) ==
  IF current.postings < MinSample \/ baseline.postings < MinSample THEN "unknown"
  ELSE IF \/ YieldDropped(current, baseline)
          \/ \E f \in Fields : FillDropped(f, current, baseline) THEN "degraded"
  ELSE "healthy"

ShouldQuarantine_Late(n) == n > ConsecutiveToQuarantine
ShouldQuarantine(n) == n >= ConsecutiveToQuarantine

(* The statements of health.sql.                                            *)
Plus(a, b) == [postings |-> a.postings + b.postings, usable |-> a.usable + b.usable,
               fill |-> [f \in Fields |-> a.fill[f] + b.fill[f]]]

RecordSourceHealth_NewRow(rows, m) == rows \cup {m}
RecordSourceHealth_Replaces(rows, m) ==
  IF rows = {} THEN {m} ELSE {[Plus(r, m) EXCEPT !.usable = m.usable] : r \in rows}
RecordSourceHealth(rows, m) ==
  IF rows = {} THEN {m} ELSE {Plus(r, m) : r \in rows}

(* The days before d in the window, summed. A sum over no day is zero.      *)
BaselineSourceHealth(d) ==
  LET Rows == UNION {{e} \X daily[e] : e \in {e \in Days : e < d /\ e >= d - BaselineWindowDays}}
  IN [postings |-> SumFunction([r \in Rows |-> r[2].postings]),
      usable |-> SumFunction([r \in Rows |-> r[2].usable]),
      fill |-> [f \in Fields |-> SumFunction([r \in Rows |-> r[2].fill[f]])]]
-----------------------------------------------------------------------------
Init ==
  /\ day = 0
  /\ daily = [d \in Days |-> {}]
  /\ consecutive = 0
  /\ status = "active"
  /\ eval = [p \in Pollers |-> NoEval]
  /\ log = [d \in Days |-> [m \in Reports |-> 0]]
  /\ judged = [d \in Days |-> 0]
  /\ faults = 0

At(p, pc) == eval[p].pc = pc
Goto(p, pc) == eval' = [eval EXCEPT ![p].pc = pc]
Return(p) == eval' = [eval EXCEPT ![p] = NoEval]

(* recordHealth, of a poll that counted m. A poll that failed after its     *)
(* board was fetched has counts as well; only one that neither failed nor   *)
(* was answered 304 goes on to evaluateHealth.                              *)
RecordHealth(p, m, outcome) ==
  /\ At(p, "none")
  /\ p \in Runners => status = "active"
  /\ outcome = "not_modified" => m = NoPostings
  /\ SumFunction([d \in Days |-> SumFunction(log[d])]) < MaxPolls
  /\ daily' = [daily EXCEPT ![day] = RecordSourceHealth(@, m)]
  /\ log' = [log EXCEPT ![day][m] = @ + 1]
  /\ IF outcome = "ok" THEN Goto(p, "today") ELSE UNCHANGED eval
  /\ UNCHANGED <<day, consecutive, status, judged, faults>>

(* evaluateHealth: the row of today, if there is one ...                    *)
TodaySourceHealth(p) ==
  /\ At(p, "today")
  /\ IF daily[day] = {} THEN Return(p)
     ELSE eval' = [eval EXCEPT ![p] = [pc |-> "base", on |-> {day},
                                       today |-> CHOOSE m \in daily[day] : TRUE]]
  /\ UNCHANGED <<day, daily, consecutive, status, log, judged, faults>>

(* ... is compared with the days before; an unknown verdict does nothing.   *)
Judge(p) ==
  /\ At(p, "base")
  /\ LET verdict == Compare(eval[p].today, BaselineSourceHealth(day))
         onTime == eval[p].on \cap {day}
     IN /\ IF verdict = "unknown" THEN Return(p)
           ELSE eval' = [eval EXCEPT ![p] = [NoEval EXCEPT !.on = onTime,
                           !.pc = IF verdict = "healthy" THEN "clear" ELSE "set"]]
        /\ judged' = [d \in Days |->
             IF d \in onTime /\ judged[d] < ConsecutiveToQuarantine THEN judged[d] + 1
             ELSE judged[d]]
  /\ UNCHANGED <<day, daily, consecutive, status, log, faults>>

ClearSourceDegraded(p) ==
  /\ At(p, "clear")
  /\ consecutive' = 0
  /\ judged' = [d \in Days |-> IF d \in eval[p].on THEN judged[d] ELSE 0]
  /\ Return(p)
  /\ UNCHANGED <<day, daily, status, log, faults>>

SetSourceDegraded(p) ==
  /\ At(p, "set")
  /\ consecutive' = consecutive + 1
  /\ Goto(p, "read")
  /\ UNCHANGED <<day, daily, status, log, judged, faults>>

(* The count is read back and may include what another poll added.          *)
GetSourceByID(p) ==
  /\ At(p, "read")
  /\ IF ShouldQuarantine(consecutive) THEN Goto(p, "quarantine") ELSE Return(p)
  /\ UNCHANGED <<day, daily, consecutive, status, log, judged, faults>>

QuarantineDegradedSource(p) ==
  /\ At(p, "quarantine")
  /\ status' = "quarantined"
  /\ Return(p)
  /\ UNCHANGED <<day, daily, consecutive, log, judged, faults>>

(* A statement fails and the evaluation ends there.                         *)
EvaluationFails(p) ==
  /\ ~At(p, "none")
  /\ faults < MaxFaults
  /\ faults' = faults + 1
  /\ judged' = [d \in Days |-> 0]
  /\ Return(p)
  /\ UNCHANGED <<day, daily, consecutive, status, log>>

Midnight ==
  /\ day < MaxDay
  /\ day' = day + 1
  /\ UNCHANGED <<daily, consecutive, status, eval, log, judged, faults>>
-----------------------------------------------------------------------------
Next ==
  \/ \E p \in Pollers, m \in Reports, o \in Outcomes : RecordHealth(p, m, o)
  \/ \E p \in Pollers :
       \/ TodaySourceHealth(p) \/ Judge(p) \/ ClearSourceDegraded(p)
       \/ SetSourceDegraded(p) \/ GetSourceByID(p) \/ QuarantineDegradedSource(p)
       \/ EvaluationFails(p)
  \/ Midnight

Spec == Init /\ [][Next]_vars
-----------------------------------------------------------------------------
(* A poll that by itself shows a drop, and a drop of what.                  *)
Signs == {"yield"} \cup Fields
Shows(m, sign, baseline) ==
  /\ m.postings > 0
  /\ IF sign = "yield" THEN YieldDropped(m, baseline) ELSE FillDropped(sign, m, baseline)

PolledOn(d) == {m \in Reports : log[d][m] > 0}
Known(m) == m.postings >= MinSample

(* A verdict of degraded needs a poll of that day that shows the drop by    *)
(* itself: outages, 304s, quiet polls, the sums over a day and over the     *)
(* window, another poll in between and midnight never make one up.          *)
DegradedNeedsABadPoll ==
  [][\A p \in Pollers : At(p, "base") /\ eval'[p].pc = "set" =>
       \E d \in eval[p].on, sign \in Signs : \E m \in PolledOn(d) :
         Shows(m, sign, BaselineSourceHealth(day))]_vars

(* Every poll of a day is large enough to tell and shows the same drop.     *)
Rotten(d) ==
  LET baseline == BaselineSourceHealth(d)
  IN /\ Known(baseline) /\ \A m \in PolledOn(d) : Known(m)
     /\ \E sign \in Signs : \A m \in PolledOn(d) : Shows(m, sign, baseline)

(* Rot is caught: once enough polls of a rotten day were judged on that     *)
(* day, with no statement lost and no healthy verdict of another day in     *)
(* between, the source is offline.                                          *)
RotIsCaught ==
  \A d \in Days :
    /\ judged[d] >= ConsecutiveToQuarantine
    /\ Rotten(d)
    /\ \A p \in Pollers : eval[p].pc \notin {"clear", "set", "read", "quarantine"}
    => status = "quarantined"
=============================================================================
