------------------------------ MODULE GhostRisk ------------------------------
(***************************************************************************)
(* How suspicious a posting looks: ghostrisk/ghostrisk.go, over what polls *)
(* record of it (MarkOpportunitySeen and the statements beside it) and the *)
(* hiring pace of its company (CompanyMedianDaysToClose). The list and the *)
(* detail of an opportunity assess it when they are read: the list without *)
(* the hiring pace, the detail with it unless that query fails.            *)
(*                                                                         *)
(* One company with a posting for each row. Time counts in days. A date is *)
(* what a source says of when it posted (a posting without one is never    *)
(* compared); the text has a version. The row that a posting created is    *)
(* named after it. A poll is one that fetched the board: a 304 changes     *)
(* nothing.                                                                *)
(***************************************************************************)
EXTENDS Integers, FiniteSets, FiniteSetsExt

CONSTANTS
  Posts,
  RepostElevated, RepostHigh,     \* 2 and 4
  StaleDays, VeryStaleDays,       \* 60 and 120
  MedianElevated, MedianHigh,     \* 3 and 6, times the median
  MaxDay, MaxPolls, MaxEvents     \* bounds: the clock, polls, what sources do and merges

ASSUME PostsAssumption == IsFiniteSet(Posts)
ASSUME ThresholdsAssumption ==
  /\ {RepostElevated, RepostHigh, StaleDays, VeryStaleDays, MedianElevated, MedianHigh}
       \subseteq Nat
  /\ 1 < RepostElevated /\ RepostElevated < RepostHigh
  /\ 0 < StaleDays /\ StaleDays < VeryStaleDays
  /\ 1 < MedianElevated /\ MedianElevated < MedianHigh
ASSUME BoundsAssumption == MaxDay \in Nat /\ MaxPolls \in Nat /\ MaxEvents \in Nat

VARIABLES
  today, polls, events,
  board,    \* Posts -> what the source shows of the posting
  opp,      \* Posts -> Opps: opportunity
  link,     \* Posts -> Links: opportunity_source
  moved     \* Posts -> Nat: how often the date moved on while the text stayed

vars == <<today, polls, events, board, opp, link, moved>>

Dates == 0..MaxEvents
Days == 0..MaxDay

Opps == [stored : BOOLEAN, seen : Days,          \* first_seen_at
         base : Dates,                           \* source_posted_at_at_last_change
         repost : Nat, apply : BOOLEAN,          \* repost_count, apply_method
         closed : SUBSET Days, merged : BOOLEAN]
Links == [opp : Posts, text : 0..MaxEvents]

TypeOK ==
  /\ today \in Days /\ polls \in 0..MaxPolls /\ events \in 0..MaxEvents
  /\ board \in [Posts -> [text : 0..MaxEvents, date : Dates]]
  /\ opp \in [Posts -> Opps]
  /\ link \in [Posts -> Links]
  /\ moved \in [Posts -> Nat]
-----------------------------------------------------------------------------
(* The statements of ingest.sql. X_Y is X with a fault in it.               *)
InsertOpportunityFromPosting(o, date) ==
  [o EXCEPT !.stored = TRUE, !.seen = today, !.base = date]

UpdateOpportunityFromPosting_KeepsDate(o, date) == [o EXCEPT !.closed = {}]
UpdateOpportunityFromPosting(o, date) == [o EXCEPT !.base = date, !.closed = {}]

MarkOpportunitySeen_Span(o, date) ==
  [o EXCEPT !.closed = {}, !.repost = @ + IF date > o.base THEN o.base - date ELSE 0]
MarkOpportunitySeen(o, date) ==
  [o EXCEPT !.closed = {}, !.repost = @ + IF date > o.base THEN 1 ELSE 0]

(* percentile_cont(0.5), rounded to an even day when it falls between two.  *)
Closings == {o \in Posts : opp[o].stored /\ opp[o].closed # {} /\ ~opp[o].merged}
DaysToClose(o) == Max(opp[o].closed) - opp[o].seen
Nth(n) == CHOOSE d \in Days :
  /\ Cardinality({o \in Closings : DaysToClose(o) < d}) < n
  /\ Cardinality({o \in Closings : DaysToClose(o) <= d}) >= n
RoundHalf(n) == IF n % 4 = 3 THEN n \div 2 + 1 ELSE n \div 2
CompanyMedianDaysToClose ==
  LET n == Cardinality(Closings)
  IN IF n = 0 THEN 0 ELSE RoundHalf(Nth((n + 1) \div 2) + Nth(n \div 2 + 1))

DaysOpen(o) == today - opp[o].seen

(* Assess: each signal with its weight.                                     *)
Signal(code, score) == [code |-> code, score |-> score]

Refreshes(o) ==
  IF opp[o].repost >= RepostHigh THEN {Signal("repeated_refresh", 3)}
  ELSE IF opp[o].repost >= RepostElevated THEN {Signal("refreshed", 1)} ELSE {}

Relative_Swapped(days, median) ==
  IF days * MedianHigh >= median THEN {Signal("open_far_longer_than_usual", 2)}
  ELSE IF days * MedianElevated >= median THEN {Signal("open_longer_than_usual", 1)} ELSE {}
Relative(days, median) ==
  IF days >= median * MedianHigh THEN {Signal("open_far_longer_than_usual", 2)}
  ELSE IF days >= median * MedianElevated THEN {Signal("open_longer_than_usual", 1)} ELSE {}

Absolute(days) ==
  IF days >= VeryStaleDays THEN {Signal("open_a_long_time", 2)}
  ELSE IF days >= StaleDays THEN {Signal("open_a_while", 1)} ELSE {}

Age(o, median) == IF median > 0 THEN Relative(DaysOpen(o), median) ELSE Absolute(DaysOpen(o))

Reasons(o, median) ==
  Refreshes(o) \cup Age(o, median)
  \cup IF opp[o].apply THEN {} ELSE {Signal("no_apply_route", 1)}

Score(o, median) == MapThenSumSet(LAMBDA s : s.score, Reasons(o, median))

(* 0: normal, 1: elevated, 2: high.                                         *)
Band(o, median) == IF Score(o, median) >= 3 THEN 2 ELSE IF Score(o, median) >= 1 THEN 1 ELSE 0

(* What summaryFromList and Get pass for the median: 0 from the list, and   *)
(* from Get when the query of the median fails.                             *)
Medians == {0, CompanyMedianDaysToClose}
-----------------------------------------------------------------------------
Init ==
  /\ today = 0 /\ polls = 0 /\ events = 0
  /\ board = [p \in Posts |-> [text |-> 0, date |-> 0]]
  /\ opp \in [Posts -> [stored : {FALSE}, seen : {0}, base : {0}, repost : {0},
                       apply : BOOLEAN, closed : {{}}, merged : {FALSE}]]
  /\ link = [p \in Posts |-> [opp |-> p, text |-> 0]]
  /\ moved = [p \in Posts |-> 0]

Event == events < MaxEvents /\ events' = events + 1

(* The source says that it posted the job anew: with the text unchanged ... *)
Refresh(p) ==
  /\ Event
  /\ board' = [board EXCEPT ![p].date = @ + 1]
  /\ moved' = [moved EXCEPT ![p] = @ + 1]
  /\ UNCHANGED <<today, polls, opp, link>>

(* ... or with another.                                                     *)
Reword(p) ==
  /\ Event
  /\ \E d \in {0, 1} : board' = [board EXCEPT ![p].text = @ + 1, ![p].date = @ + d]
  /\ UNCHANGED <<today, polls, opp, link, moved>>

(* upsert, of a poll that lists the posting.                                *)
Poll(p) ==
  /\ polls < MaxPolls /\ polls' = polls + 1
  /\ LET o == link[p].opp
         date == board[p].date
     IN opp' = [opp EXCEPT ![o] =
          IF ~opp[p].stored THEN InsertOpportunityFromPosting(@, date)
          ELSE IF link[p].text = board[p].text THEN MarkOpportunitySeen(@, date)
          ELSE UpdateOpportunityFromPosting(@, date)]
  /\ link' = [link EXCEPT ![p].text = board[p].text]
  /\ UNCHANGED <<today, events, board, moved>>

(* CloseMissedOpportunities: polls missed the posting.                      *)
Close(o) ==
  /\ opp[o].stored /\ opp[o].closed = {}
  /\ opp' = [opp EXCEPT ![o].closed = {today}]
  /\ UNCHANGED <<today, polls, events, board, link, moved>>

(* MoveSourceRows and MarkMerged, of two rows found to be one job.          *)
Merge(o, into) ==
  /\ o # into /\ opp[o].stored /\ opp[into].stored
  /\ ~opp[o].merged /\ ~opp[into].merged /\ Event
  /\ opp' = [opp EXCEPT ![o].merged = TRUE]
  /\ link' = [p \in Posts |-> IF link[p].opp = o THEN [link[p] EXCEPT !.opp = into] ELSE link[p]]
  /\ UNCHANGED <<today, polls, board, moved>>

Day == today < MaxDay /\ today' = today + 1 /\ UNCHANGED <<polls, events, board, opp, link, moved>>

Next ==
  \/ Day
  \/ \E p \in Posts : Refresh(p) \/ Reword(p) \/ Poll(p) \/ Close(p)
  \/ \E o, into \in Posts : Merge(o, into)

Spec == Init /\ [][Next]_vars
-----------------------------------------------------------------------------
Shown == {o \in Posts : opp[o].stored /\ ~opp[o].merged /\ opp[o].closed = {}}
Absorbed(o) == {p \in Posts : link[p].opp = o} \ {o}

(* "To tell 'they refreshed the date' from 'the content actually changed'": *)
(* a canonical row whose source never moved its date with the same text is  *)
(* never counted as refreshed, whatever rewordings, closings and reopenings *)
(* there were, unless it stands for other postings too: their dates are     *)
(* compared with the date of its own last change, and what they added stays *)
(* with the row when it is merged away in turn. One refresh, on the other   *)
(* hand, is counted by every later fetch, as the date compared with stays   *)
(* the same.                                                                *)
NeverRefreshedNeverCounted == \A o \in Posts :
  ~opp[o].merged /\ moved[o] = 0 /\ Absorbed(o) = {} => opp[o].repost = 0

(* "Wrongly flagging a real job costs the user an opportunity" and "a 90-day*)
(* posting is unremarkable at a company that always takes 90 days": an      *)
(* opening that can be applied to, that was never refreshed, and that has   *)
(* not been open longer than the company took for any before, or not long   *)
(* at all when the pace is not known, is normal, whatever happened to it.   *)
OrdinaryIsNormal == \A o \in Shown, m \in Medians :
  /\ moved[o] = 0 /\ Absorbed(o) = {} /\ opp[o].apply
  /\ IF m = 0 THEN DaysOpen(o) < StaleDays
     ELSE \A c \in Closings : DaysToClose(c) >= DaysOpen(o)
  => Band(o, m) = 0
=============================================================================
