--------------------------- MODULE PipelineProofs ---------------------------
(***************************************************************************)
(* Proofs about Pipeline, for every set of rows and workers, every         *)
(* assignment of stages and every value of the bounds.                     *)
(***************************************************************************)
EXTENDS Pipeline, TLAPS

(* Every statement of pipeline.sql maps a well-formed row to one.           *)
LEMMA RowOps ==
  ASSUME NEW r \in Rows, NEW s \in WorkStates
  PROVE  /\ AdvanceState(r, s) \in Rows
         /\ ClaimBatch(r) \in Rows
         /\ FailAttempt(r) \in Rows
         /\ ReleaseClaim(r) \in Rows
         /\ RequeueStranded(r) \in Rows
         /\ MarkMerged(r) \in Rows
         /\ UpdateOpportunityFromPosting(r) \in Rows
  <1>1. HappyPath[s] \in States
    BY DEF HappyPath, WorkStates, States, Terminal
  <1>a. r.version \in Nat /\ r.attempts \in Nat
    BY DEF Rows
  <1>b. /\ r.version + 1 \in Nat
        /\ r.attempts + 1 \in Nat
        /\ r.attempts > 0 => r.attempts - 1 \in Nat
    BY <1>a
  <1>2. AdvanceState(r, s) \in Rows
    BY <1>1, <1>b DEF AdvanceState, Rows
  <1>3. ClaimBatch(r) \in Rows
    BY <1>b DEF ClaimBatch, Rows
  <1>4. FailAttempt(r) \in Rows
    BY DEF FailAttempt, Rows, States, Terminal
  <1>5. ReleaseClaim(r) \in Rows
    BY <1>b DEF ReleaseClaim, Rows
  <1>6. RequeueStranded(r) \in Rows
    BY DEF RequeueStranded, Rows
  <1>7. MarkMerged(r) \in Rows
    BY <1>b DEF MarkMerged, Rows
  <1>8. UpdateOpportunityFromPosting(r) \in Rows
    BY <1>b DEF UpdateOpportunityFromPosting, Rows, States, WorkStates
  <1> QED BY <1>2, <1>3, <1>4, <1>5, <1>6, <1>7, <1>8

(* The trigger only touches the stranding clock.                            *)
LEMMA TriggerRow ==
  ASSUME NEW old \in Rows, NEW new \in Rows
  PROVE  LET t == SetStateEnteredAt(old, new)
         IN /\ t \in Rows
            /\ t.state = new.state /\ t.version = new.version
            /\ t.attempts = new.attempts /\ t.lease = new.lease
            /\ t.merged = new.merged
  BY DEF SetStateEnteredAt, Rows

(* What a single-row write does to the table.                               *)
LEMMA WriteEffect ==
  ASSUME row \in [Opps -> Rows], NEW o \in Opps, NEW new \in Rows, Write(o, new)
  PROVE  /\ row' \in [Opps -> Rows]
         /\ row'[o] = SetStateEnteredAt(row[o], new)
         /\ \A p \in Opps : p # o => row'[p] = row[p]
  <1>1. SetStateEnteredAt(row[o], new) \in Rows
    BY TriggerRow
  <1> QED BY <1>1 DEF Write

(* What the end of handleOne and a change of phase do to the items.         *)
LEMMA FinishEffect ==
  ASSUME TypeOK, NEW w \in Workers, NEW o \in Opps, Finish(w, o)
  PROVE  /\ held' \in [Workers -> [Opps -> Items]]
         /\ inFlight' \in [Workers -> SUBSET Opps]
         /\ held'[w][o] = NoItem
         /\ inFlight'[w] = inFlight[w] \ {o}
         /\ \A v \in Workers, p \in Opps : v # w \/ p # o => held'[v][p] = held[v][p]
         /\ \A v \in Workers : v # w => inFlight'[v] = inFlight[v]
  <1>1. NoItem \in Items
    BY DEF NoItem, Items
  <1> QED BY <1>1 DEF Finish, TypeOK

LEMMA ItemEffect ==
  ASSUME held \in [Workers -> [Opps -> Items]],
         NEW w \in Workers, NEW o \in Opps, NEW it \in Items,
         held' = [held EXCEPT ![w] = [held[w] EXCEPT ![o] = it]]
  PROVE  /\ held' \in [Workers -> [Opps -> Items]]
         /\ held'[w][o] = it
         /\ \A v \in Workers, p \in Opps : v # w \/ p # o => held'[v][p] = held[v][p]
  <1>1. [held[w] EXCEPT ![o] = it] \in [Opps -> Items]
    OBVIOUS
  <1> QED BY <1>1

LEMMA GotoEffect ==
  ASSUME TypeOK, NEW w \in Workers, NEW o \in Opps,
         NEW ph \in {"running", "ok", "err"}, Goto(w, o, ph)
  PROVE  /\ held' \in [Workers -> [Opps -> Items]]
         /\ inFlight' = inFlight
         /\ held'[w][o].phase = ph
         /\ held'[w][o].version = held[w][o].version
         /\ held'[w][o].edition = held[w][o].edition
         /\ \A v \in Workers, p \in Opps : v # w \/ p # o => held'[v][p] = held[v][p]
  <1>0. held \in [Workers -> [Opps -> Items]]
    BY DEF TypeOK
  <1>1. held[w][o] \in Items
    BY <1>0
  <1> DEFINE it == [held[w][o] EXCEPT !.phase = ph]
  <1>2. it \in Items /\ it.phase = ph /\ it.version = held[w][o].version
        /\ it.edition = held[w][o].edition
    BY <1>1 DEF Items
  <1>3. held' = [held EXCEPT ![w] = [held[w] EXCEPT ![o] = it]]
    BY DEF Goto
  <1> HIDE DEF it
  <1>4. inFlight' = inFlight
    BY DEF Goto
  <1> QED BY <1>0, <1>2, <1>3, <1>4, ItemEffect

LEMMA StartEffect ==
  ASSUME TypeOK, NEW w \in Workers, NEW o \in Opps, Start(w, o)
  PROVE  /\ held' \in [Workers -> [Opps -> Items]]
         /\ held'[w][o].phase = "running"
         /\ held'[w][o].version = held[w][o].version
         /\ held'[w][o].edition = held[w][o].edition
         /\ \A v \in Workers, p \in Opps : v # w \/ p # o => held'[v][p] = held[v][p]
  <1>0. held \in [Workers -> [Opps -> Items]]
    BY DEF TypeOK
  <1>1. held[w][o] \in Items
    BY <1>0
  <1> DEFINE it == [held[w][o] EXCEPT !.phase = "running"]
  <1>2. it \in Items /\ it.phase = "running" /\ it.version = held[w][o].version
        /\ it.edition = held[w][o].edition
    BY <1>1 DEF Items
  <1>3. held' = [held EXCEPT ![w] = [held[w] EXCEPT ![o] = it]]
    BY DEF Start
  <1> HIDE DEF it
  <1> QED BY <1>0, <1>2, <1>3, ItemEffect

LEMMA DecideEffect ==
  ASSUME TypeOK, NEW w \in Workers, NEW o \in Opps, NEW p \in Opps, HandleDecide(w, o, p)
  PROVE  /\ held' \in [Workers -> [Opps -> Items]]
         /\ held'[w][o].phase = "merging"
         /\ held'[w][o].version = held[w][o].version
         /\ held'[w][o].edition = held[w][o].edition
         /\ held'[w][o].into = {p}
         /\ \A v \in Workers, q \in Opps : v # w \/ q # o => held'[v][q] = held[v][q]
  <1>0. held \in [Workers -> [Opps -> Items]]
    BY DEF TypeOK
  <1>1. held[w][o] \in Items
    BY <1>0
  <1> DEFINE it == [held[w][o] EXCEPT !.phase = "merging", !.into = {p}]
  <1>2. it \in Items /\ it.phase = "merging" /\ it.version = held[w][o].version /\ it.into = {p}
        /\ it.edition = held[w][o].edition
    BY <1>1 DEF Items
  <1>3. held' = [held EXCEPT ![w] = [held[w] EXCEPT ![o] = it]]
    BY DEF HandleDecide
  <1> HIDE DEF it
  <1> QED BY <1>0, <1>2, <1>3, ItemEffect

(* A claim gives the worker an item per row, with the row's version.        *)
LEMMA ClaimEffect ==
  ASSUME TypeOK, NEW w \in Workers, NEW S \in SUBSET Opps, Claim(w, S)
  PROVE  /\ held' \in [Workers -> [Opps -> Items]]
         /\ \A o \in S : /\ held'[w][o].phase = "claimed"
                         /\ held'[w][o].version = row[o].version
                         /\ held'[w][o].edition = updates[o]
         /\ \A o \in Opps \ S : held'[w][o] = NoItem
         /\ \A v \in Workers, q \in Opps : v # w => held'[v][q] = held[v][q]
  <1>0. /\ row \in [Opps -> Rows] /\ held \in [Workers -> [Opps -> Items]]
        /\ updates \in [Opps -> Nat]
    BY DEF TypeOK
  <1> DEFINE it(o) == [phase |-> "claimed", version |-> row[o].version,
                       attempts |-> row[o].attempts + 1, into |-> {},
                       edition |-> updates[o]]
  <1>1. \A o \in Opps : /\ it(o) \in Items
                        /\ it(o).phase = "claimed"
                        /\ it(o).version = row[o].version
                        /\ it(o).edition = updates[o]
    BY <1>0 DEF Items, Rows
  <1>2. NoItem \in Items
    BY DEF NoItem, Items
  <1> DEFINE batch == [o \in Opps |-> IF o \in S THEN it(o) ELSE NoItem]
  <1>3. held' = [held EXCEPT ![w] = batch]
    BY DEF Claim
  <1> HIDE DEF it
  <1>4. batch \in [Opps -> Items]
    BY <1>1, <1>2
  <1>5. \A o \in Opps : batch[o] = IF o \in S THEN it(o) ELSE NoItem
    OBVIOUS
  <1> HIDE DEF batch
  <1> QED BY <1>0, <1>1, <1>3, <1>4, <1>5
-----------------------------------------------------------------------------
(* Type correctness: no interleaving of workers, sweepers, ingestion and    *)
(* faults puts a value outside its column's type.                           *)

LEMMA StageTyped ==
  ASSUME NEW w \in Workers
  PROVE  StageOf[w] \in WorkStates
  BY StageAssumption

(* The actions of a worker on one item.                                     *)
LEMMA TypeItem ==
  ASSUME TypeOK, NEW w \in Workers, NEW o \in Opps,
         Start(w, o) \/ Handle(w, o) \/ Settle(w, o)
  PROVE  TypeOK'
  <1> USE DEF Env
  <1>0. row \in [Opps -> Rows] /\ row[o] \in Rows /\ held \in [Workers -> [Opps -> Items]]
    BY DEF TypeOK
  <1>s. StageOf[w] \in WorkStates
    BY StageTyped
  <1>r. /\ AdvanceState(row[o], StageOf[w]) \in Rows
        /\ FailAttempt(row[o]) \in Rows
        /\ MarkMerged(row[o]) \in Rows
    BY <1>0, <1>s, RowOps
  <1>f. ASSUME Fault PROVE faults' \in Nat
    BY <1>f DEF Fault, TypeOK
  <1>1. CASE Start(w, o)
    <2>1. held' \in [Workers -> [Opps -> Items]]
      BY <1>1, StartEffect
    <2>2. inFlight' \in [Workers -> SUBSET Opps]
      BY <1>1 DEF Start, TypeOK
    <2> QED BY <1>1, <2>1, <2>2 DEF Start, TypeOK
  <1>2. CASE HandleWrite(w, o)
    BY <1>2, <1>0, <1>r, WriteEffect, FinishEffect DEF HandleWrite, TypeOK
  <1>3. CASE HandleWriteReplyLost(w, o)
    BY <1>3, <1>0, <1>r, <1>f, WriteEffect, GotoEffect DEF HandleWriteReplyLost, TypeOK
  <1>4. CASE HandleConflict(w, o)
    BY <1>4, FinishEffect DEF HandleConflict, TypeOK
  <1>5. ASSUME NEW p \in Opps, HandleDecide(w, o, p) PROVE TypeOK'
    BY <1>5, DecideEffect DEF HandleDecide, TypeOK
  <1>6. CASE HandleMerge(w, o)
    BY <1>6, <1>0, <1>r, WriteEffect, FinishEffect DEF HandleMerge, TypeOK
  <1>7. CASE HandleMergeReplyLost(w, o)
    BY <1>7, <1>0, <1>r, <1>f, WriteEffect, GotoEffect DEF HandleMergeReplyLost, TypeOK
  <1>8. CASE HandleMergeYield(w, o)
    BY <1>8, FinishEffect DEF HandleMergeYield, TypeOK
  <1>9. CASE HandleNil(w, o)
    BY <1>9, GotoEffect DEF HandleNil, TypeOK
  <1>10. CASE HandleErr(w, o)
    BY <1>10, GotoEffect DEF HandleErr, TypeOK
  <1>11. CASE QueueAdvance(w, o)
    BY <1>11, <1>0, <1>r, WriteEffect, FinishEffect DEF QueueAdvance, TypeOK
  <1>12. CASE SettleFail(w, o)
    BY <1>12, <1>0, <1>r, WriteEffect, FinishEffect DEF SettleFail, TypeOK
  <1>13. CASE SettleLost(w, o)
    BY <1>13, <1>f, FinishEffect DEF SettleLost, TypeOK
  <1> QED BY <1>1, <1>2, <1>3, <1>4, <1>5, <1>6, <1>7, <1>8, <1>9, <1>10, <1>11, <1>12, <1>13
          DEF Handle, Settle, SettleOk, SettleDegrade

(* All other actions.                                                       *)
LEMMA TypeRest ==
  ASSUME TypeOK, Next,
         ~ \E w \in Workers, o \in Opps : Start(w, o) \/ Handle(w, o) \/ Settle(w, o)
  PROVE  TypeOK'
  <1> USE DEF Env
  <1>0. row \in [Opps -> Rows] /\ held \in [Workers -> [Opps -> Items]]
    BY DEF TypeOK
  <1>i. NoItem \in Items
    BY DEF NoItem, Items
  <1>w. "parsed" \in WorkStates
    BY DEF WorkStates
  <1>r. \A o \in Opps : /\ ClaimBatch(row[o]) \in Rows
                        /\ ReleaseClaim(row[o]) \in Rows
                        /\ RequeueStranded(row[o]) \in Rows
                        /\ MarkMerged(row[o]) \in Rows
                        /\ UpdateOpportunityFromPosting(row[o]) \in Rows
    BY <1>0, <1>w, RowOps
  <1>f. ASSUME Fault PROVE faults' \in Nat
    BY <1>f DEF Fault, TypeOK
  <1>c. ASSUME NEW w \in Workers, NEW S \in SUBSET Opps, ClaimRows(w, S)
        PROVE  row' \in [Opps -> Rows]
    BY <1>c, <1>0, <1>r DEF ClaimRows
  <1>1. ASSUME NEW w \in Workers, NEW S \in SUBSET Opps, Claim(w, S)
        PROVE  TypeOK'
    BY <1>1, <1>c, ClaimEffect DEF Claim, TypeOK
  <1>2. ASSUME NEW w \in Workers, NEW S \in SUBSET Opps, ClaimLost(w, S)
        PROVE  TypeOK'
    BY <1>2, <1>c, <1>f DEF ClaimLost, TypeOK
  <1>3. ASSUME NEW w \in Workers, Cancel(w) PROVE TypeOK'
    BY <1>3, <1>f DEF Cancel, TypeOK, Statuses
  <1>4. ASSUME NEW w \in Workers, Exit(w) PROVE TypeOK'
    BY <1>4, <1>0, <1>r DEF Exit, TypeOK, Statuses
  <1>5. ASSUME NEW w \in Workers, Crash(w) PROVE TypeOK'
    BY <1>5, <1>i, <1>f DEF Crash, TypeOK, Statuses
  <1>6. ASSUME NEW w \in Workers, Restart(w) PROVE TypeOK'
    BY <1>6 DEF Restart, TypeOK, Statuses
  <1>7. ASSUME NEW S \in SUBSET Opps, SweepSelect(S) PROVE TypeOK'
    BY <1>7 DEF SweepSelect, TypeOK
  <1>8. CASE SweepRequeue
    BY <1>8, <1>0, <1>r DEF SweepRequeue, SweptNow, TypeOK
  <1>9. CASE SweepLost
    BY <1>9, <1>f DEF SweepLost, TypeOK
  <1>10. ASSUME NEW o \in Opps, IngestUpdate(o) PROVE TypeOK'
    BY <1>10, <1>0, <1>r, WriteEffect DEF IngestUpdate, TypeOK
  <1>11. ASSUME NEW o \in Opps, DedupeSweep(o) PROVE TypeOK'
    BY <1>11, <1>0, <1>r, WriteEffect DEF DedupeSweep, TypeOK
  <1>12. ASSUME NEW o \in Opps, LeaseLapse(o) PROVE TypeOK'
    <2>1. [row[o] EXCEPT !.lease = "expired"] \in Rows
      BY <1>0 DEF Rows
    <2> QED
      BY <1>12, <1>0, <2>1 DEF LeaseLapse, TypeOK
  <1>13. ASSUME NEW o \in Opps, BackoffElapse(o) PROVE TypeOK'
    <2>1. [row[o] EXCEPT !.due = TRUE] \in Rows
      BY <1>0 DEF Rows
    <2> QED
      BY <1>13, <1>0, <2>1 DEF BackoffElapse, TypeOK
  <1>14. ASSUME NEW o \in Opps, Age(o) PROVE TypeOK'
    <2>1. [row[o] EXCEPT !.aged = TRUE] \in Rows
      BY <1>0 DEF Rows
    <2> QED
      BY <1>14, <1>0, <2>1 DEF Age, TypeOK
  <1> QED BY <1>1, <1>2, <1>3, <1>4, <1>5, <1>6, <1>7, <1>8, <1>9, <1>10, <1>11,
             <1>12, <1>13, <1>14 DEF Next

LEMMA TypeInit == Init => TypeOK
  <1> SUFFICES ASSUME Init PROVE TypeOK
    OBVIOUS
  <1>1. NoItem \in Items
    BY DEF NoItem, Items
  <1> DEFINE fresh(s) ==
        [state |-> s, version |-> 0, attempts |-> 0, lease |-> "none",
         due |-> TRUE, aged |-> FALSE, merged |-> FALSE,
         keyed |-> s \notin {"discovered", "fetched", "parsed"}]
  <1>2. \A s \in Entry : fresh(s) \in Rows
    <2> SUFFICES ASSUME NEW s \in Entry PROVE fresh(s) \in Rows
      OBVIOUS
    <2>1. s \in States
      BY EntryAssumption DEF States
    <2>2. (s \notin {"discovered", "fetched", "parsed"}) \in BOOLEAN
      OBVIOUS
    <2> QED BY <2>1, <2>2, Zenon DEF Rows
  <1>3. row \in [Opps -> {fresh(s) : s \in Entry}]
    BY DEF Init
  <1> HIDE DEF fresh
  <1>4. row \in [Opps -> Rows]
    BY <1>2, <1>3
  <1> QED BY <1>1, <1>4 DEF Init, TypeOK, Statuses

LEMMA TypeStep == TypeOK /\ [Next]_vars => TypeOK'
  <1>1. ASSUME TypeOK, UNCHANGED vars PROVE TypeOK'
    BY <1>1 DEF TypeOK, vars
  <1> QED BY <1>1, TypeItem, TypeRest

(* Every reachable state is well typed, for every table and deployment.     *)
THEOREM Typed == Spec => []TypeOK
  BY TypeInit, TypeStep, PTL DEF Spec
-----------------------------------------------------------------------------
(* The bookkeeping of Worker.inFlight.                                      *)
Tracked == TypeOK /\ TrackedIsHeld

LEMMA TrackedInit == Init => Tracked
  BY TypeInit DEF Tracked, Init, TrackedIsHeld

LEMMA TrackedStep == Tracked /\ [Next]_vars => Tracked'
  <1> SUFFICES ASSUME Tracked, [Next]_vars PROVE Tracked'
    OBVIOUS
  <1> USE DEF Env
  <1>0. TypeOK /\ TrackedIsHeld
    BY DEF Tracked
  <1>t. TypeOK'
    BY <1>0, TypeStep
  <1> DEFINE Busy == {"running", "merging", "ok", "err"}
             Result == \A w \in Workers, o \in Opps :
                         o \in inFlight'[w] => held'[w][o].phase \in Busy
  <1>a. \A w \in Workers, o \in Opps : o \in inFlight[w] => held[w][o].phase \in Busy
    BY <1>0 DEF TrackedIsHeld, Started
  <1>u. ASSUME held' = held, inFlight' = inFlight PROVE Result
    BY <1>a, <1>u
  <1>1. ASSUME NEW w \in Workers, NEW o \in Opps, Finish(w, o) PROVE Result
    <2>1. \A v \in Workers, p \in Opps : p \in inFlight'[v] =>
             p \in inFlight[v] /\ (v # w \/ p # o)
      BY <1>0, <1>1, FinishEffect
    <2> QED BY <1>0, <1>1, <1>a, <2>1, FinishEffect
  <1>2. ASSUME NEW w \in Workers, NEW o \in Opps, NEW ph \in {"running", "ok", "err"},
               Goto(w, o, ph)
        PROVE  Result
    <2>1. \A v \in Workers, p \in Opps :
             held'[v][p].phase \in Busy \/ held'[v][p] = held[v][p]
      BY <1>0, <1>2, GotoEffect
    <2>2. inFlight' = inFlight
      BY <1>2 DEF Goto
    <2> QED BY <1>a, <2>1, <2>2
  <1>3. ASSUME NEW w \in Workers, NEW o \in Opps, Start(w, o) PROVE Result
    <2>1. held'[w][o].phase = "running"
      BY <1>0, <1>3, StartEffect
    <2>2. \A v \in Workers, p \in Opps : v # w \/ p # o => held'[v][p] = held[v][p]
      BY <1>0, <1>3, StartEffect
    <2>3. \A v \in Workers, p \in Opps : p \in inFlight'[v] =>
             p \in inFlight[v] \/ (v = w /\ p = o)
      BY <1>0, <1>3 DEF Start, TypeOK
    <2> QED BY <1>a, <2>1, <2>2, <2>3
  <1>4. ASSUME NEW w \in Workers, NEW o \in Opps, NEW p \in Opps, HandleDecide(w, o, p)
        PROVE  Result
    <2>1. \A v \in Workers, q \in Opps :
             held'[v][q].phase \in Busy \/ held'[v][q] = held[v][q]
      BY <1>0, <1>4, DecideEffect
    <2>2. inFlight' = inFlight
      BY <1>4 DEF HandleDecide
    <2> QED BY <1>a, <2>1, <2>2
  <1>5. ASSUME NEW w \in Workers, NEW S \in SUBSET Opps, Claim(w, S) PROVE Result
    <2>1. inFlight' = inFlight /\ \A o \in Opps : held[w][o].phase = "none"
      BY <1>5 DEF Claim, ClaimRows, Idle, Holds
    <2>2. inFlight[w] = {}
      BY <1>0, <1>a, <2>1 DEF TypeOK
    <2> QED BY <1>0, <1>5, <1>a, <2>1, <2>2, ClaimEffect
  <1>6. ASSUME NEW w \in Workers, Crash(w) PROVE Result
    <2>1. inFlight'[w] = {}
      BY <1>0, <1>6 DEF Crash, TypeOK
    <2>2. \A v \in Workers : v # w => held'[v] = held[v] /\ inFlight'[v] = inFlight[v]
      BY <1>0, <1>6 DEF Crash, TypeOK
    <2> QED BY <1>a, <2>1, <2>2
  <1>7. ASSUME NEW w \in Workers, Restart(w) PROVE Result
    <2>1. inFlight'[w] = {} /\ held' = held
      BY <1>0, <1>7 DEF Restart, TypeOK
    <2>2. \A v \in Workers : v # w => inFlight'[v] = inFlight[v]
      BY <1>0, <1>7 DEF Restart, TypeOK
    <2> QED BY <1>a, <2>1, <2>2
  <1>8. ASSUME NEW w \in Workers, NEW o \in Opps, Handle(w, o) \/ Settle(w, o) PROVE Result
    <2> HIDE DEF Result
    <2> QED
      BY <1>1, <1>2, <1>4, <1>8
         DEF Handle, HandleWrite, HandleWriteReplyLost, HandleConflict, HandleMerge,
             HandleMergeReplyLost, HandleMergeYield, HandleNil, HandleErr,
             Settle, SettleOk, SettleDegrade, SettleFail, SettleLost, QueueAdvance
  <1>9. Result
    <2> HIDE DEF Result
    <2> QED
      BY <1>3, <1>5, <1>6, <1>7, <1>8, <1>u
         DEF Next, vars, ClaimLost, Cancel, Exit, SweepSelect, SweepRequeue, SweepLost,
             IngestUpdate, DedupeSweep, LeaseLapse, BackoffElapse, Age
  <1>10. \A w \in Workers : inFlight'[w] \subseteq Opps
    BY <1>t DEF TypeOK
  <1>11. TrackedIsHeld'
    BY <1>9, <1>10 DEF TrackedIsHeld, Started
  <1> QED BY <1>t, <1>11 DEF Tracked

(* The ids a worker tracks are items its goroutines still work on. With     *)
(* every goroutine returned there is none left, which is why the release    *)
(* deferred by Run never finds a claim to give back.                        *)
THEOREM TrackedWhileStarted == Spec => []TrackedIsHeld
  <1>1. Tracked => TrackedIsHeld
    BY DEF Tracked
  <1> QED BY <1>1, TrackedInit, TrackedStep, PTL DEF Spec
-----------------------------------------------------------------------------
(* Safety. The argument: whatever statement runs, a row either gets a new   *)
(* version, or keeps version and merged_into, loses no attempt and stays in *)
(* its state or is parked (RowStep). An item claimed under a version        *)
(* therefore describes the row for as long as the versions agree.           *)
(* ReleaseClaim would break this; that it never finds a row to release is   *)
(* TrackedIsHeld.                                                           *)

RowStep(r, n) ==
  \/ n.version = r.version + 1
  \/ /\ n.version = r.version
     /\ n.merged = r.merged
     /\ n.attempts >= r.attempts
     /\ n.state \in {r.state, "failed_permanent"}

(* ReadyClean and ParkedSpent, of one row.                                  *)
RowInv(r) ==
  /\ r.state = "ready" => r.attempts = 0 /\ r.lease = "none"
  /\ r.state = "failed_permanent" => r.attempts >= MaxAttempts /\ r.lease = "none"

(* What every statement guarantees, the row satisfying RowInv before.       *)
Good(r, n) == RowStep(r, n) /\ RowInv(n)

LEMMA GoodOps ==
  ASSUME NEW r \in Rows, RowInv(r)
  PROVE  /\ \A s \in WorkStates : Good(r, AdvanceState(r, s))
         /\ r.state \in WorkStates => Good(r, ClaimBatch(r))
         /\ Good(r, FailAttempt(r))
         /\ Good(r, RequeueStranded(r))
         /\ Good(r, MarkMerged(r))
         /\ Good(r, UpdateOpportunityFromPosting(r))
         /\ Good(r, r)
  <1> USE AttemptsAssumption DEF Good, RowStep, RowInv, Rows
  <1>1. ASSUME NEW s \in WorkStates PROVE Good(r, AdvanceState(r, s))
    <2>1. HappyPath[s] # "failed_permanent"
      BY DEF HappyPath, WorkStates
    <2> QED BY <2>1 DEF AdvanceState
  <1>2. ASSUME r.state \in WorkStates PROVE Good(r, ClaimBatch(r))
    BY <1>2 DEF ClaimBatch, WorkStates
  <1>3. Good(r, FailAttempt(r))
    BY DEF FailAttempt
  <1>4. Good(r, RequeueStranded(r))
    BY DEF RequeueStranded
  <1>5. Good(r, MarkMerged(r))
    BY DEF MarkMerged
  <1>6. Good(r, UpdateOpportunityFromPosting(r))
    BY DEF UpdateOpportunityFromPosting
  <1>7. Good(r, r)
    OBVIOUS
  <1> QED BY <1>1, <1>2, <1>3, <1>4, <1>5, <1>6, <1>7

LEMMA GoodTrigger ==
  ASSUME NEW r \in Rows, NEW n \in Rows, Good(r, n)
  PROVE  Good(r, SetStateEnteredAt(r, n))
  BY TriggerRow DEF Good, RowStep, RowInv

LEMMA GoodWrite ==
  ASSUME row \in [Opps -> Rows], \A p \in Opps : RowInv(row[p]),
         NEW o \in Opps, NEW new \in Rows, Good(row[o], new), Write(o, new)
  PROVE  \A p \in Opps : Good(row[p], row'[p])
  <1>1. Good(row[o], row'[o])
    BY WriteEffect, GoodTrigger
  <1>2. ASSUME NEW p \in Opps, p # o PROVE Good(row[p], row'[p])
    BY <1>2, WriteEffect, GoodOps
  <1> QED BY <1>1, <1>2

(* Every step of the system is good for every row.                          *)
LEMMA GoodStep ==
  ASSUME TypeOK, TrackedIsHeld, \A p \in Opps : RowInv(row[p]), [Next]_vars
  PROVE  \A p \in Opps : Good(row[p], row'[p])
  <1> USE DEF Env
  <1>0. row \in [Opps -> Rows]
    BY DEF TypeOK
  <1>g. \A o \in Opps : Good(row[o], row[o])
    BY <1>0, GoodOps
  <1>u. ASSUME row' = row PROVE \A p \in Opps : Good(row[p], row'[p])
    BY <1>g, <1>u
  <1>1. ASSUME NEW w \in Workers, NEW o \in Opps, Matches(row[o], held[w][o], StageOf[w]),
               Write(o, AdvanceState(row[o], StageOf[w]))
        PROVE  \A p \in Opps : Good(row[p], row'[p])
    <2>1. AdvanceState(row[o], StageOf[w]) \in Rows
      BY <1>0, StageTyped, RowOps
    <2>2. Good(row[o], AdvanceState(row[o], StageOf[w]))
      BY <1>0, StageTyped, GoodOps
    <2> QED BY <1>0, <1>1, <2>1, <2>2, GoodWrite
  <1>2. ASSUME NEW o \in Opps, Write(o, MarkMerged(row[o]))
        PROVE  \A p \in Opps : Good(row[p], row'[p])
    <2>1. MarkMerged(row[o]) \in Rows
      <3>1. "parsed" \in WorkStates
        BY DEF WorkStates
      <3> QED BY <1>0, <3>1, RowOps
    <2>2. Good(row[o], MarkMerged(row[o]))
      BY <1>0, GoodOps
    <2> QED BY <1>0, <1>2, <2>1, <2>2, GoodWrite
  <1>3. ASSUME NEW w \in Workers, NEW o \in Opps, Handle(w, o)
        PROVE  \A p \in Opps : Good(row[p], row'[p])
    BY <1>1, <1>2, <1>3, <1>u
       DEF Handle, HandleWrite, HandleWriteReplyLost, HandleConflict, HandleDecide, HandleMerge,
           HandleMergeReplyLost, HandleMergeYield, HandleNil, HandleErr
  <1>4. ASSUME NEW w \in Workers, NEW o \in Opps, SettleFail(w, o)
        PROVE  \A p \in Opps : Good(row[p], row'[p])
    <2>1. FailAttempt(row[o]) \in Rows
      BY <1>0, StageTyped, RowOps
    <2>2. Good(row[o], FailAttempt(row[o]))
      BY <1>0, GoodOps
    <2> QED BY <1>0, <1>4, <2>1, <2>2, GoodWrite DEF SettleFail
  <1>5. ASSUME NEW w \in Workers, NEW o \in Opps, Settle(w, o)
        PROVE  \A p \in Opps : Good(row[p], row'[p])
    BY <1>1, <1>4, <1>5, <1>u DEF Settle, SettleOk, SettleDegrade, SettleLost, QueueAdvance
  <1>6. ASSUME NEW w \in Workers, NEW S \in SUBSET Opps, ClaimRows(w, S)
        PROVE  \A p \in Opps : Good(row[p], row'[p])
    <2>1. \A p \in S : row[p].state \in WorkStates
      BY <1>6, StageTyped DEF ClaimRows, Claimable
    <2>2. \A p \in S : Good(row[p], ClaimBatch(row[p]))
      BY <1>0, <2>1, GoodOps
    <2> QED BY <1>6, <1>g, <2>2 DEF ClaimRows
  <1>7. ASSUME NEW w \in Workers, Exit(w)
        PROVE  \A p \in Opps : Good(row[p], row'[p])
    <2>1. inFlight[w] = {}
      <3>1. Started(w) = {}
        BY <1>7 DEF Exit, Idle, Holds, Started
      <3> QED BY <3>1 DEF TrackedIsHeld
    <2> QED BY <1>7, <1>g, <2>1 DEF Exit
  <1>8. ASSUME SweepRequeue
        PROVE  \A p \in Opps : Good(row[p], row'[p])
    <2>1. \A p \in Opps : Good(row[p], RequeueStranded(row[p]))
      BY <1>0, GoodOps
    <2> QED BY <1>8, <1>g, <2>1 DEF SweepRequeue
  <1>9. ASSUME NEW o \in Opps, IngestUpdate(o)
        PROVE  \A p \in Opps : Good(row[p], row'[p])
    <2>1. UpdateOpportunityFromPosting(row[o]) \in Rows
      <3>1. "parsed" \in WorkStates
        BY DEF WorkStates
      <3> QED BY <1>0, <3>1, RowOps
    <2>2. Good(row[o], UpdateOpportunityFromPosting(row[o]))
      BY <1>0, GoodOps
    <2> QED BY <1>0, <1>9, <2>1, <2>2, GoodWrite DEF IngestUpdate
  <1>10. ASSUME NEW o \in Opps, LeaseLapse(o) \/ BackoffElapse(o) \/ Age(o)
         PROVE  \A p \in Opps : Good(row[p], row'[p])
    <2>1. row[o] \in Rows /\ RowInv(row[o])
      BY <1>0
    <2>2. \A p \in Opps : p # o => row'[p] = row[p]
      BY <1>0, <1>10 DEF LeaseLapse, BackoffElapse, Age
    <2>3. CASE LeaseLapse(o)
      <3>1. row'[o] = [row[o] EXCEPT !.lease = "expired"]
        BY <1>0, <2>3 DEF LeaseLapse
      <3> QED BY <2>1, <2>2, <2>3, <3>1, <1>g DEF LeaseLapse, Good, RowStep, RowInv, Rows
    <2>4. CASE BackoffElapse(o)
      <3>1. row'[o] = [row[o] EXCEPT !.due = TRUE]
        BY <1>0, <2>4 DEF BackoffElapse
      <3> QED BY <2>1, <2>2, <3>1, <1>g DEF Good, RowStep, RowInv, Rows
    <2>5. CASE Age(o)
      <3>1. row'[o] = [row[o] EXCEPT !.aged = TRUE]
        BY <1>0, <2>5 DEF Age
      <3> QED BY <2>1, <2>2, <3>1, <1>g DEF Good, RowStep, RowInv, Rows
    <2> QED BY <1>10, <2>3, <2>4, <2>5
  <1> QED
    BY <1>2, <1>3, <1>5, <1>6, <1>7, <1>8, <1>9, <1>10, <1>u
       DEF Next, vars, Claim, ClaimLost, Start, Cancel, Crash, Restart, SweepSelect, SweepLost,
           DedupeSweep
-----------------------------------------------------------------------------
(* The inductive invariant of the table.                                    *)
TableInv == Tracked /\ ReadyClean /\ ParkedSpent

LEMMA TableRows == ReadyClean /\ ParkedSpent <=> \A o \in Opps : RowInv(row[o])
  BY DEF ReadyClean, ParkedSpent, RowInv

LEMMA FreshRow ==
  ASSUME Init, NEW o \in Opps
  PROVE  /\ row[o].state \in WorkStates
         /\ row[o].version = 0
         /\ row[o].merged = FALSE
  BY EntryAssumption DEF Init

LEMMA TableInit == Init => TableInv
  <1> SUFFICES ASSUME Init PROVE TableInv
    OBVIOUS
  <1>1. \A o \in Opps : row[o].state # "ready" /\ row[o].state # "failed_permanent"
    BY FreshRow DEF WorkStates
  <1> QED BY <1>1, TrackedInit DEF TableInv, ReadyClean, ParkedSpent

LEMMA TableStep == TableInv /\ [Next]_vars => TableInv'
  <1> SUFFICES ASSUME TableInv, [Next]_vars PROVE TableInv'
    OBVIOUS
  <1>1. Tracked'
    BY TrackedStep DEF TableInv
  <1>2. \A o \in Opps : Good(row[o], row'[o])
    BY TableRows, GoodStep DEF TableInv, Tracked
  <1>3. \A o \in Opps : RowInv(row'[o])
    BY <1>2 DEF Good
  <1> QED BY <1>1, <1>3 DEF TableInv, ReadyClean, ParkedSpent, RowInv

LEMMA TableAlways == Spec => []TableInv
  BY TableInit, TableStep, PTL DEF Spec

(* A failure that a late worker records against a published row, keyed by   *)
(* the id alone, never parks it: FailAttempt finds no attempts to count.    *)
THEOREM PublishedIsClean == Spec => []ReadyClean
  <1>1. TableInv => ReadyClean
    BY DEF TableInv
  <1> QED BY <1>1, TableAlways, PTL

(* A parked row has its attempts spent and no lease, in every reachable     *)
(* state: neither ReleaseClaim nor a second worker undoes it.               *)
THEOREM ParkedIsSpent == Spec => []ParkedSpent
  <1>1. TableInv => ParkedSpent
    BY DEF TableInv
  <1> QED BY <1>1, TableAlways, PTL
-----------------------------------------------------------------------------
(* The items. One item against one row of edition e, before and after a     *)
(* good step.                                                               *)
Current(it, r, s, e) ==
  it.phase # "none" =>
    /\ it.version <= r.version
    /\ it.version = r.version =>
         /\ r.state \in {s, "failed_permanent"} /\ r.attempts > 0 /\ ~r.merged
         /\ it.edition = e

LEMMA CurrentStep ==
  ASSUME NEW r \in Rows, NEW n \in Rows, RowStep(r, n), NEW s, NEW e, NEW f,
         f = e \/ n.version = r.version + 1,
         NEW it \in Items, NEW jt \in Items, Current(it, r, s, e),
         jt.version = it.version, jt.edition = it.edition,
         jt.phase # "none" => it.phase # "none"
  PROVE  Current(jt, n, s, f)
  <1>1. /\ r.version \in Nat /\ n.version \in Nat /\ it.version \in Nat
        /\ r.attempts \in Nat /\ n.attempts \in Nat
    BY DEF Rows, Items
  <1>2. r.merged \in BOOLEAN /\ n.merged \in BOOLEAN
    BY DEF Rows
  <1> SUFFICES ASSUME jt.phase # "none"
               PROVE /\ jt.version <= n.version
                     /\ jt.version = n.version =>
                          /\ n.state \in {s, "failed_permanent"} /\ n.attempts > 0 /\ ~n.merged
                          /\ jt.edition = f
    BY DEF Current
  <1>3. /\ it.version <= r.version
        /\ it.version = r.version =>
             /\ r.state \in {s, "failed_permanent"} /\ r.attempts > 0 /\ ~r.merged
             /\ it.edition = e
    BY DEF Current
  <1>4. CASE n.version = r.version + 1
    BY <1>1, <1>3, <1>4
  <1>5. CASE /\ n.version = r.version
             /\ n.merged = r.merged
             /\ n.attempts >= r.attempts
             /\ n.state \in {r.state, "failed_permanent"}
    <2>1. f = e
      BY <1>1, <1>5
    <2> QED
      BY <1>1, <1>2, <1>3, <1>5, <2>1
  <1> QED BY <1>4, <1>5 DEF RowStep

(* Only new content begins a new edition of a row, and it is a new version. *)
LEMMA EditionStep ==
  ASSUME TypeOK, [Next]_vars, NEW o \in Opps
  PROVE  updates'[o] = updates[o] \/ row'[o].version = row[o].version + 1
  <1> USE DEF Env
  <1>0. row \in [Opps -> Rows] /\ updates \in [Opps -> Nat]
    BY DEF TypeOK
  <1>1. ASSUME NEW p \in Opps, IngestUpdate(p)
        PROVE  updates'[o] = updates[o] \/ row'[o].version = row[o].version + 1
    <2>1. CASE p # o
      BY <1>0, <1>1, <2>1 DEF IngestUpdate
    <2>2. CASE p = o
      <3>1. row[o] \in Rows /\ "parsed" \in WorkStates
        BY <1>0 DEF WorkStates
      <3>2. UpdateOpportunityFromPosting(row[o]) \in Rows
        BY <3>1, RowOps
      <3>3. UpdateOpportunityFromPosting(row[o]).version = row[o].version + 1
        BY <3>1 DEF UpdateOpportunityFromPosting, Rows
      <3>4. Write(o, UpdateOpportunityFromPosting(row[o]))
        BY <1>1, <2>2 DEF IngestUpdate
      <3> QED BY <1>0, <3>1, <3>2, <3>3, <3>4, WriteEffect, TriggerRow
    <2> QED BY <2>1, <2>2
  <1>2. ASSUME NEW w \in Workers, NEW p \in Opps, Handle(w, p) \/ Settle(w, p)
        PROVE  updates' = updates
    BY <1>2 DEF Handle, HandleWrite, HandleWriteReplyLost, HandleConflict, HandleDecide,
                HandleMerge, HandleMergeReplyLost, HandleMergeYield, HandleNil, HandleErr,
                Settle, SettleOk, SettleDegrade, SettleFail, SettleLost, QueueAdvance
  <1>3. (\E p \in Opps : IngestUpdate(p)) \/ updates' = updates
    BY <1>2 DEF Next, vars, Claim, ClaimLost, Start, Cancel, Exit, Crash, Restart, SweepSelect,
                SweepRequeue, SweepLost, DedupeSweep, LeaseLapse, BackoffElapse, Age
  <1> QED BY <1>1, <1>3

(* What a step does to an item: forgets it, keeps its version and edition,  *)
(* or (a claim) takes new ones from the row.                                *)
LEMMA ItemStep ==
  ASSUME TypeOK, [Next]_vars, NEW w \in Workers, NEW o \in Opps
  PROVE  \/ held'[w][o].phase = "none"
         \/ /\ held'[w][o].version = held[w][o].version
            /\ held'[w][o].edition = held[w][o].edition
            /\ held'[w][o].phase # "none" => held[w][o].phase # "none"
         \/ \E S \in SUBSET Opps : o \in S /\ Claim(w, S)
  <1> DEFINE Kept(v, p) == /\ held'[v][p].version = held[v][p].version
                           /\ held'[v][p].edition = held[v][p].edition
                           /\ held'[v][p].phase # "none" => held[v][p].phase # "none"
             Result == \/ held'[w][o].phase = "none"
                       \/ Kept(w, o)
                       \/ \E S \in SUBSET Opps : o \in S /\ Claim(w, S)
  <1> SUFFICES Result
    OBVIOUS
  <1> USE DEF Env
  <1>n. NoItem.phase = "none"
    BY DEF NoItem
  <1>u. ASSUME held' = held PROVE Result
    BY <1>u
  <1>1. ASSUME NEW v \in Workers, NEW p \in Opps, Finish(v, p) PROVE Result
    BY <1>1, <1>n, FinishEffect
  <1>2. ASSUME NEW v \in Workers, NEW p \in Opps, NEW ph \in {"running", "ok", "err"},
               Goto(v, p, ph), Holds(v, p)
        PROVE  Result
    BY <1>2, GotoEffect DEF Holds
  <1>3. ASSUME NEW v \in Workers, NEW p \in Opps, Start(v, p) PROVE Result
    BY <1>3, StartEffect DEF Start, At
  <1>4. ASSUME NEW v \in Workers, NEW p \in Opps, Handle(v, p) PROVE Result
    <2>1. ASSUME NEW q \in Opps, HandleDecide(v, p, q) PROVE Result
      <3>1. held[v][p].phase # "none"
        BY <2>1 DEF HandleDecide, At
      <3> QED BY <2>1, <3>1, DecideEffect
    <2>2. CASE HandleWriteReplyLost(v, p) \/ HandleMergeReplyLost(v, p) \/ HandleErr(v, p)
      <3>1. Holds(v, p) /\ Goto(v, p, "err")
        BY <2>2 DEF HandleWriteReplyLost, HandleMergeReplyLost, HandleErr, At, Holds
      <3> QED BY <3>1, <1>2
    <2>3. CASE HandleNil(v, p)
      <3>1. Holds(v, p) /\ Goto(v, p, "ok")
        BY <2>3 DEF HandleNil, At, Holds
      <3> QED BY <3>1, <1>2
    <2> QED BY <1>1, <1>4, <2>1, <2>2, <2>3
            DEF Handle, HandleWrite, HandleConflict, HandleMerge, HandleMergeYield
  <1>5. ASSUME NEW v \in Workers, NEW p \in Opps, Settle(v, p) PROVE Result
    BY <1>1, <1>5 DEF Settle, SettleOk, SettleDegrade, SettleFail, SettleLost, QueueAdvance
  <1>6. ASSUME NEW v \in Workers, NEW S \in SUBSET Opps, Claim(v, S) PROVE Result
    <2>1. CASE v = w
      BY <1>6, <2>1, <1>n, ClaimEffect
    <2>2. CASE v # w
      BY <1>6, <2>2, ClaimEffect
    <2> QED BY <2>1, <2>2
  <1>7. ASSUME NEW v \in Workers, Crash(v) PROVE Result
    <2>1. v = w => held'[w][o] = NoItem
      BY <1>7 DEF Crash, TypeOK
    <2>2. v # w => held'[w][o] = held[w][o]
      BY <1>7 DEF Crash, TypeOK
    <2> QED BY <2>1, <2>2, <1>n
  <1> HIDE DEF Result
  <1> QED
    BY <1>3, <1>4, <1>5, <1>6, <1>7, <1>u
       DEF Next, vars, ClaimLost, Cancel, Exit, Restart, SweepSelect, SweepRequeue, SweepLost,
           IngestUpdate, DedupeSweep, LeaseLapse, BackoffElapse, Age

(* The inductive invariant: the table, and every item against its row.      *)
ItemInv == TableInv /\ ItemCurrent

LEMMA ItemCurrentIs ==
  ItemCurrent <=> \A w \in Workers, o \in Opps : 
                    Current(held[w][o], row[o], StageOf[w], updates[o])
  BY DEF ItemCurrent, Current, Holds

LEMMA ItemInit == Init => ItemInv
  <1> SUFFICES ASSUME Init PROVE ItemInv
    OBVIOUS
  <1>1. \A w \in Workers, o \in Opps : held[w][o].phase = "none"
    BY DEF Init, NoItem
  <1> QED BY <1>1, TableInit DEF ItemInv, ItemCurrent, Holds

LEMMA ItemInvStep == ItemInv /\ [Next]_vars => ItemInv'
  <1> SUFFICES ASSUME ItemInv, [Next]_vars PROVE ItemInv'
    OBVIOUS
  <1>0. TypeOK /\ TrackedIsHeld /\ (\A p \in Opps : RowInv(row[p]))
    BY TableRows DEF ItemInv, TableInv, Tracked
  <1>1. TableInv' /\ TypeOK'
    BY TableStep DEF ItemInv, TableInv, Tracked
  <1>2. \A o \in Opps : RowStep(row[o], row'[o])
    BY <1>0, GoodStep DEF Good
  <1>t. /\ \A o \in Opps : row[o] \in Rows /\ row'[o] \in Rows
        /\ \A w \in Workers, o \in Opps : held[w][o] \in Items /\ held'[w][o] \in Items
    BY <1>0, <1>1 DEF TypeOK
  <1>3. ASSUME NEW w \in Workers, NEW o \in Opps
        PROVE  Current(held'[w][o], row'[o], StageOf[w], updates'[o])
    <2>1. Current(held[w][o], row[o], StageOf[w], updates[o])
      BY ItemCurrentIs DEF ItemInv
    <2>2. CASE held'[w][o].phase = "none"
      BY <2>2 DEF Current
    <2>3. CASE /\ held'[w][o].version = held[w][o].version
               /\ held'[w][o].edition = held[w][o].edition
               /\ held'[w][o].phase # "none" => held[w][o].phase # "none"
      <3>1. updates'[o] = updates[o] \/ row'[o].version = row[o].version + 1
        BY <1>0, EditionStep
      <3> QED BY <2>1, <2>3, <3>1, <1>2, <1>t, CurrentStep
    <2>4. ASSUME NEW S \in SUBSET Opps, o \in S, Claim(w, S)
          PROVE  Current(held'[w][o], row'[o], StageOf[w], updates'[o])
      <3>1. row'[o] = ClaimBatch(row[o]) /\ Claimable(row[o], StageOf[w])
        BY <2>4, <1>0 DEF Claim, ClaimRows
      <3>2. held'[w][o].version = row[o].version /\ held'[w][o].edition = updates'[o]
        BY <2>4, <1>0, ClaimEffect DEF Claim, Env
      <3>3. /\ row'[o].version = row[o].version
            /\ row'[o].state = row[o].state
            /\ row'[o].merged = row[o].merged
            /\ row'[o].attempts = row[o].attempts + 1
        BY <3>1, <1>t DEF ClaimBatch, Rows
      <3>4. row[o].version \in Nat /\ row[o].attempts \in Nat
        BY <1>t DEF Rows
      <3> QED BY <3>1, <3>2, <3>3, <3>4 DEF Current, Claimable
    <2> QED BY <1>0, <2>2, <2>3, <2>4, ItemStep
  <1>4. ItemCurrent'
    BY <1>3 DEF ItemCurrent, Current, Holds
  <1> QED BY <1>1, <1>4 DEF ItemInv

LEMMA ItemAlways == Spec => []ItemInv
  BY ItemInit, ItemInvStep, PTL DEF Spec

(* A version guard is enough: whenever the version of a claimed item is     *)
(* still the row's, the row is where the worker found it (or parked), with  *)
(* an attempt on its count, and not merged, whoever else wrote it meanwhile.*)
THEOREM ItemsStayCurrent == Spec => []ItemCurrent
  <1>1. ItemInv => ItemCurrent
    BY DEF ItemInv
  <1> QED BY <1>1, ItemAlways, PTL
-----------------------------------------------------------------------------
(* A row changes its state only by parking, by new content, or by a worker  *)
(* whose item still matches it.                                             *)
LEMMA StateStep ==
  ASSUME ItemInv, [Next]_vars, NEW o \in Opps
  PROVE  \/ row'[o].state \in {row[o].state, "failed_permanent"}
         \/ updates' # updates
         \/ \E w \in Workers : /\ Holds(w, o) /\ held'[w][o] # held[w][o]
                               /\ Matches(row[o], held[w][o], StageOf[w])
  <1> DEFINE Result ==
        \/ row'[o].state \in {row[o].state, "failed_permanent"}
        \/ updates' # updates
        \/ \E w \in Workers : /\ Holds(w, o) /\ held'[w][o] # held[w][o]
                              /\ Matches(row[o], held[w][o], StageOf[w])
  <1> SUFFICES Result
    OBVIOUS
  <1> USE DEF Env
  <1>0. TypeOK /\ TrackedIsHeld /\ row \in [Opps -> Rows] /\ (\A p \in Opps : RowInv(row[p]))
    BY TableRows DEF ItemInv, TableInv, Tracked, TypeOK
  <1>1. CASE row'[o].version = row[o].version
    <2>1. RowStep(row[o], row'[o])
      BY <1>0, GoodStep DEF Good
    <2>2. row[o].version \in Nat
      BY <1>0 DEF Rows
    <2> QED BY <1>1, <2>1, <2>2 DEF RowStep
  <1>u. CASE row' = row
    BY <1>u
  <1>2. ASSUME NEW p \in Opps, NEW new, p # o, row' = [row EXCEPT ![p] = new] PROVE Result
    BY <1>0, <1>2
  <1>3. ASSUME NEW w \in Workers, NEW p \in Opps, Holds(w, p), held'[w][p] # held[w][p],
               Matches(row[p], held[w][p], StageOf[w]),
               Write(p, AdvanceState(row[p], StageOf[w]))
        PROVE  Result
    BY <1>2, <1>3 DEF Write
  <1>4. ASSUME NEW p \in Opps, Write(p, MarkMerged(row[p])) PROVE Result
    <2>1. CASE p # o
      BY <1>2, <1>4, <2>1 DEF Write
    <2>2. CASE p = o
      <3>1. row[o] \in Rows /\ "parsed" \in WorkStates
        BY <1>0 DEF WorkStates
      <3>2. MarkMerged(row[o]) \in Rows
        BY <3>1, RowOps
      <3>3. MarkMerged(row[o]).state = row[o].state
        BY <3>1 DEF MarkMerged, Rows
      <3>4. row'[o].state = row[o].state
        BY <1>0, <1>4, <2>2, <3>1, <3>2, <3>3, WriteEffect, TriggerRow
      <3> QED BY <3>4
    <2> QED BY <2>1, <2>2
  <1> HIDE DEF Result
  <1>5. ASSUME NEW w \in Workers, NEW p \in Opps, Handle(w, p) PROVE Result
    <2>1. CASE HandleWrite(w, p)
      BY <1>0, <1>3, <2>1, FinishEffect DEF HandleWrite, At, Holds, NoItem
    <2>2. CASE HandleWriteReplyLost(w, p)
      BY <1>0, <1>3, <2>2, GotoEffect DEF HandleWriteReplyLost, At, Holds
    <2> QED
      BY <1>4, <1>5, <1>u, <2>1, <2>2
         DEF Handle, HandleConflict, HandleDecide, HandleMerge, HandleMergeReplyLost,
             HandleMergeYield, HandleNil, HandleErr
  <1>6. ASSUME NEW w \in Workers, NEW p \in Opps, Settle(w, p) PROVE Result
    <2>1. CASE SettleFail(w, p)
      <3>1. CASE p # o
        BY <1>2, <2>1, <3>1 DEF SettleFail, Write
      <3>2. CASE p = o
        <4>1. row[o] \in Rows /\ FailAttempt(row[o]) \in Rows
          BY <1>0, StageTyped, RowOps
        <4>2. row'[o] = SetStateEnteredAt(row[o], FailAttempt(row[o]))
          BY <1>0, <2>1, <3>2, <4>1, WriteEffect DEF SettleFail
        <4>3. FailAttempt(row[o]).version = row[o].version
          BY <4>1 DEF FailAttempt, Rows
        <4> QED BY <1>1, <4>1, <4>2, <4>3, TriggerRow
      <3> QED BY <3>1, <3>2
    <2>2. ASSUME QueueAdvance(w, p), Holds(w, p) PROVE Result
      BY <1>0, <1>3, <1>u, <2>2, FinishEffect DEF QueueAdvance, Holds, NoItem
    <2> QED BY <1>6, <1>u, <2>1, <2>2
            DEF Settle, SettleOk, SettleDegrade, SettleLost, At, Holds
  <1>7. ASSUME NEW w \in Workers, NEW S \in SUBSET Opps, ClaimRows(w, S) PROVE Result
    <2>1. row'[o] = row[o] \/ row'[o] = ClaimBatch(row[o])
      BY <1>0, <1>7 DEF ClaimRows
    <2>2. ClaimBatch(row[o]).version = row[o].version
      BY <1>0 DEF ClaimBatch, Rows
    <2> QED BY <1>1, <2>1, <2>2
  <1>8. ASSUME NEW w \in Workers, Exit(w) PROVE Result
    <2>1. row'[o] = row[o] \/ row'[o] = ReleaseClaim(row[o])
      BY <1>0, <1>8 DEF Exit
    <2>2. ReleaseClaim(row[o]).version = row[o].version
      BY <1>0 DEF ReleaseClaim, Rows
    <2> QED BY <1>1, <2>1, <2>2
  <1>9. ASSUME SweepRequeue PROVE Result
    <2>1. row'[o] = row[o] \/ row'[o] = RequeueStranded(row[o])
      BY <1>0, <1>9 DEF SweepRequeue
    <2>2. RequeueStranded(row[o]).version = row[o].version
      BY <1>0 DEF RequeueStranded, Rows
    <2> QED BY <1>1, <2>1, <2>2
  <1>10. ASSUME NEW p \in Opps, IngestUpdate(p) PROVE Result
    <2>1. updates' # updates
      <3>1. updates[p] \in Nat /\ updates'[p] = updates[p] + 1
        BY <1>0, <1>10 DEF IngestUpdate, TypeOK
      <3> QED BY <3>1
    <2> QED BY <2>1 DEF Result
  <1>11. ASSUME NEW p \in Opps, LeaseLapse(p) \/ BackoffElapse(p) \/ Age(p) PROVE Result
    <2>1. row'[o].version = row[o].version
      BY <1>0, <1>11 DEF LeaseLapse, BackoffElapse, Age, Rows
    <2> QED BY <1>1, <2>1
  <1> QED
    BY <1>4, <1>5, <1>6, <1>7, <1>8, <1>9, <1>10, <1>11, <1>u
       DEF Next, vars, Claim, ClaimLost, Start, Cancel, Crash, Restart, SweepSelect, SweepLost,
           DedupeSweep

(* Every advance is earned: a late worker never advances content it did not *)
(* claim, even when the row has come round to the same state again.         *)
THEOREM AdvancesAreEarned == Spec => AdvanceEarned
  <1>1. ItemInv /\ [Next]_vars =>
          [\A o \in Opps :
             /\ row[o].state \in WorkStates
             /\ row'[o].state = HappyPath[row[o].state]
             /\ updates' = updates
             => \E w \in Workers :
                  /\ Holds(w, o) /\ held'[w][o] # held[w][o]
                  /\ StageOf[w] = row[o].state /\ held[w][o].edition = updates[o]
                  /\ row[o].attempts > 0]_vars
    <2> SUFFICES ASSUME ItemInv, [Next]_vars, NEW o \in Opps, row[o].state \in WorkStates,
                        row'[o].state = HappyPath[row[o].state], updates' = updates
                 PROVE  \E w \in Workers :
                          /\ Holds(w, o) /\ held'[w][o] # held[w][o]
                          /\ StageOf[w] = row[o].state /\ held[w][o].edition = updates[o]
                          /\ row[o].attempts > 0
      OBVIOUS
    <2>1. HappyPath[row[o].state] \notin {row[o].state, "failed_permanent"}
      BY DEF HappyPath, WorkStates
    <2>2. PICK w \in Workers : /\ Holds(w, o) /\ held'[w][o] # held[w][o]
                               /\ Matches(row[o], held[w][o], StageOf[w])
      BY <2>1, StateStep
    <2> QED BY <2>2 DEF ItemInv, ItemCurrent, Matches
  <1> QED BY <1>1, ItemAlways, PTL DEF Spec, AdvanceEarned
-----------------------------------------------------------------------------
(* The queue implements the life cycle of a posting: every step of Pipeline *)
(* is a step of Lifecycle or leaves the life cycle alone.                   *)
LEMMA SameStates ==
  LC!WorkStates = WorkStates /\ LC!HappyPath = HappyPath
  BY DEF LC!WorkStates, WorkStates, LC!HappyPath, HappyPath

(* A deduper that is about to merge has chosen one other row.               *)
MergeTarget ==
  \A w \in Workers, o \in Opps :
    held[w][o].phase = "merging" => \E p \in Opps \ {o} : held[w][o].into = {p}

(* An item enters "merging" only by the decision for a candidate.           *)
LEMMA MergeStep ==
  ASSUME TypeOK, [Next]_vars, NEW w \in Workers, NEW o \in Opps
  PROVE  \/ held'[w][o].phase # "merging"
         \/ held'[w][o] = held[w][o]
         \/ \E p \in Opps : HandleDecide(w, o, p)
  <1> DEFINE Result == \/ held'[w][o].phase # "merging"
                       \/ held'[w][o] = held[w][o]
                       \/ \E p \in Opps : HandleDecide(w, o, p)
  <1> SUFFICES Result
    OBVIOUS
  <1> USE DEF Env
  <1>n. NoItem.phase # "merging"
    BY DEF NoItem
  <1>u. ASSUME held' = held PROVE Result
    BY <1>u
  <1>1. ASSUME NEW v \in Workers, NEW p \in Opps, Finish(v, p) PROVE Result
    BY <1>1, <1>n, FinishEffect
  <1>2. ASSUME NEW v \in Workers, NEW p \in Opps, NEW ph \in {"running", "ok", "err"},
               Goto(v, p, ph)
        PROVE  Result
    BY <1>2, GotoEffect
  <1>3. ASSUME NEW v \in Workers, NEW p \in Opps, Start(v, p) PROVE Result
    BY <1>3, StartEffect
  <1>4. ASSUME NEW v \in Workers, NEW p \in Opps, NEW q \in Opps, HandleDecide(v, p, q)
        PROVE  Result
    BY <1>4, DecideEffect
  <1>5. ASSUME NEW v \in Workers, NEW S \in SUBSET Opps, Claim(v, S) PROVE Result
    <2>1. \A p \in Opps : held'[v][p].phase # "merging"
      BY <1>5, <1>n, ClaimEffect
    <2> QED BY <1>5, <2>1, ClaimEffect
  <1>6. ASSUME NEW v \in Workers, Crash(v) PROVE Result
    <2>1. v = w => held'[w][o] = NoItem
      BY <1>6 DEF Crash, TypeOK
    <2>2. v # w => held'[w][o] = held[w][o]
      BY <1>6 DEF Crash, TypeOK
    <2> QED BY <2>1, <2>2, <1>n
  <1> HIDE DEF Result
  <1>7. ASSUME NEW v \in Workers, NEW p \in Opps, Handle(v, p) \/ Settle(v, p) PROVE Result
    BY <1>1, <1>2, <1>4, <1>7
       DEF Handle, HandleWrite, HandleWriteReplyLost, HandleConflict, HandleMerge,
           HandleMergeReplyLost, HandleMergeYield, HandleNil, HandleErr,
           Settle, SettleOk, SettleDegrade, SettleFail, SettleLost, QueueAdvance
  <1> QED
    BY <1>3, <1>5, <1>6, <1>7, <1>u
       DEF Next, vars, ClaimLost, Cancel, Exit, Restart, SweepSelect, SweepRequeue, SweepLost,
           IngestUpdate, DedupeSweep, LeaseLapse, BackoffElapse, Age

(* The inductive invariant of the refinement.                               *)
RefInv == ItemInv /\ MergeTarget

LEMMA RefInit == Init => RefInv
  <1> SUFFICES ASSUME Init PROVE RefInv
    OBVIOUS
  <1>1. \A w \in Workers, o \in Opps : held[w][o].phase = "none"
    BY DEF Init, NoItem
  <1> QED BY <1>1, ItemInit DEF RefInv, MergeTarget

LEMMA RefStep == RefInv /\ [Next]_vars => RefInv'
  <1> SUFFICES ASSUME RefInv, [Next]_vars PROVE RefInv'
    OBVIOUS
  <1>0. TypeOK
    BY DEF RefInv, ItemInv, TableInv, Tracked
  <1>1. ItemInv'
    BY ItemInvStep DEF RefInv
  <1>2. ASSUME NEW w \in Workers, NEW o \in Opps, held'[w][o].phase = "merging"
        PROVE  \E p \in Opps \ {o} : held'[w][o].into = {p}
    <2>1. CASE held'[w][o] = held[w][o]
      BY <1>2, <2>1 DEF RefInv, MergeTarget
    <2>2. ASSUME NEW p \in Opps, HandleDecide(w, o, p)
          PROVE  \E q \in Opps \ {o} : held'[w][o].into = {q}
      BY <1>0, <2>2, DecideEffect DEF HandleDecide, Candidate
    <2> QED BY <1>0, <1>2, <2>1, <2>2, MergeStep
  <1>3. MergeTarget'
    BY <1>2 DEF MergeTarget
  <1> QED BY <1>1, <1>3 DEF RefInv
-----------------------------------------------------------------------------
(* The life cycle seen through one row of the table.                        *)

(* Nothing the life cycle looks at has changed.                             *)
LEMMA Stutter ==
  ASSUME row \in [Opps -> Rows], row' \in [Opps -> Rows], updates' = updates,
         \A o \in Opps : row'[o].state = row[o].state /\ row'[o].merged = row[o].merged
  PROVE  UNCHANGED LC!lvars
  BY DEF LC!lvars

LEMMA AdvanceMaps ==
  ASSUME RefInv, NEW w \in Workers, NEW o \in Opps, Holds(w, o),
         Matches(row[o], held[w][o], StageOf[w]),
         Write(o, AdvanceState(row[o], StageOf[w])), updates' = updates
  PROVE  LC!LAdvance(o)
  <1>0. row \in [Opps -> Rows] /\ row[o] \in Rows
    BY DEF RefInv, ItemInv, TableInv, Tracked, TypeOK
  <1>1. row[o].state = StageOf[w] /\ StageOf[w] \in WorkStates /\ ~row[o].merged
    <2>1. ItemCurrent
      BY DEF RefInv, ItemInv
    <2> QED BY <2>1, StageTyped DEF ItemCurrent, Matches
  <1> DEFINE n == AdvanceState(row[o], StageOf[w])
  <1>2. n \in Rows
    BY <1>0, <1>1, RowOps
  <1>3. n.state = HappyPath[row[o].state] /\ n.merged = row[o].merged
    BY <1>0, <1>1 DEF AdvanceState, Rows
  <1>4. Write(o, n)
    OBVIOUS
  <1> HIDE DEF n
  <1>5. /\ row' \in [Opps -> Rows]
        /\ row'[o].state = HappyPath[row[o].state] /\ row'[o].merged = row[o].merged
        /\ \A p \in Opps : p # o => row'[p] = row[p]
    BY <1>0, <1>2, <1>3, <1>4, WriteEffect, TriggerRow
  <1> QED BY <1>0, <1>1, <1>5, SameStates DEF LC!LAdvance

LEMMA FailMaps ==
  ASSUME RefInv, NEW o \in Opps, Write(o, FailAttempt(row[o])), updates' = updates
  PROVE  LC!LPark(o) \/ UNCHANGED LC!lvars
  <1>0. row \in [Opps -> Rows] /\ row[o] \in Rows /\ ReadyClean
    BY DEF RefInv, ItemInv, TableInv, Tracked, TypeOK
  <1> DEFINE n == FailAttempt(row[o])
  <1>w. "parsed" \in WorkStates
    BY DEF WorkStates
  <1>2. n \in Rows
    BY <1>0, <1>w, RowOps
  <1>3. /\ n.state = IF row[o].attempts >= MaxAttempts THEN "failed_permanent" ELSE row[o].state
        /\ n.merged = row[o].merged
    BY <1>0 DEF FailAttempt, Rows
  <1>4. Write(o, n)
    OBVIOUS
  <1> HIDE DEF n
  <1>5. /\ row' \in [Opps -> Rows]
        /\ row'[o].state = n.state /\ row'[o].merged = row[o].merged
        /\ \A p \in Opps : p # o => row'[p] = row[p]
    BY <1>0, <1>2, <1>3, <1>4, WriteEffect, TriggerRow
  <1>6. CASE row[o].state \in WorkStates /\ n.state # row[o].state
    BY <1>0, <1>3, <1>5, <1>6, SameStates DEF LC!LPark
  <1>7. CASE n.state = row[o].state
    BY <1>0, <1>5, <1>7, Stutter
  <1>8. CASE row[o].state \notin WorkStates
    <2>1. row[o].state \in {"ready", "failed_permanent"}
      BY <1>0, <1>8 DEF Rows, States, Terminal
    <2>2. row[o].state = "ready" => ~(row[o].attempts >= MaxAttempts)
      BY <1>0, AttemptsAssumption DEF ReadyClean
    <2> QED BY <1>3, <1>7, <2>1, <2>2
  <1> QED BY <1>6, <1>7, <1>8

LEMMA MergeMaps ==
  ASSUME RefInv, NEW o \in Opps, ~row[o].merged, \E p \in Opps \ {o} : ~row[p].merged,
         Write(o, MarkMerged(row[o])), updates' = updates
  PROVE  LC!LMerge(o)
  <1>0. row \in [Opps -> Rows] /\ row[o] \in Rows
    BY DEF RefInv, ItemInv, TableInv, Tracked, TypeOK
  <1> DEFINE n == MarkMerged(row[o])
  <1>w. "parsed" \in WorkStates
    BY DEF WorkStates
  <1>2. n \in Rows
    BY <1>0, <1>w, RowOps
  <1>3. n.state = row[o].state /\ n.merged
    BY <1>0 DEF MarkMerged, Rows
  <1>4. Write(o, n)
    OBVIOUS
  <1> HIDE DEF n
  <1>5. /\ row' \in [Opps -> Rows]
        /\ row'[o].state = row[o].state /\ row'[o].merged
        /\ \A p \in Opps : p # o => row'[p] = row[p]
    BY <1>0, <1>2, <1>3, <1>4, WriteEffect, TriggerRow
  <1> QED BY <1>0, <1>5 DEF LC!LMerge

LEMMA IngestMaps ==
  ASSUME RefInv, NEW o \in Opps, IngestUpdate(o)
  PROVE  LC!LReingest(o)
  <1>0. row \in [Opps -> Rows] /\ row[o] \in Rows
    BY DEF RefInv, ItemInv, TableInv, Tracked, TypeOK
  <1> DEFINE n == UpdateOpportunityFromPosting(row[o])
  <1>w. "parsed" \in WorkStates
    BY DEF WorkStates
  <1>2. n \in Rows
    BY <1>0, <1>w, RowOps
  <1>3. n.state = "parsed" /\ n.merged = row[o].merged
    BY <1>0 DEF UpdateOpportunityFromPosting, Rows
  <1>4. Write(o, n)
    BY DEF IngestUpdate
  <1> HIDE DEF n
  <1>5. /\ row' \in [Opps -> Rows]
        /\ row'[o].state = "parsed" /\ row'[o].merged = row[o].merged
        /\ \A p \in Opps : p # o => row'[p] = row[p]
    BY <1>0, <1>2, <1>3, <1>4, WriteEffect, TriggerRow
  <1> QED BY <1>0, <1>5 DEF LC!LReingest, IngestUpdate
-----------------------------------------------------------------------------
LEMMA LifecycleInit == Init => LC!LInit
  <1> SUFFICES ASSUME Init PROVE LC!LInit
    OBVIOUS
  <1>1. \A o \in Opps : row[o].state \in WorkStates /\ row[o].merged = FALSE
    BY FreshRow
  <1>2. updates = [o \in Opps |-> 0]
    BY DEF Init
  <1> QED BY <1>1, <1>2, SameStates DEF LC!LInit

LEMMA LifecycleStep == RefInv /\ [Next]_vars => [LC!LNext]_(LC!lvars)
  <1> SUFFICES ASSUME RefInv, [Next]_vars PROVE LC!LNext \/ UNCHANGED LC!lvars
    OBVIOUS
  <1> USE DEF Env
  <1>0. row \in [Opps -> Rows] /\ row' \in [Opps -> Rows] /\ TypeOK
    BY TypeStep DEF RefInv, ItemInv, TableInv, Tracked, TypeOK
  <1> DEFINE Result == LC!LNext \/ UNCHANGED LC!lvars
             Same == /\ updates' = updates
                     /\ \A o \in Opps : /\ row'[o].state = row[o].state
                                       /\ row'[o].merged = row[o].merged
  <1>s. ASSUME Same PROVE Result
    BY <1>0, <1>s, Stutter
  <1>u. ASSUME row' = row, updates' = updates PROVE Result
    BY <1>u, <1>s
  <1>l. \A o \in Opps : /\ LC!LAdvance(o) => Result
                        /\ LC!LPark(o) => Result
                        /\ LC!LMerge(o) => Result
                        /\ LC!LReingest(o) => Result
    BY DEF LC!LNext
  <1> HIDE DEF Result
  <1>1. ASSUME NEW w \in Workers, NEW o \in Opps, Handle(w, o) PROVE Result
    <2>1. CASE HandleWrite(w, o) \/ HandleWriteReplyLost(w, o)
      <3>1. /\ Holds(w, o) /\ Matches(row[o], held[w][o], StageOf[w])
            /\ Write(o, AdvanceState(row[o], StageOf[w])) /\ updates' = updates
        BY <2>1 DEF HandleWrite, HandleWriteReplyLost, At, Holds
      <3>2. LC!LAdvance(o)
        BY <3>1, AdvanceMaps
      <3> QED BY <3>2, <1>l
    <2>2. CASE HandleMerge(w, o) \/ HandleMergeReplyLost(w, o)
      <3>1. /\ held[w][o].phase = "merging" /\ BothUnmerged(o, held[w][o].into)
            /\ Write(o, MarkMerged(row[o])) /\ updates' = updates
        BY <2>2 DEF HandleMerge, HandleMergeReplyLost, At
      <3>2. ~row[o].merged /\ \E p \in Opps \ {o} : ~row[p].merged
        BY <3>1 DEF BothUnmerged, RefInv, MergeTarget
      <3> QED BY <3>1, <3>2, <1>l, MergeMaps
    <2>3. CASE \/ HandleConflict(w, o) \/ (\E p \in Opps : HandleDecide(w, o, p))
               \/ HandleMergeYield(w, o) \/ HandleNil(w, o) \/ HandleErr(w, o)
      <3>1. row' = row /\ updates' = updates
        BY <2>3 DEF HandleConflict, HandleDecide, HandleMergeYield, HandleNil, HandleErr
      <3> QED BY <3>1, <1>u
    <2> QED BY <1>1, <2>1, <2>2, <2>3 DEF Handle
  <1>2. ASSUME NEW w \in Workers, NEW o \in Opps, Settle(w, o) PROVE Result
    <2>1. ASSUME QueueAdvance(w, o), Holds(w, o) PROVE Result
      <3>1. updates' = updates
        BY <2>1 DEF QueueAdvance
      <3>2. CASE Matches(row[o], held[w][o], StageOf[w])
        BY <2>1, <3>1, <3>2, <1>l, AdvanceMaps DEF QueueAdvance
      <3>3. CASE ~Matches(row[o], held[w][o], StageOf[w])
        BY <2>1, <3>1, <3>3, <1>u DEF QueueAdvance
      <3> QED BY <3>2, <3>3
    <2>2. CASE SettleOk(w, o) \/ SettleDegrade(w, o)
      <3>1. QueueAdvance(w, o) /\ Holds(w, o)
        BY <2>2 DEF SettleOk, SettleDegrade, At, Holds
      <3> QED BY <3>1, <2>1
    <2>3. CASE SettleFail(w, o)
      <3>1. LC!LPark(o) \/ UNCHANGED LC!lvars
        BY <2>3, FailMaps DEF SettleFail
      <3> QED BY <3>1, <1>l DEF Result
    <2>4. CASE SettleLost(w, o)
      BY <2>4, <1>u DEF SettleLost
    <2> QED BY <1>2, <2>2, <2>3, <2>4 DEF Settle
  <1>3. ASSUME NEW w \in Workers, NEW S \in SUBSET Opps, Claim(w, S) \/ ClaimLost(w, S)
        PROVE  Result
    <2>1. \A o \in Opps : row'[o] = row[o] \/ row'[o] = ClaimBatch(row[o])
      BY <1>3, <1>0 DEF Claim, ClaimLost, ClaimRows
    <2>2. \A o \in Opps : /\ ClaimBatch(row[o]).state = row[o].state
                          /\ ClaimBatch(row[o]).merged = row[o].merged
      BY <1>0 DEF ClaimBatch, Rows
    <2>3. updates' = updates
      BY <1>3 DEF Claim, ClaimLost
    <2> QED BY <2>1, <2>2, <2>3, <1>s
  <1>4. ASSUME NEW w \in Workers, Exit(w) PROVE Result
    <2>1. \A o \in Opps : row'[o] = row[o] \/ row'[o] = ReleaseClaim(row[o])
      BY <1>4, <1>0 DEF Exit
    <2>2. \A o \in Opps : /\ ReleaseClaim(row[o]).state = row[o].state
                          /\ ReleaseClaim(row[o]).merged = row[o].merged
      BY <1>0 DEF ReleaseClaim, Rows
    <2>3. updates' = updates
      BY <1>4 DEF Exit
    <2> QED BY <2>1, <2>2, <2>3, <1>s
  <1>5. ASSUME SweepRequeue PROVE Result
    <2>1. \A o \in Opps : row'[o] = row[o] \/ row'[o] = RequeueStranded(row[o])
      BY <1>5, <1>0 DEF SweepRequeue
    <2>2. \A o \in Opps : /\ RequeueStranded(row[o]).state = row[o].state
                          /\ RequeueStranded(row[o]).merged = row[o].merged
      BY <1>0 DEF RequeueStranded, Rows
    <2>3. updates' = updates
      BY <1>5 DEF SweepRequeue
    <2> QED BY <2>1, <2>2, <2>3, <1>s
  <1>6. ASSUME NEW o \in Opps, DedupeSweep(o) PROVE Result
    <2>1. ~row[o].merged /\ \E p \in Opps \ {o} : ~row[p].merged
      BY <1>6 DEF DedupeSweep, Candidate
    <2> QED BY <1>6, <2>1, <1>l, MergeMaps DEF DedupeSweep
  <1>7. ASSUME NEW o \in Opps, LeaseLapse(o) \/ BackoffElapse(o) \/ Age(o) PROVE Result
    <2>1. Same
      BY <1>0, <1>7 DEF LeaseLapse, BackoffElapse, Age, Rows
    <2> QED BY <2>1, <1>s
  <1>8. ASSUME NEW o \in Opps, IngestUpdate(o) PROVE Result
    BY <1>8, <1>l, IngestMaps
  <1>9. Result
    BY <1>1, <1>2, <1>3, <1>4, <1>5, <1>6, <1>7, <1>8, <1>u
       DEF Next, vars, Start, Cancel, Crash, Restart, SweepSelect, SweepLost
  <1> QED BY <1>9 DEF Result

(* The queue implements the life cycle: under every interleaving of         *)
(* workers, sweepers, ingestion, merges, crashes and lost replies, a        *)
(* posting moves one stage at a time, leaves 'ready' and                    *)
(* 'failed_permanent' only for new content, is merged only into a canonical *)
(* posting and never advances after that.                                   *)
THEOREM QueueImplementsLifecycle == Spec => ImplementsLifecycle
  BY LifecycleInit, LifecycleStep, RefInit, RefStep, PTL DEF Spec, ImplementsLifecycle, LC!LSpec
=============================================================================
