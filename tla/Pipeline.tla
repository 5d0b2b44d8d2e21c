------------------------------ MODULE Pipeline ------------------------------
(***************************************************************************)
(* The work queue of internal/pipeline on the opportunity table: workers   *)
(* that claim batches of rows under a lease, run a stage handler on each   *)
(* row and settle it with version-guarded statements; a sweeper that       *)
(* requeues stranded rows; and the two writers outside the queue that      *)
(* touch the same rows, ingestion (new content) and the dedupe sweeper     *)
(* (merges).                                                               *)
(*                                                                         *)
(* Every SQL statement is one operator on a row record and runs atomically.*)
(* Steps of Go code between two statements interleave freely. Time is      *)
(* abstracted to what the statements compare with now(): whether a lease   *)
(* has run out, whether a backoff has elapsed, and whether a row has been  *)
(* in its state longer than SweepAfter.                                    *)
(***************************************************************************)
EXTENDS Integers, FiniteSets, PipelineStates

CONSTANTS
  Opps,               \* the canonical postings (rows of opportunity)
  Workers,            \* the pipeline.Worker instances of all processes
  StageOf,            \* Workers -> WorkStates: Stage.State of each worker
  Entry,              \* states the rows are in when observation starts
  MaxAttempts,        \* Config.MaxAttempts
  BatchSize,          \* Config.BatchSize
  Concurrency,        \* Stage.Concurrency
  MaxUpdates,         \* bound: content changes per row
  MaxFaults           \* bound: crashes, shutdowns and failed statements

ASSUME StageAssumption == StageOf \in [Workers -> WorkStates]
ASSUME EntryAssumption == Entry \subseteq WorkStates
ASSUME AttemptsAssumption == MaxAttempts \in Nat \ {0}
ASSUME BatchAssumption == BatchSize \in Nat \ {0}
ASSUME ConcurrencyAssumption == Concurrency \in Nat \ {0}
ASSUME BoundAssumption == MaxUpdates \in Nat /\ MaxFaults \in Nat

VARIABLES
  row,        \* Opps -> Rows: the opportunity table
  held,       \* Workers -> Opps -> Items: what each worker has in memory
  inFlight,   \* Workers -> SUBSET Opps: Worker.inFlight
  status,     \* Workers -> Statuses
  sweeping,   \* ids selected by the sweep in progress ({} = none)
  swept,      \* <<o, p>>: swept_at of o is before swept_at of p, NULL first
  updates,    \* Opps -> Nat: content changes so far
  faults      \* faults so far

vars == <<row, held, inFlight, status, sweeping, swept, updates, faults>>

Rows == [state    : States,
         version  : Nat,
         attempts : Nat,
         lease    : {"none", "live", "expired"},   \* lease_until
         due      : BOOLEAN,                       \* next_attempt_at <= now()
         aged     : BOOLEAN,                       \* past SweepAfter in state
         keyed    : BOOLEAN,                       \* block_key set
         merged   : BOOLEAN]                       \* merged_into set

(* A claimed Item (its State is StageOf[w]) and where handleOne is with it:  *)
(* "claimed" waits for a goroutine, "running" is in the handler, "merging"   *)
(* has chosen the duplicate to merge into, "ok" and "err" are the handler's  *)
(* nil and error results, not yet settled. The edition is a history: the     *)
(* content changes the row had when it was claimed.                          *)
Items == [phase    : {"none", "claimed", "running", "merging", "ok", "err"},
          version  : Nat,
          attempts : Nat,
          into     : SUBSET Opps,
          edition  : Nat]
NoItem == [phase |-> "none", version |-> 0, attempts |-> 0, into |-> {}, edition |-> 0]

Statuses == {"running", "draining", "stopped", "crashed"}

(* The handlers runWorkers installs, by the state they are claimed in.       *)
Passthrough == {"discovered", "fetched", "enriched", "embedded"}
Writing == {"parsed", "deduped"}      \* normalizer, enricher: own write
Merging == {"normalized"}             \* deduper

TypeOK ==
  /\ row \in [Opps -> Rows]
  /\ held \in [Workers -> [Opps -> Items]]
  /\ inFlight \in [Workers -> SUBSET Opps]
  /\ status \in [Workers -> Statuses]
  /\ sweeping \in SUBSET Opps
  /\ swept \in SUBSET (Opps \X Opps)
  /\ updates \in [Opps -> Nat]
  /\ faults \in Nat
-----------------------------------------------------------------------------
(* The statements of pipeline.sql, as functions of the row they update. An  *)
(* operator X_Y is X with a fault in it: the runs show that the properties  *)
(* below notice it.                                                         *)

(* The trigger opportunity_state_entered_at: a new state restarts the       *)
(* stranding clock, any other write leaves it alone.                        *)
SetStateEnteredAt(old, new) ==
  IF new.state # old.state THEN [new EXCEPT !.aged = FALSE] ELSE new

Claimable(r, s) ==
  /\ r.state = s
  /\ ~r.merged
  /\ r.due
  /\ r.lease # "live"

ClaimBatch_NoCount(r) == [r EXCEPT !.lease = "live"]
ClaimBatch(r) == [r EXCEPT !.lease = "live", !.attempts = @ + 1]

(* The guard that AdvanceState, ApplyNormalization and                      *)
(* AttachExtractionToOpportunity share: nobody wrote since the claim.       *)
Matches_VersionOnly(r, it, s) == r.version = it.version
Matches_StateOnly(r, it, s) == r.state = s
Matches(r, it, s) == r.version = it.version /\ r.state = s

(* ... and their common effect on the queue's columns. Leaving 'parsed' is  *)
(* ApplyNormalization, which also sets the block key.                       *)
AdvanceState_NoBump(r, s) ==
  [r EXCEPT !.state = HappyPath[s], !.lease = "none", !.attempts = 0,
            !.due = TRUE, !.keyed = IF s = "parsed" THEN TRUE ELSE @]
AdvanceState(r, s) ==
  [r EXCEPT !.state = HappyPath[s], !.version = @ + 1, !.lease = "none",
            !.attempts = 0, !.due = TRUE, !.keyed = IF s = "parsed" THEN TRUE ELSE @]

FailAttempt_Early(r) ==
  [r EXCEPT !.lease = "none", !.due = FALSE,
            !.state = IF r.attempts + 1 >= MaxAttempts THEN "failed_permanent" ELSE @]
FailAttempt(r) ==
  [r EXCEPT !.lease = "none", !.due = FALSE,
            !.state = IF r.attempts >= MaxAttempts THEN "failed_permanent" ELSE @]

ReleaseClaim(r) ==
  IF r.lease = "none" THEN r
  ELSE [r EXCEPT !.lease = "none",
                 !.attempts = IF r.attempts > 0 THEN r.attempts - 1 ELSE 0]

SweepStranded(r) ==
  /\ r.state \notin Terminal
  /\ ~r.merged
  /\ r.lease # "live"
  /\ r.aged

RequeueStranded(r) == [r EXCEPT !.due = TRUE, !.lease = "none"]

MarkMerged_NoBump(r) == [r EXCEPT !.merged = TRUE]
MarkMerged(r) == [r EXCEPT !.merged = TRUE, !.version = @ + 1]

UpdateOpportunityFromPosting(r) ==
  [r EXCEPT !.state = "parsed", !.due = TRUE, !.attempts = 0, !.version = @ + 1]

Write(o, new) == row' = [row EXCEPT ![o] = SetStateEnteredAt(@, new)]

(* swept_at of the rows of S becomes now(), later than every other.         *)
SweptNow_NoCursor(S) == swept
SweptNow(S) ==
  {p \in Opps \X Opps : \/ p[1] \notin S /\ p[2] \in S
                        \/ p \in swept /\ p[1] \notin S /\ p[2] \notin S}
-----------------------------------------------------------------------------
Holds(w, o) == held[w][o].phase # "none"
Idle(w) == \A o \in Opps : ~Holds(w, o)
Alive(w) == status[w] \in {"running", "draining"}
Started(w) == {o \in Opps : held[w][o].phase \in {"running", "merging", "ok", "err"}}

At(w, o, phase) == Alive(w) /\ held[w][o].phase = phase
Goto(w, o, phase) ==
  /\ held' = [held EXCEPT ![w][o].phase = phase]
  /\ UNCHANGED inFlight

(* handleOne returns: the goroutine's deferred untrack runs.                *)
Finish(w, o) ==
  /\ held' = [held EXCEPT ![w][o] = NoItem]
  /\ inFlight' = [inFlight EXCEPT ![w] = @ \ {o}]

Fault == faults < MaxFaults /\ faults' = faults + 1

Env == <<status, sweeping, swept, updates>>   \* what a worker's step leaves alone

Init ==
  /\ row \in [Opps -> {[state |-> s, version |-> 0, attempts |-> 0, lease |-> "none",
                        due |-> TRUE, aged |-> FALSE, merged |-> FALSE,
                        keyed |-> s \notin {"discovered", "fetched", "parsed"}] :
                          s \in Entry}]
  /\ held = [w \in Workers |-> [o \in Opps |-> NoItem]]
  /\ inFlight = [w \in Workers |-> {}]
  /\ status = [w \in Workers |-> "running"]
  /\ sweeping = {}
  /\ swept = {}
  /\ updates = [o \in Opps |-> 0]
  /\ faults = 0
-----------------------------------------------------------------------------
(* Worker.Run: claim a batch. FOR UPDATE SKIP LOCKED may pass over any row  *)
(* another transaction is writing, so any part of the claimable rows may    *)
(* come back. The next claim waits until the whole batch is processed.      *)
ClaimRows(w, S) ==
  /\ status[w] = "running"
  /\ Idle(w)
  /\ S # {} /\ Cardinality(S) <= BatchSize
  /\ \A o \in S : Claimable(row[o], StageOf[w])
  /\ row' = [o \in Opps |-> IF o \in S THEN ClaimBatch(row[o]) ELSE row[o]]

Claim(w, S) ==
  /\ ClaimRows(w, S)
  /\ held' = [held EXCEPT ![w] =
       [o \in Opps |-> IF o \in S
                       THEN [phase |-> "claimed", version |-> row[o].version,
                             attempts |-> row[o].attempts + 1, into |-> {},
                             edition |-> updates[o]]
                       ELSE NoItem]]
  /\ UNCHANGED <<inFlight, faults, Env>>

(* The claim commits but its reply is lost: leased rows that nobody holds.  *)
ClaimLost(w, S) ==
  /\ ClaimRows(w, S)
  /\ Fault
  /\ UNCHANGED <<held, inFlight, Env>>

(* process: track the id and give it one of Concurrency goroutines. track   *)
(* runs just before the wait for a goroutine; nothing reads it meanwhile.   *)
Start(w, o) ==
  /\ At(w, o, "claimed")
  /\ Cardinality(Started(w)) < Concurrency
  /\ held' = [held EXCEPT ![w][o].phase = "running"]
  /\ inFlight' = [inFlight EXCEPT ![w] = @ \cup {o}]
  /\ UNCHANGED <<row, faults, Env>>

(* Normalizer.Handle and Enricher.Handle reach their guarded statement: the *)
(* row advances and the handler returns ErrHandled ...                      *)
HandleWrite(w, o) ==
  /\ At(w, o, "running") /\ StageOf[w] \in Writing
  /\ Matches(row[o], held[w][o], StageOf[w])
  /\ Write(o, AdvanceState(row[o], StageOf[w]))
  /\ Finish(w, o)
  /\ UNCHANGED <<faults, Env>>

(* ... or the statement commits and its reply is lost: an error.            *)
HandleWriteReplyLost(w, o) ==
  /\ At(w, o, "running") /\ StageOf[w] \in Writing
  /\ Matches(row[o], held[w][o], StageOf[w])
  /\ Write(o, AdvanceState(row[o], StageOf[w]))
  /\ Goto(w, o, "err")
  /\ Fault
  /\ UNCHANGED Env

(* ... or it matches no row, and the handler returns ErrVersionConflict.    *)
HandleConflict(w, o) ==
  /\ At(w, o, "running") /\ StageOf[w] \in Writing
  /\ ~Matches(row[o], held[w][o], StageOf[w])
  /\ Finish(w, o)
  /\ UNCHANGED <<row, faults, Env>>

(* Deduper.Handle reads its block and decides for a candidate p ...         *)
Candidate(o, p) == p # o /\ row[o].keyed /\ row[p].keyed /\ ~row[p].merged

HandleDecide(w, o, p) ==
  /\ At(w, o, "running") /\ StageOf[w] \in Merging
  /\ Candidate(o, p)
  /\ held' = [held EXCEPT ![w][o].phase = "merging", ![w][o].into = {p}]
  /\ UNCHANGED <<row, inFlight, faults, Env>>

(* ... then merges in a transaction that rechecks both sides under the      *)
(* block lock. The row's state and version are not rechecked.               *)
BothUnmerged(o, into) == ~row[o].merged /\ \A p \in into : ~row[p].merged

HandleMerge(w, o) ==
  /\ At(w, o, "merging")
  /\ BothUnmerged(o, held[w][o].into)
  /\ Write(o, MarkMerged(row[o]))
  /\ Finish(w, o)
  /\ UNCHANGED <<faults, Env>>

HandleMergeReplyLost(w, o) ==
  /\ At(w, o, "merging")
  /\ BothUnmerged(o, held[w][o].into)
  /\ Write(o, MarkMerged(row[o]))
  /\ Goto(w, o, "err")
  /\ Fault
  /\ UNCHANGED Env

(* The recheck finds either side merged meanwhile: ErrVersionConflict.      *)
HandleMergeYield(w, o) ==
  /\ At(w, o, "merging")
  /\ ~BothUnmerged(o, held[w][o].into)
  /\ Finish(w, o)
  /\ UNCHANGED <<row, faults, Env>>

(* A pass-through handler, or a deduper that found no duplicate.            *)
HandleNil(w, o) ==
  /\ At(w, o, "running") /\ StageOf[w] \in Passthrough \cup Merging
  /\ Goto(w, o, "ok")
  /\ UNCHANGED <<row, faults, Env>>

(* A statement or the extraction provider fails, or the handler panics.     *)
HandleErr(w, o) ==
  /\ \/ At(w, o, "running") /\ StageOf[w] \in Writing \cup Merging
     \/ At(w, o, "merging")
  /\ Goto(w, o, "err")
  /\ UNCHANGED <<row, faults, Env>>
-----------------------------------------------------------------------------
(* Queue.Advance: the guarded statement, whether or not it matches a row.   *)
QueueAdvance(w, o) ==
  /\ IF Matches(row[o], held[w][o], StageOf[w])
     THEN Write(o, AdvanceState(row[o], StageOf[w]))
     ELSE UNCHANGED row
  /\ Finish(w, o)
  /\ UNCHANGED <<faults, Env>>

SettleOk(w, o) == At(w, o, "ok") /\ QueueAdvance(w, o)

MustDegrade(w, o) ==
  StageOf[w] \in Degradable /\ held[w][o].attempts >= MaxAttempts

SettleDegrade(w, o) == At(w, o, "err") /\ MustDegrade(w, o) /\ QueueAdvance(w, o)

(* Queue.Fail: FailAttempt is keyed by the id alone.                        *)
SettleFail(w, o) ==
  /\ At(w, o, "err") /\ ~MustDegrade(w, o)
  /\ Write(o, FailAttempt(row[o]))
  /\ Finish(w, o)
  /\ UNCHANGED <<faults, Env>>

(* Advance or Fail cannot reach the database: logged, and the row is left   *)
(* to its lease. With the context cancelled every statement ends this way.  *)
SettleLost(w, o) ==
  /\ At(w, o, "ok") \/ At(w, o, "err")
  /\ IF status[w] = "draining" THEN UNCHANGED faults ELSE Fault
  /\ Finish(w, o)
  /\ UNCHANGED <<row, Env>>
-----------------------------------------------------------------------------
(* The context of the process is cancelled: no more claims.                 *)
Cancel(w) ==
  /\ status[w] = "running"
  /\ status' = [status EXCEPT ![w] = "draining"]
  /\ Fault
  /\ UNCHANGED <<row, held, inFlight, sweeping, swept, updates>>

(* Run returns once process has waited for every goroutine, and the         *)
(* deferred releaseOutstanding releases the ids that are still tracked.     *)
Exit(w) ==
  /\ status[w] = "draining"
  /\ Idle(w)
  /\ status' = [status EXCEPT ![w] = "stopped"]
  /\ row' = [o \in Opps |-> IF o \in inFlight[w] THEN ReleaseClaim(row[o]) ELSE row[o]]
  /\ UNCHANGED <<held, inFlight, sweeping, swept, updates, faults>>

(* The process is killed: its memory is lost and its leases stay.           *)
Crash(w) ==
  /\ Alive(w)
  /\ status' = [status EXCEPT ![w] = "crashed"]
  /\ held' = [held EXCEPT ![w] = [o \in Opps |-> NoItem]]
  /\ inFlight' = [inFlight EXCEPT ![w] = {}]
  /\ Fault
  /\ UNCHANGED <<row, sweeping, swept, updates>>

Restart(w) ==
  /\ status[w] \in {"stopped", "crashed"}
  /\ status' = [status EXCEPT ![w] = "running"]
  /\ inFlight' = [inFlight EXCEPT ![w] = {}]
  /\ UNCHANGED <<row, held, sweeping, swept, updates, faults>>
-----------------------------------------------------------------------------
(* Queue.Sweep: select the rows swept longest ago, never-swept rows first...*)
SweepSelect(S) ==
  LET stranded == {o \in Opps : SweepStranded(row[o])}
  IN /\ sweeping = {}
     /\ S # {} /\ S \subseteq stranded
     /\ \/ Cardinality(S) = BatchSize
        \/ Cardinality(S) < BatchSize /\ S = stranded
     /\ \A o \in S, p \in stranded \ S : <<p, o>> \notin swept
     /\ sweeping' = S
     /\ UNCHANGED <<row, held, inFlight, status, swept, updates, faults>>

(* ... and requeue them in a second statement, keyed by the ids alone.      *)
SweepRequeue ==
  /\ sweeping # {}
  /\ row' = [o \in Opps |-> IF o \in sweeping THEN RequeueStranded(row[o]) ELSE row[o]]
  /\ swept' = SweptNow(sweeping)
  /\ sweeping' = {}
  /\ UNCHANGED <<held, inFlight, status, updates, faults>>

(* The second statement fails or the sweeper dies between the two.          *)
SweepLost ==
  /\ sweeping # {}
  /\ sweeping' = {}
  /\ Fault
  /\ UNCHANGED <<row, held, inFlight, status, swept, updates>>
-----------------------------------------------------------------------------
(* Writers outside the queue.                                               *)

(* Ingestion found new content for the row. The lease is left as it is.     *)
IngestUpdate(o) ==
  /\ updates[o] < MaxUpdates
  /\ updates' = [updates EXCEPT ![o] = @ + 1]
  /\ Write(o, UpdateOpportunityFromPosting(row[o]))
  /\ UNCHANGED <<held, inFlight, status, sweeping, swept, faults>>

(* DedupeSweeper merges the row into another of its block, whatever the     *)
(* states of the two are.                                                   *)
DedupeSweep(o) ==
  /\ ~row[o].merged
  /\ \E p \in Opps : Candidate(o, p)
  /\ Write(o, MarkMerged(row[o]))
  /\ UNCHANGED <<held, inFlight, faults, Env>>

(* The queue is done with the row.                                          *)
Settled(o) == row[o].state \in Terminal \/ row[o].merged

(* Time passes.                                                             *)
LeaseLapse(o) ==
  /\ row[o].lease = "live"
  /\ row' = [row EXCEPT ![o].lease = "expired"]
  /\ UNCHANGED <<held, inFlight, faults, Env>>

BackoffElapse(o) ==
  /\ ~row[o].due
  /\ row' = [row EXCEPT ![o].due = TRUE]
  /\ UNCHANGED <<held, inFlight, faults, Env>>

(* (only the sweeper looks, and never at a settled row)                     *)
Age(o) ==
  /\ ~row[o].aged /\ ~Settled(o)
  /\ row' = [row EXCEPT ![o].aged = TRUE]
  /\ UNCHANGED <<held, inFlight, faults, Env>>
-----------------------------------------------------------------------------
Handle(w, o) ==
  \/ HandleWrite(w, o) \/ HandleWriteReplyLost(w, o) \/ HandleConflict(w, o)
  \/ \E p \in Opps : HandleDecide(w, o, p)
  \/ HandleMerge(w, o) \/ HandleMergeReplyLost(w, o) \/ HandleMergeYield(w, o)
  \/ HandleNil(w, o) \/ HandleErr(w, o)

Settle(w, o) ==
  SettleOk(w, o) \/ SettleDegrade(w, o) \/ SettleFail(w, o) \/ SettleLost(w, o)

Next ==
  \/ \E w \in Workers : \E S \in SUBSET Opps : Claim(w, S) \/ ClaimLost(w, S)
  \/ \E w \in Workers, o \in Opps : Start(w, o) \/ Handle(w, o) \/ Settle(w, o)
  \/ \E w \in Workers : Cancel(w) \/ Exit(w) \/ Crash(w) \/ Restart(w)
  \/ \E S \in SUBSET Opps : SweepSelect(S)
  \/ SweepRequeue
  \/ SweepLost
  \/ \E o \in Opps : IngestUpdate(o) \/ DedupeSweep(o)
  \/ \E o \in Opps : LeaseLapse(o) \/ BackoffElapse(o) \/ Age(o)

Spec == Init /\ [][Next]_vars

(* Goroutines are scheduled, timers fire, tickers tick, and a process that  *)
(* stopped is started again; nothing makes a fault, a content change or a   *)
(* merge happen.                                                            *)
Fairness ==
  /\ \A w \in Workers :
       /\ WF_vars(\E S \in SUBSET Opps : Claim(w, S))
       /\ WF_vars(Exit(w))
       /\ WF_vars(Restart(w))
       /\ \A o \in Opps : /\ WF_vars(Start(w, o))
                          /\ WF_vars(Handle(w, o))
                          /\ WF_vars(Settle(w, o))
  /\ WF_vars(\E S \in SUBSET Opps : SweepSelect(S))
  /\ WF_vars(SweepRequeue)
  /\ \A o \in Opps : WF_vars(LeaseLapse(o)) /\ WF_vars(BackoffElapse(o)) /\ WF_vars(Age(o))

FairSpec == Spec /\ Fairness
-----------------------------------------------------------------------------
(* Properties.                                                              *)

(* An item whose version is still the row's version describes the row: the  *)
(* row is in the state it was claimed in (or was parked meanwhile, which    *)
(* does not bump the version), its attempt is still counted, it has not     *)
(* been merged away and its content is the one that was claimed. This is    *)
(* what makes the version guard of AdvanceState enough to keep a late       *)
(* worker from writing over somebody else's work.                           *)
ItemCurrent ==
  \A w \in Workers, o \in Opps :
    Holds(w, o) =>
      /\ held[w][o].version <= row[o].version
      /\ held[w][o].version = row[o].version =>
           /\ row[o].state \in {StageOf[w], "failed_permanent"}
           /\ row[o].attempts > 0
           /\ ~row[o].merged
           /\ held[w][o].edition = updates[o]

(* Every advance is earned: the worker that moves a row to its next stage   *)
(* has claimed it in its present state, with its present content, and that  *)
(* attempt is still counted. A worker that comes back with the result for   *)
(* old content never advances the row, even if the new content has          *)
(* meanwhile reached the same state and is held by another worker.          *)
AdvanceEarned ==
  [][\A o \in Opps :
       /\ row[o].state \in WorkStates
       /\ row'[o].state = HappyPath[row[o].state]
       /\ updates' = updates
       => \E w \in Workers :
            /\ Holds(w, o) /\ held'[w][o] # held[w][o]    \* the step is w's
            /\ StageOf[w] = row[o].state /\ held[w][o].edition = updates[o]
            /\ row[o].attempts > 0]_vars

(* A published row carries no attempts and no lease, so a failure that a    *)
(* late worker records against it (FailAttempt asks for nothing but the id) *)
(* cannot park it.                                                          *)
ReadyClean ==
  \A o \in Opps : row[o].state = "ready" => row[o].attempts = 0 /\ row[o].lease = "none"

(* A row is parked only with its attempts spent, and stays that way: no     *)
(* worker holds a lease on it and nothing lowers its count.                 *)
ParkedSpent ==
  \A o \in Opps : row[o].state = "failed_permanent" =>
                    row[o].attempts >= MaxAttempts /\ row[o].lease = "none"

(* Worker.inFlight never outlives the goroutines: every tracked id is an    *)
(* item that handleOne has not finished.                                    *)
TrackedIsHeld == \A w \in Workers : inFlight[w] \subseteq Started(w)

(* The queue implements the life cycle: whatever workers, sweepers, crashes *)
(* and late statements do, a row moves one stage at a time, leaves 'ready'  *)
(* and 'failed_permanent' only because its content changed, and does not    *)
(* advance once it is merged.                                               *)
LC == INSTANCE Lifecycle WITH
        stage   <- [o \in Opps |-> row[o].state],
        gone    <- {o \in Opps : row[o].merged},
        edition <- updates

ImplementsLifecycle == LC!LSpec

(* Every row moves on: it does not stay for ever in a state that a worker   *)
(* serves. No lost reply, crash, shutdown, stolen lease or version conflict *)
(* strands it, and no stage livelocks on it. (Where all states are served,  *)
(* every row ends up published, parked or merged away.)                     *)
Served(s) == \E w \in Workers : StageOf[w] = s
EveryRowMovesOn == \A o \in Opps : []<>(Settled(o) \/ ~Served(row[o].state))

(* The sweeper visits every stranded row: with more of them than one batch  *)
(* holds, the head of the backlog does not starve the tail.                 *)
SweepReachesAll == \A o \in Opps : []<>(~SweepStranded(row[o]) \/ o \in sweeping)
=============================================================================
