------------------------------- MODULE Ingest -------------------------------
(***************************************************************************)
(* Source polling of internal/ingest: runners that claim due sources under *)
(* a lease, fetch a board with a conditional GET, upsert each listed       *)
(* posting in a transaction of its own, count the misses of the postings   *)
(* that were not listed, close those missed MaxMisses times, and save the  *)
(* cursor; operators that poll a source by hand; and the dedupe merges     *)
(* that move source rows between opportunities meanwhile.                  *)
(*                                                                         *)
(* A document is a board's content: for each job the version of its text,  *)
(* 0 where the job is not listed. A page is a document with the revision   *)
(* of its board, and stands for the ETag sent with it: a conditional GET   *)
(* is not modified exactly when the board is at the page of the cursor.    *)
(* With ETagsRecur a board that returns to an old document returns to its  *)
(* ETag, as digests of the body do.                                        *)
(* Every SQL statement is atomic, and so is what follows the read of the   *)
(* source row in an upsert's transaction.                                  *)
(***************************************************************************)
EXTENDS Integers, FiniteSets, Functions

CONSTANTS
  Sources,            \* the registered boards
  Jobs,               \* ats_job_id, which is also source_job_id
  Lists,              \* Sources -> SUBSET Jobs: what a board may list
  Conditional,        \* SUBSET Sources: boards that send an ETag
  ETagsRecur,         \* TRUE: the same document always has the same ETag
  Runners,            \* the ingest.Runner of each worker process
  Operators,          \* one-shot processes that call RunOnce
  Duplicates,         \* pairs of postings that dedupe may merge
  Batch,              \* Runner.Batch
  MaxMisses,          \* MaxConsecutiveMisses
  LeaseOutlivesPoll,  \* TRUE: no lease runs out while its runner is at it
  MaxText,            \* bound: versions of a posting's text
  MaxChanges,         \* bound: changes of each board
  Faults,             \* the kinds of fault a run has: see FaultKinds
  MaxFaults           \* bound: faults in all

FaultKinds == {"fetch", "upsert", "statement", "crash"}
Pollers == Runners \cup Operators
Postings == Sources \X Jobs
Texts == 0..MaxText
Docs == [Jobs -> Texts]
Pages == [doc : Docs, rev : Nat]

ASSUME ListsAssumption == Jobs # {} /\ Lists \in [Sources -> SUBSET Jobs]
ASSUME FiniteAssumption == IsFiniteSet(Sources) /\ IsFiniteSet(Jobs)
ASSUME ConditionalAssumption == Conditional \subseteq Sources /\ ETagsRecur \in BOOLEAN
ASSUME PollersAssumption == Runners \cap Operators = {}
ASSUME DuplicatesAssumption == Duplicates \subseteq Postings \X Postings
ASSUME PollAssumption == /\ Batch \in Nat \ {0} /\ MaxMisses \in Nat \ {0}
                         /\ LeaseOutlivesPoll \in BOOLEAN
ASSUME FaultsAssumption == Faults \subseteq FaultKinds
ASSUME BoundsAssumption == MaxText \in Nat /\ MaxChanges \in Nat /\ MaxFaults \in Nat

VARIABLES
  board,    \* Sources -> Docs: what each board lists
  sched,    \* Sources -> Scheds: source_schedule
  active,   \* Sources -> BOOLEAN: source.status = 'active'
  opp,      \* Postings -> Opps: opportunity, by the posting that created it
  link,     \* Postings -> Links: opportunity_source
  poll,     \* Pollers -> Sources -> Polls: the polls in memory
  unseen,   \* Postings -> Nat: fetches without it since it was recorded seen
  changes,  \* Sources -> Nat
  faults

vars == <<board, sched, active, opp, link, poll, unseen, changes, faults>>

Scheds == [cursor : SUBSET Pages,             \* {}: no ETag to send
           due    : BOOLEAN,                  \* next_run_at <= now()
           lease  : {"none", "live", "expired"}]
Opps == [text : Texts, misses : Nat, closed : BOOLEAN, merged : BOOLEAN]  \* text 0: no row
Links == [opp : Postings, hash : Texts]                                   \* hash 0: no row

(* One source of a poller: claimed and waiting ("queued"), or where execute *)
(* is with it. cur is the cursor read with the claim, page the board as     *)
(* fetched, todo the postings not yet upserted, seen those recorded, tx     *)
(* the posting whose transaction is open and found the row it read.         *)
Polls == [pc : {"none", "queued", "fetch", "upsert", "write", "close", "health", "save"},
          cur : SUBSET Pages, page : Pages, todo : SUBSET Jobs, seen : SUBSET Jobs,
          tx : SUBSET Jobs, found : Links]

EmptyPage == [doc |-> [j \in Jobs |-> 0], rev |-> 0]
Page(s) == [doc |-> board[s], rev |-> IF ETagsRecur THEN 0 ELSE changes[s]]
Listed(d) == {j \in Jobs : d[j] # 0}
NoRow(p) == [opp |-> p, hash |-> 0]

TypeOK ==
  /\ board \in [Sources -> Docs]
  /\ sched \in [Sources -> Scheds]
  /\ active \in [Sources -> BOOLEAN]
  /\ opp \in [Postings -> Opps]
  /\ link \in [Postings -> Links]
  /\ poll \in [Pollers -> [Sources -> Polls]]
  /\ unseen \in [Postings -> 0..MaxMisses]
  /\ changes \in [Sources -> Nat]
  /\ faults \in Nat
-----------------------------------------------------------------------------
(* The statements of ingest.sql, as functions of what they write. X_Y is X  *)
(* with a fault in it.                                                      *)
Due_NoLease(s) == sched[s].due /\ active[s]
Due_NeverExpires(s) == sched[s].due /\ active[s] /\ sched[s].lease = "none"
Due(s) == sched[s].due /\ active[s] /\ sched[s].lease # "live"

InsertOpportunityFromPosting(t) ==
  [text |-> t, misses |-> 0, closed |-> FALSE, merged |-> FALSE]

UpdateOpportunityFromPosting(o, t) ==
  [o EXCEPT !.text = t, !.misses = 0, !.closed = FALSE]

MarkOpportunitySeen(o) == [o EXCEPT !.misses = 0, !.closed = FALSE]

TouchSourceRow_KeepsHash(l, t) == l
TouchSourceRow(l, t) == [l EXCEPT !.hash = t]

(* The rows of source s that opportunity o has.                             *)
RowsOf(o, s) == {j \in Jobs : link[<<s, j>>].hash # 0 /\ link[<<s, j>>].opp = o}

BumpMissesForAbsent_Once(o, s, seen) ==
  IF ~opp[o].closed /\ RowsOf(o, s) # {} /\ RowsOf(o, s) \cap seen = {}
  THEN [opp[o] EXCEPT !.misses = 1] ELSE opp[o]
BumpMissesForAbsent(o, s, seen) ==
  IF ~opp[o].closed /\ RowsOf(o, s) # {} /\ RowsOf(o, s) \cap seen = {}
  THEN [opp[o] EXCEPT !.misses = @ + 1] ELSE opp[o]

CloseMissed_Early(o) ==
  [o EXCEPT !.closed = @ \/ (o.text # 0 /\ o.misses + 1 >= MaxMisses)]
CloseMissed(o) == [o EXCEPT !.closed = @ \/ (o.text # 0 /\ o.misses >= MaxMisses)]

MoveSourceRows_None(l, from, into) == l
MoveSourceRows(l, from, into) == IF l.opp = from THEN [l EXCEPT !.opp = into] ELSE l

(* InsertSourceRow's unique keys: (source, job) and the ATS pair, which two *)
(* boards of one ATS share. FindCanonicalByATS finds just the rows that     *)
(* the second key then refuses, so a posting is never linked by its ATS     *)
(* pair: the transaction fails.                                             *)
InsertRefused(p) == \E s \in Sources : link[<<s, p[2]>>].hash # 0
-----------------------------------------------------------------------------
NoPoll(s) == [pc |-> "none", cur |-> {}, page |-> EmptyPage, todo |-> {}, seen |-> {},
              tx |-> {}, found |-> NoRow(<<s, CHOOSE j \in Jobs : TRUE>>)]
Begin(s, pc) == [NoPoll(s) EXCEPT !.pc = pc, !.cur = sched[s].cursor]

At(r, s, pc) == poll[r][s].pc = pc
Busy(r) == \E s \in Sources : poll[r][s].pc \notin {"none", "queued"}
Free(r) == \A s \in Sources : At(r, s, "none")
Goto(r, s, p) == poll' = [poll EXCEPT ![r][s] = p]

(* RunSource or a statement before it failed: recordFailure notes the error *)
(* and nothing else changes. The lease is not given back.                   *)
Abandon(r, s) == Goto(r, s, NoPoll(s))

Fault(k) == k \in Faults /\ faults < MaxFaults /\ faults' = faults + 1

Init ==
  /\ board \in [Sources -> Docs]
  /\ \A s \in Sources : Listed(board[s]) \subseteq Lists[s]
  /\ sched = [s \in Sources |-> [cursor |-> {}, due |-> TRUE, lease |-> "none"]]
  /\ active = [s \in Sources |-> TRUE]
  /\ opp = [p \in Postings |-> InsertOpportunityFromPosting(0)]
  /\ link = [p \in Postings |-> NoRow(p)]
  /\ poll = [r \in Pollers |-> [s \in Sources |-> NoPoll(s)]]
  /\ unseen = [p \in Postings |-> 0]
  /\ changes = [s \in Sources |-> 0]
  /\ faults = 0
-----------------------------------------------------------------------------
(* tick: claim due sources. SKIP LOCKED may pass over any of them.          *)
Tick(r, S) ==
  /\ Free(r)
  /\ S # {} /\ Cardinality(S) <= Batch
  /\ \A s \in S : Due(s)
  /\ sched' = [s \in Sources |-> IF s \in S THEN [sched[s] EXCEPT !.lease = "live"]
                                 ELSE sched[s]]
  /\ poll' = [poll EXCEPT ![r] = [s \in Sources |-> IF s \in S THEN Begin(s, "queued")
                                                    ELSE NoPoll(s)]]
  /\ UNCHANGED <<board, active, opp, link, unseen, changes, faults>>

(* runOne, one claimed source after the other ...                           *)
RunOne(r, s) ==
  /\ At(r, s, "queued") /\ ~Busy(r)
  /\ Goto(r, s, [poll[r][s] EXCEPT !.pc = "fetch"])
  /\ UNCHANGED <<board, sched, active, opp, link, unseen, changes, faults>>

(* ... dropping one it cannot load.                                         *)
RunOneFails(r, s) ==
  /\ At(r, s, "queued") /\ ~Busy(r)
  /\ Fault("statement")
  /\ Abandon(r, s)
  /\ UNCHANGED <<board, sched, active, opp, link, unseen, changes>>

(* RunOnce: the cursor is read, no lease is taken and the status not asked. *)
RunOnce(r, s) ==
  /\ Free(r)
  /\ Goto(r, s, Begin(s, "fetch"))
  /\ UNCHANGED <<board, sched, active, opp, link, unseen, changes, faults>>

(* RunSource's Fetch: 304 goes straight to the end of execute ...           *)
FetchNotModified(r, s) ==
  /\ At(r, s, "fetch")
  /\ poll[r][s].cur = {Page(s)}
  /\ Goto(r, s, [poll[r][s] EXCEPT !.pc = "save", !.page = Page(s)])
  /\ UNCHANGED <<board, sched, active, opp, link, unseen, changes, faults>>

(* ... 200 brings the whole board ...                                       *)
Fetch(r, s) ==
  /\ At(r, s, "fetch")
  /\ poll[r][s].cur # {Page(s)}
  /\ Goto(r, s, [poll[r][s] EXCEPT !.pc = "upsert", !.page = Page(s),
                                   !.todo = Listed(board[s])])
  /\ unseen' = [p \in Postings |->
       IF p[1] = s /\ link[p].hash # 0 /\ board[s][p[2]] = 0 /\ unseen[p] < MaxMisses
       THEN unseen[p] + 1 ELSE unseen[p]]
  /\ UNCHANGED <<board, sched, active, opp, link, changes, faults>>

(* ... and any other answer, or a document that does not parse, is an error.*)
FetchFails(r, s) ==
  /\ At(r, s, "fetch")
  /\ Fault("fetch")
  /\ Abandon(r, s)
  /\ UNCHANGED <<board, sched, active, opp, link, unseen, changes>>

(* upsert: the transaction reads the source row ...                         *)
FindSourceRow(r, s, j) ==
  /\ At(r, s, "upsert") /\ j \in poll[r][s].todo
  /\ Goto(r, s, [poll[r][s] EXCEPT !.pc = "write", !.tx = {j},
                                   !.found = link[<<s, j>>]])
  /\ UNCHANGED <<board, sched, active, opp, link, unseen, changes, faults>>

EndUpsert(r, s, seen) ==
  Goto(r, s, [poll[r][s] EXCEPT !.pc = "upsert", !.todo = @ \ poll[r][s].tx,
                                !.seen = @ \cup seen, !.tx = {},
                                !.found = NoPoll(s).found])

(* ... and, when it found one, updates the opportunity that row named then: *)
(* MarkOpportunitySeen if the hash is the same, applyUpdate if not.         *)
UpsertExisting(r, s, j) ==
  /\ At(r, s, "write") /\ j \in poll[r][s].tx
  /\ LET found == poll[r][s].found
         text == poll[r][s].page.doc[j]
     IN /\ found.hash # 0
        /\ opp' = [opp EXCEPT ![found.opp] =
             IF found.hash = text THEN MarkOpportunitySeen(@)
             ELSE UpdateOpportunityFromPosting(@, text)]
        /\ link' = [link EXCEPT ![<<s, j>>] = TouchSourceRow(@, text)]
  /\ unseen' = [unseen EXCEPT ![<<s, j>>] = 0]
  /\ EndUpsert(r, s, {j})
  /\ UNCHANGED <<board, sched, active, changes, faults>>

(* The posting is new to its source and to its ATS: both rows are created.  *)
UpsertNew(r, s, j) ==
  /\ At(r, s, "write") /\ j \in poll[r][s].tx
  /\ poll[r][s].found.hash = 0 /\ ~InsertRefused(<<s, j>>)
  /\ opp' = [opp EXCEPT ![<<s, j>>] = InsertOpportunityFromPosting(poll[r][s].page.doc[j])]
  /\ link' = [link EXCEPT ![<<s, j>>] = [opp |-> <<s, j>>, hash |-> poll[r][s].page.doc[j]]]
  /\ unseen' = [unseen EXCEPT ![<<s, j>>] = 0]
  /\ EndUpsert(r, s, {j})
  /\ UNCHANGED <<board, sched, active, changes, faults>>

(* The insert violates a unique key: rolled back, counted as skipped.       *)
UpsertRefused(r, s, j) ==
  /\ At(r, s, "write") /\ j \in poll[r][s].tx
  /\ poll[r][s].found.hash = 0 /\ InsertRefused(<<s, j>>)
  /\ EndUpsert(r, s, {})
  /\ UNCHANGED <<board, sched, active, opp, link, unseen, changes, faults>>

(* A statement of the transaction fails: rolled back, counted as skipped.   *)
UpsertFails(r, s) ==
  /\ At(r, s, "write")
  /\ Fault("upsert")
  /\ EndUpsert(r, s, {})
  /\ UNCHANGED <<board, sched, active, opp, link, unseen, changes>>

(* RunSource: absence-based liveness, once every posting was tried ...      *)
Bump(r, s) ==
  /\ At(r, s, "upsert") /\ poll[r][s].todo = {}
  /\ opp' = [o \in Postings |-> BumpMissesForAbsent(o, s, poll[r][s].seen)]
  /\ Goto(r, s, [poll[r][s] EXCEPT !.pc = "close"])
  /\ UNCHANGED <<board, sched, active, link, unseen, changes, faults>>

(* ... then the closing of everything missed often enough, of any source.   *)
CloseMissedOpportunities(r, s) ==
  /\ At(r, s, "close")
  /\ opp' = [o \in Postings |-> CloseMissed(opp[o])]
  /\ Goto(r, s, [poll[r][s] EXCEPT !.pc = "health"])
  /\ UNCHANGED <<board, sched, active, link, unseen, changes, faults>>

LivenessFails(r, s) ==
  /\ At(r, s, "close") \/ (At(r, s, "upsert") /\ poll[r][s].todo = {})
  /\ Fault("statement")
  /\ Abandon(r, s)
  /\ UNCHANGED <<board, sched, active, opp, link, unseen, changes>>

(* recordHealth judges a fetched board and may quarantine the source.       *)
RecordHealth(r, s) ==
  /\ At(r, s, "health")
  /\ active' \in {active, [active EXCEPT ![s] = FALSE]}
  /\ Goto(r, s, [poll[r][s] EXCEPT !.pc = "save"])
  /\ UNCHANGED <<board, sched, opp, link, unseen, changes, faults>>

(* With a fault: a board that sends no ETag gets one, from its content.     *)
SaveSourceCursor_AnyBoard(r, s) ==
  /\ At(r, s, "save")
  /\ sched' = [sched EXCEPT ![s] =
       [cursor |-> {poll[r][s].page}, due |-> FALSE, lease |-> "none"]]
  /\ Abandon(r, s)
  /\ UNCHANGED <<board, active, opp, link, unseen, changes, faults>>

(* SaveSourceCursor ends the poll: next cursor, next run, lease given back. *)
SaveSourceCursor(r, s) ==
  /\ At(r, s, "save")
  /\ sched' = [sched EXCEPT ![s] =
       [cursor |-> IF s \in Conditional THEN {poll[r][s].page} ELSE {},
        due |-> FALSE, lease |-> "none"]]
  /\ Abandon(r, s)
  /\ UNCHANGED <<board, active, opp, link, unseen, changes, faults>>

SaveFails(r, s) ==
  /\ At(r, s, "save")
  /\ Fault("statement")
  /\ Abandon(r, s)
  /\ UNCHANGED <<board, sched, active, opp, link, unseen, changes>>

(* The process dies, or its context ends and every later statement fails.   *)
Crash(r) ==
  /\ ~Free(r)
  /\ Fault("crash")
  /\ poll' = [poll EXCEPT ![r] = [s \in Sources |-> NoPoll(s)]]
  /\ UNCHANGED <<board, sched, active, opp, link, unseen, changes>>
-----------------------------------------------------------------------------
(* addSource, again: the schedule starts over, the lease is left alone.     *)
AddSource(s) ==
  /\ sched' = [sched EXCEPT ![s].cursor = {}, ![s].due = TRUE]
  /\ UNCHANGED <<board, active, opp, link, poll, unseen, changes, faults>>

(* The deduper's merge: the source rows move, the row is marked merged.     *)
Merge(from, into) ==
  /\ from # into /\ opp[from].text # 0 /\ opp[into].text # 0
  /\ ~opp[from].merged /\ ~opp[into].merged
  /\ link' = [p \in Postings |-> MoveSourceRows(link[p], from, into)]
  /\ opp' = [opp EXCEPT ![from].merged = TRUE]
  /\ UNCHANGED <<board, sched, active, poll, unseen, changes, faults>>

(* A board lists, rewords or drops one posting.                             *)
ChangeBoard(s, j, t) ==
  /\ j \in Lists[s] /\ t # board[s][j]
  /\ changes[s] < MaxChanges
  /\ board' = [board EXCEPT ![s][j] = t]
  /\ changes' = [changes EXCEPT ![s] = @ + 1]
  /\ UNCHANGED <<sched, active, opp, link, poll, unseen, faults>>

BecomesDue(s) ==
  /\ ~sched[s].due
  /\ sched' = [sched EXCEPT ![s].due = TRUE]
  /\ UNCHANGED <<board, active, opp, link, poll, unseen, changes, faults>>

LeaseExpires(s) ==
  /\ sched[s].lease = "live"
  /\ LeaseOutlivesPoll => \A r \in Runners : At(r, s, "none")
  /\ sched' = [sched EXCEPT ![s].lease = "expired"]
  /\ UNCHANGED <<board, active, opp, link, poll, unseen, changes, faults>>
-----------------------------------------------------------------------------
Advance(r, s) ==       \* a poll's own steps, when nothing fails
  \/ RunOne(r, s) \/ FetchNotModified(r, s) \/ Fetch(r, s)
  \/ \E j \in Jobs : \/ FindSourceRow(r, s, j) \/ UpsertExisting(r, s, j)
                     \/ UpsertNew(r, s, j) \/ UpsertRefused(r, s, j)
  \/ Bump(r, s) \/ CloseMissedOpportunities(r, s) \/ RecordHealth(r, s)
  \/ SaveSourceCursor(r, s)

Fails(r, s) ==
  \/ RunOneFails(r, s) \/ FetchFails(r, s) \/ UpsertFails(r, s)
  \/ LivenessFails(r, s) \/ SaveFails(r, s)

Next ==
  \/ \E r \in Runners, S \in SUBSET Sources : Tick(r, S)
  \/ \E r \in Operators, s \in Sources : RunOnce(r, s)
  \/ \E r \in Pollers, s \in Sources : Advance(r, s) \/ Fails(r, s)
  \/ \E r \in Pollers : Crash(r)
  \/ \E s \in Sources : AddSource(s) \/ BecomesDue(s) \/ LeaseExpires(s)
  \/ \E d \in Duplicates : Merge(d[1], d[2])
  \/ \E s \in Sources, j \in Jobs, t \in Texts : ChangeBoard(s, j, t)

Spec == Init /\ [][Next]_vars

(* The ticker keeps firing and claims in the order of next_run_at, so the   *)
(* source that waits longest is not passed over for ever; a started poll    *)
(* goes on; clocks run.                                                     *)
Fairness ==
  /\ \A s \in Sources :
       SF_vars(\E r \in Runners, S \in SUBSET Sources : s \in S /\ Tick(r, S))
  /\ \A r \in Pollers, s \in Sources : WF_vars(Advance(r, s))
  /\ \A s \in Sources : WF_vars(BecomesDue(s)) /\ WF_vars(LeaseExpires(s))

FairSpec == Spec /\ Fairness
-----------------------------------------------------------------------------
Polling(r, s) == poll[r][s].pc # "none"
RowsInto(o) == {p \in Postings : link[p].hash # 0 /\ link[p].opp = o}

(* At most one runner is at a source: "no double-firing".                   *)
NoDoubleFiring ==
  \A s \in Sources, q, r \in Runners : Polling(q, s) /\ Polling(r, s) => q = r

(* Every source row names an opportunity that is canonical: merges, polls   *)
(* and refused inserts never leave provenance on a row that was merged away *)
(* or does not exist.                                                       *)
LinksAreCanonical ==
  \A p \in Postings :
    link[p].hash # 0 => opp[link[p].opp].text # 0 /\ ~opp[link[p].opp].merged

(* A board that would answer 304 has nothing left to store: the cursor      *)
(* vouches only for what is stored as listed. Otherwise the 304s that       *)
(* follow would hide the posting until its board changes.                   *)
NotModifiedMeansStored ==
  \A s \in Sources :
    sched[s].cursor = {Page(s)} =>
      \A j \in Listed(board[s]) : link[<<s, j>>].hash = board[s][j]

(* A canonical posting is closed only after MaxMisses fetched boards did    *)
(* not list it since it was last recorded as seen.                          *)
ClosedAfterMisses ==
  [][\A o \in Postings :
       opp'[o].closed /\ ~opp[o].closed /\ ~opp[o].merged =>
         SumFunctionOnSet(unseen, RowsInto(o)) >= MaxMisses]_vars

(* Every active source is polled again and again, whatever failed: no       *)
(* crash, lost statement or quarantine of another source strands it.        *)
EverySourcePolled ==
  \A s \in Sources : active[s] ~> (~active[s] \/ \E r \in Runners : At(r, s, "fetch"))

(* A poll whose upserts failed is made good: once its board stops changing  *)
(* an active source comes to have all its postings stored as listed. It     *)
(* holds of boards that send no ETag. RunSource returns the next ETag       *)
(* whatever was skipped, so of a board that sends one the 304s that follow  *)
(* hide the posting that failed until the board changes.                    *)
EveryListingStored ==
  \A s \in Sources :
    []<>(active[s] => \A j \in Listed(board[s]) : link[<<s, j>>].hash = board[s][j])

Gone(o) ==
  /\ RowsInto(o) # {} /\ ~opp[o].closed
  /\ \A p \in RowsInto(o) : board[p[1]][p[2]] = 0 /\ active[p[1]]

(* A posting that no board lists any more is eventually closed, unless it   *)
(* reappears, is merged away or one of its sources is quarantined. It holds *)
(* of boards that send no ETag, and not of those that do: MaxMisses polls   *)
(* must miss it, and once the first has saved its cursor the rest are 304s. *)
UnlistedCloses == \A o \in Postings : Gone(o) ~> ~Gone(o)
=============================================================================
