---------------------------- MODULE IngestProofs ----------------------------
(***************************************************************************)
(* Proofs about Ingest, for any number of boards, jobs and runners.        *)
(***************************************************************************)
EXTENDS Ingest, TLAPS, FiniteSetTheorems, WellFoundedInduction

LEMMA NoPollType == \A s \in Sources : NoPoll(s) \in Polls
<1> TAKE s \in Sources
<1>1. (CHOOSE j \in Jobs : TRUE) \in Jobs
  BY ListsAssumption
<1>2. NoRow(<<s, CHOOSE j \in Jobs : TRUE>>) \in Links
  BY <1>1, BoundsAssumption DEF NoRow, Links, Postings, Texts
<1>3. EmptyPage \in Pages
  BY BoundsAssumption DEF EmptyPage, Pages, Docs, Texts
<1> QED
  BY <1>2, <1>3 DEF NoPoll, Polls

LEMMA PageType == TypeOK => \A s \in Sources : Page(s) \in Pages
  BY ConditionalAssumption DEF TypeOK, Page, Pages

(* The updates of a poll that keep it a poll.                               *)
LEMMA PollGoes ==
  ASSUME NEW p \in Polls,
         NEW pc \in {"none", "queued", "fetch", "upsert", "write", "close", "health", "save"}
  PROVE  [p EXCEPT !.pc = pc] \in Polls
  BY DEF Polls

LEMMA PollFetches ==
  ASSUME NEW p \in Polls, NEW pg \in Pages, NEW S \in SUBSET Jobs
  PROVE  /\ [p EXCEPT !.pc = "save", !.page = pg] \in Polls
         /\ [p EXCEPT !.pc = "upsert", !.page = pg, !.todo = S] \in Polls
  BY DEF Polls

LEMMA PollReads ==
  ASSUME NEW p \in Polls, NEW j \in Jobs, NEW l \in Links
  PROVE  [p EXCEPT !.pc = "write", !.tx = {j}, !.found = l] \in Polls
  BY DEF Polls

LEMMA PollParts ==
  ASSUME NEW p \in Polls
  PROVE  /\ p.page \in Pages /\ p.found \in Links
         /\ \A j \in Jobs : p.page.doc[j] \in Texts
  BY DEF Polls, Pages, Docs

(* Every variable keeps its type in every reachable state of the poller.    *)
THEOREM Typed == Spec => []TypeOK
<1>1. Init => TypeOK
  <2> SUFFICES ASSUME Init PROVE TypeOK
    OBVIOUS
  <2>1. InsertOpportunityFromPosting(0) \in Opps
    BY BoundsAssumption DEF InsertOpportunityFromPosting, Opps, Texts
  <2>2. \A p \in Postings : NoRow(p) \in Links
    BY BoundsAssumption DEF NoRow, Links, Texts
  <2> QED
    BY <2>1, <2>2, NoPollType, PollAssumption DEF Init, TypeOK, Scheds
<1>2. TypeOK /\ [Next]_vars => TypeOK'
  <2> SUFFICES ASSUME TypeOK, [Next]_vars PROVE TypeOK'
    OBVIOUS
  <2> USE DEF TypeOK
  <2>0. \A r \in Pollers, s \in Sources : poll[r][s] \in Polls
    OBVIOUS
  <2>t. \A s \in Sources, j \in Jobs : <<s, j>> \in Postings
    BY DEF Postings
  <2>p. \A s \in Sources : Page(s) \in Pages /\ Listed(board[s]) \in SUBSET Jobs
    BY PageType DEF Listed
  <2>q. \A s \in Sources, j \in Jobs : link[<<s, j>>] \in Links
    BY <2>t
  <2>a. ASSUME NEW r \in Pollers, NEW s \in Sources, NEW p \in Polls, Goto(r, s, p)
        PROVE poll' \in [Pollers -> [Sources -> Polls]]
    BY <2>a DEF Goto
  <2>b. ASSUME NEW r \in Pollers, NEW s \in Sources, Abandon(r, s)
        PROVE poll' \in [Pollers -> [Sources -> Polls]]
    BY <2>a, <2>b, NoPollType DEF Abandon
  <2>c. ASSUME NEW r \in Pollers, NEW s \in Sources, NEW S \in SUBSET Jobs,
               EndUpsert(r, s, S)
        PROVE poll' \in [Pollers -> [Sources -> Polls]]
    <3> DEFINE new == [poll[r][s] EXCEPT !.pc = "upsert", !.todo = @ \ poll[r][s].tx,
                                         !.seen = @ \cup S, !.tx = {},
                                         !.found = NoPoll(s).found]
    <3>1. NoPoll(s).found \in Links
      BY NoPollType DEF Polls
    <3>2. new \in Polls
      <4>1. /\ poll[r][s].todo \ poll[r][s].tx \in SUBSET Jobs
            /\ poll[r][s].seen \cup S \in SUBSET Jobs
        BY <2>0 DEF Polls
      <4>2. poll[r][s] \in Polls
        BY <2>0
      <4> HIDE DEF TypeOK
      <4> QED
        BY ONLY <3>1, <4>1, <4>2 DEF Polls
    <3>3. Goto(r, s, new)
      BY <2>c DEF EndUpsert
    <3> HIDE DEF new
    <3> QED
      BY <3>2, <3>3, <2>a
  <2>d. \A s \in Sources : /\ Begin(s, "queued") \in Polls
                           /\ Begin(s, "fetch") \in Polls
    BY NoPollType DEF Begin, Polls, Scheds
  <2>1. ASSUME NEW r \in Runners, NEW S \in SUBSET Sources, Tick(r, S) PROVE TypeOK'
    <3>1. sched' \in [Sources -> Scheds]
      BY <2>1 DEF Tick, Scheds
    <3>2. poll' \in [Pollers -> [Sources -> Polls]]
      BY <2>1, <2>d, NoPollType DEF Tick, Pollers
    <3> QED
      BY <2>1, <3>1, <3>2 DEF Tick
  <2>2. ASSUME NEW r \in Operators, NEW s \in Sources, RunOnce(r, s) PROVE TypeOK'
    <3>1. poll' \in [Pollers -> [Sources -> Polls]]
      BY <2>2, <2>a, <2>d DEF RunOnce, Pollers
    <3> QED
      BY <2>2, <3>1 DEF RunOnce
  <2>3. ASSUME NEW r \in Pollers, NEW s \in Sources, Advance(r, s) PROVE TypeOK'
    <3>1. CASE RunOne(r, s)
      <4>1. [poll[r][s] EXCEPT !.pc = "fetch"] \in Polls
        BY ONLY <2>0, PollGoes, r \in Pollers, s \in Sources
      <4> QED
        BY <3>1, <4>1, <2>a DEF RunOne
    <3>2. CASE FetchNotModified(r, s)
      <4>1. [poll[r][s] EXCEPT !.pc = "save", !.page = Page(s)] \in Polls
        BY ONLY <2>0, <2>p, PollFetches, r \in Pollers, s \in Sources
      <4> QED
        BY <3>2, <4>1, <2>a DEF FetchNotModified
    <3>3. CASE Fetch(r, s)
      <4>1. [poll[r][s] EXCEPT !.pc = "upsert", !.page = Page(s),
                               !.todo = Listed(board[s])] \in Polls
        BY ONLY <2>0, <2>p, PollFetches, r \in Pollers, s \in Sources
      <4>2. unseen' \in [Postings -> 0..MaxMisses]
        BY <3>3, PollAssumption DEF Fetch
      <4> QED
        BY <3>3, <4>1, <4>2, <2>a DEF Fetch
    <3>4. ASSUME NEW j \in Jobs, FindSourceRow(r, s, j) PROVE TypeOK'
      <4>1. [poll[r][s] EXCEPT !.pc = "write", !.tx = {j}, !.found = link[<<s, j>>]] \in Polls
        BY ONLY <2>0, <2>q, PollReads, r \in Pollers, s \in Sources, j \in Jobs
      <4> QED
        BY <3>4, <4>1, <2>a DEF FindSourceRow
    <3>5. ASSUME NEW j \in Jobs, UpsertExisting(r, s, j) PROVE TypeOK'
      <4> DEFINE found == poll[r][s].found
                 text == poll[r][s].page.doc[j]
      <4>1. found \in Links /\ text \in Texts
        BY ONLY <2>0, PollParts, r \in Pollers, s \in Sources, j \in Jobs
      <4>2. /\ opp' = [opp EXCEPT ![found.opp] =
                         IF found.hash = text THEN MarkOpportunitySeen(@)
                         ELSE UpdateOpportunityFromPosting(@, text)]
            /\ link' = [link EXCEPT ![<<s, j>>] = TouchSourceRow(@, text)]
        BY <3>5 DEF UpsertExisting
      <4>3. opp' \in [Postings -> Opps]
        <5>1. \A o \in Opps : /\ MarkOpportunitySeen(o) \in Opps
                              /\ UpdateOpportunityFromPosting(o, text) \in Opps
          BY ONLY <4>1 DEF Opps, MarkOpportunitySeen, UpdateOpportunityFromPosting
        <5> HIDE DEF text
        <5> QED
          BY <4>2, <5>1
      <4>4. link' \in [Postings -> Links]
        BY <4>1, <4>2, <2>t DEF Links, TouchSourceRow
      <4>5. unseen' \in [Postings -> 0..MaxMisses]
        BY <3>5, <2>t, PollAssumption DEF UpsertExisting
      <4>6. poll' \in [Pollers -> [Sources -> Polls]]
        BY <3>5, <2>c DEF UpsertExisting
      <4> QED
        BY <3>5, <4>3, <4>4, <4>5, <4>6 DEF UpsertExisting
    <3>6. ASSUME NEW j \in Jobs, UpsertNew(r, s, j) PROVE TypeOK'
      <4>1. poll[r][s].page.doc[j] \in Texts
        BY ONLY <2>0, PollParts, r \in Pollers, s \in Sources, j \in Jobs
      <4>2. opp' \in [Postings -> Opps]
        BY <3>6, <4>1 DEF UpsertNew, Opps, InsertOpportunityFromPosting
      <4>3. link' \in [Postings -> Links]
        BY <3>6, <4>1, <2>t DEF UpsertNew, Links
      <4>4. unseen' \in [Postings -> 0..MaxMisses]
        BY <3>6, <2>t, PollAssumption DEF UpsertNew
      <4>5. poll' \in [Pollers -> [Sources -> Polls]]
        BY <3>6, <2>c DEF UpsertNew
      <4> QED
        BY <3>6, <4>2, <4>3, <4>4, <4>5 DEF UpsertNew
    <3>7. ASSUME NEW j \in Jobs, UpsertRefused(r, s, j) PROVE TypeOK'
      BY <3>7, <2>c DEF UpsertRefused
    <3>8. CASE Bump(r, s)
      <4>1. opp' \in [Postings -> Opps]
        BY <3>8 DEF Bump, BumpMissesForAbsent, Opps
      <4>2. [poll[r][s] EXCEPT !.pc = "close"] \in Polls
        BY ONLY <2>0, PollGoes, r \in Pollers, s \in Sources
      <4> QED
        BY <3>8, <4>1, <4>2, <2>a DEF Bump
    <3>9. CASE CloseMissedOpportunities(r, s)
      <4>1. opp' \in [Postings -> Opps]
        BY <3>9 DEF CloseMissedOpportunities, CloseMissed, Opps
      <4>2. [poll[r][s] EXCEPT !.pc = "health"] \in Polls
        BY ONLY <2>0, PollGoes, r \in Pollers, s \in Sources
      <4> QED
        BY <3>9, <4>1, <4>2, <2>a DEF CloseMissedOpportunities
    <3>10. CASE RecordHealth(r, s)
      <4>1. [poll[r][s] EXCEPT !.pc = "save"] \in Polls
        BY ONLY <2>0, PollGoes, r \in Pollers, s \in Sources
      <4> QED
        BY <3>10, <4>1, <2>a DEF RecordHealth
    <3>11. CASE SaveSourceCursor(r, s)
      <4>1. poll[r][s].page \in Pages
        BY ONLY <2>0, PollParts, r \in Pollers, s \in Sources
      <4>2. sched' \in [Sources -> Scheds]
        BY <3>11, <4>1 DEF SaveSourceCursor, Scheds
      <4> QED
        BY <3>11, <4>2, <2>b DEF SaveSourceCursor
    <3> QED
      BY <2>3, <3>1, <3>2, <3>3, <3>4, <3>5, <3>6, <3>7, <3>8, <3>9, <3>10, <3>11
      DEF Advance
  <2>4. ASSUME NEW r \in Pollers, NEW s \in Sources, Fails(r, s) PROVE TypeOK'
    <3>1. CASE UpsertFails(r, s)
      BY <3>1, <2>c DEF UpsertFails, Fault
    <3>2. CASE RunOneFails(r, s) \/ FetchFails(r, s) \/ LivenessFails(r, s) \/ SaveFails(r, s)
      BY <3>2, <2>b DEF RunOneFails, FetchFails, LivenessFails, SaveFails, Fault
    <3> QED
      BY <2>4, <3>1, <3>2 DEF Fails
  <2>5. ASSUME NEW r \in Pollers, Crash(r) PROVE TypeOK'
    BY <2>5, NoPollType DEF Crash, Fault
  <2>6. ASSUME NEW s \in Sources, AddSource(s) \/ BecomesDue(s) \/ LeaseExpires(s)
        PROVE TypeOK'
    <3>1. sched' \in [Sources -> Scheds]
      <4>1. CASE AddSource(s)
        BY <4>1 DEF AddSource, Scheds
      <4>2. CASE BecomesDue(s)
        BY <4>2 DEF BecomesDue, Scheds
      <4>3. CASE LeaseExpires(s)
        BY <4>3 DEF LeaseExpires, Scheds
      <4> QED
        BY <2>6, <4>1, <4>2, <4>3
    <3> QED
      BY <2>6, <3>1 DEF AddSource, BecomesDue, LeaseExpires
  <2>7. ASSUME NEW d \in Duplicates, Merge(d[1], d[2]) PROVE TypeOK'
    <3>1. d[1] \in Postings /\ d[2] \in Postings
      BY DuplicatesAssumption
    <3>2. link' \in [Postings -> Links]
      BY <2>7, <3>1 DEF Merge, MoveSourceRows, Links
    <3>3. opp' \in [Postings -> Opps]
      BY <2>7, <3>1 DEF Merge, Opps
    <3> QED
      BY <2>7, <3>2, <3>3 DEF Merge
  <2>8. ASSUME NEW s \in Sources, NEW j \in Jobs, NEW t \in Texts, ChangeBoard(s, j, t)
        PROVE TypeOK'
    BY <2>8 DEF ChangeBoard, Docs
  <2>9. CASE UNCHANGED vars
    BY <2>9 DEF vars
  <2> QED
    BY <2>1, <2>2, <2>3, <2>4, <2>5, <2>6, <2>7, <2>8, <2>9 DEF Next
<1> QED
  BY <1>1, <1>2, PTL DEF Spec
-----------------------------------------------------------------------------
(* The assumptions of what follows: sources are polled by the schedule      *)
(* alone and within their lease, no upsert fails by itself, no two boards   *)
(* list the same job, and an ETag is never used twice. Without them a       *)
(* second poll may run, or a 304 may stand for what was never stored.       *)
Scheduled == Operators = {} /\ LeaseOutlivesPoll = TRUE
Orderly ==
  /\ Scheduled
  /\ "upsert" \notin Faults
  /\ ETagsRecur = FALSE
  /\ \A s, t \in Sources : s # t => Lists[s] \cap Lists[t] = {}

(* Who polls a source holds its lease.                                      *)
PollersHoldLease ==
  \A r \in Runners, s \in Sources : Polling(r, s) => sched[s].lease = "live"

Exclusive == NoDoubleFiring /\ PollersHoldLease

(* A page a board has sent: at the board's revision it is what is listed.   *)
Known(s, pg) ==
  /\ pg.rev <= changes[s]
  /\ pg.rev = changes[s] => pg.doc = board[s]
  /\ Listed(pg.doc) \subseteq Lists[s]

Stored(s, pg, S) == \A j \in Listed(pg.doc) \ S : link[<<s, j>>].hash = pg.doc[j]
Vouched(s, pg) == Known(s, pg) /\ (pg.rev = changes[s] => Stored(s, pg, {}))

OwnJobs ==
  \A s \in Sources, j \in Jobs :
    link[<<s, j>>].hash # 0 \/ board[s][j] # 0 => j \in Lists[s]

(* A saved cursor vouches only for what is stored ...                       *)
CursorsVouched == \A s \in Sources : \A pg \in sched[s].cursor : Vouched(s, pg)

(* ... and so does the cursor a poll p of s has read and not yet used.      *)
CursorRead(s, p) ==
  p.pc \in {"queued", "fetch"} => p.todo = {} /\ \A pg \in p.cur : Vouched(s, pg)

(* A fetched page is no older than the saved cursor, and everything it      *)
(* lists is stored except what the poll has still to do.                    *)
PageApplied(s, p) ==
  p.pc \in {"upsert", "write", "close", "health", "save"} =>
    /\ Known(s, p.page)
    /\ \A pg \in sched[s].cursor : pg.rev <= p.page.rev
    /\ p.todo \subseteq Listed(p.page.doc)
    /\ p.pc \notin {"upsert", "write"} => p.todo = {}
    /\ Stored(s, p.page, p.todo)

(* An open transaction has read the hash that is still in the row.          *)
ReadIsCurrent(s, p) ==
  p.pc = "write" =>
    \E j \in p.todo : p.tx = {j} /\ p.found.hash = link[<<s, j>>].hash

PollOK(s, p) == CursorRead(s, p) /\ PageApplied(s, p) /\ ReadIsCurrent(s, p)
PollsOK == \A r \in Runners, s \in Sources : PollOK(s, poll[r][s])

IngestInv == Exclusive /\ OwnJobs /\ CursorsVouched /\ PollsOK

LEMMA ExclusiveStep ==
  ASSUME Scheduled, TypeOK, Exclusive, [Next]_vars PROVE Exclusive'
<1> USE DEF Exclusive, NoDoubleFiring, PollersHoldLease, Polling, TypeOK
<1>0. Pollers = Runners /\ Operators = {} /\ LeaseOutlivesPoll
  BY DEF Pollers, Scheduled
<1>n. \A s \in Sources : NoPoll(s).pc = "none"
  BY DEF NoPoll
<1>a. ASSUME \A t \in Sources : sched'[t].lease = sched[t].lease,
             \A q \in Runners, t \in Sources :
               poll'[q][t].pc # "none" => poll[q][t].pc # "none"
      PROVE Exclusive'
  BY <1>a
<1>b. ASSUME NEW r \in Runners, NEW s \in Sources, NEW p, Goto(r, s, p),
             p.pc # "none" => poll[r][s].pc # "none"
      PROVE \A q \in Runners, t \in Sources :
              poll'[q][t].pc # "none" => poll[q][t].pc # "none"
  BY <1>b, <1>0 DEF Goto
<1>c. ASSUME NEW r \in Runners, NEW s \in Sources, Abandon(r, s)
      PROVE \A q \in Runners, t \in Sources :
              poll'[q][t].pc # "none" => poll[q][t].pc # "none"
  BY <1>c, <1>b, <1>n DEF Abandon
<1>1. ASSUME NEW r \in Runners, NEW S \in SUBSET Sources, Tick(r, S) PROVE Exclusive'
  <2>1. \A s \in S, q \in Runners : poll[q][s].pc = "none"
    BY <1>1 DEF Tick, Due
  <2>2. \A s \in Sources : sched'[s].lease = IF s \in S THEN "live" ELSE sched[s].lease
    <3>1. \A sc \in Scheds : [sc EXCEPT !.lease = "live"].lease = "live"
      BY ONLY TRUE DEF Scheds
    <3> QED
      BY <1>1, <3>1 DEF Tick
  <2>3. \A q \in Runners, s \in Sources :
          poll'[q][s] = IF q = r THEN (IF s \in S THEN Begin(s, "queued") ELSE NoPoll(s))
                        ELSE poll[q][s]
    BY <1>1, <1>0 DEF Tick
  <2>4. \A q \in Runners, s \in Sources :
          poll'[q][s].pc # "none" => IF s \in S THEN q = r ELSE poll[q][s].pc # "none"
    BY <2>1, <2>3, <1>n
  <2>5. NoDoubleFiring'
    BY <2>4
  <2>6. PollersHoldLease'
    BY <2>2, <2>4
  <2> QED
    BY ONLY <2>5, <2>6 DEF Exclusive
<1>2. ASSUME NEW r \in Pollers, NEW s \in Sources, Advance(r, s) PROVE Exclusive'
  <2>1. CASE SaveSourceCursor(r, s)
    <3>1. poll[r][s].pc = "save" /\ r \in Runners
      BY <2>1, <1>0 DEF SaveSourceCursor, At
    <3>2. \A q \in Runners, t \in Sources :
            poll'[q][t].pc # "none" => poll[q][t].pc # "none" /\ t # s
      BY <2>1, <3>1, <1>0, <1>n DEF SaveSourceCursor, Abandon, Goto
    <3>3. \A t \in Sources : t # s => sched'[t] = sched[t]
      BY <2>1 DEF SaveSourceCursor
    <3> QED
      BY <3>2, <3>3
  <2>2. CASE ~SaveSourceCursor(r, s)
    <3>1. sched' = sched
      BY <1>2, <2>2 DEF Advance, RunOne, FetchNotModified, Fetch, FindSourceRow,
         UpsertExisting, UpsertNew, UpsertRefused, Bump, CloseMissedOpportunities, RecordHealth
    <3>2. poll[r][s].pc # "none" /\ r \in Runners
      BY <1>2, <2>2, <1>0 DEF Advance, At, RunOne, FetchNotModified, Fetch, FindSourceRow,
         UpsertExisting, UpsertNew, UpsertRefused, Bump, CloseMissedOpportunities, RecordHealth
    <3>3. \E p : Goto(r, s, p)
      BY <1>2, <2>2 DEF Advance, RunOne, FetchNotModified, Fetch, FindSourceRow, EndUpsert,
         UpsertExisting, UpsertNew, UpsertRefused, Bump, CloseMissedOpportunities, RecordHealth
    <3> QED
      BY <3>1, <3>2, <3>3, <1>a, <1>b
  <2> QED
    BY <2>1, <2>2
<1>3. ASSUME NEW r \in Pollers, NEW s \in Sources, Fails(r, s) PROVE Exclusive'
  <2>1. sched' = sched /\ r \in Runners
    BY <1>3, <1>0 DEF Fails, RunOneFails, FetchFails, UpsertFails, LivenessFails, SaveFails
  <2>2. CASE UpsertFails(r, s)
    BY <2>1, <2>2, <1>a, <1>b DEF UpsertFails, EndUpsert, At
  <2>3. CASE ~UpsertFails(r, s)
    <3>1. Abandon(r, s)
      BY <1>3, <2>3 DEF Fails, RunOneFails, FetchFails, LivenessFails, SaveFails
    <3> QED
      BY <2>1, <3>1, <1>a, <1>c
  <2> QED
    BY <2>2, <2>3
<1>4. ASSUME NEW r \in Pollers, Crash(r) PROVE Exclusive'
  BY <1>4, <1>0, <1>n, <1>a DEF Crash
<1>5. ASSUME NEW s \in Sources, AddSource(s) \/ BecomesDue(s) PROVE Exclusive'
  <2>1. \A t \in Sources : sched'[t].lease = sched[t].lease
    <3>1. CASE AddSource(s)
      BY <3>1 DEF AddSource, Scheds
    <3>2. CASE BecomesDue(s)
      BY <3>2 DEF BecomesDue, Scheds
    <3> QED
      BY <1>5, <3>1, <3>2
  <2> QED
    BY <2>1, <1>5, <1>a DEF AddSource, BecomesDue
<1>6. ASSUME NEW s \in Sources, LeaseExpires(s) PROVE Exclusive'
  <2>1. \A r \in Runners : poll[r][s].pc = "none"
    BY <1>6, <1>0 DEF LeaseExpires, At
  <2>2. poll' = poll /\ \A t \in Sources : t # s => sched'[t] = sched[t]
    BY <1>6 DEF LeaseExpires
  <2> QED
    BY <2>1, <2>2
<1>7. ASSUME NEW d \in Duplicates, Merge(d[1], d[2]) PROVE Exclusive'
  BY <1>7, <1>a DEF Merge
<1>8. ASSUME NEW s \in Sources, NEW j \in Jobs, NEW t \in Texts, ChangeBoard(s, j, t)
      PROVE Exclusive'
  BY <1>8, <1>a DEF ChangeBoard
<1>9. CASE UNCHANGED vars
  BY <1>9, <1>a DEF vars
<1> QED
  BY <1>0, <1>1, <1>2, <1>3, <1>4, <1>5, <1>6, <1>7, <1>8, <1>9 DEF Next

(* Whatever crashes and fails, two runners are never at the same source:    *)
(* the schedule's lease is exclusive as long as only the schedule polls and *)
(* no poll outlives its lease. The inductive part is that who polls a       *)
(* source holds its lease.                                                  *)
THEOREM OneRunnerPerSource ==
  ASSUME Scheduled PROVE Spec => []NoDoubleFiring
<1>1. Init => Exclusive
  BY DEF Init, Exclusive, NoDoubleFiring, PollersHoldLease, Polling, NoPoll, Pollers
<1>2. TypeOK /\ Exclusive /\ [Next]_vars => Exclusive'
  BY ExclusiveStep
<1>3. Exclusive => NoDoubleFiring
  BY DEF Exclusive
<1> QED
  BY <1>1, <1>2, <1>3, Typed, PTL DEF Spec

LEMMA NoPollOK == \A s \in Sources : PollOK(s, NoPoll(s)) /\ PollOK(s, NoPoll(s))'
  BY DEF PollOK, CursorRead, PageApplied, ReadIsCurrent, NoPoll

(* What holds of a source and of a poll of it holds on while the board, the *)
(* hashes and the cursor of that source are left alone.                     *)
LEMMA FrameVouched ==
  ASSUME NEW s \in Sources, NEW pg, board'[s] = board[s], changes'[s] = changes[s],
         \A j \in Jobs : link'[<<s, j>>].hash = link[<<s, j>>].hash,
         Vouched(s, pg)
  PROVE Vouched(s, pg)'
  BY DEF Vouched, Known, Stored, Listed

LEMMA FramePoll ==
  ASSUME NEW s \in Sources, NEW p \in Polls, board'[s] = board[s], changes'[s] = changes[s],
         \A j \in Jobs : link'[<<s, j>>].hash = link[<<s, j>>].hash,
         sched'[s].cursor \subseteq sched[s].cursor,
         PollOK(s, p)
  PROVE PollOK(s, p)'
<1>1. CursorRead(s, p)'
  BY FrameVouched DEF CursorRead, PollOK
<1>2. PageApplied(s, p)'
  BY DEF PageApplied, PollOK, Known, Stored, Listed
<1>3. ReadIsCurrent(s, p)'
  BY DEF ReadIsCurrent, PollOK, Polls
<1> QED
  BY <1>1, <1>2, <1>3 DEF PollOK

LEMMA PollPrime ==
  ASSUME NEW r \in Runners, NEW s \in Sources, NEW p, p = poll'[r][s], PollOK(s, p)'
  PROVE PollOK(s, poll[r][s])'
  BY DEF PollOK, CursorRead, PageApplied, ReadIsCurrent, Known, Stored, Vouched

(* A step that leaves boards, hashes and cursors alone, or drops a cursor.  *)
PollsMoveOn ==
  \A r \in Runners, s \in Sources : \E p \in Polls : p = poll'[r][s] /\ PollOK(s, p)

LEMMA FrameInv ==
  ASSUME IngestInv, UNCHANGED <<board, changes>>,
         \A s \in Sources, j \in Jobs : link'[<<s, j>>].hash = link[<<s, j>>].hash,
         \A s \in Sources : sched'[s].cursor \subseteq sched[s].cursor,
         PollsMoveOn
  PROVE OwnJobs' /\ CursorsVouched' /\ PollsOK'
<1>1. OwnJobs'
  BY DEF IngestInv, OwnJobs
<1>2. CursorsVouched'
  BY FrameVouched DEF IngestInv, CursorsVouched
<1>3. PollsOK'
  <2> SUFFICES ASSUME NEW r \in Runners, NEW s \in Sources PROVE PollOK(s, poll[r][s])'
    BY DEF PollsOK
  <2>1. PICK p \in Polls : p = poll'[r][s] /\ PollOK(s, p)
    BY DEF PollsMoveOn
  <2>2. PollOK(s, p)'
    BY <2>1, FramePoll
  <2> QED
    BY <2>1, <2>2, PollPrime
<1> QED
  BY <1>1, <1>2, <1>3

LEMMA GotoMovesOn ==
  ASSUME TypeOK, PollsOK, NEW r \in Runners, NEW s \in Sources, NEW p \in Polls,
         Goto(r, s, p), PollOK(s, p)
  PROVE PollsMoveOn
<1> SUFFICES ASSUME NEW q \in Runners, NEW t \in Sources
             PROVE \E n \in Polls : n = poll'[q][t] /\ PollOK(t, n)
  BY DEF PollsMoveOn
<1>1. poll'[q][t] = IF q = r /\ t = s THEN p ELSE poll[q][t]
  BY DEF Goto, TypeOK, Pollers
<1>2. poll[q][t] \in Polls /\ PollOK(t, poll[q][t])
  BY DEF TypeOK, Pollers, PollsOK
<1> QED
  BY <1>1, <1>2

(* upsert's transaction commits for job j of the page being applied.        *)
LEMMA UpsertStep ==
  ASSUME TypeOK, IngestInv, NEW r \in Runners, NEW s \in Sources, NEW j \in Jobs,
         NEW p \in Polls, NEW p2 \in Polls, p = poll[r][s],
         p.pc = "write", j \in p.tx, UNCHANGED <<board, changes, sched>>,
         \A t \in Sources, i \in Jobs :
           link'[<<t, i>>].hash = IF t = s /\ i = j THEN p.page.doc[j] ELSE link[<<t, i>>].hash,
         Goto(r, s, p2), p2.pc = "upsert", p2.page = p.page, p2.todo = p.todo \ p.tx
  PROVE OwnJobs' /\ CursorsVouched' /\ PollsOK'
<1>t. \A t \in Sources : /\ changes[t] \in Nat
                         /\ \A pg \in sched[t].cursor : pg.rev \in Nat
  BY DEF TypeOK, Scheds, Pages
<1>0. PageApplied(s, p) /\ ReadIsCurrent(s, p)
  BY DEF IngestInv, PollsOK, PollOK
<1>1. /\ p.page.rev \in Nat
      /\ Known(s, p.page) /\ Stored(s, p.page, p.todo)
      /\ \A pg \in sched[s].cursor : pg.rev <= p.page.rev
      /\ p.todo \subseteq Listed(p.page.doc)
  BY <1>0 DEF PageApplied, Polls, Pages
<1>2. p.tx = {j} /\ j \in p.todo
  BY <1>0 DEF ReadIsCurrent
<1>3. OwnJobs'
  BY <1>1, <1>2 DEF IngestInv, OwnJobs, Known
<1>4. CursorsVouched'
  <2> SUFFICES ASSUME NEW t \in Sources, NEW pg, pg \in sched[t].cursor
               PROVE Vouched(t, pg)'
    BY DEF CursorsVouched
  <2>1. Vouched(t, pg)
    BY DEF IngestInv, CursorsVouched
  <2>2. CASE t # s
    BY <2>1, <2>2, FrameVouched
  <2>3. CASE t = s
    <3>1. Known(s, pg)'
      BY <2>1, <2>3 DEF Vouched, Known, Listed
    <3>2. ASSUME pg.rev = changes[s] PROVE Stored(s, pg, {})'
      <4>1. p.page.rev = changes[s]
        BY <3>2, <2>3, <1>1, <1>t DEF Known
      <4>2. p.page.doc = pg.doc
        BY <3>2, <4>1, <1>1, <2>1, <2>3 DEF Known, Vouched
      <4> QED
        BY <4>2, <2>1, <2>3, <3>2 DEF Vouched, Stored, Listed
    <3> QED
      BY <3>1, <3>2, <2>3 DEF Vouched
  <2> QED
    BY <2>2, <2>3
<1>5. PollsOK'
  <2> SUFFICES ASSUME NEW q \in Runners, NEW t \in Sources PROVE PollOK(t, poll[q][t])'
    BY DEF PollsOK
  <2>1. poll'[q][t] = IF q = r /\ t = s THEN p2 ELSE poll[q][t]
    BY DEF Goto, TypeOK, Pollers
  <2>2. CASE t # s
    <3>1. PICK n \in Polls : n = poll[q][t]
      BY DEF TypeOK, Pollers
    <3>2. PollOK(t, n)
      BY <3>1 DEF IngestInv, PollsOK
    <3>3. PollOK(t, n)'
      BY <3>2, <2>2, FramePoll
    <3> QED
      BY <3>1, <3>3, <2>1, <2>2, PollPrime
  <2>3. CASE t = s /\ q # r
    <3>1. poll[q][s].pc = "none"
      BY <2>3 DEF IngestInv, Exclusive, NoDoubleFiring, Polling
    <3> QED
      BY <2>1, <2>3, <3>1 DEF PollOK, CursorRead, PageApplied, ReadIsCurrent
  <2>4. CASE t = s /\ q = r
    <3>1. Stored(s, p2.page, p2.todo)'
      BY <1>1, <1>2 DEF Stored, Listed
    <3>2. Known(s, p2.page)'
      BY <1>1 DEF Known, Listed
    <3>3. PageApplied(s, p2)'
      BY <3>1, <3>2, <1>1, <1>2 DEF PageApplied
    <3>4. PollOK(s, p2)'
      BY <3>3 DEF PollOK, CursorRead, ReadIsCurrent
    <3> QED
      BY <3>4, <2>1, <2>4, PollPrime
  <2> QED
    BY <2>2, <2>3, <2>4
<1> QED
  BY <1>3, <1>4, <1>5

LEMMA IngestStep ==
  ASSUME Orderly, TypeOK, IngestInv, [Next]_vars PROVE OwnJobs' /\ CursorsVouched' /\ PollsOK'
<1>0. /\ Pollers = Runners /\ Operators = {}
      /\ "upsert" \notin Faults /\ ETagsRecur = FALSE
  BY DEF Orderly, Scheduled, Pollers
<1>p. PollsOK /\ Exclusive /\ OwnJobs /\ CursorsVouched
  BY DEF IngestInv
<1>t. /\ \A r \in Runners, s \in Sources : poll[r][s] \in Polls
      /\ \A s \in Sources : changes[s] \in Nat /\ Page(s) \in Pages
      /\ \A s \in Sources : \A pg \in sched[s].cursor : pg \in Pages
      /\ \A pg \in Pages : pg.rev \in Nat
  BY PageType DEF TypeOK, Pollers, Scheds, Pages
<1>k. \A s \in Sources : /\ Page(s).doc = board[s] /\ Page(s).rev = changes[s]
                         /\ Known(s, Page(s))
  <2> TAKE s \in Sources
  <2>1. Page(s).doc = board[s] /\ Page(s).rev = changes[s]
    BY <1>0 DEF Page
  <2>2. Listed(board[s]) \subseteq Lists[s]
    BY <1>p DEF OwnJobs, Listed
  <2> QED
    BY <2>1, <2>2, <1>t DEF Known
<1>a. ASSUME NEW r \in Runners, NEW s \in Sources, Abandon(r, s),
             UNCHANGED <<board, changes, link, sched>>
      PROVE OwnJobs' /\ CursorsVouched' /\ PollsOK'
  BY <1>a, <1>p, GotoMovesOn, NoPollOK, NoPollType, FrameInv DEF Abandon
<1>b. ASSUME NEW r \in Runners, NEW s \in Sources, NEW p \in Polls, Goto(r, s, p), PollOK(s, p),
             UNCHANGED <<board, changes, link, sched>>
      PROVE OwnJobs' /\ CursorsVouched' /\ PollsOK'
  BY <1>b, <1>p, GotoMovesOn, FrameInv
<1>c. ASSUME UNCHANGED poll PROVE PollsMoveOn
  BY <1>c, <1>p, <1>t DEF PollsMoveOn, PollsOK
<1>1. ASSUME NEW r \in Runners, NEW S \in SUBSET Sources, Tick(r, S)
      PROVE OwnJobs' /\ CursorsVouched' /\ PollsOK'
  <2>1. \A s \in Sources : sched'[s].cursor = sched[s].cursor
    BY <1>1 DEF Tick, TypeOK, Scheds
  <2>2. PollsMoveOn
    <3> SUFFICES ASSUME NEW q \in Runners, NEW s \in Sources
                 PROVE \E p \in Polls : p = poll'[q][s] /\ PollOK(s, p)
      BY DEF PollsMoveOn
    <3>1. poll'[q][s] = IF q = r THEN (IF s \in S THEN Begin(s, "queued") ELSE NoPoll(s))
                        ELSE poll[q][s]
      BY <1>1, <1>0 DEF Tick, TypeOK
    <3>2. PollOK(s, poll[q][s]) /\ poll[q][s] \in Polls
      BY <1>p, <1>t DEF PollsOK
    <3>3. PICK b : b = Begin(s, "queued")
      OBVIOUS
    <3>4. /\ b \in Polls /\ b.pc = "queued" /\ b.cur = sched[s].cursor /\ b.todo = {}
      BY <3>3, NoPollType DEF Begin, NoPoll, Polls, TypeOK, Scheds
    <3>5. PollOK(s, b)
      BY <3>4, <1>p DEF PollOK, CursorRead, PageApplied, ReadIsCurrent, CursorsVouched
    <3> QED
      BY <3>1, <3>2, <3>3, <3>4, <3>5, NoPollOK, NoPollType
  <2> QED
    BY <1>1, <2>1, <2>2, FrameInv DEF Tick
<1>2. ASSUME NEW r \in Runners, NEW s \in Sources, Advance(r, s)
      PROVE OwnJobs' /\ CursorsVouched' /\ PollsOK'
  <2> PICK p \in Polls : p = poll[r][s]
    BY <1>t
  <2>0. PollOK(s, p)
    BY <1>p DEF PollsOK
  <2>1. CASE RunOne(r, s)
    <3>1. PICK n : n = [p EXCEPT !.pc = "fetch"]
      OBVIOUS
    <3>2. n \in Polls /\ n.pc = "fetch" /\ n.cur = p.cur /\ n.todo = p.todo
      BY <3>1 DEF Polls
    <3>3. PollOK(s, n)
      BY <2>0, <2>1, <3>2 DEF RunOne, At, PollOK, CursorRead, PageApplied, ReadIsCurrent
    <3> QED
      BY <2>1, <3>1, <3>2, <3>3, <1>b DEF RunOne
  <2>2. CASE FetchNotModified(r, s)
    <3>1. PICK n : n = [p EXCEPT !.pc = "save", !.page = Page(s)]
      OBVIOUS
    <3>2. n \in Polls /\ n.pc = "save" /\ n.page = Page(s) /\ n.todo = p.todo
      BY <3>1, <1>t DEF Polls
    <3>3. Vouched(s, Page(s)) /\ p.todo = {}
      BY <2>0, <2>2 DEF FetchNotModified, At, PollOK, CursorRead
    <3>4. \A pg \in sched[s].cursor : pg.rev <= Page(s).rev
      BY <1>p, <1>k DEF CursorsVouched, Vouched, Known
    <3>5. PageApplied(s, n)
      BY <3>2, <3>3, <3>4, <1>k DEF PageApplied, Vouched
    <3>6. PollOK(s, n)
      BY <3>2, <3>5 DEF PollOK, CursorRead, ReadIsCurrent
    <3> QED
      BY <2>2, <3>1, <3>2, <3>6, <1>b DEF FetchNotModified
  <2>3. CASE Fetch(r, s)
    <3>1. PICK n : n = [p EXCEPT !.pc = "upsert", !.page = Page(s), !.todo = Listed(board[s])]
      OBVIOUS
    <3>2. /\ n \in Polls /\ n.pc = "upsert" /\ n.page = Page(s)
          /\ n.todo = Listed(Page(s).doc)
      BY <3>1, <1>t, <1>k DEF Polls, Listed
    <3>4. \A pg \in sched[s].cursor : pg.rev <= Page(s).rev
      BY <1>p, <1>k DEF CursorsVouched, Vouched, Known
    <3>5. PageApplied(s, n)
      BY <3>2, <3>4, <1>k DEF PageApplied, Stored
    <3>6. PollOK(s, n)
      BY <3>2, <3>5 DEF PollOK, CursorRead, ReadIsCurrent
    <3> QED
      BY <2>3, <3>1, <3>2, <3>6, <1>b DEF Fetch
  <2>4. ASSUME NEW j \in Jobs, FindSourceRow(r, s, j)
        PROVE OwnJobs' /\ CursorsVouched' /\ PollsOK'
    <3>1. PICK n : n = [p EXCEPT !.pc = "write", !.tx = {j}, !.found = link[<<s, j>>]]
      OBVIOUS
    <3>2. link[<<s, j>>] \in Links
      BY DEF TypeOK, Postings
    <3>3. /\ n \in Polls /\ n.pc = "write" /\ n.page = p.page /\ n.todo = p.todo
          /\ n.tx = {j} /\ n.found = link[<<s, j>>]
      BY <3>1, <3>2 DEF Polls
    <3>4. p.pc = "upsert" /\ j \in n.todo
      BY <2>4, <3>3 DEF FindSourceRow, At
    <3>5. PageApplied(s, n)
      BY <3>3, <3>4, <2>0 DEF PollOK, PageApplied
    <3>6. PollOK(s, n)
      BY <3>3, <3>4, <3>5 DEF PollOK, CursorRead, ReadIsCurrent
    <3> QED
      BY <2>4, <3>1, <3>3, <3>6, <1>b DEF FindSourceRow
  <2>5. ASSUME NEW j \in Jobs,
               UpsertExisting(r, s, j) \/ UpsertNew(r, s, j)
        PROVE OwnJobs' /\ CursorsVouched' /\ PollsOK'
    <3>1. PICK n : n = [p EXCEPT !.pc = "upsert", !.todo = @ \ p.tx, !.seen = @ \cup {j},
                                 !.tx = {}, !.found = NoPoll(s).found]
      OBVIOUS
    <3>2. /\ NoPoll(s).found \in Links
          /\ p.todo \ p.tx \in SUBSET Jobs /\ p.seen \cup {j} \in SUBSET Jobs
      BY NoPollType DEF Polls
    <3>3. n \in Polls /\ n.pc = "upsert" /\ n.page = p.page /\ n.todo = p.todo \ p.tx
      BY ONLY <3>1, <3>2, p \in Polls DEF Polls
    <3>4. p.pc = "write" /\ j \in p.tx /\ Goto(r, s, n) /\ UNCHANGED <<board, changes, sched>>
      BY <2>5, <3>1 DEF UpsertExisting, UpsertNew, At, EndUpsert
    <3>5. \A t \in Sources, i \in Jobs :
            link'[<<t, i>>].hash = IF t = s /\ i = j THEN p.page.doc[j] ELSE link[<<t, i>>].hash
      <4>1. \A t \in Sources, i \in Jobs : <<t, i>> \in Postings /\ link[<<t, i>>] \in Links
        BY DEF TypeOK, Postings
      <4>2. CASE UpsertExisting(r, s, j)
        <5>1. link' = [link EXCEPT ![<<s, j>>] = [@ EXCEPT !.hash = p.page.doc[j]]]
          BY <4>2 DEF UpsertExisting, TouchSourceRow
        <5> QED
          BY <5>1, <4>1 DEF TypeOK, Links
      <4>3. CASE UpsertNew(r, s, j)
        <5>1. link' = [link EXCEPT ![<<s, j>>] = [opp |-> <<s, j>>, hash |-> p.page.doc[j]]]
          BY <4>3 DEF UpsertNew
        <5> QED
          BY <5>1, <4>1 DEF TypeOK
      <4> QED
        BY <2>5, <4>2, <4>3
    <3> QED
      BY <3>3, <3>4, <3>5, UpsertStep
  <2>6. ASSUME NEW j \in Jobs, UpsertRefused(r, s, j) PROVE FALSE
    <3>1. p.pc = "write" /\ j \in p.tx /\ p.found.hash = 0 /\ InsertRefused(<<s, j>>)
      BY <2>6 DEF UpsertRefused, At
    <3>2. j \in p.todo /\ p.found.hash = link[<<s, j>>].hash
      BY <3>1, <2>0 DEF PollOK, ReadIsCurrent
    <3>3. j \in Lists[s]
      BY <3>1, <3>2, <2>0 DEF PollOK, PageApplied, Known
    <3>4. PICK t \in Sources : link[<<t, j>>].hash # 0
      BY <3>1 DEF InsertRefused
    <3>5. j \in Lists[t]
      BY <3>4, <1>p DEF OwnJobs
    <3> QED
      BY <3>1, <3>2, <3>3, <3>4, <3>5 DEF Orderly
  <2>7. CASE Bump(r, s) \/ CloseMissedOpportunities(r, s) \/ RecordHealth(r, s)
    <3>1. PICK pc \in {"close", "health", "save"} : Goto(r, s, [p EXCEPT !.pc = pc])
      BY <2>7 DEF Bump, CloseMissedOpportunities, RecordHealth
    <3>2. PICK n : n = [p EXCEPT !.pc = pc]
      OBVIOUS
    <3>3. n \in Polls /\ n.pc = pc /\ n.page = p.page /\ n.todo = p.todo
      BY <3>2 DEF Polls
    <3>4. p.pc \in {"upsert", "close", "health"} /\ (p.pc = "upsert" => p.todo = {})
      BY <2>7 DEF Bump, CloseMissedOpportunities, RecordHealth, At
    <3>5. PageApplied(s, n)
      BY <2>0, <3>3, <3>4 DEF PollOK, PageApplied
    <3>6. PollOK(s, n)
      BY <3>3, <3>5 DEF PollOK, CursorRead, ReadIsCurrent
    <3>7. UNCHANGED <<board, changes, link, sched>>
      BY <2>7 DEF Bump, CloseMissedOpportunities, RecordHealth
    <3> QED
      BY <3>1, <3>2, <3>3, <3>6, <3>7, <1>b
  <2>8. CASE SaveSourceCursor(r, s)
    <3>1. PageApplied(s, p) /\ p.pc = "save" /\ UNCHANGED <<board, changes, link>>
      BY <2>0, <2>8 DEF PollOK, SaveSourceCursor, At
    <3>2. Vouched(s, p.page)
      BY <3>1 DEF PageApplied, Vouched
    <3>3. /\ sched'[s].cursor \subseteq {p.page}
          /\ \A t \in Sources : t # s => sched'[t] = sched[t]
      BY <2>8 DEF SaveSourceCursor, TypeOK
    <3>4. \A t \in Sources, j \in Jobs : link'[<<t, j>>].hash = link[<<t, j>>].hash
      BY <3>1
    <3>5. OwnJobs'
      BY <3>1, <1>p DEF OwnJobs
    <3>6. CursorsVouched'
      <4> SUFFICES ASSUME NEW t \in Sources, NEW pg, pg \in sched'[t].cursor
                   PROVE Vouched(t, pg)'
        BY DEF CursorsVouched
      <4>1. Vouched(t, pg)
        BY <3>2, <3>3, <1>p DEF CursorsVouched
      <4> QED
        BY <4>1, <3>1, <3>4, FrameVouched
    <3>7. PollsOK'
      <4> SUFFICES ASSUME NEW q \in Runners, NEW t \in Sources PROVE PollOK(t, poll[q][t])'
        BY DEF PollsOK
      <4>1. poll'[q][t] = IF q = r /\ t = s THEN NoPoll(s) ELSE poll[q][t]
        BY <2>8, <1>0 DEF SaveSourceCursor, Abandon, Goto, TypeOK
      <4>2. CASE t = s
        <5>1. poll'[q][t].pc = "none"
          <6>1. CASE q = r
            BY <6>1, <4>1, <4>2 DEF NoPoll
          <6>2. CASE q # r
            BY <6>2, <4>1, <4>2, <3>1, <1>p DEF Exclusive, NoDoubleFiring, Polling
          <6> QED
            BY <6>1, <6>2
        <5> QED
          BY <5>1 DEF PollOK, CursorRead, PageApplied, ReadIsCurrent
      <4>3. CASE t # s
        <5>1. PICK n \in Polls : n = poll[q][t]
          BY <1>t
        <5>2. PollOK(t, n)
          BY <5>1, <1>p DEF PollsOK
        <5>3. PollOK(t, n)'
          BY <5>2, <3>1, <3>3, <3>4, <4>3, FramePoll
        <5> QED
          BY <5>1, <5>3, <4>1, <4>3, PollPrime
      <4> QED
        BY <4>2, <4>3
    <3> QED
      BY <3>5, <3>6, <3>7
  <2> QED
    BY <1>2, <2>1, <2>2, <2>3, <2>4, <2>5, <2>6, <2>7, <2>8 DEF Advance
<1>3. ASSUME NEW r \in Runners, NEW s \in Sources, Fails(r, s)
      PROVE OwnJobs' /\ CursorsVouched' /\ PollsOK'
  <2>1. ~UpsertFails(r, s)
    BY <1>0 DEF UpsertFails, Fault
  <2>2. Abandon(r, s) /\ UNCHANGED <<board, changes, link, sched>>
    BY <1>3, <2>1 DEF Fails, RunOneFails, FetchFails, LivenessFails, SaveFails
  <2> QED
    BY <2>2, <1>a
<1>4. ASSUME NEW r \in Runners, Crash(r) PROVE OwnJobs' /\ CursorsVouched' /\ PollsOK'
  <2>1. PollsMoveOn
    <3> SUFFICES ASSUME NEW q \in Runners, NEW s \in Sources
                 PROVE \E p \in Polls : p = poll'[q][s] /\ PollOK(s, p)
      BY DEF PollsMoveOn
    <3>1. poll'[q][s] = IF q = r THEN NoPoll(s) ELSE poll[q][s]
      BY <1>4, <1>0 DEF Crash, TypeOK
    <3> QED
      BY <3>1, <1>p, <1>t, NoPollOK, NoPollType DEF PollsOK
  <2> QED
    BY <1>4, <2>1, FrameInv DEF Crash
<1>5. ASSUME NEW s \in Sources, AddSource(s) \/ BecomesDue(s) \/ LeaseExpires(s)
      PROVE OwnJobs' /\ CursorsVouched' /\ PollsOK'
  <2>1. \A t \in Sources : sched'[t].cursor \subseteq sched[t].cursor
    <3>1. CASE AddSource(s)
      BY <3>1 DEF AddSource, TypeOK, Scheds
    <3>2. CASE BecomesDue(s)
      BY <3>2 DEF BecomesDue, TypeOK, Scheds
    <3>3. CASE LeaseExpires(s)
      BY <3>3 DEF LeaseExpires, TypeOK, Scheds
    <3> QED
      BY <1>5, <3>1, <3>2, <3>3
  <2>2. UNCHANGED <<board, changes, link, poll>>
    BY <1>5 DEF AddSource, BecomesDue, LeaseExpires
  <2> QED
    BY <2>1, <2>2, <1>c, FrameInv
<1>6. ASSUME NEW d \in Duplicates, Merge(d[1], d[2])
      PROVE OwnJobs' /\ CursorsVouched' /\ PollsOK'
  <2>1. \A s \in Sources, j \in Jobs : link'[<<s, j>>].hash = link[<<s, j>>].hash
    BY <1>6 DEF Merge, MoveSourceRows, TypeOK, Links, Postings
  <2> QED
    BY <1>6, <2>1, <1>c, FrameInv DEF Merge
<1>7. ASSUME NEW s \in Sources, NEW j \in Jobs, NEW t \in Texts, ChangeBoard(s, j, t)
      PROVE OwnJobs' /\ CursorsVouched' /\ PollsOK'
  <2>1. /\ j \in Lists[s]
        /\ UNCHANGED <<link, sched, poll>>
        /\ \A u \in Sources : u # s => board'[u] = board[u] /\ changes'[u] = changes[u]
        /\ \A i \in Jobs : i # j => board'[s][i] = board[s][i]
        /\ changes'[s] = changes[s] + 1
    BY <1>7 DEF ChangeBoard, TypeOK, Docs
  <2>2. OwnJobs'
    BY <2>1, <1>p DEF OwnJobs
  <2>3. ASSUME NEW pg \in Pages, Known(s, pg)
        PROVE Known(s, pg)' /\ pg.rev # changes'[s]
    BY <2>1, <2>3, <1>t DEF Known, Listed
  <2>4. CursorsVouched'
    <3> SUFFICES ASSUME NEW u \in Sources, NEW pg, pg \in sched[u].cursor
                 PROVE Vouched(u, pg)'
      BY <2>1 DEF CursorsVouched
    <3>1. Vouched(u, pg) /\ pg \in Pages
      BY <1>p, <1>t DEF CursorsVouched
    <3>2. CASE u = s
      BY <3>1, <3>2, <2>3 DEF Vouched
    <3>3. CASE u # s
      BY <3>1, <3>3, <2>1, FrameVouched
    <3> QED
      BY <3>2, <3>3
  <2>5. PollsOK'
    <3> SUFFICES ASSUME NEW q \in Runners, NEW u \in Sources PROVE PollOK(u, poll[q][u])'
      BY DEF PollsOK
    <3>1. PICK n \in Polls : n = poll[q][u]
      BY <1>t
    <3>2. PollOK(u, n) /\ n.page \in Pages /\ n.cur \subseteq Pages
      BY <3>1, <1>p DEF PollsOK, Polls
    <3>3. CASE u # s
      BY <3>1, <3>2, <3>3, <2>1, FramePoll, PollPrime
    <3>4. CASE u = s
      <4>1. CursorRead(s, n)'
        BY <3>2, <3>4, <2>3 DEF PollOK, CursorRead, Vouched
      <4>2. PageApplied(s, n)'
        BY <3>2, <3>4, <2>1, <2>3 DEF PollOK, PageApplied, Stored
      <4>3. ReadIsCurrent(s, n)'
        BY <3>2, <3>4, <2>1 DEF PollOK, ReadIsCurrent
      <4>4. PollOK(s, n)'
        BY <4>1, <4>2, <4>3 DEF PollOK
      <4> QED
        BY <4>4, <3>1, <3>4, <2>1, PollPrime
    <3> QED
      BY <3>3, <3>4
  <2> QED
    BY <2>2, <2>4, <2>5
<1>8. CASE UNCHANGED vars
  BY <1>8, <1>c, FrameInv DEF vars
<1> QED
  BY <1>0, <1>1, <1>2, <1>3, <1>4, <1>5, <1>6, <1>7, <1>8 DEF Next

(* A board that would answer 304 has nothing left to store, whatever the    *)
(* runners, boards and jobs, and through crashes, failed fetches, lost      *)
(* statements, merges and re-registrations. The invariant says why: a page  *)
(* is saved as the cursor only when all it lists is stored, and nothing     *)
(* older is ever written over it.                                           *)
THEOREM CursorVouchesForStored ==
  ASSUME Orderly PROVE Spec => []NotModifiedMeansStored
<1>1. Init => IngestInv
  <2> SUFFICES ASSUME Init PROVE IngestInv
    OBVIOUS
  <2>1. Exclusive
    BY DEF Init, Exclusive, NoDoubleFiring, PollersHoldLease, Polling, NoPoll, Pollers
  <2>2. OwnJobs
    BY DEF Init, OwnJobs, NoRow, Postings, Listed
  <2>3. CursorsVouched
    BY DEF Init, CursorsVouched
  <2>4. PollsOK
    BY NoPollOK DEF Init, PollsOK, Pollers
  <2> QED
    BY <2>1, <2>2, <2>3, <2>4 DEF IngestInv
<1>2. TypeOK /\ IngestInv /\ [Next]_vars => IngestInv'
  BY IngestStep, ExclusiveStep DEF IngestInv, Orderly
<1>3. IngestInv => NotModifiedMeansStored
  <2> SUFFICES ASSUME IngestInv, NEW s \in Sources, sched[s].cursor = {Page(s)},
                      NEW j \in Listed(board[s])
               PROVE link[<<s, j>>].hash = board[s][j]
    BY DEF NotModifiedMeansStored
  <2>1. Page(s).doc = board[s] /\ Page(s).rev = changes[s]
    BY DEF Page, Orderly
  <2>2. Stored(s, Page(s), {})
    BY <2>1 DEF IngestInv, CursorsVouched, Vouched
  <2> QED
    BY <2>1, <2>2 DEF Stored
<1> QED
  BY <1>1, <1>2, <1>3, Typed, PTL DEF Spec
-----------------------------------------------------------------------------
(* What a poll p of s has in hand is listed on its page, and a row that its *)
(* open transaction found is still there and names an opportunity.          *)
PollKnows(s, p) ==
  /\ p.pc \in {"queued", "fetch"} => p.todo = {} /\ p.tx = {}
  /\ p.todo \subseteq Listed(p.page.doc) /\ p.tx \subseteq Listed(p.page.doc)
  /\ p.found.hash # 0 => /\ opp[p.found.opp].text # 0
                         /\ \A j \in p.tx : link[<<s, j>>].hash # 0

(* An opportunity that exists has the source row it was created with.       *)
Sourced == \A o \in Postings : opp[o].text # 0 => link[o].hash # 0

LinksInv ==
  /\ LinksAreCanonical
  /\ Sourced
  /\ \A r \in Pollers, s \in Sources : PollKnows(s, poll[r][s])

LEMMA NoPollKnows == \A s \in Sources : PollKnows(s, NoPoll(s))
  BY DEF PollKnows, NoPoll, NoRow

(* No step takes away an opportunity or a source row.                       *)
Grows ==
  /\ \A o \in Postings : opp[o].text # 0 => opp'[o].text # 0
  /\ \A p \in Postings : link[p].hash # 0 => link'[p].hash # 0

(* Every poll is as it was, or knows no more than there is.                 *)
PollsKnow == \A r \in Pollers, s \in Sources : PollKnows(s, poll'[r][s])

LEMMA KnowledgeStays ==
  ASSUME TypeOK', Grows, PollsKnow
  PROVE  \A r \in Pollers, s \in Sources : PollKnows(s, poll[r][s])'
<1> SUFFICES ASSUME NEW r \in Pollers, NEW s \in Sources PROVE PollKnows(s, poll[r][s])'
  OBVIOUS
<1>1. PICK n \in Polls : n = poll'[r][s]
  BY DEF TypeOK
<1>2. PollKnows(s, n)
  BY <1>1 DEF PollsKnow
<1>3. n.found.opp \in Postings /\ n.tx \subseteq Jobs
  BY DEF Polls, Links
<1>4. \A j \in n.tx : <<s, j>> \in Postings
  BY <1>3 DEF Postings
<1>5. n.found.hash # 0 => /\ opp'[n.found.opp].text # 0
                          /\ \A j \in n.tx : link'[<<s, j>>].hash # 0
  BY <1>2, <1>3, <1>4 DEF PollKnows, Grows
<1> QED
  BY <1>1, <1>2, <1>5 DEF PollKnows

LEMMA GotoKnows ==
  ASSUME TypeOK, LinksInv, NEW r \in Pollers, NEW s \in Sources, NEW n, Goto(r, s, n),
         PollKnows(s, n)
  PROVE  PollsKnow
<1> SUFFICES ASSUME NEW q \in Pollers, NEW t \in Sources PROVE PollKnows(t, poll'[q][t])
  BY DEF PollsKnow
<1>1. poll'[q][t] = IF q = r /\ t = s THEN n ELSE poll[q][t]
  BY DEF Goto, TypeOK
<1>2. PollKnows(t, poll[q][t])
  BY DEF LinksInv
<1> QED
  BY <1>1, <1>2

LEMMA EndUpsertKnows ==
  ASSUME TypeOK, LinksInv, NEW r \in Pollers, NEW s \in Sources, NEW S, EndUpsert(r, s, S)
  PROVE  PollsKnow
<1>1. PICK p \in Polls : p = poll[r][s]
  BY DEF TypeOK
<1>2. PICK n : n = [p EXCEPT !.pc = "upsert", !.todo = p.todo \ p.tx, !.seen = p.seen \cup S,
                             !.tx = {}, !.found = NoPoll(s).found]
  OBVIOUS
<1>3. /\ n.pc = "upsert" /\ n.todo = p.todo \ p.tx /\ n.tx = {} /\ n.page = p.page
      /\ n.found = NoPoll(s).found
  BY <1>2 DEF Polls
<1>4. n.found.hash = 0
  BY <1>3 DEF NoPoll, NoRow
<1>5. PollKnows(s, p)
  BY <1>1 DEF LinksInv
<1>6. PollKnows(s, n)
  BY <1>3, <1>4, <1>5 DEF PollKnows
<1>7. Goto(r, s, n)
  BY <1>1, <1>2 DEF EndUpsert
<1> QED
  BY <1>6, <1>7, GotoKnows

LEMMA AdvanceKnows ==
  ASSUME TypeOK, LinksInv, NEW r \in Pollers, NEW s \in Sources, Advance(r, s)
  PROVE  PollsKnow
<1>0. PICK p \in Polls : p = poll[r][s]
  BY DEF TypeOK
<1>k. PollKnows(s, p)
  BY <1>0 DEF LinksInv
<1>g. ASSUME NEW pc, pc # "queued", pc # "fetch" \/ p.pc = "queued",
             Goto(r, s, [p EXCEPT !.pc = pc])
      PROVE  PollsKnow
  <2>1. PICK n : n = [p EXCEPT !.pc = pc]
    OBVIOUS
  <2>2. n.pc = pc /\ n.todo = p.todo /\ n.tx = p.tx /\ n.page = p.page /\ n.found = p.found
    BY <2>1 DEF Polls
  <2>3. PollKnows(s, n)
    BY <1>k, <1>g, <2>2 DEF PollKnows
  <2> QED
    BY <1>g, <2>1, <2>3, GotoKnows
<1>1. CASE RunOne(r, s)
  BY <1>0, <1>g, <1>1 DEF RunOne, At
<1>2. CASE Bump(r, s)
  BY <1>0, <1>g, <1>2 DEF Bump
<1>3. CASE CloseMissedOpportunities(r, s)
  BY <1>0, <1>g, <1>3 DEF CloseMissedOpportunities
<1>4. CASE RecordHealth(r, s)
  BY <1>0, <1>g, <1>4 DEF RecordHealth
<1>5. CASE SaveSourceCursor(r, s)
  BY <1>5, NoPollKnows, GotoKnows DEF SaveSourceCursor, Abandon
<1>6. CASE FetchNotModified(r, s)
  <2>1. PICK n : n = [p EXCEPT !.pc = "save", !.page = Page(s)]
    OBVIOUS
  <2>2. n.pc = "save" /\ n.todo = p.todo /\ n.tx = p.tx /\ n.found = p.found
    BY <2>1 DEF Polls
  <2>3. p.pc = "fetch" /\ Goto(r, s, n)
    BY <1>0, <1>6, <2>1 DEF FetchNotModified, At
  <2>4. PollKnows(s, n)
    BY <1>k, <2>2, <2>3 DEF PollKnows
  <2> QED
    BY <2>3, <2>4, GotoKnows
<1>7. CASE Fetch(r, s)
  <2>1. PICK n : n = [p EXCEPT !.pc = "upsert", !.page = Page(s), !.todo = Listed(board[s])]
    OBVIOUS
  <2>2. /\ n.pc = "upsert" /\ n.todo = Listed(board[s]) /\ n.tx = p.tx /\ n.found = p.found
        /\ n.page = Page(s)
    BY <2>1 DEF Polls
  <2>3. p.pc = "fetch" /\ Goto(r, s, n)
    BY <1>0, <1>7, <2>1 DEF Fetch, At
  <2>4. Page(s).doc = board[s]
    BY DEF Page
  <2>5. PollKnows(s, n)
    BY <1>k, <2>2, <2>3, <2>4 DEF PollKnows
  <2> QED
    BY <2>3, <2>5, GotoKnows
<1>8. ASSUME NEW j \in Jobs, FindSourceRow(r, s, j) PROVE PollsKnow
  <2>1. PICK l \in Links : l = link[<<s, j>>]
    BY DEF TypeOK, Postings
  <2>2. PICK n : n = [p EXCEPT !.pc = "write", !.tx = {j}, !.found = l]
    OBVIOUS
  <2>3. n.pc = "write" /\ n.todo = p.todo /\ n.tx = {j} /\ n.found = l /\ n.page = p.page
    BY <2>2 DEF Polls
  <2>4. j \in p.todo /\ Goto(r, s, n)
    BY <1>0, <1>8, <2>1, <2>2 DEF FindSourceRow
  <2>5. l.hash # 0 => opp[l.opp].text # 0
    BY <2>1 DEF LinksInv, LinksAreCanonical, Postings
  <2>6. PollKnows(s, n)
    BY <1>k, <2>1, <2>3, <2>4, <2>5 DEF PollKnows
  <2> QED
    BY <2>4, <2>6, GotoKnows
<1>9. ASSUME NEW j \in Jobs,
             UpsertExisting(r, s, j) \/ UpsertNew(r, s, j) \/ UpsertRefused(r, s, j)
      PROVE  PollsKnow
  BY <1>9, EndUpsertKnows DEF UpsertExisting, UpsertNew, UpsertRefused
<1> QED
  BY <1>1, <1>2, <1>3, <1>4, <1>5, <1>6, <1>7, <1>8, <1>9, Zenon DEF Advance

LEMMA AllPollsKnow ==
  ASSUME TypeOK, LinksInv, [Next]_vars PROVE PollsKnow
<1>0. poll' = poll => PollsKnow
  BY DEF LinksInv, PollsKnow
<1>1. ASSUME NEW r \in Runners, NEW S \in SUBSET Sources, Tick(r, S) PROVE PollsKnow
  <2> SUFFICES ASSUME NEW q \in Pollers, NEW t \in Sources PROVE PollKnows(t, poll'[q][t])
    BY DEF PollsKnow
  <2>1. poll'[q][t] = IF q = r THEN (IF t \in S THEN Begin(t, "queued") ELSE NoPoll(t))
                      ELSE poll[q][t]
    BY <1>1 DEF Tick, TypeOK, Pollers
  <2>2. PollKnows(t, Begin(t, "queued"))
    BY DEF PollKnows, Begin, NoPoll, NoRow
  <2> QED
    BY <2>1, <2>2, NoPollKnows DEF LinksInv
<1>2. ASSUME NEW r \in Operators, NEW s \in Sources, RunOnce(r, s) PROVE PollsKnow
  <2>1. PollKnows(s, Begin(s, "fetch"))
    BY DEF PollKnows, Begin, NoPoll, NoRow
  <2>2. r \in Pollers /\ Goto(r, s, Begin(s, "fetch"))
    BY <1>2 DEF RunOnce, Pollers
  <2> QED
    BY <2>1, <2>2, GotoKnows
<1>3. ASSUME NEW r \in Pollers, NEW s \in Sources, Fails(r, s) PROVE PollsKnow
  <2>1. CASE UpsertFails(r, s)
    BY <2>1, EndUpsertKnows DEF UpsertFails
  <2>2. CASE RunOneFails(r, s) \/ FetchFails(r, s) \/ LivenessFails(r, s) \/ SaveFails(r, s)
    <3>1. Goto(r, s, NoPoll(s))
      BY <2>2 DEF RunOneFails, FetchFails, LivenessFails, SaveFails, Abandon
    <3> QED
      BY <3>1, NoPollKnows, GotoKnows
  <2> QED
    BY <1>3, <2>1, <2>2 DEF Fails
<1>4. ASSUME NEW r \in Pollers, Crash(r) PROVE PollsKnow
  <2> SUFFICES ASSUME NEW q \in Pollers, NEW t \in Sources PROVE PollKnows(t, poll'[q][t])
    BY DEF PollsKnow
  <2>1. poll'[q][t] = IF q = r THEN NoPoll(t) ELSE poll[q][t]
    BY <1>4 DEF Crash, TypeOK
  <2> QED
    BY <2>1, NoPollKnows DEF LinksInv
<1>5. ASSUME NEW s \in Sources, AddSource(s) \/ BecomesDue(s) \/ LeaseExpires(s)
      PROVE  PollsKnow
  BY <1>0, <1>5 DEF AddSource, BecomesDue, LeaseExpires
<1>6. ASSUME NEW d \in Duplicates, Merge(d[1], d[2]) PROVE PollsKnow
  BY <1>0, <1>6 DEF Merge
<1>7. ASSUME NEW s \in Sources, NEW j \in Jobs, NEW t \in Texts, ChangeBoard(s, j, t)
      PROVE  PollsKnow
  BY <1>0, <1>7 DEF ChangeBoard
<1>8. CASE UNCHANGED vars
  BY <1>0, <1>8 DEF vars
<1> QED
  BY <1>1, <1>2, <1>3, <1>4, <1>5, <1>6, <1>7, <1>8, AdvanceKnows, Zenon DEF Next
-----------------------------------------------------------------------------
(* What the rows keep through a step.                                       *)
RowsKept == Grows /\ LinksAreCanonical' /\ Sourced'

LEMMA SameRows ==
  ASSUME LinksInv, TypeOK, UNCHANGED link,
         \A o \in Postings : opp'[o].text = opp[o].text /\ opp'[o].merged = opp[o].merged
  PROVE  RowsKept
<1>1. \A p \in Postings : link[p].opp \in Postings
  BY DEF TypeOK, Links
<1>2. LinksAreCanonical'
  BY <1>1 DEF LinksInv, LinksAreCanonical
<1> QED
  BY <1>2 DEF RowsKept, Grows, LinksInv, Sourced

LEMMA ExistingRows ==
  ASSUME TypeOK, LinksInv, NEW r \in Pollers, NEW s \in Sources, NEW j \in Jobs,
         UpsertExisting(r, s, j)
  PROVE  RowsKept
<1>0. PICK p \in Polls : p = poll[r][s]
  BY DEF TypeOK
<1>1. PICK f \in Links, t \in Texts : f = p.found /\ t = p.page.doc[j]
  BY PollParts
<1>2. /\ j \in p.tx /\ f.hash # 0
      /\ opp' = [opp EXCEPT ![f.opp] = IF f.hash = t THEN MarkOpportunitySeen(@)
                                       ELSE UpdateOpportunityFromPosting(@, t)]
      /\ link' = [link EXCEPT ![<<s, j>>] = TouchSourceRow(@, t)]
  BY <1>0, <1>1 DEF UpsertExisting
<1>3. t # 0 /\ opp[f.opp].text # 0 /\ link[<<s, j>>].hash # 0
  <2>1. PollKnows(s, p)
    BY <1>0 DEF LinksInv
  <2> QED
    BY <2>1, <1>1, <1>2 DEF PollKnows, Listed
<1>4. f.opp \in Postings /\ <<s, j>> \in Postings
  BY DEF Links, Postings
<1>5. \A o \in Opps : /\ MarkOpportunitySeen(o).text = o.text
                      /\ MarkOpportunitySeen(o).merged = o.merged
                      /\ UpdateOpportunityFromPosting(o, t).text = t
                      /\ UpdateOpportunityFromPosting(o, t).merged = o.merged
  BY DEF Opps, MarkOpportunitySeen, UpdateOpportunityFromPosting
<1>6. \A o \in Postings : opp[o] \in Opps /\ link[o] \in Links
  BY DEF TypeOK
<1>7. \A o \in Postings : /\ opp'[o].merged = opp[o].merged
                          /\ opp'[o].text # 0 <=> opp[o].text # 0
  <2>1. \A o \in Postings : opp'[o] = IF o # f.opp THEN opp[o]
                                      ELSE IF f.hash = t THEN MarkOpportunitySeen(opp[o])
                                      ELSE UpdateOpportunityFromPosting(opp[o], t)
    BY <1>2 DEF TypeOK
  <2> QED
    BY <2>1, <1>3, <1>4, <1>5, <1>6
<1>8. \A l \in Links : TouchSourceRow(l, t).opp = l.opp /\ TouchSourceRow(l, t).hash = t
  BY DEF Links, TouchSourceRow
<1>9. \A q \in Postings : /\ link'[q].opp = link[q].opp
                          /\ link'[q].hash # 0 <=> link[q].hash # 0
  <2>1. \A q \in Postings : link'[q] = IF q = <<s, j>> THEN TouchSourceRow(link[q], t)
                                       ELSE link[q]
    BY <1>2 DEF TypeOK
  <2> QED
    BY <2>1, <1>3, <1>6, <1>8
<1>10. \A q \in Postings : link[q].opp \in Postings
  BY <1>6 DEF Links
<1>11. LinksAreCanonical'
  BY <1>7, <1>9, <1>10 DEF LinksInv, LinksAreCanonical
<1> QED
  BY <1>7, <1>9, <1>11 DEF RowsKept, Grows, LinksInv, Sourced

LEMMA NewRows ==
  ASSUME TypeOK, LinksInv, NEW r \in Pollers, NEW s \in Sources, NEW j \in Jobs,
         UpsertNew(r, s, j)
  PROVE  RowsKept
<1>0. PICK p \in Polls : p = poll[r][s]
  BY DEF TypeOK
<1>1. PICK t \in Texts, i \in Postings : t = p.page.doc[j] /\ i = <<s, j>>
  BY PollParts DEF Postings
<1>2. /\ j \in p.tx /\ link[i].hash = 0
      /\ opp' = [opp EXCEPT ![i] = InsertOpportunityFromPosting(t)]
      /\ link' = [link EXCEPT ![i] = [opp |-> i, hash |-> t]]
  BY <1>0, <1>1 DEF UpsertNew, InsertRefused
<1>3. t # 0
  <2>1. PollKnows(s, p)
    BY <1>0 DEF LinksInv
  <2> QED
    BY <2>1, <1>1, <1>2 DEF PollKnows, Listed
<1>4. \A o \in Postings : opp'[o] = IF o = i THEN InsertOpportunityFromPosting(t) ELSE opp[o]
  BY <1>2 DEF TypeOK
<1>5. \A q \in Postings : link'[q] = IF q = i THEN [opp |-> i, hash |-> t] ELSE link[q]
  BY <1>2 DEF TypeOK
<1>6. InsertOpportunityFromPosting(t).text = t /\ ~InsertOpportunityFromPosting(t).merged
  BY DEF InsertOpportunityFromPosting
<1>7. opp[i].text = 0
  BY <1>2 DEF LinksInv, Sourced
<1>8. \A q \in Postings : link[q].opp \in Postings
  BY DEF TypeOK, Links
<1>9. LinksAreCanonical'
  <2> SUFFICES ASSUME NEW q \in Postings, link'[q].hash # 0
               PROVE  opp'[link'[q].opp].text # 0 /\ ~opp'[link'[q].opp].merged
    BY DEF LinksAreCanonical
  <2>1. CASE q = i
    BY <2>1, <1>3, <1>4, <1>5, <1>6
  <2>2. CASE q # i
    <3>1. link'[q] = link[q] /\ link[q].opp \in Postings
      BY <2>2, <1>5, <1>8
    <3>2. opp[link[q].opp].text # 0 /\ ~opp[link[q].opp].merged
      BY <3>1 DEF LinksInv, LinksAreCanonical
    <3>3. opp'[link[q].opp] = opp[link[q].opp]
      BY <3>1, <3>2, <1>4, <1>7
    <3> QED
      BY <3>1, <3>2, <3>3
  <2> QED
    BY <2>1, <2>2
<1>10. Grows
  BY <1>3, <1>4, <1>5, <1>6 DEF Grows
<1>11. Sourced'
  BY <1>3, <1>4, <1>5, <1>6 DEF LinksInv, Sourced
<1> QED
  BY <1>9, <1>10, <1>11 DEF RowsKept

LEMMA MergedRows ==
  ASSUME TypeOK, LinksInv, NEW from \in Postings, NEW into \in Postings, Merge(from, into)
  PROVE  RowsKept
<1>1. /\ from # into /\ opp[into].text # 0 /\ ~opp[into].merged
      /\ \A q \in Postings : link'[q] = MoveSourceRows(link[q], from, into)
      /\ opp' = [opp EXCEPT ![from].merged = TRUE]
  BY DEF Merge
<1>2. \A q \in Postings : link[q] \in Links /\ link[q].opp \in Postings /\ opp[q] \in Opps
  BY DEF TypeOK, Links
<1>3. \A l \in Links : /\ MoveSourceRows(l, from, into).opp = IF l.opp = from THEN into ELSE l.opp
                       /\ MoveSourceRows(l, from, into).hash = l.hash
  BY DEF MoveSourceRows, Links
<1>4. \A q \in Postings : /\ link'[q].opp = IF link[q].opp = from THEN into ELSE link[q].opp
                          /\ link'[q].hash = link[q].hash
  BY <1>1, <1>2, <1>3
<1>5. \A o \in Postings : /\ opp'[o].text = opp[o].text
                          /\ o # from => opp'[o].merged = opp[o].merged
  BY <1>1, <1>2 DEF TypeOK, Opps
<1>6. LinksAreCanonical'
  BY <1>1, <1>2, <1>4, <1>5 DEF LinksInv, LinksAreCanonical
<1> QED
  BY <1>4, <1>5, <1>6 DEF RowsKept, Grows, LinksInv, Sourced

LEMMA AllRowsKept ==
  ASSUME TypeOK, LinksInv, [Next]_vars PROVE RowsKept
<1>0. UNCHANGED <<opp, link>> => RowsKept
  BY SameRows
<1>1. ASSUME NEW r \in Runners, NEW S \in SUBSET Sources, Tick(r, S) PROVE RowsKept
  BY <1>0, <1>1 DEF Tick
<1>2. ASSUME NEW r \in Operators, NEW s \in Sources, RunOnce(r, s) PROVE RowsKept
  BY <1>0, <1>2 DEF RunOnce
<1>3. ASSUME NEW r \in Pollers, NEW s \in Sources, Fails(r, s) PROVE RowsKept
  BY <1>0, <1>3 DEF Fails, RunOneFails, FetchFails, UpsertFails, LivenessFails, SaveFails
<1>4. ASSUME NEW r \in Pollers, NEW s \in Sources, Advance(r, s) PROVE RowsKept
  <2>0. \A o \in Postings : opp[o] \in Opps
    BY DEF TypeOK
  <2>1. CASE Bump(r, s)
    <3>1. \A o \in Postings : /\ BumpMissesForAbsent(o, s, poll[r][s].seen).text = opp[o].text
                              /\ BumpMissesForAbsent(o, s, poll[r][s].seen).merged = opp[o].merged
      BY <2>0 DEF BumpMissesForAbsent, Opps
    <3> QED
      BY <2>1, <3>1, SameRows DEF Bump
  <2>2. CASE CloseMissedOpportunities(r, s)
    <3>1. \A o \in Opps : CloseMissed(o).text = o.text /\ CloseMissed(o).merged = o.merged
      BY DEF CloseMissed, Opps
    <3> QED
      BY <2>0, <2>2, <3>1, SameRows DEF CloseMissedOpportunities
  <2>3. ASSUME NEW j, \/ RunOne(r, s) \/ FetchNotModified(r, s) \/ Fetch(r, s)
                      \/ FindSourceRow(r, s, j) \/ UpsertRefused(r, s, j)
                      \/ RecordHealth(r, s) \/ SaveSourceCursor(r, s)
        PROVE  RowsKept
    BY <1>0, <2>3 DEF RunOne, FetchNotModified, Fetch, FindSourceRow, UpsertRefused,
                      RecordHealth, SaveSourceCursor
  <2> QED
    BY <1>4, <2>1, <2>2, <2>3, ExistingRows, NewRows, Zenon DEF Advance
<1>5. ASSUME NEW r \in Pollers, Crash(r) PROVE RowsKept
  BY <1>0, <1>5 DEF Crash
<1>6. ASSUME NEW s \in Sources, AddSource(s) \/ BecomesDue(s) \/ LeaseExpires(s)
      PROVE  RowsKept
  BY <1>0, <1>6 DEF AddSource, BecomesDue, LeaseExpires
<1>7. ASSUME NEW d \in Duplicates, Merge(d[1], d[2]) PROVE RowsKept
  BY <1>7, MergedRows, DuplicatesAssumption
<1>8. ASSUME NEW s \in Sources, NEW j \in Jobs, NEW t \in Texts, ChangeBoard(s, j, t)
      PROVE  RowsKept
  BY <1>0, <1>8 DEF ChangeBoard
<1>9. CASE UNCHANGED vars
  BY <1>0, <1>9 DEF vars
<1> QED
  BY <1>1, <1>2, <1>3, <1>4, <1>5, <1>6, <1>7, <1>8, <1>9, Zenon DEF Next

(* Every source row names a canonical opportunity, and this needs none of   *)
(* the assumptions above: polls by hand, two runners at one source, boards  *)
(* that share jobs, failing upserts and merges between the read and the     *)
(* write of an upsert included.                                             *)
THEOREM LinksStayCanonical == Spec => []LinksAreCanonical
<1>1. Init => LinksInv
  <2> SUFFICES ASSUME Init PROVE LinksInv
    OBVIOUS
  <2>1. LinksAreCanonical
    BY DEF Init, LinksAreCanonical, NoRow
  <2>2. Sourced
    BY DEF Init, Sourced, InsertOpportunityFromPosting
  <2>3. \A r \in Pollers, s \in Sources : PollKnows(s, poll[r][s])
    BY NoPollKnows DEF Init
  <2> QED
    BY <2>1, <2>2, <2>3 DEF LinksInv
<1>2. TypeOK /\ TypeOK' /\ LinksInv /\ [Next]_vars => LinksInv'
  BY AllRowsKept, AllPollsKnow, KnowledgeStays DEF RowsKept, LinksInv
<1>3. LinksInv => LinksAreCanonical
  BY DEF LinksInv
<1> QED
  BY <1>1, <1>2, <1>3, Typed, PTL DEF Spec
-----------------------------------------------------------------------------
(* Induction, as a fact about sets of naturals.                             *)
LEMMA LeastNatural ==
  ASSUME NEW T \in SUBSET Nat, T # {}
  PROVE  \E x \in T : \A y \in T : x <= y
<1>1. PICK R : R = OpToRel(<, Nat)
  BY Zenon
<1>2. R = {ss \in Nat \X Nat : ss[1] < ss[2]}
  BY <1>1, Zenon DEF OpToRel
<1>3. IsWellFoundedOn(R, Nat)
  BY <1>1, NatLessThanWellFounded, Zenon
<1>4. PICK x \in T : \A y \in T : ~(<<y, x>> \in R)
  BY <1>3, WFMin
<1>5. \A y \in T : ~(y < x)
  BY <1>2, <1>4
<1> QED
  BY <1>5

LEMMA Induct ==
  ASSUME NEW T \in SUBSET Nat, 0 \in T, \A n \in T : n + 1 \in T
  PROVE  T = Nat
<1>1. SUFFICES ASSUME Nat \ T # {} PROVE FALSE
  OBVIOUS
<1>2. PICK x \in Nat \ T : \A y \in Nat \ T : x <= y
  BY <1>1, LeastNatural
<1>3. x # 0 /\ x - 1 \in Nat /\ ~(x <= x - 1)
  BY <1>2
<1>4. x - 1 \in T
  BY <1>2, <1>3
<1>5. (x - 1) + 1 \in T
  BY <1>4
<1> QED
  BY <1>2, <1>3, <1>5

(* Sums of naturals over finite sets. What SumFunctionOnSet computes, by    *)
(* recursion over the subsets of its indices.                               *)
Pick(s) == CHOOSE x \in s : TRUE
Sums(f, S, g) ==
  g = [s \in SUBSET S |-> IF s = {} THEN 0 ELSE f[Pick(s)] + g[s \ {Pick(s)}]]

LEMMA SumUnfolds ==
  ASSUME NEW f, NEW S PROVE SumFunctionOnSet(f, S) = (CHOOSE g : Sums(f, S, g))[S]
  BY Zenon DEF SumFunctionOnSet, FoldFunctionOnSet, MapThenFoldSet, Sums, Pick

LEMMA PickShrinks ==
  ASSUME NEW s, IsFiniteSet(s), s # {}
  PROVE  /\ Pick(s) \in s
         /\ IsFiniteSet(s \ {Pick(s)})
         /\ Cardinality(s) \in Nat /\ Cardinality(s \ {Pick(s)}) \in Nat
         /\ Cardinality(s \ {Pick(s)}) + 1 = Cardinality(s)
<1>1. Pick(s) \in s
  BY DEF Pick
<1>2. Cardinality(s) \in Nat
  BY FS_CardinalityType
<1>3. /\ IsFiniteSet(s \ {Pick(s)})
      /\ Cardinality(s \ {Pick(s)}) = Cardinality(s) - 1
  BY <1>1, FS_RemoveElement
<1>4. Cardinality(s \ {Pick(s)}) \in Nat
  BY <1>3, FS_CardinalityType
<1> QED
  BY <1>1, <1>2, <1>3, <1>4

LEMMA SumsExist ==
  ASSUME NEW S, IsFiniteSet(S), NEW f, \A x \in S : f[x] \in Nat
  PROVE  \E g : Sums(f, S, g)
<1> DEFINE Small(n) == {s \in SUBSET S : Cardinality(s) <= n}
           Next1(g, s) == IF s = {} THEN 0 ELSE f[Pick(s)] + g[s \ {Pick(s)}]
           Good(n, g) == g \in [Small(n) -> Nat] /\ \A s \in Small(n) : g[s] = Next1(g, s)
           T == {n \in Nat : \E g : Good(n, g)}
<1>1. \A s \in SUBSET S : IsFiniteSet(s) /\ Cardinality(s) \in Nat
  BY FS_Subset, FS_CardinalityType
<1>2. 0 \in T
  <2>1. \A s \in Small(0) : s = {}
    BY <1>1, FS_EmptySet
  <2>2. Good(0, [s \in Small(0) |-> 0])
    BY <2>1
  <2> QED
    BY <2>2
<1>3. \A n \in T : n + 1 \in T
  <2>1. TAKE n \in T
  <2>2. PICK g : Good(n, g)
    OBVIOUS
  <2> DEFINE h == [s \in Small(n + 1) |-> Next1(g, s)]
  <2>3. \A s \in Small(n + 1) : s # {} => Pick(s) \in s /\ s \ {Pick(s)} \in Small(n)
    BY <1>1, PickShrinks
  <2>4. \A s \in Small(n) : s \in Small(n + 1) /\ h[s] = g[s]
    BY <1>1, <2>2
  <2>5. h \in [Small(n + 1) -> Nat]
    BY <2>2, <2>3
  <2>6. \A s \in Small(n + 1) : h[s] = Next1(h, s)
    BY <2>3, <2>4
  <2>7. Good(n + 1, h)
    BY <2>5, <2>6
  <2>8. n + 1 \in Nat
    OBVIOUS
  <2> HIDE DEF Good
  <2> QED
    BY <2>7, <2>8
<1>4. T = Nat
  <2> HIDE DEF T
  <2>1. T \in SUBSET Nat
    BY DEF T
  <2> QED
    BY <1>2, <1>3, <2>1, Induct
<1>5. Cardinality(S) \in T
  BY <1>1, <1>4
<1>6. PICK g : Good(Cardinality(S), g)
  BY <1>5
<1>7. Small(Cardinality(S)) = SUBSET S
  BY <1>1, FS_Subset
<1>8. g = [s \in SUBSET S |-> Next1(g, s)]
  BY <1>6, <1>7
<1> QED
  BY <1>8 DEF Sums

(* Two such recursions, over S and over a subset of it, agree, and their    *)
(* values are naturals.                                                     *)
LEMMA SumsAgree ==
  ASSUME NEW S, IsFiniteSet(S), NEW f, \A x \in S : f[x] \in Nat, NEW R \in SUBSET S,
         NEW g, Sums(f, S, g), NEW h, Sums(f, R, h)
  PROVE  \A s \in SUBSET R : g[s] = h[s] /\ g[s] \in Nat
<1> DEFINE T == {n \in Nat : \A s \in SUBSET R : Cardinality(s) <= n => g[s] = h[s] /\ g[s] \in Nat}
<1>1. \A s \in SUBSET R : IsFiniteSet(s) /\ Cardinality(s) \in Nat /\ s \in SUBSET S
  BY FS_Subset, FS_CardinalityType
<1>2. g[{}] = 0 /\ h[{}] = 0
  BY DEF Sums
<1>3. 0 \in T
  <2>1. \A s \in SUBSET R : Cardinality(s) <= 0 => s = {}
    BY <1>1, FS_EmptySet
  <2> QED
    BY <1>2, <2>1
<1>4. \A n \in T : n + 1 \in T
  <2>1. TAKE n \in T
  <2>2. SUFFICES ASSUME NEW s \in SUBSET R, Cardinality(s) <= n + 1
                 PROVE  g[s] = h[s] /\ g[s] \in Nat
    OBVIOUS
  <2>3. CASE s = {}
    BY <1>2, <2>3
  <2>4. CASE s # {}
    <3>1. /\ Pick(s) \in S /\ s \ {Pick(s)} \in SUBSET R /\ s \ {Pick(s)} \in SUBSET S
          /\ Cardinality(s \ {Pick(s)}) <= n
      BY <1>1, <2>2, <2>4, PickShrinks
    <3>2. g[s] = f[Pick(s)] + g[s \ {Pick(s)}] /\ h[s] = f[Pick(s)] + h[s \ {Pick(s)}]
      BY <1>1, <2>4 DEF Sums
    <3> QED
      BY <3>1, <3>2
  <2> QED
    BY <2>3, <2>4
<1>5. T = Nat
  <2> HIDE DEF T
  <2>1. T \in SUBSET Nat
    BY DEF T
  <2> QED
    BY <1>3, <1>4, <2>1, Induct
<1> QED
  BY <1>1, <1>5

LEMMA SumOfAll ==
  ASSUME NEW S, IsFiniteSet(S), NEW f, \A x \in S : f[x] \in Nat
  PROVE  \E g : /\ Sums(f, S, g)
                /\ \A R \in SUBSET S : SumFunctionOnSet(f, R) = g[R] /\ g[R] \in Nat
<1>1. PICK g : Sums(f, S, g)
  BY SumsExist
<1>2. ASSUME NEW R \in SUBSET S PROVE SumFunctionOnSet(f, R) = g[R] /\ g[R] \in Nat
  <2>1. IsFiniteSet(R) /\ \A x \in R : f[x] \in Nat
    BY FS_Subset
  <2>2. PICK h : h = CHOOSE k : Sums(f, R, k)
    OBVIOUS
  <2>3. Sums(f, R, h)
    BY <2>1, <2>2, SumsExist
  <2>4. SumFunctionOnSet(f, R) = h[R]
    BY <2>2, SumUnfolds
  <2> QED
    BY <1>1, <2>3, <2>4, SumsAgree
<1> QED
  BY <1>1, <1>2

LEMMA SumType ==
  ASSUME NEW S, IsFiniteSet(S), NEW f, \A x \in S : f[x] \in Nat
  PROVE  SumFunctionOnSet(f, S) \in Nat
  BY SumOfAll

(* Any element may be taken out of a sum first.                             *)
LEMMA SumSplits ==
  ASSUME NEW S, IsFiniteSet(S), NEW f, \A x \in S : f[x] \in Nat
  PROVE  \A R \in SUBSET S : \A x \in R :
           SumFunctionOnSet(f, R) = f[x] + SumFunctionOnSet(f, R \ {x})
<1>1. PICK g : /\ Sums(f, S, g)
               /\ \A R \in SUBSET S : SumFunctionOnSet(f, R) = g[R] /\ g[R] \in Nat
  BY SumOfAll
<1> DEFINE T == {n \in Nat : \A R \in SUBSET S : Cardinality(R) <= n =>
                               \A x \in R : g[R] = f[x] + g[R \ {x}]}
<1>2. \A R \in SUBSET S : IsFiniteSet(R) /\ Cardinality(R) \in Nat
  BY FS_Subset, FS_CardinalityType
<1>3. 0 \in T
  <2>1. \A R \in SUBSET S : Cardinality(R) <= 0 => R = {}
    BY <1>2, FS_EmptySet
  <2> QED
    BY <2>1
<1>4. \A n \in T : n + 1 \in T
  <2>1. TAKE n \in T
  <2>2. SUFFICES ASSUME NEW R \in SUBSET S, Cardinality(R) <= n + 1, NEW x \in R
                 PROVE  g[R] = f[x] + g[R \ {x}]
    OBVIOUS
  <2>3. PICK y \in R : y = Pick(R)
    BY <1>2, PickShrinks
  <2>4. g[R] = f[y] + g[R \ {y}]
    BY <1>1, <2>3 DEF Sums
  <2>5. CASE x = y
    BY <2>4, <2>5
  <2>6. CASE x # y
    <3>1. /\ R \ {x} \in SUBSET S /\ Cardinality(R \ {x}) <= n /\ y \in R \ {x}
          /\ R \ {y} \in SUBSET S /\ Cardinality(R \ {y}) <= n /\ x \in R \ {y}
      <4>1. IsFiniteSet(R) /\ Cardinality(R) \in Nat
        BY <1>2
      <4>2. Cardinality(R \ {x}) = Cardinality(R) - 1 /\ Cardinality(R \ {y}) = Cardinality(R) - 1
        BY <4>1, FS_RemoveElement
      <4>3. Cardinality(R \ {x}) <= n /\ Cardinality(R \ {y}) <= n
        BY <2>2, <4>1, <4>2
      <4>4. R \ {x} \in SUBSET S /\ R \ {y} \in SUBSET S /\ y \in R \ {x} /\ x \in R \ {y}
        BY <2>6
      <4> QED
        BY <4>3, <4>4
    <3>2. g[R \ {x}] = f[y] + g[(R \ {x}) \ {y}] /\ g[R \ {y}] = f[x] + g[(R \ {y}) \ {x}]
      BY <3>1
    <3>3. (R \ {x}) \ {y} = (R \ {y}) \ {x} /\ (R \ {x}) \ {y} \in SUBSET S
      OBVIOUS
    <3>4. g[(R \ {x}) \ {y}] \in Nat /\ f[x] \in Nat /\ f[y] \in Nat
      BY <1>1, <3>3
    <3>5. \A a, b, c \in Nat : b + (a + c) = a + (b + c)
      OBVIOUS
    <3>6. g[R] = f[y] + (f[x] + g[(R \ {x}) \ {y}]) /\ g[R \ {x}] = f[y] + g[(R \ {x}) \ {y}]
      BY <2>4, <3>2, <3>3, Zenon
    <3>7. f[y] + (f[x] + g[(R \ {x}) \ {y}]) = f[x] + (f[y] + g[(R \ {x}) \ {y}])
      BY <3>4, <3>5, Zenon
    <3> QED
      BY <3>6, <3>7, Zenon
  <2> QED
    BY <2>5, <2>6
<1>5. T = Nat
  <2> HIDE DEF T
  <2>1. T \in SUBSET Nat
    BY DEF T
  <2> QED
    BY <1>3, <1>4, <2>1, Induct
<1>6. ASSUME NEW R \in SUBSET S, NEW x \in R PROVE g[R] = f[x] + g[R \ {x}]
  <2>1. Cardinality(R) \in T /\ Cardinality(R) <= Cardinality(R)
    BY <1>2, <1>5
  <2> QED
    BY <2>1
<1>7. \A R \in SUBSET S : \A x \in R : R \ {x} \in SUBSET S
  OBVIOUS
<1> HIDE DEF T
<1> QED
  BY <1>1, <1>6, <1>7

(* A sum grows with its terms and with its set ...                          *)
LEMMA SumGrows ==
  ASSUME NEW S, IsFiniteSet(S), NEW f, \A x \in S : f[x] \in Nat,
         NEW g, \A x \in S : g[x] \in Nat,
         NEW A \in SUBSET S, NEW B \in SUBSET S, A \subseteq B, \A x \in A : f[x] <= g[x]
  PROVE  SumFunctionOnSet(f, A) <= SumFunctionOnSet(g, B)
<1> DEFINE sum(h, R) == SumFunctionOnSet(h, R)
           T == {n \in Nat : \A R \in SUBSET B : Cardinality(R) <= n =>
                               sum(f, R \cap A) <= sum(g, R)}
<1>1. \A R \in SUBSET B : /\ IsFiniteSet(R) /\ Cardinality(R) \in Nat
                          /\ sum(f, R \cap A) \in Nat /\ sum(g, R) \in Nat
  <2>1. ASSUME NEW R \in SUBSET B
        PROVE  IsFiniteSet(R) /\ Cardinality(R) \in Nat /\ IsFiniteSet(R \cap A)
    BY FS_Subset, FS_CardinalityType
  <2>2. ASSUME NEW R \in SUBSET B PROVE sum(f, R \cap A) \in Nat /\ sum(g, R) \in Nat
    BY <2>1, SumType
  <2> QED
    BY <2>1, <2>2
<1>2. 0 \in T
  <2>1. ASSUME NEW R \in SUBSET B, Cardinality(R) <= 0 PROVE R = {} /\ R \cap A = {}
    <3>1. IsFiniteSet(R) /\ Cardinality(R) \in Nat
      BY <1>1
    <3>2. Cardinality(R) = 0
      BY <2>1, <3>1
    <3>3. R = {}
      BY <3>1, <3>2, FS_EmptySet, Zenon
    <3> QED
      BY <3>3
  <2>2. sum(f, {}) = 0 /\ sum(g, {}) = 0
    <3>1. ASSUME NEW h, \A x \in S : h[x] \in Nat PROVE sum(h, {}) = 0
      <4>1. PICK k : /\ Sums(h, S, k)
                     /\ \A R \in SUBSET S : SumFunctionOnSet(h, R) = k[R] /\ k[R] \in Nat
        BY <3>1, SumOfAll
      <4>2. {} \in SUBSET S
        OBVIOUS
      <4>3. k[{}] = 0
        BY <4>1, <4>2 DEF Sums
      <4> QED
        BY <4>1, <4>2, <4>3
    <3> QED
      BY <3>1
  <2> HIDE DEF sum
  <2> QED
    BY <2>1, <2>2
<1>3. \A n \in T : n + 1 \in T
  <2>1. TAKE n \in T
  <2>2. SUFFICES ASSUME NEW R \in SUBSET B, Cardinality(R) <= n + 1
                 PROVE  sum(f, R \cap A) <= sum(g, R)
    OBVIOUS
  <2>3. CASE R = {}
    <3>1. Cardinality(R) <= n
      BY <2>3, FS_EmptySet
    <3> QED
      BY <3>1
  <2>4. CASE R # {}
    <3>1. PICK x \in R : x = Pick(R)
      BY <1>1, <2>4, PickShrinks
    <3>2. R \ {x} \in SUBSET B /\ Cardinality(R \ {x}) <= n
      <4>1. IsFiniteSet(R) /\ Cardinality(R) \in Nat
        BY <1>1
      <4>2. Cardinality(R \ {x}) = Cardinality(R) - 1
        BY <4>1, FS_RemoveElement
      <4> QED
        BY <2>2, <4>1, <4>2
    <3>3. sum(f, (R \ {x}) \cap A) <= sum(g, R \ {x})
      BY <3>2
    <3>4. sum(g, R) = g[x] + sum(g, R \ {x})
      BY SumSplits
    <3>5. /\ sum(g, R \ {x}) \in Nat /\ sum(f, (R \ {x}) \cap A) \in Nat /\ g[x] \in Nat
          /\ f[x] \in Nat
      BY <1>1, <3>2
    <3>6. CASE x \in A
      <4>1. R \cap A \in SUBSET S /\ x \in R \cap A /\ (R \cap A) \ {x} = (R \ {x}) \cap A
        BY <3>6
      <4>2. sum(f, R \cap A) = f[x] + sum(f, (R \ {x}) \cap A)
        BY <4>1, SumSplits
      <4>3. f[x] <= g[x]
        BY <3>6
      <4> HIDE DEF sum
      <4> QED
        BY <3>3, <3>4, <3>5, <4>2, <4>3
    <3>7. CASE x \notin A
      <4>1. (R \ {x}) \cap A = R \cap A
        BY <3>7
      <4> HIDE DEF sum
      <4> QED
        BY <3>3, <3>4, <3>5, <4>1
    <3> QED
      BY <3>6, <3>7
  <2> QED
    BY <2>3, <2>4
<1>4. T = Nat
  <2> HIDE DEF T
  <2>1. T \in SUBSET Nat
    BY DEF T
  <2> QED
    BY <1>2, <1>3, <2>1, Induct
<1>5. Cardinality(B) \in T /\ B \cap A = A
  BY <1>1, <1>4
<1> HIDE DEF sum
<1>6. sum(f, B \cap A) <= sum(g, B)
  BY <1>1, <1>5
<1> QED
  BY <1>5, <1>6 DEF sum

(* ... and is more than before when one term is.                            *)
LEMMA SumGrowsMore ==
  ASSUME NEW S, IsFiniteSet(S), NEW f, \A x \in S : f[x] \in Nat,
         NEW g, \A x \in S : g[x] \in Nat,
         NEW A \in SUBSET S, \A x \in A : f[x] <= g[x], NEW y \in A, f[y] + 1 <= g[y]
  PROVE  SumFunctionOnSet(f, A) + 1 <= SumFunctionOnSet(g, A)
<1>1. /\ SumFunctionOnSet(f, A) = f[y] + SumFunctionOnSet(f, A \ {y})
      /\ SumFunctionOnSet(g, A) = g[y] + SumFunctionOnSet(g, A \ {y})
  BY SumSplits
<1>2. SumFunctionOnSet(f, A \ {y}) <= SumFunctionOnSet(g, A \ {y})
  <2>1. A \ {y} \in SUBSET S /\ \A x \in A \ {y} : f[x] <= g[x]
    OBVIOUS
  <2> QED
    BY <2>1, SumGrows
<1>3. SumFunctionOnSet(f, A \ {y}) \in Nat /\ SumFunctionOnSet(g, A \ {y}) \in Nat
  <2>1. IsFiniteSet(A \ {y})
    BY FS_Subset
  <2> QED
    BY <2>1, SumType
<1> QED
  BY <1>1, <1>2, <1>3

LEMMA SumHasTerm ==
  ASSUME NEW S, IsFiniteSet(S), NEW f, \A x \in S : f[x] \in Nat, NEW y \in S
  PROVE  f[y] <= SumFunctionOnSet(f, S)
<1>1. SumFunctionOnSet(f, S) = f[y] + SumFunctionOnSet(f, S \ {y})
  BY SumSplits
<1>2. SumFunctionOnSet(f, S \ {y}) \in Nat
  <2>1. IsFiniteSet(S \ {y})
    BY FS_Subset
  <2> QED
    BY <2>1, SumType
<1> QED
  BY <1>1, <1>2
-----------------------------------------------------------------------------
(* A poll of s is under way whose page lists no row of o at s: it is about  *)
(* to count a miss, and has been counted as a fetch without them.           *)
Pending(o, s) ==
  /\ RowsOf(o, s) # {}
  /\ \E r \in Runners : /\ poll[r][s].pc \in {"upsert", "write"}
                        /\ RowsOf(o, s) \cap Listed(poll[r][s].page.doc) = {}

(* An open transaction is about to record posting p as seen, on behalf of   *)
(* an opportunity that was merged away since it read the row.               *)
Stale(p) ==
  \E r \in Runners : /\ poll[r][p[1]].pc = "write" /\ p[2] \in poll[r][p[1]].tx
                     /\ opp[poll[r][p[1]].found.opp].merged
Fresh(o) == {p \in RowsInto(o) : ~Stale(p)}

(* The fetches without each row of o that o's counter may have counted.     *)
Earned(o) == [p \in Postings |-> IF p \in RowsInto(o) /\ Pending(o, p[1]) THEN unseen[p] - 1
                                 ELSE unseen[p]]

Counts(o) ==
  \/ opp[o].merged
  \/ opp[o].misses <= SumFunctionOnSet(Earned(o), Fresh(o))
  \/ MaxMisses <= SumFunctionOnSet(unseen, Fresh(o))

Credited ==
  \A o \in Postings, s \in Sources :
    Pending(o, s) => \A j \in RowsOf(o, s) : unseen[<<s, j>>] >= 1

(* What a poll p of s lists and has no more to do is recorded as seen, or   *)
(* has no row ...                                                           *)
SeenKnown(s, p) ==
  /\ p.pc \in {"queued", "fetch"} => p.seen = {}
  /\ p.pc \in {"upsert", "write"} =>
       /\ p.seen \subseteq Listed(p.page.doc)
       /\ \A j \in Listed(p.page.doc) \ (p.todo \cup p.seen) : link[<<s, j>>].hash = 0

(* ... and its open transaction has read a row that is still that of the    *)
(* opportunity it found, unless that was merged away.                       *)
FoundKnown(s, p) ==
  p.pc = "write" =>
    \E j \in p.todo : /\ p.tx = {j}
                      /\ p.found.hash = 0 <=> link[<<s, j>>].hash = 0
                      /\ p.found.hash # 0 => \/ opp[p.found.opp].merged
                                             \/ link[<<s, j>>].opp = p.found.opp

MissInv ==
  /\ Credited
  /\ \A r \in Runners, s \in Sources : SeenKnown(s, poll[r][s]) /\ FoundKnown(s, poll[r][s])
  /\ \A o \in Postings : Counts(o)

(* A fetched board counts once for each row: what o's counter may have      *)
(* counted is a natural, and no more than the fetches without the row.      *)
LEMMA EarnedType ==
  TypeOK /\ Credited => \A o, q \in Postings : /\ unseen[q] \in Nat /\ Earned(o)[q] \in Nat
                                               /\ Earned(o)[q] <= unseen[q]
<1> SUFFICES ASSUME TypeOK, Credited, NEW o \in Postings, NEW q \in Postings
             PROVE  /\ unseen[q] \in Nat /\ Earned(o)[q] \in Nat /\ Earned(o)[q] <= unseen[q]
  OBVIOUS
<1>1. unseen[q] \in Nat
  BY PollAssumption DEF TypeOK
<1>2. q[1] \in Sources /\ q[2] \in Jobs /\ q = <<q[1], q[2]>>
  BY DEF Postings
<1>3. q \in RowsInto(o) /\ Pending(o, q[1]) => unseen[q] >= 1
  <2> SUFFICES ASSUME q \in RowsInto(o), Pending(o, q[1]) PROVE unseen[q] >= 1
    OBVIOUS
  <2>1. q[2] \in RowsOf(o, q[1])
    BY <1>2 DEF RowsOf, RowsInto
  <2> QED
    BY <1>2, <2>1 DEF Credited
<1>4. Earned(o)[q] = IF q \in RowsInto(o) /\ Pending(o, q[1]) THEN unseen[q] - 1 ELSE unseen[q]
  BY DEF Earned
<1> QED
  BY <1>1, <1>3, <1>4

LEMMA EarnedTypeNext ==
  (TypeOK /\ Credited => \A o, q \in Postings : /\ unseen[q] \in Nat /\ Earned(o)[q] \in Nat
                                                /\ Earned(o)[q] <= unseen[q])'
  BY EarnedType, PTL

LEMMA PostingsFinite == IsFiniteSet(Postings)
  BY FiniteAssumption, FS_Product DEF Postings

(* The counter of o stays within what its rows earned when these grow ...   *)
LEMMA CountsGrow ==
  ASSUME TypeOK, TypeOK', Credited, Credited', NEW o \in Postings, Counts(o),
         opp[o].merged => opp'[o].merged, opp'[o].misses <= opp[o].misses,
         Fresh(o) \subseteq Fresh(o)',
         \A q \in Fresh(o) : unseen[q] <= unseen'[q] /\ Earned(o)[q] <= Earned(o)'[q]
  PROVE  Counts(o)'
<1> SUFFICES ASSUME ~opp'[o].merged
             PROVE  \/ opp'[o].misses <= SumFunctionOnSet(Earned(o)', Fresh(o)')
                    \/ MaxMisses <= SumFunctionOnSet(unseen', Fresh(o)')
  BY DEF Counts
<1>1. Fresh(o) \in SUBSET Postings /\ Fresh(o)' \in SUBSET Postings
  BY DEF Fresh, RowsInto
<1>2. PICK f : f = Earned(o)
  OBVIOUS
<1>3. PICK g : g = Earned(o)'
  OBVIOUS
<1>4. \A q \in Postings : /\ unseen[q] \in Nat /\ f[q] \in Nat
                          /\ unseen'[q] \in Nat /\ g[q] \in Nat
  BY <1>2, <1>3, EarnedType, EarnedTypeNext
<1>5. PICK A \in SUBSET Postings : A = Fresh(o)
  BY <1>1
<1>6. PICK B \in SUBSET Postings : B = Fresh(o)'
  BY <1>1
<1>7. A \subseteq B /\ \A q \in A : unseen[q] <= unseen'[q] /\ f[q] <= g[q]
  BY <1>2, <1>3, <1>5, <1>6
<1>8. SumFunctionOnSet(f, A) <= SumFunctionOnSet(g, B)
  BY <1>4, <1>7, PostingsFinite, SumGrows
<1>9. SumFunctionOnSet(unseen, A) <= SumFunctionOnSet(unseen', B)
  BY <1>4, <1>7, PostingsFinite, SumGrows
<1>10. IsFiniteSet(A) /\ IsFiniteSet(B)
  BY PostingsFinite, FS_Subset
<1>11. /\ SumFunctionOnSet(f, A) \in Nat /\ SumFunctionOnSet(g, B) \in Nat
       /\ SumFunctionOnSet(unseen, A) \in Nat /\ SumFunctionOnSet(unseen', B) \in Nat
  BY <1>4, <1>10, SumType
<1>12. opp[o].misses \in Nat /\ opp'[o].misses \in Nat /\ MaxMisses \in Nat
  BY PollAssumption DEF TypeOK, Opps
<1>13. \/ opp[o].misses <= SumFunctionOnSet(f, A)
       \/ MaxMisses <= SumFunctionOnSet(unseen, A)
  BY <1>2, <1>5 DEF Counts
<1>14. \/ opp'[o].misses <= SumFunctionOnSet(g, B)
       \/ MaxMisses <= SumFunctionOnSet(unseen', B)
  BY <1>8, <1>9, <1>11, <1>12, <1>13
<1> QED
  BY <1>3, <1>6, <1>14, Zenon

(* ... as they do when its rows stay, are counted as before and no fetch is *)
(* newly pending; and it does when it is reset, or one row was missed often *)
(* enough.                                                                  *)
LEMMA CountsStay ==
  ASSUME TypeOK, TypeOK', Credited, Credited', NEW o \in Postings, Counts(o),
         opp[o].merged => opp'[o].merged, opp'[o].misses <= opp[o].misses,
         \A q \in Fresh(o) : q \in Fresh(o)' /\ unseen'[q] = unseen[q],
         \A s \in Sources : Pending(o, s)' /\ RowsOf(o, s) # {} => Pending(o, s)
  PROVE  Counts(o)'
<1>1. ASSUME NEW q \in Fresh(o) PROVE unseen[q] <= unseen'[q] /\ Earned(o)[q] <= Earned(o)'[q]
  <2>1. q \in Postings /\ q \in RowsInto(o) /\ q \in RowsInto(o)'
    BY DEF Fresh, RowsInto
  <2>2. unseen[q] \in Int /\ unseen'[q] = unseen[q]
    BY <2>1, PollAssumption DEF TypeOK
  <2>3. q[1] \in Sources /\ q[2] \in RowsOf(o, q[1])
    BY <2>1 DEF RowsInto, RowsOf, Postings
  <2>4. Pending(o, q[1])' => Pending(o, q[1])
    BY <2>3
  <2>5. /\ Earned(o)[q] = IF Pending(o, q[1]) THEN unseen[q] - 1 ELSE unseen[q]
        /\ Earned(o)'[q] = IF Pending(o, q[1])' THEN unseen'[q] - 1 ELSE unseen'[q]
    BY <2>1 DEF Earned
  <2> QED
    BY <2>2, <2>4, <2>5
<1> QED
  BY <1>1, CountsGrow

LEMMA CountsZero ==
  ASSUME TypeOK', Credited', NEW o \in Postings, opp'[o].misses = 0 PROVE Counts(o)'
<1>1. Fresh(o)' \in SUBSET Postings
  BY DEF Fresh, RowsInto
<1>2. PICK B \in SUBSET Postings : B = Fresh(o)'
  BY <1>1
<1>3. PICK g : g = Earned(o)'
  OBVIOUS
<1>4. \A q \in B : g[q] \in Nat
  BY <1>2, <1>3, EarnedTypeNext
<1>5. IsFiniteSet(B)
  BY PostingsFinite, FS_Subset
<1>6. SumFunctionOnSet(g, B) \in Nat
  BY <1>4, <1>5, SumType
<1>7. 0 <= SumFunctionOnSet(g, B)
  BY <1>6
<1> QED
  BY <1>2, <1>3, <1>7 DEF Counts

LEMMA CountsCapped ==
  ASSUME TypeOK', NEW o \in Postings, NEW q \in Fresh(o)', unseen'[q] = MaxMisses
  PROVE  Counts(o)'
<1>1. Fresh(o)' \in SUBSET Postings
  BY DEF Fresh, RowsInto
<1>2. PICK B \in SUBSET Postings : B = Fresh(o)'
  BY <1>1
<1>3. \A p \in B : unseen'[p] \in Nat
  BY PollAssumption DEF TypeOK
<1>4. IsFiniteSet(B)
  BY PostingsFinite, FS_Subset
<1>5. unseen'[q] <= SumFunctionOnSet(unseen', B)
  BY <1>2, <1>3, <1>4, SumHasTerm
<1> QED
  BY <1>2, <1>5 DEF Counts
-----------------------------------------------------------------------------
Knows(s, p) == SeenKnown(s, p) /\ FoundKnown(s, p)

(* Poll n of s, which was p, neither counts nor records what p did not.     *)
Follows(s, p, n) ==
  /\ n.pc \in {"upsert", "write"} => p.pc \in {"upsert", "write"} /\ n.page = p.page
  /\ n.pc = "write" =>
       \A j \in n.tx : link[<<s, j>>].hash # 0 /\ opp[n.found.opp].merged =>
                         p.pc = "write" /\ j \in p.tx /\ opp[p.found.opp].merged

LEMMA NoPollQuiet ==
  ASSUME NEW s, NEW p PROVE Follows(s, p, NoPoll(s)) /\ Knows(s, NoPoll(s))
  BY DEF Follows, Knows, SeenKnown, FoundKnown, NoPoll

(* A step that leaves the rows, the counters and the fetches alone.         *)
Quiet ==
  /\ UNCHANGED <<link, unseen>>
  /\ \A o \in Postings : opp'[o].misses = opp[o].misses /\ opp'[o].merged = opp[o].merged

LEMMA QuietStep ==
  ASSUME TypeOK, TypeOK', MissInv, Quiet,
         \A r \in Runners, s \in Sources :
           Follows(s, poll[r][s], poll'[r][s]) /\ Knows(s, poll'[r][s])
  PROVE  MissInv'
<1> USE DEF Quiet
<1>1. \A r \in Runners, s \in Sources :
        /\ poll[r][s] \in Polls /\ poll'[r][s] \in Polls
        /\ poll[r][s].found.opp \in Postings /\ poll'[r][s].found.opp \in Postings
  BY DEF TypeOK, Polls, Links, Pollers
<1>2. \A o : RowsInto(o)' = RowsInto(o)
  BY DEF RowsInto
<1>3. \A o, s : RowsOf(o, s)' = RowsOf(o, s)
  BY DEF RowsOf
<1>4. ASSUME NEW o \in Postings, NEW s \in Sources, Pending(o, s)' PROVE Pending(o, s)
  <2>1. PICK r \in Runners : /\ poll'[r][s].pc \in {"upsert", "write"}
                             /\ RowsOf(o, s) \cap Listed(poll'[r][s].page.doc) = {}
    BY <1>3, <1>4 DEF Pending, Listed
  <2>2. poll[r][s].pc \in {"upsert", "write"} /\ poll'[r][s].page = poll[r][s].page
    BY <2>1 DEF Follows
  <2> QED
    BY <1>3, <1>4, <2>1, <2>2 DEF Pending
<1>5. ASSUME NEW q \in Postings, link[q].hash # 0, Stale(q)' PROVE Stale(q)
  <2>1. PICK r \in Runners : /\ poll'[r][q[1]].pc = "write" /\ q[2] \in poll'[r][q[1]].tx
                             /\ opp'[poll'[r][q[1]].found.opp].merged
    BY <1>5 DEF Stale
  <2>2. q[1] \in Sources /\ q = <<q[1], q[2]>>
    BY DEF Postings
  <2>3. opp[poll'[r][q[1]].found.opp].merged
    BY <1>1, <2>1, <2>2
  <2>4. /\ poll[r][q[1]].pc = "write" /\ q[2] \in poll[r][q[1]].tx
        /\ opp[poll[r][q[1]].found.opp].merged
    BY <1>5, <2>1, <2>2, <2>3 DEF Follows
  <2> QED
    BY <2>4 DEF Stale
<1>6. Credited'
  BY <1>3, <1>4 DEF Credited, MissInv
<1>7. ASSUME NEW o \in Postings PROVE Counts(o)'
  <2>1. \A q \in Fresh(o) : q \in Fresh(o)' /\ unseen'[q] = unseen[q]
    BY <1>2, <1>5 DEF Fresh, RowsInto
  <2>2. opp'[o].misses <= opp[o].misses /\ opp'[o].merged = opp[o].merged
    BY DEF TypeOK, Opps
  <2>3. Counts(o) /\ Credited
    BY DEF MissInv
  <2> QED
    BY <1>4, <1>6, <2>1, <2>2, <2>3, CountsStay
<1>8. ASSUME NEW r \in Runners, NEW s \in Sources
      PROVE  SeenKnown(s, poll[r][s])' /\ FoundKnown(s, poll[r][s])'
  <2>1. PICK n \in Polls : n = poll'[r][s]
    BY <1>1
  <2>2. SeenKnown(s, n) /\ FoundKnown(s, n) /\ n.found.opp \in Postings
    BY <1>1, <2>1 DEF Knows
  <2>3. SeenKnown(s, poll[r][s])'
    BY <2>1, <2>2 DEF SeenKnown, Listed
  <2>4. opp'[n.found.opp].merged = opp[n.found.opp].merged
    BY <2>2
  <2>5. FoundKnown(s, poll[r][s])'
    BY <2>1, <2>2, <2>4 DEF FoundKnown
  <2> QED
    BY <2>3, <2>5
<1> QED
  BY <1>6, <1>7, <1>8 DEF MissInv

LEMMA QuietGoto ==
  ASSUME TypeOK, TypeOK', MissInv, Quiet, NEW r \in Runners, NEW s \in Sources, NEW n,
         Goto(r, s, n), Follows(s, poll[r][s], n), Knows(s, n)
  PROVE  MissInv'
<1>1. ASSUME NEW q \in Runners, NEW t \in Sources
      PROVE  Follows(t, poll[q][t], poll'[q][t]) /\ Knows(t, poll'[q][t])
  <2>1. poll'[q][t] = IF q = r /\ t = s THEN n ELSE poll[q][t]
    BY DEF Goto, TypeOK, Pollers
  <2>2. Follows(t, poll[q][t], poll[q][t])
    BY DEF Follows
  <2>3. Knows(t, poll[q][t])
    BY DEF Knows, MissInv
  <2> QED
    BY <2>1, <2>2, <2>3
<1> QED
  BY <1>1, QuietStep

LEMMA QuietAbandon ==
  ASSUME TypeOK, TypeOK', MissInv, Quiet, NEW r \in Runners, NEW s \in Sources, Abandon(r, s)
  PROVE  MissInv'
  BY NoPollQuiet, QuietGoto DEF Abandon

(* The quiet steps of a poll.                                               *)
LEMMA AdvanceQuiet ==
  ASSUME TypeOK, TypeOK', LinksInv, MissInv, NEW r \in Runners, NEW s \in Sources,
         \/ RunOne(r, s) \/ FetchNotModified(r, s) \/ CloseMissedOpportunities(r, s)
         \/ RecordHealth(r, s) \/ SaveSourceCursor(r, s)
         \/ \E j \in Jobs : FindSourceRow(r, s, j) \/ UpsertRefused(r, s, j)
  PROVE  MissInv'
<1>0. PICK p \in Polls : p = poll[r][s]
  BY DEF TypeOK, Pollers
<1>k. Knows(s, p)
  BY <1>0 DEF Knows, MissInv
<1>u. UNCHANGED <<opp, link, unseen>> => Quiet
  BY DEF Quiet
<1>p. ASSUME Quiet, NEW n, n.pc \notin {"queued", "fetch", "upsert", "write"}, Goto(r, s, n)
      PROVE  MissInv'
  <2>1. Follows(s, p, n) /\ Knows(s, n)
    BY <1>p DEF Follows, Knows, SeenKnown, FoundKnown
  <2> QED
    BY <1>0, <1>p, <2>1, QuietGoto
<1>1. CASE RunOne(r, s)
  <2>1. PICK n : n = [p EXCEPT !.pc = "fetch"]
    OBVIOUS
  <2>2. n.pc = "fetch" /\ n.seen = p.seen /\ p.pc = "queued" /\ Goto(r, s, n)
    BY <1>0, <1>1, <2>1 DEF Polls, RunOne, At
  <2>3. Follows(s, p, n) /\ Knows(s, n)
    BY <1>k, <2>2 DEF Follows, Knows, SeenKnown, FoundKnown
  <2> QED
    BY <1>0, <1>u, <1>1, <2>2, <2>3, QuietGoto DEF RunOne
<1>2. CASE FetchNotModified(r, s)
  <2>1. PICK n : n = [p EXCEPT !.pc = "save", !.page = Page(s)]
    OBVIOUS
  <2>2. n.pc = "save" /\ Goto(r, s, n)
    BY <1>0, <1>2, <2>1 DEF Polls, FetchNotModified
  <2> QED
    BY <1>u, <1>p, <1>2, <2>2 DEF FetchNotModified
<1>3. CASE CloseMissedOpportunities(r, s)
  <2>1. PICK n : n = [p EXCEPT !.pc = "health"]
    OBVIOUS
  <2>2. n.pc = "health" /\ Goto(r, s, n)
    BY <1>0, <1>3, <2>1 DEF Polls, CloseMissedOpportunities
  <2>3. \A o \in Opps : CloseMissed(o).misses = o.misses /\ CloseMissed(o).merged = o.merged
    BY DEF CloseMissed, Opps
  <2>4. Quiet
    BY <1>3, <2>3 DEF Quiet, CloseMissedOpportunities, TypeOK
  <2> QED
    BY <1>p, <2>2, <2>4
<1>4. CASE RecordHealth(r, s)
  <2>1. PICK n : n = [p EXCEPT !.pc = "save"]
    OBVIOUS
  <2>2. n.pc = "save" /\ Goto(r, s, n)
    BY <1>0, <1>4, <2>1 DEF Polls, RecordHealth
  <2> QED
    BY <1>u, <1>p, <1>4, <2>2 DEF RecordHealth
<1>5. CASE SaveSourceCursor(r, s)
  BY <1>u, <1>5, QuietAbandon DEF SaveSourceCursor
<1>6. ASSUME NEW j \in Jobs, FindSourceRow(r, s, j) PROVE MissInv'
  <2>1. PICK l \in Links : l = link[<<s, j>>]
    BY DEF TypeOK, Postings
  <2>2. PICK n : n = [p EXCEPT !.pc = "write", !.tx = {j}, !.found = l]
    OBVIOUS
  <2>3. /\ n.pc = "write" /\ n.todo = p.todo /\ n.tx = {j} /\ n.found = l /\ n.page = p.page
        /\ n.seen = p.seen
    BY <2>2 DEF Polls
  <2>4. j \in p.todo /\ p.pc = "upsert" /\ Goto(r, s, n)
    BY <1>0, <1>6, <2>1, <2>2 DEF FindSourceRow, At
  <2>5. l.hash # 0 => ~opp[l.opp].merged
    BY <2>1 DEF LinksInv, LinksAreCanonical, Postings
  <2>6. Follows(s, p, n)
    BY <2>1, <2>3, <2>4, <2>5 DEF Follows
  <2>7. Knows(s, n)
    BY <1>k, <2>1, <2>3, <2>4 DEF Knows, SeenKnown, FoundKnown
  <2> QED
    BY <1>0, <1>u, <1>6, <2>4, <2>6, <2>7, QuietGoto DEF FindSourceRow
<1>7. ASSUME NEW j \in Jobs, UpsertRefused(r, s, j) PROVE MissInv'
  <2>1. PICK n : n = [p EXCEPT !.pc = "upsert", !.todo = p.todo \ p.tx, !.seen = p.seen \cup {},
                               !.tx = {}, !.found = NoPoll(s).found]
    OBVIOUS
  <2>2. /\ n.pc = "upsert" /\ n.todo = p.todo \ p.tx /\ n.seen = p.seen /\ n.page = p.page
        /\ p.pc = "write" /\ p.found.hash = 0 /\ Goto(r, s, n)
    BY <1>0, <1>7, <2>1 DEF Polls, UpsertRefused, EndUpsert, At
  <2>3. \A i \in p.tx : link[<<s, i>>].hash = 0
    BY <1>k, <2>2 DEF Knows, FoundKnown
  <2>4. Follows(s, p, n) /\ Knows(s, n)
    BY <1>k, <2>2, <2>3 DEF Follows, Knows, SeenKnown, FoundKnown
  <2> QED
    BY <1>0, <1>u, <1>7, <2>2, <2>4, QuietGoto DEF UpsertRefused
<1> QED
  BY <1>1, <1>2, <1>3, <1>4, <1>5, <1>6, <1>7
-----------------------------------------------------------------------------
(* What a step of poll r of s leaves alone, and what the rest of the steps  *)
(* that count or record do.                                                 *)
LEMMA GotoPolls ==
  ASSUME TypeOK, NoDoubleFiring, NEW r \in Runners, NEW s \in Sources, NEW n, Goto(r, s, n),
         poll[r][s].pc # "none"
  PROVE  /\ \A q \in Runners, t \in Sources :
              poll'[q][t] = IF q = r /\ t = s THEN n ELSE poll[q][t]
         /\ \A q \in Runners : q # r => poll[q][s].pc = "none"
<1>1. \A q \in Runners, t \in Sources : poll'[q][t] = IF q = r /\ t = s THEN n ELSE poll[q][t]
  BY DEF Goto, TypeOK, Pollers
<1>2. \A q \in Runners : q # r => poll[q][s].pc = "none"
  BY DEF NoDoubleFiring, Polling
<1> QED
  BY <1>1, <1>2

(* A fetch counts one more absence of every row its page does not list, and *)
(* makes them pending: nothing more is earned yet.                          *)
LEMMA FetchCounts ==
  ASSUME TypeOK, TypeOK', NoDoubleFiring, MissInv, NEW r \in Runners, NEW s \in Sources,
         Fetch(r, s)
  PROVE  MissInv'
<1>0. PICK p \in Polls : p = poll[r][s]
  BY DEF TypeOK, Pollers
<1>1. PICK n : n = [p EXCEPT !.pc = "upsert", !.page = Page(s), !.todo = Listed(board[s])]
  OBVIOUS
<1>2. /\ n.pc = "upsert" /\ n.todo = Listed(board[s]) /\ n.seen = p.seen
      /\ n.page.doc = board[s] /\ p.pc = "fetch" /\ Goto(r, s, n)
      /\ UNCHANGED <<opp, link>>
  BY <1>0, <1>1 DEF Polls, Fetch, At, Page
<1>3. /\ \A q \in Runners, t \in Sources :
           poll'[q][t] = IF q = r /\ t = s THEN n ELSE poll[q][t]
      /\ \A q \in Runners : q # r => poll[q][s].pc = "none"
  BY <1>0, <1>2, GotoPolls
<1>4. \A q \in Postings : unseen[q] \in Nat /\ unseen[q] <= MaxMisses /\ MaxMisses \in Nat \ {0}
  BY PollAssumption DEF TypeOK
<1>5. \A q \in Postings : unseen'[q] =
        IF q[1] = s /\ link[q].hash # 0 /\ board[s][q[2]] = 0 /\ unseen[q] < MaxMisses
        THEN unseen[q] + 1 ELSE unseen[q]
  BY DEF Fetch
<1>6. /\ \A o : RowsInto(o)' = RowsInto(o)
      /\ \A o, t : RowsOf(o, t)' = RowsOf(o, t)
  BY <1>2 DEF RowsInto, RowsOf
<1>7. \A o \in Postings : ~Pending(o, s)
  BY <1>0, <1>2, <1>3 DEF Pending
<1>8. ASSUME NEW o \in Postings, Pending(o, s)' PROVE \A j \in RowsOf(o, s) : board[s][j] = 0
  <2>1. PICK q \in Runners : /\ poll'[q][s].pc \in {"upsert", "write"}
                             /\ RowsOf(o, s) \cap Listed(poll'[q][s].page.doc) = {}
    BY <1>6, <1>8 DEF Pending, Listed
  <2>2. q = r /\ poll'[q][s].page.doc = board[s]
    BY <1>2, <1>3, <2>1
  <2> QED
    BY <2>1, <2>2 DEF Listed, RowsOf
<1>9. ASSUME NEW o \in Postings, NEW t \in Sources, t # s, Pending(o, t)' PROVE Pending(o, t)
  BY <1>3, <1>6, <1>9 DEF Pending, Listed
<1>10. \A q \in Postings : Stale(q)' => Stale(q)
  <2> SUFFICES ASSUME NEW q \in Postings, Stale(q)' PROVE Stale(q)
    OBVIOUS
  <2>1. PICK k \in Runners : /\ poll'[k][q[1]].pc = "write" /\ q[2] \in poll'[k][q[1]].tx
                             /\ opp'[poll'[k][q[1]].found.opp].merged
    BY DEF Stale
  <2>2. q[1] \in Sources
    BY DEF Postings
  <2>3. poll'[k][q[1]] = poll[k][q[1]]
    BY <1>2, <1>3, <2>1, <2>2
  <2> QED
    BY <1>2, <2>1, <2>3 DEF Stale
<1>11. Credited'
  <2> SUFFICES ASSUME NEW o \in Postings, NEW t \in Sources, Pending(o, t)', NEW j \in RowsOf(o, t)
               PROVE  unseen'[<<t, j>>] >= 1
    BY <1>6 DEF Credited
  <2>1. PICK q \in Postings : q = <<t, j>> /\ q[1] = t /\ q[2] = j /\ link[q].hash # 0
    BY DEF RowsOf, Postings
  <2>2. CASE t = s
    <3>1. board[s][q[2]] = 0
      BY <1>8, <2>1, <2>2
    <3> QED
      BY <1>4, <1>5, <2>1, <2>2, <3>1
  <2>3. CASE t # s
    <3>1. unseen[q] >= 1
      BY <1>9, <2>1, <2>3 DEF MissInv, Credited
    <3> QED
      BY <1>5, <2>1, <2>3, <3>1
  <2> QED
    BY <2>2, <2>3
<1>12. ASSUME NEW o \in Postings PROVE Counts(o)'
  <2>1. Counts(o) /\ Credited
    BY DEF MissInv
  <2>2. \A q \in Fresh(o) : q \in Fresh(o)' /\ q \in RowsInto(o) /\ q \in Postings
    BY <1>6, <1>10 DEF Fresh, RowsInto
  <2>3. ASSUME NEW q \in Fresh(o), unseen'[q] # MaxMisses
        PROVE  unseen[q] <= unseen'[q] /\ Earned(o)[q] <= Earned(o)'[q]
    <3>1. q \in Postings /\ q \in RowsInto(o) /\ q \in RowsInto(o)' /\ link[q].hash # 0
      BY <1>6, <2>2 DEF RowsInto
    <3>2. q[1] \in Sources /\ q[2] \in RowsOf(o, q[1])
      BY <3>1 DEF RowsInto, RowsOf, Postings
    <3>3. /\ Earned(o)[q] = IF Pending(o, q[1]) THEN unseen[q] - 1 ELSE unseen[q]
          /\ Earned(o)'[q] = IF Pending(o, q[1])' THEN unseen'[q] - 1 ELSE unseen'[q]
      BY <3>1 DEF Earned
    <3>4. CASE q[1] = s
      <4>1. Earned(o)[q] = unseen[q]
        BY <1>7, <3>3, <3>4
      <4>2. Pending(o, s)' => unseen'[q] = unseen[q] + 1
        BY <1>4, <1>5, <1>8, <2>3, <3>1, <3>2, <3>4
      <4>3. unseen[q] <= unseen'[q] /\ unseen'[q] \in Nat
        BY <1>4, <1>5, <3>1
      <4> QED
        BY <1>4, <3>1, <3>3, <3>4, <4>1, <4>2, <4>3
    <3>5. CASE q[1] # s
      <4>1. unseen'[q] = unseen[q] /\ unseen[q] \in Nat
        BY <1>4, <1>5, <3>1, <3>5
      <4>2. Pending(o, q[1])' => Pending(o, q[1])
        BY <1>9, <3>2, <3>5
      <4> QED
        BY <3>3, <4>1, <4>2
    <3> QED
      BY <3>4, <3>5
  <2>4. CASE \E q \in Fresh(o) : unseen'[q] = MaxMisses
    BY <2>2, <2>4, CountsCapped
  <2>5. CASE \A q \in Fresh(o) : unseen'[q] # MaxMisses
    <3>1. Fresh(o) \subseteq Fresh(o)'
      BY <2>2
    <3>2. \A q \in Fresh(o) : unseen[q] <= unseen'[q] /\ Earned(o)[q] <= Earned(o)'[q]
      BY <2>3, <2>5
    <3>3. opp'[o].misses <= opp[o].misses /\ (opp[o].merged => opp'[o].merged)
      BY <1>2 DEF TypeOK, Opps
    <3> QED
      BY <1>11, <2>1, <3>1, <3>2, <3>3, CountsGrow
  <2> QED
    BY <2>4, <2>5
<1>13. ASSUME NEW k \in Runners, NEW t \in Sources
       PROVE  SeenKnown(t, poll[k][t])' /\ FoundKnown(t, poll[k][t])'
  <2>1. SeenKnown(t, poll[k][t]) /\ FoundKnown(t, poll[k][t]) /\ SeenKnown(s, p)
    BY <1>0 DEF MissInv
  <2>2. CASE k = r /\ t = s
    BY <1>2, <1>3, <2>1, <2>2 DEF SeenKnown, FoundKnown, Listed
  <2>3. CASE ~(k = r /\ t = s)
    <3>1. poll'[k][t] = poll[k][t]
      BY <1>3, <2>3
    <3> QED
      BY <1>2, <2>1, <3>1 DEF SeenKnown, FoundKnown, Listed
  <2> QED
    BY <2>2, <2>3
<1> QED
  BY <1>11, <1>12, <1>13 DEF MissInv

(* A counted miss was pending: the poll has recorded every listed row, so   *)
(* the opportunity it charges has none on its page.                         *)
LEMMA BumpCounts ==
  ASSUME TypeOK, TypeOK', NoDoubleFiring, MissInv, NEW r \in Runners, NEW s \in Sources,
         Bump(r, s)
  PROVE  MissInv'
<1>0. PICK p \in Polls : p = poll[r][s]
  BY DEF TypeOK, Pollers
<1>1. PICK n : n = [p EXCEPT !.pc = "close"]
  OBVIOUS
<1>2. /\ n.pc = "close" /\ p.pc = "upsert" /\ p.todo = {} /\ Goto(r, s, n)
      /\ UNCHANGED <<link, unseen>>
  BY <1>0, <1>1 DEF Polls, Bump, At
<1>3. /\ \A q \in Runners, t \in Sources :
           poll'[q][t] = IF q = r /\ t = s THEN n ELSE poll[q][t]
      /\ \A q \in Runners : q # r => poll[q][s].pc = "none"
  BY <1>0, <1>2, GotoPolls
<1>4. \A o \in Postings : opp[o] \in Opps /\ opp'[o] = BumpMissesForAbsent(o, s, p.seen)
  BY <1>0 DEF Bump, TypeOK
<1>5. \A o \in Postings : /\ opp'[o].merged = opp[o].merged
                          /\ opp[o].misses \in Nat /\ opp'[o].misses \in Nat
                          /\ \/ opp'[o].misses = opp[o].misses
                             \/ /\ RowsOf(o, s) # {} /\ RowsOf(o, s) \cap p.seen = {}
                                /\ opp'[o].misses = opp[o].misses + 1
  <2>1. \A x \in Opps : /\ [x EXCEPT !.misses = @ + 1].misses = x.misses + 1
                        /\ [x EXCEPT !.misses = @ + 1].merged = x.merged /\ x.misses \in Nat
    BY DEF Opps
  <2> SUFFICES ASSUME NEW o \in Postings
               PROVE  /\ opp'[o].merged = opp[o].merged
                      /\ opp[o].misses \in Nat /\ opp'[o].misses \in Nat
                      /\ \/ opp'[o].misses = opp[o].misses
                         \/ /\ RowsOf(o, s) # {} /\ RowsOf(o, s) \cap p.seen = {}
                            /\ opp'[o].misses = opp[o].misses + 1
    OBVIOUS
  <2>2. \/ opp'[o] = opp[o]
        \/ /\ RowsOf(o, s) # {} /\ RowsOf(o, s) \cap p.seen = {}
           /\ opp'[o] = [opp[o] EXCEPT !.misses = @ + 1]
    BY <1>4 DEF BumpMissesForAbsent
  <2>3. PICK x \in Opps : x = opp[o]
    BY <1>4
  <2>4. PICK y : y = [x EXCEPT !.misses = @ + 1]
    OBVIOUS
  <2>5. y.misses = x.misses + 1 /\ y.merged = x.merged /\ x.misses \in Nat
    BY <2>1, <2>4
  <2>6. \/ opp'[o] = x
        \/ RowsOf(o, s) # {} /\ RowsOf(o, s) \cap p.seen = {} /\ opp'[o] = y
    BY <2>2, <2>3, <2>4
  <2> QED
    BY <2>3, <2>5, <2>6
<1>6. /\ \A o : RowsInto(o)' = RowsInto(o)
      /\ \A o, t : RowsOf(o, t)' = RowsOf(o, t)
  BY <1>2 DEF RowsInto, RowsOf
<1>7. \A o \in Postings : ~Pending(o, s)'
  BY <1>2, <1>3 DEF Pending
<1>8. \A o \in Postings, t \in Sources : Pending(o, t)' => Pending(o, t)
  BY <1>2, <1>3, <1>6 DEF Pending, Listed
<1>9. \A q \in Postings : Stale(q)' => Stale(q) /\ q[1] # s
  <2> SUFFICES ASSUME NEW q \in Postings, Stale(q)' PROVE Stale(q) /\ q[1] # s
    OBVIOUS
  <2>1. PICK k \in Runners : /\ poll'[k][q[1]].pc = "write" /\ q[2] \in poll'[k][q[1]].tx
                             /\ opp'[poll'[k][q[1]].found.opp].merged
    BY DEF Stale
  <2>2. q[1] \in Sources /\ poll[k][q[1]].found.opp \in Postings
    BY DEF Postings, TypeOK, Pollers, Polls, Links
  <2>3. poll'[k][q[1]] = poll[k][q[1]] /\ q[1] # s
    BY <1>2, <1>3, <2>1, <2>2
  <2> QED
    BY <1>5, <2>1, <2>2, <2>3 DEF Stale
<1>10. \A q \in Postings : q[1] = s => ~Stale(q)
  BY <1>0, <1>2, <1>3 DEF Stale
<1>11. Credited'
  BY <1>2, <1>6, <1>8 DEF Credited, MissInv
<1>12. ASSUME NEW o \in Postings PROVE Counts(o)'
  <2>1. Counts(o) /\ Credited
    BY DEF MissInv
  <2>2. \A q \in Fresh(o) : q \in Fresh(o)' /\ unseen'[q] = unseen[q]
    BY <1>2, <1>6, <1>9 DEF Fresh, RowsInto
  <2>3. CASE opp'[o].misses = opp[o].misses
    <3>1. opp'[o].misses <= opp[o].misses
      BY <1>5, <2>3
    <3> QED
      BY <1>5, <1>8, <1>11, <2>1, <2>2, <3>1, CountsStay
  <2>4. CASE /\ RowsOf(o, s) # {} /\ RowsOf(o, s) \cap p.seen = {}
             /\ opp'[o].misses = opp[o].misses + 1
    <3>1. RowsOf(o, s) \cap Listed(p.page.doc) = {}
      <4>1. SeenKnown(s, p)
        BY <1>0 DEF MissInv
      <4> QED
        BY <1>2, <2>4, <4>1 DEF SeenKnown, RowsOf
    <3>2. Pending(o, s)
      BY <1>0, <1>2, <2>4, <3>1 DEF Pending
    <3>3. PICK y \in Postings : y \in RowsInto(o) /\ y[1] = s
      <4>1. PICK j \in RowsOf(o, s) : TRUE
        BY <2>4
      <4>2. <<s, j>> \in Postings /\ <<s, j>> \in RowsInto(o)
        BY DEF RowsOf, RowsInto, Postings
      <4> QED
        BY <4>2
    <3>4. y \in Fresh(o)
      BY <1>10, <3>3 DEF Fresh
    <3>5. PICK A \in SUBSET Postings : A = Fresh(o) /\ A = Fresh(o)'
      <4>1. Fresh(o) \subseteq Postings
        BY DEF Fresh, RowsInto
      <4>2. ASSUME NEW q \in Fresh(o)' PROVE q \in Fresh(o)
        <5>1. q \in RowsInto(o) /\ q \in Postings /\ ~Stale(q)'
          BY <1>6 DEF Fresh, RowsInto
        <5>2. q[1] \in Sources /\ \A k \in Runners : poll[k][q[1]].found.opp \in Postings
          BY <5>1 DEF Postings, TypeOK, Pollers, Polls, Links
        <5>3. q[1] # s => \A k \in Runners : poll'[k][q[1]] = poll[k][q[1]]
          BY <1>3, <5>2
        <5>4. ~Stale(q)
          BY <1>5, <1>10, <5>1, <5>2, <5>3 DEF Stale
        <5> QED
          BY <5>1, <5>4 DEF Fresh
      <4> QED
        BY <2>2, <4>1, <4>2
    <3>6. PICK f : f = Earned(o)
      OBVIOUS
    <3>7. PICK g : g = Earned(o)'
      OBVIOUS
    <3>8. \A q \in Postings : f[q] \in Nat /\ g[q] \in Nat /\ unseen[q] \in Nat
      BY <1>11, <2>1, <3>6, <3>7, EarnedType, EarnedTypeNext
    <3>9. \A q \in A :
            /\ q \in Postings /\ q[1] \in Sources
            /\ f[q] = IF Pending(o, q[1]) THEN unseen[q] - 1 ELSE unseen[q]
            /\ g[q] = IF Pending(o, q[1])' THEN unseen[q] - 1 ELSE unseen[q]
      BY <1>2, <1>6, <3>5, <3>6, <3>7 DEF Earned, Fresh, Postings
    <3>10. \A q \in A : f[q] <= g[q]
      BY <1>8, <3>8, <3>9
    <3>11. y \in A /\ f[y] + 1 <= g[y]
      BY <1>7, <3>2, <3>3, <3>4, <3>5, <3>8, <3>9
    <3>12. SumFunctionOnSet(f, A) + 1 <= SumFunctionOnSet(g, A)
      BY <3>8, <3>10, <3>11, PostingsFinite, SumGrowsMore
    <3>13. SumFunctionOnSet(f, A) \in Nat /\ SumFunctionOnSet(g, A) \in Nat
      <4>1. IsFiniteSet(A)
        BY PostingsFinite, FS_Subset
      <4> QED
        BY <3>8, <4>1, SumType
    <3>14. \/ opp[o].merged \/ opp[o].misses <= SumFunctionOnSet(f, A)
           \/ MaxMisses <= SumFunctionOnSet(unseen, A)
      BY <2>1, <3>5, <3>6 DEF Counts
    <3>15. \/ opp'[o].merged \/ opp'[o].misses <= SumFunctionOnSet(g, A)
           \/ MaxMisses <= SumFunctionOnSet(unseen', A)
      BY <1>2, <1>5, <2>4, <3>12, <3>13, <3>14
    <3> QED
      BY <3>5, <3>7, <3>15, Zenon DEF Counts
  <2> QED
    BY <1>5, <2>3, <2>4
<1>13. ASSUME NEW k \in Runners, NEW t \in Sources
       PROVE  SeenKnown(t, poll[k][t])' /\ FoundKnown(t, poll[k][t])'
  <2>1. /\ SeenKnown(t, poll[k][t]) /\ FoundKnown(t, poll[k][t])
        /\ poll[k][t].found.opp \in Postings
    BY DEF MissInv, TypeOK, Pollers, Polls, Links
  <2>2. CASE k = r /\ t = s
    BY <1>2, <1>3, <2>2 DEF SeenKnown, FoundKnown
  <2>3. CASE ~(k = r /\ t = s)
    <3>1. poll'[k][t] = poll[k][t]
      BY <1>3, <2>3
    <3>2. opp'[poll[k][t].found.opp].merged = opp[poll[k][t].found.opp].merged
      BY <1>5, <2>1
    <3> QED
      BY <1>2, <2>1, <3>1, <3>2 DEF SeenKnown, FoundKnown, Listed
  <2> QED
    BY <2>2, <2>3
<1> QED
  BY <1>11, <1>12, <1>13 DEF MissInv

(* A posting that is recorded as seen resets the counter of the opportunity *)
(* the transaction read, which is still its own unless it was merged away;  *)
(* and then the opportunity that has it now never counted on its row.       *)
LEMMA ExistingCounts ==
  ASSUME TypeOK, TypeOK', NoDoubleFiring, LinksInv, MissInv, NEW r \in Runners,
         NEW s \in Sources, NEW j \in Jobs, UpsertExisting(r, s, j)
  PROVE  MissInv'
<1>0. PICK p \in Polls : p = poll[r][s]
  BY DEF TypeOK, Pollers
<1>1. PICK f \in Links, t \in Texts : f = p.found /\ t = p.page.doc[j]
  BY PollParts
<1>2. PICK n : n = [p EXCEPT !.pc = "upsert", !.todo = p.todo \ p.tx, !.seen = p.seen \cup {j},
                             !.tx = {}, !.found = NoPoll(s).found]
  OBVIOUS
<1>3. /\ n.pc = "upsert" /\ n.todo = p.todo \ p.tx /\ n.seen = p.seen \cup {j}
      /\ n.page = p.page
      /\ p.pc = "write" /\ j \in p.tx /\ f.hash # 0 /\ Goto(r, s, n)
  BY <1>0, <1>1, <1>2 DEF Polls, UpsertExisting, EndUpsert, At
<1>4. /\ opp' = [opp EXCEPT ![f.opp] = IF f.hash = t THEN MarkOpportunitySeen(@)
                                       ELSE UpdateOpportunityFromPosting(@, t)]
      /\ link' = [link EXCEPT ![<<s, j>>] = TouchSourceRow(@, t)]
      /\ unseen' = [unseen EXCEPT ![<<s, j>>] = 0]
  BY <1>0, <1>1 DEF UpsertExisting
<1>5. /\ \A q \in Runners, v \in Sources :
           poll'[q][v] = IF q = r /\ v = s THEN n ELSE poll[q][v]
      /\ \A q \in Runners : q # r => poll[q][s].pc = "none"
  BY <1>0, <1>3, GotoPolls
<1>6. /\ t # 0 /\ p.tx = {j} /\ j \in Listed(p.page.doc) /\ link[<<s, j>>].hash # 0
      /\ f.opp \in Postings
      /\ opp[f.opp].merged \/ link[<<s, j>>].opp = f.opp
  <2>1. PollKnows(s, p) /\ FoundKnown(s, p)
    BY <1>0 DEF LinksInv, MissInv, Pollers
  <2> QED
    BY <1>1, <1>3, <2>1 DEF PollKnows, FoundKnown, Listed, Links
<1>7. PICK i \in Postings : i = <<s, j>> /\ i[1] = s /\ i[2] = j
  <2>1. <<s, j>> \in Postings
    BY DEF Postings
  <2> QED
    BY <2>1
<1>8. \A q \in Postings : /\ link'[q].opp = link[q].opp
                          /\ link'[q].hash # 0 <=> link[q].hash # 0
                          /\ q # i => link'[q] = link[q] /\ unseen'[q] = unseen[q]
  <2>1. \A l \in Links : TouchSourceRow(l, t).opp = l.opp /\ TouchSourceRow(l, t).hash = t
    BY DEF Links, TouchSourceRow
  <2>2. \A q \in Postings : /\ link'[q] = IF q = i THEN TouchSourceRow(link[q], t) ELSE link[q]
                            /\ unseen'[q] = IF q = i THEN 0 ELSE unseen[q]
                            /\ link[q] \in Links
    BY <1>4, <1>7 DEF TypeOK
  <2> QED
    BY <1>6, <1>7, <2>1, <2>2
<1>9. \A o \in Postings : /\ opp'[o].merged = opp[o].merged
                          /\ o = f.opp => opp'[o].misses = 0
                          /\ o # f.opp => opp'[o].misses = opp[o].misses
  <2>1. \A o \in Opps : /\ MarkOpportunitySeen(o).misses = 0
                        /\ MarkOpportunitySeen(o).merged = o.merged
                        /\ UpdateOpportunityFromPosting(o, t).misses = 0
                        /\ UpdateOpportunityFromPosting(o, t).merged = o.merged
    BY DEF Opps, MarkOpportunitySeen, UpdateOpportunityFromPosting
  <2>2. \A o \in Postings : /\ opp[o] \in Opps
                            /\ opp'[o] = IF o # f.opp THEN opp[o]
                                         ELSE IF f.hash = t THEN MarkOpportunitySeen(opp[o])
                                         ELSE UpdateOpportunityFromPosting(opp[o], t)
    BY <1>4 DEF TypeOK
  <2> QED
    BY <2>1, <2>2
<1>10. \A o : RowsInto(o)' = RowsInto(o)
  BY <1>8 DEF RowsInto
<1>11. \A v \in Sources : \A o : RowsOf(o, v)' = RowsOf(o, v)
  <2>1. \A v \in Sources, k \in Jobs : <<v, k>> \in Postings
    BY DEF Postings
  <2> QED
    BY <1>8, <2>1 DEF RowsOf
<1>12. ASSUME NEW o \in Postings, NEW v \in Sources, Pending(o, v)' PROVE Pending(o, v)
  <2>1. PICK q \in Runners : /\ poll'[q][v].pc \in {"upsert", "write"}
                             /\ RowsOf(o, v) \cap Listed(poll'[q][v].page.doc) = {}
    BY <1>11, <1>12 DEF Pending, Listed
  <2>2. poll[q][v].pc \in {"upsert", "write"} /\ poll'[q][v].page = poll[q][v].page
    BY <1>0, <1>3, <1>5, <2>1
  <2> QED
    BY <1>11, <1>12, <2>1, <2>2 DEF Pending
<1>13. \A o \in Postings : j \in RowsOf(o, s) => ~Pending(o, s)
  BY <1>0, <1>5, <1>6 DEF Pending
<1>14. Credited'
  <2> SUFFICES ASSUME NEW o \in Postings, NEW v \in Sources, Pending(o, v)', NEW k \in RowsOf(o, v)
               PROVE  unseen'[<<v, k>>] >= 1
    BY <1>11 DEF Credited
  <2>1. Pending(o, v) /\ <<v, k>> \in Postings
    BY <1>12 DEF RowsOf, Postings
  <2>2. <<v, k>> # i
    BY <1>7, <1>13, <2>1
  <2> QED
    BY <1>8, <2>1, <2>2 DEF MissInv, Credited
<1>15. ASSUME NEW q \in Postings, Stale(q)' PROVE Stale(q)
  <2>1. PICK k \in Runners : /\ poll'[k][q[1]].pc = "write" /\ q[2] \in poll'[k][q[1]].tx
                             /\ opp'[poll'[k][q[1]].found.opp].merged
    BY <1>15 DEF Stale
  <2>2. q[1] \in Sources /\ poll[k][q[1]].found.opp \in Postings
    BY DEF Postings, TypeOK, Pollers, Polls, Links
  <2>3. poll'[k][q[1]] = poll[k][q[1]]
    BY <1>3, <1>5, <2>1, <2>2
  <2> QED
    BY <1>9, <2>1, <2>2, <2>3 DEF Stale
<1>16. ASSUME NEW o \in Postings PROVE Counts(o)'
  <2>1. CASE o = f.opp
    BY <1>9, <1>14, <2>1, CountsZero
  <2>2. CASE o # f.opp
    <3>1. i \notin Fresh(o)
      <4> SUFFICES ASSUME i \in RowsInto(o) PROVE Stale(i)
        BY DEF Fresh
      <4>1. opp[f.opp].merged
        BY <1>6, <1>7, <2>2 DEF RowsInto
      <4> QED
        BY <1>0, <1>1, <1>3, <1>7, <4>1 DEF Stale
    <3>2. \A q \in Fresh(o) : q \in Fresh(o)' /\ unseen'[q] = unseen[q]
      BY <1>8, <1>10, <1>15, <3>1 DEF Fresh, RowsInto
    <3>3. /\ opp'[o].misses <= opp[o].misses /\ (opp[o].merged => opp'[o].merged)
          /\ Counts(o) /\ Credited
      BY <1>9, <2>2 DEF TypeOK, Opps, MissInv
    <3> QED
      BY <1>12, <1>14, <3>2, <3>3, CountsStay
  <2> QED
    BY <2>1, <2>2
<1>17. ASSUME NEW k \in Runners, NEW v \in Sources
       PROVE  SeenKnown(v, poll[k][v])' /\ FoundKnown(v, poll[k][v])'
  <2>1. /\ SeenKnown(v, poll[k][v]) /\ FoundKnown(v, poll[k][v]) /\ SeenKnown(s, p)
        /\ poll[k][v].found.opp \in Postings
    BY <1>0 DEF MissInv, TypeOK, Pollers, Polls, Links
  <2>2. \A m \in Jobs : /\ link'[<<v, m>>].opp = link[<<v, m>>].opp
                        /\ link'[<<v, m>>].hash # 0 <=> link[<<v, m>>].hash # 0
    <3>1. \A m \in Jobs : <<v, m>> \in Postings
      BY DEF Postings
    <3> QED
      BY <1>8, <3>1
  <2>3. CASE k = r /\ v = s
    <3>1. FoundKnown(v, poll[k][v])'
      BY <1>3, <1>5, <2>3 DEF FoundKnown
    <3>2. Listed(n.page.doc) \ (n.todo \cup n.seen) \subseteq
            Listed(p.page.doc) \ (p.todo \cup p.seen)
      BY <1>3, <1>6
    <3>3. n.seen \subseteq Listed(n.page.doc)
      BY <1>3, <1>6, <2>1 DEF SeenKnown
    <3>4. \A m \in Listed(n.page.doc) \ (n.todo \cup n.seen) : link'[<<s, m>>].hash = 0
      BY <1>3, <2>1, <2>2, <2>3, <3>2 DEF SeenKnown, Listed
    <3>5. poll'[k][v] = n
      BY <1>5, <2>3
    <3>6. SeenKnown(v, poll[k][v])'
      BY <1>3, <2>3, <3>3, <3>4, <3>5 DEF SeenKnown, Listed
    <3> QED
      BY <3>1, <3>6
  <2>4. CASE ~(k = r /\ v = s)
    <3>1. poll'[k][v] = poll[k][v]
      BY <1>5, <2>4
    <3>2. opp'[poll[k][v].found.opp].merged = opp[poll[k][v].found.opp].merged
      BY <1>9, <2>1
    <3>3. poll[k][v].todo \subseteq Jobs
      BY DEF TypeOK, Pollers, Polls
    <3>4. SeenKnown(v, poll[k][v])'
      BY <2>1, <2>2, <3>1 DEF SeenKnown, Listed
    <3>5. FoundKnown(v, poll[k][v])'
      BY <2>1, <2>2, <3>1, <3>2, <3>3 DEF FoundKnown
    <3> QED
      BY <3>4, <3>5
  <2> QED
    BY <2>3, <2>4
<1> QED
  BY <1>14, <1>16, <1>17 DEF MissInv

(* A posting that is stored for the first time starts a counter at zero,    *)
(* for an opportunity that had no row.                                      *)
LEMMA NewCounts ==
  ASSUME TypeOK, TypeOK', NoDoubleFiring, LinksInv, MissInv, NEW r \in Runners,
         NEW s \in Sources, NEW j \in Jobs, UpsertNew(r, s, j)
  PROVE  MissInv'
<1>0. PICK p \in Polls : p = poll[r][s]
  BY DEF TypeOK, Pollers
<1>1. PICK t \in Texts, i \in Postings : t = p.page.doc[j] /\ i = <<s, j>> /\ i[1] = s /\ i[2] = j
  <2>1. <<s, j>> \in Postings
    BY DEF Postings
  <2> QED
    BY <2>1, PollParts
<1>2. PICK n : n = [p EXCEPT !.pc = "upsert", !.todo = p.todo \ p.tx, !.seen = p.seen \cup {j},
                             !.tx = {}, !.found = NoPoll(s).found]
  OBVIOUS
<1>3. /\ n.pc = "upsert" /\ n.todo = p.todo \ p.tx /\ n.seen = p.seen \cup {j}
      /\ n.page = p.page
      /\ p.pc = "write" /\ j \in p.tx /\ Goto(r, s, n)
  BY <1>0, <1>2 DEF Polls, UpsertNew, EndUpsert, At
<1>4. /\ link[i].hash = 0
      /\ opp' = [opp EXCEPT ![i] = InsertOpportunityFromPosting(t)]
      /\ link' = [link EXCEPT ![i] = [opp |-> i, hash |-> t]]
      /\ unseen' = [unseen EXCEPT ![i] = 0]
  BY <1>0, <1>1 DEF UpsertNew, InsertRefused
<1>5. /\ \A q \in Runners, v \in Sources :
           poll'[q][v] = IF q = r /\ v = s THEN n ELSE poll[q][v]
      /\ \A q \in Runners : q # r => poll[q][s].pc = "none"
  BY <1>0, <1>3, GotoPolls
<1>6. t # 0 /\ p.tx = {j} /\ j \in Listed(p.page.doc)
  <2>1. PollKnows(s, p) /\ FoundKnown(s, p)
    BY <1>0 DEF LinksInv, MissInv, Pollers
  <2> QED
    BY <1>1, <1>3, <2>1 DEF PollKnows, FoundKnown, Listed
<1>7. \A q \in Postings :
        /\ link'[q] = IF q = i THEN [opp |-> i, hash |-> t] ELSE link[q]
        /\ unseen'[q] = IF q = i THEN 0 ELSE unseen[q]
        /\ opp'[q] = IF q = i THEN InsertOpportunityFromPosting(t) ELSE opp[q]
  BY <1>4 DEF TypeOK
<1>8. InsertOpportunityFromPosting(t).misses = 0 /\ ~InsertOpportunityFromPosting(t).merged
  BY DEF InsertOpportunityFromPosting
<1>9. opp[i].text = 0
  BY <1>4 DEF LinksInv, Sourced
<1>10. \A q \in Postings : link[q].hash # 0 => link[q].opp # i /\ q # i
  BY <1>4, <1>9 DEF LinksInv, LinksAreCanonical
<1>11. \A o : o # i => RowsInto(o)' = RowsInto(o)
  BY <1>4, <1>7 DEF RowsInto
<1>12. \A v \in Sources : \A o : o # i => RowsOf(o, v)' = RowsOf(o, v)
  <2>1. \A v \in Sources, k \in Jobs : <<v, k>> \in Postings
    BY DEF Postings
  <2> QED
    BY <1>4, <1>7, <2>1 DEF RowsOf
<1>13. \A v \in Sources : ~Pending(i, v)'
  <2> SUFFICES ASSUME NEW v \in Sources, Pending(i, v)' PROVE FALSE
    OBVIOUS
  <2>1. PICK q \in Runners : /\ poll'[q][v].pc \in {"upsert", "write"}
                             /\ RowsOf(i, v)' \cap Listed(poll'[q][v].page.doc) = {}
    BY DEF Pending, Listed
  <2>2. RowsOf(i, v)' # {}
    BY DEF Pending
  <2>3. PICK k \in Jobs : /\ k \in RowsOf(i, v)' /\ <<v, k>> \in Postings
                          /\ link'[<<v, k>>].hash # 0 /\ link'[<<v, k>>].opp = i
    BY <2>2 DEF RowsOf, Postings
  <2>4. <<v, k>> = i
    BY <1>7, <1>10, <2>3
  <2>5. v = s /\ k = j
    BY <1>1, <2>4
  <2>6. q = r /\ poll'[q][v].page = p.page
    BY <1>3, <1>5, <2>1, <2>5
  <2> QED
    BY <1>6, <2>1, <2>3, <2>5, <2>6
<1>14. ASSUME NEW o \in Postings, NEW v \in Sources, Pending(o, v)' PROVE Pending(o, v) /\ o # i
  <2>0. o # i /\ RowsOf(o, v)' = RowsOf(o, v)
    BY <1>12, <1>13, <1>14
  <2>1. PICK q \in Runners : /\ poll'[q][v].pc \in {"upsert", "write"}
                             /\ RowsOf(o, v) \cap Listed(poll'[q][v].page.doc) = {}
    BY <1>14, <2>0 DEF Pending, Listed
  <2>2. poll[q][v].pc \in {"upsert", "write"} /\ poll'[q][v].page = poll[q][v].page
    BY <1>0, <1>3, <1>5, <2>1
  <2> QED
    BY <1>14, <2>0, <2>1, <2>2 DEF Pending
<1>15. Credited'
  <2> SUFFICES ASSUME NEW o \in Postings, NEW v \in Sources, Pending(o, v)',
                      NEW k \in RowsOf(o, v)'
               PROVE  unseen'[<<v, k>>] >= 1
    BY DEF Credited
  <2>1. Pending(o, v) /\ k \in RowsOf(o, v)
    BY <1>12, <1>14
  <2>2. <<v, k>> # i /\ <<v, k>> \in Postings
    BY <1>4, <2>1 DEF RowsOf, Postings
  <2> QED
    BY <1>7, <2>1, <2>2 DEF MissInv, Credited
<1>16. ASSUME NEW q \in Postings, Stale(q)' PROVE Stale(q)
  <2>1. PICK k \in Runners : /\ poll'[k][q[1]].pc = "write" /\ q[2] \in poll'[k][q[1]].tx
                             /\ opp'[poll'[k][q[1]].found.opp].merged
    BY <1>16 DEF Stale
  <2>2. q[1] \in Sources /\ poll[k][q[1]].found.opp \in Postings
    BY DEF Postings, TypeOK, Pollers, Polls, Links
  <2>3. poll'[k][q[1]] = poll[k][q[1]]
    BY <1>3, <1>5, <2>1, <2>2
  <2> QED
    BY <1>7, <1>8, <2>1, <2>2, <2>3 DEF Stale
<1>17. ASSUME NEW o \in Postings PROVE Counts(o)'
  <2>1. CASE o = i
    BY <1>7, <1>8, <1>15, <2>1, CountsZero
  <2>2. CASE o # i
    <3>1. \A q \in Fresh(o) : q \in Fresh(o)' /\ unseen'[q] = unseen[q]
      BY <1>7, <1>10, <1>11, <1>16, <2>2 DEF Fresh, RowsInto
    <3>2. /\ opp'[o].misses <= opp[o].misses /\ (opp[o].merged => opp'[o].merged)
          /\ Counts(o) /\ Credited
      BY <1>7, <2>2 DEF TypeOK, Opps, MissInv
    <3> QED
      BY <1>14, <1>15, <3>1, <3>2, CountsStay
  <2> QED
    BY <2>1, <2>2
<1>18. ASSUME NEW k \in Runners, NEW v \in Sources
       PROVE  SeenKnown(v, poll[k][v])' /\ FoundKnown(v, poll[k][v])'
  <2>1. /\ SeenKnown(v, poll[k][v]) /\ FoundKnown(v, poll[k][v]) /\ SeenKnown(s, p)
        /\ poll[k][v].found.opp \in Postings /\ PollKnows(v, poll[k][v])
    BY <1>0 DEF MissInv, TypeOK, Pollers, Polls, Links, LinksInv
  <2>2. \A m \in Jobs : <<v, m>> \in Postings /\ (v = s /\ m = j <=> <<v, m>> = i)
    BY <1>1 DEF Postings
  <2>3. CASE k = r /\ v = s
    <3>1. FoundKnown(v, poll[k][v])'
      BY <1>3, <1>5, <2>3 DEF FoundKnown
    <3>2. /\ j \notin Listed(n.page.doc) \ (n.todo \cup n.seen)
          /\ Listed(n.page.doc) \ (n.todo \cup n.seen) \subseteq
               Listed(p.page.doc) \ (p.todo \cup p.seen)
      BY <1>3, <1>6
    <3>3. n.seen \subseteq Listed(n.page.doc)
      BY <1>3, <1>6, <2>1 DEF SeenKnown
    <3>4. \A m \in Listed(n.page.doc) \ (n.todo \cup n.seen) : link'[<<s, m>>].hash = 0
      <4> SUFFICES ASSUME NEW m \in Listed(n.page.doc) \ (n.todo \cup n.seen)
                   PROVE  link'[<<s, m>>].hash = 0
        OBVIOUS
      <4>1. m \in Jobs /\ m # j /\ link[<<s, m>>].hash = 0
        BY <1>3, <2>1, <3>2 DEF SeenKnown, Listed
      <4> QED
        BY <1>7, <2>2, <2>3, <4>1
    <3>5. poll'[k][v] = n
      BY <1>5, <2>3
    <3>6. SeenKnown(v, poll[k][v])'
      BY <1>3, <2>3, <3>3, <3>4, <3>5 DEF SeenKnown, Listed
    <3> QED
      BY <3>1, <3>6
  <2>4. CASE ~(k = r /\ v = s)
    <3>1. poll'[k][v] = poll[k][v]
      BY <1>5, <2>4
    <3>2. CASE v = s
      <4>1. poll'[k][v].pc = "none"
        BY <1>5, <2>4, <3>1, <3>2
      <4> QED
        BY <4>1 DEF SeenKnown, FoundKnown
    <3>3. CASE v # s
      <4>1. \A m \in Jobs : link'[<<v, m>>] = link[<<v, m>>]
        BY <1>7, <2>2, <3>3
      <4>2. poll[k][v].todo \subseteq Jobs
        BY DEF TypeOK, Pollers, Polls
      <4>3. SeenKnown(v, poll[k][v])'
        BY <2>1, <3>1, <4>1 DEF SeenKnown, Listed
      <4>4. poll[k][v].found.hash # 0 => opp'[poll[k][v].found.opp] = opp[poll[k][v].found.opp]
        BY <1>7, <1>9, <2>1 DEF PollKnows
      <4>5. FoundKnown(v, poll[k][v])'
        BY <2>1, <3>1, <4>1, <4>2, <4>4 DEF FoundKnown
      <4> QED
        BY <4>3, <4>5
    <3> QED
      BY <3>2, <3>3
  <2> QED
    BY <2>3, <2>4
<1> QED
  BY <1>15, <1>17, <1>18 DEF MissInv

(* A merge brings the survivor rows and takes none of its own away: a poll  *)
(* that counts against it now was counting against it, or against the row   *)
(* merged away.                                                             *)
LEMMA MergeCounts ==
  ASSUME TypeOK, TypeOK', LinksInv, MissInv, NEW from \in Postings, NEW into \in Postings,
         Pollers = Runners, Merge(from, into)
  PROVE  MissInv'
<1>1. /\ from # into /\ ~opp[from].merged
      /\ \A q \in Postings : link'[q] = MoveSourceRows(link[q], from, into)
      /\ opp' = [opp EXCEPT ![from].merged = TRUE]
      /\ UNCHANGED <<poll, unseen>>
  BY DEF Merge
<1>2. \A q \in Postings : link[q] \in Links /\ link[q].opp \in Postings /\ opp[q] \in Opps
  BY DEF TypeOK, Links
<1>3. \A l \in Links : /\ MoveSourceRows(l, from, into).opp = IF l.opp = from THEN into ELSE l.opp
                       /\ MoveSourceRows(l, from, into).hash = l.hash
  BY DEF MoveSourceRows, Links
<1>4. \A q \in Postings : /\ link'[q].opp = IF link[q].opp = from THEN into ELSE link[q].opp
                          /\ link'[q].hash = link[q].hash
  BY <1>1, <1>2, <1>3
<1>5. \A o \in Postings : /\ opp'[o].misses = opp[o].misses
                          /\ o # from => opp'[o].merged = opp[o].merged
                          /\ opp'[from].merged
  BY <1>1, <1>2 DEF TypeOK, Opps
<1>6. \A v \in Sources, k \in Jobs : <<v, k>> \in Postings
  BY DEF Postings
<1>7. /\ \A v \in Sources : RowsOf(from, v)' = {}
      /\ \A v \in Sources : RowsOf(into, v)' = RowsOf(into, v) \cup RowsOf(from, v)
      /\ \A v \in Sources : \A o : o # from /\ o # into => RowsOf(o, v)' = RowsOf(o, v)
  BY <1>1, <1>4, <1>6 DEF RowsOf
<1>8. ASSUME NEW o \in Postings, NEW v \in Sources, Pending(o, v)', NEW k \in RowsOf(o, v)'
      PROVE  \E e \in {o, from} : Pending(e, v) /\ k \in RowsOf(e, v)
  <2>0. o # from
    BY <1>7, <1>8
  <2>1. PICK q \in Runners : /\ poll[q][v].pc \in {"upsert", "write"}
                             /\ RowsOf(o, v)' \cap Listed(poll[q][v].page.doc) = {}
    BY <1>1, <1>8 DEF Pending, Listed
  <2>2. PICK e \in {o, from} : k \in RowsOf(e, v) /\ RowsOf(e, v) \subseteq RowsOf(o, v)'
    BY <1>7, <1>8, <2>0
  <2> QED
    BY <2>1, <2>2 DEF Pending
<1>9. \A o \in Postings, v \in Sources : Pending(o, v)' /\ RowsOf(o, v) # {} => Pending(o, v)
  <2> SUFFICES ASSUME NEW o \in Postings, NEW v \in Sources, Pending(o, v)', RowsOf(o, v) # {}
               PROVE  Pending(o, v)
    OBVIOUS
  <2>1. PICK q \in Runners : /\ poll[q][v].pc \in {"upsert", "write"}
                             /\ RowsOf(o, v)' \cap Listed(poll[q][v].page.doc) = {}
    BY <1>1 DEF Pending, Listed
  <2>2. RowsOf(o, v)' # {}
    BY DEF Pending
  <2>3. RowsOf(o, v) \subseteq RowsOf(o, v)'
    BY <1>7, <2>2
  <2> QED
    BY <2>1, <2>3 DEF Pending
<1>10. Credited'
  <2> SUFFICES ASSUME NEW o \in Postings, NEW v \in Sources, Pending(o, v)',
                      NEW k \in RowsOf(o, v)'
               PROVE  unseen'[<<v, k>>] >= 1
    BY DEF Credited
  <2>1. PICK e \in {o, from} : Pending(e, v) /\ k \in RowsOf(e, v)
    BY <1>8
  <2> QED
    BY <1>1, <2>1 DEF MissInv, Credited
<1>11. ASSUME NEW q \in Postings, link[q].hash # 0, link[q].opp # from, Stale(q)'
       PROVE  Stale(q)
  <2>1. q[1] \in Sources /\ q[2] \in Jobs /\ q = <<q[1], q[2]>>
    BY DEF Postings
  <2>2. PICK k \in Runners : /\ poll[k][q[1]].pc = "write" /\ q[2] \in poll[k][q[1]].tx
                             /\ opp'[poll[k][q[1]].found.opp].merged
    BY <1>1, <1>11 DEF Stale
  <2>3. PICK p \in Polls : p = poll[k][q[1]]
    BY <2>1 DEF TypeOK, Pollers
  <2>4. p.found.opp \in Postings
    BY DEF Polls, Links
  <2>5. FoundKnown(q[1], p)
    BY <2>1, <2>3 DEF MissInv
  <2>6. p.found.hash # 0 /\ (opp[p.found.opp].merged \/ link[q].opp = p.found.opp)
    BY <1>11, <2>1, <2>2, <2>3, <2>5 DEF FoundKnown
  <2>7. opp[p.found.opp].merged
    BY <1>5, <1>11, <2>2, <2>3, <2>4, <2>6
  <2> QED
    BY <2>2, <2>3, <2>7 DEF Stale
<1>12. ASSUME NEW o \in Postings PROVE Counts(o)'
  <2>1. CASE o = from
    BY <1>5, <2>1 DEF Counts
  <2>2. CASE o # from
    <3>1. \A q \in Fresh(o) : q \in Fresh(o)' /\ unseen'[q] = unseen[q]
      BY <1>1, <1>4, <1>11, <2>2 DEF Fresh, RowsInto
    <3>2. /\ opp'[o].misses <= opp[o].misses /\ (opp[o].merged => opp'[o].merged)
          /\ Counts(o) /\ Credited
      BY <1>5, <2>2 DEF TypeOK, Opps, MissInv
    <3> QED
      BY <1>9, <1>10, <3>1, <3>2, CountsStay
  <2> QED
    BY <2>1, <2>2
<1>13. ASSUME NEW k \in Runners, NEW v \in Sources
       PROVE  SeenKnown(v, poll[k][v])' /\ FoundKnown(v, poll[k][v])'
  <2>1. /\ SeenKnown(v, poll[k][v]) /\ FoundKnown(v, poll[k][v])
        /\ poll[k][v].found.opp \in Postings /\ poll[k][v].todo \subseteq Jobs
    BY DEF MissInv, TypeOK, Pollers, Polls, Links
  <2>2. SeenKnown(v, poll[k][v])'
    BY <1>1, <1>4, <1>6, <2>1 DEF SeenKnown, Listed
  <2>3. FoundKnown(v, poll[k][v])'
    <3> SUFFICES ASSUME poll[k][v].pc = "write"
                 PROVE  FoundKnown(v, poll[k][v])'
      BY <1>1 DEF FoundKnown
    <3>1. PICK m \in poll[k][v].todo :
            /\ poll[k][v].tx = {m}
            /\ poll[k][v].found.hash = 0 <=> link[<<v, m>>].hash = 0
            /\ poll[k][v].found.hash # 0 => \/ opp[poll[k][v].found.opp].merged
                                            \/ link[<<v, m>>].opp = poll[k][v].found.opp
      BY <2>1 DEF FoundKnown
    <3>2. /\ link'[<<v, m>>].hash = link[<<v, m>>].hash
          /\ link[<<v, m>>].opp = poll[k][v].found.opp =>
               \/ opp'[poll[k][v].found.opp].merged
               \/ link'[<<v, m>>].opp = poll[k][v].found.opp
          /\ opp[poll[k][v].found.opp].merged => opp'[poll[k][v].found.opp].merged
      BY <1>4, <1>5, <1>6, <2>1
    <3> QED
      BY <1>1, <3>1, <3>2 DEF FoundKnown
  <2> QED
    BY <2>2, <2>3
<1> QED
  BY <1>10, <1>12, <1>13 DEF MissInv

LEMMA MissStep ==
  ASSUME Scheduled, "upsert" \notin Faults, TypeOK, TypeOK', NoDoubleFiring, LinksInv, MissInv,
         [Next]_vars
  PROVE  MissInv'
<1>0. Pollers = Runners /\ Operators = {}
  BY DEF Pollers, Scheduled
<1>q. UNCHANGED <<opp, link, unseen>> => Quiet
  BY DEF Quiet
<1>s. \A r \in Runners, s \in Sources :
        Follows(s, poll[r][s], poll[r][s]) /\ Knows(s, poll[r][s])
  BY DEF Follows, Knows, MissInv
<1>u. ASSUME UNCHANGED <<opp, link, unseen, poll>> PROVE MissInv'
  BY <1>q, <1>s, <1>u, QuietStep
<1>1. ASSUME NEW r \in Runners, NEW S \in SUBSET Sources, Tick(r, S) PROVE MissInv'
  <2>1. ASSUME NEW q \in Runners, NEW t \in Sources
        PROVE  Follows(t, poll[q][t], poll'[q][t]) /\ Knows(t, poll'[q][t])
    <3>1. poll'[q][t] = IF q = r THEN (IF t \in S THEN Begin(t, "queued") ELSE NoPoll(t))
                        ELSE poll[q][t]
      BY <1>1 DEF Tick, TypeOK, Pollers
    <3>2. Begin(t, "queued").pc = "queued" /\ Begin(t, "queued").seen = {}
      BY DEF Begin, NoPoll
    <3>3. Follows(t, poll[q][t], Begin(t, "queued")) /\ Knows(t, Begin(t, "queued"))
      BY <3>2 DEF Follows, Knows, SeenKnown, FoundKnown
    <3> QED
      BY <1>s, <3>1, <3>3, NoPollQuiet
  <2> QED
    BY <1>q, <1>1, <2>1, QuietStep DEF Tick
<1>2. ASSUME NEW r \in Pollers, NEW s \in Sources, Advance(r, s) PROVE MissInv'
  BY <1>0, <1>2, AdvanceQuiet, FetchCounts, BumpCounts, ExistingCounts, NewCounts, Zenon
     DEF Advance
<1>3. ASSUME NEW r \in Pollers, NEW s \in Sources, Fails(r, s) PROVE MissInv'
  BY <1>0, <1>q, <1>3, QuietAbandon
     DEF Fails, RunOneFails, FetchFails, UpsertFails, LivenessFails, SaveFails, Fault
<1>4. ASSUME NEW r \in Pollers, Crash(r) PROVE MissInv'
  <2>1. ASSUME NEW q \in Runners, NEW t \in Sources
        PROVE  Follows(t, poll[q][t], poll'[q][t]) /\ Knows(t, poll'[q][t])
    <3>1. poll'[q][t] = IF q = r THEN NoPoll(t) ELSE poll[q][t]
      BY <1>4 DEF Crash, TypeOK, Pollers
    <3> QED
      BY <1>s, <3>1, NoPollQuiet
  <2> QED
    BY <1>q, <1>4, <2>1, QuietStep DEF Crash
<1>5. ASSUME NEW s \in Sources, AddSource(s) \/ BecomesDue(s) \/ LeaseExpires(s) PROVE MissInv'
  BY <1>u, <1>5 DEF AddSource, BecomesDue, LeaseExpires
<1>6. ASSUME NEW d \in Duplicates, Merge(d[1], d[2]) PROVE MissInv'
  BY <1>0, <1>6, MergeCounts, DuplicatesAssumption
<1>7. ASSUME NEW s \in Sources, NEW j \in Jobs, NEW t \in Texts, ChangeBoard(s, j, t)
      PROVE  MissInv'
  BY <1>u, <1>7 DEF ChangeBoard
<1>8. CASE UNCHANGED vars
  BY <1>u, <1>8 DEF vars
<1> QED
  BY <1>0, <1>1, <1>2, <1>3, <1>4, <1>5, <1>6, <1>7, <1>8, Zenon DEF Next

(* Only the closing statement closes, and what it closes has earned it.     *)
LEMMA ClosingStep ==
  ASSUME TypeOK, MissInv, [Next]_vars, NEW o \in Postings,
         opp'[o].closed, ~opp[o].closed, ~opp[o].merged
  PROVE  SumFunctionOnSet(unseen, RowsInto(o)) >= MaxMisses
<1>0. \A q \in Postings : opp[q] \in Opps
  BY DEF TypeOK
<1>1. opp[o].misses >= MaxMisses
  <2>0. opp' # opp
    OBVIOUS
  <2>1. ASSUME NEW r \in Pollers, NEW s \in Sources, Advance(r, s)
        PROVE  opp[o].misses >= MaxMisses
    <3>1. CASE CloseMissedOpportunities(r, s)
      <4>1. opp'[o] = CloseMissed(opp[o])
        BY <3>1 DEF CloseMissedOpportunities
      <4>2. \A x \in Opps : CloseMissed(x).closed /\ ~x.closed => x.misses >= MaxMisses
        BY DEF CloseMissed, Opps
      <4> QED
        BY <1>0, <4>1, <4>2
    <3>2. CASE Bump(r, s)
      <4>1. opp'[o] = BumpMissesForAbsent(o, s, poll[r][s].seen)
        BY <3>2 DEF Bump
      <4>2. \A x \in Opps : [x EXCEPT !.misses = @ + 1].closed = x.closed
        BY DEF Opps
      <4> QED
        BY <1>0, <4>1, <4>2 DEF BumpMissesForAbsent
    <3>3. ASSUME NEW j \in Jobs, UpsertExisting(r, s, j) PROVE FALSE
      <4>1. PICK t, h, e : opp' = [opp EXCEPT ![e] = IF h = t THEN MarkOpportunitySeen(@)
                                                     ELSE UpdateOpportunityFromPosting(@, t)]
        BY <3>3 DEF UpsertExisting
      <4>2. \A x \in Opps : /\ ~MarkOpportunitySeen(x).closed
                            /\ ~UpdateOpportunityFromPosting(x, t).closed
        BY DEF Opps, MarkOpportunitySeen, UpdateOpportunityFromPosting
      <4>3. \/ opp'[o] = opp[o] \/ opp'[o] = MarkOpportunitySeen(opp[o])
            \/ opp'[o] = UpdateOpportunityFromPosting(opp[o], t)
        BY <4>1 DEF TypeOK
      <4> QED
        BY <1>0, <4>2, <4>3
    <3>4. ASSUME NEW j \in Jobs, UpsertNew(r, s, j) PROVE FALSE
      <4>1. \A t : ~InsertOpportunityFromPosting(t).closed
        BY DEF InsertOpportunityFromPosting
      <4> QED
        BY <3>4, <4>1 DEF UpsertNew, TypeOK
    <3>5. ASSUME NEW j, \/ RunOne(r, s) \/ FetchNotModified(r, s) \/ Fetch(r, s)
                        \/ FindSourceRow(r, s, j) \/ UpsertRefused(r, s, j)
                        \/ RecordHealth(r, s) \/ SaveSourceCursor(r, s)
          PROVE  FALSE
      BY <2>0, <3>5 DEF RunOne, FetchNotModified, Fetch, FindSourceRow, UpsertRefused,
                        RecordHealth, SaveSourceCursor
    <3> QED
      BY <2>1, <3>1, <3>2, <3>3, <3>4, <3>5, Zenon DEF Advance
  <2>2. ASSUME NEW from, NEW into, Merge(from, into) PROVE FALSE
    <3>1. \A x \in Opps : [x EXCEPT !.merged = TRUE].closed = x.closed
      BY DEF Opps
    <3>2. opp'[o] = opp[o] \/ opp'[o] = [opp[o] EXCEPT !.merged = TRUE]
      BY <2>2 DEF Merge, TypeOK
    <3> QED
      BY <1>0, <3>1, <3>2
  <2>3. ASSUME NEW r, NEW s, \/ Fails(r, s) \/ RunOnce(r, s) \/ Crash(r) \/ AddSource(s)
                             \/ BecomesDue(s) \/ LeaseExpires(s) \/ UNCHANGED vars
        PROVE  FALSE
    BY <2>0, <2>3 DEF Fails, RunOneFails, FetchFails, UpsertFails, LivenessFails, SaveFails,
                      RunOnce, Crash, AddSource, BecomesDue, LeaseExpires, vars
  <2>4. ASSUME NEW r, NEW S, Tick(r, S) PROVE FALSE
    BY <2>0, <2>4 DEF Tick
  <2>5. ASSUME NEW s, NEW j, NEW t, ChangeBoard(s, j, t) PROVE FALSE
    BY <2>0, <2>5 DEF ChangeBoard
  <2> QED
    BY <2>1, <2>2, <2>3, <2>4, <2>5, Zenon DEF Next
<1>2. PICK A \in SUBSET Postings : A = Fresh(o)
  BY DEF Fresh, RowsInto
<1>3. PICK B \in SUBSET Postings : B = RowsInto(o)
  BY DEF RowsInto
<1>4. A \subseteq B
  BY <1>2, <1>3 DEF Fresh
<1>5. PICK f : f = Earned(o)
  OBVIOUS
<1>6. \A q \in Postings : unseen[q] \in Nat /\ f[q] \in Nat /\ f[q] <= unseen[q]
  BY <1>5, EarnedType DEF MissInv
<1>7. SumFunctionOnSet(f, A) <= SumFunctionOnSet(unseen, B)
  BY <1>4, <1>6, PostingsFinite, SumGrows
<1>8. SumFunctionOnSet(unseen, A) <= SumFunctionOnSet(unseen, B)
  <2>1. \A q \in A : unseen[q] <= unseen[q]
    BY <1>6
  <2> QED
    BY <1>4, <1>6, <2>1, PostingsFinite, SumGrows
<1>9. IsFiniteSet(A) /\ IsFiniteSet(B)
  BY PostingsFinite, FS_Subset
<1>10. /\ SumFunctionOnSet(f, A) \in Nat /\ SumFunctionOnSet(unseen, A) \in Nat
       /\ SumFunctionOnSet(unseen, B) \in Nat
  BY <1>6, <1>9, SumType
<1>11. \/ opp[o].misses <= SumFunctionOnSet(f, A)
       \/ MaxMisses <= SumFunctionOnSet(unseen, A)
  BY <1>2, <1>5 DEF MissInv, Counts
<1>12. opp[o].misses \in Nat /\ MaxMisses \in Nat
  BY <1>0, PollAssumption DEF Opps
<1> QED
  BY <1>1, <1>3, <1>7, <1>8, <1>10, <1>11, <1>12

(* A canonical posting is closed only after MaxMisses fetched boards did    *)
(* not list it since it was last recorded as seen, as long as sources are   *)
(* polled by the schedule within their lease and no upsert is lost: whatever*)
(* crashes or fails besides, whatever ETags recur, whichever boards share a *)
(* job, and wherever merges move the rows while a poll is half done. The    *)
(* inductive part is an account: what a counter holds was earned by fetches *)
(* without its rows, each row's pending fetch not yet counted.              *)
THEOREM ClosingIsEarned ==
  ASSUME Scheduled, "upsert" \notin Faults PROVE Spec => ClosedAfterMisses
<1>1. Init => Exclusive /\ LinksInv /\ MissInv
  <2> SUFFICES ASSUME Init PROVE Exclusive /\ LinksInv /\ MissInv
    OBVIOUS
  <2>1. Exclusive
    BY DEF Init, Exclusive, NoDoubleFiring, PollersHoldLease, Polling, NoPoll, Pollers
  <2>2. LinksAreCanonical /\ Sourced
    BY DEF Init, LinksAreCanonical, NoRow, Sourced, InsertOpportunityFromPosting
  <2>3. \A r \in Pollers, s \in Sources : PollKnows(s, poll[r][s])
    BY NoPollKnows DEF Init
  <2>4. \A r \in Runners, s \in Sources : Knows(s, poll[r][s])
    BY NoPollQuiet DEF Init, Pollers
  <2>5. \A o \in Postings : RowsInto(o) = {}
    BY DEF Init, NoRow, RowsInto
  <2>6. \A o \in Postings, s \in Sources : ~Pending(o, s)
    BY DEF Init, NoPoll, Pending, Pollers
  <2>7. Credited
    BY <2>6 DEF Credited
  <2>8. ASSUME NEW o \in Postings PROVE Counts(o)
    <3>1. Fresh(o) = {} /\ opp[o].misses = 0
      BY <2>5 DEF Fresh, Init, InsertOpportunityFromPosting
    <3>2. PICK f : f = Earned(o)
      OBVIOUS
    <3>3. IsFiniteSet({}) /\ \A x \in {} : f[x] \in Nat
      BY FS_EmptySet
    <3>4. SumFunctionOnSet(f, {}) \in Nat
      BY <3>3, SumType
    <3>5. 0 <= SumFunctionOnSet(f, {})
      BY <3>4
    <3> QED
      BY <3>1, <3>2, <3>5 DEF Counts
  <2> QED
    BY <2>1, <2>2, <2>3, <2>4, <2>7, <2>8 DEF LinksInv, MissInv, Knows
<1>2. TypeOK /\ TypeOK' /\ Exclusive /\ LinksInv /\ MissInv /\ [Next]_vars =>
        Exclusive' /\ LinksInv' /\ MissInv'
  <2> SUFFICES ASSUME TypeOK, TypeOK', Exclusive, LinksInv, MissInv, [Next]_vars
               PROVE  Exclusive' /\ LinksInv' /\ MissInv'
    OBVIOUS
  <2>1. Exclusive'
    BY ExclusiveStep
  <2>2. LinksInv'
    BY AllRowsKept, AllPollsKnow, KnowledgeStays DEF RowsKept, LinksInv
  <2>3. MissInv'
    BY MissStep DEF Exclusive
  <2> QED
    BY <2>1, <2>2, <2>3
<1>3. TypeOK /\ MissInv /\ [Next]_vars =>
        [\A o \in Postings : opp'[o].closed /\ ~opp[o].closed /\ ~opp[o].merged =>
           SumFunctionOnSet(unseen, RowsInto(o)) >= MaxMisses]_vars
  BY ClosingStep
<1> QED
  BY <1>1, <1>2, <1>3, Typed, PTL DEF Spec, ClosedAfterMisses
=============================================================================
