------------------------------- MODULE Dedupe -------------------------------
(***************************************************************************)
(* Merging duplicates: stages/dedupe.go. Workers handle one row each: they *)
(* read it, read its block, decide, and merge it into a duplicate or queue *)
(* the pair for review. A sweeper goes through the blocks with several     *)
(* members and merges the younger rows into the older. Both use the same   *)
(* transaction, which locks the block by the key its caller read, checks   *)
(* again that neither side is merged, moves the source rows and marks the  *)
(* row. Rows are numbered in the order of first_seen_at; source row p came *)
(* with the posting that created row p, and a posting that is reworded     *)
(* rewords the row its source row is at by then.                           *)
(*                                                                         *)
(* Leases are Pipeline's: here any number of workers may be at a row, as   *)
(* when a lease has run out. Every read is a snapshot; the decision is     *)
(* made from it. The lock and the two checks after it are one step: a      *)
(* commit between the checks is caught by what the statements check.       *)
(***************************************************************************)
EXTENDS Decide

CONSTANTS
  N,              \* the rows are 1..N, the oldest first
  Texts,          \* what a posting may say
  Derived,        \* Texts -> what the normalizer derives: block, sim, geo, title
  Body,           \* Texts -> what ingestion stores: company, hash, long
  Url,            \* 1..N -> the application endpoint of a source row
  Wordings,       \* 1..N -> SUBSET Texts: what a posting may come to say
  Closable,       \* rows that polls may miss until they are closed
  Workers, Sweepers,
  MaxBlockCandidates,
  SweepBatch,     \* DedupeSweeper.Batch
  MaxEvents       \* bound: rewordings, closings, crashes and failing statements

Rows == 1..N
Actors == Workers \cup Sweepers
Blocks == {Derived[t].block : t \in Texts}

ASSUME RowsAssumption == N \in Nat
ASSUME TextsAssumption == /\ Wordings \in [Rows -> SUBSET Texts]
                          /\ DOMAIN Derived = Texts /\ DOMAIN Body = Texts
                          /\ DOMAIN Url = Rows /\ Closable \subseteq Rows
ASSUME ActorsAssumption == Workers \cap Sweepers = {}
ASSUME LimitsAssumption == /\ MaxBlockCandidates \in Nat \ {0} /\ SweepBatch \in Nat \ {0}
                           /\ MaxEvents \in Nat

VARIABLES
  row,      \* Rows -> Opps: opportunity
  link,     \* Rows -> Rows: opportunity_source.opportunity_id
  said,     \* Rows -> Texts: opportunity_source.content_hash
  queued,   \* merge_candidate: pairs withheld for review
  job,      \* Actors -> Jobs: what each handler or sweep holds in memory
  tx,       \* Actors -> SUBSET Txs: the open merge transaction, if any
  moved,    \* history: the rows whose normalization has changed their block
  events    \* how many of what MaxEvents bounds have happened

vars == <<row, link, said, queued, job, tx, moved, events>>

Opps == [text : Texts,
         sig : SUBSET Texts,                \* the text it was normalized with, {}: not yet
         stage : {"fetched", "normalized", "deduped"},
         ver : 0..MaxEvents,
         closed : BOOLEAN,
         merged : 0..N]                     \* merged_into, 0: NULL

(* A line of the LEFT JOIN of opportunity and opportunity_source: an        *)
(* opportunity with one of its source rows, 0 if it has none. A view is a   *)
(* line as somebody read it. A pair is two lines that Decide found the      *)
(* same, and whether to merge the first into the second.                    *)
Lines == Rows \X (0..N)
Views == [line : Lines, text : Texts, sig : SUBSET Texts]
Pairs == [from : Lines, into : Lines, auto : BOOLEAN]

(* Of a handler, its row and what it read of it; of a sweep, the blocks it  *)
(* has yet to finish; the block at hand and the pairs still to act on.      *)
Jobs == [pc : {"none", "claimed", "loaded", "pairs"}, id : 0..N, ver : 0..MaxEvents,
         mine : SUBSET Views, blocks : SUBSET Blocks, key : SUBSET Blocks,
         todo : SUBSET Pairs]
Txs == [from : Rows, into : Rows, key : Blocks]

NoJob == [pc |-> "none", id |-> 0, ver |-> 0, mine |-> {}, blocks |-> {}, key |-> {},
          todo |-> {}]

TypeOK ==
  /\ row \in [Rows -> Opps]
  /\ link \in [Rows -> Rows] /\ said \in [Rows -> Texts] /\ moved \subseteq Rows
  /\ queued \subseteq Rows \X Rows
  /\ job \in [Actors -> Jobs]
  /\ tx \in [Actors -> SUBSET Txs]
  /\ \A a \in Actors : Cardinality(tx[a]) <= 1
  /\ events \in 0..MaxEvents
-----------------------------------------------------------------------------
BlockOf(o) == {Derived[t].block : t \in row[o].sig}
InBlock(key) == {o \in Rows : BlockOf(o) = {key} /\ row[o].merged = 0 /\ ~row[o].closed}

View(l) == [line |-> l, text |-> row[l[1]].text, sig |-> row[l[1]].sig]

(* A view as Decide sees it.                                                *)
Candidate(v) ==
  LET d == Derived[CHOOSE t \in v.sig : TRUE]
      b == Body[v.text]
      source == {v.line[2]} \ {0}
  IN [company |-> b.company, ats |-> source, url |-> UNION {Url[p] : p \in source},
      hash |-> b.hash, long |-> b.long, sim |-> d.sim, geo |-> d.geo, title |-> d.title]

Joined(O) == {<<link[p], p>> : p \in {q \in Rows : link[q] \in O}}
             \cup {<<o, 0>> : o \in O \ {link[p] : p \in Rows}}

Verdict(v, l) == Decide(Candidate(v), Candidate(View(l)))

(* What a view and a line compared come to: the pair, if they are the same. *)
Compared(v, l, from, into) ==
  LET verdict == Verdict(v, l)
  IN IF verdict.same THEN {[from |-> from, into |-> into, auto |-> AutoApply(verdict)]} ELSE {}

(* The statements of stages.sql. X_Y is X with a fault in it.               *)
(* LIMIT returns any lines of those there are.                              *)
Limited(lines) == {C \in SUBSET lines :
  \/ Cardinality(C) = MaxBlockCandidates
  \/ C = lines /\ Cardinality(C) < MaxBlockCandidates}
FindBlockCandidates(key, id) == Limited(Joined(InBlock(key) \ {id}))

(* Oldest first, and the source rows of an opportunity in some order.       *)
ListBlockMembers(key) == Joined(InBlock(key))
Before(l, m) == l[1] < m[1] \/ (l[1] = m[1] /\ l[2] < m[2])

Members(key) == Cardinality(InBlock(key))

(* The batch of the largest blocks: any, among those of the same size.      *)
Largest(B) == {C \in SUBSET B :
  /\ Cardinality(C) <= SweepBatch
  /\ \A k \in B \ C : Cardinality(C) = SweepBatch /\ \A c \in C : Members(c) >= Members(k)}
FindMultiMemberBlocks_Three == Largest({k \in Blocks : Members(k) > 2})
FindMultiMemberBlocks == Largest({k \in Blocks : Members(k) > 1})

LockBlock_None(key) == TRUE
LockBlock(key) == \A a \in Actors : \A t \in tx[a] : t.key # key

IsUnmerged(o) == row[o].merged = 0

MoveSourceRows_None(from, into) == link
MoveSourceRows(from, into) == [p \in Rows |-> IF link[p] = from THEN into ELSE link[p]]

MarkMerged(o, into) == [o EXCEPT !.merged = into]

(* opportunity_merge and merge_candidate refuse a row paired with itself.   *)
QueueMergeCandidate(from, into) ==
  IF from = into THEN queued ELSE queued \cup {<<from, into>>}
-----------------------------------------------------------------------------
Init ==
  /\ row \in [Rows -> [text : Texts, sig : {{}}, stage : {"fetched"}, ver : {0},
                      closed : {FALSE}, merged : {0}]]
  /\ \A o \in Rows : row[o].text \in Wordings[o]
  /\ link = [p \in Rows |-> p]
  /\ said = [p \in Rows |-> row[p].text]
  /\ queued = {} /\ moved = {}
  /\ job = [a \in Actors |-> NoJob]
  /\ tx = [a \in Actors |-> {}]
  /\ events = 0

Event == events < MaxEvents /\ events' = events + 1

(* ApplyNormalization, guarded by the version; a merged row is not claimed. *)
Normalize(o) ==
  /\ row[o].stage = "fetched" /\ row[o].merged = 0
  /\ row' = [row EXCEPT ![o].sig = {row[o].text}, ![o].stage = "normalized"]
  /\ moved' = IF BlockOf(o) \subseteq {Derived[row[o].text].block} THEN moved
              ELSE moved \cup {o}
  /\ UNCHANGED <<link, said, queued, job, tx, events>>

(* A poll finds a posting reworded: the row it is at goes back to the start *)
(* of the pipeline, with the old derived fields until it is normalized.     *)
Reword(p, t) ==
  /\ t \in Wordings[p] \ {said[p]}
  /\ said' = [said EXCEPT ![p] = t]
  /\ row' = [row EXCEPT ![link[p]].text = t, ![link[p]].stage = "fetched",
                        ![link[p]].ver = @ + 1, ![link[p]].closed = FALSE]
  /\ Event
  /\ UNCHANGED <<link, queued, job, tx, moved>>

(* Polls no longer see the posting, or see it again.                        *)
CloseOrReopen(o) ==
  /\ o \in Closable
  /\ row' = [row EXCEPT ![o].closed = ~@]
  /\ Event
  /\ UNCHANGED <<link, said, queued, job, tx, moved>>

Claim(w, o) ==
  /\ job[w].pc = "none"
  /\ row[o].stage = "normalized" /\ row[o].merged = 0
  /\ job' = [job EXCEPT ![w] = [NoJob EXCEPT !.pc = "claimed", !.id = o, !.ver = row[o].ver]]
  /\ UNCHANGED <<row, link, said, queued, tx, moved, events>>

(* Handle: read the row, whatever it is by now, with any one of its lines ..*)
GetOpportunityForDedupe(w) ==
  /\ job[w].pc = "claimed"
  /\ \E me \in Joined({job[w].id}) :
       job' = [job EXCEPT ![w].pc = "loaded", ![w].key = BlockOf(job[w].id),
                          ![w].mine = {View(me)}]
  /\ UNCHANGED <<row, link, said, queued, tx, moved, events>>

(* ... then the candidates, not all of a large block, and decide each pair  *)
(* with the row as it was read.                                             *)
FindCandidates(w) ==
  /\ job[w].pc = "loaded"
  /\ \E k \in job[w].key, v \in job[w].mine :
     \E C \in FindBlockCandidates(k, job[w].id) :
       job' = [job EXCEPT ![w].pc = "pairs", ![w].mine = {}, ![w].todo =
                 UNION {Compared(v, c, v.line, c) : c \in C}]
  /\ UNCHANGED <<row, link, said, queued, tx, moved, events>>

(* SweepBlocks: choose the blocks ...                                       *)
SweepBlocks(s) ==
  /\ job[s].pc = "none"
  /\ \E B \in FindMultiMemberBlocks \ {{}} :
       job' = [job EXCEPT ![s] = [NoJob EXCEPT !.pc = "loaded", !.blocks = B]]
  /\ UNCHANGED <<row, link, said, queued, tx, moved, events>>

(* ... and sweep each: sweepOne reads the members and decides every pair,   *)
(* the older side first. Pairs that are not the same need nothing.          *)
SweepOne(s, k) ==
  /\ job[s].pc = "loaded" /\ k \in job[s].blocks
  /\ LET members == ListBlockMembers(k)
     IN job' = [job EXCEPT ![s].pc = "pairs", ![s].key = {k}, ![s].todo =
          UNION {Compared(View(x[1]), x[2], x[2], x[1]) :
                   x \in {y \in members \X members : Before(y[1], y[2])}}]
  /\ UNCHANGED <<row, link, said, queued, tx, moved, events>>

(* The end of a handler, or of a block, which the sweeper strikes off.      *)
Finish(a) ==
  IF a \in Workers \/ job[a].blocks \subseteq job[a].key THEN NoJob
  ELSE [NoJob EXCEPT !.pc = "loaded", !.blocks = job[a].blocks \ job[a].key]

(* The pair at hand: candidates come in any order, members oldest first.    *)
AtHand(a, x) ==
  /\ job[a].pc = "pairs" /\ tx[a] = {} /\ x \in job[a].todo
  /\ a \in Sweepers => \A y \in job[a].todo \ {x} :
       Before(x.into, y.into) \/ (x.into = y.into /\ Before(x.from, y.from))

(* Whatever becomes of a merge, sweepOne has no more to do with the row it  *)
(* merges; only a keeper is kept until the end of its own round.            *)
WithoutRow(a, x) == {y \in job[a].todo \ {x} :
  y.from[1] # x.from[1] /\ (y.into[1] = x.from[1] => y.into = x.into)}

(* Nothing left to compare: a worker advances its row, if it is unchanged.  *)
Done(a) ==
  /\ job[a].pc = "pairs" /\ tx[a] = {} /\ job[a].todo = {}
  /\ row' = [o \in Rows |->
       IF a \in Workers /\ o = job[a].id /\ row[o].ver = job[a].ver
          /\ row[o].merged = 0 /\ row[o].stage = "normalized"
       THEN [row[o] EXCEPT !.stage = "deduped"] ELSE row[o]]
  /\ job' = [job EXCEPT ![a] = Finish(a)]
  /\ UNCHANGED <<link, said, queued, tx, moved, events>>

(* A pair that is not certain enough is queued ...                          *)
Queue(a, x) ==
  /\ AtHand(a, x) /\ ~x.auto
  /\ queued' = QueueMergeCandidate(x.from[1], x.into[1])
  /\ job' = [job EXCEPT ![a].todo = @ \ {x}]
  /\ UNCHANGED <<row, link, said, tx, moved, events>>

(* ... and the others are merged: the transaction takes the lock of the     *)
(* block and checks both sides again.                                       *)
BeginMerge(a, x, k) ==
  /\ AtHand(a, x) /\ x.auto
  /\ k \in job[a].key /\ LockBlock(k)
  /\ IsUnmerged(x.from[1]) /\ IsUnmerged(x.into[1])
  /\ tx' = [tx EXCEPT ![a] = {[from |-> x.from[1], into |-> x.into[1], key |-> k]}]
  /\ job' = [job EXCEPT ![a].todo = WithoutRow(a, x)]
  /\ UNCHANGED <<row, link, said, queued, moved, events>>

(* ErrVersionConflict: a worker yields, a sweep goes on without the row.    *)
MergeYields(a, x, k) ==
  /\ AtHand(a, x) /\ x.auto
  /\ k \in job[a].key /\ LockBlock(k)
  /\ ~IsUnmerged(x.from[1]) \/ ~IsUnmerged(x.into[1])
  /\ job' = [job EXCEPT ![a] = IF a \in Workers THEN NoJob
                               ELSE [@ EXCEPT !.todo = WithoutRow(a, x)]]
  /\ UNCHANGED <<row, link, said, queued, tx, moved, events>>

After(a) == IF a \in Workers THEN NoJob ELSE job[a]

(* MoveSourceRows, MarkMerged, RecordMerge and the commit ...               *)
CommitMerge(a, t) ==
  /\ t \in tx[a] /\ t.from # t.into /\ IsUnmerged(t.from)
  /\ link' = MoveSourceRows(t.from, t.into)
  /\ row' = [row EXCEPT ![t.from] = MarkMerged(@, t.into)]
  /\ tx' = [tx EXCEPT ![a] = {}]
  /\ job' = [job EXCEPT ![a] = After(a)]
  /\ UNCHANGED <<said, queued, moved, events>>

(* ... or a rollback: MarkMerged finds the row merged meanwhile, and the    *)
(* caller yields, or RecordMerge refuses a row merged into itself, and the  *)
(* sweep of the block ends with that error.                                 *)
RollBackMerge(a, t) ==
  /\ t \in tx[a] /\ (t.from = t.into \/ ~IsUnmerged(t.from))
  /\ tx' = [tx EXCEPT ![a] = {}]
  /\ job' = [job EXCEPT ![a] = IF IsUnmerged(t.from) THEN Finish(a) ELSE After(a)]
  /\ UNCHANGED <<row, link, said, queued, moved, events>>

(* The process dies, or a statement fails and the error ends the handler    *)
(* or the block; an open transaction is rolled back.                        *)
Fail(a) ==
  /\ job[a].pc # "none"
  /\ Event
  /\ tx' = [tx EXCEPT ![a] = {}]
  /\ job' = [job EXCEPT ![a] = Finish(a)]
  /\ UNCHANGED <<row, link, said, queued, moved>>
-----------------------------------------------------------------------------
(* How a merge ends.                                                        *)
EndMerge(a) == \E t \in tx[a] : CommitMerge(a, t) \/ RollBackMerge(a, t)

Step(a) ==
  \/ Done(a)
  \/ \E x \in job[a].todo :
       \/ Queue(a, x)
       \/ \E k \in job[a].key : BeginMerge(a, x, k) \/ MergeYields(a, x, k)
  \/ EndMerge(a)

Handle(w) == GetOpportunityForDedupe(w) \/ FindCandidates(w) \/ Step(w)
Sweep(s) == SweepBlocks(s) \/ (\E k \in Blocks : SweepOne(s, k)) \/ Step(s)

Next ==
  \/ \E o \in Rows : \/ Normalize(o) \/ CloseOrReopen(o)
                     \/ \E t \in Texts : Reword(o, t)
  \/ \E w \in Workers : Handle(w) \/ \E o \in Rows : Claim(w, o)
  \/ \E s \in Sweepers : Sweep(s)
  \/ \E a \in Actors : Fail(a)

Spec == Init /\ [][Next]_vars

(* A transaction of a worker ends, and the ticker of the sweeper keeps      *)
(* firing. No worker need ever take up a row, nor get on with it.           *)
Fairness ==
  /\ \A w \in Workers : WF_vars(EndMerge(w))
  /\ \A s \in Sweepers : WF_vars(Sweep(s))

FairSpec == Spec /\ Fairness

(* Workers poll for rows to normalize and to compare for as long as they    *)
(* run, take up every row in its turn, and get the lock they wait for.      *)
Polling ==
  /\ \A o \in Rows : WF_vars(Normalize(o)) /\ SF_vars(\E w \in Workers : Claim(w, o))
  /\ \A w \in Workers : SF_vars(Handle(w))

PollingSpec == FairSpec /\ Polling
-----------------------------------------------------------------------------
(* No row is merged, through any chain, into itself: among any rows there   *)
(* is one that is not merged into another of them. A cycle A->B->A hides    *)
(* both rows from every reader. A merge locks the block its caller read, so *)
(* a row that has moved to another block since can be in two merges at      *)
(* once: a cycle, if there is one, goes through such a row.                 *)
MergesAreAForest ==
  \A S \in SUBSET (Rows \ moved) : S # {} => \E o \in S : row[o].merged \notin S

(* Every source row is at a canonical opportunity: whatever merges, sweeps  *)
(* and rewordings come together, no provenance stays on a row merged away,  *)
(* unless that row has moved to another block.                              *)
ProvenanceIsCanonical == \A p \in Rows : row[link[p]].merged = 0 \/ link[p] \in moved

(* Two canonical rows of one block whose lines Decide would merge.          *)
Duplicates(a, b) ==
  /\ \E k \in Blocks : {a, b} \subseteq InBlock(k)
  /\ \A l \in Joined({a}), m \in Joined({b}) : AutoApply(Verdict(View(l), m))

DuplicatesExist == \E a \in Rows : \E b \in a + 1..N : Duplicates(a, b)

(* Arrival order does not matter: duplicates that no worker merged, because *)
(* each was handled before the other was normalized, are found by the sweep,*)
(* at least as long as no row has absorbed another.                         *)
DuplicatesMeet ==
  DuplicatesExist ~> ~DuplicatesExist \/ \E o \in Rows : Cardinality(Joined({o})) > 1

(* "The sweep makes dedup eventually consistent": the same, with nothing    *)
(* excepted. It does not hold: a row with two source rows is two lines of   *)
(* ListBlockMembers, which are compared with each other and found the same. *)
(* The merge of the row into itself is refused, and the error ends the      *)
(* sweep of the block before it gets to the other members, every time.      *)
DedupeIsEventuallyConsistent == DuplicatesExist ~> ~DuplicatesExist
=============================================================================
