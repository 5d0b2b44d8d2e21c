---------------------------- MODULE DedupeProofs ----------------------------
(***************************************************************************)
(* Proofs about Dedupe, for any number of rows, texts, workers, sweepers   *)
(* and events, and any thresholds of the decision.                         *)
(***************************************************************************)
EXTENDS Dedupe, TLAPS, FiniteSetTheorems

(* A handler is at a row.                                                   *)
Handles(a, j) == a \in Workers /\ j.pc # "none" => j.id \in Rows

(* Versions count the events, so that they stay in their bound.             *)
TypeInv ==
  /\ TypeOK
  /\ \A o \in Rows : row[o].ver <= events
  /\ \A a \in Actors : Handles(a, job[a])

(* A row was normalized with one text, if it was at all.                    *)
Signed == \A o \in Rows : \A s, t \in row[o].sig : s = t

(* What the key of a block guards: the row is of that block for as long as  *)
(* no normalization moves it to another.                                    *)
Keeps(o, k) == o \in moved \/ BlockOf(o) = {k}

(* A handler's key is that of its row, and the pairs it has decided are of  *)
(* rows of the block at hand.                                               *)
JobAtHome(a, j) ==
  /\ a \in Workers /\ j.pc # "none" => \A k \in j.key : Keeps(j.id, k)
  /\ \A v \in j.mine : v.line[1] = j.id
  /\ \A k, l \in j.key : k = l
  /\ \A k \in j.key, x \in j.todo : Keeps(x.from[1], k) /\ Keeps(x.into[1], k)
  /\ j.pc # "pairs" => j.todo = {}

JobsAtHome == \A a \in Actors : JobAtHome(a, job[a])

(* While a merge is open both rows are of its block and still unmerged, or  *)
(* have moved since, and no other merge has the lock.                       *)
MergesExclude ==
  /\ \A a \in Actors : \A t \in tx[a] :
       /\ Keeps(t.from, t.key) /\ Keeps(t.into, t.key)
       /\ t.from \in moved \/ IsUnmerged(t.from)
       /\ t.into \in moved \/ IsUnmerged(t.into)
  /\ \A a, b \in Actors : \A t \in tx[a], u \in tx[b] : t.key = u.key => a = b

DedupeInv ==
  /\ TypeInv
  /\ Signed
  /\ JobsAtHome
  /\ MergesExclude
  /\ MergesAreAForest
  /\ ProvenanceIsCanonical
-----------------------------------------------------------------------------
(* What a step does to the job of its actor: a job of the right type, which *)
(* is at home if the actor's job was.                                       *)
NewJob(a) == \E n \in Jobs :
  /\ job' = [job EXCEPT ![a] = n] /\ Handles(a, n)
  /\ Signed /\ JobAtHome(a, job[a]) => JobAtHome(a, n)

LEMMA Fields ==
  ASSUME TypeInv
  PROVE  /\ \A o \in Rows : /\ row[o] \in Opps /\ row[o].ver \in 0..MaxEvents
                             /\ row[o].text \in Texts /\ row[o].sig \subseteq Texts
                             /\ link[o] \in Rows
         /\ \A a \in Actors : /\ job[a] \in Jobs /\ job[a].blocks \subseteq Blocks
                              /\ job[a].key \subseteq Blocks /\ job[a].todo \subseteq Pairs
                              /\ job[a].mine \subseteq Views
                              /\ tx[a] \subseteq Txs
  BY DEF TypeInv, TypeOK, Opps, Jobs

LEMMA BlockOfType ==
  ASSUME TypeInv, NEW o \in Rows
  PROVE  BlockOf(o) \subseteq Blocks /\ (Signed => \A k \in BlockOf(o) : BlockOf(o) = {k})
<1>1. row[o].sig \subseteq Texts
  BY Fields
<1>2. BlockOf(o) \subseteq Blocks
  BY <1>1 DEF BlockOf, Blocks
<1>3. ASSUME Signed, NEW k \in BlockOf(o) PROVE BlockOf(o) = {k}
  BY <1>3 DEF BlockOf, Signed
<1> QED
  BY <1>2, <1>3

LEMMA MembersKeep ==
  ASSUME NEW k, NEW o \in InBlock(k) PROVE o \in Rows /\ Keeps(o, k)
  BY DEF InBlock, Keeps

LEMMA JoinedFacts ==
  ASSUME TypeInv, NEW O \in SUBSET Rows, NEW l \in Joined(O)
  PROVE  l \in Lines /\ l[1] \in O
<1>1. \A p \in Rows : p \in 0..N /\ link[p] \in Rows
  BY Fields, RowsAssumption DEF Rows
<1>2. CASE \E p \in Rows : link[p] \in O /\ l = <<link[p], p>>
  BY <1>1, <1>2 DEF Lines
<1>3. CASE \E o \in O : l = <<o, 0>>
  BY <1>3, RowsAssumption DEF Lines
<1> QED
  BY <1>2, <1>3 DEF Joined

LEMMA ComparedFacts ==
  ASSUME NEW v, NEW l, NEW from \in Lines, NEW into \in Lines,
         NEW x \in Compared(v, l, from, into)
  PROVE  x \in Pairs /\ x.from = from /\ x.into = into
<1>1. AutoApply(Verdict(v, l)) \in BOOLEAN
  BY DEF AutoApply
<1>2. x = [from |-> from, into |-> into, auto |-> AutoApply(Verdict(v, l))]
  BY DEF Compared
<1> QED
  BY <1>1, <1>2 DEF Pairs

LEMMA NoJobFacts ==
  ASSUME NEW a PROVE NoJob \in Jobs /\ Handles(a, NoJob) /\ JobAtHome(a, NoJob)
  BY RowsAssumption, LimitsAssumption DEF NoJob, Jobs, JobAtHome, Handles

LEMMA LessTodo ==
  ASSUME NEW a, NEW j \in Jobs, NEW T, T \subseteq j.todo
  PROVE  /\ [j EXCEPT !.todo = T] \in Jobs
         /\ Handles(a, j) => Handles(a, [j EXCEPT !.todo = T])
         /\ JobAtHome(a, j) => JobAtHome(a, [j EXCEPT !.todo = T])
<1>1. [j EXCEPT !.todo = T] \in Jobs
  BY DEF Jobs
<1>2. PICK n \in Jobs : n = [j EXCEPT !.todo = T]
  BY <1>1
<1>3. n.pc = j.pc /\ n.id = j.id /\ n.key = j.key /\ n.mine = j.mine /\ n.todo = T
  BY <1>2 DEF Jobs
<1>4. (Handles(a, j) => Handles(a, n)) /\ (JobAtHome(a, j) => JobAtHome(a, n))
  BY <1>3 DEF JobAtHome, Handles
<1> QED
  BY <1>1, <1>2, <1>4

LEMMA FinishFacts ==
  ASSUME TypeInv, NEW a \in Actors
  PROVE  Finish(a) \in Jobs /\ Handles(a, Finish(a)) /\ JobAtHome(a, Finish(a))
<1>1. CASE a \in Workers \/ job[a].blocks \subseteq job[a].key
  BY <1>1, NoJobFacts DEF Finish
<1>2. CASE ~(a \in Workers \/ job[a].blocks \subseteq job[a].key)
  <2>1. Finish(a) = [pc |-> "loaded", id |-> 0, ver |-> 0, mine |-> {}, key |-> {}, todo |-> {},
                     blocks |-> job[a].blocks \ job[a].key]
    BY <1>2 DEF Finish, NoJob
  <2>2. job[a].blocks \subseteq Blocks
    BY Fields
  <2>3. Finish(a) \in Jobs
    BY <2>1, <2>2, RowsAssumption, LimitsAssumption DEF Jobs
  <2>4. Handles(a, Finish(a)) /\ JobAtHome(a, Finish(a))
    BY <1>2, <2>1 DEF JobAtHome, Handles
  <2> QED
    BY <2>3, <2>4
<1> QED
  BY <1>1, <1>2

LEMMA AfterFacts ==
  ASSUME TypeInv, NEW a \in Actors
  PROVE  /\ After(a) \in Jobs /\ Handles(a, After(a))
         /\ JobAtHome(a, job[a]) => JobAtHome(a, After(a))
  BY NoJobFacts, Fields DEF After, TypeInv
-----------------------------------------------------------------------------
(* The jobs, action by action.                                              *)
LEMMA ClaimJob ==
  ASSUME TypeInv, NEW w \in Workers, NEW o \in Rows, Claim(w, o)
  PROVE  NewJob(w)
<1>1. PICK n : n = [NoJob EXCEPT !.pc = "claimed", !.id = o, !.ver = row[o].ver]
  OBVIOUS
<1>2. n = [pc |-> "claimed", id |-> o, ver |-> row[o].ver, mine |-> {}, blocks |-> {},
           key |-> {}, todo |-> {}]
  BY <1>1 DEF NoJob
<1>3. n \in Jobs
  BY <1>2, Fields, RowsAssumption DEF Jobs, Rows
<1>4. Handles(w, n) /\ JobAtHome(w, n)
  BY <1>2 DEF JobAtHome, Handles
<1> QED
  BY <1>1, <1>3, <1>4 DEF NewJob, Claim

LEMMA LoadJob ==
  ASSUME TypeInv, NEW w \in Workers, GetOpportunityForDedupe(w)
  PROVE  NewJob(w)
<1>a. w \in Actors /\ job[w] \in Jobs /\ job[w].id \in Rows /\ job[w].pc = "claimed"
  BY Fields DEF Actors, GetOpportunityForDedupe, TypeInv, Handles
<1>1. PICK me \in Joined({job[w].id}) :
        job' = [job EXCEPT ![w].pc = "loaded", ![w].key = BlockOf(job[w].id),
                           ![w].mine = {View(me)}]
  BY DEF GetOpportunityForDedupe
<1>2. me \in Lines /\ me[1] = job[w].id
  BY <1>a, JoinedFacts
<1>3. View(me) \in Views /\ View(me).line = me
  BY <1>a, <1>2, Fields DEF View, Views
<1>4. PICK n : n = [job[w] EXCEPT !.pc = "loaded", !.key = BlockOf(job[w].id),
                                  !.mine = {View(me)}]
  OBVIOUS
<1>5. /\ n \in Jobs /\ n.pc = "loaded" /\ n.id = job[w].id /\ n.key = BlockOf(job[w].id)
      /\ n.mine = {View(me)} /\ n.todo = job[w].todo
  BY <1>a, <1>3, <1>4, BlockOfType DEF Jobs
<1>6. job' = [job EXCEPT ![w] = n]
  BY <1>1, <1>4
<1>7. Handles(w, n)
  BY <1>a, <1>5 DEF Handles
<1>8. ASSUME Signed, JobAtHome(w, job[w]) PROVE JobAtHome(w, n)
  <2>4. n.todo = {}
    BY <1>a, <1>5, <1>8 DEF JobAtHome
  <2>1. \A k \in n.key : n.key = {k} /\ Keeps(n.id, k)
    BY <1>a, <1>5, <1>8, BlockOfType DEF Keeps
  <2>2. \A v \in n.mine : v.line[1] = n.id
    BY <1>2, <1>3, <1>5
  <2>3. \A k, l \in n.key : k = l
    BY <2>1
  <2> QED
    BY <2>1, <2>2, <2>3, <2>4 DEF JobAtHome
<1> QED
  BY <1>5, <1>6, <1>7, <1>8 DEF NewJob

LEMMA CompareJob ==
  ASSUME TypeInv, NEW w \in Workers, FindCandidates(w)
  PROVE  NewJob(w)
<1>a. w \in Actors /\ job[w] \in Jobs /\ job[w].id \in Rows /\ job[w].pc = "loaded"
  BY Fields DEF Actors, FindCandidates, TypeInv, Handles
<1>1. PICK k \in job[w].key, v \in job[w].mine :
        \E C \in FindBlockCandidates(k, job[w].id) :
          job' = [job EXCEPT ![w].pc = "pairs", ![w].mine = {}, ![w].todo =
                    UNION {Compared(v, c, v.line, c) : c \in C}]
  BY DEF FindCandidates
<1>2. PICK C \in FindBlockCandidates(k, job[w].id) :
        job' = [job EXCEPT ![w].pc = "pairs", ![w].mine = {}, ![w].todo =
                  UNION {Compared(v, c, v.line, c) : c \in C}]
  BY <1>1
<1>3. PICK T : T = UNION {Compared(v, c, v.line, c) : c \in C}
  OBVIOUS
<1>4. v.line \in Lines
  BY <1>a, Fields DEF Views
<1>5. \A c \in C : c \in Lines /\ c[1] \in InBlock(k)
  <2>1. InBlock(k) \ {job[w].id} \in SUBSET Rows
    BY DEF InBlock
  <2> QED
    BY <2>1, JoinedFacts DEF FindBlockCandidates, Limited
<1>6. \A x \in T : x \in Pairs /\ x.from = v.line /\ x.into \in C
  <2> SUFFICES ASSUME NEW x \in T PROVE x \in Pairs /\ x.from = v.line /\ x.into \in C
    OBVIOUS
  <2>1. PICK c \in C : x \in Compared(v, c, v.line, c)
    BY <1>3
  <2> QED
    BY <2>1, <1>4, <1>5, ComparedFacts
<1>7. PICK n : n = [job[w] EXCEPT !.pc = "pairs", !.mine = {}, !.todo = T]
  OBVIOUS
<1>8. /\ n \in Jobs /\ n.pc = "pairs" /\ n.id = job[w].id /\ n.key = job[w].key
      /\ n.mine = {} /\ n.todo = T
  BY <1>a, <1>6, <1>7 DEF Jobs
<1>9. job' = [job EXCEPT ![w] = n]
  BY <1>2, <1>3, <1>7
<1>10. Handles(w, n)
  BY <1>a, <1>8 DEF Handles
<1>11. ASSUME JobAtHome(w, job[w]) PROVE JobAtHome(w, n)
  <2>1. v.line[1] = job[w].id /\ (\A i \in job[w].key : Keeps(job[w].id, i) /\ i = k)
    BY <1>11, <1>a DEF JobAtHome
  <2>2. \A i, l \in n.key : i = l
    BY <2>1, <1>8
  <2>3. \A i \in n.key, x \in n.todo : Keeps(x.from[1], i) /\ Keeps(x.into[1], i)
    <3> SUFFICES ASSUME NEW i \in n.key, NEW x \in n.todo
                 PROVE  Keeps(x.from[1], i) /\ Keeps(x.into[1], i)
      OBVIOUS
    <3>1. i = k /\ Keeps(job[w].id, i)
      BY <2>1, <1>8
    <3>2. x.from = v.line /\ x.into[1] \in InBlock(k)
      BY <1>5, <1>6, <1>8
    <3> QED
      BY <3>1, <3>2, <2>1, MembersKeep
  <2> QED
    BY <2>1, <2>2, <2>3, <1>8 DEF JobAtHome
<1> QED
  BY <1>8, <1>9, <1>10, <1>11 DEF NewJob

LEMMA ChooseBlocksJob ==
  ASSUME TypeInv, NEW s \in Sweepers, SweepBlocks(s)
  PROVE  NewJob(s)
<1>1. FindMultiMemberBlocks \subseteq SUBSET Blocks
  BY DEF FindMultiMemberBlocks, Largest
<1>2. PICK B \in SUBSET Blocks :
        job' = [job EXCEPT ![s] = [NoJob EXCEPT !.pc = "loaded", !.blocks = B]]
  BY <1>1 DEF SweepBlocks
<1>3. PICK n : n = [NoJob EXCEPT !.pc = "loaded", !.blocks = B]
  OBVIOUS
<1>4. n = [pc |-> "loaded", id |-> 0, ver |-> 0, mine |-> {}, blocks |-> B, key |-> {},
           todo |-> {}]
  BY <1>3 DEF NoJob
<1>5. n \in Jobs
  BY <1>4, RowsAssumption, LimitsAssumption DEF Jobs
<1>6. Handles(s, n) /\ JobAtHome(s, n)
  BY <1>4, ActorsAssumption DEF JobAtHome, Handles
<1> QED
  BY <1>2, <1>3, <1>5, <1>6 DEF NewJob

LEMMA SweepJob ==
  ASSUME TypeInv, NEW s \in Sweepers, NEW k \in Blocks, SweepOne(s, k)
  PROVE  NewJob(s)
<1>a. s \in Actors /\ job[s] \in Jobs /\ s \notin Workers /\ job[s].pc = "loaded"
  BY Fields, ActorsAssumption DEF Actors, SweepOne
<1>b. PICK M : M = ListBlockMembers(k)
  OBVIOUS
<1>1. PICK T : T = UNION {Compared(View(x[1]), x[2], x[2], x[1]) :
                            x \in {y \in M \X M : Before(y[1], y[2])}}
  OBVIOUS
<1>2. \A l \in M : l \in Lines /\ l[1] \in InBlock(k)
  <2>1. InBlock(k) \in SUBSET Rows
    BY DEF InBlock
  <2> QED
    BY <1>b, <2>1, JoinedFacts DEF ListBlockMembers
<1>3. \A x \in T : x \in Pairs /\ x.from \in M /\ x.into \in M
  <2> SUFFICES ASSUME NEW x \in T PROVE x \in Pairs /\ x.from \in M /\ x.into \in M
    OBVIOUS
  <2>1. PICK y \in M \X M : x \in Compared(View(y[1]), y[2], y[2], y[1])
    BY <1>1
  <2>2. y[1] \in M /\ y[2] \in M
    OBVIOUS
  <2> QED
    BY <2>1, <2>2, <1>2, ComparedFacts
<1>4. PICK n : n = [job[s] EXCEPT !.pc = "pairs", !.key = {k}, !.todo = T]
  OBVIOUS
<1>5. /\ n \in Jobs /\ n.pc = "pairs" /\ n.key = {k} /\ n.todo = T
      /\ n.mine = job[s].mine /\ n.id = job[s].id
  BY <1>a, <1>3, <1>4 DEF Jobs
<1>6. job' = [job EXCEPT ![s] = n]
  BY <1>b, <1>1, <1>4 DEF SweepOne
<1>7. ASSUME JobAtHome(s, job[s]) PROVE JobAtHome(s, n)
  <2>1. \A x \in T : Keeps(x.from[1], k) /\ Keeps(x.into[1], k)
    BY <1>2, <1>3, MembersKeep
  <2>2. \A v \in job[s].mine : v.line[1] = job[s].id
    BY <1>7 DEF JobAtHome
  <2> QED
    BY <2>1, <2>2, <1>a, <1>5 DEF JobAtHome
<1> QED
  BY <1>a, <1>5, <1>6, <1>7 DEF NewJob, Handles

LEMMA StepJob ==
  ASSUME TypeInv, NEW a \in Actors, Step(a) \/ Fail(a)
  PROVE  NewJob(a)
<1>a. job[a] \in Jobs /\ Handles(a, job[a])
  BY Fields DEF TypeInv
<1>1. CASE job' = [job EXCEPT ![a] = Finish(a)]
  BY <1>1, FinishFacts DEF NewJob
<1>2. CASE job' = [job EXCEPT ![a] = After(a)]
  BY <1>2, AfterFacts DEF NewJob
<1>3. CASE job' = [job EXCEPT ![a] = NoJob]
  BY <1>3, NoJobFacts DEF NewJob
<1>4. CASE \E T : T \subseteq job[a].todo /\ job' = [job EXCEPT ![a] = [job[a] EXCEPT !.todo = T]]
  BY <1>4, <1>a, LessTodo DEF NewJob
<1>5. CASE Done(a)
  BY <1>1, <1>5 DEF Done
<1>6. ASSUME NEW x, Queue(a, x) PROVE NewJob(a)
  <2>1. job' = [job EXCEPT ![a] = [job[a] EXCEPT !.todo = job[a].todo \ {x}]]
    BY <1>6 DEF Queue
  <2> QED
    BY <2>1, <1>4
<1>7. ASSUME NEW x, NEW k, BeginMerge(a, x, k) PROVE NewJob(a)
  <2>1. job' = [job EXCEPT ![a] = [job[a] EXCEPT !.todo = WithoutRow(a, x)]]
    BY <1>7 DEF BeginMerge
  <2>2. WithoutRow(a, x) \subseteq job[a].todo
    BY DEF WithoutRow
  <2> QED
    BY <2>1, <2>2, <1>4
<1>8. ASSUME NEW x, NEW k, MergeYields(a, x, k) PROVE NewJob(a)
  <2>1. CASE a \in Workers
    BY <2>1, <1>3, <1>8 DEF MergeYields
  <2>2. CASE a \notin Workers
    <3>1. job' = [job EXCEPT ![a] = [job[a] EXCEPT !.todo = WithoutRow(a, x)]]
      BY <1>8, <2>2 DEF MergeYields
    <3>2. WithoutRow(a, x) \subseteq job[a].todo
      BY DEF WithoutRow
    <3> QED
      BY <3>1, <3>2, <1>4
  <2> QED
    BY <2>1, <2>2
<1>9. ASSUME NEW t, CommitMerge(a, t) PROVE NewJob(a)
  BY <1>2, <1>9 DEF CommitMerge
<1>10. ASSUME NEW t, RollBackMerge(a, t) PROVE NewJob(a)
  BY <1>1, <1>2, <1>10 DEF RollBackMerge
<1>11. CASE Fail(a)
  BY <1>1, <1>11 DEF Fail
<1> QED
  BY <1>5, <1>6, <1>7, <1>8, <1>9, <1>10, <1>11, Zenon DEF Step, EndMerge

LEMMA JobsMove ==
  ASSUME TypeInv, [Next]_vars
  PROVE  job' = job \/ \E a \in Actors : NewJob(a)
<1>1. ASSUME NEW o \in Rows, NEW t, Normalize(o) \/ CloseOrReopen(o) \/ Reword(o, t)
      PROVE  job' = job
  BY <1>1 DEF Normalize, CloseOrReopen, Reword
<1>2. CASE UNCHANGED vars
  BY <1>2 DEF vars
<1>3. Workers \subseteq Actors /\ Sweepers \subseteq Actors
  BY DEF Actors
<1> QED
  BY <1>1, <1>2, <1>3, ClaimJob, LoadJob, CompareJob, ChooseBlocksJob, SweepJob, StepJob, Zenon
  DEF Next, Handle, Sweep
-----------------------------------------------------------------------------
(* What a step does to the rows: it changes one that stays as merged as it  *)
(* is, or it commits a merge.                                               *)
NewRow(o) == \E n \in Opps :
  /\ row' = [row EXCEPT ![o] = n]
  /\ n.ver <= events' /\ n.merged = row[o].merged
  /\ \/ n.sig = row[o].sig /\ moved' = moved
     \/ \E t \in Texts :
          /\ n.sig = {t}
          /\ moved' = IF BlockOf(o) \subseteq {Derived[t].block} THEN moved ELSE moved \cup {o}

(* ... and it moves no source row.                                          *)
RowMoves ==
  /\ link' = link /\ said' \in [Rows -> Texts]
  /\ (row' = row /\ moved' = moved) \/ \E o \in Rows : NewRow(o)

Commits == \E a \in Actors : \E t \in tx[a] : CommitMerge(a, t)

LEMMA EventFacts ==
  ASSUME TypeInv, Event
  PROVE  events' \in 0..MaxEvents /\ events' = events + 1 /\ events \in Nat
  BY LimitsAssumption DEF TypeInv, TypeOK, Event

LEMMA NormalizeRow ==
  ASSUME TypeInv, NEW o \in Rows, Normalize(o)
  PROVE  NewRow(o)
<1>1. row[o] \in Opps /\ row[o].ver <= events /\ events' = events /\ row[o].text \in Texts
  BY Fields DEF TypeInv, Normalize
<1>2. PICK n : n = [row[o] EXCEPT !.sig = {row[o].text}, !.stage = "normalized"]
  OBVIOUS
<1>3. n \in Opps /\ n.ver = row[o].ver /\ n.merged = row[o].merged /\ n.sig = {row[o].text}
  BY <1>1, <1>2 DEF Opps
<1>4. /\ row' = [row EXCEPT ![o] = n]
      /\ moved' = IF BlockOf(o) \subseteq {Derived[row[o].text].block} THEN moved
                  ELSE moved \cup {o}
  BY <1>2 DEF Normalize
<1> QED
  BY <1>1, <1>3, <1>4 DEF NewRow

LEMMA RewordRow ==
  ASSUME TypeInv, NEW p \in Rows, NEW t \in Texts, Reword(p, t)
  PROVE  NewRow(link[p])
<1>0. link[p] \in Rows
  BY Fields
<1>1. row[link[p]] \in Opps /\ row[link[p]].ver <= events /\ row[link[p]].ver \in Nat
  BY <1>0, Fields DEF TypeInv
<1>2. events' \in 0..MaxEvents /\ events' = events + 1 /\ events \in Nat
  BY EventFacts DEF Reword
<1>3. PICK n : n = [row[link[p]] EXCEPT !.text = t, !.stage = "fetched",
                                        !.ver = row[link[p]].ver + 1, !.closed = FALSE]
  OBVIOUS
<1>4. row[link[p]].ver + 1 \in 0..MaxEvents /\ row[link[p]].ver + 1 <= events'
  BY <1>1, <1>2, LimitsAssumption
<1>5. /\ n \in Opps /\ n.ver = row[link[p]].ver + 1 /\ n.merged = row[link[p]].merged
      /\ n.sig = row[link[p]].sig
  BY <1>1, <1>3, <1>4 DEF Opps
<1>6. row' = [row EXCEPT ![link[p]] = n] /\ moved' = moved
  BY <1>3 DEF Reword
<1> QED
  BY <1>4, <1>5, <1>6 DEF NewRow

LEMMA CloseRow ==
  ASSUME TypeInv, NEW o \in Rows, CloseOrReopen(o)
  PROVE  NewRow(o)
<1>1. row[o] \in Opps /\ row[o].ver <= events /\ row[o].ver \in Nat
  BY Fields DEF TypeInv
<1>2. events' = events + 1 /\ events \in Nat
  BY EventFacts DEF CloseOrReopen
<1>3. PICK n : n = [row[o] EXCEPT !.closed = ~row[o].closed]
  OBVIOUS
<1>4. n \in Opps /\ n.ver = row[o].ver /\ n.merged = row[o].merged /\ n.sig = row[o].sig
  BY <1>1, <1>3 DEF Opps
<1>5. row' = [row EXCEPT ![o] = n] /\ moved' = moved
  BY <1>3 DEF CloseOrReopen
<1>6. n.ver <= events'
  BY <1>1, <1>2, <1>4
<1> QED
  BY <1>4, <1>5, <1>6 DEF NewRow

LEMMA DoneRow ==
  ASSUME TypeInv, NEW a \in Actors, Done(a)
  PROVE  row' = row \/ \E o \in Rows : NewRow(o)
<1> DEFINE Advances(o) == a \in Workers /\ o = job[a].id /\ row[o].ver = job[a].ver
                          /\ row[o].merged = 0 /\ row[o].stage = "normalized"
           n(o) == [row[o] EXCEPT !.stage = "deduped"]
<1>1. row' = [o \in Rows |-> IF Advances(o) THEN n(o) ELSE row[o]]
  BY DEF Done
<1>2. row = [o \in Rows |-> row[o]]
  BY DEF TypeInv, TypeOK
<1>3. CASE \A o \in Rows : ~Advances(o)
  BY <1>1, <1>2, <1>3
<1>4. ASSUME NEW o \in Rows, Advances(o) PROVE NewRow(o)
  <2>1. row[o] \in Opps /\ row[o].ver <= events /\ events' = events /\ moved' = moved
    BY Fields DEF TypeInv, Done
  <2>2. \A i \in Rows : Advances(i) => i = o
    BY <1>4
  <2> HIDE DEF Advances
  <2>3. PICK m : m = n(o)
    OBVIOUS
  <2>4. row' = [row EXCEPT ![o] = m]
    BY <1>1, <1>2, <1>4, <2>2, <2>3
  <2>5. m \in Opps /\ m.ver = row[o].ver /\ m.merged = row[o].merged /\ m.sig = row[o].sig
    BY <2>1, <2>3 DEF Opps
  <2> QED
    BY <2>1, <2>4, <2>5 DEF NewRow
<1> QED
  BY <1>3, <1>4

LEMMA RowsMove ==
  ASSUME TypeInv, [Next]_vars
  PROVE  RowMoves \/ Commits
<1>0. said \in [Rows -> Texts]
  BY DEF TypeInv, TypeOK
<1>1. ASSUME NEW o \in Rows,
             Normalize(o) \/ CloseOrReopen(o) \/ \E t \in Texts : Reword(o, t)
      PROVE  RowMoves
  <2>1. link' = link
    BY <1>1 DEF Normalize, CloseOrReopen, Reword
  <2>2. said' \in [Rows -> Texts]
    BY <1>0, <1>1 DEF Normalize, CloseOrReopen, Reword
  <2>3. link[o] \in Rows
    BY Fields
  <2> QED
    BY <1>1, <2>1, <2>2, <2>3, NormalizeRow, RewordRow, CloseRow DEF RowMoves
<1>2. ASSUME NEW a \in Actors, Done(a) PROVE RowMoves
  <2>1. link' = link /\ said' = said /\ moved' = moved
    BY <1>2 DEF Done
  <2> QED
    BY <1>0, <1>2, <2>1, DoneRow DEF RowMoves
<1>3. ASSUME NEW a \in Actors, NEW o, NEW k, NEW x, NEW t,
             \/ Claim(a, o) \/ GetOpportunityForDedupe(a) \/ FindCandidates(a)
             \/ SweepBlocks(a) \/ SweepOne(a, k) \/ Queue(a, x) \/ BeginMerge(a, x, k)
             \/ MergeYields(a, x, k) \/ RollBackMerge(a, t) \/ Fail(a)
      PROVE  RowMoves
  <2>1. row' = row /\ link' = link /\ said' = said /\ moved' = moved
    BY <1>3 DEF Claim, GetOpportunityForDedupe, FindCandidates, SweepBlocks, SweepOne, Queue,
                BeginMerge, MergeYields, RollBackMerge, Fail
  <2> QED
    BY <1>0, <2>1 DEF RowMoves
<1>4. CASE UNCHANGED vars
  BY <1>0, <1>4 DEF vars, RowMoves
<1>5. Workers \subseteq Actors /\ Sweepers \subseteq Actors
  BY DEF Actors
<1>6. ASSUME NEW a \in Actors, Step(a) PROVE RowMoves \/ Commits
  BY <1>2, <1>3, <1>6, Zenon DEF Step, EndMerge, Commits
<1> QED
  BY <1>1, <1>3, <1>4, <1>5, <1>6, Zenon DEF Next, Handle, Sweep
-----------------------------------------------------------------------------
(* What a step does to the merges: it ends one, or it begins one.           *)
Begins == \E a \in Actors : \E x \in job[a].todo, k \in job[a].key : BeginMerge(a, x, k)

LEMMA MergesMove ==
  ASSUME TypeInv, [Next]_vars
  PROVE  tx' = tx \/ (\E a \in Actors : tx' = [tx EXCEPT ![a] = {}]) \/ Begins
<1>1. ASSUME NEW o, NEW t, Normalize(o) \/ CloseOrReopen(o) \/ Reword(o, t)
      PROVE  tx' = tx
  BY <1>1 DEF Normalize, CloseOrReopen, Reword
<1>2. ASSUME NEW a \in Actors, NEW o, NEW k, NEW x,
             \/ Claim(a, o) \/ GetOpportunityForDedupe(a) \/ FindCandidates(a)
             \/ SweepBlocks(a) \/ SweepOne(a, k) \/ Done(a) \/ Queue(a, x) \/ MergeYields(a, x, k)
      PROVE  tx' = tx
  BY <1>2 DEF Claim, GetOpportunityForDedupe, FindCandidates, SweepBlocks, SweepOne, Done, Queue,
              MergeYields
<1>3. ASSUME NEW a \in Actors, NEW t, CommitMerge(a, t) \/ RollBackMerge(a, t) \/ Fail(a)
      PROVE  tx' = [tx EXCEPT ![a] = {}]
  BY <1>3 DEF CommitMerge, RollBackMerge, Fail
<1>4. CASE UNCHANGED vars
  BY <1>4 DEF vars
<1>5. Workers \subseteq Actors /\ Sweepers \subseteq Actors
  BY DEF Actors
<1>6. ASSUME NEW a \in Actors, Step(a)
      PROVE  tx' = tx \/ tx' = [tx EXCEPT ![a] = {}] \/ Begins
  BY <1>2, <1>3, <1>6, Zenon DEF Step, EndMerge, Begins
<1> QED
  BY <1>1, <1>2, <1>3, <1>4, <1>5, <1>6, Zenon DEF Next, Handle, Sweep

LEMMA BeginFacts ==
  ASSUME TypeInv, NEW a \in Actors, NEW x \in job[a].todo, NEW k \in job[a].key,
         BeginMerge(a, x, k)
  PROVE  \E t \in Txs : /\ t.from = x.from[1] /\ t.into = x.into[1] /\ t.key = k
                        /\ tx' = [tx EXCEPT ![a] = {t}]
<1>1. x.from \in Lines /\ x.into \in Lines /\ k \in Blocks
  BY Fields DEF Pairs
<1>2. x.from[1] \in Rows /\ x.into[1] \in Rows
  BY <1>1 DEF Lines
<1>3. PICK t : t = [from |-> x.from[1], into |-> x.into[1], key |-> k]
  OBVIOUS
<1>4. t \in Txs /\ t.from = x.from[1] /\ t.into = x.into[1] /\ t.key = k
  BY <1>1, <1>2, <1>3 DEF Txs
<1> QED
  BY <1>3, <1>4 DEF BeginMerge

LEMMA CommitFacts ==
  ASSUME TypeInv, NEW a \in Actors, NEW t \in tx[a], CommitMerge(a, t)
  PROVE  /\ t.from \in Rows /\ t.into \in Rows /\ t.from # t.into
         /\ \E n \in Opps : /\ row' = [row EXCEPT ![t.from] = n]
                            /\ n.merged = t.into /\ n.ver = row[t.from].ver
                            /\ n.sig = row[t.from].sig
         /\ link' = MoveSourceRows(t.from, t.into) /\ tx' = [tx EXCEPT ![a] = {}]
         /\ events' = events /\ said' = said /\ moved' = moved
<1>1. t.from \in Rows /\ t.into \in Rows
  BY Fields DEF Txs
<1>2. row[t.from] \in Opps
  BY <1>1, Fields
<1>3. PICK n : n = [row[t.from] EXCEPT !.merged = t.into]
  OBVIOUS
<1>4. t.into \in 0..N
  BY <1>1, RowsAssumption DEF Rows
<1>5. n \in Opps /\ n.merged = t.into /\ n.ver = row[t.from].ver /\ n.sig = row[t.from].sig
  BY <1>2, <1>3, <1>4 DEF Opps
<1>6. row' = [row EXCEPT ![t.from] = n]
  BY <1>3 DEF CommitMerge, MarkMerged
<1> QED
  BY <1>1, <1>5, <1>6 DEF CommitMerge
-----------------------------------------------------------------------------
LEMMA QueuedStep ==
  ASSUME TypeInv, [Next]_vars
  PROVE  queued' \subseteq Rows \X Rows
<1>0. queued \subseteq Rows \X Rows
  BY DEF TypeInv, TypeOK
<1>1. ASSUME NEW o, NEW t, Normalize(o) \/ CloseOrReopen(o) \/ Reword(o, t)
      PROVE  queued' = queued
  BY <1>1 DEF Normalize, CloseOrReopen, Reword
<1>2. ASSUME NEW a \in Actors, NEW o, NEW k, NEW x, NEW t,
             \/ Claim(a, o) \/ GetOpportunityForDedupe(a) \/ FindCandidates(a)
             \/ SweepBlocks(a) \/ SweepOne(a, k) \/ Done(a) \/ BeginMerge(a, x, k)
             \/ MergeYields(a, x, k)
             \/ CommitMerge(a, t) \/ RollBackMerge(a, t) \/ Fail(a)
      PROVE  queued' = queued
  BY <1>2 DEF Claim, GetOpportunityForDedupe, FindCandidates, SweepBlocks, SweepOne, Done,
              BeginMerge, MergeYields, CommitMerge, RollBackMerge, Fail
<1>3. ASSUME NEW a \in Actors, NEW x \in job[a].todo, Queue(a, x)
      PROVE  queued' \subseteq Rows \X Rows
  <2>1. x.from \in Lines /\ x.into \in Lines
    BY Fields DEF Pairs
  <2>2. x.from[1] \in Rows /\ x.into[1] \in Rows
    BY <2>1 DEF Lines
  <2> QED
    BY <1>0, <1>3, <2>2 DEF Queue, QueueMergeCandidate
<1>4. CASE UNCHANGED vars
  BY <1>0, <1>4 DEF vars
<1>5. Workers \subseteq Actors /\ Sweepers \subseteq Actors
  BY DEF Actors
<1>6. ASSUME NEW a \in Actors, Step(a) PROVE queued' = queued \/ queued' \subseteq Rows \X Rows
  BY <1>2, <1>3, <1>6, Zenon DEF Step, EndMerge
<1>7. queued' = queued \/ queued' \subseteq Rows \X Rows
  BY <1>1, <1>2, <1>4, <1>5, <1>6, Zenon DEF Next, Handle, Sweep
<1> QED
  BY <1>0, <1>7

LEMMA EventsStep ==
  ASSUME TypeInv, [Next]_vars
  PROVE  events' \in 0..MaxEvents /\ events <= events'
<1>0. events \in 0..MaxEvents
  BY DEF TypeInv, TypeOK
<1>1. ASSUME NEW o, NEW t, Normalize(o) \/ CloseOrReopen(o) \/ Reword(o, t)
      PROVE  events' = events \/ Event
  BY <1>1 DEF Normalize, CloseOrReopen, Reword
<1>2. ASSUME NEW a \in Actors, NEW o, NEW k, NEW x, NEW t,
             \/ Claim(a, o) \/ GetOpportunityForDedupe(a) \/ FindCandidates(a)
             \/ SweepBlocks(a) \/ SweepOne(a, k) \/ Done(a) \/ Queue(a, x) \/ BeginMerge(a, x, k)
             \/ MergeYields(a, x, k) \/ CommitMerge(a, t) \/ RollBackMerge(a, t) \/ Fail(a)
      PROVE  events' = events \/ Event
  BY <1>2 DEF Claim, GetOpportunityForDedupe, FindCandidates, SweepBlocks, SweepOne, Done, Queue,
              BeginMerge, MergeYields, CommitMerge, RollBackMerge, Fail
<1>3. UNCHANGED vars => events' = events
  BY DEF vars
<1>4. Workers \subseteq Actors /\ Sweepers \subseteq Actors
  BY DEF Actors
<1>5. ASSUME NEW a \in Actors, Step(a) PROVE events' = events \/ Event
  BY <1>2, <1>5, Zenon DEF Step, EndMerge
<1>6. events' = events \/ Event
  BY <1>1, <1>2, <1>3, <1>4, <1>5, Zenon DEF Next, Handle, Sweep
<1> QED
  BY <1>0, <1>6, EventFacts, LimitsAssumption

LEMMA TypeStep ==
  ASSUME TypeInv, [Next]_vars PROVE TypeInv'
<1>0. /\ row \in [Rows -> Opps] /\ link \in [Rows -> Rows] /\ job \in [Actors -> Jobs]
      /\ tx \in [Actors -> SUBSET Txs] /\ \A a \in Actors : Cardinality(tx[a]) <= 1
      /\ said \in [Rows -> Texts] /\ moved \subseteq Rows
      /\ (\A o \in Rows : row[o].ver <= events) /\ \A a \in Actors : Handles(a, job[a])
  BY DEF TypeInv, TypeOK
<1>1. events' \in 0..MaxEvents /\ \A o \in Rows : row[o].ver <= events'
  <2>1. events \in 0..MaxEvents /\ events' \in 0..MaxEvents /\ events <= events'
    BY EventsStep DEF TypeInv, TypeOK
  <2>2. \A o \in Rows : row[o].ver \in 0..MaxEvents
    BY Fields
  <2> QED
    BY <2>1, <2>2, <1>0, LimitsAssumption
<1>2. row' \in [Rows -> Opps] /\ \A o \in Rows : row'[o].ver <= events'
  <2>1. ASSUME NEW o \in Rows, NEW n \in Opps, row' = [row EXCEPT ![o] = n], n.ver <= events'
        PROVE  row' \in [Rows -> Opps] /\ \A i \in Rows : row'[i].ver <= events'
    BY <2>1, <1>0, <1>1
  <2>2. ASSUME NEW a \in Actors, NEW t \in tx[a], CommitMerge(a, t)
        PROVE  row' \in [Rows -> Opps] /\ \A i \in Rows : row'[i].ver <= events'
    BY <2>1, <2>2, <1>1, CommitFacts
  <2> QED
    BY <2>1, <2>2, <1>0, <1>1, RowsMove DEF RowMoves, NewRow, Commits
<1>3. link' \in [Rows -> Rows]
  <2>1. ASSUME NEW a \in Actors, NEW t \in tx[a], CommitMerge(a, t)
        PROVE  link' \in [Rows -> Rows]
    BY <2>1, <1>0, CommitFacts DEF MoveSourceRows
  <2> QED
    BY <2>1, <1>0, RowsMove DEF RowMoves, Commits
<1>4. job' \in [Actors -> Jobs] /\ \A a \in Actors : Handles(a, job'[a])
  BY <1>0, JobsMove DEF NewJob
<1>6. said' \in [Rows -> Texts] /\ moved' \subseteq Rows
  <2>1. ASSUME NEW o \in Rows, NewRow(o) PROVE moved' \subseteq Rows
    BY <2>1, <1>0 DEF NewRow
  <2>2. ASSUME NEW a \in Actors, NEW t \in tx[a], CommitMerge(a, t)
        PROVE  said' = said /\ moved' = moved
    BY <2>2, CommitFacts
  <2> QED
    BY <2>1, <2>2, <1>0, RowsMove DEF RowMoves, Commits
<1>5. tx' \in [Actors -> SUBSET Txs] /\ \A a \in Actors : Cardinality(tx'[a]) <= 1
  <2>1. ASSUME NEW a \in Actors, NEW S \in SUBSET Txs, tx' = [tx EXCEPT ![a] = S],
               Cardinality(S) <= 1
        PROVE  tx' \in [Actors -> SUBSET Txs] /\ \A b \in Actors : Cardinality(tx'[b]) <= 1
    BY <2>1, <1>0
  <2>2. Cardinality({}) <= 1 /\ \A t : Cardinality({t}) <= 1
    <3>1. Cardinality({}) = 0 /\ \A t : Cardinality({t}) = 1
      BY FS_EmptySet, FS_Singleton, Zenon
    <3>2. \A n : n = 0 \/ n = 1 => n <= 1
      OBVIOUS
    <3> QED
      BY <3>1, <3>2, Zenon
  <2>3. CASE Begins
    BY <2>1, <2>2, <2>3, BeginFacts DEF Begins
  <2> QED
    BY <2>1, <2>2, <2>3, <1>0, MergesMove
<1> QED
  BY <1>1, <1>2, <1>3, <1>4, <1>5, <1>6, QueuedStep DEF TypeInv, TypeOK, Handles

LEMMA TypeInit ==
  ASSUME Init PROVE TypeInv
<1>0. 0 \in 0..MaxEvents /\ 0 \in 0..N
  BY RowsAssumption, LimitsAssumption
<1>1. \A o \in Rows : row[o] \in Opps /\ row[o].ver = 0 /\ row[o].text \in Texts
  <2> SUFFICES ASSUME NEW o \in Rows
               PROVE  row[o] \in Opps /\ row[o].ver = 0 /\ row[o].text \in Texts
    OBVIOUS
  <2>1. row[o] \in [text : Texts, sig : {{}}, stage : {"fetched"}, ver : {0},
                    closed : {FALSE}, merged : {0}]
    BY DEF Init
  <2> QED
    BY <2>1, <1>0 DEF Opps
<1>2. row \in [Rows -> Opps]
  BY <1>1 DEF Init
<1>3. job \in [Actors -> Jobs] /\ \A a \in Actors : Handles(a, job[a])
  BY NoJobFacts DEF Init
<1>4. \A a \in Actors : tx[a] = {} /\ Cardinality(tx[a]) <= 1
  BY FS_EmptySet DEF Init
<1> QED
  BY <1>1, <1>2, <1>3, <1>4, LimitsAssumption DEF Init, TypeInv, TypeOK
-----------------------------------------------------------------------------
(* The inductive step, part by part.                                        *)
LEMMA SignedStep ==
  ASSUME TypeInv, Signed, [Next]_vars PROVE Signed'
<1>0. row \in [Rows -> Opps]
  BY DEF TypeInv, TypeOK
<1>1. ASSUME NEW o \in Rows, NEW n \in Opps, row' = [row EXCEPT ![o] = n],
             n.sig = row[o].sig \/ \E t \in Texts : n.sig = {t}
      PROVE  Signed'
  <2>1. \A i \in Rows : row'[i] = IF i = o THEN n ELSE row[i]
    BY <1>0, <1>1
  <2>2. \A s, t \in n.sig : s = t
    BY <1>1 DEF Signed
  <2> QED
    BY <2>1, <2>2 DEF Signed
<1>2. CASE \E o \in Rows : NewRow(o)
  BY <1>1, <1>2 DEF NewRow
<1>3. ASSUME NEW a \in Actors, NEW t \in tx[a], CommitMerge(a, t) PROVE Signed'
  BY <1>1, <1>3, CommitFacts
<1>4. CASE row' = row
  BY <1>4 DEF Signed
<1> QED
  BY <1>2, <1>3, <1>4, RowsMove DEF RowMoves, Commits

(* Normalization leaves a row in its block or counts it as moved; nothing   *)
(* else changes the block of a row.                                         *)
LEMMA KeepsStep ==
  ASSUME TypeInv, [Next]_vars, NEW o \in Rows, NEW k, Keeps(o, k)
  PROVE  Keeps(o, k)'
<1>0. row \in [Rows -> Opps]
  BY DEF TypeInv, TypeOK
<1>1. ASSUME row'[o].sig = row[o].sig, moved \subseteq moved' PROVE Keeps(o, k)'
  BY <1>1 DEF Keeps, BlockOf
<1>2. ASSUME NEW i \in Rows, NewRow(i) PROVE Keeps(o, k)'
  <2>1. PICK n \in Opps :
          /\ row' = [row EXCEPT ![i] = n]
          /\ \/ n.sig = row[i].sig /\ moved' = moved
             \/ \E t \in Texts :
                  /\ n.sig = {t}
                  /\ moved' = IF BlockOf(i) \subseteq {Derived[t].block} THEN moved
                              ELSE moved \cup {i}
    BY <1>2 DEF NewRow
  <2>2. moved \subseteq moved' /\ row'[o] = IF o = i THEN n ELSE row[o]
    BY <2>1, <1>0
  <2>3. CASE o # i \/ n.sig = row[i].sig
    BY <2>2, <2>3, <1>1
  <2>4. ASSUME o = i, NEW t \in Texts, n.sig = {t},
               moved' = IF BlockOf(i) \subseteq {Derived[t].block} THEN moved
                        ELSE moved \cup {i}
        PROVE  Keeps(o, k)'
    <3>1. row'[o].sig = {t}
      BY <2>2, <2>4
    <3>2. BlockOf(o)' = {Derived[t].block}
      BY <3>1 DEF BlockOf
    <3>3. CASE BlockOf(o) \subseteq {Derived[t].block}
      BY <2>2, <3>2, <3>3 DEF Keeps
    <3>4. CASE ~(BlockOf(o) \subseteq {Derived[t].block})
      BY <2>4, <3>4 DEF Keeps
    <3> QED
      BY <3>3, <3>4
  <2> QED
    BY <2>1, <2>3, <2>4
<1>3. ASSUME NEW a \in Actors, NEW t \in tx[a], CommitMerge(a, t) PROVE Keeps(o, k)'
  BY <1>0, <1>1, <1>3, CommitFacts
<1>4. CASE row' = row /\ moved' = moved
  BY <1>1, <1>4
<1> QED
  BY <1>2, <1>3, <1>4, RowsMove DEF RowMoves, Commits

LEMMA JobKeeps ==
  ASSUME TypeInv, [Next]_vars, NEW a \in Actors, NEW j \in Jobs, Handles(a, j),
         JobAtHome(a, j)
  PROVE  JobAtHome(a, j)'
<1>1. ASSUME a \in Workers, j.pc # "none", NEW k \in j.key PROVE Keeps(j.id, k)'
  BY <1>1, KeepsStep DEF JobAtHome, Handles
<1>2. ASSUME NEW k \in j.key, NEW x \in j.todo
      PROVE  Keeps(x.from[1], k)' /\ Keeps(x.into[1], k)'
  <2>1. x \in Pairs
    BY DEF Jobs
  <2>2. x.from[1] \in Rows /\ x.into[1] \in Rows
    BY <2>1 DEF Pairs, Lines
  <2>3. Keeps(x.from[1], k) /\ Keeps(x.into[1], k)
    BY DEF JobAtHome
  <2> QED
    BY <2>2, <2>3, KeepsStep
<1> QED
  BY <1>1, <1>2 DEF JobAtHome

LEMMA JobsAtHomeStep ==
  ASSUME TypeInv, Signed, JobsAtHome, [Next]_vars PROVE JobsAtHome'
<1>0. job \in [Actors -> Jobs] /\ \A a \in Actors : Handles(a, job[a])
  BY DEF TypeInv, TypeOK
<1>1. \A b \in Actors : JobAtHome(b, job[b])
  BY DEF JobsAtHome
<1>2. ASSUME NEW a \in Actors, NewJob(a), NEW b \in Actors PROVE JobAtHome(b, job[b])'
  <2>1. PICK n \in Jobs : job' = [job EXCEPT ![a] = n] /\ Handles(a, n) /\ JobAtHome(a, n)
    BY <1>1, <1>2 DEF NewJob
  <2>2. PICK j \in Jobs : j = job'[b] /\ Handles(b, j) /\ JobAtHome(b, j)
    BY <1>0, <1>1, <2>1
  <2>3. JobAtHome(b, j)'
    BY <2>2, JobKeeps
  <2> QED
    BY <2>2, <2>3 DEF JobAtHome
<1>3. ASSUME job' = job, NEW b \in Actors PROVE JobAtHome(b, job[b])'
  <2>1. PICK j \in Jobs : j = job[b] /\ Handles(b, j) /\ JobAtHome(b, j)
    BY <1>0, <1>1
  <2>2. JobAtHome(b, j)'
    BY <2>1, JobKeeps
  <2> QED
    BY <1>3, <2>1, <2>2 DEF JobAtHome
<1> QED
  BY <1>2, <1>3, JobsMove DEF JobsAtHome

(* Only a commit marks a row merged.                                        *)
LEMMA MergedStays ==
  ASSUME TypeInv, [Next]_vars, ~Commits
  PROVE  /\ link' = link /\ moved \subseteq moved'
         /\ \A o \in Rows : row'[o].merged = row[o].merged
<1>0. row \in [Rows -> Opps]
  BY DEF TypeInv, TypeOK
<1>1. ASSUME NEW o \in Rows, NewRow(o)
      PROVE  moved \subseteq moved' /\ \A i \in Rows : row'[i].merged = row[i].merged
  BY <1>0, <1>1 DEF NewRow
<1> QED
  BY <1>1, RowsMove DEF RowMoves

LEMMA MarkedMerged ==
  ASSUME TypeInv, NEW a \in Actors, NEW t \in tx[a], CommitMerge(a, t)
  PROVE  \A o \in Rows : row'[o].merged = IF o = t.from THEN t.into ELSE row[o].merged
<1>0. row \in [Rows -> Opps]
  BY DEF TypeInv, TypeOK
<1> QED
  BY <1>0, CommitFacts

(* The lock of the block keeps the rows of an open merge from every other,  *)
(* but for a row that has moved: no other is in two blocks.                 *)
LEMMA OthersUntouched ==
  ASSUME TypeInv, MergesExclude, NEW a \in Actors, NEW b \in Actors, a # b,
         NEW t \in tx[a], NEW u \in tx[b], NEW o \in {u.from, u.into}, t.from = o
  PROVE  o \in moved
<1>1. t.key # u.key
  BY DEF MergesExclude
<1>2. Keeps(o, t.key) /\ Keeps(o, u.key)
  BY DEF MergesExclude
<1> QED
  BY <1>1, <1>2 DEF Keeps

(* What MergesExclude says of one open merge.                               *)
Open(t) ==
  /\ Keeps(t.from, t.key) /\ Keeps(t.into, t.key)
  /\ t.from \in moved \/ row[t.from].merged = 0
  /\ t.into \in moved \/ row[t.into].merged = 0

LEMMA OpenMerges ==
  MergesExclude <=>
    /\ \A a \in Actors : \A t \in tx[a] : Open(t)
    /\ \A a, b \in Actors : \A t \in tx[a], u \in tx[b] : t.key = u.key => a = b
  BY DEF MergesExclude, Open, IsUnmerged

LEMMA MergesExcludeStep ==
  ASSUME TypeInv, JobsAtHome, MergesExclude, [Next]_vars
  PROVE  MergesExclude'
<1>0. tx \in [Actors -> SUBSET Txs]
  BY DEF TypeInv, TypeOK
<1>a. ASSUME NEW u \in Txs, Open(u), moved \subseteq moved',
             \A o \in {u.from, u.into} \ moved : row'[o].merged = row[o].merged
      PROVE  Open(u)'
  <2>1. u.from \in Rows /\ u.into \in Rows
    BY DEF Txs
  <2>2. Keeps(u.from, u.key)' /\ Keeps(u.into, u.key)'
    BY <1>a, <2>1, KeepsStep DEF Open
  <2> QED
    BY <1>a, <2>2 DEF Open
<1>1. CASE Begins
  <2>1. PICK a \in Actors : \E x \in job[a].todo, k \in job[a].key : BeginMerge(a, x, k)
    BY <1>1 DEF Begins
  <2>2. PICK x \in job[a].todo, k \in job[a].key : BeginMerge(a, x, k)
    BY <2>1
  <2>3. PICK t \in Txs : /\ t.from = x.from[1] /\ t.into = x.into[1] /\ t.key = k
                         /\ tx' = [tx EXCEPT ![a] = {t}]
    BY <2>2, BeginFacts
  <2>4. /\ row' = row /\ moved' = moved /\ LockBlock(t.key)
        /\ row[t.from].merged = 0 /\ row[t.into].merged = 0
    BY <2>2, <2>3 DEF BeginMerge, IsUnmerged
  <2>5. Keeps(t.from, t.key) /\ Keeps(t.into, t.key)
    BY <2>3 DEF JobsAtHome, JobAtHome
  <2>6. \A b \in Actors : tx'[b] = IF b = a THEN {t} ELSE tx[b]
    BY <2>3, <1>0
  <2>7. ASSUME NEW b \in Actors, NEW u \in tx'[b] PROVE Open(u)'
    <3>1. u \in Txs /\ Open(u)
      BY <2>3, <2>4, <2>5, <2>6, <2>7, Fields, OpenMerges DEF Open
    <3> QED
      BY <1>a, <2>4, <3>1
  <2>8. \A b, c \in Actors : \A u \in tx'[b], v \in tx'[c] : u.key = v.key => b = c
    BY <2>4, <2>6 DEF MergesExclude, LockBlock
  <2> QED
    BY <2>7, <2>8 DEF MergesExclude, Open, IsUnmerged
<1>2. CASE \E a \in Actors : \E t \in tx[a] : CommitMerge(a, t)
  <2>1. PICK a \in Actors : \E t \in tx[a] : CommitMerge(a, t)
    BY <1>2
  <2>2. PICK t \in tx[a] : CommitMerge(a, t)
    BY <2>1
  <2>3. (\A b \in Actors : tx'[b] = IF b = a THEN {} ELSE tx[b]) /\ moved' = moved
    BY <2>2, <1>0, CommitFacts
  <2>4. ASSUME NEW b \in Actors, NEW u \in tx'[b] PROVE Open(u)'
    <3>1. b # a /\ u \in tx[b] /\ u \in Txs
      BY <2>3, <2>4, Fields
    <3>2. \A o \in {u.from, u.into} \ moved : o # t.from /\ o \in Rows
      BY <3>1, OthersUntouched DEF Txs
    <3>3. \A o \in {u.from, u.into} \ moved : row'[o].merged = row[o].merged
      BY <2>2, <3>2, MarkedMerged
    <3>4. Open(u)
      BY <3>1, OpenMerges
    <3> QED
      BY <1>a, <2>3, <3>1, <3>3, <3>4
  <2>5. \A b, c \in Actors : \A u \in tx'[b], v \in tx'[c] : u.key = v.key => b = c
    BY <2>3 DEF MergesExclude
  <2> QED
    BY <2>4, <2>5 DEF MergesExclude, Open, IsUnmerged
<1>3. CASE ~Commits /\ \A b \in Actors : tx'[b] \subseteq tx[b]
  <2>1. ASSUME NEW b \in Actors, NEW u \in tx'[b] PROVE Open(u)'
    <3>1. u \in tx[b] /\ u \in Txs
      BY <1>3, Fields
    <3>2. u.from \in Rows /\ u.into \in Rows /\ Open(u)
      BY <3>1, OpenMerges DEF Txs
    <3>3. moved \subseteq moved' /\ \A o \in Rows : row'[o].merged = row[o].merged
      BY <1>3, MergedStays
    <3> QED
      BY <1>a, <3>1, <3>2, <3>3
  <2>2. \A b, c \in Actors : \A u \in tx'[b], v \in tx'[c] : u.key = v.key => b = c
    BY <1>3 DEF MergesExclude
  <2> QED
    BY <2>1, <2>2 DEF MergesExclude, Open, IsUnmerged
<1>4. ASSUME NEW a \in Actors, tx' = [tx EXCEPT ![a] = {}]
      PROVE  \A b \in Actors : tx'[b] \subseteq tx[b]
  BY <1>0, <1>4
<1> QED
  BY <1>1, <1>2, <1>3, <1>4, MergesMove DEF Commits

(* A commit marks a row merged into one that is unmerged, so that a chain   *)
(* through it ends there, or into one that has moved.                       *)
LEMMA ForestStep ==
  ASSUME TypeInv, MergesExclude, MergesAreAForest, [Next]_vars
  PROVE  MergesAreAForest'
<1>1. ASSUME NEW a \in Actors, NEW t \in tx[a], CommitMerge(a, t) PROVE MergesAreAForest'
  <2>0. moved' = moved
    BY <1>1, CommitFacts
  <2> SUFFICES ASSUME NEW S \in SUBSET (Rows \ moved), S # {}
               PROVE  \E o \in S : row'[o].merged \notin S
    BY <2>0 DEF MergesAreAForest
  <2>1. /\ t.from \in Rows /\ t.into \in Rows /\ t.from # t.into
        /\ t.into \in moved \/ row[t.into].merged = 0
    BY <1>1, CommitFacts DEF MergesExclude, IsUnmerged
  <2>2. \A o \in Rows : row'[o].merged = IF o = t.from THEN t.into ELSE row[o].merged
    BY <1>1, MarkedMerged
  <2>3. 0 \notin S
    BY RowsAssumption DEF Rows
  <2>4. CASE t.into \in S
    BY <2>1, <2>2, <2>3, <2>4
  <2>5. CASE t.into \notin S /\ t.from \in S
    BY <2>1, <2>2, <2>5
  <2>6. CASE t.from \notin S
    <3>1. PICK o \in S : row[o].merged \notin S
      BY DEF MergesAreAForest
    <3> QED
      BY <3>1, <2>2, <2>6
  <2> QED
    BY <2>4, <2>5, <2>6
<1>2. CASE ~Commits
  <2>1. moved \subseteq moved' /\ \A o \in Rows : row'[o].merged = row[o].merged
    BY <1>2, MergedStays
  <2>2. ASSUME NEW S \in SUBSET (Rows \ moved'), S # {}
        PROVE  \E o \in S : row'[o].merged \notin S
    <3>1. S \in SUBSET (Rows \ moved)
      BY <2>1
    <3>2. PICK o \in S : row[o].merged \notin S
      BY <2>2, <3>1 DEF MergesAreAForest
    <3> QED
      BY <2>1, <3>2
  <2> QED
    BY <2>2 DEF MergesAreAForest
<1> QED
  BY <1>1, <1>2 DEF Commits

(* It takes every source row of the merged one along.                       *)
LEMMA ProvenanceStep ==
  ASSUME TypeInv, MergesExclude, ProvenanceIsCanonical, [Next]_vars
  PROVE  ProvenanceIsCanonical'
<1>0. link \in [Rows -> Rows]
  BY DEF TypeInv, TypeOK
<1>1. ASSUME NEW a \in Actors, NEW t \in tx[a], CommitMerge(a, t) PROVE ProvenanceIsCanonical'
  <2>1. /\ t.from \in Rows /\ t.into \in Rows /\ t.from # t.into /\ moved' = moved
        /\ t.into \in moved \/ row[t.into].merged = 0
    BY <1>1, CommitFacts DEF MergesExclude, IsUnmerged
  <2>2. \A o \in Rows : row'[o].merged = IF o = t.from THEN t.into ELSE row[o].merged
    BY <1>1, MarkedMerged
  <2>3. \A p \in Rows : link'[p] = IF link[p] = t.from THEN t.into ELSE link[p]
    BY <1>1, CommitFacts DEF MoveSourceRows
  <2> QED
    BY <1>0, <2>1, <2>2, <2>3 DEF ProvenanceIsCanonical
<1>2. CASE ~Commits
  <2>1. /\ link' = link /\ moved \subseteq moved'
        /\ \A o \in Rows : row'[o].merged = row[o].merged
    BY <1>2, MergedStays
  <2> QED
    BY <2>1, <1>0 DEF ProvenanceIsCanonical
<1> QED
  BY <1>1, <1>2 DEF Commits

LEMMA InvInit ==
  ASSUME Init PROVE DedupeInv
<1>1. \A o \in Rows : row[o].sig = {} /\ row[o].merged = 0 /\ link[o] = o
  <2> SUFFICES ASSUME NEW o \in Rows PROVE row[o].sig = {} /\ row[o].merged = 0
    BY DEF Init
  <2>1. row[o] \in [text : Texts, sig : {{}}, stage : {"fetched"}, ver : {0},
                    closed : {FALSE}, merged : {0}]
    BY DEF Init
  <2> QED
    BY <2>1
<1>2. Signed
  BY <1>1 DEF Signed
<1>3. JobsAtHome
  BY NoJobFacts DEF Init, JobsAtHome
<1>4. MergesExclude
  BY DEF Init, MergesExclude
<1>5. ProvenanceIsCanonical
  BY <1>1 DEF ProvenanceIsCanonical
<1>6. MergesAreAForest
  <2>1. 0 \notin Rows
    BY RowsAssumption DEF Rows
  <2> QED
    BY <1>1, <2>1 DEF MergesAreAForest
<1> QED
  BY <1>2, <1>3, <1>4, <1>5, <1>6, TypeInit DEF DedupeInv
-----------------------------------------------------------------------------
(* The state has its types, whatever rewordings, workers and sweeps come    *)
(* together: a merge is only ever of two rows, under the key of a block.    *)
THEOREM Typed == Spec => []TypeOK
<1>1. Init => TypeInv
  BY TypeInit
<1>2. TypeInv /\ [Next]_vars => TypeInv'
  BY TypeStep
<1>3. TypeInv => TypeOK
  BY DEF TypeInv
<1> QED
  BY <1>1, <1>2, <1>3, PTL DEF Spec

LEMMA InvHolds == Spec => []DedupeInv
<1>1. Init => DedupeInv
  BY InvInit
<1>2. DedupeInv /\ [Next]_vars => DedupeInv'
  BY TypeStep, SignedStep, JobsAtHomeStep, MergesExcludeStep, ForestStep, ProvenanceStep
  DEF DedupeInv
<1> QED
  BY <1>1, <1>2, PTL DEF Spec

(* Merges never make a cycle, for any number of rows, workers and sweepers  *)
(* and any lines in each block: two workers that each found the other's row *)
(* to merge into cannot both do so. Rows may be reworded into other blocks  *)
(* in the midst of it; a cycle, if there is one, goes through such a row.   *)
THEOREM MergesStayAForest == Spec => []MergesAreAForest
<1>1. DedupeInv => MergesAreAForest
  BY DEF DedupeInv
<1> QED
  BY <1>1, InvHolds, PTL

(* No merge leaves a source row behind on a row that is merged away, and    *)
(* none moves one onto such a row, unless that row has moved to another     *)
(* block since it was first normalized.                                     *)
THEOREM ProvenanceStaysCanonical == Spec => []ProvenanceIsCanonical
<1>1. DedupeInv => ProvenanceIsCanonical
  BY DEF DedupeInv
<1> QED
  BY <1>1, InvHolds, PTL
=============================================================================
