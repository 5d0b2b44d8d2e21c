---------------------------- MODULE EnrichProofs ----------------------------
(***************************************************************************)
(* Proofs about Enrich, for any number of rows, contents, models, workers  *)
(* and events.                                                             *)
(***************************************************************************)
EXTENDS Enrich, TLAPS, FiniteSetTheorems

(* What the proofs need of the types: a cache key has at most one row, and  *)
(* a handler works on one row, of which it has read one content.            *)
OneRow == \A k \in Keys : cache[k] = {} \/ \E a \in Outputs : cache[k] = {a}

OneJob == \A w \in Workers :
  /\ \A o, p \in job[w].opp : o = p
  /\ \A c, d \in job[w].content : c = d
  /\ job[w].pc = "none" => job[w].opp = {}

Types ==
  /\ row \in [Opps -> Rows]
  /\ skills \in [Opps -> SUBSET Extractions]
  /\ cache \in [Keys -> SUBSET Outputs]
  /\ job \in [Workers -> Jobs]
  /\ paid \in [Workers -> [Keys -> Nat]]
  /\ events \in 0..MaxEvents

TypeInv == Types /\ OneRow /\ OneJob

LEMMA KeyType == \A w \in Workers, c \in Contents : Key(w, c) \in Keys
  BY ModelsAssumption DEF Key, Keys

LEMMA OneRowCounts == Types /\ OneRow => \A k \in Keys : Cardinality(cache[k]) <= 1
<1> SUFFICES ASSUME OneRow, NEW k \in Keys PROVE Cardinality(cache[k]) <= 1
  OBVIOUS
<1>1. CASE cache[k] = {}
  BY <1>1, FS_EmptySet
<1>2. ASSUME NEW a \in Outputs, cache[k] = {a} PROVE Cardinality(cache[k]) <= 1
  <2>1. Cardinality({a}) = 1
    BY FS_Singleton
  <2> QED
    BY <1>2, <2>1
<1> QED
  BY <1>1, <1>2 DEF OneRow

(* One handler's next record.                                               *)
Moves(w, new) == new \in Jobs /\ job' = [job EXCEPT ![w] = new]

LEMMA NoJobType == NoJob \in Jobs
  BY DEF NoJob, Jobs

LEMMA MoveTypes ==
  ASSUME Types, NEW w \in Workers, NEW new, Moves(w, new)
  PROVE  /\ job' \in [Workers -> Jobs]
         /\ job'[w] = new
         /\ \A v \in Workers : v # w => job'[v] = job[v]
  BY DEF Moves, Types

LEMMA OneJobMoves ==
  ASSUME Types, OneJob, NEW w \in Workers, NEW new, Moves(w, new),
         \A o, p \in new.opp : o = p, \A c, d \in new.content : c = d,
         new.pc = "none" => new.opp = {}
  PROVE  OneJob'
<1>1. \A v \in Workers : job'[v] = IF v = w THEN new ELSE job[v]
  BY MoveTypes
<1> QED
  BY <1>1 DEF OneJob

(* The steps that end a job.                                                *)
Ends(w) ==
  \/ \E o \in Opps, c \in Contents : Attach(w, o, c)
  \/ \E o \in Opps : Degrade(w, o) \/ Fail(w, o)
  \/ Crash(w)

(* The record every step of a handler leaves.                               *)
LEMMA HandlerMoves ==
  ASSUME Types, NEW w \in Workers
  PROVE
    /\ \A o \in Opps : Claim(w, o) =>
         Moves(w, [NoJob EXCEPT !.pc = "claimed", !.opp = {o}, !.ver = row[o].ver,
                                !.attempts = row[o].attempts + 1])
    /\ \A o \in Opps : GetOpportunityForEnrichment(w, o) =>
         Moves(w, [job[w] EXCEPT !.content = {row[o].content},
                     !.pc = IF row[o].content \in Stubs THEN "attach" ELSE "lookup"])
    /\ \A c \in Contents : Lookup(w, c) =>
         Moves(w, [job[w] EXCEPT !.got = GetExtraction(Key(w, c)),
                     !.pc = IF GetExtraction(Key(w, c)) = {} THEN "call" ELSE "apply"])
    /\ \A a \in Answers : Answer(w, a) =>
         Moves(w, [job[w] EXCEPT !.pc = "put", !.got = {a}])
    /\ \A o \in Opps : Refuse(w, o) => Moves(w, [job[w] EXCEPT !.pc = "failed"])
    /\ Err(w) => Moves(w, [job[w] EXCEPT !.pc = "failed", !.sees = {}])
    /\ \A c \in Contents, a \in Answers : Put(w, c, a) =>
         Moves(w, [job[w] EXCEPT !.pc = "apply"])
    /\ \A o \in Opps : ReplaceOpportunitySkills(w, o) =>
         Moves(w, [job[w] EXCEPT !.pc = "insert", !.sees = skills[o]])
    /\ Ends(w) => Moves(w, NoJob)
<1> USE NoJobType DEF Moves
<1>0. job[w] \in Jobs /\ job \in [Workers -> Jobs]
  BY DEF Types
<1>1. ASSUME NEW o \in Opps, Claim(w, o)
      PROVE Moves(w, [NoJob EXCEPT !.pc = "claimed", !.opp = {o}, !.ver = row[o].ver,
                                   !.attempts = row[o].attempts + 1])
  <2>1. row[o].ver \in Nat /\ row[o].attempts + 1 \in Nat
    BY DEF Types, Rows
  <2> QED
    BY <1>1, <2>1 DEF Claim, Jobs, NoJob
<1>2. ASSUME NEW o \in Opps, GetOpportunityForEnrichment(w, o)
      PROVE Moves(w, [job[w] EXCEPT !.content = {row[o].content},
                     !.pc = IF row[o].content \in Stubs THEN "attach" ELSE "lookup"])
  <2>1. row[o].content \in Contents
    BY DEF Types, Rows
  <2>2. job' = [job EXCEPT ![w] = [job[w] EXCEPT !.content = {row[o].content},
                     !.pc = IF row[o].content \in Stubs THEN "attach" ELSE "lookup"]]
    BY <1>2, <1>0 DEF GetOpportunityForEnrichment
  <2> QED
    BY <2>1, <2>2, <1>0 DEF Jobs
<1>3. ASSUME NEW c \in Contents, Lookup(w, c)
      PROVE Moves(w, [job[w] EXCEPT !.got = GetExtraction(Key(w, c)),
                     !.pc = IF GetExtraction(Key(w, c)) = {} THEN "call" ELSE "apply"])
  <2>1. GetExtraction(Key(w, c)) \in SUBSET Answers
    BY DEF GetExtraction
  <2>2. job' = [job EXCEPT ![w] = [job[w] EXCEPT !.got = GetExtraction(Key(w, c)),
                     !.pc = IF GetExtraction(Key(w, c)) = {} THEN "call" ELSE "apply"]]
    BY <1>3, <1>0 DEF Lookup
  <2> QED
    BY <2>1, <2>2, <1>0 DEF Jobs
<1>4. ASSUME NEW a \in Answers, Answer(w, a)
      PROVE Moves(w, [job[w] EXCEPT !.pc = "put", !.got = {a}])
  <2>1. job' = [job EXCEPT ![w] = [job[w] EXCEPT !.pc = "put", !.got = {a}]]
    BY <1>4, <1>0 DEF Answer
  <2> QED
    BY <2>1, <1>0 DEF Jobs
<1>5. ASSUME NEW c \in Contents, NEW a \in Answers, Put(w, c, a)
      PROVE Moves(w, [job[w] EXCEPT !.pc = "apply"])
  <2>1. job' = [job EXCEPT ![w] = [job[w] EXCEPT !.pc = "apply"]]
    BY <1>5, <1>0 DEF Put
  <2> QED
    BY <2>1, <1>0 DEF Jobs
<1>6. ASSUME NEW o \in Opps, ReplaceOpportunitySkills(w, o)
      PROVE Moves(w, [job[w] EXCEPT !.pc = "insert", !.sees = skills[o]])
  <2>1. job' = [job EXCEPT ![w] = [job[w] EXCEPT !.pc = "insert", !.sees = skills[o]]]
    BY <1>6, <1>0 DEF ReplaceOpportunitySkills
  <2>2. skills[o] \in SUBSET Extractions
    BY DEF Types
  <2> QED
    BY <2>1, <2>2, <1>0 DEF Jobs
<1>7. \A o \in Opps : Refuse(w, o) => Moves(w, [job[w] EXCEPT !.pc = "failed"])
  BY <1>0 DEF Refuse, Jobs
<1>8. Err(w) => Moves(w, [job[w] EXCEPT !.pc = "failed", !.sees = {}])
  BY <1>0 DEF Err, Jobs
<1>9. Ends(w) => Moves(w, NoJob)
  BY DEF Ends, Attach, Degrade, Fail, Crash
<1> HIDE DEF Moves
<1> QED
  BY <1>1, <1>2, <1>3, <1>4, <1>5, <1>6, <1>7, <1>8, <1>9

(* The steps, with everything a handler picks in its range.                 *)
HandlerStep(w) ==
  \/ \E o \in Opps : Claim(w, o) \/ GetOpportunityForEnrichment(w, o) \/ Refuse(w, o)
  \/ \E o \in Opps : ReplaceOpportunitySkills(w, o)
  \/ \E c \in Contents : Lookup(w, c)
  \/ \E c \in Contents, a \in Answers : Put(w, c, a)
  \/ \E a \in Answers : Answer(w, a)
  \/ Err(w) \/ Ends(w)

LEMMA Steps ==
  ASSUME Types, [Next]_vars
  PROVE  \/ \E o \in Opps : Arrive(o) \/ \E c \in Contents : Reword(o, c)
         \/ \E w \in Workers : HandlerStep(w)
         \/ \E w \in Workers, o \in Opps, c \in Contents, a \in Answers :
              CommitSkills(w, o, c, a)
         \/ UNCHANGED vars
<1>1. \A w \in Workers : /\ job[w].opp \subseteq Opps
                         /\ job[w].content \subseteq Contents
                         /\ job[w].got \subseteq Answers
  BY DEF Types, Jobs
<1>2. ASSUME NEW w \in Workers, Handle(w)
      PROVE  \/ HandlerStep(w)
             \/ \E o \in Opps, c \in Contents, a \in Answers : CommitSkills(w, o, c, a)
  BY <1>1, <1>2, Zenon DEF Handle, HandlerStep, Ends
<1>3. \A w \in Workers : Err(w) \/ Crash(w) \/ (\E o \in Opps : Claim(w, o)) => HandlerStep(w)
  BY Zenon DEF HandlerStep, Ends
<1> QED
  BY <1>2, <1>3, Zenon DEF Next

(* A transaction that commits leaves every record a record, its row and     *)
(* content as they were.                                                    *)
LEMMA CommitMoves ==
  ASSUME Types, NEW w \in Workers, NEW o \in Opps, NEW c \in Contents, NEW a \in Answers,
         CommitSkills(w, o, c, a)
  PROVE  /\ job' \in [Workers -> Jobs]
         /\ job'[w] = [job[w] EXCEPT !.pc = "attach", !.sees = {}]
         /\ \A v \in Workers \ {w} :
              /\ o \notin job[v].opp => job'[v] = job[v]
              /\ o \in job[v].opp => job'[v] = [job[v] EXCEPT !.sees = @ \ job[w].sees]
<1>0. job \in [Workers -> Jobs]
  BY DEF Types
<1>1. job' = [v \in Workers |->
       IF v = w THEN [job[v] EXCEPT !.pc = "attach", !.sees = {}]
       ELSE IF o \in job[v].opp THEN [job[v] EXCEPT !.sees = @ \ job[w].sees]
       ELSE job[v]]
  BY DEF CommitSkills
<1>2. ASSUME NEW v \in Workers
      PROVE  /\ [job[v] EXCEPT !.pc = "attach", !.sees = {}] \in Jobs
             /\ [job[v] EXCEPT !.sees = @ \ job[w].sees] \in Jobs
  BY <1>0 DEF Jobs
<1> QED
  BY <1>0, <1>1, <1>2

LEMMA CommitKeeps ==
  ASSUME Types, NEW w \in Workers, NEW o \in Opps, NEW c \in Contents, NEW a \in Answers,
         CommitSkills(w, o, c, a), NEW v \in Workers
  PROVE  /\ job'[v].opp = job[v].opp /\ job'[v].content = job[v].content
         /\ job'[v].ver = job[v].ver /\ job'[v].got = job[v].got
         /\ job'[v].attempts = job[v].attempts
         /\ job'[v].pc = IF v = w THEN "attach" ELSE job[v].pc
<1>0. job[v] \in Jobs
  BY DEF Types
<1>1. job'[v] \in {job[v], [job[v] EXCEPT !.sees = @ \ job[w].sees]} \/ v = w
  BY CommitMoves
<1>2. job'[w] = [job[w] EXCEPT !.pc = "attach", !.sees = {}]
  BY CommitMoves
<1> QED
  BY <1>0, <1>1, <1>2 DEF Jobs

(* The statements keep rows rows.                                           *)
LEMMA RowUpdates ==
  ASSUME NEW r \in Rows, NEW c \in Contents
  PROVE  /\ [r EXCEPT !.content = c, !.state = "fetched", !.ver = @ + 1, !.attempts = 0,
                      !.tries = 0, !.degraded = FALSE] \in Rows
         /\ AttachExtractionToOpportunity(r, c) \in Rows
         /\ AdvanceState(r) \in Rows
<1>1. r.ver + 1 \in Nat
  BY DEF Rows
<1> DEFINE n == r.ver + 1
<1>2. n \in Nat
  BY <1>1
<1> HIDE DEF n
<1>3. [r EXCEPT !.content = c, !.state = "fetched", !.ver = n, !.attempts = 0,
                !.tries = 0, !.degraded = FALSE] \in Rows
  BY <1>2 DEF Rows, States
<1>4. [r EXCEPT !.state = "enriched", !.ver = n, !.attempts = 0, !.hash = {c},
                !.error = FALSE, !.degraded = FALSE] \in Rows
  BY <1>2 DEF Rows, States
<1>5. [r EXCEPT !.state = "enriched", !.ver = n, !.attempts = 0, !.degraded = TRUE] \in Rows
  BY <1>2 DEF Rows, States
<1> QED
  BY <1>3, <1>4, <1>5 DEF n, AttachExtractionToOpportunity, AdvanceState

LEMMA RowMarks ==
  ASSUME NEW r \in Rows
  PROVE  /\ [r EXCEPT !.state = "deduped"] \in Rows /\ [r EXCEPT !.error = TRUE] \in Rows
         /\ [r EXCEPT !.attempts = @ + 1, !.tries = @ + 1] \in Rows
         /\ FailAttempt(r) \in Rows
<1>1. [r EXCEPT !.state = "deduped"] \in Rows /\ [r EXCEPT !.error = TRUE] \in Rows
  BY DEF Rows, States
<1>2. r.attempts + 1 \in Nat /\ r.tries + 1 \in Nat
  BY DEF Rows
<1> DEFINE a == r.attempts + 1
           t == r.tries + 1
<1>3. a \in Nat /\ t \in Nat
  BY <1>2
<1> HIDE DEF a, t
<1>4. [r EXCEPT !.attempts = a, !.tries = t] \in Rows
  BY <1>3 DEF Rows
<1>5. FailAttempt(r) \in Rows
  BY DEF FailAttempt, Rows, States
<1> QED
  BY <1>1, <1>4, <1>5 DEF a, t

(* The rows after each step that writes them.                               *)
LEMMA RowsAfter ==
  ASSUME Types, NEW o \in Opps
  PROVE  /\ Arrive(o) => row' = [row EXCEPT ![o] = [row[o] EXCEPT !.state = "deduped"]]
         /\ \A c \in Contents : Reword(o, c) => row' = [row EXCEPT ![o] =
              [row[o] EXCEPT !.content = c, !.state = "fetched", !.ver = @ + 1,
                             !.attempts = 0, !.tries = 0, !.degraded = FALSE]]
         /\ \A w \in Workers :
              /\ Claim(w, o) => row' = [row EXCEPT ![o] =
                   [row[o] EXCEPT !.attempts = @ + 1, !.tries = @ + 1]]
              /\ Refuse(w, o) => row' = [row EXCEPT ![o] = [row[o] EXCEPT !.error = TRUE]]
              /\ Degrade(w, o) => row' = [row EXCEPT ![o] =
                   IF Unmoved(row[o], job[w].ver) THEN AdvanceState(row[o]) ELSE row[o]]
              /\ Fail(w, o) => row' = [row EXCEPT ![o] = FailAttempt(row[o])]
              /\ \A c \in Contents : Attach(w, o, c) => row' = [row EXCEPT ![o] =
                   IF Unmoved(row[o], job[w].ver)
                   THEN AttachExtractionToOpportunity(row[o], c) ELSE row[o]]
<1>0. row \in [Opps -> Rows] /\ row[o] \in Rows
  BY DEF Types
<1>1. Arrive(o) => row' = [row EXCEPT ![o] = [row[o] EXCEPT !.state = "deduped"]]
  BY <1>0 DEF Arrive
<1>2. \A c \in Contents : Reword(o, c) => row' = [row EXCEPT ![o] =
        [row[o] EXCEPT !.content = c, !.state = "fetched", !.ver = @ + 1,
                       !.attempts = 0, !.tries = 0, !.degraded = FALSE]]
  BY <1>0 DEF Reword, Rows
<1>3. ASSUME NEW w \in Workers
      PROVE  /\ Claim(w, o) => row' = [row EXCEPT ![o] =
                  [row[o] EXCEPT !.attempts = @ + 1, !.tries = @ + 1]]
             /\ Refuse(w, o) => row' = [row EXCEPT ![o] = [row[o] EXCEPT !.error = TRUE]]
             /\ Degrade(w, o) => row' = [row EXCEPT ![o] =
                  IF Unmoved(row[o], job[w].ver) THEN AdvanceState(row[o]) ELSE row[o]]
             /\ Fail(w, o) => row' = [row EXCEPT ![o] = FailAttempt(row[o])]
             /\ \A c \in Contents : Attach(w, o, c) => row' = [row EXCEPT ![o] =
                  IF Unmoved(row[o], job[w].ver)
                  THEN AttachExtractionToOpportunity(row[o], c) ELSE row[o]]
  <2>1. Claim(w, o) => row' = [row EXCEPT ![o] =
          [row[o] EXCEPT !.attempts = @ + 1, !.tries = @ + 1]]
    BY <1>0 DEF Claim, Rows
  <2>2. Refuse(w, o) => row' = [row EXCEPT ![o] = [row[o] EXCEPT !.error = TRUE]]
    BY <1>0 DEF Refuse
  <2>3. /\ Degrade(w, o) => row' = [row EXCEPT ![o] =
             IF Unmoved(row[o], job[w].ver) THEN AdvanceState(row[o]) ELSE row[o]]
        /\ Fail(w, o) => row' = [row EXCEPT ![o] = FailAttempt(row[o])]
    BY <1>0 DEF Degrade, Fail
  <2>4. \A c \in Contents : Attach(w, o, c) => row' = [row EXCEPT ![o] =
          IF Unmoved(row[o], job[w].ver)
          THEN AttachExtractionToOpportunity(row[o], c) ELSE row[o]]
    BY <1>0 DEF Attach
  <2> QED
    BY <2>1, <2>2, <2>3, <2>4
<1> QED
  BY <1>1, <1>2, <1>3

(* The steps that write rows.                                               *)
RowStep(o) ==
  \/ Arrive(o) \/ \E c \in Contents : Reword(o, c)
  \/ \E w \in Workers : \/ Claim(w, o) \/ Refuse(w, o) \/ Degrade(w, o) \/ Fail(w, o)
                       \/ \E c \in Contents : Attach(w, o, c)

LEMMA RowsTyped == ASSUME Types, NEW o \in Opps, RowStep(o) PROVE row' \in [Opps -> Rows]
<1>0. row \in [Opps -> Rows] /\ row[o] \in Rows
  BY DEF Types
<1>1. ASSUME NEW r \in Rows, row' = [row EXCEPT ![o] = r] PROVE row' \in [Opps -> Rows]
  BY <1>0, <1>1
<1>2. CASE Arrive(o)
  BY <1>0, <1>1, <1>2, RowMarks, RowsAfter
<1>3. ASSUME NEW c \in Contents, Reword(o, c) PROVE row' \in [Opps -> Rows]
  <2> DEFINE r == [row[o] EXCEPT !.content = c, !.state = "fetched", !.ver = @ + 1,
                                 !.attempts = 0, !.tries = 0, !.degraded = FALSE]
  <2>1. r \in Rows
    BY <1>0, RowUpdates
  <2>2. row' = [row EXCEPT ![o] = r]
    BY <1>3, RowsAfter
  <2> QED
    BY <1>1, <2>1, <2>2
<1>4. ASSUME NEW w \in Workers, \/ Claim(w, o) \/ Refuse(w, o) \/ Fail(w, o)
      PROVE  row' \in [Opps -> Rows]
  BY <1>0, <1>1, <1>4, RowMarks, RowsAfter
<1>5. ASSUME NEW w \in Workers, NEW c \in Contents, Attach(w, o, c)
      PROVE  row' \in [Opps -> Rows]
  <2> DEFINE r == IF Unmoved(row[o], job[w].ver)
                  THEN AttachExtractionToOpportunity(row[o], c) ELSE row[o]
  <2>1. r \in Rows
    BY <1>0, RowUpdates
  <2>2. row' = [row EXCEPT ![o] = r]
    BY <1>5, RowsAfter
  <2> QED
    BY <1>1, <2>1, <2>2
<1>6. ASSUME NEW w \in Workers, Degrade(w, o) PROVE row' \in [Opps -> Rows]
  <2>1. row[o].content \in Contents
    BY <1>0 DEF Rows
  <2>2. AdvanceState(row[o]) \in Rows
    BY <1>0, <2>1, RowUpdates
  <2> QED
    BY <1>0, <1>1, <1>6, <2>2, RowsAfter
<1> QED
  BY <1>2, <1>3, <1>4, <1>5, <1>6 DEF RowStep

LEMMA TypeInit == Init => TypeInv
<1> SUFFICES ASSUME Init PROVE TypeInv
  OBVIOUS
<1>1. row \in [Opps -> Rows]
  <2> DEFINE New == [content : Contents, state : {"fetched"}, ver : {0}, attempts : {0},
                     hash : {{}}, error : {FALSE}, tries : {0}, degraded : {FALSE}]
  <2>1. ASSUME NEW r \in New PROVE r \in Rows
    <3>1. /\ r.content \in Contents /\ r.state \in States
          /\ r.ver \in Nat /\ r.attempts \in Nat /\ r.hash \in SUBSET Contents
          /\ r.tries \in Nat
      BY DEF States
    <3>2. r.error \in BOOLEAN /\ r.degraded \in BOOLEAN
      BY Zenon
    <3>3. r = [content |-> r.content, state |-> r.state, ver |-> r.ver,
               attempts |-> r.attempts, hash |-> r.hash, error |-> r.error,
               tries |-> r.tries, degraded |-> r.degraded]
      OBVIOUS
    <3> QED
      BY <3>1, <3>2, <3>3 DEF Rows
  <2> QED
    BY <2>1 DEF Init
<1>2. cache \in [Keys -> SUBSET Outputs] /\ OneRow
  BY DEF Init, Outputs, OneRow
<1>3. job \in [Workers -> Jobs] /\ OneJob
  BY NoJobType DEF Init, OneJob, NoJob
<1> QED
  BY <1>1, <1>2, <1>3, MaxEventsAssumption DEF Init, TypeInv, Types

LEMMA TypeStep == TypeInv /\ [Next]_vars => TypeInv'
<1> SUFFICES ASSUME TypeInv, [Next]_vars PROVE TypeInv'
  OBVIOUS
<1>0. Types /\ OneRow /\ OneJob
  BY DEF TypeInv
<1>e. Event => events' \in 0..MaxEvents
  BY <1>0, MaxEventsAssumption DEF Event, Types
<1>m. ASSUME NEW w \in Workers, NEW new, Moves(w, new),
             new.opp = job[w].opp \/ new.opp = {} \/ (\E o \in Opps : new.opp = {o}),
             \/ new.content = job[w].content
             \/ new.content = {}
             \/ \E c \in Contents : new.content = {c},
             new.pc = "none" => new.opp = {}
      PROVE  job' \in [Workers -> Jobs] /\ OneJob'
  <2>1. \A o, p \in new.opp : o = p
    BY <1>m, <1>0 DEF OneJob
  <2>2. \A c, d \in new.content : c = d
    BY <1>m, <1>0 DEF OneJob
  <2> QED
    BY <1>m, <1>0, <2>1, <2>2, MoveTypes, OneJobMoves
<1>n. ASSUME NEW w \in Workers, Moves(w, NoJob) PROVE job' \in [Workers -> Jobs] /\ OneJob'
  BY <1>m, <1>n DEF NoJob
<1>1. ASSUME NEW o \in Opps, Arrive(o) PROVE TypeInv'
  <2>2. row' \in [Opps -> Rows]
    BY <1>1, <1>0, RowsTyped DEF RowStep
  <2> QED
    BY <1>1, <1>0, <2>2 DEF Arrive, TypeInv, Types, OneRow, OneJob
<1>2. ASSUME NEW o \in Opps, NEW c \in Contents, Reword(o, c) PROVE TypeInv'
  <2>2. row' \in [Opps -> Rows]
    BY <1>2, <1>0, RowsTyped DEF RowStep
  <2> QED
    BY <1>2, <1>0, <1>e, <2>2 DEF Reword, TypeInv, Types, OneRow, OneJob
<1>3. ASSUME NEW w \in Workers, HandlerStep(w) PROVE TypeInv'
  <2>0. job[w] \in Jobs
    BY <1>0 DEF Types
  <2>a. ASSUME NEW o \in Opps, Claim(w, o) PROVE TypeInv'
    <3> DEFINE new == [NoJob EXCEPT !.pc = "claimed", !.opp = {o}, !.ver = row[o].ver,
                                    !.attempts = row[o].attempts + 1]
    <3>1. new.opp = {o} /\ new.content = {} /\ new.pc # "none"
      BY DEF NoJob
    <3>2. Moves(w, new)
      BY <2>a, <1>0, HandlerMoves
    <3> HIDE DEF new
    <3>3. job' \in [Workers -> Jobs] /\ OneJob'
      BY <3>1, <3>2, <1>m
    <3>4. row' \in [Opps -> Rows]
      BY <2>a, <1>0, RowsTyped DEF RowStep
    <3> QED
      BY <2>a, <1>0, <3>3, <3>4 DEF Claim, TypeInv, Types, OneRow
  <2>b. ASSUME NEW o \in Opps, GetOpportunityForEnrichment(w, o) PROVE TypeInv'
    <3> DEFINE new == [job[w] EXCEPT !.content = {row[o].content},
                     !.pc = IF row[o].content \in Stubs THEN "attach" ELSE "lookup"]
    <3>1. new.opp = job[w].opp /\ new.content = {row[o].content} /\ new.pc # "none"
      BY <2>0 DEF Jobs
    <3>2. Moves(w, new)
      BY <2>b, <1>0, HandlerMoves
    <3>3. row[o].content \in Contents
      BY <1>0 DEF Types, Rows
    <3> HIDE DEF new
    <3>4. job' \in [Workers -> Jobs] /\ OneJob'
      BY <3>1, <3>2, <3>3, <1>m
    <3> QED
      BY <2>b, <1>0, <3>4 DEF GetOpportunityForEnrichment, TypeInv, Types, OneRow
  <2>c. ASSUME NEW o \in Opps, Refuse(w, o) PROVE TypeInv'
    <3> DEFINE new == [job[w] EXCEPT !.pc = "failed"]
    <3>1. new.opp = job[w].opp /\ new.content = job[w].content /\ new.pc # "none"
      BY <2>0 DEF Jobs
    <3>2. Moves(w, new)
      BY <2>c, <1>0, HandlerMoves
    <3> HIDE DEF new
    <3>3. job' \in [Workers -> Jobs] /\ OneJob'
      BY <3>1, <3>2, <1>m
    <3>4. row' \in [Opps -> Rows]
      BY <2>c, <1>0, RowsTyped DEF RowStep
    <3> QED
      BY <2>c, <1>0, <1>e, <3>3, <3>4 DEF Refuse, TypeInv, Types, OneRow
  <2>d. ASSUME NEW o \in Opps, ReplaceOpportunitySkills(w, o) PROVE TypeInv'
    <3> DEFINE new == [job[w] EXCEPT !.pc = "insert", !.sees = skills[o]]
    <3>1. new.opp = job[w].opp /\ new.content = job[w].content /\ new.pc # "none"
      BY <2>0 DEF Jobs
    <3>2. Moves(w, new)
      BY <2>d, <1>0, HandlerMoves
    <3> HIDE DEF new
    <3>3. job' \in [Workers -> Jobs] /\ OneJob'
      BY <3>1, <3>2, <1>m
    <3> QED
      BY <2>d, <1>0, <3>3 DEF ReplaceOpportunitySkills, TypeInv, Types, OneRow
  <2>e. ASSUME NEW c \in Contents, Lookup(w, c) PROVE TypeInv'
    <3> DEFINE new == [job[w] EXCEPT !.got = GetExtraction(Key(w, c)),
                     !.pc = IF GetExtraction(Key(w, c)) = {} THEN "call" ELSE "apply"]
    <3>1. new.opp = job[w].opp /\ new.content = job[w].content /\ new.pc # "none"
      BY <2>0 DEF Jobs
    <3>2. Moves(w, new)
      BY <2>e, <1>0, HandlerMoves
    <3> HIDE DEF new
    <3>3. job' \in [Workers -> Jobs] /\ OneJob'
      BY <3>1, <3>2, <1>m
    <3> QED
      BY <2>e, <1>0, <3>3 DEF Lookup, TypeInv, Types, OneRow
  <2>f. CASE Ends(w)
    <3>1. Moves(w, NoJob)
      BY <2>f, <1>0, HandlerMoves
    <3>2. row' \in [Opps -> Rows]
      BY <2>f, <1>0, RowsTyped DEF Ends, RowStep, Crash, Types
    <3>3. /\ UNCHANGED <<skills, cache, paid>>
          /\ events' \in 0..MaxEvents
      BY <2>f, <1>0, <1>e DEF Ends, Attach, Degrade, Fail, Crash, Types
    <3> QED
      BY <1>0, <1>n, <3>1, <3>2, <3>3 DEF TypeInv, Types, OneRow
  <2>g. ASSUME NEW c \in Contents, NEW a \in Answers, Put(w, c, a) PROVE TypeInv'
    <3> DEFINE new == [job[w] EXCEPT !.pc = "apply"]
    <3>1. new.opp = job[w].opp /\ new.content = job[w].content /\ new.pc # "none"
      BY <2>0 DEF Jobs
    <3>2. Moves(w, new)
      BY <2>g, <1>0, HandlerMoves
    <3> HIDE DEF new
    <3>3. job' \in [Workers -> Jobs] /\ OneJob'
      BY <3>1, <3>2, <1>m
    <3>4. a \in Outputs /\ Key(w, c) \in Keys
      BY KeyType DEF Outputs
    <3>5. \A k \in Keys : cache'[k] = IF k = Key(w, c) /\ cache[k] = {} THEN {a} ELSE cache[k]
      BY <2>g, <1>0 DEF Put, PutExtraction, Types
    <3>6. cache' \in [Keys -> SUBSET Outputs]
      BY <2>g, <1>0, <3>4 DEF Put, PutExtraction, Types
    <3>7. OneRow'
      BY <1>0, <3>4, <3>5 DEF OneRow
    <3>8. paid' \in [Workers -> [Keys -> Nat]]
      BY <2>g, <1>0, <3>4 DEF Put, Types
    <3> QED
      BY <2>g, <1>0, <3>3, <3>6, <3>7, <3>8 DEF Put, TypeInv, Types
  <2>h. ASSUME NEW a \in Answers, Answer(w, a) PROVE TypeInv'
    <3> DEFINE new == [job[w] EXCEPT !.pc = "put", !.got = {a}]
    <3>1. new.opp = job[w].opp /\ new.content = job[w].content /\ new.pc # "none"
      BY <2>0 DEF Jobs
    <3>2. Moves(w, new)
      BY <2>h, <1>0, HandlerMoves
    <3> HIDE DEF new
    <3>3. job' \in [Workers -> Jobs] /\ OneJob'
      BY <3>1, <3>2, <1>m
    <3> QED
      BY <2>h, <1>0, <3>3 DEF Answer, TypeInv, Types, OneRow
  <2>i. CASE Err(w)
    <3> DEFINE new == [job[w] EXCEPT !.pc = "failed", !.sees = {}]
    <3>1. new.opp = job[w].opp /\ new.content = job[w].content /\ new.pc # "none"
      BY <2>0 DEF Jobs
    <3>2. Moves(w, new)
      BY <2>i, <1>0, HandlerMoves
    <3> HIDE DEF new
    <3>3. job' \in [Workers -> Jobs] /\ OneJob'
      BY <3>1, <3>2, <1>m
    <3> QED
      BY <2>i, <1>0, <1>e, <3>3 DEF Err, TypeInv, Types, OneRow
  <2> QED
    BY <1>3, <2>a, <2>b, <2>c, <2>d, <2>e, <2>f, <2>g, <2>h, <2>i DEF HandlerStep
<1>4. ASSUME NEW w \in Workers, NEW o \in Opps, NEW c \in Contents, NEW a \in Answers,
             CommitSkills(w, o, c, a)
      PROVE TypeInv'
  <2>1. job' \in [Workers -> Jobs]
    BY <1>4, <1>0, CommitMoves
  <2>2. OneJob'
    BY <1>4, <1>0, CommitKeeps DEF OneJob
  <2>3. [key |-> Key(w, c), answer |-> a] \in Extractions
    BY KeyType DEF Extractions
  <2>4. skills' \in [Opps -> SUBSET Extractions]
    BY <1>4, <1>0, <2>3 DEF CommitSkills, InsertOpportunitySkills, Types
  <2> QED
    BY <1>4, <1>0, <2>1, <2>2, <2>4 DEF CommitSkills, TypeInv, Types, OneRow
<1>5. CASE UNCHANGED vars
  BY <1>5, <1>0 DEF vars, TypeInv, Types, OneRow, OneJob
<1> QED
  BY <1>0, <1>1, <1>2, <1>3, <1>4, <1>5, Steps

LEMMA TypeAlways == Spec => []TypeInv
  BY TypeInit, TypeStep, PTL DEF Spec

(* Every variable keeps its type, and the cache never holds two answers for *)
(* one key, whichever workers store at once.                                *)
THEOREM Typed == Spec => []TypeOK
<1>1. TypeInv => TypeOK
  BY OneRowCounts DEF TypeInv, Types, TypeOK
<1> QED
  BY <1>1, TypeAlways, PTL
-----------------------------------------------------------------------------
LEMMA PutFills ==
  ASSUME Types, NEW w \in Workers, NEW c \in Contents, NEW a \in Answers, Put(w, c, a),
         NEW k \in Keys
  PROVE  cache'[k] = IF k = Key(w, c) /\ cache[k] = {} THEN {a} ELSE cache[k]
  BY KeyType DEF Put, PutExtraction, Types

(* Only Put writes the cache.                                               *)
LEMMA CacheSteps ==
  ASSUME Types, [Next]_vars,
         \A w \in Workers, c \in Contents, a \in Answers : ~Put(w, c, a)
  PROVE  cache' = cache
<1>1. ASSUME NEW w \in Workers, HandlerStep(w) PROVE cache' = cache
  BY <1>1 DEF HandlerStep, Claim, GetOpportunityForEnrichment, Refuse,
     ReplaceOpportunitySkills, Lookup, Attach, Answer, Err, Ends, Degrade, Fail, Crash
<1>2. ASSUME NEW o \in Opps, Arrive(o) \/ \E c \in Contents : Reword(o, c)
      PROVE  cache' = cache
  BY <1>2 DEF Arrive, Reword
<1>3. ASSUME NEW w \in Workers, NEW o \in Opps, NEW c \in Contents, NEW a \in Answers,
             CommitSkills(w, o, c, a)
      PROVE  cache' = cache
  BY <1>3 DEF CommitSkills
<1>4. UNCHANGED vars => cache' = cache
  BY DEF vars
<1> QED
  BY <1>1, <1>2, <1>3, <1>4, Steps

(* A stored extraction is never replaced nor removed: of two workers that   *)
(* miss together, the second keeps what the first stored.                   *)
THEOREM StoredForGood == Spec => CacheIsPermanent
<1>1. TypeInv /\ [Next]_vars =>
        [\A k \in Keys : cache[k] # {} => cache'[k] = cache[k]]_cache
  <2> SUFFICES ASSUME TypeInv, [Next]_vars, NEW k \in Keys, cache[k] # {}
               PROVE  cache'[k] = cache[k]
    OBVIOUS
  <2>1. ASSUME NEW w \in Workers, NEW c \in Contents, NEW a \in Answers, Put(w, c, a)
        PROVE  cache'[k] = cache[k]
    BY <2>1, PutFills DEF TypeInv
  <2> QED
    BY <2>1, CacheSteps DEF TypeInv
<1> QED
  BY <1>1, TypeAlways, PTL DEF Spec, CacheIsPermanent
-----------------------------------------------------------------------------
(* A handler's version is never ahead of the row. One that still has the    *)
(* row's version has read the row's content, and its attempts are claims of *)
(* that content.                                                            *)
VersionOK(j, r) == \A o \in j.opp :
  /\ j.ver <= r[o].ver
  /\ j.pc \notin {"claimed", "failed"} /\ r[o].ver = j.ver => j.content = {r[o].content}
  /\ r[o].ver = j.ver => j.attempts <= r[o].tries

Versions == \A w \in Workers : VersionOK(job[w], row)

Counted == \A o \in Opps : row[o].attempts <= row[o].tries

CurrentInv == TypeInv /\ Versions /\ Counted /\ AttachedIsCurrent

(* What a step may do to rows: a new content comes with a new version, and  *)
(* only then are the claims counted anew.                                   *)
Forward(o) ==
  /\ row[o].ver <= row'[o].ver
  /\ row'[o].ver = row[o].ver =>
       row'[o].content = row[o].content /\ row[o].tries <= row'[o].tries

RowForward == \A o \in Opps : Forward(o)

LEMMA VersionKept ==
  ASSUME Types, Types', RowForward, NEW j \in Jobs, VersionOK(j, row)
  PROVE  VersionOK(j, row')
<1> SUFFICES ASSUME NEW o \in j.opp
             PROVE  /\ j.ver <= row'[o].ver
                    /\ j.pc \notin {"claimed", "failed"} /\ row'[o].ver = j.ver =>
                         j.content = {row'[o].content}
                    /\ row'[o].ver = j.ver => j.attempts <= row'[o].tries
  BY DEF VersionOK
<1>1. o \in Opps /\ j.ver \in Nat /\ j.attempts \in Nat
  BY DEF Jobs
<1>2. /\ row[o].ver \in Nat /\ row'[o].ver \in Nat
      /\ row[o].tries \in Nat /\ row'[o].tries \in Nat
  BY <1>1 DEF Types, Rows
<1>3. Forward(o)
  BY <1>1 DEF RowForward
<1>4. /\ j.ver <= row[o].ver
      /\ j.pc \notin {"claimed", "failed"} /\ row[o].ver = j.ver => j.content = {row[o].content}
      /\ row[o].ver = j.ver => j.attempts <= row[o].tries
  BY DEF VersionOK
<1>5. j.ver <= row'[o].ver /\ (row'[o].ver = j.ver => row'[o].ver = row[o].ver)
  BY <1>1, <1>2, <1>3, <1>4 DEF Forward
<1> QED
  BY <1>1, <1>2, <1>3, <1>4, <1>5 DEF Forward

(* Each of the steps that write a row leaves the others, and goes forward.  *)
LEMMA RowSteps ==
  ASSUME Types, NEW o \in Opps, RowStep(o)
  PROVE  (\A p \in Opps \ {o} : row'[p] = row[p]) /\ Forward(o)
<1> DEFINE Good == (\A p \in Opps \ {o} : row'[p] = row[p]) /\ Forward(o)
<1>0. row \in [Opps -> Rows] /\ row[o] \in Rows /\ row[o].ver \in Nat /\ row[o].tries \in Nat
  BY DEF Types, Rows
<1>s. ASSUME NEW r \in Rows, row' = [row EXCEPT ![o] = r],
             \/ r.ver = row[o].ver + 1
             \/ r.ver = row[o].ver /\ r.content = row[o].content /\ row[o].tries <= r.tries
      PROVE  Good
  <2>1. row'[o] = r /\ \A p \in Opps \ {o} : row'[p] = row[p]
    BY <1>0, <1>s
  <2>2. r.ver \in Nat /\ r.tries \in Nat
    BY DEF Rows
  <2> QED
    BY <1>0, <1>s, <2>1, <2>2 DEF Forward
<1> HIDE DEF Good
<1>1. ASSUME Arrive(o) PROVE Good
  <2> DEFINE r == [row[o] EXCEPT !.state = "deduped"]
  <2>1. r \in Rows /\ row' = [row EXCEPT ![o] = r]
    BY <1>0, <1>1, RowsAfter, RowMarks
  <2>2. r.ver = row[o].ver /\ r.content = row[o].content /\ row[o].tries <= r.tries
    BY <1>0 DEF Rows
  <2> HIDE DEF r
  <2> QED
    BY <1>s, <2>1, <2>2
<1>2. ASSUME NEW c \in Contents, Reword(o, c) PROVE Good
  <2> DEFINE r == [row[o] EXCEPT !.content = c, !.state = "fetched", !.ver = @ + 1,
                                 !.attempts = 0, !.tries = 0, !.degraded = FALSE]
  <2>1. r \in Rows /\ row' = [row EXCEPT ![o] = r]
    BY <1>0, <1>2, RowsAfter, RowUpdates
  <2>2. r.ver = row[o].ver + 1
    BY <1>0 DEF Rows
  <2> HIDE DEF r
  <2> QED
    BY <1>s, <2>1, <2>2
<1>3. ASSUME NEW w \in Workers, Claim(w, o) PROVE Good
  <2> DEFINE r == [row[o] EXCEPT !.attempts = @ + 1, !.tries = @ + 1]
  <2>1. r \in Rows /\ row' = [row EXCEPT ![o] = r]
    BY <1>0, <1>3, RowsAfter, RowMarks
  <2>2. r.ver = row[o].ver /\ r.content = row[o].content /\ row[o].tries <= r.tries
    BY <1>0 DEF Rows
  <2> HIDE DEF r
  <2> QED
    BY <1>s, <2>1, <2>2
<1>4. ASSUME NEW w \in Workers, Refuse(w, o) PROVE Good
  <2> DEFINE r == [row[o] EXCEPT !.error = TRUE]
  <2>1. r \in Rows /\ row' = [row EXCEPT ![o] = r]
    BY <1>0, <1>4, RowsAfter, RowMarks
  <2>2. r.ver = row[o].ver /\ r.content = row[o].content /\ row[o].tries <= r.tries
    BY <1>0 DEF Rows
  <2> HIDE DEF r
  <2> QED
    BY <1>s, <2>1, <2>2
<1>5. ASSUME NEW w \in Workers, Fail(w, o) PROVE Good
  <2> DEFINE r == FailAttempt(row[o])
  <2>1. r \in Rows /\ row' = [row EXCEPT ![o] = r]
    BY <1>0, <1>5, RowsAfter, RowMarks
  <2>2. r.ver = row[o].ver /\ r.content = row[o].content /\ row[o].tries <= r.tries
    BY <1>0 DEF FailAttempt, Rows
  <2> HIDE DEF r
  <2> QED
    BY <1>s, <2>1, <2>2
<1>6. ASSUME NEW w \in Workers, Degrade(w, o) PROVE Good
  <2> DEFINE r == IF Unmoved(row[o], job[w].ver) THEN AdvanceState(row[o]) ELSE row[o]
  <2>1. row[o].content \in Contents
    BY <1>0 DEF Rows
  <2>2. r \in Rows /\ row' = [row EXCEPT ![o] = r]
    BY <1>0, <1>6, <2>1, RowsAfter, RowUpdates
  <2>3. \/ r.ver = row[o].ver + 1
        \/ r.ver = row[o].ver /\ r.content = row[o].content /\ row[o].tries <= r.tries
    BY <1>0 DEF AdvanceState, Rows
  <2> HIDE DEF r
  <2> QED
    BY <1>s, <2>2, <2>3
<1>7. ASSUME NEW w \in Workers, NEW c \in Contents, Attach(w, o, c) PROVE Good
  <2> DEFINE r == IF Unmoved(row[o], job[w].ver)
                  THEN AttachExtractionToOpportunity(row[o], c) ELSE row[o]
  <2>1. r \in Rows /\ row' = [row EXCEPT ![o] = r]
    BY <1>0, <1>7, RowsAfter, RowUpdates
  <2>2. \/ r.ver = row[o].ver + 1
        \/ r.ver = row[o].ver /\ r.content = row[o].content /\ row[o].tries <= r.tries
    BY <1>0 DEF AttachExtractionToOpportunity, Rows
  <2> HIDE DEF r
  <2> QED
    BY <1>s, <2>1, <2>2
<1> QED
  BY <1>1, <1>2, <1>3, <1>4, <1>5, <1>6, <1>7 DEF RowStep, Good

(* Nothing else writes them.                                                *)
LEMMA RowWriters ==
  ASSUME Types, [Next]_vars PROVE row' = row \/ \E o \in Opps : RowStep(o)
<1>1. ASSUME NEW w \in Workers, HandlerStep(w)
      PROVE  row' = row \/ \E o \in Opps : RowStep(o)
  BY <1>1 DEF HandlerStep, GetOpportunityForEnrichment, ReplaceOpportunitySkills,
     Lookup, Answer, Put, Err, Ends, Crash, RowStep
<1> QED
  BY <1>1, Steps DEF RowStep, CommitSkills, vars

LEMMA RowsForward == ASSUME Types, [Next]_vars PROVE RowForward
<1>0. \A o \in Opps : row[o].ver \in Nat /\ row[o].tries \in Nat
  BY DEF Types, Rows
<1>1. row' = row => RowForward
  BY <1>0 DEF RowForward, Forward
<1>2. ASSUME NEW o \in Opps, RowStep(o) PROVE RowForward
  <2> SUFFICES ASSUME NEW p \in Opps PROVE Forward(p)
    BY DEF RowForward
  <2>1. CASE p = o
    BY <2>1, <1>2, RowSteps
  <2>2. CASE p # o
    BY <2>2, <1>0, <1>2, RowSteps DEF Forward
  <2> QED
    BY <2>1, <2>2
<1> QED
  BY <1>1, <1>2, RowWriters

(* The version a handler has after each of its steps. A claim reads the row *)
(* as it leaves it.                                                         *)
LEMMA VersionMoves ==
  ASSUME TypeInv, Types', Versions, RowForward, NEW w \in Workers, NEW new, Moves(w, new),
         VersionOK(new, row')
  PROVE  Versions'
<1>1. \A v \in Workers : job'[v] = IF v = w THEN new ELSE job[v]
  BY MoveTypes DEF TypeInv
<1>2. Types /\ \A v \in Workers : job[v] \in Jobs
  BY DEF TypeInv, Types
<1>3. \A v \in Workers : VersionOK(job[v], row')
  BY <1>2, VersionKept DEF Versions
<1> QED
  BY <1>1, <1>3 DEF Versions, VersionOK

LEMMA HandlerVersions ==
  ASSUME TypeInv, Types', Versions, Counted, RowForward, NEW w \in Workers, HandlerStep(w)
  PROVE  Versions'
<1>0. /\ Types /\ job[w] \in Jobs /\ VersionOK(job[w], row) /\ job[w].opp \subseteq Opps
      /\ VersionOK(job[w], row')
  <2>1. Types /\ job[w] \in Jobs /\ VersionOK(job[w], row) /\ job[w].opp \subseteq Opps
    BY DEF TypeInv, Types, Versions, Jobs
  <2> QED
    BY <2>1, VersionKept
<1>n. Moves(w, NoJob) => Versions'
  <2>1. VersionOK(NoJob, row')
    BY DEF VersionOK, NoJob
  <2> QED
    BY <2>1, VersionMoves
(* A step past the read keeps what the handler knows of the row.            *)
<1>k. ASSUME NEW new, Moves(w, new), new.opp = job[w].opp, new.ver = job[w].ver,
             new.attempts = job[w].attempts,
             new.pc = "failed" \/ new.content = job[w].content,
             new.pc = "failed" \/ job[w].pc \notin {"claimed", "failed"}
      PROVE  Versions'
  <2>1. VersionOK(new, row')
    BY <1>k, <1>0 DEF VersionOK
  <2> QED
    BY <1>k, <2>1, VersionMoves
<1>1. ASSUME NEW o \in Opps, Claim(w, o) PROVE Versions'
  <2> DEFINE new == [NoJob EXCEPT !.pc = "claimed", !.opp = {o}, !.ver = row[o].ver,
                                  !.attempts = row[o].attempts + 1]
  <2>1. Moves(w, new)
    BY <1>1, <1>0, HandlerMoves
  <2>2. /\ new.opp = {o} /\ new.ver = row[o].ver /\ new.pc = "claimed"
        /\ new.attempts = row[o].attempts + 1
    BY DEF NoJob
  <2>3. row' = [row EXCEPT ![o] = [row[o] EXCEPT !.attempts = @ + 1, !.tries = @ + 1]]
    BY <1>0, <1>1, RowsAfter
  <2>4. /\ row[o] \in Rows /\ row[o].ver \in Nat /\ row[o].attempts \in Nat
        /\ row[o].tries \in Nat /\ row[o].attempts <= row[o].tries
    BY <1>0 DEF Types, Rows, Counted
  <2>5. row'[o].ver = row[o].ver /\ row'[o].tries = row[o].tries + 1
    BY <1>0, <2>3, <2>4 DEF Types, Rows
  <2> HIDE DEF new
  <2>6. VersionOK(new, row')
    BY <2>2, <2>4, <2>5 DEF VersionOK
  <2> QED
    BY <2>1, <2>6, VersionMoves
<1>2. ASSUME NEW o \in Opps, GetOpportunityForEnrichment(w, o) PROVE Versions'
  <2> DEFINE new == [job[w] EXCEPT !.content = {row[o].content},
                     !.pc = IF row[o].content \in Stubs THEN "attach" ELSE "lookup"]
  <2>1. Moves(w, new)
    BY <1>2, <1>0, HandlerMoves
  <2>2. new.opp = job[w].opp /\ new.ver = job[w].ver /\ new.content = {row[o].content}
        /\ new.attempts = job[w].attempts
    BY <1>0 DEF Jobs
  <2>3. (\A p \in job[w].opp : p = o) /\ row' = row
    BY <1>2 DEF GetOpportunityForEnrichment, TypeInv, OneJob
  <2> HIDE DEF new
  <2>4. VersionOK(new, row')
    BY <1>0, <2>2, <2>3 DEF VersionOK
  <2> QED
    BY <2>1, <2>4, VersionMoves
<1>3. ASSUME NEW c \in Contents, Lookup(w, c) PROVE Versions'
  <2> DEFINE new == [job[w] EXCEPT !.got = GetExtraction(Key(w, c)),
                     !.pc = IF GetExtraction(Key(w, c)) = {} THEN "call" ELSE "apply"]
  <2>1. Moves(w, new)
    BY <1>3, <1>0, HandlerMoves
  <2>2. new.opp = job[w].opp /\ new.ver = job[w].ver /\ new.content = job[w].content
        /\ new.attempts = job[w].attempts
    BY <1>0 DEF Jobs
  <2> HIDE DEF new
  <2> QED
    BY <1>3, <2>1, <2>2, <1>k DEF Lookup
<1>4. ASSUME NEW a \in Answers, Answer(w, a) PROVE Versions'
  <2> DEFINE new == [job[w] EXCEPT !.pc = "put", !.got = {a}]
  <2>1. Moves(w, new)
    BY <1>4, <1>0, HandlerMoves
  <2>2. new.opp = job[w].opp /\ new.ver = job[w].ver /\ new.content = job[w].content
        /\ new.attempts = job[w].attempts
    BY <1>0 DEF Jobs
  <2> HIDE DEF new
  <2> QED
    BY <1>4, <2>1, <2>2, <1>k DEF Answer
<1>5. ASSUME NEW c \in Contents, NEW a \in Answers, Put(w, c, a) PROVE Versions'
  <2> DEFINE new == [job[w] EXCEPT !.pc = "apply"]
  <2>1. Moves(w, new)
    BY <1>5, <1>0, HandlerMoves
  <2>2. new.opp = job[w].opp /\ new.ver = job[w].ver /\ new.content = job[w].content
        /\ new.attempts = job[w].attempts
    BY <1>0 DEF Jobs
  <2> HIDE DEF new
  <2> QED
    BY <1>5, <2>1, <2>2, <1>k DEF Put
<1>6. ASSUME NEW o \in Opps, ReplaceOpportunitySkills(w, o) PROVE Versions'
  <2> DEFINE new == [job[w] EXCEPT !.pc = "insert", !.sees = skills[o]]
  <2>1. Moves(w, new)
    BY <1>6, <1>0, HandlerMoves
  <2>2. new.opp = job[w].opp /\ new.ver = job[w].ver /\ new.content = job[w].content
        /\ new.attempts = job[w].attempts
    BY <1>0 DEF Jobs
  <2> HIDE DEF new
  <2> QED
    BY <1>6, <2>1, <2>2, <1>k DEF ReplaceOpportunitySkills
<1>7. ASSUME Err(w) \/ \E o \in Opps : Refuse(w, o) PROVE Versions'
  <2>1. PICK new \in {[job[w] EXCEPT !.pc = "failed"],
                      [job[w] EXCEPT !.pc = "failed", !.sees = {}]} : Moves(w, new)
    BY <1>7, <1>0, HandlerMoves
  <2>2. new.opp = job[w].opp /\ new.ver = job[w].ver /\ new.pc = "failed"
        /\ new.attempts = job[w].attempts
    BY <1>0 DEF Jobs
  <2> QED
    BY <2>1, <2>2, <1>k
<1>8. Ends(w) => Versions'
  BY <1>0, <1>n, HandlerMoves
<1> QED
  BY <1>1, <1>2, <1>3, <1>4, <1>5, <1>6, <1>7, <1>8 DEF HandlerStep

LEMMA VersionsStep == TypeInv /\ Versions /\ Counted /\ [Next]_vars => Versions'
<1> SUFFICES ASSUME TypeInv, Versions, Counted, [Next]_vars PROVE Versions'
  OBVIOUS
<1>0. Types /\ Types' /\ RowForward
  BY TypeStep, RowsForward DEF TypeInv
<1>k. \A v \in Workers : job[v] \in Jobs /\ VersionOK(job[v], row')
  <2>1. \A v \in Workers : job[v] \in Jobs /\ VersionOK(job[v], row)
    BY <1>0 DEF Types, Versions
  <2> QED
    BY <1>0, <2>1, VersionKept
<1>1. ASSUME NEW w \in Workers, HandlerStep(w) PROVE Versions'
  BY <1>0, <1>1, HandlerVersions
<1>2. ASSUME NEW w \in Workers, NEW o \in Opps, NEW c \in Contents, NEW a \in Answers,
             CommitSkills(w, o, c, a)
      PROVE  Versions'
  <2> SUFFICES ASSUME NEW v \in Workers PROVE VersionOK(job'[v], row')
    BY DEF Versions
  <2>1. /\ job'[v].opp = job[v].opp /\ job'[v].content = job[v].content
        /\ job'[v].ver = job[v].ver /\ job'[v].attempts = job[v].attempts
        /\ job'[v].pc = IF v = w THEN "attach" ELSE job[v].pc
    BY <1>2, <1>0, CommitKeeps
  <2>2. job[w].pc = "insert"
    BY <1>2 DEF CommitSkills
  <2> QED
    BY <1>k, <2>1, <2>2 DEF VersionOK
<1>3. job' = job => Versions'
  BY <1>k DEF Versions
<1>4. ASSUME NEW o \in Opps, Arrive(o) \/ \E c \in Contents : Reword(o, c)
      PROVE  job' = job
  BY <1>4 DEF Arrive, Reword
<1>5. UNCHANGED vars => job' = job
  BY DEF vars
<1> QED
  BY <1>0, <1>1, <1>2, <1>3, <1>4, <1>5, Steps

(* One row's part of what is to be shown of the rows.                       *)
RowOK(r) ==
  /\ r.attempts <= r.tries
  /\ r.state = "enriched" => IF r.degraded THEN r.tries >= MaxAttempts ELSE r.hash = {r.content}

LEMMA RowsOK == Counted /\ AttachedIsCurrent <=> \A o \in Opps : RowOK(row[o])
  BY DEF Counted, AttachedIsCurrent, RowOK

LEMMA CurrentStep ==
  ASSUME TypeInv, Versions, Counted, AttachedIsCurrent, [Next]_vars
  PROVE  Counted' /\ AttachedIsCurrent'
<1>0. Types /\ \A o \in Opps : row[o] \in Rows /\ RowOK(row[o])
  BY RowsOK DEF TypeInv, Types
<1>k. ASSUME \A o \in Opps : RowOK(row'[o]) PROVE Counted' /\ AttachedIsCurrent'
  BY <1>k DEF Counted, AttachedIsCurrent, RowOK
<1>1. ASSUME NEW o \in Opps, RowStep(o) PROVE RowOK(row'[o])
  <2>0. /\ row[o] \in Rows /\ RowOK(row[o]) /\ row \in [Opps -> Rows]
        /\ row[o].attempts \in Nat /\ row[o].tries \in Nat /\ row[o].ver \in Nat
    BY <1>0 DEF Types, Rows
  <2>s. ASSUME NEW r, row' = [row EXCEPT ![o] = r], RowOK(r) PROVE RowOK(row'[o])
    BY <2>0, <2>s
  <2>1. CASE Arrive(o)
    <3> DEFINE r == [row[o] EXCEPT !.state = "deduped"]
    <3>1. row' = [row EXCEPT ![o] = r]
      BY <1>0, <2>1, RowsAfter
    <3>2. RowOK(r)
      BY <2>0 DEF RowOK, Rows
    <3> QED
      BY <2>s, <3>1, <3>2
  <2>2. ASSUME NEW c \in Contents, Reword(o, c) PROVE RowOK(row'[o])
    <3> DEFINE r == [row[o] EXCEPT !.content = c, !.state = "fetched", !.ver = @ + 1,
                                   !.attempts = 0, !.tries = 0, !.degraded = FALSE]
    <3>1. row' = [row EXCEPT ![o] = r]
      BY <1>0, <2>2, RowsAfter
    <3>2. RowOK(r)
      BY <2>0 DEF RowOK, Rows
    <3> QED
      BY <2>s, <3>1, <3>2
  <2>3. ASSUME NEW w \in Workers, Claim(w, o) PROVE RowOK(row'[o])
    <3> DEFINE r == [row[o] EXCEPT !.attempts = @ + 1, !.tries = @ + 1]
    <3>1. row' = [row EXCEPT ![o] = r]
      BY <1>0, <2>3, RowsAfter
    <3>2. r.state # "enriched"
      BY <2>0, <2>3 DEF Claim, Rows
    <3>3. r.attempts <= r.tries
      BY <2>0 DEF RowOK, Rows
    <3> HIDE DEF r
    <3> QED
      BY <2>s, <3>1, <3>2, <3>3 DEF RowOK
  <2>4. ASSUME NEW w \in Workers, Refuse(w, o) PROVE RowOK(row'[o])
    <3> DEFINE r == [row[o] EXCEPT !.error = TRUE]
    <3>1. row' = [row EXCEPT ![o] = r]
      BY <1>0, <2>4, RowsAfter
    <3>2. RowOK(r)
      BY <2>0 DEF RowOK, Rows
    <3> QED
      BY <2>s, <3>1, <3>2
  <2>5. ASSUME NEW w \in Workers, Fail(w, o) PROVE RowOK(row'[o])
    <3> DEFINE r == FailAttempt(row[o])
    <3>1. row' = [row EXCEPT ![o] = r]
      BY <1>0, <2>5, RowsAfter
    <3>2. RowOK(r)
      BY <2>0 DEF FailAttempt, RowOK, Rows
    <3> QED
      BY <2>s, <3>1, <3>2
  <2>6. ASSUME NEW w \in Workers, Degrade(w, o) PROVE RowOK(row'[o])
    <3> DEFINE r == IF Unmoved(row[o], job[w].ver) THEN AdvanceState(row[o]) ELSE row[o]
    <3>1. row' = [row EXCEPT ![o] = r]
      BY <1>0, <2>6, RowsAfter
    <3>2. ASSUME Unmoved(row[o], job[w].ver) PROVE RowOK(AdvanceState(row[o]))
      <4>1. job[w].attempts <= row[o].tries /\ job[w].attempts >= MaxAttempts
        BY <2>6, <3>2 DEF Degrade, Unmoved, Versions, VersionOK
      <4>2. job[w].attempts \in Nat
        BY <1>0 DEF Types, Jobs
      <4>3. row[o].tries >= MaxAttempts
        BY <2>0, <4>1, <4>2, MaxAttemptsAssumption
      <4>4. LET d == AdvanceState(row[o])
            IN  d.attempts = 0 /\ d.tries = row[o].tries /\ d.degraded = TRUE
        BY <2>0 DEF AdvanceState, Rows
      <4> QED
        BY <2>0, <4>3, <4>4 DEF RowOK
    <3>3. RowOK(r)
      BY <2>0, <3>2
    <3> QED
      BY <2>s, <3>1, <3>3
  <2>7. ASSUME NEW w \in Workers, NEW c \in Contents, Attach(w, o, c) PROVE RowOK(row'[o])
    <3> DEFINE r == IF Unmoved(row[o], job[w].ver)
                    THEN AttachExtractionToOpportunity(row[o], c) ELSE row[o]
    <3>1. row' = [row EXCEPT ![o] = r]
      BY <1>0, <2>7, RowsAfter
    <3>2. ASSUME Unmoved(row[o], job[w].ver)
          PROVE  RowOK(AttachExtractionToOpportunity(row[o], c))
      <4>1. job[w].content = {row[o].content} /\ c \in job[w].content
        BY <2>7, <3>2 DEF Attach, Unmoved, Versions, VersionOK
      <4>2. c = row[o].content
        BY <4>1
      <4>3. LET d == AttachExtractionToOpportunity(row[o], c)
            IN  d.attempts = 0 /\ d.tries = row[o].tries /\ d.degraded = FALSE
                /\ d.hash = {c} /\ d.content = row[o].content
        BY <2>0 DEF AttachExtractionToOpportunity, Rows
      <4> QED
        BY <2>0, <4>2, <4>3 DEF RowOK
    <3>3. RowOK(r)
      BY <2>0, <3>2
    <3> QED
      BY <2>s, <3>1, <3>3
  <2> QED
    BY <1>1, <2>1, <2>2, <2>3, <2>4, <2>5, <2>6, <2>7 DEF RowStep
<1>2. ASSUME NEW o \in Opps, RowStep(o) PROVE \A p \in Opps : RowOK(row'[p])
  BY <1>0, <1>1, <1>2, RowSteps
<1>3. row' = row => \A o \in Opps : RowOK(row'[o])
  BY <1>0
<1> QED
  BY <1>0, <1>2, <1>3, <1>k, RowWriters

LEMMA CurrentAlways == Spec => []CurrentInv
<1>1. Init => CurrentInv
  <2> SUFFICES ASSUME Init PROVE CurrentInv
    OBVIOUS
  <2>1. Versions
    BY DEF Init, Versions, VersionOK, NoJob
  <2>2. \A o \in Opps : row[o].state = "fetched" /\ row[o].attempts = 0 /\ row[o].tries = 0
    BY DEF Init
  <2>3. Counted /\ AttachedIsCurrent
    BY <2>2 DEF Counted, AttachedIsCurrent
  <2> QED
    BY <2>1, <2>3, TypeInit DEF CurrentInv
<1>2. CurrentInv /\ [Next]_vars => CurrentInv'
  BY TypeStep, VersionsStep, CurrentStep DEF CurrentInv
<1> QED
  BY <1>1, <1>2, PTL DEF Spec

(* An enriched row carries the mark of the content it has, or that content  *)
(* has been claimed MaxAttempts times: the version guard of the last        *)
(* statement is enough, although nothing before it is guarded.              *)
THEOREM MarkedForContent == Spec => []AttachedIsCurrent
<1>1. CurrentInv => AttachedIsCurrent
  BY DEF CurrentInv
<1> QED
  BY <1>1, CurrentAlways, PTL
-----------------------------------------------------------------------------
(* Where a handler's steps lead, other than the commit of its skills.       *)
LeadsTo(w, n) ==
  /\ \/ n.opp \subseteq job[w].opp
     \/ \E o \in Opps : Claim(w, o) /\ n.opp = {o}
  /\ n.pc = "insert" => \A o \in n.opp : n.sees = skills[o]
  /\ n.pc = "attach" => n.content \cap Stubs # {}
  /\ n.pc \in {"call", "put"} =>
       /\ n.content = job[w].content
       /\ \/ job[w].pc \in {"call", "put"}
          \/ \A c \in n.content : GetExtraction(Key(w, c)) = {}

LEMMA HandlerLeads ==
  ASSUME TypeInv, NEW w \in Workers, HandlerStep(w)
  PROVE  /\ \A v \in Workers \ {w} : job'[v] = job[v]
         /\ LeadsTo(w, job'[w])
<1> DEFINE Good == (\A v \in Workers \ {w} : job'[v] = job[v]) /\ LeadsTo(w, job'[w])
<1>0. Types /\ job[w] \in Jobs
  BY DEF TypeInv, Types
<1>m. ASSUME NEW new, Moves(w, new), LeadsTo(w, new) PROVE Good
  <2>1. job'[w] = new /\ \A v \in Workers : v # w => job'[v] = job[v]
    BY <1>0, <1>m, MoveTypes
  <2> QED
    BY <1>m, <2>1
<1>n. Moves(w, NoJob) => Good
  <2>1. LeadsTo(w, NoJob)
    BY DEF LeadsTo, NoJob
  <2> QED
    BY <2>1, <1>m
<1>1. ASSUME NEW o \in Opps, Claim(w, o) PROVE Good
  <2> DEFINE new == [NoJob EXCEPT !.pc = "claimed", !.opp = {o}, !.ver = row[o].ver,
                                  !.attempts = row[o].attempts + 1]
  <2>1. Moves(w, new)
    BY <1>1, <1>0, HandlerMoves
  <2>2. new.opp = {o} /\ new.pc = "claimed"
    BY DEF NoJob
  <2> HIDE DEF new
  <2>3. LeadsTo(w, new)
    BY <1>1, <2>2 DEF LeadsTo
  <2> QED
    BY <2>1, <2>3, <1>m
<1>2. ASSUME NEW o \in Opps, GetOpportunityForEnrichment(w, o) PROVE Good
  <2> DEFINE new == [job[w] EXCEPT !.content = {row[o].content},
                     !.pc = IF row[o].content \in Stubs THEN "attach" ELSE "lookup"]
  <2>1. Moves(w, new)
    BY <1>2, <1>0, HandlerMoves
  <2>2. new.opp = job[w].opp /\ new.content = {row[o].content}
        /\ new.pc = IF row[o].content \in Stubs THEN "attach" ELSE "lookup"
    BY <1>0 DEF Jobs
  <2> HIDE DEF new
  <2>3. LeadsTo(w, new)
    BY <2>2 DEF LeadsTo
  <2> QED
    BY <2>1, <2>3, <1>m
<1>3. ASSUME NEW c \in Contents, Lookup(w, c) PROVE Good
  <2> DEFINE got == GetExtraction(Key(w, c))
             new == [job[w] EXCEPT !.got = got, !.pc = IF got = {} THEN "call" ELSE "apply"]
  <2>1. Moves(w, new)
    BY <1>3, <1>0, HandlerMoves
  <2>2. new.opp = job[w].opp /\ new.content = job[w].content
        /\ new.pc = IF got = {} THEN "call" ELSE "apply"
    BY <1>0 DEF Jobs
  <2>3. \A d \in job[w].content : d = c
    BY <1>3 DEF Lookup, TypeInv, OneJob
  <2> HIDE DEF new
  <2>4. LeadsTo(w, new)
    BY <2>2, <2>3 DEF LeadsTo
  <2> QED
    BY <2>1, <2>4, <1>m
<1>4. ASSUME NEW a \in Answers, Answer(w, a) PROVE Good
  <2> DEFINE new == [job[w] EXCEPT !.pc = "put", !.got = {a}]
  <2>1. Moves(w, new)
    BY <1>4, <1>0, HandlerMoves
  <2>2. new.opp = job[w].opp /\ new.content = job[w].content /\ new.pc = "put"
    BY <1>0 DEF Jobs
  <2>3. job[w].pc = "call"
    BY <1>4 DEF Answer
  <2> HIDE DEF new
  <2>4. LeadsTo(w, new)
    BY <2>2, <2>3 DEF LeadsTo
  <2> QED
    BY <2>1, <2>4, <1>m
<1>5. ASSUME NEW c \in Contents, NEW a \in Answers, Put(w, c, a) PROVE Good
  <2> DEFINE new == [job[w] EXCEPT !.pc = "apply"]
  <2>1. Moves(w, new)
    BY <1>5, <1>0, HandlerMoves
  <2>2. new.opp = job[w].opp /\ new.pc = "apply"
    BY <1>0 DEF Jobs
  <2> HIDE DEF new
  <2>3. LeadsTo(w, new)
    BY <2>2 DEF LeadsTo
  <2> QED
    BY <2>1, <2>3, <1>m
<1>6. ASSUME NEW o \in Opps, ReplaceOpportunitySkills(w, o) PROVE Good
  <2> DEFINE new == [job[w] EXCEPT !.pc = "insert", !.sees = skills[o]]
  <2>1. Moves(w, new)
    BY <1>6, <1>0, HandlerMoves
  <2>2. new.opp = job[w].opp /\ new.pc = "insert" /\ new.sees = skills[o]
    BY <1>0 DEF Jobs
  <2>3. \A p \in job[w].opp : p = o
    BY <1>6 DEF ReplaceOpportunitySkills, TypeInv, OneJob
  <2> HIDE DEF new
  <2>4. LeadsTo(w, new)
    BY <2>2, <2>3 DEF LeadsTo
  <2> QED
    BY <2>1, <2>4, <1>m
<1>7. ASSUME Err(w) \/ \E o \in Opps : Refuse(w, o) PROVE Good
  <2>1. PICK new \in {[job[w] EXCEPT !.pc = "failed"],
                      [job[w] EXCEPT !.pc = "failed", !.sees = {}]} : Moves(w, new)
    BY <1>7, <1>0, HandlerMoves
  <2>2. new.opp = job[w].opp /\ new.pc = "failed"
    BY <1>0 DEF Jobs
  <2>3. LeadsTo(w, new)
    BY <2>2 DEF LeadsTo
  <2> QED
    BY <2>1, <2>3, <1>m
<1>8. Ends(w) => Good
  BY <1>0, <1>n, HandlerMoves
<1> HIDE DEF Good
<1>9. Good
  BY <1>1, <1>2, <1>3, <1>4, <1>5, <1>6, <1>7, <1>8 DEF HandlerStep
<1> QED
  BY <1>9 DEF Good
-----------------------------------------------------------------------------
(* A worker about to pay for a content has not stored an answer to it, and  *)
(* nobody has paid for a content the cache knows nothing of.                *)
Paying(w, k) == job[w].pc \in {"call", "put"} /\ \E c \in job[w].content : k = Key(w, c)

PaidOnce(w, k) == cache[k] \cap Unreadable = {} =>
  /\ paid[w][k] <= 1
  /\ cache[k] = {} \/ Paying(w, k) => paid[w][k] = 0

PaidInv == \A w \in Workers, k \in Keys : PaidOnce(w, k)

LEMMA PaidStep == TypeInv /\ PaidInv /\ [Next]_vars => PaidInv'
<1> SUFFICES ASSUME TypeInv, PaidInv, [Next]_vars, NEW v \in Workers, NEW k \in Keys
             PROVE  PaidOnce(v, k)'
  BY DEF PaidInv
<1>0. Types /\ PaidOnce(v, k) /\ cache[k] \subseteq Outputs /\ paid[v][k] \in Nat
  BY DEF TypeInv, Types, PaidInv
(* A step that pays for nothing.                                            *)
<1>k. ASSUME cache' = cache, paid' = paid,
             Paying(v, k)' => Paying(v, k) \/ GetExtraction(k) = {}
      PROVE  PaidOnce(v, k)'
  <2>1. cache[k] \cap Unreadable = {} /\ GetExtraction(k) = {} => cache[k] = {}
    BY <1>0 DEF GetExtraction, Outputs
  <2> QED
    BY <1>0, <1>k, <2>1 DEF PaidOnce
<1>1. ASSUME NEW w \in Workers, NEW c \in Contents, NEW a \in Answers, Put(w, c, a)
      PROVE  PaidOnce(v, k)'
  <2>1. cache'[k] = IF k = Key(w, c) /\ cache[k] = {} THEN {a} ELSE cache[k]
    BY <1>0, <1>1, PutFills
  <2>2. cache'[k] \cap Unreadable = {} => cache[k] \cap Unreadable = {}
    BY <2>1
  <2>3. paid'[v][k] = IF v = w /\ k = Key(w, c) THEN paid[v][k] + 1 ELSE paid[v][k]
    BY <1>0, <1>1, KeyType DEF Put, Types
  <2>4. CASE v = w /\ k = Key(w, c)
    <3>1. Paying(v, k)
      BY <1>1, <2>4 DEF Put, Paying
    <3>2. ~Paying(v, k)'
      <4>1. job'[w] = [job[w] EXCEPT !.pc = "apply"] /\ job[w] \in Jobs
        BY <1>0, <1>1, HandlerMoves, MoveTypes DEF Types
      <4>2. job'[w].pc = "apply"
        BY <4>1 DEF Jobs
      <4> QED
        BY <2>4, <4>2 DEF Paying
    <3>3. cache'[k] # {}
      BY <2>1, <2>4
    <3>4. paid'[v][k] = paid[v][k] + 1
      BY <2>3, <2>4
    <3> QED
      BY <1>0, <2>2, <3>1, <3>2, <3>3, <3>4 DEF PaidOnce
  <2>5. CASE ~(v = w /\ k = Key(w, c))
    <3>1. Paying(v, k)' => Paying(v, k)
      <4>1. CASE v = w
        <5>2. job'[w] = [job[w] EXCEPT !.pc = "apply"] /\ job[w] \in Jobs
          BY <1>0, <1>1, HandlerMoves, MoveTypes DEF Types
        <5>3. job'[w].pc = "apply"
          BY <5>2 DEF Jobs
        <5> QED
          BY <4>1, <5>3 DEF Paying
      <4>2. CASE v # w
        <5>1. job'[v] = job[v]
          BY <1>0, <1>1, <4>2, HandlerMoves, MoveTypes
        <5> QED
          BY <5>1 DEF Paying
      <4> QED
        BY <4>1, <4>2
    <3>2. cache'[k] = {} => cache[k] = {}
      BY <2>1
    <3>3. paid'[v][k] = paid[v][k]
      BY <2>3, <2>5
    <3> QED
      BY <1>0, <2>2, <3>1, <3>2, <3>3 DEF PaidOnce
  <2> QED
    BY <2>4, <2>5
<1>2. ASSUME NEW w \in Workers, HandlerStep(w),
             \A c \in Contents, a \in Answers : ~Put(w, c, a)
      PROVE  PaidOnce(v, k)'
  <2>1. cache' = cache /\ paid' = paid
    BY <1>2 DEF HandlerStep, Claim, GetOpportunityForEnrichment, Refuse,
       ReplaceOpportunitySkills, Lookup, Attach, Answer, Err, Ends, Degrade, Fail, Crash
  <2>2. CASE v = w
    <3>1. LeadsTo(w, job'[w])
      BY <1>2, HandlerLeads
    <3>2. Paying(v, k)' => Paying(v, k) \/ GetExtraction(k) = {}
      BY <2>2, <3>1 DEF LeadsTo, Paying
    <3> QED
      BY <2>1, <3>2, <1>k
  <2>3. CASE v # w
    <3>1. job'[v] = job[v]
      BY <1>2, <2>3, HandlerLeads
    <3>2. Paying(v, k)' => Paying(v, k)
      BY <3>1 DEF Paying
    <3> QED
      BY <2>1, <3>2, <1>k
  <2> QED
    BY <2>2, <2>3
<1>3. ASSUME NEW w \in Workers, NEW o \in Opps, NEW c \in Contents, NEW a \in Answers,
             CommitSkills(w, o, c, a)
      PROVE  PaidOnce(v, k)'
  <2>1. /\ job'[v].content = job[v].content
        /\ job'[v].pc \in {"call", "put"} => job[v].pc \in {"call", "put"}
    <3>1. /\ job'[v].content = job[v].content
          /\ job'[v].pc = IF v = w THEN "attach" ELSE job[v].pc
      BY <1>0, <1>3, CommitKeeps
    <3> QED
      BY <3>1
  <2>2. Paying(v, k)' => Paying(v, k)
    BY <2>1 DEF Paying
  <2>3. cache' = cache /\ paid' = paid
    BY <1>3 DEF CommitSkills
  <2> QED
    BY <2>2, <2>3, <1>k
<1>4. ASSUME job' = job, cache' = cache, paid' = paid PROVE PaidOnce(v, k)'
  <2>1. Paying(v, k)' => Paying(v, k)
    BY <1>4 DEF Paying
  <2> QED
    BY <1>4, <2>1, <1>k
<1>5. ASSUME NEW o \in Opps, Arrive(o) \/ \E c \in Contents : Reword(o, c)
      PROVE  job' = job /\ cache' = cache /\ paid' = paid
  BY <1>5 DEF Arrive, Reword
<1>6. UNCHANGED vars => job' = job /\ cache' = cache /\ paid' = paid
  BY DEF vars
<1> QED
  BY <1>0, <1>1, <1>2, <1>3, <1>4, <1>5, <1>6, Steps

(* Whatever crashes, rewordings and lost races come between, a worker       *)
(* stores at most one answer for a content and a model, unless the cache    *)
(* holds what it cannot read.                                               *)
THEOREM PaidAtMostOnce == Spec => []NoWorkerPaysTwice
<1>1. Init => PaidInv
  <2> SUFFICES ASSUME Init, NEW w \in Workers, NEW k \in Keys PROVE PaidOnce(w, k)
    BY DEF PaidInv
  <2>1. paid[w][k] = 0
    BY DEF Init
  <2> QED
    BY <2>1 DEF PaidOnce
<1>2. PaidInv => NoWorkerPaysTwice
  BY DEF PaidInv, PaidOnce, NoWorkerPaysTwice
<1> QED
  BY <1>1, <1>2, PaidStep, TypeAlways, PTL DEF Spec
-----------------------------------------------------------------------------
(* A row whose lease outlives its handlers has one handler at a time, which *)
(* alone writes its skills: it deletes all there are, and what it commits   *)
(* stays until the row is marked and claimed again.                         *)
SkillsOf(o, C) == \E e \in Extractions : skills[o] = {e} /\ e.key[1] \in C

OneHandler(o) == \A v, w \in Workers : o \in job[v].opp /\ o \in job[w].opp => v = w

HandlerWrites(o) == \A w \in Workers : o \in job[w].opp =>
  /\ row[o].state # "enriched"
  /\ job[w].pc = "insert" => job[w].sees = skills[o]
  /\ job[w].pc = "attach" /\ job[w].content \cap Stubs = {} => SkillsOf(o, job[w].content)

Marked(o) == row[o].state = "enriched" /\ row[o].content \notin Stubs /\ ~row[o].degraded =>
  SkillsOf(o, {row[o].content})

SkillInv == \A o \in Opps \ Overlapping : OneHandler(o) /\ HandlerWrites(o) /\ Marked(o)

(* Steps that neither hand the row to anybody, nor write its skills, nor    *)
(* mark it.                                                                 *)
LEMMA SkillsQuiet ==
  ASSUME NEW o \in Opps, OneHandler(o), HandlerWrites(o), Marked(o),
         \A v \in Workers : o \in job'[v].opp =>
           /\ o \in job[v].opp
           /\ \/ job'[v] = job[v]
              \/ /\ job'[v].pc = "insert" => job'[v].sees = skills[o]
                 /\ job'[v].pc = "attach" => job'[v].content \cap Stubs # {},
         skills'[o] = skills[o],
         \/ row'[o].state # "enriched"
         \/ /\ row'[o].state = row[o].state /\ row'[o].content = row[o].content
            /\ row'[o].degraded = row[o].degraded
  PROVE  OneHandler(o)' /\ HandlerWrites(o)' /\ Marked(o)'
<1>1. OneHandler(o)'
  BY DEF OneHandler
<1>2. Marked(o)'
  BY DEF Marked, SkillsOf
<1>3. HandlerWrites(o)'
  <2> SUFFICES ASSUME NEW v \in Workers, o \in job'[v].opp
               PROVE  /\ row'[o].state # "enriched"
                      /\ job'[v].pc = "insert" => job'[v].sees = skills'[o]
                      /\ job'[v].pc = "attach" /\ job'[v].content \cap Stubs = {} =>
                           SkillsOf(o, job[v].content)'
    BY DEF HandlerWrites
  <2>1. CASE job'[v] = job[v]
    BY <2>1 DEF HandlerWrites, SkillsOf
  <2>2. CASE job'[v] # job[v]
    BY <2>2 DEF HandlerWrites
  <2> QED
    BY <2>1, <2>2
<1> QED
  BY <1>1, <1>2, <1>3

LEMMA SkillStep == CurrentInv /\ SkillInv /\ [Next]_vars => SkillInv'
<1> SUFFICES ASSUME CurrentInv, SkillInv, [Next]_vars, NEW o \in Opps \ Overlapping
             PROVE  OneHandler(o)' /\ HandlerWrites(o)' /\ Marked(o)'
  BY DEF SkillInv
<1> DEFINE Good == OneHandler(o)' /\ HandlerWrites(o)' /\ Marked(o)'
<1>0. /\ TypeInv /\ Types /\ Versions
      /\ OneHandler(o) /\ HandlerWrites(o) /\ Marked(o)
      /\ o \in Opps /\ o \notin Overlapping /\ row[o] \in Rows
  BY DEF CurrentInv, TypeInv, Types, SkillInv
<1>1. ASSUME NEW p \in Opps, \/ Arrive(p)
                             \/ \E c \in Contents : Reword(p, c)
      PROVE  Good
  <2>1. job' = job /\ skills' = skills
    BY <1>1 DEF Arrive, Reword
  <2>2. \/ row'[o].state # "enriched"
        \/ /\ row'[o].state = row[o].state /\ row'[o].content = row[o].content
           /\ row'[o].degraded = row[o].degraded
    <3>1. CASE p # o
      BY <1>0, <1>1, <3>1, RowSteps DEF RowStep
    <3>2. CASE p = o /\ Arrive(p)
      <4>1. row' = [row EXCEPT ![o] = [row[o] EXCEPT !.state = "deduped"]]
        BY <1>0, <3>2, RowsAfter
      <4> QED
        BY <1>0, <4>1 DEF Types, Rows
    <3>3. ASSUME NEW c \in Contents, p = o, Reword(o, c) PROVE row'[o].state # "enriched"
      <4>1. row' = [row EXCEPT ![o] = [row[o] EXCEPT !.content = c, !.state = "fetched",
              !.ver = @ + 1, !.attempts = 0, !.tries = 0, !.degraded = FALSE]]
        BY <1>0, <3>3, RowsAfter
      <4> QED
        BY <1>0, <4>1 DEF Types, Rows
    <3> QED
      BY <1>1, <3>1, <3>2, <3>3
  <2> QED
    BY <1>0, <2>1, <2>2, SkillsQuiet
<1>2. ASSUME NEW w \in Workers, HandlerStep(w) PROVE Good
  <2>0. /\ \A v \in Workers \ {w} : job'[v] = job[v]
        /\ LeadsTo(w, job'[w])
    BY <1>0, <1>2, HandlerLeads
  <2>1. skills' = skills
    BY <1>2 DEF HandlerStep, Claim, GetOpportunityForEnrichment, Refuse,
       ReplaceOpportunitySkills, Lookup, Answer, Put, Err, Ends, Attach, Degrade, Fail, Crash
  <2>2. ASSUME \A p \in Opps : ~Claim(w, p) PROVE job'[w].opp \subseteq job[w].opp
    BY <2>0, <2>2 DEF LeadsTo
  <2>3. job'[w].opp \subseteq job[w].opp =>
          \A v \in Workers : o \in job'[v].opp =>
            /\ o \in job[v].opp
            /\ \/ job'[v] = job[v]
               \/ /\ job'[v].pc = "insert" => job'[v].sees = skills[o]
                  /\ job'[v].pc = "attach" => job'[v].content \cap Stubs # {}
    BY <2>0 DEF LeadsTo
  <2>4. ASSUME NEW p \in Opps, Claim(w, p) PROVE Good
    <3> DEFINE new == [NoJob EXCEPT !.pc = "claimed", !.opp = {p}, !.ver = row[p].ver,
                                    !.attempts = row[p].attempts + 1]
    <3>1. Moves(w, new)
      BY <1>0, <2>4, HandlerMoves
    <3>9. new.opp = {p} /\ new.pc = "claimed"
      BY DEF NoJob
    <3> HIDE DEF new
    <3>2. job'[w].opp = {p} /\ job'[w].pc = "claimed"
      BY <1>0, <3>1, <3>9, MoveTypes
    <3>0. /\ row'[o].state = row[o].state /\ row'[o].content = row[o].content
          /\ row'[o].degraded = row[o].degraded
      <4>1. row' = [row EXCEPT ![p] = [row[p] EXCEPT !.attempts = @ + 1, !.tries = @ + 1]]
        BY <1>0, <2>4, RowsAfter
      <4> QED
        BY <1>0, <4>1 DEF Types, Rows
    <3>3. CASE p = o
      <4>1. row[o].state = "deduped" /\ \A v \in Workers : o \notin job[v].opp
        BY <1>0, <2>4, <3>3 DEF Claim
      <4>2. \A v \in Workers : o \in job'[v].opp => v = w
        BY <2>0, <4>1
      <4>3. OneHandler(o)'
        BY <4>2 DEF OneHandler
      <4>4. HandlerWrites(o)'
        BY <3>0, <3>2, <4>1, <4>2 DEF HandlerWrites
      <4>5. Marked(o)'
        BY <3>0, <4>1 DEF Marked
      <4> QED
        BY <4>3, <4>4, <4>5
    <3>4. CASE p # o
      <4>1. \A v \in Workers : o \in job'[v].opp => o \in job[v].opp /\ job'[v] = job[v]
        BY <2>0, <3>2, <3>4
      <4> QED
        BY <1>0, <2>1, <3>0, <4>1, SkillsQuiet
    <3> QED
      BY <3>3, <3>4
(* A step after which no row is newly published with its extraction.        *)
  <2>5. ASSUME \A q \in Opps : ~Claim(w, q),
               \/ row'[o].state # "enriched"
               \/ /\ row'[o].state = row[o].state /\ row'[o].content = row[o].content
                  /\ row'[o].degraded = row[o].degraded
        PROVE  Good
    BY <1>0, <2>1, <2>2, <2>3, <2>5, SkillsQuiet
(* The handler has the row, and leaves it marked.                           *)
  <2>m. ASSUME o \in job[w].opp, job'[w] = NoJob, Marked(o)' PROVE Good
    <3>1. \A v \in Workers : o \notin job'[v].opp
      BY <1>0, <2>0, <2>m DEF OneHandler, NoJob
    <3> QED
      BY <2>m, <3>1 DEF OneHandler, HandlerWrites
  <2>6. ASSUME NEW p \in Opps, Refuse(w, p) PROVE Good
    <3>1. \A q \in Opps : ~Claim(w, q)
      BY <2>6 DEF Refuse, Claim
    <3>2. row' = [row EXCEPT ![p] = [row[p] EXCEPT !.error = TRUE]]
      BY <1>0, <2>6, RowsAfter
    <3>3. /\ row'[o].state = row[o].state /\ row'[o].content = row[o].content
          /\ row'[o].degraded = row[o].degraded
      BY <1>0, <3>2 DEF Types, Rows
    <3> QED
      BY <2>5, <3>1, <3>3
  <2>7. ASSUME NEW p \in Opps, NEW c \in Contents, Attach(w, p, c) PROVE Good
    <3>1. \A q \in Opps : ~Claim(w, q)
      BY <2>7 DEF Attach, Claim
    <3>2. CASE p # o \/ ~Unmoved(row[p], job[w].ver)
      <4>1. row'[o] = row[o]
        <5>1. row' = [row EXCEPT ![p] = IF Unmoved(row[p], job[w].ver)
                THEN AttachExtractionToOpportunity(row[p], c) ELSE row[p]]
          BY <1>0, <2>7, RowsAfter
        <5> QED
          BY <1>0, <3>2, <5>1 DEF Types
      <4> QED
        BY <2>5, <3>1, <4>1
    <3>3. CASE p = o /\ Unmoved(row[o], job[w].ver)
      <4>1. o \in job[w].opp /\ job[w].pc = "attach"
        BY <2>7, <3>3 DEF Attach
      <4>2. job[w].content = {row[o].content}
        BY <1>0, <3>3, <4>1 DEF Unmoved, Versions, VersionOK
      <4>3. job'[w] = NoJob
        BY <1>0, <2>7, HandlerMoves, MoveTypes DEF Ends
      <4>5. row'[o].content = row[o].content
        <5>1. row'[o] = AttachExtractionToOpportunity(row[o], c)
          <6>1. row' = [row EXCEPT ![o] = IF Unmoved(row[o], job[w].ver)
                  THEN AttachExtractionToOpportunity(row[o], c) ELSE row[o]]
            BY <1>0, <2>7, <3>3, RowsAfter
          <6> QED
            BY <1>0, <3>3, <6>1 DEF Types
        <5> QED
          BY <1>0, <5>1 DEF AttachExtractionToOpportunity, Rows
      <4>6. row[o].content \notin Stubs => SkillsOf(o, {row[o].content})
        BY <1>0, <4>1, <4>2 DEF HandlerWrites
      <4>7. Marked(o)'
        BY <2>1, <4>5, <4>6 DEF Marked, SkillsOf
      <4> QED
        BY <2>m, <4>1, <4>3, <4>7
    <3> QED
      BY <3>2, <3>3
  <2>8. ASSUME NEW p \in Opps, Degrade(w, p) PROVE Good
    <3>1. \A q \in Opps : ~Claim(w, q)
      BY <2>8 DEF Degrade, Claim
    <3>2. CASE p # o \/ ~Unmoved(row[p], job[w].ver)
      <4>1. row'[o] = row[o]
        <5>1. row' = [row EXCEPT ![p] =
                IF Unmoved(row[p], job[w].ver) THEN AdvanceState(row[p]) ELSE row[p]]
          BY <1>0, <2>8, RowsAfter
        <5> QED
          BY <1>0, <3>2, <5>1 DEF Types
      <4> QED
        BY <2>5, <3>1, <4>1
    <3>3. CASE p = o /\ Unmoved(row[o], job[w].ver)
      <4>1. o \in job[w].opp
        BY <2>8, <3>3 DEF Degrade
      <4>2. job'[w] = NoJob
        BY <1>0, <2>8, HandlerMoves, MoveTypes DEF Ends
      <4>3. row'[o].degraded = TRUE
        <5>1. row'[o] = AdvanceState(row[o])
          <6>1. row' = [row EXCEPT ![o] =
                  IF Unmoved(row[o], job[w].ver) THEN AdvanceState(row[o]) ELSE row[o]]
            BY <1>0, <2>8, <3>3, RowsAfter
          <6> QED
            BY <1>0, <3>3, <6>1 DEF Types
        <5> QED
          BY <1>0, <5>1 DEF AdvanceState, Rows
      <4>4. Marked(o)'
        BY <4>3 DEF Marked
      <4> QED
        BY <2>m, <4>1, <4>2, <4>4
    <3> QED
      BY <3>2, <3>3
  <2>9. ASSUME NEW p \in Opps, Fail(w, p) PROVE Good
    <3>1. \A q \in Opps : ~Claim(w, q)
      BY <2>9 DEF Fail, Claim
    <3>2. row' = [row EXCEPT ![p] = FailAttempt(row[p])]
      BY <1>0, <2>9, RowsAfter
    <3>3. \/ row'[o].state # "enriched"
          \/ /\ row'[o].state = row[o].state /\ row'[o].content = row[o].content
             /\ row'[o].degraded = row[o].degraded
      <4>1. CASE p # o
        BY <1>0, <3>2, <4>1 DEF Types
      <4>2. CASE p = o
        <5>1. row'[o] = FailAttempt(row[o])
          BY <1>0, <3>2, <4>2 DEF Types
        <5> QED
          BY <1>0, <5>1 DEF FailAttempt, Rows
      <4> QED
        BY <4>1, <4>2
    <3> QED
      BY <2>5, <3>1, <3>3
  <2>10. ASSUME row' = row, \A p \in Opps : ~Claim(w, p) PROVE Good
    BY <2>5, <2>10
  <2>11. \/ row' = row /\ \A p \in Opps : ~Claim(w, p)
         \/ \E p \in Opps : \/ Claim(w, p) \/ Refuse(w, p) \/ Degrade(w, p) \/ Fail(w, p)
                           \/ \E c \in Contents : Attach(w, p, c)
    BY <1>2 DEF HandlerStep, Claim, GetOpportunityForEnrichment, ReplaceOpportunitySkills,
       Lookup, Answer, Put, Err, Ends, Crash
  <2> QED
    BY <2>4, <2>6, <2>7, <2>8, <2>9, <2>10, <2>11
<1>3. ASSUME NEW w \in Workers, NEW p \in Opps, NEW c \in Contents, NEW a \in Answers,
             CommitSkills(w, p, c, a)
      PROVE  Good
  <2>0. \A v \in Workers :
          /\ job'[v].opp = job[v].opp /\ job'[v].content = job[v].content
          /\ job'[v].pc = IF v = w THEN "attach" ELSE job[v].pc
    BY <1>0, <1>3, CommitKeeps
  <2>1. p \in job[w].opp /\ job[w].pc = "insert" /\ c \in job[w].content /\ row' = row
    BY <1>3 DEF CommitSkills
  <2>2. CASE p = o
    <3> DEFINE e == [key |-> Key(w, c), answer |-> a]
    <3>1. e \in Extractions /\ e.key[1] = c
      BY KeyType DEF Extractions, Key
    <3>2. job[w].sees = skills[o]
      BY <1>0, <2>1, <2>2 DEF HandlerWrites
    <3>3. skills'[o] = {e}
      BY <1>0, <1>3, <2>2, <3>2 DEF CommitSkills, InsertOpportunitySkills, Types
    <3> HIDE DEF e
    <3>4. SkillsOf(o, job[w].content)'
      BY <2>0, <2>1, <3>1, <3>3 DEF SkillsOf
    <3>5. OneHandler(o)'
      BY <1>0, <2>0 DEF OneHandler
    <3>6. \A v \in Workers : o \in job'[v].opp => v = w
      BY <1>0, <2>0, <2>1, <2>2 DEF OneHandler
    <3>7. row[o].state # "enriched"
      BY <1>0, <2>1, <2>2 DEF HandlerWrites
    <3>8. HandlerWrites(o)'
      BY <2>0, <2>1, <3>4, <3>6, <3>7 DEF HandlerWrites
    <3>9. Marked(o)'
      BY <2>1, <3>7 DEF Marked
    <3> QED
      BY <3>5, <3>8, <3>9
  <2>3. CASE p # o
    <3>1. o \notin job[w].opp
      BY <1>0, <2>1, <2>3 DEF TypeInv, OneJob
    <3>2. ASSUME NEW v \in Workers, o \in job[v].opp PROVE job'[v] = job[v]
      <4>1. v # w /\ p \notin job[v].opp
        BY <1>0, <2>3, <3>1, <3>2 DEF TypeInv, OneJob
      <4> QED
        BY <1>0, <1>3, <4>1, CommitMoves
    <3>3. skills'[o] = skills[o]
      BY <1>0, <1>3, <2>3 DEF CommitSkills, Types
    <3> QED
      BY <1>0, <2>0, <2>1, <3>2, <3>3, SkillsQuiet
  <2> QED
    BY <2>2, <2>3
<1>4. CASE UNCHANGED vars
  BY <1>0, <1>4, SkillsQuiet DEF vars
<1> QED
  BY <1>0, <1>1, <1>2, <1>3, <1>4, Steps

(* As long as a lease outlives its handler, an enriched row that is no stub *)
(* and was not published without its extraction has the skills of one       *)
(* extraction, of the content it has.                                       *)
THEOREM SkillsAreOfContent == Spec => []SkillsFollowContent
<1>1. Init => SkillInv
  <2> SUFFICES ASSUME Init, NEW o \in Opps PROVE OneHandler(o) /\ HandlerWrites(o) /\ Marked(o)
    BY DEF SkillInv
  <2>1. row[o].state = "fetched" /\ \A w \in Workers : job[w].opp = {}
    BY DEF Init, NoJob
  <2> QED
    BY <2>1 DEF OneHandler, HandlerWrites, Marked
<1>2. SkillInv => SkillsFollowContent
  <2> SUFFICES ASSUME SkillInv, NEW o \in Opps \ Overlapping, row[o].state = "enriched",
                      row[o].content \notin Stubs, ~row[o].degraded
               PROVE  /\ Cardinality(skills[o]) = 1
                      /\ \A e \in skills[o] : e.key[1] = row[o].content
    BY DEF SkillsFollowContent
  <2>0. SkillsOf(o, {row[o].content})
    BY DEF SkillInv, Marked
  <2>1. PICK e \in Extractions : skills[o] = {e} /\ e.key[1] = row[o].content
    BY <2>0 DEF SkillsOf
  <2>2. Cardinality({e}) = 1
    BY FS_Singleton
  <2>3. Cardinality(skills[o]) = 1
    BY <2>1, <2>2
  <2>4. \A f \in skills[o] : f.key[1] = row[o].content
    BY <2>1
  <2> QED
    BY <2>3, <2>4
<1> QED
  BY <1>1, <1>2, SkillStep, CurrentAlways, PTL DEF Spec
=============================================================================
