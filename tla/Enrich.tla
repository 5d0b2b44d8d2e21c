------------------------------- MODULE Enrich -------------------------------
(***************************************************************************)
(* Extraction and its cache: stages/enrich.go and enrich/service.go. A     *)
(* worker claims a row, reads its content, looks for the extraction of     *)
(* that content, pays the model for one if there is none, stores it, and   *)
(* replaces the skills of the row in a transaction of its own before the   *)
(* row is advanced. Only the last statement looks at the version. When the *)
(* handler fails, the worker puts the row back, parks it, or, once the     *)
(* attempts are spent, publishes it without an extraction. A content       *)
(* stands for its hash. Skills are known by the extraction they come from. *)
(***************************************************************************)
EXTENDS Integers, FiniteSets

CONSTANTS
  Opps, Contents, Workers, Models,
  ModelOf,       \* Workers -> Models: the model a process is deployed with
  Stubs,         \* contents too short to be worth a call
  Answers,       \* what the model may answer that Validate accepts
  Unreadable,    \* what an earlier release stored and this one cannot parse
  Overlapping,   \* rows whose lease may run out before their handler ends
  MaxAttempts,   \* claims before a failing row is published as it is, or parked
  MaxEvents      \* bound: rewordings, crashes, failing statements and calls

ASSUME ModelsAssumption == ModelOf \in [Workers -> Models]
ASSUME StubsAssumption == Stubs \subseteq Contents /\ Overlapping \subseteq Opps
ASSUME AnswersAssumption == Answers \cap Unreadable = {}
ASSUME MaxAttemptsAssumption == MaxAttempts \in Nat \ {0}
ASSUME MaxEventsAssumption == MaxEvents \in Nat

VARIABLES
  row,     \* Opps -> Rows: opportunity
  skills,  \* Opps -> SUBSET Extractions: opportunity_skill
  cache,   \* Keys -> SUBSET Outputs, at most one: extraction
  job,     \* Workers -> Jobs: the handler in memory
  paid,    \* Workers -> Keys -> Nat: usable answers a worker has paid for and stored
  events

vars == <<row, skills, cache, job, paid, events>>

Keys == Contents \X Models    \* the prompt and the schema are those of the build
Outputs == Answers \cup Unreadable
Extractions == [key : Keys, answer : Answers]

States == {"fetched", "deduped", "enriched", "failed_permanent"}

Rows == [content : Contents, state : States, ver : Nat, attempts : Nat,
         hash : SUBSET Contents,        \* extraction_content_hash
         error : BOOLEAN,               \* extraction_error
         tries : Nat,                   \* history: claims of the present content
         degraded : BOOLEAN]            \* history: published without its extraction

Jobs == [pc : {"none", "claimed", "lookup", "call", "put", "apply", "insert", "attach",
               "failed"},
         opp : SUBSET Opps, ver : Nat, attempts : Nat,
         content : SUBSET Contents,
         got : SUBSET Answers,
         sees : SUBSET Extractions]     \* the skill rows its open transaction deletes

NoJob == [pc |-> "none", opp |-> {}, ver |-> 0, attempts |-> 0, content |-> {},
          got |-> {}, sees |-> {}]

TypeOK ==
  /\ row \in [Opps -> Rows]
  /\ skills \in [Opps -> SUBSET Extractions]
  /\ cache \in [Keys -> SUBSET Outputs] /\ \A k \in Keys : Cardinality(cache[k]) <= 1
  /\ job \in [Workers -> Jobs]
  /\ paid \in [Workers -> [Keys -> Nat]]
  /\ events \in 0..MaxEvents

Key(w, c) == <<c, ModelOf[w]>>
-----------------------------------------------------------------------------
(* The statements of extraction.sql. X_Y is X with a fault in it.           *)
GetExtraction(k) == cache[k] \cap Answers

PutExtraction_Never(k, a) == cache
PutExtraction(k, a) == [cache EXCEPT ![k] = IF @ = {} THEN {a} ELSE @]

(* The rows a transaction saw when it deleted go, unless another            *)
(* transaction has deleted them first; what others inserted since stays.    *)
InsertOpportunitySkills(now, sees, e) == (now \ sees) \cup {e}

AttachExtractionToOpportunity(r, c) ==
  [r EXCEPT !.state = "enriched", !.ver = @ + 1, !.attempts = 0, !.hash = {c},
            !.error = FALSE, !.degraded = FALSE]

(* The guard of AttachExtractionToOpportunity and of AdvanceState.          *)
Unmoved_AnyVersion(r, ver) == r.state = "deduped"
Unmoved(r, ver) == r.ver = ver /\ r.state = "deduped"

(* The statements of pipeline.sql that end a failed handler.                *)
AdvanceState(r) ==
  [r EXCEPT !.state = "enriched", !.ver = @ + 1, !.attempts = 0, !.degraded = TRUE]

FailAttempt(r) ==
  [r EXCEPT !.state = IF r.attempts >= MaxAttempts THEN "failed_permanent" ELSE @]
-----------------------------------------------------------------------------
Init ==
  /\ row \in [Opps -> [content : Contents, state : {"fetched"}, ver : {0}, attempts : {0},
                      hash : {{}}, error : {FALSE}, tries : {0}, degraded : {FALSE}]]
  /\ skills = [o \in Opps |-> {}]
  /\ cache \in [Keys -> {{}} \cup {{u} : u \in Unreadable}]
  /\ job = [w \in Workers |-> NoJob]
  /\ paid = [w \in Workers |-> [k \in Keys |-> 0]]
  /\ events = 0

Event == events < MaxEvents /\ events' = events + 1

(* A poll finds the posting reworded.                                       *)
Reword(o, c) ==
  /\ c # row[o].content
  /\ row' = [row EXCEPT ![o].content = c, ![o].state = "fetched", ![o].ver = @ + 1,
                        ![o].attempts = 0, ![o].tries = 0, ![o].degraded = FALSE]
  /\ Event
  /\ UNCHANGED <<skills, cache, job, paid>>

(* The stages before this one.                                              *)
Arrive(o) ==
  /\ row[o].state = "fetched"
  /\ row' = [row EXCEPT ![o].state = "deduped"]
  /\ UNCHANGED <<skills, cache, job, paid, events>>

Claim(w, o) ==
  /\ job[w].pc = "none" /\ row[o].state = "deduped"
  /\ o \in Overlapping \/ \A v \in Workers : o \notin job[v].opp
  /\ row' = [row EXCEPT ![o].attempts = @ + 1, ![o].tries = @ + 1]
  /\ job' = [job EXCEPT ![w] = [NoJob EXCEPT !.pc = "claimed", !.opp = {o},
                               !.ver = row[o].ver, !.attempts = row[o].attempts + 1]]
  /\ UNCHANGED <<skills, cache, paid, events>>

(* Handle reads the row, which may have changed since the claim. A stub is  *)
(* attached as it is, with whatever skills the row has.                     *)
GetOpportunityForEnrichment(w, o) ==
  /\ job[w].pc = "claimed" /\ o \in job[w].opp
  /\ job' = [job EXCEPT ![w].content = {row[o].content},
       ![w].pc = IF row[o].content \in Stubs THEN "attach" ELSE "lookup"]
  /\ UNCHANGED <<row, skills, cache, paid, events>>

(* Extract: the lookup. What cannot be parsed is a miss.                    *)
Lookup(w, c) ==
  /\ job[w].pc = "lookup" /\ c \in job[w].content
  /\ job' = [job EXCEPT ![w].got = GetExtraction(Key(w, c)),
       ![w].pc = IF GetExtraction(Key(w, c)) = {} THEN "call" ELSE "apply"]
  /\ UNCHANGED <<row, skills, cache, paid, events>>

(* The call answers with something Validate accepts ...                     *)
Answer(w, a) ==
  /\ job[w].pc = "call"
  /\ job' = [job EXCEPT ![w].pc = "put", ![w].got = {a}]
  /\ UNCHANGED <<row, skills, cache, paid, events>>

(* ... or with something it refuses: recorded on the row, never stored, and *)
(* the handler returns the error.                                           *)
Refuse(w, o) ==
  /\ job[w].pc = "call" /\ o \in job[w].opp
  /\ row' = [row EXCEPT ![o].error = TRUE]
  /\ job' = [job EXCEPT ![w].pc = "failed"]
  /\ Event
  /\ UNCHANGED <<skills, cache, paid>>

Put(w, c, a) ==
  /\ job[w].pc = "put" /\ c \in job[w].content /\ a \in job[w].got
  /\ cache' = PutExtraction(Key(w, c), a)
  /\ paid' = [paid EXCEPT ![w][Key(w, c)] = @ + 1]
  /\ job' = [job EXCEPT ![w].pc = "apply"]
  /\ UNCHANGED <<row, skills, events>>

(* ApplySkills: delete what the row has ...                                 *)
ReplaceOpportunitySkills_None(w, o) ==
  /\ job[w].pc = "apply" /\ o \in job[w].opp
  /\ job' = [job EXCEPT ![w].pc = "insert"]
  /\ UNCHANGED <<row, skills, cache, paid, events>>
ReplaceOpportunitySkills(w, o) ==
  /\ job[w].pc = "apply" /\ o \in job[w].opp
  /\ job' = [job EXCEPT ![w].pc = "insert", ![w].sees = skills[o]]
  /\ UNCHANGED <<row, skills, cache, paid, events>>

(* ... insert the worker's own answer, and commit. Whoever saw the rows     *)
(* deleted here has waited for this commit, and finds them gone.            *)
CommitSkills(w, o, c, a) ==
  /\ job[w].pc = "insert" /\ o \in job[w].opp /\ c \in job[w].content /\ a \in job[w].got
  /\ skills' = [skills EXCEPT ![o] =
       InsertOpportunitySkills(@, job[w].sees, [key |-> Key(w, c), answer |-> a])]
  /\ job' = [v \in Workers |->
       IF v = w THEN [job[v] EXCEPT !.pc = "attach", !.sees = {}]
       ELSE IF o \in job[v].opp THEN [job[v] EXCEPT !.sees = @ \ job[w].sees]
       ELSE job[v]]
  /\ UNCHANGED <<row, cache, paid, events>>

(* advance: the row as it was claimed, or ErrVersionConflict.               *)
Attach(w, o, c) ==
  /\ job[w].pc = "attach" /\ o \in job[w].opp /\ c \in job[w].content
  /\ row' = [row EXCEPT ![o] =
       IF Unmoved(@, job[w].ver) THEN AttachExtractionToOpportunity(@, c) ELSE @]
  /\ job' = [job EXCEPT ![w] = NoJob]
  /\ UNCHANGED <<skills, cache, paid, events>>

(* A statement or the call fails: the transaction rolls back and the        *)
(* handler returns the error.                                               *)
Err(w) ==
  /\ job[w].pc \notin {"none", "failed"}
  /\ job' = [job EXCEPT ![w].pc = "failed", ![w].sees = {}]
  /\ Event
  /\ UNCHANGED <<row, skills, cache, paid>>

(* The worker's answer to an error. Once the attempts are spent, the row is *)
(* advanced without the extraction, if it is as it was claimed ...          *)
Degrade(w, o) ==
  /\ job[w].pc = "failed" /\ o \in job[w].opp /\ job[w].attempts >= MaxAttempts
  /\ row' = [row EXCEPT ![o] = IF Unmoved(@, job[w].ver) THEN AdvanceState(@) ELSE @]
  /\ job' = [job EXCEPT ![w] = NoJob]
  /\ UNCHANGED <<skills, cache, paid, events>>

(* ... until then it is put back, whatever it is now: parked, if others     *)
(* have claimed it in the meantime and the attempts are spent.              *)
Fail(w, o) ==
  /\ job[w].pc = "failed" /\ o \in job[w].opp /\ job[w].attempts < MaxAttempts
  /\ row' = [row EXCEPT ![o] = FailAttempt(@)]
  /\ job' = [job EXCEPT ![w] = NoJob]
  /\ UNCHANGED <<skills, cache, paid, events>>

(* A crash, or the worker's answer to the error fails: nothing is written.  *)
Crash(w) ==
  /\ job[w].pc # "none"
  /\ job' = [job EXCEPT ![w] = NoJob]
  /\ Event
  /\ UNCHANGED <<row, skills, cache, paid>>

Handle(w) ==
  \/ \E o \in job[w].opp :
       \/ GetOpportunityForEnrichment(w, o) \/ Refuse(w, o) \/ ReplaceOpportunitySkills(w, o)
       \/ Degrade(w, o) \/ Fail(w, o)
       \/ \E c \in job[w].content :
            \/ Attach(w, o, c)
            \/ \E a \in job[w].got : CommitSkills(w, o, c, a)
  \/ \E c \in job[w].content : Lookup(w, c) \/ \E a \in job[w].got : Put(w, c, a)
  \/ \E a \in Answers : Answer(w, a)

Next ==
  \/ \E o \in Opps : Arrive(o) \/ \E c \in Contents : Reword(o, c)
  \/ \E w \in Workers : Handle(w) \/ Err(w) \/ Crash(w) \/ \E o \in Opps : Claim(w, o)

Spec == Init /\ [][Next]_vars
-----------------------------------------------------------------------------
(* "PutExtraction: idempotent on the cache key": two workers that miss      *)
(* together both store an answer, and the first is the one that stays, for  *)
(* good. Every later reader of the same content gets the same skills.       *)
CacheIsPermanent == [][\A k \in Keys : cache[k] # {} => cache'[k] = cache[k]]_cache

(* "Because the extraction is cached, the retry costs nothing": whatever    *)
(* crashes, rewordings and lost races come between, no worker stores a      *)
(* second answer for a content it has paid for, unless what the cache holds *)
(* cannot be read: such a row is never replaced.                            *)
NoWorkerPaysTwice == \A w \in Workers, k \in Keys :
  cache[k] \cap Unreadable = {} => paid[w][k] <= 1

(* An enriched row carries the mark of the content it has: a late handler   *)
(* that has read other content may replace its skills, and never marks it.  *)
(* The one exception is the row published without its extraction, and that  *)
(* needs its present content to have been claimed MaxAttempts times.        *)
AttachedIsCurrent == \A o \in Opps : row[o].state = "enriched" =>
  IF row[o].degraded THEN row[o].tries >= MaxAttempts ELSE row[o].hash = {row[o].content}

(* As long as a lease outlives its handler, an enriched row has the skills  *)
(* of exactly one extraction, of its present content, even if rewordings    *)
(* and failures made earlier handlers write others. It may not be the one   *)
(* in the cache, if the worker lost the race to store it. A stub keeps old  *)
(* skills, and so does a row published without its extraction.              *)
SkillsFollowContent == \A o \in Opps \ Overlapping :
  row[o].state = "enriched" /\ row[o].content \notin Stubs /\ ~row[o].degraded =>
    /\ Cardinality(skills[o]) = 1
    /\ \A e \in skills[o] : e.key[1] = row[o].content
=============================================================================
