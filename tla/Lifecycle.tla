----------------------------- MODULE Lifecycle -----------------------------
(***************************************************************************)
(* What the pipeline promises about one canonical posting, with the queue  *)
(* left out: a posting moves one stage at a time along the happy path, is  *)
(* parked, is merged into another posting or starts again because its      *)
(* content changed - and nothing else ever happens to it.                  *)
(*                                                                         *)
(* The states are the pipeline_state values of the opportunity table.      *)
(***************************************************************************)
EXTENDS Naturals, PipelineStates

CONSTANT Opps              \* the canonical postings (rows of opportunity)

VARIABLES stage,           \* Opps -> States: pipeline_state
          gone,            \* the rows with merged_into set
          edition          \* Opps -> Nat: how often the content changed

lvars == <<stage, gone, edition>>

LInit ==
  /\ stage \in [Opps -> WorkStates]
  /\ gone = {}
  /\ edition = [o \in Opps |-> 0]

(* One stage completes. A row that was merged away has left the pipeline.   *)
LAdvance(o) ==
  /\ o \notin gone
  /\ stage[o] \in WorkStates
  /\ stage' = [stage EXCEPT ![o] = HappyPath[stage[o]]]
  /\ UNCHANGED <<gone, edition>>

(* The attempts of a stage are spent.                                       *)
LPark(o) ==
  /\ stage[o] \in WorkStates
  /\ stage' = [stage EXCEPT ![o] = "failed_permanent"]
  /\ UNCHANGED <<gone, edition>>

(* The row becomes a duplicate of another one, which is itself canonical.   *)
LMerge(o) ==
  /\ o \notin gone
  /\ \E p \in Opps \ {o} : p \notin gone
  /\ gone' = gone \cup {o}
  /\ UNCHANGED <<stage, edition>>

(* The source published new content: the row starts again at 'parsed'.      *)
LReingest(o) ==
  /\ stage' = [stage EXCEPT ![o] = "parsed"]
  /\ edition' = [edition EXCEPT ![o] = @ + 1]
  /\ UNCHANGED gone

LNext == \E o \in Opps : LAdvance(o) \/ LPark(o) \/ LMerge(o) \/ LReingest(o)

LSpec == LInit /\ [][LNext]_lvars
=============================================================================
