--------------------------- MODULE PipelineStates ---------------------------
(***************************************************************************)
(* The states of a posting and the progression between them, declared once *)
(* as in internal/pipeline/state.go.                                       *)
(***************************************************************************)

(* happyPath: the successor of every state in which work remains.           *)
HappyPath ==
  [discovered |-> "fetched",    fetched    |-> "parsed",
   parsed     |-> "normalized", normalized |-> "deduped",
   deduped    |-> "enriched",   enriched   |-> "embedded",
   embedded   |-> "ready"]

WorkStates == {"discovered", "fetched", "parsed", "normalized",
               "deduped", "enriched", "embedded"}
Terminal == {"ready", "failed_permanent"}
States == WorkStates \cup Terminal

(* Degradable: when the work done in this state fails for good, the row is  *)
(* published without its result.                                            *)
Degradable == {"deduped", "enriched"}
=============================================================================
