----------------------------- MODULE MCPipeline -----------------------------
(***************************************************************************)
(* Instances of Pipeline for TLC: which workers serve which state.         *)
(***************************************************************************)
EXTENDS Pipeline, TLC

CONSTANTS w1, w2, w4, w5, w6, w7

(* The state of each worker a cfg may choose: one worker per state, as      *)
(* runWorkers starts them, and a second process's enricher.     *)
Deployment ==
  LET serves == w1 :> "parsed" @@ w2 :> "normalized" @@ w4 :> "deduped" @@
                w5 :> "deduped" @@ w6 :> "enriched" @@ w7 :> "embedded"
  IN [w \in Workers |-> serves[w]]
=============================================================================
