------------------------------ MODULE MCDedupe ------------------------------
(***************************************************************************)
(* Instances of Dedupe for TLC: a few postings of one company.             *)
(***************************************************************************)
EXTENDS Dedupe, TLC

Title == [tokens |-> {"senior", "backend", "engineer"}, count |-> 3]

(* "b" is of another block than "a". "far" is of the block of "b" and       *)
(* differs from it by five bits of the signature: a pair for review.        *)
TheDerived == [t \in Texts |->
  [block |-> IF t = "a" THEN "k1" ELSE "k2", sim |-> IF t = "far" THEN 1..7 ELSE {1, 2},
   title |-> Title, geo |-> {"IT"}]]
TheBody == [t \in Texts |-> [company |-> {"co"}, hash |-> {t}, long |-> TRUE]]

(* The oldest posting stays as it is, the second may move to the block of   *)
(* "b" and back, and the youngest may say anything.                         *)
YoungerChange == [p \in Rows |-> CASE p = 1 -> {"a"} [] p = N -> Texts
                                   [] OTHER -> Texts \cap {"a", "b"}]
NoUrl == [p \in Rows |-> {}]
=============================================================================
