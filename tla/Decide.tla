------------------------------- MODULE Decide -------------------------------
(***************************************************************************)
(* internal/dedupe/decide.go: whether two postings are the same one, and   *)
(* whether to merge them without a human. What a posting may lack is a set *)
(* with at most one member. A SimHash is the set of its one bits, so that  *)
(* {} is the zero that stands for no signature, and a geographic scope the *)
(* set of its countries. A title is the set of its tokens without stop     *)
(* words, and their number when repeats count. A URL is what normalizeURL  *)
(* leaves of it. Confidence is in hundredths: in float32 the distances on  *)
(* either side of the floor, 3 and 4, fall on the side they do here.       *)
(***************************************************************************)
EXTENDS Integers, FiniteSets

CONSTANTS MaxHamming, MinTitleTokensForFuzzy, MinAutoMergeConfidence

ASSUME ThresholdsAssumption ==
  MaxHamming \in Nat /\ MinTitleTokensForFuzzy \in Nat /\ MinAutoMergeConfidence \in Nat

Hamming(a, b) == Cardinality((a \ b) \cup (b \ a))

geoConflict(a, b) == a.geo # {} /\ b.geo # {} /\ a.geo # b.geo

(* The shorter title's tokens are among the longer's.                       *)
titlesAgree(a, b) ==
  LET shorter == IF b.count < a.count THEN b ELSE a
      longer == IF b.count < a.count THEN a ELSE b
  IN a.count > 0 /\ b.count > 0 /\ shorter.tokens \subseteq longer.tokens

titleIsSpecific(t) == t.count >= MinTitleTokensForFuzzy

(* Near-identical text, under titles that agree and say something.          *)
NearText(a, b) ==
  /\ a.sim # {} /\ b.sim # {}
  /\ titlesAgree(a.title, b.title) /\ titleIsSpecific(a.title) /\ titleIsSpecific(b.title)
  /\ \/ Hamming(a.sim, b.sim) = 0
     \/ Hamming(a.sim, b.sim) <= MaxHamming /\ a.long /\ b.long

SameBy(reason, confidence) == [same |-> TRUE, reason |-> reason, confidence |-> confidence]
Different == [same |-> FALSE, reason |-> "", confidence |-> 0]

Decide(a, b) ==
  IF a.company = {} \/ a.company # b.company THEN Different
  ELSE IF a.ats # {} /\ a.ats = b.ats THEN SameBy("exact_ats", 100)
  ELSE IF geoConflict(a, b) THEN Different
  ELSE IF a.hash # {} /\ a.hash = b.hash THEN SameBy("content_hash", 99)
  ELSE IF a.url # {} /\ a.url = b.url THEN SameBy("apply_url", 97)
  ELSE IF NearText(a, b) THEN SameBy("simhash", 90 - 5 * Hamming(a.sim, b.sim))
  ELSE Different

AutoApply(v) == v.same /\ v.confidence >= MinAutoMergeConfidence
=============================================================================
