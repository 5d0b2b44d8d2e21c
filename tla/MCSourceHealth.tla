--------------------------- MODULE MCSourceHealth ---------------------------
(***************************************************************************)
(* Instances of SourceHealth for TLC: what one poll may count.             *)
(***************************************************************************)
EXTENDS SourceHealth, TLC

Report(n, usable, located) ==
  [postings |-> n, usable |-> usable, fill |-> [f \in Fields |-> located]]

(* A board of four postings: complete, half lost, its field mostly empty;   *)
(* and no posting at all.                                                   *)
SomeReports == {NoPostings, Report(4, 4, 4), Report(4, 2, 4), Report(4, 4, 1)}
=============================================================================
