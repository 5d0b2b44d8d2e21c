------------------------------ MODULE MCIngest ------------------------------
(***************************************************************************)
(* Instances of Ingest for TLC: which boards list which jobs, and which    *)
(* postings dedupe takes for duplicates.                                   *)
(***************************************************************************)
EXTENDS Ingest, TLC

CONSTANTS s1, j1, j2

(* Any board may list any job.                                              *)
AllJobs == [s \in Sources |-> Jobs]

(* The second job of the board is a repost of the first.                    *)
Repost == {<< <<s1, j2>>, <<s1, j1>> >>}
=============================================================================
