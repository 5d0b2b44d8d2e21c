------------------------------- MODULE Erasure -------------------------------
(***************************************************************************)
(* Erasing one user while the user's other requests run: profile/erasure.go*)
(* and profile/service.go, over the object storage of pkg/blob. An erasure *)
(* deletes the objects under the user's prefix, then the rows table by     *)
(* table and last the user row, recording the outcome of each step, and    *)
(* then counts what is left. It is not a transaction: any step may fail,   *)
(* and the recording of it too, and the erasure goes on.                   *)
(*                                                                         *)
(* A resume is one upload, with the object of the file and that of its     *)
(* text. Every table refers to app_user with ON DELETE CASCADE. The four   *)
(* locations that are not in use yet, recorded as not_applicable, count    *)
(* for nothing and are left out.                                           *)
(***************************************************************************)
EXTENDS Integers, Sequences, FiniteSets

CONSTANTS
  Uploads,      \* the resumes the user uploads
  Erasures,     \* the erasure requests of the user
  Written,      \* the tables that the user's requests write
  MaxFaults     \* bound: failing statements and calls, crashes

Tables == {"profile_skills", "profile", "refresh_tokens", "sessions", "user_tokens",
           "user_row"}

ASSUME WrittenAssumption == Written \subseteq Tables \ {"user_row"}
ASSUME MaxFaultsAssumption == MaxFaults \in Nat

(* The order of the deletes.                                                *)
Deletes == <<"resume_rows", "profile_skills", "profile", "refresh_tokens", "sessions",
             "user_tokens", "user_row">>
Locations == Tables \cup {"resume_rows", "object_storage"}

Objects == Uploads \X {"file", "text"}

VARIABLES
  tables,   \* SUBSET Tables: those with a row of the user
  resumes,  \* SUBSET Uploads: those with a row in resume
  objects,  \* SUBSET Objects: what is under the user's prefix
  upload,   \* Uploads -> where UploadResume is
  era,      \* Erasures -> Eras
  late,     \* SUBSET Uploads: not over when some erasure listed the prefix, or
            \* left by an erasure whose deletes failed
  faults

erasureVars == <<tables, resumes, objects, upload, era, late, faults>>

Eras == [pc : {"new", "list", "objects", "rows", "traces", "count", "complete", "ended"},
         next : 1..Len(Deletes),
         todo : SUBSET Objects,                  \* listed and not deleted yet
         step : [Locations -> {"none", "done", "failed"}],
         lost : BOOLEAN,                         \* an outcome was not recorded
         traces : Nat, left : Nat,               \* TracesRemaining, ObjectsRemaining
         counted : BOOLEAN,                      \* neither count failed
         after : SUBSET Uploads,                 \* not over when the objects were counted
         completed : BOOLEAN]                    \* completed_at

ErasureTypeOK ==
  /\ tables \subseteq Tables
  /\ resumes \subseteq Uploads
  /\ objects \subseteq Objects
  /\ upload \in [Uploads -> {"new", "put", "create", "orphan", "extract", "text", "ended"}]
  /\ era \in [Erasures -> Eras]
  /\ late \subseteq Uploads
  /\ faults \in 0..MaxFaults

User == "user_row" \in tables
Running == {u \in Uploads : upload[u] # "ended"}
-----------------------------------------------------------------------------
(* The statements of profile.sql. X_Y is X with a fault in it.              *)
CreateResume_NoReference(u) == resumes' = resumes \cup {u}
CreateResume(u) == User /\ resumes' = resumes \cup {u}

(* What is left of the tables and of the resumes by the delete at a         *)
(* location: sessions take their refresh tokens along, the user everything. *)
TablesWithout(loc) ==
  IF loc = "user_row" THEN {}
  ELSE tables \ ({loc} \cup IF loc = "sessions" THEN {"refresh_tokens"} ELSE {})
ResumesWithout(loc) == IF loc \in {"resume_rows", "user_row"} THEN {} ELSE resumes

CountUserTraces_NotTheUser == Cardinality(tables \ {"user_row"}) + Cardinality(resumes)
CountUserTraces == Cardinality(tables) + Cardinality(resumes)

(* The request stays open only for a step that was recorded as failed.      *)
CompleteErasureRequest_Always(s) == TRUE
CompleteErasureRequest(s) == \A loc \in Locations : s[loc] # "failed"

RecordErasureStep_Pending(r, loc, status) == [r EXCEPT !.step[loc] = "pending"]
RecordErasureStep(r, loc, status) == [r EXCEPT !.step[loc] = status]
-----------------------------------------------------------------------------
ErasureInit ==
  /\ tables \in {T \cup {"user_row"} : T \in SUBSET Written}
  /\ resumes = {} /\ objects = {}
  /\ upload = [u \in Uploads |-> "new"]
  /\ era = [e \in Erasures |->
       [pc |-> "new", next |-> 1, todo |-> {}, step |-> [loc \in Locations |-> "none"],
        lost |-> FALSE, traces |-> 0, left |-> 0, counted |-> TRUE, after |-> {},
        completed |-> FALSE]]
  /\ late = {}
  /\ faults = 0

Fault == faults < MaxFaults /\ faults' = faults + 1

(* Save, and the requests that write the other tables: the references to    *)
(* the user hold them to a user that exists.                                *)
Write(t) ==
  /\ User /\ t \in Written \ tables
  /\ tables' = tables \cup {t}
  /\ UNCHANGED <<resumes, objects, upload, era, late, faults>>

(* UploadResume, of a user who was authenticated when it began.             *)
BeginUpload(u) ==
  /\ upload[u] = "new" /\ User
  /\ upload' = [upload EXCEPT ![u] = "put"]
  /\ UNCHANGED <<tables, resumes, objects, era, late, faults>>

PutFile(u) ==
  /\ upload[u] = "put"
  /\ objects' = objects \cup {<<u, "file">>}
  /\ upload' = [upload EXCEPT ![u] = "create"]
  /\ UNCHANGED <<tables, resumes, era, late, faults>>

CreateRow(u) ==
  /\ upload[u] = "create"
  /\ CreateResume(u)
  /\ upload' = [upload EXCEPT ![u] = "extract"]
  /\ UNCHANGED <<tables, objects, era, late, faults>>

(* The insert fails: for want of a user, or for another reason.             *)
CreateRowFails(u) ==
  /\ upload[u] = "create"
  /\ IF User THEN Fault ELSE UNCHANGED faults
  /\ upload' = [upload EXCEPT ![u] = "orphan"]
  /\ UNCHANGED <<tables, resumes, objects, era, late>>

DeleteOrphan(u) ==
  /\ upload[u] = "orphan"
  /\ objects' = objects \ {<<u, "file">>}
  /\ upload' = [upload EXCEPT ![u] = "ended"]
  /\ UNCHANGED <<tables, resumes, era, late, faults>>

(* A text that cannot be extracted: FailResume, and that is all.            *)
NoText(u) ==
  /\ upload[u] = "extract"
  /\ upload' = [upload EXCEPT ![u] = "ended"]
  /\ UNCHANGED <<tables, resumes, objects, era, late, faults>>

PutText(u) ==
  /\ upload[u] = "extract"
  /\ objects' = objects \cup {<<u, "text">>}
  /\ upload' = [upload EXCEPT ![u] = "text"]
  /\ UNCHANGED <<tables, resumes, era, late, faults>>

(* SetResumeText updates the row, or no row: that is not an error.          *)
SetResumeText(u) ==
  /\ upload[u] = "text"
  /\ upload' = [upload EXCEPT ![u] = "ended"]
  /\ UNCHANGED <<tables, resumes, objects, era, late, faults>>

(* A call fails or the process dies: nothing done so far is undone.         *)
UploadFails(u) ==
  /\ upload[u] \notin {"new", "ended"} /\ Fault
  /\ upload' = [upload EXCEPT ![u] = "ended"]
  /\ UNCHANGED <<tables, resumes, objects, era, late>>

(* The request refers to no user, so one that was authenticated before an   *)
(* earlier erasure may still be recorded after it.                          *)
CreateErasureRequest(e) ==
  /\ era[e].pc = "new"
  /\ era' = [era EXCEPT ![e].pc = "list"]
  /\ UNCHANGED <<tables, resumes, objects, upload, late, faults>>

(* DeletePrefix lists the objects, and deletes them one by one ...          *)
ListPrefix_Files(e) ==
  /\ era[e].pc = "list"
  /\ era' = [era EXCEPT ![e].pc = "objects", ![e].todo = {x \in objects : x[2] = "file"}]
  /\ late' = late \cup Running
  /\ UNCHANGED <<tables, resumes, objects, upload, faults>>
ListPrefix(e) ==
  /\ era[e].pc = "list"
  /\ era' = [era EXCEPT ![e].pc = "objects", ![e].todo = objects]
  /\ late' = late \cup Running
  /\ UNCHANGED <<tables, resumes, objects, upload, faults>>

DeleteObject(e, x) ==
  /\ era[e].pc = "objects" /\ x \in era[e].todo
  /\ objects' = objects \ {x}
  /\ era' = [era EXCEPT ![e].todo = @ \ {x}]
  /\ UNCHANGED <<tables, resumes, upload, late, faults>>

(* step: the outcome is recorded, or the failure to record it is logged.    *)
Step(e, r, loc, status) ==
  \/ era' = [era EXCEPT ![e] = RecordErasureStep(r, loc, status)] /\ UNCHANGED faults
  \/ era' = [era EXCEPT ![e] = [r EXCEPT !.lost = TRUE]] /\ Fault

PrefixDeleted(e) ==
  /\ era[e].pc = "objects" /\ era[e].todo = {}
  /\ Step(e, [era[e] EXCEPT !.pc = "rows"], "object_storage", "done")
  /\ UNCHANGED <<tables, resumes, objects, upload, late>>

(* ... or a call fails, and what it had not deleted stays. Two faults may   *)
(* be needed here, for the call and for the record.                         *)
PrefixFails(e) ==
  /\ era[e].pc \in {"list", "objects"} /\ faults < MaxFaults
  /\ \/ /\ faults' = faults + 1
        /\ era' = [era EXCEPT ![e] = RecordErasureStep([@ EXCEPT !.pc = "rows", !.todo = {}],
                                                       "object_storage", "failed")]
     \/ /\ faults' = faults + 2 /\ faults' <= MaxFaults
        /\ era' = [era EXCEPT ![e].pc = "rows", ![e].todo = {}, ![e].lost = TRUE]
  /\ late' = late \cup Running \cup {x[1] : x \in objects}
  /\ UNCHANGED <<tables, resumes, objects, upload>>

(* The delete at the next location, and where to go from there.             *)
Advanced(r) == IF r.next = Len(Deletes) THEN [r EXCEPT !.pc = "traces"]
               ELSE [r EXCEPT !.next = @ + 1]

DeleteRows(e, loc) ==
  /\ era[e].pc = "rows" /\ loc = Deletes[era[e].next]
  /\ tables' = TablesWithout(loc)
  /\ resumes' = ResumesWithout(loc)
  /\ Step(e, Advanced(era[e]), loc, "done")
  /\ UNCHANGED <<objects, upload, late>>

DeleteRowsFails(e, loc) ==
  /\ era[e].pc = "rows" /\ loc = Deletes[era[e].next] /\ faults < MaxFaults
  /\ \/ /\ faults' = faults + 1
        /\ era' = [era EXCEPT ![e] = RecordErasureStep(Advanced(@), loc, "failed")]
     \/ /\ faults' = faults + 2 /\ faults' <= MaxFaults
        /\ era' = [era EXCEPT ![e] = [Advanced(@) EXCEPT !.lost = TRUE]]
  /\ UNCHANGED <<tables, resumes, objects, upload, late>>

(* Verify by counting; a count that fails leaves the zero it started with.  *)
CountTraces(e) ==
  /\ era[e].pc = "traces"
  /\ \/ era' = [era EXCEPT ![e].pc = "count", ![e].traces = CountUserTraces]
        /\ UNCHANGED faults
     \/ era' = [era EXCEPT ![e].pc = "count", ![e].counted = FALSE] /\ Fault
  /\ UNCHANGED <<tables, resumes, objects, upload, late>>

CountPrefix(e) ==
  /\ era[e].pc = "count"
  /\ \/ era' = [era EXCEPT ![e].pc = "complete", ![e].left = Cardinality(objects),
                           ![e].after = Running]
        /\ UNCHANGED faults
     \/ era' = [era EXCEPT ![e].pc = "complete", ![e].counted = FALSE] /\ Fault
  /\ UNCHANGED <<tables, resumes, objects, upload, late>>

Complete(e) ==
  /\ era[e].pc = "complete"
  /\ era' = [era EXCEPT ![e].pc = "ended",
                        ![e].completed = CompleteErasureRequest(era[e].step)]
  /\ UNCHANGED <<tables, resumes, objects, upload, late, faults>>

(* The process dies; no later run resumes the request.                      *)
Crash(e) ==
  /\ era[e].pc \notin {"new", "ended"} /\ Fault
  /\ era' = [era EXCEPT ![e].pc = "ended", ![e].todo = {}]
  /\ UNCHANGED <<tables, resumes, objects, upload, late>>

Upload(u) == \/ BeginUpload(u) \/ PutFile(u) \/ CreateRow(u) \/ CreateRowFails(u)
             \/ DeleteOrphan(u) \/ NoText(u) \/ PutText(u) \/ SetResumeText(u)
             \/ UploadFails(u)

Erase(e) == \/ CreateErasureRequest(e) \/ ListPrefix(e) \/ PrefixDeleted(e) \/ PrefixFails(e)
            \/ \E x \in era[e].todo : DeleteObject(e, x)
            \/ \E loc \in Locations : DeleteRows(e, loc) \/ DeleteRowsFails(e, loc)
            \/ CountTraces(e) \/ CountPrefix(e) \/ Complete(e) \/ Crash(e)

ErasureNext ==
  \/ \E t \in Tables : Write(t)
  \/ \E u \in Uploads : Upload(u)
  \/ \E e \in Erasures : Erase(e)

ErasureSpec == ErasureInit /\ [][ErasureNext]_erasureVars
-----------------------------------------------------------------------------
(* Once the user row is gone no row of the user is left and none comes      *)
(* back, whichever requests of the user were still in progress.             *)
GoneStaysGone == ~User => tables = {} /\ resumes = {}

(* "A crash mid-run never orphans data that a later run cannot find": when  *)
(* the user is gone, so that nobody can ask for another erasure, the only   *)
(* objects left are those of uploads that were not over when the prefix was *)
(* listed, and those whose own deletion failed.                             *)
NothingStranded == ~User => \A x \in objects : x[1] \in late

(* "The request is only marked complete when every one of them succeeded":  *)
(* unless an outcome could not be recorded, the rows and the objects of a   *)
(* completed request are gone.                                              *)
CompleteMeansErased == \A e \in Erasures :
  era[e].completed /\ ~era[e].lost =>
    tables = {} /\ resumes = {} /\ \A x \in objects : x[1] \in late

(* "Verify by counting, not by trusting": even if failures went unrecorded, *)
(* a report that is complete and counts nothing, both counts having worked, *)
(* is of a user without rows, and without objects other than those of       *)
(* uploads that were not over yet.                                          *)
VerifiedMeansErased == \A e \in Erasures :
  era[e].pc = "ended" /\ era[e].completed /\ era[e].counted
  /\ era[e].traces = 0 /\ era[e].left = 0 =>
    tables = {} /\ resumes = {} /\ \A x \in objects : x[1] \in era[e].after
=============================================================================
