-------------------------------- MODULE Feed --------------------------------
(***************************************************************************)
(* The list of opportunities, page by page: opportunity/service.go, over   *)
(* ListOpportunities. A client asks for a page, gets a cursor with it, and *)
(* asks for the next one with that, while ingestion, the pipeline and the  *)
(* deduper go on changing what there is to list. The cursor is all that    *)
(* the server keeps of a client, and the client keeps it.                  *)
(*                                                                         *)
(* A row is what the query looks at. Its facet stands for role, work mode  *)
(* and place, which the filter tests. Ids are ordered like uuids, which is *)
(* not the order of arrival. A cursor that cannot be parsed and a page     *)
(* size below one are refused and change nothing.                          *)
(***************************************************************************)
EXTENDS Integers, FiniteSets

CONSTANTS
  Ids,               \* a finite set of numbers
  Times,             \* of first_seen_at, in microseconds
  Facets, Readers,
  Sizes,             \* the page sizes that clients ask for, 0: the default
  DefaultPageSize, MaxPageSize,
  MaxEvents          \* bound: changes of rows

ASSUME IdsAssumption == Ids \subseteq Nat /\ IsFiniteSet(Ids) /\ Times \subseteq Nat
ASSUME SizesAssumption == /\ Sizes \subseteq Nat
                          /\ DefaultPageSize \in Nat \ {0} /\ MaxPageSize \in Nat \ {0}
ASSUME MaxEventsAssumption == MaxEvents \in Nat

VARIABLES
  row,      \* Ids -> Rows: opportunity
  reader,   \* Readers -> Walks: a client going through the list
  events

vars == <<row, reader, events>>

Rows == [state : {"none", "work", "ready"},    \* pipeline_state; none: not inserted yet
         seen : Times, facet : Facets, closed : BOOLEAN, merged : BOOLEAN]

(* Of a client, what it asks for and the cursor, if any; the rest is        *)
(* history: the rows it was given, those it was given again, and those that *)
(* could have been listed all the time since it got its first page.         *)
Walks == [pc : {"none", "more", "done"}, filter : SUBSET Facets, size : Nat,
          cursor : SUBSET (Nat \X Ids),
          got : SUBSET Ids, twice : SUBSET Ids, stayed : SUBSET Ids]

TypeOK ==
  /\ row \in [Ids -> Rows]
  /\ reader \in [Readers -> Walks]
  /\ events \in 0..MaxEvents
-----------------------------------------------------------------------------
Key(o) == <<row[o].seen, o>>

(* The comparison of (first_seen_at, id).                                   *)
Older(k, l) == k[1] < l[1] \/ (k[1] = l[1] /\ k[2] < l[2])

Listable(r, filter) == r.state = "ready" /\ ~r.closed /\ ~r.merged /\ r.facet \in filter

Listed(rows, filter) == {o \in Ids : Listable(rows[o], filter)}

(* RFC 3339 with nine digits of a second, and a column that has six. X_Y is *)
(* X with a fault in it.                                                    *)
Nanos == 1000
encodeCursor(k) == <<k[1] * Nanos, k[2]>>
decodeCursor(c) == <<c[1] \div Nanos, c[2]>>

After_OrAt(cursor, o) == \A c \in cursor : ~Older(decodeCursor(c), Key(o))
After(cursor, o) == \A c \in cursor : Older(Key(o), decodeCursor(c))

(* ORDER BY first_seen_at DESC, id DESC LIMIT n.                            *)
Newest(S, n) == {o \in S : Cardinality({p \in S : Older(Key(o), Key(p))}) < n}

ListOpportunities(filter, cursor, n) ==
  Newest({o \in Listed(row, filter) : After(cursor, o)}, n)

PageSize(n) == IF n = 0 THEN DefaultPageSize ELSE IF n > MaxPageSize THEN MaxPageSize ELSE n

(* A full page comes with a cursor to the last of its rows.                 *)
Last(P) == {o \in P : \A p \in P : ~Older(Key(p), Key(o))}
NextCursor_Asked(P, n) ==
  IF Cardinality(P) = n THEN {encodeCursor(Key(o)) : o \in Last(P)} ELSE {}
NextCursor(P, n) ==
  IF Cardinality(P) = PageSize(n) THEN {encodeCursor(Key(o)) : o \in Last(P)} ELSE {}
-----------------------------------------------------------------------------
NewWalk == [pc |-> "none", filter |-> {}, size |-> 0, cursor |-> {}, got |-> {},
            twice |-> {}, stayed |-> {}]

Init ==
  /\ row \in [Ids -> {r \in Rows : ~r.closed /\ ~r.merged}]
  /\ reader = [r \in Readers |-> NewWalk]
  /\ events = 0

(* List.                                                                    *)
GivePage(r, walk) ==
  LET P == ListOpportunities(walk.filter, walk.cursor, PageSize(walk.size))
      next == NextCursor(P, walk.size)
  IN reader' = [reader EXCEPT ![r] =
       [walk EXCEPT !.pc = IF next = {} THEN "done" ELSE "more", !.cursor = next,
                    !.got = @ \cup P, !.twice = @ \cup (walk.got \cap P)]]

FirstPage(r, f, n) ==
  /\ reader[r].pc = "none"
  /\ GivePage(r, [NewWalk EXCEPT !.filter = f, !.size = n, !.stayed = Listed(row, f)])
  /\ UNCHANGED <<row, events>>

NextPage(r) ==
  /\ reader[r].pc = "more"
  /\ GivePage(r, reader[r])
  /\ UNCHANGED <<row, events>>

(* The other processes change a row.                                        *)
Change(o, new) ==
  /\ events < MaxEvents /\ events' = events + 1
  /\ row' = [row EXCEPT ![o] = new]
  /\ reader' = [r \in Readers |->
       [reader[r] EXCEPT !.stayed = @ \cap Listed(row', reader[r].filter)]]

(* first_seen_at is when the inserting transaction began: it may commit     *)
(* after others that began later.                                           *)
Insert(o, t) == row[o].state = "none" /\ Change(o, [row[o] EXCEPT !.state = "work", !.seen = t])

(* The pipeline derives the facets, and publishes the row in the end.       *)
Publish(o, f) ==
  /\ row[o].state = "work" /\ ~row[o].merged
  /\ Change(o, [row[o] EXCEPT !.state = "ready", !.facet = f])

(* UpdateOpportunityFromPosting: the posting was reworded.                  *)
Reword_Reseen(o) == row[o].state # "none" /\
  \E t \in Times : Change(o, [row[o] EXCEPT !.state = "work", !.closed = FALSE, !.seen = t])
Reword(o) == row[o].state # "none" /\ Change(o, [row[o] EXCEPT !.state = "work", !.closed = FALSE])

(* CloseMissedOpportunities, MarkOpportunitySeen, MarkMerged.               *)
Close(o) == row[o].state # "none" /\ ~row[o].closed /\ Change(o, [row[o] EXCEPT !.closed = TRUE])
MarkSeen(o) == row[o].closed /\ Change(o, [row[o] EXCEPT !.closed = FALSE])
Merge(o) == row[o].state # "none" /\ ~row[o].merged /\ Change(o, [row[o] EXCEPT !.merged = TRUE])

RowStep(o) ==
  \/ Reword(o) \/ Close(o) \/ MarkSeen(o) \/ Merge(o)
  \/ \E t \in Times : Insert(o, t)
  \/ \E f \in Facets : Publish(o, f)

Next ==
  \/ \E o \in Ids : RowStep(o)
  \/ \E r \in Readers : NextPage(r)
  \/ \E r \in Readers, f \in SUBSET Facets \ {{}}, n \in Sizes : FirstPage(r, f, n)

Spec == Init /\ [][Next]_vars

(* A client that wants to see everything keeps asking.                      *)
FairSpec == Spec /\ \A r \in Readers : WF_vars(NextPage(r))
-----------------------------------------------------------------------------
(* "Keyset pagination, never OFFSET: ingestion never stops, so an offset    *)
(* skips or duplicates rows between pages". No row is given twice, even if  *)
(* it was closed, reworded or published again between two pages ...         *)
NoRowTwice == \A r \in Readers : reader[r].twice = {}

(* ... and a client that reached the end was given every row that could be  *)
(* listed all the time, whatever came and went around it.                   *)
NoRowSkipped == \A r \in Readers : reader[r].pc = "done" => reader[r].stayed \subseteq reader[r].got

(* Each cursor is behind the one before, so that a client does reach the    *)
(* end, although rows may appear where it has yet to go.                    *)
WalksEnd == \A r \in Readers : reader[r].pc = "more" ~> reader[r].pc = "done"
=============================================================================
