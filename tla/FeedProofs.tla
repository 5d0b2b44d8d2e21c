----------------------------- MODULE FeedProofs -----------------------------
(***************************************************************************)
(* Proofs about Feed, for any rows, times, clients and page sizes, and any *)
(* number of changes: keyset pagination neither repeats nor skips a row.   *)
(***************************************************************************)
EXTENDS Feed, TLAPS, FiniteSetTheorems, WellFoundedInduction

-----------------------------------------------------------------------------
(* (first_seen_at, id) is a total order of the rows.                        *)
Pairs == Nat \X Nat

LEMMA OlderTransitive ==
  \A k, l, m \in Pairs : Older(k, l) /\ Older(l, m) => Older(k, m)
  BY DEF Older, Pairs

LEMMA OlderIrreflexive == \A k, l \in Pairs : Older(k, l) => ~Older(l, k)
  BY DEF Older, Pairs

LEMMA KeyTypes ==
  ASSUME row \in [Ids -> Rows], NEW o \in Ids
  PROVE  Key(o) \in Pairs /\ row[o].seen \in Nat /\ Key(o)[1] = row[o].seen /\ Key(o)[2] = o
  BY IdsAssumption DEF Key, Pairs, Rows

LEMMA OlderTotal ==
  ASSUME row \in [Ids -> Rows], NEW o \in Ids, NEW p \in Ids, o # p
  PROVE  Older(Key(o), Key(p)) \/ Older(Key(p), Key(o))
<1>1. Key(o)[1] \in Nat /\ Key(p)[1] \in Nat /\ Key(o)[2] = o /\ Key(p)[2] = p
  BY KeyTypes
<1>2. o \in Nat /\ p \in Nat
  BY IdsAssumption
<1> QED
  BY <1>1, <1>2 DEF Older

(* A cursor comes back as the key it was made from: the column's six digits *)
(* of a second are among the nine that are written.                         *)
LEMMA CursorRoundTrip ==
  ASSUME row \in [Ids -> Rows], NEW o \in Ids
  PROVE  /\ encodeCursor(Key(o)) \in Nat \X Ids
         /\ decodeCursor(encodeCursor(Key(o))) = Key(o)
<1> DEFINE t == row[o].seen
<1>1. t \in Nat /\ Key(o) = <<t, o>>
  BY KeyTypes DEF Key
<1>2. t * 1000 \in Nat /\ (t * 1000) \div 1000 = t
  BY <1>1
<1> QED
  BY <1>1, <1>2 DEF encodeCursor, decodeCursor, Nanos

LEMMA DecodedType == \A c \in Nat \X Ids : decodeCursor(c) \in Pairs
<1> SUFFICES ASSUME NEW t \in Nat, NEW o \in Ids PROVE decodeCursor(<<t, o>>) \in Pairs
  OBVIOUS
<1>1. t \div 1000 \in Nat /\ o \in Nat
  BY IdsAssumption
<1> QED
  BY <1>1 DEF decodeCursor, Pairs, Nanos
-----------------------------------------------------------------------------
(* The page of a set of rows.                                               *)
Rank(S, o) == Cardinality({p \in S : Older(Key(o), Key(p))})

LEMMA SmallestNumber ==
  ASSUME NEW T \in SUBSET Nat, T # {}
  PROVE  \E x \in T : \A y \in T : x <= y
<1>1. PICK x \in T : \A y \in T : ~(<<y, x>> \in OpToRel(<, Nat))
  BY WFMin, NatLessThanWellFounded
<1>2. \A y \in T : ~(y < x)
  BY <1>1 DEF OpToRel
<1> QED
  BY <1>2

LEMMA RankTypes ==
  ASSUME NEW S \in SUBSET Ids, NEW o \in Ids
  PROVE  IsFiniteSet(S) /\ Rank(S, o) \in Nat
         /\ IsFiniteSet({p \in S : Older(Key(o), Key(p))})
<1>1. IsFiniteSet(S)
  BY FS_Subset, IdsAssumption
<1>2. IsFiniteSet({p \in S : Older(Key(o), Key(p))})
  BY FS_Subset, <1>1
<1> QED
  BY <1>1, <1>2, FS_CardinalityType DEF Rank

(* Older rows have the higher rank.                                         *)
LEMMA RankGrows ==
  ASSUME row \in [Ids -> Rows], NEW S \in SUBSET Ids, NEW o \in Ids, NEW p \in S,
         Older(Key(o), Key(p))
  PROVE  Rank(S, p) < Rank(S, o)
<1> DEFINE A == {q \in S : Older(Key(o), Key(q))}
           B == {q \in S : Older(Key(p), Key(q))}
<1>1. B \subseteq A
  BY OlderTransitive, KeyTypes
<1>2. p \in A /\ p \notin B
  BY OlderIrreflexive, KeyTypes
<1>3. IsFiniteSet(A) /\ Rank(S, o) \in Nat /\ Rank(S, p) \in Nat
  BY RankTypes
<1>4. Cardinality(B) <= Cardinality(A) /\ (Cardinality(A) = Cardinality(B) => A = B)
  BY <1>1, <1>3, FS_Subset
<1>5. Rank(S, o) = Cardinality(A) /\ Rank(S, p) = Cardinality(B)
  BY DEF Rank
<1>6. Cardinality(A) # Cardinality(B)
  BY <1>2, <1>4
<1> QED
  BY <1>3, <1>4, <1>5, <1>6

LEMMA NewestByRank ==
  ASSUME NEW S, NEW n
  PROVE  Newest(S, n) = {o \in S : Rank(S, o) < n}
  BY DEF Newest, Rank

(* What is newer than a row of the page is on the page.                     *)
LEMMA PageIsPrefix ==
  ASSUME row \in [Ids -> Rows], NEW S \in SUBSET Ids, NEW n \in Nat,
         NEW o \in Newest(S, n), NEW p \in S, Older(Key(o), Key(p))
  PROVE  p \in Newest(S, n)
<1>1. o \in S /\ Rank(S, o) < n
  BY NewestByRank
<1>2. Rank(S, p) < Rank(S, o)
  BY <1>1, RankGrows
<1>3. Rank(S, o) \in Nat /\ Rank(S, p) \in Nat
  BY <1>1, RankTypes
<1>4. Rank(S, p) < n
  BY <1>1, <1>2, <1>3
<1> QED
  BY <1>4, NewestByRank

(* A page that is not empty has one last row ...                            *)
LEMMA PageHasLast ==
  ASSUME row \in [Ids -> Rows], NEW S \in SUBSET Ids, NEW n \in Nat, Newest(S, n) # {}
  PROVE  \E l \in Newest(S, n) :
           /\ Last(Newest(S, n)) = {l}
           /\ \A p \in Newest(S, n) : p # l => Older(Key(l), Key(p))
<1> DEFINE P == Newest(S, n)
           T == {n - Rank(S, o) : o \in P}
<1>1. P \subseteq S /\ P \subseteq Ids /\ \A o \in P : Rank(S, o) \in Nat /\ Rank(S, o) < n
  BY NewestByRank, RankTypes
<1>2. T \subseteq Nat /\ T # {}
  BY <1>1
<1>3. PICK x \in T : \A y \in T : x <= y
  BY <1>2, SmallestNumber
<1>4. PICK l \in P : x = n - Rank(S, l)
  BY <1>3
<1>5. \A o \in P : Rank(S, o) <= Rank(S, l)
  <2> SUFFICES ASSUME NEW o \in P PROVE Rank(S, o) <= Rank(S, l)
    OBVIOUS
  <2>1. n - Rank(S, l) <= n - Rank(S, o)
    BY <1>3, <1>4
  <2> QED
    BY <2>1, <1>1
<1>6. \A p \in P : ~Older(Key(p), Key(l))
  <2> SUFFICES ASSUME NEW p \in P, Older(Key(p), Key(l)) PROVE FALSE
    OBVIOUS
  <2>1. Rank(S, l) < Rank(S, p)
    BY <1>1, RankGrows
  <2> QED
    BY <2>1, <1>1, <1>5
<1>7. \A p \in P : p # l => Older(Key(l), Key(p))
  BY <1>1, <1>6, OlderTotal
<1>8. Last(P) = {l}
  BY <1>6, <1>7 DEF Last
<1> QED
  BY <1>7, <1>8

(* ... and a page that leaves something out is full.                        *)
LEMMA PageIsFull ==
  ASSUME row \in [Ids -> Rows], NEW S \in SUBSET Ids, NEW n \in Nat, Newest(S, n) # S
  PROVE  Cardinality(Newest(S, n)) = n
<1> DEFINE P == Newest(S, n)
           T == {Rank(S, o) : o \in S \ P}
<1>1. P \subseteq S /\ P \subseteq Ids /\ \A o \in S : Rank(S, o) \in Nat
  BY NewestByRank, RankTypes
<1>2. T \subseteq Nat /\ T # {}
  BY <1>1
<1>3. PICK x \in T : \A y \in T : x <= y
  BY <1>2, SmallestNumber
<1>4. PICK o \in S \ P : x = Rank(S, o)
  BY <1>3
<1>5. P = {p \in S : Older(Key(o), Key(p))}
  <2>1. ASSUME NEW p \in P PROVE Older(Key(o), Key(p))
    <3>1. p # o
      BY <1>4
    <3>2. ~Older(Key(p), Key(o))
      BY <1>4, PageIsPrefix
    <3> QED
      BY <1>1, <1>4, <3>1, <3>2, OlderTotal
  <2>2. ASSUME NEW p \in S, Older(Key(o), Key(p)), p \notin P PROVE FALSE
    <3>1. Rank(S, p) < Rank(S, o)
      BY <1>4, <2>2, RankGrows
    <3>2. Rank(S, o) <= Rank(S, p)
      BY <1>3, <1>4, <2>2
    <3> QED
      BY <1>1, <1>4, <3>1, <3>2
  <2> QED
    BY <1>1, <2>1, <2>2
<1>6. Cardinality(P) = Rank(S, o) /\ Cardinality(P) \in Nat
  BY <1>1, <1>4, <1>5 DEF Rank
<1>7. Cardinality(P) >= n
  <2>1. ~(Rank(S, o) < n)
    BY <1>4, NewestByRank
  <2> QED
    BY <1>6, <2>1
<1>8. Cardinality(P) <= n
  <2>1. CASE P = {}
    BY <2>1, FS_EmptySet
  <2>2. CASE P # {}
    <3>1. PICK l \in P : \A p \in P : p # l => Older(Key(l), Key(p))
      BY <2>2, PageHasLast
    <3>2. P \ {l} = {p \in S : Older(Key(l), Key(p))}
      <4>1. \A p \in S : Older(Key(l), Key(p)) => p \in P
        BY PageIsPrefix
      <4>2. ~Older(Key(l), Key(l))
        BY <1>1, KeyTypes, OlderIrreflexive
      <4> QED
        BY <1>1, <3>1, <4>1, <4>2
    <3>3. IsFiniteSet(P)
      BY <1>1, FS_Subset, IdsAssumption
    <3>4. Cardinality(P \ {l}) = Cardinality(P) - 1
      BY <3>3, FS_RemoveElement
    <3>5. Rank(S, l) < n /\ Rank(S, l) = Cardinality(P \ {l})
      BY <3>2, NewestByRank DEF Rank
    <3> QED
      BY <1>6, <3>4, <3>5
  <2> QED
    BY <2>1, <2>2
<1> QED
  BY <1>6, <1>7, <1>8
-----------------------------------------------------------------------------
(* What a client has of the list. It was given rows once, and they keep     *)
(* their place, since first_seen_at is set by the insert alone. What it is  *)
(* still to be given is behind the cursor, and what it was given is not.    *)
Given(k) ==
  /\ k.twice = {}
  /\ \A o \in k.got : row[o].state # "none"
  /\ k.stayed \subseteq Listed(row, k.filter)

Seeks(k) ==
  /\ \A o \in k.stayed \ k.got : After(k.cursor, o)
  /\ \A o \in k.got : ~After(k.cursor, o)

WalkInv(k) ==
  /\ Given(k)
  /\ k.pc = "more" => Seeks(k)
  /\ k.pc = "done" => k.stayed \subseteq k.got

PageInv == TypeOK /\ \A r \in Readers : WalkInv(reader[r])

LEMMA PageSizeType == \A n \in Nat : PageSize(n) \in Nat \ {0}
  BY SizesAssumption DEF PageSize

(* The walk after the next page.                                            *)
Rest(walk) == {o \in Listed(row, walk.filter) : After(walk.cursor, o)}
Turned(walk) ==
  LET P == Newest(Rest(walk), PageSize(walk.size))
      next == NextCursor(P, walk.size)
  IN [walk EXCEPT !.pc = IF next = {} THEN "done" ELSE "more", !.cursor = next,
                  !.got = @ \cup P, !.twice = @ \cup (walk.got \cap P)]

LEMMA GivesTurned ==
  ASSUME NEW r \in Readers, NEW walk, GivePage(r, walk)
  PROVE  reader' = [reader EXCEPT ![r] = Turned(walk)]
  BY DEF GivePage, Turned, ListOpportunities, Rest

(* A page with a cursor is full and the cursor is that of its last row; one *)
(* without is all there was left.                                           *)
LEMMA CursorSplits ==
  ASSUME row \in [Ids -> Rows], NEW walk \in Walks,
         NEW P, P = Newest(Rest(walk), PageSize(walk.size))
  PROVE  /\ P \subseteq Rest(walk) /\ Rest(walk) \subseteq Ids
         /\ NextCursor(P, walk.size) = {} => P = Rest(walk)
         /\ NextCursor(P, walk.size) # {} =>
              \E l \in P : /\ NextCursor(P, walk.size) = {encodeCursor(Key(l))}
                          /\ \A p \in P : ~Older(Key(p), Key(l))
                          /\ \A o \in Rest(walk) \ P : Older(Key(o), Key(l))
<1> DEFINE S == Rest(walk)
           n == PageSize(walk.size)
<1>1. S \subseteq Ids /\ n \in Nat \ {0}
  BY PageSizeType DEF Rest, Listed, Walks
<1>2. P \subseteq S
  BY DEF Newest
<1> HIDE DEF S, n
<1>0. P = Newest(S, n)
  BY DEF S, n
<1>3. CASE P = {}
  <2>1. Cardinality(P) = 0
    BY <1>3, FS_EmptySet
  <2>2. NextCursor(P, walk.size) = {}
    BY <1>1, <2>1 DEF NextCursor, n
  <2>3. P = S
    BY <1>0, <1>1, <2>1, PageIsFull
  <2> QED
    BY <1>1, <2>2, <2>3 DEF S
<1>4. CASE P # {}
  <2>1. PICK l \in P : Last(P) = {l} /\ \A p \in P : p # l => Older(Key(l), Key(p))
    BY <1>0, <1>1, <1>4, PageHasLast
  <2>2. \A p \in P : ~Older(Key(p), Key(l))
    <3> SUFFICES ASSUME NEW p \in P, Older(Key(p), Key(l)) PROVE FALSE
      OBVIOUS
    <3>1. Key(p) \in Pairs /\ Key(l) \in Pairs
      BY <1>1, <1>2, KeyTypes
    <3>2. ~Older(Key(l), Key(p))
      BY <3>1, OlderIrreflexive
    <3>3. p = l
      BY <2>1, <3>2
    <3> QED
      BY <3>2, <3>3
  <2>3. \A o \in S \ P : Older(Key(o), Key(l))
    <3> SUFFICES ASSUME NEW o \in S \ P PROVE Older(Key(o), Key(l))
      OBVIOUS
    <3>1. ~Older(Key(l), Key(o))
      BY <1>0, <1>1, PageIsPrefix
    <3> QED
      BY <1>1, <1>2, <3>1, OlderTotal
  <2>4. CASE Cardinality(P) = n
    <3>1. NextCursor(P, walk.size) = {encodeCursor(Key(o)) : o \in {l}}
      BY <2>1, <2>4 DEF NextCursor, n
    <3>2. NextCursor(P, walk.size) = {encodeCursor(Key(l))}
      BY <3>1
    <3> QED
      BY <1>1, <1>2, <2>2, <2>3, <3>2 DEF S
  <2>5. CASE Cardinality(P) # n
    <3>1. NextCursor(P, walk.size) = {}
      BY <2>5 DEF NextCursor, n
    <3>2. P = S
      BY <1>0, <1>1, <2>5, PageIsFull
    <3> QED
      BY <1>1, <1>2, <3>1, <3>2 DEF S
  <2> QED
    BY <2>4, <2>5
<1> QED
  BY <1>3, <1>4

LEMMA TurnedType ==
  ASSUME row \in [Ids -> Rows], NEW walk \in Walks
  PROVE  Turned(walk) \in Walks
<1> DEFINE P == Newest(Rest(walk), PageSize(walk.size))
           next == NextCursor(P, walk.size)
<1>1. P \subseteq Ids
  BY CursorSplits
<1>2. next \subseteq Nat \X Ids
  BY <1>1, CursorSplits, CursorRoundTrip
<1> HIDE DEF P, next
<1> DEFINE pc == IF next = {} THEN "done" ELSE "more"
           got == walk.got \cup P
           twice == walk.twice \cup (walk.got \cap P)
<1>3. Turned(walk) = [walk EXCEPT !.pc = pc, !.cursor = next, !.got = got, !.twice = twice]
  BY DEF Turned, P, next, Walks
<1>4. walk.got \subseteq Ids /\ walk.twice \subseteq Ids
  BY DEF Walks
<1> DEFINE PCs == {"none", "more", "done"}
           Cursors == SUBSET (Nat \X Ids)
           Sets == SUBSET Ids
           Filters == SUBSET Facets
<1>5. pc \in PCs /\ next \in Cursors /\ got \in Sets /\ twice \in Sets
  BY <1>1, <1>2, <1>4
<1>6. Walks = [pc : PCs, filter : Filters, size : Nat, cursor : Cursors,
               got : Sets, twice : Sets, stayed : Sets]
  BY DEF Walks
<1> HIDE DEF pc, got, twice, PCs, Cursors, Sets, Filters
<1> QED
  BY <1>3, <1>5, <1>6

(* The heart of the matter: one more page.                                  *)
LEMMA TurnedWalk ==
  ASSUME row \in [Ids -> Rows], NEW walk \in Walks, Given(walk), Seeks(walk)
  PROVE  WalkInv(Turned(walk))
<1> DEFINE S == Rest(walk)
           P == Newest(S, PageSize(walk.size))
           next == NextCursor(P, walk.size)
           k == Turned(walk)
<1>1. /\ P \subseteq S /\ S \subseteq Ids
      /\ next = {} => P = S
      /\ next # {} => \E l \in P : /\ next = {encodeCursor(Key(l))}
                                  /\ \A p \in P : ~Older(Key(p), Key(l))
                                  /\ \A o \in S \ P : Older(Key(o), Key(l))
  BY CursorSplits
<1>2. /\ k.pc = (IF next = {} THEN "done" ELSE "more") /\ k.cursor = next
      /\ k.got = walk.got \cup P /\ k.twice = walk.twice \cup (walk.got \cap P)
      /\ k.stayed = walk.stayed /\ k.filter = walk.filter
  BY DEF Turned, Walks
<1>3. /\ \A o \in S : After(walk.cursor, o) /\ row[o].state # "none"
      /\ \A o \in walk.stayed \ walk.got : o \in S
  BY DEF Rest, Listed, Listable, Seeks, Given
<1> HIDE DEF S, P, next, k
<1>4. Given(k)
  <2>1. walk.got \cap P = {}
    BY <1>1, <1>3 DEF Seeks
  <2>2. \A o \in P : row[o].state # "none"
    BY <1>1, <1>3
  <2> QED
    BY <1>2, <2>1, <2>2 DEF Given
<1>5. CASE next = {}
  <2>1. walk.stayed \subseteq walk.got \cup P
    BY <1>1, <1>3, <1>5
  <2> QED
    BY <1>2, <1>4, <1>5, <2>1 DEF WalkInv, k
<1>6. CASE next # {}
  <2>1. PICK l \in P : /\ next = {encodeCursor(Key(l))}
                       /\ \A p \in P : ~Older(Key(p), Key(l))
                       /\ \A o \in S \ P : Older(Key(o), Key(l))
    BY <1>1, <1>6
  <2>2. l \in Ids /\ decodeCursor(encodeCursor(Key(l))) = Key(l)
    BY <1>1, CursorRoundTrip
  <2>3. \A o : After(next, o) <=> Older(Key(o), Key(l))
    BY <2>1, <2>2 DEF After
  <2>4. \A o \in walk.stayed \ (walk.got \cup P) : After(next, o)
    BY <1>3, <2>1, <2>3
  <2>5. \A o \in walk.got : ~Older(Key(o), Key(l))
    <3> SUFFICES ASSUME NEW o \in walk.got, Older(Key(o), Key(l)) PROVE FALSE
      OBVIOUS
    <3>0. o \in Ids /\ walk.cursor \subseteq Nat \X Ids
      BY DEF Walks
    <3>1. \A c \in walk.cursor : decodeCursor(c) \in Pairs
      BY <3>0, DecodedType
    <3>2. Key(o) \in Pairs /\ Key(l) \in Pairs
      BY <2>2, <3>0, KeyTypes
    <3>3. After(walk.cursor, l)
      BY <1>1, <1>3
    <3>4. After(walk.cursor, o)
      BY <3>1, <3>2, <3>3, OlderTransitive DEF After
    <3> QED
      BY <3>4 DEF Seeks
  <2>6. \A o \in walk.got \cup P : ~After(next, o)
    BY <2>1, <2>3, <2>5
  <2>7. Seeks(k)
    BY <1>2, <2>4, <2>6 DEF Seeks
  <2>8. k.pc = "more"
    BY <1>2, <1>6
  <2> QED
    BY <1>4, <2>7, <2>8 DEF WalkInv, k
<1> QED
  BY <1>5, <1>6
-----------------------------------------------------------------------------
LEMMA NewWalkType == NewWalk \in Walks
  BY DEF NewWalk, Walks

LEMMA InitPages == Init => PageInv
<1> SUFFICES ASSUME Init PROVE PageInv
  OBVIOUS
<1>1. TypeOK
  BY NewWalkType, MaxEventsAssumption DEF Init, TypeOK
<1>2. \A r \in Readers : reader[r] = NewWalk
  BY DEF Init
<1>3. WalkInv(NewWalk)
  BY DEF WalkInv, Given, Listed, NewWalk
<1> QED
  BY <1>1, <1>2, <1>3 DEF PageInv

(* A page for one client leaves the rows and the other clients alone.       *)
LEMMA PageKeeps ==
  ASSUME PageInv, NEW r \in Readers, NEW walk \in Walks, Given(walk), Seeks(walk),
         GivePage(r, walk), UNCHANGED <<row, events>>
  PROVE  PageInv'
<1> DEFINE k == Turned(walk)
<1>1. row \in [Ids -> Rows] /\ reader \in [Readers -> Walks]
  BY DEF PageInv, TypeOK
<1>2. k \in Walks /\ WalkInv(k)
  BY <1>1, TurnedType, TurnedWalk
<1>3. reader' = [reader EXCEPT ![r] = k]
  BY GivesTurned
<1> HIDE DEF k
<1>4. TypeOK'
  BY <1>1, <1>2, <1>3 DEF PageInv, TypeOK
<1>5. \A q \in Readers : WalkInv(reader'[q])
  BY <1>1, <1>2, <1>3 DEF PageInv
<1>6. (\A q \in Readers : WalkInv(reader[q]))'
  BY <1>5 DEF WalkInv, Given, Seeks, After, Key, Listed
<1> QED
  BY <1>4, <1>6 DEF PageInv

LEMMA FirstPageKeeps ==
  ASSUME PageInv, NEW r \in Readers, NEW f \in SUBSET Facets, NEW n \in Sizes,
         FirstPage(r, f, n)
  PROVE  PageInv'
<1> DEFINE walk == [NewWalk EXCEPT !.filter = f, !.size = n, !.stayed = Listed(row, f)]
<1>1. walk \in Walks
  BY NewWalkType, SizesAssumption DEF Walks, Listed
<1>2. /\ walk.twice = {} /\ walk.got = {} /\ walk.cursor = {}
      /\ walk.stayed = Listed(row, f) /\ walk.filter = f
  BY DEF NewWalk
<1>3. GivePage(r, walk) /\ UNCHANGED <<row, events>>
  BY DEF FirstPage
<1> HIDE DEF walk
<1>4. Given(walk) /\ Seeks(walk)
  BY <1>2 DEF Given, Seeks, After
<1> QED
  BY <1>1, <1>3, <1>4, PageKeeps

LEMMA NextPageKeeps ==
  ASSUME PageInv, NEW r \in Readers, NextPage(r)
  PROVE  PageInv'
<1>1. reader[r] \in Walks /\ Given(reader[r]) /\ Seeks(reader[r])
  BY DEF PageInv, TypeOK, WalkInv, NextPage
<1>2. GivePage(r, reader[r]) /\ UNCHANGED <<row, events>>
  BY DEF NextPage
<1> QED
  BY <1>1, <1>2, PageKeeps

(* A change of a row: it keeps its place in the order once it is inserted,  *)
(* and is not taken out again.                                              *)
Kept(old, new) == old.state # "none" => new.state # "none" /\ new.seen = old.seen

LEMMA ChangeKeeps ==
  ASSUME PageInv, NEW o \in Ids, NEW new \in Rows, Kept(row[o], new), Change(o, new)
  PROVE  PageInv'
<1>1. row \in [Ids -> Rows] /\ reader \in [Readers -> Walks]
  BY DEF PageInv, TypeOK
<1>2. row' = [row EXCEPT ![o] = new]
  BY DEF Change
<1>3. row' \in [Ids -> Rows]
  BY <1>1, <1>2
<1>4. \A p \in Ids : row[p].state # "none" =>
        row'[p].state # "none" /\ row'[p].seen = row[p].seen
  BY <1>1, <1>2 DEF Kept
<1>5. ASSUME NEW r \in Readers
      PROVE  /\ reader'[r] \in Walks
             /\ WalkInv(reader[r])'
  <2> DEFINE k == reader[r]
             l == reader'[r]
  <2>1. k \in Walks /\ WalkInv(k)
    BY <1>1 DEF PageInv
  <2>2. l = [k EXCEPT !.stayed = @ \cap Listed(row', k.filter)]
    BY DEF Change
  <2>3. /\ l.pc = k.pc /\ l.cursor = k.cursor /\ l.got = k.got /\ l.twice = k.twice
        /\ l.filter = k.filter /\ l.stayed = k.stayed \cap Listed(row', k.filter)
    BY <2>1, <2>2 DEF Walks
  <2>4. l \in Walks
    BY <2>1, <2>2 DEF Walks
  <2>5. k.got \subseteq Ids /\ k.stayed \subseteq Ids
    BY <2>1 DEF Walks
  <2>6. \A p \in k.got \cup k.stayed : row[p].state # "none"
    BY <2>1 DEF WalkInv, Given, Listed, Listable
  <2>7. \A p \in k.got \cup k.stayed : Key(p)' = Key(p)
    BY <1>4, <2>5, <2>6 DEF Key
  <2>8. \A p \in k.got \cup k.stayed : After(k.cursor, p) <=> \A c \in k.cursor : Older(Key(p)', decodeCursor(c))
    BY <2>7 DEF After
  <2> HIDE DEF k, l
  <2>9. Given(reader[r])'
    BY <1>4, <2>1, <2>3, <2>5, <2>6 DEF WalkInv, Given, l
  <2>10. k.pc = "more" => Seeks(reader[r])'
    BY <2>1, <2>3, <2>8 DEF WalkInv, Seeks, After, l
  <2>11. k.pc = "done" => l.stayed \subseteq l.got
    BY <2>1, <2>3 DEF WalkInv
  <2> QED
    BY <2>3, <2>4, <2>9, <2>10, <2>11 DEF WalkInv, l
<1>6. reader' \in [Readers -> Walks]
  BY <1>5 DEF Change
<1>7. events' \in 0..MaxEvents
  BY MaxEventsAssumption DEF PageInv, TypeOK, Change
<1> QED
  BY <1>3, <1>5, <1>6, <1>7 DEF PageInv, TypeOK

LEMMA RowStepKeeps ==
  ASSUME PageInv, NEW o \in Ids, RowStep(o)
  PROVE  PageInv'
<1> DEFINE r == row[o]
           Changed == \E new \in Rows : Kept(r, new) /\ Change(o, new)
<1>1. r \in Rows
  BY DEF PageInv, TypeOK
<1>2. Changed
  <2>1. CASE Reword(o)
    BY <1>1, <2>1 DEF Reword, Rows, Kept
  <2>2. CASE Close(o)
    BY <1>1, <2>2 DEF Close, Rows, Kept
  <2>3. CASE MarkSeen(o)
    BY <1>1, <2>3 DEF MarkSeen, Rows, Kept
  <2>4. CASE Merge(o)
    BY <1>1, <2>4 DEF Merge, Rows, Kept
  <2>5. ASSUME NEW t \in Times, Insert(o, t) PROVE Changed
    BY <1>1, <2>5 DEF Insert, Rows, Kept
  <2>6. ASSUME NEW f \in Facets, Publish(o, f) PROVE Changed
    BY <1>1, <2>6 DEF Publish, Rows, Kept
  <2> QED
    BY <2>1, <2>2, <2>3, <2>4, <2>5, <2>6 DEF RowStep
<1> QED
  BY <1>2, ChangeKeeps

LEMMA NextKeeps == PageInv /\ [Next]_vars => PageInv'
<1> SUFFICES ASSUME PageInv, [Next]_vars PROVE PageInv'
  OBVIOUS
<1>1. ASSUME NEW o \in Ids, RowStep(o) PROVE PageInv'
  BY <1>1, RowStepKeeps
<1>2. ASSUME NEW r \in Readers, NextPage(r) PROVE PageInv'
  BY <1>2, NextPageKeeps
<1>3. ASSUME NEW r \in Readers, NEW f \in SUBSET Facets \ {{}}, NEW n \in Sizes,
             FirstPage(r, f, n)
      PROVE  PageInv'
  BY <1>3, FirstPageKeeps
<1>4. CASE UNCHANGED vars
  BY <1>4 DEF vars, PageInv, TypeOK, WalkInv, Given, Seeks, After, Key, Listed
<1> QED
  BY <1>1, <1>2, <1>3, <1>4 DEF Next

LEMMA PagesHold == Spec => []PageInv
  BY InitPages, NextKeeps, PTL DEF Spec

(* Every reachable state is well typed.                                     *)
THEOREM Typed == Spec => []TypeOK
<1>1. PageInv => TypeOK
  BY DEF PageInv
<1> QED
  BY <1>1, PagesHold, PTL

(* No client is given a row twice by List, whatever happens to the rows     *)
(* between its pages.                                                       *)
THEOREM PagesDoNotRepeat == Spec => []NoRowTwice
<1>1. PageInv => NoRowTwice
  BY DEF PageInv, WalkInv, Given, NoRowTwice
<1> QED
  BY <1>1, PagesHold, PTL

(* A client that got a page without a cursor was given every row that could *)
(* be listed all the time since its first page.                             *)
THEOREM PagesDoNotSkip == Spec => []NoRowSkipped
<1>1. PageInv => NoRowSkipped
  BY DEF PageInv, WalkInv, NoRowSkipped
<1> QED
  BY <1>1, PagesHold, PTL
=============================================================================
