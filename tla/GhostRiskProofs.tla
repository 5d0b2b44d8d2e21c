-------------------------- MODULE GhostRiskProofs --------------------------
(***************************************************************************)
(* Proofs about GhostRisk, for any postings, thresholds and bounds.        *)
(***************************************************************************)
EXTENDS GhostRisk, TLAPS, FiniteSetTheorems, WellFoundedInduction

(* What a source shows has changed with the events only.                    *)
TypeInv == TypeOK /\ \A p \in Posts : board[p].text <= events /\ board[p].date <= events

(* A row that is not merged has its own source row, and one that does not   *)
(* exist has no other, has counted nothing and is not closed.               *)
Rows == \A o \in Posts :
  /\ ~opp[o].merged => link[o].opp = o
  /\ ~opp[o].stored => ~opp[o].merged /\ Absorbed(o) = {}
  /\ link[o].text <= board[o].text

(* With the text of the board, a row has the date of the board or a later   *)
(* one, until the source moves the date.                                    *)
Dated == \A o \in Posts :
  ~opp[o].merged /\ moved[o] = 0 /\ Absorbed(o) = {} =>
    /\ opp[o].repost = 0
    /\ opp[o].stored /\ link[o].text = board[o].text => board[o].date <= opp[o].base

(* A row was seen before it closed, and both are past.                      *)
Past == \A o \in Posts :
  /\ opp[o].seen <= today
  /\ opp[o].closed = {} \/ \E c \in opp[o].seen..today : opp[o].closed = {c}
  /\ ~opp[o].stored => opp[o].closed = {}

GhostInv == TypeInv /\ Rows /\ Dated /\ Past
-----------------------------------------------------------------------------
(* What each action does, field by field.                                   *)
LEMMA Fields ==
  ASSUME TypeInv, NEW p \in Posts
  PROVE  /\ opp[p] \in Opps /\ opp[p].seen \in Days /\ opp[p].base \in Dates
         /\ opp[p].repost \in Nat /\ opp[p].merged \in BOOLEAN /\ opp[p].closed \subseteq Days
         /\ link[p] \in Links /\ link[p].opp \in Posts /\ link[p].text \in Nat
         /\ board[p] \in [text : 0..MaxEvents, date : Dates]
         /\ board[p].text \in Nat /\ board[p].date \in Nat /\ board[p].date \in Dates
         /\ moved[p] \in Nat /\ today \in Days /\ today \in Nat /\ events \in Nat
<1>1. /\ opp[p] \in Opps /\ link[p] \in Links /\ moved[p] \in Nat
      /\ board[p] \in [text : 0..MaxEvents, date : Dates]
      /\ today \in Days /\ events \in 0..MaxEvents
  BY DEF TypeInv, TypeOK
<1>2. /\ opp[p].seen \in Days /\ opp[p].base \in Dates /\ opp[p].repost \in Nat
      /\ opp[p].merged \in BOOLEAN /\ opp[p].closed \subseteq Days
  BY <1>1 DEF Opps
<1>3. link[p].opp \in Posts /\ link[p].text \in 0..MaxEvents
  BY <1>1 DEF Links
<1>4. board[p].text \in 0..MaxEvents /\ board[p].date \in Dates
  BY <1>1
<1>5. 0..MaxEvents \subseteq Nat /\ Dates \subseteq Nat /\ Days \subseteq Nat
  BY BoundsAssumption DEF Dates, Days
<1> QED
  BY <1>1, <1>2, <1>3, <1>4, <1>5

LEMMA EventFacts ==
  ASSUME TypeInv, Event
  PROVE  events' \in 0..MaxEvents /\ events' = events + 1 /\ events \in Nat
  BY BoundsAssumption DEF TypeInv, TypeOK, Event

(* The board after Refresh or Reword of p.                                  *)
LEMMA BoardFacts ==
  ASSUME TypeInv, NEW p \in Posts, NEW i \in {0, 1}, NEW d \in {0, 1}, Event,
         NEW b \in [text : Nat, date : Nat],
         b.text = board[p].text + i, b.date = board[p].date + d,
         board' = [board EXCEPT ![p] = b]
  PROVE  /\ board' \in [Posts -> [text : 0..MaxEvents, date : Dates]]
         /\ \A q \in Posts : /\ board'[q].text <= events' /\ board'[q].date <= events'
                             /\ q # p => board'[q] = board[q]
         /\ board'[p].text = board[p].text + i /\ board'[p].date = board[p].date + d
<1>1. /\ board[p] \in [text : 0..MaxEvents, date : Dates]
      /\ board[p].text \in Nat /\ board[p].date \in Nat
  BY Fields
<1>2. events' \in 0..MaxEvents /\ events' = events + 1 /\ events \in Nat
  BY EventFacts
<1>3. \A q \in Posts : board[q].text <= events /\ board[q].date <= events
                       /\ board[q].text \in Nat /\ board[q].date \in Nat
  BY Fields DEF TypeInv
<1>4. /\ board[p].text + i \in 0..MaxEvents /\ board[p].date + d \in Dates
      /\ board[p].text + i <= events' /\ board[p].date + d <= events'
  BY <1>1, <1>2, <1>3, BoundsAssumption DEF Dates
<1>5. b \in [text : 0..MaxEvents, date : Dates]
      /\ b.text = board[p].text + i /\ b.date = board[p].date + d
  BY <1>4
<1>6. \A q \in Posts : board'[q] = IF q = p THEN b ELSE board[q]
  BY DEF TypeInv, TypeOK
<1>7. board' \in [Posts -> [text : 0..MaxEvents, date : Dates]]
  BY <1>5 DEF TypeInv, TypeOK
<1>8. \A q \in Posts : board[q].text <= events' /\ board[q].date <= events'
  BY <1>2, <1>3
<1> QED
  BY <1>4, <1>5, <1>6, <1>7, <1>8

LEMMA RefreshFacts ==
  ASSUME TypeInv, NEW p \in Posts, Refresh(p)
  PROVE  /\ board' \in [Posts -> [text : 0..MaxEvents, date : Dates]]
         /\ \A q \in Posts : /\ board'[q].text <= events' /\ board'[q].date <= events'
                             /\ q # p => board'[q] = board[q] /\ moved'[q] = moved[q]
         /\ board'[p].text = board[p].text
         /\ moved' \in [Posts -> Nat] /\ moved'[p] # 0
<1>1. /\ board[p].text \in Nat /\ board[p].date \in Nat /\ moved[p] \in Nat
      /\ board[p] \in [text : 0..MaxEvents, date : Dates]
  BY Fields
<1>2. PICK b : b = [board[p] EXCEPT !.date = board[p].date + 1]
  OBVIOUS
<1>3. b \in [text : Nat, date : Nat] /\ b.text = board[p].text + 0 /\ b.date = board[p].date + 1
  BY <1>1, <1>2
<1>4. board' = [board EXCEPT ![p] = b] /\ Event
  BY <1>2 DEF Refresh
<1>5. moved' = [moved EXCEPT ![p] = moved[p] + 1]
  BY DEF Refresh
<1>6. moved' \in [Posts -> Nat] /\ moved'[p] = moved[p] + 1
      /\ \A q \in Posts : q # p => moved'[q] = moved[q]
  BY <1>1, <1>5 DEF TypeInv, TypeOK
<1>7. moved'[p] # 0
  BY <1>1, <1>6
<1>8. /\ board' \in [Posts -> [text : 0..MaxEvents, date : Dates]]
      /\ \A q \in Posts : /\ board'[q].text <= events' /\ board'[q].date <= events'
                          /\ q # p => board'[q] = board[q]
      /\ board'[p].text = board[p].text + 0
  BY <1>3, <1>4, BoardFacts
<1> QED
  BY <1>1, <1>6, <1>7, <1>8

LEMMA RewordFacts ==
  ASSUME TypeInv, NEW p \in Posts, Reword(p)
  PROVE  /\ board' \in [Posts -> [text : 0..MaxEvents, date : Dates]]
         /\ \A q \in Posts : /\ board'[q].text <= events' /\ board'[q].date <= events'
                             /\ q # p => board'[q] = board[q]
         /\ board'[p].text = board[p].text + 1
<1>1. PICK d \in {0, 1} : board' = [board EXCEPT ![p].text = @ + 1, ![p].date = @ + d]
  BY DEF Reword
<1>2. PICK b : b = [board[p] EXCEPT !.text = board[p].text + 1, !.date = board[p].date + d]
  OBVIOUS
<1>3. /\ board[p].text \in Nat /\ board[p].date \in Nat
      /\ board[p] \in [text : 0..MaxEvents, date : Dates]
  BY Fields
<1>a. board[p].text + 1 \in Nat /\ board[p].date + d \in Nat
  BY <1>3
<1>4. b \in [text : Nat, date : Nat] /\ b.text = board[p].text + 1 /\ b.date = board[p].date + d
  BY <1>2, <1>3, <1>a
<1>5. board' = [board EXCEPT ![p] = b] /\ Event
  BY <1>1, <1>2 DEF Reword
<1> QED
  BY <1>4, <1>5, BoardFacts

(* A poll of p makes n of row o.                                            *)
Polled(p, o, n) ==
  /\ o = link[p].opp /\ opp' = [opp EXCEPT ![o] = n]
  /\ n.merged = opp[o].merged /\ (opp[o].stored => n.stored)
  /\ n.seen \in {opp[o].seen, today}
  /\ n.closed = {} \/ (~opp[p].stored /\ n.closed = opp[o].closed)
  /\ \/ ~opp[p].stored /\ n.base = board[p].date /\ n.repost = opp[o].repost
     \/ /\ opp[p].stored /\ link[p].text # board[p].text
        /\ n.base = board[p].date /\ n.repost = opp[o].repost
     \/ /\ opp[p].stored /\ link[p].text = board[p].text /\ n.base = opp[o].base
        /\ (board[p].date <= opp[o].base => n.repost = opp[o].repost)

LEMMA PollFacts ==
  ASSUME TypeInv, NEW p \in Posts, Poll(p)
  PROVE  \E o \in Posts, n \in Opps : Polled(p, o, n)
<1>1. PICK o \in Posts : o = link[p].opp
  BY Fields
<1>2. PICK date \in Dates : date = board[p].date
  BY Fields
<1>3. PICK r \in Opps : r = opp[o]
  BY Fields
<1>4. r.repost \in Nat /\ r.base \in Nat /\ date \in Nat /\ today \in Days
  BY <1>1, <1>2, <1>3, Fields, BoundsAssumption DEF Dates
<1>a. r.repost + 0 = r.repost /\ r.repost + 1 \in Nat
  BY <1>4
<1>5. CASE ~opp[p].stored
  <2>1. PICK n : n = [r EXCEPT !.stored = TRUE, !.seen = today, !.base = date]
    OBVIOUS
  <2>2. /\ n \in Opps /\ n.stored /\ n.seen = today /\ n.base = date /\ n.merged = r.merged
        /\ n.repost = r.repost /\ n.closed = r.closed
    BY <1>4, <2>1 DEF Opps
  <2>3. opp' = [opp EXCEPT ![o] = n]
    BY <1>1, <1>2, <1>3, <1>5, <2>1 DEF Poll, InsertOpportunityFromPosting
  <2> QED
    BY <1>1, <1>2, <1>3, <1>5, <2>2, <2>3 DEF Polled
<1>6. CASE opp[p].stored /\ link[p].text # board[p].text
  <2>1. PICK n : n = [r EXCEPT !.base = date, !.closed = {}]
    OBVIOUS
  <2>2. /\ n \in Opps /\ (r.stored => n.stored) /\ n.seen = r.seen /\ n.base = date
        /\ n.merged = r.merged /\ n.repost = r.repost /\ n.closed = {}
    BY <2>1 DEF Opps
  <2>3. opp' = [opp EXCEPT ![o] = n]
    BY <1>1, <1>2, <1>3, <1>6, <2>1 DEF Poll, UpdateOpportunityFromPosting
  <2>4. opp[o].stored => n.stored
    BY <1>3, <2>2, Zenon
  <2>a. n.base = board[p].date /\ n.repost = opp[o].repost /\ n.merged = opp[o].merged
        /\ n.seen \in {opp[o].seen, today}
    BY <1>2, <1>3, <2>2
  <2>5. Polled(p, o, n)
    BY <1>1, <1>6, <2>a, <2>2, <2>3, <2>4, Zenon DEF Polled
  <2> QED
    BY <2>2, <2>5
<1>7. CASE opp[p].stored /\ link[p].text = board[p].text
  <2>0. PICK c \in Nat : c = r.repost + IF date > r.base THEN 1 ELSE 0
    BY <1>4
  <2>1. PICK n : n = [r EXCEPT !.closed = {}, !.repost = c]
    OBVIOUS
  <2>2. /\ n \in Opps /\ (r.stored => n.stored) /\ n.seen = r.seen /\ n.base = r.base
        /\ n.merged = r.merged /\ n.repost = c /\ n.closed = {}
    BY <2>1 DEF Opps
  <2>3. opp' = [opp EXCEPT ![o] = n]
    BY <1>1, <1>2, <1>3, <1>7, <2>0, <2>1 DEF Poll, MarkOpportunitySeen
  <2>4. date <= r.base => c = r.repost
    BY <1>4, <2>0
  <2>5. opp[o].stored => n.stored
    BY <1>3, <2>2, Zenon
  <2>a. n.base = opp[o].base /\ n.merged = opp[o].merged /\ n.seen \in {opp[o].seen, today}
        /\ (board[p].date <= opp[o].base => n.repost = opp[o].repost)
    BY <1>2, <1>3, <2>2, <2>4
  <2>6. Polled(p, o, n)
    BY <1>1, <1>7, <2>a, <2>2, <2>3, <2>5, Zenon DEF Polled
  <2> QED
    BY <2>2, <2>6
<1> QED
  BY <1>5, <1>6, <1>7

LEMMA PollLinks ==
  ASSUME TypeInv, NEW p \in Posts, Poll(p)
  PROVE  /\ link' \in [Posts -> Links]
         /\ \A q \in Posts : /\ link'[q].opp = link[q].opp
                             /\ link'[q].text = IF q = p THEN board[p].text ELSE link[q].text
<1>1. link[p] \in Links /\ board[p].text \in 0..MaxEvents
  BY DEF TypeInv, TypeOK
<1>2. PICK l : l = [link[p] EXCEPT !.text = board[p].text]
  OBVIOUS
<1>3. l \in Links /\ l.opp = link[p].opp /\ l.text = board[p].text
  BY <1>1, <1>2 DEF Links
<1>4. link' = [link EXCEPT ![p] = l]
  BY <1>2 DEF Poll
<1> QED
  BY <1>3, <1>4 DEF TypeInv, TypeOK

LEMMA CloseFacts ==
  ASSUME TypeInv, NEW o \in Posts, Close(o)
  PROVE  \E n \in Opps :
           /\ opp' = [opp EXCEPT ![o] = n] /\ n.closed = {today} /\ n.stored = opp[o].stored
           /\ n.seen = opp[o].seen /\ n.base = opp[o].base /\ n.repost = opp[o].repost
           /\ n.merged = opp[o].merged
<1>1. opp[o] \in Opps /\ today \in Days
  BY Fields
<1>2. PICK n : n = [opp[o] EXCEPT !.closed = {today}]
  OBVIOUS
<1>3. /\ n \in Opps /\ n.closed = {today} /\ n.stored = opp[o].stored
      /\ n.seen = opp[o].seen /\ n.base = opp[o].base /\ n.repost = opp[o].repost
      /\ n.merged = opp[o].merged
  BY <1>1, <1>2 DEF Opps
<1> QED
  BY <1>2, <1>3 DEF Close

LEMMA MergeFacts ==
  ASSUME TypeInv, NEW o \in Posts, NEW into \in Posts, Merge(o, into)
  PROVE  /\ \E n \in Opps :
              /\ opp' = [opp EXCEPT ![o] = n] /\ n.merged /\ n.stored = opp[o].stored
              /\ n.closed = opp[o].closed /\ n.seen = opp[o].seen /\ n.base = opp[o].base
              /\ n.repost = opp[o].repost
         /\ link' \in [Posts -> Links]
         /\ \A q \in Posts : /\ link'[q].opp = IF link[q].opp = o THEN into ELSE link[q].opp
                             /\ link'[q].text = link[q].text
<1>1. opp[o] \in Opps
  BY Fields
<1>2. PICK n : n = [opp[o] EXCEPT !.merged = TRUE]
  OBVIOUS
<1>3. /\ n \in Opps /\ n.merged /\ n.stored = opp[o].stored
      /\ n.closed = opp[o].closed /\ n.seen = opp[o].seen /\ n.base = opp[o].base
      /\ n.repost = opp[o].repost
  BY <1>1, <1>2 DEF Opps
<1>4. opp' = [opp EXCEPT ![o] = n]
  BY <1>2 DEF Merge
<1>5. \A l \in Links : /\ [l EXCEPT !.opp = into] \in Links
                       /\ [l EXCEPT !.opp = into].opp = into
                       /\ [l EXCEPT !.opp = into].text = l.text
  BY DEF Links
<1>6. \A q \in Posts : link[q] \in Links
  BY Fields
<1>7. link' = [q \in Posts |-> IF link[q].opp = o THEN [link[q] EXCEPT !.opp = into] ELSE link[q]]
  BY DEF Merge
<1>8. /\ link' \in [Posts -> Links]
      /\ \A q \in Posts : /\ link'[q].opp = IF link[q].opp = o THEN into ELSE link[q].opp
                          /\ link'[q].text = link[q].text
  <2>1. ASSUME NEW q \in Posts
        PROVE  \E l \in Links : /\ link'[q] = l /\ l.text = link[q].text
                                /\ l.opp = IF link[q].opp = o THEN into ELSE link[q].opp
    BY <1>5, <1>6, <1>7
  <2>2. \A q \in Posts : link'[q] \in Links
    BY <2>1
  <2>a. link' = [q \in Posts |-> link'[q]]
    BY <1>7
  <2>3. link' \in [Posts -> Links]
    BY <2>2, <2>a
  <2>4. ASSUME NEW q \in Posts
        PROVE  /\ link'[q].opp = IF link[q].opp = o THEN into ELSE link[q].opp
               /\ link'[q].text = link[q].text
    BY <2>1, Zenon
  <2> QED
    BY <2>3, <2>4, Zenon
<1> QED
  BY <1>3, <1>4, <1>8
-----------------------------------------------------------------------------
(* The invariant survives each action.                                      *)
LEMMA OneRow ==
  ASSUME TypeInv, NEW o \in Posts, NEW n \in Opps, opp' = [opp EXCEPT ![o] = n]
  PROVE  /\ opp' \in [Posts -> Opps] /\ opp'[o] = n
         /\ \A q \in Posts : q # o => opp'[q] = opp[q]
  BY DEF TypeInv, TypeOK

LEMMA DayStep ==
  ASSUME GhostInv, Day
  PROVE  GhostInv'
<1> USE DEF GhostInv
<1>1. /\ polls' = polls /\ events' = events /\ board' = board /\ opp' = opp
      /\ link' = link /\ moved' = moved /\ today' = today + 1 /\ today < MaxDay
  BY DEF Day
<1>2. today \in Nat /\ today' \in Nat /\ today' \in Days /\ today < today'
  BY <1>1, BoundsAssumption DEF TypeInv, TypeOK, Days
<1>3. TypeInv'
  BY <1>1, <1>2 DEF TypeInv, TypeOK
<1>4. \A o \in Posts : Absorbed(o)' = Absorbed(o)
  BY <1>1 DEF Absorbed
<1>5. Rows' /\ Dated'
  BY <1>1, <1>4, Zenon DEF Rows, Dated
<1>6. Past'
  <2>1. SUFFICES ASSUME NEW o \in Posts
                 PROVE  /\ opp[o].seen <= today'
                        /\ opp[o].closed = {} \/ \E c \in opp[o].seen..today' : opp[o].closed = {c}
                        /\ ~opp[o].stored => opp[o].closed = {}
    BY <1>1, Zenon DEF Past
  <2>2. opp[o].seen \in Nat
    BY Fields, BoundsAssumption DEF Days
  <2>3. opp[o].seen <= today'
    BY <1>2, <2>2 DEF Past
  <2>4. opp[o].seen..today \subseteq opp[o].seen..today'
    BY <1>2, <2>2
  <2>5. /\ opp[o].closed = {} \/ \E c \in opp[o].seen..today : opp[o].closed = {c}
        /\ ~opp[o].stored => opp[o].closed = {}
    BY Zenon DEF Past
  <2> QED
    BY <2>3, <2>4, <2>5, Zenon
<1> QED
  BY <1>3, <1>5, <1>6

LEMMA RefreshStep ==
  ASSUME GhostInv, NEW p \in Posts, Refresh(p)
  PROVE  GhostInv'
<1> USE DEF GhostInv
<1>1. polls' = polls /\ today' = today /\ opp' = opp /\ link' = link /\ Event
  BY DEF Refresh
<1>2. events' \in 0..MaxEvents
  BY <1>1, EventFacts
<1>3. TypeInv'
  BY <1>1, <1>2, RefreshFacts DEF TypeInv, TypeOK
<1>4. \A o \in Posts : Absorbed(o)' = Absorbed(o)
  BY <1>1 DEF Absorbed
<1>5. \A o \in Posts : board'[o].text = board[o].text
  BY RefreshFacts
<1>6. Rows'
  BY <1>1, <1>4, <1>5, Zenon DEF Rows
<1>7. \A o \in Posts : moved'[o] = 0 => board'[o] = board[o] /\ moved[o] = 0
  BY RefreshFacts
<1>8. Dated'
  BY <1>1, <1>4, <1>7, Zenon DEF Dated
<1>9. Past'
  BY <1>1, Zenon DEF Past
<1> QED
  BY <1>3, <1>6, <1>8, <1>9

LEMMA RewordStep ==
  ASSUME GhostInv, NEW p \in Posts, Reword(p)
  PROVE  GhostInv'
<1> USE DEF GhostInv
<1>1. polls' = polls /\ today' = today /\ opp' = opp /\ link' = link /\ moved' = moved /\ Event
  BY DEF Reword
<1>2. events' \in 0..MaxEvents
  BY <1>1, EventFacts
<1>3. TypeInv'
  BY <1>1, <1>2, RewordFacts DEF TypeInv, TypeOK
<1>4. \A o \in Posts : Absorbed(o)' = Absorbed(o)
  BY <1>1 DEF Absorbed
<1>5. \A o \in Posts : link[o].text \in Nat /\ board[o].text \in Nat /\ link[o].text <= board[o].text
  BY Fields DEF Rows
<1>6. /\ \A o \in Posts : o # p => board'[o] = board[o]
      /\ board'[p].text = board[p].text + 1
  BY RewordFacts
<1>7. \A o \in Posts : link[o].text <= board'[o].text
  BY <1>5, <1>6
<1>8. Rows'
  BY <1>1, <1>4, <1>7, Zenon DEF Rows
<1>9. link[p].text # board'[p].text
  BY <1>5, <1>6
<1>10. \A o \in Posts : link[o].text = board'[o].text => board'[o] = board[o]
  BY <1>6, <1>9
<1>11. Dated'
  BY <1>1, <1>4, <1>10, Zenon DEF Dated
<1>12. Past'
  BY <1>1, Zenon DEF Past
<1> QED
  BY <1>3, <1>8, <1>11, <1>12

LEMMA CloseStep ==
  ASSUME GhostInv, NEW o \in Posts, Close(o)
  PROVE  GhostInv'
<1> USE DEF GhostInv
<1>1. /\ polls' = polls /\ today' = today /\ events' = events /\ board' = board
      /\ link' = link /\ moved' = moved /\ opp[o].stored
  BY DEF Close
<1>2. PICK n \in Opps :
        /\ opp' = [opp EXCEPT ![o] = n] /\ n.closed = {today} /\ n.stored = opp[o].stored
        /\ n.seen = opp[o].seen /\ n.base = opp[o].base /\ n.repost = opp[o].repost
        /\ n.merged = opp[o].merged
  BY CloseFacts
<1>3. /\ opp' \in [Posts -> Opps] /\ opp'[o] = n
      /\ \A q \in Posts : q # o => opp'[q] = opp[q]
  BY <1>2, OneRow
<1>4. TypeInv'
  BY <1>1, <1>3 DEF TypeInv, TypeOK
<1>5. \A q \in Posts : Absorbed(q)' = Absorbed(q)
  BY <1>1 DEF Absorbed
<1>6. \A q \in Posts :
        /\ opp'[q].stored = opp[q].stored /\ opp'[q].seen = opp[q].seen
        /\ opp'[q].base = opp[q].base /\ opp'[q].repost = opp[q].repost
        /\ opp'[q].merged = opp[q].merged
        /\ q = o \/ opp'[q].closed = opp[q].closed
  BY <1>2, <1>3
<1>7. Rows'
  BY <1>1, <1>5, <1>6, Zenon DEF Rows
<1>8. Dated'
  BY <1>1, <1>5, <1>6, Zenon DEF Dated
<1>9. Past'
  <2>1. ASSUME NEW q \in Posts, q # o
        PROVE  /\ opp'[q].seen <= today'
               /\ opp'[q].closed = {} \/ \E c \in opp'[q].seen..today' : opp'[q].closed = {c}
               /\ ~opp'[q].stored => opp'[q].closed = {}
    BY <1>1, <1>3, <2>1, Zenon DEF Past
  <2>2. opp[o].seen \in Nat /\ today \in Nat /\ opp[o].seen <= today
    BY Fields, BoundsAssumption DEF Days, Past
  <2>3. today \in opp[o].seen..today
    BY <2>2
  <2>4. /\ opp'[o].seen <= today'
        /\ \E c \in opp'[o].seen..today' : opp'[o].closed = {c}
        /\ opp'[o].stored
    BY <1>1, <1>2, <1>3, <2>2, <2>3, Zenon
  <2> QED
    BY <2>1, <2>4, Zenon DEF Past
<1> QED
  BY <1>4, <1>7, <1>8, <1>9

LEMMA PollStep ==
  ASSUME GhostInv, NEW p \in Posts, Poll(p)
  PROVE  GhostInv'
<1> USE DEF GhostInv
<1>1. /\ today' = today /\ events' = events /\ board' = board /\ moved' = moved
      /\ polls < MaxPolls /\ polls' = polls + 1
  BY DEF Poll
<1>2. PICK o \in Posts, n \in Opps : Polled(p, o, n)
  BY PollFacts
<1>3. /\ opp' \in [Posts -> Opps] /\ opp'[o] = n
      /\ \A q \in Posts : q # o => opp'[q] = opp[q]
  BY <1>2, OneRow DEF Polled
<1>4. /\ link' \in [Posts -> Links]
      /\ \A q \in Posts : /\ link'[q].opp = link[q].opp
                          /\ link'[q].text = IF q = p THEN board[p].text ELSE link[q].text
  BY PollLinks
<1>5. polls' \in 0..MaxPolls
  BY <1>1, BoundsAssumption DEF TypeInv, TypeOK
<1>6. TypeInv'
  BY <1>1, <1>3, <1>4, <1>5 DEF TypeInv, TypeOK
<1>7. \A q \in Posts : Absorbed(q)' = Absorbed(q)
  BY <1>4 DEF Absorbed
<1>8. \A q \in Posts : /\ opp'[q].merged = opp[q].merged
                       /\ opp[q].stored => opp'[q].stored
  BY <1>2, <1>3, Zenon DEF Polled
<1>9. Rows'
  <2>1. \A q \in Posts : board[q].text \in Nat
    BY Fields
  <2>2. \A q \in Posts : link'[q].text <= board[q].text
    BY <1>4, <2>1 DEF Rows
  <2> QED
    BY <1>1, <1>4, <1>7, <1>8, <2>2, Zenon DEF Rows
<1>10. ~opp[p].stored => o = p
  BY <1>2, Zenon DEF Polled, Rows
<1>11. o # p => opp[p].merged /\ Absorbed(o) # {}
  <2>1. o # p => p \in Absorbed(o)
    BY <1>2 DEF Polled, Absorbed
  <2> QED
    BY <1>2, <2>1, Zenon DEF Polled, Rows
<1>12. Dated'
  <2>1. SUFFICES ASSUME NEW q \in Posts, ~opp'[q].merged, moved[q] = 0, Absorbed(q) = {}
                 PROVE  /\ opp'[q].repost = 0
                        /\ (opp'[q].stored /\ link'[q].text = board[q].text
                              => board[q].date <= opp'[q].base)
    BY <1>1, <1>7, Zenon DEF Dated
  <2>2. /\ opp[q].repost = 0
        /\ (opp[q].stored /\ link[q].text = board[q].text => board[q].date <= opp[q].base)
    BY <1>8, <2>1, Zenon DEF Dated
  <2>3. CASE q # o
    <3>1. q # p
      BY <1>8, <1>11, <2>1, <2>3, Zenon
    <3> QED
      BY <1>3, <1>4, <2>2, <2>3, <3>1
  <2>4. CASE q = o
    <3>1. q = p
      BY <1>11, <2>1, <2>4
    <3>2. board[q].date \in Nat
      BY Fields
    <3>3. opp'[q] = n
      BY <1>3, <2>4
    <3>4. CASE opp[p].stored /\ link[p].text = board[p].text
      <4>1. board[q].date <= opp[q].base
        BY <2>2, <3>1, <3>4, Zenon
      <4>2. n.repost = opp[q].repost /\ n.base = opp[q].base
        BY <1>2, <2>4, <3>1, <3>4, <4>1, Zenon DEF Polled
      <4> QED
        BY <2>2, <3>3, <4>1, <4>2
    <3>5. CASE ~(opp[p].stored /\ link[p].text = board[p].text)
      <4>1. n.repost = opp[q].repost /\ n.base = board[q].date
        BY <1>2, <2>4, <3>1, <3>5, Zenon DEF Polled
      <4> QED
        BY <2>2, <3>2, <3>3, <4>1
    <3> QED
      BY <3>4, <3>5
  <2> QED
    BY <2>3, <2>4
<1>13. Past'
  <2>1. ASSUME NEW q \in Posts, q # o
        PROVE  /\ opp'[q].seen <= today'
               /\ opp'[q].closed = {} \/ \E c \in opp'[q].seen..today' : opp'[q].closed = {c}
               /\ ~opp'[q].stored => opp'[q].closed = {}
    BY <1>1, <1>3, <2>1, Zenon DEF Past
  <2>2. opp[o].seen <= today /\ today <= today
    BY Fields DEF Past
  <2>3. n.seen <= today
    BY <1>2, <2>2 DEF Polled
  <2>4. n.closed = {}
    BY <1>2, <1>10, Zenon DEF Polled, Past
  <2> QED
    BY <1>1, <1>3, <2>1, <2>3, <2>4, Zenon DEF Past
<1> QED
  BY <1>6, <1>9, <1>12, <1>13

LEMMA MergeStep ==
  ASSUME GhostInv, NEW o \in Posts, NEW into \in Posts, Merge(o, into)
  PROVE  GhostInv'
<1> USE DEF GhostInv
<1>1. /\ today' = today /\ polls' = polls /\ board' = board /\ moved' = moved /\ Event
      /\ o # into /\ opp[o].stored /\ opp[into].stored /\ ~opp[o].merged
  BY DEF Merge
<1>2. PICK n \in Opps :
        /\ opp' = [opp EXCEPT ![o] = n] /\ n.merged /\ n.stored = opp[o].stored
        /\ n.closed = opp[o].closed /\ n.seen = opp[o].seen /\ n.base = opp[o].base
        /\ n.repost = opp[o].repost
  BY MergeFacts
<1>3. /\ opp' \in [Posts -> Opps] /\ opp'[o] = n
      /\ \A q \in Posts : q # o => opp'[q] = opp[q]
  BY <1>2, OneRow
<1>4. /\ link' \in [Posts -> Links]
      /\ \A q \in Posts : /\ link'[q].text = link[q].text
                          /\ link'[q].opp = IF link[q].opp = o THEN into ELSE link[q].opp
  BY MergeFacts
<1>5. TypeInv'
  <2>1. events' \in 0..MaxEvents /\ events \in Nat /\ events' = events + 1
    BY <1>1, EventFacts
  <2>2. \A q \in Posts : board[q].text <= events' /\ board[q].date <= events'
    BY <2>1, Fields DEF TypeInv
  <2> QED
    BY <1>1, <1>3, <1>4, <2>1, <2>2 DEF TypeInv, TypeOK
<1>6. link[o].opp = o
  BY <1>1, Zenon DEF Rows
<1>7. Absorbed(into)' # {}
  <2>1. o \in Absorbed(into)'
    BY <1>1, <1>4, <1>6 DEF Absorbed
  <2> QED
    BY <2>1
<1>8. ASSUME NEW q \in Posts, q # o, q # into
      PROVE  Absorbed(q)' = Absorbed(q)
  BY <1>4, <1>8 DEF Absorbed
<1>9. opp'[o].merged /\ opp'[o].stored
  BY <1>1, <1>2, <1>3
<1>10. Rows'
  <2>1. SUFFICES ASSUME NEW q \in Posts
                 PROVE  /\ ~opp'[q].merged => link'[q].opp = q
                        /\ ~opp'[q].stored => ~opp'[q].merged /\ Absorbed(q)' = {}
                        /\ link'[q].text <= board[q].text
    BY <1>1, Zenon DEF Rows
  <2>2. link'[q].text <= board[q].text
    BY <1>4 DEF Rows
  <2>3. ASSUME ~opp'[q].merged
        PROVE  link'[q].opp = q
    <3>1. q # o /\ ~opp[q].merged
      BY <1>3, <1>9, <2>3, Zenon
    <3>2. link[q].opp = q
      BY <3>1, Zenon DEF Rows
    <3> QED
      BY <1>4, <3>1, <3>2
  <2>4. ASSUME ~opp'[q].stored
        PROVE  ~opp'[q].merged /\ Absorbed(q)' = {}
    <3>1. q # o /\ opp'[q] = opp[q]
      BY <1>3, <1>9, <2>4, Zenon
    <3>2. q # into
      BY <1>1, <2>4, <3>1, Zenon
    <3> QED
      BY <1>8, <2>4, <3>1, <3>2, Zenon DEF Rows
  <2> QED
    BY <2>2, <2>3, <2>4, Zenon
<1>11. Dated'
  <2>1. ASSUME NEW q \in Posts, ~opp'[q].merged, Absorbed(q)' = {}
        PROVE  opp'[q] = opp[q] /\ Absorbed(q) = {} /\ link'[q].text = link[q].text
    <3>1. q # o /\ q # into
      BY <1>7, <1>9, <2>1, Zenon
    <3> QED
      BY <1>3, <1>4, <1>8, <2>1, <3>1
  <2>2. SUFFICES ASSUME NEW q \in Posts, ~opp'[q].merged, moved[q] = 0, Absorbed(q)' = {}
                 PROVE  /\ opp'[q].repost = 0
                        /\ (opp'[q].stored /\ link'[q].text = board[q].text
                              => board[q].date <= opp'[q].base)
    BY <1>1, Zenon DEF Dated
  <2> QED
    BY <2>1, <2>2, Zenon DEF Dated
<1>12. Past'
  <2>1. \A q \in Posts : /\ opp'[q].seen = opp[q].seen /\ opp'[q].closed = opp[q].closed
                         /\ opp'[q].stored = opp[q].stored
    BY <1>2, <1>3, Zenon
  <2> QED
    BY <1>1, <2>1, Zenon DEF Past
<1> QED
  BY <1>5, <1>10, <1>11, <1>12

LEMMA InvInit ==
  ASSUME Init
  PROVE  GhostInv
<1>1. /\ today = 0 /\ polls = 0 /\ events = 0
      /\ board = [p \in Posts |-> [text |-> 0, date |-> 0]]
      /\ link = [p \in Posts |-> [opp |-> p, text |-> 0]]
      /\ moved = [p \in Posts |-> 0]
  BY DEF Init
<1>2. 0 \in Days /\ 0 \in Dates /\ 0 \in 0..MaxPolls /\ 0 \in 0..MaxEvents
  BY BoundsAssumption DEF Days, Dates
<1>3. ASSUME NEW r \in [stored : {FALSE}, seen : {0}, base : {0}, repost : {0},
                        apply : BOOLEAN, closed : {{}}, merged : {FALSE}]
      PROVE  r \in Opps /\ ~r.stored /\ r.seen = 0 /\ r.repost = 0 /\ r.closed = {} /\ ~r.merged
  <2>1. /\ {0} \subseteq Days /\ {0} \subseteq Dates /\ {0} \subseteq Nat
        /\ {FALSE} \subseteq BOOLEAN /\ {{}} \subseteq SUBSET Days
    BY <1>2
  <2>2. r \in Opps
    BY <2>1 DEF Opps
  <2>3. /\ r.stored \in {FALSE} /\ r.seen \in {0} /\ r.repost \in {0}
        /\ r.closed \in {{}} /\ r.merged \in {FALSE}
    OBVIOUS
  <2>4. ~r.stored /\ ~r.merged
    BY <2>3, Zenon
  <2> QED
    BY <2>2, <2>3, <2>4
<1>4. opp \in [Posts -> Opps]
  BY <1>3 DEF Init
<1>5. \A o \in Posts : /\ ~opp[o].stored /\ opp[o].seen = 0 /\ opp[o].repost = 0
                       /\ opp[o].closed = {} /\ ~opp[o].merged
  BY <1>3 DEF Init
<1>6. TypeInv
  BY <1>1, <1>2, <1>4 DEF TypeInv, TypeOK, Links
<1>7. \A o \in Posts : /\ link[o].opp = o /\ link[o].text <= board[o].text
                       /\ Absorbed(o) = {}
  BY <1>1 DEF Absorbed
<1>8. Rows /\ Dated
  BY <1>5, <1>7, Zenon DEF Rows, Dated
<1>9. \A o \in Posts : opp[o].seen <= today
  BY <1>1, <1>5
<1> QED
  BY <1>5, <1>6, <1>8, <1>9, Zenon DEF GhostInv, Past

(* Together the four parts hold in every reachable state of the polls,      *)
(* closings and merges.                                                     *)
THEOREM Invariance == Spec => []GhostInv
<1>1. ASSUME GhostInv, [Next]_vars
      PROVE  GhostInv'
  <2>1. CASE UNCHANGED vars
    BY <1>1, <2>1, Zenon
       DEF vars, GhostInv, TypeInv, TypeOK, Rows, Dated, Past, Absorbed
  <2> QED
    BY <1>1, <2>1, DayStep, RefreshStep, RewordStep, PollStep, CloseStep, MergeStep DEF Next
<1> QED
  BY InvInit, <1>1, PTL DEF Spec
-----------------------------------------------------------------------------

(* Every row keeps the type of its columns, with any postings and bounds.   *)
THEOREM Typed == Spec => []TypeOK
<1>1. GhostInv => TypeOK
  BY DEF GhostInv, TypeInv
<1> QED
  BY <1>1, Invariance, PTL

(* MarkOpportunitySeen counts no refresh for a canonical row whose source   *)
(* never moved its date with the same text, whatever rewordings, closings,  *)
(* reopenings and merges of other rows there were.                          *)
THEOREM OnlyRefreshesCount == Spec => []NeverRefreshedNeverCounted
<1>1. GhostInv => NeverRefreshedNeverCounted
  BY Zenon DEF GhostInv, Dated, NeverRefreshedNeverCounted
<1> QED
  BY <1>1, Invariance, PTL
-----------------------------------------------------------------------------
(* The band of an ordinary opening. First the median: a rank that the       *)
(* closings reach has its day, and no day before the first closing.         *)
LEMMA LeastNatural ==
  ASSUME NEW T \in SUBSET Nat, T # {}
  PROVE  \E x \in T : \A y \in T : x <= y
<1>1. PICK R : R = OpToRel(<, Nat)
  BY Zenon
<1>2. R = {ss \in Nat \X Nat : ss[1] < ss[2]}
  BY <1>1, Zenon DEF OpToRel
<1>3. IsWellFoundedOn(R, Nat)
  BY <1>1, NatLessThanWellFounded, Zenon
<1>4. PICK x \in T : \A y \in T : ~(<<y, x>> \in R)
  BY <1>3, WFMin
<1>5. \A y \in T : ~(y < x)
  BY <1>2, <1>4
<1> QED
  BY <1>5

LEMMA ClosingDays ==
  ASSUME GhostInv
  PROVE  \A o \in Closings : DaysToClose(o) \in Days
<1>1. SUFFICES ASSUME NEW o \in Closings
               PROVE  DaysToClose(o) \in Days
  OBVIOUS
<1>2. o \in Posts /\ opp[o].closed # {}
  BY DEF Closings
<1>3. PICK c \in opp[o].seen..today : opp[o].closed = {c}
  BY <1>2, Zenon DEF GhostInv, Past
<1>4. opp[o].seen \in Nat /\ today \in Nat /\ today \in Days
  BY <1>2, Fields, BoundsAssumption DEF GhostInv, Days
<1>5. c \in Nat /\ c >= c
  BY <1>3, <1>4
<1>6. Max({c}) = c
  BY <1>5 DEF Max
<1>7. DaysToClose(o) = c - opp[o].seen
  BY <1>3, <1>6 DEF DaysToClose
<1> QED
  BY <1>3, <1>4, <1>7, BoundsAssumption DEF Days

LEMMA NthDay ==
  ASSUME GhostInv, NEW n \in Nat, n >= 1, n <= Cardinality(Closings),
         NEW days \in Nat, \A o \in Closings : DaysToClose(o) >= days
  PROVE  Nth(n) \in Nat /\ Nth(n) >= days
<1> DEFINE Upto(d) == {o \in Closings : DaysToClose(o) <= d}
           Before(d) == {o \in Closings : DaysToClose(o) < d}
           T == {d \in Days : Cardinality(Upto(d)) >= n}
<1>1. Days \subseteq Nat /\ MaxDay \in Days
  BY BoundsAssumption DEF Days
<1>2. \A o \in Closings : DaysToClose(o) \in Days /\ DaysToClose(o) \in Nat
  BY <1>1, ClosingDays
<1>3. IsFiniteSet(Closings)
  BY PostsAssumption, FS_Subset DEF Closings
<1>4. \A d \in Days : /\ Cardinality(Upto(d)) \in Nat
                      /\ Cardinality(Before(d)) \in Nat
  BY <1>3, FS_Subset, FS_CardinalityType
<1>5. MaxDay \in T
  <2>1. \A o \in Closings : DaysToClose(o) <= MaxDay
    BY <1>2, BoundsAssumption DEF Days
  <2>2. Upto(MaxDay) = Closings
    BY <2>1
  <2> QED
    BY <1>1, <2>2
<1>6. PICK x \in T : \A y \in T : x <= y
  <2>1. T \in SUBSET Nat /\ T # {}
    BY <1>1, <1>5
  <2> QED
    BY <2>1, LeastNatural
<1>7. x \in Days /\ x \in Nat
  BY <1>1, <1>6
<1>8. Cardinality(Before(x)) < n
  <2>1. CASE x = 0
    <3>1. Before(x) = {}
      BY <1>2, <2>1
    <3> QED
      BY <3>1, FS_EmptySet
  <2>2. CASE x # 0
    <3>1. x - 1 \in Days /\ ~(x <= x - 1)
      BY <1>7, <2>2, BoundsAssumption DEF Days
    <3>2. x - 1 \notin T
      BY <1>6, <3>1
    <3>3. ~(Cardinality(Upto(x - 1)) >= n)
      BY <3>1, <3>2
    <3>4. Before(x) = Upto(x - 1)
      BY <1>2, <1>7
    <3> HIDE DEF Upto, Before
    <3> QED
      BY <1>4, <3>1, <3>3, <3>4
  <2> QED
    BY <2>1, <2>2
<1>9. Nth(n) \in Days /\ Cardinality(Upto(Nth(n))) >= n
  <2>1. \E d \in Days : Cardinality(Before(d)) < n /\ Cardinality(Upto(d)) >= n
    BY <1>6, <1>7, <1>8
  <2>2. Nth(n) = CHOOSE d \in Days : Cardinality(Before(d)) < n /\ Cardinality(Upto(d)) >= n
    BY Zenon DEF Nth
  <2> HIDE DEF Upto, Before
  <2> QED
    BY <2>1, <2>2
<1>10. PICK d \in Days : d = Nth(n)
  BY <1>9
<1>11. Upto(d) # {}
  <2>1. Cardinality(Upto(d)) # 0
    <3> HIDE DEF Upto
    <3> QED
      BY <1>4, <1>9, <1>10
  <2> QED
    BY <2>1, FS_EmptySet
<1>12. PICK o \in Closings : DaysToClose(o) <= d
  BY <1>11
<1> QED
  BY <1>1, <1>2, <1>10, <1>12

LEMMA MedianNotBefore ==
  ASSUME GhostInv, NEW days \in Nat, \A o \in Closings : DaysToClose(o) >= days,
         CompanyMedianDaysToClose # 0
  PROVE  CompanyMedianDaysToClose \in Nat /\ CompanyMedianDaysToClose >= days
<1>1. PICK n : n = Cardinality(Closings)
  OBVIOUS
<1>2. n \in Nat
  BY <1>1, PostsAssumption, FS_Subset, FS_CardinalityType DEF Closings
<1>3. n # 0
  BY <1>1 DEF CompanyMedianDaysToClose
<1>4. /\ (n + 1) \div 2 \in Nat /\ (n + 1) \div 2 >= 1 /\ (n + 1) \div 2 <= n
      /\ n \div 2 + 1 \in Nat /\ n \div 2 + 1 >= 1 /\ n \div 2 + 1 <= n
  BY <1>2, <1>3
<1>5. PICK x \in Nat : x = Nth((n + 1) \div 2) /\ x >= days
  BY <1>1, <1>4, NthDay
<1>6. PICK y \in Nat : y = Nth(n \div 2 + 1) /\ y >= days
  BY <1>1, <1>4, NthDay
<1>7. CompanyMedianDaysToClose = RoundHalf(x + y)
  BY <1>1, <1>3, <1>5, <1>6 DEF CompanyMedianDaysToClose
<1> QED
  BY <1>5, <1>6, <1>7 DEF RoundHalf

(* No signal, no score.                                                     *)
LEMMA NoReasonIsNormal ==
  ASSUME NEW o, NEW m, Reasons(o, m) = {}
  PROVE  Band(o, m) = 0
<1> DEFINE Fn(f) == [s \in SUBSET {} |->
             IF s = {} THEN 0
             ELSE (CHOOSE x \in s : TRUE).score + f[s \ {CHOOSE x \in s : TRUE}]]
<1>1. Score(o, m) = (CHOOSE f : f = Fn(f))[{}]
  BY DEF Score, MapThenSumSet, MapThenFoldSet
<1>2. \E f : f = Fn(f)
  <2>1. PICK g : g = [s \in SUBSET {} |-> 0]
    OBVIOUS
  <2>2. g = Fn(g)
    BY <2>1
  <2> QED
    BY <2>2
<1>3. PICK g : g = (CHOOSE f : f = Fn(f))
  OBVIOUS
<1>4. g = Fn(g)
  BY <1>2, <1>3
<1>5. g[{}] = 0
  BY <1>4
<1>6. Score(o, m) = 0
  BY <1>1, <1>3, <1>5
<1> QED
  BY <1>6 DEF Band

LEMMA TimesIsMore ==
  ASSUME NEW m \in Nat, m > 0, NEW k \in Nat, k > 1
  PROVE  m * k \in Nat /\ m * k > m
<1>1. m * k = m + m * (k - 1) /\ m * (k - 1) = m + m * (k - 2) /\ k - 2 \in Nat
  OBVIOUS
<1>2. m * (k - 2) \in Nat
  BY <1>1
<1> QED
  BY <1>1, <1>2

(* Assess puts no ordinary opening above the lowest band, with the hiring   *)
(* pace of its company or without: one that can be applied to, that its     *)
(* source never refreshed, and that is open no longer than any that the     *)
(* company closed.                                                          *)
THEOREM OrdinaryStaysNormal == Spec => []OrdinaryIsNormal
<1>1. ASSUME GhostInv, NEW o \in Shown, NEW m \in Medians,
             moved[o] = 0, Absorbed(o) = {}, opp[o].apply,
             IF m = 0 THEN DaysOpen(o) < StaleDays
             ELSE \A c \in Closings : DaysToClose(c) >= DaysOpen(o)
      PROVE  Band(o, m) = 0
  <2>1. o \in Posts /\ ~opp[o].merged
    BY DEF Shown
  <2>2. opp[o].repost = 0
    BY <1>1, <2>1, Zenon DEF GhostInv, Dated
  <2>3. Refreshes(o) = {}
    BY <2>2, ThresholdsAssumption DEF Refreshes
  <2>4. PICK days \in Nat : days = DaysOpen(o)
    <3>1. opp[o].seen \in Nat /\ today \in Nat /\ opp[o].seen <= today
      BY <1>1, <2>1, Fields, BoundsAssumption DEF GhostInv, Past, Days
    <3> QED
      BY <3>1 DEF DaysOpen
  <2>5. Age(o, m) = {}
    <3>1. CASE m = 0
      <4>1. ~(m > 0) /\ days < StaleDays
        BY <1>1, <2>4, <3>1
      <4>2. Absolute(days) = {}
        BY <4>1, ThresholdsAssumption DEF Absolute
      <4> QED
        BY <2>4, <4>1, <4>2 DEF Age
    <3>2. CASE m # 0
      <4>1. m = CompanyMedianDaysToClose
        BY <1>1, <3>2 DEF Medians
      <4>2. m \in Nat /\ m >= days
        BY <1>1, <2>4, <3>2, <4>1, MedianNotBefore
      <4>3. m > 0
        BY <3>2, <4>2
      <4>4. /\ m * MedianElevated \in Nat /\ m * MedianElevated > m
            /\ m * MedianHigh \in Nat /\ m * MedianHigh > m
        BY <4>2, <4>3, TimesIsMore, ThresholdsAssumption
      <4>5. Relative(days, m) = {}
        BY <4>2, <4>4 DEF Relative
      <4> QED
        BY <2>4, <4>3, <4>5 DEF Age
    <3> QED
      BY <3>1, <3>2
  <2>6. Reasons(o, m) = {}
    BY <1>1, <2>3, <2>5 DEF Reasons
  <2> QED
    BY <2>6, NoReasonIsNormal
<1>2. GhostInv => OrdinaryIsNormal
  BY <1>1, Zenon DEF OrdinaryIsNormal
<1> QED
  BY <1>2, Invariance, PTL
=============================================================================
