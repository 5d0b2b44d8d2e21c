------------------------- MODULE SourceHealthProofs -------------------------
(***************************************************************************)
(* Proofs about SourceHealth, for any number of pollers, fields, days and  *)
(* polls, any reports and any limits.                                      *)
(***************************************************************************)
EXTENDS SourceHealth, TLAPS, FiniteSetTheorems, WellFoundedInduction

(* Induction, as a fact about sets of naturals.                             *)
LEMMA LeastNatural ==
  ASSUME NEW T \in SUBSET Nat, T # {}
  PROVE  \E x \in T : \A y \in T : x <= y
<1>1. PICK R : R = OpToRel(<, Nat)
  BY Zenon
<1>2. R = {ss \in Nat \X Nat : ss[1] < ss[2]}
  BY <1>1, Zenon DEF OpToRel
<1>3. IsWellFoundedOn(R, Nat)
  BY <1>1, NatLessThanWellFounded, Zenon
<1>4. PICK x \in T : \A y \in T : ~(<<y, x>> \in R)
  BY <1>3, WFMin
<1>5. \A y \in T : ~(y < x)
  BY <1>2, <1>4
<1> QED
  BY <1>5

LEMMA Induct ==
  ASSUME NEW T \in SUBSET Nat, 0 \in T, \A n \in T : n + 1 \in T
  PROVE  T = Nat
<1>1. SUFFICES ASSUME Nat \ T # {} PROVE FALSE
  OBVIOUS
<1>2. PICK x \in Nat \ T : \A y \in Nat \ T : x <= y
  BY <1>1, LeastNatural
<1>3. x # 0 /\ x - 1 \in Nat /\ ~(x <= x - 1)
  BY <1>2
<1>4. x - 1 \in T
  BY <1>2, <1>3
<1>5. (x - 1) + 1 \in T
  BY <1>4
<1> QED
  BY <1>2, <1>3, <1>5
-----------------------------------------------------------------------------
(* Sums. What SumFunction computes by recursion over the subsets of its domain.     *)
Pick(s) == CHOOSE x \in s : TRUE
Sums(f, S, g) ==
  g = [s \in SUBSET S |-> IF s = {} THEN 0 ELSE f[Pick(s)] + g[s \ {Pick(s)}]]

LEMMA SumUnfolds ==
  ASSUME NEW f PROVE SumFunction(f) = (CHOOSE g : Sums(f, DOMAIN f, g))[DOMAIN f]
  BY Zenon DEF SumFunction, SumFunctionOnSet, FoldFunctionOnSet, MapThenFoldSet, Sums, Pick

LEMMA PickShrinks ==
  ASSUME NEW s, IsFiniteSet(s), s # {}
  PROVE  /\ Pick(s) \in s
         /\ IsFiniteSet(s \ {Pick(s)})
         /\ Cardinality(s) \in Nat /\ Cardinality(s \ {Pick(s)}) \in Nat
         /\ Cardinality(s \ {Pick(s)}) + 1 = Cardinality(s)
<1>1. Pick(s) \in s
  BY DEF Pick
<1>2. Cardinality(s) \in Nat
  BY FS_CardinalityType
<1>3. /\ IsFiniteSet(s \ {Pick(s)})
      /\ Cardinality(s \ {Pick(s)}) = Cardinality(s) - 1
  BY <1>1, FS_RemoveElement
<1>4. Cardinality(s \ {Pick(s)}) \in Nat
  BY <1>3, FS_CardinalityType
<1> QED
  BY <1>1, <1>2, <1>3, <1>4

LEMMA SumsExist ==
  ASSUME NEW S, IsFiniteSet(S), NEW f \in [S -> Nat]
  PROVE  \E g : Sums(f, S, g)
<1> DEFINE Small(n) == {s \in SUBSET S : Cardinality(s) <= n}
           Next1(g, s) == IF s = {} THEN 0 ELSE f[Pick(s)] + g[s \ {Pick(s)}]
           Good(n, g) == g \in [Small(n) -> Nat] /\ \A s \in Small(n) : g[s] = Next1(g, s)
           T == {n \in Nat : \E g : Good(n, g)}
<1>1. \A s \in SUBSET S : IsFiniteSet(s) /\ Cardinality(s) \in Nat
  BY FS_Subset, FS_CardinalityType
<1>2. 0 \in T
  <2>1. \A s \in Small(0) : s = {}
    BY <1>1, FS_EmptySet
  <2>2. Good(0, [s \in Small(0) |-> 0])
    BY <2>1
  <2> QED
    BY <2>2
<1>3. \A n \in T : n + 1 \in T
  <2>1. TAKE n \in T
  <2>2. PICK g : Good(n, g)
    OBVIOUS
  <2> DEFINE h == [s \in Small(n + 1) |-> Next1(g, s)]
  <2>3. \A s \in Small(n + 1) : s # {} => Pick(s) \in s /\ s \ {Pick(s)} \in Small(n)
    BY <1>1, PickShrinks
  <2>4. \A s \in Small(n) : s \in Small(n + 1) /\ h[s] = g[s]
    BY <1>1, <2>2
  <2>5. h \in [Small(n + 1) -> Nat]
    BY <2>2, <2>3
  <2>6. \A s \in Small(n + 1) : h[s] = Next1(h, s)
    BY <2>3, <2>4
  <2>7. Good(n + 1, h)
    BY <2>5, <2>6
  <2>8. n + 1 \in Nat
    OBVIOUS
  <2> HIDE DEF Good
  <2> QED
    BY <2>7, <2>8
<1>4. T = Nat
  <2> HIDE DEF T
  <2>1. T \in SUBSET Nat
    BY DEF T
  <2> QED
    BY <1>2, <1>3, <2>1, Induct
<1>5. Cardinality(S) \in T
  BY <1>1, <1>4
<1>6. PICK g : Good(Cardinality(S), g)
  BY <1>5
<1>7. Small(Cardinality(S)) = SUBSET S
  BY <1>1, FS_Subset
<1>8. g = [s \in SUBSET S |-> Next1(g, s)]
  BY <1>6, <1>7
<1> QED
  BY <1>8 DEF Sums

LEMMA SumType ==
  ASSUME NEW S, IsFiniteSet(S), NEW f \in [S -> Nat]
  PROVE  SumFunction(f) \in Nat
<1>1. PICK g : g = CHOOSE h : Sums(f, S, h)
  OBVIOUS
<1>2. Sums(f, S, g)
  BY <1>1, SumsExist
<1> DEFINE T == {n \in Nat : \A s \in SUBSET S : Cardinality(s) <= n => g[s] \in Nat}
<1>3. \A s \in SUBSET S : IsFiniteSet(s) /\ Cardinality(s) \in Nat
  BY FS_Subset, FS_CardinalityType
<1>4. 0 \in T
  <2>1. \A s \in SUBSET S : Cardinality(s) <= 0 => s = {}
    BY <1>3, FS_EmptySet
  <2>2. g[{}] = 0
    BY <1>2 DEF Sums
  <2> QED
    BY <2>1, <2>2
<1>5. \A n \in T : n + 1 \in T
  <2>1. TAKE n \in T
  <2>2. SUFFICES ASSUME NEW s \in SUBSET S, Cardinality(s) <= n + 1
                 PROVE  g[s] \in Nat
    OBVIOUS
  <2>3. CASE s = {}
    BY <1>2, <2>3 DEF Sums
  <2>4. CASE s # {}
    <3>1. Pick(s) \in S /\ s \ {Pick(s)} \in SUBSET S /\ Cardinality(s \ {Pick(s)}) <= n
      BY <1>3, <2>2, <2>4, PickShrinks
    <3>2. g[s] = f[Pick(s)] + g[s \ {Pick(s)}]
      BY <1>2, <2>4 DEF Sums
    <3> QED
      BY <3>1, <3>2
  <2> QED
    BY <2>3, <2>4
<1>6. T = Nat
  <2> HIDE DEF T
  <2>1. T \in SUBSET Nat
    BY DEF T
  <2> QED
    BY <1>4, <1>5, <2>1, Induct
<1>7. g[S] \in Nat
  BY <1>3, <1>6
<1>8. SumFunction(f) = g[S]
  BY <1>1, SumUnfolds
<1> QED
  BY <1>7, <1>8
-----------------------------------------------------------------------------
(* The count behind a sign, its limit, and whether the baseline's own share *)
(* of it is large enough to be compared with.                               *)
Part(m, sign) == IF sign = "yield" THEN m.usable ELSE m.fill[sign]
DropLimit(sign) == IF sign = "yield" THEN YieldDropLimit ELSE FillDropLimit
Cares(sign, b) ==
  IF sign = "yield" THEN b.usable > 0
  ELSE b.postings > 0 /\ 100 * b.fill[sign] >= FillFloorToCare * b.postings

Counted(m) == m \in Metrics /\ \A sign \in Signs : Part(m, sign) <= m.postings

(* What a sum r of some of the polls S keeps of them: no share that all     *)
(* stay below is exceeded, none that all of those with postings exceed is   *)
(* missed, and it is large enough if each of them is.                       *)
Mixed(r, S) ==
  /\ S # {} /\ Counted(r)
  /\ (\A m \in S : Known(m)) => Known(r)
  /\ \A sign \in Signs, X, Y \in Int :
       /\ (\A m \in S : X * Part(m, sign) <= Y * m.postings) =>
            X * Part(r, sign) <= Y * r.postings
       /\ (\A m \in S : m.postings > 0 => X * Part(m, sign) > Y * m.postings) /\ r.postings > 0 =>
            X * Part(r, sign) > Y * r.postings

(* The row of a day is a sum of its polls ...                               *)
RowKnown(d) == daily[d] = {} \/ \E r \in Metrics : daily[d] = {r} /\ Mixed(r, PolledOn(d))

(* ... and so is the row that an evaluation has read, of no later day.      *)
EvalKnown(p) ==
  /\ \A d \in eval[p].on : d <= day
  /\ At(p, "base") => \E d \in Days : eval[p].on = {d} /\ Mixed(eval[p].today, PolledOn(d))

Setting == {p \in Pollers : At(p, "set")}

(* On a rotten day nobody finds the source healthy, every verdict is in the *)
(* counter or about to be, and a counter that reached the limit is about to *)
(* be read.                                                                 *)
RotCounted(d) ==
  /\ \A p \in Pollers : At(p, "clear") => d \notin eval[p].on
  /\ judged[d] <= consecutive + Cardinality(Setting)
  /\ \/ consecutive < ConsecutiveToQuarantine \/ status = "quarantined"
     \/ \E p \in Pollers : At(p, "read") \/ At(p, "quarantine")
     \/ judged[d] <= Cardinality(Setting)

HealthInv ==
  /\ TypeOK
  /\ \A d \in Days : RowKnown(d)
  /\ \A p \in Pollers : EvalKnown(p)
  /\ \A d \in Days : d > day => judged[d] = 0
  /\ \A d \in Days : Rotten(d) => RotCounted(d)
-----------------------------------------------------------------------------
(* Shares, compared by cross-multiplication.                                *)
LEMMA Distribute == \A x, a, b \in Int : x * (a + b) = x * a + x * b
  OBVIOUS

LEMMA DropArithmetic ==
  \A bu, bp, cu, cp, limit \in Int :
    100 * (bu * cp - cu * bp) >= limit * (bu * cp) <=> (100 * bp) * cu <= ((100 - limit) * bu) * cp
  OBVIOUS

LEMMA LimitTypes ==
  /\ MinSample \in Nat \ {0} /\ ConsecutiveToQuarantine \in Nat \ {0}
  /\ YieldDropLimit \in Int /\ FillDropLimit \in Int /\ FillFloorToCare \in Int
  /\ \A sign : DropLimit(sign) \in Int
  BY LimitsAssumption DEF DropLimit

LEMMA PartTypes ==
  ASSUME NEW m \in Metrics, NEW sign \in Signs
  PROVE  /\ Part(m, sign) \in Nat /\ m.postings \in Nat
         /\ Part(m, sign) \in Int /\ m.postings \in Int
  BY DEF Metrics, Signs, Part

LEMMA DropIsLinear ==
  ASSUME NEW c \in Metrics, NEW b \in Metrics, NEW sign \in Signs
  PROVE  Shows(c, sign, b) <=>
           /\ c.postings > 0 /\ Cares(sign, b)
           /\ (100 * b.postings) * Part(c, sign)
                <= ((100 - DropLimit(sign)) * Part(b, sign)) * c.postings
<1>0. /\ Part(c, sign) \in Int /\ c.postings \in Int /\ Part(b, sign) \in Int /\ b.postings \in Int
      /\ DropLimit(sign) \in Int
  BY PartTypes, LimitTypes
<1>1. 100 * (Part(b, sign) * c.postings - Part(c, sign) * b.postings)
        >= DropLimit(sign) * (Part(b, sign) * c.postings)
      <=> (100 * b.postings) * Part(c, sign)
            <= ((100 - DropLimit(sign)) * Part(b, sign)) * c.postings
  BY <1>0, DropArithmetic
<1>2. CASE sign = "yield"
  <2>1. Shows(c, sign, b) <=>
          /\ c.postings > 0 /\ Cares(sign, b)
          /\ 100 * (Part(b, sign) * c.postings - Part(c, sign) * b.postings)
               >= DropLimit(sign) * (Part(b, sign) * c.postings)
    BY <1>2, Zenon DEF Shows, YieldDropped, Part, DropLimit, Cares
  <2> QED
    BY <1>1, <2>1
<1>3. CASE sign # "yield"
  <2>1. Shows(c, sign, b) <=>
          /\ c.postings > 0 /\ Cares(sign, b)
          /\ 100 * (Part(b, sign) * c.postings - Part(c, sign) * b.postings)
               >= DropLimit(sign) * (Part(b, sign) * c.postings)
    BY <1>3, Zenon DEF Shows, FillDropped, Part, DropLimit, Cares
  <2> QED
    BY <1>1, <2>1
<1> QED
  BY <1>2, <1>3

(* A verdict of degraded is a sign shown by the whole row.                  *)
LEMMA Degraded ==
  ASSUME NEW c \in Metrics, NEW b \in Metrics
  PROVE  /\ Compare(c, b) = "degraded" =>
              c.postings > 0 /\ \E sign \in Signs : Shows(c, sign, b)
         /\ Known(c) /\ Known(b) /\ (\E sign \in Signs : Shows(c, sign, b)) =>
              Compare(c, b) = "degraded"
<1>1. c.postings \in Nat /\ b.postings \in Nat /\ MinSample \in Nat \ {0}
  BY LimitTypes DEF Metrics
<1>2. ASSUME ~(c.postings < MinSample)
      PROVE  (\E sign \in Signs : Shows(c, sign, b)) <=>
               YieldDropped(c, b) \/ \E f \in Fields : FillDropped(f, c, b)
  <2>1. c.postings > 0
    BY <1>1, <1>2
  <2> QED
    BY <2>1, FieldsAssumption DEF Shows, Signs
<1>3. Known(c) <=> ~(c.postings < MinSample)
  BY <1>1 DEF Known
<1>4. Known(b) <=> ~(b.postings < MinSample)
  BY <1>1 DEF Known
<1>5. Known(c) => c.postings > 0
  BY <1>1 DEF Known
<1> QED
  BY <1>2, <1>3, <1>4, <1>5 DEF Compare

LEMMA ReportsCounted == \A m \in Reports : m \in Metrics /\ Counted(m)
  BY ReportsAssumption DEF Counted, Part, Signs

(* Sums of polls.                                                           *)
LEMMA MixedOne == ASSUME NEW m \in Reports PROVE Mixed(m, {m})
  BY ReportsCounted DEF Mixed

LEMMA MixedGrows ==
  ASSUME NEW r, NEW S, NEW T, Mixed(r, S), S \subseteq T
  PROVE  Mixed(r, T)
  BY DEF Mixed

LEMMA PlusParts ==
  ASSUME NEW a \in Metrics, NEW b \in Metrics
  PROVE  /\ Plus(a, b) \in Metrics
         /\ Plus(a, b).postings = a.postings + b.postings
         /\ \A sign \in Signs : Part(Plus(a, b), sign) = Part(a, sign) + Part(b, sign)
  BY DEF Plus, Metrics, Part, Signs

LEMMA MixedPlus ==
  ASSUME NEW r, NEW S, Mixed(r, S), NEW m \in Reports, m \in S
  PROVE  Mixed(Plus(r, m), S)
<1>0. r \in Metrics /\ m \in Metrics /\ Counted(r) /\ Counted(m)
  BY ReportsCounted DEF Mixed, Counted
<1>1. /\ Plus(r, m) \in Metrics /\ Plus(r, m).postings = r.postings + m.postings
      /\ \A sign \in Signs : Part(Plus(r, m), sign) = Part(r, sign) + Part(m, sign)
  BY <1>0, PlusParts
<1>2. r.postings \in Nat /\ m.postings \in Nat /\ MinSample \in Nat
  BY <1>0, LimitTypes DEF Metrics
<1>3. Counted(Plus(r, m))
  <2>1. ASSUME NEW sign \in Signs PROVE Part(Plus(r, m), sign) <= Plus(r, m).postings
    <3>1. Part(r, sign) <= r.postings /\ Part(m, sign) <= m.postings
      BY <1>0 DEF Counted
    <3> QED
      BY <1>0, <1>1, <3>1, PartTypes
  <2> QED
    BY <1>1, <2>1 DEF Counted
<1>4. (\A x \in S : Known(x)) => Known(Plus(r, m))
  BY <1>1, <1>2 DEF Mixed, Known
<1>5. ASSUME NEW sign \in Signs, NEW X \in Int, NEW Y \in Int
      PROVE  /\ (\A x \in S : X * Part(x, sign) <= Y * x.postings) =>
                  X * Part(Plus(r, m), sign) <= Y * Plus(r, m).postings
             /\ /\ \A x \in S : x.postings > 0 => X * Part(x, sign) > Y * x.postings
                /\ Plus(r, m).postings > 0
                => X * Part(Plus(r, m), sign) > Y * Plus(r, m).postings
  <2>1. PICK ru, rp, mu, mp \in Nat :
          ru = Part(r, sign) /\ rp = r.postings /\ mu = Part(m, sign) /\ mp = m.postings
    BY <1>0, PartTypes
  <2>2. /\ X * (ru + mu) = X * ru + X * mu /\ Y * (rp + mp) = Y * rp + Y * mp
        /\ {X * ru, X * mu, Y * rp, Y * mp} \subseteq Int
    BY Distribute
  <2>3. ru <= rp /\ mu <= mp
    BY <1>0, <2>1 DEF Counted
  <2>4. Part(Plus(r, m), sign) = ru + mu /\ Plus(r, m).postings = rp + mp
    BY <1>1, <2>1
  <2>5. ASSUME \A x \in S : X * Part(x, sign) <= Y * x.postings
        PROVE  X * (ru + mu) <= Y * (rp + mp)
    <3>1. X * ru <= Y * rp
      BY <2>1, <2>5 DEF Mixed
    <3>2. X * mu <= Y * mp
      BY <2>1, <2>5
    <3> QED
      BY <2>2, <3>1, <3>2
  <2>6. ASSUME \A x \in S : x.postings > 0 => X * Part(x, sign) > Y * x.postings, rp + mp > 0
        PROVE  X * (ru + mu) > Y * (rp + mp)
    <3>1. rp > 0 => X * ru > Y * rp
      BY <2>1, <2>6 DEF Mixed
    <3>2. mp > 0 => X * mu > Y * mp
      BY <2>1, <2>6
    <3>3. rp = 0 => X * ru = 0 /\ Y * rp = 0
      BY <2>3
    <3>4. mp = 0 => X * mu = 0 /\ Y * mp = 0
      BY <2>3
    <3> QED
      BY <2>2, <2>6, <3>1, <3>2, <3>3, <3>4
  <2> QED
    BY <2>4, <2>5, <2>6
<1> QED
  BY <1>3, <1>4, <1>5 DEF Mixed

(* A row all of whose polls show a sign shows it, and none of whose polls   *)
(* shows it does not.                                                       *)
LEMMA RowShows ==
  ASSUME NEW r, NEW S \in SUBSET Metrics, Mixed(r, S), NEW b \in Metrics, NEW sign \in Signs
  PROVE  /\ (\A m \in S : Shows(m, sign, b)) /\ Cares(sign, b) /\ r.postings > 0 =>
              Shows(r, sign, b)
         /\ Shows(r, sign, b) => \E m \in S : Shows(m, sign, b)
<1>0. r \in Metrics /\ r.postings \in Int /\ Part(r, sign) \in Int
  BY PartTypes DEF Mixed, Counted
<1>1. PICK X, Y \in Int :
        X = 100 * b.postings /\ Y = (100 - DropLimit(sign)) * Part(b, sign)
  BY PartTypes, LimitTypes
<1>2. \A c \in Metrics : Shows(c, sign, b) <=>
        c.postings > 0 /\ Cares(sign, b) /\ X * Part(c, sign) <= Y * c.postings
  BY <1>1, DropIsLinear
<1>3. \A m \in S : m \in Metrics /\ m.postings \in Int /\ Part(m, sign) \in Int
  BY PartTypes
<1>4. \A c \in Metrics : /\ X * Part(c, sign) \in Int /\ Y * c.postings \in Int
                         /\ X * Part(c, sign) > Y * c.postings <=>
                              ~(X * Part(c, sign) <= Y * c.postings)
  BY PartTypes
<1>5. (\A m \in S : X * Part(m, sign) <= Y * m.postings) =>
            X * Part(r, sign) <= Y * r.postings
  BY DEF Mixed
<1>6. (\A m \in S : m.postings > 0 => X * Part(m, sign) > Y * m.postings) /\ r.postings > 0 =>
            X * Part(r, sign) > Y * r.postings
  BY DEF Mixed
<1>7. Shows(r, sign, b) => \E m \in S : Shows(m, sign, b)
  <2>1. SUFFICES ASSUME Shows(r, sign, b), \A m \in S : ~Shows(m, sign, b) PROVE FALSE
    OBVIOUS
  <2>2. r.postings > 0 /\ Cares(sign, b) /\ X * Part(r, sign) <= Y * r.postings
    BY <1>0, <1>2, <2>1
  <2>3. \A m \in S : m.postings > 0 => ~(X * Part(m, sign) <= Y * m.postings)
    BY <1>2, <2>1, <2>2
  <2> QED
    BY <1>0, <1>4, <1>6, <2>2, <2>3
<1>8. (\A m \in S : Shows(m, sign, b)) /\ Cares(sign, b) /\ r.postings > 0 => Shows(r, sign, b)
  BY <1>0, <1>2, <1>5
<1> QED
  BY <1>7, <1>8
-----------------------------------------------------------------------------
(* The window's rows, and their sum.                                        *)
Window(d) ==
  UNION {{e} \X daily[e] : e \in {e \in Days : e < d /\ e >= d - BaselineWindowDays}}

LEMMA BaselineIs ==
  ASSUME NEW d
  PROVE  BaselineSourceHealth(d) =
           [postings |-> SumFunction([r \in Window(d) |-> r[2].postings]),
            usable |-> SumFunction([r \in Window(d) |-> r[2].usable]),
            fill |-> [f \in Fields |-> SumFunction([r \in Window(d) |-> r[2].fill[f]])]]
  BY DEF BaselineSourceHealth, Window

LEMMA WindowFinite ==
  ASSUME \A e \in Days : RowKnown(e), NEW d \in Days
  PROVE  IsFiniteSet(Window(d)) /\ \A r \in Window(d) : r[2] \in Metrics
<1>1. \A r \in Window(d) : /\ r[1] \in Days /\ daily[r[1]] = {r[2]}
                           /\ r = <<r[1], r[2]>> /\ r[2] \in Metrics
  BY DEF Window, RowKnown
<1> DEFINE g == [r \in Window(d) |-> r[1]]
<1>2. \A r, s \in Window(d) : r[1] = s[1] => r = s
  BY <1>1
<1>3. g \in Injection(Window(d), Days)
  BY <1>1, <1>2 DEF Injection, IsInjective
<1>4. IsFiniteSet(Days)
  BY FS_Interval, BoundsAssumption DEF Days
<1> QED
  BY <1>1, <1>3, <1>4, FS_Injection

LEMMA BaselineType ==
  ASSUME \A e \in Days : RowKnown(e), NEW d \in Days
  PROVE  BaselineSourceHealth(d) \in Metrics
<1>1. PICK W : W = Window(d) /\ IsFiniteSet(W) /\ \A r \in W : r[2] \in Metrics
  BY WindowFinite
<1>2. SumFunction([r \in W |-> r[2].postings]) \in Nat
  <2>1. [r \in W |-> r[2].postings] \in [W -> Nat]
    BY <1>1 DEF Metrics
  <2> QED
    BY <1>1, <2>1, SumType
<1>3. SumFunction([r \in W |-> r[2].usable]) \in Nat
  <2>1. [r \in W |-> r[2].usable] \in [W -> Nat]
    BY <1>1 DEF Metrics
  <2> QED
    BY <1>1, <2>1, SumType
<1>4. ASSUME NEW f \in Fields PROVE SumFunction([r \in W |-> r[2].fill[f]]) \in Nat
  <2>1. [r \in W |-> r[2].fill[f]] \in [W -> Nat]
    BY <1>1 DEF Metrics
  <2> QED
    BY <1>1, <2>1, SumType
<1> QED
  BY <1>1, <1>2, <1>3, <1>4, BaselineIs DEF Metrics
-----------------------------------------------------------------------------
(* A poller's evaluation moves on, the others stay where they are.          *)
Moves(p, new) == new \in Evals /\ eval' = [eval EXCEPT ![p] = new]

LEMMA PollersFinite == IsFiniteSet(Pollers) /\ IsFiniteSet(Setting) /\ Cardinality(Setting) \in Nat
  BY PollersAssumption, FS_Union, FS_Subset, FS_CardinalityType DEF Pollers, Setting

LEMMA NoEvalType == NoEval \in Evals /\ NoEval.pc = "none" /\ NoEval.on = {}
  BY DEF NoEval, Evals, Metrics, NoPostings

LEMMA MovesFacts ==
  ASSUME TypeOK, NEW p \in Pollers, NEW new, Moves(p, new)
  PROVE  /\ eval' \in [Pollers -> Evals]
         /\ eval'[p] = new
         /\ \A q \in Pollers : q # p => eval'[q] = eval[q]
         /\ Cardinality(Setting') \in Nat
         /\ new.pc = "set" /\ eval[p].pc # "set" => Cardinality(Setting') = Cardinality(Setting) + 1
         /\ new.pc # "set" /\ eval[p].pc = "set" => Cardinality(Setting') + 1 = Cardinality(Setting)
         /\ (new.pc = "set" <=> eval[p].pc = "set") => Setting' = Setting
<1>1. /\ eval' \in [Pollers -> Evals] /\ eval'[p] = new
      /\ \A q \in Pollers : q # p => eval'[q] = eval[q]
  BY DEF Moves, TypeOK
<1>2. new.pc = "set" => Setting' = Setting \cup {p}
  BY <1>1 DEF Setting, At
<1>3. new.pc # "set" => Setting' = Setting \ {p}
  BY <1>1 DEF Setting, At
<1>4. p \in Setting <=> eval[p].pc = "set"
  BY DEF Setting, At
<1>5. IsFiniteSet(Setting) /\ Cardinality(Setting) \in Nat
  BY PollersFinite
<1>6. /\ Cardinality(Setting \cup {p}) = IF p \in Setting THEN Cardinality(Setting)
                                         ELSE Cardinality(Setting) + 1
      /\ Cardinality(Setting \ {p}) = IF p \in Setting THEN Cardinality(Setting) - 1
                                      ELSE Cardinality(Setting)
      /\ Cardinality(Setting \cup {p}) \in Nat /\ Cardinality(Setting \ {p}) \in Nat
  BY <1>5, FS_AddElement, FS_RemoveElement, FS_CardinalityType
<1>7. Cardinality(Setting') \in Nat
  BY <1>2, <1>3, <1>6
<1>8. (new.pc = "set" <=> eval[p].pc = "set") => Setting' = Setting
  BY <1>2, <1>3, <1>4
<1>9. new.pc = "set" /\ eval[p].pc # "set" => Cardinality(Setting') = Cardinality(Setting) + 1
  BY <1>2, <1>4, <1>6
<1>10. new.pc # "set" /\ eval[p].pc = "set" => Cardinality(Setting') + 1 = Cardinality(Setting)
  BY <1>3, <1>4, <1>5, <1>6
<1> QED
  BY <1>1, <1>7, <1>8, <1>9, <1>10

(* What every step keeps: the polls of a day, and the days that are over.   *)
Frame ==
  /\ day' \in Days /\ day <= day'
  /\ \A d \in Days : PolledOn(d) \subseteq PolledOn(d)'
  /\ \A d \in Days : d < day => daily'[d] = daily[d]

LEMMA RottenBefore ==
  ASSUME TypeOK, Frame, NEW d \in Days, d <= day, Rotten(d)'
  PROVE  Rotten(d) /\ BaselineSourceHealth(d)' = BaselineSourceHealth(d)
<1>1. \A e \in Days : e < d => daily'[e] = daily[e]
  <2>1. day \in Int /\ d \in Int /\ \A e \in Days : e \in Int
    BY BoundsAssumption DEF TypeOK, Days
  <2>2. \A e \in Days : e < day => daily'[e] = daily[e]
    BY DEF Frame
  <2>3. \A e \in Days : e < d => e < day
    BY <2>1
  <2> QED
    BY <2>2, <2>3
<1>2. Window(d)' = Window(d)
  BY <1>1 DEF Window
<1>3. BaselineSourceHealth(d)' = BaselineSourceHealth(d)
  BY <1>2, BaselineIs DEF BaselineSourceHealth, Window
<1>4. PICK sign \in Signs : \A m \in PolledOn(d)' : Shows(m, sign, BaselineSourceHealth(d)')
  BY DEF Rotten
<1>5. PolledOn(d) \subseteq PolledOn(d)'
  BY DEF Frame
<1>6. Known(BaselineSourceHealth(d)') /\ \A m \in PolledOn(d)' : Known(m)
  BY DEF Rotten
<1> QED
  BY <1>3, <1>4, <1>5, <1>6 DEF Rotten

(* Of a day that is still to come nothing was judged.                       *)
LEMMA FutureCounted ==
  ASSUME NEW d \in Days, judged'[d] = 0, \A p \in Pollers : d \notin eval'[p].on,
         consecutive' \in Nat
  PROVE  RotCounted(d)'
<1>1. Cardinality(Setting') \in Nat
  BY PollersFinite, FS_Subset, FS_CardinalityType DEF Setting
<1> QED
  BY <1>1 DEF RotCounted

(* The steps of the invariant that all actions share: what is left for each *)
(* is the row that it writes, its own evaluation, and the count.            *)
LEMMA InvFrom ==
  ASSUME HealthInv, Frame, TypeOK',
         \A d \in Days : RowKnown(d)',
         \A p \in Pollers : EvalKnown(p)' /\ \A d \in eval'[p].on : d <= day,
         \A d \in Days : judged'[d] = judged[d] \/ judged'[d] = 0 \/ d <= day,
         \A d \in Days : d <= day /\ Rotten(d) /\ RotCounted(d) => RotCounted(d)'
  PROVE  HealthInv'
<1>0. day \in Nat /\ day' \in Nat /\ day <= day' /\ \A d \in Days : d \in Nat
  BY BoundsAssumption DEF HealthInv, TypeOK, Days, Frame
<1>1. \A d \in Days : d > day => judged'[d] = 0
  BY <1>0 DEF HealthInv
<1>2. \A d \in Days : d > day' => judged'[d] = 0
  BY <1>0, <1>1
<1>3. ASSUME NEW d \in Days, Rotten(d)' PROVE RotCounted(d)'
  <2>1. CASE d <= day
    BY <1>3, <2>1, RottenBefore DEF HealthInv
  <2>2. CASE ~(d <= day)
    <3>1. judged'[d] = 0
      BY <1>0, <1>1, <2>2
    <3>2. consecutive' \in Nat
      BY DEF TypeOK
    <3> QED
      BY <2>2, <3>1, <3>2, FutureCounted
  <2> QED
    BY <2>1, <2>2
<1> QED
  BY <1>2, <1>3 DEF HealthInv

(* A step that polls nothing keeps the rows.                                *)
LEMMA SameRows ==
  ASSUME HealthInv, UNCHANGED <<daily, log>>, day' \in Days, day <= day'
  PROVE  Frame /\ \A d \in Days : RowKnown(d)'
  BY DEF HealthInv, Frame, PolledOn, RowKnown

(* The evaluations of the others keep what they know.                       *)
LEMMA OthersKnow ==
  ASSUME HealthInv, Frame, NEW q \in Pollers, eval'[q] = eval[q]
  PROVE  EvalKnown(q)' /\ \A d \in eval'[q].on : d <= day
<1>0. day \in Nat /\ day' \in Nat /\ day <= day' /\ \A d \in Days : d \in Nat
  BY BoundsAssumption DEF HealthInv, TypeOK, Days, Frame
<1>1. EvalKnown(q) /\ eval[q].on \subseteq Days
  BY DEF HealthInv, TypeOK, Evals
<1>2. \A d \in eval'[q].on : d <= day /\ d <= day'
  BY <1>0, <1>1 DEF EvalKnown
<1>3. ASSUME At(q, "base")'
      PROVE  \E d \in Days : eval'[q].on = {d} /\ Mixed(eval'[q].today, PolledOn(d)')
  <2>1. PICK d \in Days : eval[q].on = {d} /\ Mixed(eval[q].today, PolledOn(d))
    BY <1>1, <1>3 DEF At, EvalKnown
  <2>2. PolledOn(d) \subseteq PolledOn(d)'
    BY DEF Frame
  <2> QED
    BY <2>1, <2>2, MixedGrows
<1> QED
  BY <1>2, <1>3 DEF EvalKnown

(* A step of one evaluation, to a place where it holds no row.              *)
LEMMA EvalStep ==
  ASSUME HealthInv, NEW p \in Pollers, NEW new, Moves(p, new), new.pc # "base",
         new.on \subseteq eval[p].on, UNCHANGED <<day, daily, log>>,
         consecutive' \in Nat, status' \in {"active", "quarantined"},
         judged' \in [Days -> 0..ConsecutiveToQuarantine], faults' \in 0..MaxFaults,
         \A d \in Days : judged'[d] = judged[d] \/ judged'[d] = 0 \/ d <= day,
         \A d \in Days : d <= day /\ Rotten(d) /\ RotCounted(d) => RotCounted(d)'
  PROVE  HealthInv'
<1>0. TypeOK /\ eval' \in [Pollers -> Evals] /\ eval'[p] = new
  BY MovesFacts DEF HealthInv
<1>1. day' \in Days /\ day <= day'
  BY <1>0, BoundsAssumption DEF TypeOK, Days
<1>2. Frame /\ \A d \in Days : RowKnown(d)'
  BY <1>1, SameRows
<1>3. TypeOK'
  BY <1>0 DEF TypeOK
<1>4. ASSUME NEW q \in Pollers PROVE EvalKnown(q)' /\ \A d \in eval'[q].on : d <= day
  <2>1. CASE q = p
    BY <1>0, <2>1 DEF EvalKnown, At, HealthInv
  <2>2. CASE q # p
    BY <1>0, <1>2, <2>2, MovesFacts, OthersKnow
  <2> QED
    BY <2>1, <2>2
<1> QED
  BY <1>2, <1>3, <1>4, InvFrom

LEMMA Judges ==
  ASSUME HealthInv, NEW p \in Pollers, Judge(p)
  PROVE  HealthInv'
<1> DEFINE onTime == eval[p].on \cap {day}
           verdict == Compare(eval[p].today, BaselineSourceHealth(day))
           new == IF verdict = "unknown" THEN NoEval
                  ELSE [NoEval EXCEPT !.on = onTime,
                          !.pc = IF verdict = "healthy" THEN "clear" ELSE "set"]
<1>0. /\ TypeOK /\ day \in Days /\ eval[p] \in Evals /\ eval[p].pc = "base"
      /\ BaselineSourceHealth(day) \in Metrics /\ ConsecutiveToQuarantine \in Nat
  BY BaselineType, LimitTypes DEF HealthInv, TypeOK, Judge, At
<1>1. Moves(p, new)
  <2>1. new \in Evals
    BY <1>0, NoEvalType DEF Evals
  <2>2. eval' = [eval EXCEPT ![p] = new]
    BY Zenon DEF Judge, Return
  <2> QED
    BY <2>1, <2>2 DEF Moves
<1>2. judged' = [d \in Days |->
             IF d \in onTime /\ judged[d] < ConsecutiveToQuarantine THEN judged[d] + 1
             ELSE judged[d]]
  BY DEF Judge
<1>3. /\ new.pc # "base" /\ new.on \subseteq onTime
      /\ (new.pc = "set" <=> verdict \notin {"unknown", "healthy"})
  BY NoEvalType DEF Evals
<1>4. ASSUME NEW d \in Days, Rotten(d), d \in onTime PROVE verdict = "degraded"
  <2>1. d = day /\ Mixed(eval[p].today, PolledOn(d))
    BY <1>0, <1>4 DEF HealthInv, EvalKnown, At
  <2>2. PICK sign \in Signs : \A m \in PolledOn(d) : Shows(m, sign, BaselineSourceHealth(d))
    BY <1>4 DEF Rotten
  <2>3. Known(BaselineSourceHealth(d)) /\ \A m \in PolledOn(d) : Known(m)
    BY <1>4 DEF Rotten
  <2>4. PolledOn(d) \in SUBSET Metrics
    BY ReportsCounted DEF PolledOn
  <2>5. eval[p].today \in Metrics /\ Known(eval[p].today)
    BY <2>1, <2>3 DEF Mixed, Counted
  <2>6. eval[p].today.postings > 0
    BY <2>5, LimitTypes DEF Known, Metrics
  <2>7. Cares(sign, BaselineSourceHealth(d))
    <3>1. PICK m \in PolledOn(d) : TRUE
      BY <2>1 DEF Mixed
    <3> QED
      BY <1>0, <2>1, <2>2, <2>4, <3>1, DropIsLinear
  <2>8. Shows(eval[p].today, sign, BaselineSourceHealth(d))
    BY <1>0, <2>1, <2>2, <2>4, <2>6, <2>7, RowShows
  <2> QED
    BY <1>0, <2>1, <2>3, <2>5, <2>8, Degraded
<1>5. judged' \in [Days -> 0..ConsecutiveToQuarantine]
  BY <1>0, <1>2 DEF TypeOK
<1>6. \A d \in Days : judged'[d] = judged[d] \/ judged'[d] = 0 \/ d <= day
  <2>1. day <= day
    BY <1>0, BoundsAssumption DEF Days
  <2> QED
    BY <1>2, <2>1
<1>7. ASSUME NEW d \in Days, Rotten(d), RotCounted(d) PROVE RotCounted(d)'
  <2>1. /\ judged[d] \in Nat /\ consecutive \in Nat /\ Cardinality(Setting) \in Nat
        /\ judged'[d] = judged[d] \/ (d \in onTime /\ judged'[d] = judged[d] + 1)
        /\ UNCHANGED <<consecutive, status>>
    <3>1. judged[d] \in Nat /\ consecutive \in Nat
      BY <1>0 DEF TypeOK
    <3>2. judged'[d] = judged[d] \/ (d \in onTime /\ judged'[d] = judged[d] + 1)
      BY <1>2
    <3>3. UNCHANGED <<consecutive, status>>
      BY DEF Judge
    <3> QED
      BY <3>1, <3>2, <3>3, PollersFinite
  <2>2. \A q \in Pollers : At(q, "clear")' => d \notin eval'[q].on
    <3>1. d \in onTime => new.pc = "set"
      BY <1>3, <1>4, <1>7
    <3>2. d \in new.on => new.pc # "clear"
      BY <1>3, <3>1
    <3> HIDE DEF new
    <3> QED
      BY <1>0, <1>1, <1>7, <3>2, MovesFacts DEF RotCounted, At
  <2>3. \A q \in Pollers : At(q, "read") \/ At(q, "quarantine") =>
          At(q, "read")' \/ At(q, "quarantine")'
    <3> HIDE DEF new
    <3> QED
      BY <1>0, <1>1, MovesFacts DEF At
  <2>4. Cardinality(Setting') \in Nat /\ Cardinality(Setting) <= Cardinality(Setting')
    <3> HIDE DEF new
    <3> QED
      BY <1>0, <1>1, <2>1, MovesFacts
  <2>5. d \in onTime => Cardinality(Setting') = Cardinality(Setting) + 1
    <3>1. d \in onTime => new.pc = "set"
      BY <1>3, <1>4, <1>7
    <3> HIDE DEF new
    <3> QED
      BY <1>0, <1>1, <3>1, MovesFacts
  <2> HIDE DEF onTime
  <2>6. judged'[d] <= consecutive' + Cardinality(Setting')
    BY <1>7, <2>1, <2>4, <2>5 DEF RotCounted
  <2>7. judged[d] <= Cardinality(Setting) => judged'[d] <= Cardinality(Setting')
    BY <2>1, <2>4, <2>5
  <2> QED
    BY <1>7, <2>1, <2>2, <2>3, <2>6, <2>7 DEF RotCounted
<1>8. UNCHANGED <<day, daily, log, consecutive, status, faults>>
  BY DEF Judge
<1> HIDE DEF new
<1> QED
  BY <1>0, <1>1, <1>3, <1>5, <1>6, <1>7, <1>8, EvalStep DEF TypeOK

(* Every other step of one evaluation. What it counts is a healthy verdict  *)
(* of another day, a verdict put in the counter, or a counter that was      *)
(* read.                                                                    *)
LEMMA Evaluates ==
  ASSUME HealthInv, NEW p \in Pollers,
         \/ ClearSourceDegraded(p) \/ SetSourceDegraded(p) \/ GetSourceByID(p)
         \/ QuarantineDegradedSource(p) \/ EvaluationFails(p)
  PROVE  HealthInv'
<1>0. /\ TypeOK /\ eval[p] \in Evals /\ day \in Days /\ consecutive \in Nat
      /\ ConsecutiveToQuarantine \in Nat \ {0} /\ judged \in [Days -> Nat]
      /\ judged \in [Days -> 0..ConsecutiveToQuarantine]
      /\ Cardinality(Setting) \in Nat
  BY LimitTypes, PollersFinite DEF HealthInv, TypeOK
<1>1. UNCHANGED <<day, daily, log>> /\ faults' \in 0..MaxFaults
  BY <1>0, BoundsAssumption DEF TypeOK, ClearSourceDegraded, SetSourceDegraded, GetSourceByID,
     QuarantineDegradedSource, EvaluationFails
<1>2. CASE ClearSourceDegraded(p)
  <2>1. Moves(p, NoEval)
    BY <1>2, NoEvalType DEF ClearSourceDegraded, Return, Moves
  <2>2. /\ \A d \in Days : judged'[d] = judged[d] \/ judged'[d] = 0
        /\ judged' \in [Days -> 0..ConsecutiveToQuarantine]
        /\ consecutive' = 0 /\ status' = status
    BY <1>0, <1>2 DEF ClearSourceDegraded
  <2>3. ASSUME NEW d \in Days, RotCounted(d) PROVE RotCounted(d)'
    <3>1. d \notin eval[p].on
      BY <1>2, <2>3 DEF RotCounted, ClearSourceDegraded
    <3>2. judged'[d] = 0
      BY <1>2, <3>1 DEF ClearSourceDegraded
    <3>3. \A q \in Pollers : At(q, "clear")' => d \notin eval'[q].on
      BY <1>0, <2>1, <2>3, MovesFacts, NoEvalType DEF RotCounted, At
    <3>4. Cardinality(Setting') \in Nat
      BY <1>0, <2>1, MovesFacts
    <3> QED
      BY <1>0, <2>2, <3>2, <3>3, <3>4 DEF RotCounted
  <2> QED
    BY <1>0, <1>1, <2>1, <2>2, <2>3, NoEvalType, EvalStep DEF TypeOK
<1>3. CASE EvaluationFails(p)
  <2>1. Moves(p, NoEval)
    BY <1>3, NoEvalType DEF EvaluationFails, Return, Moves
  <2>2. /\ \A d \in Days : judged'[d] = 0
        /\ judged' \in [Days -> 0..ConsecutiveToQuarantine]
        /\ consecutive' = consecutive /\ status' = status
    BY <1>0, <1>3 DEF EvaluationFails
  <2>3. ASSUME NEW d \in Days, RotCounted(d) PROVE RotCounted(d)'
    <3>1. \A q \in Pollers : At(q, "clear")' => d \notin eval'[q].on
      BY <1>0, <2>1, <2>3, MovesFacts, NoEvalType DEF RotCounted, At
    <3>2. Cardinality(Setting') \in Nat
      BY <1>0, <2>1, MovesFacts
    <3> QED
      BY <1>0, <2>2, <3>1, <3>2 DEF RotCounted
  <2> QED
    BY <1>0, <1>1, <2>1, <2>2, <2>3, NoEvalType, EvalStep DEF TypeOK
<1>4. CASE SetSourceDegraded(p)
  <2> DEFINE new == [eval[p] EXCEPT !.pc = "read"]
  <2>1. Moves(p, new) /\ new.pc = "read" /\ new.on = eval[p].on /\ eval[p].pc = "set"
    BY <1>0, <1>4 DEF SetSourceDegraded, Goto, Moves, At, Evals
  <2>2. consecutive' = consecutive + 1 /\ UNCHANGED <<judged, status>>
    BY <1>4 DEF SetSourceDegraded
  <2> HIDE DEF new
  <2>3. ASSUME NEW d \in Days, RotCounted(d) PROVE RotCounted(d)'
    <3>1. \A q \in Pollers : At(q, "clear")' => d \notin eval'[q].on
      BY <1>0, <2>1, <2>3, MovesFacts DEF RotCounted, At
    <3>2. Cardinality(Setting') \in Nat /\ Cardinality(Setting') + 1 = Cardinality(Setting)
      BY <1>0, <2>1, MovesFacts
    <3>3. judged'[d] <= consecutive' + Cardinality(Setting')
      <4>1. judged[d] \in Nat /\ judged[d] <= consecutive + Cardinality(Setting)
        BY <1>0, <2>3 DEF RotCounted
      <4> QED
        BY <1>0, <2>2, <3>2, <4>1
    <3>4. At(p, "read")'
      BY <1>0, <2>1, MovesFacts DEF At
    <3> QED
      BY <3>1, <3>3, <3>4 DEF RotCounted
  <2> QED
    BY <1>0, <1>1, <2>1, <2>2, <2>3, EvalStep DEF TypeOK
<1>5. CASE GetSourceByID(p)
  <2>1. PICK new : /\ Moves(p, new) /\ new.on \subseteq eval[p].on /\ eval[p].pc = "read"
                   /\ new.pc = IF consecutive >= ConsecutiveToQuarantine THEN "quarantine"
                               ELSE "none"
    <3>1. CASE consecutive >= ConsecutiveToQuarantine
      <4> WITNESS [eval[p] EXCEPT !.pc = "quarantine"]
      <4> QED
        BY <1>0, <1>5, <3>1 DEF GetSourceByID, ShouldQuarantine, Goto, Moves, At, Evals
    <3>2. CASE ~(consecutive >= ConsecutiveToQuarantine)
      <4> WITNESS NoEval
      <4> QED
        BY <1>0, <1>5, <3>2, NoEvalType DEF GetSourceByID, ShouldQuarantine, Return, Moves, At
    <3> QED
      BY <3>1, <3>2
  <2>2. UNCHANGED <<judged, status, consecutive>>
    BY <1>5 DEF GetSourceByID
  <2>3. ASSUME NEW d \in Days, RotCounted(d) PROVE RotCounted(d)'
    <3>1. \A q \in Pollers : At(q, "clear")' => d \notin eval'[q].on
      BY <1>0, <2>1, <2>3, MovesFacts DEF RotCounted, At
    <3>2. Setting' = Setting
      BY <1>0, <2>1, MovesFacts
    <3>3. consecutive' < ConsecutiveToQuarantine \/ At(p, "quarantine")'
      BY <1>0, <2>1, <2>2, MovesFacts DEF At
    <3> QED
      BY <2>2, <2>3, <3>1, <3>2, <3>3 DEF RotCounted
  <2>4. new.pc # "base"
    BY <2>1
  <2> QED
    BY <1>0, <1>1, <2>1, <2>2, <2>3, <2>4, EvalStep DEF TypeOK
<1>6. CASE QuarantineDegradedSource(p)
  <2>1. Moves(p, NoEval) /\ eval[p].pc = "quarantine"
    BY <1>6, NoEvalType DEF QuarantineDegradedSource, Return, Moves, At
  <2>2. UNCHANGED <<judged, consecutive>> /\ status' = "quarantined"
    BY <1>6 DEF QuarantineDegradedSource
  <2>3. ASSUME NEW d \in Days, RotCounted(d) PROVE RotCounted(d)'
    <3>1. \A q \in Pollers : At(q, "clear")' => d \notin eval'[q].on
      BY <1>0, <2>1, <2>3, MovesFacts, NoEvalType DEF RotCounted, At
    <3>2. Setting' = Setting
      BY <1>0, <2>1, MovesFacts, NoEvalType
    <3> QED
      BY <2>2, <2>3, <3>1, <3>2 DEF RotCounted
  <2> QED
    BY <1>0, <1>1, <2>1, <2>2, <2>3, NoEvalType, EvalStep DEF TypeOK
<1> QED
  BY <1>2, <1>3, <1>4, <1>5, <1>6

(* The count, when no verdict is given and no counter changes.              *)
LEMMA SameCount ==
  ASSUME TypeOK, NEW p \in Pollers, NEW new, Moves(p, new),
         eval[p].pc \in {"none", "today"}, new.pc \in {"none", "today", "base"},
         UNCHANGED <<judged, consecutive, status>>, NEW d \in Days, RotCounted(d)
  PROVE  RotCounted(d)'
<1>1. \A q \in Pollers : At(q, "clear")' => d \notin eval'[q].on
  BY MovesFacts DEF RotCounted, At
<1>2. Setting' = Setting
  BY MovesFacts
<1>3. \A q \in Pollers : At(q, "read") \/ At(q, "quarantine") =>
        At(q, "read")' \/ At(q, "quarantine")'
  BY MovesFacts DEF At
<1> QED
  BY <1>1, <1>2, <1>3 DEF RotCounted

LEMMA Records ==
  ASSUME HealthInv, NEW p \in Pollers, NEW m \in Reports, NEW o \in Outcomes,
         RecordHealth(p, m, o)
  PROVE  HealthInv'
<1>0. /\ TypeOK /\ eval[p] \in Evals /\ eval[p].pc = "none" /\ day \in Days
      /\ m \in Metrics
      /\ UNCHANGED <<day, consecutive, status, judged, faults>>
      /\ daily \in [Days -> SUBSET Metrics] /\ log \in [Days -> [Reports -> Nat]]
  BY ReportsCounted DEF HealthInv, TypeOK, RecordHealth, At
<1>1. PICK new : Moves(p, new) /\ new.pc \in {"none", "today"} /\ new.on = eval[p].on
  <2>1. CASE o = "ok"
    <3> WITNESS [eval[p] EXCEPT !.pc = "today"]
    <3> QED
      BY <1>0, <2>1 DEF RecordHealth, Goto, Moves, Evals
  <2>2. CASE o # "ok"
    <3> WITNESS eval[p]
    <3> QED
      BY <1>0, <2>2 DEF RecordHealth, Moves, TypeOK
  <2> QED
    BY <2>1, <2>2
<1>2. /\ \A d \in Days : d # day => daily'[d] = daily[d] /\ log'[d] = log[d]
      /\ daily'[day] = RecordSourceHealth(daily[day], m)
      /\ log'[day] = [log[day] EXCEPT ![m] = @ + 1]
      /\ log' \in [Days -> [Reports -> Nat]]
  BY <1>0 DEF RecordHealth
<1>3. \A d \in Days : PolledOn(d) \subseteq PolledOn(d)'
  BY <1>0, <1>2 DEF PolledOn
<1>4. \A d \in Days : d = day => m \in PolledOn(d)'
  BY <1>0, <1>2 DEF PolledOn
<1>5. Frame
  <2>1. day <= day' /\ day' \in Days /\ \A d \in Days : d < day => d # day
    BY <1>0, BoundsAssumption DEF Days
  <2> QED
    BY <1>2, <1>3, <2>1 DEF Frame
<1>6. ASSUME NEW d \in Days PROVE RowKnown(d)'
  <2>1. CASE d # day
    <3>1. PolledOn(d)' = PolledOn(d) /\ daily'[d] = daily[d]
      BY <1>2, <2>1 DEF PolledOn
    <3> QED
      BY <3>1 DEF HealthInv, RowKnown
  <2>2. CASE d = day /\ daily[day] = {}
    <3>1. daily'[day] = {m}
      BY <1>2, <2>2 DEF RecordSourceHealth
    <3>2. Mixed(m, {m}) /\ {m} \subseteq PolledOn(d)'
      BY <1>4, <2>2, MixedOne
    <3>3. Mixed(m, PolledOn(d)')
      BY <3>2, MixedGrows
    <3> QED
      BY <1>0, <2>2, <3>1, <3>3 DEF RowKnown
  <2>3. CASE d = day /\ daily[day] # {}
    <3>1. PICK r \in Metrics : daily[d] = {r} /\ Mixed(r, PolledOn(d))
      BY <2>3 DEF HealthInv, RowKnown
    <3>2. daily'[d] = {Plus(r, m)}
      BY <1>2, <2>3, <3>1 DEF RecordSourceHealth
    <3>3. Mixed(r, PolledOn(d)')
      BY <1>3, <3>1, MixedGrows
    <3>4. Mixed(Plus(r, m), PolledOn(d)') /\ Plus(r, m) \in Metrics
      BY <1>0, <1>4, <2>3, <3>3, MixedPlus, PlusParts
    <3> QED
      BY <3>2, <3>4 DEF RowKnown
  <2> QED
    BY <2>1, <2>2, <2>3
<1>7. TypeOK'
  <2>1. \A d \in Days : Cardinality(daily'[d]) <= 1
    <3>1. Cardinality({}) <= 1 /\ \A r : Cardinality({r}) <= 1
      BY FS_EmptySet, FS_Singleton
    <3> QED
      BY <1>6, <3>1 DEF RowKnown
  <2>2. daily' \in [Days -> SUBSET Metrics]
    <3>1. \A d \in Days : daily'[d] \in SUBSET Metrics
      BY <1>6 DEF RowKnown
    <3>2. daily' = [daily EXCEPT ![day] = RecordSourceHealth(@, m)]
      BY DEF RecordHealth
    <3> QED
      BY <1>0, <3>1, <3>2
  <2> QED
    BY <1>0, <1>1, <1>2, <2>1, <2>2, MovesFacts DEF TypeOK
<1>8. ASSUME NEW q \in Pollers PROVE EvalKnown(q)' /\ \A d \in eval'[q].on : d <= day
  <2>1. CASE q = p
    BY <1>0, <1>1, <2>1, MovesFacts DEF EvalKnown, At, HealthInv
  <2>2. CASE q # p
    BY <1>0, <1>1, <1>5, <2>2, MovesFacts, OthersKnow
  <2> QED
    BY <2>1, <2>2
<1> QED
  BY <1>0, <1>1, <1>5, <1>6, <1>7, <1>8, SameCount, InvFrom

LEMMA Reads ==
  ASSUME HealthInv, NEW p \in Pollers, TodaySourceHealth(p)
  PROVE  HealthInv'
<1>0. /\ TypeOK /\ eval[p] \in Evals /\ eval[p].pc = "today" /\ day \in Days /\ day <= day
      /\ UNCHANGED <<day, daily, log, consecutive, status, judged, faults>>
      /\ RowKnown(day)
  BY BoundsAssumption DEF HealthInv, TypeOK, TodaySourceHealth, At, Days
<1>1. CASE daily[day] = {}
  <2>1. Moves(p, NoEval)
    BY <1>1, NoEvalType DEF TodaySourceHealth, Return, Moves
  <2>2. \A d \in Days : RotCounted(d) => RotCounted(d)'
    BY <1>0, <2>1, SameCount, NoEvalType
  <2> QED
    BY <1>0, <2>1, <2>2, NoEvalType, EvalStep DEF TypeOK
<1>2. CASE daily[day] # {}
  <2>1. PICK r \in Metrics : daily[day] = {r} /\ Mixed(r, PolledOn(day))
    BY <1>0, <1>2 DEF RowKnown
  <2>2. PICK new : new = [pc |-> "base", on |-> {day}, today |-> r]
    OBVIOUS
  <2>3. Moves(p, new)
    <3>1. (CHOOSE x \in daily[day] : TRUE) = r
      BY <2>1
    <3> QED
      BY <1>0, <1>2, <2>1, <2>2, <3>1 DEF TodaySourceHealth, Moves, Evals
  <2>4. new.pc = "base" /\ new.on = {day} /\ new.today = r
    BY <2>2
  <2>5. Frame /\ \A d \in Days : RowKnown(d)'
    BY <1>0, SameRows
  <2>6. PolledOn(day)' = PolledOn(day)
    BY <1>0 DEF PolledOn
  <2>7. ASSUME NEW q \in Pollers PROVE EvalKnown(q)' /\ \A d \in eval'[q].on : d <= day
    <3>1. CASE q = p
      <4>1. eval'[q] = new
        BY <1>0, <2>3, <3>1, MovesFacts
      <4>2. \A d \in eval'[q].on : d <= day /\ d <= day'
        BY <1>0, <2>4, <4>1
      <4>3. eval'[q].on = {day} /\ Mixed(eval'[q].today, PolledOn(day)')
        BY <2>1, <2>4, <2>6, <4>1
      <4> QED
        BY <1>0, <4>2, <4>3 DEF EvalKnown
    <3>2. CASE q # p
      BY <1>0, <2>3, <2>5, <3>2, MovesFacts, OthersKnow
    <3> QED
      BY <3>1, <3>2
  <2>8. TypeOK'
    BY <1>0, <2>3, MovesFacts DEF TypeOK
  <2>9. \A d \in Days : RotCounted(d) => RotCounted(d)'
    BY <1>0, <2>3, <2>4, SameCount
  <2> QED
    BY <1>0, <2>5, <2>7, <2>8, <2>9, InvFrom
<1> QED
  BY <1>1, <1>2

LEMMA NextDay == ASSUME HealthInv, Midnight PROVE HealthInv'
<1>0. /\ TypeOK /\ day \in Days /\ day' = day + 1 /\ day' \in Days /\ day <= day'
      /\ UNCHANGED <<daily, consecutive, status, eval, log, judged, faults>>
  BY BoundsAssumption DEF HealthInv, TypeOK, Midnight, Days
<1>1. Frame /\ \A d \in Days : RowKnown(d)'
  BY <1>0, SameRows
<1>2. \A q \in Pollers : EvalKnown(q)' /\ \A d \in eval'[q].on : d <= day
  BY <1>0, <1>1, OthersKnow
<1>3. TypeOK'
  BY <1>0 DEF TypeOK
<1>4. \A d \in Days : RotCounted(d) => RotCounted(d)'
  BY <1>0 DEF RotCounted, At, Setting
<1> QED
  BY <1>0, <1>1, <1>2, <1>3, <1>4, InvFrom
-----------------------------------------------------------------------------
LEMMA InvInit == Init => HealthInv
<1> SUFFICES ASSUME Init PROVE HealthInv
  OBVIOUS
<1>1. TypeOK
  <2>1. Cardinality({}) <= 1
    BY FS_EmptySet
  <2> QED
    BY <2>1, NoEvalType, BoundsAssumption, LimitTypes DEF Init, TypeOK, Days
<1>2. \A d \in Days : RowKnown(d) /\ judged[d] = 0
  BY DEF Init, RowKnown
<1>3. \A p \in Pollers : EvalKnown(p) /\ eval[p].pc = "none"
  BY NoEvalType DEF Init, EvalKnown, At
<1>4. \A d \in Days : RotCounted(d)
  <2>1. \A p \in Pollers : eval[p].on = {}
    BY NoEvalType DEF Init
  <2>2. consecutive = 0 /\ Cardinality(Setting) \in Nat
    BY PollersFinite DEF Init
  <2> QED
    BY <1>2, <2>1, <2>2 DEF RotCounted
<1> QED
  BY <1>1, <1>2, <1>3, <1>4 DEF HealthInv

LEMMA InvStep == HealthInv /\ [Next]_vars => HealthInv'
<1> SUFFICES ASSUME HealthInv, [Next]_vars PROVE HealthInv'
  OBVIOUS
<1>1. CASE UNCHANGED vars
  <2>0. day' = day /\ day \in Days /\ day <= day' /\ UNCHANGED <<daily, log, judged, eval>>
    BY <1>1, BoundsAssumption DEF vars, HealthInv, TypeOK, Days
  <2>1. Frame /\ \A d \in Days : RowKnown(d)'
    BY <2>0, SameRows
  <2>2. \A q \in Pollers : EvalKnown(q)' /\ \A d \in eval'[q].on : d <= day
    BY <2>0, <2>1, OthersKnow
  <2>3. TypeOK'
    BY <1>1 DEF vars, TypeOK, HealthInv
  <2>4. \A d \in Days : RotCounted(d) => RotCounted(d)'
    BY <1>1 DEF vars, RotCounted, At, Setting
  <2> QED
    BY <2>0, <2>1, <2>2, <2>3, <2>4, InvFrom
<1> QED
  BY <1>1, Records, Reads, Judges, Evaluates, NextDay DEF Next

LEMMA InvHolds == Spec => []HealthInv
  BY InvInit, InvStep, PTL DEF Spec

(* Every reachable state is well typed: no day ever has two rows, and what  *)
(* an evaluation holds is a row (evaluateHealth, RecordSourceHealth).       *)
THEOREM Typed == Spec => []TypeOK
<1>1. HealthInv => TypeOK
  BY DEF HealthInv
<1> QED
  BY <1>1, InvHolds, PTL

(* Judge finds a source degraded only when some poll of the day of the row  *)
(* it read shows a drop by itself, against the same baseline: neither the   *)
(* sums of the day and of the window, nor other polls or midnight between   *)
(* the statements of evaluateHealth, make one up.                           *)
THEOREM DegradedIsEarned == Spec => DegradedNeedsABadPoll
<1>1. ASSUME HealthInv, [Next]_vars, NEW p \in Pollers, At(p, "base"), eval'[p].pc = "set"
      PROVE  \E d \in eval[p].on, sign \in Signs : \E m \in PolledOn(d) :
               Shows(m, sign, BaselineSourceHealth(day))
  <2>0. /\ TypeOK /\ day \in Days /\ eval \in [Pollers -> Evals]
        /\ BaselineSourceHealth(day) \in Metrics
    BY <1>1, BaselineType DEF HealthInv, TypeOK
  <2>1. Judge(p)
    <3>1. eval' # eval
      BY <1>1 DEF At
    <3>2. ~UNCHANGED vars /\ ~Midnight
      BY <3>1 DEF vars, Midnight
    <3>3. ~\E q \in Pollers, m \in Reports, o \in Outcomes : RecordHealth(q, m, o)
      BY <1>1, <2>0 DEF RecordHealth, Goto, At
    <3>4. \A q \in Pollers : /\ ~TodaySourceHealth(q) /\ ~ClearSourceDegraded(q)
                             /\ ~SetSourceDegraded(q) /\ ~GetSourceByID(q)
                             /\ ~QuarantineDegradedSource(q) /\ ~EvaluationFails(q)
      BY <1>1, <2>0, NoEvalType DEF TodaySourceHealth, ClearSourceDegraded, SetSourceDegraded,
         GetSourceByID, QuarantineDegradedSource, EvaluationFails, Goto, Return, At
    <3>5. PICK q \in Pollers : Judge(q)
      BY <1>1, <3>2, <3>3, <3>4 DEF Next
    <3>6. q = p
      BY <1>1, <2>0, <3>5 DEF Judge, Return, At
    <3> QED
      BY <3>5, <3>6
  <2>2. Compare(eval[p].today, BaselineSourceHealth(day)) = "degraded"
    <3>1. Compare(eval[p].today, BaselineSourceHealth(day)) \notin {"unknown", "healthy"}
      BY <1>1, <2>0, <2>1, NoEvalType DEF Judge, Return, Evals
    <3> QED
      BY <3>1 DEF Compare
  <2>3. PICK d \in Days : eval[p].on = {d} /\ Mixed(eval[p].today, PolledOn(d))
    BY <1>1 DEF HealthInv, EvalKnown
  <2>4. PolledOn(d) \in SUBSET Metrics /\ eval[p].today \in Metrics
    BY <2>3, ReportsCounted DEF PolledOn, Mixed, Counted
  <2>5. PICK sign \in Signs : Shows(eval[p].today, sign, BaselineSourceHealth(day))
    BY <2>0, <2>2, <2>4, Degraded
  <2>6. \E m \in PolledOn(d) : Shows(m, sign, BaselineSourceHealth(day))
    BY <2>0, <2>3, <2>4, <2>5, RowShows
  <2> QED
    BY <2>3, <2>6
<1>2. HealthInv /\ [Next]_vars =>
        \A p \in Pollers : At(p, "base") /\ eval'[p].pc = "set" =>
          \E d \in eval[p].on, sign \in Signs : \E m \in PolledOn(d) :
            Shows(m, sign, BaselineSourceHealth(day))
  BY <1>1
<1> QED
  BY <1>2, InvHolds, PTL DEF Spec, DegradedNeedsABadPoll

(* A source whose polls all show the same drop on some day does not escape: *)
(* once ConsecutiveToQuarantine of them were judged on that day, with no    *)
(* statement lost and no healthy verdict of another day, it is offline,     *)
(* however the evaluations interleave.                                      *)
THEOREM RotGoesOffline == Spec => []RotIsCaught
<1>1. HealthInv => RotIsCaught
  <2>1. SUFFICES ASSUME HealthInv, NEW d \in Days, judged[d] >= ConsecutiveToQuarantine, Rotten(d),
                        \A p \in Pollers : eval[p].pc \notin {"clear", "set", "read", "quarantine"}
                 PROVE  status = "quarantined"
    BY DEF RotIsCaught
  <2>2. Setting = {}
    BY <2>1 DEF Setting, At
  <2>3. Cardinality(Setting) = 0
    BY <2>2, FS_EmptySet
  <2>4. /\ RotCounted(d) /\ consecutive \in Nat /\ judged[d] \in Nat
        /\ ConsecutiveToQuarantine \in Nat \ {0}
    BY <2>1, LimitTypes DEF HealthInv, TypeOK
  <2>5. ~\E p \in Pollers : At(p, "read") \/ At(p, "quarantine")
    BY <2>1 DEF At
  <2> QED
    BY <2>1, <2>3, <2>4, <2>5 DEF RotCounted
<1> QED
  BY <1>1, InvHolds, PTL
=============================================================================
