----------------------------- MODULE BackfillProofs -----------------------------
(***************************************************************************)
(* Proofs about Backfill, for any number of rows, runs and clients, any    *)
(* batch size, and both databases.                                         *)
(***************************************************************************)
EXTENDS Backfill, FiniteSetTheorems, WellFoundedInduction, TLAPS

-----------------------------------------------------------------------------
(***************************************************************************)
(* What a row becomes                                                      *)
(***************************************************************************)

\* The phases whose work an item of a phase is checked against.
Lower ==
  [sources |-> {}, excerpts |-> {"sources"}, claims |-> {"excerpts"},
   links |-> {"claims", "excerpts"}, pointers |-> {"claims"}, reports |-> {}]

About(i) == {i[1]} \cup Needs[i[1]]

LEMMA ItemsMember ==
  ASSUME NEW f \in Phase, NEW R \in SUBSET Row
  PROVE  /\ \A i : i \in Items(f, R) <=> i[1] \in R /\ i \in Items(f, Row)
         /\ Items(f, R) \subseteq Item
<1>1. Needs \in [Row -> SUBSET Row] /\ KindOf \in [Row -> {"source", "excerpt", "claim", "report"}]
  BY BackfillAssumption
<1>2. CASE f = "links"
  BY <1>1, <1>2 DEF Items, OfKind, Item
<1>3. CASE f # "links"
  BY <1>1, <1>3 DEF Items, OfKind, Item
<1>4. QED
  BY <1>2, <1>3

LEMMA ItemsAbout ==
  ASSUME NEW f \in Phase, NEW i \in Items(f, Row)
  PROVE  /\ i \in Item /\ i = <<i[1], i[2]>> /\ i[1] \in Row /\ i[2] \in About(i)
         /\ i[1] \in About(i)
         /\ f # "links" => i[2] = i[1]
<1>1. Needs \in [Row -> SUBSET Row] /\ KindOf \in [Row -> {"source", "excerpt", "claim", "report"}]
  BY BackfillAssumption
<1>2. CASE f = "links"
  BY <1>1, <1>2 DEF Items, OfKind, Item, About
<1>3. CASE f # "links"
  BY <1>1, <1>3 DEF Items, OfKind, Item, About
<1>4. QED
  BY <1>2, <1>3

\* Whether an item fits depends on lower phases, and there on the rows that it
\* is about.
LEMMA FitsOnLower ==
  ASSUME NEW f \in Phase, NEW i \in Items(f, Row), NEW known, NEW more,
         \A g \in Lower[f] : \A r \in About(i) : Has(known, g, r) => Has(more, g, r),
         Fits(f, i, known)
  PROVE  Fits(f, i, more)
<1>0. i[1] \in About(i) /\ i[2] \in About(i) /\ Needs[i[1]] \subseteq About(i)
  BY ItemsAbout DEF About
<1>1. CASE f \in {"sources", "reports"}
  BY <1>1 DEF Fits
<1>2. CASE f = "excerpts"
  BY <1>0, <1>2 DEF Fits, ExcerptFits, Lower
<1>3. CASE f = "claims"
  BY <1>0, <1>3 DEF Fits, ClaimFits, Lower
<1>4. CASE f = "links"
  BY <1>0, <1>4 DEF Fits, LinkFits, Lower
<1>5. CASE f = "pointers"
  BY <1>0, <1>5 DEF Fits, PointerFits, Lower
<1>6. QED
  BY <1>1, <1>2, <1>3, <1>4, <1>5 DEF Phase

LEMMA AfterPhase ==
  ASSUME NEW d, NEW f, NEW R
  PROVE  /\ \A g, i : <<g, i>> \in Then(d, f, R).v2 <=>
              \/ <<g, i>> \in d.v2
              \/ g = f /\ i \in Items(f, R) /\ Fits(f, i, d.v2)
         /\ \A g, i : <<g, i>> \in Then(d, f, R).errors <=>
              \/ <<g, i>> \in d.errors
              \/ g = f /\ i \in Items(f, R) /\ ~Representable(f, i, d.v2)
         /\ \A x \in Then(d, f, R).v2 : x \in d.v2 \/ \E i \in Items(f, R) : x = <<f, i>>
         /\ \A x \in Then(d, f, R).errors : x \in d.errors \/ \E i \in Items(f, R) : x = <<f, i>>
         /\ d.v2 \subseteq Then(d, f, R).v2
<1> DEFINE good == {i \in Items(f, R) : Representable(f, i, d.v2)}
<1>1. /\ Then(d, f, R).v2 = d.v2 \cup {<<f, i>> : i \in good}
      /\ Then(d, f, R).errors = d.errors \cup {<<f, i>> : i \in Items(f, R) \ good}
  BY DEF Then, Process
<1>2. \A i : i \in good <=> i \in Items(f, R) /\ Representable(f, i, d.v2)
  OBVIOUS
<1> HIDE DEF good
<1>3. \A g, i : <<g, i>> \in Then(d, f, R).v2 <=> <<g, i>> \in d.v2 \/ (g = f /\ i \in good)
  BY <1>1
<1>4. \A g, i : <<g, i>> \in Then(d, f, R).errors <=>
        <<g, i>> \in d.errors \/ (g = f /\ i \in Items(f, R) \ good)
  BY <1>1
<1>5. /\ \A x \in Then(d, f, R).v2 : x \in d.v2 \/ \E i \in Items(f, R) : x = <<f, i>>
      /\ \A x \in Then(d, f, R).errors : x \in d.errors \/ \E i \in Items(f, R) : x = <<f, i>>
      /\ d.v2 \subseteq Then(d, f, R).v2
  BY <1>1, <1>2
<1>6. \A i : Representable(f, i, d.v2) <=> <<f, i>> \in d.v2 \/ Fits(f, i, d.v2)
  BY DEF Representable
<1>7. QED
  BY <1>2, <1>3, <1>4, <1>5, <1>6

LEMMA IdealItems ==
  ASSUME NEW R \in SUBSET Row, NEW A \in SUBSET Row
  PROVE  /\ \A x \in Ideal(A, R) : \E f \in Phase : \E i \in Items(f, Row) : x = <<f, i>>
         /\ \A f, i : <<f, i>> \in Ideal(A, R) => f \in Phase /\ i \in Items(f, Row)
<1> DEFINE d0 == [v2 |-> Adopted(A), errors |-> {}]
           d1 == Then(d0, "sources", R)
           d2 == Then(d1, "excerpts", R)
           d3 == Then(d2, "claims", R)
           d4 == Then(d3, "links", R)
           d5 == Then(d4, "pointers", R)
           d6 == Then(d5, "reports", R)
           Typed(known) == \A x \in known : \E f \in Phase : \E i \in Items(f, Row) : x = <<f, i>>
<1>0. \A f \in Phase, S \in SUBSET Row : Items(f, S) \subseteq Items(f, Row)
  BY ItemsMember
<1>1. Typed(d0.v2)
  <2>1. \A x \in Adopted(A) :
          \E f \in Phase : \E i \in Items(f, A) : x = <<f, i>>
    BY DEF Adopted, Phase
  <2>2. QED
    BY <1>0, <2>1
<1>2. ASSUME NEW d, NEW f \in Phase, Typed(d.v2)
      PROVE  Typed(Then(d, f, R).v2)
  BY <1>0, <1>2, AfterPhase
<1>3. Ideal(A, R) = d6.v2
  BY DEF Ideal
<1> HIDE DEF Typed, d0
<1>4. Typed(d3.v2)
  <2>1. Typed(d1.v2)
    BY <1>1, <1>2 DEF Phase
  <2> HIDE DEF d1
  <2>2. Typed(d2.v2)
    BY <1>2, <2>1 DEF Phase
  <2> HIDE DEF d2
  <2>3. QED
    BY <1>2, <2>2 DEF Phase
<1> HIDE DEF d3
<1>5. Typed(d6.v2)
  <2>1. Typed(d4.v2)
    BY <1>4, <1>2 DEF Phase
  <2> HIDE DEF d4
  <2>2. Typed(d5.v2)
    BY <1>2, <2>1 DEF Phase
  <2> HIDE DEF d5
  <2>3. QED
    BY <1>2, <2>2 DEF Phase
<1>6. \A x \in Ideal(A, R) : \E f \in Phase : \E i \in Items(f, Row) : x = <<f, i>>
  BY <1>3, <1>5 DEF Typed
<1>7. QED
  BY <1>6

\* One run brings in what fits what it brings in.
LEMMA IdealIs ==
  ASSUME NEW A, NEW R, NEW f \in Phase, NEW i \in Items(f, Row)
  PROVE  <<f, i>> \in Ideal(A, R) <=>
           \/ <<f, i>> \in Adopted(A)
           \/ i \in Items(f, R) /\ Fits(f, i, Ideal(A, R))
<1> DEFINE d0 == [v2 |-> Adopted(A), errors |-> {}]
           d1 == Then(d0, "sources", R)
           d2 == Then(d1, "excerpts", R)
           d3 == Then(d2, "claims", R)
           d4 == Then(d3, "links", R)
           d5 == Then(d4, "pointers", R)
           d6 == Then(d5, "reports", R)
<1>1. Ideal(A, R) = d6.v2 /\ d0.v2 = Adopted(A)
  BY DEF Ideal
<1>2. /\ \A g, j : <<g, j>> \in d1.v2 <=>
           <<g, j>> \in d0.v2 \/ (g = "sources" /\ j \in Items(g, R) /\ Fits(g, j, d0.v2))
      /\ \A g, j : <<g, j>> \in d2.v2 <=>
           <<g, j>> \in d1.v2 \/ (g = "excerpts" /\ j \in Items(g, R) /\ Fits(g, j, d1.v2))
      /\ \A g, j : <<g, j>> \in d3.v2 <=>
           <<g, j>> \in d2.v2 \/ (g = "claims" /\ j \in Items(g, R) /\ Fits(g, j, d2.v2))
      /\ \A g, j : <<g, j>> \in d4.v2 <=>
           <<g, j>> \in d3.v2 \/ (g = "links" /\ j \in Items(g, R) /\ Fits(g, j, d3.v2))
      /\ \A g, j : <<g, j>> \in d5.v2 <=>
           <<g, j>> \in d4.v2 \/ (g = "pointers" /\ j \in Items(g, R) /\ Fits(g, j, d4.v2))
      /\ \A g, j : <<g, j>> \in d6.v2 <=>
           <<g, j>> \in d5.v2 \/ (g = "reports" /\ j \in Items(g, R) /\ Fits(g, j, d5.v2))
  BY AfterPhase
<1> HIDE DEF d0, d1, d2, d3, d4, d5, d6
<1>3. /\ \A r : Has(d1.v2, "sources", r) <=> Has(d6.v2, "sources", r)
      /\ \A r : Has(d2.v2, "excerpts", r) <=> Has(d6.v2, "excerpts", r)
      /\ \A r : Has(d3.v2, "claims", r) <=> Has(d6.v2, "claims", r)
      /\ \A r : Has(d3.v2, "excerpts", r) <=> Has(d6.v2, "excerpts", r)
      /\ \A r : Has(d4.v2, "claims", r) <=> Has(d6.v2, "claims", r)
  BY <1>2 DEF Has
<1>4. CASE f \in {"sources", "reports"}
  BY <1>1, <1>2, <1>4 DEF Fits
<1>5. CASE f = "excerpts"
  <2>1. Fits(f, i, d1.v2) <=> Fits(f, i, d6.v2)
    BY <1>3, <1>5, FitsOnLower DEF Lower
  <2>2. QED
    BY <1>1, <1>2, <1>5, <2>1
<1>6. CASE f = "claims"
  <2>1. Fits(f, i, d2.v2) <=> Fits(f, i, d6.v2)
    BY <1>3, <1>6, FitsOnLower DEF Lower
  <2>2. QED
    BY <1>1, <1>2, <1>6, <2>1
<1>7. CASE f = "links"
  <2>1. Fits(f, i, d3.v2) <=> Fits(f, i, d6.v2)
    BY <1>3, <1>7, FitsOnLower DEF Lower
  <2>2. QED
    BY <1>1, <1>2, <1>7, <2>1
<1>8. CASE f = "pointers"
  <2>1. Fits(f, i, d4.v2) <=> Fits(f, i, d6.v2)
    BY <1>3, <1>8, FitsOnLower DEF Lower
  <2>2. QED
    BY <1>1, <1>2, <1>8, <2>1
<1>9. QED
  BY <1>4, <1>5, <1>6, <1>7, <1>8 DEF Phase

\* What one run makes of rows that refer to nothing outside depends on no other
\* row.
LEMMA IdealIsLocal ==
  ASSUME NEW R \in SUBSET Row, NEW S \in SUBSET Row, NEW C \in SUBSET Row,
         NEW A \in SUBSET Row, C \cap R \subseteq S, \A r \in C : Needs[r] \subseteq C
  PROVE  \A f \in Phase : \A i \in Items(f, C) : <<f, i>> \in Ideal(A, R) => <<f, i>> \in Ideal(A, S)
<1> DEFINE Local(f) == \A i \in Items(f, C) : <<f, i>> \in Ideal(A, R) => <<f, i>> \in Ideal(A, S)
<1>1. ASSUME NEW f \in Phase, \A g \in Lower[f] : Local(g)
      PROVE  Local(f)
  <2> SUFFICES ASSUME NEW i \in Items(f, C), <<f, i>> \in Ideal(A, R)
               PROVE  <<f, i>> \in Ideal(A, S)
    OBVIOUS
  <2>1. i \in Items(f, Row) /\ i[1] \in C
    BY ItemsMember
  <2>2. About(i) \subseteq C
    BY <2>1 DEF About
  <2>3. CASE <<f, i>> \in Adopted(A)
    BY <2>1, <2>3, IdealIs
  <2>4. CASE i \in Items(f, R) /\ Fits(f, i, Ideal(A, R))
    <3>1. i \in Items(f, S)
      BY <2>1, <2>4, ItemsMember
    <3>2. \A g \in Lower[f] : \A r \in About(i) :
            Has(Ideal(A, R), g, r) => Has(Ideal(A, S), g, r)
      <4> SUFFICES ASSUME NEW g \in Lower[f], NEW r \in About(i), Has(Ideal(A, R), g, r)
                   PROVE  Has(Ideal(A, S), g, r)
        OBVIOUS
      <4>1. g \in Phase \ {"links"}
        BY DEF Lower, Phase
      <4>2. <<r, r>> \in Items(g, C)
        <5>1. <<g, <<r, r>>>> \in Ideal(A, R)
          BY DEF Has
        <5>2. <<r, r>> \in Items(g, Row)
          BY <5>1, IdealItems
        <5>3. QED
          BY <2>2, <4>1, <5>2, ItemsMember
      <4>3. QED
        BY <1>1, <4>2 DEF Has
    <3>3. Fits(f, i, Ideal(A, S))
      BY <2>1, <2>4, <3>2, FitsOnLower
    <3>4. QED
      BY <2>1, <3>1, <3>3, IdealIs
  <2>5. QED
    BY <2>1, <2>3, <2>4, IdealIs
<1> HIDE DEF Local
<1>2. Local("sources") /\ Local("reports")
  BY <1>1 DEF Lower, Phase
<1>3. Local("excerpts")
  BY <1>1, <1>2 DEF Lower, Phase
<1>4. Local("claims")
  BY <1>1, <1>3 DEF Lower, Phase
<1>5. Local("links") /\ Local("pointers")
  BY <1>1, <1>3, <1>4 DEF Lower, Phase
<1>6. QED
  BY <1>2, <1>3, <1>4, <1>5 DEF Local, Phase

-----------------------------------------------------------------------------
(***************************************************************************)
(* Batches                                                                 *)
(***************************************************************************)

LEMMA ItemOrder ==
  /\ \A i \in Item : ~Before(i, i) /\ Before(Start, i)
  /\ \A i, j \in Item : Before(i, j) \/ Before(j, i) \/ i = j
  /\ \A i, j, k \in Item : Before(i, j) /\ Before(j, k) => Before(i, k)
<1>1. \A r \in Row : r \in Nat /\ r > 0
  BY BackfillAssumption
<1>2. \A i \in Item : /\ i = <<i[1], i[2]>> /\ i[1] \in Nat /\ i[2] \in Nat /\ i[1] > 0
  BY <1>1 DEF Item
<1>3. \A i, j \in Item : i = j <=> i[1] = j[1] /\ i[2] = j[2]
  BY <1>2
<1>4. \A i, j \in Item : Before(i, j) \/ Before(j, i) \/ i = j
  BY <1>2, <1>3 DEF Before
<1>5. \A i \in Item : ~Before(i, i) /\ Before(Start, i)
  BY <1>2 DEF Before, Start
<1>6. \A i, j, k \in Item : Before(i, j) /\ Before(j, k) => Before(i, k)
  BY <1>2 DEF Before
<1>7. QED
  BY <1>4, <1>5, <1>6

LEMMA ItemsFinite == IsFiniteSet(Item)
BY BackfillAssumption, FS_Product DEF Item

LEMMA Ends ==
  ASSUME NEW S \in SUBSET Item, S # {}
  PROVE  /\ \E i \in S : \A j \in S : ~Before(j, i)
         /\ \E i \in S : \A j \in S : ~Before(i, j)
<1>1. IsFiniteSet(S) /\ FiniteSubsetsOf(S) = SUBSET S
  BY ItemsFinite, FS_Subset, FS_FiniteSubsetsOfFinite
<1>2. IsWellFoundedOn(StrictSubsetOrdering(S), SUBSET S)
  BY <1>1, FS_StrictSubsetOrderingWellFounded
<1>3. ASSUME NEW T \in SUBSET (SUBSET S), T # {}
      PROVE  \E X \in T : \A Y \in T : ~(Y \subseteq X /\ Y # X)
  <2>1. PICK X \in T : \A Y \in T : <<Y, X>> \notin StrictSubsetOrdering(S)
    BY <1>2, <1>3, WFMin
  <2>2. QED
    BY <1>3, <2>1 DEF StrictSubsetOrdering
<1>4. \E i \in S : \A j \in S : ~Before(j, i)
  <2> DEFINE below(i) == {k \in S : Before(k, i)}
         all == {below(i) : i \in S}
  <2>0. \A X \in all : \E i \in S : X = below(i)
    OBVIOUS
  <2>1. all \in SUBSET (SUBSET S) /\ all # {} /\ \A i \in S : below(i) \in all
    OBVIOUS
  <2> HIDE DEF all
  <2>2. PICK X \in all : \A Y \in all : ~(Y \subseteq X /\ Y # X)
    BY <1>3, <2>1
  <2>a. PICK i \in S : X = below(i)
    BY <2>0
  <2>b. \A j \in S : ~(below(j) \subseteq below(i) /\ below(j) # below(i))
    BY <2>1, <2>2, <2>a
  <2>3. ASSUME NEW j \in S, Before(j, i)
        PROVE  FALSE
    <3>1. below(j) \subseteq below(i)
      BY <2>3, ItemOrder
    <3>2. j \in below(i) /\ j \notin below(j)
      BY <2>3, ItemOrder
    <3>3. QED
      BY <2>b, <3>1, <3>2
  <2>4. QED
    BY <2>3
<1>5. \E i \in S : \A j \in S : ~Before(i, j)
  <2> DEFINE above(i) == {k \in S : Before(i, k)}
         all == {above(i) : i \in S}
  <2>0. \A X \in all : \E i \in S : X = above(i)
    OBVIOUS
  <2>1. all \in SUBSET (SUBSET S) /\ all # {} /\ \A i \in S : above(i) \in all
    OBVIOUS
  <2> HIDE DEF all
  <2>2. PICK X \in all : \A Y \in all : ~(Y \subseteq X /\ Y # X)
    BY <1>3, <2>1
  <2>a. PICK i \in S : X = above(i)
    BY <2>0
  <2>b. \A j \in S : ~(above(j) \subseteq above(i) /\ above(j) # above(i))
    BY <2>1, <2>2, <2>a
  <2>3. ASSUME NEW j \in S, Before(i, j)
        PROVE  FALSE
    <3>1. above(j) \subseteq above(i)
      BY <2>3, ItemOrder
    <3>2. j \in above(i) /\ j \notin above(j)
      BY <2>3, ItemOrder
    <3>3. QED
      BY <2>b, <3>1, <3>2
  <2>4. QED
    BY <2>3
<1>6. QED
  BY <1>4, <1>5

LEMMA CheckpointIsLast ==
  ASSUME NEW S \in SUBSET Item, S # {}
  PROVE  Checkpoint(S) \in S /\ \A j \in S : ~Before(Checkpoint(S), j)
BY Ends DEF Checkpoint

\* Nothing between the checkpoint and the end of a batch is skipped, and an
\* empty batch means that nothing is left.
LEMMA BatchSkipsNothing ==
  ASSUME NEW f \in Phase, NEW last, NEW R \in SUBSET Row
  PROVE  LET B == Batch(f, last, R)
         IN  /\ B \subseteq Items(f, R)
             /\ \A i \in B : Before(last, i)
             /\ \A i \in Items(f, R) :
                  \/ ~Before(last, i)
                  \/ i \in B
                  \/ B # {} /\ Before(Checkpoint(B), i)
<1> DEFINE rest == {i \in Items(f, R) : Before(last, i)}
           below(i) == {j \in rest : Before(j, i)}
           B == {i \in rest : Cardinality(below(i)) < BatchSize}
<1>1. Batch(f, last, R) = B
  BY DEF Batch
<1>2. rest \subseteq Items(f, R) /\ rest \subseteq Item /\ B \subseteq rest
  BY ItemsMember
<1>3. IsFiniteSet(rest)
  BY <1>2, ItemsFinite, FS_Subset
<1>4. \A i \in rest : IsFiniteSet(below(i)) /\ Cardinality(below(i)) \in Nat
  BY <1>3, FS_Subset, FS_CardinalityType
<1>5. ASSUME NEW i \in rest, i \notin B
      PROVE  B # {} /\ Before(Checkpoint(B), i)
  <2>1. PICK k \in rest : \A j \in rest : ~Before(j, k)
    BY <1>2, Ends
  <2>2. below(k) = {}
    BY <2>1
  <2>3. Cardinality(below(k)) = 0
    BY <2>2, FS_EmptySet
  <2>4. k \in B
    BY <2>3, BackfillAssumption
  <2>5. Checkpoint(B) \in B
    BY <1>2, <2>4, CheckpointIsLast
  <2> DEFINE b == Checkpoint(B)
  <2>6. b \in rest /\ Cardinality(below(b)) < BatchSize
    BY <2>5
  <2>7. ~(Cardinality(below(i)) < BatchSize)
    BY <1>5
  <2> HIDE DEF b
  <2>8. ASSUME Before(i, b)
        PROVE  FALSE
    <3>1. below(i) \subseteq below(b)
      BY <1>2, <1>5, <2>6, <2>8, ItemOrder
    <3>2. Cardinality(below(i)) <= Cardinality(below(b))
      BY <1>4, <2>6, <3>1, FS_Subset
    <3> HIDE DEF below
    <3>3. QED
      BY <1>4, <1>5, <2>6, <2>7, <3>2, BackfillAssumption
  <2>9. i # b
    BY <2>6, <2>7
  <2>10. Before(b, i)
    BY <1>2, <1>5, <2>6, <2>8, <2>9, ItemOrder
  <2>11. QED
    BY <2>4, <2>10 DEF b
<1> HIDE DEF B
<1>6. \A i \in B : Before(last, i)
  BY <1>2
<1>7. \A i \in Items(f, R) : Before(last, i) => i \in rest
  OBVIOUS
<1> HIDE DEF rest
<1>8. QED
  BY <1>1, <1>2, <1>5, <1>6, <1>7

-----------------------------------------------------------------------------
(***************************************************************************)
(* What a write projects                                                   *)
(***************************************************************************)

LEMMA ItemsOfRow ==
  ASSUME NEW f \in Phase, NEW r \in Row, NEW i \in Items(f, {r})
  PROVE  /\ i \in Items(f, Row) /\ i[1] = r /\ KindOf[r] = PhaseKind[f]
         /\ KindOf[r] = "source" => f = "sources"
         /\ KindOf[r] = "excerpt" => f = "excerpts"
         /\ KindOf[r] = "report" => f = "reports"
         /\ KindOf[r] = "claim" => f \in {"claims", "links", "pointers"}
<1>1. i \in Items(f, Row) /\ i[1] = r
  BY ItemsMember
<1>2. KindOf[r] = PhaseKind[f]
  BY DEF Items, OfKind, PhaseKind
<1>3. QED
  BY <1>1, <1>2 DEF Phase, PhaseKind

\* Of the items of a written row v2 has afterwards what it had and what fits; the
\* rest are errors.
LEMMA ProjectedIs ==
  ASSUME NEW r \in Row
  PROVE  LET done == Projected(r)
         IN  /\ v2 \subseteq done.v2
             /\ \A x \in done.v2 : x \in v2 \/ \E f \in Phase : \E i \in Items(f, {r}) : x = <<f, i>>
             /\ \A x \in done.errors : \E f \in Phase : \E i \in Items(f, {r}) : x = <<f, i>>
             /\ \A f \in Phase : \A i \in Items(f, {r}) :
                  /\ <<f, i>> \in done.v2 <=> <<f, i>> \in v2 \/ Fits(f, i, done.v2)
                  /\ <<f, i>> \in done.errors <=> <<f, i>> \notin done.v2
<1> DEFINE d0 == [v2 |-> v2, errors |-> {}]
           One(done, fs) ==
             /\ v2 \subseteq done.v2
             /\ \A x \in done.v2 : x \in v2 \/ \E f \in fs : \E i \in Items(f, {r}) : x = <<f, i>>
             /\ \A x \in done.errors : \E f \in fs : \E i \in Items(f, {r}) : x = <<f, i>>
             /\ \A f \in fs : \A i \in Items(f, {r}) :
                  /\ <<f, i>> \in done.v2 <=> <<f, i>> \in v2 \/ Fits(f, i, done.v2)
                  /\ <<f, i>> \in done.errors <=> <<f, i>> \notin done.v2
<1>0. KindOf[r] \in {"source", "excerpt", "claim", "report"}
  BY BackfillAssumption
<1>1. ASSUME NEW done, NEW fs \in SUBSET Phase, One(done, fs), NEW f \in Phase \ fs,
             \A g \in fs : f \notin Lower[g]
      PROVE  One(Then(done, f, {r}), fs \cup {f})
  <2> DEFINE next == Then(done, f, {r})
  <2>0. /\ done.v2 \subseteq next.v2
        /\ \A x \in next.v2 : x \in done.v2 \/ \E i \in Items(f, {r}) : x = <<f, i>>
        /\ \A x \in next.errors : x \in done.errors \/ \E i \in Items(f, {r}) : x = <<f, i>>
        /\ \A g, i : <<g, i>> \in next.v2 <=>
              \/ <<g, i>> \in done.v2
              \/ g = f /\ i \in Items(f, {r}) /\ Fits(f, i, done.v2)
        /\ \A g, i : <<g, i>> \in next.errors <=>
              \/ <<g, i>> \in done.errors
              \/ g = f /\ i \in Items(f, {r}) /\ ~Representable(f, i, done.v2)
    <3> HIDE DEF One, next
    <3>0. next = Then(done, f, {r})
      BY DEF next
    <3>1. done.v2 \subseteq next.v2
      BY <3>0, AfterPhase
    <3>2. \A x \in next.v2 : x \in done.v2 \/ \E i \in Items(f, {r}) : x = <<f, i>>
      BY <3>0, AfterPhase
    <3>3. \A x \in next.errors : x \in done.errors \/ \E i \in Items(f, {r}) : x = <<f, i>>
      BY <3>0, AfterPhase
    <3>4. \A g, i : <<g, i>> \in next.v2 <=>
              \/ <<g, i>> \in done.v2
              \/ g = f /\ i \in Items(f, {r}) /\ Fits(f, i, done.v2)
      BY <3>0, AfterPhase
    <3>5. \A g, i : <<g, i>> \in next.errors <=>
              \/ <<g, i>> \in done.errors
              \/ g = f /\ i \in Items(f, {r}) /\ ~Representable(f, i, done.v2)
      BY <3>0, AfterPhase
    <3>6. QED
      BY <3>1, <3>2, <3>3, <3>4, <3>5
  <2> HIDE DEF next
  <2>1. \A g \in fs \cup {f} : \A i \in Items(g, {r}) : Fits(g, i, done.v2) <=> Fits(g, i, next.v2)
    <3> SUFFICES ASSUME NEW g \in fs \cup {f}, NEW i \in Items(g, {r})
                 PROVE  Fits(g, i, done.v2) <=> Fits(g, i, next.v2)
      OBVIOUS
    <3>1. g \in Phase /\ f \notin Lower[g] /\ i \in Items(g, Row)
      BY <1>1, ItemsOfRow DEF Lower, Phase
    <3>2. \A h \in Lower[g] : \A s : Has(done.v2, h, s) <=> Has(next.v2, h, s)
      BY <2>0, <3>1 DEF Has
    <3>3. QED
      BY <3>1, <3>2, FitsOnLower
  <2>2. \A i : <<f, i>> \notin done.errors /\ (<<f, i>> \in done.v2 <=> <<f, i>> \in v2)
    BY <1>1
  <2>3. /\ v2 \subseteq next.v2
        /\ \A x \in next.v2 : x \in v2 \/ \E g \in fs \cup {f} : \E i \in Items(g, {r}) : x = <<g, i>>
        /\ \A x \in next.errors : \E g \in fs \cup {f} : \E i \in Items(g, {r}) : x = <<g, i>>
    BY <1>1, <2>0
  <2>4. \A i \in Items(f, {r}) :
          /\ <<f, i>> \in next.v2 <=> <<f, i>> \in v2 \/ Fits(f, i, next.v2)
          /\ <<f, i>> \in next.errors <=> <<f, i>> \notin next.v2
    BY <2>0, <2>1, <2>2 DEF Representable
  <2>5. \A g \in fs : \A i \in Items(g, {r}) :
          /\ <<g, i>> \in next.v2 <=> <<g, i>> \in v2 \/ Fits(g, i, next.v2)
          /\ <<g, i>> \in next.errors <=> <<g, i>> \notin next.v2
    BY <1>1, <2>0, <2>1
  <2>6. QED
    BY <2>3, <2>4, <2>5 DEF next
<1>2. One(d0, {})
  OBVIOUS
<1> HIDE DEF d0, One
<1>3. ASSUME NEW f \in Phase
      PROVE  One(Then(d0, f, {r}), {f})
  BY <1>1, <1>2
<1>4. CASE KindOf[r] = "claim"
  <2>1. One(Then(d0, "claims", {r}), {"claims"})
    BY <1>3 DEF Phase
  <2>2. One(Then(Then(d0, "claims", {r}), "links", {r}), {"claims"} \cup {"links"})
    BY <1>1, <2>1 DEF Phase, Lower
  <2>3. {"claims"} \cup {"links"} \in SUBSET Phase /\ "pointers" \in Phase \ ({"claims"} \cup {"links"})
        /\ \A g \in {"claims"} \cup {"links"} : "pointers" \notin Lower[g]
    BY DEF Phase, Lower
  <2>4. One(ProjectedClaim(d0, r), ({"claims"} \cup {"links"}) \cup {"pointers"})
    BY <1>1, <2>2, <2>3 DEF ProjectedClaim
  <2>5. Projected(r) = ProjectedClaim(d0, r)
    BY <1>4 DEF Projected, d0
  <2>6. \A f \in Phase : \A i \in Items(f, {r}) : f \in ({"claims"} \cup {"links"}) \cup {"pointers"}
    BY <1>4, ItemsOfRow
  <2>7. ({"claims"} \cup {"links"}) \cup {"pointers"} \subseteq Phase
    BY DEF Phase
  <2>8. QED
    BY <2>4, <2>5, <2>6, <2>7 DEF One
<1>5. CASE KindOf[r] # "claim"
  <2>1. PICK f \in Phase : /\ Projected(r) = Then(d0, f, {r})
                           /\ \A g \in Phase : \A i \in Items(g, {r}) : g = f
    <3>1. CASE KindOf[r] = "source"
      BY <3>1, ItemsOfRow DEF Projected, d0, Phase
    <3>2. CASE KindOf[r] = "excerpt"
      BY <3>2, ItemsOfRow DEF Projected, d0, Phase
    <3>3. CASE KindOf[r] = "report"
      BY <3>3, ItemsOfRow DEF Projected, d0, Phase
    <3>4. QED
      BY <1>0, <1>5, <3>1, <3>2, <3>3
  <2>2. One(Projected(r), {f})
    BY <1>3, <2>1
  <2> HIDE DEF d0
  <2>3. \A g \in Phase : \A i \in Items(g, {r}) : g \in {f}
    BY <2>1
  <2>4. QED
    BY <2>2, <2>3 DEF One
<1>6. QED
  BY <1>4, <1>5

-----------------------------------------------------------------------------
(***************************************************************************)
(* Types                                                                   *)
(***************************************************************************)

Progress == [status : {"absent", "pending", "running", "completed"},
             last : Item \cup {Start}]
Run == [pc : {"idle", "opened", "scan", "batch"}, phase : 1 .. 7,
        last : Item \cup {Start}, batch : SUBSET Item]
OpenWrite == [row : Row \cup {NoRow}, v2 : SUBSET (Phase \X Item),
          errors : SUBSET (Phase \X Item)]
Rebuilding == [at : {"none", "read", "waiting", "passed", "deleted"}, docs : SUBSET Row,
            seen : SUBSET Row]

DataType ==
  /\ place \in Place
  /\ v1 \in SUBSET Row
  /\ v2 \subseteq Phase \X Item /\ errors \subseteq Phase \X Item
  /\ search \in SUBSET Row /\ missed \in SUBSET Row
  /\ late \in SUBSET Row /\ everLate \in SUBSET Row
  /\ overlapped \in BOOLEAN

RunType ==
  /\ progress \in [Phase -> Progress]
  /\ run \in [Proc -> Run]
  /\ \A p \in Proc : run[p].pc = "batch" => run[p].phase <= 6
  /\ runs \in 0 .. place.runs

LockType ==
  /\ txn \in [Client -> OpenWrite]
  /\ index \in [Agent -> Rebuilding]
  /\ lock \in Agent \cup {NoOne}
  /\ lock # NoOne => OnSqlite
  /\ OnSqlite => \A c \in Client :
       lock = c <=> txn[c].row # NoRow \/ index[c].at = "deleted"

LEMMA PhaseList ==
  /\ Len(BackfillPhases) = 6
  /\ BackfillPhases[1] = "sources" /\ BackfillPhases[2] = "excerpts"
  /\ BackfillPhases[3] = "claims" /\ BackfillPhases[4] = "links"
  /\ BackfillPhases[5] = "pointers" /\ BackfillPhases[6] = "reports"
  /\ \A k \in 1 .. 6 : BackfillPhases[k] \in Phase
BY DEF BackfillPhases, Phase

TypeInv == DataType /\ RunType /\ LockType

LEMMA TypeParts == TypeInv => TypeOK
<1>1. Len(BackfillPhases) + 1 = 7
  BY PhaseList
<1>2. QED
  BY <1>1 DEF TypeInv, TypeOK, DataType, RunType, LockType, Progress, Run, OpenWrite,
     Rebuilding

LEMMA PlaceType ==
  ASSUME place \in Place
  PROVE  /\ place.rows \in SUBSET Row /\ place.adopted \in SUBSET place.rows
         /\ place.adopted \in SUBSET Row /\ place.runs \in Nat
         /\ \A r \in place.rows : Needs[r] \subseteq place.rows
         /\ \A c \in place.adopted \cap Supported : Needs[c] # {}
BY BackfillAssumption

LEMMA AgentsAre ==
  /\ \A p \in Proc : p \in Agent /\ p \notin Client
  /\ \A c \in Client : c \in Agent /\ c \notin Proc
  /\ NoOne \notin Agent
  /\ Agent = Proc \cup Client
BY BackfillAssumption DEF Agent

LEMMA AdoptedType ==
  ASSUME place \in Place
  PROVE  /\ Adopted(place.adopted) \subseteq Phase \X Item
         /\ \A x \in Adopted(place.adopted) :
              \E f \in Phase : \E i \in Items(f, place.adopted) : x = <<f, i>>
<1>1. \A x \in Adopted(place.adopted) :
        \E f \in Phase : \E i \in Items(f, place.adopted) : x = <<f, i>>
  BY DEF Adopted, Phase
<1>2. QED
  BY <1>1, PlaceType, ItemsMember

LEMMA ProjectedType ==
  ASSUME NEW r \in Row, TypeInv
  PROVE  /\ Projected(r).v2 \subseteq Phase \X Item
         /\ Projected(r).errors \subseteq Phase \X Item
<1>1. \A f \in Phase : Items(f, {r}) \subseteq Item
  BY ItemsMember
<1>2. v2 \subseteq Phase \X Item
  BY DEF TypeInv, DataType
<1>3. /\ \A x \in Projected(r).v2 :
           x \in v2 \/ \E f \in Phase : \E i \in Items(f, {r}) : x = <<f, i>>
      /\ \A x \in Projected(r).errors : \E f \in Phase : \E i \in Items(f, {r}) : x = <<f, i>>
  BY ProjectedIs
<1> DEFINE all == Phase \X Item
<1>4. \A f \in Phase : \A i \in Items(f, {r}) : <<f, i>> \in all
  BY <1>1
<1> HIDE DEF all
<1>5. v2 \subseteq all
  BY <1>2 DEF all
<1>a. Projected(r).v2 \subseteq all /\ Projected(r).errors \subseteq all
  BY <1>5, <1>3, <1>4
<1>6. QED
  BY <1>a DEF all

LEMMA DocumentsType == \A R : Documents(R) \subseteq R
BY DEF Documents

\* The steps of rebuilds keep the types of the index and of the lock.
LEMMA TypeRebuild ==
  ASSUME TypeInv, NEW a \in Agent,
         \/ DeleteDocuments(a)
         \/ Wait(a)
  PROVE  TypeInv'
<1>1. DataType /\ RunType /\ LockType
  BY DEF TypeInv
<1>2. DataType' /\ RunType'
  BY <1>1 DEF DeleteDocuments, Wait, DataType, RunType
<1>3. CASE DeleteDocuments(a)
  <2> DEFINE seen == IF index[a].at = "read" THEN search ELSE {}
             now == [index[a] EXCEPT !.at = "deleted", !.seen = seen]
  <2>1. index' = [index EXCEPT ![a] = now]
    BY <1>1, <1>3 DEF DeleteDocuments, LockType, Rebuilding
  <2>2. seen \subseteq Row
    BY <1>1 DEF DataType
  <2> HIDE DEF seen
  <2>3. now \in Rebuilding /\ now.at = "deleted"
    BY <1>1, <2>2 DEF LockType, Rebuilding
  <2> HIDE DEF now
  <2>4. /\ index' \in [Agent -> Rebuilding]
        /\ index'[a].at = "deleted" /\ \A b \in Agent : b # a => index'[b] = index[b]
    BY <1>1, <2>1, <2>3 DEF LockType
  <2>5. UNCHANGED <<place, txn>> /\ CanLock(a) /\ lock' = Locked(a)
    BY <1>3 DEF DeleteDocuments
  <2>6. LockType'
    BY <1>1, <2>4, <2>5, AgentsAre DEF LockType, OnSqlite, CanLock, Locked
  <2>7. QED
    BY <1>2, <2>6 DEF TypeInv
<1>4. CASE Wait(a)
  <2>1. /\ index' \in [Agent -> Rebuilding] /\ UNCHANGED <<place, txn, lock>> /\ ~OnSqlite
    BY <1>1, <1>4 DEF Wait, LockType, Rebuilding
  <2>2. LockType'
    BY <1>1, <2>1, AgentsAre DEF LockType, OnSqlite
  <2>3. QED
    BY <1>2, <2>2 DEF TypeInv
<1>5. QED
  BY <1>3, <1>4

LEMMA TypeRead ==
  ASSUME TypeInv, NEW a \in Agent, ReadDocuments(a), index[a].at = "none",
         UNCHANGED <<place, txn>>,
         \/ UNCHANGED lock
         \/ a \in Proc /\ CanLock(a) /\ lock' = Locked(a)
  PROVE  LockType'
<1>1. DataType /\ LockType
  BY DEF TypeInv
<1>2. Own(a) \subseteq Row
  BY <1>1 DEF Own, LockType, OpenWrite
<1>3. Documents(v1 \cup Own(a)) \in SUBSET Row
  BY <1>1, <1>2, DocumentsType DEF DataType
<1>4. index' \in [Agent -> Rebuilding] /\ index'[a].at = "read"
      /\ \A b \in Agent : b # a => index'[b] = index[b]
  BY <1>1, <1>3 DEF ReadDocuments, LockType, Rebuilding
<1>6. lock' \in Agent \cup {NoOne} /\ (lock' # NoOne => OnSqlite)
  BY <1>1 DEF Locked, LockType
<1>7. OnSqlite => \A c \in Client :
        lock' = c <=> txn[c].row # NoRow \/ index'[c].at = "deleted"
  BY <1>1, <1>4, AgentsAre DEF LockType, CanLock, Locked
<1>8. QED
  BY <1>1, <1>4, <1>6, <1>7 DEF LockType, OnSqlite

\* A rebuild ends, and with it the write of a client.
LEMMA TypeEnd ==
  ASSUME TypeInv, NEW a \in Agent, NEW at \in {"read", "passed"},
         index' = [b \in Agent |->
                     IF b = a THEN Closed
                     ELSE IF index[a].at = "deleted" THEN Woken(b, at) ELSE index[b]],
         lock' = Released(a), UNCHANGED place,
         \/ a \in Proc /\ UNCHANGED txn
         \/ a \in Client /\ txn' = [txn EXCEPT ![a] = NoTxn]
  PROVE  LockType'
<1>1. DataType /\ LockType
  BY DEF TypeInv
<1>2. \A b \in Agent : /\ Woken(b, at) \in Rebuilding
                       /\ Woken(b, at).at = "deleted" <=> index[b].at = "deleted"
  BY <1>1 DEF Woken, LockType, Rebuilding
<1>3. Closed \in Rebuilding /\ Closed.at = "none"
  BY DEF Closed, Rebuilding
<1>4. /\ index' \in [Agent -> Rebuilding] /\ index'[a].at = "none"
      /\ \A b \in Agent : b # a => (index'[b].at = "deleted" <=> index[b].at = "deleted")
  BY <1>1, <1>2, <1>3 DEF LockType
<1>5. /\ txn' \in [Client -> OpenWrite] /\ \A c \in Client : c # a => txn'[c] = txn[c]
      /\ a \in Client => txn'[a].row = NoRow
  BY <1>1, AgentsAre DEF LockType, NoTxn, OpenWrite
<1>6. lock' \in Agent \cup {NoOne} /\ (lock' # NoOne => OnSqlite)
  BY <1>1 DEF Released, LockType
<1>7. OnSqlite => \A c \in Client :
        lock' = c <=> txn'[c].row # NoRow \/ index'[c].at = "deleted"
  BY <1>1, <1>4, <1>5, AgentsAre DEF LockType, Released
<1>8. QED
  BY <1>4, <1>5, <1>6, <1>7 DEF LockType, OnSqlite

LEMMA TypeClient ==
  ASSUME TypeInv, NEW c \in Client, ClientStep(c)
  PROVE  TypeInv'
<1>0. DataType /\ RunType /\ LockType /\ c \in Agent
  BY AgentsAre DEF TypeInv
<1>1. ASSUME NEW r \in Row, Begin(c, r)
      PROVE  TypeInv'
  <2>1. /\ UNCHANGED <<place, v1, v2, errors, progress, run, runs, index, search,
                       overlapped, missed>>
        /\ txn[c] = NoTxn /\ index[c] = Closed /\ CanLock(c) /\ lock' = Locked(c)
    BY <1>1 DEF Begin
  <2>2. /\ late' \in SUBSET Row /\ everLate' \in SUBSET Row
        /\ \E t \in OpenWrite : t.row = r /\ txn' = [txn EXCEPT ![c] = t]
    <3>1. CASE Ready
      <4> DEFINE t == [row |-> r, v2 |-> Projected(r).v2, errors |-> Projected(r).errors]
      <4>1. t \in OpenWrite /\ t.row = r
        BY ProjectedType DEF OpenWrite
      <4>2. txn' = [txn EXCEPT ![c] = t] /\ late' \in SUBSET Row /\ everLate' \in SUBSET Row
        BY <1>0, <1>1, <3>1 DEF Begin, DataType
      <4>3. QED
        BY <4>1, <4>2
    <3>2. CASE ~Ready
      <4> DEFINE t == [txn[c] EXCEPT !.row = r]
      <4>1. t \in OpenWrite /\ t.row = r
        BY <1>0 DEF LockType, OpenWrite
      <4>2. txn' = [txn EXCEPT ![c] = t] /\ late' \in SUBSET Row /\ everLate' \in SUBSET Row
        BY <1>0, <1>1, <3>2 DEF Begin, DataType
      <4>3. QED
        BY <4>1, <4>2
    <3>3. QED
      BY <3>1, <3>2
  <2>3. PICK t \in OpenWrite : t.row = r /\ txn' = [txn EXCEPT ![c] = t]
    BY <2>2
  <2>4. /\ txn' \in [Client -> OpenWrite] /\ txn'[c].row = r
        /\ \A d \in Client : d # c => txn'[d] = txn[d]
    BY <1>0, <2>3 DEF LockType
  <2>5. r # NoRow
    BY BackfillAssumption
  <2>6. LockType'
    BY <1>0, <2>1, <2>4, <2>5, AgentsAre DEF LockType, OnSqlite, CanLock, Locked
  <2>7. DataType' /\ RunType'
    BY <1>0, <2>1, <2>2 DEF DataType, RunType
  <2>8. QED
    BY <2>6, <2>7 DEF TypeInv
<1>2. CASE Read(c) \/ Reindex(c)
  <2>1. /\ ReadDocuments(c) /\ index[c].at = "none"
        /\ UNCHANGED <<place, v1, v2, errors, progress, run, runs, txn, search, lock,
                       late, everLate, overlapped, missed>>
    BY <1>2 DEF Read, Reindex, Closed
  <2>2. DataType' /\ RunType'
    BY <1>0, <2>1 DEF DataType, RunType
  <2>3. LockType'
    BY <2>1, <1>0, TypeRead
  <2>4. QED
    BY <2>2, <2>3 DEF TypeInv
<1>3. CASE DeleteDocuments(c) \/ Wait(c)
  BY <1>0, <1>3, TypeRebuild
<1>4. CASE Commit(c)
  <2>1. /\ v1' = v1 \cup Own(c) /\ v2' = v2 \cup txn[c].v2
        /\ errors' = errors \cup txn[c].errors
        /\ txn' = [txn EXCEPT ![c] = NoTxn]
        /\ CommitDocuments(c, v1')
        /\ UNCHANGED <<place, progress, run, runs, late, everLate, overlapped>>
    BY <1>4 DEF Commit
  <2>2. Own(c) \subseteq Row
    BY <1>0 DEF Own, LockType, OpenWrite
  <2>3. v1' \in SUBSET Row /\ v2' \subseteq Phase \X Item /\ errors' \subseteq Phase \X Item
    BY <1>0, <2>1, <2>2 DEF DataType, LockType, OpenWrite
  <2>4. search' \in SUBSET Row /\ missed' \in SUBSET Row
    <3>1. AtRisk(c, v1') \subseteq v1'
      BY DocumentsType DEF AtRisk
    <3>2. QED
      BY <1>0, <2>1, <2>3, <3>1 DEF CommitDocuments, DataType, LockType, Rebuilding
  <2>5. DataType' /\ RunType'
    BY <1>0, <2>1, <2>3, <2>4 DEF DataType, RunType
  <2>6. LockType'
    BY <1>0, <2>1, TypeEnd DEF CommitDocuments
  <2>7. QED
    BY <2>5, <2>6 DEF TypeInv
<1>5. CASE Rollback(c)
  <2>1. /\ late' = late \ Own(c) /\ txn' = [txn EXCEPT ![c] = NoTxn] /\ Abandon(c)
        /\ UNCHANGED <<place, v1, v2, errors, progress, run, runs, search, everLate,
                       overlapped, missed>>
    BY <1>5 DEF Rollback
  <2>2. DataType' /\ RunType'
    BY <1>0, <2>1 DEF DataType, RunType
  <2>3. LockType'
    BY <1>0, <2>1, TypeEnd DEF Abandon
  <2>4. QED
    BY <2>2, <2>3 DEF TypeInv
<1>6. QED
  BY <1>1, <1>2, <1>3, <1>4, <1>5, ClientStep(c) DEF ClientStep

LEMMA TypeRun ==
  ASSUME TypeInv, NEW p \in Proc, BackfillStep(p)
  PROVE  TypeInv'
<1>0. DataType /\ RunType /\ LockType /\ p \in Agent
  BY AgentsAre DEF TypeInv
<1>1. ASSUME NEW resume \in BOOLEAN, Open(p, resume)
      PROVE  TypeInv'
  <2>1. /\ v2' = v2 \cup Adopted(place.adopted) /\ runs < place.runs /\ runs' = runs + 1
        /\ progress' = [phase \in Phase |->
                          IF progress[phase].status = "absent"
                          THEN [status |-> "pending", last |-> Start]
                          ELSE progress[phase]]
        /\ late' \in {late, late \ v1} /\ overlapped' \in BOOLEAN
        /\ \/ run' = [run EXCEPT ![p].pc = "opened"]
           \/ run' = run
           \/ run' = [run EXCEPT ![p].pc = "scan"]
        /\ UNCHANGED <<place, v1, errors, txn, index, search, lock, everLate, missed>>
    BY <1>0, <1>1 DEF Open, DataType
  <2>2. DataType'
    BY <1>0, <2>1, AdoptedType DEF DataType
  <2>3. progress' \in [Phase -> Progress]
    BY <1>0, <2>1 DEF RunType, Progress
  <2>4. run' \in [Proc -> Run]
    BY <1>0, <2>1 DEF RunType, Run
  <2>5. runs' \in 0 .. place'.runs
    <3>1. place.runs \in Nat
      BY <1>0, PlaceType DEF DataType
    <3>2. QED
      BY <1>0, <2>1, <3>1 DEF RunType
  <2>6. LockType'
    BY <1>0, <2>1 DEF LockType, OnSqlite
  <2>7. \A q \in Proc : run'[q].pc = "batch" => run'[q].phase <= 6
    BY <1>0, <2>1 DEF RunType, Run
  <2>8. RunType'
    BY <2>3, <2>4, <2>5, <2>7 DEF RunType
  <2>9. QED
    BY <2>2, <2>6, <2>8 DEF TypeInv
<1>2. CASE Reset(p)
  <2>1. DataType' /\ LockType'
    BY <1>0, <1>2 DEF Reset, DataType, LockType, OnSqlite
  <2>2. RunType'
    BY <1>0, <1>2 DEF Reset, RunType, Progress, Run
  <2>3. QED
    BY <2>1, <2>2 DEF TypeInv
<1>3. CASE Fetch(p)
  <2>1. DataType' /\ LockType'
    BY <1>0, <1>3 DEF Fetch, DataType, LockType, OnSqlite
  <2> DEFINE f == Current(p)
  <2>2. run[p].phase \in 1 .. 6 /\ f \in Phase
    BY <1>0, <1>3, PhaseList DEF Fetch, Scanning, Current, RunType, Run
  <2>3. Batch(f, progress[f].last, v1) \subseteq Item /\ progress[f].last \in Item \cup {Start}
    <3>1. Batch(f, progress[f].last, v1) \subseteq Items(f, v1)
      BY DEF Batch
    <3>2. QED
      BY <1>0, <2>2, <3>1, ItemsMember DEF DataType, RunType, Progress
  <2>4. run' \in [Proc -> Run] /\ UNCHANGED <<progress, runs, place>>
    <3>1. UNCHANGED <<progress, runs, place>>
      BY <1>3 DEF Fetch
    <3>2. CASE progress[f].status = "completed"
      <4>1. run' = [run EXCEPT ![p].phase = run[p].phase + 1]
        BY <1>0, <1>3, <3>2 DEF Fetch, RunType
      <4>2. QED
        BY <1>0, <2>2, <3>1, <4>1 DEF RunType, Run
    <3>3. CASE progress[f].status # "completed"
      <4> DEFINE B == Batch(f, progress[f].last, v1)
                 l == progress[f].last
                 now == [run[p] EXCEPT !.pc = "batch", !.last = l, !.batch = B]
      <4>1. run' = [run EXCEPT ![p] = now]
        BY <1>0, <1>3, <3>3 DEF Fetch, RunType, Run
      <4> HIDE DEF B, l
      <4>2. B \in SUBSET Item /\ l \in Item \cup {Start}
        BY <2>3 DEF B, l
      <4>3. now \in Run
        BY <1>0, <4>2 DEF RunType, Run
      <4> HIDE DEF now
      <4>4. QED
        BY <1>0, <3>1, <4>1, <4>3 DEF RunType
    <3>4. QED
      BY <3>2, <3>3
  <2>5. \A q \in Proc : run'[q].pc = "batch" => run'[q].phase <= 6
    <3>1. \A q \in Proc : q # p => run'[q] = run[q]
      BY <1>0, <1>3 DEF Fetch, RunType
    <3>2. run'[p].pc = "batch" => run'[p].phase = run[p].phase
      BY <1>0, <1>3 DEF Fetch, RunType, Run, Scanning
    <3>3. QED
      BY <1>0, <2>2, <3>1, <3>2 DEF RunType
  <2>6. RunType'
    BY <1>0, <2>4, <2>5 DEF RunType
  <2>7. QED
    BY <2>1, <2>6 DEF TypeInv
<1>4. CASE Write(p)
  <2>0. UNCHANGED <<place, v1, runs, txn, index, search, lock, late, everLate,
                    overlapped, missed>>
    BY <1>4 DEF Write
  <2> DEFINE f == Current(p)
             batch == run[p].batch
             done == Process(f, batch, v2)
             next == [NoRun EXCEPT !.pc = "scan", !.phase = run[p].phase + 1]
             again == [NoRun EXCEPT !.pc = "scan", !.phase = run[p].phase]
  <2>1. batch \subseteq Item /\ run[p].last \in Item \cup {Start}
    BY <1>0 DEF RunType, Run
  <2>2. run[p].phase \in 1 .. 6 /\ f \in Phase
    BY <1>0, <1>4, PhaseList DEF Write, Current, RunType, Run
  <2>3. LockType'
    BY <1>0, <2>0 DEF LockType, OnSqlite
  <2>4. next \in Run /\ again \in Run /\ next.pc = "scan" /\ again.pc = "scan"
    <3>1. NoRun \in Run
      BY DEF NoRun, Run, Start
    <3>2. run[p].phase + 1 \in 1 .. 7 /\ run[p].phase \in 1 .. 7
      BY <2>2
    <3>3. \A k \in 1 .. 7 :
            /\ [NoRun EXCEPT !.pc = "scan", !.phase = k] \in Run
            /\ [NoRun EXCEPT !.pc = "scan", !.phase = k].pc = "scan"
      BY <3>1 DEF Run
    <3>4. QED
      BY <3>2, <3>3
  <2>5. CASE batch = {}
    <3>1. /\ progress' = [progress EXCEPT ![f] =
                            [status |-> "completed", last |-> run[p].last]]
          /\ run' = [run EXCEPT ![p] = next]
          /\ UNCHANGED <<v2, errors>>
      BY <1>4, <2>5 DEF Write
    <3>2. DataType'
      BY <1>0, <2>0, <3>1 DEF DataType
    <3> HIDE DEF next, f
    <3>3. RunType'
      BY <1>0, <2>0, <2>1, <2>2, <2>4, <3>1 DEF RunType, Progress
    <3>4. QED
      BY <2>3, <3>2, <3>3 DEF TypeInv
  <2>6. CASE batch # {}
    <3>1. /\ v2' = v2 \cup done.v2 /\ errors' = errors \cup done.errors
          /\ progress' = [progress EXCEPT ![f] =
                            [status |-> "running", last |-> Checkpoint(batch)]]
          /\ run' = [run EXCEPT ![p] = again]
      BY <1>4, <2>6 DEF Write
    <3>2. Checkpoint(batch) \in Item
      BY <2>1, <2>6, CheckpointIsLast
    <3>3. done.v2 \subseteq Phase \X Item /\ done.errors \subseteq Phase \X Item
      BY <2>1, <2>2 DEF Process
    <3>4. DataType'
      BY <1>0, <2>0, <3>1, <3>3 DEF DataType
    <3> HIDE DEF again, f, done
    <3>5. RunType'
      BY <1>0, <2>0, <2>1, <2>2, <2>4, <3>1, <3>2 DEF RunType, Progress
    <3>6. QED
      BY <2>3, <3>4, <3>5 DEF TypeInv
  <2>7. QED
    BY <2>5, <2>6
<1>5. CASE Finish(p)
  <2>1. /\ ReadDocuments(p) /\ index[p].at = "none"
        /\ UNCHANGED lock \/ (CanLock(p) /\ lock' = Locked(p))
        /\ UNCHANGED <<place, v1, v2, errors, progress, run, runs, txn, search, late,
                       everLate, overlapped, missed>>
    BY <1>5 DEF Finish, Closed
  <2>2. DataType' /\ RunType'
    BY <1>0, <2>1 DEF DataType, RunType
  <2>3. LockType'
    BY <1>0, <2>1, TypeRead
  <2>4. QED
    BY <2>2, <2>3 DEF TypeInv
<1>6. CASE DeleteDocuments(p) \/ Wait(p)
  BY <1>0, <1>6, TypeRebuild
<1>7. NoRun \in Run /\ NoRun.pc = "idle"
  BY DEF NoRun, Run, Start
<1>8. CASE Done(p)
  <2>1. /\ CommitDocuments(p, v1) /\ run' = [run EXCEPT ![p] = NoRun]
        /\ UNCHANGED <<place, v1, v2, errors, progress, runs, txn, late, everLate,
                       overlapped>>
    BY <1>8 DEF Done
  <2>2. search' \in SUBSET Row /\ missed' \in SUBSET Row
    <3>1. AtRisk(p, v1) \subseteq v1
      BY DocumentsType DEF AtRisk
    <3>2. QED
      BY <1>0, <2>1, <3>1 DEF CommitDocuments, DataType, LockType, Rebuilding
  <2>3. DataType' /\ RunType'
    BY <1>0, <1>7, <2>1, <2>2 DEF DataType, RunType
  <2>4. LockType'
    BY <1>0, <2>1, TypeEnd DEF CommitDocuments
  <2>5. QED
    BY <2>3, <2>4 DEF TypeInv
<1>9. CASE Interrupt(p)
  <2>1. /\ Abandon(p) /\ run' = [run EXCEPT ![p] = NoRun]
        /\ UNCHANGED <<place, v1, v2, errors, progress, runs, txn, search, late,
                       everLate, overlapped, missed>>
    BY <1>9 DEF Interrupt
  <2>2. DataType' /\ RunType'
    BY <1>0, <1>7, <2>1 DEF DataType, RunType
  <2>3. LockType'
    BY <1>0, <2>1, TypeEnd DEF Abandon
  <2>4. QED
    BY <2>2, <2>3 DEF TypeInv
<1>10. QED
  BY <1>1, <1>2, <1>3, <1>4, <1>5, <1>6, <1>8, <1>9, BackfillStep(p) DEF BackfillStep

LEMMA TypeInit == Init => TypeInv
<1> SUFFICES ASSUME Init
             PROVE  TypeInv
  OBVIOUS
<1>0. place \in Place
  BY DEF Init
<1>1. /\ place.rows \in SUBSET Row /\ place.adopted \in SUBSET Row /\ place.runs \in Nat
      /\ Documents(v1) \subseteq v1
  BY <1>0, PlaceType, DocumentsType
<1>2. v2 \subseteq Phase \X Item
  <2>1. \A f \in Phase : Items(f, place.adopted) \subseteq Item
    BY <1>1, ItemsMember
  <2>2. v2 = {"links"} \X Items("links", place.adopted)
             \cup {"pointers"} \X Items("pointers", place.adopted)
    BY DEF Init
  <2>3. QED
    BY <2>1, <2>2 DEF Phase
<1>3. DataType
  BY <1>0, <1>1, <1>2 DEF Init, DataType
<1>4. RunType
  BY <1>1 DEF Init, RunType, Progress, Run, NoRun, Start
<1>5. LockType
  <2>1. \A c \in Client : txn[c].row = NoRow /\ index[c].at = "none" /\ lock # c
    BY AgentsAre DEF Init, NoTxn, Closed
  <2>2. NoTxn \in OpenWrite /\ Closed \in Rebuilding
    BY DEF NoTxn, Closed, OpenWrite, Rebuilding
  <2>3. QED
    BY <2>1, <2>2 DEF Init, LockType
<1>6. QED
  BY <1>3, <1>4, <1>5 DEF TypeInv

LEMMA TypeStep == TypeInv /\ [Next]_vars => TypeInv'
<1> SUFFICES ASSUME TypeInv, [Next]_vars
             PROVE  TypeInv'
  OBVIOUS
<1>1. CASE UNCHANGED vars
  BY <1>1 DEF vars, TypeInv, DataType, RunType, LockType, OnSqlite
<1>2. QED
  BY <1>1, TypeClient, TypeRun DEF Next

THEOREM BackfillTypeCorrect == Spec => []TypeOK
<1>1. QED
  BY TypeInit, TypeStep, TypeParts, PTL DEF Spec

-----------------------------------------------------------------------------
(***************************************************************************)
(* What the steps do to the rows and to the runs                           *)
(***************************************************************************)

Rank ==
  [sources |-> 1, excerpts |-> 2, claims |-> 3, links |-> 4, pointers |-> 5,
   reports |-> 6]

LEMMA Ranks ==
  /\ \A f \in Phase : Rank[f] \in 1 .. 6 /\ BackfillPhases[Rank[f]] = f
  /\ \A k \in 1 .. 6 : BackfillPhases[k] \in Phase /\ Rank[BackfillPhases[k]] = k
  /\ \A f \in Phase : \A g \in Lower[f] : g \in Phase \ {"links"} /\ Rank[g] < Rank[f]
  /\ \A f, g \in Phase : Rank[f] = Rank[g] => f = g
<1>1. \A k \in 1 .. 6 : k = 1 \/ k = 2 \/ k = 3 \/ k = 4 \/ k = 5 \/ k = 6
  OBVIOUS
<1>2. QED
  BY <1>1, PhaseList DEF Rank, Phase, Lower

coreVars ==
  <<place, v1, v2, errors, progress, run, txn, late, everLate, overlapped>>

\* A run is over, done or not.
Leave(p) ==
  /\ run' = [run EXCEPT ![p] = NoRun]
  /\ UNCHANGED <<place, v1, v2, errors, progress, txn, late, everLate, overlapped>>

LEMMA CoreSteps ==
  [Next]_vars =>
    \/ UNCHANGED coreVars
    \/ \E c \in Client : (\E r \in Row : Begin(c, r)) \/ Commit(c) \/ Rollback(c)
    \/ \E p \in Proc : \/ \E resume \in BOOLEAN : Open(p, resume)
                       \/ Reset(p) \/ Fetch(p) \/ Write(p) \/ Leave(p)
<1> SUFFICES ASSUME [Next]_vars
             PROVE  \/ UNCHANGED coreVars
                    \/ \E c \in Client : \/ \E r \in Row : Begin(c, r)
                                         \/ Commit(c) \/ Rollback(c)
                    \/ \E p \in Proc : \/ \E resume \in BOOLEAN : Open(p, resume)
                                       \/ Reset(p) \/ Fetch(p) \/ Write(p) \/ Leave(p)
  OBVIOUS
<1>1. CASE UNCHANGED vars
  BY <1>1 DEF vars, coreVars
<1>2. ASSUME NEW c \in Client, ClientStep(c)
      PROVE  UNCHANGED coreVars \/ (\E r \in Row : Begin(c, r)) \/ Commit(c) \/ Rollback(c)
  <2>1. CASE Read(c)
    BY <2>1 DEF Read, coreVars
  <2>2. CASE Reindex(c)
    BY <2>2 DEF Reindex, coreVars
  <2>3. CASE DeleteDocuments(c)
    BY <2>3 DEF DeleteDocuments, coreVars
  <2>4. CASE Wait(c)
    BY <2>4 DEF Wait, coreVars
  <2>5. QED
    BY <1>2, <2>1, <2>2, <2>3, <2>4 DEF ClientStep
<1>3. ASSUME NEW p \in Proc, BackfillStep(p)
      PROVE  \/ UNCHANGED coreVars
             \/ \E resume \in BOOLEAN : Open(p, resume)
             \/ Reset(p) \/ Fetch(p) \/ Write(p) \/ Leave(p)
  <2>1. CASE Finish(p)
    BY <2>1 DEF Finish, coreVars
  <2>2. CASE Done(p)
    BY <2>2 DEF Done, Leave
  <2>3. CASE DeleteDocuments(p)
    BY <2>3 DEF DeleteDocuments, coreVars
  <2>4. CASE Wait(p)
    BY <2>4 DEF Wait, coreVars
  <2>5. CASE Interrupt(p)
    BY <2>5 DEF Interrupt, Leave
  <2>6. QED
    BY <1>3, <2>1, <2>2, <2>3, <2>4, <2>5 DEF BackfillStep
<1>4. CASE Next
  <2>1. CASE \E c \in Client : ClientStep(c)
    BY <1>2, <2>1
  <2>2. CASE \E p \in Proc : BackfillStep(p)
    BY <1>3, <2>2
  <2>3. QED
    BY <1>4, <2>1, <2>2 DEF Next
<1>5. QED
  BY <1>1, <1>4

LEMMA BeginDoes ==
  ASSUME TypeInv, NEW c \in Client, NEW r \in Row, Begin(c, r)
  PROVE  /\ UNCHANGED <<place, v1, v2, errors, progress, run, overlapped>>
         /\ txn[c] = NoTxn /\ r \notin v1 /\ Needs[r] \subseteq v1 /\ r # NoRow
         /\ \A d \in Client : txn[d].row # r
         /\ \A d \in Client : d # c => txn'[d] = txn[d]
         /\ txn'[c].row = r
         /\ Ready => /\ txn'[c].v2 = Projected(r).v2
                     /\ txn'[c].errors = Projected(r).errors
                     /\ late' = IF txn'[c].errors = {} THEN late ELSE late \cup {r}
                     /\ everLate' = everLate
         /\ ~Ready => /\ txn'[c].v2 = {} /\ txn'[c].errors = {}
                      /\ late' = late \cup {r}
                      /\ everLate' = everLate \cup {r}
<1>0. txn \in [Client -> OpenWrite]
  BY DEF TypeInv, LockType
<1>1. /\ UNCHANGED <<place, v1, v2, errors, progress, run, overlapped>>
      /\ txn[c] = NoTxn /\ r \notin v1 /\ Needs[r] \subseteq v1
      /\ \A d \in Client : txn[d].row # r
  BY DEF Begin
<1>2. r # NoRow
  BY BackfillAssumption
<1>3. CASE Ready
  BY <1>0, <1>1, <1>2, <1>3 DEF Begin
<1>4. CASE ~Ready
  BY <1>0, <1>1, <1>2, <1>4 DEF Begin, NoTxn, OpenWrite
<1>5. QED
  BY <1>3, <1>4

LEMMA CommitDoes ==
  ASSUME TypeInv, NEW c \in Client, Commit(c)
  PROVE  /\ UNCHANGED <<place, progress, run, late, everLate, overlapped>>
         /\ v1' = v1 \cup (IF txn[c].row # NoRow THEN {txn[c].row} ELSE {})
         /\ v2' = v2 \cup txn[c].v2 /\ errors' = errors \cup txn[c].errors
         /\ txn'[c] = NoTxn /\ \A d \in Client : d # c => txn'[d] = txn[d]
BY DEF Commit, Own, TypeInv, LockType

LEMMA RollbackDoes ==
  ASSUME TypeInv, NEW c \in Client, Rollback(c)
  PROVE  /\ UNCHANGED <<place, v1, v2, errors, progress, run, everLate, overlapped>>
         /\ late' = late \ (IF txn[c].row # NoRow THEN {txn[c].row} ELSE {})
         /\ txn'[c] = NoTxn /\ \A d \in Client : d # c => txn'[d] = txn[d]
BY DEF Rollback, Own, TypeInv, LockType

LEMMA OpenDoes ==
  ASSUME TypeInv, NEW p \in Proc, NEW resume \in BOOLEAN, Open(p, resume)
  PROVE  /\ UNCHANGED <<place, v1, errors, txn, everLate>>
         /\ v2' = v2 \cup Adopted(place.adopted)
         /\ \A f \in Phase :
              /\ progress[f].status = "absent" =>
                   progress'[f] = [status |-> "pending", last |-> Start]
              /\ progress[f].status # "absent" => progress'[f] = progress[f]
         /\ late' = IF progress' = progress THEN late ELSE late \ v1
         /\ run[p] = NoRun
         /\ overlapped' = (overlapped \/ \E q \in Proc \ {p} : run[q] # NoRun)
         /\ \A q \in Proc : q # p => run'[q] = run[q]
         /\ run'[p].phase = 1 /\ run'[p].pc \in {"idle", "opened", "scan"}
BY DEF Open, TypeInv, RunType, Run, NoRun

LEMMA ResetDoes ==
  ASSUME TypeInv, NEW p \in Proc, Reset(p)
  PROVE  /\ UNCHANGED <<place, v1, v2, errors, txn, everLate, overlapped>>
         /\ \A f \in Phase : progress'[f] = [status |-> "pending", last |-> Start]
         /\ late' = late \ v1
         /\ run[p].pc = "opened"
         /\ \A q \in Proc : q # p => run'[q] = run[q]
         /\ run'[p].phase = run[p].phase /\ run'[p].pc = "scan"
BY DEF Reset, TypeInv, RunType, Run

LEMMA FetchDoes ==
  ASSUME TypeInv, NEW p \in Proc, Fetch(p)
  PROVE  \E f \in Phase :
         /\ f = Current(p) /\ Rank[f] = run[p].phase /\ run[p].pc = "scan"
         /\ UNCHANGED <<place, v1, v2, errors, progress, txn, late, everLate, overlapped>>
         /\ \A q \in Proc : q # p => run'[q] = run[q]
         /\ progress[f].status = "completed" =>
              run'[p].phase = run[p].phase + 1 /\ run'[p].pc = "scan"
         /\ progress[f].status # "completed" =>
              /\ run'[p].phase = run[p].phase /\ run'[p].pc = "batch"
              /\ run'[p].last = progress[f].last
              /\ run'[p].batch = Batch(f, progress[f].last, v1)
<1>1. run[p].phase \in 1 .. 6 /\ run[p].pc = "scan" /\ run \in [Proc -> Run]
  BY PhaseList DEF Fetch, Scanning, TypeInv, RunType, Run
<1>2. Current(p) \in Phase /\ Rank[Current(p)] = run[p].phase
  BY <1>1, Ranks DEF Current
<1>3. CASE progress[Current(p)].status = "completed"
  BY <1>1, <1>2, <1>3 DEF Fetch, Run
<1>4. CASE progress[Current(p)].status # "completed"
  BY <1>1, <1>2, <1>4 DEF Fetch, Run
<1>5. QED
  BY <1>3, <1>4

LEMMA WriteDoes ==
  ASSUME TypeInv, NEW p \in Proc, Write(p)
  PROVE  \E f \in Phase :
         /\ f = Current(p) /\ Rank[f] = run[p].phase /\ run[p].pc = "batch"
         /\ UNCHANGED <<place, v1, txn, late, everLate, overlapped>>
         /\ \A q \in Proc : q # p => run'[q] = run[q]
         /\ run'[p].pc = "scan"
         /\ \A g \in Phase : g # f => progress'[g] = progress[g]
         /\ run[p].batch = {} =>
              /\ progress'[f] = [status |-> "completed", last |-> run[p].last]
              /\ run'[p].phase = run[p].phase + 1
              /\ UNCHANGED <<v2, errors>>
         /\ run[p].batch # {} =>
              /\ progress'[f] = [status |-> "running", last |-> Checkpoint(run[p].batch)]
              /\ run'[p].phase = run[p].phase
         /\ \A g, i : <<g, i>> \in v2' <=>
              <<g, i>> \in v2 \/ (g = f /\ i \in run[p].batch /\ Fits(f, i, v2))
         /\ \A g, i : <<g, i>> \in errors' <=>
              \/ <<g, i>> \in errors
              \/ g = f /\ i \in run[p].batch /\ <<f, i>> \notin v2 /\ ~Fits(f, i, v2)
<1> DEFINE f == Current(p)
           batch == run[p].batch
           done == Process(f, batch, v2)
<1>1. run[p].phase \in 1 .. 6 /\ run[p].pc = "batch" /\ run \in [Proc -> Run]
      /\ progress \in [Phase -> Progress]
  BY DEF Write, TypeInv, RunType, Run
<1>2. f \in Phase /\ Rank[f] = run[p].phase
  BY <1>1, Ranks DEF Current
<1>3. UNCHANGED <<place, v1, txn, late, everLate, overlapped>>
  BY DEF Write
<1>4. CASE batch = {}
  <2>1. /\ progress' = [progress EXCEPT ![f] =
                          [status |-> "completed", last |-> run[p].last]]
        /\ run' = [run EXCEPT ![p] = [NoRun EXCEPT !.pc = "scan",
                                                  !.phase = run[p].phase + 1]]
        /\ UNCHANGED <<v2, errors>>
    BY <1>4 DEF Write
  <2> HIDE DEF f
  <2>2. run'[p].phase = run[p].phase + 1 /\ run'[p].pc = "scan"
    BY <1>1, <2>1 DEF NoRun
  <2>3. QED
    BY <1>1, <1>2, <1>3, <1>4, <2>1, <2>2 DEF f
<1>5. CASE batch # {}
  <2>1. /\ v2' = v2 \cup done.v2 /\ errors' = errors \cup done.errors
        /\ progress' = [progress EXCEPT ![f] =
                          [status |-> "running", last |-> Checkpoint(batch)]]
        /\ run' = [run EXCEPT ![p] = [NoRun EXCEPT !.pc = "scan",
                                                  !.phase = run[p].phase]]
    BY <1>5 DEF Write
  <2>2. run'[p].phase = run[p].phase /\ run'[p].pc = "scan"
    BY <1>1, <2>1 DEF NoRun
  <2>3. /\ \A g, i : <<g, i>> \in done.v2 <=> g = f /\ i \in batch /\ Representable(f, i, v2)
        /\ \A g, i : <<g, i>> \in done.errors <=>
             g = f /\ i \in batch /\ ~Representable(f, i, v2)
    <3> HIDE DEF f, batch
    <3>1. QED
      BY DEF Process
  <2> HIDE DEF done
  <2>4. /\ \A g, i : <<g, i>> \in v2' <=>
             <<g, i>> \in v2 \/ (g = f /\ i \in batch /\ Fits(f, i, v2))
        /\ \A g, i : <<g, i>> \in errors' <=>
             \/ <<g, i>> \in errors
             \/ g = f /\ i \in batch /\ <<f, i>> \notin v2 /\ ~Fits(f, i, v2)
    BY <2>1, <2>3 DEF Representable
  <2> HIDE DEF f
  <2>5. QED
    BY <1>1, <1>2, <1>3, <1>5, <2>1, <2>2, <2>4 DEF f
<1>6. QED
  BY <1>4, <1>5

-----------------------------------------------------------------------------
(***************************************************************************)
(* Rows and progress                                                       *)
(***************************************************************************)

\* What is projected, or is an error, is of committed rows, which refer to
\* committed rows; a write that is open brings in what is of its row.
RowsOK ==
  /\ \A f \in Phase : \A i \in Item :
       <<f, i>> \in v2 \/ <<f, i>> \in errors => i \in Items(f, v1)
  /\ \A r \in v1 : Needs[r] \subseteq v1
  /\ place.rows \subseteq v1
  /\ \A c \in Client : txn[c].row # NoRow =>
       /\ txn[c].row \notin v1 /\ Needs[txn[c].row] \subseteq v1
       /\ \A f \in Phase : \A i \in Item :
            /\ <<f, i>> \in txn[c].v2 => <<f, i>> \in v2 \/ i \in Items(f, {txn[c].row})
            /\ <<f, i>> \in txn[c].errors => i \in Items(f, {txn[c].row})
  /\ \A c \in Client : txn[c].row = NoRow => txn[c] = NoTxn
  /\ \A c, d \in Client : txn[c].row = txn[d].row /\ txn[c].row # NoRow => c = d

Started == \A f \in Phase : progress[f].status # "absent"

\* The first run adopts and fills the progress table, all at once; what has not
\* begun has no checkpoint; a batch is of rows that are committed.
ProgressOK ==
  /\ Started \/ \A f \in Phase : progress[f].status = "absent"
  /\ \A f \in Phase : progress[f].status \in {"absent", "pending"} =>
       progress[f].last = Start
  /\ Started => Adopted(place.adopted) \subseteq v2
  /\ \A p \in Proc : run[p].pc # "idle" => Started
  /\ \A p \in Proc : run[p].pc \in {"idle", "opened"} => run[p].phase = 1
  /\ \A p \in Proc : run[p].pc = "batch" =>
       \A f \in Phase : Rank[f] = run[p].phase => run[p].batch \subseteq Items(f, v1)

LEMMA MoreItems ==
  ASSUME NEW f \in Phase, NEW R \in SUBSET Row, NEW S \in SUBSET Row, R \subseteq S
  PROVE  Items(f, R) \subseteq Items(f, S)
BY ItemsMember

LEMMA RowsStep ==
  ASSUME TypeInv, TypeInv', RowsOK, ProgressOK, [Next]_vars
  PROVE  RowsOK'
<1>0. /\ v1 \in SUBSET Row /\ v1' \in SUBSET Row /\ txn \in [Client -> OpenWrite]
      /\ place \in Place
  BY DEF TypeInv, DataType, LockType
<1>1. CASE UNCHANGED coreVars
  BY <1>1 DEF coreVars, RowsOK
<1>2. ASSUME NEW c \in Client, NEW r \in Row, Begin(c, r)
      PROVE  RowsOK'
  <2>1. /\ UNCHANGED <<place, v1, v2, errors>>
        /\ r \notin v1 /\ Needs[r] \subseteq v1 /\ r # NoRow
        /\ \A d \in Client : txn[d].row # r
        /\ \A d \in Client : d # c => txn'[d] = txn[d]
        /\ txn'[c].row = r
    BY <1>2, BeginDoes
  <2>2. \A f \in Phase : \A i \in Item :
          /\ <<f, i>> \in txn'[c].v2 => <<f, i>> \in v2 \/ i \in Items(f, {r})
          /\ <<f, i>> \in txn'[c].errors => i \in Items(f, {r})
    <3>1. CASE Ready
      <4>1. /\ \A x \in Projected(r).v2 :
                 x \in v2 \/ \E f \in Phase : \E i \in Items(f, {r}) : x = <<f, i>>
            /\ \A x \in Projected(r).errors :
                 \E f \in Phase : \E i \in Items(f, {r}) : x = <<f, i>>
        BY ProjectedIs
      <4>2. txn'[c].v2 = Projected(r).v2 /\ txn'[c].errors = Projected(r).errors
        BY <1>2, <3>1, BeginDoes
      <4>3. QED
        BY <4>1, <4>2
    <3>2. CASE ~Ready
      BY <1>2, <3>2, BeginDoes
    <3>3. QED
      BY <3>1, <3>2
  <2>3. \A d \in Client : txn'[d].row # NoRow =>
          /\ txn'[d].row \notin v1 /\ Needs[txn'[d].row] \subseteq v1
          /\ \A f \in Phase : \A i \in Item :
               /\ <<f, i>> \in txn'[d].v2 => <<f, i>> \in v2 \/ i \in Items(f, {txn'[d].row})
               /\ <<f, i>> \in txn'[d].errors => i \in Items(f, {txn'[d].row})
    BY <2>1, <2>2 DEF RowsOK
  <2>4. /\ \A d \in Client : txn'[d].row = NoRow => txn'[d] = NoTxn
        /\ \A d, e \in Client : txn'[d].row = txn'[e].row /\ txn'[d].row # NoRow => d = e
    BY <2>1 DEF RowsOK
  <2>5. QED
    BY <2>1, <2>3, <2>4 DEF RowsOK
<1>3. ASSUME NEW c \in Client, Commit(c)
      PROVE  RowsOK'
  <2>1. /\ UNCHANGED place
        /\ v1' = v1 \cup (IF txn[c].row # NoRow THEN {txn[c].row} ELSE {})
        /\ v2' = v2 \cup txn[c].v2 /\ errors' = errors \cup txn[c].errors
        /\ txn'[c] = NoTxn /\ \A d \in Client : d # c => txn'[d] = txn[d]
    BY <1>3, CommitDoes
  <2>2. CASE txn[c].row = NoRow
    <3>0. txn[c] = NoTxn
      BY <2>2 DEF RowsOK
    <3>1. UNCHANGED <<v1, v2, errors>> /\ txn'[c] = txn[c]
      <4>1. NoTxn.v2 = {} /\ NoTxn.errors = {}
        BY DEF NoTxn
      <4>2. QED
        BY <2>1, <2>2, <3>0, <4>1
    <3>2. txn' = txn
      <4>1. txn \in [Client -> OpenWrite] /\ txn' \in [Client -> OpenWrite]
        BY DEF TypeInv, LockType
      <4>2. QED
        BY <2>1, <3>1, <4>1
    <3>3. QED
      BY <2>1, <3>1, <3>2 DEF RowsOK
  <2>3. CASE txn[c].row # NoRow
    <3> DEFINE r == txn[c].row
    <3>1. /\ r \in Row /\ v1' = v1 \cup {r} /\ Needs[r] \subseteq v1
      BY <1>0, <2>1, <2>3 DEF RowsOK, OpenWrite
    <3>2. \A f \in Phase : Items(f, v1) \subseteq Items(f, v1')
                           /\ Items(f, {r}) \subseteq Items(f, v1')
      BY <1>0, <3>1, MoreItems
    <3>3. \A f \in Phase : \A i \in Item :
            <<f, i>> \in v2' \/ <<f, i>> \in errors' => i \in Items(f, v1')
      BY <2>1, <2>3, <3>2 DEF RowsOK
    <3>4. /\ \A s \in v1' : Needs[s] \subseteq v1'
          /\ place'.rows \subseteq v1'
      BY <2>1, <3>1 DEF RowsOK
    <3>5. \A d \in Client : txn'[d].row # NoRow => d # c /\ txn'[d] = txn[d] /\ txn[d].row # r
      BY <2>1, <2>3 DEF RowsOK, NoTxn
    <3>6. \A d \in Client : txn'[d].row # NoRow =>
            /\ txn'[d].row \notin v1' /\ Needs[txn'[d].row] \subseteq v1'
            /\ \A f \in Phase : \A i \in Item :
                 /\ <<f, i>> \in txn'[d].v2 => <<f, i>> \in v2' \/ i \in Items(f, {txn'[d].row})
                 /\ <<f, i>> \in txn'[d].errors => i \in Items(f, {txn'[d].row})
      BY <2>1, <3>1, <3>5 DEF RowsOK
    <3>7. /\ \A d \in Client : txn'[d].row = NoRow => txn'[d] = NoTxn
          /\ \A d, e \in Client : txn'[d].row = txn'[e].row /\ txn'[d].row # NoRow => d = e
      BY <2>1, <3>5 DEF RowsOK
    <3>8. QED
      BY <3>3, <3>4, <3>6, <3>7 DEF RowsOK
  <2>4. QED
    BY <2>2, <2>3
<1>4. ASSUME NEW c \in Client, Rollback(c)
      PROVE  RowsOK'
  <2>1. /\ UNCHANGED <<place, v1, v2, errors>>
        /\ txn'[c] = NoTxn /\ \A d \in Client : d # c => txn'[d] = txn[d]
    BY <1>4, RollbackDoes
  <2>2. NoTxn.row = NoRow
    BY DEF NoTxn
  <2>3. QED
    BY <2>1, <2>2 DEF RowsOK
<1>5. ASSUME NEW p \in Proc, NEW resume \in BOOLEAN, Open(p, resume)
      PROVE  RowsOK'
  <2>1. UNCHANGED <<place, v1, errors, txn>> /\ v2' = v2 \cup Adopted(place.adopted)
    BY <1>5, OpenDoes
  <2>2. \A f \in Phase : \A i \in Item :
          <<f, i>> \in Adopted(place.adopted) => i \in Items(f, v1)
    <3>1. place.adopted \subseteq v1
      BY <1>0, PlaceType DEF RowsOK
    <3>2. \A f \in Phase : Items(f, place.adopted) \subseteq Items(f, v1)
      BY <1>0, <3>1, MoreItems
    <3>3. \A x \in Adopted(place.adopted) :
              \E f \in Phase : \E i \in Items(f, place.adopted) : x = <<f, i>>
      BY <1>0, AdoptedType
    <3>4. QED
      BY <3>2, <3>3
  <2>3. QED
    BY <2>1, <2>2 DEF RowsOK
<1>6. ASSUME NEW p \in Proc, Reset(p) \/ Fetch(p) \/ Leave(p)
      PROVE  RowsOK'
  <2>1. UNCHANGED <<place, v1, v2, errors, txn>>
    BY <1>6 DEF Reset, Fetch, Leave
  <2>2. QED
    BY <2>1 DEF RowsOK
<1>7. ASSUME NEW p \in Proc, Write(p)
      PROVE  RowsOK'
  <2>1. PICK f \in Phase :
         /\ Rank[f] = run[p].phase /\ run[p].pc = "batch"
         /\ UNCHANGED <<place, v1, txn>>
         /\ \A g, i : <<g, i>> \in v2' <=>
              <<g, i>> \in v2 \/ (g = f /\ i \in run[p].batch /\ Fits(f, i, v2))
         /\ \A g, i : <<g, i>> \in errors' <=>
              \/ <<g, i>> \in errors
              \/ g = f /\ i \in run[p].batch /\ <<f, i>> \notin v2 /\ ~Fits(f, i, v2)
    BY <1>7, WriteDoes
  <2>2. run[p].batch \subseteq Items(f, v1)
    BY <2>1 DEF ProgressOK
  <2>3. \A g \in Phase : \A i \in Item :
          <<g, i>> \in v2' \/ <<g, i>> \in errors' => i \in Items(g, v1)
    BY <2>1, <2>2 DEF RowsOK
  <2>4. \A g \in Phase : \A i \in Item : <<g, i>> \in v2 => <<g, i>> \in v2'
    BY <2>1
  <2>5. QED
    BY <2>1, <2>3, <2>4 DEF RowsOK
<1>8. QED
  BY <1>1, <1>2, <1>3, <1>4, <1>5, <1>6, <1>7, CoreSteps

LEMMA ProgressStep ==
  ASSUME TypeInv, TypeInv', RowsOK, ProgressOK, [Next]_vars
  PROVE  ProgressOK'
<1>0. /\ v1 \in SUBSET Row /\ v1' \in SUBSET Row /\ place \in Place
      /\ run \in [Proc -> Run] /\ run' \in [Proc -> Run]
      /\ progress \in [Phase -> Progress] /\ progress' \in [Phase -> Progress]
  BY DEF TypeInv, DataType, RunType
<1>a. NoRun.pc = "idle" /\ NoRun.phase = 1
  BY DEF NoRun
<1>1. CASE UNCHANGED coreVars
  BY <1>1 DEF coreVars, ProgressOK, Started
<1>2. ASSUME NEW c \in Client, (\E r \in Row : Begin(c, r)) \/ Commit(c) \/ Rollback(c)
      PROVE  ProgressOK'
  <2>1. UNCHANGED <<place, progress, run>> /\ v1 \subseteq v1' /\ v2 \subseteq v2'
    BY <1>2, CommitDoes DEF Begin, Rollback
  <2>2. \A f \in Phase : Items(f, v1) \subseteq Items(f, v1')
    BY <1>0, <2>1, MoreItems
  <2>3. QED
    BY <2>1, <2>2 DEF ProgressOK, Started
<1>3. ASSUME NEW p \in Proc, NEW resume \in BOOLEAN, Open(p, resume)
      PROVE  ProgressOK'
  <2>1. /\ UNCHANGED <<place, v1>> /\ v2' = v2 \cup Adopted(place.adopted)
        /\ \A f \in Phase :
              /\ progress[f].status = "absent" =>
                   progress'[f] = [status |-> "pending", last |-> Start]
              /\ progress[f].status # "absent" => progress'[f] = progress[f]
        /\ run[p] = NoRun
        /\ \A q \in Proc : q # p => run'[q] = run[q]
        /\ run'[p].phase = 1 /\ run'[p].pc \in {"idle", "opened", "scan"}
    BY <1>3, OpenDoes
  <2>2. /\ \A f \in Phase : progress'[f].status # "absent"
        /\ \A f \in Phase : progress'[f].status = "pending" => progress'[f].last = Start
    BY <2>1 DEF ProgressOK
  <2>3. Started'
    BY <2>2 DEF Started
  <2>4. QED
    BY <2>1, <2>2, <2>3 DEF ProgressOK
<1>4. ASSUME NEW p \in Proc, Reset(p)
      PROVE  ProgressOK'
  <2>1. /\ UNCHANGED <<place, v1, v2>>
        /\ \A f \in Phase : progress'[f] = [status |-> "pending", last |-> Start]
        /\ run[p].pc = "opened"
        /\ \A q \in Proc : q # p => run'[q] = run[q]
        /\ run'[p].phase = run[p].phase /\ run'[p].pc = "scan"
    BY <1>4, ResetDoes
  <2>2. Started /\ Started'
    BY <2>1 DEF Started, ProgressOK
  <2>3. QED
    BY <2>1, <2>2 DEF ProgressOK
<1>5. ASSUME NEW p \in Proc, Fetch(p)
      PROVE  ProgressOK'
  <2>1. PICK f \in Phase :
         /\ Rank[f] = run[p].phase /\ run[p].pc = "scan"
         /\ UNCHANGED <<place, v1, v2, progress>>
         /\ \A q \in Proc : q # p => run'[q] = run[q]
         /\ progress[f].status = "completed" =>
              run'[p].phase = run[p].phase + 1 /\ run'[p].pc = "scan"
         /\ progress[f].status # "completed" =>
              /\ run'[p].phase = run[p].phase /\ run'[p].pc = "batch"
              /\ run'[p].batch = Batch(f, progress[f].last, v1)
    BY <1>5, FetchDoes
  <2>2. Batch(f, progress[f].last, v1) \subseteq Items(f, v1)
    BY DEF Batch
  <2>3. \A g \in Phase : Rank[g] = Rank[f] => g = f
    BY Ranks
  <2>4. run'[p].pc = "batch" =>
          \A g \in Phase : Rank[g] = run'[p].phase => run'[p].batch \subseteq Items(g, v1)
    BY <2>1, <2>2, <2>3
  <2>5. run'[p].pc \in {"scan", "batch"}
    BY <2>1
  <2>6. QED
    BY <2>1, <2>4, <2>5 DEF ProgressOK, Started
<1>6. ASSUME NEW p \in Proc, Write(p)
      PROVE  ProgressOK'
  <2>1. PICK f \in Phase :
         /\ run[p].pc = "batch"
         /\ UNCHANGED <<place, v1>>
         /\ \A q \in Proc : q # p => run'[q] = run[q]
         /\ run'[p].pc = "scan"
         /\ \A g \in Phase : g # f => progress'[g] = progress[g]
         /\ run[p].batch = {} =>
              progress'[f] = [status |-> "completed", last |-> run[p].last]
         /\ run[p].batch # {} =>
              progress'[f] = [status |-> "running", last |-> Checkpoint(run[p].batch)]
         /\ \A g, i : <<g, i>> \in v2' <=>
              <<g, i>> \in v2 \/ (g = f /\ i \in run[p].batch /\ Fits(f, i, v2))
    BY <1>6, WriteDoes
  <2>2. progress'[f].status \in {"completed", "running"}
    BY <2>1
  <2>3. Started /\ Started'
    BY <2>1, <2>2 DEF ProgressOK, Started
  <2>4. Adopted(place.adopted) \subseteq v2'
    <3>1. \A x \in Adopted(place.adopted) :
              \E g \in Phase : \E i \in Items(g, place.adopted) : x = <<g, i>>
      BY <1>0, AdoptedType
    <3>2. QED
      BY <2>1, <2>3, <3>1 DEF ProgressOK
  <2>5. QED
    BY <2>1, <2>2, <2>3, <2>4 DEF ProgressOK
<1>7. ASSUME NEW p \in Proc, Leave(p)
      PROVE  ProgressOK'
  <2>1. /\ UNCHANGED <<place, v1, v2, progress>>
        /\ run'[p] = NoRun /\ \A q \in Proc : q # p => run'[q] = run[q]
    BY <1>0, <1>7 DEF Leave
  <2>2. QED
    BY <1>a, <2>1 DEF ProgressOK, Started
<1>8. QED
  BY <1>1, <1>2, <1>3, <1>4, <1>5, <1>6, <1>7, CoreSteps

-----------------------------------------------------------------------------
(***************************************************************************)
(* Errors                                                                  *)
(***************************************************************************)

Passed(f, i) == progress[f].status = "completed" \/ ~Before(progress[f].last, i)

Handled(f, i) == <<f, i>> \in v2 \/ <<f, i>> \in errors

\* What a run that has read a batch has yet to come to.
Ahead(p, i) ==
  \/ i \in run[p].batch
  \/ run[p].batch # {} /\ Before(Checkpoint(run[p].batch), i)

Settled == v1 \ everLate

\* Also when runs overlap: of the rows that were there from the beginning or
\* projected themselves, every item up to a checkpoint, of a phase that a run
\* has left or before what it has read, is in v2 or an error.
HandledOK ==
  /\ \A f \in Phase : \A i \in Items(f, Settled) : Passed(f, i) => Handled(f, i)
  /\ \A p \in Proc : \A f \in Phase : Rank[f] < run[p].phase =>
       \A i \in Items(f, Settled) : Handled(f, i)
  /\ \A p \in Proc : run[p].pc = "batch" =>
       \A f \in Phase : Rank[f] = run[p].phase =>
         \A i \in Items(f, Settled) : Handled(f, i) \/ Ahead(p, i)
  /\ \A c \in Client : txn[c].row # NoRow /\ txn[c].row \notin everLate =>
       \A f \in Phase : \A i \in Items(f, {txn[c].row}) :
         <<f, i>> \in txn[c].v2 \/ <<f, i>> \in txn[c].errors

\* No error is of what one run would represent, nor is one of an open write.
RealOK ==
  /\ \A f \in Phase : \A i \in Item :
       <<f, i>> \in errors => <<f, i>> \notin Ideal(place.adopted, Settled)
  /\ \A c \in Client : txn[c].row # NoRow =>
       \A f \in Phase : \A i \in Items(f, {txn[c].row}) :
         <<f, i>> \in txn[c].errors =>
           <<f, i>> \notin Ideal(place.adopted, (v1 \cup {txn[c].row}) \ everLate)

LEMMA HandledStep ==
  ASSUME TypeInv, TypeInv', RowsOK, ProgressOK, HandledOK, [Next]_vars
  PROVE  HandledOK'
<1>0. /\ v1 \in SUBSET Row /\ v1' \in SUBSET Row /\ place \in Place
      /\ run \in [Proc -> Run] /\ run' \in [Proc -> Run]
      /\ txn \in [Client -> OpenWrite]
      /\ Settled \in SUBSET Row /\ Settled' \in SUBSET Row
  BY DEF TypeInv, DataType, RunType, LockType, Settled
<1>a. NoRun.pc = "idle" /\ NoRun.phase = 1 /\ \A f \in Phase : ~(Rank[f] < 1)
  BY Ranks DEF NoRun
<1>b. \A f \in Phase : Items(f, Settled) \subseteq Item /\ Items(f, Settled) \subseteq Items(f, v1)
  BY <1>0, ItemsMember, MoreItems DEF Settled
<1>1. CASE UNCHANGED coreVars
  BY <1>1 DEF coreVars, HandledOK, Handled, Passed, Ahead, Settled
<1>2. ASSUME NEW c \in Client, NEW r \in Row, Begin(c, r)
      PROVE  HandledOK'
  <2>1. /\ UNCHANGED <<v1, v2, errors, progress, run>>
        /\ \A d \in Client : d # c => txn'[d] = txn[d]
        /\ txn'[c].row = r
        /\ Ready => /\ txn'[c].v2 = Projected(r).v2
                    /\ txn'[c].errors = Projected(r).errors
                    /\ everLate' = everLate
        /\ ~Ready => everLate' = everLate \cup {r}
    BY <1>2, BeginDoes
  <2>2. Settled' \subseteq Settled /\ everLate \subseteq everLate'
    BY <2>1 DEF Settled
  <2>3. \A f \in Phase : Items(f, Settled') \subseteq Items(f, Settled)
    BY <1>0, <2>2, MoreItems
  <2>4. txn'[c].row \notin everLate' =>
          \A f \in Phase : \A i \in Items(f, {r}) :
            <<f, i>> \in txn'[c].v2 \/ <<f, i>> \in txn'[c].errors
    <3>1. \A f \in Phase : \A i \in Items(f, {r}) :
            <<f, i>> \in Projected(r).v2 \/ <<f, i>> \in Projected(r).errors
      BY ProjectedIs
    <3>2. QED
      BY <2>1, <3>1
  <2>5. \A f \in Phase : \A i : (Passed(f, i)' <=> Passed(f, i)) /\ (Handled(f, i)' <=> Handled(f, i))
    BY <2>1 DEF Passed, Handled
  <2>6. \A p \in Proc : \A i : Ahead(p, i)' <=> Ahead(p, i)
    BY <2>1 DEF Ahead
  <2>7. /\ \A f \in Phase : \A i \in Items(f, Settled') : Passed(f, i)' => Handled(f, i)'
        /\ \A p \in Proc : \A f \in Phase : Rank[f] < run'[p].phase =>
             \A i \in Items(f, Settled') : Handled(f, i)'
        /\ \A p \in Proc : run'[p].pc = "batch" =>
             \A f \in Phase : Rank[f] = run'[p].phase =>
               \A i \in Items(f, Settled') : Handled(f, i)' \/ Ahead(p, i)'
    BY <2>1, <2>3, <2>5, <2>6 DEF HandledOK
  <2>8. \A d \in Client : txn'[d].row # NoRow /\ txn'[d].row \notin everLate' =>
       \A f \in Phase : \A i \in Items(f, {txn'[d].row}) :
         <<f, i>> \in txn'[d].v2 \/ <<f, i>> \in txn'[d].errors
    BY <2>1, <2>2, <2>4 DEF HandledOK
  <2>9. QED
    BY <2>7, <2>8 DEF HandledOK
<1>3. ASSUME NEW c \in Client, Commit(c)
      PROVE  HandledOK'
  <2>1. /\ UNCHANGED <<progress, run, everLate>>
        /\ v1' = v1 \cup (IF txn[c].row # NoRow THEN {txn[c].row} ELSE {})
        /\ v2' = v2 \cup txn[c].v2 /\ errors' = errors \cup txn[c].errors
        /\ txn'[c] = NoTxn /\ \A d \in Client : d # c => txn'[d] = txn[d]
    BY <1>3, CommitDoes
  <2>2. \A f \in Phase : \A i :
          (Passed(f, i)' <=> Passed(f, i)) /\ (Handled(f, i) => Handled(f, i)')
    BY <2>1 DEF Passed, Handled
  <2>3. \A p \in Proc : \A i : Ahead(p, i)' <=> Ahead(p, i)
    BY <2>1 DEF Ahead
  <2>4. ASSUME NEW f \in Phase, NEW i \in Items(f, Settled')
        PROVE  i \in Items(f, Settled) \/ Handled(f, i)'
    <3>1. i[1] \in Settled' /\ i \in Items(f, Row)
      BY <1>0, <2>4, ItemsMember
    <3>2. CASE i[1] \in Settled
      BY <1>0, <3>1, <3>2, ItemsMember
    <3>3. CASE i[1] \notin Settled
      <4>1. /\ txn[c].row # NoRow /\ i[1] = txn[c].row /\ txn[c].row \notin everLate
            /\ txn[c].row \in Row
        BY <1>0, <2>1, <3>1, <3>3 DEF Settled, OpenWrite
      <4>2. i \in Items(f, {txn[c].row})
        BY <3>1, <4>1, ItemsMember
      <4>3. <<f, i>> \in txn[c].v2 \/ <<f, i>> \in txn[c].errors
        BY <4>1, <4>2 DEF HandledOK
      <4>4. QED
        BY <2>1, <4>3 DEF Handled
    <3>4. QED
      BY <3>2, <3>3
  <2>5. /\ \A f \in Phase : \A i \in Items(f, Settled') : Passed(f, i)' => Handled(f, i)'
        /\ \A p \in Proc : \A f \in Phase : Rank[f] < run'[p].phase =>
             \A i \in Items(f, Settled') : Handled(f, i)'
        /\ \A p \in Proc : run'[p].pc = "batch" =>
             \A f \in Phase : Rank[f] = run'[p].phase =>
               \A i \in Items(f, Settled') : Handled(f, i)' \/ Ahead(p, i)'
    BY <2>1, <2>2, <2>3, <2>4 DEF HandledOK
  <2>6. \A d \in Client : txn'[d].row # NoRow /\ txn'[d].row \notin everLate' =>
       \A f \in Phase : \A i \in Items(f, {txn'[d].row}) :
         <<f, i>> \in txn'[d].v2 \/ <<f, i>> \in txn'[d].errors
    <3>1. txn'[c].row = NoRow
      BY <2>1 DEF NoTxn
    <3>2. QED
      BY <2>1, <3>1 DEF HandledOK
  <2>7. QED
    BY <2>5, <2>6 DEF HandledOK
<1>4. ASSUME NEW c \in Client, Rollback(c)
      PROVE  HandledOK'
  <2>1. /\ UNCHANGED <<place, v1, v2, errors, progress, run, everLate>>
        /\ txn'[c] = NoTxn /\ \A d \in Client : d # c => txn'[d] = txn[d]
    BY <1>4, RollbackDoes
  <2>2. NoTxn.row = NoRow
    BY DEF NoTxn
  <2>3. QED
    BY <2>1, <2>2 DEF HandledOK, Handled, Passed, Ahead, Settled
<1>5. ASSUME NEW p \in Proc, NEW resume \in BOOLEAN, Open(p, resume)
      PROVE  HandledOK'
  <2>1. /\ UNCHANGED <<place, v1, errors, txn, everLate>>
        /\ v2 \subseteq v2'
        /\ \A f \in Phase :
              /\ progress[f].status = "absent" =>
                   progress'[f] = [status |-> "pending", last |-> Start]
              /\ progress[f].status # "absent" => progress'[f] = progress[f]
        /\ \A q \in Proc : q # p => run'[q] = run[q]
        /\ run'[p].phase = 1 /\ run'[p].pc \in {"idle", "opened", "scan"}
    BY <1>5, OpenDoes
  <2>2. \A f \in Phase : \A i \in Item :
          (Passed(f, i)' => Passed(f, i)) /\ (Handled(f, i) => Handled(f, i)')
    BY <2>1, ItemOrder DEF Passed, Handled
  <2>3. \A q \in Proc : q # p => \A i : Ahead(q, i)' <=> Ahead(q, i)
    BY <2>1 DEF Ahead
  <2>4. Settled' = Settled
    BY <2>1 DEF Settled
  <2>5. QED
    BY <1>a, <1>b, <2>1, <2>2, <2>3, <2>4 DEF HandledOK
<1>6. ASSUME NEW p \in Proc, Reset(p)
      PROVE  HandledOK'
  <2>1. /\ UNCHANGED <<place, v1, v2, errors, txn, everLate>>
        /\ \A f \in Phase : progress'[f] = [status |-> "pending", last |-> Start]
        /\ \A q \in Proc : q # p => run'[q] = run[q]
        /\ run'[p].phase = run[p].phase /\ run'[p].pc = "scan"
    BY <1>6, ResetDoes
  <2>2. \A f \in Phase : \A i \in Item : ~Passed(f, i)' /\ (Handled(f, i) <=> Handled(f, i)')
    BY <2>1, ItemOrder DEF Passed, Handled
  <2>3. \A q \in Proc : q # p => \A i : Ahead(q, i)' <=> Ahead(q, i)
    BY <2>1 DEF Ahead
  <2>4. Settled' = Settled
    BY <2>1 DEF Settled
  <2>5. QED
    BY <1>b, <2>1, <2>2, <2>3, <2>4 DEF HandledOK
<1>7. ASSUME NEW p \in Proc, Fetch(p)
      PROVE  HandledOK'
  <2>1. PICK f \in Phase :
         /\ Rank[f] = run[p].phase /\ run[p].pc = "scan"
         /\ UNCHANGED <<v1, v2, errors, progress, txn, everLate>>
         /\ \A q \in Proc : q # p => run'[q] = run[q]
         /\ progress[f].status = "completed" =>
              run'[p].phase = run[p].phase + 1 /\ run'[p].pc = "scan"
         /\ progress[f].status # "completed" =>
              /\ run'[p].phase = run[p].phase /\ run'[p].pc = "batch"
              /\ run'[p].batch = Batch(f, progress[f].last, v1)
    BY <1>7, FetchDoes
  <2>2. /\ \A g \in Phase : \A i :
             (Passed(g, i)' <=> Passed(g, i)) /\ (Handled(g, i) <=> Handled(g, i)')
        /\ Settled' = Settled
        /\ \A q \in Proc : q # p => \A i : Ahead(q, i)' <=> Ahead(q, i)
    BY <2>1 DEF Passed, Handled, Settled, Ahead
  <2>3. \A g \in Phase : Rank[g] < run'[p].phase =>
             \A i \in Items(g, Settled) : Handled(g, i)
    <3> SUFFICES ASSUME NEW g \in Phase, Rank[g] < run'[p].phase, NEW i \in Items(g, Settled)
                 PROVE  Handled(g, i)
      OBVIOUS
    <3>1. CASE Rank[g] < run[p].phase
      BY <3>1 DEF HandledOK
    <3>2. CASE ~(Rank[g] < run[p].phase)
      <4>1. progress[f].status = "completed" /\ Rank[g] = Rank[f]
        BY <2>1, <3>2, Ranks
      <4>2. g = f
        BY <4>1, Ranks
      <4>3. QED
        BY <4>1, <4>2 DEF HandledOK, Passed
    <3>3. QED
      BY <3>1, <3>2
  <2>4. run'[p].pc = "batch" =>
          \A g \in Phase : Rank[g] = run'[p].phase =>
            \A i \in Items(g, Settled) : Handled(g, i) \/ Ahead(p, i)'
    <3> SUFFICES ASSUME run'[p].pc = "batch", NEW g \in Phase, Rank[g] = run'[p].phase,
                        NEW i \in Items(g, Settled)
                 PROVE  Handled(g, i) \/ Ahead(p, i)'
      OBVIOUS
    <3>1. progress[f].status # "completed"
      BY <2>1
    <3>2. g = f
      BY <2>1, <3>1, Ranks
    <3>3. \/ ~Before(progress[f].last, i)
          \/ i \in run'[p].batch
          \/ run'[p].batch # {} /\ Before(Checkpoint(run'[p].batch), i)
      BY <1>0, <1>b, <2>1, <3>1, <3>2, BatchSkipsNothing
    <3>4. QED
      BY <3>2, <3>3 DEF Ahead, HandledOK, Passed
  <2>5. QED
    BY <2>1, <2>2, <2>3, <2>4 DEF HandledOK
<1>8. ASSUME NEW p \in Proc, Write(p)
      PROVE  HandledOK'
  <2>1. PICK f \in Phase :
         /\ Rank[f] = run[p].phase /\ run[p].pc = "batch"
         /\ UNCHANGED <<place, v1, txn, everLate>>
         /\ \A q \in Proc : q # p => run'[q] = run[q]
         /\ run'[p].pc = "scan"
         /\ \A g \in Phase : g # f => progress'[g] = progress[g]
         /\ run[p].batch = {} =>
              /\ progress'[f] = [status |-> "completed", last |-> run[p].last]
              /\ run'[p].phase = run[p].phase + 1
              /\ UNCHANGED <<v2, errors>>
         /\ run[p].batch # {} =>
              /\ progress'[f] = [status |-> "running", last |-> Checkpoint(run[p].batch)]
              /\ run'[p].phase = run[p].phase
         /\ \A g, i : <<g, i>> \in v2' <=>
              <<g, i>> \in v2 \/ (g = f /\ i \in run[p].batch /\ Fits(f, i, v2))
         /\ \A g, i : <<g, i>> \in errors' <=>
              \/ <<g, i>> \in errors
              \/ g = f /\ i \in run[p].batch /\ <<f, i>> \notin v2 /\ ~Fits(f, i, v2)
    BY <1>8, WriteDoes
  <2>2. /\ Settled' = Settled
        /\ \A g \in Phase : \A i : Handled(g, i) => Handled(g, i)'
        /\ \A i \in run[p].batch : Handled(f, i)'
        /\ \A g \in Phase : g # f => \A i : Passed(g, i)' <=> Passed(g, i)
        /\ \A q \in Proc : q # p => \A i : Ahead(q, i)' <=> Ahead(q, i)
    BY <2>1 DEF Passed, Handled, Settled, Ahead
  <2>3. \A i \in Items(f, Settled) : Handled(f, i) \/ Ahead(p, i)
    BY <2>1 DEF HandledOK
  <2>4. \A i \in Items(f, Settled) : Passed(f, i)' => Handled(f, i)'
    <3>1. CASE run[p].batch = {}
      BY <2>2, <2>3, <3>1 DEF Ahead
    <3>2. CASE run[p].batch # {}
      BY <2>1, <2>2, <2>3, <3>2 DEF Ahead, Passed
    <3>3. QED
      BY <3>1, <3>2
  <2>5. \A g \in Phase : Rank[g] < run'[p].phase =>
             \A i \in Items(g, Settled) : Handled(g, i)'
    <3> SUFFICES ASSUME NEW g \in Phase, Rank[g] < run'[p].phase, NEW i \in Items(g, Settled)
                 PROVE  Handled(g, i)'
      OBVIOUS
    <3>1. CASE Rank[g] < run[p].phase
      BY <2>2, <3>1 DEF HandledOK
    <3>2. CASE ~(Rank[g] < run[p].phase)
      <4>1. run[p].batch = {} /\ Rank[g] = Rank[f]
        BY <2>1, <3>2, Ranks
      <4>2. g = f
        BY <4>1, Ranks
      <4>3. QED
        BY <2>2, <2>3, <4>1, <4>2 DEF Ahead
    <3>3. QED
      BY <3>1, <3>2
  <2>6. QED
    BY <2>1, <2>2, <2>4, <2>5 DEF HandledOK
<1>9. ASSUME NEW p \in Proc, Leave(p)
      PROVE  HandledOK'
  <2>1. /\ UNCHANGED <<v1, v2, errors, progress, txn, everLate>>
        /\ run'[p] = NoRun /\ \A q \in Proc : q # p => run'[q] = run[q]
    BY <1>0, <1>9 DEF Leave
  <2>2. \A q \in Proc : q # p => \A i : Ahead(q, i)' <=> Ahead(q, i)
    BY <2>1 DEF Ahead
  <2>3. QED
    BY <1>a, <2>1, <2>2 DEF HandledOK, Handled, Passed, Settled
<1>10. QED
  BY <1>1, <1>2, <1>3, <1>4, <1>5, <1>6, <1>7, <1>8, <1>9, CoreSteps

LEMMA ClosedRows ==
  ASSUME TypeInv, RowsOK
  PROVE  /\ \A r \in v1 : Needs[r] \subseteq v1
         /\ \A c \in Client : txn[c].row # NoRow =>
              /\ txn[c].row \in Row /\ v1 \cup {txn[c].row} \in SUBSET Row
              /\ \A r \in v1 \cup {txn[c].row} : Needs[r] \subseteq v1 \cup {txn[c].row}
<1>1. v1 \in SUBSET Row /\ \A r \in v1 : Needs[r] \subseteq v1
  BY DEF TypeInv, DataType, RowsOK
<1>2. ASSUME NEW c \in Client, txn[c].row # NoRow
      PROVE  txn[c].row \in Row /\ Needs[txn[c].row] \subseteq v1
  BY <1>2 DEF TypeInv, LockType, OpenWrite, RowsOK
<1>3. QED
  BY <1>1, <1>2

\* What one run would make of settled rows, and is handled, is in v2.
LEMMA IdealIsRepresented ==
  ASSUME TypeInv, ProgressOK, RealOK, Started, NEW f \in Phase, NEW i,
         <<f, i>> \in Ideal(place.adopted, Settled),
         i \in Items(f, Settled) => Handled(f, i)
  PROVE  <<f, i>> \in v2
<1>0. place.adopted \in SUBSET Row /\ Settled \in SUBSET Row
  BY PlaceType DEF TypeInv, DataType, Settled
<1>1. i \in Items(f, Row) /\ i \in Item
  BY <1>0, IdealItems, ItemsMember
<1>2. CASE <<f, i>> \in Adopted(place.adopted)
  BY <1>2 DEF ProgressOK
<1>3. CASE i \in Items(f, Settled)
  BY <1>1, <1>3 DEF Handled, RealOK
<1>4. QED
  BY <1>1, <1>2, <1>3, IdealIs

\* The same, for what an item is checked against.
LEMMA IdealFits ==
  ASSUME TypeInv, ProgressOK, RealOK, Started, NEW f \in Phase, NEW i \in Items(f, Row),
         Fits(f, i, Ideal(place.adopted, Settled)),
         \A g \in Lower[f] : \A j \in Items(g, Settled) : Handled(g, j)
  PROVE  Fits(f, i, v2)
<1>1. \A g \in Lower[f] : \A r \in About(i) :
        Has(Ideal(place.adopted, Settled), g, r) => Has(v2, g, r)
  BY IdealIsRepresented, Ranks DEF Has
<1>2. QED
  BY <1>1, FitsOnLower

\* A row that projects itself makes no error of what one run would represent.
LEMMA ProjectedIsReal ==
  ASSUME TypeInv, RowsOK, ProgressOK, HandledOK, RealOK, Ready,
         NEW r \in Row, Needs[r] \subseteq v1
  PROVE  \A f \in Phase : \A i \in Items(f, {r}) :
           <<f, i>> \in Ideal(place.adopted, (v1 \cup {r}) \ everLate) =>
             <<f, i>> \in Projected(r).v2
<1> DEFINE R == (v1 \cup {r}) \ everLate
           A == place.adopted
           done == Projected(r)
           Local(f) == \A i \in Items(f, {r}) : <<f, i>> \in Ideal(A, R) => <<f, i>> \in done.v2
<1>0. /\ v1 \in SUBSET Row /\ R \in SUBSET Row /\ Settled \in SUBSET Row /\ A \in SUBSET Row
      /\ v1 \cap R \subseteq Settled /\ \A s \in v1 : Needs[s] \subseteq v1
  BY PlaceType, ClosedRows DEF TypeInv, DataType, Settled
<1>1. Started /\ \A f \in Phase : \A i \in Items(f, Settled) : Handled(f, i)
  BY DEF Ready, Started, HandledOK, Passed
<1>2. /\ v2 \subseteq done.v2
      /\ \A f \in Phase : \A i \in Items(f, {r}) :
           <<f, i>> \in v2 \/ Fits(f, i, done.v2) => <<f, i>> \in done.v2
  BY ProjectedIs
<1> HIDE DEF R, done
<1>3. ASSUME NEW f \in Phase, NEW i \in Items(f, v1), <<f, i>> \in Ideal(A, R)
      PROVE  <<f, i>> \in v2
  <2>1. <<f, i>> \in Ideal(A, Settled)
    BY <1>0, <1>3, IdealIsLocal
  <2>2. QED
    BY <1>1, <2>1, IdealIsRepresented
<1>4. ASSUME NEW f \in Phase, \A g \in Lower[f] : Local(g)
      PROVE  Local(f)
  <2> SUFFICES ASSUME NEW i \in Items(f, {r}), <<f, i>> \in Ideal(A, R)
               PROVE  <<f, i>> \in done.v2
    OBVIOUS
  <2>1. i \in Items(f, Row) /\ i[1] = r
    BY ItemsOfRow
  <2>2. CASE <<f, i>> \in Adopted(A)
    BY <1>1, <1>2, <2>2 DEF ProgressOK
  <2>3. CASE Fits(f, i, Ideal(A, R))
    <3>1. ASSUME NEW g \in Lower[f], NEW s \in About(i), Has(Ideal(A, R), g, s)
          PROVE  Has(done.v2, g, s)
      <4>1. g \in Phase /\ <<s, s>> \in Items(g, Row) /\ <<g, <<s, s>>>> \in Ideal(A, R)
        BY <1>0, <3>1, IdealItems DEF Has
      <4>2. CASE s = r
        <5>1. <<s, s>> \in Items(g, {r})
          BY <4>1, <4>2, ItemsMember
        <5>2. QED
          BY <1>4, <4>1, <5>1 DEF Has
      <4>3. CASE s # r
        <5>1. s \in v1
          BY <2>1, <3>1, <4>3 DEF About
        <5>2. <<s, s>> \in Items(g, v1)
          BY <1>0, <4>1, <5>1, ItemsMember
        <5>3. QED
          BY <1>2, <1>3, <4>1, <5>2 DEF Has
      <4>4. QED
        BY <4>2, <4>3
    <3>2. Fits(f, i, done.v2)
      BY <2>1, <2>3, <3>1, FitsOnLower
    <3>3. QED
      BY <1>2, <3>2
  <2>4. QED
    BY <2>1, <2>2, <2>3, IdealIs
<1> HIDE DEF Local
<1>5. Local("sources") /\ Local("reports")
  BY <1>4 DEF Lower, Phase
<1>6. Local("excerpts")
  BY <1>4, <1>5 DEF Lower, Phase
<1>7. Local("claims")
  BY <1>4, <1>6 DEF Lower, Phase
<1>8. Local("links") /\ Local("pointers")
  BY <1>4, <1>6, <1>7 DEF Lower, Phase
<1>9. QED
  BY <1>5, <1>6, <1>7, <1>8 DEF Local, Phase, R, done

LEMMA RealStep ==
  ASSUME TypeInv, TypeInv', RowsOK, RowsOK', ProgressOK, HandledOK, RealOK, [Next]_vars
  PROVE  RealOK'
<1> DEFINE A == place.adopted
           Rows(c) == (v1 \cup {txn[c].row}) \ everLate
<1>0. /\ v1 \in SUBSET Row /\ v1' \in SUBSET Row /\ A \in SUBSET Row
      /\ Settled \in SUBSET Row /\ Settled' \in SUBSET Row
      /\ \A r \in v1 : Needs[r] \subseteq v1
  BY PlaceType, ClosedRows DEF TypeInv, DataType, Settled
<1>a. ASSUME NEW R \in SUBSET Row, v1 \cap R \subseteq Settled
      PROVE  \A f \in Phase : \A i \in Item :
               <<f, i>> \in errors => <<f, i>> \notin Ideal(A, R)
  BY <1>0, <1>a, IdealIsLocal DEF RealOK, RowsOK
<1>b. ASSUME NEW c \in Client, txn[c].row # NoRow, NEW R \in SUBSET Row,
             (v1 \cup {txn[c].row}) \cap R \subseteq Rows(c)
      PROVE  \A f \in Phase : \A i \in Items(f, {txn[c].row}) :
               <<f, i>> \in txn[c].errors => <<f, i>> \notin Ideal(A, R)
  <2> DEFINE C == v1 \cup {txn[c].row}
  <2>1. C \in SUBSET Row /\ txn[c].row \in Row /\ \A r \in C : Needs[r] \subseteq C
    BY <1>b, ClosedRows
  <2>2. Rows(c) \in SUBSET Row /\ C \cap R \subseteq Rows(c)
    BY <1>b, <2>1
  <2> HIDE DEF C
  <2>3. \A f \in Phase : \A i \in Items(f, C) :
          <<f, i>> \in Ideal(A, R) => <<f, i>> \in Ideal(A, Rows(c))
    BY <1>0, <2>1, <2>2, IdealIsLocal
  <2>4. \A f \in Phase : Items(f, {txn[c].row}) \subseteq Items(f, C)
    BY <2>1, MoreItems DEF C
  <2>5. QED
    BY <1>b, <2>3, <2>4 DEF RealOK
<1>1. CASE UNCHANGED coreVars
  BY <1>1 DEF coreVars, RealOK, Settled
<1>2. ASSUME NEW c \in Client, NEW r \in Row, Begin(c, r)
      PROVE  RealOK'
  <2>1. /\ UNCHANGED <<place, v1, v2, errors>>
        /\ Needs[r] \subseteq v1
        /\ \A d \in Client : d # c => txn'[d] = txn[d]
        /\ txn'[c].row = r
        /\ Ready => /\ txn'[c].v2 = Projected(r).v2
                    /\ txn'[c].errors = Projected(r).errors
                    /\ everLate' = everLate
        /\ ~Ready => txn'[c].errors = {} /\ everLate' = everLate \cup {r}
    BY <1>2, BeginDoes
  <2>2. Settled' \subseteq Settled /\ everLate \subseteq everLate'
    BY <2>1 DEF Settled
  <2>3. \A f \in Phase : \A i \in Item :
          <<f, i>> \in errors' => <<f, i>> \notin Ideal(A, Settled')
    BY <1>0, <1>a, <2>1, <2>2
  <2>4. ASSUME NEW d \in Client, d # c, txn[d].row # NoRow
        PROVE  \A f \in Phase : \A i \in Items(f, {txn[d].row}) : <<f, i>> \in txn[d].errors =>
                 <<f, i>> \notin Ideal(A, (v1 \cup {txn[d].row}) \ everLate')
    <3>1. (v1 \cup {txn[d].row}) \ everLate' \in SUBSET Row
      BY <2>4, ClosedRows
    <3>2. QED
      BY <1>b, <2>2, <2>4, <3>1
  <2>5. \A f \in Phase : \A i \in Items(f, {r}) : <<f, i>> \in txn'[c].errors =>
          <<f, i>> \notin Ideal(A, (v1 \cup {r}) \ everLate')
    <3>1. CASE Ready
      <4>1. \A f \in Phase : \A i \in Items(f, {r}) :
              <<f, i>> \in Ideal(A, (v1 \cup {r}) \ everLate) => <<f, i>> \in Projected(r).v2
        BY <2>1, <3>1, ProjectedIsReal
      <4>2. \A f \in Phase : \A i \in Items(f, {r}) :
              <<f, i>> \in Projected(r).errors => <<f, i>> \notin Projected(r).v2
        BY ProjectedIs
      <4>3. QED
        BY <2>1, <3>1, <4>1, <4>2
    <3>2. CASE ~Ready
      BY <2>1, <3>2
    <3>3. QED
      BY <3>1, <3>2
  <2>6. QED
    BY <2>1, <2>3, <2>4, <2>5 DEF RealOK
<1>3. ASSUME NEW c \in Client, Commit(c)
      PROVE  RealOK'
  <2>1. /\ UNCHANGED <<place, everLate>>
        /\ v1' = v1 \cup (IF txn[c].row # NoRow THEN {txn[c].row} ELSE {})
        /\ errors' = errors \cup txn[c].errors
        /\ txn'[c] = NoTxn /\ \A d \in Client : d # c => txn'[d] = txn[d]
    BY <1>3, CommitDoes
  <2>2. NoTxn.row = NoRow /\ NoTxn.errors = {}
    BY DEF NoTxn
  <2>3. v1 \cap Settled' \subseteq Settled
    BY <2>1 DEF Settled
  <2>4. \A f \in Phase : \A i \in Item :
          <<f, i>> \in errors => <<f, i>> \notin Ideal(A, Settled')
    BY <1>0, <1>a, <2>3
  <2>5. \A f \in Phase : \A i \in Item :
          <<f, i>> \in txn[c].errors => <<f, i>> \notin Ideal(A, Settled')
    <3>1. CASE txn[c].row = NoRow
      BY <2>2, <3>1 DEF RowsOK
    <3>2. CASE txn[c].row # NoRow
      <4>1. Settled' = Rows(c)
        BY <2>1, <3>2 DEF Settled
      <4>2. QED
        BY <3>2, <4>1 DEF RealOK, RowsOK
    <3>3. QED
      BY <3>1, <3>2
  <2>6. ASSUME NEW d \in Client, d # c, txn[d].row # NoRow
        PROVE  \A f \in Phase : \A i \in Items(f, {txn[d].row}) : <<f, i>> \in txn[d].errors =>
                 <<f, i>> \notin Ideal(A, (v1' \cup {txn[d].row}) \ everLate)
    <3>1. (v1' \cup {txn[d].row}) \ everLate \in SUBSET Row
      BY <1>0, <2>6, ClosedRows
    <3>2. txn[c].row # NoRow => txn[c].row # txn[d].row /\ txn[c].row \notin v1
      BY <2>6 DEF RowsOK
    <3>3. (v1 \cup {txn[d].row}) \cap ((v1' \cup {txn[d].row}) \ everLate) \subseteq Rows(d)
      OBVIOUS
    <3>4. QED
      BY <1>b, <2>6, <3>1, <3>3
  <2>7. QED
    BY <2>1, <2>2, <2>4, <2>5, <2>6 DEF RealOK
<1>4. ASSUME NEW c \in Client, Rollback(c)
      PROVE  RealOK'
  <2>1. /\ UNCHANGED <<place, v1, errors, everLate>>
        /\ txn'[c] = NoTxn /\ \A d \in Client : d # c => txn'[d] = txn[d]
    BY <1>4, RollbackDoes
  <2>2. NoTxn.row = NoRow
    BY DEF NoTxn
  <2>3. QED
    BY <2>1, <2>2 DEF RealOK, Settled
<1>5. ASSUME NEW p \in Proc,
             (\E resume \in BOOLEAN : Open(p, resume)) \/ Reset(p) \/ Fetch(p) \/ Leave(p)
      PROVE  RealOK'
  <2>1. UNCHANGED <<place, v1, errors, txn, everLate>>
    BY <1>5 DEF Open, Reset, Fetch, Leave
  <2>2. QED
    BY <2>1 DEF RealOK, Settled
<1>6. ASSUME NEW p \in Proc, Write(p)
      PROVE  RealOK'
  <2>1. PICK f \in Phase :
         /\ Rank[f] = run[p].phase /\ run[p].pc = "batch"
         /\ UNCHANGED <<place, v1, txn, everLate>>
         /\ \A g, i : <<g, i>> \in errors' <=>
              \/ <<g, i>> \in errors
              \/ g = f /\ i \in run[p].batch /\ <<f, i>> \notin v2 /\ ~Fits(f, i, v2)
    BY <1>6, WriteDoes
  <2>2. ASSUME NEW i \in run[p].batch, <<f, i>> \notin v2, ~Fits(f, i, v2)
        PROVE  <<f, i>> \notin Ideal(A, Settled)
    <3>1. i \in Items(f, v1) /\ i \in Items(f, Row)
      BY <1>0, <2>1, ItemsMember DEF ProgressOK
    <3>2. Started
      BY <2>1 DEF ProgressOK
    <3>3. \A g \in Lower[f] : g \in Phase /\ Rank[g] < run[p].phase
      BY <2>1, Ranks
    <3>4. \A g \in Lower[f] : \A j \in Items(g, Settled) : Handled(g, j)
      BY <3>3 DEF HandledOK
    <3>5. <<f, i>> \notin Adopted(A)
      BY <2>2, <3>2 DEF ProgressOK
    <3>6. ~Fits(f, i, Ideal(A, Settled))
      BY <2>2, <3>1, <3>2, <3>4, IdealFits
    <3>7. QED
      BY <3>1, <3>5, <3>6, IdealIs
  <2>3. \A g \in Phase : \A i \in Item :
          <<g, i>> \in errors' => <<g, i>> \notin Ideal(A, Settled)
    BY <2>1, <2>2 DEF RealOK
  <2>4. QED
    BY <2>1, <2>3 DEF RealOK, Settled
<1>7. QED
  BY <1>1, <1>2, <1>3, <1>4, <1>5, <1>6, CoreSteps

LEMMA RealInit == Init => RowsOK /\ ProgressOK /\ HandledOK /\ RealOK
<1> SUFFICES ASSUME Init
             PROVE  RowsOK /\ ProgressOK /\ HandledOK /\ RealOK
  OBVIOUS
<1>0. TypeInv /\ place \in Place
  BY TypeInit DEF Init
<1>1. /\ v1 = place.rows /\ place.adopted \subseteq v1 /\ v1 \in SUBSET Row
      /\ place.adopted \in SUBSET Row
      /\ \A r \in v1 : Needs[r] \subseteq v1
  BY <1>0, PlaceType DEF Init
<1>2. /\ NoTxn.row = NoRow
      /\ NoRun.pc = "idle" /\ NoRun.phase = 1
      /\ \A c \in Client : txn[c] = NoTxn
      /\ \A p \in Proc : run[p] = NoRun
      /\ \A f \in Phase : progress[f].status = "absent" /\ progress[f].last = Start
      /\ errors = {}
  BY DEF Init, NoTxn, NoRun
<1>3. \A f \in Phase : Items(f, place.adopted) \subseteq Items(f, v1)
  BY <1>1, MoreItems
<1>4. \A f \in Phase : \A i \in Item : <<f, i>> \in v2 => i \in Items(f, v1)
  BY <1>3 DEF Init, Phase
<1>5. RowsOK
  BY <1>1, <1>2, <1>4 DEF RowsOK
<1>6. ~Started
  BY <1>2 DEF Started, Phase
<1>7. ProgressOK
  BY <1>2, <1>6 DEF ProgressOK
<1>8. HandledOK
  <2>1. \A f \in Phase : \A i \in Items(f, Settled) : ~Passed(f, i)
    <3>1. \A f \in Phase : Items(f, Settled) \subseteq Item
      BY <1>1, ItemsMember DEF Settled
    <3>2. QED
      BY <1>2, <3>1, ItemOrder DEF Passed
  <2>2. \A f \in Phase : ~(Rank[f] < 1)
    BY Ranks
  <2>3. QED
    BY <1>2, <2>1, <2>2 DEF HandledOK
<1>9. RealOK
  BY <1>2 DEF RealOK
<1>10. QED
  BY <1>5, <1>7, <1>8, <1>9

\* An error stands for something that v2 cannot represent, or that depended on
\* a row written while a backfill was incomplete.
THEOREM ErrorsStayReal == Spec => []ErrorsAreReal
<1> DEFINE Inv == TypeInv /\ RowsOK /\ ProgressOK /\ HandledOK /\ RealOK
<1>1. Init => Inv
  BY TypeInit, RealInit
<1>2. Inv /\ [Next]_vars => Inv'
  BY TypeStep, RowsStep, ProgressStep, HandledStep, RealStep
<1>3. Inv => ErrorsAreReal
  <2> SUFFICES ASSUME Inv, NEW x \in errors, x \in Ideal(place.adopted, Settled)
               PROVE  FALSE
    BY DEF ErrorsAreReal, Settled
  <2>1. x \in Phase \X Item
    BY DEF TypeInv, DataType
  <2>2. PICK f \in Phase, i \in Item : x = <<f, i>>
    BY <2>1
  <2>3. QED
    BY <2>2 DEF RealOK
<1>4. QED
  BY <1>1, <1>2, <1>3, PTL DEF Spec

-----------------------------------------------------------------------------
(***************************************************************************)
(* What is not late                                                        *)
(***************************************************************************)

\* As long as runs do not overlap: one run, phases that are completed one after
\* the other, and a batch that is behind the checkpoint.
OrderOK ==
  /\ \A p, q \in Proc : run[p] # NoRun /\ run[q] # NoRun => p = q
  /\ \A f, g \in Phase :
       Rank[f] < Rank[g] /\ progress[g].status \in {"running", "completed"} =>
         progress[f].status = "completed"
  /\ \A p \in Proc : \A f \in Phase : Rank[f] < run[p].phase =>
       progress[f].status = "completed"
  /\ \A p \in Proc : run[p].pc = "batch" =>
       \A f \in Phase : Rank[f] = run[p].phase =>
         progress[f].status # "completed" /\ progress[f].last = run[p].last

OneAfterTheOther == ~overlapped => OrderOK

LEMMA NoRunIs ==
  ASSUME TypeInv, ProgressOK
  PROVE  \A p \in Proc : /\ run[p] = NoRun => run[p].pc = "idle" /\ run[p].phase = 1
                         /\ run[p].pc # "idle" => run[p] # NoRun
BY DEF NoRun

LEMMA OrderStep ==
  ASSUME TypeInv, TypeInv', RowsOK, ProgressOK, ProgressOK', OneAfterTheOther, [Next]_vars
  PROVE  OneAfterTheOther'
<1> SUFFICES ASSUME ~overlapped'
             PROVE  OrderOK'
  BY DEF OneAfterTheOther
<1>0. \A f \in Phase : ~(Rank[f] < 1)
  BY Ranks
<1>1. CASE UNCHANGED coreVars
  BY <1>1 DEF coreVars, OrderOK, OneAfterTheOther
<1>2. ASSUME NEW c \in Client, (\E r \in Row : Begin(c, r)) \/ Commit(c) \/ Rollback(c)
      PROVE  OrderOK'
  <2>1. UNCHANGED <<progress, run, overlapped>>
    BY <1>2 DEF Begin, Commit, Rollback
  <2>2. QED
    BY <2>1 DEF OrderOK, OneAfterTheOther
<1>3. ASSUME NEW p \in Proc, NEW resume \in BOOLEAN, Open(p, resume)
      PROVE  OrderOK'
  <2>1. /\ \A f \in Phase :
              /\ progress[f].status = "absent" =>
                   progress'[f] = [status |-> "pending", last |-> Start]
              /\ progress[f].status # "absent" => progress'[f] = progress[f]
        /\ overlapped' = (overlapped \/ \E q \in Proc \ {p} : run[q] # NoRun)
        /\ \A q \in Proc : q # p => run'[q] = run[q]
        /\ run'[p].phase = 1 /\ run'[p].pc \in {"idle", "opened", "scan"}
    BY <1>3, OpenDoes
  <2>2. OrderOK /\ \A q \in Proc : q # p => run[q] = NoRun
    BY <2>1 DEF OneAfterTheOther
  <2>3. \A q \in Proc : q # p => run[q].pc = "idle" /\ run[q].phase = 1
    BY <2>2, NoRunIs
  <2>4. \A f \in Phase :
          /\ progress'[f].status \in {"running", "completed"} => progress'[f] = progress[f]
          /\ progress[f].status = "completed" => progress'[f] = progress[f]
    BY <2>1
  <2>5. \A f, g \in Phase :
          Rank[f] < Rank[g] /\ progress'[g].status \in {"running", "completed"} =>
            progress'[f].status = "completed"
    BY <2>2, <2>4 DEF OrderOK
  <2>6. QED
    BY <1>0, <2>1, <2>2, <2>3, <2>5 DEF OrderOK
<1>4. ASSUME NEW p \in Proc, Reset(p)
      PROVE  OrderOK'
  <2>1. /\ UNCHANGED overlapped
        /\ \A f \in Phase : progress'[f] = [status |-> "pending", last |-> Start]
        /\ run[p].pc = "opened"
        /\ \A q \in Proc : q # p => run'[q] = run[q]
        /\ run'[p].phase = run[p].phase /\ run'[p].pc = "scan"
    BY <1>4, ResetDoes
  <2>2. OrderOK
    BY <2>1 DEF OneAfterTheOther
  <2>3. /\ run[p] # NoRun /\ run[p].phase = 1
        /\ \A q \in Proc : q # p => run[q] = NoRun
    BY <2>1, <2>2, NoRunIs DEF OrderOK, ProgressOK
  <2>4. \A q \in Proc : q # p => run[q].pc = "idle" /\ run[q].phase = 1
    BY <2>3, NoRunIs
  <2>5. \A f \in Phase : progress'[f].status = "pending"
    BY <2>1
  <2>6. QED
    BY <1>0, <2>1, <2>3, <2>4, <2>5 DEF OrderOK
<1>5. ASSUME NEW p \in Proc, Fetch(p)
      PROVE  OrderOK'
  <2>1. PICK f \in Phase :
         /\ Rank[f] = run[p].phase /\ run[p].pc = "scan"
         /\ UNCHANGED <<progress, overlapped>>
         /\ \A q \in Proc : q # p => run'[q] = run[q]
         /\ progress[f].status = "completed" =>
              run'[p].phase = run[p].phase + 1 /\ run'[p].pc = "scan"
         /\ progress[f].status # "completed" =>
              /\ run'[p].phase = run[p].phase /\ run'[p].pc = "batch"
              /\ run'[p].last = progress[f].last
    BY <1>5, FetchDoes
  <2>2. OrderOK /\ run[p] # NoRun
    BY <2>1, NoRunIs DEF OneAfterTheOther
  <2>3. \A g \in Phase : Rank[g] < run'[p].phase => progress[g].status = "completed"
    <3>1. \A g \in Phase : Rank[g] < run'[p].phase => Rank[g] < run[p].phase \/
            (g = f /\ progress[f].status = "completed")
      BY <2>1, Ranks
    <3>2. QED
      BY <2>2, <3>1 DEF OrderOK
  <2>4. run'[p].pc = "batch" =>
          \A g \in Phase : Rank[g] = run'[p].phase =>
            progress[g].status # "completed" /\ progress[g].last = run'[p].last
    BY <2>1, Ranks
  <2>5. QED
    BY <2>1, <2>2, <2>3, <2>4 DEF OrderOK
<1>6. ASSUME NEW p \in Proc, Write(p)
      PROVE  OrderOK'
  <2>1. PICK f \in Phase :
         /\ Rank[f] = run[p].phase /\ run[p].pc = "batch"
         /\ UNCHANGED overlapped
         /\ \A q \in Proc : q # p => run'[q] = run[q]
         /\ run'[p].pc = "scan"
         /\ \A g \in Phase : g # f => progress'[g] = progress[g]
         /\ run[p].batch = {} =>
              /\ progress'[f] = [status |-> "completed", last |-> run[p].last]
              /\ run'[p].phase = run[p].phase + 1
         /\ run[p].batch # {} =>
              /\ progress'[f] = [status |-> "running", last |-> Checkpoint(run[p].batch)]
              /\ run'[p].phase = run[p].phase
    BY <1>6, WriteDoes
  <2>2. OrderOK /\ run[p] # NoRun
    BY <2>1, NoRunIs DEF OneAfterTheOther
  <2>3. \A q \in Proc : q # p => run[q] = NoRun /\ run[q].pc = "idle" /\ run[q].phase = 1
    BY <2>2, NoRunIs DEF OrderOK
  <2>4. \A g \in Phase : Rank[g] < Rank[f] => progress'[g].status = "completed" /\ g # f
    BY <2>1, <2>2, Ranks DEF OrderOK
  <2>5. progress'[f].status \in {"running", "completed"}
        /\ (run[p].batch = {} => progress'[f].status = "completed")
    BY <2>1
  <2>6. progress[f].status # "completed"
    BY <2>1, <2>2 DEF OrderOK
  <2>7. \A g, h \in Phase :
          Rank[g] < Rank[h] /\ progress'[h].status \in {"running", "completed"} =>
            progress'[g].status = "completed"
    BY <2>1, <2>2, <2>4, <2>6 DEF OrderOK
  <2>8. \A g \in Phase : Rank[g] < run'[p].phase => progress'[g].status = "completed"
    <3>1. \A g \in Phase : Rank[g] < run'[p].phase => Rank[g] < Rank[f] \/
            (g = f /\ run[p].batch = {})
      BY <2>1, Ranks
    <3>2. QED
      BY <2>4, <2>5, <3>1
  <2>9. QED
    BY <1>0, <2>1, <2>2, <2>3, <2>7, <2>8 DEF OrderOK
<1>7. ASSUME NEW p \in Proc, Leave(p)
      PROVE  OrderOK'
  <2>1. /\ UNCHANGED <<progress, overlapped>>
        /\ run'[p] = NoRun /\ \A q \in Proc : q # p => run'[q] = run[q]
    BY <1>7 DEF Leave, TypeInv, RunType
  <2>2. NoRun.pc = "idle" /\ NoRun.phase = 1
    BY DEF NoRun
  <2>3. QED
    BY <1>0, <2>1, <2>2 DEF OrderOK, OneAfterTheOther
<1>8. QED
  BY <1>1, <1>2, <1>3, <1>4, <1>5, <1>6, <1>7, CoreSteps

Kept == v1 \ late

Brought(f, i) == Fits(f, i, v2) => <<f, i>> \in v2

\* Up to a checkpoint, and before what the run has read, every item of a row
\* that is not late is in v2 if v2 has what it needs.
LateOK ==
  /\ \A f \in Phase : \A i \in Items(f, Kept) : Passed(f, i) => Brought(f, i)
  /\ \A p \in Proc : run[p].pc = "batch" =>
       \A f \in Phase : Rank[f] = run[p].phase =>
         \A i \in Items(f, Kept) : Brought(f, i) \/ Ahead(p, i)

OnlyLateMissed == ~overlapped => LateOK

\* A row that is not late projects itself whole.
WholeOK ==
  \A c \in Client : txn[c].row # NoRow /\ txn[c].row \notin late =>
    \A f \in Phase : \A i \in Items(f, {txn[c].row}) : <<f, i>> \in txn[c].v2

LEMMA WholeStep ==
  ASSUME TypeInv, RowsOK, WholeOK, [Next]_vars
  PROVE  WholeOK'
<1>0. NoTxn.row = NoRow
  BY DEF NoTxn
<1>1. CASE UNCHANGED coreVars
  BY <1>1 DEF coreVars, WholeOK
<1>2. ASSUME NEW c \in Client, NEW r \in Row, Begin(c, r)
      PROVE  WholeOK'
  <2>1. /\ \A d \in Client : d # c => txn'[d] = txn[d]
        /\ txn'[c].row = r
        /\ Ready => /\ txn'[c].v2 = Projected(r).v2
                    /\ txn'[c].errors = Projected(r).errors
                    /\ late' = IF txn'[c].errors = {} THEN late ELSE late \cup {r}
        /\ ~Ready => late' = late \cup {r}
    BY <1>2, BeginDoes
  <2>2. \A f \in Phase : \A i \in Items(f, {r}) :
          <<f, i>> \notin Projected(r).v2 => <<f, i>> \in Projected(r).errors
    BY ProjectedIs
  <2>3. r \notin late' =>
          \A f \in Phase : \A i \in Items(f, {r}) : <<f, i>> \in txn'[c].v2
    BY <2>1, <2>2
  <2>4. late \subseteq late'
    BY <2>1
  <2>5. QED
    BY <2>1, <2>3, <2>4 DEF WholeOK
<1>3. ASSUME NEW c \in Client, Commit(c) \/ Rollback(c)
      PROVE  WholeOK'
  <2>1. /\ late' = late \/ late' = late \ (IF txn[c].row # NoRow THEN {txn[c].row} ELSE {})
        /\ txn'[c] = NoTxn /\ \A d \in Client : d # c => txn'[d] = txn[d]
    BY <1>3, CommitDoes, RollbackDoes
  <2>2. \A d \in Client : d # c /\ txn[d].row # NoRow =>
          (txn[d].row \in late' <=> txn[d].row \in late)
    BY <2>1 DEF RowsOK
  <2>3. QED
    BY <1>0, <2>1, <2>2 DEF WholeOK
<1>4. ASSUME NEW p \in Proc,
             \/ \E resume \in BOOLEAN : Open(p, resume)
             \/ Reset(p) \/ Fetch(p) \/ Write(p) \/ Leave(p)
      PROVE  WholeOK'
  <2>1. UNCHANGED txn /\ (late' = late \/ late' = late \ v1)
    BY <1>4 DEF Open, Reset, Fetch, Write, Leave
  <2>2. \A c \in Client : txn[c].row # NoRow => (txn[c].row \in late' <=> txn[c].row \in late)
    BY <2>1 DEF RowsOK
  <2>3. QED
    BY <2>1, <2>2 DEF WholeOK
<1>5. QED
  BY <1>1, <1>2, <1>3, <1>4, CoreSteps

LEMMA LateStep ==
  ASSUME TypeInv, TypeInv', RowsOK, ProgressOK, OneAfterTheOther, WholeOK, OnlyLateMissed,
         [Next]_vars
  PROVE  OnlyLateMissed'
<1> SUFFICES ASSUME ~overlapped'
             PROVE  LateOK'
  BY DEF OnlyLateMissed
<1>0. /\ v1 \in SUBSET Row /\ v1' \in SUBSET Row /\ place \in Place
      /\ run \in [Proc -> Run] /\ run' \in [Proc -> Run]
      /\ progress \in [Phase -> Progress]
      /\ txn \in [Client -> OpenWrite]
      /\ Kept \in SUBSET Row /\ Kept' \in SUBSET Row
      /\ \A r \in v1 : Needs[r] \subseteq v1
  BY ClosedRows DEF TypeInv, DataType, RunType, LockType, Kept
<1>a. NoRun.pc = "idle"
  BY DEF NoRun
<1>b. \A f \in Phase : \A i \in Items(f, Kept) :
        i \in Item /\ i \in Items(f, v1) /\ i \in Items(f, Row) /\ About(i) \subseteq v1
  BY <1>0, ItemsMember DEF Kept, About
<1>1. CASE UNCHANGED coreVars
  BY <1>1 DEF coreVars, LateOK, OnlyLateMissed, Brought, Passed, Ahead, Kept
<1>2. ASSUME NEW c \in Client, (\E r \in Row : Begin(c, r)) \/ Rollback(c)
      PROVE  LateOK'
  <2>1. UNCHANGED <<v1, v2, progress, run, overlapped>>
    BY <1>2 DEF Begin, Rollback
  <2>2. Kept' \subseteq Kept
    <3>1. CASE \E r \in Row : Begin(c, r)
      <4>1. late \subseteq late'
        BY <3>1 DEF Begin
      <4>2. QED
        BY <2>1, <4>1 DEF Kept
    <3>2. CASE Rollback(c)
      <4>1. late' = late \ (IF txn[c].row # NoRow THEN {txn[c].row} ELSE {})
        BY <3>2, RollbackDoes
      <4>2. QED
        BY <2>1, <4>1 DEF Kept, RowsOK
    <3>3. QED
      BY <1>2, <3>1, <3>2
  <2>3. \A f \in Phase : Items(f, Kept') \subseteq Items(f, Kept)
    BY <1>0, <2>2, MoreItems
  <2>4. /\ \A f \in Phase : \A i : (Passed(f, i)' <=> Passed(f, i)) /\ (Brought(f, i)' <=> Brought(f, i))
        /\ \A p \in Proc : \A i : Ahead(p, i)' <=> Ahead(p, i)
    BY <2>1 DEF Passed, Brought, Ahead
  <2>5. QED
    BY <2>1, <2>3, <2>4 DEF LateOK, OnlyLateMissed
<1>3. ASSUME NEW c \in Client, Commit(c)
      PROVE  LateOK'
  <2>1. /\ UNCHANGED <<progress, run, late, overlapped>>
        /\ v1' = v1 \cup (IF txn[c].row # NoRow THEN {txn[c].row} ELSE {})
        /\ v2' = v2 \cup txn[c].v2
    BY <1>3, CommitDoes
  <2>2. \A g \in Phase : \A s \in v1 : Has(v2', g, s) => Has(v2, g, s)
    <3> SUFFICES ASSUME NEW g \in Phase, NEW s \in v1, Has(v2', g, s), ~Has(v2, g, s)
                 PROVE  FALSE
      OBVIOUS
    <3>1. <<g, <<s, s>>>> \in txn[c].v2 /\ <<g, <<s, s>>>> \notin v2
      BY <2>1 DEF Has
    <3>2. txn[c].row # NoRow
      BY <3>1 DEF RowsOK, NoTxn
    <3>3. <<s, s>> \in Items(g, {txn[c].row}) /\ {txn[c].row} \in SUBSET Row
      BY <1>0, <3>1, <3>2, ClosedRows DEF RowsOK, Item
    <3>4. s = txn[c].row
      BY <3>3, ItemsMember
    <3>5. QED
      BY <3>2, <3>4 DEF RowsOK
  <2>3. \A f \in Phase : \A i \in Items(f, Kept) : Brought(f, i) => Brought(f, i)'
    <3> SUFFICES ASSUME NEW f \in Phase, NEW i \in Items(f, Kept), Brought(f, i), Fits(f, i, v2')
                 PROVE  <<f, i>> \in v2'
      BY DEF Brought
    <3>1. \A g \in Lower[f] : \A s \in About(i) : Has(v2', g, s) => Has(v2, g, s)
      BY <1>b, <2>2, Ranks
    <3>2. Fits(f, i, v2)
      BY <1>b, <3>1, FitsOnLower
    <3>3. QED
      BY <2>1, <3>2 DEF Brought
  <2>4. \A f \in Phase : \A i \in Items(f, Kept') : i \in Items(f, Kept) \/ Brought(f, i)'
    <3> SUFFICES ASSUME NEW f \in Phase, NEW i \in Items(f, Kept'), i \notin Items(f, Kept)
                 PROVE  Brought(f, i)'
      OBVIOUS
    <3>1. i[1] \in Kept' /\ i \in Items(f, Row) /\ i[1] \notin Kept
      BY <1>0, ItemsMember
    <3>2. txn[c].row # NoRow /\ i[1] = txn[c].row /\ txn[c].row \notin late /\ txn[c].row \in Row
      BY <2>1, <3>1, ClosedRows DEF Kept
    <3>3. i \in Items(f, {txn[c].row})
      BY <3>1, <3>2, ItemsMember
    <3>4. <<f, i>> \in txn[c].v2
      BY <3>2, <3>3 DEF WholeOK
    <3>5. QED
      BY <2>1, <3>4 DEF Brought
  <2>5. /\ \A f \in Phase : \A i : Passed(f, i)' <=> Passed(f, i)
        /\ \A p \in Proc : \A i : Ahead(p, i)' <=> Ahead(p, i)
    BY <2>1 DEF Passed, Ahead
  <2>6. QED
    BY <2>1, <2>3, <2>4, <2>5 DEF LateOK, OnlyLateMissed
<1>4. ASSUME NEW p \in Proc, NEW resume \in BOOLEAN, Open(p, resume)
      PROVE  LateOK'
  <2>1. /\ UNCHANGED v1
        /\ v2' = v2 \cup Adopted(place.adopted)
        /\ \A f \in Phase :
              /\ progress[f].status = "absent" =>
                   progress'[f] = [status |-> "pending", last |-> Start]
              /\ progress[f].status # "absent" => progress'[f] = progress[f]
        /\ late' = IF progress' = progress THEN late ELSE late \ v1
        /\ overlapped' = (overlapped \/ \E q \in Proc \ {p} : run[q] # NoRun)
        /\ \A q \in Proc : q # p => run'[q] = run[q]
        /\ run'[p].pc \in {"idle", "opened", "scan"}
    BY <1>4, OpenDoes
  <2>2. \A q \in Proc : run'[q].pc # "batch"
    BY <1>a, <2>1
  <2>3. CASE Started
    <3>1. progress' = progress
      <4>1. progress' \in [Phase -> Progress]
        BY DEF TypeInv, RunType
      <4>2. QED
        BY <1>0, <2>1, <2>3, <4>1 DEF Started
    <3>2. v2' = v2 /\ late' = late
      BY <2>1, <2>3, <3>1 DEF ProgressOK
    <3>3. Kept' = Kept /\ ~overlapped
      BY <2>1, <3>2 DEF Kept
    <3>4. \A f \in Phase : \A i : (Passed(f, i)' <=> Passed(f, i)) /\ (Brought(f, i)' <=> Brought(f, i))
      BY <3>1, <3>2 DEF Passed, Brought
    <3>5. QED
      BY <2>2, <3>3, <3>4 DEF LateOK, OnlyLateMissed
  <2>4. CASE ~Started
    <3>1. \A f \in Phase : progress'[f] = [status |-> "pending", last |-> Start]
      BY <2>1, <2>4 DEF ProgressOK
    <3>2. \A f \in Phase : Items(f, Kept') \subseteq Item
      BY <1>0, ItemsMember
    <3>3. \A f \in Phase : \A i \in Items(f, Kept') : ~Passed(f, i)'
      BY <3>1, <3>2, ItemOrder DEF Passed
    <3>4. QED
      BY <2>2, <3>3 DEF LateOK
  <2>5. QED
    BY <2>3, <2>4
<1>5. ASSUME NEW p \in Proc, Reset(p)
      PROVE  LateOK'
  <2>1. /\ UNCHANGED overlapped
        /\ \A f \in Phase : progress'[f] = [status |-> "pending", last |-> Start]
        /\ run[p].pc = "opened"
        /\ \A q \in Proc : q # p => run'[q] = run[q]
        /\ run'[p].pc = "scan"
    BY <1>5, ResetDoes
  <2>2. \A q \in Proc : q # p => run[q] = NoRun
    BY <2>1, NoRunIs DEF OneAfterTheOther, OrderOK
  <2>3. \A q \in Proc : run'[q].pc # "batch"
    BY <1>a, <2>1, <2>2
  <2>4. \A f \in Phase : Items(f, Kept') \subseteq Item
    BY <1>0, ItemsMember
  <2>5. \A f \in Phase : \A i \in Items(f, Kept') : ~Passed(f, i)'
    BY <2>1, <2>4, ItemOrder DEF Passed
  <2>6. QED
    BY <2>3, <2>5 DEF LateOK
<1>6. ASSUME NEW p \in Proc, Fetch(p)
      PROVE  LateOK'
  <2>1. PICK f \in Phase :
         /\ Rank[f] = run[p].phase
         /\ UNCHANGED <<v1, v2, progress, late, overlapped>>
         /\ \A q \in Proc : q # p => run'[q] = run[q]
         /\ progress[f].status = "completed" => run'[p].pc = "scan"
         /\ progress[f].status # "completed" =>
              /\ run'[p].phase = run[p].phase
              /\ run'[p].batch = Batch(f, progress[f].last, v1)
    BY <1>6, FetchDoes
  <2>2. /\ \A g \in Phase : \A i :
             (Passed(g, i)' <=> Passed(g, i)) /\ (Brought(g, i) <=> Brought(g, i)')
        /\ Kept' = Kept /\ LateOK
        /\ \A q \in Proc : q # p => \A i : Ahead(q, i)' <=> Ahead(q, i)
    BY <2>1 DEF Passed, Brought, Kept, Ahead, OnlyLateMissed
  <2>3. run'[p].pc = "batch" =>
          \A g \in Phase : Rank[g] = run'[p].phase =>
            \A i \in Items(g, Kept) : Brought(g, i) \/ Ahead(p, i)'
    <3> SUFFICES ASSUME run'[p].pc = "batch", NEW g \in Phase, Rank[g] = run'[p].phase,
                        NEW i \in Items(g, Kept)
                 PROVE  Brought(g, i) \/ Ahead(p, i)'
      OBVIOUS
    <3>1. progress[f].status # "completed" /\ g = f
      BY <2>1, Ranks
    <3>2. \/ ~Before(progress[f].last, i)
          \/ i \in run'[p].batch
          \/ run'[p].batch # {} /\ Before(Checkpoint(run'[p].batch), i)
      BY <1>0, <1>b, <2>1, <3>1, BatchSkipsNothing
    <3>3. QED
      BY <2>2, <3>1, <3>2 DEF Ahead, LateOK, Passed
  <2>4. QED
    BY <2>1, <2>2, <2>3 DEF LateOK
<1>7. ASSUME NEW p \in Proc, Write(p)
      PROVE  LateOK'
  <2>1. PICK f \in Phase :
         /\ f = Current(p) /\ Rank[f] = run[p].phase /\ run[p].pc = "batch"
         /\ UNCHANGED <<place, v1, txn, late, everLate, overlapped>>
         /\ \A q \in Proc : q # p => run'[q] = run[q]
         /\ run'[p].pc = "scan"
         /\ \A g \in Phase : g # f => progress'[g] = progress[g]
         /\ run[p].batch = {} =>
              /\ progress'[f] = [status |-> "completed", last |-> run[p].last]
              /\ run'[p].phase = run[p].phase + 1
              /\ UNCHANGED <<v2, errors>>
         /\ run[p].batch # {} =>
              /\ progress'[f] = [status |-> "running", last |-> Checkpoint(run[p].batch)]
              /\ run'[p].phase = run[p].phase
         /\ \A g, i : <<g, i>> \in v2' <=>
              <<g, i>> \in v2 \/ (g = f /\ i \in run[p].batch /\ Fits(f, i, v2))
         /\ \A g, i : <<g, i>> \in errors' <=>
              \/ <<g, i>> \in errors
              \/ g = f /\ i \in run[p].batch /\ <<f, i>> \notin v2 /\ ~Fits(f, i, v2)
    BY <1>7, WriteDoes
  <2>2. LateOK /\ OrderOK /\ Kept' = Kept
    BY <2>1 DEF OnlyLateMissed, OneAfterTheOther, Kept
  <2>3. \A q \in Proc : run'[q].pc # "batch"
    BY <1>a, <2>1, <2>2, NoRunIs DEF OrderOK
  <2>4. progress[f].status # "completed"
    BY <2>1, <2>2 DEF OrderOK
  <2>5. ASSUME NEW g \in Phase, Rank[g] <= Rank[f], NEW i \in Items(g, Kept), Fits(g, i, v2')
        PROVE  Fits(g, i, v2)
    <3>1. \A h \in Lower[g] : h # f
      BY <2>5, Ranks
    <3>2. \A h \in Lower[g] : \A s : Has(v2', h, s) => Has(v2, h, s)
      BY <2>1, <3>1 DEF Has
    <3>3. QED
      BY <1>b, <2>5, <3>2, FitsOnLower
  <2>6. \A i \in Items(f, Kept) : Brought(f, i) \/ Ahead(p, i)
    BY <2>1, <2>2 DEF LateOK
  <2>7. ASSUME NEW g \in Phase, NEW i \in Items(g, Kept), Passed(g, i)'
        PROVE  Brought(g, i)'
    <3>1. CASE Rank[g] < Rank[f]
      <4>1. g # f
        BY <3>1, Ranks
      <4>2. Passed(g, i) /\ (Fits(g, i, v2') => Fits(g, i, v2))
        BY <2>1, <2>5, <2>7, <3>1, <4>1, Ranks DEF Passed
      <4>3. Brought(g, i)
        BY <2>2, <4>2 DEF LateOK
      <4>4. QED
        BY <2>1, <4>2, <4>3 DEF Brought
    <3>2. CASE g = f
      <4>1. Fits(f, i, v2') => Fits(f, i, v2)
        BY <2>5, <3>2, Ranks
      <4>2. Brought(f, i) \/ i \in run[p].batch
        <5>1. CASE run[p].batch = {}
          BY <2>6, <3>2, <5>1 DEF Ahead
        <5>2. CASE run[p].batch # {}
          BY <2>1, <2>6, <2>7, <3>2, <5>2 DEF Ahead, Passed
        <5>3. QED
          BY <5>1, <5>2
      <4>3. QED
        BY <2>1, <3>2, <4>1, <4>2 DEF Brought
    <3>3. CASE Rank[f] < Rank[g]
      <4>1. g # f /\ progress[g].status \notin {"running", "completed"}
        BY <2>2, <2>4, <3>3, Ranks DEF OrderOK
      <4>2. progress[g].status \in {"absent", "pending"}
        BY <1>0, <4>1 DEF Progress
      <4>3. progress[g].last = Start
        BY <4>2 DEF ProgressOK
      <4>4. ~Passed(g, i)'
        BY <1>b, <2>1, <4>1, <4>3, ItemOrder DEF Passed
      <4>5. QED
        BY <2>7, <4>4
    <3>4. QED
      BY <3>1, <3>2, <3>3, Ranks
  <2>8. QED
    BY <2>2, <2>3, <2>7 DEF LateOK
<1>8. ASSUME NEW p \in Proc, Leave(p)
      PROVE  LateOK'
  <2>1. /\ UNCHANGED <<v1, v2, progress, late, overlapped>>
        /\ run'[p] = NoRun /\ \A q \in Proc : q # p => run'[q] = run[q]
    BY <1>0, <1>8 DEF Leave
  <2>2. \A q \in Proc : q # p => \A i : Ahead(q, i)' <=> Ahead(q, i)
    BY <2>1 DEF Ahead
  <2>3. QED
    BY <1>a, <2>1, <2>2 DEF LateOK, OnlyLateMissed, Brought, Passed, Kept
<1>9. QED
  BY <1>1, <1>2, <1>3, <1>4, <1>5, <1>6, <1>7, <1>8, CoreSteps

LEMMA LateInit == Init => OneAfterTheOther /\ WholeOK /\ OnlyLateMissed
<1> SUFFICES ASSUME Init
             PROVE  OneAfterTheOther /\ WholeOK /\ OnlyLateMissed
  OBVIOUS
<1>1. TypeInv
  BY TypeInit
<1>2. /\ NoTxn.row = NoRow
      /\ NoRun.pc = "idle" /\ NoRun.phase = 1
      /\ \A c \in Client : txn[c] = NoTxn
      /\ \A p \in Proc : run[p] = NoRun
      /\ \A f \in Phase : progress[f].status = "absent" /\ progress[f].last = Start
  BY DEF Init, NoTxn, NoRun
<1>3. \A f \in Phase : Items(f, Kept) \subseteq Item
  BY <1>1, ItemsMember DEF TypeInv, DataType, Kept
<1>4. \A f \in Phase : \A i \in Items(f, Kept) : ~Passed(f, i)
  BY <1>2, <1>3, ItemOrder DEF Passed
<1>5. \A f \in Phase : ~(Rank[f] < 1)
  BY Ranks
<1>6. QED
  BY <1>2, <1>4, <1>5 DEF OneAfterTheOther, OrderOK, WholeOK, OnlyLateMissed, LateOK

\* When all phases are complete, v2 has what one undisturbed run makes of all
\* rows, except of those that are late, unless runs have overlapped.
THEOREM NothingElseIsMissed == Spec => []OnlyLateRowsMissed
<1> DEFINE Inv == /\ TypeInv /\ RowsOK /\ ProgressOK /\ OneAfterTheOther /\ WholeOK
                  /\ OnlyLateMissed
<1>1. Init => Inv
  BY TypeInit, RealInit, LateInit
<1>2. Inv /\ [Next]_vars => Inv'
  BY TypeStep, RowsStep, ProgressStep, OrderStep, WholeStep, LateStep
<1>3. Inv => OnlyLateRowsMissed
  <2> SUFFICES ASSUME Inv, Ready, ~overlapped
               PROVE  Ideal(place.adopted, Kept) \subseteq v2
    BY DEF OnlyLateRowsMissed, Kept
  <2> DEFINE A == place.adopted
             Local(f) == \A i : <<f, i>> \in Ideal(A, Kept) => <<f, i>> \in v2
  <2>0. A \in SUBSET Row /\ Kept \in SUBSET Row
    BY PlaceType DEF TypeInv, DataType, Kept
  <2>1. Started /\ \A f \in Phase : \A i \in Items(f, Kept) : Brought(f, i)
    BY DEF Ready, Started, OnlyLateMissed, LateOK, Passed
  <2>2. ASSUME NEW f \in Phase, \A g \in Lower[f] : Local(g)
        PROVE  Local(f)
    <3> SUFFICES ASSUME NEW i, <<f, i>> \in Ideal(A, Kept)
                 PROVE  <<f, i>> \in v2
      OBVIOUS
    <3>1. i \in Items(f, Row)
      BY <2>0, IdealItems
    <3>2. CASE <<f, i>> \in Adopted(A)
      BY <2>1, <3>2 DEF ProgressOK
    <3>3. CASE i \in Items(f, Kept) /\ Fits(f, i, Ideal(A, Kept))
      <4>1. \A g \in Lower[f] : \A r \in About(i) : Has(Ideal(A, Kept), g, r) => Has(v2, g, r)
        BY <2>2 DEF Has
      <4>2. Fits(f, i, v2)
        BY <3>1, <3>3, <4>1, FitsOnLower
      <4>3. QED
        BY <2>1, <3>3, <4>2 DEF Brought
    <3>4. QED
      BY <3>1, <3>2, <3>3, IdealIs
  <2> HIDE DEF Local
  <2>3. Local("sources") /\ Local("reports")
    BY <2>2 DEF Lower, Phase
  <2>4. Local("excerpts")
    BY <2>2, <2>3 DEF Lower, Phase
  <2>5. Local("claims")
    BY <2>2, <2>4 DEF Lower, Phase
  <2>6. Local("links") /\ Local("pointers")
    BY <2>2, <2>4, <2>5 DEF Lower, Phase
  <2>7. \A f \in Phase : \A i : <<f, i>> \in Ideal(A, Kept) => <<f, i>> \in v2
    BY <2>3, <2>4, <2>5, <2>6 DEF Local, Phase
  <2>8. \A x \in Ideal(A, Kept) : \E f \in Phase : \E i \in Items(f, Row) : x = <<f, i>>
    BY <2>0, IdealItems
  <2>9. QED
    BY <2>7, <2>8
<1>4. QED
  BY <1>1, <1>2, <1>3, PTL DEF Spec

-----------------------------------------------------------------------------
(***************************************************************************)
(* Evidence                                                                *)
(***************************************************************************)

Linked(c, known) == \E e \in Needs[c] : <<"links", <<c, e>>>> \in known

\* The run will come to a link of the claim, and v2 has what the link needs.
Awaited(c) ==
  \E e \in Needs[c] :
    /\ Has(v2, "excerpts", e) /\ ~Passed("links", <<c, e>>)
    /\ \A p \in Proc :
         run[p].pc = "batch" /\ run[p].phase = Rank["links"] => Ahead(p, <<c, e>>)

\* What has a pointer has a link; what has only a revision has one, or will
\* before the pointers are made; a write that is open brings both or neither.
EvidenceOK ==
  /\ \A c \in Supported : Has(v2, "pointers", c) => Linked(c, v2)
  /\ \A c \in Supported : Has(v2, "claims", c) => Linked(c, v2) \/ Awaited(c)
  /\ \A d \in Client :
       /\ txn[d].row # NoRow /\ txn[d].row \in Supported
       /\ Has(txn[d].v2, "claims", txn[d].row) \/ Has(txn[d].v2, "pointers", txn[d].row)
       => Linked(txn[d].row, txn[d].v2)

EvidenceFirst == ~overlapped => EvidenceOK

\* An adopted claim was deposited with its links and its pointer.
AdoptedOK ==
  \A f \in {"links", "pointers"} : \A i \in Items(f, place.adopted) : <<f, i>> \in v2

LEMMA ClaimItems ==
  ASSUME NEW R \in SUBSET Row, NEW c, NEW f \in {"claims", "pointers"},
         <<c, c>> \in Items(f, R)
  PROVE  /\ c \in R /\ KindOf[c] = "claim"
         /\ \A e \in Needs[c] : <<c, e>> \in Items("links", R) /\ <<c, e>> \in Item
<1>1. c \in R /\ KindOf[c] = "claim"
  BY DEF Items, OfKind, PhaseKind
<1>2. c \in OfKind("claim", R)
  BY <1>1 DEF OfKind
<1>3. \A e \in Needs[c] : <<c, e>> \in Items("links", R)
  BY <1>2 DEF Items
<1>4. QED
  BY <1>1, <1>3, ItemsMember DEF Phase

LEMMA AdoptedStep ==
  ASSUME TypeInv, AdoptedOK, [Next]_vars
  PROVE  AdoptedOK'
<1>1. place' = place /\ v2 \subseteq v2'
  <2>1. CASE UNCHANGED coreVars
    BY <2>1 DEF coreVars
  <2>2. CASE \E c \in Client : (\E r \in Row : Begin(c, r)) \/ Commit(c) \/ Rollback(c)
    BY <2>2 DEF Begin, Commit, Rollback
  <2>3. CASE \E p \in Proc : \/ \E resume \in BOOLEAN : Open(p, resume)
                             \/ Reset(p) \/ Fetch(p) \/ Leave(p)
    BY <2>3 DEF Open, Reset, Fetch, Leave
  <2>4. CASE \E p \in Proc : Write(p)
    BY <2>4 DEF Write
  <2>5. QED
    BY <2>1, <2>2, <2>3, <2>4, CoreSteps
<1>2. QED
  BY <1>1 DEF AdoptedOK

LEMMA EvidenceStep ==
  ASSUME TypeInv, TypeInv', RowsOK, ProgressOK, OneAfterTheOther, AdoptedOK,
         EvidenceFirst, [Next]_vars
  PROVE  EvidenceFirst'
<1> SUFFICES ASSUME ~overlapped'
             PROVE  EvidenceOK'
  BY DEF EvidenceFirst
<1>0. /\ v1 \in SUBSET Row /\ place \in Place
      /\ v2 \subseteq Phase \X Item
      /\ run \in [Proc -> Run] /\ run' \in [Proc -> Run]
      /\ progress \in [Phase -> Progress]
      /\ txn \in [Client -> OpenWrite]
      /\ NoTxn.row = NoRow /\ NoTxn.v2 = {} /\ NoRun.pc = "idle"
  BY DEF TypeInv, DataType, RunType, LockType, NoTxn, NoRun
<1>1. \A f \in {"claims", "pointers"} : \A c : Has(v2, f, c) =>
        /\ c \in v1 /\ KindOf[c] = "claim"
        /\ \A e \in Needs[c] : <<c, e>> \in Items("links", v1) /\ <<c, e>> \in Item
  <2> SUFFICES ASSUME NEW f \in {"claims", "pointers"}, NEW c, Has(v2, f, c)
               PROVE  /\ c \in v1 /\ KindOf[c] = "claim"
                      /\ \A e \in Needs[c] : <<c, e>> \in Items("links", v1) /\ <<c, e>> \in Item
    OBVIOUS
  <2>1. f \in Phase /\ <<c, c>> \in Item
    BY <1>0 DEF Has, Phase
  <2>2. <<c, c>> \in Items(f, v1)
    BY <2>1 DEF RowsOK, Has
  <2>3. QED
    BY <1>0, <2>2, ClaimItems
<1>2. "links" \in Phase /\ "pointers" \in Phase /\ "claims" \in Phase
      /\ Rank["links"] = 4 /\ Rank["claims"] = 3 /\ Rank["pointers"] = 5
  BY DEF Phase, Rank
<1>3. CASE UNCHANGED coreVars
  BY <1>3 DEF coreVars, EvidenceFirst, EvidenceOK, Awaited, Linked, Has, Passed, Ahead
<1>4. ASSUME NEW c \in Client, NEW r \in Row, Begin(c, r)
      PROVE  EvidenceOK'
  <2>1. /\ UNCHANGED <<v1, v2, progress, run, overlapped>>
        /\ r \notin v1
        /\ \A d \in Client : d # c => txn'[d] = txn[d]
        /\ txn'[c].row = r
        /\ Ready => txn'[c].v2 = Projected(r).v2
        /\ ~Ready => txn'[c].v2 = {}
    BY <1>4, BeginDoes
  <2>2. \A d : (Linked(d, v2)' <=> Linked(d, v2)) /\ (Awaited(d)' <=> Awaited(d))
    BY <2>1 DEF Linked, Awaited, Passed, Ahead
  <2> DEFINE after == Projected(r).v2
  <2>3. ASSUME Has(after, "claims", r) \/ Has(after, "pointers", r), r \in Supported
        PROVE  Linked(r, after)
    <3>1. ASSUME NEW f \in {"claims", "pointers"}, Has(after, f, r)
          PROVE  <<r, r>> \in Items(f, {r}) /\ Fits(f, <<r, r>>, after)
      <4>1. f \in Phase /\ <<f, <<r, r>>>> \notin v2
        BY <1>1, <2>1, <3>1 DEF Has, Phase
      <4>2. <<r, r>> \in Items(f, {r})
        BY <3>1, <4>1, ProjectedIs DEF Has
      <4>3. QED
        BY <3>1, <4>1, <4>2, ProjectedIs DEF Has
    <3>2. Has(after, "claims", r)
      BY <2>3, <3>1 DEF Fits, PointerFits
    <3>3. <<r, r>> \in Items("claims", {r}) /\ Fits("claims", <<r, r>>, after)
      BY <3>1, <3>2
    <3>4. PICK e \in Needs[r] : Has(after, "excerpts", e)
      BY <2>3, <3>3 DEF Fits, ClaimFits
    <3>5. <<r, e>> \in Items("links", {r})
      BY <3>3, ClaimItems
    <3>6. Fits("links", <<r, e>>, after)
      BY <3>2, <3>4 DEF Fits, LinkFits
    <3>7. <<"links", <<r, e>>>> \in after
      BY <1>2, <3>5, <3>6, ProjectedIs
    <3>8. QED
      BY <3>7 DEF Linked
  <2> HIDE DEF after
  <2>4. Has(txn'[c].v2, "claims", r) \/ Has(txn'[c].v2, "pointers", r) =>
          (r \in Supported => Linked(r, txn'[c].v2))
    <3>1. CASE Ready
      BY <2>1, <2>3, <3>1 DEF after
    <3>2. CASE ~Ready
      BY <2>1, <3>2 DEF Has
    <3>3. QED
      BY <3>1, <3>2
  <2>5. EvidenceOK
    BY <2>1 DEF EvidenceFirst
  <2>6. \A d \in Client :
          /\ txn'[d].row # NoRow /\ txn'[d].row \in Supported
          /\ Has(txn'[d].v2, "claims", txn'[d].row) \/ Has(txn'[d].v2, "pointers", txn'[d].row)
          => Linked(txn'[d].row, txn'[d].v2)
    BY <2>1, <2>4, <2>5 DEF EvidenceOK
  <2>7. /\ \A d \in Supported : Has(v2', "pointers", d) => Linked(d, v2')
        /\ \A d \in Supported : Has(v2', "claims", d) => Linked(d, v2') \/ Awaited(d)'
    BY <2>1, <2>2, <2>5 DEF EvidenceOK
  <2>8. QED
    BY <2>6, <2>7 DEF EvidenceOK
<1>5. ASSUME NEW c \in Client, Commit(c)
      PROVE  EvidenceOK'
  <2>1. /\ UNCHANGED <<progress, run, overlapped>>
        /\ v2' = v2 \cup txn[c].v2
        /\ txn'[c] = NoTxn /\ \A d \in Client : d # c => txn'[d] = txn[d]
    BY <1>5, CommitDoes
  <2>2. EvidenceOK
    BY <2>1 DEF EvidenceFirst
  <2>3. \A d : (Linked(d, v2) => Linked(d, v2')) /\ (Linked(d, txn[c].v2) => Linked(d, v2'))
    BY <2>1 DEF Linked
  <2>4. \A d : Awaited(d) => Awaited(d)'
    BY <2>1 DEF Awaited, Passed, Ahead, Has
  <2>5. ASSUME NEW f \in {"claims", "pointers"}, NEW d \in Supported,
               Has(v2', f, d), ~Has(v2, f, d)
        PROVE  Linked(d, v2')
    <3>1. f \in Phase /\ <<f, <<d, d>>>> \in txn[c].v2 /\ <<d, d>> \in Item
      BY <1>0, <2>1, <2>5 DEF Has, Phase, OpenWrite
    <3>2. txn[c].row # NoRow
      BY <1>0, <3>1 DEF RowsOK
    <3>3. txn[c].row \in Row
      BY <1>0, <3>2 DEF OpenWrite
    <3>4. <<d, d>> \in Items(f, {txn[c].row})
      BY <2>5, <3>1, <3>2 DEF RowsOK, Has
    <3>5. d = txn[c].row
      BY <3>3, <3>4, ClaimItems
    <3>6. QED
      BY <2>2, <2>3, <3>1, <3>2, <3>5 DEF EvidenceOK, Has
  <2>6. \A d \in Supported : Has(v2', "pointers", d) => Linked(d, v2')
    BY <2>2, <2>3, <2>5 DEF EvidenceOK
  <2>7. \A d \in Supported : Has(v2', "claims", d) => Linked(d, v2') \/ Awaited(d)'
    BY <2>2, <2>3, <2>4, <2>5 DEF EvidenceOK
  <2>8. \A d \in Client : txn'[d].row # NoRow => txn'[d] = txn[d]
    BY <1>0, <2>1
  <2>9. QED
    BY <2>2, <2>6, <2>7, <2>8 DEF EvidenceOK
<1>6. ASSUME NEW c \in Client, Rollback(c)
      PROVE  EvidenceOK'
  <2>1. /\ UNCHANGED <<v2, progress, run, overlapped>>
        /\ txn'[c] = NoTxn /\ \A d \in Client : d # c => txn'[d] = txn[d]
    BY <1>6, RollbackDoes
  <2>2. EvidenceOK
    BY <2>1 DEF EvidenceFirst
  <2>3. \A d : Awaited(d) => Awaited(d)'
    BY <2>1 DEF Awaited, Passed, Ahead
  <2>4. \A d \in Client : txn'[d].row # NoRow => txn'[d] = txn[d]
    BY <1>0, <2>1
  <2>5. QED
    BY <2>1, <2>2, <2>3, <2>4 DEF EvidenceOK
<1>7. ASSUME NEW p \in Proc, NEW resume \in BOOLEAN, Open(p, resume)
      PROVE  EvidenceOK'
  <2>1. /\ UNCHANGED txn
        /\ v2' = v2 \cup Adopted(place.adopted)
        /\ \A f \in Phase :
              /\ progress[f].status = "absent" =>
                   progress'[f] = [status |-> "pending", last |-> Start]
              /\ progress[f].status # "absent" => progress'[f] = progress[f]
        /\ overlapped' = (overlapped \/ \E q \in Proc \ {p} : run[q] # NoRun)
        /\ \A q \in Proc : q # p => run'[q] = run[q]
        /\ run'[p].pc \in {"idle", "opened", "scan"}
    BY <1>7, OpenDoes
  <2>2. EvidenceOK
    BY <2>1 DEF EvidenceFirst
  <2>3. \A q \in Proc : run'[q].pc # "batch"
    BY <1>0, <2>1
  <2>4. \A i : Passed("links", i)' => Passed("links", i)
    BY <1>2, <2>1 DEF Passed, ProgressOK
  <2>5. \A d : (Linked(d, v2) => Linked(d, v2')) /\ (Awaited(d) => Awaited(d)')
    BY <2>1, <2>3, <2>4 DEF Linked, Awaited, Has
  <2>6. \A d : <<d, d>> \in Items("claims", place.adopted) /\ d \in Supported => Linked(d, v2)
    <3> SUFFICES ASSUME NEW d \in Supported, <<d, d>> \in Items("claims", place.adopted)
                 PROVE  Linked(d, v2)
      OBVIOUS
    <3>1. d \in place.adopted /\ \A e \in Needs[d] : <<d, e>> \in Items("links", place.adopted)
      BY <1>0, PlaceType, ClaimItems
    <3>2. Needs[d] # {}
      BY <1>0, <3>1, PlaceType
    <3>3. QED
      BY <3>1, <3>2 DEF Linked, AdoptedOK
  <2>7. \A d : /\ <<"pointers", <<d, d>>>> \notin Adopted(place.adopted)
               /\ <<"claims", <<d, d>>>> \in Adopted(place.adopted) =>
                    <<d, d>> \in Items("claims", place.adopted)
    BY DEF Adopted
  <2>8. \A d \in Supported : Has(v2', "pointers", d) => Linked(d, v2')
    BY <2>1, <2>2, <2>5, <2>7 DEF EvidenceOK, Has
  <2>9. \A d \in Supported : Has(v2', "claims", d) => Linked(d, v2') \/ Awaited(d)'
    BY <2>1, <2>2, <2>5, <2>6, <2>7 DEF EvidenceOK, Has
  <2>10. QED
    BY <2>1, <2>2, <2>8, <2>9 DEF EvidenceOK
<1>8. ASSUME NEW p \in Proc, Reset(p)
      PROVE  EvidenceOK'
  <2>1. /\ UNCHANGED <<v2, txn, overlapped>>
        /\ \A f \in Phase : progress'[f] = [status |-> "pending", last |-> Start]
        /\ run[p].pc = "opened"
        /\ \A q \in Proc : q # p => run'[q] = run[q]
        /\ run'[p].pc = "scan"
    BY <1>8, ResetDoes
  <2>2. EvidenceOK /\ OrderOK
    BY <2>1 DEF EvidenceFirst, OneAfterTheOther
  <2>3. \A q \in Proc : run'[q].pc # "batch"
    BY <1>0, <2>1, <2>2, NoRunIs DEF OrderOK
  <2>4. \A i \in Item : ~Passed("links", i)'
    BY <1>2, <2>1, ItemOrder DEF Passed
  <2>5. \A d : Has(v2, "claims", d) /\ Awaited(d) => Awaited(d)'
    BY <1>1, <2>1, <2>3, <2>4 DEF Awaited
  <2>6. QED
    BY <2>1, <2>2, <2>5 DEF EvidenceOK
<1>9. ASSUME NEW p \in Proc, Fetch(p)
      PROVE  EvidenceOK'
  <2>1. PICK f \in Phase :
         /\ f = Current(p) /\ Rank[f] = run[p].phase /\ run[p].pc = "scan"
         /\ UNCHANGED <<place, v1, v2, errors, progress, txn, late, everLate, overlapped>>
         /\ \A q \in Proc : q # p => run'[q] = run[q]
         /\ progress[f].status = "completed" =>
              run'[p].phase = run[p].phase + 1 /\ run'[p].pc = "scan"
         /\ progress[f].status # "completed" =>
              /\ run'[p].phase = run[p].phase /\ run'[p].pc = "batch"
              /\ run'[p].last = progress[f].last
              /\ run'[p].batch = Batch(f, progress[f].last, v1)
    BY <1>9, FetchDoes
  <2>2. EvidenceOK
    BY <2>1 DEF EvidenceFirst
  <2>3. ASSUME NEW d, Has(v2, "claims", d), Awaited(d)
        PROVE  Awaited(d)'
    <3>1. PICK e \in Needs[d] :
            /\ Has(v2, "excerpts", e) /\ ~Passed("links", <<d, e>>)
            /\ \A q \in Proc :
                 run[q].pc = "batch" /\ run[q].phase = Rank["links"] => Ahead(q, <<d, e>>)
      BY <2>3 DEF Awaited
    <3>2. ~Passed("links", <<d, e>>)'
      BY <2>1, <3>1 DEF Passed
    <3>3. ASSUME run'[p].pc = "batch", run'[p].phase = Rank["links"]
          PROVE  Ahead(p, <<d, e>>)'
      <4>1. f = "links" /\ run'[p].batch = Batch("links", progress["links"].last, v1)
        BY <1>2, <2>1, <3>3, Ranks
      <4>2. <<d, e>> \in Items("links", v1) /\ Before(progress["links"].last, <<d, e>>)
        BY <1>1, <2>3, <3>1 DEF Passed
      <4>3. QED
        BY <1>0, <1>2, <4>1, <4>2, BatchSkipsNothing DEF Ahead
    <3>4. \A q \in Proc : q # p => (Ahead(q, <<d, e>>)' <=> Ahead(q, <<d, e>>))
      BY <2>1 DEF Ahead
    <3>5. \A q \in Proc :
            run'[q].pc = "batch" /\ run'[q].phase = Rank["links"] => Ahead(q, <<d, e>>)'
      BY <2>1, <3>1, <3>3, <3>4
    <3>6. QED
      BY <2>1, <3>1, <3>2, <3>5 DEF Awaited
  <2>4. QED
    BY <2>1, <2>2, <2>3 DEF EvidenceOK
<1>10. ASSUME NEW p \in Proc, Write(p)
      PROVE  EvidenceOK'
  <2>1. PICK f \in Phase :
         /\ f = Current(p) /\ Rank[f] = run[p].phase /\ run[p].pc = "batch"
         /\ UNCHANGED <<place, v1, txn, late, everLate, overlapped>>
         /\ \A q \in Proc : q # p => run'[q] = run[q]
         /\ run'[p].pc = "scan"
         /\ \A g \in Phase : g # f => progress'[g] = progress[g]
         /\ run[p].batch = {} =>
              /\ progress'[f] = [status |-> "completed", last |-> run[p].last]
              /\ run'[p].phase = run[p].phase + 1
              /\ UNCHANGED <<v2, errors>>
         /\ run[p].batch # {} =>
              /\ progress'[f] = [status |-> "running", last |-> Checkpoint(run[p].batch)]
              /\ run'[p].phase = run[p].phase
         /\ \A g, i : <<g, i>> \in v2' <=>
              <<g, i>> \in v2 \/ (g = f /\ i \in run[p].batch /\ Fits(f, i, v2))
         /\ \A g, i : <<g, i>> \in errors' <=>
              \/ <<g, i>> \in errors
              \/ g = f /\ i \in run[p].batch /\ <<f, i>> \notin v2 /\ ~Fits(f, i, v2)
    BY <1>10, WriteDoes
  <2>2. EvidenceOK /\ OrderOK
    BY <2>1 DEF EvidenceFirst, OneAfterTheOther
  <2>3. \A q \in Proc : run'[q].pc # "batch"
    BY <1>0, <2>1, <2>2, NoRunIs DEF OrderOK
  <2>4. \A d : Linked(d, v2) => Linked(d, v2')
    BY <2>1 DEF Linked
  <2>5. ASSUME NEW d, NEW e \in Needs[d], Has(v2, "excerpts", e),
               ~Passed("links", <<d, e>>)'
        PROVE  Awaited(d)'
    BY <2>1, <2>3, <2>5 DEF Awaited, Has
  <2>6. ASSUME NEW d \in Supported, Has(v2, "claims", d), Awaited(d)
        PROVE  Linked(d, v2') \/ Awaited(d)'
    <3>1. PICK e \in Needs[d] :
            /\ Has(v2, "excerpts", e) /\ ~Passed("links", <<d, e>>)
            /\ \A q \in Proc :
                 run[q].pc = "batch" /\ run[q].phase = Rank["links"] => Ahead(q, <<d, e>>)
      BY <2>6 DEF Awaited
    <3>2. CASE f # "links"
      BY <1>2, <2>1, <2>5, <3>1, <3>2 DEF Passed
    <3>3. CASE f = "links"
      <4>1. Ahead(p, <<d, e>>)
        BY <2>1, <3>1, <3>3
      <4>2. CASE <<d, e>> \in run[p].batch
        <5>1. Fits(f, <<d, e>>, v2)
          BY <2>6, <3>1, <3>3 DEF Fits, LinkFits
        <5>2. QED
          BY <2>1, <3>3, <4>2, <5>1 DEF Linked
      <4>3. CASE run[p].batch # {} /\ Before(Checkpoint(run[p].batch), <<d, e>>)
        <5>1. ~Passed("links", <<d, e>>)'
          BY <2>1, <3>3, <4>3 DEF Passed
        <5>2. QED
          BY <2>5, <3>1, <5>1
      <4>4. QED
        BY <4>1, <4>2, <4>3 DEF Ahead
    <3>4. QED
      BY <3>2, <3>3
  <2>7. ASSUME NEW d \in Supported, Has(v2', "claims", d), ~Has(v2, "claims", d)
        PROVE  Awaited(d)'
    <3>1. f = "claims" /\ <<d, d>> \in run[p].batch /\ Fits(f, <<d, d>>, v2)
      BY <2>1, <2>7 DEF Has
    <3>2. PICK e \in Needs[d] : Has(v2, "excerpts", e)
      BY <2>7, <3>1 DEF Fits, ClaimFits
    <3>3. <<d, e>> \in Item
      BY <1>0, <1>2, <2>1, <3>1, ClaimItems DEF ProgressOK
    <3>4. progress["links"].status \in {"absent", "pending"}
      BY <1>0, <1>2, <2>1, <2>2, <3>1 DEF OrderOK, Progress
    <3>5. progress'["links"] = progress["links"] /\ progress["links"].last = Start
      BY <1>2, <2>1, <3>1, <3>4 DEF ProgressOK
    <3>6. ~Passed("links", <<d, e>>)'
      BY <3>3, <3>4, <3>5, ItemOrder DEF Passed
    <3>7. QED
      BY <2>5, <3>2, <3>6
  <2>8. ASSUME NEW d \in Supported, Has(v2', "pointers", d), ~Has(v2, "pointers", d)
        PROVE  Linked(d, v2')
    <3>1. f = "pointers" /\ Fits(f, <<d, d>>, v2)
      BY <2>1, <2>8 DEF Has
    <3>2. Has(v2, "claims", d)
      BY <3>1 DEF Fits, PointerFits
    <3>3. progress["links"].status = "completed"
      BY <1>2, <2>1, <2>2, <3>1 DEF OrderOK
    <3>4. ~Awaited(d)
      BY <3>3 DEF Awaited, Passed
    <3>5. QED
      BY <2>2, <2>4, <3>2, <3>4 DEF EvidenceOK
  <2>9. \A d \in Supported : Has(v2', "pointers", d) => Linked(d, v2')
    BY <2>2, <2>4, <2>8 DEF EvidenceOK
  <2>10. \A d \in Supported : Has(v2', "claims", d) => Linked(d, v2') \/ Awaited(d)'
    BY <2>2, <2>4, <2>6, <2>7 DEF EvidenceOK
  <2>11. QED
    BY <2>1, <2>2, <2>9, <2>10 DEF EvidenceOK
<1>11. ASSUME NEW p \in Proc, Leave(p)
      PROVE  EvidenceOK'
  <2>1. /\ UNCHANGED <<v2, progress, txn, overlapped>>
        /\ run'[p] = NoRun /\ \A q \in Proc : q # p => run'[q] = run[q]
    BY <1>0, <1>11 DEF Leave
  <2>2. EvidenceOK
    BY <2>1 DEF EvidenceFirst
  <2>3. \A q \in Proc : \A i : run'[q].pc = "batch" =>
          run'[q] = run[q] /\ (Ahead(q, i)' <=> Ahead(q, i))
    BY <1>0, <2>1 DEF Ahead
  <2>4. \A d : Awaited(d) => Awaited(d)'
    BY <2>1, <2>3 DEF Awaited, Passed
  <2>5. QED
    BY <2>1, <2>2, <2>4 DEF EvidenceOK
<1>12. QED
  BY <1>3, <1>4, <1>5, <1>6, <1>7, <1>8, <1>9, <1>10, <1>11, CoreSteps

LEMMA EvidenceInit == Init => AdoptedOK /\ EvidenceFirst
<1> SUFFICES ASSUME Init
             PROVE  AdoptedOK /\ EvidenceOK
  BY DEF EvidenceFirst
<1>1. TypeInv /\ NoTxn.row = NoRow
  BY TypeInit DEF NoTxn
<1>2. \A f, i : <<f, i>> \in v2 <=> f \in {"links", "pointers"} /\ i \in Items(f, place.adopted)
  BY DEF Init
<1>3. \A c : ~Has(v2, "claims", c)
  BY <1>2 DEF Has
<1>4. ASSUME NEW c \in Supported, Has(v2, "pointers", c)
      PROVE  Linked(c, v2)
  <2>1. place.adopted \in SUBSET Row /\ <<c, c>> \in Items("pointers", place.adopted)
    BY <1>1, <1>2, <1>4, PlaceType DEF Has, TypeInv, DataType
  <2>2. c \in place.adopted /\ \A e \in Needs[c] : <<c, e>> \in Items("links", place.adopted)
    BY <2>1, ClaimItems
  <2>3. Needs[c] # {}
    BY <1>1, <2>2, PlaceType DEF TypeInv, DataType
  <2>4. QED
    BY <1>2, <2>2, <2>3 DEF Linked
<1>5. \A c \in Client : txn[c].row = NoRow
  BY <1>1 DEF Init
<1>6. QED
  BY <1>2, <1>3, <1>4, <1>5 DEF AdoptedOK, EvidenceOK

\* A supported claim has its pointer, by which it is visible, only with
\* evidence linked to it, unless runs have overlapped.
THEOREM ClaimsShowEvidence == Spec => []ShownWithEvidence
<1> DEFINE Inv == /\ TypeInv /\ RowsOK /\ ProgressOK /\ OneAfterTheOther
                  /\ AdoptedOK /\ EvidenceFirst
<1>1. Init => Inv
  BY TypeInit, RealInit, LateInit, EvidenceInit
<1>2. Inv /\ [Next]_vars => Inv'
  BY TypeStep, RowsStep, ProgressStep, OrderStep, AdoptedStep, EvidenceStep
<1>3. Inv => ShownWithEvidence
  BY DEF EvidenceFirst, EvidenceOK, ShownWithEvidence, Linked
<1>4. QED
  BY <1>1, <1>2, <1>3, PTL DEF Spec

-----------------------------------------------------------------------------
(***************************************************************************)
(* The search index                                                        *)
(***************************************************************************)

\* Of what is committed, a rebuild that has only read has read everything or
\* will be known to drop it; a rebuild that has emptied the index puts back or
\* has left there what is not known to be dropped.  One rebuild at a time is
\* between its deletion and its end, and a rebuild knows the row of its write.
IndexOK ==
  /\ SearchCurrent
  /\ \A a \in Agent : index[a].at \in {"read", "waiting"} =>
       Documents(v1) \subseteq index[a].docs \cup missed
  /\ \A a \in Agent : index[a].at = "deleted" =>
       Documents(v1) \subseteq index[a].docs \cup missed \cup (search \ index[a].seen)
  /\ \A a, b \in Agent : index[a].at = "deleted" /\ index[b].at = "deleted" => a = b
  /\ \A a \in Agent : index[a].at # "none" => Documents(Own(a)) \subseteq index[a].docs

LEMMA DocumentsOf == \A R, S : Documents(R \cup S) = Documents(R) \cup Documents(S)
BY DEF Documents

LEMMA IndexType ==
  ASSUME TypeInv
  PROVE  /\ v1 \in SUBSET Row /\ search \in SUBSET Row
         /\ index \in [Agent -> Rebuilding] /\ txn \in [Client -> OpenWrite]
BY DEF TypeInv, DataType, LockType

LEMMA ReadStep ==
  ASSUME TypeInv, IndexOK, NEW a \in Agent, ReadDocuments(a), index[a].at = "none",
         UNCHANGED <<v1, search, missed, txn>>
  PROVE  IndexOK'
<1>1. index'[a] = [at |-> "read", docs |-> Documents(v1 \cup Own(a)), seen |-> {}]
      /\ \A b \in Agent : b # a => index'[b] = index[b]
  BY IndexType DEF ReadDocuments
<1>2. Documents(v1) \subseteq Documents(v1 \cup Own(a))
      /\ Documents(Own(a)) \subseteq Documents(v1 \cup Own(a))
  BY DocumentsOf
<1>3. \A b \in Agent : Own(b)' = Own(b)
  BY DEF Own
<1>4. /\ index'[a].at = "read"
      /\ Documents(v1) \subseteq index'[a].docs
      /\ Documents(Own(a)) \subseteq index'[a].docs
  BY <1>1, <1>2
<1>5. QED
  BY <1>1, <1>3, <1>4 DEF IndexOK, SearchCurrent

LEMMA DeleteStep ==
  ASSUME TypeInv, IndexOK, NEW a \in Agent, DeleteDocuments(a)
  PROVE  IndexOK'
<1>1. /\ UNCHANGED <<v1, search, missed, txn>>
      /\ index[a].at \in {"read", "passed"} /\ \A b \in Agent : index[b].at # "deleted"
  BY DEF DeleteDocuments
<1>2. /\ index'[a].at = "deleted" /\ index'[a].docs = index[a].docs
      /\ index'[a].seen = IF index[a].at = "read" THEN search ELSE {}
      /\ \A b \in Agent : b # a => index'[b] = index[b]
  BY IndexType DEF DeleteDocuments, Rebuilding
<1>3. \A b \in Agent : Own(b)' = Own(b)
  BY <1>1 DEF Own
<1>4. QED
  BY <1>1, <1>2, <1>3 DEF IndexOK, SearchCurrent

LEMMA WaitStep ==
  ASSUME TypeInv, IndexOK, NEW a \in Agent, Wait(a)
  PROVE  IndexOK'
<1>1. UNCHANGED <<v1, search, missed, txn>> /\ index[a].at = "read"
  BY DEF Wait
<1>2. /\ index'[a].at = "waiting" /\ index'[a].docs = index[a].docs
      /\ \A b \in Agent : b # a => index'[b] = index[b]
  BY IndexType DEF Wait, Rebuilding
<1>3. \A b \in Agent : Own(b)' = Own(b)
  BY <1>1 DEF Own
<1>4. QED
  BY <1>1, <1>2, <1>3 DEF IndexOK, SearchCurrent

\* A rebuild ends with what it has read; the rows that others have not read
\* and may delete are known.
LEMMA CommitStep ==
  ASSUME TypeInv, TypeInv', IndexOK, NEW a \in Agent, NEW rows,
         rows = v1 \/ rows = v1 \cup Own(a), CommitDocuments(a, rows), v1' = rows,
         txn' = txn \/ (a \in Client /\ txn' = [txn EXCEPT ![a] = NoTxn])
  PROVE  IndexOK'
<1>1. /\ index[a].at = "deleted"
      /\ search' = index[a].docs \cup (search \ index[a].seen)
      /\ missed' = (missed \ index[a].docs) \cup AtRisk(a, rows)
      /\ index'[a] = Closed
      /\ \A b \in Agent : b # a => index'[b] = Woken(b, "passed")
  BY DEF CommitDocuments
<1>2. index'[a].at = "none"
  BY <1>1 DEF Closed
<1>3. \A b \in Agent : b # a =>
        /\ index'[b].docs = index[b].docs
        /\ index'[b].at # "deleted" /\ index'[b].at # "waiting"
        /\ index'[b].at = "read" => index[b].at = "read"
        /\ index'[b].at # "none" => index[b].at # "none"
  BY <1>1, IndexType DEF Woken, IndexOK, Rebuilding
<1>4. \A b \in Agent : index[b].at = "read" /\ b # a =>
        Documents(rows) \ index[b].docs \subseteq AtRisk(a, rows)
  BY DEF AtRisk
<1>5. Documents(rows) \subseteq Documents(v1) \cup index[a].docs
  <2>1. Documents(rows) \subseteq Documents(v1) \cup Documents(Own(a))
    BY DocumentsOf
  <2>2. QED
    BY <1>1, <2>1 DEF IndexOK
<1>6. Documents(v1') = Documents(rows)
  OBVIOUS
<1>7. SearchCurrent'
  BY <1>1, <1>5, <1>6 DEF IndexOK, SearchCurrent
<1>8. \A b \in Agent : b # a => Own(b)' = Own(b)
  BY IndexType DEF Own
<1>9. \A b \in Agent : index'[b].at \in {"read", "waiting"} =>
        Documents(v1') \subseteq index'[b].docs \cup missed'
  BY <1>1, <1>2, <1>3, <1>4, <1>6
<1>10. QED
  BY <1>2, <1>3, <1>7, <1>8, <1>9 DEF IndexOK

LEMMA AbandonStep ==
  ASSUME TypeInv, IndexOK, NEW a \in Agent, Abandon(a), UNCHANGED <<v1, search, missed>>,
         txn' = txn \/ (a \in Client /\ txn' = [txn EXCEPT ![a] = NoTxn])
  PROVE  IndexOK'
<1>1. /\ index'[a] = Closed
      /\ \A b \in Agent : b # a =>
           index'[b] = IF index[a].at = "deleted" THEN Woken(b, "read") ELSE index[b]
  BY DEF Abandon
<1>2. index'[a].at = "none"
  BY <1>1 DEF Closed
<1>3. \A b \in Agent : b # a =>
        /\ index'[b].docs = index[b].docs /\ index'[b].seen = index[b].seen
        /\ index'[b].at = "deleted" => index[b].at = "deleted"
        /\ index'[b].at \in {"read", "waiting"} => index[b].at \in {"read", "waiting"}
        /\ index'[b].at # "none" => index[b].at # "none"
  BY <1>1, IndexType DEF Woken, Rebuilding
<1>4. \A b \in Agent : b # a => Own(b)' = Own(b)
  BY IndexType DEF Own
<1>5. QED
  BY <1>2, <1>3, <1>4 DEF IndexOK, SearchCurrent

\* A client has no rebuild open when it begins.
LEMMA BeginStep ==
  ASSUME TypeInv, IndexOK, NEW c \in Client, NEW r \in Row, Begin(c, r)
  PROVE  IndexOK'
<1>1. UNCHANGED <<v1, search, missed, index>> /\ index[c].at = "none"
  BY DEF Begin, Closed
<1>2. \A d \in Client : d # c => txn'[d] = txn[d]
  BY BeginDoes
<1>3. \A b \in Agent : b # c => Own(b)' = Own(b)
  BY <1>2 DEF Own
<1>4. QED
  BY <1>1, <1>3 DEF IndexOK, SearchCurrent

LEMMA IndexStep ==
  ASSUME TypeInv, TypeInv', IndexOK, [Next]_vars
  PROVE  IndexOK'
<1>1. ASSUME UNCHANGED <<v1, search, missed, txn, index>>
      PROVE  IndexOK'
  BY <1>1 DEF IndexOK, SearchCurrent, Own
<1>2. ASSUME NEW c \in Client, ClientStep(c)
      PROVE  IndexOK'
  <2>0. c \in Agent
    BY AgentsAre
  <2>1. CASE \E r \in Row : Begin(c, r)
    BY <2>1, BeginStep
  <2>2. CASE Read(c) \/ Reindex(c)
    <3>1. /\ ReadDocuments(c) /\ index[c].at = "none"
          /\ UNCHANGED <<v1, search, missed, txn>>
      BY <2>2 DEF Read, Reindex, Closed
    <3>2. QED
      BY <2>0, <3>1, ReadStep
  <2>3. CASE DeleteDocuments(c)
    BY <2>0, <2>3, DeleteStep
  <2>4. CASE Wait(c)
    BY <2>0, <2>4, WaitStep
  <2>5. CASE Commit(c)
    <3>1. /\ CommitDocuments(c, v1') /\ v1' = v1 \cup Own(c)
          /\ txn' = [txn EXCEPT ![c] = NoTxn]
      BY <2>5 DEF Commit
    <3>2. QED
      BY <2>0, <3>1, CommitStep
  <2>6. CASE Rollback(c)
    <3>1. /\ Abandon(c) /\ UNCHANGED <<v1, search, missed>>
          /\ txn' = [txn EXCEPT ![c] = NoTxn]
      BY <2>6 DEF Rollback
    <3>2. QED
      BY <2>0, <3>1, AbandonStep
  <2>7. QED
    BY <1>2, <2>1, <2>2, <2>3, <2>4, <2>5, <2>6 DEF ClientStep
<1>3. ASSUME NEW p \in Proc, BackfillStep(p)
      PROVE  IndexOK'
  <2>0. p \in Agent
    BY AgentsAre
  <2>1. CASE (\E resume \in BOOLEAN : Open(p, resume)) \/ Reset(p) \/ Fetch(p) \/ Write(p)
    BY <1>1, <2>1 DEF Open, Reset, Fetch, Write
  <2>2. CASE Finish(p)
    <3>1. /\ ReadDocuments(p) /\ index[p].at = "none"
          /\ UNCHANGED <<v1, search, missed, txn>>
      BY <2>2 DEF Finish, Closed
    <3>2. QED
      BY <2>0, <3>1, ReadStep
  <2>3. CASE DeleteDocuments(p)
    BY <2>0, <2>3, DeleteStep
  <2>4. CASE Wait(p)
    BY <2>0, <2>4, WaitStep
  <2>5. CASE Done(p)
    <3>1. CommitDocuments(p, v1) /\ UNCHANGED <<v1, txn>>
      BY <2>5 DEF Done
    <3>2. QED
      BY <2>0, <3>1, CommitStep
  <2>6. CASE Interrupt(p)
    <3>1. Abandon(p) /\ UNCHANGED <<v1, search, missed, txn>>
      BY <2>6 DEF Interrupt
    <3>2. QED
      BY <2>0, <3>1, AbandonStep
  <2>7. QED
    BY <1>3, <2>1, <2>2, <2>3, <2>4, <2>5, <2>6 DEF BackfillStep
<1>4. CASE UNCHANGED vars
  BY <1>1, <1>4 DEF vars
<1>5. QED
  BY <1>2, <1>3, <1>4 DEF Next

\* Every committed source, claim and report has its document, or a rebuild that
\* had read before the commit may drop it.
THEOREM SearchStaysCurrent == Spec => []SearchCurrent
<1>1. Init => IndexOK
  BY DEF Init, IndexOK, SearchCurrent, Closed
<1>2. IndexOK => SearchCurrent
  BY DEF IndexOK
<1>3. TypeInv /\ IndexOK /\ [Next]_vars => TypeInv' /\ IndexOK'
  BY TypeStep, IndexStep
<1>4. QED
  BY <1>1, <1>2, <1>3, TypeInit, PTL DEF Spec
================================================================================
