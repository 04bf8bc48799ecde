------------------------ MODULE RecommendationsProofs -----------------------
(***************************************************************************)
(* The answers of the recommendation engine, for every finite wardrobe and *)
(* whatever the scores are; and what the scores of an outfit, averages and *)
(* minima over its three pairs of garments, depend on.                     *)
(***************************************************************************)
EXTENDS Recommendations, FiniteSetTheorems, TLAPS

(* The set from which a request's outfits are made is finite.              *)
LEMMA TriplesFinite ==
  ASSUME NEW A, NEW B, NEW C, IsFiniteSet(A), IsFiniteSet(B), IsFiniteSet(C)
  PROVE  IsFiniteSet(A \X B \X C)
<1> DEFINE nest == [x \in A \X B \X C |-> <<<<x[1], x[2]>>, x[3]>>]
<1>1. IsFiniteSet((A \X B) \X C)
  BY FS_Product
<1>2. nest \in Injection(A \X B \X C, (A \X B) \X C)
  <2>1. nest \in [A \X B \X C -> (A \X B) \X C]
    OBVIOUS
  <2>2. ASSUME NEW x \in A \X B \X C, NEW y \in A \X B \X C, nest[x] = nest[y]
        PROVE  x = y
    BY <2>2
  <2>3. QED
    BY <2>1, <2>2 DEF Injection, IsInjective
<1>3. QED
  BY <1>1, <1>2, FS_Injection

(* An order of a finite set names each element once.                       *)
LEMMA OrderIsBijection ==
  ASSUME NEW S, IsFiniteSet(S), NEW t \in SetToSeqs(S)
  PROVE  /\ Cardinality(S) \in Nat
         /\ t \in [1 .. Cardinality(S) -> S]
         /\ \A i, j \in 1 .. Cardinality(S) : i # j => t[i] # t[j]
         /\ \A x \in S : \E i \in 1 .. Cardinality(S) : t[i] = x
<1> DEFINE m == Cardinality(S)
<1>1. m \in Nat
  BY FS_CardinalityType
<1>2. t \in [1 .. m -> S] /\ \A i, j \in 1 .. m : i # j => t[i] # t[j]
  BY DEF SetToSeqs
<1>3. t \in Injection(1 .. m, S)
  BY <1>2 DEF Injection, IsInjective
<1>4. Cardinality(1 .. m) = m
  BY <1>1, FS_Interval
<1>5. t \in Surjection(1 .. m, S)
  BY <1>3, <1>4, FS_Injection
<1>6. \A x \in S : \E i \in 1 .. m : t[i] = x
  BY <1>5 DEF Surjection
<1>7. QED
  BY <1>1, <1>2, <1>6

(* What Ranked returns for a finite set of outfits.                        *)
LEMMA RankedIsBest ==
  ASSUME NEW S, IsFiniteSet(S), NEW p, NEW n \in Nat, NEW s \in Ranked(S, p, n)
  PROVE  /\ ToSet(s) \subseteq S
         /\ Cardinality(ToSet(s)) = Len(s)
         /\ Len(s) <= n
         /\ S \ ToSet(s) # {} => Len(s) = n
         /\ \A i \in DOMAIN s :
               /\ \A o \in S \ ToSet(s) : Score(o, p) <= Score(s[i], p)
               /\ \A j \in 1 .. i - 1 : Score(s[j], p) >= Score(s[i], p)
<1> DEFINE m == Cardinality(S)
<1>1. PICK t \in SetToSeqs(S) : Sorted(t, p) /\ s = Cut(t, n)
  BY DEF Ranked
<1>2. /\ m \in Nat
      /\ t \in [1 .. m -> S]
      /\ \A i, j \in 1 .. m : i # j => t[i] # t[j]
      /\ \A x \in S : \E i \in 1 .. m : t[i] = x
  BY OrderIsBijection
<1> DEFINE k == IF n <= m THEN n ELSE m
<1> HIDE DEF m
<1>3. k \in 0 .. m /\ k <= n /\ (k < m => k = n) 
      /\ s \in [1 .. k -> S] /\ \A i \in 1 .. k : s[i] = t[i]
  <2>1. k \in 0 .. m /\ k <= n /\ (k < m => k = n)
    BY <1>2
  <2>2. t \in Seq(S) /\ Len(t) = m
    BY <1>2
  <2>3. Min({n, m}) = k
    BY <1>2 DEF Min
  <2>4. s = SubSeq(t, 1, k)
    BY <1>1, <2>2, <2>3 DEF Cut
  <2>5. k \in Nat /\ \A i \in 1 .. k : i \in 1 .. m
    BY <1>2
  <2> HIDE DEF k
  <2>6. s = [i \in 1 .. k |-> t[i]]
    BY <2>2, <2>4, <2>5
  <2>7. \A i \in 1 .. k : t[i] \in S
    BY <1>2, <2>5
  <2>8. QED
    BY <2>1, <2>6, <2>7
<1> HIDE DEF k
<1>4. \A i, j \in 1 .. m : i < j => Score(t[i], p) >= Score(t[j], p)
  BY <1>1, <1>2 DEF Sorted
<1>5. /\ DOMAIN s = 1 .. k
      /\ Len(s) = k
      /\ \A i \in 1 .. k : s[i] = t[i] /\ s[i] \in S
  BY <1>3
<1>6. ToSet(s) = {t[i] : i \in 1 .. k}
  BY <1>5 DEF ToSet
<1>7. Cardinality(ToSet(s)) = k
  <2>1. s \in Bijection(1 .. k, ToSet(s))
    BY <1>2, <1>3, <1>5, <1>6 DEF Bijection, Injection, Surjection, IsInjective
  <2>2. QED
    BY <2>1, <1>2, <1>3, FS_CountingElements DEF ExistsBijection
<1>8. ASSUME NEW o \in S \ ToSet(s)
      PROVE  \E l \in 1 .. m : l > k /\ t[l] = o
  BY <1>2, <1>3, <1>6, <1>8
<1>9. S \ ToSet(s) # {} => k = n
  BY <1>2, <1>3, <1>8
<1>10. ASSUME NEW i \in 1 .. k, NEW o \in S \ ToSet(s)
       PROVE  Score(o, p) <= Score(s[i], p)
  <2>1. PICK l \in 1 .. m : l > k /\ t[l] = o
    BY <1>8
  <2>2. i \in 1 .. m /\ i < l
    BY <2>1, <1>2, <1>3
  <2>3. Score(t[i], p) >= Score(t[l], p)
    BY <2>2, <1>4
  <2>4. QED
    BY <2>1, <2>3, <1>5
<1>11. ASSUME NEW i \in 1 .. k, NEW j \in 1 .. i - 1
       PROVE  Score(s[j], p) >= Score(s[i], p)
  <2>1. /\ j \in 1 .. m /\ i \in 1 .. m
        /\ j \in 1 .. k
        /\ j < i
    BY <1>2, <1>3
  <2>2. QED
    BY <2>1, <1>4, <1>5
<1>12. ToSet(s) \subseteq S
  BY <1>2, <1>3, <1>6
<1>13. QED
  BY <1>3, <1>5, <1>7, <1>9, <1>10, <1>11, <1>12

----------------------------------------------------------------------------
(* The wardrobe a request has read is one of those it lived through.       *)
WardrobeInv ==
  /\ completed \subseteq Catalogue
  /\ moments \subseteq SUBSET Catalogue
  /\ query \in Queries \cup {NoQuery}
  /\ query # NoQuery => completed \in moments
  /\ listed # NoList => query # NoQuery /\ listed \in moments

LEMMA WardrobeKept == Spec => []WardrobeInv
<1>1. Init => WardrobeInv
  BY DEF Init, WardrobeInv
<1>2. WardrobeInv /\ [Next]_vars => WardrobeInv'
  <2> SUFFICES ASSUME WardrobeInv, [Next]_vars
      PROVE  WardrobeInv'
    OBVIOUS
  <2> USE DEF WardrobeInv
  <2>1. ASSUME NEW wardrobe \in SUBSET Catalogue, RowsBecome(wardrobe)
        PROVE  WardrobeInv'
    BY <2>1 DEF RowsBecome
  <2>2. ASSUME NEW g \in Catalogue, Complete(g)
        PROVE  WardrobeInv'
    BY <2>1, <2>2 DEF Complete
  <2>3. ASSUME NEW g \in Catalogue, NEW h \in Catalogue, Reclassify(g, h)
        PROVE  WardrobeInv'
    BY <2>1, <2>3 DEF Reclassify
  <2>4. ASSUME NEW g \in Catalogue, Reprocess(g)
        PROVE  WardrobeInv'
    BY <2>1, <2>4 DEF Reprocess
  <2>5. ASSUME NEW p \in Preferences, SavePreferences(p)
        PROVE  WardrobeInv'
    BY <2>5 DEF SavePreferences
  <2>6. ASSUME NEW q \in Queries, Ask(q)
        PROVE  WardrobeInv'
    BY <2>6, WardrobeAssumption DEF Ask
  <2>7. CASE ListWardrobe
    BY <2>7 DEF ListWardrobe
  <2>8. CASE Recommend \/ LoadFails
    BY <2>8 DEF Recommend, LoadFails
  <2>9. CASE UNCHANGED vars
    BY <2>9 DEF vars
  <2> QED
    BY <2>2, <2>3, <2>4, <2>5, <2>6, <2>7, <2>8, <2>9 DEF Next
<1>3. QED
  BY <1>1, <1>2, PTL DEF Spec

LEMMA CandidatesFinite ==
  ASSUME NEW S \in SUBSET Catalogue, NEW q, NEW p
  PROVE  IsFiniteSet(Candidates(S, q, p))
<1> DEFINE worn(places) == Wearable(S, q, places)
<1>1. \A places : worn(places) \in SUBSET Catalogue
  BY DEF Wearable
<1>2. /\ IsFiniteSet(worn(Tops))
      /\ IsFiniteSet(worn(Bottoms))
      /\ IsFiniteSet(worn(Footwear))
  BY <1>1, WardrobeAssumption, FS_Subset
<1>3. IsFiniteSet(worn(Tops) \X worn(Bottoms) \X worn(Footwear))
  BY <1>2, TriplesFinite
<1>4. Candidates(S, q, p) \in SUBSET (worn(Tops) \X worn(Bottoms) \X worn(Footwear))
  BY DEF Candidates
<1>5. QED
  BY <1>3, <1>4, FS_Subset

(* A new answer comes from Recommend alone.                                *)
LEMMA AnswerIsRanked ==
  ASSUME WardrobeInv, [Next]_vars, shown = NoAnswer, shown' # NoAnswer
  PROVE  /\ listed \in moments
         /\ shown' \in Ranked(Candidates(listed, query, prefs), prefs, Limit(query))
         /\ IsFiniteSet(Candidates(listed, query, prefs))
         /\ Limit(query) \in Nat
<1>1. Recommend
  BY DEF Next, vars, RowsBecome, Complete, Reclassify, Reprocess, SavePreferences, Ask,
     ListWardrobe, LoadFails
<1>2. query \in Queries /\ listed \in moments /\ listed \in SUBSET Catalogue
  BY <1>1 DEF Recommend, WardrobeInv
<1>3. Limit(query) \in Nat
  BY <1>2, WardrobeAssumption DEF Limit
<1>4. QED
  BY <1>1, <1>2, <1>3, CandidatesFinite DEF Recommend

(* An answer shows the best outfits, each once and best first, of the      *)
(* wardrobe that the user had at one moment of the request, for the        *)
(* preferences of its end (GetRecommendations and the engine's Recommend), *)
(* however the rows change in between: for every wardrobe, preferences and *)
(* limit, and whatever the scores are.                                     *)
THEOREM BestShown == Spec => BestAreShown
<1>1. ASSUME WardrobeInv, [Next]_vars, shown = NoAnswer, shown' # NoAnswer
      PROVE  \E wardrobe \in moments : IsBest(shown', wardrobe, query, prefs)
  <2>1. IsBest(shown', listed, query, prefs)
    BY <1>1, AnswerIsRanked, RankedIsBest DEF IsBest
  <2>2. QED
    BY <1>1, <2>1, AnswerIsRanked
<1>2. QED
  BY <1>1, WardrobeKept, PTL DEF Spec, BestAreShown

----------------------------------------------------------------------------
(* The averages.  The sum of the community modules is a recursive function *)
(* over the subsets of a set; over at most three elements it is the sum.   *)
SumOf(F, P) == MapThenSumSet(LAMBDA x : F[x], P)

SumStep(F, P, g) ==
    g = [s \in SUBSET P |-> IF s = {} THEN 0
                            ELSE F[CHOOSE x \in s : TRUE] + g[s \ {CHOOSE x \in s : TRUE}]]

LEMMA SumUnfolds ==
  ASSUME NEW F, NEW P, NEW g, SumStep(F, P, g)
  PROVE  \E h : SumStep(F, P, h) /\ SumOf(F, P) = h[P]
BY DEF SumOf, SumStep, MapThenSumSet, MapThenFoldSet

Part(F, s, x) == IF x \in s THEN F[x] ELSE 0

LEMMA SumOfThree ==
  ASSUME NEW x, NEW y, NEW z, x # y, x # z, y # z, NEW P \in SUBSET {x, y, z},
         NEW F, \A e \in P : F[e] \in Int
  PROVE  SumOf(F, P) = Part(F, P, x) + Part(F, P, y) + Part(F, P, z)
<1> DEFINE total(s) == Part(F, s, x) + Part(F, s, y) + Part(F, s, z)
           g == [s \in SUBSET P |-> total(s)]
<1>1. ASSUME NEW s \in SUBSET P, s # {}, NEW e \in s
      PROVE  total(s) = F[e] + total(s \ {e})
  BY <1>1 DEF Part
<1>2. total({}) = 0
  BY DEF Part
<1>3. SumStep(F, P, g)
  <2>1. ASSUME NEW s \in SUBSET P
        PROVE  g[s] = IF s = {} THEN 0
                      ELSE F[CHOOSE e \in s : TRUE] + g[s \ {CHOOSE e \in s : TRUE}]
    BY <1>1, <1>2
  <2> QED
    BY <2>1 DEF SumStep
<1>4. PICK h : SumStep(F, P, h) /\ SumOf(F, P) = h[P]
  BY <1>3, SumUnfolds
<1>5. /\ h[{}] = 0
      /\ \A s \in SUBSET P : s # {} => \E e \in s : h[s] = F[e] + h[s \ {e}]
  <2>1. ASSUME NEW s \in SUBSET P, s # {}
        PROVE  \E e \in s : h[s] = F[e] + h[s \ {e}]
    <3>1. (CHOOSE e \in s : TRUE) \in s
      BY <2>1
    <3> QED
      BY <1>4, <2>1, <3>1 DEF SumStep
  <2> QED
    BY <1>4, <2>1 DEF SumStep
<1>6. \A e \in P : h[{e}] = F[e]
  <2>1. ASSUME NEW e \in P
        PROVE  h[{e}] = F[e]
    <3>1. h[{e}] = F[e] + h[{e} \ {e}] /\ {e} \ {e} = {}
      BY <1>5
    <3> QED
      BY <1>5, <3>1
  <2> QED
    BY <2>1
<1>7. \A d, e \in P : d # e => h[{d, e}] = F[d] + F[e]
  <2>1. ASSUME NEW d \in P, NEW e \in P, d # e
        PROVE  h[{d, e}] = F[d] + F[e]
    <3>1. {d, e} \ {d} = {e} /\ {d, e} \ {e} = {d} /\ {d, e} # {}
      BY <2>1
    <3>2. \E a \in {d, e} : h[{d, e}] = F[a] + h[{d, e} \ {a}]
      BY <1>5, <3>1
    <3>3. h[{d, e}] = F[d] + h[{e}] \/ h[{d, e}] = F[e] + h[{d}]
      BY <3>1, <3>2
    <3> QED
      BY <1>6, <3>3
  <2> QED
    BY <2>1
<1>8. CASE P = {x, y, z}
  <2>1. P \ {x} = {y, z} /\ P \ {y} = {x, z} /\ P \ {z} = {x, y} /\ P # {}
    BY <1>8
  <2>2. \/ h[P] = F[x] + h[{y, z}] \/ h[P] = F[y] + h[{x, z}] \/ h[P] = F[z] + h[{x, y}]
    <3>1. PICK e \in P : h[P] = F[e] + h[P \ {e}]
      BY <1>5, <2>1
    <3>2. e = x \/ e = y \/ e = z
      BY <1>8
    <3> QED
      BY <2>1, <3>1, <3>2
  <2>3. h[P] = F[x] + F[y] + F[z]
    BY <1>7, <1>8, <2>2
  <2> QED
    BY <1>4, <1>8, <2>3 DEF Part
<1>9. CASE P # {x, y, z}
  <2> SUFFICES h[P] = Part(F, P, x) + Part(F, P, y) + Part(F, P, z)
    BY <1>4
  <2>1. \/ P = {} \/ P = {x} \/ P = {y} \/ P = {z}
        \/ P = {x, y} \/ P = {x, z} \/ P = {y, z}
    BY <1>9
  <2>2. CASE P = {}
    BY <1>5, <2>2 DEF Part
  <2>3. CASE P = {x}
    <3>1. h[P] = F[x] /\ F[x] \in Int
      BY <1>6, <2>3
    <3> QED
      BY <2>3, <3>1 DEF Part
  <2>4. CASE P = {y}
    <3>1. h[P] = F[y] /\ F[y] \in Int
      BY <1>6, <2>4
    <3> QED
      BY <2>4, <3>1 DEF Part
  <2>5. CASE P = {z}
    <3>1. h[P] = F[z] /\ F[z] \in Int
      BY <1>6, <2>5
    <3> QED
      BY <2>5, <3>1 DEF Part
  <2>6. CASE P = {x, y}
    <3>1. h[P] = F[x] + F[y] /\ F[x] \in Int /\ F[y] \in Int
      BY <1>7, <2>6
    <3> QED
      BY <2>6, <3>1 DEF Part
  <2>7. CASE P = {x, z}
    <3>1. h[P] = F[x] + F[z] /\ F[x] \in Int /\ F[z] \in Int
      BY <1>7, <2>7
    <3> QED
      BY <2>7, <3>1 DEF Part
  <2>8. CASE P = {y, z}
    <3>1. h[P] = F[y] + F[z] /\ F[y] \in Int /\ F[z] \in Int
      BY <1>7, <2>8
    <3> QED
      BY <2>8, <3>1 DEF Part
  <2> QED
    BY <2>1, <2>2, <2>3, <2>4, <2>5, <2>6, <2>7, <2>8
<1> QED
  BY <1>8, <1>9

In(s, x) == IF x \in s THEN 1 ELSE 0

Among(P, x, y, z) == \A e \in P : e = x \/ e = y \/ e = z

LEMMA CountOfThree ==
  ASSUME NEW x, NEW y, NEW z, x # y, x # z, y # z, NEW P, Among(P, x, y, z)
  PROVE  Cardinality(P) = In(P, x) + In(P, y) + In(P, z)
<1> DEFINE Q == P \cap {x}
           R == P \cap {x, y}
<1>1. IsFiniteSet(Q) /\ Cardinality(Q) = In(P, x)
  <2>1. CASE x \in P
    <3>1. Q = {x}
      BY <2>1
    <3>2. IsFiniteSet({x}) /\ Cardinality({x}) = 1
      BY FS_Singleton
    <3> HIDE DEF Q
    <3> QED
      BY <2>1, <3>1, <3>2 DEF In
  <2>2. CASE x \notin P
    <3>1. Q = {}
      BY <2>2
    <3> QED
      BY <2>2, <3>1, FS_EmptySet DEF In
  <2> QED
    BY <2>1, <2>2
<1>2. IsFiniteSet(R) /\ Cardinality(R) = In(P, x) + In(P, y)
  <2>1. y \in P => R = Q \cup {y} /\ y \notin Q
    OBVIOUS
  <2>2. y \notin P => R = Q
    OBVIOUS
  <2> QED
    BY <1>1, <2>1, <2>2, FS_AddElement DEF In
<1>3. (z \in P => P = R \cup {z} /\ z \notin R) /\ (z \notin P => P = R)
  BY DEF Among
<1> HIDE DEF R
<1> QED
  BY <1>2, <1>3, FS_AddElement DEF In

LEMMA CountOfPlaces ==
  ASSUME NEW P \in SUBSET {1, 2, 3}
  PROVE  Cardinality(P) = In(P, 1) + In(P, 2) + In(P, 3)
<1>1. Among(P, 1, 2, 3)
  BY DEF Among
<1> QED
  BY <1>1, CountOfThree

(* The pairs of an outfit's places, and what an average over them is.      *)
LEMMA TriplePairs ==
  ASSUME NEW L \in SUBSET (1 .. 3)
  PROVE  /\ PairsOf(L) \in SUBSET {<<1, 2>>, <<1, 3>>, <<2, 3>>}
         /\ <<1, 2>> \in PairsOf(L) <=> 1 \in L /\ 2 \in L
         /\ <<1, 3>> \in PairsOf(L) <=> 1 \in L /\ 3 \in L
         /\ <<2, 3>> \in PairsOf(L) <=> 2 \in L /\ 3 \in L
<1>1. ASSUME NEW i \in L, NEW j \in L, i < j
      PROVE  <<i, j>> \in {<<1, 2>>, <<1, 3>>, <<2, 3>>}
  <2>1. (i = 1 /\ j = 2) \/ (i = 1 /\ j = 3) \/ (i = 2 /\ j = 3)
    BY <1>1
  <2> QED
    BY <2>1
<1>2. ASSUME NEW ij \in PairsOf(L)
      PROVE  \E i, j \in L : ij = <<i, j>> /\ i < j
  <2>1. ij \in L \X L /\ ij[1] < ij[2]
    BY DEF PairsOf
  <2>2. ij = <<ij[1], ij[2]>> /\ ij[1] \in L /\ ij[2] \in L
    BY <2>1
  <2> QED
    BY <2>1, <2>2
<1> QED
  BY <1>1, <1>2 DEF PairsOf

LEMMA AverageOfTriple ==
  ASSUME NEW L \in SUBSET (1 .. 3), NEW F, DOMAIN F = PairsOf(L),
         \A ij \in PairsOf(L) : F[ij] \in Int,
         NEW n, NEW v,
         n = In(PairsOf(L), <<1, 2>>) + In(PairsOf(L), <<1, 3>>) + In(PairsOf(L), <<2, 3>>),
         v = Part(F, PairsOf(L), <<1, 2>>) + Part(F, PairsOf(L), <<1, 3>>)
               + Part(F, PairsOf(L), <<2, 3>>)
  PROVE  AveragePairwise(F) = IF n = 0 THEN One ELSE (v * Hundredth) \div n
<1> DEFINE P == PairsOf(L)
<1>1. P \in SUBSET {<<1, 2>>, <<1, 3>>, <<2, 3>>}
  BY TriplePairs
<1>2. <<1, 2>> # <<1, 3>> /\ <<1, 2>> # <<2, 3>> /\ <<1, 3>> # <<2, 3>>
  OBVIOUS
<1>6. Among(P, <<1, 2>>, <<1, 3>>, <<2, 3>>)
  BY <1>1 DEF Among
<1> HIDE DEF P
<1>3. SumOf(F, P) = v /\ Cardinality(P) = n
  <2>1. SumOf(F, P) = v
    BY <1>1, <1>2, SumOfThree DEF P
  <2>2. Cardinality(P) = n
    BY <1>2, <1>6, CountOfThree DEF P
  <2> QED
    BY <2>1, <2>2
<1>4. P = {} <=> n = 0
  BY <1>1 DEF In, P
<1>5. AveragePairwise(F) = IF P = {} THEN One
                           ELSE (SumOf(F, P) * Hundredth) \div Cardinality(P)
  BY DEF AveragePairwise, SumOf, P
<1> QED
  BY <1>3, <1>4, <1>5

----------------------------------------------------------------------------
(* The tables.  All but the one of the seasons are symmetric.              *)
LEMMA ColorsSymmetric ==
  ASSUME NEW a, NEW b
  PROVE  ColorHarmony(a, b) = ColorHarmony(b, a) /\ ColorHarmony(a, b) \in Int
<1>1. {a, b} = {b, a}
  OBVIOUS
<1>2. Complementary(a, b) = Complementary(b, a)
  BY DEF Complementary, Complements
<1>3. Analogous(a, b) = Analogous(b, a)
  BY <1>1 DEF Analogous
<1>4. CASE Missing \in {a, b}
  BY <1>1, <1>4 DEF ColorHarmony
<1>5. CASE a = b /\ a # Missing
  BY <1>5 DEF ColorHarmony
<1>6. CASE a # b /\ Missing \notin {a, b}
  <2>1. ColorHarmony(a, b) = IF {a, b} \cap Neutrals # {} THEN 100
                             ELSE IF "multicolor" \in {a, b} THEN 70
                             ELSE IF Complementary(a, b) THEN 90
                             ELSE IF Analogous(a, b) THEN 85
                             ELSE 30
    BY <1>6 DEF ColorHarmony
  <2>2. ColorHarmony(b, a) = IF {b, a} \cap Neutrals # {} THEN 100
                             ELSE IF "multicolor" \in {b, a} THEN 70
                             ELSE IF Complementary(b, a) THEN 90
                             ELSE IF Analogous(b, a) THEN 85
                             ELSE 30
    BY <1>6 DEF ColorHarmony
  <2> QED
    BY <1>1, <1>2, <1>3, <2>1, <2>2
<1> QED
  BY <1>4, <1>5, <1>6

LEMMA OccasionsSymmetric ==
  ASSUME NEW a, NEW b
  PROVE  /\ OccasionCompatibility(a, b) = OccasionCompatibility(b, a)
         /\ OccasionCompatibility(a, b) \in Int
<1>1. DOMAIN OccasionTable = {"casual", "formal", "sport", "party", "outdoor", "beach"}
  BY DEF OccasionTable
<1>2. ASSUME NEW x \in DOMAIN OccasionTable, NEW y \in DOMAIN OccasionTable
      PROVE  OccasionTable[x][y] = OccasionTable[y][x] /\ OccasionTable[x][y] \in Int
  BY <1>1 DEF OccasionTable
<1> QED
  BY <1>2 DEF OccasionCompatibility

LEMMA MaterialsSymmetric ==
  ASSUME NEW a, NEW b
  PROVE  /\ MaterialCompatibility(a, b) = MaterialCompatibility(b, a)
         /\ MaterialCompatibility(a, b) \in Int
<1>1. DOMAIN MaterialTable = {"cotton", "denim", "leather", "silk", "wool", "polyester",
                              "linen", "suede"}
  BY DEF MaterialTable
<1>2. ASSUME NEW x \in DOMAIN MaterialTable, NEW y \in DOMAIN MaterialTable
      PROVE  MaterialTable[x][y] = MaterialTable[y][x] /\ MaterialTable[x][y] \in Int
  BY <1>1 DEF MaterialTable
<1> QED
  BY <1>2 DEF MaterialCompatibility

LEMMA SeasonsSymmetric ==
  ASSUME NEW a, NEW b, ~ ({"summer", "fall"} \subseteq {a, b})
  PROVE  SeasonCompatibility(a, b) = SeasonCompatibility(b, a)
<1>1. {a, b} = {b, a}
  OBVIOUS
<1>2. <<a, b>> \in SeasonAdjacency <=> <<b, a>> \in SeasonAdjacency
  BY DEF SeasonAdjacency
<1> QED
  BY <1>1, <1>2 DEF SeasonCompatibility

----------------------------------------------------------------------------
(* Closed forms of the six scores of three garments, in which no garment   *)
(* has a place of its own.                                                 *)
LEMMA TripleLabels ==
  ASSUME NEW a, NEW b, NEW c, NEW field
  PROVE  /\ Labelled(<<a, b, c>>, field) \in SUBSET (1 .. 3)
         /\ 1 \in Labelled(<<a, b, c>>, field) <=> a[field] # Missing
         /\ 2 \in Labelled(<<a, b, c>>, field) <=> b[field] # Missing
         /\ 3 \in Labelled(<<a, b, c>>, field) <=> c[field] # Missing
         /\ Labelled(<<a, b, c>>, field) = {} <=>
               a[field] = Missing /\ b[field] = Missing /\ c[field] = Missing
BY DEF Labelled

LEMMA ColorScoreOfTriple ==
  ASSUME NEW a, NEW b, NEW c
  PROVE  ColorScore(<<a, b, c>>) =
           ((ColorHarmony(a.color, b.color) + ColorHarmony(a.color, c.color)
               + ColorHarmony(b.color, c.color)) * Hundredth) \div 3
<1> DEFINE o == <<a, b, c>>
           F == [ij \in PairsOf(1 .. 3) |-> ColorHarmony(o[ij[1]].color, o[ij[2]].color)]
<1>1. /\ <<1, 2>> \in PairsOf(1 .. 3) /\ <<1, 3>> \in PairsOf(1 .. 3)
      /\ <<2, 3>> \in PairsOf(1 .. 3)
  BY TriplePairs
<1>2. /\ DOMAIN F = PairsOf(1 .. 3)
      /\ \A ij \in PairsOf(1 .. 3) : F[ij] \in Int
  BY ColorsSymmetric
<1>3. /\ F[<<1, 2>>] = ColorHarmony(a.color, b.color)
      /\ F[<<1, 3>>] = ColorHarmony(a.color, c.color)
      /\ F[<<2, 3>>] = ColorHarmony(b.color, c.color)
  BY <1>1
<1>4. ColorScore(o) = AveragePairwise(F)
  BY DEF ColorScore
<1> HIDE DEF F
<1>5. AveragePairwise(F) =
        ((F[<<1, 2>>] + F[<<1, 3>>] + F[<<2, 3>>]) * Hundredth) \div 3
  BY <1>1, <1>2, AverageOfTriple DEF In, Part
<1> QED
  BY <1>3, <1>4, <1>5

(* A pair counts when both of its labels are known.                        *)
Both(x, y) == IF Missing \in {x, y} THEN 0 ELSE 1

MaterialPart(x, y) == IF Missing \in {x, y} THEN 0 ELSE MaterialCompatibility(x, y)

MaterialAverage(n, v) == IF n = 0 THEN One ELSE (v * Hundredth) \div n

LEMMA MaterialScoreOfTriple ==
  ASSUME NEW a, NEW b, NEW c,
         NEW x, NEW y, NEW z, x = a.material, y = b.material, z = c.material
  PROVE  MaterialScore(<<a, b, c>>) =
           IF x = Missing /\ y = Missing /\ z = Missing THEN 70 * Hundredth
           ELSE MaterialAverage(Both(x, y) + Both(x, z) + Both(y, z),
                  MaterialPart(x, y) + MaterialPart(x, z) + MaterialPart(y, z))
<1> DEFINE o == <<a, b, c>>
           L == Labelled(o, "material")
           F == [ij \in PairsOf(L) |->
                    MaterialCompatibility(o[ij[1]].material, o[ij[2]].material)]
<1>1. /\ L \in SUBSET (1 .. 3)
      /\ 1 \in L <=> x # Missing
      /\ 2 \in L <=> y # Missing
      /\ 3 \in L <=> z # Missing
      /\ L = {} <=> x = Missing /\ y = Missing /\ z = Missing
  BY TripleLabels
<1>2. MaterialScore(o) = IF L = {} THEN 70 * Hundredth ELSE AveragePairwise(F)
  BY DEF MaterialScore
<1> HIDE DEF L
<1>3. DOMAIN F = PairsOf(L) /\ \A ij \in PairsOf(L) : F[ij] \in Int
  BY MaterialsSymmetric
<1>4. /\ <<1, 2>> \in PairsOf(L) => F[<<1, 2>>] = MaterialCompatibility(x, y)
      /\ <<1, 3>> \in PairsOf(L) => F[<<1, 3>>] = MaterialCompatibility(x, z)
      /\ <<2, 3>> \in PairsOf(L) => F[<<2, 3>>] = MaterialCompatibility(y, z)
  OBVIOUS
<1> HIDE DEF F
<1>5. /\ In(PairsOf(L), <<1, 2>>) = Both(x, y)
      /\ In(PairsOf(L), <<1, 3>>) = Both(x, z)
      /\ In(PairsOf(L), <<2, 3>>) = Both(y, z)
  BY <1>1, TriplePairs DEF In, Both
<1>6. /\ Part(F, PairsOf(L), <<1, 2>>) = MaterialPart(x, y)
      /\ Part(F, PairsOf(L), <<1, 3>>) = MaterialPart(x, z)
      /\ Part(F, PairsOf(L), <<2, 3>>) = MaterialPart(y, z)
  BY <1>1, <1>4, TriplePairs DEF Part, MaterialPart
<1>7. AveragePairwise(F) =
        MaterialAverage(Both(x, y) + Both(x, z) + Both(y, z),
          MaterialPart(x, y) + MaterialPart(x, z) + MaterialPart(y, z))
  <2> DEFINE n == In(PairsOf(L), <<1, 2>>) + In(PairsOf(L), <<1, 3>>)
                    + In(PairsOf(L), <<2, 3>>)
             v == Part(F, PairsOf(L), <<1, 2>>) + Part(F, PairsOf(L), <<1, 3>>)
                    + Part(F, PairsOf(L), <<2, 3>>)
  <2>1. AveragePairwise(F) = IF n = 0 THEN One ELSE (v * Hundredth) \div n
    BY <1>1, <1>3, AverageOfTriple
  <2>2. n = Both(x, y) + Both(x, z) + Both(y, z)
    BY <1>5
  <2>3. v = MaterialPart(x, y) + MaterialPart(x, z) + MaterialPart(y, z)
    BY <1>6
  <2> HIDE DEF n, v
  <2> QED
    BY <2>1, <2>2, <2>3 DEF MaterialAverage
<1> QED
  BY <1>1, <1>2, <1>7

SeasonPart(x, y) == IF Missing \in {x, y} THEN {} ELSE {SeasonCompatibility(x, y)}

LEMMA SeasonScoreOfTriple ==
  ASSUME NEW a, NEW b, NEW c,
         NEW x, NEW y, NEW z, x = a.season, y = b.season, z = c.season
  PROVE  SeasonScore(<<a, b, c>>) =
           IF x = Missing /\ y = Missing /\ z = Missing THEN 70 * Hundredth
           ELSE Min({100} \cup SeasonPart(x, y) \cup SeasonPart(x, z)
                      \cup SeasonPart(y, z)) * Hundredth
<1> DEFINE o == <<a, b, c>>
           L == Labelled(o, "season")
           F == [ij \in PairsOf(L) |->
                    SeasonCompatibility(o[ij[1]].season, o[ij[2]].season)]
<1>1. /\ L \in SUBSET (1 .. 3)
      /\ 1 \in L <=> x # Missing
      /\ 2 \in L <=> y # Missing
      /\ 3 \in L <=> z # Missing
      /\ L = {} <=> x = Missing /\ y = Missing /\ z = Missing
  BY TripleLabels
<1>2. SeasonScore(o) = IF L = {} THEN 70 * Hundredth ELSE MinPairwise(F)
  BY DEF SeasonScore
<1> HIDE DEF L
<1>3. DOMAIN F = PairsOf(L)
  OBVIOUS
<1>4. /\ <<1, 2>> \in PairsOf(L) => F[<<1, 2>>] = SeasonCompatibility(x, y)
      /\ <<1, 3>> \in PairsOf(L) => F[<<1, 3>>] = SeasonCompatibility(x, z)
      /\ <<2, 3>> \in PairsOf(L) => F[<<2, 3>>] = SeasonCompatibility(y, z)
  OBVIOUS
<1> HIDE DEF F
<1>5. {F[ij] : ij \in PairsOf(L)} = SeasonPart(x, y) \cup SeasonPart(x, z) \cup SeasonPart(y, z)
  BY <1>1, <1>4, TriplePairs DEF SeasonPart
<1>6. {100} \cup {F[ij] : ij \in DOMAIN F} =
        {100} \cup SeasonPart(x, y) \cup SeasonPart(x, z) \cup SeasonPart(y, z)
  BY <1>3, <1>5
<1> QED
  BY <1>1, <1>2, <1>6 DEF MinPairwise

OccasionPart(x, y) == IF Missing \in {x, y} THEN {} ELSE {OccasionCompatibility(x, y)}

LEMMA OccasionScoreOfTriple ==
  ASSUME NEW a, NEW b, NEW c,
         NEW x, NEW y, NEW z, x = a.occasion, y = b.occasion, z = c.occasion
  PROVE  OccasionScore(<<a, b, c>>) =
           IF x = Missing /\ y = Missing /\ z = Missing THEN 70 * Hundredth
           ELSE Min({100} \cup OccasionPart(x, y) \cup OccasionPart(x, z)
                      \cup OccasionPart(y, z)) * Hundredth
<1> DEFINE o == <<a, b, c>>
           L == Labelled(o, "occasion")
           F == [ij \in PairsOf(L) |->
                    OccasionCompatibility(o[ij[1]].occasion, o[ij[2]].occasion)]
<1>1. /\ L \in SUBSET (1 .. 3)
      /\ 1 \in L <=> x # Missing
      /\ 2 \in L <=> y # Missing
      /\ 3 \in L <=> z # Missing
      /\ L = {} <=> x = Missing /\ y = Missing /\ z = Missing
  BY TripleLabels
<1>2. OccasionScore(o) = IF L = {} THEN 70 * Hundredth ELSE MinPairwise(F)
  BY DEF OccasionScore
<1> HIDE DEF L
<1>3. DOMAIN F = PairsOf(L)
  OBVIOUS
<1>4. /\ <<1, 2>> \in PairsOf(L) => F[<<1, 2>>] = OccasionCompatibility(x, y)
      /\ <<1, 3>> \in PairsOf(L) => F[<<1, 3>>] = OccasionCompatibility(x, z)
      /\ <<2, 3>> \in PairsOf(L) => F[<<2, 3>>] = OccasionCompatibility(y, z)
  OBVIOUS
<1> HIDE DEF F
<1>5. {F[ij] : ij \in PairsOf(L)} = OccasionPart(x, y) \cup OccasionPart(x, z) \cup OccasionPart(y, z)
  BY <1>1, <1>4, TriplePairs DEF OccasionPart
<1>6. {100} \cup {F[ij] : ij \in DOMAIN F} =
        {100} \cup OccasionPart(x, y) \cup OccasionPart(x, z) \cup OccasionPart(y, z)
  BY <1>3, <1>5
<1> QED
  BY <1>1, <1>2, <1>6 DEF MinPairwise

IsPatterned(g) == IF g.pattern \in Patterned THEN 1 ELSE 0

LEMMA PatternScoreOfTriple ==
  ASSUME NEW a, NEW b, NEW c
  PROVE  PatternScore(<<a, b, c>>) =
           IF a.pattern = Missing /\ b.pattern = Missing /\ c.pattern = Missing
             THEN 80 * Hundredth
           ELSE IF IsPatterned(a) + IsPatterned(b) + IsPatterned(c) <= 1 THEN One
           ELSE 30 * Hundredth
<1> DEFINE o == <<a, b, c>>
           P == {i \in DOMAIN o : o[i].pattern \in Patterned}
<1>1. /\ P \in SUBSET {1, 2, 3}
      /\ 1 \in P <=> a.pattern \in Patterned
      /\ 2 \in P <=> b.pattern \in Patterned
      /\ 3 \in P <=> c.pattern \in Patterned
  OBVIOUS
<1>2. (\A i \in DOMAIN o : o[i].pattern = Missing) <=>
        a.pattern = Missing /\ b.pattern = Missing /\ c.pattern = Missing
  OBVIOUS
<1>3. PatternScore(o) = IF \A i \in DOMAIN o : o[i].pattern = Missing THEN 80 * Hundredth
                        ELSE IF Cardinality(P) <= 1 THEN One ELSE 30 * Hundredth
  BY DEF PatternScore
<1> HIDE DEF P
<1>4. Cardinality(P) = IsPatterned(a) + IsPatterned(b) + IsPatterned(c)
  BY <1>1, CountOfPlaces DEF In, IsPatterned
<1> QED
  BY <1>2, <1>3, <1>4

(* What one garment adds to the checks and to the hits of the preferences. *)
Counts(g, field, wanted) == IF wanted = {} \/ g[field] = Missing THEN 0 ELSE 1

Hits(g, field, wanted, good) ==
  IF wanted = {} \/ g[field] = Missing \/ g[field] \notin good THEN 0 ELSE 1

LEMMA LabelledCounts ==
  ASSUME NEW a, NEW b, NEW c, NEW field, NEW wanted, NEW good,
         NEW asked, asked = IF wanted = {} THEN {} ELSE Labelled(<<a, b, c>>, field)
  PROVE  /\ Cardinality(asked) =
              Counts(a, field, wanted) + Counts(b, field, wanted) + Counts(c, field, wanted)
         /\ Cardinality({i \in asked : <<a, b, c>>[i][field] \in good}) =
              Hits(a, field, wanted, good) + Hits(b, field, wanted, good)
                + Hits(c, field, wanted, good)
<1> DEFINE o == <<a, b, c>>
           liked == {i \in asked : o[i][field] \in good}
<1>1. /\ asked \in SUBSET {1, 2, 3}
      /\ 1 \in asked <=> wanted # {} /\ a[field] # Missing
      /\ 2 \in asked <=> wanted # {} /\ b[field] # Missing
      /\ 3 \in asked <=> wanted # {} /\ c[field] # Missing
  BY TripleLabels
<1>2. Cardinality(asked) = In(asked, 1) + In(asked, 2) + In(asked, 3)
  BY <1>1, CountOfPlaces
<1>3. /\ liked \in SUBSET {1, 2, 3}
      /\ 1 \in liked <=> 1 \in asked /\ a[field] \in good
      /\ 2 \in liked <=> 2 \in asked /\ b[field] \in good
      /\ 3 \in liked <=> 3 \in asked /\ c[field] \in good
  BY <1>1
<1> HIDE DEF liked
<1>4. Cardinality(liked) = In(liked, 1) + In(liked, 2) + In(liked, 3)
  BY <1>3, CountOfPlaces
<1>5. Cardinality(liked) = Hits(a, field, wanted, good) + Hits(b, field, wanted, good)
                             + Hits(c, field, wanted, good)
  BY <1>1, <1>3, <1>4 DEF In, Hits
<1> QED
  BY <1>1, <1>2, <1>5 DEF In, Counts, liked

Checked(g, p) == Counts(g, "color", p.colors) + Counts(g, "season", p.seasons)
                   + Counts(g, "occasion", p.occasions)

Liked(g, p) == Hits(g, "color", p.colors, p.colors)
                 + Hits(g, "season", p.seasons, p.seasons \cup {"all_season"})
                 + Hits(g, "occasion", p.occasions, p.occasions)

LEMMA PreferenceScoreOfTriple ==
  ASSUME NEW a, NEW b, NEW c, NEW p
  PROVE  PreferenceScore(<<a, b, c>>, p) =
           IF Checked(a, p) + Checked(b, p) + Checked(c, p) = 0 THEN 70 * Hundredth
           ELSE ((Liked(a, p) + Liked(b, p) + Liked(c, p)) * One)
                  \div (Checked(a, p) + Checked(b, p) + Checked(c, p))
<1> DEFINE o == <<a, b, c>>
           asked(field, wanted) == IF wanted = {} THEN {} ELSE Labelled(o, field)
           liked(field, wanted, good) == {i \in asked(field, wanted) : o[i][field] \in good}
           checks == Cardinality(asked("color", p.colors))
                       + Cardinality(asked("season", p.seasons))
                       + Cardinality(asked("occasion", p.occasions))
           hits == Cardinality(liked("color", p.colors, p.colors))
                     + Cardinality(liked("season", p.seasons, p.seasons \cup {"all_season"}))
                     + Cardinality(liked("occasion", p.occasions, p.occasions))
<1>1. PreferenceScore(o, p) = IF checks = 0 THEN 70 * Hundredth ELSE (hits * One) \div checks
  BY DEF PreferenceScore
<1>2. ASSUME NEW field, NEW wanted, NEW good
      PROVE  /\ Cardinality(asked(field, wanted)) =
                  Counts(a, field, wanted) + Counts(b, field, wanted) + Counts(c, field, wanted)
             /\ Cardinality(liked(field, wanted, good)) =
                  Hits(a, field, wanted, good) + Hits(b, field, wanted, good)
                    + Hits(c, field, wanted, good)
  BY LabelledCounts
<1> HIDE DEF asked, liked
<1>3. ASSUME NEW g, NEW field, NEW wanted, NEW good
      PROVE  Counts(g, field, wanted) \in Int /\ Hits(g, field, wanted, good) \in Int
  BY DEF Counts, Hits
<1>4. checks = Checked(a, p) + Checked(b, p) + Checked(c, p)
  <2>1. ASSUME NEW field, NEW wanted
        PROVE  /\ Cardinality(asked(field, wanted)) =
                    Counts(a, field, wanted) + Counts(b, field, wanted)
                      + Counts(c, field, wanted)
               /\ \A g : Counts(g, field, wanted) \in Int
    BY <1>2, <1>3
  <2> QED
    BY <2>1 DEF Checked
<1>5. hits = Liked(a, p) + Liked(b, p) + Liked(c, p)
  BY <1>2, <1>3 DEF Liked
<1> HIDE DEF checks, hits
<1> QED
  BY <1>1, <1>4, <1>5

----------------------------------------------------------------------------
(* Wearing the same garments in other places: two swaps make every order.  *)
LEMMA PreferenceCountsAreIntegers ==
  ASSUME NEW g, NEW p
  PROVE  Checked(g, p) \in Int /\ Liked(g, p) \in Int
<1>1. \A field, wanted, good : /\ Counts(g, field, wanted) \in Int
                              /\ Hits(g, field, wanted, good) \in Int
  BY DEF Counts, Hits
<1> QED
  BY <1>1 DEF Checked, Liked

LEMMA PartsSymmetric ==
  ASSUME NEW x, NEW y
  PROVE  /\ Both(x, y) = Both(y, x) /\ Both(x, y) \in Int
         /\ MaterialPart(x, y) = MaterialPart(y, x) /\ MaterialPart(x, y) \in Int
         /\ OccasionPart(x, y) = OccasionPart(y, x)
         /\ ~ ({"summer", "fall"} \subseteq {x, y}) => SeasonPart(x, y) = SeasonPart(y, x)
<1>1. Missing \in {x, y} <=> Missing \in {y, x}
  OBVIOUS
<1>2. Both(x, y) = Both(y, x) /\ Both(x, y) \in Int
  BY <1>1 DEF Both
<1>3. MaterialPart(x, y) = MaterialPart(y, x) /\ MaterialPart(x, y) \in Int
  BY <1>1, MaterialsSymmetric DEF MaterialPart
<1>4. OccasionPart(x, y) = OccasionPart(y, x)
  BY <1>1, OccasionsSymmetric DEF OccasionPart
<1>5. ~ ({"summer", "fall"} \subseteq {x, y}) => SeasonPart(x, y) = SeasonPart(y, x)
  BY <1>1, SeasonsSymmetric DEF SeasonPart
<1> QED
  BY <1>2, <1>3, <1>4, <1>5

(* The top and the bottom change places.                                   *)
LEMMA FirstTwoSwap ==
  ASSUME NEW a, NEW b, NEW c, NEW p,
         ~ ({"summer", "fall"} \subseteq {a.season, b.season, c.season})
  PROVE  Score(<<a, b, c>>, p) = Score(<<b, a, c>>, p)
<1>1. ColorScore(<<a, b, c>>) = ColorScore(<<b, a, c>>)
  BY ColorScoreOfTriple, ColorsSymmetric
<1>2. SeasonScore(<<a, b, c>>) = SeasonScore(<<b, a, c>>)
  <2> DEFINE x == a.season
             y == b.season
             z == c.season
  <2>1. SeasonPart(x, y) = SeasonPart(y, x)
    BY PartsSymmetric
  <2> DEFINE S == {100} \cup SeasonPart(x, y) \cup SeasonPart(x, z) \cup SeasonPart(y, z)
             T == {100} \cup SeasonPart(y, x) \cup SeasonPart(y, z) \cup SeasonPart(x, z)
  <2>2. S = T
    BY <2>1
  <2>3. /\ SeasonScore(<<a, b, c>>) = IF x = Missing /\ y = Missing /\ z = Missing
                                     THEN 70 * Hundredth ELSE Min(S) * Hundredth
        /\ SeasonScore(<<b, a, c>>) = IF x = Missing /\ y = Missing /\ z = Missing
                                     THEN 70 * Hundredth ELSE Min(T) * Hundredth
    BY SeasonScoreOfTriple
  <2> HIDE DEF S, T
  <2> QED
    BY <2>2, <2>3
<1>3. OccasionScore(<<a, b, c>>) = OccasionScore(<<b, a, c>>)
  <2> DEFINE x == a.occasion
             y == b.occasion
             z == c.occasion
  <2>1. OccasionPart(x, y) = OccasionPart(y, x)
    BY PartsSymmetric
  <2> DEFINE S == {100} \cup OccasionPart(x, y) \cup OccasionPart(x, z) \cup OccasionPart(y, z)
             T == {100} \cup OccasionPart(y, x) \cup OccasionPart(y, z) \cup OccasionPart(x, z)
  <2>2. S = T
    BY <2>1
  <2>3. /\ OccasionScore(<<a, b, c>>) = IF x = Missing /\ y = Missing /\ z = Missing
                                     THEN 70 * Hundredth ELSE Min(S) * Hundredth
        /\ OccasionScore(<<b, a, c>>) = IF x = Missing /\ y = Missing /\ z = Missing
                                     THEN 70 * Hundredth ELSE Min(T) * Hundredth
    BY OccasionScoreOfTriple
  <2> HIDE DEF S, T
  <2> QED
    BY <2>2, <2>3
<1>4. MaterialScore(<<a, b, c>>) = MaterialScore(<<b, a, c>>)
  <2> DEFINE x == a.material
             y == b.material
             z == c.material
  <2>1. /\ Both(x, y) + Both(x, z) + Both(y, z) =
             Both(y, x) + Both(y, z) + Both(x, z)
        /\ MaterialPart(x, y) + MaterialPart(x, z) + MaterialPart(y, z) =
             MaterialPart(y, x) + MaterialPart(y, z) + MaterialPart(x, z)
    BY PartsSymmetric
  <2> QED
    BY <2>1, MaterialScoreOfTriple
<1>5. PatternScore(<<a, b, c>>) = PatternScore(<<b, a, c>>)
  <2>1. \A g : IsPatterned(g) \in Int
    BY DEF IsPatterned
  <2>2. IsPatterned(a) + IsPatterned(b) + IsPatterned(c) =
          IsPatterned(b) + IsPatterned(a) + IsPatterned(c)
    BY <2>1
  <2> QED
    BY <2>2, PatternScoreOfTriple
<1>6. PreferenceScore(<<a, b, c>>, p) = PreferenceScore(<<b, a, c>>, p)
  <2>1. /\ Checked(a, p) + Checked(b, p) + Checked(c, p) =
             Checked(b, p) + Checked(a, p) + Checked(c, p)
        /\ Liked(a, p) + Liked(b, p) + Liked(c, p) =
             Liked(b, p) + Liked(a, p) + Liked(c, p)
    BY PreferenceCountsAreIntegers
  <2> QED
    BY <2>1, PreferenceScoreOfTriple
<1> QED
  BY <1>1, <1>2, <1>3, <1>4, <1>5, <1>6 DEF Score

(* The bottom and the footwear change places.                              *)
LEMMA LastTwoSwap ==
  ASSUME NEW a, NEW b, NEW c, NEW p,
         ~ ({"summer", "fall"} \subseteq {a.season, b.season, c.season})
  PROVE  Score(<<a, b, c>>, p) = Score(<<a, c, b>>, p)
<1>1. ColorScore(<<a, b, c>>) = ColorScore(<<a, c, b>>)
  BY ColorScoreOfTriple, ColorsSymmetric
<1>2. SeasonScore(<<a, b, c>>) = SeasonScore(<<a, c, b>>)
  <2> DEFINE x == a.season
             y == b.season
             z == c.season
  <2>1. SeasonPart(y, z) = SeasonPart(z, y)
    BY PartsSymmetric
  <2> DEFINE S == {100} \cup SeasonPart(x, y) \cup SeasonPart(x, z) \cup SeasonPart(y, z)
             T == {100} \cup SeasonPart(x, z) \cup SeasonPart(x, y) \cup SeasonPart(z, y)
  <2>2. S = T
    BY <2>1
  <2>3. /\ SeasonScore(<<a, b, c>>) = IF x = Missing /\ y = Missing /\ z = Missing
                                     THEN 70 * Hundredth ELSE Min(S) * Hundredth
        /\ SeasonScore(<<a, c, b>>) = IF x = Missing /\ y = Missing /\ z = Missing
                                     THEN 70 * Hundredth ELSE Min(T) * Hundredth
    BY SeasonScoreOfTriple
  <2> HIDE DEF S, T
  <2> QED
    BY <2>2, <2>3
<1>3. OccasionScore(<<a, b, c>>) = OccasionScore(<<a, c, b>>)
  <2> DEFINE x == a.occasion
             y == b.occasion
             z == c.occasion
  <2>1. OccasionPart(y, z) = OccasionPart(z, y)
    BY PartsSymmetric
  <2> DEFINE S == {100} \cup OccasionPart(x, y) \cup OccasionPart(x, z) \cup OccasionPart(y, z)
             T == {100} \cup OccasionPart(x, z) \cup OccasionPart(x, y) \cup OccasionPart(z, y)
  <2>2. S = T
    BY <2>1
  <2>3. /\ OccasionScore(<<a, b, c>>) = IF x = Missing /\ y = Missing /\ z = Missing
                                     THEN 70 * Hundredth ELSE Min(S) * Hundredth
        /\ OccasionScore(<<a, c, b>>) = IF x = Missing /\ y = Missing /\ z = Missing
                                     THEN 70 * Hundredth ELSE Min(T) * Hundredth
    BY OccasionScoreOfTriple
  <2> HIDE DEF S, T
  <2> QED
    BY <2>2, <2>3
<1>4. MaterialScore(<<a, b, c>>) = MaterialScore(<<a, c, b>>)
  <2> DEFINE x == a.material
             y == b.material
             z == c.material
  <2>1. /\ Both(x, y) + Both(x, z) + Both(y, z) =
             Both(x, z) + Both(x, y) + Both(z, y)
        /\ MaterialPart(x, y) + MaterialPart(x, z) + MaterialPart(y, z) =
             MaterialPart(x, z) + MaterialPart(x, y) + MaterialPart(z, y)
    BY PartsSymmetric
  <2> QED
    BY <2>1, MaterialScoreOfTriple
<1>5. PatternScore(<<a, b, c>>) = PatternScore(<<a, c, b>>)
  <2>1. \A g : IsPatterned(g) \in Int
    BY DEF IsPatterned
  <2>2. IsPatterned(a) + IsPatterned(b) + IsPatterned(c) =
          IsPatterned(a) + IsPatterned(c) + IsPatterned(b)
    BY <2>1
  <2> QED
    BY <2>2, PatternScoreOfTriple
<1>6. PreferenceScore(<<a, b, c>>, p) = PreferenceScore(<<a, c, b>>, p)
  <2>1. /\ Checked(a, p) + Checked(b, p) + Checked(c, p) =
             Checked(a, p) + Checked(c, p) + Checked(b, p)
        /\ Liked(a, p) + Liked(b, p) + Liked(c, p) =
             Liked(a, p) + Liked(c, p) + Liked(b, p)
    BY PreferenceCountsAreIntegers
  <2> QED
    BY <2>1, PreferenceScoreOfTriple
<1> QED
  BY <1>1, <1>2, <1>3, <1>4, <1>5, <1>6 DEF Score

(* Whatever the outfit and the preferences, the garments of an outfit score*)
(* the same in every order, unless a summer garment is combined with a fall*)
(* one (scoreOutfit; seasonAdjacency lists fall for summer and not summer  *)
(* for fall): the closed forms of the other five scores are symmetric.     *)
THEOREM PlacesMatter == Spec => []PlacesMatterOnlyForSeasons
<1>1. ASSUME NEW a, NEW b, NEW c, NEW p,
             ~ ({"summer", "fall"} \subseteq {a.season, b.season, c.season})
      PROVE  /\ Score(<<a, b, c>>, p) = Score(<<b, a, c>>, p)
             /\ Score(<<a, b, c>>, p) = Score(<<c, a, b>>, p)
  <2>1. Score(<<a, b, c>>, p) = Score(<<b, a, c>>, p)
    BY <1>1, FirstTwoSwap
  <2>2. Score(<<a, b, c>>, p) = Score(<<a, c, b>>, p)
    BY <1>1, LastTwoSwap
  <2>3. ~ ({"summer", "fall"} \subseteq {a.season, c.season, b.season})
    BY <1>1
  <2>4. Score(<<a, c, b>>, p) = Score(<<c, a, b>>, p)
    BY <2>3, FirstTwoSwap
  <2> QED
    BY <2>1, <2>2, <2>4
<1>2. PlacesMatterOnlyForSeasons
  BY <1>1 DEF PlacesMatterOnlyForSeasons
<1> QED
  BY <1>2, PTL

============================================================================
