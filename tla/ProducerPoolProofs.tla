------------------------- MODULE ProducerPoolProofs -------------------------
(***************************************************************************)
(* Proofs about ProducerPool, for any number of requests and topics and    *)
(* any limit on the requests in flight.                                    *)
(***************************************************************************)
EXTENDS ProducerPool, FiniteSetTheorems, TLAPS

LEMMA InitType == Init => TypeOK
BY PoolAssumption DEF Init, TypeOK, Points

LEMMA TypeStep == TypeOK /\ [Next]_vars => TypeOK'
<1> SUFFICES ASSUME TypeOK, [Next]_vars
    PROVE  TypeOK'
  OBVIOUS
<1> USE DEF TypeOK, Points, Goto
<1>1. ASSUME NEW r \in Requests,
             \/ Begin(r) \/ Lookup(r) \/ BeginAssign(r) \/ MapAccessDies(r)
      PROVE  TypeOK'
  BY <1>1 DEF Begin, Lookup, BeginAssign, MapAccessDies
<1>2. ASSUME NEW r \in Requests, CreateWriter(r)
      PROVE  TypeOK'
  BY <1>2 DEF CreateWriter
<1>3. ASSUME NEW r \in Requests, EndAssign(r)
      PROVE  TypeOK'
  BY <1>3 DEF EndAssign
<1>4. ASSUME NEW r \in Requests, Write(r)
      PROVE  TypeOK'
  BY <1>4 DEF Write
<1>5. CASE UNCHANGED vars
  BY <1>5 DEF vars
<1> QED
  BY <1>1, <1>2, <1>3, <1>4, <1>5 DEF Next

----------------------------------------------------------------------------
(* The requests between the lookup that found no writer for t and the end  *)
(* of their assignment, and those that made a writer for t or will.        *)
Contenders(t) ==
    {r \in Requests : topic[r] = t /\ pc[r] \in {"create", "assign", "assigning"}}

Makers(t) == made[t] \cup {r \in Requests : topic[r] = t /\ pc[r] = "create"}

(* As long as the map has no writer for t every maker is still in flight;  *)
(* from the first assignment on there are no new makers.                   *)
PoolInv ==
    /\ IsFiniteSet(InFlight) /\ Cardinality(InFlight) <= MaxInFlight
    /\ \A t \in Topics :
          /\ IsFiniteSet(Makers(t)) /\ Cardinality(Makers(t)) <= MaxInFlight
          /\ writers[t] = NoWriter => Makers(t) \subseteq Contenders(t)

(* A part of a set of at most MaxInFlight requests has as few.             *)
LEMMA FewEnough ==
    ASSUME NEW S, NEW T, T \subseteq S, IsFiniteSet(S), Cardinality(S) <= MaxInFlight
    PROVE  IsFiniteSet(T) /\ Cardinality(T) <= MaxInFlight
<1>1. IsFiniteSet(T) /\ Cardinality(T) <= Cardinality(S)
  BY FS_Subset
<1>2. Cardinality(T) \in Nat /\ Cardinality(S) \in Nat
  BY <1>1, FS_CardinalityType
<1> QED
  BY <1>1, <1>2, PoolAssumption

LEMMA InFlightStep ==
    ASSUME TypeOK, PoolInv, Next
    PROVE  IsFiniteSet(InFlight') /\ Cardinality(InFlight') <= MaxInFlight
<1>1. ASSUME NEW r \in Requests, Begin(r)
      PROVE  IsFiniteSet(InFlight') /\ Cardinality(InFlight') <= MaxInFlight
  <2>1. InFlight' = InFlight \cup {r}
    BY <1>1 DEF Begin, InFlight, Goto, TypeOK
  <2>2. r \notin InFlight
    BY <1>1 DEF Begin, InFlight
  <2>3. IsFiniteSet(InFlight') /\ Cardinality(InFlight') = Cardinality(InFlight) + 1
    BY <2>1, <2>2, FS_AddElement DEF PoolInv
  <2>4. Cardinality(InFlight) \in Nat
    BY FS_CardinalityType DEF PoolInv
  <2> QED
    BY <1>1, <2>3, <2>4, PoolAssumption DEF Begin
<1>2. CASE \A r \in Requests : ~ Begin(r)
  <2>1. InFlight' \subseteq InFlight
    BY <1>2 DEF Next, Lookup, CreateWriter, BeginAssign, EndAssign, MapAccessDies, Write,
       InFlight, Goto, TypeOK
  <2> QED
    BY <2>1, FewEnough DEF PoolInv
<1> QED
  BY <1>1, <1>2

(* The makers of t after a step of r.                                      *)
LEMMA MakersStep ==
    ASSUME TypeOK, PoolInv, Next, NEW t \in Topics
    PROVE  \/ Makers(t)' = Makers(t)
           \/ writers[t] = NoWriter /\ writers'[t] = NoWriter
<1> USE DEF TypeOK, Goto, Makers
<1>1. ASSUME NEW r \in Requests, Lookup(r)
      PROVE  \/ Makers(t)' = Makers(t)
             \/ writers[t] = NoWriter /\ writers'[t] = NoWriter
  <2>1. CASE writers[t] = NoWriter
    BY <1>1, <2>1 DEF Lookup
  <2>2. CASE writers[t] # NoWriter
    BY <1>1, <2>2 DEF Lookup
  <2> QED
    BY <2>1, <2>2
<1>2. ASSUME NEW r \in Requests, CreateWriter(r)
      PROVE  Makers(t)' = Makers(t)
  BY <1>2 DEF CreateWriter
<1>3. ASSUME NEW r \in Requests, Begin(r) \/ BeginAssign(r) \/ EndAssign(r)
      PROVE  Makers(t)' = Makers(t)
  BY <1>3 DEF Begin, BeginAssign, EndAssign
<1>4. ASSUME NEW r \in Requests, MapAccessDies(r)
      PROVE  Makers(t)' = Makers(t)
  BY <1>4 DEF MapAccessDies
<1>5. ASSUME NEW r \in Requests, Write(r)
      PROVE  Makers(t)' = Makers(t)
  BY <1>5 DEF Write
<1> QED
  BY <1>1, <1>2, <1>3, <1>4, <1>5 DEF Next

LEMMA ContendersStep ==
    ASSUME TypeOK, PoolInv, Next, NEW t \in Topics, writers'[t] = NoWriter
    PROVE  Makers(t)' \subseteq Contenders(t)'
<1> USE PoolAssumption DEF TypeOK, Goto, Makers, Contenders
<1>1. writers[t] = NoWriter
  BY DEF Next, Begin, Lookup, CreateWriter, BeginAssign, EndAssign, MapAccessDies, Write
<1>2. Makers(t) \subseteq Contenders(t)
  BY <1>1 DEF PoolInv
<1>3. ASSUME NEW r \in Requests, EndAssign(r)
      PROVE  Makers(t)' \subseteq Contenders(t)'
  <2>1. topic[r] # t
    BY <1>3 DEF EndAssign
  <2> QED
    BY <1>2, <1>3, <2>1 DEF EndAssign
<1>4. ASSUME NEW r \in Requests, CreateWriter(r)
      PROVE  Makers(t)' \subseteq Contenders(t)'
  BY <1>2, <1>4 DEF CreateWriter
<1>5. ASSUME NEW r \in Requests, Begin(r) \/ Lookup(r) \/ BeginAssign(r)
      PROVE  Makers(t)' \subseteq Contenders(t)'
  BY <1>2, <1>5 DEF Begin, Lookup, BeginAssign
<1>6. ASSUME NEW r \in Requests, MapAccessDies(r)
      PROVE  Makers(t)' \subseteq Contenders(t)'
  BY <1>2, <1>6 DEF MapAccessDies
<1>7. ASSUME NEW r \in Requests, Write(r)
      PROVE  Makers(t)' \subseteq Contenders(t)'
  BY <1>2, <1>7 DEF Write
<1> QED
  BY <1>3, <1>4, <1>5, <1>6, <1>7 DEF Next

LEMMA PoolStep == TypeOK /\ PoolInv /\ [Next]_vars => PoolInv'
<1> SUFFICES ASSUME TypeOK, PoolInv, [Next]_vars
    PROVE  PoolInv'
  OBVIOUS
<1>1. CASE UNCHANGED vars
  BY <1>1 DEF vars, PoolInv, InFlight, Makers, Contenders
<1>2. CASE Next
  <2>1. ASSUME NEW t \in Topics
        PROVE  /\ IsFiniteSet(Makers(t)') /\ Cardinality(Makers(t)') <= MaxInFlight
               /\ writers'[t] = NoWriter => Makers(t)' \subseteq Contenders(t)'
    <3>1. CASE Makers(t)' = Makers(t)
      BY <1>2, <3>1, ContendersStep DEF PoolInv
    <3>2. CASE writers'[t] = NoWriter
      <4>1. Makers(t)' \subseteq Contenders(t)'
        BY <1>2, <3>2, ContendersStep
      <4>2. Makers(t)' \subseteq InFlight'
        BY <4>1 DEF Contenders, InFlight
      <4> QED
        BY <1>2, <4>1, <4>2, InFlightStep, FewEnough
    <3> QED
      BY <1>2, <3>1, <3>2, MakersStep
  <2> QED
    BY <1>2, <2>1, InFlightStep DEF PoolInv
<1> QED
  BY <1>1, <1>2

(* However many goroutines race for a topic's first writer, it gets at     *)
(* most as many writers as the server has requests in flight.              *)
THEOREM WritersBounded == Spec => []WritersAreBounded
<1>1. Init => PoolInv
  <2> SUFFICES ASSUME Init
      PROVE  PoolInv
    OBVIOUS
  <2>1. InFlight = {} /\ \A t \in Topics : Makers(t) = {}
    BY DEF Init, InFlight, Makers
  <2>2. IsFiniteSet({}) /\ Cardinality({}) = 0
    BY FS_EmptySet
  <2> QED
    BY <2>1, <2>2, PoolAssumption DEF PoolInv
<1>2. TypeOK /\ PoolInv => WritersAreBounded
  <2> SUFFICES ASSUME TypeOK, PoolInv, NEW t \in Topics
      PROVE  Cardinality(made[t]) <= MaxInFlight
    BY DEF WritersAreBounded
  <2>1. made[t] \subseteq Makers(t)
    BY DEF Makers
  <2> QED
    BY <2>1, FewEnough DEF PoolInv
<1> QED
  BY <1>1, <1>2, InitType, TypeStep, PoolStep, PTL DEF Spec

=============================================================================
