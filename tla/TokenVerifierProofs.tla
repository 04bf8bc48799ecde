------------------------ MODULE TokenVerifierProofs -------------------------
(***************************************************************************)
(* Proofs about TokenVerifier, for any number of clients, threads and      *)
(* attempts, and any behaviour of Keycloak.                                *)
(***************************************************************************)
EXTENDS TokenVerifier, SequenceTheorems, FiniteSetTheorems, TLAPS

(* A request waits in the backlog once.                                    *)
Backlogged ==
    /\ \A i \in 1 .. Len(backlog) : pc[backlog[i]] = "queued"
    /\ \A i, j \in 1 .. Len(backlog) : backlog[i] = backlog[j] => i = j

(* Who holds the lock is in the loop, and has found no client.             *)
LockHeld ==
    /\ \A c \in Callers : pc[c] = "discover" <=> lock = c
    /\ lock # NoCaller => client = NoCaller

(* Before the server serves there is only the main thread, which does not  *)
(* call the verifier unless start-up is strict.                            *)
Booting ==
    /\ phase # "serving" => backlog = << >> /\ \A r \in Requests : pc[r] = "idle"
    /\ phase = "down" => pc[Main] = "idle"
    /\ ~ strict => pc[Main] \in {"bootstrap", "idle"}

(* With strict start-up the main thread went on only with a client, so     *)
(* whoever is served finds one and does not discover.                      *)
StrictStart ==
    strict => /\ pc[Main] = "proceed" \/ phase = "serving" => client # NoCaller
              /\ \A r \in Requests : pc[r] # "discover"

IInv == TypeOK /\ Backlogged /\ LockHeld /\ Booting /\ ClientHasIssuer /\ StrictStart

LEMMA AttemptsPositive == Attempts \in Nat \ {0}
BY VerifierAssumption DEF Attempts

LEMMA InitInv == Init => IInv
<1> SUFFICES ASSUME Init
    PROVE  IInv
  OBVIOUS
<1> USE VerifierAssumption DEF Init
<1>1. TypeOK
  <2>1. pc \in [Callers -> Points]
    BY DEF Points
  <2>2. kind \in [Requests -> Kinds] /\ waited \in [Requests -> Nat]
    BY DEF Kinds
  <2>5. fetched \in [Requests -> Nat]
    OBVIOUS
  <2>3. tries \in 0 .. Attempts - 1
    BY AttemptsPositive
  <2>4. issuer \in BOOLEAN /\ keys \in BOOLEAN /\ strict \in BOOLEAN /\ reachable \in BOOLEAN
    BY Zenon
  <2> QED
    BY <2>1, <2>2, <2>3, <2>4, <2>5 DEF TypeOK
<1>2. LockHeld /\ ClientHasIssuer /\ StrictStart
  BY DEF LockHeld, ClientHasIssuer, StrictStart, Callers
<1>3. Booting /\ Backlogged
  BY DEF Booting, Backlogged, Callers
<1> QED
  BY <1>1, <1>2, <1>3 DEF IInv

----------------------------------------------------------------------------
(* Steps of the verifier: the caller was not in the backlog and the        *)
(* backlog stays as it is.                                                 *)
LEMMA BacklogKept ==
    ASSUME TypeOK, Backlogged, NEW c \in Callers, NEW point \in Points,
           pc[c] # "queued", Goto(c, point), UNCHANGED backlog
    PROVE  Backlogged'
<1> USE DEF TypeOK, Backlogged, Goto, Callers
<1>1. ASSUME NEW i \in 1 .. Len(backlog)
      PROVE  pc'[backlog[i]] = "queued"
  <2>1. backlog[i] \in Requests /\ pc[backlog[i]] = "queued"
    OBVIOUS
  <2> QED
    BY <2>1
<1> QED
  BY <1>1

LEMMA OneMoreCounts ==
    ASSUME TypeOK
    PROVE  OneMore(waited) \in [Requests -> Nat] /\ OneMore(fetched) \in [Requests -> Nat]
BY DEF TypeOK, OneMore

LEMMA EnterStep ==
    ASSUME IInv, NEW c \in Callers, EnterBootstrap(c)
    PROVE  IInv'
<1> USE VerifierAssumption, AttemptsPositive DEF IInv, EnterBootstrap, serverVars, waits
<1>1. PICK point \in {"keys", "proceed", "discover"} :
          /\ Goto(c, point)
          /\ c = Main => point # "keys"
  BY DEF Bootstrapped
<1>2. TypeOK'
  BY <1>1 DEF TypeOK, Goto, Points
<1>3. Backlogged'
  BY <1>1, BacklogKept DEF Points
<1>4. LockHeld'
  BY DEF LockHeld, TypeOK, Goto, Callers, Bootstrapped
<1>5. Booting' /\ ClientHasIssuer'
  BY <1>1 DEF Booting, ClientHasIssuer, TypeOK, Goto, Callers, Calls
<1>6. StrictStart'
  BY DEF StrictStart, Booting, TypeOK, Goto, Callers, Calls, Bootstrapped
<1> QED
  BY <1>2, <1>3, <1>4, <1>5, <1>6

LEMMA SucceedStep ==
    ASSUME IInv, NEW c \in Callers, DiscoverSucceeds(c)
    PROVE  IInv'
<1> USE VerifierAssumption, AttemptsPositive DEF IInv, DiscoverSucceeds, serverVars
<1>1. PICK point \in {"keys", "proceed"} : Goto(c, point)
  BY DEF Bootstrapped
<1>2. TypeOK'
  <2>1. waited' \in [Requests -> Nat] /\ fetched' = fetched
    BY OneMoreCounts DEF AttemptPasses
  <2>2. pc' \in [Callers -> Points]
    BY <1>1 DEF TypeOK, Goto, Points
  <2>3. strict' \in BOOLEAN /\ reachable' \in BOOLEAN /\ issuer' \in BOOLEAN /\ keys' \in BOOLEAN
    BY Zenon DEF TypeOK
  <2>4. tries' \in 0 .. Attempts - 1
    BY DEF TypeOK
  <2> QED
    BY <2>1, <2>2, <2>3, <2>4 DEF TypeOK
<1>3. Backlogged'
  BY <1>1, BacklogKept DEF Points
<1>4. LockHeld'
  BY <1>1 DEF LockHeld, TypeOK, Goto, Callers
<1>5. Booting' /\ ClientHasIssuer'
  BY <1>1 DEF Booting, ClientHasIssuer, TypeOK, Goto, Callers
<1>6. StrictStart'
  BY <1>1 DEF StrictStart, TypeOK, Goto, Callers
<1> QED
  BY <1>2, <1>3, <1>4, <1>5, <1>6

LEMMA FailStep ==
    ASSUME IInv, NEW c \in Callers, DiscoverFails(c)
    PROVE  IInv'
<1> USE VerifierAssumption, AttemptsPositive DEF IInv, serverVars
<1>1. /\ pc[c] = "discover"
      /\ UNCHANGED <<serverVars, client, keys, kind, backlog>>
  BY DEF DiscoverFails
<1>2. issuer' \in BOOLEAN /\ (issuer => issuer')
  <2>1. CASE issuer' = TRUE
    BY <2>1
  <2>2. CASE UNCHANGED issuer
    BY <2>2 DEF TypeOK
  <2> QED
    BY <2>1, <2>2 DEF DiscoverFails
<1>3. CASE tries + 1 < Attempts
  <2>1. tries' = tries + 1 /\ UNCHANGED <<lock, pc>>
    BY <1>3 DEF DiscoverFails
  <2>2. TypeOK'
    <3>1. waited' \in [Requests -> Nat] /\ fetched' \in [Requests -> Nat]
      BY OneMoreCounts DEF DiscoverFails, AttemptPasses, TypeOK
    <3> QED
      BY <1>1, <1>3, <1>2, <2>1, <3>1 DEF TypeOK
  <2>3. ClientHasIssuer'
    BY <1>1, <1>2 DEF ClientHasIssuer
  <2> QED
    BY <1>1, <2>1, <2>2, <2>3 DEF Backlogged, LockHeld, Booting, StrictStart
<1>4. CASE ~ (tries + 1 < Attempts)
  <2>1. tries' = 0 /\ lock' = NoCaller /\ Goto(c, "failed")
    BY <1>4 DEF DiscoverFails
  <2>2. TypeOK'
    <3>1. waited' \in [Requests -> Nat] /\ fetched' \in [Requests -> Nat]
      BY OneMoreCounts DEF DiscoverFails, AttemptPasses, TypeOK
    <3> QED
      BY <1>1, <1>2, <2>1, <3>1 DEF TypeOK, Goto, Points
  <2>3. Backlogged'
    BY <1>1, <2>1, BacklogKept DEF Points
  <2>4. ClientHasIssuer'
    BY <1>1, <1>2 DEF ClientHasIssuer
  <2>5. LockHeld' /\ Booting' /\ StrictStart'
    BY <1>1, <2>1 DEF LockHeld, Booting, StrictStart, TypeOK, Goto, Callers
  <2> QED
    BY <2>2, <2>3, <2>4, <2>5
<1> QED
  BY <1>3, <1>4

(* The lookup of a key: requests that hold no lock move on.                *)
LEMMA KeyStep ==
    ASSUME IInv, NEW r \in Requests, LookUpKey(r) \/ FetchKeys(r) \/ RefreshKeys(r)
    PROVE  IInv'
<1> USE VerifierAssumption DEF IInv
<1>1. /\ UNCHANGED <<strict, phase, reachable, issuer, client, lock, tries, kind, backlog>>
      /\ pc[r] \in {"keys", "refresh"}
  BY DEF LookUpKey, FetchKeys, RefreshKeys, serverVars, verifierVars
<1>2. PICK point \in {"refresh", "proceed", "failed"} : Goto(r, point)
  BY DEF LookUpKey, FetchKeys, RefreshKeys
<1>3. TypeOK'
  <2>1. waited' \in [Requests -> Nat] /\ fetched' \in [Requests -> Nat]
    <3>1. waited' = waited /\ (fetched' = fetched \/ fetched' = OneMore(fetched))
      BY DEF LookUpKey, FetchKeys, RefreshKeys, FetchPasses, waits
    <3>2. waited \in [Requests -> Nat] /\ fetched \in [Requests -> Nat]
      BY DEF TypeOK
    <3> QED
      BY <3>1, <3>2, OneMoreCounts
  <2>2. keys' \in BOOLEAN
    BY Zenon DEF LookUpKey, FetchKeys, RefreshKeys, verifierVars, TypeOK
  <2>3. pc' \in [Callers -> Points]
    BY <1>2 DEF TypeOK, Goto, Points
  <2> QED
    BY <1>1, <2>1, <2>2, <2>3 DEF TypeOK
<1>4. Backlogged'
  BY <1>1, <1>2, BacklogKept DEF Points, Callers
<1>5. LockHeld' /\ Booting' /\ ClientHasIssuer' /\ StrictStart'
  BY <1>1, <1>2 DEF LockHeld, Booting, ClientHasIssuer, StrictStart, TypeOK, Goto, Callers
<1> QED
  BY <1>3, <1>4, <1>5

----------------------------------------------------------------------------
(* Steps of the server.                                                    *)
LEMMA SendStep ==
    ASSUME IInv, NEW r \in Requests, NEW k \in Kinds, Send(r, k)
    PROVE  IInv'
<1> USE VerifierAssumption DEF IInv, Send, serverVars, verifierVars, waits
<1>1. TypeOK'
  BY DEF TypeOK, Goto, Points, Callers
<1>2. Backlogged'
  <2>1. /\ Len(backlog') = Len(backlog) + 1
        /\ \A i \in 1 .. Len(backlog) : backlog'[i] = backlog[i]
        /\ backlog'[Len(backlog) + 1] = r
        /\ Len(backlog) \in Nat
    BY DEF TypeOK
  <2>2. \A i \in 1 .. Len(backlog) : backlog[i] \in Requests /\ backlog[i] # r
    BY DEF Backlogged, TypeOK
  <2>3. pc'[r] = "queued" /\ \A q \in Requests : q # r => pc'[q] = pc[q]
    BY DEF TypeOK, Goto, Callers
  <2>4. \A i \in 1 .. Len(backlog') : i \in 1 .. Len(backlog) \/ i = Len(backlog) + 1
    BY <2>1
  <2> QED
    BY <2>1, <2>2, <2>3, <2>4 DEF Backlogged
<1>3. LockHeld' /\ Booting' /\ ClientHasIssuer' /\ StrictStart'
  BY DEF LockHeld, Booting, ClientHasIssuer, StrictStart, TypeOK, Goto, Callers
<1> QED
  BY <1>1, <1>2, <1>3

LEMMA TakeStep ==
    ASSUME IInv, NEW r \in Requests, TakeRequest(r)
    PROVE  IInv'
<1> USE VerifierAssumption DEF IInv, TakeRequest, serverVars, verifierVars, waits
<1>1. /\ Len(backlog) \in Nat \ {0}
      /\ backlog' \in Seq(Requests)
      /\ Len(backlog') = Len(backlog) - 1
      /\ \A i \in 1 .. Len(backlog') : backlog'[i] = backlog[i + 1]
      /\ backlog[1] = r
  BY DEF TypeOK
<1>2. pc[r] = "queued" /\ phase = "serving"
  BY <1>1 DEF Backlogged, Booting
<1>3. \E point \in {"bootstrap", "proceed"} : Goto(r, point)
  OBVIOUS
<1>4. TypeOK'
  BY <1>1, <1>3 DEF TypeOK, Goto, Points, Callers
<1>5. Backlogged'
  <2>1. \A i \in 1 .. Len(backlog') : i + 1 \in 1 .. Len(backlog) /\ i + 1 # 1
    BY <1>1
  <2>2. \A i \in 1 .. Len(backlog') : backlog'[i] # r /\ backlog'[i] \in Requests
    BY <1>1, <2>1 DEF Backlogged, TypeOK
  <2>3. \A q \in Requests : q # r => pc'[q] = pc[q]
    BY <1>3 DEF TypeOK, Goto, Callers
  <2>4. \A i \in 1 .. Len(backlog') : pc'[backlog'[i]] = "queued"
    BY <1>1, <2>1, <2>2, <2>3 DEF Backlogged
  <2>5. \A i, j \in 1 .. Len(backlog') : backlog'[i] = backlog'[j] => i = j
    BY <1>1, <2>1 DEF Backlogged
  <2> QED
    BY <2>4, <2>5 DEF Backlogged
<1>6. LockHeld' /\ Booting' /\ ClientHasIssuer' /\ StrictStart'
  BY <1>2, <1>3 DEF LockHeld, Booting, ClientHasIssuer, StrictStart, TypeOK, Goto, Callers
<1> QED
  BY <1>4, <1>5, <1>6

LEMMA RespondStep ==
    ASSUME IInv, NEW r \in Requests, Respond(r)
    PROVE  IInv'
<1> USE VerifierAssumption DEF IInv, Respond, serverVars, verifierVars, waits
<1>1. TypeOK'
  BY DEF TypeOK, Goto, Points, Callers
<1>2. Backlogged'
  BY BacklogKept DEF Points, Goto, Callers
<1>3. LockHeld' /\ Booting' /\ ClientHasIssuer' /\ StrictStart'
  BY DEF LockHeld, Booting, ClientHasIssuer, StrictStart, TypeOK, Goto, Callers
<1> QED
  BY <1>1, <1>2, <1>3

(* create_app returns or raises, gunicorn starts again, Keycloak changes,  *)
(* the cached keys run out.                                                *)
LEMMA BootStep ==
    ASSUME IInv, StartServing \/ StartFails \/ Restart \/ KeycloakChanges \/ KeysExpire
    PROVE  IInv'
<1> USE VerifierAssumption DEF IInv, StartServing, StartFails, Restart, KeycloakChanges,
        KeysExpire, serverVars, verifierVars, waits
<1>1. TypeOK'
  BY DEF TypeOK, Goto, Points, Callers
<1>2. Backlogged'
  <2>1. CASE KeycloakChanges \/ KeysExpire
    BY <2>1 DEF Backlogged
  <2>2. CASE ~ (KeycloakChanges \/ KeysExpire)
    <3>1. backlog = << >> /\ UNCHANGED backlog
      BY <2>2 DEF Booting
    <3> QED
      BY <3>1 DEF Backlogged
  <2> QED
    BY <2>1, <2>2
<1>3. LockHeld'
  <2>1. phase # "serving" => \A r \in Requests : lock # r
    BY DEF LockHeld, Booting, Callers
  <2> QED
    BY <2>1 DEF LockHeld, Booting, TypeOK, Goto, Callers
<1>4. Booting' /\ ClientHasIssuer' /\ StrictStart'
  BY DEF Booting, ClientHasIssuer, StrictStart, TypeOK, Goto, Callers
<1> QED
  BY <1>1, <1>2, <1>3, <1>4

LEMMA NextInv == IInv /\ [Next]_vars => IInv'
<1> SUFFICES ASSUME IInv, [Next]_vars
    PROVE  IInv'
  OBVIOUS
<1>1. CASE UNCHANGED vars
  BY <1>1 DEF vars, serverVars, verifierVars, waits, IInv, TypeOK, Backlogged, LockHeld,
     Booting, ClientHasIssuer, StrictStart
<1> QED
  BY <1>1, EnterStep, SucceedStep, FailStep, KeyStep, SendStep, TakeStep, RespondStep, BootStep
     DEF Next

LEMMA Invariance == Spec => []IInv
BY InitInv, NextInv, PTL DEF Spec

----------------------------------------------------------------------------
(* Type correctness: tries stays below the attempts that are configured,   *)
(* even if none are.                                                       *)
THEOREM TypeCorrect == Spec => []TypeOK
BY Invariance, PTL DEF IInv

(* However attempts fail, a client is never without the issuer.            *)
THEOREM ClientNeedsIssuer == Spec => []ClientHasIssuer
BY Invariance, PTL DEF IInv

(* However many threads wait for the lock, the client that the first of    *)
(* them made is never replaced.                                            *)
THEOREM DiscoveredOnce == Spec => ClientIsKept
<1>1. IInv /\ [Next]_vars => [client # NoCaller /\ phase # "down" => client' = client]_vars
  <2> SUFFICES ASSUME IInv, Next, client # NoCaller, phase # "down"
      PROVE  client' = client
    OBVIOUS
  <2>1. ASSUME NEW c \in Callers, DiscoverSucceeds(c)
        PROVE  FALSE
    BY <2>1, VerifierAssumption DEF DiscoverSucceeds, IInv, LockHeld, Callers
  <2> QED
    BY <2>1 DEF Next, EnterBootstrap, DiscoverFails, Send, TakeRequest, Respond,
       LookUpKey, FetchKeys, RefreshKeys, StartServing, StartFails, Restart,
       KeycloakChanges, KeysExpire, verifierVars
<1> QED
  BY <1>1, Invariance, PTL DEF Spec, ClientIsKept

----------------------------------------------------------------------------
(* How long a probe waits.  In front of a queued request are the requests  *)
(* that have a thread and may still call Keycloak, and those before it in  *)
(* the backlog; whoever comes later stands behind it.  A request passes    *)
(* the loop of discovery once, and fetches keys once in each of "keys" and *)
(* "refresh".                                                              *)
LoopPoints == {"bootstrap", "discover"}
KeyPoints == LoopPoints \cup {"keys"}
RefreshPoints == KeyPoints \cup {"refresh"}
Stages == {LoopPoints, KeyPoints, RefreshPoints}

Before(r) == {q \in Requests : \E i, j \in 1 .. Len(backlog) :
                                  i < j /\ backlog[i] = q /\ backlog[j] = r}

InFront(r, stage) == {q \in Requests : pc[q] \in stage} \cup Before(r)

(* While requests wait only requests discover, nobody has counted attempts *)
(* without the lock, and all who wait stand in the backlog.                *)
Queueing ==
    /\ phase = "serving" => pc[Main] = "idle"
    /\ lock = NoCaller => tries = 0
    /\ \A r \in Requests : pc[r] = "queued" => \E i \in 1 .. Len(backlog) : backlog[i] = r

(* Each request in front of r may cost it the attempts of one discovery,   *)
(* less those that the holder of the lock has made already; and two        *)
(* fetches, less those that it has made.                                   *)
Others == Cardinality(Requests) - 1

Bound == Attempts * Others

WaitInv ==
    \A r \in Requests :
        /\ waited[r] <= Bound
        /\ pc[r] = "queued" =>
              waited[r] + Attempts * Cardinality(InFront(r, LoopPoints)) <= Bound + tries

FetchInv ==
    \A r \in Requests :
        /\ fetched[r] <= KeyFetches * Others
        /\ pc[r] = "queued" =>
              fetched[r] + Cardinality(InFront(r, KeyPoints))
                + Cardinality(InFront(r, RefreshPoints)) <= KeyFetches * Others

LEMMA OthersCount ==
    ASSUME NEW r \in Requests
    PROVE  /\ Others \in Nat /\ Bound \in Nat /\ KeyFetches * Others \in Nat
           /\ IsFiniteSet(Requests \ {r}) /\ Cardinality(Requests \ {r}) = Others
<1>1. Cardinality(Requests) \in Nat /\ Cardinality(Requests) # 0
  BY VerifierAssumption, FS_CardinalityType, FS_EmptySet
<1>2. \A a, n \in Nat : a * n \in Nat
  OBVIOUS
<1>3. IsFiniteSet(Requests \ {r}) /\ Cardinality(Requests \ {r}) = Others
  BY VerifierAssumption, FS_RemoveElement DEF Others
<1>4. Others \in Nat
  BY <1>1 DEF Others
<1> QED
  BY <1>2, <1>3, <1>4, AttemptsPositive DEF Bound, KeyFetches

LEMMA FrontCounts ==
    ASSUME NEW r \in Requests, NEW stage \in Stages
    PROVE  /\ IsFiniteSet(InFront(r, stage)) /\ Cardinality(InFront(r, stage)) \in Nat
           /\ IsFiniteSet(InFront(r, stage)') /\ Cardinality(InFront(r, stage)') \in Nat
<1>1. InFront(r, stage) \in SUBSET Requests /\ InFront(r, stage)' \in SUBSET Requests
  BY DEF InFront, Before
<1> QED
  BY <1>1, VerifierAssumption, FS_Subset, FS_CardinalityType

(* A part of a finite set is no larger, and smaller if it lacks an element.*)
LEMMA PartIsSmaller ==
    ASSUME NEW S, IsFiniteSet(S), NEW T \in SUBSET S
    PROVE  /\ Cardinality(T) <= Cardinality(S)
           /\ \A c \in S \ T : Cardinality(T) <= Cardinality(S) - 1
<1>1. Cardinality(T) <= Cardinality(S)
  BY FS_Subset
<1>2. ASSUME NEW c \in S \ T
      PROVE  Cardinality(T) <= Cardinality(S) - 1
  <2>1. IsFiniteSet(S \ {c}) /\ Cardinality(S \ {c}) = Cardinality(S) - 1
    BY FS_RemoveElement
  <2>2. T \in SUBSET (S \ {c})
    OBVIOUS
  <2> QED
    BY <2>1, <2>2, FS_Subset
<1> QED
  BY <1>1, <1>2

----------------------------------------------------------------------------
(* What the steps do to the places of the requests.                        *)
Arrival == \E r \in Requests, k \in Kinds : Send(r, k)
Departure == \E r \in Requests : TakeRequest(r)

(* All other steps keep the backlog, and no request goes back to a point   *)
(* from which it may call Keycloak again.                                  *)
Forward ==
    /\ UNCHANGED backlog
    /\ \A q \in Requests :
          /\ pc'[q] = "queued" <=> pc[q] = "queued"
          /\ \A stage \in Stages : pc'[q] \in stage => pc[q] \in stage

LEMMA MoveForward ==
    ASSUME TypeOK, NEW c \in Callers, NEW point \in Points \ {"queued"}, Goto(c, point),
           pc[c] # "queued", \A stage \in Stages : point \in stage => pc[c] \in stage,
           UNCHANGED backlog
    PROVE  Forward
<1>1. pc'[c] = point /\ \A q \in Requests : q # c => pc'[q] = pc[q]
  BY DEF TypeOK, Goto, Callers
<1> QED
  BY <1>1 DEF Forward

LEMMA OnlyForward ==
    ASSUME IInv, [Next]_vars, ~ Arrival, ~ Departure
    PROVE  Forward
<1> USE DEF IInv
<1>1. ASSUME NEW c \in Callers, NEW from \in {"bootstrap", "discover", "keys", "refresh"},
             NEW point \in {"keys", "refresh", "proceed", "failed", "discover"},
             pc[c] = from, Goto(c, point), UNCHANGED backlog,
             from = "keys" => point \in {"refresh", "proceed", "failed"},
             from = "refresh" => point \in {"proceed", "failed"}
      PROVE  Forward
  <2>1. \A stage \in Stages : point \in stage => pc[c] \in stage
    BY <1>1 DEF Stages, LoopPoints, KeyPoints, RefreshPoints
  <2> QED
    BY <1>1, <2>1, MoveForward DEF Points
<1>2. ASSUME NEW c \in Callers, EnterBootstrap(c)
      PROVE  Forward
  BY <1>1, <1>2 DEF EnterBootstrap, Bootstrapped
<1>3. ASSUME NEW c \in Callers, DiscoverSucceeds(c)
      PROVE  Forward
  BY <1>1, <1>3 DEF DiscoverSucceeds, Bootstrapped
<1>4. ASSUME NEW c \in Callers, DiscoverFails(c)
      PROVE  Forward
  <2>1. CASE UNCHANGED pc
    BY <1>4, <2>1 DEF DiscoverFails, Forward
  <2>2. CASE Goto(c, "failed")
    BY <1>1, <1>4, <2>2 DEF DiscoverFails
  <2> QED
    BY <1>4, <2>1, <2>2 DEF DiscoverFails
<1>5. ASSUME NEW r \in Requests, LookUpKey(r) \/ FetchKeys(r)
      PROVE  Forward
  BY <1>1, <1>5 DEF LookUpKey, FetchKeys, Callers
<1>6. ASSUME NEW r \in Requests, RefreshKeys(r)
      PROVE  Forward
  BY <1>1, <1>6 DEF RefreshKeys, Callers
<1>7. ASSUME NEW r \in Requests, Respond(r)
      PROVE  Forward
  BY <1>7, MoveForward DEF Respond, Points, Callers, Stages, LoopPoints, KeyPoints,
     RefreshPoints
<1>8. ASSUME StartServing \/ StartFails \/ Restart \/ KeycloakChanges \/ KeysExpire \/ UNCHANGED vars
      PROVE  Forward
  <2>1. UNCHANGED backlog
    BY <1>8 DEF StartServing, StartFails, Restart, KeycloakChanges, KeysExpire, vars
  <2>2. \A q \in Requests : pc'[q] = pc[q]
    BY <1>8, VerifierAssumption DEF StartServing, StartFails, Restart, KeycloakChanges,
       KeysExpire, vars, TypeOK, Goto, Callers
  <2> QED
    BY <2>1, <2>2 DEF Forward
<1> QED
  BY <1>2, <1>3, <1>4, <1>5, <1>6, <1>7, <1>8 DEF Next, Arrival, Departure

(* A request that is accepted stands behind all others.                    *)
LEMMA ArrivalLast ==
    ASSUME IInv, NEW r \in Requests, NEW k \in Kinds, Send(r, k)
    PROVE  /\ pc[r] = "idle" /\ pc'[r] = "queued"
           /\ \A q \in Requests \ {r} : pc'[q] = pc[q]
           /\ \E i \in 1 .. Len(backlog') : backlog'[i] = r
           /\ \A i \in 1 .. Len(backlog) : i \in 1 .. Len(backlog') /\ backlog'[i] = backlog[i]
           /\ \A q \in Requests \ {r} : Before(q)' \subseteq Before(q)
           /\ r \notin Before(r)'
<1>1. /\ pc[r] = "idle" /\ pc' = [pc EXCEPT ![r] = "queued"]
      /\ backlog' = Append(backlog, r)
  BY DEF Send, Goto
<1>2. /\ Len(backlog) \in Nat /\ Len(backlog') = Len(backlog) + 1
      /\ \A i \in 1 .. Len(backlog) : backlog'[i] = backlog[i] /\ backlog[i] \in Requests
      /\ backlog'[Len(backlog) + 1] = r
      /\ \A i \in 1 .. Len(backlog') : i \in 1 .. Len(backlog) \/ i = Len(backlog) + 1
  BY <1>1 DEF IInv, TypeOK
<1>3. \A i \in 1 .. Len(backlog) : backlog[i] # r
  BY <1>1 DEF IInv, Backlogged
<1>4. ASSUME NEW i \in 1 .. Len(backlog'), NEW j \in 1 .. Len(backlog'), i < j
      PROVE  /\ i \in 1 .. Len(backlog) /\ backlog'[i] = backlog[i] /\ backlog'[i] # r
             /\ backlog'[j] # r => j \in 1 .. Len(backlog) /\ backlog'[j] = backlog[j]
  <2>1. i \in 1 .. Len(backlog)
    BY <1>2, <1>4
  <2> QED
    BY <1>2, <1>3, <1>4, <2>1
<1>5. \A q \in Requests \ {r} : Before(q)' \subseteq Before(q)
  BY <1>4 DEF Before
<1>6. r \notin Before(r)'
  BY <1>4 DEF Before
<1>7. pc'[r] = "queued" /\ \A q \in Requests \ {r} : pc'[q] = pc[q]
  BY <1>1 DEF IInv, TypeOK, Callers
<1>8. /\ \E i \in 1 .. Len(backlog') : backlog'[i] = r
      /\ \A i \in 1 .. Len(backlog) : i \in 1 .. Len(backlog')
  BY <1>2
<1> QED
  BY <1>1, <1>2, <1>5, <1>6, <1>7, <1>8

(* The oldest request moves from the backlog to a thread; it was in front  *)
(* of those that wait on.                                                  *)
LEMMA DepartureFirst ==
    ASSUME IInv, Queueing, NEW r \in Requests, TakeRequest(r)
    PROVE  /\ pc'[r] # "queued" /\ \A q \in Requests \ {r} : pc'[q] = pc[q]
           /\ \A q \in Requests \ {r} : pc[q] = "queued" =>
                 /\ \E i \in 1 .. Len(backlog') : backlog'[i] = q
                 /\ Before(q)' \subseteq Before(q)
                 /\ r \in Before(q)
<1>1. /\ backlog # << >> /\ r = Head(backlog) /\ backlog' = Tail(backlog)
      /\ \E point \in {"bootstrap", "proceed"} : pc' = [pc EXCEPT ![r] = point]
  BY DEF TakeRequest, Goto
<1>2. /\ Len(backlog) \in Nat \ {0} /\ Len(backlog') = Len(backlog) - 1
      /\ \A i \in 1 .. Len(backlog') : backlog'[i] = backlog[i + 1]
      /\ backlog[1] = r
  BY <1>1 DEF IInv, TypeOK
<1>3. pc'[r] # "queued" /\ \A q \in Requests \ {r} : pc'[q] = pc[q]
  BY <1>1 DEF IInv, TypeOK, Callers
<1>4. ASSUME NEW q \in Requests \ {r}, pc[q] = "queued"
      PROVE  /\ \E i \in 1 .. Len(backlog') : backlog'[i] = q
             /\ Before(q)' \subseteq Before(q)
             /\ r \in Before(q)
  <2>1. PICK i \in 1 .. Len(backlog) : backlog[i] = q
    BY <1>4 DEF Queueing
  <2>2. i - 1 \in 1 .. Len(backlog') /\ (i - 1) + 1 = i /\ 1 < i /\ 1 \in 1 .. Len(backlog)
    BY <1>2, <1>4, <2>1
  <2>3. \A j \in 1 .. Len(backlog') : j + 1 \in 1 .. Len(backlog)
    BY <1>2
  <2>4. \A j, l \in 1 .. Len(backlog') : j < l => j + 1 < l + 1
    BY <1>2
  <2>5. Before(q)' \subseteq Before(q)
    BY <1>2, <2>3, <2>4 DEF Before
  <2>6. r \in Before(q)
    BY <1>2, <2>1, <2>2 DEF Before
  <2> QED
    BY <1>2, <2>1, <2>2, <2>5, <2>6
<1> QED
  BY <1>3, <1>4

(* In front of a request that waits on there come to be no more, and a     *)
(* request takes its place behind all others.                              *)
LEMMA FrontShrinks ==
    ASSUME IInv, Queueing, [Next]_vars, NEW r \in Requests, pc'[r] = "queued",
           NEW stage \in Stages
    PROVE  \/ pc[r] = "queued" /\ InFront(r, stage)' \subseteq InFront(r, stage)
           \/ /\ \E k \in Kinds : Send(r, k)
              /\ InFront(r, stage)' \subseteq Requests \ {r}
<1> USE DEF Stages, LoopPoints, KeyPoints, RefreshPoints
<1>1. CASE Arrival
  <2>1. PICK c \in Requests, k \in Kinds : Send(c, k)
    BY <1>1 DEF Arrival
  <2>2. \A q \in Requests : pc'[q] \in stage => q # c /\ pc[q] \in stage
    BY <2>1, ArrivalLast
  <2>3. CASE r = c
    BY <2>1, <2>2, <2>3, ArrivalLast DEF InFront, Before
  <2>4. CASE r # c
    <3>1. pc[r] = "queued" /\ Before(r)' \subseteq Before(r)
      BY <2>1, <2>4, ArrivalLast
    <3> QED
      BY <2>2, <3>1 DEF InFront
  <2> QED
    BY <2>3, <2>4
<1>2. CASE Departure
  <2>1. PICK c \in Requests : TakeRequest(c)
    BY <1>2 DEF Departure
  <2>2. r # c /\ pc[r] = "queued"
    BY <2>1, DepartureFirst
  <2>3. Before(r)' \subseteq Before(r) /\ c \in Before(r)
    BY <2>1, <2>2, DepartureFirst
  <2>4. \A q \in Requests : pc'[q] \in stage => q = c \/ pc[q] \in stage
    BY <2>1, DepartureFirst
  <2> QED
    BY <2>2, <2>3, <2>4 DEF InFront
<1>3. CASE ~ Arrival /\ ~ Departure
  <2>1. UNCHANGED Before(r) /\ pc[r] = "queued"
    BY <1>3, OnlyForward DEF Before, Forward
  <2>2. \A q \in Requests : pc'[q] \in stage => pc[q] \in stage
    BY <1>3, OnlyForward DEF Forward
  <2> QED
    BY <2>1, <2>2 DEF InFront
<1> QED
  BY <1>1, <1>2, <1>3

LEMMA QueueingStep == IInv /\ IInv' /\ Queueing /\ [Next]_vars => Queueing'
<1> SUFFICES ASSUME IInv, IInv', Queueing, [Next]_vars
    PROVE  Queueing'
  OBVIOUS
<1>1. \A r \in Requests : pc'[r] = "queued" => \E i \in 1 .. Len(backlog') : backlog'[i] = r
  <2>1. CASE Arrival
    <3>1. PICK c \in Requests, k \in Kinds : Send(c, k)
      BY <2>1 DEF Arrival
    <3> QED
      BY <3>1, ArrivalLast DEF Queueing
  <2>2. CASE Departure
    <3>1. PICK c \in Requests : TakeRequest(c)
      BY <2>2 DEF Departure
    <3> QED
      BY <3>1, DepartureFirst
  <2>3. CASE ~ Arrival /\ ~ Departure
    BY <2>3, OnlyForward DEF Queueing, Forward
  <2> QED
    BY <2>1, <2>2, <2>3
<1>2. lock' = NoCaller => tries' = 0
  <2>1. ASSUME NEW c \in Callers, EnterBootstrap(c) \/ DiscoverSucceeds(c) \/ DiscoverFails(c)
        PROVE  lock' = NoCaller => tries' = 0
    <3>1. CASE EnterBootstrap(c)
      BY <3>1 DEF EnterBootstrap, Queueing
    <3>2. CASE DiscoverSucceeds(c)
      BY <3>2 DEF DiscoverSucceeds
    <3>3. CASE DiscoverFails(c)
      <4>1. pc[c] = "discover" /\ lock = c
        BY <3>3 DEF DiscoverFails, IInv, LockHeld
      <4> QED
        BY <3>3, <4>1, VerifierAssumption DEF DiscoverFails, Callers
    <3> QED
      BY <2>1, <3>1, <3>2, <3>3
  <2>2. ASSUME \A c \in Callers :
                  ~ EnterBootstrap(c) /\ ~ DiscoverSucceeds(c) /\ ~ DiscoverFails(c)
        PROVE  UNCHANGED <<lock, tries>>
    BY <2>2 DEF Next, vars, verifierVars, Send, TakeRequest, LookUpKey, FetchKeys,
       RefreshKeys, Respond, StartServing, StartFails, Restart, KeycloakChanges, KeysExpire
  <2> QED
    BY <2>1, <2>2 DEF Queueing
<1>3. phase' = "serving" => pc'[Main] = "idle"
  <2>1. CASE StartServing \/ StartFails \/ Restart
    BY <2>1 DEF StartServing, StartFails, Restart, Goto, IInv, TypeOK, Callers
  <2>2. CASE ~ (StartServing \/ StartFails \/ Restart)
    <3>1. phase' = phase
      BY <2>2 DEF Next, vars, serverVars, EnterBootstrap, DiscoverSucceeds, DiscoverFails,
         Send, TakeRequest, LookUpKey, FetchKeys, RefreshKeys, Respond, KeycloakChanges,
         KeysExpire
    <3>2. ASSUME pc[Main] = "idle"
          PROVE  pc'[Main] = "idle"
      BY <2>2, <3>2, VerifierAssumption DEF Next, vars, EnterBootstrap, DiscoverSucceeds,
         DiscoverFails, Send, TakeRequest, LookUpKey, FetchKeys, RefreshKeys, Respond,
         KeycloakChanges, KeysExpire, Goto, Bootstrapped, IInv, TypeOK, Callers
    <3> QED
      BY <3>1, <3>2 DEF Queueing
  <2> QED
    BY <2>1, <2>2
<1> QED
  BY <1>1, <1>2, <1>3 DEF Queueing

(* What the steps do to the two counts of a request.                       *)
LEMMA CountsKept ==
    ASSUME IInv, Queueing, [Next]_vars, NEW r \in Requests
    PROVE  /\ (\A c \in Callers : ~ DiscoverSucceeds(c) /\ ~ DiscoverFails(c)) =>
                 /\ tries' = tries
                 /\ waited'[r] \in {0, waited[r]}
                 /\ pc[r] = "queued" => waited'[r] = waited[r]
           /\ (\A c \in Requests : ~ FetchKeys(c) /\ ~ RefreshKeys(c)) =>
                 /\ fetched'[r] \in {0, fetched[r]}
                 /\ pc[r] = "queued" => fetched'[r] = fetched[r]
<1> USE DEF IInv, TypeOK
<1>1. ASSUME NEW c \in Requests,
             (\E k \in Kinds : Send(c, k)) \/ Respond(c)
      PROVE  /\ waited'[r] \in {0, waited[r]} /\ fetched'[r] \in {0, fetched[r]}
             /\ pc[r] = "queued" => waited'[r] = waited[r] /\ fetched'[r] = fetched[r]
  <2>1. /\ pc[c] # "queued"
        /\ waited' = [waited EXCEPT ![c] = 0] /\ fetched' = [fetched EXCEPT ![c] = 0]
    BY <1>1 DEF Send, Respond
  <2> QED
    BY <2>1
<1>2. ASSUME NEW c \in Requests, FetchKeys(c) \/ RefreshKeys(c)
      PROVE  waited' = waited /\ tries' = tries
  BY <1>2 DEF FetchKeys, RefreshKeys, FetchPasses
<1>3. ASSUME NEW c \in Callers, DiscoverSucceeds(c) \/ DiscoverFails(c)
      PROVE  fetched' = fetched
  BY <1>3 DEF DiscoverSucceeds, DiscoverFails, AttemptPasses
<1>4. ASSUME NEW c \in Callers, EnterBootstrap(c)
      PROVE  UNCHANGED <<waited, fetched, tries>>
  BY <1>4 DEF EnterBootstrap, Queueing, waits
<1>5. ASSUME \/ \E c \in Requests : TakeRequest(c) \/ LookUpKey(c)
             \/ StartServing \/ StartFails \/ Restart \/ KeycloakChanges \/ KeysExpire
             \/ UNCHANGED vars
      PROVE  UNCHANGED <<waited, fetched, tries>>
  BY <1>5 DEF TakeRequest, LookUpKey, StartServing, StartFails, Restart, KeycloakChanges,
     KeysExpire, vars, verifierVars, waits
<1>6. ASSUME NEW c \in Requests, (\E k \in Kinds : Send(c, k)) \/ Respond(c)
      PROVE  tries' = tries
  BY <1>6 DEF Send, Respond, verifierVars
<1> HIDE DEF IInv, TypeOK
<1>7. \/ \E c \in Requests : (\E k \in Kinds : Send(c, k)) \/ Respond(c)
      \/ \E c \in Requests : FetchKeys(c) \/ RefreshKeys(c)
      \/ \E c \in Callers : DiscoverSucceeds(c) \/ DiscoverFails(c)
      \/ UNCHANGED <<waited, fetched, tries>>
  BY <1>4, <1>5 DEF Next
<1>8. CASE \E c \in Requests : (\E k \in Kinds : Send(c, k)) \/ Respond(c)
  BY <1>1, <1>6, <1>8
<1>9. CASE \E c \in Requests : FetchKeys(c) \/ RefreshKeys(c)
  BY <1>2, <1>9
<1>10. CASE \E c \in Callers : DiscoverSucceeds(c) \/ DiscoverFails(c)
  BY <1>3, <1>10
<1>11. CASE UNCHANGED <<waited, fetched, tries>>
  BY <1>11
<1> QED
  BY <1>7, <1>8, <1>9, <1>10, <1>11

LEMMA InitWait == Init => Queueing /\ WaitInv /\ FetchInv
<1> SUFFICES ASSUME Init
    PROVE  Queueing /\ WaitInv /\ FetchInv
  OBVIOUS
<1>1. \A r \in Requests : pc[r] = "idle" /\ waited[r] = 0 /\ fetched[r] = 0
  BY VerifierAssumption DEF Init, Callers
<1> QED
  <2>1. \A r \in Requests : Bound \in Nat /\ KeyFetches * Others \in Nat
    BY OthersCount
  <2>2. WaitInv /\ FetchInv
    <3> HIDE DEF Bound, Others, KeyFetches
    <3> QED
      BY <1>1, <2>1 DEF WaitInv, FetchInv
  <2>3. Queueing
    BY <1>1 DEF Init, Queueing
  <2> QED
    BY <2>2, <2>3

(* What a number of requests in front may cost grows with it.              *)
LEMMA Costs ==
    ASSUME NEW m \in Nat, NEW n \in Nat
    PROVE  /\ Attempts * m \in Nat /\ Attempts * n \in Nat
           /\ m <= n => Attempts * m <= Attempts * n
           /\ m <= n - 1 => Attempts * m <= Attempts * n - Attempts
           /\ m >= 1 => Attempts * m >= Attempts
<1>1. Attempts \in Nat
  BY AttemptsPositive
<1>2. \A a, j, k \in Nat : a * j \in Nat /\ (j <= k => a * j <= a * k)
  OBVIOUS
<1>3. \A a, k \in Nat : a * (k - 1) = a * k - a
  OBVIOUS
<1>4. ASSUME m <= n - 1
      PROVE  Attempts * m <= Attempts * n - Attempts
  <2>1. n - 1 \in Nat
    BY <1>4
  <2> QED
    BY <1>1, <1>2, <1>3, <1>4, <2>1
<1>5. ASSUME m >= 1
      PROVE  Attempts * m >= Attempts
  BY <1>1, <1>2, <1>5
<1> QED
  BY <1>1, <1>2, <1>4, <1>5

(* The holder of the lock is in front of whoever waits, and has attempts   *)
(* left; so the bound on the cost is one on the count.                     *)
Covered ==
    \A r \in Requests :
        pc[r] = "queued" => tries <= Attempts * Cardinality(InFront(r, LoopPoints))

LEMMA TriesCovered == IInv /\ Queueing => Covered
<1> SUFFICES ASSUME IInv, Queueing, NEW r \in Requests, pc[r] = "queued"
    PROVE  tries <= Attempts * Cardinality(InFront(r, LoopPoints))
  BY DEF Covered
<1> DEFINE n == Cardinality(InFront(r, LoopPoints))
           cost == Attempts * n
<1>1. IsFiniteSet(InFront(r, LoopPoints)) /\ n \in Nat
  BY FrontCounts DEF Stages
<1>2. tries \in Nat /\ tries < Attempts /\ Attempts \in Nat
  BY AttemptsPositive DEF IInv, TypeOK
<1>3. cost \in Nat /\ (n >= 1 => cost >= Attempts)
  <2> HIDE DEF n
  <2> QED
    BY <1>1, Costs
<1> SUFFICES tries <= cost
  OBVIOUS
<1> HIDE DEF cost
<1>4. CASE lock = NoCaller
  BY <1>2, <1>3, <1>4 DEF Queueing
<1>5. CASE lock # NoCaller
  <2>1. pc[lock] = "discover" /\ lock \in Callers
    BY <1>5 DEF IInv, LockHeld, TypeOK
  <2>2. phase = "serving"
    BY DEF IInv, Booting
  <2>3. lock \in Requests
    BY <2>1, <2>2 DEF Queueing, Callers
  <2>4. lock \in InFront(r, LoopPoints)
    BY <2>1, <2>3 DEF InFront, LoopPoints
  <2>5. n # 0
    BY <1>1, <2>4, FS_EmptySet
  <2> HIDE DEF n
  <2>6. n >= 1
    BY <1>1, <2>5
  <2> QED
    BY <1>2, <1>3, <2>6
<1> QED
  BY <1>4, <1>5

(* One more attempt passes, and then the holder of the lock has one less   *)
(* to make, or is no longer in front of anybody.                           *)
LEMMA AttemptCounts ==
    ASSUME IInv, Queueing, NEW c \in Callers, DiscoverSucceeds(c) \/ DiscoverFails(c),
           NEW r \in Requests
    PROVE  /\ waited'[r] = waited[r] \/ (pc[r] = "queued" /\ waited'[r] = waited[r] + 1)
           /\ \/ tries' = tries + 1
              \/ /\ tries' = 0
                 /\ pc[r] = "queued" =>
                       c \in InFront(r, LoopPoints) \ InFront(r, LoopPoints)'
<1>1. pc[c] = "discover" /\ waited' = OneMore(waited) /\ UNCHANGED backlog
  BY DEF DiscoverSucceeds, DiscoverFails, AttemptPasses
<1>2. \/ tries' = tries + 1
      \/ tries' = 0 /\ \E point \in {"keys", "proceed", "failed"} : Goto(c, point)
  BY DEF DiscoverSucceeds, DiscoverFails, Bootstrapped
<1>3. waited'[r] = waited[r] \/ (pc[r] = "queued" /\ waited'[r] = waited[r] + 1)
  BY <1>1 DEF OneMore
<1>4. ASSUME NEW point \in {"keys", "proceed", "failed"}, Goto(c, point), pc[r] = "queued"
      PROVE  c \in InFront(r, LoopPoints) \ InFront(r, LoopPoints)'
  <2>1. c \in Requests
    BY <1>1, <1>4 DEF Queueing, IInv, Booting, Callers
  <2>2. pc'[c] = point
    BY <1>4 DEF Goto, IInv, TypeOK
  <2>3. c \notin Before(r)'
    BY <1>1 DEF Before, IInv, Backlogged
  <2> QED
    BY <1>1, <2>1, <2>2, <2>3 DEF InFront, LoopPoints
<1> QED
  BY <1>2, <1>3, <1>4

LEMMA WaitStep ==
    IInv /\ IInv' /\ Queueing /\ Covered' /\ WaitInv /\ [Next]_vars => WaitInv'
<1> SUFFICES ASSUME IInv, IInv', Queueing, Covered', WaitInv, [Next]_vars, NEW r \in Requests
    PROVE  /\ waited'[r] <= Bound
           /\ pc'[r] = "queued" =>
                 waited'[r] + Attempts * Cardinality(InFront(r, LoopPoints)') <= Bound + tries'
  BY DEF WaitInv
<1> DEFINE old == Cardinality(InFront(r, LoopPoints))
           new == Cardinality(InFront(r, LoopPoints)')
           cost == Attempts * old
           left == Attempts * new
<1>1. /\ waited[r] \in Nat /\ waited'[r] \in Nat /\ tries \in Nat /\ tries' \in Nat
      /\ tries < Attempts /\ Attempts \in Nat /\ Bound \in Nat
  <2>1. Bound \in Nat /\ Attempts \in Nat
    BY OthersCount, AttemptsPositive
  <2> QED
    BY <2>1 DEF IInv, TypeOK
<1>2. old \in Nat /\ new \in Nat /\ IsFiniteSet(InFront(r, LoopPoints))
  BY FrontCounts DEF Stages
<1>3. /\ cost \in Nat /\ left \in Nat
      /\ new <= old => left <= cost
      /\ new <= old - 1 => left <= cost - Attempts
  BY <1>2, Costs
<1>4. pc'[r] = "queued" => tries' <= left
  BY DEF Covered
<1>5. /\ waited[r] <= Bound
      /\ pc[r] = "queued" => waited[r] + cost <= Bound + tries
  BY DEF WaitInv
<1>6. \/ waited'[r] \in {0, waited[r]}
      \/ pc[r] = "queued" /\ pc'[r] = "queued" /\ waited'[r] = waited[r] + 1
  <2>1. ASSUME NEW c \in Callers, DiscoverSucceeds(c) \/ DiscoverFails(c)
        PROVE  \/ waited'[r] = waited[r]
               \/ pc[r] = "queued" /\ pc'[r] = "queued" /\ waited'[r] = waited[r] + 1
    <3>1. ~ Arrival /\ ~ Departure
      <4>1. pc[c] = "discover" /\ UNCHANGED backlog
        BY <2>1 DEF DiscoverSucceeds, DiscoverFails
      <4>2. Len(backlog) \in Nat /\ backlog \in Seq(Requests)
        BY DEF IInv, TypeOK
      <4>3. \A q \in Requests : Append(backlog, q) # backlog
        BY <4>2
      <4>4. backlog # << >> => Tail(backlog) # backlog
        BY <4>2
      <4> QED
        BY <4>1, <4>3, <4>4 DEF Arrival, Departure, Send, TakeRequest
    <3>2. pc'[r] = "queued" <=> pc[r] = "queued"
      BY <3>1, OnlyForward DEF Forward
    <3> QED
      BY <2>1, <3>2, AttemptCounts
  <2> QED
    BY <2>1, CountsKept
<1> HIDE DEF old, new, cost, left
<1>7. ASSUME pc'[r] = "queued"
      PROVE  waited'[r] + left <= Bound + tries'
  <2>1. CASE \E k \in Kinds : Send(r, k)
    <3>1. waited'[r] = 0
      BY <2>1 DEF Send, IInv, TypeOK
    <3>2. new <= Others
      <4>1. pc[r] = "idle"
        BY <2>1 DEF Send
      <4>2. InFront(r, LoopPoints)' \in SUBSET (Requests \ {r})
        BY <1>7, <4>1, FrontShrinks DEF Stages
      <4> QED
        BY <4>2, OthersCount, PartIsSmaller DEF new
    <3>3. left <= Bound
      BY <1>2, <3>2, OthersCount, Costs DEF left, Bound
    <3>4. waited'[r] + left = left
      BY <1>3, <3>1
    <3> QED
      BY <1>1, <1>3, <3>3, <3>4
  <2>2. CASE pc[r] = "queued" /\ InFront(r, LoopPoints)' \subseteq InFront(r, LoopPoints)
    <3>1. /\ new <= old
          /\ \A c \in InFront(r, LoopPoints) \ InFront(r, LoopPoints)' : new <= old - 1
      BY <1>2, <2>2, PartIsSmaller DEF old, new
    <3>2. ASSUME NEW c \in Callers, DiscoverSucceeds(c) \/ DiscoverFails(c)
          PROVE  waited'[r] + left <= Bound + tries'
      <4>1. waited'[r] <= waited[r] + 1
        BY <1>1, <3>2, AttemptCounts
      <4>2. CASE tries' = tries + 1
        BY <1>1, <1>3, <1>5, <2>2, <3>1, <4>1, <4>2
      <4>3. CASE tries' = 0 /\ new <= old - 1
        BY <1>1, <1>3, <1>5, <2>2, <4>1, <4>3
      <4> QED
        BY <2>2, <3>1, <3>2, <4>2, <4>3, AttemptCounts
    <3>3. ASSUME \A c \in Callers : ~ DiscoverSucceeds(c) /\ ~ DiscoverFails(c)
          PROVE  waited'[r] + left <= Bound + tries'
      <4>1. waited'[r] = waited[r] /\ tries' = tries
        BY <2>2, <3>3, CountsKept
      <4> QED
        BY <1>1, <1>3, <1>5, <2>2, <3>1, <4>1
    <3> QED
      BY <3>2, <3>3
  <2> QED
    BY <1>7, <2>1, <2>2, FrontShrinks DEF Stages
<1>8. waited'[r] <= Bound
  <2>1. CASE waited'[r] \in {0, waited[r]}
    BY <1>1, <1>5, <2>1
  <2>2. CASE pc'[r] = "queued"
    BY <1>1, <1>3, <1>4, <1>7, <2>2
  <2> QED
    BY <1>6, <2>1, <2>2
<1> QED
  BY <1>7, <1>8 DEF left, new

(* A fetch passes, and who made it has one less to make.                   *)
LEMMA FetchCounts ==
    ASSUME IInv, NEW c \in Requests, FetchKeys(c) \/ RefreshKeys(c), NEW r \in Requests
    PROVE  /\ fetched'[r] = fetched[r] \/ (pc[r] = "queued" /\ fetched'[r] = fetched[r] + 1)
           /\ \/ c \in InFront(r, KeyPoints) \ InFront(r, KeyPoints)'
              \/ c \in InFront(r, RefreshPoints) \ InFront(r, RefreshPoints)'
<1>1. /\ fetched' = OneMore(fetched) /\ UNCHANGED backlog
      /\ \/ pc[c] = "keys" /\ \E point \in {"refresh", "proceed", "failed"} : Goto(c, point)
         \/ pc[c] = "refresh" /\ \E point \in {"proceed", "failed"} : Goto(c, point)
  BY DEF FetchKeys, RefreshKeys, FetchPasses
<1>2. fetched'[r] = fetched[r] \/ (pc[r] = "queued" /\ fetched'[r] = fetched[r] + 1)
  BY <1>1 DEF OneMore
<1>3. c \notin Before(r)'
  BY <1>1 DEF Before, IInv, Backlogged
<1>4. \/ pc[c] = "keys" /\ pc'[c] \in {"refresh", "proceed", "failed"}
      \/ pc[c] = "refresh" /\ pc'[c] \in {"proceed", "failed"}
  BY <1>1 DEF Goto, IInv, TypeOK, Callers
<1> QED
  BY <1>2, <1>3, <1>4 DEF InFront, LoopPoints, KeyPoints, RefreshPoints

LEMMA FetchStep ==
    IInv /\ Queueing /\ FetchInv /\ [Next]_vars => FetchInv'
<1> SUFFICES ASSUME IInv, Queueing, FetchInv, [Next]_vars, NEW r \in Requests
    PROVE  /\ fetched'[r] <= KeyFetches * Others
           /\ pc'[r] = "queued" =>
                 fetched'[r] + Cardinality(InFront(r, KeyPoints)')
                   + Cardinality(InFront(r, RefreshPoints)') <= KeyFetches * Others
  BY DEF FetchInv, Others
<1> DEFINE oldK == Cardinality(InFront(r, KeyPoints))
           newK == Cardinality(InFront(r, KeyPoints)')
           oldR == Cardinality(InFront(r, RefreshPoints))
           newR == Cardinality(InFront(r, RefreshPoints)')
           most == KeyFetches * Others
<1>1. fetched[r] \in Nat /\ most \in Nat /\ Others \in Nat /\ most = Others + Others
  <2>1. Others \in Nat
    BY OthersCount
  <2> QED
    BY <2>1 DEF KeyFetches, IInv, TypeOK
<1>2. oldK \in Nat /\ newK \in Nat /\ oldR \in Nat /\ newR \in Nat
  BY FrontCounts DEF Stages
<1>3. fetched[r] <= most /\ (pc[r] = "queued" => fetched[r] + oldK + oldR <= most)
  BY DEF FetchInv
<1> HIDE DEF oldK, newK, oldR, newR, most
<1>4. ASSUME pc'[r] = "queued"
      PROVE  fetched'[r] \in Nat /\ fetched'[r] + newK + newR <= most
  <2>1. CASE \E k \in Kinds : Send(r, k)
    <3>1. fetched'[r] = 0 /\ pc[r] = "idle"
      BY <2>1 DEF Send, IInv, TypeOK
    <3>2. newK <= Others /\ newR <= Others
      <4>1. /\ InFront(r, KeyPoints)' \in SUBSET (Requests \ {r})
            /\ InFront(r, RefreshPoints)' \in SUBSET (Requests \ {r})
        BY <1>4, <3>1, FrontShrinks DEF Stages
      <4> QED
        BY <4>1, OthersCount, PartIsSmaller DEF newK, newR
    <3> QED
      BY <1>1, <1>2, <3>1, <3>2
  <2>2. CASE /\ pc[r] = "queued"
             /\ InFront(r, KeyPoints)' \subseteq InFront(r, KeyPoints)
             /\ InFront(r, RefreshPoints)' \subseteq InFront(r, RefreshPoints)
    <3>1. /\ newK <= oldK /\ newR <= oldR
          /\ \A c \in InFront(r, KeyPoints) \ InFront(r, KeyPoints)' : newK <= oldK - 1
          /\ \A c \in InFront(r, RefreshPoints) \ InFront(r, RefreshPoints)' : newR <= oldR - 1
      <4>1. IsFiniteSet(InFront(r, KeyPoints)) /\ IsFiniteSet(InFront(r, RefreshPoints))
        BY FrontCounts DEF Stages
      <4> QED
        BY <2>2, <4>1, PartIsSmaller DEF oldK, newK, oldR, newR
    <3>2. ASSUME NEW c \in Requests, FetchKeys(c) \/ RefreshKeys(c)
          PROVE  fetched'[r] \in Nat /\ fetched'[r] + newK + newR <= most
      <4>1. fetched'[r] \in Nat /\ fetched'[r] <= fetched[r] + 1
        BY <1>1, <3>2, FetchCounts
      <4>2. newK <= oldK - 1 \/ newR <= oldR - 1
        BY <3>1, <3>2, FetchCounts
      <4> QED
        BY <1>1, <1>2, <1>3, <2>2, <3>1, <4>1, <4>2
    <3>3. ASSUME \A c \in Requests : ~ FetchKeys(c) /\ ~ RefreshKeys(c)
          PROVE  fetched'[r] \in Nat /\ fetched'[r] + newK + newR <= most
      <4>1. fetched'[r] = fetched[r]
        BY <2>2, <3>3, CountsKept
      <4> QED
        BY <1>1, <1>2, <1>3, <2>2, <3>1, <4>1
    <3> QED
      BY <3>2, <3>3
  <2> QED
    BY <1>4, <2>1, <2>2, FrontShrinks DEF Stages
<1>5. fetched'[r] <= most
  <2>1. CASE pc'[r] = "queued"
    BY <1>1, <1>2, <1>4, <2>1
  <2>2. CASE fetched'[r] \in {0, fetched[r]}
    BY <1>1, <1>3, <2>2
  <2>3. ASSUME NEW c \in Requests, FetchKeys(c) \/ RefreshKeys(c), pc[r] = "queued"
        PROVE  pc'[r] = "queued"
    <3>1. pc[c] # "queued" /\ \E point \in Points : pc' = [pc EXCEPT ![c] = point]
      BY <2>3 DEF FetchKeys, RefreshKeys, Goto, Points
    <3> QED
      BY <2>3, <3>1 DEF IInv, TypeOK, Callers
  <2> QED
    BY <2>1, <2>2, <2>3, CountsKept, FetchCounts
<1> QED
  BY <1>4, <1>5 DEF newK, newR, most

LEMMA WaitsAreBounded == Spec => [](IInv /\ WaitInv /\ FetchInv)
<1>1. Init => IInv /\ Queueing /\ WaitInv /\ FetchInv
  BY InitInv, InitWait
<1>2. IInv /\ [Next]_vars => IInv'
  BY NextInv
<1>3. IInv /\ IInv' /\ Queueing /\ [Next]_vars => Queueing'
  BY QueueingStep
<1> QED
  BY <1>1, <1>2, <1>3, TriesCovered, WaitStep, FetchStep, PTL DEF Spec

(* A probe of /healthz that has no thread waits for at most one discovery  *)
(* and two fetches of keys of each other request, however many threads and *)
(* requests there are and however Keycloak goes up and down: requests are  *)
(* taken in order, and the calls that each may make are limited.           *)
THEOREM ProbeWaitsBounded == Spec => []ProbeWaitIsBounded
<1>1. WaitInv /\ FetchInv => ProbeWaitIsBounded
  BY DEF WaitInv, FetchInv, ProbeWaitIsBounded, Bound, Others
<1> QED
  BY <1>1, WaitsAreBounded, PTL

----------------------------------------------------------------------------
(* Strict start-up: nobody waits through an attempt of discovery.          *)
StrictWait == strict => \A r \in Requests : waited[r] = 0

LEMMA StrictStep == IInv /\ Queueing /\ StrictWait /\ [Next]_vars => StrictWait'
<1> SUFFICES ASSUME IInv, Queueing, StrictWait, [Next]_vars, strict', NEW r \in Requests
    PROVE  waited'[r] = 0
  BY DEF StrictWait
<1>1. strict
  BY DEF Next, vars, serverVars, EnterBootstrap, DiscoverSucceeds, DiscoverFails, Send,
     TakeRequest, LookUpKey, FetchKeys, RefreshKeys, Respond, StartServing, StartFails,
     Restart, KeycloakChanges, KeysExpire
<1>2. waited[r] = 0 /\ \A q \in Requests : pc[q] # "discover"
  BY <1>1 DEF StrictWait, IInv, StrictStart
<1>3. ASSUME NEW c \in Callers, DiscoverSucceeds(c) \/ DiscoverFails(c)
      PROVE  waited'[r] = 0
  <2>1. pc[c] = "discover"
    BY <1>3 DEF DiscoverSucceeds, DiscoverFails
  <2>2. pc[r] # "queued"
    BY <1>2, <2>1 DEF Queueing, IInv, Booting, Callers
  <2> QED
    BY <1>2, <1>3, <2>2, AttemptCounts
<1> QED
  BY <1>2, <1>3, CountsKept

(* After a strict start a probe may still wait for Keycloak, but only for  *)
(* two fetches of keys by each other request: never through the loop of    *)
(* discovery and its pauses, whatever Keycloak does after the start.       *)
THEOREM StrictWaitsShort == Spec => []StrictWaitIsShort
<1>1. Init => IInv /\ Queueing /\ StrictWait
  <2>1. Init => StrictWait
    BY DEF Init, StrictWait
  <2> QED
    BY <2>1, InitInv, InitWait
<1>2. IInv /\ Queueing /\ StrictWait /\ [Next]_vars => (IInv /\ Queueing /\ StrictWait)'
  BY NextInv, QueueingStep, StrictStep
<1>3. IInv /\ FetchInv /\ StrictWait => StrictWaitIsShort
  <2> SUFFICES ASSUME IInv, FetchInv, StrictWait, strict, NEW r \in Requests
      PROVE  /\ waited[r] + fetched[r] <= KeyFetches * (Cardinality(Requests) - 1)
             /\ pc[r] # "discover"
    BY DEF StrictWaitIsShort
  <2>1. waited[r] = 0 /\ fetched[r] \in Nat /\ fetched[r] <= KeyFetches * Others
    BY DEF StrictWait, FetchInv, IInv, TypeOK
  <2>2. waited[r] + fetched[r] = fetched[r]
    BY <2>1
  <2> QED
    BY <2>1, <2>2 DEF Others, IInv, StrictStart
<1> QED
  BY <1>1, <1>2, <1>3, WaitsAreBounded, PTL DEF Spec

=============================================================================
