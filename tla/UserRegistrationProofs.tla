----------------------- MODULE UserRegistrationProofs ----------------------
(***************************************************************************)
(* Proofs about UserRegistration and UserSessions, for any set of          *)
(* requests, addresses and sessions.                                       *)
(***************************************************************************)
EXTENDS UserSessions, TLAPS

(* The shape of every state: which halves of a user exist at each point of *)
(* its request.  Where a reply may be lost or the process may die, less is *)
(* known, so those clauses are conditioned on the faults.                  *)
Halves ==
    \A r \in Requests :
        /\ pc[r] \in {"idle", "create"} => r \notin accounts /\ r \notin users
        /\ pc[r] \in {"insert", "publish", "created"} => r \in accounts
        /\ pc[r] \in {"publish", "created"} => r \in users
        /\ pc[r] = "insert" => r \notin users
        /\ r \in announced => pc[r] = "created"
        /\ "lostReply" \notin Faults =>
              /\ pc[r] = "rollback" => r \in accounts /\ r \notin users
              /\ pc[r] = "failed" => r \notin accounts /\ r \notin users
              /\ pc[r] = "orphaned" => r \notin users
              /\ r \in users => r \in accounts

IInv == TypeOK /\ Halves

LEMMA InitInv == Init => IInv
BY DEF Init, IInv, TypeOK, Halves, Points, InFlight, Outcomes

LEMMA NextInv == IInv /\ [Next]_vars => IInv'
<1> SUFFICES ASSUME IInv, [Next]_vars PROVE IInv'
  OBVIOUS
<1> USE DEF IInv, TypeOK, Halves, Points, InFlight, Outcomes, Goto
<1>1. ASSUME NEW r \in Requests, Register(r) PROVE IInv'
  BY <1>1 DEF Register
<1>2. ASSUME NEW r \in Requests, CreateAccount(r) PROVE IInv'
  BY <1>2 DEF CreateAccount, Reply
<1>3. ASSUME NEW r \in Requests, CreateAccountRejected(r) PROVE IInv'
  BY <1>3 DEF CreateAccountRejected
<1>4. ASSUME NEW r \in Requests, InsertUser(r) PROVE IInv'
  BY <1>4 DEF InsertUser, Reply
<1>5. ASSUME NEW r \in Requests, InsertUserRejected(r) PROVE IInv'
  BY <1>5 DEF InsertUserRejected
<1>6. ASSUME NEW r \in Requests, DeleteAccount(r) PROVE IInv'
  BY <1>6 DEF DeleteAccount, Reply
<1>7. ASSUME NEW r \in Requests, DeleteAccountFails(r) PROVE IInv'
  BY <1>7 DEF DeleteAccountFails
<1>8. ASSUME NEW r \in Requests, PublishCreated(r) PROVE IInv'
  BY <1>8 DEF PublishCreated
<1>9. ASSUME NEW r \in Requests, PublishCreatedFails(r) PROVE IInv'
  BY <1>9 DEF PublishCreatedFails
<1>10. ASSUME NEW r \in Requests, Crash(r) PROVE IInv'
  BY <1>10 DEF Crash
<1>11. CASE UNCHANGED vars
  BY <1>11 DEF vars
<1> QED
  BY <1>1, <1>2, <1>3, <1>4, <1>5, <1>6, <1>7, <1>8, <1>9, <1>10, <1>11
  DEF Next, Step

LEMMA Invariance == Spec => []IInv
BY InitInv, NextInv, PTL DEF Spec

(* Whatever fails, a user who was told 201 or announced has the account    *)
(* and the row.                                                            *)
THEOREM CreatedCompletes == Spec => []CreatedIsComplete
<1>1. IInv => CreatedIsComplete
  BY DEF IInv, Halves, CreatedIsComplete
<1> QED
  BY <1>1, Invariance, PTL

(* As long as no reply is lost, a failed registration leaves nothing.      *)
THEOREM FailureLeavesNothing ==
    ASSUME "lostReply" \notin Faults
    PROVE  Spec => []FailedIsUnregistered
<1>1. IInv => FailedIsUnregistered
  BY DEF IInv, Halves, FailedIsUnregistered
<1> QED
  BY <1>1, Invariance, PTL

(* Unless a reply is lost, a half-made user is in the making, was reported *)
(* as an orphan, or was left by a crash.                                   *)
THEOREM HalvesReported ==
    ASSUME "lostReply" \notin Faults
    PROVE  Spec => []HalfMadeIsReported
<1>1. IInv => HalfMadeIsReported
  BY DEF IInv, TypeOK, Halves, HalfMadeIsReported, Points, InFlight, Outcomes
<1> QED
  BY <1>1, Invariance, PTL

(* Unless a reply is lost, overlapping and crashing requests together do   *)
(* what an atomic registry does.                                           *)
THEOREM RegistrationIsAtomic ==
    ASSUME "lostReply" \notin Faults
    PROVE  Spec => ImplementsRegistry
<1> USE DEF Registry!Init, Registry!Next, Registry!Register, Registry!vars
<1>1. Init => Registry!Init
  BY DEF Init
<1>2. IInv /\ [Next]_vars => [Registry!Next]_Registry!vars
  <2> SUFFICES ASSUME IInv, [Next]_vars PROVE [Registry!Next]_Registry!vars
    OBVIOUS
  <2> USE DEF IInv, TypeOK, Halves, Points, InFlight, Outcomes, Goto
  <2>1. ASSUME NEW r \in Requests, InsertUser(r) PROVE Registry!Register(r)
    BY <2>1 DEF InsertUser, Taken
  <2>2. ASSUME NEW r \in Requests, CreateAccount(r) PROVE UNCHANGED Registry!vars
    BY <2>2 DEF CreateAccount
  <2>3. ASSUME NEW r \in Requests, DeleteAccount(r) PROVE UNCHANGED Registry!vars
    BY <2>3 DEF DeleteAccount
  <2>4. ASSUME NEW r \in Requests,
               \/ Register(r) \/ CreateAccountRejected(r) \/ InsertUserRejected(r)
               \/ DeleteAccountFails(r) \/ PublishCreated(r)
               \/ PublishCreatedFails(r) \/ Crash(r)
        PROVE  UNCHANGED Registry!vars
    BY <2>4 DEF Register, CreateAccountRejected, InsertUserRejected,
         DeleteAccountFails, PublishCreated, PublishCreatedFails, Crash
  <2>5. CASE UNCHANGED vars
    BY <2>5 DEF vars
  <2> QED
    BY <2>1, <2>2, <2>3, <2>4, <2>5 DEF Next, Step
<1> QED
  BY <1>1, <1>2, Invariance, PTL DEF Spec, ImplementsRegistry, Registry!Spec

----------------------------------------------------------------------------
(* Sessions.  Rows of users are never deleted, so the foreign key holds    *)
(* for good once the INSERT of a garment has passed it.                    *)
SessionsInv == IInv /\ SessionsTypeOK /\ garments \subseteq users

LEMMA SessionStep ==
    ASSUME SessionsInv, NEW s \in Sessions, SessionNext(s)
    PROVE  SessionsInv'
<1> USE DEF SessionsInv, SessionsTypeOK, SessionPoints, Enter, Leave
<1>1. UNCHANGED vars
  BY DEF SessionNext, Login, ValidateLogin, ValidateLoginFails, Authenticate,
     InsertGarment, InsertRefused, SessionEnds
<1>2. IInv' /\ TypeOK'
  BY <1>1, NextInv DEF IInv
<1>3. CASE Login(s)
  BY <1>2, <1>3 DEF Login, TypeOK, vars
<1>4. CASE InsertGarment(s)
  BY <1>2, <1>4 DEF InsertGarment, TypeOK, vars
<1>5. CASE ~ Login(s) /\ ~ InsertGarment(s)
  BY <1>1, <1>2, <1>5 DEF SessionNext, ValidateLogin, ValidateLoginFails, Authenticate,
     InsertRefused, SessionEnds, vars
<1> QED
  BY <1>3, <1>4, <1>5

LEMMA SessionsInvariant == SessionsSpec => []SessionsInv
<1>1. SessionsInit => SessionsInv
  BY InitInv, SessionsAssumption
     DEF SessionsInit, SessionsInv, IInv, SessionsTypeOK, SessionPoints
<1>2. ASSUME SessionsInv, [Next]_vars, UNCHANGED sessionVars
      PROVE  SessionsInv'
  <2>1. users \subseteq users'
    BY <1>2 DEF Next, Register, Step, CreateAccount, CreateAccountRejected, InsertUser,
       InsertUserRejected, DeleteAccount, DeleteAccountFails, PublishCreated,
       PublishCreatedFails, Crash, vars
  <2> QED
    BY <1>2, <2>1, NextInv DEF SessionsInv, SessionsTypeOK, IInv, sessionVars
<1>3. SessionsInv /\ [ \/ Next /\ UNCHANGED sessionVars
                      \/ \E s \in Sessions : SessionNext(s) ]_AllVars => SessionsInv'
  BY <1>2, SessionStep DEF AllVars
<1> QED
  BY <1>1, <1>3, PTL DEF SessionsSpec

(* Unless a reply is lost, whoever logs in when, a garment is owned by a   *)
(* user with an account and a profile row.                                 *)
THEOREM OwnersComplete ==
    ASSUME "lostReply" \notin Faults
    PROVE  SessionsSpec => []OwnersAreComplete
<1>1. SessionsInv => OwnersAreComplete
  BY DEF SessionsInv, IInv, TypeOK, Halves, OwnersAreComplete
<1> QED
  BY <1>1, SessionsInvariant, PTL

============================================================================
