-------------------------- MODULE UserRegistration -------------------------
(***************************************************************************)
(* POST /users/register: UserService.RegisterUser creates the account in   *)
(* Keycloak, inserts the profile row, deletes the account again when the   *)
(* INSERT fails, and announces the user on the event bus.  Several         *)
(* requests, some of them retries of one client, run at once; each call to *)
(* Keycloak, Postgres or Kafka is a step.  A request's uid is the one      *)
(* Keycloak would give the account it creates, so accounts and rows are    *)
(* named by the request that made them.                                    *)
(***************************************************************************)
CONSTANTS
    Requests,  \* registration requests
    Emails,    \* e-mail addresses they may carry
    Faults     \* which of the failures below may happen

(* "call": a call raises with no effect.  "lostReply": it takes effect and *)
(* then raises.  "crash": the Go process dies.                             *)
FaultKinds == {"call", "lostReply", "crash"}

ASSUME FaultsAssumption == Faults \subseteq FaultKinds

VARIABLES
    pc,        \* pc[r]: the call request r is about to make, or its outcome
    email,     \* email[r]: the address it registers
    accounts,  \* uids of the accounts in Keycloak
    users,     \* uids (sub_keycloak) of the rows of table users
    announced  \* uids for which user.created was published

vars == <<pc, email, accounts, users, announced>>

(* "failed": the error returned says that nothing, or nothing any more, was*)
(* created; "orphaned": it says that the rollback failed.                  *)
Outcomes == {"created", "failed", "orphaned", "crashed"}

InFlight == {"create", "insert", "rollback", "publish"}

Points == {"idle"} \cup InFlight \cup Outcomes

TypeOK ==
    /\ pc \in [Requests -> Points]
    /\ email \in [Requests -> Emails]
    /\ accounts \subseteq Requests
    /\ users \subseteq Requests
    /\ announced \subseteq Requests

Init ==
    /\ pc = [r \in Requests |-> "idle"]
    /\ email \in [Requests -> Emails]
    /\ accounts = {}
    /\ users = {}
    /\ announced = {}

Goto(r, point) == pc' = [pc EXCEPT ![r] = point]

(* A call that took effect returns, or its reply is lost.                  *)
Reply(r, next, onError) ==
    \/ Goto(r, next)
    \/ "lostReply" \in Faults /\ Goto(r, onError)

(* An entry of set S already has the address of request r.                 *)
Taken(S, r) == \E q \in S : email[q] = email[r]

----------------------------------------------------------------------------
(* HTTPHandler.Register: the body was valid.                               *)
Register(r) ==
    /\ pc[r] = "idle"
    /\ Goto(r, "create")
    /\ UNCHANGED <<email, accounts, users, announced>>

(* identityProvider.RegisterUser; Keycloak keeps e-mail addresses unique.  *)
CreateAccount(r) ==
    /\ pc[r] = "create"
    /\ ~ Taken(accounts, r)
    /\ accounts' = accounts \cup {r}
    /\ Reply(r, "insert", "failed")
    /\ UNCHANGED <<email, users, announced>>

CreateAccountRejected(r) ==
    /\ pc[r] = "create"
    /\ Taken(accounts, r) \/ "call" \in Faults
    /\ Goto(r, "failed")
    /\ UNCHANGED <<email, accounts, users, announced>>

(* userRepository.CreateUser; users.email is UNIQUE.                       *)
InsertUser(r) ==
    /\ pc[r] = "insert"
    /\ ~ Taken(users, r)
    /\ users' = users \cup {r}
    /\ Reply(r, "publish", "rollback")
    /\ UNCHANGED <<email, accounts, announced>>

(* Mutant: the error of CreateUser is not looked at.                       *)
InsertErrorIgnored(r) ==
    /\ pc[r] = "insert"
    /\ Taken(users, r) \/ "call" \in Faults
    /\ Goto(r, "publish")
    /\ UNCHANGED <<email, accounts, users, announced>>

(* Mutant: the request fails without deleting the account.                 *)
InsertErrorReturned(r) ==
    /\ pc[r] = "insert"
    /\ Taken(users, r) \/ "call" \in Faults
    /\ Goto(r, "failed")
    /\ UNCHANGED <<email, accounts, users, announced>>

InsertUserRejected(r) ==
    /\ pc[r] = "insert"
    /\ Taken(users, r) \/ "call" \in Faults
    /\ Goto(r, "rollback")
    /\ UNCHANGED <<email, accounts, users, announced>>

(* identityProvider.DeleteUser, the rollback.                              *)
DeleteAccount(r) ==
    /\ pc[r] = "rollback"
    /\ accounts' = accounts \ {r}
    /\ Reply(r, "failed", "orphaned")
    /\ UNCHANGED <<email, users, announced>>

DeleteAccountFails(r) ==
    /\ "call" \in Faults
    /\ pc[r] = "rollback"
    /\ Goto(r, "orphaned")
    /\ UNCHANGED <<email, accounts, users, announced>>

(* The user.created event; an error is logged and the reply is 201.        *)
PublishCreated(r) ==
    /\ pc[r] = "publish"
    /\ announced' = announced \cup {r}
    /\ Goto(r, "created")
    /\ UNCHANGED <<email, accounts, users>>

(* Mutant: a failed publish undoes the registration.                       *)
PublishErrorRollsBack(r) ==
    /\ "call" \in Faults
    /\ pc[r] = "publish"
    /\ Goto(r, "rollback")
    /\ UNCHANGED <<email, accounts, users, announced>>

PublishCreatedFails(r) ==
    /\ "call" \in Faults
    /\ pc[r] = "publish"
    /\ Goto(r, "created")
    /\ UNCHANGED <<email, accounts, users, announced>>

Crash(r) ==
    /\ "crash" \in Faults
    /\ pc[r] \in InFlight
    /\ Goto(r, "crashed")
    /\ UNCHANGED <<email, accounts, users, announced>>

Step(r) ==
    \/ CreateAccount(r) \/ CreateAccountRejected(r)
    \/ InsertUser(r) \/ InsertUserRejected(r)
    \/ DeleteAccount(r) \/ DeleteAccountFails(r)
    \/ PublishCreated(r) \/ PublishCreatedFails(r)

Next == \E r \in Requests : Register(r) \/ Step(r) \/ Crash(r)

Spec == Init /\ [][Next]_vars

(* A request that began runs to its end unless its process dies.           *)
FairSpec == Spec /\ \A r \in Requests : WF_vars(Step(r))

----------------------------------------------------------------------------
(* A user who was told 201, or was announced on the bus, has both halves:  *)
(* the account to log in with and the profile row.  No fault breaks it.    *)
CreatedIsComplete ==
    \A r \in Requests :
        pc[r] = "created" \/ r \in announced => r \in accounts /\ r \in users

(* A request that failed left nothing behind: "RegistrationFailed -->      *)
(* Unregistered", the client may retry.                                    *)
FailedIsUnregistered ==
    \A r \in Requests : pc[r] = "failed" => r \notin accounts /\ r \notin users

(* A half-made user is one in the making, one the service reported, or one *)
(* a crash left: an account without a row belongs to a request that is     *)
(* still running, that returned the "user orphaned" error or that died     *)
(* with its process, and no row lacks its account.                         *)
HalfMadeIsReported ==
    \A r \in Requests :
        /\ r \in accounts /\ r \notin users =>
              pc[r] \in {"insert", "rollback", "orphaned", "crashed"}
        /\ r \in users => r \in accounts

(* No request that runs holds an address for good without registering its  *)
(* user: whoever takes it in Keycloak completes, rolls back, reports an    *)
(* orphan, or dies with its process.                                       *)
AddressIsDecided ==
    \A r \in Requests :
        (r \in accounts) ~>
            (r \in users \/ r \notin accounts \/ pc[r] \in {"orphaned", "crashed"})

----------------------------------------------------------------------------
(* Registration as one atomic step, the two halves seen together.          *)
Registry == INSTANCE AccountRegistry WITH registered <- accounts \cap users

(* Whatever requests overlap and fail, the pairs of account and row are    *)
(* those of an atomic registry: one per address, and never taken apart.    *)
ImplementsRegistry == Registry!Spec

============================================================================
