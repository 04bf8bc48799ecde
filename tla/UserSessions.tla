---------------------------- MODULE UserSessions ----------------------------
(***************************************************************************)
(* POST /users/login and the requests made with its token, while users are *)
(* being registered.  An account can log in from the moment Keycloak has   *)
(* it, before its profile row is there and until the rollback deletes it.  *)
(* Every authenticated request asks Keycloak about its token first, in     *)
(* BearerMiddleware, and only then touches Postgres; of those requests     *)
(* POST /clothes is modelled, as the one INSERT it does for the subject.   *)
(* The user.logged_in event, whose failure is only logged, is left out.    *)
(***************************************************************************)
EXTENDS UserRegistration

CONSTANTS
    Sessions,  \* clients that log in
    NoToken    \* token of a client that is logged out

ASSUME SessionsAssumption == NoToken \notin Requests

VARIABLES
    spc,       \* spc[s]: where the session is
    token,     \* token[s]: the uid its access token was issued for
    garments   \* uids that own rows of table clothes

sessionVars == <<spc, token, garments>>

SessionPoints == {"out", "validate", "in", "insert"}

SessionsTypeOK ==
    /\ TypeOK
    /\ spc \in [Sessions -> SessionPoints]
    /\ token \in [Sessions -> Requests \cup {NoToken}]
    /\ garments \subseteq Requests

SessionsInit ==
    /\ Init
    /\ spc = [s \in Sessions |-> "out"]
    /\ token = [s \in Sessions |-> NoToken]
    /\ garments = {}

Enter(s, point) == spc' = [spc EXCEPT ![s] = point]

Leave(s) == Enter(s, "out") /\ token' = [token EXCEPT ![s] = NoToken]

(* ValidateToken: the userinfo endpoint answers with the subject while the *)
(* account exists; any other answer is an error.                           *)
TokenValid(s) == token[s] \in accounts

----------------------------------------------------------------------------
(* identityProvider.LoginUser: a token for the account of the address.     *)
(* Wrong credentials change nothing.                                       *)
Login(s) ==
    /\ spc[s] = "out"
    /\ Enter(s, "validate")
    /\ \E r \in accounts : token' = [token EXCEPT ![s] = r]
    /\ UNCHANGED <<vars, garments>>

(* LoginUser validates the token it was just given before it returns it.   *)
ValidateLogin(s) ==
    /\ spc[s] = "validate"
    /\ TokenValid(s)
    /\ Enter(s, "in")
    /\ UNCHANGED <<vars, token, garments>>

ValidateLoginFails(s) ==
    /\ spc[s] = "validate"
    /\ ~ TokenValid(s) \/ "call" \in Faults
    /\ Leave(s)
    /\ UNCHANGED <<vars, garments>>

(* BearerMiddleware lets a request through with the subject of its token;  *)
(* otherwise it answers 401 and changes nothing.                           *)
Authenticate(s) ==
    /\ spc[s] = "in"
    /\ TokenValid(s)
    /\ Enter(s, "insert")
    /\ UNCHANGED <<vars, token, garments>>

(* Mutant: user_id is a column like any other.                             *)
InsertForAnyone(s) ==
    /\ spc[s] = "insert"
    /\ garments' = garments \cup {token[s]}
    /\ Enter(s, "in")
    /\ UNCHANGED <<vars, token>>

(* CreateClothe: user_id REFERENCES users(sub_keycloak).                   *)
InsertGarment(s) ==
    /\ spc[s] = "insert"
    /\ token[s] \in users
    /\ garments' = garments \cup {token[s]}
    /\ Enter(s, "in")
    /\ UNCHANGED <<vars, token>>

(* The key is violated, the body is refused, or the call fails.            *)
InsertRefused(s) ==
    /\ spc[s] = "insert"
    /\ Enter(s, "in")
    /\ UNCHANGED <<vars, token, garments>>

(* The client forgets its token, or it expires.                            *)
SessionEnds(s) ==
    /\ spc[s] = "in"
    /\ Leave(s)
    /\ UNCHANGED <<vars, garments>>

----------------------------------------------------------------------------
SessionNext(s) ==
    \/ Login(s) \/ ValidateLogin(s) \/ ValidateLoginFails(s)
    \/ Authenticate(s) \/ InsertGarment(s) \/ InsertRefused(s) \/ SessionEnds(s)

AllVars == <<vars, sessionVars>>

SessionsSpec ==
    SessionsInit /\ [][ \/ Next /\ UNCHANGED sessionVars
                        \/ \E s \in Sessions : SessionNext(s) ]_AllVars

(* Registrations run to their end; nobody promises that anyone logs in.    *)
SessionsFairSpec == SessionsSpec /\ \A r \in Requests : WF_vars(Step(r))

----------------------------------------------------------------------------
(* Whoever owns a garment is a whole user, though tokens are issued to     *)
(* users who are only half made, and stay in clients' hands after their    *)
(* account was rolled back: no garment is left to a user who is not there. *)
OwnersAreComplete == garments \subseteq accounts \cap users

============================================================================
