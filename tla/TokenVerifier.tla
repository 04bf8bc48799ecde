---------------------------- MODULE TokenVerifier ---------------------------
(***************************************************************************)
(* The HTTP side of vusion-ml: one gunicorn process with a few threads,    *)
(* and the KeycloakVerifier they share.  Its OpenID discovery is loaded    *)
(* lazily, under a lock that is held through all the retries.  POST        *)
(* /analizar and /readyz need it, /healthz does not; but a probe of        *)
(* /healthz needs a thread, and the threads may all be waiting for the     *)
(* lock.  With strict start-up the main thread loads it before the first   *)
(* request is served.  The key of a token's signature is then looked up by *)
(* PyJWKClient, which fetches the keys from Keycloak when its cache has    *)
(* none or lacks the one asked for: without the lock, and once each time.  *)
(***************************************************************************)
EXTENDS Integers, Sequences, FiniteSets

CONSTANTS
    Requests,           \* HTTP clients, one request at a time each
    Main,               \* the main thread, in create_app
    NoCaller,           \* holder of a free lock, maker of an unset client
    Threads,            \* threads of the gunicorn worker
    BootstrapAttempts   \* KEYCLOAK_BOOTSTRAP_ATTEMPTS

ASSUME VerifierAssumption == /\ IsFiniteSet(Requests)
                             /\ Main \notin Requests
                             /\ NoCaller \notin Requests \cup {Main}
                             /\ Threads \in Nat \ {0}
                             /\ BootstrapAttempts \in Int

VARIABLES
    strict,     \* MIDDLEWARE_STRICT_STARTUP
    phase,      \* "boot", "serving" or "down"
    reachable,  \* Keycloak answers, with the realm imported
    issuer,     \* verifier.issuer is set
    client,     \* verifier._jwk_client: who made it, or NoCaller
    keys,       \* the cache of the key client holds a set of keys
    lock,       \* who holds _bootstrap_lock
    tries,      \* attempts the holder has made
    pc,         \* pc[c]: where the request, or the main thread, is
    kind,       \* kind[r]: what the request asks for
    backlog,    \* accepted requests without a thread, oldest first
    waited,     \* history: discovery attempts a queued probe has waited for
    fetched     \* history: fetches of keys it has waited for

verifierVars == <<issuer, client, keys, lock, tries>>
serverVars == <<strict, phase, reachable>>
waits == <<waited, fetched>>
vars == <<serverVars, verifierVars, pc, kind, backlog, waits>>

Callers == Requests \cup {Main}

Kinds == {"token", "ready", "probe"}

Points == {"idle", "queued", "bootstrap", "discover", "keys", "refresh", "proceed", "failed"}

Attempts == IF BootstrapAttempts < 1 THEN 1 ELSE BootstrapAttempts

Init ==
    /\ strict \in BOOLEAN
    /\ phase = "boot"
    /\ reachable \in BOOLEAN
    /\ issuer = FALSE
    /\ client = NoCaller
    /\ keys = FALSE
    /\ lock = NoCaller
    /\ tries = 0
    /\ pc = [c \in Callers |-> IF c = Main THEN "bootstrap" ELSE "idle"]
    /\ kind \in [Requests -> {"probe"}]
    /\ backlog = << >>
    /\ waited = [r \in Requests |-> 0]
    /\ fetched = [r \in Requests |-> 0]

Goto(c, point) == pc' = [pc EXCEPT ![c] = point]

OnThread == {r \in Requests : pc[r] \notin {"idle", "queued"}}

(* The main thread is a caller of the verifier only while it boots, and    *)
(* only if start-up is strict.                                             *)
Calls(c) == c \in Requests \/ (phase = "boot" /\ strict)

(* With the client there, validate_access_token goes on to the key of its  *)
(* token, and healthcheck has nothing more to do.  The test that client    *)
(* and issuer are set always passes then (ClientHasIssuer).                *)
Bootstrapped(c) == Goto(c, IF c # Main /\ kind[c] = "token" THEN "keys" ELSE "proceed")

----------------------------------------------------------------------------
(* The verifier.                                                           *)

(* Mutants: the check under the lock is left out, or looks at the issuer.  *)
EnterUnchecked(c) ==
    /\ Calls(c)
    /\ pc[c] = "bootstrap"
    /\ lock = NoCaller
    /\ lock' = c
    /\ tries' = 0
    /\ Goto(c, "discover")
    /\ UNCHANGED <<serverVars, issuer, client, keys, kind, backlog, waits>>

EnterByIssuer(c) ==
    /\ Calls(c)
    /\ pc[c] = "bootstrap"
    /\ lock = NoCaller
    /\ \/ /\ issuer
          /\ Bootstrapped(c)
          /\ UNCHANGED <<lock, tries>>
       \/ /\ ~ issuer
          /\ lock' = c
          /\ tries' = 0
          /\ Goto(c, "discover")
    /\ UNCHANGED <<serverVars, issuer, client, keys, kind, backlog, waits>>

(* _bootstrap takes the lock, and returns at once if the client is set.    *)
EnterBootstrap(c) ==
    /\ Calls(c)
    /\ pc[c] = "bootstrap"
    /\ lock = NoCaller
    /\ \/ /\ client # NoCaller
          /\ Bootstrapped(c)
          /\ UNCHANGED <<lock, tries>>
       \/ /\ client = NoCaller
          /\ lock' = c
          /\ tries' = 0
          /\ Goto(c, "discover")
    /\ UNCHANGED <<serverVars, issuer, client, keys, kind, backlog, waits>>

(* Probes that have no thread wait for one more attempt, or fetch.         *)
OneMore(count) ==
    [r \in Requests |-> IF pc[r] = "queued" /\ kind[r] = "probe" THEN count[r] + 1 ELSE count[r]]

AttemptPasses == waited' = OneMore(waited) /\ UNCHANGED fetched

FetchPasses == fetched' = OneMore(fetched) /\ UNCHANGED waited

(* An attempt of the loop that succeeds sets both fields and returns; the  *)
(* new client has fetched no keys.                                         *)
DiscoverSucceeds(c) ==
    /\ pc[c] = "discover"
    /\ reachable
    /\ issuer' = TRUE
    /\ client' = c
    /\ keys' = FALSE
    /\ lock' = NoCaller
    /\ tries' = 0
    /\ Bootstrapped(c)
    /\ AttemptPasses
    /\ UNCHANGED <<serverVars, kind, backlog>>

(* Mutants: range(attempts + 1), the client is assigned first, and the     *)
(* lock is not released by an exception.                                   *)
DiscoverOnceMore(c) ==
    /\ pc[c] = "discover"
    /\ ~ reachable
    /\ issuer' = TRUE \/ UNCHANGED issuer
    /\ IF tries < Attempts
         THEN tries' = tries + 1 /\ UNCHANGED <<lock, pc>>
         ELSE tries' = 0 /\ lock' = NoCaller /\ Goto(c, "failed")
    /\ AttemptPasses
    /\ UNCHANGED <<serverVars, client, keys, kind, backlog>>

DiscoverClientFirst(c) ==
    /\ pc[c] = "discover"
    /\ ~ reachable
    /\ client' \in {client, c}
    /\ IF tries + 1 < Attempts
         THEN tries' = tries + 1 /\ UNCHANGED <<lock, pc>>
         ELSE tries' = 0 /\ lock' = NoCaller /\ Goto(c, "failed")
    /\ AttemptPasses
    /\ UNCHANGED <<serverVars, issuer, keys, kind, backlog>>

DiscoverKeepsLock(c) ==
    /\ pc[c] = "discover"
    /\ ~ reachable
    /\ issuer' = TRUE \/ UNCHANGED issuer
    /\ IF tries + 1 < Attempts
         THEN tries' = tries + 1 /\ UNCHANGED <<lock, pc>>
         ELSE tries' = 0 /\ UNCHANGED lock /\ Goto(c, "failed")
    /\ AttemptPasses
    /\ UNCHANGED <<serverVars, client, keys, kind, backlog>>

(* An attempt that fails, if the answer lacks jwks_uri with the issuer set *)
(* already.  After the last one the lock is released and RuntimeError      *)
(* leaves the method.                                                      *)
DiscoverFails(c) ==
    /\ pc[c] = "discover"
    /\ ~ reachable
    /\ issuer' = TRUE \/ UNCHANGED issuer
    /\ IF tries + 1 < Attempts
         THEN tries' = tries + 1 /\ UNCHANGED <<lock, pc>>
         ELSE tries' = 0 /\ lock' = NoCaller /\ Goto(c, "failed")
    /\ AttemptPasses
    /\ UNCHANGED <<serverVars, client, keys, kind, backlog>>

(* get_signing_key_from_jwt.  A token whose header cannot be read is       *)
(* refused; cached keys hold the token's, or have to be fetched again.     *)
LookUpKey(r) ==
    /\ pc[r] = "keys"
    /\ r \in Requests
    /\ \/ Goto(r, "failed")
       \/ keys /\ (Goto(r, "proceed") \/ Goto(r, "refresh"))
    /\ UNCHANGED <<serverVars, verifierVars, kind, backlog, waits>>

(* The cache is empty, or has run out: the keys are fetched.  A fetch that *)
(* fails, after its timeout, is not tried again.                           *)
FetchKeys(r) ==
    /\ pc[r] = "keys"
    /\ r \in Requests
    /\ ~ keys
    /\ \/ reachable /\ keys' = TRUE /\ (Goto(r, "proceed") \/ Goto(r, "refresh"))
       \/ ~ reachable /\ UNCHANGED keys /\ Goto(r, "failed")
    /\ FetchPasses
    /\ UNCHANGED <<serverVars, issuer, client, lock, tries, kind, backlog>>

(* The key was not among them, and they are fetched once more; a token of  *)
(* an unknown key is refused.  A fetch that fails may clear the cache.     *)
RefreshKeys(r) ==
    /\ pc[r] = "refresh"
    /\ r \in Requests
    /\ \/ reachable /\ keys' = TRUE /\ (Goto(r, "proceed") \/ Goto(r, "failed"))
       \/ ~ reachable /\ keys' \in {keys, FALSE} /\ Goto(r, "failed")
    /\ FetchPasses
    /\ UNCHANGED <<serverVars, issuer, client, lock, tries, kind, backlog>>

(* The cache of PyJWKClient has a life span.                               *)
KeysExpire ==
    /\ keys
    /\ keys' = FALSE
    /\ UNCHANGED <<serverVars, issuer, client, lock, tries, pc, kind, backlog, waits>>

----------------------------------------------------------------------------
(* The server.                                                             *)

(* A request is accepted and waits for a thread.                           *)
Send(r, k) ==
    /\ phase = "serving"
    /\ pc[r] = "idle"
    /\ Goto(r, "queued")
    /\ kind' = [kind EXCEPT ![r] = k]
    /\ backlog' = Append(backlog, r)
    /\ waited' = [waited EXCEPT ![r] = 0]
    /\ fetched' = [fetched EXCEPT ![r] = 0]
    /\ UNCHANGED <<serverVars, verifierVars>>

(* A free thread takes the oldest one.  A probe, and a request without a   *)
(* bearer token, are answered without the verifier.                        *)
TakeRequest(r) ==
    /\ backlog # << >> /\ r = Head(backlog)
    /\ Cardinality(OnThread) < Threads
    /\ backlog' = Tail(backlog)
    /\ \/ kind[r] # "probe" /\ Goto(r, "bootstrap")
       \/ kind[r] # "ready" /\ Goto(r, "proceed")
    /\ UNCHANGED <<serverVars, verifierVars, kind, waits>>

(* The rest of the handler, with any answer: 200, 401 or 503.  Checking    *)
(* the signature and the claims needs nobody else.                         *)
Respond(r) ==
    /\ pc[r] \in {"proceed", "failed"}
    /\ r \in Requests
    /\ Goto(r, "idle")
    /\ waited' = [waited EXCEPT ![r] = 0]
    /\ fetched' = [fetched EXCEPT ![r] = 0]
    /\ UNCHANGED <<serverVars, verifierVars, kind, backlog>>

(* Mutant: an error of readiness() is logged and create_app goes on.       *)
ServeAnyway ==
    /\ phase = "boot"
    /\ strict => pc[Main] \in {"proceed", "failed"}
    /\ phase' = "serving"
    /\ Goto(Main, "idle")
    /\ UNCHANGED <<strict, reachable, verifierVars, kind, backlog, waits>>

(* create_app returns, after middleware.readiness() if start-up is strict. *)
StartServing ==
    /\ phase = "boot"
    /\ strict => pc[Main] = "proceed"
    /\ phase' = "serving"
    /\ Goto(Main, "idle")
    /\ UNCHANGED <<strict, reachable, verifierVars, kind, backlog, waits>>

(* readiness() raises, for Keycloak or for another dependency, create_app  *)
(* with it, and gunicorn stops.                                            *)
StartFails ==
    /\ phase = "boot"
    /\ strict
    /\ pc[Main] \in {"proceed", "failed"}
    /\ phase' = "down"
    /\ Goto(Main, "idle")
    /\ UNCHANGED <<strict, reachable, verifierVars, kind, backlog, waits>>

Restart ==
    /\ phase = "down"
    /\ phase' = "boot"
    /\ Goto(Main, "bootstrap")
    /\ issuer' = FALSE
    /\ client' = NoCaller
    /\ keys' = FALSE
    /\ UNCHANGED <<strict, reachable, lock, tries, kind, backlog, waits>>

(* Keycloak goes up and down.                                              *)
KeycloakChanges ==
    /\ reachable' = ~ reachable
    /\ UNCHANGED <<strict, phase, verifierVars, pc, kind, backlog, waits>>

----------------------------------------------------------------------------
Next ==
    \/ \E c \in Callers : EnterBootstrap(c) \/ DiscoverSucceeds(c) \/ DiscoverFails(c)
    \/ \E r \in Requests : \/ \E k \in Kinds : Send(r, k)
                           \/ TakeRequest(r)
                           \/ LookUpKey(r) \/ FetchKeys(r) \/ RefreshKeys(r)
                           \/ Respond(r)
    \/ StartServing \/ StartFails \/ Restart
    \/ KeycloakChanges \/ KeysExpire

Spec == Init /\ [][Next]_vars

(* Each thread goes on with what it has in hand; nobody promises it the    *)
(* lock when several want it, nor a client that it sends a request.  Calls *)
(* to Keycloak have timeouts.                                              *)
Fairness ==
    /\ \A c \in Callers : WF_vars(EnterBootstrap(c) \/ DiscoverSucceeds(c) \/ DiscoverFails(c))
    /\ \A r \in Requests : /\ WF_vars(TakeRequest(r)) /\ WF_vars(Respond(r))
                           /\ WF_vars(LookUpKey(r) \/ FetchKeys(r) \/ RefreshKeys(r))
    /\ WF_vars(StartServing \/ StartFails)
    /\ WF_vars(Restart)

FairSpec == Spec /\ Fairness

TypeOK ==
    /\ strict \in BOOLEAN
    /\ phase \in {"boot", "serving", "down"}
    /\ reachable \in BOOLEAN
    /\ issuer \in BOOLEAN
    /\ client \in Callers \cup {NoCaller}
    /\ keys \in BOOLEAN
    /\ lock \in Callers \cup {NoCaller}
    /\ tries \in 0 .. Attempts - 1
    /\ pc \in [Callers -> Points]
    /\ kind \in [Requests -> Kinds]
    /\ backlog \in Seq(Requests)
    /\ waited \in [Requests -> Nat]
    /\ fetched \in [Requests -> Nat]

----------------------------------------------------------------------------
(* A key client is never there without the issuer that tokens are checked  *)
(* against, whatever an attempt left behind when it failed halfway: else   *)
(* every later check would return early and fail.                          *)
ClientHasIssuer == client # NoCaller => issuer

(* Discovery happens once in the life of a process: callers that waited    *)
(* for the lock use the client (and its cache of keys) that is there.      *)
ClientIsKept == [][client # NoCaller /\ phase # "down" => client' = client]_vars

(* A probe waits for at most the attempts of one discovery and two fetches *)
(* of keys (KeyFetches) for each request that is in front of it.           *)
KeyFetches == 2

ProbeWaitIsBounded ==
    \A r \in Requests :
        /\ waited[r] <= Attempts * (Cardinality(Requests) - 1)
        /\ fetched[r] <= KeyFetches * (Cardinality(Requests) - 1)

(* Strict start-up does not spare a request from waiting for Keycloak, but *)
(* of the calls in front of a probe only fetches of keys are left: it does *)
(* not wait for the retries of discovery, which no request runs.           *)
StrictWaitIsShort ==
    strict => \A r \in Requests :
                 /\ waited[r] + fetched[r] <= KeyFetches * (Cardinality(Requests) - 1)
                 /\ pc[r] # "discover"

(* /healthz answers in the end, Keycloak up or down: the lock is always    *)
(* released, so threads come free.                                         *)
ProbeIsAnswered ==
    \A r \in Requests : (pc[r] = "queued" /\ kind[r] = "probe") ~> pc[r] = "idle"

(* A thread, or a start that is strict, needs the verifier.                *)
Needed == \E c \in Callers : Calls(c) /\ pc[c] \in {"bootstrap", "discover"}

(* "The container can start while Keycloak is still importing the realm":  *)
(* once Keycloak stays reachable, the verifier does not stay without its   *)
(* client while callers keep needing it, whatever the attempts made during *)
(* the outage left behind.                                                 *)
HealsAfterOutage == <>[]reachable /\ []<>Needed => []<>(client # NoCaller)

============================================================================
