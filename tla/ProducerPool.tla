---------------------------- MODULE ProducerPool ----------------------------
(***************************************************************************)
(* The Go event publisher: Producer.writer looks a topic up in an          *)
(* unsynchronised map of kafka writers and creates the writer on first     *)
(* use.  Every HTTP request runs in a goroutine of its own and publishes   *)
(* to several topics, one after the other.  A map assignment takes time:   *)
(* between its two steps the runtime's "writing" flag is set, and any      *)
(* other access of the map either gets through or kills the process with   *)
(* "concurrent map read and map write".  main never calls Close.           *)
(***************************************************************************)
EXTENDS Naturals, FiniteSets

CONSTANTS
    Requests,     \* request goroutines
    Topics,       \* topics each of them publishes to
    NoWriter,     \* value of a map entry that is not there
    MaxInFlight   \* requests the server handles at once

ASSUME PoolAssumption == /\ NoWriter \notin Requests
                         /\ MaxInFlight \in Nat \ {0}

VARIABLES
    pc,       \* pc[r]: where request r is
    left,     \* left[r]: the topics it still publishes to, the current one included
    topic,    \* topic[r]: the topic it is publishing to
    writers,  \* Producer.writers; a writer is named by the request that made it
    made,     \* made[t]: writers created for t, each a connection pipeline
    fatal     \* the runtime has killed the process

vars == <<pc, left, topic, writers, made, fatal>>

Points == {"idle", "lookup", "create", "assign", "assigning", "write", "done"}

TypeOK ==
    /\ pc \in [Requests -> Points]
    /\ left \in [Requests -> SUBSET Topics]
    /\ topic \in [Requests -> Topics]
    /\ writers \in [Topics -> Requests \cup {NoWriter}]
    /\ made \in [Topics -> SUBSET Requests]
    /\ fatal \in BOOLEAN

Init ==
    /\ pc = [r \in Requests |-> "idle"]
    /\ left = [r \in Requests |-> Topics]
    /\ topic \in [Requests -> Topics]
    /\ writers = [t \in Topics |-> NoWriter]
    /\ made = [t \in Topics |-> {}]
    /\ fatal = FALSE

Goto(r, point) == pc' = [pc EXCEPT ![r] = point]

InFlight == {r \in Requests : pc[r] \notin {"idle", "done"}}

(* Another goroutine is in the middle of a map assignment.                 *)
Racing(r) == \E q \in Requests \ {r} : pc[q] = "assigning"

----------------------------------------------------------------------------
(* A request arrives and makes its first call of Publish.                  *)
Begin(r) ==
    /\ pc[r] = "idle"
    /\ Cardinality(InFlight) < MaxInFlight
    /\ Goto(r, "lookup")
    /\ UNCHANGED <<left, topic, writers, made, fatal>>

(* p.writers[topic].                                                       *)
Lookup(r) ==
    /\ pc[r] = "lookup"
    /\ Goto(r, IF writers[topic[r]] = NoWriter THEN "create" ELSE "write")
    /\ UNCHANGED <<left, topic, writers, made, fatal>>

(* p.factory(topic).                                                       *)
CreateWriter(r) ==
    /\ pc[r] = "create"
    /\ made' = [made EXCEPT ![topic[r]] = @ \cup {r}]
    /\ Goto(r, "assign")
    /\ UNCHANGED <<left, topic, writers, fatal>>

(* p.writers[topic] = w, from the setting of the flag to its clearing.     *)
BeginAssign(r) ==
    /\ pc[r] = "assign"
    /\ Goto(r, "assigning")
    /\ UNCHANGED <<left, topic, writers, made, fatal>>

(* Mutant: the writer is returned and not kept.                            *)
NotKept(r) ==
    /\ pc[r] = "assigning"
    /\ Goto(r, "write")
    /\ UNCHANGED <<left, topic, writers, made, fatal>>

EndAssign(r) ==
    /\ pc[r] = "assigning"
    /\ writers' = [writers EXCEPT ![topic[r]] = r]
    /\ Goto(r, "write")
    /\ UNCHANGED <<left, topic, made, fatal>>

(* The runtime notices a map access during an assignment.                  *)
MapAccessDies(r) ==
    /\ pc[r] \in {"lookup", "assign"}
    /\ Racing(r)
    /\ fatal' = TRUE
    /\ UNCHANGED <<pc, left, topic, writers, made>>

(* WriteMessages returns, with or without an error, and the request goes   *)
(* on to its next topic; callers only log the error.                       *)
Write(r) ==
    /\ pc[r] = "write"
    /\ left' = [left EXCEPT ![r] = @ \ {topic[r]}]
    /\ \/ /\ left'[r] = {}
          /\ Goto(r, "done")
          /\ UNCHANGED topic
       \/ \E t \in left'[r] :
             /\ topic' = [topic EXCEPT ![r] = t]
             /\ Goto(r, "lookup")
    /\ UNCHANGED <<writers, made, fatal>>

Next ==
    /\ ~ fatal
    /\ \E r \in Requests :
          \/ Begin(r) \/ Lookup(r) \/ CreateWriter(r) \/ BeginAssign(r)
          \/ EndAssign(r) \/ MapAccessDies(r) \/ Write(r)

Spec == Init /\ [][Next]_vars

----------------------------------------------------------------------------
(* "Each topic gets its own batching and connection pipeline".             *)
OneWriterPerTopic == \A t \in Topics : Cardinality(made[t]) <= 1

(* Without a lock a topic may get several writers, and all but one stay    *)
(* open and unreachable: never more than there are requests at once.       *)
WritersAreBounded == \A t \in Topics : Cardinality(made[t]) <= MaxInFlight

============================================================================
