-------------------------- MODULE AnalysisContract -------------------------
(***************************************************************************)
(* What the pipeline promises about an analysis job once its record is in  *)
(* the topic, with none of its machinery: the job is in the end either     *)
(* analysed or dead-lettered.  Redelivery may do both, in either order, so *)
(* an outcome is added and never taken back.                               *)
(***************************************************************************)
CONSTANT Garments

VARIABLES
    submitted,     \* garments with an analysis job
    analysed,      \* garments whose row carries the result
    deadLettered   \* garments with a dead letter

vars == <<submitted, analysed, deadLettered>>

Init == submitted = {} /\ analysed = {} /\ deadLettered = {}

Submit(g) == /\ submitted' = submitted \cup {g}
             /\ UNCHANGED <<analysed, deadLettered>>

Analyse(g) == /\ g \in submitted
              /\ analysed' = analysed \cup {g}
              /\ UNCHANGED <<submitted, deadLettered>>

DeadLetter(g) == /\ g \in submitted
                 /\ deadLettered' = deadLettered \cup {g}
                 /\ UNCHANGED <<submitted, analysed>>

Next == \E g \in Garments : Submit(g) \/ Analyse(g) \/ DeadLetter(g)

(* Safety alone, for configurations in which records may be lost.          *)
SafeSpec == Init /\ [][Next]_vars

Resolve(g) == /\ g \notin analysed \cup deadLettered
              /\ Analyse(g) \/ DeadLetter(g)

Spec == SafeSpec /\ \A g \in Garments : WF_vars(Resolve(g))

============================================================================
