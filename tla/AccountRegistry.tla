-------------------------- MODULE AccountRegistry --------------------------
(***************************************************************************)
(* What registration promises, as if it were one transaction: a user is    *)
(* registered whole, at most one per e-mail address, and stays registered. *)
(***************************************************************************)
CONSTANTS Requests, Emails

VARIABLES email, registered

vars == <<email, registered>>

Init == email \in [Requests -> Emails] /\ registered = {}

Register(r) ==
    /\ \A q \in registered : email[q] # email[r]
    /\ registered' = registered \cup {r}
    /\ UNCHANGED email

Next == \E r \in Requests : Register(r)

Spec == Init /\ [][Next]_vars

============================================================================
