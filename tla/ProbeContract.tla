---------------------------- MODULE ProbeContract -----------------------------
(***************************************************************************)
(* What a probe promises Argus and the operator, without files or steps:   *)
(* it enrols once, keeps the name it got, replaces its certificate only by *)
(* one that ends later, and its proxy runs only once it has an identity.   *)
(***************************************************************************)
EXTENDS Naturals

CONSTANTS Names, None

VARIABLES
    id,      \* the identity: a name and the end of its certificate; None at first
    up       \* the Zabbix proxy runs

Ids == [name : Names, end : Nat]

Init == id = None /\ up = FALSE

Enrol ==
    /\ id = None /\ ~up
    /\ id' \in Ids
    /\ up' = up

Renew ==
    /\ id # None
    /\ id' \in Ids
    /\ id'.name = id.name /\ id'.end > id.end
    /\ up' = up

Start == id # None /\ ~up /\ up' = TRUE /\ id' = id

Stop == up /\ up' = FALSE /\ id' = id

Next == Enrol \/ Renew \/ Start \/ Stop

Spec == Init /\ [][Next]_<<id, up>>
===============================================================================
