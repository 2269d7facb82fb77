-------------------------- MODULE ControlOwnership --------------------------
(***************************************************************************)
(* What the handover promises, without its files, processes and scripts:   *)
(* every gateway has at most one controller, a change of controller leaves *)
(* a gap in which there is none (break before make), and the app never     *)
(* controls two gateways, whether from Home Assistant ("ha") or through    *)
(* the service it installs ("gateway").  The legacy publisher of each      *)
(* gateway is its own master until it is stopped.                          *)
(***************************************************************************)
CONSTANT Hosts
VARIABLE owner

Controllers == {"legacy", "ha", "gateway"}
OfTheApp == {"ha", "gateway"}

Init == owner \in [Hosts -> {"nobody", "legacy"}]

GiveUp(h) ==
    /\ owner[h] # "nobody"
    /\ owner' = [owner EXCEPT ![h] = "nobody"]

Take(h, c) ==
    /\ owner[h] = "nobody"
    /\ c \in OfTheApp => \A g \in Hosts : owner[g] \notin OfTheApp
    /\ owner' = [owner EXCEPT ![h] = c]

Next ==
    /\ owner' # owner
    /\ \E h \in Hosts : GiveUp(h) \/ \E c \in Controllers : Take(h, c)

Spec == Init /\ [][Next]_owner
=============================================================================
