---------------------------- MODULE MCConfigFlow ----------------------------
(* Instances of ConfigFlow for TLC: at most MaxEvents disturbances, from   *)
(* entries that work, need attention or are of version 1.x.                *)
EXTENDS FlowHistory

CONSTANTS
    a1, k1, s1, e1,   \* model values, elements of the four sets
    MaxEvents

VARIABLE events

mcvars == <<historyvars, events>>

(* At first there is no entry or one; which of the like addresses, keys    *)
(* and secrets it has does not matter.                                     *)
MCInit ==
    /\ HistoryInit
    /\ accepts = [k \in HostKey |-> s1]
    /\ Existing \subseteq {e1}
    /\ \A e \in Existing : entries[e].host = a1 /\ entries[e].host_key \in {None, k1}
    /\ events = 0

MCNext ==
    /\ \/ Disturbance /\ events < MaxEvents /\ events' = events + 1
       \/ Progress /\ UNCHANGED events
    /\ Record
MCSpec     == MCInit /\ [][MCNext]_mcvars
MCFairSpec == MCSpec /\ Fairness
=============================================================================
