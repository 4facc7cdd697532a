---------------------------- MODULE MCCoordinator ----------------------------
(* Instances of Coordinator for TLC.                                       *)
EXTENDS Coordinator, TLC

CONSTANT MaxEvents   \* bound of the disturbances of a behaviour

VARIABLE events      \* the disturbances so far

mcvars == <<vars, events>>

(* From every topology of the host: at most MaxEvents changes of the       *)
(* environment and failures, with polls and reloads in between at will.    *)
MCInit == Init /\ events = 0
MCNext ==
    \/ /\ events < MaxEvents /\ events' = events + 1
       /\ Environment \/ Fails
    \/ /\ Setup \/ StartPoll \/ Reads \/ Publish \/ Reload
       /\ UNCHANGED events
MCSpec == MCInit /\ [][MCNext]_mcvars

MCFairSpec == MCSpec /\ Fairness

Symmetry == Permutations(Disk)
=============================================================================
