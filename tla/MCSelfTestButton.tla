--------------------------- MODULE MCSelfTestButton ---------------------------
(* Instances of SelfTestButton for TLC: at most MaxEvents changes of the   *)
(* host and failures of polls, at most MaxPresses presses.                 *)
EXTENDS PressHistory, TLC

CONSTANTS MaxEvents, MaxPresses

VARIABLES events, presses

mcvars == <<historyvars, events, presses>>

MCInit == HistoryInit /\ events = 0 /\ presses = 0
MCNext ==
    /\ \/ /\ events < MaxEvents /\ events' = events + 1 /\ UNCHANGED presses
          /\ (Environment \/ Fails) /\ UNCHANGED bvars
       \/ /\ presses < MaxPresses /\ presses' = presses + 1 /\ UNCHANGED events
          /\ \E i \in ID, test \in {"start", "abort"} : Push(i, test)
       \/ /\ UNCHANGED <<events, presses>>
          /\ \/ \E i \in ID : PressStep(i)
             \/ \E d \in Disk : TestEnds(d)
             \/ StartRefresh \/ ReloadButtons
             \/ (Setup \/ Reads \/ Publish) /\ UNCHANGED bvars
    /\ Record
MCSpec == MCInit /\ [][MCNext]_mcvars

Symmetry == Permutations(Disk)
=============================================================================
