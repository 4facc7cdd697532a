---------------------------- MODULE MCDiskEntities ----------------------------
(* Instances of DiskEntities for TLC: as MCCoordinator, at most MaxEvents  *)
(* changes of the environment, failures and deleted devices.               *)
EXTENDS EntityHistory, TLC

CONSTANT MaxEvents

VARIABLE events

mcvars == <<historyvars, events>>

MCInit == HistoryInit /\ events = 0
MCNext ==
    /\ \/ /\ events < MaxEvents /\ events' = events + 1
          /\ \/ (Environment \/ Fails) /\ UNCHANGED evars
             \/ \E i \in ID : RemoveDevice(i)
       \/ /\ UNCHANGED events
          /\ \/ PublishAndAdd
             \/ ReloadAndUnload
             \/ (Setup \/ StartPoll \/ Reads) /\ UNCHANGED evars
    /\ Record
MCSpec     == MCInit /\ [][MCNext]_mcvars
MCFairSpec == MCSpec /\ WF_vars(Setup) /\ WF_vars(TimedPoll) /\ WF_vars(Reads)
                     /\ WF_vars(PublishAndAdd)

Symmetry == Permutations(Disk)

(* Recovery up to the user: on a host that stays readable, every attached  *)
(* disk ends up with all its entities, available, and the entities of a    *)
(* disk that is gone end up unavailable.                                   *)
EntityRecovery ==
    <>[](AllReadable /\ removed = {}) /\ <>[][~Disturbance]_vars =>
        <>[](\A d \in Disk :
                IF \A k \in ScanKeys : attached[k] # d THEN ~Available(d)
                ELSE Available(d) /\ {d} \X Description \subseteq entities)
=============================================================================
