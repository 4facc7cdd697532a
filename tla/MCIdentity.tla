------------------------------ MODULE MCIdentity ------------------------------
(* MCCoordinator with a history variable: the disk that answered on each   *)
(* path the last time it was read, which the coordinator cannot see when   *)
(* the disk is asleep.                                                     *)
EXTENDS MCCoordinator

VARIABLE answered

idvars == <<mcvars, answered>>

IdInit == MCInit /\ answered = [k \in Key |-> None]
IdNext ==
    /\ MCNext
    /\ answered' = [k \in Key |->
          IF readings[k] = None /\ readings'[k] # None
          THEN IF k \in faulty THEN None ELSE attached[k]
          ELSE answered[k]]
IdSpec == IdInit /\ [][IdNext]_idvars

(* "Return an identifier that follows the disk between paths and hosts"    *)
(* (models.py:211), "Disks are identified by WWN or serial number instead  *)
(* of their /dev path" (CHANGELOG.md:12): when a poll publishes the entry  *)
(* of a disk that reports an identifier, no other disk answered this poll  *)
(* on the path of the entry.                                               *)
EntryFollowsDisk ==
    [][Publish => \A d \in Disk \ Anonymous :
          data'[d] # None => answered[data'[d].spec] \in {d, None}]_idvars
=============================================================================
