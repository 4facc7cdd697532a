-------------------------- MODULE DiskEntitiesProofs --------------------------
(* Proofs about DiskEntities, for every set of disks and paths.            *)
EXTENDS EntityHistory, CoordinatorProofs

(* The listener and the registries do not disturb the coordinator: every   *)
(* step with entities is one of the coordinator or leaves it alone, so all *)
(* that CoordinatorProofs shows holds below the entities, too.             *)
LEMMA StepsOfCoordinator == [EntityNext]_allvars => [Next]_vars
BY DEF EntityNext, allvars, PublishAndAdd, ReloadAndUnload, RemoveDevice, Silent, Next

THEOREM EntitiesRefine == EntitySpec => Spec
<1>1. EntityInit => Init
  BY DEF EntityInit
<1> QED
  BY <1>1, StepsOfCoordinator, PTL DEF EntitySpec, Spec

(* OwnEntry and ErrorsKeepDisks, which the run checks with the entities.   *)
THEOREM EntitiesKeepDisks == EntitySpec => []OwnEntry /\ ErrorsKeepDisks
BY EntitiesRefine, EntriesOwned, ListedDisksStay, PTL

(* EntityTypeOK without TypeOK, which is inductive by itself.              *)
EntityInv ==
    /\ added \subseteq EntityKey
    /\ entities \subseteq added
    /\ devices \subseteq ID
    /\ \A e \in entities : e[1] \in devices
    /\ ~loaded => added = {}

LEMMA AddKeepsEntityInv ==
    ASSUME EntityInv, Publish, AddNewEntities
    PROVE  EntityInv'
<1>1. NewEntities \subseteq EntityKey
  BY DEF NewEntities
<1>2. \A e \in EntityKey : e[1] \in ID
  BY DEF EntityKey
<1>3. loaded'
  BY DEF Publish
<1>4. added' \subseteq EntityKey /\ entities' \subseteq added'
  BY <1>1 DEF EntityInv, AddNewEntities
<1>5. devices' \subseteq ID
  BY <1>1, <1>2 DEF EntityInv, AddNewEntities
<1>6. \A e \in entities' : e[1] \in devices'
  BY DEF EntityInv, AddNewEntities
<1> QED
  BY <1>3, <1>4, <1>5, <1>6 DEF EntityInv

LEMMA NextKeepsEntityInv ==
    ASSUME EntityInv, [EntityNext]_allvars
    PROVE  EntityInv'
<1>1. CASE PublishAndAdd
  BY <1>1, AddKeepsEntityInv DEF PublishAndAdd
<1>2. CASE ReloadAndUnload
  BY <1>2 DEF ReloadAndUnload, EntityInv
<1>3. ASSUME NEW i \in ID, RemoveDevice(i) PROVE EntityInv'
  BY <1>3 DEF RemoveDevice, EntityInv, vars
<1>4. CASE Silent /\ UNCHANGED evars
  <2>1. loaded' = loaded
    BY <1>4 DEF Silent, Environment, Replug, FallAsleep, WakeUp, Wear, Fault, Repair,
                Setup, StartPoll, Reads, ReadDisk, Fails, SetupFails, PollFails, coord
  <2> QED
    BY <1>4, <2>1 DEF EntityInv, evars
<1>5. CASE UNCHANGED allvars
  BY <1>5 DEF allvars, vars, EntityInv
<1> QED
  BY <1>1, <1>2, <1>3, <1>4, <1>5 DEF EntityNext

THEOREM EntityInvariance == EntitySpec => []EntityInv
<1>1. EntityInit => EntityInv
  BY DEF EntityInit, EntityInv
<1> QED
  BY <1>1, NextKeepsEntityInv, PTL DEF EntitySpec

(* No entity without its device and none that the listener does not        *)
(* remember, however polls, deletions and reloads interleave.              *)
THEOREM EntityTypeCorrect == EntitySpec => []EntityTypeOK
<1>1. TypeOK /\ EntityInv => EntityTypeOK
  BY DEF EntityInv, EntityTypeOK
<1> QED
  BY <1>1, EntitiesRefine, TypeCorrect, EntityInvariance, PTL

(* No entity is handed to Home Assistant while it has it.                  *)
THEOREM NoneAddedTwice == EntitySpec => AddedOnce
<1>1. EntityInv => (Publish => NewEntities \cap entities = {})
  BY DEF EntityInv, NewEntities
<1> QED
  BY <1>1, EntityInvariance, PTL DEF AddedOnce

-----------------------------------------------------------------------------
(* What the listener remembers of a disk is in the registry until the user *)
(* deletes the device, and it remembers all that the disks report.         *)
Remembered ==
    /\ \A e \in added : e[1] \notin removed => e \in entities
    /\ \A i \in ID, d \in Description :
           data[i] # None /\ exists_fn(d, data[i]) => <<i, d>> \in added

LEMMA StepsOfEntities == [HistoryNext]_historyvars => [EntityNext]_allvars
BY DEF HistoryNext, historyvars

LEMMA AddRemembers ==
    ASSUME Remembered, Publish, AddNewEntities, Record
    PROVE  Remembered'
<1>1. removed \subseteq removed'
  BY DEF Publish, Record
<1>2. \A e \in added' : e[1] \notin removed' => e \in entities'
  BY <1>1 DEF Remembered, AddNewEntities
<1>3. ASSUME NEW i \in ID, NEW d \in Description,
             data'[i] # None, exists_fn(d, data'[i]), <<i, d>> \notin added
      PROVE  <<i, d>> \in NewEntities
  BY <1>3 DEF NewEntities, EntityKey
<1>4. \A i \in ID, d \in Description :
          data'[i] # None /\ exists_fn(d, data'[i]) => <<i, d>> \in added'
  BY <1>3 DEF AddNewEntities
<1> QED
  BY <1>2, <1>4 DEF Remembered, exists_fn

LEMMA HistoryRemembers ==
    ASSUME Remembered, EntityInv, [HistoryNext]_historyvars
    PROVE  Remembered'
<1>1. CASE PublishAndAdd /\ Record
  BY <1>1, AddRemembers DEF PublishAndAdd
<1>2. CASE ReloadAndUnload /\ Record
  BY <1>2 DEF ReloadAndUnload, Reload, Remembered
<1>3. ASSUME NEW i \in ID, RemoveDevice(i), Record PROVE Remembered'
  <2>1. loaded' /\ data' = data /\ added' = added
    BY <1>3 DEF RemoveDevice, vars
  <2>2. \A e \in added' : e[1] \notin removed' => e \in entities'
    BY <1>3, <2>1 DEF RemoveDevice, Record, Remembered
  <2> QED
    BY <2>1, <2>2 DEF Remembered, exists_fn
<1>4. CASE Silent /\ UNCHANGED evars /\ Record
  <2>1. loaded' = loaded /\ data' = data
    BY <1>4 DEF Silent, Environment, Replug, FallAsleep, WakeUp, Wear, Fault, Repair,
                Setup, StartPoll, Reads, ReadDisk, Fails, SetupFails, PollFails, coord
  <2>2. CASE loaded
    <3>1. removed' = removed
      BY <1>4, <2>1, <2>2 DEF evars, Record
    <3> QED
      BY <1>4, <2>1, <3>1 DEF evars, Remembered, exists_fn
  <2>3. CASE ~loaded
    BY <1>4, <2>1, <2>3 DEF evars, Remembered, exists_fn, EntityInv
  <2> QED
    BY <2>2, <2>3
<1>5. CASE UNCHANGED historyvars
  BY <1>5 DEF historyvars, allvars, vars, Remembered, exists_fn
<1> QED
  BY <1>1, <1>2, <1>3, <1>4, <1>5 DEF HistoryNext, EntityNext

THEOREM HistoryRefinesEntities == HistorySpec => EntitySpec
<1>1. HistoryInit => EntityInit
  BY DEF HistoryInit
<1> QED
  BY <1>1, StepsOfEntities, PTL DEF HistorySpec, EntitySpec

(* Every published disk has the entities of all values it reports, also of *)
(* those it did not report at first, unless its device was deleted.        *)
THEOREM DisksHaveEntities == HistorySpec => []EntitiesComplete
<1>1. HistoryInit => Remembered
  BY DEF HistoryInit, EntityInit, Init, Remembered
<1>2. HistorySpec => []EntityInv
  BY HistoryRefinesEntities, EntityInvariance, PTL
<1>3. Remembered => EntitiesComplete
  BY DEF Remembered, EntitiesComplete
<1> QED
  BY <1>1, <1>2, <1>3, HistoryRemembers, PTL DEF HistorySpec
=============================================================================
