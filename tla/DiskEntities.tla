----------------------------- MODULE DiskEntities -----------------------------
(***************************************************************************)
(* The entities of the disks (entity.py) on top of the coordinator: each   *)
(* platform listens to the coordinator and adds, after every poll, the     *)
(* entities of disks and values it has not seen before, remembering them   *)
(* in the closure variable `added`.  The user may delete the device of a   *)
(* disk that is gone (async_remove_config_entry_device), which deletes its *)
(* entities; a reload drops entities and closures, not the devices.        *)
(*                                                                         *)
(* The three platforms have disjoint descriptions and run the same code,   *)
(* so one `added` stands for their three.  Adding, which Home Assistant    *)
(* schedules as a task, ends before the next poll.                         *)
(***************************************************************************)
EXTENDS Coordinator

VARIABLES
    added,      \* (disk ID, description) pairs the listener has handled
    entities,   \* the entities Home Assistant holds
    devices     \* the disk IDs that have a device in the device registry

evars == <<added, entities, devices>>
allvars == <<vars, added, entities, devices>>

(* Two descriptions tell all apart: "standby" (like "health") exists for   *)
(* every disk, "power_on_hours" (like the other sensors and the self-test  *)
(* buttons) once the disk reports the value.                               *)
Description == {"standby", "power_on_hours"}
exists_fn(description, disk) == description = "standby" \/ disk.values # None

EntityKey == ID \X Description

EntityTypeOK ==
    /\ TypeOK
    /\ added \subseteq EntityKey
    /\ entities \subseteq added
    /\ devices \subseteq ID
    \* No entity without its device, none while the entry is not loaded.
    /\ \A e \in entities : e[1] \in devices
    /\ ~loaded => added = {}

(* SmartMonitorEntity.available                                            *)
Available(i) == status = "ok" /\ data[i] # None /\ ~data[i].error

(* _add_new_entities, for the data just published.                         *)
NewEntities == {e \in EntityKey : /\ data'[e[1]] # None
                                  /\ e \notin added
                                  /\ exists_fn(e[2], data'[e[1]])}

AddForgets ==   \* mutant: added.add(...) is missing
    /\ entities' = entities \cup NewEntities
    /\ added' = added
    /\ devices' = devices \cup {e[1] : e \in NewEntities}
AddOncePerDisk ==   \* mutant: remembers the disk instead of the pair
    /\ entities' = entities \cup NewEntities
    /\ added' = added \cup {e \in EntityKey : data'[e[1]] # None}
    /\ devices' = devices \cup {e[1] : e \in NewEntities}
AddNewEntities ==
    /\ entities' = entities \cup NewEntities
    /\ added' = added \cup NewEntities
    /\ devices' = devices \cup {e[1] : e \in NewEntities}

(* A poll succeeded: the first one lets async_setup_entry forward the      *)
(* platforms, which add entities at once; later ones notify the listeners. *)
PublishAndAdd == Publish /\ AddNewEntities

(* async_remove_config_entry_device needs runtime_data, so a loaded entry; *)
(* Home Assistant then deletes the device and its entities.                *)
RemoveDevice(i) ==
    /\ loaded /\ i \in devices /\ data[i] = None
    /\ devices' = devices \ {i}
    /\ entities' = {e \in entities : e[1] # i}
    /\ UNCHANGED <<vars, added>>

(* async_unload_entry, or a restart of Home Assistant.                     *)
ReloadKeepsAdded ==   \* mutant: `added` outlives the platform
    /\ Reload
    /\ entities' = {}
    /\ UNCHANGED <<added, devices>>
ReloadAndUnload ==
    /\ Reload
    /\ added' = {} /\ entities' = {}
    /\ UNCHANGED devices

Silent == Environment \/ Setup \/ StartPoll \/ Reads \/ Fails

EntityInit == Init /\ added = {} /\ entities = {} /\ devices = {}

EntityNext ==
    \/ PublishAndAdd
    \/ ReloadAndUnload
    \/ \E i \in ID : RemoveDevice(i)
    \/ Silent /\ UNCHANGED evars

EntitySpec == EntityInit /\ [][EntityNext]_allvars

-----------------------------------------------------------------------------
(* Home Assistant is never handed an entity it already holds, which it     *)
(* would reject as a duplicate unique ID ("added", entity.py:80).          *)
AddedOnce == [][Publish => NewEntities \cap entities = {}]_allvars

(* "Add entities for every disk, including disks that show up later"       *)
(* (entity.py:75): each published disk has the entities of the values it   *)
(* reports.  A disk whose device was deleted and that comes back has none. *)
EveryDiskHasEntities ==
    \A i \in ID : data[i] # None =>
        \A d \in Description : exists_fn(d, data[i]) => <<i, d>> \in entities
=============================================================================
