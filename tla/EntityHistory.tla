----------------------------- MODULE EntityHistory -----------------------------
(* DiskEntities with a history variable: what the listener promises but    *)
(* for the devices that the user deleted.                                  *)
EXTENDS DiskEntities

VARIABLE removed   \* disk IDs whose device was deleted since the load

historyvars == <<allvars, removed>>

Record == removed' = IF loaded' THEN removed \cup (devices \ devices') ELSE {}

HistoryInit == EntityInit /\ removed = {}
HistoryNext == EntityNext /\ Record
HistorySpec == HistoryInit /\ [][HistoryNext]_historyvars

(* As long as no device was deleted since the entry was loaded, every      *)
(* published disk has the entities of the values it reports: those of a    *)
(* disk that showed up asleep come when it is first read (entity.py:77).   *)
EntitiesComplete ==
    \A i \in ID \ removed : data[i] # None =>
        \A d \in Description : exists_fn(d, data[i]) => <<i, d>> \in entities
=============================================================================
