----------------------------- MODULE Coordinator -----------------------------
(***************************************************************************)
(* SmartMonitorCoordinator (coordinator.py): every five minutes it reads   *)
(* all disks of one host over SSH (SmartctlSession.get_disks) and          *)
(* publishes a dictionary from disk ID to the latest reading of that disk. *)
(* What makes it hard is that a disk names itself (WWN or serial number)   *)
(* only when it can be read.  A sleeping or failing disk answers without a *)
(* name, and the coordinator then files the answer under the ID it         *)
(* remembers for the device path (_disk_ids).  Paths move: disks are hot   *)
(* plugged, and a reboot may enumerate them in another order.              *)
(*                                                                         *)
(* The environment (disks and host) changes at any moment, also between    *)
(* two reads of the same poll; one poll is in flight at a time, because    *)
(* Home Assistant's DataUpdateCoordinator serialises refreshes with the    *)
(* lock of its debouncer.  SMART values are abstracted to one meter per    *)
(* disk that only grows (power-on hours, bytes written, reallocated        *)
(* sectors): a reading carries the disk it was taken from and the meter.   *)
(***************************************************************************)
EXTENDS Naturals, FiniteSets

CONSTANTS
    Disk,          \* the physical disks
    Anonymous,     \* disks that report neither WWN nor serial number
    Key,           \* DeviceSpec.key of the paths, in the order they are listed
    ManualKeys,    \* the "Devices" option of the entry; {} discovers the disks
    ScanKeys,      \* the paths smartctl --scan-open can report
    LsblkKeys,     \* the paths lsblk can report
    SkipStandby,   \* the "Do not wake up sleeping disks" option
    Garbles,       \* whether a command can end with truncated output
    MaxWear,       \* bound of the meter of a disk
    None           \* Python's None

ASSUME DiskAssumption ==
    Anonymous \subseteq Disk /\ None \notin Disk
ASSUME KeyAssumption ==
    /\ Key \subseteq Nat
    /\ ManualKeys \subseteq Key /\ ScanKeys \subseteq Key /\ LsblkKeys \subseteq Key
    \* Paths are listed in a fixed order; a non-empty list has two ends.
    /\ \A S \in SUBSET Key : S # {} => /\ \E m \in S : \A k \in S : k <= m
                                     /\ \E m \in S : \A k \in S : m <= k
ASSUME IdAssumption ==
    Disk \cap Key = {} /\ None \notin Key
ASSUME OptionAssumption ==
    SkipStandby \in BOOLEAN /\ Garbles \in BOOLEAN /\ MaxWear \in Nat

(* A disk ID is the identifier a disk reports, here the disk itself, or,   *)
(* for a disk that reports none, "<entry>_<key>", here the key.            *)
ID == Disk \cup Key

VARIABLES
    \* The host and its disks.
    attached,   \* the disk behind each path, None if there is none
    asleep,     \* the disks that are spun down
    faulty,     \* the paths smartctl cannot open now
    wear,       \* the meter of each disk
    \* The coordinator.
    pc,         \* "setup" (host info not read), "idle", "reading" (a poll)
    loaded,     \* the first refresh succeeded: the config entry is loaded
    status,     \* "ok" is last_update_success; otherwise why the poll failed
    specs,      \* the paths of the poll in flight
    readings,   \* its Disk for each path it has read
    disk_ids,   \* _disk_ids: the ID last filed for each path
    data        \* coordinator.data: the published Disk of each ID, or None

env   == <<attached, asleep, faulty, wear>>
coord == <<pc, loaded, status, specs, readings, disk_ids, data>>
vars  == <<attached, asleep, faulty, wear,
           pc, loaded, status, specs, readings, disk_ids, data>>

-----------------------------------------------------------------------------
(* The Disk dataclass, as far as the coordinator can tell readings apart:  *)
(* values is None for a Disk without SMART values.                         *)

Values   == [of : Disk, at : 0..MaxWear]
DiskData == [spec : Key, identifier : Disk \cup {None},
             values : Values \cup {None}, standby : BOOLEAN, error : BOOLEAN]

ASSUME NoneIsNoRecord == None \notin Values \cup DiskData

TypeOK ==
    /\ attached \in [Key -> Disk \cup {None}]
    /\ asleep \subseteq Disk
    /\ faulty \subseteq Key
    /\ wear \in [Disk -> 0..MaxWear]
    /\ pc \in {"setup", "idle", "reading"}
    /\ loaded \in BOOLEAN
    /\ status \in {"ok", "update_failed", "auth_failed"}
    /\ specs \subseteq Key
    /\ readings \in [Key -> DiskData \cup {None}]
    /\ disk_ids \in [Key -> ID \cup {None}]
    /\ data \in [ID -> DiskData \cup {None}]
    \* Nothing outlives a poll but what it published, nor a failed setup.
    /\ pc # "reading" => specs = {} /\ \A k \in Key : readings[k] = None
    /\ ~loaded => \A i \in ID : data[i] = None

(* What parse_smartctl makes of the output for path k: a Disk with nothing *)
(* but an error, one in standby, one that was read, and the blank Disk     *)
(* that output cut short yields.                                           *)
Unreadable(k) == [spec |-> k, identifier |-> None, values |-> None,
                  standby |-> FALSE, error |-> TRUE]
Standby(k)    == [spec |-> k, identifier |-> None, values |-> None,
                  standby |-> TRUE, error |-> FALSE]
Blank(k)      == [spec |-> k, identifier |-> None, values |-> None,
                  standby |-> FALSE, error |-> FALSE]
Identifier(d) == IF d \in Anonymous THEN None ELSE d
Fresh(k, d)   == [spec |-> k, identifier |-> Identifier(d),
                  values |-> [of |-> d, at |-> wear[d]],
                  standby |-> FALSE, error |-> FALSE]

(* get_disk: what the answer for path k, JSON or text, is parsed to now;   *)
(* output that is cut short says nothing, whatever the state of the disk.  *)
Answer(k) ==
    LET d == attached[k] IN
    IF d = None \/ k \in faulty THEN Unreadable(k)
    ELSE IF SkipStandby /\ d \in asleep THEN Standby(k)
    ELSE Fresh(k, d)
GetDisk(k) == {Answer(k)} \cup (IF Garbles THEN {Blank(k)} ELSE {})

(* discover: --scan-open leaves out paths it cannot open; when it finds    *)
(* nothing, lsblk lists what the kernel knows.                             *)
Present(S) == {k \in S : attached[k] # None}
Discover ==
    LET scan == Present(ScanKeys) \ faulty
    IN  IF scan # {} THEN scan ELSE Present(LsblkKeys)

-----------------------------------------------------------------------------
(* The loop of _async_update_data that files the readings of a poll.       *)

(* deduplicate: of the readings with one identifier, the first is kept.    *)
Kept == {k \in specs :
            \/ readings[k].identifier = None
            \/ \A j \in specs : j < k =>
                  readings[j].identifier # readings[k].identifier}

(* The ID a reading is filed under: the one it reports, else the one       *)
(* remembered for its path, else the path; None for a disk that cannot be  *)
(* told and has no values.                                                 *)
DiskIdByPath(k) ==   \* mutant: trusts the path before the name
    IF disk_ids[k] # None THEN disk_ids[k]
    ELSE IF readings[k].identifier # None THEN readings[k].identifier
    ELSE IF readings[k].standby \/ readings[k].error THEN None
    ELSE k
DiskId(k) ==
    IF readings[k].identifier # None THEN readings[k].identifier
    ELSE IF disk_ids[k] # None THEN disk_ids[k]
    ELSE IF readings[k].standby \/ readings[k].error THEN None
    ELSE k

Filed == {k \in Kept : DiskId(k) # None}

(* An error of a disk that has no earlier reading is only logged.          *)
StoredIfRead == {k \in Filed : ~readings[k].error}   \* mutant: errors drop disks
Stored == {k \in Filed : data[DiskId(k)] # None \/ ~readings[k].error}

(* The Disk to publish: a disk in standby or with an error keeps its old   *)
(* values, on the path of this reading.                                    *)
MergeOnOldPath(k) ==   \* mutant: replace() without spec=disk.spec
    LET new == readings[k]
        old == data[DiskId(k)]
    IN  IF old # None /\ new.standby
        THEN [old EXCEPT !.standby = TRUE, !.error = FALSE]
        ELSE IF old # None /\ new.error THEN [old EXCEPT !.error = TRUE]
        ELSE new
MergeOnlyStandby(k) ==   \* mutant: an error replaces the old reading
    LET new == readings[k]
        old == data[DiskId(k)]
    IN  IF old # None /\ new.standby
        THEN [old EXCEPT !.spec = k, !.standby = TRUE, !.error = FALSE]
        ELSE new
Merge(k) ==
    LET new == readings[k]
        old == data[DiskId(k)]
    IN  IF old = None THEN new
        ELSE IF new.standby
        THEN [old EXCEPT !.spec = k, !.standby = TRUE, !.error = FALSE]
        ELSE IF new.error
        THEN [old EXCEPT !.spec = k, !.error = TRUE]
        ELSE new

(* result[disk_id] = disk: the last reading filed under an ID stays.       *)
StoredAs(i) == {k \in Stored : DiskId(k) = i}
Last(S)     == CHOOSE k \in S : \A j \in S : j <= k
ResultKeepsGone ==   \* mutant: the loop starts from the previous data
    [i \in ID |-> IF StoredAs(i) = {} THEN data[i] ELSE Merge(Last(StoredAs(i)))]
Result      == [i \in ID |-> IF StoredAs(i) = {} THEN None
                             ELSE Merge(Last(StoredAs(i)))]

-----------------------------------------------------------------------------
(* What happens to the host and its disks.                                 *)

(* A disk is plugged in or pulled out, or a path is given to another disk. *)
Replug(k, d) ==
    /\ attached[k] # d
    /\ attached' = [attached EXCEPT ![k] = d]
    /\ UNCHANGED <<asleep, faulty, wear, coord>>

FallAsleep(d) ==
    /\ d \notin asleep /\ asleep' = asleep \cup {d}
    /\ UNCHANGED <<attached, faulty, wear, coord>>

WakeUp(d) ==
    /\ d \in asleep /\ asleep' = asleep \ {d}
    /\ UNCHANGED <<attached, faulty, wear, coord>>

Fault(k) ==
    /\ k \notin faulty /\ faulty' = faulty \cup {k}
    /\ UNCHANGED <<attached, asleep, wear, coord>>

Repair(k) ==
    /\ k \in faulty /\ faulty' = faulty \ {k}
    /\ UNCHANGED <<attached, asleep, wear, coord>>

Wear(d) ==
    /\ wear[d] < MaxWear
    /\ wear' = [wear EXCEPT ![d] = @ + 1]
    /\ UNCHANGED <<attached, asleep, faulty, coord>>

Environment ==
    \/ \E k \in Key, d \in Disk \cup {None} : Replug(k, d)
    \/ \E d \in Disk : FallAsleep(d) \/ WakeUp(d) \/ Wear(d)
    \/ \E k \in Key : Fault(k) \/ Repair(k)

-----------------------------------------------------------------------------
(* The coordinator.                                                        *)

Init ==
    /\ attached \in [Key -> Disk \cup {None}]
    /\ asleep \in SUBSET Disk
    /\ faulty = {}
    /\ wear = [d \in Disk |-> 0]
    /\ pc = "setup"
    /\ loaded = FALSE
    /\ status = "ok"
    /\ specs = {}
    /\ readings = [k \in Key |-> None]
    /\ disk_ids = [k \in Key |-> None]
    /\ data = [i \in ID |-> None]

(* _async_setup reads the host's information.  Home Assistant retries it   *)
(* with a new coordinator, except after an authentication failure.         *)
Setup ==
    /\ pc = "setup" /\ status # "auth_failed"
    /\ pc' = "idle"
    /\ UNCHANGED <<env, loaded, status, specs, readings, disk_ids, data>>

SetupFails(why) ==
    /\ pc = "setup" /\ status # "auth_failed"
    /\ status' = why
    /\ UNCHANGED <<env, pc, loaded, specs, readings, disk_ids, data>>

(* _async_update_data opens a session and lists the paths to read.         *)
StartPoll ==
    /\ pc = "idle"
    /\ pc' = "reading"
    /\ specs' = IF ManualKeys # {} THEN ManualKeys ELSE Discover
    /\ UNCHANGED <<env, loaded, status, readings, disk_ids, data>>

(* get_disk for one of them; they run in parallel and end in any order.    *)
(* Without skip_standby the command spins a sleeping disk up.              *)
ReadDisk(k) ==
    /\ pc = "reading" /\ k \in specs /\ readings[k] = None
    /\ \E r \in GetDisk(k) : readings' = [readings EXCEPT ![k] = r]
    /\ asleep' = IF SkipStandby \/ k \in faulty THEN asleep
                 ELSE asleep \ {attached[k]}
    /\ UNCHANGED <<attached, faulty, wear, pc, loaded, status, specs, disk_ids, data>>

(* get_disks returned: file what was read and publish it.                  *)
Publish ==
    /\ pc = "reading" /\ \A k \in specs : readings[k] # None
    /\ disk_ids' = [k \in Key |-> IF k \in Filed THEN DiskId(k) ELSE disk_ids[k]]
    /\ data' = Result
    /\ pc' = "idle" /\ loaded' = TRUE /\ status' = "ok"
    /\ specs' = {} /\ readings' = [k \in Key |-> None]
    /\ UNCHANGED env

(* The session or one of its commands failed: nothing that was read counts.*)
(* A first refresh that fails makes Home Assistant set the entry up anew.  *)
PollFailsHalfway(why) ==   \* mutant: what was read before the failure stays
    /\ pc = "reading"
    /\ pc' = IF loaded THEN "idle" ELSE "setup"
    /\ status' = why
    /\ specs' = {}
    /\ UNCHANGED <<env, loaded, readings, disk_ids, data>>
PollFails(why) ==
    /\ pc = "reading"
    /\ pc' = IF loaded THEN "idle" ELSE "setup"
    /\ status' = why
    /\ specs' = {} /\ readings' = [k \in Key |-> None]
    /\ UNCHANGED <<env, loaded, disk_ids, data>>

(* The entry is reloaded (also after reauthentication) or Home Assistant   *)
(* restarts: what the coordinator remembers is in memory only.             *)
Reload ==
    /\ pc' = "setup" /\ loaded' = FALSE /\ status' = "ok"
    /\ specs' = {} /\ readings' = [k \in Key |-> None]
    /\ disk_ids' = [k \in Key |-> None]
    /\ data' = [i \in ID |-> None]
    /\ UNCHANGED env

Failure == {"update_failed", "auth_failed"}
Fails   == \E why \in Failure : SetupFails(why) \/ PollFails(why)
Reads   == \E k \in Key : ReadDisk(k)

Next == Environment \/ Setup \/ StartPoll \/ Reads \/ Publish \/ Fails \/ Reload

Spec == Init /\ [][Next]_vars

(* The timer starts a poll every five minutes; it stops for good after an  *)
(* authentication failure (a refresh can then still be requested).  Every  *)
(* SSH command ends, at the latest by its timeout.                         *)
TimedPoll == status # "auth_failed" /\ StartPoll
Fairness  == /\ WF_vars(Setup) /\ WF_vars(TimedPoll)
             /\ WF_vars(Reads) /\ WF_vars(Publish)
FairSpec  == Spec /\ Fairness

-----------------------------------------------------------------------------
(* Properties that hold.                                                   *)

(* A Disk that names itself is published under its own name, with values   *)
(* taken from that disk: a path that moved never gives the name or the     *)
(* values of one disk that reports an identifier to the entry of another.  *)
OwnEntry ==
    \A i \in ID : data[i] # None =>
        /\ data[i].identifier \in {None, i}
        /\ data[i].identifier = i /\ data[i].values # None => data[i].values.of = i

(* Two entries never share a device path: the self-test buttons of two     *)
(* disks never run smartctl on one and the same device.                    *)
OnePathPerEntry ==
    \A i, j \in ID : data[i] # None /\ data[j] # None /\ data[i].spec = data[j].spec
                        => i = j

(* The TOTAL_INCREASING sensors (sensor.py:116, 124, 145, 158): as long as *)
(* a disk names itself, the values published for it never go back, however *)
(* reads, sleep, errors and path changes interleave.                       *)
MeterNeverFalls ==
    \A i \in ID :
        /\ data[i] # None /\ data'[i] # None
        /\ data[i].identifier # None /\ data'[i].identifier # None
        /\ data[i].values # None /\ data'[i].values # None
        => data[i].values.at <= data'[i].values.at
MeterMonotone == [][MeterNeverFalls]_vars

(* A poll drops an entry only if the path of the entry was not listed or   *)
(* another disk named itself there: errors and sleep never remove a disk.  *)
ListedStays ==
    \A i \in ID :
        /\ data[i] # None /\ data[i].spec \in specs
        /\ readings[data[i].spec].identifier \in {None, i}
        => data'[i] # None
ErrorsKeepDisks == [][Publish => ListedStays]_vars

(* "Keep the last reading of a sleeping or unreadable disk" (comment at    *)
(* coordinator.py:118): values once shown are not blanked by a later poll  *)
(* that still shows the disk.                                              *)
ValuesStay ==
    \A i \in ID :
        data[i] # None /\ data[i].values # None /\ data'[i] # None
        => data'[i].values # None
ValuesKept == [][Publish => ValuesStay]_vars

(* Once the host stops changing, every disk can be read, nobody reloads    *)
(* the entry and polls succeed, discovery corrects whatever was remembered *)
(* of earlier paths: each attached disk is shown with its current values   *)
(* on a path that reaches it, and a disk that is gone is shown no more.    *)
AllReadable ==
    /\ ManualKeys = {} /\ Anonymous = {} /\ ~Garbles
    /\ \A k \in ScanKeys : k \notin faulty /\ (SkipStandby => attached[k] \notin asleep)
    /\ \E k \in ScanKeys : attached[k] # None
    /\ status # "auth_failed"
Correct(d) ==
    IF \A k \in ScanKeys : attached[k] # d THEN data[d] = None
    ELSE /\ data[d] # None
         /\ attached[data[d].spec] = d
         /\ data[d].values = [of |-> d, at |-> wear[d]]
         /\ ~data[d].standby /\ ~data[d].error
Disturbance == Environment \/ Fails \/ Reload
Recovery ==
    <>[]AllReadable /\ <>[][~Disturbance]_vars => <>[](\A d \in Disk : Correct(d))

-----------------------------------------------------------------------------
(* What the repository says of the coordinator and the code does not do;   *)
(* refuted by a run.                                                       *)

(* "The data maps a stable disk ID [...] to the latest reading of that     *)
(* disk" (coordinator.py:36): a disk that named itself in a poll is shown  *)
(* with what this poll read from it.                                       *)
LatestReading ==
    [][Publish => \A k \in Kept : readings[k].identifier # None
                     => data'[readings[k].identifier] = readings[k]]_vars
=============================================================================
