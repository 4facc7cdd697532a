# SMART Disk Monitor in TLA+

This directory specifies the Home Assistant integration *SMART Disk Monitor*
(`src/custom_components/smart_monitor`) and its library *aiosmartctl*
(`src/library/src/aiosmartctl`). The integration logs in to a host over SSH every
five minutes, runs `smartctl` for every disk and shows each disk as a device with
sensors and self-test buttons.

Line numbers are those of the modelled commit. Paths below are short:
`coordinator.py`, `entity.py`, `__init__.py`, `button.py`, `config_flow.py`,
`sensor.py` and `binary_sensor.py` are in `src/custom_components/smart_monitor`,
`client.py`, `parser.py` and `models.py` in `src/library/src/aiosmartctl`.

## 1. The system

| Part | State | Operations | What makes it hard | Correct when |
|---|---|---|---|---|
| Coordinator (`coordinator.py`) | `data` (disk ID to last reading), `_disk_ids` (path to disk ID), success of the last poll | set up, poll, reload | A sleeping or failing disk does not say who it is; paths move, also during a poll; any command fails | Readings reach the entry of their disk, last values survive sleep and errors, a host that works again is shown correctly |
| Session (`client.py`) | connection, semaphore, `smartctl_version` | connect, get_host_info, discover, get_disk(s), start/abort a self-test, close | Parallel tasks share the version and the semaphore; `asyncio.gather` leaves tasks running when one fails; timeouts | Bounded parallelism, whole results or an error, everything ends, the connection is closed |
| Parsers and model (`parser.py`, `models.py`) | none | parse_scan, parse_lsblk, parse_smartctl, deduplicate, identifier | Output cut short, three protocols, two formats | Each output has the outcome the coordinator expects, both formats are read alike where smartctl prints the same, lists lose and repeat nothing |
| Disk entities (`entity.py`) | closure `added`, the registries of Home Assistant | add new entities after each poll, available | Disks seen first asleep; deleted devices; reloads | Every disk has its entities, none twice |
| Sensors (`sensor.py`, `binary_sensor.py`) | none | which entities a disk has, their states | Options of enumerations, symptoms of four sources | Every problem and every running test is shown, no state Home Assistant refuses |
| Entry setup (`__init__.py`) | `runtime_data` | setup, unload, allow device removal | Setup fails and is retried; removal while a disk is gone for a moment | Nothing of an old coordinator survives |
| Self-test buttons (`button.py`) | none | press | The disk is looked up again after the connection is made; polls, reloads and other presses meanwhile | The test runs on the disk of the button and is shown |
| Config flows (`config_flow.py`) | `_data` of a flow; the entry's data and unique ID | user, confirm_host_key, reauth, reconfigure, options | Awaits between showing, confirming, checking and pinning a host key; flows race | The pinned key is the confirmed one; one entry per host |
| Diagnostics, card, translations, scripts | none | | | not modelled (section 8) |

Interaction. Home Assistant's `DataUpdateCoordinator` calls the coordinator from a
timer or on request, one refresh at a time. The coordinator opens a session, which
lists the paths and reads them in parallel, and files the readings. Listeners
(entities) are then called synchronously. A button opens a session of its own and
requests a refresh. An authentication failure stops the timer and starts the
reauthentication flow (`ConfigFlow`), which ends with a reload of the entry.

## 2. Modules

| Module | What it is |
|---|---|
| `Coordinator` | The coordinator against a changing host: polls, readings, IDs, merging. |
| `DiskEntities` | Extends `Coordinator` with the listener that adds entities, deleted devices and unloading. |
| `Session` | One SSH session: connection, semaphore, version check, discovery, parallel reads, errors. |
| `DiskPoll` | The abstract poll: all listed disks or one error, once. `Session` implements it. |
| `ConfigFlow` | The flows that add, reauthenticate and reconfigure a host, the entries they write and the hosts behind them. |
| `SelfTestButton` | Extends `Coordinator` with presses of the self-test buttons. |
| `Parser` | The parsers as pure functions on what their input says. |
| `Sensors` | Extends `Parser` with the entities of a disk and their states, and states what must hold of both. |
| `EntityHistory`, `PressHistory`, `FlowHistory` | Extend `DiskEntities`, `SelfTestButton` and `ConfigFlow` with history variables, and state what needs them. |
| `MCCoordinator`, `MCIdentity`, `MCDiskEntities`, `MCSession`, `MCConfigFlow`, `MCSelfTestButton`, `MCSensors` | Instances for TLC: bounds and families of inputs. |
| `CoordinatorProofs`, `DiskEntitiesProofs`, `SelfTestButtonProofs`, `PressHistoryProofs`, `SessionProofs`, `ConfigFlowProofs`, `FlowHistoryProofs`, `SensorsProofs` | Theorems for every value of the constants. |

### Coordinator

The environment is `attached` (the disk behind each path), `asleep`, `faulty` (paths
that smartctl cannot open) and `wear` (a meter of each disk that only grows: power-on
hours, power cycles, bytes written, reallocated sectors). It changes in any
state, also between two reads of the same poll.

A `Disk` of the code is a record: `spec` (the path), `identifier` (`Disk.identifier`,
`models.py:209-217`, here the disk itself or `None`), `values` (which disk they
are from and its meter at that time, or `None`), `standby` and `error`. The four
outcomes of `parse_smartctl` are `Unreadable`, `Standby`, `Fresh` and `Blank`; the
last is what output that is cut short yields (section 5). A disk ID is the
identifier, or for a disk without one the path (`coordinator.py:115`; the
unique ID of the entry in front of it is constant).

| Action | Code |
|---|---|
| `Setup`, `SetupFails` | `_async_setup` (61-77). Home Assistant retries a failed setup with a new coordinator, but not after an authentication failure. |
| `StartPoll` | `_async_update_data` up to the reads (79-89), with `discover` (`client.py:300-316`) |
| `ReadDisk` | `get_disk` for one path (`client.py:318-338`), in any order |
| `Publish` | the loop (102-128), in one step: it has no await. `Kept` is `deduplicate`, `DiskId` the ID, `Stored` and `Merge` the branches; a later path overwrites an earlier one (`Last`) |
| `PollFails` | the `except` clauses (90-100) |
| `Reload` | unload and set up anew, or a restart of Home Assistant |

The keys are numbers so that the order of the list, which decides which of two
readings of one disk is kept or overwritten, can be expressed. Two simplifications: a
path is always listed in this order, and `--scan-open` lists a path exactly if a
disk is there and can be opened at the time of the scan.

### DiskEntities

`added` is the closure variable of `entity.py:80`, `entities` what Home Assistant
holds, `devices` the device registry. Two descriptions stand for all: `standby`, which
exists for every disk, and `power_on_hours`, which exists once the disk reports the
value. The three platforms run the same code on disjoint descriptions, so one `added`
stands for three.

### Session

`at` is what each coroutine is doing, `slot` whether its command waits for the
semaphore or runs, and `permits` the value of the semaphore: `Acquire` takes a permit, and
whatever ends a command that had one gives it back (`Goes`, the `async with` of
`client.py:249`). Commands that do not go through `_smartctl` (`Limited` does not hold)
take none. A step is what one coroutine does between two awaits. `Main` is the
coroutine that called `session()`; every path has a task of `asyncio.gather`. The jobs
are the three the integration has: `setup` (get_host_info), `poll` (get_disks, with
given paths or discovered ones) and `self_test`. Errors of commands are
`connection` (timeout, lost or closed connection) and `command` (smartctl or sudo
not usable, unexpected version, refused self-test). A task that outlives a failed poll
goes on with its command until that fails.

### SelfTestButton

`press` holds the press of each disk: the await `async_press` is at (`step`), the path
an error would name (`named`), the path of the command (`target`), smartctl's answer,
and, after a reload, that it still belongs to the old coordinator (`orphan`) with the
data that one had (`kept`). `testing` is the set of disks that run a test, `requested`
a refresh that was requested and has not begun.

| Action | Code |
|---|---|
| `Push` | Home Assistant calls `async_press` of an available entity |
| `Begin` | `async_press` up to the connection (84-88), when the semaphore of the platform is free |
| `Run` | `_run` (99-105): `self.disk.spec` is read again |
| `Execute` | smartctl on the host: the path does not open, the disk refuses, or it does it |
| `Return` | `async_request_refresh` (97); Home Assistant drops the request during a refresh |
| `Raise` | `HomeAssistantError` (90-96) at any step: no connection, timeout, lost connection |
| `ReloadButtons`, `StartRefresh` | a reload orphans the presses, a poll serves the request |
| `TestEnds` | external: the disk completes or loses its test |

One press per disk at a time; `"start"` stands for the three buttons that start a test.
The session within a press is the job `self_test` of `Session`.

### Parser and Sensors

A report is what smartctl knows of a disk (`Report`): it prints it as JSON, as text
(before version 7), or the output is cut short. The parsers are functions on reports:
`Health` is `_health`, `SelfTests` the three logs, `Used` the endurance from the ATA
table, `Temperature`, `Hours`, `Cycles` and `Counters` the values of several sources in
the order the code takes them, `ParseJson`, `ParseText` and `ParseCut` what
`parse_smartctl` returns. A text is a set of the words the code looks for. A row of the
attribute table has two raw values: `raw`, the single number of 48 bits of the JSON
(`parser.py:345`), and `printed`, the first number in the column of the text
(`parser.py:435`), for smartctl prints many raw values in parts: 4295032833
(`test_parser.py:174`) is "1 1 1". `TextTable` is what the row pattern of the text makes of
the table: rows without a value, or whose raw column does not begin with a digit, are
lost. IDs may repeat; then the last row is the one `ata_attributes` keeps. The same way
`ParseScanJson`, `ParseScanText`, `ParseLsblk`, `Deduplicate` and `ParseHostInfo` work on
what is printed; `AddSpec` and `AddDisk` are the bodies of the loops of `_unique` and
`deduplicate`. A behaviour of `ParserSpec` is one call: `call` and then its `result`.
`Sensors` has the options, the computed states and the set of entities of a disk.

### ConfigFlow

`presents` and `accepts` are the hosts: the key at each address (`None` if it cannot be
reached) and the secret each host accepts. A host is its key, so a key that turns up at
another address is a host that moved. `entries` and `unique_id` are the stored entries,
`active` those that Home Assistant sets up or polls, and `flows` what each open flow is
doing: any number of flows that add a host, and one `reauth` and one `reconfigure` flow
per entry. A key stands for its fingerprint.

| Action | Code |
|---|---|
| `Poll` | setup or a poll: a missing or changed key or a rejected secret stops the entry and opens `reauth` (`__init__.py:42`, `coordinator.py:67`, `90`) |
| `UserSubmit`, `UserFetched`, `UserConfirm` | `async_step_user`, `_async_fetch_host_key`, `async_step_confirm_host_key` (`config_flow.py:196-247`) |
| `ReauthFetched`, `ReauthSubmit`, `StoreReauth` | `async_step_reauth_confirm` (280-328) |
| `ReconfigureSubmit`, `ReconfigureFetched`, `StoreReconfigure` | `async_step_reconfigure` (336-375) |
| `Login`, `LoginBreaks` | `_async_validate`, which all await; the host decides in `Login`, the flow goes on later |
| `CreateEntry` | `async_create_entry` (257) |
| `Reload`, `Restart`, `Close` | the options flow and reloads, a restart (flows are lost), a user who closes a form |

A step is what a flow does between two awaits. From Home Assistant the model takes that
`async_set_unique_id` ends a flow for a unique ID another flow has (`InProgress`, in
`UserConfirm` and `ReconfigureFetched`), that a reauthentication has the unique ID of its
entry from the start, that a new entry replaces one with its unique ID, and that `reauth`
is not opened while the entry has an open flow.

### Histories

Some promises are about what happened before: an entity is missing only if its device was
deleted (`removed`), an entry may be replaced only after a race (`raced`), a press may
rely on its path only while nothing was plugged there since it was read (`settled`,
`sure`). The history modules add these variables to the steps of the component
(`HistoryNext == Next /\ Record`) without guards of their own, so that every behaviour with
history is one of the component: `HistoryRefines`, `HistoryRefinesEntities` and
`HistoryRefinesButtons` prove it, and what is proved of the component holds with history.

## 3. Runs

| Run | Shows | Bounds |
|---|---|---|
| `Discovery` | `TypeOK`, `OwnEntry`, `OnePathPerEntry`, `MeterMonotone`, `ErrorsKeepDisks`, `ValuesKept` with discovered disks and the fallback to `lsblk`, which names other paths | 2 disks, 2 scanned paths and 1 of lsblk, 3 events |
| `Recovery` | liveness: `Recovery`, and up to the entities `EntityRecovery` | 2 disks, 2 paths, 3 events |
| `Entities` | `EntityTypeOK`, `EntitiesComplete`, `AddedOnce`, `OwnEntry`, `ErrorsKeepDisks` with given paths, a disk without identifier and truncated output | 2 disks, 2 paths, 2 events |
| `Session` | `SessionTypeOK`, `ParallelBound`, `FormatKnown`, `AllOrNothing`, `EverythingEnds`, `PollRefinement` | 3 disks, 2 slots |
| `ConfigFlow` | `FlowTypeOK`, `SentToConfirmed`, `IdentityKept`, `EntriesStay`, `Reauthenticated` | 2 addresses, 2 keys, 2 secrets, 2 entries, 2 user flows, 2 disturbances |
| `SelfTestButton` | `ButtonTypeOK`, `PressIsPolled`, `HitsOwnDisk`, `TestIsShown` | 2 disks, 2 paths, 2 presses, 1 event |
| `Sensors` | `OutcomeOK`, `ProblemShown`, `FormatsAgree`, `OptionsCover`, `RunningShown`, `PercentageSane`, `DevicesOnce`, `DisksKept`, `HostIsItself` | calls on nine families (246 956 states) of reports, scans, polls and host outputs |
| `LatestReading`, `EntryFollowsDisk`, `EveryDiskHasEntities`, `StoppedAsks`, `TestAccepted` | each refutes one statement of the repository (section 5) | |

An *event* is a change of the environment or a failure (`MaxEvents`); deleted devices
count too. Polls, reads and reloads are not bounded. `MaxWear` bounds the meter. The
initial topology is arbitrary, so no event is spent on reaching it. Two disks and two
paths suffice for what goes wrong in this code: it takes a disk that moves to another
path and another disk that takes its place, and every counterexample of section 5
needs at most four events. The theorems of section 6 have no bounds.

`Session` needs three tasks and two slots so that a task waits for the semaphore while
others run, fail or check the version. The session ends, so that run does not check
deadlock; `EverythingEnds` says that it ends everywhere. `ConfigFlow` does not check
deadlock either: without entries and users nothing happens.

In `ConfigFlow` a *disturbance* is a changed host, a failed connection, a restart, a
wrong secret, a form closed or a submission of the user or reconfigure flow
(`Disturbance`); everything else is unbounded. What the hosts present at first is
arbitrary, so the races need one or two disturbances: a reinstalled host whose entry asks
for reauthentication while the user reconfigures it to the address its old key now has, or
adds it anew. The first race does no harm: the reauthentication has the unique ID of the
entry, so the reconfiguration ends at its check as long as the prompt is open, and no prompt
opens while the reconfiguration is. `IdentityKept` therefore has no exception; without that
check of other flows (`InProgress` in `ReconfigureFetched`) it would fail within these
bounds. In the second race the reauthentication gives the entry the ID of the host being
added, whose flow has made its check already, and the new entry then replaces it:
`EntriesStay` excepts exactly these entries (`raced`).

In `SelfTestButton` one event is enough with two presses: the topology, the tests that
run and the sleeping disks are arbitrary at first, polls, reads, reloads and the end of
tests are unbounded, so a single replugging between two polls moves a disk in the data
while a press connects. `HitsOwnDisk` is about presses whose disk the published reading
showed awake on a path where nothing was plugged since (`Settled`); for others
`EntryFollowsDisk` says what goes wrong. `TestIsShown` excepts presses that succeed
while a poll is in flight (`merged`): its readings may be older than the test.

`Sensors` enumerates families instead of all reports, since the code treats
its parts independently: outcomes (exit status, sleep, format, protocol), attribute
tables of up to three rows (with repeated IDs, raw values printed in parts and rows that are
not legible in tables of two), life-left values, all 256 self-test statuses, logs of two
entries, NVMe warnings and logs, SCSI values and logs with gaps; lists of up to three
devices and four disks; host outputs whose os-release repeats the script's names. A call
ends, so the run does not check deadlock.

Symmetry is used in `Discovery` and `SelfTestButton`, which check no liveness.

## 4. Fairness

`FairSpec` of `Coordinator` assumes weak fairness of setup, of the timer's poll while
authentication has not failed (Home Assistant stops the timer then), of the reads and
of publishing: the event loop runs them, and every command ends by
`command_timeout`, every connection attempt by `connect_timeout`. Failures and the
environment are never forced. `Recovery` speaks of behaviours in which failures,
reloads and changes of the host stop at some point; it does not assume anything of
what was remembered before.

`FairSpec` of `Session` assumes weak fairness of each coroutine; asyncio's semaphore
wakes its waiters in order. That a running command ends, by succeeding or by failing,
is the timeout.

`Fairness` of `ConfigFlow` assumes weak fairness of setup and polls, of every await of a
flow, and of a user who wants the entries to work: who answers a prompt with the secret
of the host shown, closes a form that cannot succeed or is in the way, and reloads an
entry that is stopped without a prompt. `Reauthenticated` shows that this is enough once
the disturbances stop, and `StoppedAsks` that the last part is needed.

## 5. What the code does otherwise than the repository says

1. `LatestReading` (`coordinator.py:105`). "The data maps a stable disk ID [...] to
   the latest reading of that disk" (`coordinator.py:36`). Disk *a* moves from path 2
   to path 1, another disk, asleep, takes path 2. The poll reads *a* on path 1; then
   path 2 answers without a name, is filed as *a*, because `_disk_ids` still
   remembers *a* there, and replaces the fresh reading by the previous one.
2. `EntryFollowsDisk` (`coordinator.py:105`). "Return an identifier that follows the
   disk between paths and hosts" (`models.py:211`). A sleeping disk at a path where
   another was is published as that other one; its self-test buttons
   reach the sleeping disk.
3. `EveryDiskHasEntities` (`entity.py:80`). "Add entities for every disk, including
   disks that show up later" (`entity.py:75`). Not for a disk whose device was deleted
   while it was gone.
4. `StoppedAsks` (`config_flow.py:292`). "Hosts added with 1.x must be confirmed again:
   Home Assistant asks" (`CHANGELOG.md:10`). Not if the host is off when Home Assistant
   starts: the entry is stopped without connecting, the reauthentication flow finds no
   host key and aborts, and nothing asks when the host is back. The same happens to
   a host whose key changed (`SECURITY.md:30`) and that goes away at that moment.
5. `TestAccepted` (`client.py:359`). "Start a self-test; smartctl returns as soon as the
   disk accepted it" (`client.py:357`). Only the exit bits of the command line and of
   opening the device make an error; a disk that refuses because a test runs sets another
   one, and the press ends as if the test had begun.

Two more show in the model and have no run of their own. A disk that one poll does not
list and the next finds asleep is published in standby without values, because last
values are those of the poll before (`coordinator.py:117`; `README.md:39`: "their last
values are kept"); the properties speak of entries that stay. Output that is cut short
is parsed as text (`parser.py:163-171`) into a blank `Disk` that replaces the last
reading (`coordinator.py:118`: "Keep the last reading of a sleeping or unreadable
disk"); `ValuesKept` is stated for hosts whose output is whole (`Garbles` is `FALSE`
in `Discovery`, and an assumption of the theorem).

What holds nevertheless: a disk that *names itself* never lands in a foreign entry
(`OwnEntry`), no two entries share a path (`OnePathPerEntry`), the meters do not fall
(`MeterMonotone`), and discovery repairs every wrong memory (`Recovery`).

## 6. Theorems

`CoordinatorProofs` proves, for any disks, paths and options:
`TypeCorrect` (`[]TypeOK`), `EntriesOwned` (`[]OwnEntry`), `PathsDisjoint`
(`[]OnePathPerEntry`), `MeterIsMonotone`, `ListedDisksStay` (`ErrorsKeepDisks`) and
`ValuesAreKept` (`ValuesKept`, without truncated output).

None of these is inductive. `IInv` adds to `TypeOK`
- `ReadingInv`: a reading in flight that names itself carries values of that disk, not
  ahead of its meter (the environment wears the disk while the poll goes on);
- `EntryInv`: so does an entry that names itself, and **the path of every entry is
  remembered for it**. This is the link between `data` and `_disk_ids` that makes
  `OnePathPerEntry` and `ErrorsKeepDisks` hold: two entries on one path would need
  two IDs remembered for it;
- `MeterInv`: a reading in flight is not behind what is published for its disk.

`ListedDisksStay` also needs that `deduplicate` keeps one reading of every identifier
(`SomeKept`), and `ValuesAreKept` that a reading is in standby, an error or has values
(`ReadInvariance`).

`SessionProofs` proves `SessionTypeCorrect`, `FormatAlwaysKnown` (`[]FormatKnown`),
`PollsAreWhole` (`[]AllOrNothing`) and `ParallelBounded` (`[]ParallelBound`) for any
finite set of disks and any `max_parallel`. The invariants are `PhaseInv` (no task runs
before the gather, only listed disks have one, and a session about to succeed has read
all of them) and `VersionInv` (a known version is the host's; nobody reads before it is
known). `ParallelBound` does not follow from the guard of `Acquire` alone, which only looks at
the permits left: `PermitsInv` is the accounting that permits left and running commands add
up to `max_parallel`, and that only commands through `_smartctl` wait for a permit. It fails
if any path starts a command beside the semaphore, gives a permit back twice or not at all
(`GoesReleases`, `PermitsStep`); the mutant of its run sends the version checks of a poll
past it. It says what a session awaits: a command that timed out may still run on the host,
and each session has a semaphore of its own.

`ConfigFlowProofs` proves `FlowTypeCorrect` (`[]FlowTypeOK`) and
`CredentialsAfterConfirmation` (`[]SentToConfirmed`) for any hosts, entries and
concurrent flows. `SentToConfirmed` is not inductive: `IInv` adds that every pinned key,
every unique ID and the key of every flow that logs in was confirmed. A reconfiguration
confirms nothing itself: its key is trusted because it equals the unique ID, which is
where the check of `config_flow.py:350` enters the proof. Most actions replace the record
of one flow, which the lemmas `OneFlow` and `FlowStep` cover once.

It also proves `EntriesKeepIdentity` (`[]IdentityKept`). `IdInv` adds what flows still know
between their check and their end: an open reauthentication has the unique ID of its entry,
a reconfiguration past its check has the entry's ID as its key and no reauthentication
beside it, and a host being added has its own key as ID. The middle part is where the race
of the two flows of an entry is excluded: at the check because a prompt would have the ID
(`ReconfigureFetchedKeepsId`), later because no prompt opens (`PollKeepsId`).

`DiskEntitiesProofs` and `SelfTestButtonProofs` first show that the two extensions
implement the coordinator: `EntitiesRefine` (`EntitySpec => Spec`) and `ButtonsRefine`
(`ButtonSpec => Spec`, where a command that reaches a sleeping disk is a `WakeUp`). So
all that is proved of the coordinator holds with them (`EntitiesKeepDisks`,
`PressesKeepEntries`), and their own invariants may use `TypeOK` in every step:
`EntityTypeCorrect` (`[]EntityTypeOK`), `NoneAddedTwice` (`AddedOnce`) and
`ButtonTypeCorrect` (`[]ButtonTypeOK`). The last one holds because a press takes the
semaphore only when no other press of the loaded entry holds it, and a reload, which
hands out a new one, orphans them all (`ReloadKeeps`).

`FlowHistoryProofs` proves `EntriesAreNotReplaced` (`EntriesStay`). `RaceInv` says what a flow
that adds a host still knows after its check, while it logs in: no entry has this host,
except for those in `raced`. That `raced` grows exactly where `StoreReauth` changes a unique
ID under such a flow is what makes it inductive, next to `IInv` of `ConfigFlowProofs`.

`DisksHaveEntities` (`[]EntitiesComplete`, in `DiskEntitiesProofs`) rests on
`Remembered`: `added` has every description a published disk reports, and what is
in `added` is still in the registry unless its device was deleted.

`PressHistoryProofs` proves `PressesArePolled` (`[]PressIsPolled`), `ButtonsHitTheirDisk`
(`HitsOwnDisk`) and `TestsAreShown` (`TestIsShown`). Its invariant `Known` is a chain from the
reads of a poll to the command of a press: a reading of this poll names the disk that is
still behind its path (`reread`), so does what is published from it (`settled`), so the
target of a command on its way is the path of its disk (`sure`); and a disk with
a press that succeeded is read between the command and the end of the next poll (`unread`).

`SessionsArePolls` (in `SessionProofs`) is the refinement of `DiskPoll` by `Session`, step by
step: `PollInitial` and `PollStep`. Besides `PhaseInv` it needs that paths are
discovered only when none were given (`DiscoverInv`).

`SensorsProofs` proves of every report, with tables and logs of any length,
`OutcomesAreRight`, `OptionsAlwaysCover`, `ProblemIsShown`, `EnduranceIsPercentage`,
`RunningIsShown` and `FormatsAlwaysAgree`, and of lists of any length `DevicesAreFoundOnce`,
`DisksAreKept` and `HostKeepsItsName`. The invariants are `Answered` and `AnsweredLists`:
the result is what the parser makes of its input. `MinInSet` and `MaxInSet` (from
well-founded induction on the naturals) give the first and the last row the functions
choose. The lists are folds of the community modules. The induction theorems of the library
cannot be used here, so the proofs argue by least counterexample: `FoldExists` shows that a
fold over every set of indices exists, since the shortest list without one would have
a prefix with one; `UniqueSteps` and `DeduplicateSteps` turn that into one step for each
element; `UniqueKeeps` and `DeduplicateKeeps` say what those steps add up to.

Assumptions: the named `ASSUME`s of the modules, which TLC evaluates in the runs.
`KeyAssumption` says that every non-empty set of paths has a first and a last one, which
holds for every finite set of numbers. `ReportAssumption` is about smartctl: its exit bit
for a failing attribute comes with the row of that attribute, a raw value that is printed is
in the JSON, only an NVMe drive has the
NVMe log, only an ATA disk has an attribute table, and the self-test status is a byte.
`FormatsAlwaysAgree` has its limits in its statement: counters and hours are read alike if
the text prints their raw value whole (`Whole`), temperatures if the low byte comes first
(`LowByteFirst`), what comes from the table if every row is legible (`AllLegible`), and the
health if no ID repeats (`DistinctIds`). `ProblemIsShown` needs the last one in one
direction: a row that fails may be replaced by a later one with its ID.
`ScanAssumption` says that smartctl names devices in a form `DeviceSpec.parse` takes;
`DevicesOnce` would not hold of a device with a relative path, which only the JSON form
accepts. `HostAssumption` is the script of `client.py:40-48`: it prints the names of the
host and of the kernel once and before os-release, and os-release names a distribution, not
the product on top of it.

Only model-checked: the liveness properties (`Recovery`, `EntityRecovery`,
`EverythingEnds`, `Reauthenticated`) and the fairness of `PollRefinement`, which are out of
the prover's reach. Every other property of a passing run is also a theorem. The findings
(section 5) are counterexamples and have no theorem.

## 7. Plan

1. (done) `Coordinator`, `DiskEntities`, `Session`, `DiskPoll`, `ConfigFlow` with their
   proofs: the core of the system.
2. (done) `SelfTestButton`: a press, composed with `Coordinator`.
3. (done) `Parser` and `Sensors`: the pure functions, and what is shown.
4. (done) Proofs of `DiskEntities`, `SelfTestButton` and `Sensors`.
5. (done) Histories and their proofs, the refinement of `DiskPoll` by `Session`, the two
   formats, lists and host information as theorems.
6. Left: theorems that bound the findings, such as which memory of paths makes
   `LatestReading` hold.

## 8. Not modelled

Diagnostics (a redacted dump of the data), the constants and exports, the Lovelace card
(rendering in the browser), translations, icons and the manifest (static data) and the
maintenance scripts (development tooling). Within the modelled parts: the wording of
commands, messages and logs, the units and display options of sensors, and Home Assistant
itself, whose scheduler, registries and retries appear as the code relies on them. Of the
parsers: the conversion of numbers and texts (`_int`, `_str`, `_wwn`, the row pattern of
the text table beyond which rows it matches and which number it takes), model, vendor, firmware and capacity, bytes read and written, the
remaining percentage of a test, and exceptions: `json.loads` of a cut device list
(`parser.py:83`, `110`) raises what Home Assistant treats as an unexpected error, with the
effect of `PollFails`.
