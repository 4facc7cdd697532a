---------------------------- MODULE SelfTestButton ----------------------------
(***************************************************************************)
(* The self-test buttons (button.py) on top of the coordinator.  A press   *)
(* opens an SSH session of its own, while polls, changes of the host and   *)
(* reloads go on, and looks the disk up twice in coordinator.data: before  *)
(* it connects, for the error message, and once it is connected, for the   *)
(* command.  PARALLEL_UPDATES = 1 lets the buttons of an entry run one     *)
(* after the other.  A press that succeeds requests a refresh.             *)
(*                                                                         *)
(* A step below is what async_press does between two awaits, or what the   *)
(* host does.  One press per disk at a time; "start" stands for the three  *)
(* buttons that start a test.                                              *)
(***************************************************************************)
EXTENDS Coordinator

VARIABLES
    testing,    \* the disks that are running a self-test
    press,      \* the press of a button of each disk, or Idle
    requested   \* a refresh was requested and has not begun

bvars == <<testing, press, requested>>
pressvars == <<vars, testing, press, requested>>

(* step is where async_press waits: for the semaphore of the platform, for *)
(* the connection, for the command to reach the disk, for its answer.      *)
Press ==
    [step   : {"queued", "connecting", "running", "answered"},
     test   : {"start", "abort"},      \* entity_description.test_type
     named  : Key \cup {None},         \* spec: the path an error will name
     target : Key \cup {None},         \* the path of the command
     answer : {"none", "done", "refused", "unopened"},
     orphan : BOOLEAN,                 \* the entry was reloaded meanwhile
     kept   : Key \cup {None}]         \* the spec in the data of the old coordinator

CONSTANT Idle
ASSUME IdleAssumption == Idle \notin Press

Holding(p) == p # Idle /\ p.step # "queued"

ButtonTypeOK ==
    /\ TypeOK
    /\ testing \subseteq Disk
    /\ press \in [ID -> Press \cup {Idle}]
    /\ requested \in BOOLEAN
    /\ \A i \in ID : press[i] # Idle =>
          /\ press[i].named = None <=> press[i].step = "queued"
          /\ press[i].target = None <=> press[i].step \in {"queued", "connecting"}
          /\ press[i].answer = "none" <=> press[i].step # "answered"
          \* the buttons of a loaded entry take turns
          /\ \A j \in ID : Holding(press[i]) /\ Holding(press[j])
                           /\ ~press[i].orphan /\ ~press[j].orphan => i = j

(* SmartMonitorEntity.available, asked before the press is queued.         *)
Available(i) == status = "ok" /\ data[i] # None /\ ~data[i].error

(* self.disk.spec; None stands for the KeyError of a disk that is no       *)
(* longer in the data.  A reload gives new entities a new coordinator; a   *)
(* press in flight keeps the old one and its data.                         *)
DiskSpec(i) ==
    IF press[i].orphan THEN press[i].kept
    ELSE IF data[i] = None THEN None ELSE data[i].spec

-----------------------------------------------------------------------------
ButtonInit ==
    /\ Init
    /\ testing \in SUBSET Disk
    /\ press = [i \in ID |-> Idle]
    /\ requested = FALSE

(* The press leaves async_press: what it held is released.                 *)
Leave(i) == press' = [press EXCEPT ![i] = Idle]

(* The press goes on to the next await.                                    *)
Goes(i, step, named, target, answer) ==
    press' = [press EXCEPT ![i] =
        [step |-> step, test |-> press[i].test, named |-> named, target |-> target,
         answer |-> answer, orphan |-> press[i].orphan, kept |-> press[i].kept]]

Push(i, test) ==
    /\ loaded /\ press[i] = Idle /\ Available(i)
    /\ press' = [press EXCEPT ![i] =
          [step |-> "queued", test |-> test, named |-> None, target |-> None,
           answer |-> "none", orphan |-> FALSE, kept |-> None]]
    /\ UNCHANGED <<vars, testing, requested>>

(* async_press begins when no other press holds the semaphore.  Those left *)
(* behind by a reload no longer share one with the new entities; that they *)
(* still take turns with each other is left out.                           *)
BeginAtOnce(i) ==   \* mutant: PARALLEL_UPDATES = 0
    /\ press[i] # Idle /\ press[i].step = "queued"
    /\ IF DiskSpec(i) = None THEN Leave(i)
       ELSE Goes(i, "connecting", DiskSpec(i), None, "none")
    /\ UNCHANGED <<vars, testing, requested>>
Begin(i) ==
    /\ press[i] # Idle /\ press[i].step = "queued"
    /\ press[i].orphan \/ \A j \in ID : Holding(press[j]) => press[j].orphan
    /\ IF DiskSpec(i) = None THEN Leave(i)
       ELSE Goes(i, "connecting", DiskSpec(i), None, "none")
    /\ UNCHANGED <<vars, testing, requested>>

(* session() connected: _run sends the command to the disk as it is now.   *)
RunEarly(i) ==   \* mutant: _run takes the spec of async_press
    /\ press[i] # Idle /\ press[i].step = "connecting"
    /\ Goes(i, "running", press[i].named, press[i].named, "none")
    /\ UNCHANGED <<vars, testing, requested>>
Run(i) ==
    /\ press[i] # Idle /\ press[i].step = "connecting"
    /\ IF DiskSpec(i) = None THEN Leave(i)
       ELSE Goes(i, "running", press[i].named, DiskSpec(i), "none")
    /\ UNCHANGED <<vars, testing, requested>>

(* smartctl -t or -X on the host: it cannot open the path, or the disk     *)
(* refuses to start a test while one runs, or it does what it is told.     *)
(* Opening a disk spins it up.                                             *)
Execute(i) ==
    /\ press[i] # Idle /\ press[i].step = "running"
    /\ LET k == press[i].target
           d == attached[k]
           start == press[i].test = "start"
           opens == d # None /\ k \notin faulty
           refuses == start /\ d \in testing
       IN  /\ Goes(i, "answered", press[i].named, k,
                   IF ~opens THEN "unopened" ELSE IF refuses THEN "refused" ELSE "done")
           /\ testing' = IF ~opens THEN testing
                         ELSE IF start THEN testing \cup {d} ELSE testing \ {d}
           /\ asleep' = IF opens THEN asleep \ {d} ELSE asleep
    /\ UNCHANGED <<attached, faulty, wear, coord, requested>>

(* start_self_test and abort_self_test look at two bits of the exit status *)
(* only: a command line error and a device that could not be opened.       *)
ExitsWell(i) == press[i].answer # "unopened"

(* async_request_refresh: Home Assistant drops a request made while a      *)
(* refresh is in progress; otherwise it polls now or after its cooldown.   *)
ReturnQuietly(i) ==   \* mutant: no refresh is requested
    /\ press[i] # Idle /\ press[i].step = "answered" /\ ExitsWell(i)
    /\ Leave(i)
    /\ UNCHANGED <<vars, testing, requested>>
Return(i) ==
    /\ press[i] # Idle /\ press[i].step = "answered" /\ ExitsWell(i)
    /\ Leave(i)
    /\ requested' = (requested \/ (~press[i].orphan /\ pc = "idle"))
    /\ UNCHANGED <<vars, testing>>

(* A SmartctlError becomes a HomeAssistantError: the host refuses the      *)
(* connection, the connection is lost or the command times out, before or  *)
(* after it had its effect, smartctl is missing, or the path did not open. *)
Raise(i) ==
    /\ Holding(press[i])
    /\ Leave(i)
    /\ UNCHANGED <<vars, testing, requested>>

(* The disk completes a test by itself, or loses it with its power.        *)
TestEnds(d) ==
    /\ d \in testing /\ testing' = testing \ {d}
    /\ UNCHANGED <<vars, press, requested>>

-----------------------------------------------------------------------------
(* The actions of the coordinator.                                         *)

StartRefresh == StartPoll /\ requested' = FALSE /\ UNCHANGED <<testing, press>>

(* The entities of a press in flight are removed, the press goes on.       *)
Orphaned(i) ==
    IF press[i] = Idle \/ press[i].orphan THEN press[i]
    ELSE [step |-> press[i].step, test |-> press[i].test, named |-> press[i].named,
          target |-> press[i].target, answer |-> press[i].answer,
          orphan |-> TRUE, kept |-> DiskSpec(i)]
ReloadButtons ==
    /\ Reload
    /\ press' = [i \in ID |-> Orphaned(i)]
    /\ requested' = FALSE
    /\ UNCHANGED testing

Undisturbed == (Environment \/ Setup \/ Reads \/ Publish \/ Fails) /\ UNCHANGED bvars

PressStep(i) == Begin(i) \/ Run(i) \/ Execute(i) \/ Return(i) \/ Raise(i)

ButtonNext ==
    \/ \E i \in ID, test \in {"start", "abort"} : Push(i, test)
    \/ \E i \in ID : PressStep(i)
    \/ \E d \in Disk : TestEnds(d)
    \/ StartRefresh \/ ReloadButtons \/ Undisturbed

ButtonSpec == ButtonInit /\ [][ButtonNext]_pressvars

-----------------------------------------------------------------------------
(* What the repository says and the code does not do; refuted by a run:    *)
(* "Start a self-test; smartctl returns as soon as the disk accepted it"   *)
(* (start_self_test, client.py:357): a press that ends without an error    *)
(* started a test on a disk that could start one.                          *)
TestAccepted ==
    [][\A i \in ID : /\ press[i] # Idle /\ press[i].test = "start"
                     /\ Return(i)
                     => press[i].answer = "done"]_pressvars
=============================================================================
