------------------------- MODULE SelfTestButtonProofs -------------------------
(* Proofs about SelfTestButton, for every set of disks and paths and any   *)
(* number of presses.                                                      *)
EXTENDS SelfTestButton, CoordinatorProofs

-----------------------------------------------------------------------------
(* Presses and the coordinator.                                            *)

SleepInv == asleep \subseteq Disk

(* A command that reaches a disk may spin it up and does nothing else to   *)
(* what the coordinator sees.                                              *)
LEMMA ExecuteWakes ==
    ASSUME SleepInv, NEW i \in ID, Execute(i)
    PROVE  [Next]_vars
<1> DEFINE d == attached[press[i].target]
           opens == d # None /\ press[i].target \notin faulty
<1>1. asleep' = IF opens THEN asleep \ {d} ELSE asleep
  BY DEF Execute
<1>2. UNCHANGED <<attached, faulty, wear, coord>>
  BY DEF Execute
<1>3. CASE asleep' = asleep
  BY <1>2, <1>3 DEF vars, coord
<1>4. CASE asleep' # asleep
  <2>1. d \in asleep /\ asleep' = asleep \ {d}
    BY <1>1, <1>4
  <2>2. d \in Disk
    BY <2>1 DEF SleepInv
  <2> HIDE DEF d
  <2> QED
    BY <1>2, <2>1, <2>2 DEF WakeUp, Environment, Next
<1> QED
  BY <1>3, <1>4

LEMMA StepsOfCoordinator ==
    ASSUME SleepInv, [ButtonNext]_pressvars
    PROVE  [Next]_vars
<1>1. ASSUME NEW i \in ID, PressStep(i) PROVE [Next]_vars
  <2>1. CASE Begin(i) \/ Run(i) \/ Return(i) \/ Raise(i)
    BY <2>1 DEF Begin, Run, Return, Raise
  <2> QED
    BY <1>1, <2>1, ExecuteWakes DEF PressStep
<1>2. ASSUME NEW i \in ID, NEW test \in {"start", "abort"}, Push(i, test) PROVE [Next]_vars
  BY <1>2 DEF Push
<1>3. ASSUME NEW d \in Disk, TestEnds(d) PROVE [Next]_vars
  BY <1>3 DEF TestEnds
<1>4. CASE StartRefresh \/ ReloadButtons \/ Undisturbed
  BY <1>4 DEF StartRefresh, ReloadButtons, Undisturbed, Next
<1>5. CASE UNCHANGED pressvars
  BY <1>5 DEF pressvars, vars
<1> QED
  BY <1>1, <1>2, <1>3, <1>4, <1>5 DEF ButtonNext

LEMMA NextKeepsSleepInv ==
    ASSUME SleepInv, [Next]_vars
    PROVE  SleepInv'
<1>1. CASE Environment
  BY <1>1 DEF Environment, Replug, FallAsleep, WakeUp, Wear, Fault, Repair, SleepInv
<1>2. CASE Setup \/ StartPoll \/ Publish \/ Fails \/ Reload
  BY <1>2 DEF Setup, StartPoll, Publish, Fails, SetupFails, PollFails, Reload, env, SleepInv
<1>3. ASSUME NEW k \in Key, ReadDisk(k) PROVE SleepInv'
  BY <1>3 DEF ReadDisk, SleepInv
<1>4. CASE UNCHANGED vars
  BY <1>4 DEF vars, SleepInv
<1> QED
  BY <1>1, <1>2, <1>3, <1>4 DEF Next, Reads

(* Presses are, to the coordinator, a host whose disks may wake up: all    *)
(* that CoordinatorProofs shows holds while buttons are pressed.           *)
THEOREM ButtonsRefine == ButtonSpec => Spec
<1>1. ButtonInit => Init
  BY DEF ButtonInit
<1>2. Init => SleepInv
  BY DEF Init, SleepInv
<1> QED
  BY <1>1, <1>2, StepsOfCoordinator, NextKeepsSleepInv, PTL DEF ButtonSpec, Spec

-----------------------------------------------------------------------------
(* The presses themselves.                                                 *)

(* A press knows what its step needs: a path to name in an error once it   *)
(* has begun, a path for the command once it is connected, an answer last. *)
Fits(p) ==
    /\ p \in Press
    /\ p.named = None <=> p.step = "queued"
    /\ p.target = None <=> p.step \in {"queued", "connecting"}
    /\ p.answer = "none" <=> p.step # "answered"

(* The press that holds the semaphore of the loaded entry.                 *)
Held(p) == p # Idle /\ p.step # "queued" /\ ~p.orphan

PressInv ==
    /\ press \in [ID -> Press \cup {Idle}]
    /\ \A i \in ID : press[i] # Idle => Fits(press[i])
    /\ \A i, j \in ID : Held(press[i]) /\ Held(press[j]) => i = j

ButtonInv ==
    /\ testing \subseteq Disk
    /\ requested \in BOOLEAN
    /\ PressInv

LEMMA InvIsTypeOK == TypeOK /\ ButtonInv => ButtonTypeOK
  BY DEF ButtonInv, PressInv, Fits, Held, Holding, ButtonTypeOK

LEMMA DiskSpecType ==
    ASSUME TypeOK, PressInv, NEW i \in ID, press[i] # Idle
    PROVE  DiskSpec(i) \in Key \cup {None}
<1>1. press[i].kept \in Key \cup {None}
  BY DEF PressInv, Fits, Press
<1>2. data[i] # None => data[i].spec \in Key
  BY DEF TypeOK, DiskData
<1> QED
  BY <1>1, <1>2 DEF DiskSpec

(* A press that ends frees the semaphore, one that goes on keeps it, and   *)
(* one that takes it finds it free.                                        *)
LEMMA LeaveKeeps ==
    ASSUME PressInv, NEW i \in ID, Leave(i)
    PROVE  PressInv'
  BY DEF PressInv, Leave, Held

LEMMA PutKeeps ==
    ASSUME PressInv, NEW i \in ID, NEW p, Fits(p), p # Idle,
           press' = [press EXCEPT ![i] = p],
           Held(p) => \A j \in ID : Held(press[j]) => j = i
    PROVE  PressInv'
<1>1. \A j \in ID : press'[j] = IF j = i THEN p ELSE press[j]
  BY DEF PressInv
<1>2. press' \in [ID -> Press \cup {Idle}]
  BY DEF PressInv, Fits
<1>3. \A j \in ID : press'[j] # Idle => Fits(press'[j])
  BY <1>1 DEF PressInv
<1>4. ASSUME NEW j \in ID, NEW k \in ID, Held(press'[j]), Held(press'[k])
      PROVE  j = k
  BY <1>1, <1>4 DEF PressInv
<1> QED
  BY <1>2, <1>3, <1>4 DEF PressInv

LEMMA GoesKeeps ==
    ASSUME PressInv, NEW i \in ID, press[i] # Idle,
           NEW step \in {"connecting", "running", "answered"},
           NEW named \in Key, NEW target \in Key \cup {None},
           NEW answer \in {"none", "done", "refused", "unopened"},
           target = None <=> step = "connecting",
           answer = "none" <=> step # "answered",
           Goes(i, step, named, target, answer),
           ~press[i].orphan => \A j \in ID : Held(press[j]) => j = i
    PROVE  PressInv'
<1> DEFINE p == [step |-> step, test |-> press[i].test, named |-> named,
                 target |-> target, answer |-> answer, orphan |-> press[i].orphan,
                 kept |-> press[i].kept]
<1>1. press' = [press EXCEPT ![i] = p]
  BY DEF Goes
<1>2. press[i] \in Press
  BY DEF PressInv
<1>3. Fits(p)
  BY <1>2, IdAssumption DEF Press, Fits
<1>4. p # Idle
  BY <1>3, IdleAssumption DEF Fits
<1>5. p.orphan = press[i].orphan
  OBVIOUS
<1> HIDE DEF p
<1> QED
  BY <1>1, <1>3, <1>4, <1>5, PutKeeps DEF Held

(* Once a press holds the semaphore it is alone with it.                   *)
LEMMA HolderAlone ==
    ASSUME PressInv, NEW i \in ID, press[i] # Idle, press[i].step # "queued",
           ~press[i].orphan
    PROVE  \A j \in ID : Held(press[j]) => j = i
  BY DEF PressInv, Held

LEMMA PushKeeps ==
    ASSUME PressInv, NEW i \in ID, NEW test \in {"start", "abort"}, Push(i, test)
    PROVE  PressInv'
<1> DEFINE p == [step |-> "queued", test |-> test, named |-> None, target |-> None,
                 answer |-> "none", orphan |-> FALSE, kept |-> None]
<1>1. press' = [press EXCEPT ![i] = p]
  BY DEF Push
<1>2. Fits(p)
  BY DEF Fits, Press
<1>3. p # Idle
  BY <1>2, IdleAssumption DEF Fits
<1>4. ~Held(p)
  BY DEF Held
<1> HIDE DEF p
<1> QED
  BY <1>1, <1>2, <1>3, <1>4, PutKeeps

LEMMA PressStepKeeps ==
    ASSUME TypeOK, PressInv, NEW i \in ID, PressStep(i)
    PROVE  PressInv'
<1>1. CASE Begin(i)
  <2>1. CASE DiskSpec(i) = None
    BY <1>1, <2>1, LeaveKeeps DEF Begin
  <2>2. CASE DiskSpec(i) # None
    <3>1. press[i] # Idle /\ Goes(i, "connecting", DiskSpec(i), None, "none")
      BY <1>1, <2>2 DEF Begin
    <3>2. DiskSpec(i) \in Key
      BY <2>2, <3>1, DiskSpecType
    <3>3. ~press[i].orphan => \A j \in ID : Held(press[j]) => j = i
      BY <1>1 DEF Begin, Held, Holding
    <3> QED
      BY <3>1, <3>2, <3>3, GoesKeeps
  <2> QED
    BY <2>1, <2>2
<1>2. CASE Run(i)
  <2>1. CASE DiskSpec(i) = None
    BY <1>2, <2>1, LeaveKeeps DEF Run
  <2>2. CASE DiskSpec(i) # None
    <3>1. /\ press[i] # Idle /\ press[i].step = "connecting"
          /\ Goes(i, "running", press[i].named, DiskSpec(i), "none")
      BY <1>2, <2>2 DEF Run
    <3>2. DiskSpec(i) \in Key
      BY <2>2, <3>1, DiskSpecType
    <3>3. press[i].named \in Key
      BY <3>1 DEF PressInv, Fits, Press
    <3>4. ~press[i].orphan => \A j \in ID : Held(press[j]) => j = i
      BY <3>1, HolderAlone
    <3> QED
      BY <3>1, <3>2, <3>3, <3>4, IdAssumption, GoesKeeps
  <2> QED
    BY <2>1, <2>2
<1>3. CASE Execute(i)
  <2>1. PICK answer \in {"done", "refused", "unopened"} :
           Goes(i, "answered", press[i].named, press[i].target, answer)
    BY <1>3 DEF Execute
  <2>2. press[i] # Idle /\ press[i].step = "running"
    BY <1>3 DEF Execute
  <2>3. press[i].named \in Key /\ press[i].target \in Key
    BY <2>2 DEF PressInv, Fits, Press
  <2>4. ~press[i].orphan => \A j \in ID : Held(press[j]) => j = i
    BY <2>2, HolderAlone
  <2> QED
    BY <2>1, <2>2, <2>3, <2>4, IdAssumption, GoesKeeps
<1>4. CASE Return(i) \/ Raise(i)
  BY <1>4, LeaveKeeps DEF Return, Raise
<1> QED
  BY <1>1, <1>2, <1>3, <1>4 DEF PressStep

(* A reload orphans every press, and so frees the semaphore.               *)
LEMMA ReloadKeeps ==
    ASSUME TypeOK, PressInv, ReloadButtons
    PROVE  PressInv'
<1>1. \A i \in ID : press'[i] = Orphaned(i)
  BY DEF ReloadButtons
<1>2. ASSUME NEW i \in ID
      PROVE  /\ press'[i] = Idle \/ Fits(press'[i])
             /\ ~Held(press'[i])
  <2>1. CASE press[i] = Idle
    BY <1>1, <2>1 DEF Orphaned, Held
  <2>2. CASE press[i] # Idle
    <3>1. CASE press[i].orphan
      BY <1>1, <2>2, <3>1 DEF Orphaned, Held, PressInv
    <3>2. CASE ~press[i].orphan
      <4>1. DiskSpec(i) \in Key \cup {None}
        BY <2>2, DiskSpecType
      <4>2. Fits(press[i])
        BY <2>2 DEF PressInv
      <4>3. press'[i] =
              [step |-> press[i].step, test |-> press[i].test, named |-> press[i].named,
               target |-> press[i].target, answer |-> press[i].answer,
               orphan |-> TRUE, kept |-> DiskSpec(i)]
        BY <1>1, <2>2, <3>2 DEF Orphaned
      <4> QED
        BY <4>1, <4>2, <4>3 DEF Fits, Press, Held
    <3> QED
      BY <3>1, <3>2
  <2> QED
    BY <2>1, <2>2
<1>3. press' \in [ID -> Press \cup {Idle}]
  BY <1>2 DEF ReloadButtons, Fits
<1> QED
  BY <1>2, <1>3 DEF PressInv

LEMMA NextKeepsButtonInv ==
    ASSUME TypeOK, ButtonInv, [ButtonNext]_pressvars
    PROVE  ButtonInv'
<1>1. ASSUME NEW i \in ID, NEW test \in {"start", "abort"}, Push(i, test)
      PROVE  ButtonInv'
  BY <1>1, PushKeeps DEF ButtonInv, Push
<1>2. ASSUME NEW i \in ID, PressStep(i) PROVE ButtonInv'
  <2>1. PressInv'
    BY <1>2, PressStepKeeps DEF ButtonInv
  <2>2. CASE Execute(i)
    <3>1. press[i] # Idle /\ press[i].step = "running"
      BY <2>2 DEF Execute
    <3>2. press[i].target \in Key
      BY <3>1 DEF ButtonInv, PressInv, Fits, Press
    <3>3. attached[press[i].target] \in Disk \cup {None}
      BY <3>2 DEF TypeOK
    <3>4. \/ testing' = testing
          \/ attached[press[i].target] # None /\ testing' = testing \cup {attached[press[i].target]}
          \/ testing' = testing \ {attached[press[i].target]}
      BY <2>2 DEF Execute
    <3>5. testing' \subseteq Disk
      BY <3>3, <3>4 DEF ButtonInv
    <3> QED
      BY <2>1, <2>2, <3>5 DEF Execute, ButtonInv
  <2>3. CASE Return(i)
    BY <2>1, <2>3 DEF Return, ButtonInv
  <2>4. CASE Begin(i) \/ Run(i) \/ Raise(i)
    BY <2>1, <2>4 DEF Begin, Run, Raise, ButtonInv
  <2> QED
    BY <1>2, <2>2, <2>3, <2>4 DEF PressStep
<1>3. ASSUME NEW d \in Disk, TestEnds(d) PROVE ButtonInv'
  BY <1>3 DEF TestEnds, ButtonInv, PressInv
<1>4. CASE StartRefresh
  BY <1>4 DEF StartRefresh, ButtonInv, PressInv
<1>5. CASE ReloadButtons
  BY <1>5, ReloadKeeps DEF ReloadButtons, ButtonInv
<1>6. CASE Undisturbed \/ UNCHANGED pressvars
  BY <1>6 DEF Undisturbed, bvars, pressvars, ButtonInv, PressInv
<1> QED
  BY <1>1, <1>2, <1>3, <1>4, <1>5, <1>6 DEF ButtonNext

(* The inductive invariant of the presses.                                 *)
THEOREM ButtonInvariance == ButtonSpec => []ButtonInv
<1>1. ButtonInit => ButtonInv
  BY DEF ButtonInit, ButtonInv, PressInv, Held
<1>2. ButtonSpec => []TypeOK
  BY ButtonsRefine, TypeCorrect, PTL
<1> QED
  BY <1>1, <1>2, NextKeepsButtonInv, PTL DEF ButtonSpec

(* Every press has a path for what it does next, and the presses of a      *)
(* loaded entry take turns, however polls and reloads fall between them    *)
(* (PARALLEL_UPDATES, button.py:22).                                       *)
THEOREM ButtonTypeCorrect == ButtonSpec => []ButtonTypeOK
  BY ButtonsRefine, TypeCorrect, ButtonInvariance, InvIsTypeOK, PTL

(* Pressing buttons spoils none of what is shown: every entry shows the    *)
(* values of its own disk, and no two share a path (coordinator.py:79-128).*)
THEOREM PressesKeepEntries == ButtonSpec => [](OwnEntry /\ OnePathPerEntry)
  BY ButtonsRefine, EntriesOwned, PathsDisjoint, PTL
=============================================================================
