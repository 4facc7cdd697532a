-------------------------- MODULE PressHistoryProofs --------------------------
(* What a press may rely on, for every set of disks and paths and any      *)
(* number of presses.                                                      *)
EXTENDS PressHistory, SelfTestButtonProofs

LEMMA StepsOfPresses == [HistoryNext]_historyvars => [ButtonNext]_pressvars
BY DEF HistoryNext, historyvars

THEOREM HistoryRefinesButtons == HistorySpec => ButtonSpec
<1>1. HistoryInit => ButtonInit
  BY DEF HistoryInit
<1> QED
  BY <1>1, StepsOfPresses, PTL DEF HistorySpec, ButtonSpec

-----------------------------------------------------------------------------
(* What the steps of the coordinator and of the presses can change.        *)

(* A reading names the disk that was behind the path when it was taken.    *)
LEMMA ReadingNamesDisk ==
    ASSUME TypeOK, NEW k \in Key, ReadDisk(k)
    PROVE  /\ readings'[k].identifier \in {None, attached[k]}
           /\ \A j \in Key : j # k => readings'[j] = readings[j]
           /\ pc = "reading" /\ pc' = "reading" /\ attached' = attached
<1>1. PICK r \in GetDisk(k) : readings' = [readings EXCEPT ![k] = r]
  BY DEF ReadDisk
<1>2. r.identifier \in {None, attached[k]}
  BY DEF GetDisk, Answer, Unreadable, Standby, Blank, Fresh, Identifier
<1> QED
  BY <1>1, <1>2 DEF TypeOK, ReadDisk

(* New readings come one by one and the old ones stay until a poll ends.   *)
LEMMA ReadingsChange ==
    ASSUME TypeOK, [Next]_vars, NEW k \in Key
    PROVE  /\ k \in JustRead => /\ pc = "reading" /\ pc' = "reading"
                                /\ readings'[k].identifier \in {None, attached[k]}
           /\ k \notin JustRead => readings'[k] = readings[k] \/ pc' # "reading"
<1>1. ASSUME NEW j \in Key, ReadDisk(j)
      PROVE  /\ k \in JustRead => /\ pc = "reading" /\ pc' = "reading"
                                  /\ readings'[k].identifier \in {None, attached[k]}
             /\ k \notin JustRead => readings'[k] = readings[k]
  <2>1. k # j => readings'[k] = readings[k]
    BY <1>1, ReadingNamesDisk
  <2>2. k = j => k \in JustRead \/ readings'[k] = readings[k]
    BY <1>1 DEF ReadDisk, JustRead
  <2> QED
    BY <1>1, <2>1, <2>2, ReadingNamesDisk DEF JustRead
<1>2. CASE UNCHANGED readings
  BY <1>2 DEF JustRead
<1>3. CASE Publish \/ Reload \/ \E why \in Failure : PollFails(why)
  <2>1. pc' # "reading" /\ readings'[k] = None
    BY <1>3 DEF Publish, Reload, PollFails
  <2> QED
    BY <2>1 DEF JustRead
<1> QED
  BY <1>1, <1>2, <1>3 DEF Next, Environment, Replug, FallAsleep, WakeUp, Wear, Fault,
     Repair, Setup, SetupFails, StartPoll, Reads, Fails, coord, vars

(* Only a poll that succeeds publishes; a reload drops all data.           *)
LEMMA DataChanges ==
    ASSUME [Next]_vars
    PROVE  \/ Publish /\ attached' = attached
           \/ ~loaded'
           \/ data' = data /\ ~(PollEnds /\ status' = "ok")
<1>1. CASE Publish
  BY <1>1 DEF Publish, env
<1>2. CASE Reload
  BY <1>2 DEF Reload
<1>3. ASSUME NEW why \in Failure, PollFails(why)
      PROVE  data' = data /\ status' # "ok"
  BY <1>3 DEF PollFails, Failure
<1>4. CASE pc = "reading" => pc' = "reading"
  <2>1. data' = data \/ Publish \/ Reload
    BY DEF Next, Environment, Replug, FallAsleep, WakeUp, Wear, Fault, Repair, Setup,
       SetupFails, StartPoll, Reads, ReadDisk, Fails, PollFails, coord, vars
  <2> QED
    BY <1>1, <1>2, <1>4, <2>1 DEF PollEnds
<1> QED
  BY <1>1, <1>2, <1>3, <1>4 DEF Next, Environment, Replug, FallAsleep, WakeUp, Wear,
     Fault, Repair, Setup, SetupFails, StartPoll, Reads, ReadDisk, Fails, coord, vars

(* A loaded entry has been set up.                                         *)
SetupInv == loaded => pc # "setup"
LEMMA LoadedIsSetUp == SetupInv /\ [Next]_vars => SetupInv'
BY DEF SetupInv, Next, Environment, Replug, FallAsleep, WakeUp, Wear, Fault, Repair, Setup,
   SetupFails, StartPoll, Reads, ReadDisk, Publish, Fails, PollFails, Reload, coord, vars

(* A request stays until a poll begins or the entry is reloaded.           *)
LEMMA RequestsStay ==
    ASSUME [ButtonNext]_pressvars, requested
    PROVE  requested' \/ pc' = "reading" \/ ~loaded'
BY DEF ButtonNext, Push, PressStep, Begin, Run, Execute, Return, Raise, TestEnds, StartRefresh,
   StartPoll, ReloadButtons, Reload, Undisturbed, bvars, pressvars

(* A command that is on its way was sent by Run, to the path that the data *)
(* had then.                                                               *)
LEMMA CommandOnItsWay ==
    ASSUME PressInv, [ButtonNext]_pressvars, NEW i \in ID,
           press'[i] # Idle, press'[i].step = "running"
    PROVE  \/ /\ press[i] # Idle /\ press[i].step = "running"
              /\ press'[i].target = press[i].target
           \/ /\ press[i] # Idle /\ press[i].step = "connecting"
              /\ attached' = attached
              /\ ~press[i].orphan => /\ data[i] # None
                                     /\ press'[i].target = data[i].spec
<1>1. CASE press'[i] = press[i]
  BY <1>1
<1>2. CASE press'[i] # press[i]
  <2>1. ASSUME NEW j \in ID, NEW test \in {"start", "abort"}, Push(j, test) PROVE FALSE
    <3>1. j = i
      BY <1>2, <2>1 DEF Push, PressInv
    <3>2. press'[i].step = "queued"
      BY <2>1, <3>1 DEF Push, PressInv
    <3> QED
      BY <3>2
  <2>2. ASSUME NEW j \in ID, Begin(j) \/ Execute(j) \/ Return(j) \/ Raise(j) PROVE FALSE
    <3>1. j = i
      BY <1>2, <2>2 DEF Begin, Execute, Return, Raise, Leave, Goes, PressInv
    <3> QED
      BY <2>2, <3>1 DEF Begin, Execute, Return, Raise, Leave, Goes, PressInv
  <2>3. ASSUME NEW j \in ID, Run(j)
        PROVE  /\ press[i] # Idle /\ press[i].step = "connecting"
               /\ attached' = attached
               /\ ~press[i].orphan => data[i] # None /\ press'[i].target = data[i].spec
    <3>1. j = i
      BY <1>2, <2>3 DEF Run, Leave, Goes, PressInv
    <3>2. DiskSpec(i) # None /\ press'[i].target = DiskSpec(i)
      BY <2>3, <3>1 DEF Run, Leave, Goes, PressInv
    <3> QED
      BY <2>3, <3>1, <3>2 DEF Run, vars, DiskSpec
  <2>4. CASE ReloadButtons
    BY <2>4 DEF ReloadButtons, Orphaned
  <2>5. CASE \/ UNCHANGED pressvars \/ StartRefresh \/ Undisturbed
             \/ \E d \in Disk : TestEnds(d)
    BY <1>2, <2>5 DEF pressvars, StartRefresh, Undisturbed, bvars, TestEnds
  <2> QED
    BY <2>1, <2>2, <2>3, <2>4, <2>5 DEF ButtonNext, PressStep
<1> QED
  BY <1>1, <1>2

(* A disk that is published awake under its own name was read by this poll.*)
LEMMA ReadWellWasRead ==
    ASSUME IInv, Publish, NEW i \in ID, ReadWell(i)'
    PROVE  \E k \in Key : /\ readings[k] # None /\ readings[k].identifier = i
                          /\ data'[i].spec = k
<1>1. PICK k \in Stored : DiskId(k) = i /\ data'[i] = Merge(k)
  BY ResultIsMerge DEF Publish, IInv, ReadWell
<1>2. \A j \in specs : readings[j] # None
  BY DEF Publish
<1>3. k \in Key /\ readings[k] \in DiskData /\ readings[k] # None
  BY <1>2, StoredType DEF IInv
<1>4. CASE readings[k].standby \/ readings[k].error
  <2>1. ~(data'[i].standby \/ data'[i].error)
    BY DEF ReadWell
  <2>2. data[i] \in DiskData \cup {None}
    BY DEF IInv, TypeOK
  <2>3. Merge(k).standby \/ Merge(k).error
    BY <1>1, <1>3, <1>4, <2>2 DEF Merge, DiskData
  <2> QED
    BY <1>1, <2>1, <2>3
<1>5. CASE ~readings[k].standby /\ ~readings[k].error
  <2>1. data'[i] = readings[k]
    BY <1>1, <1>5 DEF Merge
  <2> QED
    BY <1>3, <2>1 DEF ReadWell, IInv, ReadingInv
<1> QED
  BY <1>4, <1>5

-----------------------------------------------------------------------------
(* The invariant: each history variable with what it is evidence of.       *)
HistoryInv ==
    /\ SetupInv
    /\ PressIsPolled
    /\ reread \subseteq Key /\ settled \subseteq Key /\ polled \subseteq ID
    /\ \A k \in reread : readings[k] # None /\ readings[k].identifier # None
                             => attached[k] = readings[k].identifier
    /\ \A i \in ID : ReadWell(i) /\ data[i].spec \in settled => attached[data[i].spec] = i
    /\ \A i \in sure : /\ i \in ID /\ press[i] # Idle /\ press[i].step = "running"
                       /\ attached[press[i].target] = i
    /\ \A i \in polled \ merged, k \in Key :
           readings[k] # None /\ readings[k].identifier = i => i \notin unread

Known == IInv /\ ButtonInv /\ HistoryInv

LEMMA CoordinatorSteps == IInv /\ [ButtonNext]_pressvars => [Next]_vars
BY StepsOfCoordinator DEF IInv, TypeOK, SleepInv

LEMMA NextKeepsHistoryInv ==
    ASSUME Known, IInv', ButtonInv', [HistoryNext]_historyvars, Record
    PROVE  HistoryInv'
<1>1. [ButtonNext]_pressvars /\ [Next]_vars
  BY StepsOfPresses, CoordinatorSteps DEF Known
<1>2. TypeOK /\ TypeOK' /\ PressInv /\ PressInv'
  BY DEF Known, IInv, ButtonInv
<1>3. SetupInv'
  BY <1>1, LoadedIsSetUp DEF Known, HistoryInv
<1>4. PressIsPolled'
  <2> SUFFICES ASSUME NEW i \in polled' PROVE pc' = "reading" \/ requested'
    BY DEF PressIsPolled
  <2>1. loaded' /\ ~PollEnds /\ i \in polled \cup Returning
    BY DEF Record
  <2>2. CASE i \in polled
    BY <1>1, <2>1, <2>2, RequestsStay DEF Known, HistoryInv, PressIsPolled, PollEnds
  <2>3. CASE i \in Returning
    <3>1. UNCHANGED vars /\ requested' = (requested \/ pc = "idle")
      BY <2>3 DEF Returning, Return
    <3>2. pc \in {"setup", "idle", "reading"} /\ pc' = pc /\ loaded' = loaded
      BY <1>2, <3>1 DEF TypeOK, vars
    <3> QED
      BY <2>1, <3>1, <3>2 DEF Known, HistoryInv, SetupInv
  <2> QED
    BY <2>1, <2>2, <2>3
<1>5. reread' \subseteq Key /\ settled' \subseteq Key /\ polled' \subseteq ID
  BY DEF Known, HistoryInv, Record, JustRead, Returning
<1>6. ASSUME NEW k \in reread', readings'[k] # None, readings'[k].identifier # None
      PROVE  attached'[k] = readings'[k].identifier
  <2>1. k \in Key /\ pc' = "reading" /\ k \in reread \cup JustRead /\ k \notin Replugged
    BY <1>5 DEF Record
  <2>2. attached'[k] = attached[k]
    BY <2>1 DEF Replugged
  <2> QED
    BY <1>1, <1>2, <1>6, <2>1, <2>2, ReadingsChange DEF Known, HistoryInv
<1>7. ASSUME NEW i \in ID, ReadWell(i)', data'[i].spec \in settled'
      PROVE  attached'[data'[i].spec] = i
  <2>1. loaded' /\ data'[i].spec \in Key \ Replugged
    BY <1>5, <1>7 DEF Record
  <2>2. attached'[data'[i].spec] = attached[data'[i].spec]
    BY <2>1 DEF Replugged
  <2>3. CASE Publish
    <3>1. PICK k \in Key : /\ readings[k] # None /\ readings[k].identifier = i
                           /\ data'[i].spec = k
      BY <1>7, <2>3, ReadWellWasRead DEF Known
    <3>2. k \in reread /\ i # None
      BY <1>7, <2>3, <3>1, DiskAssumption, IdAssumption
      DEF Publish, PollEnds, Record, ID
    <3> QED
      BY <2>2, <3>1, <3>2 DEF Known, HistoryInv
  <2>4. CASE data' = data /\ ~(PollEnds /\ status' = "ok")
    <3>1. data[i].spec \in settled /\ ReadWell(i)
      BY <1>7, <2>1, <2>4 DEF Record, ReadWell
    <3> QED
      BY <2>2, <2>4, <3>1 DEF Known, HistoryInv
  <2> QED
    BY <1>1, <2>1, <2>3, <2>4, DataChanges
<1>8. ASSUME NEW i \in sure'
      PROVE  /\ i \in ID /\ press'[i] # Idle /\ press'[i].step = "running"
             /\ attached'[press'[i].target] = i
  <2>1. /\ i \in ID /\ press'[i] # Idle /\ press'[i].step = "running"
        /\ press'[i].target \notin Replugged
        /\ i \in sure \/ (press[i].step = "connecting" /\ Settled(i))
    BY DEF Record
  <2>2. press'[i].target \in Key
    BY <1>2, <2>1 DEF PressInv, Fits, Press
  <2>3. attached'[press'[i].target] = attached[press'[i].target]
    BY <2>1, <2>2 DEF Replugged
  <2>4. CASE i \in sure
    <3>1. press[i].step = "running" /\ attached[press[i].target] = i
      BY <2>4 DEF Known, HistoryInv
    <3>2. press'[i].target = press[i].target
      BY <1>1, <1>2, <2>1, <3>1, CommandOnItsWay
    <3> QED
      BY <2>1, <2>3, <3>1, <3>2
  <2>5. CASE press[i].step = "connecting" /\ Settled(i)
    <3>1. press'[i].target = data[i].spec
      BY <1>1, <1>2, <2>1, <2>5, CommandOnItsWay DEF Settled
    <3> QED
      BY <2>1, <2>3, <2>5, <3>1 DEF Settled, Known, HistoryInv
  <2> QED
    BY <2>1, <2>4, <2>5
<1>9. ASSUME NEW i \in polled' \ merged', NEW k \in Key,
             readings'[k] # None, readings'[k].identifier = i
      PROVE  i \notin unread'
  <2>1. pc' = "reading" /\ i \in ID /\ i # None
    BY <1>2, <1>5, <1>9, DiskAssumption, IdAssumption DEF TypeOK, ID
  <2>2. pc = "reading"
    BY <1>1, <1>2, <1>9, <2>1, ReadingsChange DEF TypeOK
  <2>3. i \in polled \ merged /\ i \notin Returning
    BY <2>1, <2>2 DEF Record, PollEnds
  <2>4. CASE k \in JustRead
    <3>1. attached[k] = i
      BY <1>1, <1>2, <1>9, <2>1, <2>4, ReadingsChange
    <3> QED
      BY <2>3, <2>4, <3>1 DEF Record
  <2>5. CASE k \notin JustRead
    <3>1. readings'[k] = readings[k]
      BY <1>1, <1>2, <2>1, <2>5, ReadingsChange
    <3> QED
      BY <1>9, <2>3, <3>1 DEF Known, HistoryInv, Record
  <2> QED
    BY <2>4, <2>5
<1> QED
  BY <1>3, <1>4, <1>5, <1>6, <1>7, <1>8, <1>9 DEF HistoryInv

THEOREM HistoryInvariance == HistorySpec => []Known
<1>1. HistoryInit => HistoryInv
  BY DEF HistoryInit, ButtonInit, Init, HistoryInv, SetupInv, PressIsPolled
<1>2. HistorySpec => []IInv
  BY HistoryRefinesButtons, ButtonsRefine, Invariance, PTL
<1>3. HistorySpec => []ButtonInv
  BY HistoryRefinesButtons, ButtonInvariance, PTL
<1>4. Known /\ IInv' /\ ButtonInv' /\ [HistoryNext]_historyvars => HistoryInv'
  <2>1. CASE Record
    BY <2>1, NextKeepsHistoryInv DEF Known
  <2>2. CASE UNCHANGED historyvars
    BY <2>2 DEF historyvars, presshistory, pressvars, vars, Known, HistoryInv, SetupInv,
       PressIsPolled, ReadWell
  <2> QED
    BY <2>1, <2>2 DEF HistoryNext
<1> QED
  BY <1>1, <1>2, <1>3, <1>4, PTL DEF HistorySpec, Known

(* A press that succeeded is followed by a poll, although requests are     *)
(* dropped while a poll is in flight and polls fail (button.py:97).        *)
THEOREM PressesArePolled == HistorySpec => []PressIsPolled
<1>1. Known => PressIsPolled
  BY DEF Known, HistoryInv
<1> QED
  BY <1>1, HistoryInvariance, PTL

(* The command of a button reaches the disk of the button, or none, if the *)
(* data it was sent by still held (button.py:100).                         *)
THEOREM ButtonsHitTheirDisk == HistorySpec => HitsOwnDisk
<1>1. Known => [\A i \in sure : testing' # testing /\ press[i] # Idle /\ press'[i] # press[i]
                               => attached[press[i].target] = i]_historyvars
  BY DEF Known, HistoryInv
<1> QED
  BY <1>1, HistoryInvariance, PTL DEF HistorySpec, HitsOwnDisk

(* The poll that follows a press shows its test (button.py:97).            *)
THEOREM TestsAreShown == HistorySpec => TestIsShown
<1>1. Known /\ Known' /\ [HistoryNext]_historyvars
        => [PollEnds /\ status' = "ok" =>
              \A i \in polled \ merged : ReadWell(i)' => i \notin unread]_historyvars
  <2> SUFFICES ASSUME Known, Known', [HistoryNext]_historyvars,
                      PollEnds, status' = "ok", NEW i \in polled \ merged, ReadWell(i)'
               PROVE  i \notin unread
    OBVIOUS
  <2>1. i \in ID /\ loaded'
    BY DEF Known, HistoryInv, IInv, TypeOK, ReadWell
  <2>2. Publish
    BY <2>1, StepsOfPresses, CoordinatorSteps, DataChanges DEF Known
  <2> QED
    BY <2>1, <2>2, ReadWellWasRead DEF Known, HistoryInv
<1> QED
  BY <1>1, HistoryInvariance, PTL DEF HistorySpec, TestIsShown
=============================================================================
