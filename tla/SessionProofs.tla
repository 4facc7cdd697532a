---------------------------- MODULE SessionProofs ----------------------------
(* Proofs about Session, for any number of disks and any max_parallel.     *)
EXTENDS Session, TLAPS, FiniteSetTheorems

Steps == Command \cup {"idle", "connect", "gather", "gathering", "close", "end", "failed"}

(* What Goes does to the two functions, at every coroutine.                *)
LEMMA GoesType ==
    ASSUME SessionTypeOK, NEW w \in Worker, NEW step \in Steps, Goes(w, step)
    PROVE  /\ at' \in [Worker -> Steps]
           /\ slot' \in [Worker -> {"none", "waiting", "running"}]
           /\ at'[w] = step
           /\ slot'[w] \in {"none", "waiting", "running"}
           /\ step \in Limited => slot'[w] = "waiting"
           /\ permits' \in Nat
           /\ \A v \in Worker : v # w => at'[v] = at[v] /\ slot'[v] = slot[v]
           /\ \A v \in Worker : slot'[v] = "none" <=> at'[v] \notin Command
BY DEF SessionTypeOK, Goes, Steps, Command, Limited, Shell

LEMMA MainIsWorker == Main \in Worker /\ \A p \in Path : p \in Worker /\ p # Main
BY PathAssumption DEF Worker

(* All variables keep their types, and a coroutine is in a command exactly *)
(* while it holds or awaits its slot.                                      *)
THEOREM SessionTypeCorrect == Spec => []SessionTypeOK
<1>1. Init => SessionTypeOK
  BY MainIsWorker, ParallelAssumption DEF Init, SessionTypeOK, Command, Limited, Shell
<1>2. SessionTypeOK /\ [Next]_vars => SessionTypeOK'
  <2> SUFFICES ASSUME SessionTypeOK, [Next]_vars PROVE SessionTypeOK'
    OBVIOUS
  <2> USE MainIsWorker
  <2>1. CASE Connect
    <3> DEFINE step == CASE job = "setup" -> "script"
                         [] job = "self_test" -> "self_test"
                         [] job = "poll" -> IF listed = {} THEN "version" ELSE "gather"
    <3>1. Goes(Main, step) /\ step \in Steps
      BY <2>1 DEF Connect, SessionTypeOK, Steps, Command, Limited, Shell
    <3>2. listed' \subseteq Path
      BY <2>1 DEF Connect, SessionTypeOK
    <3> HIDE DEF step
    <3> QED
      BY <2>1, <3>1, <3>2, GoesType DEF Connect, SessionTypeOK, Steps
  <2>2. CASE ConnectFails
    <3>1. Goes(Main, "end") /\ "end" \in Steps
      BY <2>2 DEF ConnectFails, Steps
    <3> QED
      BY <2>2, <3>1, GoesType DEF ConnectFails, SessionTypeOK, Steps
  <2>3. CASE Proceed
    <3>1. version' \in BOOLEAN \cup {None}
      BY <2>3, VersionAssumption DEF Proceed, SessionTypeOK
    <3>2. listed' \subseteq Path /\ error' \in {"none", "connection", "command"}
      BY <2>3 DEF Proceed, Ends, SessionTypeOK
    <3>3. \E step \in Steps : Goes(Main, step)
      BY <2>3 DEF Proceed, Ends, Steps, Command, Limited, Shell
    <3> QED
      BY <2>3, <3>1, <3>2, <3>3, GoesType DEF Proceed, SessionTypeOK, Steps
  <2>4. CASE MainFails
    <3>1. Goes(Main, "close") /\ "close" \in Steps /\ error' \in {"connection", "command"}
      BY <2>4 DEF MainFails, Ends, Raises, Steps
    <3> QED
      BY <2>4, <3>1, GoesType DEF MainFails, SessionTypeOK, Steps
  <2>5. CASE Gather
    <3>1. at' \in [Worker -> Steps] /\ slot' \in [Worker -> {"none", "waiting", "running"}]
      BY <2>5 DEF Gather, SessionTypeOK, Steps, Command, Limited, Shell
    <3>2. json' \in [Path -> BOOLEAN \cup {None}]
      BY <2>5 DEF Gather, supports_json
    <3>3. \A w \in Worker : slot'[w] = "none" <=> at'[w] \notin Command
      <4> SUFFICES ASSUME NEW w \in Worker
                   PROVE  slot'[w] = "none" <=> at'[w] \notin Command
        OBVIOUS
      <4>1. CASE w = Main
        BY <2>5, <4>1 DEF Gather, SessionTypeOK, Command, Limited, Shell
      <4>2. CASE w # Main /\ w \in listed
        BY <2>5, <4>2 DEF Gather, SessionTypeOK, Command, Limited, Shell
      <4>3. CASE w # Main /\ w \notin listed
        BY <2>5, <4>3 DEF Gather, SessionTypeOK
      <4> QED
        BY <4>1, <4>2, <4>3
    <3> QED
      BY <2>5, <3>1, <3>2, <3>3 DEF Gather, SessionTypeOK, Steps
  <2>6. CASE GatherReturns \/ GatherRaises
    <3>1. /\ Goes(Main, "close") /\ "close" \in Steps
          /\ error' \in {"none", "connection", "command"}
      BY <2>6 DEF GatherReturns, GatherRaises, Ends, Steps, SessionTypeOK
    <3> QED
      BY <2>6, <3>1, GoesType DEF GatherReturns, GatherRaises, SessionTypeOK, Steps
  <2>7. CASE Close
    <3>1. Goes(Main, "end") /\ "end" \in Steps
      BY <2>7 DEF Close, Steps
    <3> QED
      BY <2>7, <3>1, GoesType DEF Close, SessionTypeOK, Steps
  <2>8. CASE Drop
    BY <2>8 DEF Drop, SessionTypeOK
  <2>9. ASSUME NEW w \in Worker, Acquire(w) PROVE SessionTypeOK'
    BY <2>9 DEF Acquire, SessionTypeOK
  <2>10. ASSUME NEW p \in Path, TaskVersion(p) PROVE SessionTypeOK'
    <3>1. Goes(p, "read") /\ "read" \in Steps
      BY <2>10 DEF TaskVersion, Steps, Command, Limited
    <3> QED
      BY <2>10, <3>1, GoesType, VersionAssumption DEF TaskVersion, SessionTypeOK, Steps
  <2>11. ASSUME NEW p \in Path, TaskRead(p) PROVE SessionTypeOK'
    <3>1. Goes(p, "end") /\ "end" \in Steps
      BY <2>11 DEF TaskRead, Steps
    <3> QED
      BY <2>11, <3>1, GoesType DEF TaskRead, SessionTypeOK, Steps
  <2>12. ASSUME NEW p \in Path, TaskFails(p) PROVE SessionTypeOK'
    <3>1. Goes(p, "failed") /\ "failed" \in Steps
      BY <2>12 DEF TaskFails, Steps
    <3>2. error' \in {"none", "connection", "command"}
      BY <2>12 DEF TaskFails, Raises, SessionTypeOK
    <3> QED
      BY <2>12, <3>1, <3>2, GoesType DEF TaskFails, SessionTypeOK, Steps
  <2>13. CASE UNCHANGED vars
    BY <2>13 DEF vars, SessionTypeOK
  <2> QED
    BY <2>1, <2>2, <2>3, <2>4, <2>5, <2>6, <2>7, <2>8, <2>9, <2>10, <2>11, <2>12, <2>13
       DEF Next, MainStep, Step
<1> QED
  BY <1>1, <1>2, PTL DEF Spec

-----------------------------------------------------------------------------
(* The phases of a session.                                                *)

Before == {"connect", "gather"} \cup {"script", "version", "scan", "lsblk", "self_test"}

PhaseInv ==
    \* No task runs before the gather, and only listed disks have one.
    /\ at[Main] \in Before =>
          error = "none" /\ outcome = "pending" /\ \A p \in Path : at[p] = "idle"
    /\ \A p \in Path : at[p] # "idle" => p \in listed
    /\ job # "poll" => listed = {}
    /\ at[Main] = "self_test" => job = "self_test"
    /\ at[Main] \in {"scan", "lsblk"} => job = "poll"
    \* A session that is about to succeed, or did, has read every disk.
    /\ at[Main] = "close" /\ error = "none" => \A p \in listed : at[p] = "end"
    /\ outcome = "ok" => \A p \in listed : at[p] = "end"
    /\ outcome # "pending" => at[Main] = "end"
    \* The connection is open, or lost, in between only.
    /\ at[Main] = "connect" => conn = "none"
    /\ at[Main] = "end" => conn \in {"none", "closed"}

LEMMA PhaseInitial == Init => PhaseInv
BY MainIsWorker DEF Init, PhaseInv, Before, Worker

(* A step of Main to another phase leaves the tasks alone.                 *)
LEMMA MainFrame ==
    ASSUME SessionTypeOK, NEW step \in Steps, Goes(Main, step)
    PROVE  at'[Main] = step /\ \A p \in Path : at'[p] = at[p]
BY GoesType, MainIsWorker

LEMMA TaskFrame ==
    ASSUME SessionTypeOK, NEW p \in Path, NEW step \in Steps, Goes(p, step)
    PROVE  /\ at'[p] = step /\ at'[Main] = at[Main]
           /\ \A q \in Path : q # p => at'[q] = at[q]
BY GoesType, MainIsWorker

(* A task that is in a command keeps the session from having succeeded.    *)
LEMMA TaskStep ==
    ASSUME SessionTypeOK, PhaseInv, NEW p \in Path, slot[p] = "running",
           NEW step \in Steps \ {"idle"}, Goes(p, step),
           UNCHANGED <<job, conn, listed, outcome>>,
           error' = error \/ error' # "none"
    PROVE  PhaseInv'
<1>1. at'[p] = step /\ at'[Main] = at[Main] /\ \A q \in Path : q # p => at'[q] = at[q]
  BY TaskFrame
<1>2. at[p] \in Command
  BY MainIsWorker DEF SessionTypeOK
<1>3. at[p] # "idle" /\ at[p] # "end" /\ p \in listed
  BY <1>2 DEF Command, Limited, Shell, PhaseInv
<1>4. at[Main] \notin Before /\ outcome # "ok" /\ ~(at[Main] = "close" /\ error = "none")
  BY <1>3 DEF PhaseInv
<1>5. ~(at[Main] = "close" /\ error' = "none")
  BY <1>4
<1> QED
  BY <1>1, <1>3, <1>4, <1>5 DEF PhaseInv

LEMMA PhaseStep ==
    ASSUME SessionTypeOK, PhaseInv, [Next]_vars
    PROVE  PhaseInv'
<1> USE MainIsWorker
<1>1. CASE Connect
  <2> DEFINE step == CASE job = "setup" -> "script"
                       [] job = "self_test" -> "self_test"
                       [] job = "poll" -> IF listed = {} THEN "version" ELSE "gather"
  <2>1. /\ Goes(Main, step) /\ step \in Steps
        /\ step \in {"script", "self_test", "version", "gather"}
        /\ step = "self_test" => job = "self_test"
    BY <1>1 DEF Connect, SessionTypeOK, Steps, Command, Limited, Shell
  <2> HIDE DEF step
  <2>2. at'[Main] = step /\ \A p \in Path : at'[p] = at[p]
    BY <2>1, MainFrame
  <2>3. at[Main] \in Before
    BY <1>1 DEF Connect, Before
  <2> QED
    BY <1>1, <2>1, <2>2, <2>3 DEF Connect, PhaseInv, Before
<1>2. CASE ConnectFails
  <2>1. at'[Main] = "end" /\ \A p \in Path : at'[p] = at[p]
    BY <1>2, MainFrame DEF ConnectFails, Steps
  <2> QED
    BY <1>2, <2>1 DEF ConnectFails, PhaseInv, Before
<1>3. CASE Proceed
  <2>1. at[Main] \in Before \ {"connect", "gather"}
    BY <1>3 DEF Proceed, Before
  <2>2. error = "none" /\ outcome = "pending" /\ (\A p \in Path : at[p] = "idle")
    BY <2>1 DEF PhaseInv
  <2>3. PICK step \in {"version", "scan", "lsblk", "gather", "close"} :
           /\ Goes(Main, step)
           /\ error' = "none"
           /\ step = "close" => job # "poll" /\ UNCHANGED listed
           /\ job # "poll" => UNCHANGED listed \/ at[Main] \in {"scan", "lsblk"}
           /\ step \in {"scan", "lsblk"} => job = "poll"
    BY <1>3, <2>2 DEF Proceed, Ends, PhaseInv
  <2>4. at'[Main] = step /\ \A p \in Path : at'[p] = at[p]
    BY <2>3, MainFrame DEF Steps, Command, Limited, Shell
  <2>5. job' # "poll" => listed' = {}
    BY <1>3, <2>3 DEF Proceed, PhaseInv
  <2> QED
    BY <1>3, <2>2, <2>3, <2>4, <2>5 DEF Proceed, PhaseInv, Before
<1>4. CASE MainFails
  <2>1. at'[Main] = "close" /\ (\A p \in Path : at'[p] = at[p]) /\ error' # "none"
    BY <1>4, MainFrame DEF MainFails, Ends, Raises, Steps
  <2>2. outcome = "pending"
    BY <1>4 DEF MainFails, PhaseInv, SessionTypeOK, Command, Limited, Shell
  <2> QED
    BY <1>4, <2>1, <2>2 DEF MainFails, PhaseInv, Before
<1>5. CASE Gather
  <2>1. /\ at'[Main] = "gathering"
        /\ \A p \in Path : at'[p] # "idle" => p \in listed \/ at[p] # "idle"
    BY <1>5 DEF Gather
  <2> QED
    BY <1>5, <2>1 DEF Gather, PhaseInv, Before
<1>6. CASE GatherReturns
  <2>1. at'[Main] = "close" /\ \A p \in Path : at'[p] = at[p]
    BY <1>6, MainFrame DEF GatherReturns, Ends, Steps
  <2>2. \A p \in listed : at'[p] = "end"
    BY <1>6, <2>1 DEF GatherReturns, SessionTypeOK
  <2> QED
    BY <1>6, <2>1, <2>2 DEF GatherReturns, PhaseInv, Before
<1>7. CASE GatherRaises
  <2>1. at'[Main] = "close" /\ (\A p \in Path : at'[p] = at[p]) /\ error' # "none"
    BY <1>7, MainFrame DEF GatherRaises, Ends, Steps, SessionTypeOK
  <2> QED
    BY <1>7, <2>1 DEF GatherRaises, PhaseInv, Before
<1>8. CASE Close
  <2>1. at'[Main] = "end" /\ \A p \in Path : at'[p] = at[p]
    BY <1>8, MainFrame DEF Close, Steps
  <2>2. listed \subseteq Path
    BY DEF SessionTypeOK
  <2>3. outcome' = "ok" => error = "none"
    BY <1>8 DEF Close, SessionTypeOK
  <2> QED
    BY <1>8, <2>1, <2>2, <2>3 DEF Close, PhaseInv, Before
<1>9. CASE Drop
  BY <1>9 DEF Drop, PhaseInv, Before
<1>10. ASSUME NEW w \in Worker, Acquire(w) PROVE PhaseInv'
  BY <1>10 DEF Acquire, PhaseInv
<1>11. ASSUME NEW p \in Path, TaskVersion(p) PROVE PhaseInv'
  BY <1>11, TaskStep DEF TaskVersion, Steps, Command, Limited
<1>12. ASSUME NEW p \in Path, TaskRead(p) PROVE PhaseInv'
  BY <1>12, TaskStep DEF TaskRead, Steps
<1>13. ASSUME NEW p \in Path, TaskFails(p) PROVE PhaseInv'
  <2>1. error' # "none" /\ "failed" \in Steps \ {"idle"} /\ Goes(p, "failed")
    BY <1>13 DEF TaskFails, Raises, Steps
  <2> QED
    BY <1>13, <2>1, TaskStep DEF TaskFails
<1>14. CASE UNCHANGED vars
  BY <1>14 DEF vars, PhaseInv
<1> QED
  BY <1>1, <1>2, <1>3, <1>4, <1>5, <1>6, <1>7, <1>8, <1>9, <1>10, <1>11, <1>12, <1>13, <1>14
     DEF Next, MainStep, Step

-----------------------------------------------------------------------------
(* The version is what the host has, and a task that reads knows it.       *)
VersionInv ==
    /\ version \in {None, HostHasJson}
    /\ FormatKnown

LEMMA VersionInitial == Init => VersionInv
BY MainIsWorker DEF Init, VersionInv, FormatKnown, Worker

LEMMA VersionStep ==
    ASSUME SessionTypeOK, PhaseInv, VersionInv, [Next]_vars
    PROVE  VersionInv'
<1> USE MainIsWorker
<1>1. CASE UNCHANGED <<version, json>> /\ \A p \in Path : at'[p] = "read" => at[p] = "read"
  BY <1>1 DEF VersionInv, FormatKnown
<1>2. CASE Proceed
  <2>1. version' \in {version, HostHasJson} /\ UNCHANGED json
    BY <1>2 DEF Proceed
  <2>2. \A p \in Path : at'[p] = at[p]
    BY <1>2 DEF Proceed, Ends, Goes, SessionTypeOK
  <2>3. version = HostHasJson => version' = HostHasJson
    BY <2>1
  <2> QED
    BY <2>1, <2>2, <2>3 DEF VersionInv, FormatKnown
<1>3. CASE Gather
  <2> SUFFICES ASSUME NEW p \in Path, at'[p] = "read"
               PROVE  version = HostHasJson /\ json'[p] = HostHasJson
    BY <1>3 DEF Gather, VersionInv, FormatKnown
  <2>1. CASE p \in listed
    <3>1. version # None /\ version = HostHasJson
      BY <1>3, <2>1 DEF Gather, VersionInv
    <3>2. json'[p] = supports_json
      BY <1>3, <2>1, <3>1 DEF Gather
    <3>3. supports_json = HostHasJson
      BY <3>1, VersionAssumption DEF supports_json
    <3> QED
      BY <3>1, <3>2, <3>3
  <2>2. CASE p \notin listed
    <3>1. at[p] = "read" /\ at[Main] \in Before
      BY <1>3, <2>2 DEF Gather, Before
    <3> QED
      BY <3>1 DEF PhaseInv
  <2> QED
    BY <2>1, <2>2
<1>4. ASSUME NEW q \in Path, TaskVersion(q) PROVE VersionInv'
  <2>1. version' = HostHasJson /\ json' = [json EXCEPT ![q] = HostHasJson]
    BY <1>4 DEF TaskVersion
  <2>2. \A p \in Path : p # q => at'[p] = at[p]
    BY <1>4 DEF TaskVersion, Goes, SessionTypeOK
  <2> QED
    BY <2>1, <2>2 DEF VersionInv, FormatKnown, SessionTypeOK
<1>5. CASE Connect \/ ConnectFails \/ MainFails \/ GatherReturns \/ GatherRaises \/ Close
  BY <1>1, <1>5 DEF Connect, ConnectFails, MainFails, GatherReturns, GatherRaises, Close,
     Ends, Goes, SessionTypeOK
<1>6. ASSUME NEW q \in Path, TaskRead(q) \/ TaskFails(q) PROVE VersionInv'
  BY <1>1, <1>6 DEF TaskRead, TaskFails, Goes, SessionTypeOK
<1>7. ASSUME NEW w \in Worker, Acquire(w) PROVE VersionInv'
  BY <1>1, <1>7 DEF Acquire
<1>8. CASE Drop \/ UNCHANGED vars
  BY <1>1, <1>8 DEF Drop, vars
<1> QED
  BY <1>2, <1>3, <1>4, <1>5, <1>6, <1>7, <1>8 DEF Next, MainStep, Step

THEOREM SessionInvariance == Spec => [](PhaseInv /\ VersionInv)
<1>1. Init => PhaseInv /\ VersionInv
  BY PhaseInitial, VersionInitial
<1>2. SessionTypeOK /\ (PhaseInv /\ VersionInv) /\ [Next]_vars => (PhaseInv /\ VersionInv)'
  BY PhaseStep, VersionStep
<1> QED
  BY <1>1, <1>2, SessionTypeCorrect, PTL DEF Spec

(* smartctl without JSON is never asked for it when reading a disk.        *)
THEOREM FormatAlwaysKnown == Spec => []FormatKnown
BY SessionInvariance, PTL DEF VersionInv

(* A result means that every listed disk was read, and a session that is   *)
(* over holds no connection.                                               *)
THEOREM PollsAreWhole == Spec => []AllOrNothing
<1>1. PhaseInv => AllOrNothing
  BY DEF PhaseInv, AllOrNothing
<1> QED
  BY <1>1, SessionInvariance, PTL

-----------------------------------------------------------------------------
(* The semaphore.                                                          *)

LEMMA RunningFinite == ASSUME SessionTypeOK
                       PROVE  IsFiniteSet(Running) /\ Cardinality(Running) \in Nat
<1>1. IsFiniteSet(Worker)
  BY PathAssumption, FS_AddElement DEF Worker
<1> QED
  BY <1>1, FS_Subset, FS_CardinalityType DEF Running

(* The permits that are left and the commands under way add up: none is    *)
(* lost when a command fails, none is handed out twice.                    *)
PermitsInv ==
    /\ permits + Cardinality(Running) = MaxParallel
    \* A coroutine that waits does so for a permit.
    /\ \A w \in Worker : slot[w] = "waiting" => at[w] \in Limited

(* Whatever a coroutine goes to, it no longer runs a limited command; if   *)
(* it did before, it gives the permit back.                                *)
LEMMA GoesReleases ==
    ASSUME SessionTypeOK, PermitsInv, NEW w \in Worker, NEW step \in Steps, Goes(w, step)
    PROVE  PermitsInv'
<1>1. Running' = Running \ {w}
  <2>1. \A v \in Worker : v # w => (v \in Running' <=> v \in Running)
    BY GoesType DEF Running
  <2>2. w \notin Running'
    <3>1. at'[w] = step /\ (step \in Limited => slot'[w] = "waiting")
      BY GoesType
    <3> QED
      BY <3>1 DEF Running
  <2> QED
    BY <2>1, <2>2 DEF Running
<1>2. \A v \in Worker : slot'[v] = "waiting" => at'[v] \in Limited
  <2>1. at'[w] = step /\ (slot'[w] = "waiting" => step \in Limited)
    BY GoesType DEF Goes, SessionTypeOK
  <2> QED
    BY <2>1, GoesType DEF PermitsInv
<1>3. CASE w \in Running
  <2>1. permits' = permits + 1 /\ permits \in Nat
    BY <1>3 DEF Goes, SessionTypeOK
  <2>2. IsFiniteSet(Running)
    BY RunningFinite
  <2>3. Cardinality(Running \ {w}) = Cardinality(Running) - 1
    BY <1>3, <2>2, FS_RemoveElement
  <2>4. Cardinality(Running') = Cardinality(Running) - 1
    BY <1>1, <2>3, Zenon
  <2> QED
    BY <1>2, <2>1, <2>4, RunningFinite, ParallelAssumption DEF PermitsInv
<1>4. CASE w \notin Running
  <2>1. Running' = Running /\ permits' = permits
    BY <1>1, <1>4 DEF Goes
  <2> QED
    BY <1>2, <2>1 DEF PermitsInv
<1> QED
  BY <1>3, <1>4

LEMMA PermitsStep ==
    ASSUME SessionTypeOK, PhaseInv, PermitsInv, [Next]_vars
    PROVE  PermitsInv'
<1> USE MainIsWorker
<1>1. ASSUME NEW w \in Worker, Acquire(w) PROVE PermitsInv'
  <2>1. permits' = permits - 1 /\ permits \in Nat /\ permits > 0
    BY <1>1 DEF Acquire, SessionTypeOK
  <2>2. w \notin Running /\ at[w] \in Limited
    BY <1>1 DEF Acquire, Running, PermitsInv
  <2>3. Running' = Running \cup {w}
    BY <1>1, <2>2 DEF Acquire, Running, SessionTypeOK
  <2>4. Cardinality(Running') = Cardinality(Running) + 1
    <3>1. IsFiniteSet(Running)
      BY RunningFinite
    <3>2. Cardinality(Running \cup {w}) = Cardinality(Running) + 1
      BY <2>2, <3>1, FS_AddElement
    <3> QED
      BY <2>3, <3>2, Zenon
  <2>5. \A v \in Worker : slot'[v] = "waiting" => at'[v] \in Limited
    BY <1>1 DEF Acquire, SessionTypeOK, PermitsInv
  <2> QED
    BY <2>1, <2>4, <2>5, RunningFinite, ParallelAssumption DEF PermitsInv
<1>2. CASE Connect \/ ConnectFails \/ Proceed \/ MainFails \/ GatherReturns \/ GatherRaises \/ Close
  <2>1. \E step \in Steps : Goes(Main, step)
    BY <1>2 DEF Connect, ConnectFails, Proceed, MainFails, GatherReturns, GatherRaises,
       Close, Ends, Steps, Command, Limited, Shell, SessionTypeOK
  <2> QED
    BY <2>1, GoesReleases
<1>3. CASE Gather
  \* No task has started, and each starts by waiting.
  <2>1. \A w \in Worker : w \notin Running
    BY <1>3 DEF Gather, Running, PhaseInv, Before, Limited, Worker
  <2>2. \A w \in Worker : w \notin Running'
    <3> SUFFICES ASSUME NEW w \in Worker PROVE w \notin Running'
      OBVIOUS
    <3>1. CASE w = Main
      BY <1>3, <3>1 DEF Gather, Running, Limited
    <3>2. CASE w # Main /\ w \in listed
      BY <1>3, <3>2 DEF Gather, Running
    <3>3. CASE w # Main /\ w \notin listed
      BY <1>3, <2>1, <3>3 DEF Gather, Running
    <3> QED
      BY <3>1, <3>2, <3>3
  <2>3. Running' = Running
    BY <2>1, <2>2 DEF Running
  <2>4. \A w \in Worker : slot'[w] = "waiting" => at'[w] \in Limited
    BY <1>3 DEF Gather, PermitsInv, PhaseInv, SessionTypeOK, Limited
  <2> QED
    BY <1>3, <2>3, <2>4 DEF Gather, PermitsInv
<1>4. ASSUME NEW p \in Path, TaskVersion(p) \/ TaskRead(p) \/ TaskFails(p)
      PROVE  PermitsInv'
  <2>1. \E step \in Steps : Goes(p, step)
    BY <1>4 DEF TaskVersion, TaskRead, TaskFails, Steps, Command, Limited
  <2> QED
    BY <2>1, GoesReleases
<1>5. CASE Drop \/ UNCHANGED vars
  BY <1>5 DEF Drop, vars, PermitsInv, Running
<1> QED
  BY <1>1, <1>2, <1>3, <1>4, <1>5 DEF Next, MainStep, Step

(* A session never awaits more than max_parallel smartctl commands at      *)
(* once: what is under way has taken its permits from the semaphore.       *)
THEOREM ParallelBounded == Spec => []ParallelBound
<1>1. Init => PermitsInv
  <2> SUFFICES ASSUME Init PROVE PermitsInv
    OBVIOUS
  <2>1. Running = {}
    BY DEF Init, Running
  <2>2. Cardinality(Running) = 0
    BY <2>1, FS_EmptySet
  <2> QED
    BY <2>2, ParallelAssumption DEF Init, PermitsInv
<1>2. SessionTypeOK /\ PhaseInv /\ PermitsInv /\ [Next]_vars => PermitsInv'
  BY PermitsStep
<1>3. SessionTypeOK /\ PermitsInv => ParallelBound
  BY RunningFinite, ParallelAssumption DEF SessionTypeOK, PermitsInv, ParallelBound
<1> QED
  BY <1>1, <1>2, <1>3, SessionTypeCorrect, SessionInvariance, PTL DEF Spec

-----------------------------------------------------------------------------
(* A session is a poll as the coordinator sees it (DiskPoll).              *)

(* Paths are discovered only if the caller named none.                     *)
DiscoverInv == at[Main] \in {"script", "version", "scan", "lsblk"} => listed = {}

LEMMA DiscoverStep ==
    ASSUME SessionTypeOK, PhaseInv, DiscoverInv, [Next]_vars
    PROVE  DiscoverInv'
<1> USE MainIsWorker
<1>1. CASE Connect
  BY <1>1 DEF Connect, Goes, SessionTypeOK, PhaseInv, DiscoverInv
<1>2. CASE Proceed
  BY <1>2 DEF Proceed, Ends, Goes, SessionTypeOK, DiscoverInv
<1>3. CASE ConnectFails \/ MainFails \/ Gather \/ GatherReturns \/ GatherRaises \/ Close
  BY <1>3 DEF ConnectFails, MainFails, Gather, GatherReturns, GatherRaises, Close, Ends,
     Goes, SessionTypeOK, DiscoverInv
<1>4. CASE Drop \/ UNCHANGED vars \/ \E w \in Worker : Acquire(w)
  BY <1>4 DEF Drop, vars, Acquire, DiscoverInv
<1>5. ASSUME NEW p \in Path, TaskVersion(p) \/ TaskRead(p) \/ TaskFails(p)
      PROVE  DiscoverInv'
  BY <1>5 DEF TaskVersion, TaskRead, TaskFails, Goes, SessionTypeOK, DiscoverInv
<1> QED
  BY <1>1, <1>2, <1>3, <1>4, <1>5 DEF Next, MainStep, Step

(* The paths that have been read, which DiskPoll calls `read`.             *)
WasRead == {p \in Path : at[p] = "end"}

LEMMA PollInitial == Init => Poll!Init
<1> SUFFICES ASSUME Init PROVE Poll!Init
  OBVIOUS
<1>1. WasRead = {}
  BY MainIsWorker DEF Init, WasRead
<1>2. listed \in SUBSET Path
  BY DEF Init
<1> QED
  BY <1>1, <1>2 DEF Init, WasRead, Poll!Init

(* Every step of a session is a step of the poll or invisible to it.       *)
LEMMA PollStep ==
    ASSUME SessionTypeOK, PhaseInv, DiscoverInv, [Next]_vars
    PROVE  [Poll!Next]_Poll!dpvars
<1> USE MainIsWorker
<1>1. CASE UNCHANGED <<listed, outcome>> /\ WasRead' = WasRead
  BY <1>1 DEF WasRead, Poll!dpvars
<1>2. ASSUME NEW step \in Steps, Goes(Main, step) PROVE WasRead' = WasRead
  BY <1>2, MainFrame DEF WasRead
<1>3. CASE Connect \/ MainFails \/ GatherReturns \/ GatherRaises
  <2>1. \E step \in Steps : Goes(Main, step)
    BY <1>3 DEF Connect, MainFails, GatherReturns, GatherRaises, Ends, Steps, Command,
       Limited, Shell, SessionTypeOK
  <2>2. UNCHANGED <<listed, outcome>>
    BY <1>3 DEF Connect, MainFails, GatherReturns, GatherRaises
  <2> QED
    BY <1>1, <1>2, <2>1, <2>2
<1>4. CASE ConnectFails
  <2>1. outcome = "pending"
    BY <1>4 DEF ConnectFails, PhaseInv, Before
  <2>2. WasRead' = WasRead
    BY <1>2, <1>4 DEF ConnectFails, Steps
  <2>3. Poll!Fail
    BY <1>4, <2>1, <2>2 DEF ConnectFails, WasRead, Poll!Fail, Poll!Errors
  <2> QED
    BY <2>3 DEF Poll!Next
<1>5. CASE Proceed
  <2>1. WasRead' = WasRead
    BY <1>2, <1>5 DEF Proceed, Ends, Steps, Command, Limited, Shell
  <2>2. CASE UNCHANGED listed
    BY <1>1, <1>5, <2>1, <2>2 DEF Proceed
  <2>3. CASE ~UNCHANGED listed
    <3>1. at[Main] \in {"scan", "lsblk"} /\ listed' \in SUBSET Path /\ UNCHANGED outcome
      BY <1>5, <2>3 DEF Proceed
    <3>2. outcome = "pending" /\ WasRead = {} /\ listed = {}
      BY <3>1 DEF PhaseInv, Before, WasRead, DiscoverInv
    <3>3. Poll!List
      BY <2>1, <3>1, <3>2 DEF WasRead, Poll!List
    <3> QED
      BY <3>3 DEF Poll!Next
  <2> QED
    BY <2>2, <2>3
<1>6. CASE Gather
  <2>1. \A p \in Path : at[p] = "idle"
    BY <1>6 DEF Gather, PhaseInv, Before
  <2>2. \A p \in Path : at'[p] # "end"
    BY <1>6, <2>1 DEF Gather
  <2> QED
    BY <1>1, <1>6, <2>1, <2>2 DEF Gather, WasRead
<1>7. CASE Close
  <2>1. outcome = "pending"
    BY <1>7 DEF Close, PhaseInv
  <2>2. WasRead' = WasRead
    BY <1>2, <1>7 DEF Close, Steps
  <2>3. CASE error = "none"
    <3>1. WasRead = listed
      BY <1>7, <2>3 DEF Close, PhaseInv, WasRead, SessionTypeOK
    <3>2. Poll!Succeed
      BY <1>7, <2>1, <2>2, <2>3, <3>1 DEF Close, WasRead, Poll!Succeed
    <3> QED
      BY <3>2 DEF Poll!Next
  <2>4. CASE error # "none"
    <3>1. Poll!Fail
      BY <1>7, <2>1, <2>2, <2>4 DEF Close, WasRead, SessionTypeOK, Poll!Fail, Poll!Errors
    <3> QED
      BY <3>1 DEF Poll!Next
  <2> QED
    BY <2>3, <2>4
<1>8. ASSUME NEW p \in Path, TaskRead(p) PROVE [Poll!Next]_Poll!dpvars
  <2>1. at'[p] = "end" /\ \A q \in Path : q # p => at'[q] = at[q]
    BY <1>8, TaskFrame DEF TaskRead, Steps
  <2>2. p \in listed /\ outcome # "ok"
    BY <1>8 DEF TaskRead, PhaseInv
  <2>3. WasRead' = WasRead \cup {p}
    BY <2>1 DEF WasRead
  <2>4. Poll!Read(p)
    BY <1>8, <2>2, <2>3 DEF TaskRead, WasRead, Poll!Read
  <2> QED
    BY <2>4 DEF Poll!Next
<1>9. ASSUME NEW p \in Path, TaskVersion(p) \/ TaskFails(p)
      PROVE  [Poll!Next]_Poll!dpvars
  <2>1. /\ at'[p] # "end" /\ (\A q \in Path : q # p => at'[q] = at[q])
        /\ UNCHANGED <<listed, outcome>>
    BY <1>9, TaskFrame DEF TaskVersion, TaskFails, Steps, Command, Limited
  <2>2. at[p] # "end"
    BY <1>9 DEF TaskVersion, TaskFails, SessionTypeOK, Command, Limited, Shell
  <2> QED
    BY <1>1, <2>1, <2>2 DEF WasRead
<1>10. CASE Drop \/ UNCHANGED vars \/ \E w \in Worker : Acquire(w)
  BY <1>1, <1>10 DEF Drop, vars, Acquire, WasRead
<1> QED
  BY <1>3, <1>4, <1>5, <1>6, <1>7, <1>8, <1>9, <1>10 DEF Next, MainStep, Step

(* Whatever the tasks of a session do, the coordinator sees a poll: paths  *)
(* listed once, read in any order, then one outcome that never changes     *)
(* (client.py:178-200).                                                    *)
THEOREM SessionsArePolls == Spec => Poll!Safety
<1>1. Init => DiscoverInv
  BY MainIsWorker DEF Init, DiscoverInv
<1>2. Spec => []DiscoverInv
  BY <1>1, DiscoverStep, SessionTypeCorrect, SessionInvariance, PTL DEF Spec
<1> QED
  BY <1>2, PollInitial, PollStep, SessionTypeCorrect, SessionInvariance, PTL
  DEF Spec, Poll!Safety
=============================================================================
