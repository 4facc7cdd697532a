------------------------------- MODULE Session -------------------------------
(***************************************************************************)
(* One SSH session of SmartctlClient (client.py): it connects, runs the    *)
(* commands of one job over the connection and closes it.  The jobs are    *)
(* the three the integration has: the host information at setup, a poll of *)
(* the disks, and a self-test button.                                      *)
(*                                                                         *)
(* A poll reads its disks in parallel tasks (asyncio.gather): each task    *)
(* first asks for the smartctl version if the session does not know it,    *)
(* and a semaphore lets max_parallel smartctl commands run at once.  The   *)
(* first task that fails ends the poll; gather does not cancel the other   *)
(* tasks, which go on while the connection is being closed.  A step below  *)
(* is what one coroutine does between two awaits.                          *)
(***************************************************************************)
EXTENDS Naturals, FiniteSets

CONSTANTS
    Path,          \* the paths of the disks
    Main,          \* the coroutine that holds the session
    MaxParallel,   \* max_parallel
    HostHasJson,   \* smartctl on the host is 7.0 or newer
    None

ASSUME PathAssumption == Main \notin Path /\ IsFiniteSet(Path)
ASSUME ParallelAssumption == MaxParallel \in Nat \ {0}
ASSUME VersionAssumption == HostHasJson \in BOOLEAN /\ None \notin BOOLEAN

Worker == Path \cup {Main}

VARIABLES
    job,       \* "setup", "poll" or "self_test"
    conn,      \* the connection: "none", "open", "lost" or "closed"
    at,        \* what each coroutine is doing
    slot,      \* its command: "none", "waiting" for the semaphore, "running"
    permits,   \* the value of the semaphore: commands that may still start
    version,   \* smartctl_version: None or, once known, whether it has JSON
    json,      \* whether the task asked for JSON output, None before it reads
    listed,    \* the paths to read; {} as long as a poll has to discover them
    error,     \* the first exception of a task
    outcome    \* "pending", then what the caller gets: "ok" or the error

vars == <<job, conn, at, slot, permits, version, json, listed, error, outcome>>

(* Commands that go through _smartctl, and so through the semaphore, and   *)
(* those that do not (_shell).                                             *)
Limited == {"version", "scan", "read", "self_test"}
Shell   == {"script", "lsblk"}
Command == Limited \cup Shell

SessionTypeOK ==
    /\ job \in {"setup", "poll", "self_test"}
    /\ conn \in {"none", "open", "lost", "closed"}
    /\ at \in [Worker -> Command \cup {"idle", "connect", "gather", "gathering",
                                      "close", "end", "failed"}]
    /\ slot \in [Worker -> {"none", "waiting", "running"}]
    /\ permits \in Nat
    /\ version \in BOOLEAN \cup {None}
    /\ json \in [Path -> BOOLEAN \cup {None}]
    /\ listed \subseteq Path
    /\ error \in {"none", "connection", "command"}
    /\ outcome \in {"pending", "ok", "auth", "host_key", "connection", "command"}
    \* A coroutine holds or awaits a slot exactly while it is in a command.
    /\ \A w \in Worker : slot[w] = "none" <=> at[w] \notin Command

(* The coroutines whose command through _smartctl is under way.            *)
Running == {w \in Worker : slot[w] = "running" /\ at[w] \in Limited}

(* supports_json: True as long as the version is unknown.                  *)
supports_json == version # FALSE

-----------------------------------------------------------------------------
Init ==
    /\ job \in {"setup", "poll", "self_test"}
    /\ conn = "none"
    /\ at = [w \in Worker |-> IF w = Main THEN "connect" ELSE "idle"]
    /\ slot = [w \in Worker |-> "none"]
    /\ permits = MaxParallel
    /\ version = None
    /\ json = [p \in Path |-> None]
    \* the argument of get_disks, from the "Devices" option
    /\ listed \in IF job = "poll" THEN SUBSET Path ELSE {{}}
    /\ error = "none"
    /\ outcome = "pending"

(* What a coroutine does next.  Leaving a command that had a permit gives  *)
(* it back, whatever the command's end (async with); a command starts by   *)
(* waiting for a permit if it needs one.                                   *)
Goes(w, step) ==
    /\ at' = [at EXCEPT ![w] = step]
    /\ slot' = [slot EXCEPT ![w] = IF step \in Limited THEN "waiting"
                                   ELSE IF step \in Shell THEN "running" ELSE "none"]
    /\ permits' = IF w \in Running THEN permits + 1 ELSE permits

(* The body of the session ends: with a result, or an exception that       *)
(* leaves it through `finally`.                                            *)
Ends(result) == Goes(Main, "close") /\ error' = IF result = "ok" THEN error ELSE result

(* session(): import the key and connect, or fail with the error that      *)
(* tells the user what to do.                                              *)
Connect ==
    /\ at[Main] = "connect"
    /\ conn' = "open"
    /\ Goes(Main, CASE job = "setup" -> "script"
                    [] job = "self_test" -> "self_test"
                    [] job = "poll" -> IF listed = {} THEN "version" ELSE "gather")
    /\ UNCHANGED <<job, version, json, listed, error, outcome>>

ConnectFails ==
    /\ at[Main] = "connect"
    /\ outcome' \in {"auth", "host_key", "connection"}
    /\ Goes(Main, "end")
    /\ UNCHANGED <<job, conn, version, json, listed, error>>

(* async with self._semaphore                                              *)
Acquire(w) ==
    /\ slot[w] = "waiting" /\ permits > 0
    /\ slot' = [slot EXCEPT ![w] = "running"]
    /\ permits' = permits - 1
    /\ UNCHANGED <<job, conn, at, version, json, listed, error, outcome>>

(* A command of Main succeeded: get_host_info, discover, start_self_test.  *)
Proceed ==
    /\ slot[Main] = "running" /\ conn = "open"
    /\ version' = IF at[Main] = "version" THEN HostHasJson ELSE version
    /\ \/ at[Main] = "script" /\ Goes(Main, "version") /\ UNCHANGED <<listed, error>>
       \/ at[Main] = "version" /\ job = "poll" /\ Goes(Main, "scan") /\ UNCHANGED <<listed, error>>
       \/ at[Main] = "version" /\ job = "setup" /\ Ends("ok") /\ UNCHANGED listed
       \/ at[Main] = "self_test" /\ Ends("ok") /\ UNCHANGED listed
       \/ \* smartctl --scan-open found something, or nothing
          /\ at[Main] = "scan"
          /\ listed' \in SUBSET Path
          /\ Goes(Main, IF listed' = {} THEN "lsblk" ELSE "gather")
          /\ UNCHANGED error
       \/ /\ at[Main] = "lsblk"
          /\ listed' \in SUBSET Path
          /\ Goes(Main, "gather")
          /\ UNCHANGED error
    /\ UNCHANGED <<job, conn, json, outcome>>

(* gather starts a task per disk; each runs to its first await in get_disk.*)
GatherBlindly ==   \* mutant: get_disk does not check the version
    /\ at[Main] = "gather"
    /\ at' = [w \in Worker |-> IF w = Main THEN "gathering"
                               ELSE IF w \in listed THEN "read" ELSE at[w]]
    /\ slot' = [w \in Worker |-> IF w \in listed THEN "waiting" ELSE slot[w]]
    /\ json' = [p \in Path |-> IF p \in listed THEN supports_json ELSE None]
    /\ UNCHANGED <<job, conn, permits, version, listed, error, outcome>>
GatherUnlimited ==   \* mutant: the version check is run outside the semaphore
    /\ at[Main] = "gather"
    /\ at' = [w \in Worker |->
                 IF w = Main THEN "gathering"
                 ELSE IF w \notin listed THEN at[w]
                 ELSE IF version = None THEN "version" ELSE "read"]
    /\ slot' = [w \in Worker |-> IF w \notin listed THEN slot[w]
                                 ELSE IF version = None THEN "running" ELSE "waiting"]
    /\ json' = [p \in Path |-> IF p \in listed /\ version # None
                               THEN supports_json ELSE None]
    /\ UNCHANGED <<job, conn, permits, version, listed, error, outcome>>
Gather ==
    /\ at[Main] = "gather"
    /\ at' = [w \in Worker |->
                 IF w = Main THEN "gathering"
                 ELSE IF w \notin listed THEN at[w]
                 ELSE IF version = None THEN "version" ELSE "read"]
    /\ slot' = [w \in Worker |-> IF w \in listed THEN "waiting" ELSE slot[w]]
    /\ json' = [p \in Path |-> IF p \in listed /\ version # None
                               THEN supports_json ELSE None]
    /\ UNCHANGED <<job, conn, permits, version, listed, error, outcome>>

(* A command of a task succeeded; check_smartctl goes on to the reading.   *)
TaskVersion(p) ==
    /\ at[p] = "version" /\ slot[p] = "running" /\ conn = "open"
    /\ version' = HostHasJson
    /\ Goes(p, "read")
    /\ json' = [json EXCEPT ![p] = HostHasJson]
    /\ UNCHANGED <<job, conn, listed, error, outcome>>

TaskRead(p) ==
    /\ at[p] = "read" /\ slot[p] = "running" /\ conn = "open"
    /\ Goes(p, "end")
    /\ UNCHANGED <<job, conn, version, json, listed, error, outcome>>

(* A command raises: a timeout or a lost or closed connection, or smartctl *)
(* or sudo that cannot be run, an unexpected version, a refused self-test. *)
Raises(w) == {"connection"} \cup
    IF conn = "open" /\ at[w] \in Limited THEN {"command"} ELSE {}

MainFails ==
    /\ slot[Main] = "running"
    /\ \E why \in Raises(Main) : Ends(why)
    /\ UNCHANGED <<job, conn, version, json, listed, outcome>>

TaskFailsHolding(p) ==   \* mutant: the slot is not released on an exception
    /\ slot[p] = "running"
    /\ \E why \in Raises(p) : error' = IF error = "none" THEN why ELSE error
    /\ at' = [at EXCEPT ![p] = "failed"]
    /\ UNCHANGED <<job, conn, slot, permits, version, json, listed, outcome>>
TaskFails(p) ==
    /\ slot[p] = "running"
    /\ \E why \in Raises(p) : error' = IF error = "none" THEN why ELSE error
    /\ Goes(p, "failed")
    /\ UNCHANGED <<job, conn, version, json, listed, outcome>>

(* gather returns when all tasks have, and raises when the first one does. *)
GatherReturnsAnyway ==   \* mutant: return_exceptions=True
    /\ at[Main] = "gathering" /\ \A p \in listed : at[p] \in {"end", "failed"}
    /\ Goes(Main, "close") /\ error' = "none"
    /\ UNCHANGED <<job, conn, version, json, listed, outcome>>
GatherReturns ==
    /\ at[Main] = "gathering" /\ error = "none" /\ \A p \in listed : at[p] = "end"
    /\ Ends("ok")
    /\ UNCHANGED <<job, conn, version, json, listed, outcome>>

GatherRaises ==
    /\ at[Main] = "gathering" /\ error # "none"
    /\ Ends(error)
    /\ UNCHANGED <<job, conn, version, json, listed, outcome>>

(* finally: close the connection and hand out the result.                  *)
CloseOnSuccess ==   \* mutant: no finally
    /\ at[Main] = "close"
    /\ conn' = IF error = "none" THEN "closed" ELSE conn
    /\ outcome' = IF error = "none" THEN "ok" ELSE error
    /\ Goes(Main, "end")
    /\ UNCHANGED <<job, version, json, listed, error>>
Close ==
    /\ at[Main] = "close"
    /\ conn' = "closed"
    /\ outcome' = IF error = "none" THEN "ok" ELSE error
    /\ Goes(Main, "end")
    /\ UNCHANGED <<job, version, json, listed, error>>

(* The host or the network goes away.                                      *)
Drop ==
    /\ conn = "open" /\ conn' = "lost"
    /\ UNCHANGED <<job, at, slot, permits, version, json, listed, error, outcome>>

MainStep == Connect \/ ConnectFails \/ Proceed \/ MainFails \/ Gather
            \/ GatherReturns \/ GatherRaises \/ Close
Step(w)  == Acquire(w) \/ (w \in Path /\ (TaskVersion(w) \/ TaskRead(w) \/ TaskFails(w)))

Next == MainStep \/ Drop \/ \E w \in Worker : Step(w)

Spec == Init /\ [][Next]_vars

(* Every coroutine that can go on does: the event loop runs them all, the  *)
(* semaphore wakes waiters in order, and command_timeout and               *)
(* connect_timeout end what the host leaves hanging.                       *)
FairSpec == Spec /\ WF_vars(MainStep) /\ \A w \in Worker : WF_vars(Step(w))

-----------------------------------------------------------------------------
(* A session never awaits more than max_parallel smartctl commands at once *)
(* (client.py:113, 249): every command it sends to smartctl, the version   *)
(* checks of a poll's tasks and the tasks a failed poll leaves behind      *)
(* included, has taken a permit that no other one has, and none is given   *)
(* back twice.  (What a command that timed out still does on the host is   *)
(* not counted, nor are other sessions: each has its own semaphore.)       *)
ParallelBound == Cardinality(Running) <= MaxParallel

(* smartctl without JSON is never asked for it when reading a disk: every  *)
(* `smartctl -a` is put together after the version is known, although the  *)
(* tasks find it out in a race (client.py:324-328).                        *)
FormatKnown ==
    \A p \in Path : at[p] = "read" => version = HostHasJson /\ json[p] = HostHasJson

(* The caller gets a result only when every listed disk was read, and the  *)
(* connection is closed whenever the session is over.                      *)
AllOrNothing ==
    /\ outcome = "ok" => \A p \in listed : at[p] = "end"
    /\ at[Main] = "end" => conn \in {"none", "closed"}

(* Whatever hangs or fails, the session ends, and so do the tasks a failed *)
(* poll leaves behind: nobody waits forever, every permit is given back.   *)
EverythingEnds ==
    <>[](at[Main] = "end" /\ permits = MaxParallel /\ \A w \in Worker : slot[w] = "none")

(* A session implements the poll the coordinator relies on.                *)
Poll == INSTANCE DiskPoll WITH read <- {p \in Path : at[p] = "end"}
PollRefinement == Poll!Spec
=============================================================================
