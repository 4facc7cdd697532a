------------------------------- MODULE DiskPoll -------------------------------
(***************************************************************************)
(* What the coordinator relies on when it asks a session for its disks     *)
(* (the part StartPoll .. Publish | PollFails of Coordinator): the poll    *)
(* ends either with every listed disk read or with one error and nothing,  *)
(* and its outcome never changes again.                                    *)
(***************************************************************************)
CONSTANT Path

VARIABLES
    listed,    \* the paths to read
    read,      \* those that have been read
    outcome    \* "pending", "ok", or why the poll failed

dpvars == <<listed, read, outcome>>

Errors == {"auth", "host_key", "connection", "command"}

(* The caller may name the paths itself.                                   *)
Init == listed \in SUBSET Path /\ read = {} /\ outcome = "pending"

(* Otherwise they are listed once, before any is read.                     *)
List == /\ outcome = "pending" /\ read = {} /\ listed = {}
        /\ listed' \in SUBSET Path
        /\ UNCHANGED <<read, outcome>>

(* A command that outlives a failed poll may still end.                    *)
Read(p) == /\ outcome # "ok" /\ p \in listed
           /\ read' = read \cup {p}
           /\ UNCHANGED <<listed, outcome>>

Succeed == /\ outcome = "pending" /\ read = listed
           /\ outcome' = "ok"
           /\ UNCHANGED <<listed, read>>

Fail == /\ outcome = "pending"
        /\ outcome' \in Errors
        /\ UNCHANGED <<listed, read>>

Next == List \/ (\E p \in Path : Read(p)) \/ Succeed \/ Fail

Safety == Init /\ [][Next]_dpvars
Spec   == Safety /\ WF_dpvars(Succeed \/ Fail)
=============================================================================
