----------------------------- MODULE PressHistory -----------------------------
(* SelfTestButton with history variables that record what a press may rely *)
(* on, and what a press promises.                                          *)
EXTENDS SelfTestButton

VARIABLES
    reread,   \* paths with the same disk since this poll read them
    settled,  \* paths with the same disk since their published reading
    sure,     \* disk IDs whose command is on its way to a settled path
    polled,   \* disk IDs pressed with success, no poll ended since
    merged,   \* those of them pressed while a poll was in flight
    unread    \* disk IDs pressed with success, the disk not read since

presshistory == <<reread, settled, sure, polled, merged, unread>>
historyvars  == <<pressvars, presshistory>>

Replugged == {k \in Key : attached'[k] # attached[k]}
JustRead  == {k \in Key : readings[k] = None /\ readings'[k] # None}
PollEnds  == pc = "reading" /\ pc' # "reading"
Returning == {i \in ID : press[i] # Idle /\ ~press[i].orphan /\ Return(i)}

(* The disk of the button was read, neither asleep nor with an error, on   *)
(* the path it is published with, and nothing was plugged there since.     *)
ReadWell(i) == /\ data[i] # None /\ data[i].identifier = i
               /\ ~data[i].standby /\ ~data[i].error
Settled(i)  == ~press[i].orphan /\ ReadWell(i) /\ data[i].spec \in settled

Record ==
    /\ reread' = IF pc' # "reading" THEN {} ELSE (reread \cup JustRead) \ Replugged
    /\ settled' = IF ~loaded' THEN {}
                  ELSE (IF PollEnds /\ status' = "ok" THEN reread ELSE settled) \ Replugged
    /\ sure' = {i \in ID : /\ press'[i] # Idle /\ press'[i].step = "running"
                           /\ press'[i].target \notin Replugged
                           /\ i \in sure \/ (press[i].step = "connecting" /\ Settled(i))}
    /\ polled' = IF PollEnds \/ ~loaded' THEN {} ELSE polled \cup Returning
    /\ merged' = IF PollEnds \/ ~loaded' THEN {}
                 ELSE IF pc = "reading" THEN merged \cup Returning ELSE merged \ Returning
    /\ unread' = (unread \ {attached[k] : k \in JustRead}) \cup Returning

HistoryInit == ButtonInit /\ reread = {} /\ settled = {} /\ sure = {}
                          /\ polled = {} /\ merged = {} /\ unread = {}
HistoryNext == ButtonNext /\ Record
HistorySpec == HistoryInit /\ [][HistoryNext]_historyvars

(* A button reaches its own disk (_run, button.py:100): the command runs   *)
(* on the disk of the button, or starts and ends the test of no disk at    *)
(* all, as long as the latest data showed the disk awake on its path and   *)
(* nothing was plugged there since.  Polls that move the disk in the data  *)
(* while the press waits and connects do not matter.                       *)
HitsOwnDisk ==
    [][\A i \in sure : testing' # testing /\ press[i] # Idle /\ press'[i] # press[i]
                       => attached[press[i].target] = i]_historyvars

(* After a press that succeeded the disks are read (button.py:97): until a *)
(* poll has ended, one is in flight or requested, although requests are    *)
(* dropped during polls, and polls fail.                                   *)
PressIsPolled == \A i \in polled : pc = "reading" \/ requested

(* What the next poll publishes of a disk that names itself was read after *)
(* the command reached the disk, so it shows the test; unless the press    *)
(* ended while a poll was in flight, whose readings may be older.          *)
TestIsShown ==
    [][PollEnds /\ status' = "ok" =>
           \A i \in polled \ merged : ReadWell(i)' => i \notin unread]_historyvars
=============================================================================
