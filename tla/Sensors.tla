------------------------------- MODULE Sensors -------------------------------
(***************************************************************************)
(* What Home Assistant shows of a parsed disk (sensor.py, binary_sensor.py,*)
(* button.py): which entities a disk has and what their states are, for    *)
(* every disk the parsers return.                                          *)
(***************************************************************************)
EXTENDS Parser

HEALTH_OPTIONS    == {"passed", "warning", "failed"}
SELF_TEST_OPTIONS == {"passed", "failed", "aborted", "unknown"}

HealthValue(d) == IF d.health = "unknown" THEN None ELSE d.health

(* last_self_test: the newest entry of the log that is not in progress.    *)
NewestSelfTest(d) ==   \* mutant: the first entry, whatever it says
    IF d.self_tests = <<>> THEN None ELSE d.self_tests[1]
LastSelfTest(d) ==
    LET done == {n \in DOMAIN d.self_tests : d.self_tests[n] # "in_progress"}
    IN  IF done = {} THEN None ELSE d.self_tests[Min(done)]

HealthProblem(d) == IF d.health = "unknown" THEN None ELSE d.health # "passed"

BadSectorCounts == {"reallocated_sectors", "pending_sectors", "offline_uncorrectable",
                    "grown_defects", "media_errors"}
SectorProblem(d) ==
    LET counts == {d.counters[c] : c \in BadSectorCounts} \ {None}
    IN  IF counts = {} THEN None ELSE counts # {0}

(* The sensors that exist for the disks that report a value (_has).        *)
Measured == {"temperature", "power_on_hours", "power_cycles", "percentage_used",
             "available_spare"}
Has(d) == {k \in Measured : d[k] # None} \cup {c \in Counter : d.counters[c] # None}

Entities(d) ==
    {"health", "health_problem", "standby"} \cup Has(d)
    \cup (IF SectorProblem(d) # None THEN {"sector_problem"} ELSE {})
    \cup (IF d.supported_self_tests # {} \/ d.self_tests # <<>> THEN {"last_self_test"} ELSE {})
    \cup (IF d.supported_self_tests # {} THEN {"self_test_running", "abort_self_test"} ELSE {})
    \cup d.supported_self_tests   \* the buttons self_test_...

-----------------------------------------------------------------------------
(* Properties of what was parsed.                                          *)

Parsed == call.f = "smartctl" /\ result # None
report == call.arg
Shown  == Parsed /\ ~result.standby /\ ~result.error

(* The four outcomes the Coordinator module has (Answer, Blank), in every  *)
(* format: a sleeping disk is in standby although smartctl exits with the  *)
(* status of an open error; neither it nor a disk that was not opened has  *)
(* a name, values or more than the three entities every disk has.          *)
OutcomeOK ==
    Parsed =>
      /\ result.standby <=> report.asleep
      /\ result.error <=> ~report.asleep /\ Unopened(report)
      /\ result.standby \/ result.error \/ report.format = "cut" =>
            /\ result.wwn = None /\ result.serial = None
            /\ Entities(result) = {"health", "health_problem", "standby"}
            /\ report.format # "cut" => HealthValue(result) = None

(* "Warning means an attribute crossed its threshold or an NVMe disk       *)
(* reports a critical warning" (smart_monitor.markdown:87): the health     *)
(* problem is on exactly for a disk that failed its check or shows one of  *)
(* these, wherever the output says so.  Text says nothing of the NVMe log, *)
(* and an attribute counts there only besides the result of the check.  A  *)
(* table that lists an ID twice may hide a row that fails (parser.py:388), *)
(* but no problem comes from nowhere.                                      *)
Fails(r, rows) == \E n \in rows : r.table[n].now
Troubled(r) ==
    \/ r.passed = FALSE \/ "disk_failing" \in r.exit
    \/ r.format = "json" /\ Fails(r, DOMAIN r.table)
    \/ r.format = "text" /\ r.passed = TRUE /\ Fails(r, DOMAIN TextTable(r.table))
    \/ /\ r.format = "json" /\ r.nvme # None
       /\ \/ r.nvme.warning \notin {None, 0}
          \/ /\ r.nvme.spare # None /\ r.nvme.threshold # None
             /\ r.nvme.spare < r.nvme.threshold
DistinctIds(table) == \A m, n \in DOMAIN table : table[m].id = table[n].id => m = n
ProblemShown ==
    Shown /\ report.format # "cut" =>
        /\ HealthProblem(result) = TRUE => Troubled(report)
        /\ Troubled(report) /\ DistinctIds(report.table) => HealthProblem(result) = TRUE

(* A host that gets smartctl 7 does not change what is shown: what both    *)
(* formats print is read alike (parse_smartctl, parser.py:161-171).  The   *)
(* WWN, self-tests and the logs of NVMe and SCSI are in the JSON only.  Of *)
(* an attribute table this holds if smartctl printed all its rows with     *)
(* their values, and of a counter or the hours if it printed the raw value *)
(* whole: of one printed in parts the text shows the first part, the JSON  *)
(* all of it.  A temperature is the same as long as its low byte is        *)
(* printed first, whatever else the raw value holds.                       *)
Other(f) == IF f = "json" THEN "text" ELSE "json"
AllLegible(table) == \A n \in DOMAIN table : Legible(table[n])
Whole(table, id) ==
    \A n \in DOMAIN table : table[n].id = id => table[n].printed = table[n].raw
LowByteFirst(table) ==
    \A n \in DOMAIN table :
        table[n].id \in {190, 194} => table[n].printed % 256 = table[n].raw % 256
FormatsAgree ==
    Parsed /\ report.format # "cut" =>
        LET twin  == ParseSmartctl([report EXCEPT !.format = Other(@)])
            table == report.table
        IN
        /\ result.standby = twin.standby /\ result.error = twin.error
        /\ Shown /\ AllLegible(table) =>
             /\ result.serial = twin.serial
             /\ result.disk_type = twin.disk_type
             /\ report.protocol # "ata" \/ table # <<>> => result.interface = twin.interface
             /\ report.protocol = "ata" => result.percentage_used = twin.percentage_used
             \* smartctl's own figures for an ATA disk are in the JSON only
             /\ report.protocol = "ata" /\ report.hours = None /\ Whole(table, 9)
                  => result.power_on_hours = twin.power_on_hours
             /\ (report.protocol = "ata") = (report.temperature = None) /\ LowByteFirst(table)
                  => result.temperature = twin.temperature
             /\ report.passed # None /\ report.nvme = None /\ DistinctIds(table)
                  => result.health = twin.health
             /\ \A c \in DOMAIN AtaCounter :
                    Whole(table, AtaCounter[c]) => result.counters[c] = twin.counters[c]
             /\ result.counters["grown_defects"] = twin.counters["grown_defects"]

(* A state that is not among its options is an error to Home Assistant     *)
(* (sensor.py:90, 133), and a test in progress is not one of them.         *)
OptionsCover ==
    Parsed => /\ HealthValue(result) \in HEALTH_OPTIONS \cup {None}
              /\ LastSelfTest(result) \in SELF_TEST_OPTIONS \cup {None}

(* A test that runs, however much of it remains (the low half of the ATA   *)
(* status), is shown as running by the entity of a disk that has tests,    *)
(* next to the button that aborts it.                                      *)
Testing(r) ==
    \/ r.status # None /\ r.status >= 240
    \/ r.nvme # None /\ r.nvme.tests # None /\ r.nvme.operation \in 1..15
    \/ r.protocol = "scsi" /\ r.scsi.tests # <<>> /\ r.scsi.tests[1] # None
       /\ r.scsi.tests[1].value = 15
RunningShown ==
    Shown /\ report.format = "json" /\ Testing(report) =>
        /\ result.self_test_in_progress
        /\ result.supported_self_tests # {}
             => {"self_test_running", "abort_self_test"} \subseteq Entities(result)

(* "Endurance used: percentage of the rated endurance an SSD has used"     *)
(* (smart_monitor.markdown:89): of an ATA disk between 0 and 100, never of *)
(* a disk that is not an SSD.                                              *)
PercentageSane ==
    Shown /\ report.protocol = "ata" /\ result.percentage_used # None =>
        result.disk_type = "ssd" /\ result.percentage_used \in 0..100

-----------------------------------------------------------------------------
(* Properties of lists.                                                    *)

(* smartctl before and after version 7 finds the same devices: each once,  *)
(* in the order of the scan, and all that could be opened.                 *)
Keys(list) == {list[n] : n \in DOMAIN list}
Once(list) == \A m, n \in DOMAIN list : list[m] = list[n] => m = n
DevicesOnce ==
    /\ call.f = "scan" /\ result # None =>
          /\ result.json = result.text
          /\ Once(result.json)
          /\ Keys(result.json) = {Spec(d.path, d.type) : d \in {e \in Keys(call.arg) : e.opens}}
    /\ call.f = "lsblk" /\ result # None =>
          Once(result) /\ {s.path : s \in Keys(result)} = {d.path : d \in {e \in Keys(call.arg) : e.disk}}

(* The list the Coordinator files (Kept): of every identifier the first    *)
(* disk, and every disk that does not tell who it is.                      *)
DisksKept ==
    call.f = "disks" /\ result # None =>
        Keys(result) = {call.arg[n] : n \in {n \in DOMAIN call.arg :
            call.arg[n].identifier = None
            \/ \A m \in 1..(n - 1) : call.arg[m].identifier # call.arg[n].identifier}}

(* /etc/os-release, printed as it is, renames neither the host nor its     *)
(* kernel (_HOST_INFO_SCRIPT prints its own lines first), and a NAS or     *)
(* hypervisor on top of a distribution is shown with its own version.      *)
Says(key) == {n \in DOMAIN call.arg : call.arg[n].key = key}
HostIsItself ==
    call.f = "host" /\ result # None =>
        /\ \A n \in Says("HOSTNAME") : call.arg[n].script => result.hostname = call.arg[n].value
        /\ \A n \in Says("UNAME_R") : call.arg[n].script => result.kernel = call.arg[n].value
        /\ result.os_name \in Products =>
              \E n \in Says("UNRAID_VERSION") \cup Says("PVE_VERSION") :
                  result.os_version = call.arg[n].value
=============================================================================
