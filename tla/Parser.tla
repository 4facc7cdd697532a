-------------------------------- MODULE Parser --------------------------------
(***************************************************************************)
(* parser.py: what the output of smartctl, lsblk and the host information  *)
(* script is made into.  A report is what smartctl knows of a disk; it     *)
(* prints it as JSON, or as text before version 7, and the output may be   *)
(* cut short.  The parser must make the same of it either way.             *)
(*                                                                         *)
(* Numbers and texts are already converted (_int, _str); None stands for   *)
(* what is missing or unusable.  Model names, vendors, firmware, capacity  *)
(* and bytes read and written are left out.                                *)
(***************************************************************************)
EXTENDS Integers, SequencesExt

CONSTANTS
    None,
    Reports,     \* families of what `smartctl -a` may answer
    Scans,       \* what `smartctl --scan-open` and lsblk may answer
    Polls,       \* lists of disks a poll may have read
    Hosts        \* what the host information script may print

VARIABLES call, result   \* one call of a parser, and what it returned
parservars == <<call, result>>

(* _ATA_LIFE_LEFT_ATTRIBUTES, and the counters with their attribute IDs.   *)
LifeLeft == <<"Percent_Lifetime_Remain", "SSD_Life_Left", "Media_Wearout_Indicator",
              "Remaining_Lifetime_Perc", "Wear_Leveling_Count">>
AtaCounter ==
    [reallocated_sectors |-> 5, spin_retry_count |-> 10, reported_uncorrectable |-> 187,
     command_timeouts |-> 188, reallocation_events |-> 196, pending_sectors |-> 197,
     offline_uncorrectable |-> 198, udma_crc_errors |-> 199]
NvmeCounter == {"media_errors", "unsafe_shutdowns", "error_log_entries"}
ScsiCounter == {"grown_defects", "uncorrected_read_errors", "uncorrected_write_errors",
                "uncorrected_verify_errors", "non_medium_errors"}
Counter == DOMAIN AtaCounter \cup NvmeCounter \cup ScsiCounter

Given(a, b) == IF a # None THEN a ELSE b

-----------------------------------------------------------------------------
(* Self-test log entries: a code, whether it passed, and what its text     *)
(* contains ("completed" stands for a text that says nothing else).        *)

ResultFromText(words) ==
    IF "progress" \in words THEN "in_progress"
    ELSE IF "without error" \in words \/ words = {"completed"} THEN "passed"
    ELSE IF words \cap {"abort", "interrupt"} # {} THEN "aborted"
    ELSE IF words \cap {"fail", "error"} # {} THEN "failed"
    ELSE "unknown"

AtaSelfTestResult(e) ==
    LET code == IF e.value = None THEN 9 ELSE e.value \div 16 IN
    CASE code = 0      -> "passed"
      [] code \in 1..2 -> "aborted"
      [] code \in 3..8 -> "failed"
      [] code = 15     -> "in_progress"
      [] OTHER -> IF e.passed = TRUE THEN "passed"
                  ELSE IF e.passed = FALSE THEN "failed" ELSE ResultFromText(e.words)

NvmeSelfTestResult(e) ==
    CASE e.value = 0                    -> "passed"
      [] e.value \in {1, 2, 3, 4, 8, 9} -> "aborted"
      [] e.value \in {5, 6, 7}          -> "failed"
      [] OTHER                          -> ResultFromText(e.words)

ScsiSelfTestResult(e) ==
    CASE e.value = 0      -> "passed"
      [] e.value \in 1..2 -> "aborted"
      [] e.value \in 3..7 -> "failed"
      [] e.value = 15     -> "in_progress"
      [] OTHER            -> ResultFromText(e.words)

(* scsi_self_test_0 to scsi_self_test_19, up to the first that is missing. *)
Unbroken(log) == {n \in DOMAIN log : n <= 20 /\ \A m \in 1..n : log[m] # None}

-----------------------------------------------------------------------------
(* The ATA attribute table (_apply_ata_attributes): the last row with an   *)
(* ID or a name counts, but the first usable one for what is set only once.*)
(* A table maps the positions of its rows to the rows.                     *)

LastRaw(table, id) ==
    LET rows == {n \in DOMAIN table : table[n].id = id}
    IN  IF rows = {} THEN None ELSE table[Max(rows)].raw
FirstRaw(table, ids) ==
    LET rows == {n \in DOMAIN table : table[n].id \in ids /\ table[n].raw # None}
    IN  IF rows = {} THEN None ELSE table[Min(rows)].raw

(* The upper bytes of a temperature often hold its minimum and maximum.    *)
AtaTemperatureWhole(table) ==   \* mutant: without & 0xFF
    FirstRaw(table, {194, 190})
AtaTemperature(table) ==
    LET raw == FirstRaw(table, {194, 190}) IN IF raw = None THEN None ELSE raw % 256

ByName(table, name) == {n \in DOMAIN table : table[n].name = name}
UsedUnchecked(table) ==   \* mutant: values above 100 are not left out
    LET Left(p) == table[Max(ByName(table, LifeLeft[p]))].value
        usable  == {p \in DOMAIN LifeLeft :
                       ByName(table, LifeLeft[p]) # {} /\ Left(p) # None}
    IN  IF usable = {} THEN None ELSE 100 - Left(Min(usable))
Used(table) ==
    LET Left(p) == table[Max(ByName(table, LifeLeft[p]))].value
        usable  == {p \in DOMAIN LifeLeft :
                       ByName(table, LifeLeft[p]) # {} /\ Left(p) # None /\ Left(p) <= 100}
    IN  IF usable = {} THEN None ELSE 100 - Left(Min(usable))

(* The health looks at ata_attributes, where a row replaces an earlier one *)
(* with the same ID.                                                       *)
FailingNow(table) ==
    \E n \in DOMAIN table :
        /\ table[n].now
        /\ \A m \in DOMAIN table : m > n => table[m].id # table[n].id

(* The text prints a table row by row.  A row counts if it has a value and *)
(* its raw column begins with a digit (smartctl prints "---" for a missing *)
(* value, and a temperature may be negative), and its raw value is what    *)
(* these first digits say.                                                 *)
Legible(row) == row.value # None /\ row.printed # None
TextTable(table) ==
    [n \in {m \in DOMAIN table : Legible(table[m])} |->
        [table[n] EXCEPT !.raw = table[n].printed]]

-----------------------------------------------------------------------------
(* What smartctl knows of a disk.  The exit status has a bit for an        *)
(* attribute that fails now, the table says which; the NVMe log is that of *)
(* an NVMe drive.  The raw value of an attribute is 48 bits, in the JSON a *)
(* single number; the text prints it in one of many ways, whole or in      *)
(* parts, and `printed` is the first number of that: 4295032833 is printed *)
(* "1 1 1", the temperature 40 with a maximum of 52 above it "40 (Max 52)".*)

Number   == Nat \cup {None}
Degrees  == Int \cup {None}
Text     == STRING \cup {None}
LogEntry == [value : Number, passed : BOOLEAN \cup {None}, words : SUBSET STRING]
TableRow == [id : Nat, name : STRING, value : Number, raw : Number,
             printed : Number, now : BOOLEAN]
NvmeLog  == [warning : Number, spare : Number, threshold : Number, used : Number,
             temperature : Degrees, hours : Number, cycles : Number,
             counters : [NvmeCounter \cup ScsiCounter -> Number],
             tests : Seq(LogEntry) \cup {None}, operation : Number]
ScsiLog  == [used : Number, cycles : Number, tests : Seq(LogEntry \cup {None}),
             counters : [NvmeCounter \cup ScsiCounter -> Number]]
Report ==
    [format : {"json", "text", "cut"},
     exit : SUBSET {"command_line", "device_open", "disk_failing", "prefail_now"},
     asleep : BOOLEAN, protocol : {"ata", "nvme", "scsi", "unknown"},
     wwn : Text, serial : Text, rotation : Number, passed : BOOLEAN \cup {None},
     temperature : Degrees, hours : Number, cycles : Number, table : Seq(TableRow),
     capabilities : SUBSET {"self_tests", "conveyance"}, status : (0..255) \cup {None},
     tests : Seq(LogEntry), nvme : NvmeLog \cup {None}, scsi : ScsiLog]

Products == {"Unraid", "Proxmox VE"}
DiskSeen == [spec : Nat, identifier : Text]
ASSUME NoneAssumption ==
    None \notin BOOLEAN \cup Int \cup STRING \cup Products
                \cup [path : STRING, device_type : Text]
ASSUME PollAssumption == \A disks \in Polls : disks \in Seq(DiskSeen)
ASSUME ReportAssumption ==
    \A family \in Reports : \A r \in family :
        /\ r \in Report
        /\ "prefail_now" \in r.exit => \E n \in DOMAIN r.table : r.table[n].now
        /\ \A n \in DOMAIN r.table :
              r.table[n].printed # None => r.table[n].raw # None
        /\ r.nvme # None => r.protocol = "nvme"
        /\ r.table # <<>> => r.protocol = "ata"

(* A scanned device; its path and type have a form DeviceSpec.parse takes. *)
ScanLine == [path : STRING \ {"relative"}, type : Text \ {"unsafe"}, opens : BOOLEAN,
             disk : BOOLEAN]
ASSUME ScanAssumption == \A scan \in Scans : scan \in Seq(ScanLine)

(* A line of the host information script, or of the /etc/os-release it     *)
(* passes through: the script prints the name of the host and of its kernel*)
(* once, before that file, which names the distribution below a NAS or a   *)
(* hypervisor (client.py:40-48).                                           *)
HostLine == [key : STRING, value : Text, script : BOOLEAN]
ASSUME HostAssumption ==
    \A lines \in Hosts :
        /\ lines \in Seq(HostLine)
        /\ \A n \in DOMAIN lines :
              /\ lines[n].script /\ lines[n].key \in {"HOSTNAME", "UNAME_R"} =>
                    \A m \in 1..(n - 1) : lines[m].key # lines[n].key
              /\ lines[n].key \in {"NAME", "UNAME_S"} =>
                    lines[n].value \notin Products

-----------------------------------------------------------------------------
(* What is read from a report, JSON first.                                 *)

Unopened(r) == r.exit \cap {"command_line", "device_open"} # {}
Medium(r) ==
    IF r.protocol = "nvme" THEN "nvme"
    ELSE IF r.rotation = None THEN "unknown" ELSE IF r.rotation = 0 THEN "ssd" ELSE "hdd"

Interface(r) == IF r.nvme # None THEN "nvme" ELSE r.protocol
IsScsi(r)    == Interface(r) = "scsi"
SelfTestLog(r) == r.nvme # None /\ r.nvme.tests # None

AtaUsed(r, table) == IF Medium(r) = "ssd" THEN Used(table) ELSE None
PercentageUsed(r) ==
    IF r.nvme # None THEN r.nvme.used
    ELSE IF IsScsi(r) THEN Given(r.scsi.used, AtaUsed(r, r.table)) ELSE AtaUsed(r, r.table)

Temperature(r) == Given(Given(r.temperature, AtaTemperature(r.table)),
                        IF r.nvme = None THEN None ELSE r.nvme.temperature)
Hours(r)  == Given(Given(r.hours, FirstRaw(r.table, {9})),
                   IF r.nvme = None THEN None ELSE r.nvme.hours)
Cycles(r) == Given(Given(Given(r.cycles, FirstRaw(r.table, {12})),
                         IF r.nvme = None THEN None ELSE r.nvme.cycles),
                   IF IsScsi(r) THEN r.scsi.cycles ELSE None)

Counters(r) == [c \in Counter |->
    IF c \in DOMAIN AtaCounter THEN LastRaw(r.table, AtaCounter[c])
    ELSE IF c \in NvmeCounter THEN IF r.nvme = None THEN None ELSE r.nvme.counters[c]
    ELSE IF IsScsi(r) THEN r.scsi.counters[c] ELSE None]

SupportedSelfTests(r) ==
    IF SelfTestLog(r) \/ IsScsi(r) THEN {"short", "long"}
    ELSE IF "self_tests" \notin r.capabilities THEN {}
    ELSE {"short", "long"} \cup (r.capabilities \cap {"conveyance"})

SelfTests(r) ==
    IF IsScsi(r) THEN [n \in Unbroken(r.scsi.tests) |-> ScsiSelfTestResult(r.scsi.tests[n])]
    ELSE IF SelfTestLog(r)
    THEN [n \in DOMAIN r.nvme.tests |-> NvmeSelfTestResult(r.nvme.tests[n])]
    ELSE [n \in DOMAIN r.tests |-> AtaSelfTestResult(r.tests[n])]

InProgressExactly(r) ==   \* mutant: the low half of the ATA status must be 0
    \/ r.status = 240
    \/ SelfTestLog(r) /\ r.nvme.operation \notin {None, 0}
    \/ IsScsi(r) /\ SelfTests(r) # <<>> /\ SelfTests(r)[1] = "in_progress"
InProgress(r) ==
    \/ r.status # None /\ r.status \div 16 = 15
    \/ SelfTestLog(r) /\ r.nvme.operation \notin {None, 0}
    \/ IsScsi(r) /\ SelfTests(r) # <<>> /\ SelfTests(r)[1] = "in_progress"

Symptoms(r) ==
    \/ "prefail_now" \in r.exit \/ FailingNow(r.table)
    \/ /\ r.nvme # None
       /\ \/ r.nvme.warning \notin {None, 0}
          \/ /\ r.nvme.spare # None /\ r.nvme.threshold # None
             /\ r.nvme.spare < r.nvme.threshold
HealthBeforeNvme(r) ==   \* mutant: _health is called before _apply_nvme
    IF r.passed = FALSE \/ "disk_failing" \in r.exit THEN "failed"
    ELSE IF "prefail_now" \in r.exit \/ FailingNow(r.table) THEN "warning"
    ELSE IF r.passed = TRUE THEN "passed" ELSE "unknown"
Health(r) ==
    IF r.passed = FALSE \/ "disk_failing" \in r.exit THEN "failed"
    ELSE IF Symptoms(r) THEN "warning"
    ELSE IF r.passed = TRUE THEN "passed" ELSE "unknown"

(* A Disk without values: asleep, not opened, or output that says nothing. *)
Empty(standby, error, health) ==
    [standby |-> standby, error |-> error, interface |-> "unknown",
     disk_type |-> "unknown", wwn |-> None, serial |-> None, health |-> health,
     temperature |-> None, power_on_hours |-> None, power_cycles |-> None,
     percentage_used |-> None, available_spare |-> None,
     counters |-> [c \in Counter |-> None],
     supported_self_tests |-> {}, self_tests |-> <<>>, self_test_in_progress |-> FALSE]

Read(r) ==
    [standby |-> FALSE, error |-> FALSE, interface |-> Interface(r),
     disk_type |-> IF r.nvme # None THEN "nvme" ELSE Medium(r),
     wwn |-> r.wwn, serial |-> r.serial, health |-> Health(r),
     temperature |-> Temperature(r), power_on_hours |-> Hours(r),
     power_cycles |-> Cycles(r), percentage_used |-> PercentageUsed(r),
     available_spare |-> IF r.nvme = None THEN None ELSE r.nvme.spare,
     counters |-> Counters(r),
     supported_self_tests |-> SupportedSelfTests(r), self_tests |-> SelfTests(r),
     self_test_in_progress |-> InProgress(r)]

ParseJsonErrorFirst(r) ==   \* mutant: a sleeping disk exits with status 2, too
    IF Unopened(r) THEN Empty(FALSE, TRUE, "unknown")
    ELSE IF r.asleep THEN Empty(TRUE, FALSE, "unknown") ELSE Read(r)
ParseJson(r) ==
    IF r.asleep THEN Empty(TRUE, FALSE, "unknown")
    ELSE IF Unopened(r) THEN Empty(FALSE, TRUE, "unknown") ELSE Read(r)

(* The text has no WWN and no hours but those of the table, and the parser *)
(* looks for neither self-tests nor the NVMe log.                          *)
TextHealth(r, table) ==
    IF r.passed = FALSE \/ "disk_failing" \in r.exit THEN "failed"
    ELSE IF r.passed = TRUE /\ \E n \in DOMAIN table : table[n].now THEN "warning"
    ELSE IF r.passed = TRUE THEN "passed" ELSE "unknown"

ReadText(r) ==
    LET table == TextTable(r.table) IN
    [standby |-> FALSE, error |-> FALSE,
     interface |-> IF DOMAIN table # {} THEN "ata"
                   ELSE IF r.protocol = "ata" THEN "unknown" ELSE r.protocol,
     disk_type |-> Medium(r), wwn |-> None, serial |-> r.serial,
     health |-> TextHealth(r, table),
     temperature |-> Given(IF r.protocol = "ata" THEN None ELSE r.temperature,
                           AtaTemperature(table)),
     power_on_hours |-> FirstRaw(table, {9}),
     power_cycles |-> FirstRaw(table, {12}),
     percentage_used |-> AtaUsed(r, table), available_spare |-> None,
     counters |-> [c \in Counter |->
         IF c \in DOMAIN AtaCounter THEN LastRaw(table, AtaCounter[c])
         ELSE IF c = "grown_defects" /\ r.protocol = "scsi" THEN r.scsi.counters[c]
         ELSE None],
     supported_self_tests |-> {}, self_tests |-> <<>>, self_test_in_progress |-> FALSE]

ParseText(r) ==
    IF r.asleep THEN Empty(TRUE, FALSE, "unknown")
    ELSE IF Unopened(r) THEN Empty(FALSE, TRUE, "unknown") ELSE ReadText(r)

(* Output cut short is JSON no more; as text nothing of it is found, unless*)
(* it was cut behind the message that the disk is asleep.                  *)
ParseCut(r) ==
    IF r.asleep THEN Empty(TRUE, FALSE, "unknown")
    ELSE IF Unopened(r) THEN Empty(FALSE, TRUE, "unknown")
    ELSE Empty(FALSE, FALSE, IF "disk_failing" \in r.exit THEN "failed" ELSE "unknown")

ParseSmartctl(r) == IF r.format = "json" THEN ParseJson(r)
                    ELSE IF r.format = "text" THEN ParseText(r) ELSE ParseCut(r)

-----------------------------------------------------------------------------
(* Lists of devices.  Of those with one key the first is kept; None stands *)
(* for a line or a device the loops skip.                                  *)

AddSpec(kept, s) ==
    IF s = None \/ \E n \in DOMAIN kept : kept[n] = s THEN kept ELSE Append(kept, s)
Unique(specs) == FoldLeft(AddSpec, <<>>, specs)

Spec(path, type) == [path |-> path, device_type |-> type]

(* DeviceSpec.parse of the words of a line; None stands for a ValueError.  *)
WordsAsTyped(words) == Tail(words)   \* mutant: "-d" is taken for the type
TypeWords(words) ==
    IF Len(words) > 1 /\ words[2] = "-d" THEN SubSeq(words, 3, Len(words)) ELSE Tail(words)
ParseSpec(words) ==
    LET rest == TypeWords(words) IN
    IF words = <<>> \/ words[1] = "relative" THEN None
    ELSE IF Len(words) = 2 /\ words[2] = "-d" THEN None
    ELSE IF Len(rest) > 1 \/ "unsafe" \in ToSet(rest) THEN None
    ELSE Spec(words[1], IF rest = <<>> THEN None ELSE rest[1])

(* A scanned device: its path and type, and whether it could be opened.    *)
(* The text form comments out those that could not.                        *)
Words(d) == IF ~d.opens THEN <<>>
            ELSE IF d.type = None THEN <<d.path>> ELSE <<d.path, "-d", d.type>>
ParseScanJson(scan) ==
    Unique([n \in DOMAIN scan |->
               IF scan[n].opens THEN Spec(scan[n].path, scan[n].type) ELSE None])
ParseScanText(scan) == Unique([n \in DOMAIN scan |-> ParseSpec(Words(scan[n]))])

(* lsblk: disks only, without a device type, whether they can be opened or *)
(* not; loop, zram and ram devices are left out.                           *)
ParseLsblk(scan) ==
    Unique([n \in DOMAIN scan |-> IF scan[n].disk THEN Spec(scan[n].path, None) ELSE None])

(* deduplicate: a disk seen twice is dropped, one without identifier never.*)
DeduplicateAll(disks) ==   \* mutant: disks without an identifier count as one
    FoldLeft(LAMBDA kept, d : IF \E n \in DOMAIN kept : kept[n].identifier = d.identifier
                              THEN kept ELSE Append(kept, d), <<>>, disks)
AddDisk(kept, d) ==
    IF /\ d.identifier # None
       /\ \E n \in DOMAIN kept : kept[n].identifier = d.identifier
    THEN kept ELSE Append(kept, d)
Deduplicate(disks) == FoldLeft(AddDisk, <<>>, disks)

(* parse_host_info: of the lines with one key the first counts.            *)
FieldLast(lines, key) ==   \* mutant: the last counts
    LET named == {n \in DOMAIN lines : lines[n].key = key}
    IN  IF named = {} THEN None ELSE lines[Max(named)].value
Field(lines, key) ==
    LET named == {n \in DOMAIN lines : lines[n].key = key}
    IN  IF named = {} THEN None ELSE lines[Min(named)].value
ParseHostInfo(lines) ==
    LET Get(key) == Field(lines, key)
        release  == Given(Get("VERSION_ID"), Get("VERSION"))
    IN  [hostname   |-> Get("HOSTNAME"),
         os_name    |-> IF Get("UNRAID_VERSION") # None THEN "Unraid"
                        ELSE IF Get("PVE_VERSION") # None THEN "Proxmox VE"
                        ELSE Given(Get("NAME"), Get("UNAME_S")),
         os_version |-> Given(Get("UNRAID_VERSION"), Given(Get("PVE_VERSION"), release)),
         kernel     |-> Get("UNAME_R")]

-----------------------------------------------------------------------------
Init ==
    /\ \/ \E family \in Reports : call \in [f : {"smartctl"}, arg : family]
       \/ call \in [f : {"scan", "lsblk"}, arg : Scans]
       \/ call \in [f : {"disks"}, arg : Polls]
       \/ call \in [f : {"host"}, arg : Hosts]
    /\ result = None

Returns(f, value) ==
    /\ call.f = f /\ result = None /\ result' = value
    /\ UNCHANGED call

Next == \/ Returns("smartctl", ParseSmartctl(call.arg))
        \/ Returns("scan", [json |-> ParseScanJson(call.arg), text |-> ParseScanText(call.arg)])
        \/ Returns("lsblk", ParseLsblk(call.arg))
        \/ Returns("disks", Deduplicate(call.arg))
        \/ Returns("host", ParseHostInfo(call.arg))

ParserSpec == Init /\ [][Next]_parservars
=============================================================================
