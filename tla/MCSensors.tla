------------------------------ MODULE MCSensors ------------------------------
(* Families of inputs for the parsers: each varies what one part of the    *)
(* code tells apart and keeps the rest of the report plain.                *)
EXTENDS Sensors

NoCounters == [c \in NvmeCounter \cup ScsiCounter |-> None]
NoScsi == [used |-> None, cycles |-> None, tests |-> <<>>, counters |-> NoCounters]
Plain ==
    [format |-> "json", exit |-> {}, asleep |-> FALSE, protocol |-> "ata",
     wwn |-> "w", serial |-> "s", rotation |-> 0, passed |-> TRUE,
     temperature |-> None, hours |-> None, cycles |-> None, table |-> <<>>,
     capabilities |-> {"self_tests"}, status |-> None, tests |-> <<>>,
     nvme |-> None, scsi |-> NoScsi]
Log == [warning |-> 0, spare |-> 100, threshold |-> 10, used |-> 3, temperature |-> 40,
        hours |-> 9, cycles |-> 8, counters |-> [NoCounters EXCEPT !["media_errors"] = 1],
        tests |-> None, operation |-> None]
Drive(p) == [Plain EXCEPT !.protocol = p, !.nvme = IF p = "nvme" THEN Log ELSE None,
                          !.temperature = IF p = "ata" THEN None ELSE 30,
                          !.capabilities = IF p = "ata" THEN @ ELSE {}]

Formats  == {"json", "text"}
Verdict  == {TRUE, FALSE, None}
Rotation == {None, 0, 7200}
(* The bit for a failing attribute comes with the row of the attribute.    *)
Exit == SUBSET {"command_line", "device_open", "disk_failing"}

(* Every outcome: sleep, open errors and cut output for each protocol.     *)
Outcomes ==
    {[Drive(p) EXCEPT !.format = f, !.exit = e, !.asleep = z, !.passed = v,
                      !.wwn = w, !.serial = s, !.rotation = t] :
        p \in {"ata", "nvme", "scsi", "unknown"}, f \in Formats \cup {"cut"}, e \in Exit,
        z \in BOOLEAN, v \in Verdict, w \in {"w", None}, s \in {"s", None}, t \in Rotation}

(* Attribute tables: of any two rows, and of three with different IDs.     *)
(* Some raw values are printed in parts, some rows are not legible.        *)
Row(id, raw, printed, now) ==
    [id |-> id, name |-> "other", value |-> 100, raw |-> raw, printed |-> printed, now |-> now]
Packed(high, low) == high * 65536 + low
Rows == {Row(id, raw, raw, FALSE) : id \in {5, 9}, raw \in {0, 7}}
        \cup {Row(190, 30, 30, FALSE), Row(194, 40 + 256 * 20, 40, FALSE),
              Row(188, Packed(1, 3), 1, FALSE), Row(9, Packed(30, 7), 7, FALSE),
              Row(197, 1, 1, FALSE), Row(5, 7, 7, TRUE), Row(198, 2, 2, TRUE)}
Illegible == {Row(194, 251, None, FALSE), Row(12, None, None, FALSE),
              [Row(199, 4, 4, FALSE) EXCEPT !.value = None]}
Tables == {<<>>} \cup UNION {[1..n -> Rows \cup Illegible] : n \in 1..2}
          \cup {t \in [1..3 -> Rows] : DistinctIds(t)}
Attributes ==
    {[Plain EXCEPT !.format = f, !.table = t, !.passed = v, !.rotation = o, !.hours = h,
         !.exit = x \cup (IF \E n \in DOMAIN t : t[n].id = 5 /\ t[n].now
                          THEN {"prefail_now"} ELSE {})] :
        f \in Formats, t \in Tables, v \in Verdict, o \in {None, 7200}, h \in {None, 3},
        x \in {{}, {"disk_failing"}}}

(* The attributes that count down as an SSD wears, some with a value that  *)
(* is no percentage; names repeat.                                         *)
Worn(id, name, value) == [id |-> id, name |-> name, value |-> value, raw |-> 1,
                          printed |-> 1, now |-> FALSE]
LifeNames == {LifeLeft[1], LifeLeft[3], LifeLeft[5], "other"}
Lifetimes ==
    {[Plain EXCEPT !.format = f, !.rotation = o,
         !.table = [n \in DOMAIN t |-> Worn(n, t[n][1], t[n][2])]] :
        f \in Formats, o \in Rotation,
        t \in UNION {[1..n -> LifeNames \X {0, 60, 100, 253}] : n \in 0..2}}

(* ATA self-tests: every status, and logs of two entries.                  *)
Entry(v, p, w) == [value |-> v, passed |-> p, words |-> w]
Phrases == {{}, {"progress"}, {"without error", "error"}, {"abort"}, {"fail"}, {"completed"}}
AtaEntries == {Entry(v, p, w) : v \in {None, 0, 25, 33, 128, 144, 240, 249},
                                p \in Verdict, w \in Phrases}
SelfTestStates ==
    {[Plain EXCEPT !.status = v, !.capabilities = c, !.tests = l] :
        v \in {None} \cup 0..255, c \in SUBSET {"self_tests", "conveyance"},
        l \in {<<>>, <<Entry(240, None, {})>>, <<Entry(0, TRUE, {})>>}}
SelfTestLogs == {[Plain EXCEPT !.tests = <<e, g>>] : e \in AtaEntries, g \in AtaEntries}

(* NVMe: the warnings, and self-test logs.                                 *)
Codes == {Entry(v, None, w) : v \in {None, 0, 1, 5, 9, 15}, w \in Phrases}
NvmeDrives ==
    {[Drive("nvme") EXCEPT !.format = f, !.passed = v, !.nvme.warning = x, !.nvme.spare = s,
         !.nvme.threshold = t, !.nvme.used = u, !.temperature = c] :
        f \in Formats, v \in Verdict, x \in {None, 0, 4}, s \in {None, 5, 10, 100},
        t \in {None, 10}, u \in {None, 3, 120}, c \in {None, 30}}
NvmeLogs ==
    {[Drive("nvme") EXCEPT !.nvme.tests = l, !.nvme.operation = o] :
        l \in {None} \cup UNION {[1..n -> Codes] : n \in 0..2}, o \in {None, 0, 1, 2}}

(* SCSI: endurance, counters, and logs with gaps.                          *)
ScsiDrives ==
    {[Drive("scsi") EXCEPT !.format = f, !.passed = v, !.rotation = o, !.scsi.used = u,
         !.scsi.cycles = c, !.scsi.counters["grown_defects"] = g, !.scsi.tests = l] :
        f \in Formats, v \in Verdict, o \in Rotation, u \in {None, 4}, c \in {None, 6},
        g \in {None, 0, 3},
        l \in UNION {[1..n -> {None, Entry(0, None, {}), Entry(15, None, {}), Entry(1, None, {})}]
                     : n \in 0..3}}
ScsiTexts == {[Drive("scsi") EXCEPT !.scsi.tests = <<e>>] : e \in Codes}

MCReports == {Outcomes, Attributes, Lifetimes, SelfTestStates, SelfTestLogs,
              NvmeDrives, NvmeLogs, ScsiDrives, ScsiTexts}

(* Scans of up to three devices, with paths that repeat.                   *)
Devices == [path : {"/dev/a", "/dev/b"}, type : {None, "sat"}, opens : BOOLEAN,
            disk : BOOLEAN]
MCScans == UNION {[1..n -> Devices] : n \in 0..3}

(* Polls of up to four disks, of which some do not tell who they are.      *)
MCPolls == {[n \in DOMAIN s |-> [spec |-> n, identifier |-> s[n]]] :
               s \in UNION {[1..n -> {"a", "b", None}] : n \in 0..4}}

(* The lines of the script, then those of os-release, then the versions.   *)
Line(k, v, s) == [key |-> k, value |-> v, script |-> s]
ScriptLines == <<Line("HOSTNAME", "nas", TRUE), Line("UNAME_S", "Linux", TRUE),
                 Line("UNAME_R", "6", TRUE)>>
Releases == {Line(k, v, FALSE) : k \in {"NAME", "VERSION_ID", "VERSION", "HOSTNAME", "UNAME_R"},
                                 v \in {None, "x", "y"}}
MCHosts == {ScriptLines \o r \o p :
               r \in UNION {[1..n -> Releases] : n \in 0..3},
               p \in {<<>>, <<Line("UNRAID_VERSION", "7", TRUE)>>,
                      <<Line("PVE_VERSION", "8", TRUE)>>,
                      <<Line("UNRAID_VERSION", "7", TRUE), Line("PVE_VERSION", "8", TRUE)>>}}
=============================================================================
