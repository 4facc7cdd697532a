---------------------------- MODULE SensorsProofs ----------------------------
(* Proofs about the parsers and what is shown of a disk, for every report  *)
(* smartctl may make: any attribute table, any self-test log, any counter. *)
EXTENDS Sensors, TLAPS, WellFoundedInduction

-----------------------------------------------------------------------------
(* The first and the last of a set of rows.                                *)

LEMMA LeastExists ==
    ASSUME NEW S, S \subseteq Nat, S # {}
    PROVE  \E m \in S : \A n \in S : m <= n
<1> DEFINE R == OpToRel(<, Nat)
<1>1. IsWellFoundedOn(R, Nat)
  BY NatLessThanWellFounded, Zenon
<1>2. R = {pair \in Nat \X Nat : pair[1] < pair[2]}
  BY Zenon DEF OpToRel
<1> HIDE DEF R
<1>3. PICK m \in S : \A n \in S : <<n, m>> \notin R
  BY <1>1, WFMin
<1>4. ASSUME NEW n \in S PROVE m <= n
  <2>1. m \in Nat /\ n \in Nat
    OBVIOUS
  <2>2. <<n, m>> \notin {pair \in Nat \X Nat : pair[1] < pair[2]}
    BY <1>2, <1>3
  <2> QED
    BY <2>1, <2>2
<1> QED
  BY <1>4

LEMMA MinInSet ==
    ASSUME NEW S, S \subseteq Nat, S # {}
    PROVE  Min(S) \in S
  BY LeastExists DEF Min

LEMMA MaxInSet ==
    ASSUME NEW len \in Nat, NEW S, S \subseteq 1..len, S # {}
    PROVE  Max(S) \in S
<1> DEFINE T == {len - n : n \in S}
<1>1. T \subseteq Nat /\ T # {}
  <2>1. \A n \in S : len - n \in Nat
    OBVIOUS
  <2>2. PICK n \in S : TRUE
    OBVIOUS
  <2>3. len - n \in T
    OBVIOUS
  <2> QED
    BY <2>1, <2>3
<1>2. PICK t \in T : \A u \in T : t <= u
  BY <1>1, LeastExists
<1>3. PICK m \in S : t = len - m
  BY <1>2
<1>4. \A n \in S : n <= m
  <2> TAKE n \in S
  <2>1. len - n \in T
    OBVIOUS
  <2>2. len - m <= len - n
    BY <1>2, <1>3, <2>1
  <2> QED
    BY <2>2
<1> QED
  BY <1>4 DEF Max

-----------------------------------------------------------------------------
(* What a call returned is what the parser makes of its report.            *)

Answered ==
    call.f = "smartctl" =>
        /\ \E family \in Reports : call.arg \in family
        /\ result # None => result = ParseSmartctl(call.arg)

LEMMA InitAnswered == Init => Answered
  BY DEF Init, Answered

LEMMA NextAnswered ==
    ASSUME Answered, [Next]_parservars
    PROVE  Answered'
<1>1. CASE Returns("smartctl", ParseSmartctl(call.arg))
  BY <1>1 DEF Returns, Answered
<1>2. CASE call.f # "smartctl" /\ UNCHANGED call
  BY <1>2 DEF Answered
<1>3. CASE UNCHANGED parservars
  BY <1>3 DEF parservars, Answered
<1> QED
  BY <1>1, <1>2, <1>3 DEF Next, Returns

LEMMA AnsweredAlways == ParserSpec => []Answered
  BY InitAnswered, NextAnswered, PTL DEF ParserSpec

LEMMA ReportParsed ==
    ASSUME Answered, Parsed
    PROVE  /\ report \in Report
           /\ "prefail_now" \in report.exit => Fails(report, DOMAIN report.table)
           /\ \A n \in DOMAIN report.table :
                 report.table[n].printed # None => report.table[n].raw # None
           /\ report.nvme # None => report.protocol = "nvme"
           /\ report.table # <<>> => report.protocol = "ata"
           /\ result = ParseSmartctl(report)
  BY ReportAssumption DEF Answered, Parsed, report, Fails

(* One parser for each format.                                             *)
LEMMA ParserOfFormat ==
    ASSUME NEW r \in Report
    PROVE  /\ r.format \in {"json", "text", "cut"}
           /\ r.format = "json" => ParseSmartctl(r) = ParseJson(r)
           /\ r.format = "text" => ParseSmartctl(r) = ParseText(r)
           /\ r.format = "cut"  => ParseSmartctl(r) = ParseCut(r)
  BY DEF Report, ParseSmartctl

-----------------------------------------------------------------------------
(* The states of the enumerations.                                         *)

Verdicts == SELF_TEST_OPTIONS \cup {"in_progress"}

LEMMA EntryResults ==
    ASSUME NEW e \in LogEntry
    PROVE  /\ AtaSelfTestResult(e) \in Verdicts
           /\ NvmeSelfTestResult(e) \in Verdicts
           /\ ScsiSelfTestResult(e) \in Verdicts
  BY Zenon DEF AtaSelfTestResult, NvmeSelfTestResult, ScsiSelfTestResult, ResultFromText,
               Verdicts, SELF_TEST_OPTIONS

LEMMA LogResults ==
    ASSUME NEW r \in Report
    PROVE  /\ DOMAIN SelfTests(r) \subseteq Nat
           /\ \A n \in DOMAIN SelfTests(r) : SelfTests(r)[n] \in Verdicts
<1>1. CASE IsScsi(r)
  <2>1. r.scsi.tests \in Seq(LogEntry \cup {None})
    BY DEF Report, ScsiLog
  <2>2. Unbroken(r.scsi.tests) \subseteq DOMAIN r.scsi.tests
    BY DEF Unbroken
  <2>3. \A n \in Unbroken(r.scsi.tests) : n \in Nat /\ r.scsi.tests[n] \in LogEntry
    <3> TAKE n \in Unbroken(r.scsi.tests)
    <3>1. n \in Nat /\ n >= 1 /\ r.scsi.tests[n] \in LogEntry \cup {None}
      BY <2>1, <2>2
    <3>2. r.scsi.tests[n] # None
      BY <3>1 DEF Unbroken
    <3> QED
      BY <3>1, <3>2
  <2>4. SelfTests(r) = [n \in Unbroken(r.scsi.tests) |-> ScsiSelfTestResult(r.scsi.tests[n])]
    BY <1>1 DEF SelfTests
  <2> QED
    BY <2>3, <2>4, EntryResults
<1>2. CASE ~IsScsi(r) /\ SelfTestLog(r)
  <2>1. r.nvme \in NvmeLog /\ r.nvme.tests # None
    BY <1>2 DEF SelfTestLog, Report
  <2>2. r.nvme.tests \in Seq(LogEntry)
    BY <2>1 DEF NvmeLog
  <2>3. SelfTests(r) = [n \in DOMAIN r.nvme.tests |-> NvmeSelfTestResult(r.nvme.tests[n])]
    BY <1>2 DEF SelfTests
  <2> QED
    BY <2>2, <2>3, EntryResults
<1>3. CASE ~IsScsi(r) /\ ~SelfTestLog(r)
  <2>1. r.tests \in Seq(LogEntry)
    BY DEF Report
  <2>2. SelfTests(r) = [n \in DOMAIN r.tests |-> AtaSelfTestResult(r.tests[n])]
    BY <1>3 DEF SelfTests
  <2> QED
    BY <2>1, <2>2, EntryResults
<1> QED
  BY <1>1, <1>2, <1>3

LEMMA LastIsNoTestInProgress ==
    ASSUME NEW d, DOMAIN d.self_tests \subseteq Nat,
           \A n \in DOMAIN d.self_tests : d.self_tests[n] \in Verdicts
    PROVE  LastSelfTest(d) \in SELF_TEST_OPTIONS \cup {None}
<1> DEFINE done == {n \in DOMAIN d.self_tests : d.self_tests[n] # "in_progress"}
<1>1. CASE done = {}
  BY <1>1 DEF LastSelfTest
<1>2. CASE done # {}
  <2>1. Min(done) \in done
    BY <1>2, MinInSet
  <2> QED
    BY <1>2, <2>1 DEF LastSelfTest, Verdicts
<1> QED
  BY <1>1, <1>2

LEMMA HealthInOptions ==
    ASSUME NEW r
    PROVE  /\ Health(r) \in HEALTH_OPTIONS \cup {"unknown"}
           /\ \A table : TextHealth(r, table) \in HEALTH_OPTIONS \cup {"unknown"}
  BY DEF Health, TextHealth, HEALTH_OPTIONS

(* The states of a disk: every parser fills them in one of these ways.     *)
LEMMA ParsedStates ==
    ASSUME NEW r \in Report, NEW d, d = ParseSmartctl(r)
    PROVE  /\ d.health \in HEALTH_OPTIONS \cup {"unknown"}
           /\ d.self_tests = <<>> \/ d.self_tests = SelfTests(r)
<1>1. CASE d = ParseJson(r)
  BY <1>1, HealthInOptions DEF ParseJson, Empty, Read
<1>2. CASE d = ParseText(r)
  <2>1. TextHealth(r, TextTable(r.table)) \in HEALTH_OPTIONS \cup {"unknown"}
    BY HealthInOptions
  <2> QED
    BY <1>2, <2>1 DEF ParseText, Empty, ReadText
<1>3. CASE d = ParseCut(r)
  BY <1>3 DEF ParseCut, Empty, HEALTH_OPTIONS
<1> QED
  BY <1>1, <1>2, <1>3, ParserOfFormat

(* Whatever smartctl reports, the health and the last self-test of a disk  *)
(* have one of the states their sensors announce, or none; a test in       *)
(* progress is never the last (sensor.py:34-44, 79-82).                    *)
THEOREM OptionsAlwaysCover == ParserSpec => []OptionsCover
<1>1. Answered => OptionsCover
  <2> SUFFICES ASSUME Answered, Parsed
               PROVE  /\ HealthValue(result) \in HEALTH_OPTIONS \cup {None}
                      /\ LastSelfTest(result) \in SELF_TEST_OPTIONS \cup {None}
    BY DEF OptionsCover
  <2>1. report \in Report /\ result = ParseSmartctl(report)
    BY ReportParsed
  <2>2. /\ result.health \in HEALTH_OPTIONS \cup {"unknown"}
        /\ result.self_tests = <<>> \/ result.self_tests = SelfTests(report)
    BY <2>1, ParsedStates
  <2>3. HealthValue(result) \in HEALTH_OPTIONS \cup {None}
    BY <2>2 DEF HealthValue
  <2>4. /\ DOMAIN result.self_tests \subseteq Nat
        /\ \A n \in DOMAIN result.self_tests : result.self_tests[n] \in Verdicts
    BY <2>1, <2>2, LogResults
  <2> QED
    BY <2>3, <2>4, LastIsNoTestInProgress
<1> QED
  BY <1>1, AnsweredAlways, PTL

-----------------------------------------------------------------------------
(* The outcomes.                                                           *)

LEMMA EmptyEntities ==
    ASSUME NEW standby, NEW error, NEW health
    PROVE  Entities(Empty(standby, error, health)) = {"health", "health_problem", "standby"}
<1> DEFINE d == Empty(standby, error, health)
<1>1. \A k \in Measured : d[k] = None
  BY DEF Measured, Empty
<1>2. d.counters = [c \in Counter |-> None]
  BY DEF Empty
<1>3. d.supported_self_tests = {} /\ d.self_tests = <<>>
  BY DEF Empty
<1> HIDE DEF d
<1>4. Has(d) = {}
  BY <1>1, <1>2 DEF Has
<1>5. SectorProblem(d) = None
  <2>1. BadSectorCounts \subseteq Counter
    BY DEF BadSectorCounts, Counter, AtaCounter, NvmeCounter, ScsiCounter
  <2>2. \A c \in BadSectorCounts : d.counters[c] = None
    BY <1>2, <2>1
  <2> QED
    BY <2>2 DEF SectorProblem
<1>6. Entities(d) = {"health", "health_problem", "standby"}
  BY <1>3, <1>4, <1>5 DEF Entities
<1> QED
  BY <1>6 DEF d

(* What each parser returns of a disk that is asleep, or was not opened.   *)
LEMMA ParsedOutcomes ==
    ASSUME NEW r \in Report
    PROVE  /\ r.asleep => ParseSmartctl(r) = Empty(TRUE, FALSE, "unknown")
           /\ ~r.asleep /\ Unopened(r) => ParseSmartctl(r) = Empty(FALSE, TRUE, "unknown")
           /\ ~r.asleep /\ ~Unopened(r) =>
                 /\ ~ParseSmartctl(r).standby /\ ~ParseSmartctl(r).error
                 /\ r.format = "cut" =>
                       \E health : ParseSmartctl(r) = Empty(FALSE, FALSE, health)
<1>1. CASE r.format = "json"
  BY <1>1 DEF ParseSmartctl, ParseJson, Empty, Read
<1>2. CASE r.format = "text"
  BY <1>2 DEF ParseSmartctl, ParseText, Empty, ReadText
<1>3. CASE r.format = "cut"
  <2>1. ParseSmartctl(r) = ParseCut(r)
    BY <1>3, ParserOfFormat
  <2>2. CASE r.asleep \/ Unopened(r)
    BY <2>1, <2>2, <1>3 DEF ParseCut
  <2>3. CASE ~r.asleep /\ ~Unopened(r)
    <3>1. PICK health : ParseSmartctl(r) = Empty(FALSE, FALSE, health)
      BY <2>1, <2>3 DEF ParseCut
    <3>2. ~ParseSmartctl(r).standby /\ ~ParseSmartctl(r).error
      BY <3>1 DEF Empty
    <3> QED
      BY <2>3, <3>1, <3>2
  <2> QED
    BY <2>2, <2>3
<1> QED
  BY <1>1, <1>2, <1>3 DEF Report

(* A disk is shown in standby exactly when it sleeps, although smartctl    *)
(* then exits like for a disk it could not open, and with an error exactly *)
(* when it could not; such a disk has no name and nothing to show          *)
(* (parser.py:174-194, 239-262).                                           *)
THEOREM OutcomesAreRight == ParserSpec => []OutcomeOK
<1>1. Answered => OutcomeOK
  <2> SUFFICES ASSUME Answered, Parsed PROVE OutcomeOK
    BY DEF OutcomeOK
  <2>1. report \in Report /\ result = ParseSmartctl(report)
    BY ReportParsed
  <2>2. CASE report.asleep
    <3>1. result = Empty(TRUE, FALSE, "unknown")
      BY <2>1, <2>2, ParsedOutcomes
    <3> QED
      BY <2>2, <3>1, EmptyEntities DEF OutcomeOK, Empty, HealthValue
  <2>3. CASE ~report.asleep /\ Unopened(report)
    <3>1. result = Empty(FALSE, TRUE, "unknown")
      BY <2>1, <2>3, ParsedOutcomes
    <3> QED
      BY <2>3, <3>1, EmptyEntities DEF OutcomeOK, Empty, HealthValue
  <2>4. CASE ~report.asleep /\ ~Unopened(report)
    <3>1. ~result.standby /\ ~result.error
      BY <2>1, <2>4, ParsedOutcomes
    <3>2. CASE report.format = "cut"
      <4>1. PICK health : result = Empty(FALSE, FALSE, health)
        BY <2>1, <2>4, <3>2, ParsedOutcomes
      <4> QED
        BY <2>4, <3>1, <3>2, <4>1, EmptyEntities DEF OutcomeOK, Empty
    <3>3. CASE report.format # "cut"
      BY <2>4, <3>1, <3>3 DEF OutcomeOK
    <3> QED
      BY <3>2, <3>3
  <2> QED
    BY <2>2, <2>3, <2>4
<1> QED
  BY <1>1, AnsweredAlways, PTL

-----------------------------------------------------------------------------
(* Disks that were read.                                                   *)

LEMMA ShownIsRead ==
    ASSUME NEW r \in Report, NEW d, d = ParseSmartctl(r), ~d.standby, ~d.error
    PROVE  /\ r.format = "json" => d = Read(r)
           /\ r.format = "text" => d = ReadText(r)
<1>1. CASE r.asleep
  BY <1>1, ParsedOutcomes DEF Empty
<1>2. CASE ~r.asleep /\ Unopened(r)
  BY <1>2, ParsedOutcomes DEF Empty
<1>3. CASE ~r.asleep /\ ~Unopened(r)
  BY <1>3, ParserOfFormat DEF ParseJson, ParseText
<1> QED
  BY <1>1, <1>2, <1>3

LEMMA ProblemIsBadHealth ==
    ASSUME NEW d, d.health \in HEALTH_OPTIONS \cup {"unknown"}
    PROVE  HealthProblem(d) = TRUE <=> d.health \in {"failed", "warning"}
<1>1. CASE d.health = "unknown"
  <2>1. HealthProblem(d) = None
    BY <1>1 DEF HealthProblem
  <2>2. None # TRUE
    BY NoneAssumption
  <2> QED
    BY <1>1, <2>1, <2>2
<1>2. CASE d.health # "unknown"
  <2>1. HealthProblem(d) = (d.health # "passed")
    BY <1>2 DEF HealthProblem
  <2> QED
    BY <1>2, <2>1 DEF HEALTH_OPTIONS
<1> QED
  BY <1>1, <1>2

(* A row counts unless a later one has its ID.                             *)
LEMMA FailingRowCounts ==
    ASSUME NEW r \in Report
    PROVE  /\ FailingNow(r.table) => Fails(r, DOMAIN r.table)
           /\ Fails(r, DOMAIN r.table) /\ DistinctIds(r.table) => FailingNow(r.table)
<1>1. \A n \in DOMAIN r.table : n \in Nat /\ ~(n > n)
  BY DEF Report
<1> QED
  BY <1>1 DEF FailingNow, Fails, DistinctIds

LEMMA TextRowsAreRows ==
    ASSUME NEW r \in Report
    PROVE  /\ DOMAIN TextTable(r.table) \subseteq DOMAIN r.table
           /\ \A n \in DOMAIN TextTable(r.table) :
                 /\ TextTable(r.table)[n].raw = r.table[n].printed
                 /\ TextTable(r.table)[n].now = r.table[n].now
                 /\ TextTable(r.table)[n].id = r.table[n].id
                 /\ TextTable(r.table)[n].name = r.table[n].name
                 /\ TextTable(r.table)[n].value = r.table[n].value
                 /\ TextTable(r.table)[n] \in TableRow
<1>1. DOMAIN TextTable(r.table) = {n \in DOMAIN r.table : Legible(r.table[n])}
  BY DEF TextTable
<1>2. ASSUME NEW n \in DOMAIN TextTable(r.table)
      PROVE  /\ r.table[n] \in TableRow
             /\ TextTable(r.table)[n] = [r.table[n] EXCEPT !.raw = r.table[n].printed]
  <2>1. n \in DOMAIN r.table /\ r.table \in Seq(TableRow)
    BY <1>1, <1>2 DEF Report
  <2> QED
    BY <1>1, <1>2, <2>1 DEF TextTable
<1>3. ASSUME NEW row \in TableRow, NEW text, text = [row EXCEPT !.raw = row.printed]
      PROVE  /\ text.raw = row.printed /\ text.now = row.now /\ text.id = row.id
             /\ text.name = row.name /\ text.value = row.value /\ text \in TableRow
  BY <1>3 DEF TableRow
<1> QED
  BY <1>1, <1>2, <1>3

(* The health problem is on exactly for a disk that failed its check or    *)
(* shows one of the symptoms, wherever the output says so: no symptom is   *)
(* read after the health was decided (parser.py:233-235, 609-627).         *)
THEOREM ProblemIsShown == ParserSpec => []ProblemShown
<1>1. Answered => ProblemShown
  <2> SUFFICES ASSUME Answered, Parsed, ~result.standby, ~result.error,
                      report.format # "cut"
               PROVE  /\ HealthProblem(result) = TRUE => Troubled(report)
                      /\ Troubled(report) /\ DistinctIds(report.table)
                            => HealthProblem(result) = TRUE
    BY DEF ProblemShown, Shown
  <2>1. /\ report \in Report /\ result = ParseSmartctl(report)
        /\ "prefail_now" \in report.exit => Fails(report, DOMAIN report.table)
    BY ReportParsed
  <2>2. result.health \in HEALTH_OPTIONS \cup {"unknown"}
    BY <2>1, ParsedStates
  <2>3. HealthProblem(result) = TRUE <=> result.health \in {"failed", "warning"}
    BY <2>2, ProblemIsBadHealth
  <2>4. CASE report.format = "json"
    <3>1. result.health = Health(report)
      BY <2>1, <2>4, ShownIsRead DEF Read
    <3>2. Health(report) \in {"failed", "warning"}
             <=> report.passed = FALSE \/ "disk_failing" \in report.exit \/ Symptoms(report)
      BY DEF Health
    <3> QED
      BY <2>1, <2>3, <2>4, <3>1, <3>2, FailingRowCounts DEF Troubled, Symptoms
  <2>5. CASE report.format = "text"
    <3>1. result.health = TextHealth(report, TextTable(report.table))
      BY <2>1, <2>5, ShownIsRead DEF ReadText
    <3>2. TextHealth(report, TextTable(report.table)) \in {"failed", "warning"}
             <=> \/ report.passed = FALSE \/ "disk_failing" \in report.exit
                 \/ report.passed = TRUE /\ Fails(report, DOMAIN TextTable(report.table))
      BY <2>1, TextRowsAreRows DEF TextHealth, Fails
    <3> QED
      BY <2>3, <2>5, <3>1, <3>2 DEF Troubled
  <2> QED
    BY <2>1, <2>4, <2>5 DEF Report
<1> QED
  BY <1>1, AnsweredAlways, PTL

-----------------------------------------------------------------------------
(* Endurance.                                                              *)

LEMMA LeftIsPercentage ==
    ASSUME NEW left \in Number, left # None, left <= 100
    PROVE  left \in 0..100 /\ 100 - left \in 0..100
<1>1. left \in Nat
  BY DEF Number
<1> QED
  BY <1>1

LEMMA UsedIsPercentage ==
    ASSUME NEW len \in Nat, NEW table, DOMAIN table \subseteq 1..len,
           \A n \in DOMAIN table : table[n].value \in Number
    PROVE  Used(table) \in (0..100) \cup {None}
<1> DEFINE Left(p) == table[Max(ByName(table, LifeLeft[p]))].value
           usable == {p \in DOMAIN LifeLeft :
                         ByName(table, LifeLeft[p]) # {} /\ Left(p) # None /\ Left(p) <= 100}
<1>1. Used(table) = IF usable = {} THEN None ELSE 100 - Left(Min(usable))
  BY DEF Used
<1>2. CASE usable = {}
  BY <1>1, <1>2
<1>3. CASE usable # {}
  <2>1. usable \subseteq Nat
    BY DEF LifeLeft
  <2>2. Min(usable) \in usable
    BY <1>3, <2>1, MinInSet
  <2>3. PICK p \in usable : p = Min(usable)
    BY <2>2
  <2>4. ByName(table, LifeLeft[p]) # {} /\ Left(p) # None /\ Left(p) <= 100
    BY <2>3
  <2>5. ByName(table, LifeLeft[p]) \subseteq DOMAIN table
    BY DEF ByName
  <2>6. PICK n \in DOMAIN table : n = Max(ByName(table, LifeLeft[p]))
    BY <2>4, <2>5, MaxInSet
  <2>7. table[n].value \in Number
    OBVIOUS
  <2>8. Left(p) = table[n].value
    BY <2>6
  <2>9. table[n].value # None /\ table[n].value <= 100
    BY <2>4, <2>8
  <2>10. 100 - table[n].value \in 0..100
    BY <2>7, <2>9, LeftIsPercentage
  <2>11. Used(table) = 100 - table[n].value
    BY <1>1, <1>3, <2>3, <2>8
  <2> QED
    BY <2>10, <2>11
<1> QED
  BY <1>2, <1>3

(* The endurance an ATA disk has used is a percentage, whatever its        *)
(* attributes hold, and only an SSD shows one (parser.py:35-41, 418-429).  *)
THEOREM EnduranceIsPercentage == ParserSpec => []PercentageSane
<1>1. Answered => PercentageSane
  <2> SUFFICES ASSUME Answered, Parsed, ~result.standby, ~result.error,
                      report.protocol = "ata", result.percentage_used # None
               PROVE  result.disk_type = "ssd" /\ result.percentage_used \in 0..100
    BY DEF PercentageSane, Shown
  <2>1. report \in Report /\ result = ParseSmartctl(report) /\ report.nvme = None
    BY ReportParsed
  <2>2. ASSUME NEW table \in {report.table, TextTable(report.table)}
        PROVE  /\ AtaUsed(report, table) # None => Medium(report) = "ssd"
               /\ AtaUsed(report, table) \in (0..100) \cup {None}
    <3>1. /\ DOMAIN report.table = 1..Len(report.table) /\ Len(report.table) \in Nat
          /\ \A n \in DOMAIN report.table : report.table[n] \in TableRow
      BY <2>1 DEF Report
    <3>2. /\ DOMAIN table \subseteq 1..Len(report.table)
          /\ \A n \in DOMAIN table : table[n] \in TableRow
      BY <2>1, <3>1, TextRowsAreRows
    <3>3. \A n \in DOMAIN table : table[n].value \in Number
      BY <3>2 DEF TableRow
    <3>4. Used(table) \in (0..100) \cup {None}
      BY <3>1, <3>2, <3>3, UsedIsPercentage
    <3> QED
      BY <3>4 DEF AtaUsed
  <2>3. PICK table \in {report.table, TextTable(report.table)} :
           result.percentage_used = AtaUsed(report, table) /\ result.disk_type = Medium(report)
    <3>1. CASE report.format = "json"
      <4>1. PercentageUsed(report) = AtaUsed(report, report.table)
        BY <2>1 DEF PercentageUsed, IsScsi, Interface
      <4> QED
        BY <2>1, <3>1, <4>1, ShownIsRead DEF Read
    <3>2. CASE report.format = "text"
      BY <2>1, <3>2, ShownIsRead DEF ReadText
    <3>3. CASE report.format = "cut"
      BY <2>1, <3>3, ParserOfFormat DEF ParseCut, Empty
    <3> QED
      BY <2>1, <3>1, <3>2, <3>3 DEF Report
  <2> QED
    BY <2>2, <2>3
<1> QED
  BY <1>1, AnsweredAlways, PTL

-----------------------------------------------------------------------------
(* Running tests.                                                          *)

LEMMA HighHalfOfStatus ==
    ASSUME NEW status \in 0..255, status >= 240
    PROVE  status \div 16 = 15
  OBVIOUS

LEMMA RunningTestIsSeen ==
    ASSUME NEW r \in Report, r.nvme # None => r.protocol = "nvme", Testing(r)
    PROVE  InProgress(r)
<1>1. CASE r.status # None /\ r.status >= 240
  <2>1. r.status \in 0..255
    BY <1>1 DEF Report
  <2> QED
    BY <1>1, <2>1, HighHalfOfStatus DEF InProgress
<1>2. CASE r.nvme # None /\ r.nvme.tests # None /\ r.nvme.operation \in 1..15
  <2>1. r.nvme.operation \notin {None, 0}
    BY <1>2, NoneAssumption
  <2> QED
    BY <1>2, <2>1 DEF InProgress, SelfTestLog
<1>3. CASE /\ r.protocol = "scsi" /\ r.scsi.tests # <<>>
           /\ r.scsi.tests[1] # None /\ r.scsi.tests[1].value = 15
  <2>1. IsScsi(r)
    BY <1>3 DEF IsScsi, Interface
  <2>2. r.scsi.tests \in Seq(LogEntry \cup {None})
    BY DEF Report, ScsiLog
  <2>3. 1 \in Unbroken(r.scsi.tests)
    BY <1>3, <2>2 DEF Unbroken
  <2>4. SelfTests(r) = [n \in Unbroken(r.scsi.tests) |-> ScsiSelfTestResult(r.scsi.tests[n])]
    BY <2>1 DEF SelfTests
  <2>5. ScsiSelfTestResult(r.scsi.tests[1]) = "in_progress"
    <3>1. /\ r.scsi.tests[1].value # 0 /\ r.scsi.tests[1].value \notin 1..2
          /\ r.scsi.tests[1].value \notin 3..7
      BY <1>3
    <3> QED
      BY <1>3, <3>1, Zenon DEF ScsiSelfTestResult
  <2>6. SelfTests(r)[1] = "in_progress" /\ SelfTests(r) # <<>>
    BY <2>3, <2>4, <2>5
  <2> QED
    BY <2>1, <2>6 DEF InProgress
<1> QED
  BY <1>1, <1>2, <1>3 DEF Testing

(* A test that runs is shown as running, next to the button that aborts it *)
(* (parser.py:364-365, 503-507, 586-588).                                  *)
THEOREM RunningIsShown == ParserSpec => []RunningShown
<1>1. Answered => RunningShown
  <2> SUFFICES ASSUME Answered, Parsed, ~result.standby, ~result.error,
                      report.format = "json", Testing(report)
               PROVE  /\ result.self_test_in_progress
                      /\ result.supported_self_tests # {}
                           => {"self_test_running", "abort_self_test"} \subseteq Entities(result)
    BY DEF RunningShown, Shown
  <2>1. /\ report \in Report /\ result = ParseSmartctl(report)
        /\ report.nvme # None => report.protocol = "nvme"
    BY ReportParsed
  <2>2. InProgress(report)
    BY <2>1, RunningTestIsSeen
  <2>3. result.self_test_in_progress
    BY <2>1, <2>2, ShownIsRead DEF Read
  <2>4. result.supported_self_tests # {}
           => {"self_test_running", "abort_self_test"} \subseteq Entities(result)
    BY DEF Entities
  <2> QED
    BY <2>3, <2>4
<1> QED
  BY <1>1, AnsweredAlways, PTL

-----------------------------------------------------------------------------
(* Folding a list.  The fold of the community modules takes the elements of*)
(* a list by its index set, the last of the set first; what it makes of a  *)
(* list follows from one step for every prefix.                            *)

LEMMA MaxOfPrefix ==
    ASSUME NEW m \in Nat, NEW s \in SUBSET (1..m), m \in s
    PROVE  Max(s) = m
<1>1. Max(s) \in s
  BY MaxInSet
<1>2. \E x \in s : \A n \in s : n <= x
  <2>1. \A n \in s : n <= m
    OBVIOUS
  <2> QED
    BY <2>1
<1>3. \A n \in s : n <= Max(s)
  BY <1>2 DEF Max
<1>4. Max(s) \in 1..m /\ m <= Max(s)
  BY <1>1, <1>3
<1> QED
  BY <1>4

(* The results for every set of indices up to len exist ...                *)
FoldsTo(f, len, X, base, G) ==
    /\ f \in [SUBSET (1..len) -> X]
    /\ f[{}] = base
    /\ \A s \in SUBSET (1..len) : s # {} => f[s] = G[<<Max(s), f[s \ {Max(s)}]>>]

LEMMA FoldNothing ==
    ASSUME NEW X, NEW base \in X, NEW G
    PROVE  \E f : FoldsTo(f, 0, X, base, G)
<1> DEFINE f == [s \in SUBSET (1..0) |-> base]
<1>1. \A s \in SUBSET (1..0) : s = {}
  OBVIOUS
<1>2. FoldsTo(f, 0, X, base, G)
  BY <1>1 DEF FoldsTo
<1> QED
  BY <1>2

LEMMA FoldOneMore ==
    ASSUME NEW X, NEW base \in X, NEW len \in Nat, NEW G, NEW f,
           \A n \in 1..(len + 1), x \in X : G[<<n, x>>] \in X,
           FoldsTo(f, len, X, base, G)
    PROVE  \E g : FoldsTo(g, len + 1, X, base, G)
<1> DEFINE m == len + 1
           g == [s \in SUBSET (1..m) |->
                    IF m \in s THEN G[<<m, f[s \ {m}]>>] ELSE f[s]]
<1>1. /\ m \in Nat /\ 1..len \subseteq 1..m /\ m \notin 1..len
      /\ \A s \in SUBSET (1..m) : s \ {m} \in SUBSET (1..len)
  <2>1. \A s \in SUBSET (1..m) : \A n \in s \ {m} : n \in 1..len
    OBVIOUS
  <2> QED
    BY <2>1
<1>2. /\ f \in [SUBSET (1..len) -> X] /\ f[{}] = base
      /\ \A s \in SUBSET (1..len) : s # {} => f[s] = G[<<Max(s), f[s \ {Max(s)}]>>]
  BY DEF FoldsTo
<1> HIDE DEF m
<1>3. \A s \in SUBSET (1..len) : s \in SUBSET (1..m) /\ m \notin s /\ g[s] = f[s]
  BY <1>1
<1>4. \A s \in SUBSET (1..m) : m \notin s => s \in SUBSET (1..len)
  BY <1>1
<1>5. \A s \in SUBSET (1..m) : m \in s => g[s] = G[<<m, g[s \ {m}]>>]
  <2> TAKE s \in SUBSET (1..m)
  <2>1. s \ {m} \in SUBSET (1..len)
    BY <1>1
  <2> QED
    BY <1>3, <2>1
<1>6. g \in [SUBSET (1..m) -> X]
  <2> SUFFICES ASSUME NEW s \in SUBSET (1..m)
               PROVE  g[s] \in X
    OBVIOUS
  <2>1. CASE m \in s
    <3>1. f[s \ {m}] \in X
      BY <1>1, <1>2
    <3>2. m \in 1..(len + 1)
      BY DEF m
    <3> QED
      BY <2>1, <3>1, <3>2
  <2>2. CASE m \notin s
    BY <1>2, <1>3, <1>4, <2>2
  <2> QED
    BY <2>1, <2>2
<1>7. g[{}] = base
  BY <1>2, <1>3
<1>8. ASSUME NEW s \in SUBSET (1..m), s # {}
      PROVE  g[s] = G[<<Max(s), g[s \ {Max(s)}]>>]
  <2>1. CASE m \in s
    BY <1>1, <1>5, <2>1, MaxOfPrefix
  <2>2. CASE m \notin s
    <3>1. s \in SUBSET (1..len)
      BY <1>4, <2>2
    <3>2. s \ {Max(s)} \in SUBSET (1..len)
      BY <3>1
    <3>3. g[s] = f[s] /\ g[s \ {Max(s)}] = f[s \ {Max(s)}]
      BY <1>3, <3>1, <3>2
    <3> QED
      BY <1>2, <1>8, <3>1, <3>3
  <2> QED
    BY <2>1, <2>2
<1>9. FoldsTo(g, m, X, base, G)
  BY <1>6, <1>7, <1>8 DEF FoldsTo
<1> QED
  BY <1>9 DEF m

LEMMA FoldExists ==
    ASSUME NEW X, NEW base \in X, NEW len \in Nat, NEW G,
           \A n \in 1..len, x \in X : G[<<n, x>>] \in X
    PROVE  \E f : FoldsTo(f, len, X, base, G)
<1> DEFINE bad == {l \in 0..len : ~ \E f : FoldsTo(f, l, X, base, G)}
<1> HIDE DEF bad
<1>1. ASSUME bad # {} PROVE FALSE
  <2>0. bad \subseteq Nat
    BY DEF bad
  <2>1. PICK l \in bad : \A n \in bad : l <= n
    BY <1>1, <2>0, LeastExists
  <2>2. l \in 0..len /\ l # 0
    BY <2>1, FoldNothing, Zenon DEF bad
  <2>3. l - 1 \in 0..len /\ l - 1 \in Nat /\ (l - 1) + 1 = l /\ ~(l <= l - 1)
    BY <2>2
  <2>4. PICK f : FoldsTo(f, l - 1, X, base, G)
    BY <2>1, <2>3, Zenon DEF bad
  <2>5. \A n \in 1..((l - 1) + 1), x \in X : G[<<n, x>>] \in X
    <3>1. \A n \in 1..((l - 1) + 1) : n \in 1..len
      BY <2>2
    <3> QED
      BY <3>1
  <2>6. \E g : FoldsTo(g, (l - 1) + 1, X, base, G)
    BY <2>3, <2>4, <2>5, FoldOneMore
  <2> QED
    BY <2>1, <2>3, <2>6, Zenon DEF bad
<1>2. len \in 0..len
  OBVIOUS
<1> QED
  BY <1>1, <1>2, Zenon DEF bad

(* ... so that a list of devices is made in one step for each element.     *)
LEMMA UniqueSteps ==
    ASSUME NEW T, NEW specs \in Seq(T \cup {None})
    PROVE  \E kept : /\ kept[0] = <<>>
                     /\ \A n \in 1..Len(specs) : kept[n] = AddSpec(kept[n - 1], specs[n])
                     /\ Unique(specs) = kept[Len(specs)]
<1> DEFINE len == Len(specs)
           G == [p \in (1..len) \X Seq(T) |-> AddSpec(p[2], specs[p[1]])]
           Body(h) == [s \in SUBSET (DOMAIN specs) |->
                          IF s = {} THEN <<>>
                          ELSE AddSpec(h[s \ {Max(s)}], specs[Max(s)])]
           iter == CHOOSE h : h = Body(h)
<1>1. len \in Nat /\ DOMAIN specs = 1..len
  OBVIOUS
<1>2. \A n \in 1..len, x \in Seq(T) : G[<<n, x>>] = AddSpec(x, specs[n])
  OBVIOUS
<1>3. \A n \in 1..len, x \in Seq(T) : AddSpec(x, specs[n]) \in Seq(T)
  BY DEF AddSpec
<1> HIDE DEF G
<1>4. \A n \in 1..len, x \in Seq(T) : G[<<n, x>>] \in Seq(T)
  BY <1>2, <1>3
<1>5. PICK f : FoldsTo(f, len, Seq(T), <<>>, G)
  <2>1. <<>> \in Seq(T)
    OBVIOUS
  <2> HIDE DEF len
  <2>2. \E f : FoldsTo(f, len, Seq(T), <<>>, G)
    BY <1>1, <1>4, <2>1, FoldExists, Zenon
  <2> QED
    BY <2>2
<1>6. f = Body(f)
  <2>1. \A s \in SUBSET (1..len) : s # {} => Max(s) \in 1..len /\ f[s \ {Max(s)}] \in Seq(T)
    <3> SUFFICES ASSUME NEW s \in SUBSET (1..len), s # {}
                 PROVE  Max(s) \in 1..len /\ f[s \ {Max(s)}] \in Seq(T)
      OBVIOUS
    <3>1. Max(s) \in s
      BY <1>1, MaxInSet
    <3>2. s \ {Max(s)} \in SUBSET (1..len)
      OBVIOUS
    <3> QED
      BY <1>5, <3>1, <3>2 DEF FoldsTo
  <2>2. \A s \in SUBSET (1..len) : s # {} => f[s] = AddSpec(f[s \ {Max(s)}], specs[Max(s)])
    BY <1>2, <1>5, <2>1 DEF FoldsTo
  <2>3. f \in [SUBSET (1..len) -> Seq(T)] /\ f[{}] = <<>>
    BY <1>5 DEF FoldsTo
  <2> QED
    BY <1>1, <2>2, <2>3
<1>7. iter = Body(iter)
  BY <1>6, Zenon
<1>8. Unique(specs) = iter[DOMAIN specs]
  BY Zenon DEF Unique, FoldLeft, MapThenFoldSet
<1> HIDE DEF iter
<1> DEFINE kept == [n \in 0..len |-> iter[1..n]]
<1>9. kept[0] = <<>>
  <2>1. iter[{}] = <<>>
    BY <1>7
  <2> QED
    BY <1>1, <2>1
<1>10. ASSUME NEW n \in 1..len PROVE kept[n] = AddSpec(kept[n - 1], specs[n])
  <2>1. 1..n \in SUBSET (DOMAIN specs) /\ 1..n # {} /\ n \in 1..n
    BY <1>1
  <2>2. Max(1..n) = n
    BY <2>1, MaxOfPrefix
  <2>3. (1..n) \ {n} = 1..(n - 1)
    OBVIOUS
  <2>4. iter[1..n] = AddSpec(iter[(1..n) \ {Max(1..n)}], specs[Max(1..n)])
    BY <1>7, <2>1
  <2>5. n \in 0..len /\ n - 1 \in 0..len
    BY <1>1
  <2> QED
    BY <2>2, <2>3, <2>4, <2>5
<1>11. Unique(specs) = kept[len]
  BY <1>1, <1>8
<1> HIDE DEF kept
<1> QED
  BY <1>9, <1>10, <1>11

LEMMA AddSpecKeeps ==
    ASSUME NEW T, None \notin T, NEW kept \in Seq(T), NEW s \in T \cup {None}, Once(kept)
    PROVE  /\ AddSpec(kept, s) \in Seq(T) /\ Once(AddSpec(kept, s))
           /\ Keys(AddSpec(kept, s)) = Keys(kept) \cup ({s} \ {None})
<1>1. CASE s = None
  BY <1>1 DEF AddSpec
<1>2. CASE s # None /\ \E n \in DOMAIN kept : kept[n] = s
  BY <1>2 DEF AddSpec, Keys
<1>3. CASE s # None /\ ~ \E n \in DOMAIN kept : kept[n] = s
  <2> DEFINE more == Append(kept, s)
             len  == Len(kept)
  <2>1. /\ AddSpec(kept, s) = more /\ more \in Seq(T)
        /\ len \in Nat /\ DOMAIN kept = 1..len /\ DOMAIN more = 1..(len + 1)
        /\ more[len + 1] = s /\ \A n \in 1..len : more[n] = kept[n]
    BY <1>3 DEF AddSpec
  <2> HIDE DEF more, len
  <2>2. 1..(len + 1) = (1..len) \cup {len + 1}
    BY <2>1
  <2>3. Keys(more) = Keys(kept) \cup {s}
    <3>1. \A x \in Keys(more) : x \in Keys(kept) \cup {s}
      BY <2>1, <2>2 DEF Keys
    <3>2. \A x \in Keys(kept) \cup {s} : x \in Keys(more)
      BY <2>1, <2>2 DEF Keys
    <3> QED
      BY <3>1, <3>2
  <2>4. Once(more)
    <3> SUFFICES ASSUME NEW m \in 1..(len + 1), NEW n \in 1..(len + 1), more[m] = more[n]
                 PROVE  m = n
      BY <2>1 DEF Once
    <3>1. m \in 1..len \/ m = len + 1
      BY <2>2
    <3>2. n \in 1..len \/ n = len + 1
      BY <2>2
    <3> QED
      BY <1>3, <2>1, <3>1, <3>2 DEF Once
  <2> QED
    BY <1>3, <2>1, <2>3, <2>4
<1> QED
  BY <1>1, <1>2, <1>3

(* Every device is found, and found once.                                  *)
LEMMA UniqueKeeps ==
    ASSUME NEW T, None \notin T, NEW specs \in Seq(T \cup {None})
    PROVE  /\ Once(Unique(specs))
           /\ Keys(Unique(specs)) = Keys(specs) \ {None}
<1>1. PICK kept : /\ kept[0] = <<>>
                  /\ \A n \in 1..Len(specs) : kept[n] = AddSpec(kept[n - 1], specs[n])
                  /\ Unique(specs) = kept[Len(specs)]
  BY UniqueSteps
<1>2. \A old \in Seq(T), s \in T \cup {None} : Once(old) =>
         /\ AddSpec(old, s) \in Seq(T) /\ Once(AddSpec(old, s))
         /\ Keys(AddSpec(old, s)) = Keys(old) \cup ({s} \ {None})
  BY AddSpecKeeps
<1> DEFINE Good(n) == /\ kept[n] \in Seq(T) /\ Once(kept[n])
                      /\ Keys(kept[n]) = {specs[m] : m \in 1..n} \ {None}
           bad == {n \in 0..Len(specs) : ~Good(n)}
<1>3. Good(0)
  BY <1>1 DEF Once, Keys
<1>4. ASSUME NEW n \in 1..Len(specs), Good(n - 1) PROVE Good(n)
  <2>1. kept[n] = AddSpec(kept[n - 1], specs[n]) /\ specs[n] \in T \cup {None}
    BY <1>1
  <2>2. 1..n = (1..(n - 1)) \cup {n}
    OBVIOUS
  <2>3. /\ kept[n] \in Seq(T) /\ Once(kept[n])
        /\ Keys(kept[n]) = Keys(kept[n - 1]) \cup ({specs[n]} \ {None})
    <3>1. kept[n - 1] \in Seq(T) /\ Once(kept[n - 1])
      BY <1>4
    <3> HIDE DEF Good
    <3> QED
      BY <1>2, <2>1, <3>1
  <2>4. {specs[m] : m \in 1..n} = {specs[m] : m \in 1..(n - 1)} \cup {specs[n]}
    BY <2>2
  <2> QED
    BY <1>4, <2>3, <2>4
<1> HIDE DEF Good
<1>5. bad = {}
  <2> SUFFICES ASSUME bad # {} PROVE FALSE
    OBVIOUS
  <2>0. bad \subseteq Nat
    OBVIOUS
  <2> HIDE DEF bad
  <2>1. PICK n \in bad : \A m \in bad : n <= m
    BY <2>0, LeastExists
  <2>2. n \in 1..Len(specs) /\ n - 1 \in 0..Len(specs) /\ ~(n <= n - 1)
    BY <1>3, <2>1 DEF bad
  <2> QED
    BY <1>4, <2>1, <2>2 DEF bad
<1>6. Good(Len(specs))
  BY <1>5
<1>7. DOMAIN specs = 1..Len(specs)
  OBVIOUS
<1> QED
  BY <1>1, <1>6, <1>7 DEF Good, Keys

(* What the other calls returned.                                          *)
AnsweredLists ==
    /\ call.f = "scan" =>
          /\ call.arg \in Scans
          /\ result # None => result = [json |-> ParseScanJson(call.arg),
                                        text |-> ParseScanText(call.arg)]
    /\ call.f = "lsblk" =>
          call.arg \in Scans /\ (result # None => result = ParseLsblk(call.arg))
    /\ call.f = "disks" =>
          call.arg \in Polls /\ (result # None => result = Deduplicate(call.arg))
    /\ call.f = "host" =>
          call.arg \in Hosts /\ (result # None => result = ParseHostInfo(call.arg))

LEMMA AnsweredListsAlways == ParserSpec => []AnsweredLists
<1>1. Init => AnsweredLists
  BY DEF Init, AnsweredLists
<1>2. ASSUME AnsweredLists, [Next]_parservars PROVE AnsweredLists'
  <2>1. CASE Returns("smartctl", ParseSmartctl(call.arg))
    BY <2>1 DEF Returns, AnsweredLists
  <2>2. CASE Returns("scan", [json |-> ParseScanJson(call.arg), text |-> ParseScanText(call.arg)])
    BY <1>2, <2>2 DEF Returns, AnsweredLists
  <2>3. CASE Returns("lsblk", ParseLsblk(call.arg))
    BY <1>2, <2>3 DEF Returns, AnsweredLists
  <2>4. CASE Returns("disks", Deduplicate(call.arg))
    BY <1>2, <2>4 DEF Returns, AnsweredLists
  <2>5. CASE Returns("host", ParseHostInfo(call.arg))
    BY <1>2, <2>5 DEF Returns, AnsweredLists
  <2>6. CASE UNCHANGED parservars
    BY <1>2, <2>6 DEF parservars, AnsweredLists
  <2> QED
    BY <1>2, <2>1, <2>2, <2>3, <2>4, <2>5, <2>6 DEF Next
<1> QED
  BY <1>1, <1>2, PTL DEF ParserSpec

Specs == [path : STRING, device_type : Text]

(* A line of the text form is read as the device it was printed for.       *)
LEMMA LineIsDevice ==
    ASSUME NEW d \in ScanLine
    PROVE  ParseSpec(Words(d)) = IF d.opens THEN Spec(d.path, d.type) ELSE None
<1>1. /\ d.path \in STRING /\ d.path # "relative" /\ d.type # "unsafe"
      /\ d.type \in STRING \cup {None} /\ d.opens \in BOOLEAN
  BY DEF ScanLine, Text
<1>2. CASE ~d.opens
  BY <1>1, <1>2 DEF ParseSpec, Words
<1>3. CASE d.opens /\ d.type = None
  <2>1. Words(d) = <<d.path>>
    BY <1>3 DEF Words
  <2>2. TypeWords(<<d.path>>) = <<>>
    BY DEF TypeWords
  <2>3. ToSet(<<>>) = {}
    BY DEF ToSet
  <2>4. ParseSpec(<<d.path>>) = Spec(d.path, None)
    BY <1>1, <2>2, <2>3 DEF ParseSpec
  <2> QED
    BY <1>3, <2>1, <2>4
<1>4. CASE d.opens /\ d.type # None
  <2> DEFINE words == <<d.path, "-d", d.type>>
  <2>1. Words(d) = words
    BY <1>4 DEF Words
  <2>2. Len(words) = 3 /\ words[1] = d.path /\ words[2] = "-d" /\ words # <<>>
    OBVIOUS
  <2>3. TypeWords(words) = <<d.type>>
    <3>1. SubSeq(words, 3, 3) = <<d.type>>
      <4> DEFINE last == SubSeq(words, 3, 3)
      <4>1. words \in Seq({d.path, "-d", d.type}) /\ words[3] = d.type
        OBVIOUS
      <4> HIDE DEF words
      <4>2. last \in Seq({d.path, "-d", d.type}) /\ Len(last) = 1 /\ last[1] = d.type
        BY <2>2, <4>1
      <4> HIDE DEF last
      <4>3. last = <<d.type>>
        BY <4>2
      <4> QED
        BY <4>3 DEF last
    <3> QED
      BY <2>2, <3>1 DEF TypeWords
  <2>4. ToSet(<<d.type>>) = {d.type}
    BY DEF ToSet
  <2> HIDE DEF words
  <2>5. ParseSpec(words) = Spec(d.path, d.type)
    <3>1. Len(<<d.type>>) = 1 /\ <<d.type>> # <<>> /\ <<d.type>>[1] = d.type
      OBVIOUS
    <3> QED
      BY <1>1, <2>2, <2>3, <2>4, <3>1 DEF ParseSpec
  <2> QED
    BY <1>4, <2>1, <2>5
<1> QED
  BY <1>1, <1>2, <1>3, <1>4

LEMMA SpecInSpecs ==
    ASSUME NEW path \in STRING, NEW type \in Text
    PROVE  Spec(path, type) \in Specs /\ Spec(path, type) # None /\ None \notin Specs
  BY NoneAssumption DEF Spec, Specs

LEMMA ScansFindDevices ==
    ASSUME NEW scan \in Seq(ScanLine)
    PROVE  /\ ParseScanJson(scan) = ParseScanText(scan)
           /\ Once(ParseScanJson(scan))
           /\ Keys(ParseScanJson(scan)) =
                 {Spec(d.path, d.type) : d \in {e \in Keys(scan) : e.opens}}
<1> DEFINE items == [n \in DOMAIN scan |->
                       IF scan[n].opens THEN Spec(scan[n].path, scan[n].type) ELSE None]
           lines == [n \in DOMAIN scan |-> ParseSpec(Words(scan[n]))]
<1>1. \A n \in DOMAIN scan : scan[n] \in ScanLine
  OBVIOUS
<1>2. lines = items
  BY <1>1, LineIsDevice
<1>3. ParseScanJson(scan) = Unique(items) /\ ParseScanText(scan) = Unique(lines)
  BY DEF ParseScanJson, ParseScanText
<1>4. \A n \in DOMAIN scan : scan[n].path \in STRING /\ scan[n].type \in Text
  BY <1>1 DEF ScanLine, Text
<1>5. items \in Seq(Specs \cup {None})
  <2>1. \A n \in DOMAIN scan : items[n] \in Specs \cup {None}
    BY <1>4, SpecInSpecs
  <2>2. DOMAIN scan = 1..Len(scan) /\ Len(scan) \in Nat
    OBVIOUS
  <2> HIDE DEF lines
  <2> QED
    BY <2>1, <2>2
<1>6. None \notin Specs
  BY NoneAssumption DEF Specs
<1>7. Once(Unique(items)) /\ Keys(Unique(items)) = Keys(items) \ {None}
  <2> HIDE DEF items, lines
  <2> QED
    BY <1>5, <1>6, UniqueKeeps
<1>8. Keys(items) \ {None} = {Spec(d.path, d.type) : d \in {e \in Keys(scan) : e.opens}}
  <2>1. \A n \in DOMAIN scan : Spec(scan[n].path, scan[n].type) # None
    BY <1>4, SpecInSpecs
  <2> QED
    BY <2>1 DEF Keys
<1> QED
  BY <1>2, <1>3, <1>7, <1>8

LEMMA LsblkFindsDisks ==
    ASSUME NEW scan \in Seq(ScanLine)
    PROVE  /\ Once(ParseLsblk(scan))
           /\ {s.path : s \in Keys(ParseLsblk(scan))} =
                 {d.path : d \in {e \in Keys(scan) : e.disk}}
<1> DEFINE items == [n \in DOMAIN scan |->
                       IF scan[n].disk THEN Spec(scan[n].path, None) ELSE None]
<1>1. ParseLsblk(scan) = Unique(items)
  BY DEF ParseLsblk
<1>2. \A n \in DOMAIN scan : scan[n].path \in STRING
  <2>1. \A n \in DOMAIN scan : scan[n] \in ScanLine
    OBVIOUS
  <2> QED
    BY <2>1 DEF ScanLine
<1>3. \A n \in DOMAIN scan : /\ Spec(scan[n].path, None) \in Specs \ {None}
                             /\ Spec(scan[n].path, None).path = scan[n].path
  BY <1>2, SpecInSpecs DEF Text, Spec
<1>4. items \in Seq(Specs \cup {None})
  <2>1. \A n \in DOMAIN scan : items[n] \in Specs \cup {None}
    BY <1>3
  <2>2. DOMAIN scan = 1..Len(scan) /\ Len(scan) \in Nat
    OBVIOUS
  <2> QED
    BY <2>1, <2>2
<1>5. None \notin Specs
  BY NoneAssumption DEF Specs
<1>6. Once(Unique(items)) /\ Keys(Unique(items)) = Keys(items) \ {None}
  <2> HIDE DEF items
  <2> QED
    BY <1>4, <1>5, UniqueKeeps
<1>7. Keys(items) \ {None} = {Spec(d.path, None) : d \in {e \in Keys(scan) : e.disk}}
  BY <1>3 DEF Keys
<1>8. \A d : Spec(d.path, None).path = d.path
  BY DEF Spec
<1> DEFINE disks == {e \in Keys(scan) : e.disk}
<1>9. {s.path : s \in {Spec(d.path, None) : d \in disks}} = {d.path : d \in disks}
  <2> HIDE DEF disks
  <2>1. \A d \in disks : d.path \in {s.path : s \in {Spec(e.path, None) : e \in disks}}
    BY <1>8
  <2>2. \A x \in {s.path : s \in {Spec(d.path, None) : d \in disks}} :
            x \in {d.path : d \in disks}
    BY <1>8
  <2> QED
    BY <2>1, <2>2
<1>10. Keys(ParseLsblk(scan)) = {Spec(d.path, None) : d \in disks}
  BY <1>1, <1>6, <1>7
<1> HIDE DEF items
<1>11. Once(ParseLsblk(scan))
  BY <1>1, <1>6
<1> QED
  BY <1>9, <1>10, <1>11

(* Both forms of the scan, and lsblk, name the devices of the host, each   *)
(* once, and none besides: none is read twice or not at all because of the *)
(* form smartctl prints (parser.py:79-122, 679-686).                       *)
THEOREM DevicesAreFoundOnce == ParserSpec => []DevicesOnce
<1>1. AnsweredLists => DevicesOnce
  <2> SUFFICES ASSUME AnsweredLists PROVE DevicesOnce
    OBVIOUS
  <2>1. ASSUME call.f = "scan", result # None
        PROVE  /\ result.json = result.text
               /\ Once(result.json)
               /\ Keys(result.json) =
                     {Spec(d.path, d.type) : d \in {e \in Keys(call.arg) : e.opens}}
    <3>1. call.arg \in Seq(ScanLine)
      BY <2>1, ScanAssumption DEF AnsweredLists
    <3>2. result.json = ParseScanJson(call.arg) /\ result.text = ParseScanText(call.arg)
      BY <2>1 DEF AnsweredLists
    <3> QED
      BY <3>1, <3>2, ScansFindDevices
  <2>2. ASSUME call.f = "lsblk", result # None
        PROVE  /\ Once(result)
               /\ {s.path : s \in Keys(result)} =
                     {d.path : d \in {e \in Keys(call.arg) : e.disk}}
    <3>1. call.arg \in Seq(ScanLine) /\ result = ParseLsblk(call.arg)
      BY <2>2, ScanAssumption DEF AnsweredLists
    <3> QED
      BY <3>1, LsblkFindsDisks
  <2> QED
    BY <2>1, <2>2 DEF DevicesOnce
<1> QED
  BY <1>1, AnsweredListsAlways, PTL

-----------------------------------------------------------------------------
(* The list of disks a poll has read.                                      *)

LEMMA DeduplicateSteps ==
    ASSUME NEW disks \in Seq(DiskSeen)
    PROVE  \E kept : /\ kept[0] = <<>>
                     /\ \A n \in 1..Len(disks) : kept[n] = AddDisk(kept[n - 1], disks[n])
                     /\ Deduplicate(disks) = kept[Len(disks)]
<1> DEFINE len == Len(disks)
           G == [p \in (1..len) \X Seq(DiskSeen) |-> AddDisk(p[2], disks[p[1]])]
           Body(h) == [s \in SUBSET (DOMAIN disks) |->
                          IF s = {} THEN <<>>
                          ELSE AddDisk(h[s \ {Max(s)}], disks[Max(s)])]
           iter == CHOOSE h : h = Body(h)
<1>1. len \in Nat /\ DOMAIN disks = 1..len
  OBVIOUS
<1>2. \A n \in 1..len, x \in Seq(DiskSeen) : G[<<n, x>>] = AddDisk(x, disks[n])
  OBVIOUS
<1>3. \A n \in 1..len, x \in Seq(DiskSeen) : AddDisk(x, disks[n]) \in Seq(DiskSeen)
  BY DEF AddDisk
<1> HIDE DEF G
<1>4. \A n \in 1..len, x \in Seq(DiskSeen) : G[<<n, x>>] \in Seq(DiskSeen)
  BY <1>2, <1>3
<1>5. PICK f : FoldsTo(f, len, Seq(DiskSeen), <<>>, G)
  <2>1. <<>> \in Seq(DiskSeen)
    OBVIOUS
  <2> HIDE DEF len
  <2>2. \E f : FoldsTo(f, len, Seq(DiskSeen), <<>>, G)
    BY <1>1, <1>4, <2>1, FoldExists, Zenon
  <2> QED
    BY <2>2
<1>6. f = Body(f)
  <2>1. \A s \in SUBSET (1..len) : s # {} => Max(s) \in 1..len /\ f[s \ {Max(s)}] \in Seq(DiskSeen)
    <3> SUFFICES ASSUME NEW s \in SUBSET (1..len), s # {}
                 PROVE  Max(s) \in 1..len /\ f[s \ {Max(s)}] \in Seq(DiskSeen)
      OBVIOUS
    <3>1. Max(s) \in s
      BY <1>1, MaxInSet
    <3>2. s \ {Max(s)} \in SUBSET (1..len)
      OBVIOUS
    <3> QED
      BY <1>5, <3>1, <3>2 DEF FoldsTo
  <2>2. \A s \in SUBSET (1..len) : s # {} => f[s] = AddDisk(f[s \ {Max(s)}], disks[Max(s)])
    BY <1>2, <1>5, <2>1 DEF FoldsTo
  <2>3. f \in [SUBSET (1..len) -> Seq(DiskSeen)] /\ f[{}] = <<>>
    BY <1>5 DEF FoldsTo
  <2> QED
    BY <1>1, <2>2, <2>3
<1>7. iter = Body(iter)
  BY <1>6, Zenon
<1>8. Deduplicate(disks) = iter[DOMAIN disks]
  BY Zenon DEF Deduplicate, FoldLeft, MapThenFoldSet
<1> HIDE DEF iter
<1> DEFINE kept == [n \in 0..len |-> iter[1..n]]
<1>9. kept[0] = <<>>
  <2>1. iter[{}] = <<>>
    BY <1>7
  <2> QED
    BY <1>1, <2>1
<1>10. ASSUME NEW n \in 1..len PROVE kept[n] = AddDisk(kept[n - 1], disks[n])
  <2>1. 1..n \in SUBSET (DOMAIN disks) /\ 1..n # {} /\ n \in 1..n
    BY <1>1
  <2>2. Max(1..n) = n
    BY <2>1, MaxOfPrefix
  <2>3. (1..n) \ {n} = 1..(n - 1)
    OBVIOUS
  <2>4. iter[1..n] = AddDisk(iter[(1..n) \ {Max(1..n)}], disks[Max(1..n)])
    BY <1>7, <2>1
  <2>5. n \in 0..len /\ n - 1 \in 0..len
    BY <1>1
  <2> QED
    BY <2>2, <2>3, <2>4, <2>5
<1>11. Deduplicate(disks) = kept[len]
  BY <1>1, <1>8
<1> HIDE DEF kept
<1> QED
  BY <1>9, <1>10, <1>11

LEMMA AddDiskKeeps ==
    ASSUME NEW kept \in Seq(DiskSeen), NEW d \in DiskSeen
    PROVE  /\ AddDisk(kept, d) \in Seq(DiskSeen)
           /\ d.identifier # None /\ (\E e \in Keys(kept) : e.identifier = d.identifier)
                 => Keys(AddDisk(kept, d)) = Keys(kept)
           /\ d.identifier = None \/ (\A e \in Keys(kept) : e.identifier # d.identifier)
                 => Keys(AddDisk(kept, d)) = Keys(kept) \cup {d}
<1> DEFINE known == \E n \in DOMAIN kept : kept[n].identifier = d.identifier
<1>1. known <=> \E e \in Keys(kept) : e.identifier = d.identifier
  BY DEF Keys
<1> HIDE DEF known
<1>2. CASE d.identifier # None /\ known
  <2>1. AddDisk(kept, d) = kept
    BY <1>2 DEF AddDisk, known
  <2> QED
    BY <1>1, <1>2, <2>1
<1>3. CASE ~(d.identifier # None /\ known)
  <2> DEFINE more == Append(kept, d)
             len  == Len(kept)
  <2>1. AddDisk(kept, d) = more
    BY <1>3 DEF AddDisk, known
  <2>2. /\ more \in Seq(DiskSeen)
        /\ len \in Nat /\ DOMAIN kept = 1..len /\ DOMAIN more = 1..(len + 1)
        /\ more[len + 1] = d /\ \A n \in 1..len : more[n] = kept[n]
    OBVIOUS
  <2> HIDE DEF more, len
  <2>3. 1..(len + 1) = (1..len) \cup {len + 1}
    BY <2>2
  <2>4. Keys(more) = Keys(kept) \cup {d}
    <3>1. \A x \in Keys(more) : x \in Keys(kept) \cup {d}
      BY <2>2, <2>3 DEF Keys
    <3>2. \A x \in Keys(kept) \cup {d} : x \in Keys(more)
      BY <2>2, <2>3 DEF Keys
    <3> QED
      BY <3>1, <3>2
  <2> QED
    BY <1>1, <1>3, <2>1, <2>2, <2>4
<1> QED
  BY <1>2, <1>3

LEMMA DeduplicateKeeps ==
    ASSUME NEW disks \in Seq(DiskSeen)
    PROVE  Keys(Deduplicate(disks)) =
               {disks[n] : n \in {n \in DOMAIN disks :
                   disks[n].identifier = None
                   \/ \A m \in 1..(n - 1) : disks[m].identifier # disks[n].identifier}}
<1>1. PICK kept : /\ kept[0] = <<>>
                  /\ \A n \in 1..Len(disks) : kept[n] = AddDisk(kept[n - 1], disks[n])
                  /\ Deduplicate(disks) = kept[Len(disks)]
  BY DeduplicateSteps
<1> DEFINE First(n)  == \/ disks[n].identifier = None
                        \/ \A m \in 1..(n - 1) : disks[m].identifier # disks[n].identifier
           Firsts(n) == {disks[k] : k \in {k \in 1..n : First(k)}}
           Good(n)   == /\ kept[n] \in Seq(DiskSeen) /\ Keys(kept[n]) = Firsts(n)
                        /\ \A k \in 1..n : disks[k].identifier # None =>
                              \E e \in Firsts(n) : e.identifier = disks[k].identifier
           bad == {n \in 0..Len(disks) : ~Good(n)}
<1>2. Good(0)
  BY <1>1 DEF Keys
<1>3. ASSUME NEW n \in 1..Len(disks), Good(n - 1) PROVE Good(n)
  <2>1. disks[n] \in DiskSeen /\ kept[n] = AddDisk(kept[n - 1], disks[n])
    BY <1>1
  <2>2. /\ kept[n - 1] \in Seq(DiskSeen) /\ Keys(kept[n - 1]) = Firsts(n - 1)
        /\ \A k \in 1..(n - 1) : disks[k].identifier # None =>
              \E e \in Firsts(n - 1) : e.identifier = disks[k].identifier
    BY <1>3
  <2>3. 1..n = (1..(n - 1)) \cup {n} /\ n \in 1..n
    OBVIOUS
  <2>4. Firsts(n) = Firsts(n - 1) \cup (IF First(n) THEN {disks[n]} ELSE {})
    <3> HIDE DEF First
    <3> QED
      BY <2>3
  <2>5. First(n) <=> \/ disks[n].identifier = None
                     \/ \A e \in Firsts(n - 1) : e.identifier # disks[n].identifier
    <3>1. ASSUME disks[n].identifier # None, NEW m \in 1..(n - 1),
                 disks[m].identifier = disks[n].identifier
          PROVE  \E e \in Firsts(n - 1) : e.identifier = disks[n].identifier
      BY <2>2, <3>1
    <3>2. \A e \in Firsts(n - 1) : \E m \in 1..(n - 1) : e = disks[m]
      OBVIOUS
    <3> HIDE DEF Firsts
    <3> QED
      BY <3>1, <3>2
  <2> HIDE DEF First, Firsts, Good
  <2>6. kept[n] \in Seq(DiskSeen) /\ Keys(kept[n]) = Firsts(n)
    <3>1. /\ kept[n] \in Seq(DiskSeen)
          /\ disks[n].identifier # None /\ (\E e \in Firsts(n - 1) : e.identifier = disks[n].identifier)
                => Keys(kept[n]) = Firsts(n - 1)
          /\ disks[n].identifier = None \/ (\A e \in Firsts(n - 1) : e.identifier # disks[n].identifier)
                => Keys(kept[n]) = Firsts(n - 1) \cup {disks[n]}
      <4>1. PICK old \in Seq(DiskSeen), d \in DiskSeen : old = kept[n - 1] /\ d = disks[n]
        BY <2>1, <2>2
      <4>2. kept[n] = AddDisk(old, d) /\ Keys(old) = Firsts(n - 1)
        BY <2>1, <2>2, <4>1
      <4>3. /\ AddDisk(old, d) \in Seq(DiskSeen)
            /\ d.identifier # None /\ (\E e \in Keys(old) : e.identifier = d.identifier)
                  => Keys(AddDisk(old, d)) = Keys(old)
            /\ d.identifier = None \/ (\A e \in Keys(old) : e.identifier # d.identifier)
                  => Keys(AddDisk(old, d)) = Keys(old) \cup {d}
        BY AddDiskKeeps
      <4> QED
        BY <4>1, <4>2, <4>3
    <3>2. CASE First(n)
      BY <2>4, <2>5, <3>1, <3>2
    <3>3. CASE ~First(n)
      BY <2>4, <2>5, <3>1, <3>3
    <3> QED
      BY <3>2, <3>3
  <2>7. \A k \in 1..n : disks[k].identifier # None =>
           \E e \in Firsts(n) : e.identifier = disks[k].identifier
    <3> SUFFICES ASSUME NEW k \in 1..n, disks[k].identifier # None
                 PROVE  \E e \in Firsts(n) : e.identifier = disks[k].identifier
      OBVIOUS
    <3>1. CASE k \in 1..(n - 1)
      BY <2>2, <2>4, <3>1
    <3>2. CASE k = n
      BY <2>4, <2>5, <3>2
    <3> QED
      BY <2>3, <3>1, <3>2
  <2> QED
    BY <2>6, <2>7 DEF Good
<1> HIDE DEF Good
<1>4. bad = {}
  <2> SUFFICES ASSUME bad # {} PROVE FALSE
    OBVIOUS
  <2>0. bad \subseteq Nat
    OBVIOUS
  <2> HIDE DEF bad
  <2>1. PICK n \in bad : \A m \in bad : n <= m
    BY <2>0, LeastExists
  <2>2. n \in 1..Len(disks) /\ n - 1 \in 0..Len(disks) /\ ~(n <= n - 1)
    BY <1>2, <2>1 DEF bad
  <2> QED
    BY <1>3, <2>1, <2>2 DEF bad
<1>5. Good(Len(disks))
  BY <1>4
<1>6. DOMAIN disks = 1..Len(disks)
  OBVIOUS
<1> QED
  BY <1>1, <1>5, <1>6 DEF Good

(* Of the disks a poll has read, none is lost but those reachable over     *)
(* another path, of which the first stays; disks that do not tell who they *)
(* are all stay (parser.py:317-328).                                       *)
THEOREM DisksAreKept == ParserSpec => []DisksKept
<1>1. AnsweredLists => DisksKept
  <2> SUFFICES ASSUME AnsweredLists, call.f = "disks", result # None
               PROVE  Keys(result) = {call.arg[n] : n \in {n \in DOMAIN call.arg :
                          call.arg[n].identifier = None
                          \/ \A m \in 1..(n - 1) :
                                call.arg[m].identifier # call.arg[n].identifier}}
    BY DEF DisksKept
  <2>1. call.arg \in Seq(DiskSeen) /\ result = Deduplicate(call.arg)
    BY PollAssumption DEF AnsweredLists
  <2> QED
    BY <2>1, DeduplicateKeeps
<1> QED
  BY <1>1, AnsweredListsAlways, PTL

-----------------------------------------------------------------------------
(* The host.                                                               *)

LEMMA FieldIsSaid ==
    ASSUME NEW lines \in Seq(HostLine), NEW key
    PROVE  \/ Field(lines, key) = None
           \/ \E n \in DOMAIN lines : lines[n].key = key /\ Field(lines, key) = lines[n].value
<1> DEFINE named == {n \in DOMAIN lines : lines[n].key = key}
<1>1. named \subseteq Nat
  OBVIOUS
<1>2. CASE named = {}
  BY <1>2 DEF Field
<1>3. CASE named # {}
  <2>1. Min(named) \in named
    BY <1>1, <1>3, MinInSet
  <2>2. Field(lines, key) = lines[Min(named)].value
    BY <1>3 DEF Field
  <2> QED
    BY <2>1, <2>2
<1> QED
  BY <1>2, <1>3

LEMMA FirstIsField ==
    ASSUME NEW lines \in Seq(HostLine), NEW n \in DOMAIN lines,
           \A m \in 1..(n - 1) : lines[m].key # lines[n].key
    PROVE  Field(lines, lines[n].key) = lines[n].value
<1> DEFINE named == {m \in DOMAIN lines : lines[m].key = lines[n].key}
<1>1. named \subseteq 1..Len(lines) /\ n \in named /\ Len(lines) \in Nat
  OBVIOUS
<1>2. \A m \in named : n <= m
  <2> SUFFICES ASSUME NEW m \in named, ~(n <= m) PROVE FALSE
    OBVIOUS
  <2>1. m \in 1..(n - 1)
    BY <1>1
  <2> QED
    BY <2>1
<1>3. Field(lines, lines[n].key) = lines[Min(named)].value
  BY <1>1 DEF Field
<1> HIDE DEF named
<1>4. Min(named) \in named /\ \A m \in named : Min(named) <= m
  <2>1. \E x \in named : \A m \in named : x <= m
    BY <1>1, <1>2
  <2> QED
    BY <2>1 DEF Min
<1>5. Min(named) = n
  BY <1>1, <1>2, <1>4
<1> QED
  BY <1>3, <1>5

(* A host keeps the names the script printed, whatever os-release says, and*)
(* a NAS or hypervisor has its own version, not that of the distribution   *)
(* below (parser.py:125-152, client.py:40-48).                             *)
THEOREM HostKeepsItsName == ParserSpec => []HostIsItself
<1>1. AnsweredLists => HostIsItself
  <2> SUFFICES ASSUME AnsweredLists, call.f = "host", result # None
               PROVE  /\ \A n \in Says("HOSTNAME") :
                            call.arg[n].script => result.hostname = call.arg[n].value
                      /\ \A n \in Says("UNAME_R") :
                            call.arg[n].script => result.kernel = call.arg[n].value
                      /\ result.os_name \in Products =>
                            \E n \in Says("UNRAID_VERSION") \cup Says("PVE_VERSION") :
                                result.os_version = call.arg[n].value
    BY DEF HostIsItself
  <2> DEFINE lines == call.arg
  <2>1. /\ lines \in Seq(HostLine) /\ result = ParseHostInfo(lines)
        /\ \A n \in DOMAIN lines :
              /\ lines[n].script /\ lines[n].key \in {"HOSTNAME", "UNAME_R"} =>
                    \A m \in 1..(n - 1) : lines[m].key # lines[n].key
              /\ lines[n].key \in {"NAME", "UNAME_S"} => lines[n].value \notin Products
    BY HostAssumption DEF AnsweredLists
  <2> HIDE DEF lines
  <2>2. /\ result.hostname = Field(lines, "HOSTNAME")
        /\ result.kernel = Field(lines, "UNAME_R")
        /\ result.os_name =
              IF Field(lines, "UNRAID_VERSION") # None THEN "Unraid"
              ELSE IF Field(lines, "PVE_VERSION") # None THEN "Proxmox VE"
              ELSE Given(Field(lines, "NAME"), Field(lines, "UNAME_S"))
        /\ Field(lines, "UNRAID_VERSION") # None
              => result.os_version = Field(lines, "UNRAID_VERSION")
        /\ Field(lines, "UNRAID_VERSION") = None /\ Field(lines, "PVE_VERSION") # None
              => result.os_version = Field(lines, "PVE_VERSION")
    BY <2>1 DEF ParseHostInfo, Given
  <2>3. \A key \in {"HOSTNAME", "UNAME_R"} : \A n \in Says(key) :
            lines[n].script => Field(lines, key) = lines[n].value
    <3> SUFFICES ASSUME NEW key \in {"HOSTNAME", "UNAME_R"}, NEW n \in DOMAIN lines,
                        lines[n].key = key, lines[n].script
                 PROVE  Field(lines, key) = lines[n].value
      BY DEF Says, lines
    <3>1. \A m \in 1..(n - 1) : lines[m].key # lines[n].key
      BY <2>1
    <3> QED
      BY <2>1, <3>1, FirstIsField
  <2>4. ASSUME NEW key, Field(lines, key) # None
        PROVE  \E n \in Says(key) : Field(lines, key) = lines[n].value
    <3>1. PICK n \in DOMAIN lines : lines[n].key = key /\ Field(lines, key) = lines[n].value
      BY <2>1, <2>4, FieldIsSaid
    <3> QED
      BY <3>1 DEF Says, lines
  <2>5. Given(Field(lines, "NAME"), Field(lines, "UNAME_S")) \notin Products
    <3>1. None \notin Products
      BY NoneAssumption
    <3>2. \A key \in {"NAME", "UNAME_S"} : Field(lines, key) \notin Products
      BY <2>1, <3>1, FieldIsSaid
    <3> QED
      BY <3>2 DEF Given
  <2>6. ASSUME result.os_name \in Products
        PROVE  \E n \in Says("UNRAID_VERSION") \cup Says("PVE_VERSION") :
                   result.os_version = lines[n].value
    <3>1. Field(lines, "UNRAID_VERSION") # None \/ Field(lines, "PVE_VERSION") # None
      BY <2>2, <2>5, <2>6
    <3>2. CASE Field(lines, "UNRAID_VERSION") # None
      BY <2>2, <2>4, <3>2
    <3>3. CASE Field(lines, "UNRAID_VERSION") = None
      BY <2>2, <2>4, <3>1, <3>3
    <3> QED
      BY <3>2, <3>3
  <2> QED
    BY <2>2, <2>3, <2>6 DEF lines
<1> QED
  BY <1>1, AnsweredListsAlways, PTL

-----------------------------------------------------------------------------
(* The two formats.                                                        *)

(* The same disk, whatever its format.                                     *)
SameDisk(r, t) ==
    /\ t.exit = r.exit /\ t.asleep = r.asleep /\ t.protocol = r.protocol
    /\ t.serial = r.serial /\ t.rotation = r.rotation /\ t.passed = r.passed
    /\ t.temperature = r.temperature /\ t.hours = r.hours /\ t.table = r.table
    /\ t.nvme = r.nvme /\ t.scsi = r.scsi

LEMMA TwinIsReport ==
    ASSUME NEW r \in Report, NEW f \in {"json", "text"}
    PROVE  LET t == [r EXCEPT !.format = f]
           IN  t \in Report /\ t.format = f /\ SameDisk(r, t) /\ SameDisk(t, r)
  BY DEF Report, SameDisk

(* Two tables that agree on the rows of some IDs.                          *)
SameRows(a, b, ids) ==
    /\ DOMAIN a = DOMAIN b
    /\ \A n \in DOMAIN a : a[n].id = b[n].id
    /\ \A n \in DOMAIN a : a[n].id \in ids => a[n].raw = b[n].raw

LEMMA SameLastRaw ==
    ASSUME NEW len \in Nat, NEW a, NEW b, NEW id, DOMAIN a \subseteq 1..len,
           SameRows(a, b, {id})
    PROVE  LastRaw(a, id) = LastRaw(b, id)
<1> DEFINE rows == {n \in DOMAIN a : a[n].id = id}
<1>1. rows = {n \in DOMAIN b : b[n].id = id}
  BY DEF SameRows
<1>2. LastRaw(a, id) = IF rows = {} THEN None ELSE a[Max(rows)].raw
  BY DEF LastRaw
<1>3. LastRaw(b, id) = IF rows = {} THEN None ELSE b[Max(rows)].raw
  BY <1>1 DEF LastRaw
<1>4. CASE rows # {}
  <2>1. rows \subseteq 1..len
    OBVIOUS
  <2>2. Max(rows) \in rows
    BY <1>4, <2>1, MaxInSet
  <2>3. a[Max(rows)].raw = b[Max(rows)].raw
    BY <2>2 DEF SameRows
  <2> QED
    BY <1>2, <1>3, <1>4, <2>3
<1> QED
  BY <1>2, <1>3, <1>4

LEMMA SameFirstRaw ==
    ASSUME NEW a, NEW b, NEW ids, DOMAIN a \subseteq Nat, SameRows(a, b, ids)
    PROVE  FirstRaw(a, ids) = FirstRaw(b, ids)
<1> DEFINE rows == {n \in DOMAIN a : a[n].id \in ids /\ a[n].raw # None}
<1>1. rows = {n \in DOMAIN b : b[n].id \in ids /\ b[n].raw # None}
  BY DEF SameRows
<1>2. FirstRaw(a, ids) = IF rows = {} THEN None ELSE a[Min(rows)].raw
  BY DEF FirstRaw
<1>3. FirstRaw(b, ids) = IF rows = {} THEN None ELSE b[Min(rows)].raw
  BY <1>1 DEF FirstRaw
<1>4. CASE rows # {}
  <2>1. Min(rows) \in rows
    BY <1>4, MinInSet
  <2>2. a[Min(rows)].raw = b[Min(rows)].raw
    BY <2>1 DEF SameRows
  <2> QED
    BY <1>2, <1>3, <1>4, <2>2
<1> QED
  BY <1>2, <1>3, <1>4

LEMMA SameTemperature ==
    ASSUME NEW a, NEW b, DOMAIN a \subseteq Nat, DOMAIN a = DOMAIN b,
           \A n \in DOMAIN a :
              /\ a[n].id = b[n].id /\ a[n].raw # None /\ b[n].raw # None
              /\ a[n].id \in {190, 194} => a[n].raw % 256 = b[n].raw % 256
    PROVE  AtaTemperature(a) = AtaTemperature(b)
<1> DEFINE rows == {n \in DOMAIN a : a[n].id \in {194, 190} /\ a[n].raw # None}
<1>1. rows = {n \in DOMAIN b : b[n].id \in {194, 190} /\ b[n].raw # None}
  OBVIOUS
<1>2. FirstRaw(a, {194, 190}) = IF rows = {} THEN None ELSE a[Min(rows)].raw
  BY DEF FirstRaw
<1>3. FirstRaw(b, {194, 190}) = IF rows = {} THEN None ELSE b[Min(rows)].raw
  BY <1>1 DEF FirstRaw
<1>4. CASE rows = {}
  BY <1>2, <1>3, <1>4 DEF AtaTemperature
<1>5. CASE rows # {}
  <2>1. PICK n \in rows : n = Min(rows)
    BY <1>5, MinInSet
  <2>2. a[n].raw # None /\ b[n].raw # None /\ a[n].raw % 256 = b[n].raw % 256
    BY <2>1
  <2>3. AtaTemperature(a) = a[n].raw % 256
    BY <1>2, <1>5, <2>1, <2>2 DEF AtaTemperature
  <2>4. AtaTemperature(b) = b[n].raw % 256
    BY <1>3, <1>5, <2>1, <2>2 DEF AtaTemperature
  <2> QED
    BY <2>2, <2>3, <2>4
<1> QED
  BY <1>4, <1>5

LEMMA SameUsed ==
    ASSUME NEW len \in Nat, NEW a, NEW b, DOMAIN a \subseteq 1..len, DOMAIN a = DOMAIN b,
           \A n \in DOMAIN a : a[n].name = b[n].name /\ a[n].value = b[n].value
    PROVE  Used(a) = Used(b)
<1> DEFINE LeftOf(t, p) == t[Max(ByName(t, LifeLeft[p]))].value
           usable(t) == {p \in DOMAIN LifeLeft :
                            /\ ByName(t, LifeLeft[p]) # {}
                            /\ LeftOf(t, p) # None /\ LeftOf(t, p) <= 100}
<1>1. Used(a) = IF usable(a) = {} THEN None ELSE 100 - LeftOf(a, Min(usable(a)))
  BY DEF Used
<1>2. Used(b) = IF usable(b) = {} THEN None ELSE 100 - LeftOf(b, Min(usable(b)))
  BY DEF Used
<1>3. \A name : ByName(a, name) = ByName(b, name)
  BY DEF ByName
<1>4. ASSUME NEW p \in DOMAIN LifeLeft, ByName(a, LifeLeft[p]) # {}
      PROVE  LeftOf(a, p) = LeftOf(b, p)
  <2>1. ByName(a, LifeLeft[p]) \subseteq 1..len /\ ByName(a, LifeLeft[p]) \subseteq DOMAIN a
    BY DEF ByName
  <2>2. PICK n \in ByName(a, LifeLeft[p]) : n = Max(ByName(a, LifeLeft[p]))
    BY <1>4, <2>1, MaxInSet
  <2>3. a[n].value = b[n].value
    BY <2>1
  <2> QED
    BY <1>3, <2>2, <2>3
<1>5. usable(a) = usable(b)
  <2>1. \A p \in DOMAIN LifeLeft : p \in usable(a) <=> p \in usable(b)
    BY <1>3, <1>4
  <2> QED
    BY <2>1
<1>6. CASE usable(a) # {}
  <2>1. usable(a) \subseteq Nat
    BY DEF LifeLeft
  <2>2. PICK p \in usable(a) : p = Min(usable(a))
    BY <1>6, <2>1, MinInSet
  <2>3. LeftOf(a, p) = LeftOf(b, p)
    BY <1>4, <2>2
  <2> QED
    BY <1>1, <1>2, <1>5, <1>6, <2>2, <2>3
<1> QED
  BY <1>1, <1>2, <1>5, <1>6

(* What a legible table says in both formats.                              *)
LEMMA TextTableSays ==
    ASSUME NEW r \in Report, AllLegible(r.table),
           \A n \in DOMAIN r.table : r.table[n].printed # None => r.table[n].raw # None
    PROVE  LET text == TextTable(r.table) IN
           /\ DOMAIN text # {} <=> r.table # <<>>
           /\ Used(text) = Used(r.table)
           /\ LowByteFirst(r.table) => AtaTemperature(text) = AtaTemperature(r.table)
           /\ \A id : Whole(r.table, id) => /\ FirstRaw(text, {id}) = FirstRaw(r.table, {id})
                                            /\ LastRaw(text, id) = LastRaw(r.table, id)
           /\ DistinctIds(r.table) =>
                 (FailingNow(r.table) <=> \E n \in DOMAIN text : text[n].now)
<1> DEFINE text == TextTable(r.table)
<1>1. /\ r.table \in Seq(TableRow) /\ Len(r.table) \in Nat
      /\ DOMAIN r.table = 1..Len(r.table) /\ DOMAIN r.table \subseteq Nat
  BY DEF Report
<1>2. DOMAIN text = DOMAIN r.table
  BY DEF TextTable, AllLegible
<1>3. \A n \in DOMAIN text :
         /\ text[n].raw = r.table[n].printed /\ text[n].now = r.table[n].now
         /\ text[n].id = r.table[n].id /\ text[n].name = r.table[n].name
         /\ text[n].value = r.table[n].value
  BY TextRowsAreRows
<1>4. \A n \in DOMAIN text : text[n].raw # None /\ r.table[n].raw # None
  BY <1>2, <1>3 DEF AllLegible, Legible
<1> HIDE DEF text
<1>5. DOMAIN text # {} <=> r.table # <<>>
  BY <1>1, <1>2
<1>6. Used(text) = Used(r.table)
  BY <1>1, <1>2, <1>3, SameUsed
<1>7. ASSUME LowByteFirst(r.table)
      PROVE  AtaTemperature(text) = AtaTemperature(r.table)
  <2>1. \A n \in DOMAIN text : text[n].id \in {190, 194} => text[n].raw % 256 = r.table[n].raw % 256
    BY <1>2, <1>3, <1>7 DEF LowByteFirst
  <2> QED
    BY <1>1, <1>2, <1>3, <1>4, <2>1, SameTemperature
<1>8. ASSUME NEW id, Whole(r.table, id)
      PROVE  /\ FirstRaw(text, {id}) = FirstRaw(r.table, {id})
             /\ LastRaw(text, id) = LastRaw(r.table, id)
  <2>1. SameRows(text, r.table, {id})
    BY <1>2, <1>3, <1>8 DEF SameRows, Whole
  <2> QED
    BY <1>1, <1>2, <2>1, SameFirstRaw, SameLastRaw
<1>9. ASSUME DistinctIds(r.table)
      PROVE  FailingNow(r.table) <=> \E n \in DOMAIN text : text[n].now
  BY <1>2, <1>3, <1>9, FailingRowCounts DEF Fails
<1> QED
  BY <1>5, <1>6, <1>7, <1>8, <1>9 DEF text

(* What both formats say of a disk, read from the JSON of one report and   *)
(* from the text of another of the same disk; a and b are what was made of *)
(* them, in either order.                                                  *)
Alike(r, a, b) ==
    /\ a.serial = b.serial
    /\ a.disk_type = b.disk_type
    /\ r.protocol # "ata" \/ r.table # <<>> => a.interface = b.interface
    /\ r.protocol = "ata" => a.percentage_used = b.percentage_used
    /\ r.protocol = "ata" /\ r.hours = None /\ Whole(r.table, 9)
         => a.power_on_hours = b.power_on_hours
    /\ (r.protocol = "ata") = (r.temperature = None) /\ LowByteFirst(r.table)
         => a.temperature = b.temperature
    /\ r.passed # None /\ r.nvme = None /\ DistinctIds(r.table) => a.health = b.health
    /\ \A c \in DOMAIN AtaCounter :
           Whole(r.table, AtaCounter[c]) => a.counters[c] = b.counters[c]
    /\ a.counters["grown_defects"] = b.counters["grown_defects"]

LEMMA ReadAlike ==
    ASSUME NEW r \in Report, NEW t \in Report, SameDisk(r, t), AllLegible(r.table),
           \A n \in DOMAIN r.table : r.table[n].printed # None => r.table[n].raw # None,
           r.nvme # None => r.protocol = "nvme",
           r.table # <<>> => r.protocol = "ata",
           "prefail_now" \in r.exit => Fails(r, DOMAIN r.table)
    PROVE  Alike(r, Read(r), ReadText(t))
<1> DEFINE text == TextTable(r.table)
<1>1. Medium(t) = Medium(r) /\ AtaUsed(t, text) = AtaUsed(r, r.table)
  BY TextTableSays DEF SameDisk, Medium, AtaUsed
<1>2. TextTable(t.table) = text
  BY DEF SameDisk
<1>3. /\ DOMAIN text # {} <=> r.table # <<>>
      /\ LowByteFirst(r.table) => AtaTemperature(text) = AtaTemperature(r.table)
      /\ \A id : Whole(r.table, id) => /\ FirstRaw(text, {id}) = FirstRaw(r.table, {id})
                                       /\ LastRaw(text, id) = LastRaw(r.table, id)
      /\ DistinctIds(r.table) =>
            (FailingNow(r.table) <=> \E n \in DOMAIN text : text[n].now)
  BY TextTableSays
<1> HIDE DEF text
<1>4. Read(r).serial = ReadText(t).serial
  BY DEF Read, ReadText, SameDisk
<1>5. Read(r).disk_type = ReadText(t).disk_type
  <2>1. r.nvme # None => Medium(r) = "nvme"
    BY DEF Medium
  <2> QED
    BY <1>1, <2>1 DEF Read, ReadText
<1>6. ASSUME r.protocol # "ata" \/ r.table # <<>>
      PROVE  Read(r).interface = ReadText(t).interface
  BY <1>6, <1>2, <1>3 DEF Read, ReadText, Interface, SameDisk
<1>7. ASSUME r.protocol = "ata"
      PROVE  Read(r).percentage_used = ReadText(t).percentage_used
  <2>1. PercentageUsed(r) = AtaUsed(r, r.table)
    BY <1>7 DEF PercentageUsed, IsScsi, Interface
  <2> QED
    BY <1>1, <1>2, <2>1 DEF Read, ReadText
<1>8. ASSUME r.protocol = "ata", r.hours = None, Whole(r.table, 9)
      PROVE  Read(r).power_on_hours = ReadText(t).power_on_hours
  <2>1. Hours(r) = FirstRaw(r.table, {9})
    BY <1>8 DEF Hours, Given
  <2> QED
    BY <1>8, <1>2, <1>3, <2>1 DEF Read, ReadText
<1>9. ASSUME (r.protocol = "ata") = (r.temperature = None), LowByteFirst(r.table)
      PROVE  Read(r).temperature = ReadText(t).temperature
  <2>1. r.protocol = "ata" <=> r.temperature = None
    BY <1>9
  <2>2. Temperature(r) = Given(IF r.protocol = "ata" THEN None ELSE r.temperature,
                               AtaTemperature(r.table))
    BY <2>1 DEF Temperature, Given
  <2> QED
    BY <1>9, <1>2, <1>3, <2>2 DEF Read, ReadText, SameDisk
<1>10. ASSUME r.passed # None, r.nvme = None, DistinctIds(r.table)
      PROVE  Read(r).health = ReadText(t).health
  <2>1. r.passed = TRUE \/ r.passed = FALSE
    BY <1>10 DEF Report
  <2>2. "prefail_now" \in r.exit => FailingNow(r.table)
    BY <1>10, FailingRowCounts
  <2>3. Health(r) = TextHealth(t, text)
    BY <1>10, <1>3, <2>1, <2>2 DEF Health, TextHealth, Symptoms, SameDisk
  <2> QED
    BY <1>2, <2>3 DEF Read, ReadText
<1>11. ASSUME NEW c \in DOMAIN AtaCounter, Whole(r.table, AtaCounter[c])
      PROVE  Read(r).counters[c] = ReadText(t).counters[c]
  <2>1. c \in Counter
    BY DEF Counter
  <2>2. LastRaw(text, AtaCounter[c]) = LastRaw(r.table, AtaCounter[c])
    BY <1>11, <1>3
  <2> QED
    BY <1>2, <2>1, <2>2 DEF Read, ReadText, Counters
<1>12. Read(r).counters["grown_defects"] = ReadText(t).counters["grown_defects"]
  <2>1. "grown_defects" \in Counter /\ "grown_defects" \notin DOMAIN AtaCounter \cup NvmeCounter
    BY DEF Counter, AtaCounter, NvmeCounter, ScsiCounter
  <2>2. IsScsi(r) <=> r.protocol = "scsi"
    BY DEF IsScsi, Interface
  <2> QED
    BY <2>1, <2>2 DEF Read, ReadText, Counters, SameDisk
<1> QED
  BY <1>4, <1>5, <1>6, <1>7, <1>8, <1>9, <1>10, <1>11, <1>12 DEF Alike

(* A host whose smartctl is updated to version 7 shows the same of its     *)
(* disks: what both formats print whole is read alike (parser.py:161-171), *)
(* and so is a temperature whose low byte is printed first.                *)
THEOREM FormatsAlwaysAgree == ParserSpec => []FormatsAgree
<1>1. Answered => FormatsAgree
  <2> SUFFICES ASSUME Answered, Parsed, report.format # "cut" PROVE FormatsAgree
    BY DEF FormatsAgree
  <2> DEFINE f    == Other(report.format)
             t    == [report EXCEPT !.format = f]
             twin == ParseSmartctl(t)
  <2>1. /\ report \in Report /\ result = ParseSmartctl(report)
        /\ "prefail_now" \in report.exit => Fails(report, DOMAIN report.table)
        /\ \A n \in DOMAIN report.table :
              report.table[n].printed # None => report.table[n].raw # None
        /\ report.nvme # None => report.protocol = "nvme"
        /\ report.table # <<>> => report.protocol = "ata"
    BY ReportParsed
  <2>2. /\ report.format \in {"json", "text"} /\ f \in {"json", "text"}
        /\ f # report.format
    BY <2>1 DEF Report, Other
  <2>3. t \in Report /\ t.format = f /\ SameDisk(report, t) /\ SameDisk(t, report)
    BY <2>1, <2>2, TwinIsReport
  <2>4. [report EXCEPT !.format = Other(@)] = t
    OBVIOUS
  <2> HIDE DEF t, f
  <2>5. result.standby = twin.standby /\ result.error = twin.error
    <3>1. /\ t.asleep = report.asleep /\ (Unopened(t) <=> Unopened(report))
      BY <2>3 DEF SameDisk, Unopened
    <3>2. CASE report.asleep
      <4>1. result = twin
        BY <2>1, <2>3, <3>1, <3>2, ParsedOutcomes
      <4> QED
        BY <4>1
    <3>3. CASE ~report.asleep /\ Unopened(report)
      <4>1. result = twin
        BY <2>1, <2>3, <3>1, <3>3, ParsedOutcomes
      <4> QED
        BY <4>1
    <3>4. CASE ~report.asleep /\ ~Unopened(report)
      <4>1. \A r \in Report : ~r.asleep /\ ~Unopened(r) /\ r.format # "cut" =>
               ParseSmartctl(r).standby = FALSE /\ ParseSmartctl(r).error = FALSE
        <5> SUFFICES ASSUME NEW r \in Report, ~r.asleep, ~Unopened(r), r.format # "cut"
                     PROVE  ParseSmartctl(r).standby = FALSE /\ ParseSmartctl(r).error = FALSE
          OBVIOUS
        <5>1. CASE r.format = "json"
          <6>1. ParseSmartctl(r) = Read(r)
            BY <5>1, ParserOfFormat DEF ParseJson
          <6> QED
            BY <6>1 DEF Read
        <5>2. CASE r.format = "text"
          <6>1. ParseSmartctl(r) = ReadText(r)
            BY <5>2, ParserOfFormat DEF ParseText
          <6> QED
            BY <6>1 DEF ReadText
        <5> QED
          BY <5>1, <5>2, ParserOfFormat
      <4> QED
        BY <2>1, <2>2, <2>3, <3>1, <3>4, <4>1
    <3> QED
      BY <3>2, <3>3, <3>4
  <2>6. ASSUME Shown, AllLegible(report.table) PROVE Alike(report, result, twin)
    <3>1. ~twin.standby /\ ~twin.error
      BY <2>5, <2>6 DEF Shown
    <3>2. CASE report.format = "json"
      <4>1. result = Read(report)
        BY <2>1, <2>6, <3>2, ShownIsRead DEF Shown
      <4>2. twin = ReadText(t)
        BY <2>2, <2>3, <3>1, <3>2, ShownIsRead
      <4> QED
        BY <2>1, <2>3, <2>6, <4>1, <4>2, ReadAlike
    <3>3. CASE report.format = "text"
      <4>1. result = ReadText(report)
        BY <2>1, <2>6, <3>3, ShownIsRead DEF Shown
      <4>2. twin = Read(t)
        BY <2>2, <2>3, <3>1, <3>3, ShownIsRead
      <4>3. /\ t.nvme # None => t.protocol = "nvme"
            /\ t.table # <<>> => t.protocol = "ata"
            /\ "prefail_now" \in t.exit => Fails(t, DOMAIN t.table)
            /\ AllLegible(t.table)
            /\ \A n \in DOMAIN t.table : t.table[n].printed # None => t.table[n].raw # None
        BY <2>1, <2>3, <2>6 DEF SameDisk, Fails
      <4>4. Alike(t, Read(t), ReadText(report))
        BY <2>1, <2>3, <4>3, ReadAlike
      <4> QED
        BY <2>3, <4>1, <4>2, <4>4 DEF Alike, SameDisk
    <3> QED
      BY <2>2, <3>2, <3>3
  <2> HIDE DEF twin
  <2>7. FormatsAgree <=>
           /\ result.standby = twin.standby /\ result.error = twin.error
           /\ Shown /\ AllLegible(report.table) => Alike(report, result, twin)
    BY <2>4, Zenon DEF FormatsAgree, Alike, twin
  <2> QED
    BY <2>5, <2>6, <2>7
<1> QED
  BY <1>1, AnsweredAlways, PTL
=============================================================================
