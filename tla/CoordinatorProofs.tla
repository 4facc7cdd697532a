-------------------------- MODULE CoordinatorProofs --------------------------
(* Proofs about Coordinator, for every set of disks and paths.             *)
EXTENDS Coordinator, TLAPS

-----------------------------------------------------------------------------
(* Type correctness.                                                       *)

(* What smartctl answers for a path is a Disk.                             *)
LEMMA GetDiskType ==
    ASSUME TypeOK, NEW k \in Key, NEW r \in GetDisk(k)
    PROVE  r \in DiskData
<1>1. CASE r = Unreadable(k)
  BY <1>1 DEF Unreadable, DiskData
<1>2. CASE r = Standby(k)
  BY <1>2 DEF Standby, DiskData
<1>3. CASE r = Blank(k)
  BY <1>3 DEF Blank, DiskData
<1>4. CASE attached[k] # None /\ r = Fresh(k, attached[k])
  <2> DEFINE d == attached[k]
  <2>1. d \in Disk
    BY <1>4 DEF TypeOK
  <2>2. [of |-> d, at |-> wear[d]] \in Values
    BY <2>1 DEF TypeOK, Values
  <2>3. Identifier(d) \in Disk \cup {None}
    BY <2>1 DEF Identifier
  <2> QED
    BY <1>4, <2>2, <2>3 DEF Fresh, DiskData
<1> QED
  BY <1>1, <1>2, <1>3, <1>4 DEF GetDisk, Answer, Answer

(* A reading that is stored has a path and an ID.                          *)
LEMMA StoredType ==
    ASSUME TypeOK, \A k \in specs : readings[k] # None, NEW k \in Stored
    PROVE  k \in Key /\ k \in specs /\ readings[k] \in DiskData
           /\ DiskId(k) \in ID /\ DiskId(k) # None
<1>1. k \in Filed /\ k \in specs /\ DiskId(k) # None
  BY DEF Stored, Filed, Kept
<1>2. k \in Key /\ readings[k] \in DiskData
  BY <1>1 DEF TypeOK
<1>3. readings[k].identifier \in Disk \cup {None} /\ disk_ids[k] \in ID \cup {None}
  BY <1>2 DEF TypeOK, DiskData
<1>4. DiskId(k) \in ID \cup {None}
  BY <1>2, <1>3 DEF DiskId, ID
<1> QED
  BY <1>1, <1>2, <1>4

(* The loop publishes a Disk made by Merge from a stored reading.          *)
LEMMA ResultIsMerge ==
    ASSUME TypeOK, NEW i \in ID, Result[i] # None
    PROVE  \E k \in Stored : DiskId(k) = i /\ Result[i] = Merge(k)
<1>1. StoredAs(i) # {} /\ Result[i] = Merge(Last(StoredAs(i)))
  BY DEF Result
<1>2. StoredAs(i) \in SUBSET Key
  BY DEF StoredAs, Stored, Filed, Kept, TypeOK
<1>3. Last(StoredAs(i)) \in StoredAs(i)
  BY <1>1, <1>2, KeyAssumption DEF Last
<1> QED
  BY <1>1, <1>3 DEF StoredAs

(* Merge yields a Disk; its fields come from the reading or from the Disk  *)
(* published before under the same ID.                                     *)
LEMMA MergeFields ==
    ASSUME TypeOK, \A k \in specs : readings[k] # None, NEW k \in Stored
    PROVE  LET new == readings[k]
               old == data[DiskId(k)]
           IN  /\ Merge(k) \in DiskData
               /\ Merge(k) = new \/ (old # None /\ Merge(k).spec = k)
               /\ \/ Merge(k) = new
                  \/ /\ old # None /\ old \in DiskData
                     /\ new.standby \/ new.error
                     /\ Merge(k).identifier = old.identifier
                     /\ Merge(k).values = old.values
<1> DEFINE new == readings[k]
           old == data[DiskId(k)]
<1>1. k \in Key /\ new \in DiskData /\ DiskId(k) \in ID
  BY StoredType
<1>2. CASE old = None
  BY <1>1, <1>2 DEF Merge
<1>3. CASE old # None
  <2>1. old \in DiskData
    BY <1>1, <1>3 DEF TypeOK
  <2>2. CASE new.standby
    <3>1. Merge(k) = [old EXCEPT !.spec = k, !.standby = TRUE, !.error = FALSE]
      BY <1>3, <2>2 DEF Merge
    <3> QED
      BY <1>1, <1>3, <2>1, <2>2, <3>1 DEF DiskData
  <2>3. CASE ~new.standby /\ new.error
    <3>1. Merge(k) = [old EXCEPT !.spec = k, !.error = TRUE]
      BY <1>3, <2>3 DEF Merge
    <3> QED
      BY <1>1, <1>3, <2>1, <2>3, <3>1 DEF DiskData
  <2>4. CASE ~new.standby /\ ~new.error
    BY <1>1, <1>3, <2>4 DEF Merge
  <2> QED
    BY <2>2, <2>3, <2>4
<1> QED
  BY <1>2, <1>3

(* All variables keep their types, and nothing outlives a poll but what it *)
(* published: the readings of a failed poll are gone, an entry that is not *)
(* loaded shows nothing (coordinator.py:59, 79-128).                       *)
THEOREM TypeCorrect == Spec => []TypeOK
<1>1. Init => TypeOK
  <2> SUFFICES ASSUME Init PROVE TypeOK
    OBVIOUS
  <2>1. wear \in [Disk -> 0..MaxWear]
    BY OptionAssumption DEF Init
  <2>2. readings \in [Key -> DiskData \cup {None}]
    BY DEF Init
  <2>3. disk_ids \in [Key -> ID \cup {None}]
    BY DEF Init
  <2>4. data \in [ID -> DiskData \cup {None}]
    BY DEF Init
  <2> QED
    BY <2>1, <2>2, <2>3, <2>4 DEF Init, TypeOK
<1>2. TypeOK /\ [Next]_vars => TypeOK'
  <2> SUFFICES ASSUME TypeOK, [Next]_vars PROVE TypeOK'
    OBVIOUS
  <2>1. CASE Environment
    <3>1. ASSUME NEW k \in Key, NEW d \in Disk \cup {None}, Replug(k, d) PROVE TypeOK'
      BY <3>1 DEF Replug, TypeOK, coord
    <3>2. ASSUME NEW d \in Disk, FallAsleep(d) \/ WakeUp(d) PROVE TypeOK'
      BY <3>2 DEF FallAsleep, WakeUp, TypeOK, coord
    <3>3. ASSUME NEW d \in Disk, Wear(d) PROVE TypeOK'
      <4>1. wear[d] + 1 \in 0..MaxWear
        BY <3>3, OptionAssumption DEF Wear, TypeOK
      <4> QED
        BY <3>3, <4>1 DEF Wear, TypeOK, coord
    <3>4. ASSUME NEW k \in Key, Fault(k) \/ Repair(k) PROVE TypeOK'
      BY <3>4 DEF Fault, Repair, TypeOK, coord
    <3> QED
      BY <2>1, <3>1, <3>2, <3>3, <3>4 DEF Environment
  <2>2. CASE Setup
    BY <2>2 DEF Setup, TypeOK, env
  <2>3. CASE StartPoll
    BY <2>3, KeyAssumption DEF StartPoll, Discover, Present, TypeOK, env
  <2>4. ASSUME NEW k \in Key, ReadDisk(k) PROVE TypeOK'
    <3>1. PICK r \in GetDisk(k) : readings' = [readings EXCEPT ![k] = r]
      BY <2>4 DEF ReadDisk
    <3>2. r \in DiskData
      BY GetDiskType
    <3>3. readings' \in [Key -> DiskData \cup {None}]
      BY <3>1, <3>2 DEF TypeOK
    <3>4. asleep' \subseteq Disk
      BY <2>4 DEF ReadDisk, TypeOK
    <3> QED
      BY <2>4, <3>3, <3>4 DEF ReadDisk, TypeOK
  <2>5. CASE Publish
    <3>1. \A k \in specs : readings[k] # None
      BY <2>5 DEF Publish
    <3>2. \A i \in ID : Result[i] \in DiskData \cup {None}
      BY <3>1, ResultIsMerge, MergeFields
    <3>3. data' \in [ID -> DiskData \cup {None}]
      BY <2>5, <3>2 DEF Publish, Result
    <3>4. \A k \in Filed : k \in Key => DiskId(k) \in ID
      <4> SUFFICES ASSUME NEW k \in Filed, k \in Key PROVE DiskId(k) \in ID
        OBVIOUS
      <4>1. readings[k] \in DiskData /\ disk_ids[k] \in ID \cup {None} /\ DiskId(k) # None
        BY <3>1 DEF Filed, Kept, TypeOK
      <4>2. readings[k].identifier \in Disk \cup {None}
        BY <4>1 DEF DiskData
      <4> QED
        BY <4>1, <4>2 DEF DiskId, ID
    <3>5. disk_ids' \in [Key -> ID \cup {None}]
      BY <2>5, <3>4 DEF Publish, TypeOK
    <3> QED
      BY <2>5, <3>3, <3>5 DEF Publish, TypeOK, env
  <2>6. ASSUME NEW why \in Failure, SetupFails(why) PROVE TypeOK'
    BY <2>6 DEF SetupFails, Failure, TypeOK, env
  <2>7. ASSUME NEW why \in Failure, PollFails(why) PROVE TypeOK'
    BY <2>7 DEF PollFails, Failure, TypeOK, env
  <2>8. CASE Reload
    BY <2>8 DEF Reload, TypeOK, env
  <2>9. CASE UNCHANGED vars
    BY <2>9 DEF vars, TypeOK
  <2> QED
    BY <2>1, <2>2, <2>3, <2>4, <2>5, <2>6, <2>7, <2>8, <2>9 DEF Next, Reads, Fails
<1> QED
  BY <1>1, <1>2, PTL DEF Spec

-----------------------------------------------------------------------------
(* The inductive invariant behind the entries.                             *)

(* A reading in flight stands for the disk that named itself: it carries   *)
(* values of that disk, not ahead of its meter, nor behind what is         *)
(* published for it.                                                       *)
ReadingInv ==
    \A k \in Key : readings[k] # None =>
        /\ readings[k].spec = k
        /\ readings[k].identifier # None =>
              /\ readings[k].values # None
              /\ readings[k].values.of = readings[k].identifier
              /\ readings[k].values.at <= wear[readings[k].identifier]

(* So does an entry that names itself, and the path of every entry is      *)
(* remembered for it: this is what keeps two entries off one path.         *)
EntryInv ==
    \A i \in ID : data[i] # None =>
        /\ disk_ids[data[i].spec] = i
        /\ data[i].identifier \in {None, i}
        /\ data[i].identifier # None =>
              /\ data[i].values # None
              /\ data[i].values.of = i
              /\ data[i].values.at <= wear[i]

MeterInv ==
    \A k \in Key, i \in ID :
        /\ readings[k] # None /\ readings[k].identifier = i
        /\ data[i] # None /\ data[i].identifier # None
        => data[i].values.at <= readings[k].values.at

IInv == TypeOK /\ ReadingInv /\ EntryInv /\ MeterInv

(* The three parts are about coord and wear only.                          *)
LEMMA IInvFrame ==
    ASSUME ReadingInv, EntryInv, MeterInv, UNCHANGED <<readings, disk_ids, data, wear>>
    PROVE  ReadingInv' /\ EntryInv' /\ MeterInv'
BY DEF ReadingInv, EntryInv, MeterInv

(* An entry that names itself is a disk, in the domain of wear.            *)
LEMMA NamedEntry ==
    ASSUME TypeOK, EntryInv, NEW i \in ID, data[i] # None, data[i].identifier # None
    PROVE  i \in Disk /\ data[i].identifier = i /\ data[i].values \in Values
<1>1. data[i] \in DiskData /\ data[i].identifier = i /\ data[i].values # None
  BY DEF TypeOK, EntryInv
<1> QED
  BY <1>1 DEF DiskData

LEMMA NamedReading ==
    ASSUME TypeOK, ReadingInv, NEW k \in Key, readings[k] # None,
           readings[k].identifier # None
    PROVE  readings[k].identifier \in Disk /\ readings[k].values \in Values
<1>1. readings[k] \in DiskData /\ readings[k].values # None
  BY DEF TypeOK, ReadingInv
<1> QED
  BY <1>1 DEF DiskData

LEMMA WearKeepsIInv ==
    ASSUME IInv, NEW d \in Disk, Wear(d)
    PROVE  ReadingInv' /\ EntryInv' /\ MeterInv'
<1>1. UNCHANGED <<readings, disk_ids, data>>
  BY DEF Wear, coord
<1>2. \A e \in Disk : wear[e] \in Nat /\ wear'[e] \in Nat /\ wear[e] <= wear'[e]
  BY OptionAssumption DEF IInv, TypeOK, Wear
<1>3. ReadingInv'
  <2> SUFFICES ASSUME NEW k \in Key, readings[k] # None
               PROVE  /\ readings[k].spec = k
                      /\ readings[k].identifier # None =>
                            /\ readings[k].values # None
                            /\ readings[k].values.of = readings[k].identifier
                            /\ readings[k].values.at <= wear'[readings[k].identifier]
    BY <1>1 DEF ReadingInv
  <2>1. CASE readings[k].identifier = None
    BY <2>1 DEF IInv, ReadingInv
  <2>2. CASE readings[k].identifier # None
    <3>1. readings[k].identifier \in Disk /\ readings[k].values.at \in Nat
      BY <2>2, NamedReading, OptionAssumption DEF IInv, Values
    <3> QED
      BY <1>2, <2>2, <3>1 DEF IInv, ReadingInv
  <2> QED
    BY <2>1, <2>2
<1>4. EntryInv'
  <2> SUFFICES ASSUME NEW i \in ID, data[i] # None
               PROVE  /\ disk_ids[data[i].spec] = i
                      /\ data[i].identifier \in {None, i}
                      /\ data[i].identifier # None =>
                            /\ data[i].values # None
                            /\ data[i].values.of = i
                            /\ data[i].values.at <= wear'[i]
    BY <1>1 DEF EntryInv
  <2>1. CASE data[i].identifier = None
    BY <2>1 DEF IInv, EntryInv
  <2>2. CASE data[i].identifier # None
    <3>1. i \in Disk /\ data[i].values.at \in Nat
      BY <2>2, NamedEntry, OptionAssumption DEF IInv, Values
    <3> QED
      BY <1>2, <2>2, <3>1 DEF IInv, EntryInv
  <2> QED
    BY <2>1, <2>2
<1>5. MeterInv'
  BY <1>1 DEF IInv, MeterInv
<1> QED
  BY <1>3, <1>4, <1>5

(* A disk that names itself is read with its meter, which the entry shown  *)
(* for it is not ahead of.                                                 *)
LEMMA ReadDiskKeepsIInv ==
    ASSUME IInv, NEW k \in Key, ReadDisk(k)
    PROVE  ReadingInv' /\ EntryInv' /\ MeterInv'
<1>1. PICK r \in GetDisk(k) : readings' = [readings EXCEPT ![k] = r]
  BY DEF ReadDisk
<1>2. /\ readings'[k] = r
      /\ \A j \in Key : j # k => readings'[j] = readings[j]
  BY <1>1 DEF IInv, TypeOK
<1>3. UNCHANGED <<disk_ids, data, wear>>
  BY DEF ReadDisk
<1>4. /\ r.spec = k
      /\ r.identifier # None =>
            /\ r.identifier \in Disk
            /\ r.values = [of |-> r.identifier, at |-> wear[r.identifier]]
  <2>1. CASE r \in {Unreadable(k), Standby(k), Blank(k)}
    BY <2>1 DEF Unreadable, Standby, Blank
  <2>2. CASE attached[k] # None /\ r = Fresh(k, attached[k])
    BY <2>2 DEF Fresh, Identifier, IInv, TypeOK
  <2> QED
    BY <1>1, <2>1, <2>2 DEF GetDisk, Answer, Answer
<1>5. ReadingInv'
  <2> SUFFICES ASSUME NEW j \in Key, readings'[j] # None
               PROVE  /\ readings'[j].spec = j
                      /\ readings'[j].identifier # None =>
                            /\ readings'[j].values # None
                            /\ readings'[j].values.of = readings'[j].identifier
                            /\ readings'[j].values.at <= wear[readings'[j].identifier]
    BY <1>3 DEF ReadingInv
  <2>1. CASE j # k
    BY <1>2, <2>1 DEF IInv, ReadingInv
  <2>2. CASE j = k /\ r.identifier = None
    BY <1>2, <1>4, <2>2
  <2>3. CASE j = k /\ r.identifier # None
    <3>1. wear[r.identifier] \in 0..MaxWear /\ wear[r.identifier] \in Nat
      BY <1>4, <2>3, OptionAssumption DEF IInv, TypeOK
    <3>2. [of |-> r.identifier, at |-> wear[r.identifier]] \in Values
      BY <1>4, <2>3, <3>1 DEF Values
    <3>3. r.values # None
      BY <1>4, <2>3, <3>2, NoneIsNoRecord
    <3> QED
      BY <1>2, <1>4, <2>3, <3>1, <3>3
  <2> QED
    BY <2>1, <2>2, <2>3
<1>6. EntryInv'
  BY <1>3 DEF IInv, EntryInv
<1>7. MeterInv'
  <2> SUFFICES ASSUME NEW j \in Key, NEW i \in ID,
                      readings'[j] # None, readings'[j].identifier = i,
                      data[i] # None, data[i].identifier # None
               PROVE  data[i].values.at <= readings'[j].values.at
    BY <1>3 DEF MeterInv
  <2>1. CASE j # k
    BY <1>2, <2>1 DEF IInv, MeterInv
  <2>2. CASE j = k
    <3>1. i \in Disk /\ i # None
      BY NamedEntry, DiskAssumption DEF IInv
    <3>2. readings'[j].values.at = wear[i]
      BY <1>2, <1>4, <2>2, <3>1
    <3> QED
      BY <3>2 DEF IInv, EntryInv
  <2> QED
    BY <2>1, <2>2
<1> QED
  BY <1>5, <1>6, <1>7

(* The loop files a reading under the name it carries, and remembers the   *)
(* path of every reading it stores.                                        *)
LEMMA PublishKeepsIInv ==
    ASSUME IInv, Publish
    PROVE  ReadingInv' /\ EntryInv' /\ MeterInv'
<1>1. /\ \A k \in Key : readings'[k] = None
      /\ UNCHANGED wear
      /\ \A k \in specs : readings[k] # None
      /\ \A k \in Key : disk_ids'[k] = IF k \in Filed THEN DiskId(k) ELSE disk_ids[k]
      /\ data' = Result
  BY DEF Publish, env
<1>2. ReadingInv' /\ MeterInv'
  BY <1>1 DEF ReadingInv, MeterInv
<1>3. EntryInv'
  <2> SUFFICES ASSUME NEW i \in ID, Result[i] # None
               PROVE  /\ disk_ids'[Result[i].spec] = i
                      /\ Result[i].identifier \in {None, i}
                      /\ Result[i].identifier # None =>
                            /\ Result[i].values # None
                            /\ Result[i].values.of = i
                            /\ Result[i].values.at <= wear[i]
    BY <1>1 DEF EntryInv
  <2>1. PICK k \in Stored : DiskId(k) = i /\ Result[i] = Merge(k)
    BY ResultIsMerge DEF IInv
  <2>2. k \in Key /\ k \in specs /\ k \in Filed
    BY <1>1, StoredType DEF IInv, Stored
  <2>3. disk_ids'[k] = i
    BY <1>1, <2>1, <2>2
  <2>4. readings[k] # None
    BY <1>1, <2>2
  <2>5. Merge(k).spec = k
    BY <1>1, <2>2, <2>4, MergeFields DEF IInv, ReadingInv
  <2>6. CASE Merge(k) = readings[k]
    <3>1. readings[k].identifier # None => readings[k].identifier = i
      BY <2>1 DEF DiskId
    <3> QED
      BY <2>1, <2>2, <2>3, <2>4, <2>5, <2>6, <3>1 DEF IInv, ReadingInv
  <2>7. CASE /\ data[i] # None
             /\ Merge(k).identifier = data[i].identifier
             /\ Merge(k).values = data[i].values
    BY <2>1, <2>3, <2>5, <2>7 DEF IInv, EntryInv
  <2> QED
    BY <1>1, <2>1, <2>6, <2>7, MergeFields DEF IInv
<1> QED
  BY <1>2, <1>3

LEMMA InitIInv == Init => ReadingInv /\ EntryInv /\ MeterInv
BY DEF Init, ReadingInv, EntryInv, MeterInv

LEMMA NextIInv ==
    ASSUME IInv, [Next]_vars
    PROVE  ReadingInv' /\ EntryInv' /\ MeterInv'
<1>1. CASE Environment
  <2>1. ASSUME NEW k \in Key, NEW d \in Disk \cup {None}, Replug(k, d)
        PROVE  ReadingInv' /\ EntryInv' /\ MeterInv'
    BY <2>1, IInvFrame DEF Replug, coord, IInv
  <2>2. ASSUME NEW d \in Disk, FallAsleep(d) \/ WakeUp(d)
        PROVE  ReadingInv' /\ EntryInv' /\ MeterInv'
    BY <2>2, IInvFrame DEF FallAsleep, WakeUp, coord, IInv
  <2>3. ASSUME NEW k \in Key, Fault(k) \/ Repair(k)
        PROVE  ReadingInv' /\ EntryInv' /\ MeterInv'
    BY <2>3, IInvFrame DEF Fault, Repair, coord, IInv
  <2> QED
    BY <1>1, <2>1, <2>2, <2>3, WearKeepsIInv DEF Environment
<1>2. CASE Setup \/ StartPoll \/ (\E why \in Failure : SetupFails(why)) \/ UNCHANGED vars
  BY <1>2, IInvFrame DEF Setup, StartPoll, SetupFails, vars, env, IInv
<1>3. CASE Reads
  BY <1>3, ReadDiskKeepsIInv DEF Reads
<1>4. CASE Publish
  BY <1>4, PublishKeepsIInv
<1>5. ASSUME NEW why \in Failure, PollFails(why)
      PROVE  ReadingInv' /\ EntryInv' /\ MeterInv'
  BY <1>5 DEF PollFails, env, IInv, ReadingInv, EntryInv, MeterInv
<1>6. CASE Reload
  BY <1>6 DEF Reload, env, ReadingInv, EntryInv, MeterInv
<1> QED
  BY <1>1, <1>2, <1>3, <1>4, <1>5, <1>6 DEF Next, Fails

THEOREM Invariance == Spec => []IInv
<1>1. Init => ReadingInv /\ EntryInv /\ MeterInv
  BY InitIInv
<1>2. TypeOK /\ TypeOK' /\ (ReadingInv /\ EntryInv /\ MeterInv) /\ [Next]_vars
        => (ReadingInv /\ EntryInv /\ MeterInv)'
  BY NextIInv DEF IInv
<1> QED
  BY <1>1, <1>2, TypeCorrect, PTL DEF Spec, IInv

(* A path that moved never gives the name or the values of a disk that     *)
(* names itself to the entry of another disk.                              *)
THEOREM EntriesOwned == Spec => []OwnEntry
<1>1. IInv => OwnEntry
  <2> SUFFICES ASSUME IInv, NEW i \in ID, data[i] # None
               PROVE  /\ data[i].identifier \in {None, i}
                      /\ data[i].identifier = i /\ data[i].values # None
                            => data[i].values.of = i
    BY DEF OwnEntry
  <2>1. i # None
    BY DiskAssumption, IdAssumption DEF ID
  <2> QED
    BY <2>1 DEF IInv, EntryInv
<1> QED
  BY <1>1, Invariance, PTL

(* No two entries share a device path.                                     *)
THEOREM PathsDisjoint == Spec => []OnePathPerEntry
<1>1. IInv => OnePathPerEntry
  BY DEF IInv, EntryInv, OnePathPerEntry
<1> QED
  BY <1>1, Invariance, PTL

(* As long as a disk names itself, its published meter never falls.        *)
THEOREM MeterIsMonotone == Spec => MeterMonotone
<1>1. IInv /\ [Next]_vars => [MeterNeverFalls]_vars
  <2> SUFFICES ASSUME IInv, [Next]_vars, ~UNCHANGED vars PROVE MeterNeverFalls
    OBVIOUS
  <2> SUFFICES ASSUME NEW i \in ID, data[i] # None, data'[i] # None,
                      data[i].identifier # None, data'[i].identifier # None
               PROVE  data[i].values.at <= data'[i].values.at
    BY DEF MeterNeverFalls
  <2>1. data[i].values.at \in Nat
    BY NamedEntry, OptionAssumption DEF IInv, Values
  <2>2. CASE UNCHANGED data
    BY <2>1, <2>2
  <2>3. CASE Publish
    <3>1. PICK k \in Stored : DiskId(k) = i /\ data'[i] = Merge(k)
      BY <2>3, ResultIsMerge DEF IInv, Publish
    <3>2. \A j \in specs : readings[j] # None
      BY <2>3 DEF Publish
    <3>3. k \in Key /\ readings[k] # None
      BY <3>2, StoredType DEF IInv
    <3>4. CASE Merge(k) = readings[k]
      <4>1. readings[k].identifier = i
        BY <3>1, <3>4 DEF DiskId
      <4> QED
        BY <3>1, <3>3, <3>4, <4>1 DEF IInv, MeterInv
    <3>5. CASE Merge(k).values = data[i].values
      BY <2>1, <3>1, <3>5
    <3> QED
      BY <3>1, <3>2, <3>4, <3>5, MergeFields DEF IInv
  <2>4. CASE Reload
    BY <2>4 DEF Reload
  <2> QED
    BY <2>2, <2>3, <2>4 DEF Next, Environment, Replug, FallAsleep, WakeUp, Wear, Fault,
       Repair, Setup, SetupFails, StartPoll, Reads, ReadDisk, Fails, PollFails, coord
<1> QED
  BY <1>1, Invariance, PTL DEF Spec, MeterMonotone

-----------------------------------------------------------------------------
(* Errors and sleep neither remove a disk nor blank it.                    *)

(* Every reading without a name is kept, and of those with one name, one.  *)
LEMMA SomeKept ==
    ASSUME TypeOK, NEW k \in specs, NEW i \in Disk, readings[k].identifier = i
    PROVE  \E j \in Kept : readings[j].identifier = i
<1> DEFINE Same == {j \in specs : readings[j].identifier = i}
<1>1. Same \in SUBSET Key /\ Same # {}
  BY DEF TypeOK
<1>2. PICK j \in Same : \A l \in Same : j <= l
  BY <1>1, KeyAssumption
<1>3. \A l \in specs : l < j => readings[l].identifier # i
  <2> SUFFICES ASSUME NEW l \in specs, l < j, readings[l].identifier = i PROVE FALSE
    OBVIOUS
  <2>1. l \in Same /\ l \in Nat /\ j \in Nat
    BY <1>1, <1>2, KeyAssumption
  <2>2. j <= l
    BY <1>2, <2>1
  <2> QED
    BY <2>1, <2>2
<1> QED
  BY <1>2, <1>3 DEF Kept

(* A poll that listed the path of an entry, and on which no other disk     *)
(* named itself there, still shows the entry.                              *)
THEOREM ListedDisksStay == Spec => ErrorsKeepDisks
<1>1. IInv /\ [Next]_vars => [Publish => ListedStays]_vars
  <2> SUFFICES ASSUME IInv, Publish, NEW i \in ID, data[i] # None,
                      data[i].spec \in specs,
                      readings[data[i].spec].identifier \in {None, i}
               PROVE  data'[i] # None
    BY DEF ListedStays
  <2> DEFINE k == data[i].spec
  <2>1. disk_ids[k] = i /\ i # None
    BY DiskAssumption, IdAssumption DEF IInv, EntryInv, ID
  <2>2. \A j \in specs : readings[j] # None
    BY DEF Publish
  <2>3. \E j \in Kept : DiskId(j) = i
    <3>1. CASE readings[k].identifier = None
      BY <2>1, <3>1 DEF Kept, DiskId
    <3>2. CASE readings[k].identifier = i
      <4>1. readings[k] \in DiskData
        BY <2>2 DEF IInv, TypeOK
      <4>2. i \in Disk
        BY <2>1, <3>2, <4>1 DEF DiskData
      <4> QED
        BY <2>1, <3>2, <4>2, SomeKept DEF IInv, DiskId
    <3> QED
      BY <3>1, <3>2
  <2>4. StoredAs(i) # {}
    BY <2>1, <2>3 DEF StoredAs, Stored, Filed
  <2>5. StoredAs(i) \in SUBSET Key
    BY DEF StoredAs, Stored, Filed, Kept, IInv, TypeOK
  <2>6. Last(StoredAs(i)) \in StoredAs(i)
    BY <2>4, <2>5, KeyAssumption DEF Last
  <2>7. Merge(Last(StoredAs(i))) \in DiskData
    BY <2>2, <2>6, MergeFields DEF IInv, StoredAs
  <2>8. data'[i] = Merge(Last(StoredAs(i)))
    BY <2>4 DEF Publish, Result
  <2> QED
    BY <2>7, <2>8, NoneIsNoRecord
<1> QED
  BY <1>1, Invariance, PTL DEF Spec, ErrorsKeepDisks

(* Without truncated output, a reading that is neither in standby nor an   *)
(* error has values.                                                       *)
ReadInv == \A k \in Key : readings[k] # None =>
              readings[k].standby \/ readings[k].error \/ readings[k].values # None

LEMMA ReadInvariance == ASSUME ~Garbles PROVE Spec => []ReadInv
<1>1. Init => ReadInv
  BY DEF Init, ReadInv
<1>2. TypeOK /\ ReadInv /\ [Next]_vars => ReadInv'
  <2> SUFFICES ASSUME TypeOK, ReadInv, [Next]_vars PROVE ReadInv'
    OBVIOUS
  <2>1. ASSUME NEW k \in Key, ReadDisk(k) PROVE ReadInv'
    <3>1. PICK r \in GetDisk(k) : readings' = [readings EXCEPT ![k] = r]
      BY <2>1 DEF ReadDisk
    <3>2. r.standby \/ r.error \/ r.values # None
      <4>1. CASE r \in {Unreadable(k), Standby(k)}
        BY <4>1 DEF Unreadable, Standby
      <4>2. CASE attached[k] # None /\ r = Fresh(k, attached[k])
        <5> DEFINE v == [of |-> attached[k], at |-> wear[attached[k]]]
        <5>1. v \in Values
          BY <4>2 DEF TypeOK, Values
        <5>2. r.values = v
          BY <4>2 DEF Fresh
        <5> QED
          BY <5>1, <5>2, NoneIsNoRecord
      <4> QED
        BY <3>1, <4>1, <4>2 DEF GetDisk, Answer, Answer
    <3> QED
      BY <3>1, <3>2 DEF TypeOK, ReadInv
  <2>2. CASE UNCHANGED readings
    BY <2>2 DEF ReadInv
  <2>3. CASE Publish \/ Reload \/ \E why \in Failure : PollFails(why)
    BY <2>3 DEF Publish, Reload, PollFails, ReadInv
  <2> QED
    BY <2>1, <2>2, <2>3 DEF Next, Environment, Replug, FallAsleep, WakeUp, Wear, Fault,
       Repair, Setup, SetupFails, StartPoll, Reads, Fails, coord, vars
<1> QED
  BY <1>1, <1>2, TypeCorrect, PTL DEF Spec

(* Without truncated output, values once shown are not blanked.            *)
THEOREM ValuesAreKept == ASSUME ~Garbles PROVE Spec => ValuesKept
<1>1. TypeOK /\ ReadInv /\ [Next]_vars => [Publish => ValuesStay]_vars
  <2> SUFFICES ASSUME TypeOK, ReadInv, Publish, NEW i \in ID,
                      data[i] # None, data[i].values # None, data'[i] # None
               PROVE  data'[i].values # None
    BY DEF ValuesStay
  <2>1. PICK k \in Stored : DiskId(k) = i /\ data'[i] = Merge(k)
    BY ResultIsMerge DEF Publish
  <2>2. \A j \in specs : readings[j] # None
    BY DEF Publish
  <2>3. k \in Key /\ readings[k] # None
    BY <2>2, StoredType
  <2>4. CASE readings[k].standby \/ readings[k].error
    <3>1. data[i] \in DiskData
      BY DEF TypeOK
    <3>2. \/ Merge(k) = [data[i] EXCEPT !.spec = k, !.standby = TRUE, !.error = FALSE]
          \/ Merge(k) = [data[i] EXCEPT !.spec = k, !.error = TRUE]
      BY <2>1, <2>4 DEF Merge
    <3>3. Merge(k).values = data[i].values
      BY <3>1, <3>2 DEF DiskData
    <3> QED
      BY <2>1, <3>3
  <2>5. CASE ~readings[k].standby /\ ~readings[k].error
    <3>1. Merge(k) = readings[k]
      BY <2>1, <2>5 DEF Merge
    <3> QED
      BY <2>1, <2>3, <2>5, <3>1 DEF ReadInv
  <2> QED
    BY <2>4, <2>5
<1> QED
  BY <1>1, TypeCorrect, ReadInvariance, PTL DEF Spec, ValuesKept
=============================================================================
