---------------------- MODULE TimeSynchronizationProofs ----------------------
(***************************************************************************)
(* The Time Synchronization server for every time zone, table, source and  *)
(* delay of the handlers, through restarts: what its events tell, and that *)
(* the attributes agree.  TimeInvariant is inductive: the entries of the   *)
(* DST table are in order, each over when the next one starts, and Filter  *)
(* keeps that order when entries expire.                                   *)
(***************************************************************************)
EXTENDS TimeSynchronization, FilteringProofs

\* The entries of TimeZone: those of commands, that of addRootNodeCamera and the
\* entry in use, whose ValidAt was cleared.
KnownEntries ==
    {[offset |-> z.offset, name |-> z.name, validAt |-> t] :
        z \in Zones \cup {Utc}, t \in MatterEpoch..MaxTime}

\* While a second time zone is scheduled the last event reported one of the two:
\* the second, when it was due as the list was set.
ZoneReported ==
    \/ /\ Len(timeZone) = 1
       /\ reportedZone = ZoneOf(timeZone[1])
    \/ /\ Len(timeZone) = 2
       /\ timeZone[2] \in KnownEntries
       /\ reportedZone \in {ZoneOf(timeZone[1]), ZoneOf(timeZone[2])}

OthersReported ==
    /\ dstOffset = <<>> => reportedTableEmpty
    /\ trustedTimeSource = Null => reportedMissing

ReportInvariant == ZoneReported /\ OthersReported

\* A list SetTimeZone accepts has one or two entries.
LEMMA AcceptedTimeZones ==
    ASSUME NEW zones \in ListsUpTo(TimeZoneListMaxSize, TimeZoneEntries),
           SetTimeZoneStatus(zones) = "Success"
    PROVE  /\ Len(zones) \in {1, 2}
           /\ Len(zones) = 2 => zones[2] \in KnownEntries
<1>1. PICK k \in 0..TimeZoneListMaxSize : zones \in [1..k -> TimeZoneEntries]
  BY DEF ListsUpTo
<1>2. k \in Nat /\ k <= 2
  BY <1>1, TimeAssumption
<1>3. zones \in Seq(TimeZoneEntries) /\ Len(zones) = k
  BY <1>1, <1>2
<1>4. k # 0
  <2> SUFFICES ASSUME k = 0 PROVE FALSE
    OBVIOUS
  <2>1. zones = <<>>
    BY <1>3
  <2> QED BY <2>1, <1>3, TimeAssumption DEF SetTimeZoneStatus
<1>5. TimeZoneEntries \subseteq KnownEntries
  BY DEF TimeZoneEntries, KnownEntries
<1>6. k = 2 => zones[2] \in TimeZoneEntries
  BY <1>1
<1> QED BY <1>2, <1>3, <1>4, <1>5, <1>6

\* The zone of an entry is that of the entry in use it becomes.
LEMMA ZoneOfEntryInUse ==
    ASSUME NEW entry \in KnownEntries
    PROVE  ZoneOf([entry EXCEPT !.validAt = MatterEpoch]) = ZoneOf(entry)
<1>1. PICK z \in Zones \cup {Utc}, t \in MatterEpoch..MaxTime :
          entry = [offset |-> z.offset, name |-> z.name, validAt |-> t]
  BY DEF KnownEntries
<1> QED BY <1>1 DEF ZoneOf

\* The refresh of the clock, every second and when the node starts.
LEMMA RefreshReports ==
    ASSUME ReportInvariant, NEW wasActive, NEW now, NEW t1, NEW t2,
           RefreshClock(wasActive, now, t1, t2), UNCHANGED sourceVars
    PROVE  ReportInvariant'
<1>1. ApplyScheduledTimeZone(now) /\ RemoveExpiredDstOffsets(now)
  BY DEF RefreshClock
<1>2. ZoneReported'
  <2>1. CASE UNCHANGED <<timeZone, reportedZone>>
    BY <2>1 DEF ReportInvariant, ZoneReported
  <2>2. ASSUME Len(timeZone) > 1,
               timeZone' = <<[timeZone[2] EXCEPT !.validAt = MatterEpoch]>>,
               reportedZone' = IF ZoneChanges THEN ZoneOf(timeZone[2]) ELSE reportedZone
        PROVE  ZoneReported'
    <3>1. Len(timeZone) = 2
      BY <2>2 DEF ReportInvariant, ZoneReported
    <3>2. timeZone[2] \in KnownEntries /\ reportedZone \in {ZoneOf(timeZone[1]), ZoneOf(timeZone[2])}
      BY <3>1 DEF ReportInvariant, ZoneReported
    <3>3. reportedZone' = ZoneOf(timeZone[2])
      BY <2>2, <3>2 DEF ZoneChanges
    <3>4. Len(timeZone') = 1 /\ timeZone'[1] = [timeZone[2] EXCEPT !.validAt = MatterEpoch]
      BY <2>2
    <3>5. ZoneOf(timeZone'[1]) = ZoneOf(timeZone[2])
      BY <3>2, <3>4, ZoneOfEntryInUse
    <3> QED BY <3>3, <3>4, <3>5 DEF ZoneReported, ZoneOf
  <2> QED BY <1>1, <2>1, <2>2 DEF ApplyScheduledTimeZone
<1>3. dstOffset' = <<>> => reportedTableEmpty'
  BY <1>1 DEF RemoveExpiredDstOffsets, ReportInvariant, OthersReported
<1> QED BY <1>2, <1>3 DEF ReportInvariant, OthersReported, sourceVars

\* SetTimeZone reports the zone in use, and the table it empties.
LEMMA SetTimeZoneReports ==
    ASSUME ReportInvariant, NEW zones \in ListsUpTo(TimeZoneListMaxSize, TimeZoneEntries),
           SetTimeZone(zones)
    PROVE  ReportInvariant'
<1>1. Len(zones) \in {1, 2} /\ (Len(zones) = 2 => zones[2] \in KnownEntries)
  BY AcceptedTimeZones DEF SetTimeZone
<1>2. PICK now : reportedZone' = ZoneOf(ActiveTimeZone(zones, now))
  BY DEF SetTimeZone
<1>3. \/ ActiveTimeZone(zones, now) = zones[1]
      \/ Len(zones) = 2 /\ ActiveTimeZone(zones, now) = zones[2]
  BY <1>1 DEF ActiveTimeZone
<1>4. timeZone' = zones /\ reportedTableEmpty' /\ UNCHANGED <<trustedTimeSource, reportedMissing>>
  BY DEF SetTimeZone, sourceVars
<1>5. ZoneReported'
  BY <1>1, <1>2, <1>3, <1>4 DEF ZoneReported, ZoneOf
<1> QED BY <1>4, <1>5 DEF ReportInvariant, OthersReported

\* The commands that leave the time zones alone, the reaction to removed fabrics,
\* the end of the process and the passing of time.
LEMMA OthersReport ==
    ASSUME ReportInvariant,
           \/ \E table : SetDstOffset(table)
           \/ \E fabric \in FabricIndexes \cup {Null}, source \in TimeSources \cup {Null} :
                  SetTrustedTimeSource(fabric, source)
           \/ \E address : SetDefaultNtp(address)
           \/ \E fabrics : HandleFabricsChangedTime(fabrics)
           \/ Dispose \/ Tick
           \/ UNCHANGED timeVars
    PROVE  ReportInvariant'
<1>1. UNCHANGED <<timeZone, reportedZone>>
  BY DEF SetDstOffset, SetTrustedTimeSource, SetDefaultNtp, HandleFabricsChangedTime, Dispose,
     Tick, timeVars, tableVars
<1>2. ZoneReported'
  BY <1>1 DEF ReportInvariant, ZoneReported, ZoneOf
<1>3. dstOffset' = <<>> => reportedTableEmpty'
  BY DEF ReportInvariant, OthersReported, SetDstOffset, SetTrustedTimeSource, SetDefaultNtp,
     HandleFabricsChangedTime, Dispose, Tick, timeVars, tableVars
<1>4. trustedTimeSource' = Null => reportedMissing'
  <2>1. ASSUME NEW fabric \in FabricIndexes \cup {Null}, NEW source \in TimeSources \cup {Null},
               SetTrustedTimeSource(fabric, source), source # Null
        PROVE  trustedTimeSource' # Null
    <3>1. trustedTimeSource' = [fabricIndex |-> fabric, node |-> source] /\ fabric # Null
      BY <2>1 DEF SetTrustedTimeSource
    <3> QED BY <2>1, <3>1, TimeAssumption DEF FabricIndexes
  <2>2. ASSUME NEW fabric \in FabricIndexes \cup {Null}, NEW source \in TimeSources \cup {Null},
               SetTrustedTimeSource(fabric, source)
        PROVE  trustedTimeSource' = Null => reportedMissing'
    BY <2>1, <2>2 DEF SetTrustedTimeSource, ClearTrustedTimeSource
  <2> QED BY <2>2 DEF ReportInvariant, OthersReported, SetDstOffset, SetDefaultNtp,
          HandleFabricsChangedTime, ClearTrustedTimeSource, Dispose, Tick, timeVars, sourceVars
<1> QED BY <1>2, <1>3, <1>4 DEF ReportInvariant, OthersReported

\* A subscriber who only follows the events is right about the time zone in use,
\* an empty DST table and a missing time source, also after a restart.
THEOREM TablesAlwaysReported == Spec => []TablesReported
<1>1. Init => ReportInvariant
  <2> SUFFICES ASSUME Init PROVE ReportInvariant
    OBVIOUS
  <2>1. Len(timeZone) = 1 /\ ZoneOf(timeZone[1]) = Utc /\ reportedZone = Utc
    BY DEF Init, ZoneOf, Utc
  <2>2. reportedTableEmpty /\ reportedMissing
    BY DEF Init
  <2> QED BY <2>1, <2>2 DEF ReportInvariant, ZoneReported, OthersReported
<1>2. ReportInvariant /\ [Next]_timeVars => ReportInvariant'
  <2> SUFFICES ASSUME ReportInvariant, [Next]_timeVars PROVE ReportInvariant'
    OBVIOUS
  <2>1. CASE UpdateClock
    BY <2>1, RefreshReports DEF UpdateClock
  <2>2. CASE Initialize
    BY <2>2, RefreshReports DEF Initialize
  <2> QED BY <2>1, <2>2, SetTimeZoneReports, OthersReport DEF Next
<1>3. ReportInvariant => TablesReported
  BY DEF ReportInvariant, ZoneReported, OthersReported, TablesReported
<1> QED BY <1>1, <1>2, <1>3, PTL DEF Spec

(***************************************************************************)
(* The attributes                                                          *)
(***************************************************************************)

\* A TimeZone list: an entry in use, and at most one scheduled after it.
IsZoneList(zones) ==
    /\ zones \in Seq(KnownEntries)
    /\ Len(zones) \in 1..TimeZoneListMaxSize
    /\ \A i \in DOMAIN zones : zones[i].validAt = MatterEpoch <=> i = 1

\* An entry is over by the time a later one starts.
Follows(earlier, later) ==
    /\ earlier.validUntil # Null
    /\ earlier.validUntil <= later.validStarting

InOrder(table) == \A i, j \in DOMAIN table : i < j => Follows(table[i], table[j])

IsDstTable(table) ==
    /\ table \in Seq(DstEntries)
    /\ Len(table) <= DstOffsetListMaxSize
    /\ InOrder(table)

TimesTypeOK ==
    /\ clock \in 0..MaxTime /\ online \in BOOLEAN
    /\ utcTime \in 0..MaxTime \cup {Null} /\ localTime \in Int \cup {Null}

FlagsTypeOK ==
    /\ dstActive \in BOOLEAN /\ reportedDst \in BOOLEAN
    /\ reportedTableEmpty \in BOOLEAN /\ reportedMissing \in BOOLEAN

TimeInvariant ==
    /\ TimesTypeOK /\ FlagsTypeOK
    /\ IsZoneList(timeZone) /\ IsDstTable(dstOffset)
    /\ SynchronizedOnline

\* What an entry of TimeZone is made of.
LEMMA KnownEntryType ==
    ASSUME NEW entry \in KnownEntries
    PROVE  /\ ZoneOf(entry) \in Zones \cup {Utc}
           /\ entry.offset \in Int /\ entry.validAt \in 0..MaxTime
           /\ [entry EXCEPT !.validAt = MatterEpoch] \in KnownEntries
           /\ [entry EXCEPT !.validAt = MatterEpoch].validAt = MatterEpoch
<1>1. PICK z \in Zones \cup {Utc}, t \in MatterEpoch..MaxTime :
          entry = [offset |-> z.offset, name |-> z.name, validAt |-> t]
  BY DEF KnownEntries
<1>2. z.offset \in Int /\ z = [offset |-> z.offset, name |-> z.name]
  BY TimeAssumption DEF Utc
<1>3. ZoneOf(entry) = z
  BY <1>1, <1>2 DEF ZoneOf
<1>4. [entry EXCEPT !.validAt = MatterEpoch]
          = [offset |-> z.offset, name |-> z.name, validAt |-> MatterEpoch]
  BY <1>1
<1>5. MatterEpoch \in MatterEpoch..MaxTime
  BY TimeAssumption DEF MatterEpoch
<1>6. [entry EXCEPT !.validAt = MatterEpoch] \in KnownEntries
  BY <1>4, <1>5 DEF KnownEntries
<1>7. entry.validAt \in 0..MaxTime /\ entry.offset \in Int
  BY <1>1, <1>2 DEF MatterEpoch
<1> QED BY <1>1, <1>3, <1>4, <1>6, <1>7

\* The lists SetTimeZone accepts are lists of time zones.
LEMMA AcceptedIsZoneList ==
    ASSUME NEW zones \in ListsUpTo(TimeZoneListMaxSize, TimeZoneEntries),
           SetTimeZoneStatus(zones) = "Success"
    PROVE  IsZoneList(zones)
<1>1. PICK k \in 0..TimeZoneListMaxSize : zones \in [1..k -> TimeZoneEntries]
  BY DEF ListsUpTo
<1>2. k \in Nat /\ k <= 2
  BY <1>1, TimeAssumption
<1>3. zones \in Seq(TimeZoneEntries) /\ Len(zones) = k /\ DOMAIN zones = 1..k
  BY <1>1, <1>2
<1>4. TimeZoneEntries \subseteq KnownEntries
  BY DEF TimeZoneEntries, KnownEntries
<1>5. zones \in Seq(KnownEntries)
  BY <1>3, <1>4
<1>6. Len(zones) \in {1, 2}
  BY AcceptedTimeZones
<1>7. zones[1].validAt = MatterEpoch /\ (Len(zones) > 1 => zones[2].validAt # MatterEpoch)
  BY DEF SetTimeZoneStatus
<1>8. ASSUME NEW i \in DOMAIN zones PROVE zones[i].validAt = MatterEpoch <=> i = 1
  <2>1. i = 1 \/ (i = 2 /\ Len(zones) > 1)
    BY <1>2, <1>3
  <2> QED BY <1>7, <2>1
<1> QED BY <1>1, <1>2, <1>3, <1>5, <1>6, <1>8 DEF IsZoneList

\* The entry in use of a list is one of the list.
LEMMA ActiveTimeZoneType ==
    ASSUME NEW zones, IsZoneList(zones), NEW now
    PROVE  ActiveTimeZone(zones, now) \in KnownEntries
<1>1. zones \in Seq(KnownEntries) /\ Len(zones) \in Nat /\ Len(zones) >= 1
  BY TimeAssumption DEF IsZoneList
<1>2. zones[1] \in KnownEntries /\ (Len(zones) > 1 => zones[2] \in KnownEntries)
  BY <1>1
<1> QED BY <1>2 DEF ActiveTimeZone

\* The offset in use is one of the table or 0: a number.
LEMMA ActiveDstOffsetType ==
    ASSUME NEW table \in Seq(DstEntries), NEW now
    PROVE  ActiveDstOffset(table, now) \in Int
<1> DEFINE valid == {i \in DOMAIN table : ValidDst(table[i], now)}
           first == CHOOSE i \in valid : \A j \in valid : i <= j
<1>1. CASE valid = {}
  BY <1>1 DEF ActiveDstOffset
<1>2. CASE valid # {}
  <2>1. valid \subseteq Nat
    OBVIOUS
  <2>2. first \in valid
    <3> HIDE DEF valid
    <3>1. \E i \in valid : \A j \in valid : i <= j
      BY <1>2, <2>1, LeastElement
    <3> QED BY <3>1
  <2>3. first \in DOMAIN table
    <3> HIDE DEF first
    <3> QED BY <2>2
  <2>4. table[first] \in DstEntries
    <3> HIDE DEF first
    <3> QED BY <2>3
  <2>5. table[first].offset \in DstOffsets
    <3> HIDE DEF first
    <3> QED BY <2>4 DEF DstEntries
  <2>6. ActiveDstOffset(table, now) = table[first].offset
    BY <1>2 DEF ActiveDstOffset
  <2> HIDE DEF first
  <2> QED BY <2>5, <2>6, TimeAssumption
<1> QED BY <1>1, <1>2

\* LocalTime is null exactly while the table is empty, and a number otherwise.
LEMMA LocalTimeType ==
    ASSUME NEW now \in Int, NEW later, UpdateLocalTime(now, later),
           IsZoneList(timeZone'), IsDstTable(dstOffset')
    PROVE  /\ localTime' \in Int \cup {Null}
           /\ localTime' = Null <=> dstOffset' = <<>>
<1>1. ActiveTimeZone(timeZone', now).offset \in Int
  BY ActiveTimeZoneType, KnownEntryType
<1>2. ActiveDstOffset(dstOffset', later) \in Int
  BY ActiveDstOffsetType DEF IsDstTable
<1>3. now + ActiveTimeZone(timeZone', now).offset + ActiveDstOffset(dstOffset', later) \in Int
  BY <1>1, <1>2
<1> QED BY <1>3, TimeAssumption DEF UpdateLocalTime

\* Entries each over when the next one starts are in order.
LEMMA AcceptedIsDstTable ==
    ASSUME NEW table \in ListsUpTo(DstOffsetListMaxSize, DstEntries),
           SetDstOffsetStatus(table) = "Success"
    PROVE  IsDstTable(table)
<1>1. PICK n \in 0..DstOffsetListMaxSize : table \in [1..n -> DstEntries]
  BY DEF ListsUpTo
<1>2. n \in Nat /\ n <= DstOffsetListMaxSize
  BY TimeAssumption
<1>3. table \in Seq(DstEntries) /\ Len(table) = n /\ DOMAIN table = 1..n
  BY <1>1, <1>2
<1>4. ASSUME NEW i \in 1..n
      PROVE  /\ table[i].validStarting \in Int
             /\ table[i].validUntil # Null => table[i].validUntil \in Int
  <2>1. table[i] \in DstEntries
    BY <1>1
  <2> QED BY <2>1 DEF DstEntries, MatterEpoch
<1>5. ASSUME NEW i \in 1..n
      PROVE  /\ i # n => table[i].validUntil # Null /\ table[i].validUntil > table[i].validStarting
             /\ ~Overlaps(table, i)
  BY <1>2, <1>3, <1>4 DEF SetDstOffsetStatus
<1>6. ASSUME NEW i \in 1..n, i + 1 \in 1..n PROVE Follows(table[i], table[i + 1])
  <2>1. ~Overlaps(table, i + 1) /\ table[i].validUntil # Null
    BY <1>2, <1>5, <1>6
  <2>2. (i + 1) - 1 = i /\ i + 1 > 1
    OBVIOUS
  <2>3. ~(table[i + 1].validStarting < table[i].validUntil)
    BY <2>1, <2>2 DEF Overlaps
  <2> QED BY <1>4, <1>6, <2>1, <2>3 DEF Follows
<1>7. ASSUME NEW i \in 1..n,
             {j \in 1..n : i < j /\ ~Follows(table[i], table[j])} # {}
      PROVE  FALSE
  <2> DEFINE Disordered == {j \in 1..n : i < j /\ ~Follows(table[i], table[j])}
  <2>1. Disordered \subseteq Nat
    OBVIOUS
  <2>2. PICK j \in Disordered : \A l \in Disordered : j <= l
    <3> HIDE DEF Disordered
    <3> QED BY <1>7, <2>1, LeastElement DEF Disordered
  <2>3. j \in 1..n /\ i < j /\ ~Follows(table[i], table[j])
    BY <2>2
  <2>4. j # i + 1
    BY <1>6, <2>3
  <2>5. j - 1 \in 1..n /\ i < j - 1 /\ j - 1 # n /\ j - 1 < j /\ (j - 1) + 1 = j
    BY <1>2, <2>3, <2>4
  <2>6. j - 1 \notin Disordered
    <3> HIDE DEF Disordered
    <3> QED BY <2>2, <2>3, <2>5
  <2>7. Follows(table[i], table[j - 1])
    BY <2>5, <2>6
  <2>8. Follows(table[j - 1], table[j])
    BY <1>6, <2>3, <2>5
  <2>9. table[j - 1].validUntil # Null /\ table[j - 1].validUntil > table[j - 1].validStarting
    BY <1>5, <2>5
  <2> QED BY <1>4, <2>3, <2>5, <2>7, <2>8, <2>9 DEF Follows
<1>8. InOrder(table)
  BY <1>3, <1>7 DEF InOrder
<1> QED BY <1>2, <1>3, <1>8 DEF IsDstTable

\* The entries that have not expired are a table.
LEMMA FilteredIsDstTable ==
    ASSUME NEW table, IsDstTable(table), NEW kept \in SUBSET (DOMAIN table)
    PROVE  IsDstTable(Filter(table, kept))
<1> DEFINE left == Filter(table, kept)
<1>1. table \in Seq(DstEntries) /\ Len(table) \in Nat
  BY DEF IsDstTable
<1>2. left \in Seq(DstEntries) /\ Len(left) <= Len(table) /\ Len(left) \in Nat
  BY <1>1, FilterType
<1>3. ASSUME NEW i \in DOMAIN left, NEW j \in DOMAIN left, i < j
      PROVE  Follows(left[i], left[j])
  <2>1. /\ Position(kept, i) \in kept /\ left[i] = table[Position(kept, i)]
        /\ Position(kept, j) \in kept /\ left[j] = table[Position(kept, j)]
    BY <1>1, FilterKeeps
  <2>2. Position(kept, i) < Position(kept, j)
    BY <1>1, <1>3, FilterKeepsOrder
  <2> QED BY <2>1, <2>2 DEF IsDstTable, InOrder
<1>4. Len(left) <= DstOffsetListMaxSize
  BY <1>1, <1>2, TimeAssumption DEF IsDstTable
<1> HIDE DEF left
<1>5. IsDstTable(left)
  BY <1>2, <1>3, <1>4 DEF IsDstTable, InOrder
<1> QED BY <1>5 DEF left

\* A scheduled time zone that is due becomes the only one.
LEMMA ApplyKeepsZoneList ==
    ASSUME IsZoneList(timeZone), NEW now, ApplyScheduledTimeZone(now)
    PROVE  IsZoneList(timeZone')
<1>1. CASE UNCHANGED timeZone
  BY <1>1
<1>2. CASE /\ Len(timeZone) > 1
           /\ timeZone' = <<[timeZone[2] EXCEPT !.validAt = MatterEpoch]>>
  <2>1. timeZone \in Seq(KnownEntries) /\ Len(timeZone) \in Nat
    BY DEF IsZoneList
  <2>2. timeZone[2] \in KnownEntries
    BY <1>2, <2>1
  <2> DEFINE entry == [timeZone[2] EXCEPT !.validAt = MatterEpoch]
  <2>3. entry \in KnownEntries /\ entry.validAt = MatterEpoch
    BY <2>2, KnownEntryType
  <2> HIDE DEF entry
  <2>4. <<entry>> \in Seq(KnownEntries) /\ Len(<<entry>>) = 1 /\ DOMAIN <<entry>> = {1}
    BY <2>3
  <2>5. <<entry>>[1] = entry
    OBVIOUS
  <2>6. 1 \in 1..TimeZoneListMaxSize
    BY TimeAssumption
  <2>7. IsZoneList(<<entry>>)
    BY <2>3, <2>4, <2>5, <2>6 DEF IsZoneList
  <2> QED BY <1>2, <2>7 DEF entry
<1> QED BY <1>1, <1>2 DEF ApplyScheduledTimeZone

\* The readings of a handler are times.
LEMMA ReadingsAreTimes ==
    ASSUME TimesTypeOK
    PROVE  \A t \in Readings : t \in 0..MaxTime /\ clock <= t
  BY TimeAssumption DEF TimesTypeOK, Readings

\* An offset applies or not.
LEMMA DstAppliesType ==
    ASSUME NEW table, NEW now PROVE DstApplies(table, now) \in BOOLEAN
  BY DEF DstApplies

\* The last DSTStatus event stays a boolean.
LEMMA ReportDstStatusType ==
    ASSUME FlagsTypeOK, NEW wasActive \in BOOLEAN, NEW now, ReportDstStatus(wasActive, now)
    PROVE  reportedDst' \in BOOLEAN
  BY DEF FlagsTypeOK, ReportDstStatus

\* The refresh of the clock.
LEMMA RefreshKeepsAttributes ==
    ASSUME TimeInvariant, NEW wasActive \in BOOLEAN,
           NEW now \in Readings, NEW t1 \in Readings, NEW t2 \in Readings, NEW t3 \in Readings,
           RefreshClock(wasActive, now, t1, t2), dstActive' = DstApplies(dstOffset', t3),
           clock' \in Readings, online' \in BOOLEAN, UNCHANGED sourceVars
    PROVE  TimeInvariant'
<1>1. IsZoneList(timeZone')
  BY ApplyKeepsZoneList DEF TimeInvariant, RefreshClock
<1>2. IsDstTable(dstOffset')
  <2>1. Unexpired(dstOffset, now) \in SUBSET (DOMAIN dstOffset)
    BY DEF Unexpired
  <2> QED BY <2>1, FilteredIsDstTable DEF TimeInvariant, RefreshClock, RemoveExpiredDstOffsets
<1>3. now \in 0..MaxTime /\ clock' \in 0..MaxTime
  BY ReadingsAreTimes DEF TimeInvariant
<1>4. UpdateLocalTime(now, t2) /\ utcTime' = now
  BY DEF RefreshClock
<1>5. localTime' \in Int \cup {Null} /\ (localTime' = Null <=> dstOffset' = <<>>)
  BY <1>1, <1>2, <1>3, <1>4, LocalTimeType
<1>6. TimesTypeOK' /\ SynchronizedOnline'
  BY <1>3, <1>4, <1>5, TimeAssumption DEF TimesTypeOK, SynchronizedOnline
<1>7. FlagsTypeOK'
  <2>1. reportedDst' \in BOOLEAN
    BY ReportDstStatusType DEF RefreshClock, TimeInvariant
  <2>2. reportedTableEmpty' \in BOOLEAN
    BY DEF RefreshClock, RemoveExpiredDstOffsets, TimeInvariant, FlagsTypeOK
  <2>3. dstActive' \in BOOLEAN
    BY DstAppliesType
  <2> QED BY <2>1, <2>2, <2>3 DEF FlagsTypeOK, TimeInvariant, sourceVars
<1> QED BY <1>1, <1>2, <1>6, <1>7 DEF TimeInvariant

\* SetTimeZone and SetDSTOffset replace a list and update LocalTime last.
LEMMA SetListKeepsAttributes ==
    ASSUME TimeInvariant, IsZoneList(timeZone'), IsDstTable(dstOffset'),
           reportedTableEmpty' \in BOOLEAN, UNCHANGED <<online, utcTime, sourceVars>>,
           NEW now \in Readings, NEW t1 \in Readings, NEW t2 \in Readings,
           ReportDstStatus(dstActive, t1), dstActive' = DstApplies(dstOffset', t1),
           UpdateLocalTime(now, t2), clock' = t2
    PROVE  TimeInvariant'
<1>1. now \in 0..MaxTime /\ clock' \in 0..MaxTime
  BY ReadingsAreTimes DEF TimeInvariant
<1>2. localTime' \in Int \cup {Null} /\ (localTime' = Null <=> dstOffset' = <<>>)
  BY <1>1, LocalTimeType
<1>3. TimesTypeOK' /\ SynchronizedOnline'
  BY <1>1, <1>2 DEF TimeInvariant, TimesTypeOK, SynchronizedOnline
<1>4. FlagsTypeOK'
  <2>1. reportedDst' \in BOOLEAN
    BY ReportDstStatusType DEF TimeInvariant, FlagsTypeOK
  <2>2. dstActive' \in BOOLEAN
    BY DstAppliesType
  <2> QED BY <2>1, <2>2 DEF FlagsTypeOK, TimeInvariant, sourceVars
<1> QED BY <1>3, <1>4 DEF TimeInvariant

\* The empty table, of a new node and after SetTimeZone.
LEMMA EmptyIsDstTable == IsDstTable(<<>>)
<1>1. <<>> \in Seq(DstEntries) /\ Len(<<>>) = 0 /\ DOMAIN <<>> = {}
  OBVIOUS
<1> QED BY <1>1, TimeAssumption DEF IsDstTable, InOrder

\* Every step keeps the attributes well formed and in agreement.
LEMMA TimeNext ==
    ASSUME TimeInvariant, [Next]_timeVars PROVE TimeInvariant'
<1>1. CASE UpdateClock
  <2>1. PICK now \in Readings, t1 \in Readings, t2 \in Readings :
            /\ RefreshClock(dstActive, now, t1, t2)
            /\ dstActive' = DstApplies(dstOffset', t1)
            /\ clock' = t2
    BY <1>1 DEF UpdateClock
  <2>2. dstActive \in BOOLEAN /\ online' \in BOOLEAN /\ UNCHANGED sourceVars
    BY <1>1 DEF UpdateClock, TimeInvariant, FlagsTypeOK, TimesTypeOK
  <2> QED BY <2>1, <2>2, RefreshKeepsAttributes
<1>2. CASE Initialize
  <2>1. PICK now \in Readings, t1 \in Readings, t2 \in Readings, t3 \in Readings :
            /\ RefreshClock(FALSE, now, t1, t2)
            /\ dstActive' = DstApplies(dstOffset', t3)
            /\ clock' = t3
    BY <1>2 DEF Initialize
  <2>2. online' \in BOOLEAN /\ UNCHANGED sourceVars
    BY <1>2 DEF Initialize
  <2>3. PICK wasActive \in BOOLEAN : RefreshClock(wasActive, now, t1, t2)
    BY <2>1
  <2> QED BY <2>1, <2>2, <2>3, RefreshKeepsAttributes
<1>3. ASSUME NEW zones \in ListsUpTo(TimeZoneListMaxSize, TimeZoneEntries), SetTimeZone(zones)
      PROVE  TimeInvariant'
  <2>1. PICK now \in Readings, t1 \in Readings, t2 \in Readings :
            /\ ReportDstStatus(dstActive, t1)
            /\ dstActive' = DstApplies(dstOffset', t1)
            /\ UpdateLocalTime(now, t2)
            /\ clock' = t2
    BY <1>3 DEF SetTimeZone
  <2>2. IsZoneList(timeZone')
    BY <1>3, AcceptedIsZoneList DEF SetTimeZone
  <2>3. IsDstTable(dstOffset') /\ reportedTableEmpty' \in BOOLEAN
    BY <1>3, EmptyIsDstTable DEF SetTimeZone
  <2>4. UNCHANGED <<online, utcTime, sourceVars>>
    BY <1>3 DEF SetTimeZone
  <2> QED BY <2>1, <2>2, <2>3, <2>4, SetListKeepsAttributes
<1>4. ASSUME NEW table \in ListsUpTo(DstOffsetListMaxSize, DstEntries), SetDstOffset(table)
      PROVE  TimeInvariant'
  <2>1. PICK t1 \in Readings, now \in Readings, t2 \in Readings :
            /\ UNCHANGED <<timeZone, reportedZone>>
            /\ ReportDstStatus(dstActive, t1)
            /\ dstActive' = DstApplies(dstOffset', t1)
            /\ UpdateLocalTime(now, t2)
            /\ clock' = t2
    BY <1>4 DEF SetDstOffset
  <2>2. IsZoneList(timeZone')
    BY <2>1 DEF TimeInvariant
  <2>3. IsDstTable(dstOffset') /\ reportedTableEmpty' \in BOOLEAN
    BY <1>4, AcceptedIsDstTable DEF SetDstOffset
  <2>4. UNCHANGED <<online, utcTime, sourceVars>>
    BY <1>4 DEF SetDstOffset
  <2> QED BY <2>1, <2>2, <2>3, <2>4, SetListKeepsAttributes
<1>5. ASSUME UNCHANGED <<online, clockVars, timeZone, dstOffset, reportedTableEmpty>>,
             reportedMissing' \in BOOLEAN
      PROVE  TimeInvariant'
  BY <1>5 DEF TimeInvariant, TimesTypeOK, FlagsTypeOK, SynchronizedOnline, clockVars
<1>6. CASE \/ \E fabric \in FabricIndexes \cup {Null}, source \in TimeSources \cup {Null} :
                  SetTrustedTimeSource(fabric, source)
           \/ \E address \in NtpAddresses \cup {Null} : SetDefaultNtp(address)
           \/ \E fabrics \in SUBSET FabricIndexes : HandleFabricsChangedTime(fabrics)
           \/ UNCHANGED timeVars
  <2>1. UNCHANGED <<online, clockVars, timeZone, dstOffset, reportedTableEmpty>>
    BY <1>6 DEF SetTrustedTimeSource, SetDefaultNtp, HandleFabricsChangedTime, timeVars, tableVars
  <2>2. reportedMissing' \in BOOLEAN
    BY <1>6 DEF SetTrustedTimeSource, ClearTrustedTimeSource, SetDefaultNtp,
       HandleFabricsChangedTime, timeVars, sourceVars, TimeInvariant, FlagsTypeOK
  <2> QED BY <1>5, <2>1, <2>2
<1>7. CASE Dispose
  BY <1>7 DEF Dispose, TimeInvariant, TimesTypeOK, FlagsTypeOK, SynchronizedOnline, tableVars,
     sourceVars
<1>8. CASE Tick
  <2>1. clock' \in 0..MaxTime
    BY <1>8, TimeAssumption DEF Tick, TimeInvariant, TimesTypeOK
  <2> QED BY <1>8, <2>1 DEF Tick, TimeInvariant, TimesTypeOK, FlagsTypeOK, SynchronizedOnline,
          tableVars, sourceVars
<1> QED BY <1>1, <1>2, <1>3, <1>4, <1>6, <1>7, <1>8 DEF Next

\* The invariant of the attributes.
THEOREM TimeInvariantAlways == Spec => []TimeInvariant
<1>1. Init => TimeInvariant
  <2> SUFFICES ASSUME Init PROVE TimeInvariant
    OBVIOUS
  <2> DEFINE utc == [offset |-> 0, name |-> Null, validAt |-> MatterEpoch]
  <2>1. utc \in KnownEntries
    <3>1. MatterEpoch \in MatterEpoch..MaxTime
      BY TimeAssumption DEF MatterEpoch
    <3>2. Utc \in Zones \cup {Utc} /\ utc = [offset |-> Utc.offset, name |-> Utc.name, validAt |-> MatterEpoch]
      BY DEF Utc
    <3> HIDE DEF utc
    <3> QED BY <3>1, <3>2 DEF KnownEntries
  <2>2. utc.validAt = MatterEpoch
    OBVIOUS
  <2>3. timeZone = <<utc>>
    BY DEF Init
  <2> HIDE DEF utc
  <2>4. IsZoneList(timeZone)
    <3>1. <<utc>> \in Seq(KnownEntries) /\ Len(<<utc>>) = 1 /\ DOMAIN <<utc>> = {1}
      BY <2>1
    <3>2. <<utc>>[1] = utc
      OBVIOUS
    <3>3. 1 \in 1..TimeZoneListMaxSize
      BY TimeAssumption
    <3> QED BY <2>2, <2>3, <3>1, <3>2, <3>3 DEF IsZoneList
  <2>5. IsDstTable(dstOffset)
    BY EmptyIsDstTable DEF Init
  <2>6. TimesTypeOK /\ FlagsTypeOK /\ SynchronizedOnline
    <3>1. clock \in 0..MaxTime
      BY TimeAssumption DEF Init, MatterEpoch
    <3>2. online = FALSE /\ utcTime = Null /\ localTime = Null
      BY DEF Init
    <3>3. FlagsTypeOK
      BY DEF Init, FlagsTypeOK
    <3> QED BY <3>1, <3>2, <3>3 DEF TimesTypeOK, SynchronizedOnline
  <2> QED BY <2>4, <2>5, <2>6 DEF TimeInvariant
<1> QED BY <1>1, TimeNext, PTL DEF Spec

\* The attributes are null or of their type, and the first TimeZone entry is the
\* one in use, through every command, refresh and restart.
THEOREM TimeTypeCorrect == Spec => []TimeTypeOK
<1>1. TimeInvariant => TimeTypeOK
  <2> SUFFICES ASSUME TimeInvariant PROVE TimeTypeOK
    OBVIOUS
  <2>1. IsZoneList(timeZone) /\ IsDstTable(dstOffset) /\ TimesTypeOK /\ FlagsTypeOK
    BY DEF TimeInvariant
  <2>2. ASSUME NEW i \in DOMAIN timeZone PROVE ZoneOf(timeZone[i]) \in Zones \cup {Utc}
    <3>1. timeZone[i] \in KnownEntries
      BY <2>1 DEF IsZoneList
    <3> QED BY <3>1, KnownEntryType
  <2>3. ASSUME NEW i \in DOMAIN dstOffset PROVE dstOffset[i] \in DstEntries
    BY <2>1 DEF IsDstTable
  <2> QED BY <2>1, <2>2, <2>3
          DEF TimeTypeOK, IsZoneList, IsDstTable, TimesTypeOK, FlagsTypeOK
<1> QED BY <1>1, TimeInvariantAlways, PTL

\* While the node serves requests UTCTime has a value, and LocalTime has one
\* exactly while the DST table has an entry, whatever expired within a handler.
THEOREM AlwaysSynchronizedOnline == Spec => []SynchronizedOnline
<1>1. TimeInvariant => SynchronizedOnline
  BY DEF TimeInvariant
<1> QED BY <1>1, TimeInvariantAlways, PTL

\* Two DST offsets are never valid at once: the first match of the code is the only
\* one, for every sequence of tables and expiries.
THEOREM AlwaysAtMostOneDst == Spec => []AtMostOneDstValid
<1>1. TimeInvariant => AtMostOneDstValid
  <2> SUFFICES ASSUME TimeInvariant, NEW t \in 0..MaxTime,
                      NEW i \in DOMAIN dstOffset, NEW j \in DOMAIN dstOffset,
                      ValidDst(dstOffset[i], t), ValidDst(dstOffset[j], t)
               PROVE  i = j
    BY DEF AtMostOneDstValid
  <2>1. dstOffset \in Seq(DstEntries) /\ InOrder(dstOffset)
    BY DEF TimeInvariant, IsDstTable
  <2>2. i \in Int /\ j \in Int
    BY <2>1
  <2>3. ASSUME NEW early \in DOMAIN dstOffset, NEW late \in DOMAIN dstOffset,
               ValidDst(dstOffset[early], t), ValidDst(dstOffset[late], t)
        PROVE  ~(early < late)
    <3> SUFFICES ASSUME early < late PROVE FALSE
      OBVIOUS
    <3>1. Follows(dstOffset[early], dstOffset[late])
      BY <2>1 DEF InOrder
    <3>2. dstOffset[early] \in DstEntries /\ dstOffset[late] \in DstEntries
      BY <2>1
    <3>3. /\ dstOffset[early].validUntil \in Int \cup {Null}
          /\ dstOffset[late].validStarting \in Int
      BY <3>2 DEF DstEntries, MatterEpoch
    <3> QED BY <2>3, <3>1, <3>3 DEF Follows, ValidDst
  <2> QED BY <2>2, <2>3
<1> QED BY <1>1, TimeInvariantAlways, PTL

(***************************************************************************)
(* DSTStatus, while the process does not stop                              *)
(***************************************************************************)

\* The server agrees with its subscribers; before the first start it has told them
\* nothing, and has no table.
DstReported ==
    /\ dstActive \in BOOLEAN
    /\ online => reportedDst = dstActive
    /\ ~online => dstOffset = <<>> /\ reportedDst = FALSE

\* The event says what applies, when the one before said what applied.
LEMMA ReportIsAccurate ==
    ASSUME NEW wasActive \in BOOLEAN, reportedDst = wasActive, NEW now,
           ReportDstStatus(wasActive, now)
    PROVE  reportedDst' = DstApplies(dstOffset', now)
  BY DstAppliesType DEF ReportDstStatus

\* No offset applies of an empty table.
LEMMA NoDstOfEmptyTable ==
    ASSUME NEW now PROVE DstApplies(<<>>, now) = FALSE
<1>1. {i \in DOMAIN <<>> : ValidDst(<<>>[i], now)} = {}
  OBVIOUS
<1> QED BY <1>1 DEF DstApplies, ActiveDstOffset

\* Nothing is left of an empty table.
LEMMA FilterOfEmpty ==
    ASSUME NEW now PROVE Filter(<<>>, Unexpired(<<>>, now)) = <<>>
<1>1. Unexpired(<<>>, now) = {}
  BY DEF Unexpired
<1>2. Cardinality({}) = 0 /\ 1..0 = {}
  BY FS_EmptySet
<1> QED BY <1>1, <1>2 DEF Filter

\* What DstStatusAccurate says of a step.
AccurateStep ==
    online' /\ (dstOffset' # dstOffset \/ utcTime' # utcTime) =>
        \E t \in clock..clock' : reportedDst' = DstApplies(dstOffset', t)

\* A handler that sets dstActive at the moment of the event.
LEMMA ReportingStep ==
    ASSUME TimeInvariant, DstReported, online, online',
           NEW t1 \in Readings, clock' \in Readings, t1 <= clock',
           ReportDstStatus(dstActive, t1), dstActive' = DstApplies(dstOffset', t1)
    PROVE  DstReported' /\ AccurateStep
<1>1. reportedDst' = DstApplies(dstOffset', t1)
  BY ReportIsAccurate DEF DstReported
<1>2. t1 \in clock..clock'
  BY ReadingsAreTimes DEF TimeInvariant, TimesTypeOK
<1> QED BY <1>1, <1>2, DstAppliesType DEF DstReported, AccurateStep

\* Every step of a process that does not stop.
LEMMA DstReportedNext ==
    ASSUME ~MayRestart, TimeInvariant, DstReported, [Next]_timeVars
    PROVE  DstReported' /\ AccurateStep
<1>1. CASE UpdateClock
  <2>1. PICK now \in Readings, t1 \in Readings, t2 \in Readings :
            /\ t1 <= t2
            /\ RefreshClock(dstActive, now, t1, t2)
            /\ dstActive' = DstApplies(dstOffset', t1)
            /\ clock' = t2
    BY <1>1 DEF UpdateClock
  <2>2. online /\ online' /\ ReportDstStatus(dstActive, t1)
    BY <1>1, <2>1 DEF UpdateClock, RefreshClock
  <2> QED BY <2>1, <2>2, ReportingStep
<1>2. CASE Initialize
  <2>1. PICK now \in Readings, t1 \in Readings, t2 \in Readings, t3 \in Readings :
            /\ t1 <= t2 /\ t2 <= t3
            /\ RefreshClock(FALSE, now, t1, t2)
            /\ dstActive' = DstApplies(dstOffset', t3)
            /\ clock' = t3
    BY <1>2 DEF Initialize
  <2>2. ~online /\ online' /\ dstOffset = <<>> /\ reportedDst = FALSE
    BY <1>2 DEF Initialize, DstReported
  <2>3. dstOffset' = <<>>
    BY <2>1, <2>2, FilterOfEmpty DEF RefreshClock, RemoveExpiredDstOffsets
  <2>4. dstActive' = FALSE /\ DstApplies(dstOffset', t1) = FALSE
    BY <2>1, <2>3, NoDstOfEmptyTable
  <2>5. reportedDst' = FALSE
    BY <2>1, <2>2, <2>4 DEF RefreshClock, ReportDstStatus
  <2>6. t1 \in clock..clock'
    BY <2>1, ReadingsAreTimes DEF TimeInvariant, TimesTypeOK
  <2> QED BY <2>2, <2>4, <2>5, <2>6 DEF DstReported, AccurateStep
<1>3. ASSUME NEW zones, SetTimeZone(zones) PROVE DstReported' /\ AccurateStep
  <2>1. PICK t1 \in Readings, t2 \in Readings :
            /\ t1 <= t2
            /\ ReportDstStatus(dstActive, t1)
            /\ dstActive' = DstApplies(dstOffset', t1)
            /\ clock' = t2
    BY <1>3 DEF SetTimeZone
  <2> QED BY <1>3, <2>1, ReportingStep DEF SetTimeZone
<1>4. ASSUME NEW table, SetDstOffset(table) PROVE DstReported' /\ AccurateStep
  <2>1. PICK t1 \in Readings, now \in Readings, t2 \in Readings :
            /\ t1 <= now /\ now <= t2
            /\ ReportDstStatus(dstActive, t1)
            /\ dstActive' = DstApplies(dstOffset', t1)
            /\ clock' = t2
    BY <1>4 DEF SetDstOffset
  <2>2. t1 <= t2
    BY <2>1, ReadingsAreTimes DEF TimeInvariant
  <2> QED BY <1>4, <2>1, <2>2, ReportingStep DEF SetDstOffset
<1>5. CASE \/ \E fabric, source : SetTrustedTimeSource(fabric, source)
           \/ \E address : SetDefaultNtp(address)
           \/ \E fabrics : HandleFabricsChangedTime(fabrics)
           \/ Tick
           \/ UNCHANGED timeVars
  <2>1. UNCHANGED <<online, utcTime, dstActive, reportedDst, dstOffset>>
    BY <1>5 DEF SetTrustedTimeSource, SetDefaultNtp, HandleFabricsChangedTime, Tick, timeVars,
       clockVars, tableVars
  <2> QED BY <2>1 DEF DstReported, AccurateStep
<1>6. ~Dispose
  BY DEF Dispose
<1> QED BY <1>1, <1>2, <1>3, <1>4, <1>5, <1>6 DEF Next

\* In a process that does not stop, the last DSTStatus event is right about the
\* moment of the step that changed the table or the time.  With restarts it is not:
\* Internal.dstActive starts again at false.
THEOREM DstStatusAccurateWithoutRestart ==
    ASSUME ~MayRestart PROVE Spec => DstStatusAccurate
<1>1. Init => DstReported
  BY DEF Init, DstReported
<1>2. TimeInvariant /\ DstReported /\ [Next]_timeVars => DstReported'
  BY DstReportedNext
<1>3. TimeInvariant /\ DstReported /\ [Next]_timeVars => [AccurateStep]_timeVars
  BY DstReportedNext
<1>4. Spec => [][AccurateStep]_timeVars
  BY <1>1, <1>2, <1>3, TimeInvariantAlways, PTL DEF Spec
<1> QED BY <1>4 DEF DstStatusAccurate, AccurateStep
=============================================================================
