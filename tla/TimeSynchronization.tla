------------------------ MODULE TimeSynchronization ------------------------
(***************************************************************************)
(* The Time Synchronization cluster server of the camera Root Node         *)
(* (timeSynchronizationServer.ts): UTCTime from the host clock, the time   *)
(* zone and DST tables an administrator provides, LocalTime, the trusted   *)
(* time source, and the events that keep subscribers informed.             *)
(*                                                                         *)
(* Every handler is one transaction, but it reads the host clock more than *)
(* once (nowUs), so an action takes the successive readings as parameters  *)
(* and leaves the clock at the last one.  What a subscriber was last told  *)
(* by an event is an observer variable, reported*.                         *)
(*                                                                         *)
(* External: timeZone, dstOffset, trustedTimeSource and defaultNtp are     *)
(* nonvolatile attributes, utcTime and localTime are not; the host clock   *)
(* does not step back.                                                     *)
(***************************************************************************)
EXTENDS Filtering

CONSTANTS
    MaxTime,               \* bound of the host clock
    MaxHandlerDelay,       \* bound of the time a handler takes
    Zones,                 \* [offset, name] of the time zones
    DstOffsets,            \* offsets of DST entries
    TimeZoneListMaxSize,
    DstOffsetListMaxSize,
    TimeSources,           \* nodes offered as a trusted time source
    NtpAddresses,          \* the strings sent as DefaultNTP
    CanonicalIpv6,         \* those isCanonicalIpv6 accepts
    DomainNames,           \* those that are RFC 1123 hostnames, not IPv4
    SupportsDnsResolve,
    MaxFabricIndex,
    MayRestart,            \* the process may stop and start again
    Null

ASSUME TimeAssumption ==
    /\ MaxTime \in Nat \ {0} /\ MaxHandlerDelay \in Nat
    /\ TimeZoneListMaxSize \in {1, 2} /\ DstOffsetListMaxSize \in Nat \ {0}
    /\ DstOffsets \subseteq Int
    /\ \A z \in Zones : z.offset \in Int /\ z = [offset |-> z.offset, name |-> z.name]
    /\ SupportsDnsResolve \in BOOLEAN /\ MayRestart \in BOOLEAN
    /\ Null \notin Int \cup [fabricIndex : 1..MaxFabricIndex, node : TimeSources]

VARIABLES
    clock,                \* the host clock
    online,               \* initialized, with the clock timer running
    utcTime, localTime,   \* attributes
    timeZone, dstOffset,  \* attributes: lists of entries
    trustedTimeSource,    \* attribute
    defaultNtp,           \* attribute
    dstActive,            \* Internal.dstActive
    reportedZone,         \* of the last TimeZoneStatus event
    reportedDst,          \* of the last DSTStatus event
    reportedTableEmpty,   \* a DSTTableEmpty event since dstOffset was last filled
    reportedMissing       \* a MissingTrustedTimeSource event since it was last set

tableVars == <<timeZone, dstOffset, reportedZone, reportedTableEmpty>>
clockVars == <<clock, utcTime, localTime, dstActive, reportedDst>>
sourceVars == <<trustedTimeSource, defaultNtp, reportedMissing>>
timeVars == <<online, clockVars, tableVars, sourceVars>>

MatterEpoch == 0
FabricIndexes == 1..MaxFabricIndex

\* The readings of the clock a handler that starts now can get.
Readings == clock..(IF clock + MaxHandlerDelay < MaxTime THEN clock + MaxHandlerDelay ELSE MaxTime)

ZoneOf(entry) == [offset |-> entry.offset, name |-> entry.name]
Utc == [offset |-> 0, name |-> Null]

\* #activeTimeZone: the last entry whose ValidAt is not in the future.
ActiveTimeZone(zones, now) ==
    IF Len(zones) > 1 /\ zones[2].validAt <= now THEN zones[2] ELSE zones[1]

ValidDst(entry, now) ==
    /\ entry.validStarting <= now
    /\ entry.validUntil = Null \/ now < entry.validUntil

\* #activeDstOffset: the offset of the first entry valid now, 0 without one.
ActiveDstOffset(table, now) ==
    LET valid == {i \in DOMAIN table : ValidDst(table[i], now)}
        first == CHOOSE i \in valid : \A j \in valid : i <= j
    IN  IF valid = {} THEN 0 ELSE table[first].offset

DstApplies(table, now) == ActiveDstOffset(table, now) # 0

\* Mutant: only the start of a DST offset is reported.
ReportDstStart(wasActive, now) == reportedDst' = (reportedDst \/ DstApplies(dstOffset', now))

\* #updateDstStatus: the event it generates, given what Internal.dstActive was.
\* It leaves dstActive at DstApplies(dstOffset', now).
ReportDstStatus(wasActive, now) ==
    reportedDst' = IF DstApplies(dstOffset', now) = wasActive THEN reportedDst ELSE ~wasActive

\* Mutant: LocalTime is computed before the DSTOffset list changes.
UpdateLocalTimeFirst(now, later) ==
    localTime' = IF dstOffset = <<>> THEN Null
                 ELSE now + ActiveTimeZone(timeZone', now).offset
                          + ActiveDstOffset(dstOffset, later)

\* #updateLocalTime(now), which reads the clock again for the DST offset.
UpdateLocalTime(now, later) ==
    localTime' = IF dstOffset' = <<>> THEN Null
                 ELSE now + ActiveTimeZone(timeZone', now).offset
                          + ActiveDstOffset(dstOffset', later)

(***************************************************************************)
(* updateClock: every second, and once by initialize.                      *)
(***************************************************************************)

ZoneChanges == ZoneOf(timeZone[2]) # ZoneOf(timeZone[1])

\* Mutant: the entry in use keeps its ValidAt.
ApplyTimeZoneVerbatim(now) ==
    IF Len(timeZone) > 1 /\ timeZone[2].validAt <= now
    THEN /\ timeZone' = <<timeZone[2]>>
         /\ reportedZone' = IF ZoneChanges THEN ZoneOf(timeZone[2]) ELSE reportedZone
    ELSE UNCHANGED <<timeZone, reportedZone>>

\* Mutant: an entry with the same zone is never applied.
ApplyChangedTimeZone(now) ==
    IF Len(timeZone) > 1 /\ timeZone[2].validAt <= now /\ ZoneChanges
    THEN /\ timeZone' = <<[timeZone[2] EXCEPT !.validAt = MatterEpoch]>>
         /\ reportedZone' = ZoneOf(timeZone[2])
    ELSE UNCHANGED <<timeZone, reportedZone>>

ApplyScheduledTimeZone(now) ==
    IF Len(timeZone) > 1 /\ timeZone[2].validAt <= now
    THEN /\ timeZone' = <<[timeZone[2] EXCEPT !.validAt = MatterEpoch]>>
         /\ reportedZone' = IF ZoneChanges THEN ZoneOf(timeZone[2]) ELSE reportedZone
    ELSE UNCHANGED <<timeZone, reportedZone>>

Unexpired(table, now) ==
    {i \in DOMAIN table : table[i].validUntil = Null \/ table[i].validUntil > now}

\* Mutant: the last entry expires without DSTTableEmpty.
RemoveExpiredSilently(now) ==
    /\ dstOffset' = Filter(dstOffset, Unexpired(dstOffset, now))
    /\ UNCHANGED reportedTableEmpty

RemoveExpiredDstOffsets(now) ==
    /\ dstOffset' = Filter(dstOffset, Unexpired(dstOffset, now))
    /\ reportedTableEmpty' = (reportedTableEmpty \/ (dstOffset' # dstOffset /\ dstOffset' = <<>>))

RefreshClock(wasActive, now, t1, t2) ==
    /\ utcTime' = now
    /\ ApplyScheduledTimeZone(now)
    /\ RemoveExpiredDstOffsets(now)
    /\ ReportDstStatus(wasActive, t1)
    /\ UpdateLocalTime(now, t2)

UpdateClock ==
    /\ online
    /\ \E now, t1, t2 \in Readings :
           /\ now <= t1 /\ t1 <= t2
           /\ RefreshClock(dstActive, now, t1, t2)
           /\ dstActive' = DstApplies(dstOffset', t1)
           /\ clock' = t2
    /\ UNCHANGED <<online, sourceVars>>

(***************************************************************************)
(* SetTimeZone and SetDSTOffset                                            *)
(***************************************************************************)

SetTimeZoneStatus(zones) ==
    IF Len(zones) > TimeZoneListMaxSize THEN "ResourceExhausted"
    ELSE IF \/ zones = <<>>
            \/ zones[1].validAt # MatterEpoch
            \/ Len(zones) > 1 /\ zones[2].validAt = MatterEpoch
         THEN "ConstraintError"
    ELSE "Success"

SetTimeZone(zones) ==
    /\ online
    /\ SetTimeZoneStatus(zones) = "Success"
    /\ timeZone' = zones
    /\ dstOffset' = <<>>
    /\ reportedTableEmpty' = TRUE
    /\ \E now, t1, t2 \in Readings :
           /\ now <= t1 /\ t1 <= t2
           /\ reportedZone' = ZoneOf(ActiveTimeZone(zones, now))
           /\ ReportDstStatus(dstActive, t1)
           /\ dstActive' = DstApplies(dstOffset', t1)
           /\ UpdateLocalTime(now, t2)
           /\ clock' = t2
    /\ UNCHANGED <<online, utcTime, sourceVars>>

\* Mutant: the entries are in the order of their starts, but may overlap.
StartsEarlier(table, i) == i > 1 /\ table[i].validStarting < table[i - 1].validStarting

Overlaps(table, i) ==
    /\ i > 1
    /\ table[i - 1].validUntil # Null
    /\ table[i].validStarting < table[i - 1].validUntil

SetDstOffsetStatus(table) ==
    IF Len(table) > DstOffsetListMaxSize THEN "ResourceExhausted"
    ELSE IF \E i \in DOMAIN table :
                \/ IF table[i].validUntil = Null
                   THEN i # Len(table)
                   ELSE table[i].validUntil <= table[i].validStarting
                \/ Overlaps(table, i)
         THEN "ConstraintError"
    ELSE "Success"

SetDstOffset(table) ==
    /\ online
    /\ SetDstOffsetStatus(table) = "Success"
    /\ dstOffset' = table
    /\ reportedTableEmpty' = (table = <<>>)
    /\ \E t1, now, t2 \in Readings :
           /\ t1 <= now /\ now <= t2
           /\ UNCHANGED <<timeZone, reportedZone>>
           /\ ReportDstStatus(dstActive, t1)
           /\ dstActive' = DstApplies(dstOffset', t1)
           /\ UpdateLocalTime(now, t2)
           /\ clock' = t2
    /\ UNCHANGED <<online, utcTime, sourceVars>>

(***************************************************************************)
(* SetTrustedTimeSource, SetDefaultNTP and the reaction to fabrics$Changed *)
(* (SetUTCTime always fails with TimeNotAccepted: it is no action).  Null  *)
(* as fabric is a command without an accessing fabric.                     *)
(***************************************************************************)

ClearTrustedTimeSource ==
    /\ trustedTimeSource' = Null
    /\ reportedMissing' = TRUE
    /\ UNCHANGED defaultNtp

SetTrustedTimeSource(fabric, source) ==
    /\ online
    /\ \/ source = Null /\ ClearTrustedTimeSource
       \/ /\ source # Null
          /\ fabric # Null
          /\ trustedTimeSource' = [fabricIndex |-> fabric, node |-> source]
          /\ reportedMissing' = FALSE
          /\ UNCHANGED defaultNtp
    /\ UNCHANGED <<online, clockVars, tableVars>>

SetDefaultNtpStatus(address) ==
    IF address = Null \/ address \in CanonicalIpv6 THEN "Success"
    ELSE IF address \notin DomainNames \/ ~SupportsDnsResolve THEN "InvalidCommand"
    ELSE "Success"

SetDefaultNtp(address) ==
    /\ online
    /\ SetDefaultNtpStatus(address) = "Success"
    /\ defaultNtp' = address
    /\ UNCHANGED <<online, clockVars, tableVars, trustedTimeSource, reportedMissing>>

HandleFabricsChangedTime(fabrics) ==
    /\ online
    /\ trustedTimeSource # Null
    /\ trustedTimeSource.fabricIndex \notin fabrics
    /\ ClearTrustedTimeSource
    /\ UNCHANGED <<online, clockVars, tableVars>>

(***************************************************************************)
(* The process and the host clock                                          *)
(***************************************************************************)

\* initialize: Internal.dstActive is FALSE in a new process; after the refresh it
\* is set from one more reading of the clock.
Initialize ==
    /\ ~online
    /\ online' = TRUE
    /\ \E now, t1, t2, t3 \in Readings :
           /\ now <= t1 /\ t1 <= t2 /\ t2 <= t3
           /\ RefreshClock(FALSE, now, t1, t2)
           /\ dstActive' = DstApplies(dstOffset', t3)
           /\ clock' = t3
    /\ UNCHANGED sourceVars

\* asyncDispose and the end of the process.
Dispose ==
    /\ online /\ MayRestart
    /\ online' = FALSE
    /\ utcTime' = Null /\ localTime' = Null
    /\ dstActive' = FALSE
    /\ UNCHANGED <<clock, reportedDst, tableVars, sourceVars>>

Tick ==
    /\ clock < MaxTime
    /\ clock' = clock + 1
    /\ UNCHANGED <<online, utcTime, localTime, dstActive, reportedDst, tableVars, sourceVars>>

\* The attribute values addRootNodeCamera configures.
Init ==
    /\ clock = MatterEpoch + 1
    /\ online = FALSE
    /\ utcTime = Null /\ localTime = Null
    /\ timeZone = <<[offset |-> 0, name |-> Null, validAt |-> MatterEpoch]>>
    /\ dstOffset = <<>>
    /\ trustedTimeSource = Null /\ defaultNtp = Null
    /\ dstActive = FALSE
    /\ reportedZone = Utc
    /\ reportedDst = FALSE
    /\ reportedTableEmpty = TRUE
    /\ reportedMissing = TRUE

TimeZoneEntries == {[offset |-> z.offset, name |-> z.name, validAt |-> t] :
                        z \in Zones, t \in MatterEpoch..MaxTime}
DstEntries == [offset : DstOffsets, validStarting : MatterEpoch..MaxTime,
               validUntil : (MatterEpoch..MaxTime) \cup {Null}]
ListsUpTo(n, S) == UNION {[1..k -> S] : k \in 0..n}

Next ==
    \/ UpdateClock
    \/ \E zones \in ListsUpTo(TimeZoneListMaxSize, TimeZoneEntries) : SetTimeZone(zones)
    \/ \E table \in ListsUpTo(DstOffsetListMaxSize, DstEntries) : SetDstOffset(table)
    \/ \E fabric \in FabricIndexes \cup {Null}, source \in TimeSources \cup {Null} :
           SetTrustedTimeSource(fabric, source)
    \/ \E address \in NtpAddresses \cup {Null} : SetDefaultNtp(address)
    \/ \E fabrics \in SUBSET FabricIndexes : HandleFabricsChangedTime(fabrics)
    \/ Initialize
    \/ Dispose
    \/ Tick

Spec == Init /\ [][Next]_timeVars

\* Time passes, the clock timer fires while the node is online, and the host
\* restarts a stopped process.
FairSpec == Spec /\ WF_timeVars(Tick) /\ WF_timeVars(UpdateClock) /\ WF_timeVars(Initialize)

(***************************************************************************)
(* Properties                                                              *)
(***************************************************************************)

\* The attributes are null or of their type, and TimeZone has 1 to
\* TimeZoneListMaxSize entries, the first with a ValidAt of 0 and a second with
\* another one.
TimeTypeOK ==
    /\ clock \in 0..MaxTime /\ online \in BOOLEAN
    /\ utcTime \in 0..MaxTime \cup {Null} /\ localTime \in Int \cup {Null}
    /\ Len(timeZone) \in 1..TimeZoneListMaxSize
    /\ \A i \in DOMAIN timeZone :
           /\ ZoneOf(timeZone[i]) \in Zones \cup {Utc}
           /\ timeZone[i].validAt = MatterEpoch <=> i = 1
    /\ Len(dstOffset) <= DstOffsetListMaxSize
    /\ \A i \in DOMAIN dstOffset : dstOffset[i] \in DstEntries
    /\ dstActive \in BOOLEAN /\ reportedDst \in BOOLEAN
    /\ reportedTableEmpty \in BOOLEAN /\ reportedMissing \in BOOLEAN

\* Whatever lists were accepted and whatever entries expired, at most one DST
\* entry is valid at any time: which one applies never depends on the list order.
AtMostOneDstValid ==
    \A t \in 0..MaxTime :
        \A i, j \in DOMAIN dstOffset :
            ValidDst(dstOffset[i], t) /\ ValidDst(dstOffset[j], t) => i = j

\* While the node serves requests UTCTime is not null, the condition on which
\* the TLS servers refuse to provision, and LocalTime is null exactly while the
\* DSTOffset list is empty.
SynchronizedOnline ==
    online => utcTime # Null /\ (localTime = Null <=> dstOffset = <<>>)

\* A subscriber who only follows the events is right about the tables: a single
\* TimeZone entry is the one last reported, an empty DSTOffset was reported by
\* DSTTableEmpty and a null TrustedTimeSource by MissingTrustedTimeSource, also
\* when the change was due while the node was down.
TablesReported ==
    online => /\ Len(timeZone) = 1 => reportedZone = ZoneOf(timeZone[1])
              /\ dstOffset = <<>> => reportedTableEmpty
              /\ trustedTimeSource = Null => reportedMissing

\* "Generates a DSTStatus event when the node starts or stops applying a DST
\* offset": after every step that changes the DST table or refreshes UTCTime, the
\* last DSTStatus event says whether a DST offset applied at a moment of that step.
DstStatusAccurate ==
    [][online' /\ (dstOffset' # dstOffset \/ utcTime' # utcTime) =>
          \E t \in clock..clock' : reportedDst' = DstApplies(dstOffset', t)]_timeVars

\* "Generate TimeZoneStatus when the node changes its time zone offset or name":
\* whenever the clock refresh (the step that moves UTCTime) replaces the list and
\* generates the event, the zone is not the one the last event reported already.
RefreshReportsOnlyChanges ==
    [][Len(timeZone) > 1 /\ Len(timeZone') = 1 /\ utcTime' # utcTime /\ ZoneChanges
          => reportedZone # ZoneOf(timeZone[2])]_timeVars

\* A scheduled time zone is eventually applied, through restarts and commands
\* that reschedule it: the list is eventually back to its one entry in use.
ScheduledTimeZoneApplied == Len(timeZone) > 1 ~> Len(timeZone) = 1
=============================================================================
