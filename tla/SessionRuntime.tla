--------------------------- MODULE SessionRuntime ---------------------------
(***************************************************************************)
(* What the records of a driver session do to the receiver state it        *)
(* publishes (UbloxSession, NmeaSession, UnicoreSession, from the routing  *)
(* of a framed record on).  A Unicore receiver mixes native logs with NMEA *)
(* sentences: GGA and GST stand in for the native position while there is  *)
(* no recent one.  Records carry the time their first byte was read;       *)
(* a session that is fed without a clock has no times at all.              *)
(***************************************************************************)
EXTENDS NmeaRecords, UbxRecords, UnicoreRecords, PositionPayloadFreshness

CONSTANTS
  Unseen,         \* no such sentence yet
  RuntimeKinds,   \* the session kinds: "ublox", "nmea", "unicore"
  Talkers,        \* the NMEA talkers that send GSV
  NmeaUpdates,    \* the options enable_nmea_runtime_updates, enable_runtime_updates
  NativeWindow,   \* how long a native position is recent
  MixedWindow,    \* how long a GGA, a GSV or a GSV cycle is recent
  MaxMessages,    \* messages of one GSV cycle
  MaxPerMessage,  \* satellites of one GSV message
  Day, Week,      \* the periods of the receiver's clocks
  Sentences, UbxFrames, UnicoreLines, UnicoreFrames,   \* what a receiver may send
  Lateness,       \* how much older than the last one a record may be, by kind
  EndOfTime, MaxRecords

\* A time that is missing is no time.
ASSUME MissingAssumption == NoTime \notin Int
ASSUME LimitsAssumption ==
  MaxMessages \in Nat /\ MaxPerMessage \in Nat /\ NativeWindow \in Nat

\* A GSV message carries four satellites at most, and says how many messages
\* there are.
GsvFields == {"checksum", "complete", "cn0", "talker", "index", "total", "in_view", "satellites"}
ASSUME SentencesAssumption ==
  \A s \in Sentences :
    /\ "type" \in DOMAIN s
    /\ s.type = "GSV" => GsvFields \subseteq DOMAIN s
    /\ s.type = "GSV" /\ ParseNmeaGsv(s) => s.total \in Nat /\ s.satellites \in 0..MaxPerMessage

\* The flags of a NAV-PVT always tell the carrier solution.
ASSUME UbxAssumption ==
  \A f \in UbxFrames :
    /\ "type" \in DOMAIN f
    /\ f.type = "NAV-PVT" => "carrier" \in DOMAIN f /\ f.carrier # NoValue

\* Native positions carry the week and its milliseconds, and in a binary frame
\* the coordinates are numbers.
ASSUME NativeAssumption ==
  /\ \A l \in UnicoreLines :
       /\ "log" \in DOMAIN l
       /\ l.log \in {"PVTSLNA", "BESTNAVA"} =>
            "epoch" \in DOMAIN l /\ WeekTowEpoch(l.epoch) # NoEpoch
  /\ \A f \in UnicoreFrames :
       /\ {"log", "checksum", "complete"} \subseteq DOMAIN f
       /\ f.log \in UnicoreBinaryLogs /\ f.checksum = "valid" /\ f.complete =>
            /\ {"epoch", "latitude", "longitude"} \subseteq DOMAIN f
            /\ WeekTowEpoch(f.epoch) # NoEpoch
            /\ NoValue \notin {f.latitude, f.longitude}

\* A Unicore session takes all its records in the order of their first bytes.
ASSUME OrderAssumption == "unicore" \in RuntimeKinds => Lateness["unicore"] = 0

VARIABLES
  kind,        \* the kind of session
  timed,       \* whether records carry times
  now,         \* the newest time a record can carry
  state,       \* aggregator_
  tracker,     \* position_payload_freshness_tracker_
  lastGga,     \* seen_valid_nmea_gga_, last_nmea_gga_timestamp_ns_
  lastGsv,     \* seen_valid_nmea_gsv_, last_nmea_gsv_timestamp_ns_
  lastNative,  \* last_native_position_timestamp_ns_
  talkers,     \* gsv_talker_states_
  seen,        \* the observations shown to the tracker
  heard        \* how many records were received

runtimeVars == <<kind, timed, now, state, tracker, lastGga, lastGsv, lastNative, talkers, seen, heard>>
mixing == <<lastGga, lastGsv, lastNative, talkers>>

RuntimeInit ==
  /\ kind \in RuntimeKinds
  /\ timed \in BOOLEAN
  /\ now = 0
  /\ state = NoState
  /\ tracker = NewTracker
  /\ lastGga = Unseen
  /\ lastGsv = Unseen
  /\ lastNative = NoTime
  /\ talkers = EmptyFunction
  /\ seen = <<>>
  /\ heard = 0

-----------------------------------------------------------------------------
\* Mutant: any native position ever seen keeps the sentences out.
NativePositionWasSeen(native, at) == native # NoTime

\* A native position is recent.  Without a clock one that was ever seen is.
NativePositionIsFresh(native, at) ==
  /\ native # NoTime
  /\ at = NoTime \/ (at >= native /\ at - native <= NativeWindow)

HasFreshMixedNmeaSample(last, at) ==
  /\ last # Unseen
  /\ NoTime \in {last, at} \/ (at >= last /\ at - last <= MixedWindow)

\* The update of a GGA while the native position is recent.  The values are
\* taken out of it; the order to clear a position is not.
PruneNmeaGgaFallback(u, keepUsed) ==
  LET known == DOMAIN state.value
      unfixed == IF state.fix.type # "unknown" THEN [u EXCEPT !.fix = UnknownFix] ELSE u
      unplaced == [unfixed EXCEPT !.set = [f \in DOMAIN @ \ (Position \cap known) |-> @[f]]]
      others == IF keepUsed THEN {"hdop"} ELSE {"hdop", "satellites_used"}
  IN  Omitting(unplaced, others \cap known)

PruneNmeaGstFallback(u) ==
  Omitting(u, {"horizontal_accuracy", "vertical_accuracy"} \cap DOMAIN state.value)

\* A native text log leaves the satellite counts to recent sentences.
LeaveToNmea(u) ==
  Omitting(u, (IF HasFreshMixedNmeaSample(lastGga, u.at) THEN {"satellites_used"} ELSE {})
                \cup (IF HasFreshMixedNmeaSample(lastGsv, u.at) THEN {"satellites_tracked"}
                      ELSE {}))

Observed(u, epoch) ==
  /\ tracker' = Observe(tracker, u, epoch)
  /\ seen' = Append(seen, [payload |-> Payload(u), at |-> u.at, fix |-> u.fix.type,
                           native |-> epoch # NoEpoch /\ epoch.domain = "week_tow"])

Unobserved == UNCHANGED <<tracker, seen>>

\* A record that is not accepted only moves a counter of the session.
Refused == UNCHANGED <<state, tracker, seen, mixing>>

-----------------------------------------------------------------------------
\* One GSV message of a cycle.

NewTalker == [total |-> 0, at |-> NoTime, inView |-> 0, tracked |-> 0, seen |-> {},
              cn0 |-> FALSE]

TalkerBefore(s) == IF s.talker \in DOMAIN talkers THEN talkers[s.talker] ELSE NewTalker

StaleCycle(t, at) == NoTime \notin {t.at, at} /\ at - t.at > MixedWindow

\* Mutant: the counts start again with the first message only.
RestartedByFirstOnly(t, s) ==
  IF s.index <= 1 THEN [NewTalker EXCEPT !.total = s.total] ELSE [t EXCEPT !.total = s.total]

\* The counts start again with the first message, after a pause, and when the
\* number of messages changes or cannot be.
RestartedCycle(t, s) ==
  IF s.index <= 1 \/ StaleCycle(t, s.at) \/ s.total > MaxMessages \/ t.total # s.total
    THEN [NewTalker EXCEPT !.total = IF s.total > MaxMessages THEN 1 ELSE s.total]
    ELSE t

CountGsv(t, s) ==
  LET cycle == [RestartedCycle(t, s) EXCEPT !.inView = s.in_view, !.at = s.at]
  IN  IF s.index \notin 1..MaxMessages \/ s.index \in cycle.seen
        THEN cycle
        ELSE [cycle EXCEPT !.seen = @ \cup {s.index}, !.tracked = @ + s.satellites,
                           !.cn0 = @ \/ s.cn0 # NoValue]

\* The counts of all the talkers that are recent, and no fewer than are used.
GsvUpdate(after, at) ==
  LET recent == {t \in DOMAIN after : ~StaleCycle(after[t], at)}
      Sum(f(_)) == LET add[S \in SUBSET recent] ==
                         IF S = {} THEN 0
                         ELSE LET t == CHOOSE x \in S : TRUE IN f(after[t]) + add[S \ {t}]
                   IN  add[recent]
      tracked == Sum(LAMBDA t : t.tracked)
      visible == Sum(LAMBDA t : t.inView)
      used == IF "satellites_used" \in DOMAIN state.value
                THEN state.value["satellites_used"] ELSE 0
      allTracked == IF used > tracked THEN used ELSE tracked
      allVisible == IF "satellites_used" \in DOMAIN state.value /\ allTracked > visible
                      THEN allTracked ELSE visible
      cn0 == IF \E t \in recent : after[t].cn0 THEN "mean" ELSE NoValue
  IN  Setting(NoUpdate(at), [satellites_tracked |-> allTracked,
                             satellites_visible |-> allVisible,
                             mean_cn0 |-> cn0, max_cn0 |-> cn0])

-----------------------------------------------------------------------------
\* UnicoreSession

UnicoreGga(s) ==
  /\ s.type = "GGA"
  /\ IF ParseNmeaGga(s)
       THEN LET u == NmeaGgaToRuntimeState(s)
            IN  /\ lastGga' = s.at
                /\ Observed(u, UtcEpoch(s.utc_time, Day))
                /\ state' = Merge(state,
                              IF NativePositionIsFresh(lastNative, s.at)
                                THEN PruneNmeaGgaFallback(
                                       u, HasFreshMixedNmeaSample(s.at, s.at))
                                ELSE u)
                /\ UNCHANGED <<lastGsv, lastNative, talkers>>
       ELSE Refused

UnicoreGst(s) ==
  /\ s.type = "GST"
  /\ IF ParseNmeaGst(s)
       THEN LET u == NmeaGstToRuntimeState(s)
            IN  /\ state' = Merge(state, IF NativePositionIsFresh(lastNative, s.at)
                                           THEN PruneNmeaGstFallback(u) ELSE u)
                /\ Unobserved
                /\ UNCHANGED mixing
       ELSE Refused

UnicoreGsv(s) ==
  /\ s.type = "GSV"
  /\ IF ParseNmeaGsv(s)
       THEN LET after == Over([t \in {s.talker} |-> CountGsv(TalkerBefore(s), s)], talkers)
            IN  /\ talkers' = after
                /\ lastGsv' = s.at
                /\ state' = Merge(state, GsvUpdate(after, s.at))
                /\ Unobserved
                /\ UNCHANGED <<lastGga, lastNative>>
       ELSE Refused

\* The other sentences of a Unicore receiver are not looked at.
UnicoreOtherSentence(s) == s.type \notin {"GGA", "GST", "GSV"} /\ Refused

\* HandleNmeaSentence
UnicoreSentence(s) ==
  UnicoreGga(s) \/ UnicoreGst(s) \/ UnicoreGsv(s) \/ UnicoreOtherSentence(s)

NativePosition(l, u, native) ==
  /\ Observed(u, WeekTowEpoch(l.epoch))
  /\ lastNative' = native
  /\ UNCHANGED <<lastGga, lastGsv, talkers>>

\* HandleFrame: the logs that carry a position.
UnicorePositionLog(l) ==
  \/ /\ l.log = "PVTSLNA" /\ ParseUnicorePvtsln(l)
     /\ LET u == UnicorePvtslnToRuntimeState(l)
        IN  NativePosition(l, u, u.at) /\ state' = Merge(state, LeaveToNmea(u))
  \/ /\ l.log = "BESTNAVA" /\ ParseUnicoreBestNav(l)
     /\ LET u == UnicoreBestNavToRuntimeState(l)
        IN  NativePosition(l, u, u.at) /\ state' = Merge(state, LeaveToNmea(u))

\* HandleBinaryFrame: the counts are not left to the sentences.
UnicoreBinaryFrame(f) ==
  \/ /\ f.log = "BESTNAVB" /\ ParseUnicoreBestNavB(f)
     /\ NativePosition(f, UnicoreBestNavToRuntimeState(f), f.at)
     /\ state' = Merge(state, UnicoreBestNavToRuntimeState(f))
  \/ /\ f.log = "PVTSLNB" /\ ParseUnicorePvtslnB(f)
     /\ NativePosition(f, UnicorePvtslnToRuntimeState(f), f.at)
     /\ state' = Merge(state, UnicorePvtslnToRuntimeState(f))
  \/ /\ \/ f.log = "BESTNAVB" /\ ~ParseUnicoreBestNavB(f)
        \/ f.log = "PVTSLNB" /\ ~ParseUnicorePvtslnB(f)
        \/ f.log \notin UnicoreBinaryLogs
     /\ Refused

\* HandleFrame: the logs that say something else.
StatusUpdate(l) ==
  CASE l.log = "RTKSTATUSA" /\ ParseUnicoreRtkStatus(l) -> {UnicoreRtkStatusToRuntimeState(l)}
    [] l.log = "SATSINFOA" /\ ParseUnicoreSatsInfo(l) -> {UnicoreSatsInfoToRuntimeState(l)}
    [] l.log = "BESTSATA" /\ ParseUnicoreBestSat(l) -> {UnicoreBestSatToRuntimeState(l)}
    [] l.log = "JAMSTATUSA" /\ ParseUnicoreJamStatus(l) -> {UnicoreJamStatusToRuntimeState(l)}
    [] l.log = "FREQJAMSTATUSA" /\ ParseUnicoreFreqJamStatus(l) ->
         {UnicoreFreqJamStatusToRuntimeState(l)}
    [] OTHER -> {}

\* RTCMSTATUSA, HWSTATUSA and AGCA are only parsed and counted.
UnicoreStatusLog(l) ==
  \/ \E u \in StatusUpdate(l) : state' = Merge(state, u) /\ Unobserved /\ UNCHANGED mixing
  \/ /\ StatusUpdate(l) = {}
     /\ ~(l.log = "PVTSLNA" /\ ParseUnicorePvtsln(l))
     /\ ~(l.log = "BESTNAVA" /\ ParseUnicoreBestNav(l))
     /\ Refused

-----------------------------------------------------------------------------
\* NmeaSession and UbloxSession

\* What an accepted sentence says; nothing of one that is refused.
SentenceUpdate(s) ==
  CASE s.type = "GGA" /\ ParseNmeaGga(s) -> {NmeaGgaToRuntimeState(s)}
    [] s.type = "RMC" /\ ParseNmeaRmc(s) -> {NmeaRmcToRuntimeState(s)}
    [] s.type = "GSA" /\ ParseNmeaGsa(s) -> {NmeaGsaToRuntimeState(s)}
    [] s.type = "GSV" /\ ParseNmeaGsv(s) -> {NmeaGsvToRuntimeState(s)}
    [] s.type = "GST" /\ ParseNmeaGst(s) -> {NmeaGstToRuntimeState(s)}
    [] s.type = "VTG" /\ ParseNmeaVtg(s) -> {NmeaVtgToRuntimeState(s)}
    [] s.type = "ZDA" /\ ParseNmeaZda(s) -> {NmeaZdaToRuntimeState(s)}
    [] OTHER -> {}

\* Sentences a session turns into state, when the option allows it.
TakeSentence(s) ==
  /\ \/ /\ NmeaUpdates
        /\ \E u \in SentenceUpdate(s) :
             /\ state' = Merge(state, u)
             /\ IF s.type \in {"GGA", "RMC"}
                  THEN Observed(u, UtcEpoch(s.utc_time, Day)) ELSE Unobserved
     \/ /\ ~NmeaUpdates \/ SentenceUpdate(s) = {}
        /\ UNCHANGED <<state, tracker, seen>>
  /\ UNCHANGED mixing

\* HandleSentence, RouteNmeaSentence: a u-blox session does not know VTG and ZDA.
NmeaSentence(s) == kind = "nmea" /\ TakeSentence(s)
UbloxSentence(s) ==
  /\ kind = "ublox"
  /\ IF s.type \in {"VTG", "ZDA"} THEN Refused ELSE TakeSentence(s)

UbxUpdate(f) ==
  CASE f.type = "NAV-PVT" /\ ParseUbxNavPvt(f) -> {UbxNavPvtToRuntimeState(f)}
    [] f.type = "NAV-SAT" /\ ParseUbxNavSat(f) -> {UbxNavSatToRuntimeState(f)}
    [] f.type = "NAV-STATUS" /\ ParseUbxNavStatus(f) -> {UbxNavStatusToRuntimeState(f)}
    [] f.type = "NAV-DOP" /\ ParseUbxNavDop(f) -> {UbxNavDopToRuntimeState(f)}
    [] f.type = "MON-HW" /\ ParseUbxMonHw(f) -> {UbxMonHwToRuntimeState(f)}
    [] f.type = "MON-RF" /\ ParseUbxMonRf(f) -> {UbxMonRfToRuntimeState(f)}
    [] OTHER -> {}

\* RouteUbxFrame; MON-HW2 and RXM-RTCM are only parsed and counted.
UbxFrame(f) ==
  /\ kind = "ublox"
  /\ UNCHANGED mixing
  /\ \/ \E u \in UbxUpdate(f) :
          /\ state' = Merge(state, u)
          /\ IF f.type = "NAV-PVT" THEN Observed(u, TowEpoch(f.tow, Week)) ELSE Unobserved
     \/ UbxUpdate(f) = {} /\ UNCHANGED <<state, tracker, seen>>

-----------------------------------------------------------------------------
\* The time a record may carry.
Times ==
  IF timed THEN {t \in (now - Lateness[kind])..now : t >= 0} ELSE {NoTime}

Stamped(r, at) == Over([f \in {"at"} |-> at], r)

Receive(Handle(_), records) ==
  /\ heard < MaxRecords
  /\ \E r \in records, at \in Times : Handle(Stamped(r, at))
  /\ heard' = heard + 1
  /\ UNCHANGED <<kind, timed, now>>

ReceiveSentence ==
  \/ kind = "nmea" /\ Receive(NmeaSentence, Sentences)
  \/ kind = "ublox" /\ Receive(UbloxSentence, Sentences)
  \/ kind = "unicore" /\ Receive(UnicoreSentence, Sentences)
ReceiveUbxFrame == Receive(UbxFrame, UbxFrames)
ReceivePositionLog == kind = "unicore" /\ Receive(UnicorePositionLog, UnicoreLines)
ReceiveStatusLog == kind = "unicore" /\ Receive(UnicoreStatusLog, UnicoreLines)
ReceiveBinaryFrame == kind = "unicore" /\ Receive(UnicoreBinaryFrame, UnicoreFrames)

\* Reset of the session, which forgets all it heard.
ResetRuntime ==
  /\ heard \in 1..(MaxRecords - 1)
  /\ state' = NoState
  /\ tracker' = NewTracker
  /\ lastGga' = Unseen
  /\ lastGsv' = Unseen
  /\ lastNative' = NoTime
  /\ talkers' = EmptyFunction
  /\ seen' = <<>>
  /\ UNCHANGED <<kind, timed, now, heard>>

Tick ==
  /\ timed
  /\ now < EndOfTime
  /\ now' = now + 1
  /\ UNCHANGED <<kind, timed, state, tracker, mixing, seen, heard>>

RuntimeNext ==
  \/ ReceiveSentence \/ ReceiveUbxFrame \/ ReceivePositionLog \/ ReceiveStatusLog
  \/ ReceiveBinaryFrame \/ ResetRuntime \/ Tick

RuntimeSpec == RuntimeInit /\ [][RuntimeNext]_runtimeVars

-----------------------------------------------------------------------------
\* Properties

(***************************************************************************)
(* A state that says there is no fix shows no coordinates: whichever       *)
(* record took the fix away took the position of every earlier record with *)
(* it (ClearPositionSolutionValues of the three parsers, MergeFix).  A     *)
(* Unicore session is left out: its native logs and its sentences answer   *)
(* for the fix and the position separately.                                *)
(***************************************************************************)
NoFixNoPosition ==
  kind # "unicore" /\ state.fix.type # "unknown" /\ ~state.fix.valid =>
    Position \cap DOMAIN state.value = {}

(***************************************************************************)
(* What a newer record said is never replaced by what an older one says,   *)
(* field by field, in whatever order the records arrive                    *)
(* (GnssRuntimeAggregator::ShouldApply).                                    *)
(***************************************************************************)
Newest ==
  timed => \A s \in DOMAIN state.version \cap DOMAIN state'.version :
             state'.version[s] >= state.version[s]
NewestWins == [][Newest]_state

(***************************************************************************)
(* The counters of the tracker, kept one observation at a time, say of the *)
(* whole sequence of observations what they are named for: how many        *)
(* carried a position, how often it changed, how many at the end repeat    *)
(* it, and for how long.                                                   *)
(***************************************************************************)
FreshnessDescribesObservations == Describes(tracker, seen)

\* The latest native observation.
NativeSeen == {i \in DOMAIN seen : seen[i].native}
LastNativeSeen == seen[CHOOSE i \in NativeSeen : \A j \in NativeSeen : j <= i]

(***************************************************************************)
(* A position that is reported live is not frozen: when a Unicore session  *)
(* counts one more valid position, what it publishes is at most the window *)
(* of a native position older than it, whether or not native logs have     *)
(* stopped (the failure the comment at unicore_session.cpp:40 records).    *)
(* Native logs of an unknown solution type keep the sentences out too and  *)
(* are left out.                                                           *)
(***************************************************************************)
Live ==
  kind = "unicore" /\ timed /\ tracker'.valid > tracker.valid
    /\ (NativeSeen # {} => LastNativeSeen.fix # "unknown") =>
    /\ {"latitude", "longitude"} \subseteq DOMAIN state'.value
    /\ tracker'.lastAt - state'.version["latitude"] <= NativeWindow
PositionNotFrozen == [][Live]_<<tracker, state>>

(***************************************************************************)
(* The satellites of a talker are those of one cycle of GSV messages: of   *)
(* at most as many messages as the cycle has, each counted once, although  *)
(* messages are lost, repeated and cut short by the next cycle.            *)
(***************************************************************************)
CycleCountsOnce ==
  \A t \in DOMAIN talkers :
    /\ Cardinality(talkers[t].seen) <= talkers[t].total
    /\ talkers[t].tracked <= MaxPerMessage * Cardinality(talkers[t].seen)

(***************************************************************************)
(* While a native position is recent the sentences only stand in for it:   *)
(* one more GGA changes neither the fix nor the coordinates ("NMEA GGA /   *)
(* GST only stand in for the native PVTSLN / BESTNAV records",             *)
(* unicore_session.cpp:40).                                                *)
(***************************************************************************)
Kept ==
  /\ state'.fix = state.fix
  /\ \A f \in Position : f \in DOMAIN state'.value /\ state'.value[f] = state.value[f]

NativeStands ==
  kind = "unicore" /\ state.fix.valid /\ Position \subseteq DOMAIN state.value
    /\ Len(seen') > Len(seen) /\ ~seen'[Len(seen')].native
    /\ NativePositionIsFresh(lastNative, seen'[Len(seen')].at) => Kept
NativePositionKept == [][NativeStands]_<<state, seen>>
=============================================================================
