------------------------ MODULE RtcmCorrectionMonitor ------------------------
(* RtcmCorrectionMonitor: what was heard of an RTCM stream, which base      *)
(* station it belongs to, and whether corrections are available; with the   *)
(* arrival-age estimator that FeedRtcmMonitor keeps beside it.              *)
(* A type stands for its kind: 1005 for 1005 and 1006, 1007 for 1007 and    *)
(* 1008; there is one MSM type per constellation.                           *)
EXTENDS Integers, Sequences, FiniteSets, FiniteSetsExt, TLC

CONSTANTS
  Frames,        \* the frames of the stream: records [type, station, content]
  Stamps,       \* BOOLEAN values: whether a frame carries a time stamp
  None,
  Retention,     \* kTimestampHistoryRetentionNs
  Window,        \* required_observation_window_ns; 0: no window
  StaleAfter,    \* stale_after_ns; 0: never stale
  Grace,         \* startup_grace_ns
  MaxFrames,     \* bound on the frames of a source
  MaxSessions,   \* bound on the connections to a source
  EndOfStream    \* bound on the clock

VARIABLES
  clock,
  monitor,   \* the monitor's members
  arrival,   \* last_accepted_msm_time_, with the frame that set it (history)
  log,       \* history: the frames since the source was chosen
  session    \* history: the connections to the source

monitorVars == <<clock, monitor, arrival, log, session>>

Msm == {"1077", "1087"}
Static == {"1005", "1007"}
Types == Static \cup Msm \cup {"1230", "other"}
Decoded == Types \ {"other"}
Contents == {"good", "empty", "broken", "corrupt"}

Instants == 0..EndOfStream
Stations == {f.station : f \in Frames}

\* A receipt, what is held of the last frame of a type.
Receipts == [station : Stations, valid : BOOLEAN, at : Instants \cup {None}]

\* What is missing is no time, no station and no receipt.
ASSUME NoneAssumption == None \notin Int /\ None \notin Stations /\ None \notin Receipts

\* A frame is of a type and in a state that the parser tells apart.
ASSUME FramesAssumption == \A f \in Frames : f.type \in Types /\ f.content \in Contents

ASSUME DurationsAssumption == {Retention, Window, StaleAfter, Grace, EndOfStream} \subseteq Nat

-----------------------------------------------------------------------------
(* Decoding                                                                *)

\* ParseRtcmMessageInfo: a corrupt frame has no type.
Typed(f) == f.content # "corrupt"

\* ParseRtcmBaseStationArp; too short a payload is broken.
ArpParsed(f) == f.type = "1005" /\ f.content \in {"good", "empty"}

\* ParseRtcmAntennaDescriptor.
AntennaParsed(f) == f.type = "1007" /\ f.content \in {"good", "empty"}

\* ParseRtcmGlonassCodePhaseBias; an empty one has no valid bias.
BiasParsed(f) == f.type = "1230" /\ f.content \in {"good", "empty"}

\* ParseRtcmMsmSummary; an empty one has no cell.
MsmParsed(f) == f.type \in Msm /\ f.content \in {"good", "empty"}

Parsed(f) == Typed(f) /\ (ArpParsed(f) \/ AntennaParsed(f) \/ BiasParsed(f) \/ MsmParsed(f))

\* semantic_message_accepted, which is also when a station is decoded.
Accepted(f) == Parsed(f) /\ (f.type \in Static \/ f.content = "good")

-----------------------------------------------------------------------------
(* Operations                                                              *)

\* UpdateLatestTimestamp.
Latest(candidate, present) ==
  CASE candidate = None -> present
    [] candidate # None /\ present = None -> candidate
    [] OTHER -> IF candidate >= present THEN candidate ELSE present

\* Mutant: the retention starts at the frame's own time stamp.
AppendedAlone(bag, at) ==
  IF at = None THEN bag
  ELSE [t \in Instants |-> IF t < at THEN 0 ELSE IF t = at THEN bag[t] + 1 ELSE bag[t]]

\* AppendTimestamp: a multiset, pruned to the retention before its latest.
Appended(bag, at) ==
  IF at = None THEN bag
  ELSE LET all == [bag EXCEPT ![at] = @ + 1]
           latest == CHOOSE t \in Instants : all[t] > 0 /\ \A u \in Instants : all[u] > 0 => u <= t
       IN [t \in Instants |-> IF t < latest - Retention THEN 0 ELSE all[t]]

NoTimes == [t \in Instants |-> 0]
NoActivity == [count |-> 0, at |-> None]
Active(activity, at) == [count |-> activity.count + 1, at |-> Latest(at, activity.at)]

\* Reset.
Fresh ==
  [station |-> None, total |-> 0, valid |-> 0, invalid |-> 0, last |-> None, first |-> None,
   seen |-> [t \in Types |-> NoActivity], semantic |-> [t \in Types |-> NoActivity],
   held |-> [t \in Decoded |-> None], lastMsm |-> None,
   decoded |-> [t \in Decoded |-> 0], malformed |-> [t \in Decoded |-> 0],
   totalTimes |-> NoTimes, validTimes |-> NoTimes, times |-> [t \in Types |-> NoTimes]]

\* Mutant: the semantic activity of the lost connection is kept.
ResetKeepsSemantic(m) ==
  IF m.station = None \/ \A t \in Static : m.held[t] = None
  THEN Fresh
  ELSE [Fresh EXCEPT !.station = m.station,
          !.held = [t \in Decoded |-> IF t \in Static THEN m.held[t] ELSE None],
          !.seen = m.seen, !.semantic = m.semantic]

\* ResetDynamicState: what a known station said of itself is kept.
ResetDynamicState(m) ==
  IF m.station = None \/ \A t \in Static : m.held[t] = None
  THEN Fresh
  ELSE [Fresh EXCEPT !.station = m.station,
          !.held = [t \in Decoded |-> IF t \in Static THEN m.held[t] ELSE None],
          !.decoded = [t \in Decoded |-> IF t \in Static THEN m.decoded[t] ELSE 0],
          !.seen = [t \in Types |-> IF t \in Static THEN m.seen[t] ELSE NoActivity],
          !.semantic = [t \in Types |-> IF t \in Static THEN m.semantic[t] ELSE NoActivity]]

\* Mutant: a first owner takes over whatever was decoded.
OwnedAnyway(m, s) ==
  [(IF m.station \notin {None, s} THEN Fresh ELSE m) EXCEPT !.station = s]

\* PrepareStationOwnership: the stream is now that of station s.  What was
\* decoded before anything was accepted belongs to no one yet.
Owned(m, s) ==
  LET foreign ==
        IF m.station # None THEN m.station # s
        ELSE \E t \in Decoded \ {"1005"} : m.held[t] # None /\ m.held[t].station # s
  IN [(IF foreign THEN Fresh ELSE m) EXCEPT !.station = s]

Counted(m, at) ==
  [m EXCEPT !.total = @ + 1, !.last = Latest(at, @), !.totalTimes = Appended(@, at)]

\* ObserveInvalidFrame, and the early returns of ObserveFrame.
ObservedInvalid(m, at) == [Counted(m, at) EXCEPT !.invalid = @ + 1]

\* The records ObserveFrame keeps: those of the owner, or of anyone while
\* there is none.
Holding(m, f, at) ==
  IF f.type \notin Decoded THEN m
  ELSE IF ~Parsed(f) THEN [m EXCEPT !.malformed[f.type] = @ + 1]
  ELSE LET counted == [m EXCEPT !.decoded[f.type] = @ + 1]
           before == IF m.held[f.type] = None THEN None ELSE m.held[f.type].at
       IN IF m.station \notin {None, f.station} THEN counted
          ELSE [counted EXCEPT
                  !.held[f.type] = [station |-> f.station, valid |-> f.content = "good",
                                    at |-> Latest(at, before)],
                  !.lastMsm = IF f.type \in Msm THEN f.type ELSE @]

\* RecordValidFrameMessage.
RecordedValid(m, type, at) ==
  [m EXCEPT !.valid = @ + 1,
            !.first = IF @ = None THEN at ELSE @,
            !.validTimes = Appended(@, at),
            !.seen[type] = Active(@, at),
            !.times[type] = Appended(@, at)]

\* RecordSemanticMessage.
RecordedSemantic(m, type, at) == [m EXCEPT !.semantic[type] = Active(@, at)]

\* ObserveFrame: the ownership is settled before the frame is recorded.
ObserveFrame(m, f, at) ==
  IF ~Typed(f) THEN ObservedInvalid(m, at)
  ELSE LET owned == IF Accepted(f) THEN Owned(m, f.station) ELSE m
           valid == RecordedValid(Holding(Counted(owned, at), f, at), f.type, at)
       IN IF Accepted(f) THEN RecordedSemantic(valid, f.type, at) ELSE valid

-----------------------------------------------------------------------------
(* Health and observations                                                 *)

\* HasActivityInWindow, with the window that ends now.  Where there is none,
\* activity without a time stamp counts too.
InWindow(activity, now) ==
  /\ activity.count > 0
  /\ activity.at # None => activity.at <= now
  /\ Window > 0 => activity.at # None /\ activity.at >= now - Window

\* ConfigurePortableRtkCorrectionRequirements and
\* HasRequiredCorrectionMessages: any MSM and a base position; 1230 is optional.
HasRequiredCorrectionMessages(m, now) ==
  /\ m.valid > 0
  /\ \E t \in Msm : InWindow(m.semantic[t], now)
  /\ m.semantic["1005"].count > 0

\* IsWithinStartupGrace.
WithinGrace(m, now) == Grace > 0 /\ m.first # None /\ m.first <= now /\ now - m.first < Grace

\* ComputeAgeSince.
AgeSince(at, now) == IF at = None \/ at > now THEN None ELSE now - at

\* BuildRtcmCorrectionHealth.
CorrectionHealth(m, now) ==
  LET required == HasRequiredCorrectionMessages(m, now)
      age == AgeSince(m.last, now)
      stale == StaleAfter > 0 /\ age # None /\ age > StaleAfter
      broken(t) == m.malformed[t] > 0
      bias == m.held["1230"]
  IN [parser_healthy |-> m.invalid = 0 /\ ~broken("1005") /\ ~broken("1230")
                         /\ \A t \in Msm : ~broken(t),
      stale_data |-> stale,
      correction_available |-> age # None /\ ~stale /\ required,
      events |->
        {e \in {"arp_malformed"} : broken("1005")}
        \cup {e \in {"bias_malformed"} : broken("1230")}
        \cup {e \in {"bias_not_valid"} : bias # None /\ ~bias.valid}
        \cup {e \in {"msm_malformed"} : \E t \in Msm : broken(t)}
        \cup (IF required THEN {} ELSE IF WithinGrace(m, now) THEN {"pending"} ELSE {"missing"})
        \cup (IF age = None THEN {"freshness_unknown"}
              ELSE IF stale THEN {"stale"} ELSE {e \in {"active"} : required})]

\* BuildRtcmSemanticObservations, for one message type.
Observation(m, t, now) ==
  [seen |-> m.seen[t].count > 0,
   decoded |-> m.held[t] # None,
   valid |-> m.held[t] # None /\ (t = "1230" => m.held[t].valid),
   success |-> m.decoded[t], failure |-> m.malformed[t],
   age |-> AgeSince(IF t \in Static /\ m.held[t] # None THEN m.held[t].at ELSE m.seen[t].at, now),
   station |-> IF m.held[t] = None THEN None ELSE m.held[t].station]

\* The one of all MSM types: what was decoded last, whatever its type.
MsmObservation(m) ==
  [seen |-> \E t \in Msm : m.seen[t].count > 0,
   decoded |-> m.lastMsm # None,
   success |-> MapThenSumSet(LAMBDA t : m.decoded[t], Msm),
   station |-> IF m.lastMsm = None THEN None ELSE m.held[m.lastMsm].station]

\* ComputeRateHz, as a count.
CountInWindow(bag, end, duration) ==
  MapThenSumSet(LAMBDA t : bag[t], (end - duration)..end \cap Instants)

-----------------------------------------------------------------------------

MonitorInit ==
  /\ clock = 0
  /\ monitor = Fresh
  /\ arrival = None
  /\ log = << >>
  /\ session = 1

\* FeedRtcmMonitor: an MSM sets the arrival time, another station forgets it.
ArrivalAfter(before, after, f) ==
  LET success(m) == MsmObservation(m).success
      changed == before.station # None /\ after.station # None /\ before.station # after.station
  IN IF f.type \in Msm /\ Typed(f)
        /\ \/ success(after) > success(before)
           \/ changed /\ MsmObservation(after).station = after.station
     THEN [at |-> clock, station |-> f.station]
     ELSE IF changed THEN None ELSE arrival

Hears(f, at) ==
  /\ Len(log) < MaxFrames
  /\ monitor' = ObserveFrame(monitor, f, at)
  /\ arrival' = ArrivalAfter(monitor, monitor', f)
  /\ log' = Append(log, [frame |-> f, at |-> at, session |-> session])
  /\ UNCHANGED <<clock, session>>

\* ResetSessionState of the client: another connection to the same source.
NewSession ==
  /\ session < MaxSessions
  /\ monitor' = ResetDynamicState(monitor)
  /\ arrival' = None
  /\ session' = session + 1
  /\ UNCHANGED <<clock, log>>

\* ResetSourceState of the client: another source.
NewSource ==
  /\ log # << >>
  /\ monitor' = Fresh
  /\ arrival' = None
  /\ log' = << >>
  /\ session' = 1
  /\ UNCHANGED clock

StreamTime ==
  /\ clock < EndOfStream
  /\ clock' = clock + 1
  /\ UNCHANGED <<monitor, arrival, log, session>>

MonitorNext ==
  \/ \E f \in Frames, stamp \in Stamps : Hears(f, IF stamp THEN clock ELSE None)
  \/ NewSession
  \/ NewSource
  \/ StreamTime

MonitorSpec == MonitorInit /\ [][MonitorNext]_monitorVars

-----------------------------------------------------------------------------
(* Properties                                                              *)

Heard(i) == log[i].frame
AcceptedIn == {i \in DOMAIN log : Accepted(Heard(i))}

\* The accepted frames since the last accepted frame of another station.
Own ==
  {i \in AcceptedIn : \A j \in AcceptedIn : j > i => Heard(j).station = Heard(i).station}

Within(i, duration) ==
  log[i].session = session /\ log[i].at # None /\ clock - log[i].at <= duration

\* Everything that is shown as decoded is of the one station that owns the
\* stream, and so is the owner of the last accepted frame: nothing of two
\* stations is ever mixed (rtcm_correction_monitor.cpp:540).
OneStation ==
  monitor.station # None =>
    /\ \A i \in Own : Heard(i).station = monitor.station
    /\ \A t \in Decoded : Observation(monitor, t, clock).station \in {None, monitor.station}
    /\ MsmObservation(monitor).station \in {None, monitor.station}

\* Corrections are available exactly when this connection brought an
\* observation within the window and the same station, of this source, once
\* said where it stands, with no other station heard since, and something
\* arrived on this connection lately.  It is asked where there is a window:
\* else frames without a time stamp decide.  Where nothing ever gets stale, any
\* time stamp of this connection will do.
AvailableIsTrue ==
  Window > 0 =>
    (CorrectionHealth(monitor, clock).correction_available <=>
       /\ \E i \in Own : Heard(i).type \in Msm /\ Within(i, Window)
       /\ \E i \in Own : Heard(i).type = "1005"
       /\ \E i \in DOMAIN log : Within(i, IF StaleAfter > 0 THEN StaleAfter ELSE EndOfStream))

\* The rates count what arrived, for every window within the retention, as
\* long as one station is heard.
RatesExact ==
  (\A i, j \in DOMAIN log : Heard(i).station = Heard(j).station) =>
    \A duration \in 1..Retention :
      /\ CountInWindow(monitor.totalTimes, clock, duration) =
           Cardinality({i \in DOMAIN log : Within(i, duration)})
      /\ \A t \in Types :
           CountInWindow(monitor.times[t], clock, duration) =
             Cardinality({i \in DOMAIN log : Typed(Heard(i)) /\ Heard(i).type = t
                                              /\ Within(i, duration)})

\* "the client accepted its last decoded, station-owned RTCM MSM observation.
\* It is unavailable before that observation" (docs/ntrip.md:339)
ArrivalIsOwned == arrival # None => arrival.station = monitor.station
==============================================================================
