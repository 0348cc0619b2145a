-------------------------- MODULE ReceiverDiscovery --------------------------
(***************************************************************************)
(* gnss_driver/src/receiver_discovery.cpp: the serial ports of the machine *)
(* are listed, every device is asked for its version at one baud rate      *)
(* after another, and what it sent meanwhile is weighed.                   *)
(*                                                                         *)
(* What a device sends is a sequence of items: one record of a kind, or a  *)
(* piece of text or noise, all of one size.  What the devices are and      *)
(* whether a port can be opened is external.                               *)
(***************************************************************************)
EXTENDS Integers, Sequences, SequencesExt, FiniteSets, FiniteSetsExt

CONSTANTS
  Names,           \* the file names of ports: source, path, device behind it
  PlatformUarts,   \* include_platform_uarts
  BaudLists,       \* the lists of baud rates that may be tried
  Behaviours,      \* what a device may be: its baud rates, its items, its model
  Threshold,       \* confidence_threshold_score
  AllowNmea,       \* allow_generic_nmea_fallback
  MaxHeard,        \* max_probe_bytes, in items
  NoModel          \* of a device that answers no VERSIONA query

\* No caller sets the threshold: it is the score of a verified answer.
ASSUME ThresholdAssumption == Threshold \in Int /\ Threshold <= 100

VARIABLES
  asks,      \* where discovery is: "list", "open", "read", "done"
  world,     \* external: the behaviour of each device
  bauds,     \* baud_candidates: those of the build, of the user's list, or the one given
  ports,     \* the candidates, in the order of probing
  port,      \* the candidate being probed, by its index
  rate,      \* the baud rate tried, by its index
  heard,     \* bytes
  probe,     \* the result of this baud rate
  best,      \* the best result of this port
  results,   \* the results of the ports probed before
  probes     \* history: the results of the probes of each port

discoveryVars == <<asks, world, bauds, ports, port, rate, heard, probe, best, results, probes>>

Devices == {n.device : n \in Names}

-----------------------------------------------------------------------------
(* The ports.                                                              *)

Sources == <<"serial_by_id", "tty_acm", "tty_usb", "platform_uart", "explicit_path">>
SourcePriority(source) == CHOOSE i \in DOMAIN Sources : Sources[i] = source

Precedes(m, n) ==
  \/ SourcePriority(m.source) < SourcePriority(n.source)
  \/ m.source = n.source /\ m.path < n.path

\* A listed name has one of the first four sources; one path names one file.
ASSUME NamesAssumption ==
  /\ IsFiniteSet(Names)
  /\ \A n \in Names :
       "source" \in DOMAIN n /\ n.path \in Nat /\ \E i \in 1..4 : n.source = Sources[i]
  /\ \A m, n \in Names : m.source = n.source /\ m.path = n.path => m = n

\* The sequences of names in which each precedes the next ones: there is one.
Sorted(names) ==
  {s \in [1..Cardinality(names) -> names] : \A i, j \in DOMAIN s : i < j => Precedes(s[i], s[j])}

\* MaybeInsertPreferredCandidate: of the names of one device the first stays.
Preferred(names) ==
  {n \in names : \A m \in names : m.device = n.device => ~Precedes(m, n)}

\* Mutant: of the names of one file, not of one device.
DiscoverEveryName ==
  Sorted({n \in Names : PlatformUarts \/ n.source # "platform_uart"})

DiscoverSerialPorts ==
  Sorted(Preferred({n \in Names : PlatformUarts \/ n.source # "platform_uart"}))

\* MakeExplicitReceiverPortCandidate
ExplicitCandidate(n) == [n EXCEPT !.source = "explicit_path"]

-----------------------------------------------------------------------------
(* The weight of what was heard.                                           *)

CountOf(items) == Cardinality({i \in DOMAIN heard' : heard'[i] \in items})

VendorItems == {"ubx", "ascii", "n4"}
NmeaItems == {"gga", "nmea"}
ProtocolItems == VendorItems \cup NmeaItems \cup {"rtcm"}

\* Lines of text without a '$' or a '#', and little else.
LooksLikeRandomAscii ==
  /\ CountOf({"text"}) > 0
  /\ CountOf(NmeaItems \cup {"ascii", "version"}) = 0
  /\ CountOf({"text"}) * 100 >= Len(heard') * 80

VendorScore == 100 * Max({CountOf({"ubx"}), CountOf({"ascii", "n4"})})
NmeaScore == 20 * CountOf({"gga"}) + 10 * CountOf({"nmea"})

Score ==
  Max({VendorScore, NmeaScore}) - 200 * CountOf({"heartbeat"})
    - (IF LooksLikeRandomAscii THEN 50 ELSE 0)

ConfidenceFromScore(score) ==
  CASE score >= 100 -> 3 [] score \in 20..99 -> 2 [] score \in 1..19 -> 1 [] OTHER -> 0
High == 3

\* With records of both vendors StreamDetector's first record decides: it is
\* a u-blox only if that is UBX.
EarliestIsUbx ==
  LET at == SelectInSeq(heard', LAMBDA item : item \in ProtocolItems)
  IN  at > 0 /\ heard'[at] = "ubx"

Family ==
  LET ublox == CountOf({"ubx"}) > 0
      unicore == CountOf({"ascii", "n4"}) > 0
  IN  IF CountOf({"heartbeat"}) > 0 THEN "unknown"
      ELSE CASE ublox /\ (unicore => EarliestIsUbx) -> "ublox"
             [] unicore /\ (ublox => ~EarliestIsUbx) -> "unicore"
             [] OTHER -> IF CountOf(NmeaItems) > 0 /\ AllowNmea THEN "nmea" ELSE "unknown"

\* SetUnknownResultNote: a stream that is known, but no receiver's.
WeakStream ==
  \/ CountOf({"rtcm"}) > 0 /\ CountOf(VendorItems \cup NmeaItems) = 0
  \/ CountOf(NmeaItems) > 0

Base(n) ==
  [name |-> n, baud |-> 0, family |-> "unknown", confidence |-> 0, score |-> 0,
   vendor |-> 0, bytes |-> 0, model |-> NoModel, verified |-> FALSE, reason |-> ""]

\* AnalyzeReceiverProbeBytes, of all that was heard at this baud rate.
Analyze(n, baud) ==
  IF heard' = <<>> THEN [Base(n) EXCEPT !.baud = baud, !.reason = "no_data"]
  ELSE LET family == Family
       IN  [Base(n) EXCEPT
              !.baud = baud, !.family = family, !.score = Score,
              !.confidence =
                IF family # "unknown" THEN ConfidenceFromScore(Score)
                ELSE IF CountOf({"heartbeat"}) = 0 /\ ~LooksLikeRandomAscii /\ WeakStream THEN 1
                ELSE 0,
              !.vendor = CountOf(VendorItems \cup NmeaItems), !.bytes = Len(heard'),
              !.reason = "evidence"]

\* A verified answer to VERSIONA outweighs everything else that was heard.
Answered(r, model) ==
  [r EXCEPT !.family = "unicore", !.confidence = High, !.score = Max({@, 100}),
            !.model = model, !.verified = TRUE]

-----------------------------------------------------------------------------
(* The probes.                                                             *)

DiscoveryInit ==
  /\ asks = "list"
  /\ world \in [Devices -> Behaviours]
  /\ bauds = <<>> /\ ports = <<>> /\ port = 0 /\ rate = 0
  /\ heard = <<>> /\ probe = <<>> /\ best = <<>> /\ results = <<>> /\ probes = <<>>

AtPort(i) ==
  /\ asks' = IF i > Len(ports') THEN "done" ELSE "open"
  /\ port' = i /\ rate' = 1 /\ heard' = <<>> /\ probe' = <<>>
  /\ best' = IF i > Len(ports') THEN <<>> ELSE Base(ports'[i])

\* DiscoverReceivers, with a path of the user's or without.
List ==
  /\ asks = "list"
  /\ bauds' \in BaudLists
  /\ \/ ports' \in DiscoverSerialPorts
     \/ \E n \in Names : ports' = <<ExplicitCandidate(n)>>
  /\ probes' = [i \in DOMAIN ports' |-> <<>>]
  /\ AtPort(1)
  /\ UNCHANGED <<world, results>>

Key(r) ==
  <<r.score, r.confidence, IF r.family = "unknown" THEN 0 ELSE 1, r.vendor, r.bytes>>

IsBetterProbeResult(r, than) ==
  \E k \in 1..5 : Key(r)[k] > Key(than)[k] /\ \A j \in 1..(k - 1) : Key(r)[j] = Key(than)[j]

\* SortReceiverProbeResults: the order of two results, by confidence first.
SortsBefore(r, s) ==
  LET key(x) == <<x.confidence, x.score, IF x.family = "unknown" THEN 0 ELSE 1, x.bytes>>
  IN  \/ \E k \in 1..4 : key(r)[k] > key(s)[k] /\ \A j \in 1..(k - 1) : key(r)[j] = key(s)[j]
      \/ key(r) = key(s) /\ Precedes(r.name, s.name)

\* ProbeReceiverPort, after the probe at one baud rate: the next baud rate,
\* or the next port.
ProbeEnds(r) ==
  LET now == IF IsBetterProbeResult(r, best) THEN r ELSE best
      final == rate = Len(bauds) \/ (now.confidence = High /\ now.score >= Threshold)
  IN  /\ probes' = [probes EXCEPT ![port] = Append(@, r)]
      /\ UNCHANGED <<world, bauds, ports>>
      /\ IF final
         THEN /\ results' = Append(results,
                   IF now.family = "unknown" THEN [now EXCEPT !.baud = 0] ELSE now)
              /\ AtPort(port + 1)
         ELSE /\ asks' = "open" /\ rate' = rate + 1 /\ best' = now
              /\ heard' = <<>> /\ probe' = <<>>
              /\ UNCHANGED <<port, results>>

\* The port cannot be opened, or the query cannot be written.
OpenFails ==
  /\ asks = "open"
  /\ ProbeEnds([Base(ports[port]) EXCEPT !.baud = bauds[rate], !.reason = "failed"])

\* ProbeReceiverTransportAtBaud writes the query VERSIONA.
Open ==
  /\ asks = "open"
  /\ asks' = "read"
  /\ probe' = [Base(ports[port]) EXCEPT !.baud = bauds[rate]]
  /\ UNCHANGED <<world, bauds, ports, port, rate, heard, best, results, probes>>

\* What the device sends at this baud rate, after the query: an answer only if
\* it knows the query.
Sends ==
  LET w == world[ports[port].device]
  IN  IF bauds[rate] \in w.bauds
        THEN {item \in w.items \cup {"version"} : item = "version" => w.model # NoModel}
      ELSE IF w.items = {} THEN {} ELSE {"noise"}

Stops(r) == r.verified \/ (r.confidence = High /\ r.family # "unicore")

\* One read brings one item or two, and everything heard is weighed again.
Read ==
  /\ asks = "read"
  /\ Len(heard) < MaxHeard
  /\ \E k \in 1..2 : \E chunk \in [1..k -> Sends] :
       /\ Len(heard) + k <= MaxHeard
       /\ heard' = heard \o chunk
  /\ LET weighed == Analyze(ports[port], bauds[rate])
         r == IF "version" \in Range(heard')
                THEN Answered(weighed, world[ports[port].device].model)
              ELSE weighed
     IN  /\ probe' = r
         /\ asks' = IF Stops(r) THEN "stop" ELSE "read"
  /\ UNCHANGED <<world, bauds, ports, port, rate, best, results, probes>>

\* The probe stopped, its time is over, its buffer is full, or a read failed.
ReadEnds ==
  /\ asks \in {"read", "stop"}
  /\ ProbeEnds(IF heard = <<>> THEN [probe EXCEPT !.reason = "no_data"] ELSE probe)

DiscoveryNext == List \/ OpenFails \/ Open \/ Read \/ ReadEnds

\* Of the sorted results this is the first.
SortedFirst(i) == \A j \in DOMAIN results \ {i} : SortsBefore(results[i], results[j])

-----------------------------------------------------------------------------
(* Properties.                                                             *)

\* A probe of the port at which more was heard, of no receiver: heartbeats
\* among the frames, or NMEA where that is no receiver (IsBetterProbeResult
\* compares the scores first).
Outweighed(i, j) ==
  \E k \in DOMAIN probes[i] :
    probes[i][k].family = "unknown" /\ probes[i][k].score > probes[i][j].score

\* A device that answered the version query at some baud rate is reported as
\* that receiver, at that baud rate, whatever was heard of it before and
\* beside it (receiver_discovery.cpp:1209 and the order of the probes).  A
\* receiver recognised at one baud rate is not lost to what the other baud
\* rates or ports brought, unless one of them outweighs it: its port names a
\* receiver, and so does the first result, which gnss_config_apply takes
\* (gnss_config_apply.cpp:335).
DiscoveryReports ==
  /\ \A i \in DOMAIN results : \A j \in DOMAIN probes[i] :
       /\ probes[i][j].verified => results[i] = probes[i][j] \/ Outweighed(i, j)
       /\ probes[i][j].family # "unknown" =>
            results[i].family # "unknown" \/ Outweighed(i, j)
  /\ (\E i \in DOMAIN results : results[i].family # "unknown") =>
       \E i \in DOMAIN results : SortedFirst(i) /\ results[i].family # "unknown"

\* Without a path of the user's every device is probed once, under the name
\* that stays the same when the devices are plugged in another order, if it
\* has one.
EachDeviceOnce ==
  asks = "done" /\ (\A i \in DOMAIN ports : ports[i].source # "explicit_path") =>
    \A d \in Devices :
      LET named == {n \in Names : n.device = d /\ (PlatformUarts \/ n.source # "platform_uart")}
          probed == {i \in DOMAIN results : results[i].name.device = d}
      IN  /\ Cardinality(probed) = IF named = {} THEN 0 ELSE 1
          /\ \A i \in probed :
               (\E n \in named : n.source = "serial_by_id") =>
                 results[i].name.source = "serial_by_id"

\* Every device is looked at once, and what answered is what is reported.
DiscoveryIsComplete == EachDeviceOnce /\ DiscoveryReports

\* "Silent ports are reported as `no_data` with no confidence."
\* (docs/tools.md:113)
SilentPortsExplained ==
  \A i \in DOMAIN results :
    (\A j \in DOMAIN probes[i] : probes[i][j].reason = "no_data") =>
      results[i].reason = "no_data"
=============================================================================
