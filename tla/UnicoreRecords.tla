--------------------------- MODULE UnicoreRecords ---------------------------
(***************************************************************************)
(* The native Unicore logs, as text lines and as binary frames: which ones *)
(* are accepted, and what one says of the receiver's state.  A record is   *)
(* what its fields denote, with NoValue for an empty field and Garbled for *)
(* one that cannot be read; "complete" says that the header and the fields *)
(* the parser insists on are there, or that the payload has its length.    *)
(***************************************************************************)
EXTENDS RuntimeState

CONSTANTS MaxBestSat, MaxSatsInfo

UnicoreLogs == {"PVTSLNA", "BESTNAVA", "RTKSTATUSA", "RTCMSTATUSA", "SATSINFOA", "BESTSATA",
                "JAMSTATUSA", "FREQJAMSTATUSA", "HWSTATUSA", "AGCA"}
UnicoreBinaryLogs == {"BESTNAVB", "PVTSLNB"}

Legible(l, fields) == l.checksum = "valid" /\ l.complete /\ \A f \in fields : l[f] # Garbled

\* The coordinates must be numbers whatever the solution; a type that is not
\* in the table is read as unknown, not refused.
ParseUnicorePvtsln(l) ==
  /\ Legible(l, {"latitude", "longitude", "altitude", "sigma", "tracked", "used", "hdop",
                 "correction_age", "length", "azimuth", "pitch"})
  /\ NoValue \notin {l.latitude, l.longitude, l.altitude}
ParseUnicoreBestNav(l) ==
  /\ Legible(l, {"latitude", "longitude", "altitude", "sigma", "tracked", "used",
                 "correction_age"})
  /\ NoValue \notin {l.latitude, l.longitude, l.altitude}
ParseUnicoreRtkStatus(l) == Legible(l, {"calculation"})
ParseUnicoreRtcmStatus(l) == Legible(l, {"message_type"})
ParseUnicoreBestSat(l) == Legible(l, {"satellites"}) /\ l.satellites <= MaxBestSat
ParseUnicoreSatsInfo(l) == Legible(l, {"satellites"}) /\ l.satellites <= MaxSatsInfo
ParseUnicoreJamStatus(l) == Legible(l, {"jamming"})
ParseUnicoreFreqJamStatus(l) == Legible(l, {"ratios"})
ParseUnicoreHwStatus(l) == Legible(l, {"voltages"})
ParseUnicoreAgc(l) == Legible(l, {"registers"})
ParseUnicoreBestNavB(f) == f.checksum = "valid" /\ f.complete
ParseUnicorePvtslnB(f) == f.checksum = "valid" /\ f.complete

-----------------------------------------------------------------------------
\* Position types: "float" and "int" stand for the four of each, "single" for
\* the ones without corrections, "ppp" for PPP and its convergence.
MapFixType(type) ==
  CASE type = "none" -> "no_fix"
    [] type = "float" -> "rtk_float"
    [] type = "int" -> "rtk_fixed"
    [] type = "ins" -> "dead_reckoning"
    [] type = "psrdiff" -> "dgps"
    [] type \in {"single", "sbas", "ppp"} -> "fix"
    [] OTHER -> "unknown"

MapRtkMode(type) ==
  CASE type = "float" -> "float"
    [] type = "int" -> "fixed"
    [] type \in {"none", "single", "psrdiff", "sbas", "ins", "ppp"} -> "none"
    [] OTHER -> NoValue

MapDifferentialCorrections(type) ==
  CASE type \in {"psrdiff", "sbas", "float", "int"} -> TRUE
    [] type \in {"none", "single", "ins"} -> FALSE
    [] OTHER -> NoValue

AccuracyFields == {"horizontal_accuracy", "vertical_accuracy"}
UnicoreClearPositionSolutionValues(u) == Clearing(ClearPositionValues(u), AccuracyFields)

ApplyFixType(u, type) ==
  LET fix == MapFixType(type)
      typed == [u EXCEPT !.fix = [type |-> fix, valid |-> fix \notin {"unknown", "no_fix"}]]
  IN  IF fix = "no_fix" THEN UnicoreClearPositionSolutionValues(typed) ELSE typed

ApplyRtkMode(u, type) == Setting(u, [rtk_mode |-> MapRtkMode(type)])

ApplyCorrectionState(u, type) ==
  Setting(u, [differential_corrections |-> MapDifferentialCorrections(type),
              corrections_active |-> MapDifferentialCorrections(type)])

\* A solution that was not computed is no fix, whatever type it names.
Uncomputed(u) ==
  IF u.fix.type = "unknown"
    THEN u
    ELSE UnicoreClearPositionSolutionValues(
           [u EXCEPT !.fix = [type |-> "no_fix", valid |-> FALSE]])

\* The accuracies are only spoken of with a fix, and never cleared by one.
PlaceSolution(u, r) ==
  IF u.fix.valid
    THEN Setting(Placing(u, [latitude |-> r.latitude, longitude |-> r.longitude,
                             altitude |-> r.altitude]),
                 [horizontal_accuracy |-> r.sigma, vertical_accuracy |-> r.sigma])
    ELSE u

SetTrackedAndUsedSatellites(u, tracked, used) ==
  Setting(u, [satellites_tracked |-> tracked, satellites_used |-> used])

ToBaselineSolutionStatus(status) ==
  CASE status \in {"computed", "within_limit"} -> "computed"
    [] status \in {"insufficient", "no_convergence", "cov_trace", "not_solved",
                   "out_of_limit", "not_configured"} -> status
    [] OTHER -> NoValue

SetCanonicalBaselineStatus(u, status) ==
  LET canonical == ToBaselineSolutionStatus(status)
      solved == IF canonical = NoValue THEN NoValue ELSE canonical = "computed"
  IN  Setting(u, [baseline_solution_status |-> canonical, dual_antenna_baseline |-> solved,
                  dual_antenna_heading |-> solved])

GeometryFields == {"heading", "baseline_azimuth", "baseline_pitch", "baseline_length"}

\* The geometry of a baseline that is known not to be solved disappears.
SetBaselineGeometryAndCompatibilityHeading(u, r) ==
  LET canonical == SetCanonicalBaselineStatus([u EXCEPT !.offers = @ \cup GeometryFields],
                                              r.baseline)
  IN  CASE r.baseline = "computed" ->
             Setting(canonical, [baseline_length |-> r.length, baseline_azimuth |-> r.azimuth,
                                 heading |-> r.azimuth, baseline_pitch |-> r.pitch])
        [] r.baseline = "unknown" -> canonical
        [] OTHER -> Clearing(canonical, GeometryFields)

UnicorePvtslnToRuntimeState(r) ==
  LET typed == ApplyCorrectionState(
                 ApplyRtkMode(ApplyFixType(NoUpdate(r.at), r.type), r.type), r.type)
      counted == SetTrackedAndUsedSatellites(PlaceSolution(typed, r), r.tracked, r.used)
  IN  SetBaselineGeometryAndCompatibilityHeading(
        Setting(counted, [correction_age |-> r.correction_age, hdop |-> r.hdop]), r)

UnicoreBestNavToRuntimeState(r) ==
  LET typed == ApplyFixType(NoUpdate(r.at), r.type)
      judged == IF r.solution = "computed" THEN typed ELSE Uncomputed(typed)
      corrected == ApplyCorrectionState(ApplyRtkMode(judged, r.type), r.type)
      counted == SetTrackedAndUsedSatellites(PlaceSolution(corrected, r), r.tracked, r.used)
  IN  Setting(counted, [correction_age |-> r.correction_age])

UnicoreRtkStatusToRuntimeState(r) ==
  SetCanonicalBaselineStatus(
    ApplyCorrectionState(ApplyRtkMode(ApplyFixType(NoUpdate(r.at), r.type), r.type), r.type),
    r.baseline)

UnicoreBestSatToRuntimeState(r) ==
  SetTrackedAndUsedSatellites(NoUpdate(r.at), r.satellites, r.used)

UnicoreSatsInfoToRuntimeState(r) ==
  Setting(NoUpdate(r.at), [satellites_tracked |-> r.satellites, mean_cn0 |-> r.cn0,
                           max_cn0 |-> r.cn0])

ApplyJammingState(u, status) ==
  LET detected == IF status = "unknown" THEN NoValue ELSE status # "none"
  IN  Setting(u, [interference_detected |-> detected, jamming_detected |-> detected])

UnicoreJamStatusToRuntimeState(r) == ApplyJammingState(NoUpdate(r.at), r.jamming)

\* The worst of the bands; a band that is not known says nothing.
UnicoreFreqJamStatusToRuntimeState(r) ==
  LET bands == {r.bands[i] : i \in DOMAIN r.bands}
      worst == CASE "strong" \in bands -> "strong"
                 [] "jamming" \in bands /\ "strong" \notin bands -> "jamming"
                 [] bands \cap {"strong", "jamming"} = {} /\ "none" \in bands -> "none"
                 [] OTHER -> "unknown"
  IN  ApplyJammingState(NoUpdate(r.at), worst)
=============================================================================
