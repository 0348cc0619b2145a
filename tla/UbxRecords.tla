----------------------------- MODULE UbxRecords -----------------------------
(***************************************************************************)
(* The UBX messages of a receiver: which ones are accepted, and what one   *)
(* says of the receiver's state.  A frame is a record of what its payload  *)
(* denotes; "sized" says that the payload has the length its type, or its  *)
(* own count of blocks, asks for.                                          *)
(***************************************************************************)
EXTENDS RuntimeState

CONSTANTS MaxSatellites, MaxBlocks

UbxTypes == {"NAV-PVT", "NAV-STATUS", "NAV-DOP", "NAV-SAT", "MON-HW", "MON-HW2", "MON-RF",
             "RXM-RTCM"}

Sound(f) == f.checksum = "valid" /\ f.sized

ParseUbxNavPvt(f) == Sound(f)
ParseUbxNavStatus(f) == Sound(f)
ParseUbxNavDop(f) == Sound(f)
ParseUbxNavSat(f) == Sound(f) /\ f.version = 1 /\ f.satellites <= MaxSatellites
ParseUbxMonHw(f) == Sound(f)
ParseUbxMonHw2(f) == Sound(f)
ParseUbxMonRf(f) == Sound(f) /\ f.version = 0 /\ Len(f.blocks) <= MaxBlocks
ParseUbxRxmRtcm(f) == Sound(f) /\ f.version = 2

-----------------------------------------------------------------------------
SetCorrectionState(u, differential) ==
  Setting(u, [differential_corrections |-> differential, corrections_active |-> differential])

SolutionFields == {"horizontal_accuracy", "vertical_accuracy", "heading", "heading_accuracy"}
\* Mutant: the accuracies go, the coordinates stay.
UbxClearAccuracies(u) == Clearing(u, SolutionFields)

UbxClearPositionSolutionValues(u) == Clearing(ClearPositionValues(u), SolutionFields)

\* The solution a receiver is sure of, by the kind it reports.
Solved(kind) ==
  CASE kind = "2d" -> "2d" [] kind = "3d" -> "3d" [] kind = "combined" -> "fix"

UbxFix(kind, sure) ==
  CASE kind \in {"none", "time_only"} -> [type |-> "no_fix", valid |-> FALSE]
    [] kind = "dead_reckoning" -> [type |-> "dead_reckoning", valid |-> FALSE]
    [] kind \in {"2d", "3d", "combined"} /\ sure -> [type |-> Solved(kind), valid |-> TRUE]
    [] kind \in {"2d", "3d"} /\ ~sure -> [type |-> "no_fix", valid |-> FALSE]
    [] kind = "combined" /\ ~sure -> [type |-> "dead_reckoning", valid |-> FALSE]
    [] OTHER -> UnknownFix

\* The carrier solution is only believed when the status says so.
UbxNavStatusToRuntimeState(r) ==
  LET fix == UbxFix(r.kind, r.gnss_fix_ok)
      u == SetCorrectionState([NoUpdate(r.at) EXCEPT !.fix = fix, !.offers = {"rtk_mode"}],
                              r.differential)
      placed == IF fix.type # "unknown" /\ ~fix.valid
                  THEN UbxClearPositionSolutionValues(u)
                  ELSE u
  IN  IF r.carrier_valid THEN Setting(placed, [rtk_mode |-> r.carrier]) ELSE placed

PositionValid(r) ==
  /\ ~r.invalid_llh
  /\ r.kind \in {"2d", "3d", "combined"}
  /\ r.gnss_fix_ok

UbxNavPvtToRuntimeState(r) ==
  LET u == SetCorrectionState(
             Setting([NoUpdate(r.at) EXCEPT !.fix = UbxFix(r.kind, PositionValid(r))],
                     [rtk_mode |-> r.carrier, satellites_used |-> r.satellites_used]),
             r.differential)
      placed == IF PositionValid(r)
                  THEN Replacing(
                         Placing(u, [latitude |-> r.latitude, longitude |-> r.longitude,
                                     altitude |-> r.altitude]),
                         [horizontal_accuracy |-> r.sigma, vertical_accuracy |-> r.sigma,
                          heading |-> r.heading, heading_accuracy |-> r.heading])
                  ELSE UbxClearPositionSolutionValues(u)
  IN  Replacing(placed,
                [utc_date |-> r.date, utc_time |-> r.utc_time,
                 speed_over_ground |-> IF PositionValid(r) THEN r.speed ELSE NoValue,
                 course_over_ground |-> IF PositionValid(r) THEN r.course ELSE NoValue])

UbxNavDopToRuntimeState(r) == Setting(NoUpdate(r.at), [hdop |-> r.hdop, vdop |-> r.vdop])

UbxNavSatToRuntimeState(r) ==
  Setting(NoUpdate(r.at), [satellites_visible |-> r.satellites, satellites_used |-> r.used,
                           mean_cn0 |-> r.cn0, max_cn0 |-> r.cn0])

\* Only a known state of the monitor says anything.
Interference(u, known, issue) ==
  Setting(u, [interference_detected |-> IF known THEN issue ELSE NoValue,
              jamming_detected |-> IF known THEN issue ELSE NoValue])

Alarming == {"warning", "critical"}

UbxMonHwToRuntimeState(r) ==
  IF r.layout = "classic"
    THEN Interference(NoUpdate(r.at), r.jamming # "unknown", r.jamming \in Alarming)
    ELSE NoUpdate(r.at)

UbxMonRfToRuntimeState(r) ==
  LET seen == {r.blocks[i] : i \in DOMAIN r.blocks} \ {"unknown"}
  IN  IF r.blocks = <<>>
        THEN NoUpdate(r.at)
        ELSE Interference(NoUpdate(r.at), seen # {}, seen \cap Alarming # {})
=============================================================================
