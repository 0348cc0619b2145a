---------------------------- MODULE NmeaRecords -----------------------------
(***************************************************************************)
(* The NMEA sentences of a receiver: which ones are accepted, and what one *)
(* says of the receiver's state.  A sentence is a record of the values its *)
(* fields denote; NoValue is an empty field, Garbled is a text that cannot *)
(* be read or is out of its range, "complete" says that the fields the     *)
(* parser insists on are there.                                            *)
(***************************************************************************)
EXTENDS RuntimeState

NmeaTypes == {"GGA", "RMC", "GSA", "GSV", "GST", "VTG", "ZDA"}

Readable(s, optional, required) ==
  /\ s.checksum = "valid"
  /\ s.complete
  /\ \A f \in optional \cup required : s[f] # Garbled
  /\ \A f \in required : s[f] # NoValue

ParseNmeaGga(s) ==
  Readable(s, {"utc_time", "latitude", "longitude", "satellites_used", "hdop", "altitude"},
              {"fix_quality"})
ParseNmeaRmc(s) ==
  Readable(s, {"utc_time", "latitude", "longitude", "speed", "course", "date"}, {"status"})
ParseNmeaGsa(s) == Readable(s, {"satellites", "hdop", "vdop"}, {"fix_dimension"})
\* The numbers of a GSV message run from one to the total.
ParseNmeaGsv(s) ==
  /\ Readable(s, {"cn0"}, {"total", "index", "in_view"})
  /\ s.index \in 1..s.total
ParseNmeaGst(s) == Readable(s, {"utc_time", "horizontal_sigma", "vertical_sigma"}, {})
ParseNmeaVtg(s) == Readable(s, {"speed", "course"}, {})
ParseNmeaZda(s) == Readable(s, {}, {"utc_time", "date"})

-----------------------------------------------------------------------------
MapGgaFixQualityToFixType(quality) ==
  CASE quality = "invalid" -> "no_fix"
    [] quality = "differential" -> "dgps"
    [] quality = "rtk_fixed" -> "rtk_fixed"
    [] quality = "rtk_float" -> "rtk_float"
    [] OTHER -> "fix"

MapGgaFixQualityToRtkMode(quality) ==
  CASE quality = "rtk_fixed" -> "fixed"
    [] quality = "rtk_float" -> "float"
    [] OTHER -> "none"

NmeaGgaToRuntimeState(r) ==
  LET valid == r.fix_quality # "invalid"
      u == [NoUpdate(r.at) EXCEPT
              !.fix = [type |-> MapGgaFixQualityToFixType(r.fix_quality), valid |-> valid]]
      placed == IF valid
                  THEN Placing(u, [latitude |-> r.latitude, longitude |-> r.longitude,
                                   altitude |-> r.altitude])
                  ELSE ClearPositionValues(u)
  IN  Setting(placed, [rtk_mode |-> MapGgaFixQualityToRtkMode(r.fix_quality),
                       hdop |-> r.hdop, satellites_used |-> r.satellites_used])

\* Speed and course of a void sentence are cleared with the position.
NmeaRmcToRuntimeState(r) ==
  LET valid == r.status = "A"
      u == [NoUpdate(r.at) EXCEPT
              !.fix = [type |-> IF valid THEN "fix" ELSE "no_fix", valid |-> valid]]
      placed == IF valid
                  THEN Placing(u, [latitude |-> r.latitude, longitude |-> r.longitude])
                  ELSE ClearPositionValues(u)
  IN  Replacing(placed,
                [utc_date |-> r.date, utc_time |-> r.utc_time,
                 speed_over_ground |-> IF valid THEN r.speed ELSE NoValue,
                 course_over_ground |-> IF valid THEN r.course ELSE NoValue])

NmeaZdaToRuntimeState(r) ==
  Setting(NoUpdate(r.at), [utc_date |-> r.date, utc_time |-> r.utc_time])

NmeaVtgToRuntimeState(r) ==
  Replacing(NoUpdate(r.at), [speed_over_ground |-> r.speed, course_over_ground |-> r.course])

\* A dimension is a fix, but GSA carries no coordinates.
UpdateFixDimensionInState(u, dimension) ==
  CASE dimension = "none" ->
         ClearPositionValues([u EXCEPT !.fix = [type |-> "no_fix", valid |-> FALSE]])
    [] dimension \in {"2d", "3d"} -> [u EXCEPT !.fix = [type |-> dimension, valid |-> TRUE]]
    [] OTHER -> u

NmeaGsaToRuntimeState(r) ==
  Replacing(UpdateFixDimensionInState(NoUpdate(r.at), r.fix_dimension),
            [hdop |-> r.hdop, vdop |-> r.vdop, satellites_used |-> r.satellites])

NmeaGsvToRuntimeState(r) ==
  Replacing(NoUpdate(r.at), [satellites_visible |-> r.in_view, mean_cn0 |-> r.cn0,
                             max_cn0 |-> r.cn0])

NmeaGstToRuntimeState(r) ==
  Replacing(NoUpdate(r.at), [horizontal_accuracy |-> r.horizontal_sigma,
                             vertical_accuracy |-> r.vertical_sigma])
=============================================================================
