-------------------------- MODULE MCSessionRuntime --------------------------
(* One record or two of each kind: positions at two places, records that   *)
(* say there is none, records that cannot be read, GSV cycles of several   *)
(* lengths.                                                                 *)
EXTENDS SessionRuntime, TLC

Sentence(type) == [type |-> type, checksum |-> "valid", complete |-> TRUE]

Gga(quality, place, utc) ==
  Sentence("GGA") @@ [fix_quality |-> quality, latitude |-> place, longitude |-> place,
                      altitude |-> place, utc_time |-> utc, satellites_used |-> 3, hdop |-> 1]
Rmc(status, place) ==
  Sentence("RMC") @@ [status |-> status, latitude |-> place, longitude |-> place,
                      utc_time |-> 0, date |-> NoValue, speed |-> 1, course |-> NoValue]
Gsa(dimension) ==
  Sentence("GSA") @@ [fix_dimension |-> dimension, satellites |-> 3, hdop |-> 1,
                      vdop |-> NoValue]
Gsv(index, total) ==
  Sentence("GSV") @@ [talker |-> CHOOSE t \in Talkers : TRUE, index |-> index,
                      total |-> total, in_view |-> 4, satellites |-> 2,
                      cn0 |-> IF index = 1 THEN 1 ELSE NoValue]
Gst == Sentence("GST") @@ [utc_time |-> 0, horizontal_sigma |-> 1, vertical_sigma |-> NoValue]
Vtg == Sentence("VTG") @@ [speed |-> 1, course |-> 1]
Zda == Sentence("ZDA") @@ [utc_time |-> 0, date |-> 1]

MCSentences ==
  {Gga("gps", 1, 0), Gga("rtk_fixed", 2, 7), Gga("invalid", NoValue, NoValue),
   Gga("gps", Garbled, 0), Rmc("A", 1), Rmc("V", NoValue), Gsa("none"), Gsa("3d"),
   Gsv(1, 2), Gsv(2, 2), Gsv(2, 3), Gsv(3, 3), Gsv(2, 4), Gst, Vtg, Zda}

Pvt(kind_, place, ok) ==
  [type |-> "NAV-PVT", checksum |-> "valid", sized |-> TRUE, kind |-> kind_,
   gnss_fix_ok |-> ok, invalid_llh |-> FALSE, carrier |-> "none", differential |-> FALSE,
   latitude |-> place, longitude |-> place, altitude |-> place, sigma |-> 1,
   satellites_used |-> 3, heading |-> NoValue, date |-> NoValue, utc_time |-> 0,
   speed |-> 1, course |-> 1, tow |-> place]
Status(kind_) ==
  [type |-> "NAV-STATUS", checksum |-> "valid", sized |-> TRUE, kind |-> kind_,
   gnss_fix_ok |-> TRUE, carrier_valid |-> TRUE, carrier |-> "float", differential |-> TRUE]

MCUbxFrames ==
  {Pvt("3d", 1, TRUE), Pvt("combined", 2, TRUE), Pvt("3d", 2, FALSE), Pvt("unknown", 1, TRUE),
   Status("3d"), Status("none"),
   [type |-> "NAV-DOP", checksum |-> "valid", sized |-> TRUE, hdop |-> 1, vdop |-> 1],
   [type |-> "NAV-SAT", checksum |-> "valid", sized |-> TRUE, version |-> 1,
    satellites |-> 2, used |-> 1, cn0 |-> 1],
   [type |-> "MON-HW", checksum |-> "valid", sized |-> TRUE, layout |-> "classic",
    jamming |-> "warning"],
   [type |-> "MON-RF", checksum |-> "valid", sized |-> TRUE, version |-> 0,
    blocks |-> <<"unknown", "ok">>],
   [type |-> "RXM-RTCM", checksum |-> "valid", sized |-> TRUE, version |-> 2]}

Log(name) == [log |-> name, checksum |-> "valid", complete |-> TRUE]
Solution(name, position, place) ==
  Log(name) @@ [type |-> position, latitude |-> place, longitude |-> place,
                altitude |-> place, sigma |-> 1, tracked |-> 4, used |-> 3,
                correction_age |-> NoValue, epoch |-> place]
Pvtsln(name, position, place, status) ==
  Solution(name, position, place)
    @@ [hdop |-> 1, baseline |-> status, length |-> 1, azimuth |-> 1, pitch |-> NoValue]
BestNav(name, position, place, status) ==
  Solution(name, position, place) @@ [solution |-> status]

MCUnicoreLines ==
  {Pvtsln("PVTSLNA", "int", 1, "computed"), Pvtsln("PVTSLNA", "unknown", 1, "insufficient"),
   Pvtsln("PVTSLNA", "none", 2, "unknown"), BestNav("BESTNAVA", "single", 2, "computed"),
   BestNav("BESTNAVA", "float", 2, "insufficient"),
   Log("RTKSTATUSA") @@ [type |-> "float", calculation |-> 1, baseline |-> "within_limit"],
   Log("RTCMSTATUSA") @@ [message_type |-> 1005],
   Log("SATSINFOA") @@ [satellites |-> 2, cn0 |-> 1],
   Log("BESTSATA") @@ [satellites |-> 2, used |-> 1],
   Log("JAMSTATUSA") @@ [jamming |-> "jamming"],
   Log("FREQJAMSTATUSA") @@ [ratios |-> 1, bands |-> <<"none", "unknown", "strong">>],
   Log("HWSTATUSA") @@ [voltages |-> Garbled], Log("AGCA") @@ [registers |-> 1]}

MCUnicoreFrames ==
  {BestNav("BESTNAVB", "psrdiff", 1, "computed"), Pvtsln("PVTSLNB", "int", 2, "computed"),
   [log |-> "PVTSLNB", checksum |-> "valid", complete |-> FALSE], Log("TIMEB")}

MCLateness == [ublox |-> 0, nmea |-> 1, unicore |-> 0]
=============================================================================
