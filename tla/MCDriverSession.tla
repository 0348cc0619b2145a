--------------------------- MODULE MCDriverSession ---------------------------
(* What is read from a stream: a driver session in its two halves, from     *)
(* bytes to records and from records to the receiver state, and the monitor *)
(* of an RTCM stream.  A behaviour is about one of them.                    *)
EXTENDS MCReceiverSession, MCSessionRuntime, RtcmCorrectionMonitor

CONSTANTS near, far

VARIABLE part

Frame(type, station, content) == [type |-> type, station |-> station, content |-> content]

\* What two stations send, and what is damaged on the way.
MCFrames ==
  {Frame("1005", s, "good") : s \in {near, far}}
  \cup {Frame("1077", s, c) : s \in {near, far}, c \in {"good", "empty"}}
  \cup {Frame("1087", far, "empty"), Frame("1007", far, "good"), Frame("1230", near, "empty"),
        Frame("1230", far, "good"), Frame("1005", near, "broken"), Frame("1077", near, "broken"),
        Frame("other", near, "good"), Frame("other", near, "corrupt")}

BytesPart ==
  part = "bytes" /\ SessionNext /\ UNCHANGED <<part, runtimeVars, monitorVars>>
RecordsPart ==
  part = "records" /\ RuntimeNext /\ UNCHANGED <<part, sessionVars, monitorVars>>
CorrectionsPart ==
  part = "corrections" /\ MonitorNext /\ UNCHANGED <<part, sessionVars, runtimeVars>>

DriverInit ==
  /\ SessionInit /\ RuntimeInit /\ MonitorInit
  /\ part \in {"bytes", "records", "corrections"}
  /\ part # "bytes" => config = "auto" /\ wire = <<0>>
  /\ part # "records" => kind = "nmea" /\ ~timed

DriverNext == BytesPart \/ RecordsPart \/ CorrectionsPart

DriverSpec ==
  DriverInit /\ [][DriverNext]_<<part, sessionVars, runtimeVars, monitorVars>>
==============================================================================
