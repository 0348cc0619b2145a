---------------------- MODULE MCRtcmCorrectionMonitor -----------------------
(* Two stations; what each of them sends, and what is damaged on the way.  *)
EXTENDS RtcmCorrectionMonitor

CONSTANTS near, far

Frame(type, station, content) == [type |-> type, station |-> station, content |-> content]

MCFrames ==
  {Frame("1005", s, "good") : s \in {near, far}}
  \cup {Frame("1077", s, c) : s \in {near, far}, c \in {"good", "empty"}}
  \cup {Frame("1087", near, "good"), Frame("1087", far, "empty"), Frame("1007", far, "good"),
        Frame("1230", near, "empty"), Frame("1230", far, "good"), Frame("1005", near, "broken"),
        Frame("1077", near, "broken"), Frame("other", near, "good"),
        Frame("other", near, "corrupt")}
==============================================================================
