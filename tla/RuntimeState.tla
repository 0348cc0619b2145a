---------------------------- MODULE RuntimeState ----------------------------
(***************************************************************************)
(* The receiver state a driver session publishes, and how one more update  *)
(* is merged into it (GnssRuntimeAggregator).  An update says of a field   *)
(* that it has a value, that its value is gone, or nothing at all.  The    *)
(* aggregate keeps for every field the time of the update it came from.    *)
(* A field without a value is not in the domain of "value".                *)
(***************************************************************************)
EXTENDS Integers, FiniteSets, Sequences

CONSTANTS NoTime, NoValue, Garbled

Position == {"latitude", "longitude", "altitude"}
ClassicFields == {"rtk_mode", "horizontal_accuracy", "vertical_accuracy", "hdop", "vdop",
                  "satellites_used", "satellites_visible", "satellites_tracked",
                  "mean_cn0", "max_cn0", "correction_age"}
MotionFields == {"utc_date", "utc_time", "speed_over_ground", "course_over_ground",
                 "heading", "heading_accuracy"}
CorrectionFields == {"differential_corrections", "corrections_active"}
BaselineFields == {"dual_antenna_heading", "dual_antenna_baseline", "baseline_azimuth",
                   "baseline_pitch", "baseline_length", "baseline_solution_status"}
InterferenceFields == {"interference_detected", "jamming_detected"}
CapabilityFields ==
  ClassicFields \cup MotionFields \cup CorrectionFields \cup BaselineFields
    \cup InterferenceFields

UnknownFix == [type |-> "unknown", valid |-> FALSE]
EmptyFunction == [f \in {} |-> f]

\* The function f, and g where f is not defined.
Over(f, g) == [x \in DOMAIN f \cup DOMAIN g |-> IF x \in DOMAIN f THEN f[x] ELSE g[x]]

-----------------------------------------------------------------------------
\* Building updates.

\* The fields of g that have a value, with it; and the fields that have none.
Present(g) == [f \in {x \in DOMAIN g : g[x] # NoValue} |-> g[f]]
Absent(g) == {f \in DOMAIN g : g[f] = NoValue}

\* An update that says nothing.
NoUpdate(at) ==
  [at |-> at, fix |-> UnknownFix, offers |-> {}, set |-> EmptyFunction, clear |-> {}]

\* The values of g where there are some; a missing one says nothing.
Setting(u, g) ==
  [u EXCEPT !.offers = @ \cup DOMAIN g,
            !.set = Over(Present(g), @),
            !.clear = @ \ DOMAIN Present(g)]

Clearing(u, fields) ==
  [u EXCEPT !.offers = @ \cup fields,
            !.set = [f \in DOMAIN @ \ fields |-> @[f]],
            !.clear = @ \cup fields]

Omitting(u, fields) ==
  [u EXCEPT !.set = [f \in DOMAIN @ \ fields |-> @[f]], !.clear = @ \ fields]

\* The values of g where there are some; the other fields of g are cleared.
Replacing(u, g) == Clearing(Setting(u, g), Absent(g))

\* The position has no capability to be declared.
Placing(u, position) == [u EXCEPT !.set = Over(Present(position), @)]
ClearPositionValues(u) ==
  [u EXCEPT !.set = [f \in DOMAIN @ \ Position |-> @[f]], !.clear = @ \cup Position]

-----------------------------------------------------------------------------
\* Merging.

NoState ==
  [offers |-> {}, fix |-> UnknownFix, value |-> EmptyFunction, version |-> EmptyFunction]

\* Mutant: the latest update to arrive wins, whatever its time.
ShouldApplyAlways(state, slot, at) == TRUE

ShouldApply(state, slot, at) ==
  \/ slot \notin DOMAIN state.version
  \/ NoTime \in {at, state.version[slot]}
  \/ at >= state.version[slot]

CorrectionClass == {"dgps", "rtk_float", "rtk_fixed"}

\* An update that only knows the dimension of the solution does not take back
\* how it was corrected.
FixApplies(state, u) ==
  /\ u.fix.type # "unknown"
  /\ ShouldApply(state, "fix", u.at)
  /\ \/ u.fix.type \notin {"2d", "3d"}
     \/ state.fix.type \notin CorrectionClass
     \/ "rtk_mode" \in DOMAIN u.set

FieldsApplied(state, u) ==
  LET known == Position \cup (u.offers \cap CapabilityFields)
  IN  {f \in (DOMAIN u.set \cup u.clear) \cap known : ShouldApply(state, f, u.at)}

Merge(state, u) ==
  LET fields == FieldsApplied(state, u)
      slots == IF FixApplies(state, u) THEN fields \cup {"fix"} ELSE fields
      kept == DOMAIN state.value \ (fields \ DOMAIN u.set)
  IN  [offers |-> state.offers \cup u.offers,
       fix |-> IF FixApplies(state, u) THEN u.fix ELSE state.fix,
       value |-> [f \in kept \cup (fields \cap DOMAIN u.set) |->
                    IF f \in fields THEN u.set[f] ELSE state.value[f]],
       version |-> Over([s \in slots |-> u.at], state.version)]
=============================================================================
