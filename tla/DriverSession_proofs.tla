------------------------ MODULE DriverSession_proofs -------------------------
(***************************************************************************)
(* Theorems about what the driver sessions keep, for every set of records  *)
(* that a receiver may send and every time at which they may arrive, and   *)
(* about the monitor of the corrections, for every stream of frames.       *)
(***************************************************************************)
EXTENDS SessionRuntime, RtcmCorrectionMonitor, FiniteSetTheorems, SequenceTheorems,
        WellFoundedInduction, TLAPS

-----------------------------------------------------------------------------
\* Updates, whatever they are put together from.

IsUpdate(u) == DOMAIN u = {"at", "fix", "offers", "set", "clear"}

\* v says of the time, of the fix and of the position what u says.
Agrees(u, v) ==
  /\ IsUpdate(v)
  /\ v.at = u.at
  /\ v.fix = u.fix
  /\ \A p \in Position : p \in DOMAIN v.set <=> p \in DOMAIN u.set
  /\ \A p \in Position : p \in v.clear <=> p \in u.clear
  /\ "rtk_mode" \in DOMAIN u.set => "rtk_mode" \in DOMAIN v.set

LEMMA AgreesSelf == \A u : IsUpdate(u) => Agrees(u, u)
BY DEF Agrees

LEMMA AgreesChain == \A u, v, w : Agrees(u, v) /\ Agrees(v, w) => Agrees(u, w)
BY DEF Agrees

LEMMA AgreesFix == \A u, v : Agrees(u, v) => IsUpdate(v) /\ v.at = u.at /\ v.fix = u.fix
BY DEF Agrees

LEMMA NoUpdateSays ==
  \A at : /\ IsUpdate(NoUpdate(at))
          /\ NoUpdate(at).at = at /\ NoUpdate(at).fix = UnknownFix
          /\ DOMAIN NoUpdate(at).set = {} /\ NoUpdate(at).clear = {}
BY DEF NoUpdate, IsUpdate, EmptyFunction

LEMMA JoinDomain == \A f, g : DOMAIN Over(f, g) = DOMAIN f \cup DOMAIN g
BY DEF Over

LEMMA SettingSays ==
  \A u, g : IsUpdate(u) =>
    /\ IsUpdate(Setting(u, g))
    /\ Setting(u, g).at = u.at /\ Setting(u, g).fix = u.fix
    /\ DOMAIN Setting(u, g).set = DOMAIN Present(g) \cup DOMAIN u.set
    /\ Setting(u, g).clear = u.clear \ DOMAIN Present(g)
BY JoinDomain DEF Setting, IsUpdate

LEMMA ClearingSays ==
  \A u, fields : IsUpdate(u) =>
    /\ IsUpdate(Clearing(u, fields))
    /\ Clearing(u, fields).at = u.at /\ Clearing(u, fields).fix = u.fix
    /\ DOMAIN Clearing(u, fields).set = DOMAIN u.set \ fields
    /\ Clearing(u, fields).clear = u.clear \cup fields
BY DEF Clearing, IsUpdate

LEMMA OmittingSays ==
  \A u, fields : IsUpdate(u) =>
    /\ IsUpdate(Omitting(u, fields))
    /\ Omitting(u, fields).at = u.at /\ Omitting(u, fields).fix = u.fix
    /\ DOMAIN Omitting(u, fields).set = DOMAIN u.set \ fields
    /\ Omitting(u, fields).clear = u.clear \ fields
BY DEF Omitting, IsUpdate

LEMMA PlacingSays ==
  \A u, g : IsUpdate(u) =>
    /\ IsUpdate(Placing(u, g))
    /\ Placing(u, g).at = u.at /\ Placing(u, g).fix = u.fix
    /\ DOMAIN Placing(u, g).set = DOMAIN Present(g) \cup DOMAIN u.set
    /\ Placing(u, g).clear = u.clear
BY JoinDomain DEF Placing, IsUpdate

LEMMA ClearPositionSays ==
  \A u : IsUpdate(u) =>
    /\ IsUpdate(ClearPositionValues(u))
    /\ ClearPositionValues(u).at = u.at /\ ClearPositionValues(u).fix = u.fix
    /\ DOMAIN ClearPositionValues(u).set = DOMAIN u.set \ Position
    /\ ClearPositionValues(u).clear = u.clear \cup Position
BY DEF ClearPositionValues, IsUpdate

LEMMA FixingSays ==
  \A u, fix : IsUpdate(u) =>
    /\ IsUpdate([u EXCEPT !.fix = fix])
    /\ [u EXCEPT !.fix = fix].at = u.at /\ [u EXCEPT !.fix = fix].fix = fix
    /\ [u EXCEPT !.fix = fix].set = u.set /\ [u EXCEPT !.fix = fix].clear = u.clear
BY DEF IsUpdate

LEMMA OfferingSays ==
  \A u, fields : IsUpdate(u) =>
    Agrees(u, [u EXCEPT !.offers = @ \cup fields])
BY DEF IsUpdate, Agrees

\* What sets, clears or leaves out other fields than the position.
LEMMA PresentOnly == \A g : DOMAIN Present(g) \subseteq DOMAIN g
BY DEF Present

LEMMA SettingAgrees ==
  \A u, g : IsUpdate(u) /\ DOMAIN g \cap Position = {} => Agrees(u, Setting(u, g))
BY SettingSays, PresentOnly DEF Agrees

LEMMA ClearingAgrees ==
  \A u, fields :
    IsUpdate(u) /\ fields \cap Position = {} /\ "rtk_mode" \notin fields =>
      Agrees(u, Clearing(u, fields))
BY ClearingSays DEF Agrees

LEMMA OmittingAgrees ==
  \A u, fields :
    IsUpdate(u) /\ fields \cap Position = {} /\ "rtk_mode" \notin fields =>
      Agrees(u, Omitting(u, fields))
BY OmittingSays DEF Agrees

LEMMA ReplacingAgrees ==
  \A u, g :
    IsUpdate(u) /\ DOMAIN g \cap Position = {} /\ "rtk_mode" \notin DOMAIN g =>
      Agrees(u, Replacing(u, g))
<1> TAKE u, g
<1> HAVE IsUpdate(u) /\ DOMAIN g \cap Position = {} /\ "rtk_mode" \notin DOMAIN g
<1>1. Agrees(u, Setting(u, g))
  BY SettingAgrees
<1>2. Absent(g) \cap Position = {} /\ "rtk_mode" \notin Absent(g)
  BY DEF Absent
<1>3. Agrees(Setting(u, g), Clearing(Setting(u, g), Absent(g)))
  BY <1>1, <1>2, ClearingAgrees, AgreesFix
<1> QED
  BY <1>1, <1>3, AgreesChain DEF Replacing

-----------------------------------------------------------------------------
\* What an update may say of the fix and the position together: coordinates
\* come with a fix that will be believed, and no fix takes them away.
Sane(u) ==
  /\ \A p \in Position : p \in DOMAIN u.set =>
       /\ u.fix.type # "unknown"
       /\ u.fix.valid
       /\ u.fix.type \in {"2d", "3d"} => "rtk_mode" \in DOMAIN u.set
  /\ u.fix.type # "unknown" /\ ~u.fix.valid =>
       \A p \in Position : p \in u.clear /\ p \notin DOMAIN u.set

LEMMA SaneAgrees == \A u, v : Agrees(u, v) /\ Sane(u) => Sane(v)
BY DEF Agrees, Sane

\* An update of nothing but other fields.
Plain(u, at) ==
  /\ IsUpdate(u)
  /\ u.at = at
  /\ u.fix = UnknownFix
  /\ \A p \in Position : p \notin DOMAIN u.set /\ p \notin u.clear

LEMMA PlainNone == \A at : Plain(NoUpdate(at), at)
BY NoUpdateSays DEF Plain

LEMMA PlainAgrees == \A u, v, at : Plain(u, at) /\ Agrees(u, v) => Plain(v, at)
BY DEF Plain, Agrees

LEMMA PlainSane == \A u, at : Plain(u, at) => Sane(u)
BY DEF Plain, Sane, UnknownFix

LEMMA PlainIsUpdate == \A u, at : Plain(u, at) => IsUpdate(u) /\ u.at = at
BY DEF Plain

LEMMA GgaSays ==
  \A r : LET u == NmeaGgaToRuntimeState(r)
         IN  /\ IsUpdate(u) /\ u.at = r.at /\ Sane(u)
             /\ u.fix.valid => \A p \in Position : p \notin u.clear
<1> TAKE r
<1> DEFINE valid == r.fix_quality # "invalid"
           fix == [type |-> MapGgaFixQualityToFixType(r.fix_quality), valid |-> valid]
           fixed == [NoUpdate(r.at) EXCEPT !.fix = fix]
           position == [latitude |-> r.latitude, longitude |-> r.longitude,
                        altitude |-> r.altitude]
           placed == IF valid THEN Placing(fixed, position) ELSE ClearPositionValues(fixed)
           values == [rtk_mode |-> MapGgaFixQualityToRtkMode(r.fix_quality),
                      hdop |-> r.hdop, satellites_used |-> r.satellites_used]
           u == NmeaGgaToRuntimeState(r)
<1>1. u = Setting(placed, values)
  BY DEF NmeaGgaToRuntimeState
<1>2. /\ IsUpdate(fixed) /\ fixed.at = r.at /\ fixed.fix = fix
      /\ DOMAIN fixed.set = {} /\ fixed.clear = {}
  BY NoUpdateSays, FixingSays
<1>3. /\ fix.type \notin {"unknown", "2d", "3d"} /\ fix.valid = valid
  BY DEF MapGgaFixQualityToFixType
<1>4. DOMAIN values \cap Position = {}
  BY DEF Position
<1> HIDE DEF fix, fixed, values, position, u
<1>5. CASE valid
  <2>1. IsUpdate(placed) /\ placed.at = r.at /\ placed.fix = fix /\ placed.clear = {}
    BY <1>2, <1>5, PlacingSays
  <2>2. Sane(placed)
    BY <2>1, <1>3, <1>5 DEF Sane
  <2> HIDE DEF placed
  <2>3. Agrees(placed, u)
    BY <2>1, <1>1, <1>4, SettingAgrees
  <2>4. IsUpdate(u) /\ u.at = r.at /\ Sane(u) /\ \A p \in Position : p \notin u.clear
    BY <2>1, <2>2, <2>3, SaneAgrees DEF Agrees
  <2> QED
    BY <2>4 DEF u
<1>6. CASE ~valid
  <2>1. /\ IsUpdate(placed) /\ placed.at = r.at /\ placed.fix = fix
        /\ Position \subseteq placed.clear /\ DOMAIN placed.set \cap Position = {}
    BY <1>2, <1>6, ClearPositionSays
  <2>2. Sane(placed)
    BY <2>1, <1>3, <1>6 DEF Sane
  <2> HIDE DEF placed
  <2>3. Agrees(placed, u)
    BY <2>1, <1>1, <1>4, SettingAgrees
  <2>4. IsUpdate(u) /\ u.at = r.at /\ Sane(u) /\ ~u.fix.valid
    BY <2>1, <2>2, <2>3, <1>3, <1>6, SaneAgrees DEF Agrees
  <2> QED
    BY <2>4 DEF u
<1> QED
  BY <1>5, <1>6

LEMMA RmcSays ==
  \A r : LET u == NmeaRmcToRuntimeState(r) IN IsUpdate(u) /\ u.at = r.at /\ Sane(u)
<1> TAKE r
<1> DEFINE valid == r.status = "A"
           fix == [type |-> IF valid THEN "fix" ELSE "no_fix", valid |-> valid]
           fixed == [NoUpdate(r.at) EXCEPT !.fix = fix]
           position == [latitude |-> r.latitude, longitude |-> r.longitude]
           placed == IF valid THEN Placing(fixed, position) ELSE ClearPositionValues(fixed)
           values == [utc_date |-> r.date, utc_time |-> r.utc_time,
                      speed_over_ground |-> IF valid THEN r.speed ELSE NoValue,
                      course_over_ground |-> IF valid THEN r.course ELSE NoValue]
           u == NmeaRmcToRuntimeState(r)
<1>1. u = Replacing(placed, values)
  BY DEF NmeaRmcToRuntimeState
<1>2. /\ IsUpdate(fixed) /\ fixed.at = r.at /\ fixed.fix = fix
      /\ DOMAIN fixed.set = {} /\ fixed.clear = {}
  BY NoUpdateSays, FixingSays
<1>3. /\ fix.type \notin {"unknown", "2d", "3d"} /\ fix.valid = valid
  OBVIOUS
<1>4. DOMAIN values \cap Position = {} /\ "rtk_mode" \notin DOMAIN values
  BY DEF Position
<1> HIDE DEF fix, fixed, values, position, u
<1>5. IsUpdate(placed) /\ placed.at = r.at /\ placed.fix = fix
  BY <1>2, PlacingSays, ClearPositionSays
<1>6. ~valid => Position \subseteq placed.clear /\ DOMAIN placed.set \cap Position = {}
  BY <1>2, ClearPositionSays
<1>7. Sane(placed)
  BY <1>3, <1>5, <1>6 DEF Sane
<1> HIDE DEF placed
<1>8. Agrees(placed, u)
  BY <1>1, <1>4, <1>5, ReplacingAgrees
<1>9. IsUpdate(u) /\ u.at = r.at /\ Sane(u)
  BY <1>5, <1>7, <1>8, SaneAgrees, AgreesFix
<1> QED
  BY <1>9 DEF u

LEMMA GsaSays ==
  \A r : LET u == NmeaGsaToRuntimeState(r) IN IsUpdate(u) /\ u.at = r.at /\ Sane(u)
<1> TAKE r
<1> DEFINE none == NoUpdate(r.at)
           dimensioned == UpdateFixDimensionInState(none, r.fix_dimension)
           values == [hdop |-> r.hdop, vdop |-> r.vdop, satellites_used |-> r.satellites]
           u == NmeaGsaToRuntimeState(r)
<1>1. u = Replacing(dimensioned, values)
  BY DEF NmeaGsaToRuntimeState
<1>2. DOMAIN values \cap Position = {} /\ "rtk_mode" \notin DOMAIN values
  BY DEF Position
<1>3. /\ IsUpdate(none) /\ none.at = r.at /\ none.fix = UnknownFix
      /\ DOMAIN none.set = {} /\ none.clear = {}
  BY NoUpdateSays
<1> HIDE DEF values, none, u
<1>4. IsUpdate(dimensioned) /\ dimensioned.at = r.at /\ Sane(dimensioned)
  <2>1. CASE r.fix_dimension = "none"
    <3> DEFINE fix == [type |-> "no_fix", valid |-> FALSE]
               fixed == [none EXCEPT !.fix = fix]
    <3>1. dimensioned = ClearPositionValues(fixed)
      BY <2>1 DEF UpdateFixDimensionInState
    <3>2. IsUpdate(fixed) /\ fixed.at = r.at /\ fixed.fix = fix
      BY <1>3, FixingSays
    <3>3. fix.type = "no_fix" /\ ~fix.valid
      OBVIOUS
    <3> HIDE DEF fix, fixed
    <3>4. /\ IsUpdate(dimensioned) /\ dimensioned.at = r.at /\ dimensioned.fix = fix
          /\ Position \subseteq dimensioned.clear /\ DOMAIN dimensioned.set \cap Position = {}
      BY <3>1, <3>2, ClearPositionSays
    <3> QED
      BY <3>3, <3>4 DEF Sane
  <2>2. CASE r.fix_dimension \in {"2d", "3d"}
    <3> DEFINE fix == [type |-> r.fix_dimension, valid |-> TRUE]
    <3>1. dimensioned = [none EXCEPT !.fix = fix]
      BY <2>2 DEF UpdateFixDimensionInState
    <3>2. fix.valid
      OBVIOUS
    <3> HIDE DEF fix
    <3>3. /\ IsUpdate(dimensioned) /\ dimensioned.at = r.at /\ dimensioned.fix = fix
          /\ DOMAIN dimensioned.set = {}
      BY <3>1, <1>3, FixingSays
    <3> QED
      BY <3>2, <3>3 DEF Sane
  <2>3. CASE r.fix_dimension \notin {"none", "2d", "3d"}
    <3>1. dimensioned = none
      BY <2>3 DEF UpdateFixDimensionInState
    <3> QED
      BY <3>1, <1>3 DEF Sane, UnknownFix
  <2> QED
    BY <2>1, <2>2, <2>3
<1> HIDE DEF dimensioned
<1>5. Agrees(dimensioned, u)
  BY <1>1, <1>2, <1>4, ReplacingAgrees
<1>6. IsUpdate(u) /\ u.at = r.at /\ Sane(u)
  BY <1>4, <1>5, SaneAgrees, AgreesFix
<1> QED
  BY <1>6 DEF u

\* Setting and replacing other fields.
LEMMA PlainSetting ==
  \A u, g, at : Plain(u, at) /\ DOMAIN g \cap Position = {} => Plain(Setting(u, g), at)
BY SettingAgrees, PlainAgrees, PlainIsUpdate

LEMMA PlainReplacing ==
  \A g, at :
    DOMAIN g \cap Position = {} /\ "rtk_mode" \notin DOMAIN g =>
      Plain(Replacing(NoUpdate(at), g), at)
BY PlainNone, ReplacingAgrees, PlainAgrees, PlainIsUpdate

LEMMA OtherSentencesSay ==
  \A r : /\ Plain(NmeaGsvToRuntimeState(r), r.at)
         /\ Plain(NmeaGstToRuntimeState(r), r.at)
         /\ Plain(NmeaVtgToRuntimeState(r), r.at)
         /\ Plain(NmeaZdaToRuntimeState(r), r.at)
<1> TAKE r
<1>1. Plain(NmeaGsvToRuntimeState(r), r.at)
  <2> DEFINE g == [satellites_visible |-> r.in_view, mean_cn0 |-> r.cn0, max_cn0 |-> r.cn0]
  <2>1. DOMAIN g \cap Position = {} /\ "rtk_mode" \notin DOMAIN g
    BY DEF Position
  <2>2. NmeaGsvToRuntimeState(r) = Replacing(NoUpdate(r.at), g)
    BY DEF NmeaGsvToRuntimeState
  <2> HIDE DEF g
  <2> QED
    BY <2>1, <2>2, PlainReplacing
<1>2. Plain(NmeaGstToRuntimeState(r), r.at)
  <2> DEFINE g == [horizontal_accuracy |-> r.horizontal_sigma,
                   vertical_accuracy |-> r.vertical_sigma]
  <2>1. DOMAIN g \cap Position = {} /\ "rtk_mode" \notin DOMAIN g
    BY DEF Position
  <2>2. NmeaGstToRuntimeState(r) = Replacing(NoUpdate(r.at), g)
    BY DEF NmeaGstToRuntimeState
  <2> HIDE DEF g
  <2> QED
    BY <2>1, <2>2, PlainReplacing
<1>3. Plain(NmeaVtgToRuntimeState(r), r.at)
  <2> DEFINE g == [speed_over_ground |-> r.speed, course_over_ground |-> r.course]
  <2>1. DOMAIN g \cap Position = {} /\ "rtk_mode" \notin DOMAIN g
    BY DEF Position
  <2>2. NmeaVtgToRuntimeState(r) = Replacing(NoUpdate(r.at), g)
    BY DEF NmeaVtgToRuntimeState
  <2> HIDE DEF g
  <2> QED
    BY <2>1, <2>2, PlainReplacing
<1>4. Plain(NmeaZdaToRuntimeState(r), r.at)
  <2> DEFINE g == [utc_date |-> r.date, utc_time |-> r.utc_time]
  <2>1. DOMAIN g \cap Position = {}
    BY DEF Position
  <2>2. NmeaZdaToRuntimeState(r) = Setting(NoUpdate(r.at), g)
    BY DEF NmeaZdaToRuntimeState
  <2> HIDE DEF g
  <2> QED
    BY <2>1, <2>2, PlainNone, PlainSetting
<1> QED
  BY <1>1, <1>2, <1>3, <1>4

\* What a session learns from one record, whatever the record is.
Answers(u, at) == IsUpdate(u) /\ u.at = at /\ Sane(u)

LEMMA PlainAnswers == \A u, at : Plain(u, at) => Answers(u, at)
BY PlainIsUpdate, PlainSane DEF Answers

LEMMA AnswersAgrees == \A u, v, at : Answers(u, at) /\ Agrees(u, v) => Answers(v, at)
BY SaneAgrees, AgreesFix DEF Answers

LEMMA SentenceAnswers == \A s : \A u \in SentenceUpdate(s) : Answers(u, s.at)
<1> TAKE s
<1> TAKE u \in SentenceUpdate(s)
<1>1. u \in {NmeaGgaToRuntimeState(s), NmeaRmcToRuntimeState(s), NmeaGsaToRuntimeState(s),
             NmeaGsvToRuntimeState(s), NmeaGstToRuntimeState(s), NmeaVtgToRuntimeState(s),
             NmeaZdaToRuntimeState(s)}
  BY DEF SentenceUpdate
<1>2. /\ Answers(NmeaGgaToRuntimeState(s), s.at) /\ Answers(NmeaRmcToRuntimeState(s), s.at)
      /\ Answers(NmeaGsaToRuntimeState(s), s.at)
  BY GgaSays, RmcSays, GsaSays DEF Answers
<1>3. /\ Answers(NmeaGsvToRuntimeState(s), s.at) /\ Answers(NmeaGstToRuntimeState(s), s.at)
      /\ Answers(NmeaVtgToRuntimeState(s), s.at) /\ Answers(NmeaZdaToRuntimeState(s), s.at)
  BY OtherSentencesSay, PlainAnswers
<1> QED
  BY <1>1, <1>2, <1>3

-----------------------------------------------------------------------------
\* UBX messages.

LEMMA CorrectionAgrees ==
  \A u, differential : IsUpdate(u) => Agrees(u, SetCorrectionState(u, differential))
<1> TAKE u, differential
<1> DEFINE g == [differential_corrections |-> differential,
                 corrections_active |-> differential]
<1>1. DOMAIN g \cap Position = {}
  BY DEF Position
<1>2. SetCorrectionState(u, differential) = Setting(u, g)
  BY DEF SetCorrectionState
<1> HIDE DEF g
<1> QED
  BY <1>1, <1>2, SettingAgrees

LEMMA UbxClearSays ==
  \A u : IsUpdate(u) =>
    LET v == UbxClearPositionSolutionValues(u)
    IN  /\ IsUpdate(v) /\ v.at = u.at /\ v.fix = u.fix
        /\ \A p \in Position : p \in v.clear /\ p \notin DOMAIN v.set
<1> TAKE u
<1> HAVE IsUpdate(u)
<1> DEFINE cleared == ClearPositionValues(u)
           v == UbxClearPositionSolutionValues(u)
<1>1. /\ IsUpdate(cleared) /\ cleared.at = u.at /\ cleared.fix = u.fix
      /\ \A p \in Position : p \in cleared.clear /\ p \notin DOMAIN cleared.set
  BY ClearPositionSays
<1>2. v = Clearing(cleared, SolutionFields)
  BY DEF UbxClearPositionSolutionValues
<1>3. SolutionFields \cap Position = {} /\ "rtk_mode" \notin SolutionFields
  BY DEF SolutionFields, Position
<1> HIDE DEF cleared, v
<1>4. Agrees(cleared, v)
  BY <1>1, <1>2, <1>3, ClearingAgrees
<1>5. /\ IsUpdate(v) /\ v.at = u.at /\ v.fix = u.fix
      /\ \A p \in Position : p \in v.clear /\ p \notin DOMAIN v.set
  BY <1>1, <1>4 DEF Agrees
<1> QED
  BY <1>5 DEF v

LEMMA SureFix ==
  \A k : k \in {"2d", "3d", "combined"} =>
    UbxFix(k, TRUE).type # "unknown" /\ UbxFix(k, TRUE).valid
BY DEF UbxFix, Solved

LEMMA NavStatusSays == \A r : Answers(UbxNavStatusToRuntimeState(r), r.at)
<1> TAKE r
<1> DEFINE fix == UbxFix(r.kind, r.gnss_fix_ok)
           fixed == [NoUpdate(r.at) EXCEPT !.fix = fix, !.offers = {"rtk_mode"}]
           u == SetCorrectionState(fixed, r.differential)
           lost == fix.type # "unknown" /\ ~fix.valid
           placed == IF lost THEN UbxClearPositionSolutionValues(u) ELSE u
           g == [rtk_mode |-> r.carrier]
           v == UbxNavStatusToRuntimeState(r)
<1>1. v = IF r.carrier_valid THEN Setting(placed, g) ELSE placed
  BY DEF UbxNavStatusToRuntimeState
<1>2. /\ IsUpdate(fixed) /\ fixed.at = r.at /\ fixed.fix = fix
      /\ DOMAIN fixed.set = {} /\ fixed.clear = {}
  BY NoUpdateSays DEF IsUpdate
<1>3. DOMAIN g \cap Position = {}
  BY DEF Position
<1> HIDE DEF fix, fixed, g, v
<1>4. Agrees(fixed, u)
  BY <1>2, CorrectionAgrees
<1>5. /\ IsUpdate(u) /\ u.at = r.at /\ u.fix = fix
      /\ \A p \in Position : p \notin DOMAIN u.set
  BY <1>2, <1>4 DEF Agrees
<1> HIDE DEF u
<1>6. Answers(placed, r.at)
  BY <1>5, UbxClearSays DEF Answers, Sane
<1> HIDE DEF placed
<1>7. Agrees(placed, v)
  BY <1>1, <1>3, <1>6, SettingAgrees, AgreesSelf DEF Answers
<1>8. Answers(v, r.at)
  BY <1>6, <1>7, AnswersAgrees
<1> QED
  BY <1>8 DEF v

LEMMA NavPvtSays ==
  \A r : r.carrier # NoValue => Answers(UbxNavPvtToRuntimeState(r), r.at)
<1> TAKE r
<1> HAVE r.carrier # NoValue
<1> DEFINE valid == PositionValid(r)
           fix == UbxFix(r.kind, valid)
           fixed == [NoUpdate(r.at) EXCEPT !.fix = fix]
           counts == [rtk_mode |-> r.carrier, satellites_used |-> r.satellites_used]
           counted == Setting(fixed, counts)
           u == SetCorrectionState(counted, r.differential)
           position == [latitude |-> r.latitude, longitude |-> r.longitude,
                        altitude |-> r.altitude]
           solution == [horizontal_accuracy |-> r.sigma, vertical_accuracy |-> r.sigma,
                        heading |-> r.heading, heading_accuracy |-> r.heading]
           there == Placing(u, position)
           placed == IF valid THEN Replacing(there, solution)
                              ELSE UbxClearPositionSolutionValues(u)
           motion == [utc_date |-> r.date, utc_time |-> r.utc_time,
                      speed_over_ground |-> IF valid THEN r.speed ELSE NoValue,
                      course_over_ground |-> IF valid THEN r.course ELSE NoValue]
           v == UbxNavPvtToRuntimeState(r)
<1>1. v = Replacing(placed, motion)
  BY DEF UbxNavPvtToRuntimeState
<1>2. /\ IsUpdate(fixed) /\ fixed.at = r.at /\ fixed.fix = fix
      /\ DOMAIN fixed.set = {} /\ fixed.clear = {}
  BY NoUpdateSays, FixingSays
<1>3. /\ DOMAIN motion \cap Position = {} /\ "rtk_mode" \notin DOMAIN motion
      /\ DOMAIN solution \cap Position = {} /\ "rtk_mode" \notin DOMAIN solution
  BY DEF Position
<1>4. "rtk_mode" \in DOMAIN Present(counts) /\ DOMAIN Present(counts) \cap Position = {}
  BY DEF Present, Position
<1>5. valid => fix.type # "unknown" /\ fix.valid
  BY SureFix DEF PositionValid
<1> HIDE DEF valid, fix, fixed, counts, position, solution, motion, v
<1>6. /\ IsUpdate(counted) /\ counted.at = r.at /\ counted.fix = fix
      /\ "rtk_mode" \in DOMAIN counted.set
      /\ \A p \in Position : p \notin DOMAIN counted.set /\ p \notin counted.clear
  BY <1>2, <1>4, SettingSays
<1> HIDE DEF counted
<1>7. Agrees(counted, u)
  BY <1>6, CorrectionAgrees
<1>8. /\ IsUpdate(u) /\ u.at = r.at /\ u.fix = fix /\ "rtk_mode" \in DOMAIN u.set
      /\ \A p \in Position : p \notin DOMAIN u.set
  BY <1>6, <1>7 DEF Agrees
<1> HIDE DEF u
<1>9. Answers(placed, r.at)
  <2>1. CASE valid
    <3>1. /\ IsUpdate(there) /\ there.at = r.at /\ there.fix = fix
          /\ "rtk_mode" \in DOMAIN there.set
      BY <1>8, PlacingSays
    <3>2. Answers(there, r.at)
      BY <1>5, <2>1, <3>1 DEF Answers, Sane
    <3> HIDE DEF there
    <3>3. Agrees(there, placed)
      BY <1>3, <2>1, <3>1, ReplacingAgrees
    <3> QED
      BY <3>2, <3>3, AnswersAgrees
  <2>2. CASE ~valid
    <3>1. /\ IsUpdate(placed) /\ placed.at = r.at
          /\ \A p \in Position : p \in placed.clear /\ p \notin DOMAIN placed.set
      BY <1>8, <2>2, UbxClearSays
    <3> QED
      BY <3>1 DEF Answers, Sane
  <2> QED
    BY <2>1, <2>2
<1> HIDE DEF placed
<1>10. Agrees(placed, v)
  BY <1>1, <1>3, <1>9, ReplacingAgrees DEF Answers
<1>11. Answers(v, r.at)
  BY <1>9, <1>10, AnswersAgrees
<1> QED
  BY <1>11 DEF v

LEMMA InterferencePlain ==
  \A at, known, issue : Plain(Interference(NoUpdate(at), known, issue), at)
<1> TAKE at, known, issue
<1> DEFINE g == [interference_detected |-> IF known THEN issue ELSE NoValue,
                 jamming_detected |-> IF known THEN issue ELSE NoValue]
<1>1. DOMAIN g \cap Position = {}
  BY DEF Position
<1>2. Interference(NoUpdate(at), known, issue) = Setting(NoUpdate(at), g)
  BY DEF Interference
<1> HIDE DEF g
<1> QED
  BY <1>1, <1>2, PlainNone, PlainSetting

LEMMA OtherFramesSay ==
  \A r : /\ Plain(UbxNavDopToRuntimeState(r), r.at)
         /\ Plain(UbxNavSatToRuntimeState(r), r.at)
         /\ Plain(UbxMonHwToRuntimeState(r), r.at)
         /\ Plain(UbxMonRfToRuntimeState(r), r.at)
<1> TAKE r
<1>1. Plain(UbxNavDopToRuntimeState(r), r.at)
  <2> DEFINE g == [hdop |-> r.hdop, vdop |-> r.vdop]
  <2>1. DOMAIN g \cap Position = {}
    BY DEF Position
  <2>2. UbxNavDopToRuntimeState(r) = Setting(NoUpdate(r.at), g)
    BY DEF UbxNavDopToRuntimeState
  <2> HIDE DEF g
  <2> QED
    BY <2>1, <2>2, PlainNone, PlainSetting
<1>2. Plain(UbxNavSatToRuntimeState(r), r.at)
  <2> DEFINE g == [satellites_visible |-> r.satellites, satellites_used |-> r.used,
                   mean_cn0 |-> r.cn0, max_cn0 |-> r.cn0]
  <2>1. DOMAIN g \cap Position = {}
    BY DEF Position
  <2>2. UbxNavSatToRuntimeState(r) = Setting(NoUpdate(r.at), g)
    BY DEF UbxNavSatToRuntimeState
  <2> HIDE DEF g
  <2> QED
    BY <2>1, <2>2, PlainNone, PlainSetting
<1>3. Plain(UbxMonHwToRuntimeState(r), r.at)
  BY InterferencePlain, PlainNone DEF UbxMonHwToRuntimeState
<1>4. Plain(UbxMonRfToRuntimeState(r), r.at)
  BY InterferencePlain, PlainNone DEF UbxMonRfToRuntimeState
<1> QED
  BY <1>1, <1>2, <1>3, <1>4

LEMMA FrameAnswers ==
  \A f : (f.type = "NAV-PVT" => f.carrier # NoValue) =>
    \A u \in UbxUpdate(f) : Answers(u, f.at)
<1> TAKE f
<1> HAVE f.type = "NAV-PVT" => f.carrier # NoValue
<1> TAKE u \in UbxUpdate(f)
<1>1. \/ f.type = "NAV-PVT" /\ u = UbxNavPvtToRuntimeState(f)
      \/ u \in {UbxNavSatToRuntimeState(f), UbxNavStatusToRuntimeState(f),
                UbxNavDopToRuntimeState(f), UbxMonHwToRuntimeState(f),
                UbxMonRfToRuntimeState(f)}
  BY DEF UbxUpdate
<1> QED
  BY <1>1, NavPvtSays, NavStatusSays, OtherFramesSay, PlainAnswers

-----------------------------------------------------------------------------
\* Unicore logs.

Coordinates == {"latitude", "longitude"}

\* Judged, but not placed yet: no fix has cleared the position.
Judged(u, at) ==
  /\ IsUpdate(u)
  /\ u.at = at
  /\ u.fix.type \notin {"unknown", "no_fix"} => u.fix.valid
  /\ u.fix.type = "no_fix" => Position \subseteq u.clear

\* A position log that knows its solution says of the coordinates where they
\* are or that they are gone.
Located(u, at) ==
  /\ IsUpdate(u)
  /\ u.at = at
  /\ u.fix.type # "unknown" => \A p \in Coordinates : p \in DOMAIN u.set \/ p \in u.clear

LEMMA JudgedAgrees == \A u, v, at : Judged(u, at) /\ Agrees(u, v) => Judged(v, at)
BY DEF Judged, Agrees

LEMMA LocatedAgrees == \A u, v, at : Located(u, at) /\ Agrees(u, v) => Located(v, at)
BY DEF Located, Agrees, Coordinates, Position

LEMMA LocatedIsUpdate == \A u, at : Located(u, at) => IsUpdate(u) /\ u.at = at
BY DEF Located

LEMMA UnicoreClearSays ==
  \A u : IsUpdate(u) =>
    LET v == UnicoreClearPositionSolutionValues(u)
    IN  IsUpdate(v) /\ v.at = u.at /\ v.fix = u.fix /\ Position \subseteq v.clear
<1> TAKE u
<1> HAVE IsUpdate(u)
<1> DEFINE cleared == ClearPositionValues(u)
           v == UnicoreClearPositionSolutionValues(u)
<1>1. /\ IsUpdate(cleared) /\ cleared.at = u.at /\ cleared.fix = u.fix
      /\ Position \subseteq cleared.clear
  BY ClearPositionSays
<1>2. v = Clearing(cleared, AccuracyFields)
  BY DEF UnicoreClearPositionSolutionValues
<1> HIDE DEF cleared, v
<1>3. IsUpdate(v) /\ v.at = u.at /\ v.fix = u.fix /\ Position \subseteq v.clear
  BY <1>1, <1>2, ClearingSays
<1> QED
  BY <1>3 DEF v

LEMMA TypedJudged == \A u, at, type : Plain(u, at) => Judged(ApplyFixType(u, type), at)
<1> TAKE u, at, type
<1> HAVE Plain(u, at)
<1> DEFINE name == MapFixType(type)
           fix == [type |-> name, valid |-> name \notin {"unknown", "no_fix"}]
           typed == [u EXCEPT !.fix = fix]
           v == ApplyFixType(u, type)
<1>1. v = IF name = "no_fix" THEN UnicoreClearPositionSolutionValues(typed) ELSE typed
  BY DEF ApplyFixType
<1>2. fix.type = name /\ (name \notin {"unknown", "no_fix"} => fix.valid)
  OBVIOUS
<1>3. IsUpdate(typed) /\ typed.at = at /\ typed.fix = fix
  BY PlainIsUpdate, FixingSays
<1> HIDE DEF fix, typed, v, name
<1>4. Judged(v, at)
  BY <1>1, <1>2, <1>3, UnicoreClearSays DEF Judged
<1> QED
  BY <1>4 DEF v

LEMMA UncomputedJudged == \A u, at : Judged(u, at) => Judged(Uncomputed(u), at)
<1> TAKE u, at
<1> HAVE Judged(u, at)
<1> DEFINE fix == [type |-> "no_fix", valid |-> FALSE]
           typed == [u EXCEPT !.fix = fix]
           v == UnicoreClearPositionSolutionValues(typed)
<1>1. Uncomputed(u) = IF u.fix.type = "unknown" THEN u ELSE v
  BY DEF Uncomputed
<1>2. fix.type = "no_fix"
  OBVIOUS
<1>3. IsUpdate(typed) /\ typed.at = at /\ typed.fix = fix
  BY FixingSays DEF Judged
<1> HIDE DEF fix, typed
<1>4. IsUpdate(v) /\ v.at = at /\ v.fix = fix /\ Position \subseteq v.clear
  BY <1>3, UnicoreClearSays
<1> HIDE DEF v
<1> QED
  BY <1>1, <1>2, <1>4 DEF Judged

LEMMA RtkModeAgrees == \A u, type : IsUpdate(u) => Agrees(u, ApplyRtkMode(u, type))
<1> TAKE u, type
<1> DEFINE g == [rtk_mode |-> MapRtkMode(type)]
<1>1. DOMAIN g \cap Position = {} /\ ApplyRtkMode(u, type) = Setting(u, g)
  BY DEF ApplyRtkMode, Position
<1> HIDE DEF g
<1> QED
  BY <1>1, SettingAgrees

LEMMA DifferentialAgrees ==
  \A u, type : IsUpdate(u) => Agrees(u, ApplyCorrectionState(u, type))
<1> TAKE u, type
<1> DEFINE g == [differential_corrections |-> MapDifferentialCorrections(type),
                 corrections_active |-> MapDifferentialCorrections(type)]
<1>1. DOMAIN g \cap Position = {} /\ ApplyCorrectionState(u, type) = Setting(u, g)
  BY DEF ApplyCorrectionState, Position
<1> HIDE DEF g
<1> QED
  BY <1>1, SettingAgrees

LEMMA SatellitesAgree ==
  \A u, tracked, used :
    IsUpdate(u) => Agrees(u, SetTrackedAndUsedSatellites(u, tracked, used))
<1> TAKE u, tracked, used
<1> DEFINE g == [satellites_tracked |-> tracked, satellites_used |-> used]
<1>1. DOMAIN g \cap Position = {} /\ SetTrackedAndUsedSatellites(u, tracked, used) = Setting(u, g)
  BY DEF SetTrackedAndUsedSatellites, Position
<1> HIDE DEF g
<1> QED
  BY <1>1, SettingAgrees

LEMMA BaselineAgrees ==
  \A u, status : IsUpdate(u) => Agrees(u, SetCanonicalBaselineStatus(u, status))
<1> TAKE u, status
<1> DEFINE canonical == ToBaselineSolutionStatus(status)
           solved == IF canonical = NoValue THEN NoValue ELSE canonical = "computed"
           g == [baseline_solution_status |-> canonical, dual_antenna_baseline |-> solved,
                 dual_antenna_heading |-> solved]
<1>1. DOMAIN g \cap Position = {} /\ SetCanonicalBaselineStatus(u, status) = Setting(u, g)
  BY DEF SetCanonicalBaselineStatus, Position
<1> HIDE DEF g
<1> QED
  BY <1>1, SettingAgrees

LEMMA GeometryAgrees ==
  \A u, r : IsUpdate(u) => Agrees(u, SetBaselineGeometryAndCompatibilityHeading(u, r))
<1> TAKE u, r
<1> HAVE IsUpdate(u)
<1> DEFINE offered == [u EXCEPT !.offers = @ \cup GeometryFields]
           canonical == SetCanonicalBaselineStatus(offered, r.baseline)
           g == [baseline_length |-> r.length, baseline_azimuth |-> r.azimuth,
                 heading |-> r.azimuth, baseline_pitch |-> r.pitch]
           v == SetBaselineGeometryAndCompatibilityHeading(u, r)
<1>1. v \in {Setting(canonical, g), canonical, Clearing(canonical, GeometryFields)}
  BY DEF SetBaselineGeometryAndCompatibilityHeading
<1>2. /\ DOMAIN g \cap Position = {}
      /\ GeometryFields \cap Position = {} /\ "rtk_mode" \notin GeometryFields
  BY DEF GeometryFields, Position
<1> HIDE DEF g, v
<1>3. Agrees(u, offered)
  BY OfferingSays
<1> HIDE DEF offered
<1>4. Agrees(offered, canonical)
  BY <1>3, BaselineAgrees DEF Agrees
<1> HIDE DEF canonical
<1>5. Agrees(canonical, v)
  BY <1>1, <1>2, <1>4, SettingAgrees, ClearingAgrees, AgreesSelf, AgreesFix
<1>6. Agrees(u, v)
  BY <1>3, <1>4, <1>5, AgreesChain
<1> QED
  BY <1>6 DEF v

LEMMA PlacedLocated ==
  \A u, at, r :
    Judged(u, at) /\ r.latitude # NoValue /\ r.longitude # NoValue =>
      Located(PlaceSolution(u, r), at)
<1> TAKE u, at, r
<1> HAVE Judged(u, at) /\ r.latitude # NoValue /\ r.longitude # NoValue
<1> DEFINE position == [latitude |-> r.latitude, longitude |-> r.longitude,
                        altitude |-> r.altitude]
           accuracy == [horizontal_accuracy |-> r.sigma, vertical_accuracy |-> r.sigma]
           there == Placing(u, position)
           v == PlaceSolution(u, r)
<1>1. v = IF u.fix.valid THEN Setting(there, accuracy) ELSE u
  BY DEF PlaceSolution
<1>2. Coordinates \subseteq DOMAIN Present(position)
  BY DEF Coordinates, Present
<1>3. DOMAIN accuracy \cap Position = {}
  BY DEF Position
<1> HIDE DEF position, accuracy, v
<1>4. CASE u.fix.valid
  <2>1. Located(there, at)
    BY <1>2, PlacingSays DEF Judged, Located
  <2> HIDE DEF there
  <2>2. Agrees(there, v)
    BY <1>1, <1>3, <1>4, <2>1, SettingAgrees DEF Located
  <2>3. Located(v, at)
    BY <2>1, <2>2, LocatedAgrees
  <2> QED
    BY <2>3 DEF v
<1>5. CASE ~u.fix.valid
  <2>1. v = u /\ u.fix.type \in {"unknown", "no_fix"}
    BY <1>1, <1>5 DEF Judged
  <2>2. Located(v, at)
    BY <2>1 DEF Judged, Located, Coordinates, Position
  <2> QED
    BY <2>2 DEF v
<1> QED
  BY <1>4, <1>5

LEMMA PvtslnSays ==
  \A r : r.latitude # NoValue /\ r.longitude # NoValue =>
    Located(UnicorePvtslnToRuntimeState(r), r.at)
<1> TAKE r
<1> HAVE r.latitude # NoValue /\ r.longitude # NoValue
<1> DEFINE fixed == ApplyFixType(NoUpdate(r.at), r.type)
           moded == ApplyRtkMode(fixed, r.type)
           typed == ApplyCorrectionState(moded, r.type)
           placed == PlaceSolution(typed, r)
           counted == SetTrackedAndUsedSatellites(placed, r.tracked, r.used)
           g == [correction_age |-> r.correction_age, hdop |-> r.hdop]
           aged == Setting(counted, g)
           u == UnicorePvtslnToRuntimeState(r)
<1>1. u = SetBaselineGeometryAndCompatibilityHeading(aged, r)
  BY DEF UnicorePvtslnToRuntimeState
<1>2. DOMAIN g \cap Position = {}
  BY DEF Position
<1> HIDE DEF g, u
<1>3. Judged(fixed, r.at)
  BY PlainNone, TypedJudged
<1> HIDE DEF fixed
<1>4. Judged(moded, r.at)
  BY <1>3, RtkModeAgrees, JudgedAgrees DEF Judged
<1> HIDE DEF moded
<1>5. Judged(typed, r.at)
  BY <1>4, DifferentialAgrees, JudgedAgrees DEF Judged
<1> HIDE DEF typed
<1>6. Located(placed, r.at)
  BY <1>5, PlacedLocated
<1> HIDE DEF placed
<1>7. Located(counted, r.at)
  BY <1>6, SatellitesAgree, LocatedAgrees, LocatedIsUpdate
<1> HIDE DEF counted
<1>8. Located(aged, r.at)
  BY <1>2, <1>7, SettingAgrees, LocatedAgrees, LocatedIsUpdate
<1> HIDE DEF aged
<1>9. Located(u, r.at)
  BY <1>1, <1>8, GeometryAgrees, LocatedAgrees, LocatedIsUpdate
<1> QED
  BY <1>9 DEF u

LEMMA BestNavSays ==
  \A r : r.latitude # NoValue /\ r.longitude # NoValue =>
    Located(UnicoreBestNavToRuntimeState(r), r.at)
<1> TAKE r
<1> HAVE r.latitude # NoValue /\ r.longitude # NoValue
<1> DEFINE typed == ApplyFixType(NoUpdate(r.at), r.type)
           judged == IF r.solution = "computed" THEN typed ELSE Uncomputed(typed)
           moded == ApplyRtkMode(judged, r.type)
           corrected == ApplyCorrectionState(moded, r.type)
           placed == PlaceSolution(corrected, r)
           counted == SetTrackedAndUsedSatellites(placed, r.tracked, r.used)
           g == [correction_age |-> r.correction_age]
           u == UnicoreBestNavToRuntimeState(r)
<1>1. u = Setting(counted, g)
  BY DEF UnicoreBestNavToRuntimeState
<1>2. DOMAIN g \cap Position = {}
  BY DEF Position
<1> HIDE DEF g, u
<1>3. Judged(judged, r.at)
  BY PlainNone, TypedJudged, UncomputedJudged
<1> HIDE DEF judged
<1>4. Judged(moded, r.at)
  BY <1>3, RtkModeAgrees, JudgedAgrees DEF Judged
<1> HIDE DEF moded
<1>5. Judged(corrected, r.at)
  BY <1>4, DifferentialAgrees, JudgedAgrees DEF Judged
<1> HIDE DEF corrected
<1>6. Located(placed, r.at)
  BY <1>5, PlacedLocated
<1> HIDE DEF placed
<1>7. Located(counted, r.at)
  BY <1>6, SatellitesAgree, LocatedAgrees, LocatedIsUpdate
<1> HIDE DEF counted
<1>8. Located(u, r.at)
  BY <1>1, <1>2, <1>7, SettingAgrees, LocatedAgrees, LocatedIsUpdate
<1> QED
  BY <1>8 DEF u

Timed(u, at) == IsUpdate(u) /\ u.at = at

LEMMA TimedAgrees == \A u, v, at : Timed(u, at) /\ Agrees(u, v) => Timed(v, at)
BY DEF Timed, Agrees

LEMMA StatusSays == \A l : \A u \in StatusUpdate(l) : Timed(u, l.at)
<1> TAKE l
<1> TAKE u \in StatusUpdate(l)
<1>1. u \in {UnicoreRtkStatusToRuntimeState(l), UnicoreSatsInfoToRuntimeState(l),
             UnicoreBestSatToRuntimeState(l), UnicoreJamStatusToRuntimeState(l),
             UnicoreFreqJamStatusToRuntimeState(l)}
  BY DEF StatusUpdate
<1>2. Timed(UnicoreRtkStatusToRuntimeState(l), l.at)
  <2> DEFINE fixed == ApplyFixType(NoUpdate(l.at), l.type)
             moded == ApplyRtkMode(fixed, l.type)
             corrected == ApplyCorrectionState(moded, l.type)
  <2>1. Timed(fixed, l.at)
    BY PlainNone, TypedJudged DEF Judged, Timed
  <2> HIDE DEF fixed
  <2>2. Timed(moded, l.at)
    BY <2>1, RtkModeAgrees, TimedAgrees DEF Timed
  <2> HIDE DEF moded
  <2>3. Timed(corrected, l.at)
    BY <2>2, DifferentialAgrees, TimedAgrees DEF Timed
  <2> HIDE DEF corrected
  <2>4. UnicoreRtkStatusToRuntimeState(l) = SetCanonicalBaselineStatus(corrected, l.baseline)
    BY DEF UnicoreRtkStatusToRuntimeState, corrected, moded, fixed
  <2> QED
    BY <2>3, <2>4, BaselineAgrees, TimedAgrees DEF Timed
<1>3. \A g : Timed(Setting(NoUpdate(l.at), g), l.at)
  BY NoUpdateSays, SettingSays DEF Timed
<1>4. Timed(UnicoreSatsInfoToRuntimeState(l), l.at)
  BY <1>3 DEF UnicoreSatsInfoToRuntimeState
<1>5. Timed(UnicoreBestSatToRuntimeState(l), l.at)
  BY <1>3 DEF UnicoreBestSatToRuntimeState, SetTrackedAndUsedSatellites
<1>6. \A status : Timed(ApplyJammingState(NoUpdate(l.at), status), l.at)
  BY <1>3 DEF ApplyJammingState
<1>7. /\ Timed(UnicoreJamStatusToRuntimeState(l), l.at)
      /\ Timed(UnicoreFreqJamStatusToRuntimeState(l), l.at)
  BY <1>6 DEF UnicoreJamStatusToRuntimeState, UnicoreFreqJamStatusToRuntimeState
<1> QED
  BY <1>1, <1>2, <1>4, <1>5, <1>7

-----------------------------------------------------------------------------
\* The mixing of a Unicore session changes which fields an update still speaks
\* of, not its time.

LEMMA LeaveAgrees == \A u : IsUpdate(u) => Agrees(u, LeaveToNmea(u))
<1> TAKE u
<1> HAVE IsUpdate(u)
<1> DEFINE fields == (IF HasFreshMixedNmeaSample(lastGga, u.at)
                        THEN {"satellites_used"} ELSE {})
                     \cup (IF HasFreshMixedNmeaSample(lastGsv, u.at)
                             THEN {"satellites_tracked"} ELSE {})
<1>1. fields \cap Position = {} /\ "rtk_mode" \notin fields
  BY DEF Position
<1>2. LeaveToNmea(u) = Omitting(u, fields)
  BY DEF LeaveToNmea
<1> HIDE DEF fields
<1> QED
  BY <1>1, <1>2, OmittingAgrees

LEMMA PrunedGst == \A u, at : Timed(u, at) => Timed(PruneNmeaGstFallback(u), at)
BY OmittingSays DEF PruneNmeaGstFallback, Timed

\* A GGA that stands in for a native position only fills in coordinates that
\* are missing.
LEMMA PrunedGga ==
  \A u, at, used : Timed(u, at) =>
    LET v == PruneNmeaGgaFallback(u, used)
    IN  /\ Timed(v, at)
        /\ \A p \in Position :
             /\ p \in DOMAIN v.set <=> p \in DOMAIN u.set /\ p \notin DOMAIN state.value
             /\ p \in v.clear => p \in u.clear
<1> TAKE u, at, used
<1> HAVE Timed(u, at)
<1> DEFINE known == DOMAIN state.value
           unfixed == IF state.fix.type # "unknown" THEN [u EXCEPT !.fix = UnknownFix] ELSE u
           unplaced == [unfixed EXCEPT !.set = [f \in DOMAIN @ \ (Position \cap known) |-> @[f]]]
           others == IF used THEN {"hdop"} ELSE {"hdop", "satellites_used"}
           v == PruneNmeaGgaFallback(u, used)
<1>1. v = Omitting(unplaced, others \cap known)
  BY DEF PruneNmeaGgaFallback
<1>2. Timed(unfixed, at) /\ unfixed.set = u.set /\ unfixed.clear = u.clear
  BY FixingSays DEF Timed
<1> HIDE DEF unfixed
<1>3. /\ Timed(unplaced, at) /\ unplaced.clear = u.clear
      /\ DOMAIN unplaced.set = DOMAIN u.set \ (Position \cap known)
  BY <1>2 DEF Timed, IsUpdate
<1>4. others \cap Position = {}
  BY DEF Position
<1> HIDE DEF unplaced, others, v
<1>5. /\ Timed(v, at)
      /\ \A p \in Position :
           /\ p \in DOMAIN v.set <=> p \in DOMAIN u.set /\ p \notin DOMAIN state.value
           /\ p \in v.clear => p \in u.clear
  BY <1>1, <1>3, <1>4, OmittingSays DEF Timed
<1> QED
  BY <1>5 DEF v

LEMMA GsvTimed == \A after, at : Timed(GsvUpdate(after, at), at)
BY NoUpdateSays, SettingSays DEF GsvUpdate, Timed

-----------------------------------------------------------------------------
\* Received records.

LEMMA StampedAt == \A r, at : Stamped(r, at).at = at
BY DEF Stamped, Over

LEMMA StampedField ==
  \A r, at, f : f \in DOMAIN r /\ f # "at" => Stamped(r, at)[f] = r[f]
BY DEF Stamped, Over

\* An update that is merged.
Learned(u) ==
  /\ IsUpdate(u)
  /\ u.at \in Times
  /\ kind # "unicore" => Sane(u)

\* What one step does to the state that is shown.
StateStep ==
  \/ state' = state
  \/ state' = NoState
  \/ \E u : Learned(u) /\ state' = Merge(state, u)

LEMMA TakenSentence ==
  ASSUME NEW s, s.at \in Times, TakeSentence(s)
  PROVE  StateStep
BY SentenceAnswers DEF TakeSentence, StateStep, Learned, Answers

LEMMA UnicoreSentenceStep ==
  ASSUME NEW s, s.at \in Times, kind = "unicore", UnicoreSentence(s)
  PROVE  StateStep
<1>1. \A u : Timed(u, s.at) => Learned(u)
  BY DEF Timed, Learned
<1>2. CASE UnicoreGga(s) /\ ParseNmeaGga(s)
  <2> DEFINE u == NmeaGgaToRuntimeState(s)
             v == PruneNmeaGgaFallback(u, HasFreshMixedNmeaSample(s.at, s.at))
  <2>1. state' = Merge(state, u) \/ state' = Merge(state, v)
    BY <1>2 DEF UnicoreGga
  <2>2. Timed(u, s.at)
    BY GgaSays DEF Timed
  <2>3. Timed(v, s.at)
    BY <2>2, PrunedGga
  <2> QED
    BY <1>1, <2>1, <2>2, <2>3 DEF StateStep
<1>3. CASE UnicoreGst(s) /\ ParseNmeaGst(s)
  <2> DEFINE u == NmeaGstToRuntimeState(s)
  <2>1. state' = Merge(state, u) \/ state' = Merge(state, PruneNmeaGstFallback(u))
    BY <1>3 DEF UnicoreGst
  <2>2. Timed(u, s.at)
    BY OtherSentencesSay, PlainIsUpdate DEF Timed
  <2> QED
    BY <1>1, <2>1, <2>2, PrunedGst DEF StateStep
<1>4. CASE UnicoreGsv(s) /\ ParseNmeaGsv(s)
  BY <1>1, <1>4, GsvTimed DEF UnicoreGsv, StateStep
<1>5. CASE Refused
  BY <1>5 DEF Refused, StateStep
<1> QED
  BY <1>2, <1>3, <1>4, <1>5
     DEF UnicoreSentence, UnicoreGga, UnicoreGst, UnicoreGsv, UnicoreOtherSentence

LEMMA LinesArePlaced ==
  \A l : ParseUnicorePvtsln(l) \/ ParseUnicoreBestNav(l) =>
    l.latitude # NoValue /\ l.longitude # NoValue
BY DEF ParseUnicorePvtsln, ParseUnicoreBestNav

LEMMA FramesArePlaced ==
  ASSUME NEW f \in UnicoreFrames, NEW at,
         Stamped(f, at).log \in UnicoreBinaryLogs,
         Stamped(f, at).checksum = "valid", Stamped(f, at).complete
  PROVE  /\ Stamped(f, at).latitude # NoValue /\ Stamped(f, at).longitude # NoValue
         /\ WeekTowEpoch(Stamped(f, at).epoch) # NoEpoch
<1>1. {"log", "checksum", "complete"} \subseteq DOMAIN f
  BY NativeAssumption
<1>2. /\ Stamped(f, at).log = f.log /\ Stamped(f, at).checksum = f.checksum
      /\ Stamped(f, at).complete = f.complete
  BY <1>1, StampedField
<1>3. /\ {"epoch", "latitude", "longitude"} \subseteq DOMAIN f
      /\ WeekTowEpoch(f.epoch) # NoEpoch
      /\ NoValue \notin {f.latitude, f.longitude}
  BY <1>2, NativeAssumption
<1>4. /\ Stamped(f, at).latitude = f.latitude /\ Stamped(f, at).longitude = f.longitude
      /\ Stamped(f, at).epoch = f.epoch
  BY <1>3, StampedField
<1> QED
  BY <1>3, <1>4

\* What is merged of a native position is the update or the update without the
\* counts that are left to the sentences.
LEMMA PositionLogStep ==
  ASSUME NEW l, UnicorePositionLog(l)
  PROVE  \E u, v : /\ Located(u, l.at) /\ Located(v, l.at) /\ Agrees(u, v)
                   /\ state' = Merge(state, v)
                   /\ NativePosition(l, u, l.at)
<1>1. PICK u : /\ Located(u, l.at)
               /\ NativePosition(l, u, u.at) /\ state' = Merge(state, LeaveToNmea(u))
  BY LinesArePlaced, PvtslnSays, BestNavSays DEF UnicorePositionLog
<1>2. IsUpdate(u) /\ u.at = l.at
  BY <1>1, LocatedIsUpdate
<1>3. Agrees(u, LeaveToNmea(u))
  BY <1>2, LeaveAgrees
<1>4. Located(LeaveToNmea(u), l.at)
  BY <1>1, <1>3, LocatedAgrees
<1> QED
  BY <1>1, <1>2, <1>3, <1>4

LEMMA BinaryFrameStep ==
  ASSUME NEW f \in UnicoreFrames, NEW at, UnicoreBinaryFrame(Stamped(f, at))
  PROVE  \/ Refused
         \/ \E u : /\ Located(u, at) /\ state' = Merge(state, u)
                   /\ NativePosition(Stamped(f, at), u, at)
                   /\ WeekTowEpoch(Stamped(f, at).epoch) # NoEpoch
<1> DEFINE g == Stamped(f, at)
<1>1. g.at = at
  BY StampedAt
<1>2. ParseUnicoreBestNavB(g) \/ ParseUnicorePvtslnB(g) =>
        (g.log \in UnicoreBinaryLogs =>
           /\ g.latitude # NoValue /\ g.longitude # NoValue
           /\ WeekTowEpoch(g.epoch) # NoEpoch)
  BY FramesArePlaced DEF ParseUnicoreBestNavB, ParseUnicorePvtslnB
<1> HIDE DEF g
<1>3. UnicoreBinaryFrame(g)
  BY DEF g
<1>4. CASE /\ g.log = "BESTNAVB" /\ ParseUnicoreBestNavB(g)
           /\ NativePosition(g, UnicoreBestNavToRuntimeState(g), g.at)
           /\ state' = Merge(state, UnicoreBestNavToRuntimeState(g))
  <2>1. Located(UnicoreBestNavToRuntimeState(g), at) /\ WeekTowEpoch(g.epoch) # NoEpoch
    BY <1>1, <1>2, <1>4, BestNavSays DEF UnicoreBinaryLogs
  <2>2. NativePosition(g, UnicoreBestNavToRuntimeState(g), at)
    BY <1>1, <1>4
  <2> QED
    BY <1>4, <2>1, <2>2 DEF g
<1>5. CASE /\ g.log = "PVTSLNB" /\ ParseUnicorePvtslnB(g)
           /\ NativePosition(g, UnicorePvtslnToRuntimeState(g), g.at)
           /\ state' = Merge(state, UnicorePvtslnToRuntimeState(g))
  <2>1. Located(UnicorePvtslnToRuntimeState(g), at) /\ WeekTowEpoch(g.epoch) # NoEpoch
    BY <1>1, <1>2, <1>5, PvtslnSays DEF UnicoreBinaryLogs
  <2>2. NativePosition(g, UnicorePvtslnToRuntimeState(g), at)
    BY <1>1, <1>5
  <2> QED
    BY <1>5, <2>1, <2>2 DEF g
<1> QED
  BY <1>3, <1>4, <1>5 DEF UnicoreBinaryFrame

LEMMA EveryStateStep ==
  ASSUME [RuntimeNext]_runtimeVars
  PROVE  StateStep
<1> USE DEF Receive
<1>1. CASE ReceiveSentence
  <2>1. CASE kind = "nmea" /\ Receive(NmeaSentence, Sentences)
    BY <2>1, StampedAt, TakenSentence DEF NmeaSentence
  <2>2. CASE kind = "ublox" /\ Receive(UbloxSentence, Sentences)
    <3>1. PICK r \in Sentences, at \in Times : UbloxSentence(Stamped(r, at))
      BY <2>2
    <3>2. Stamped(r, at).at \in Times
      BY StampedAt
    <3>3. Refused \/ TakeSentence(Stamped(r, at))
      BY <3>1 DEF UbloxSentence
    <3> QED
      BY <3>2, <3>3, TakenSentence DEF Refused, StateStep
  <2>3. CASE kind = "unicore" /\ Receive(UnicoreSentence, Sentences)
    BY <2>3, StampedAt, UnicoreSentenceStep
  <2> QED
    BY <1>1, <2>1, <2>2, <2>3 DEF ReceiveSentence
<1>2. CASE ReceiveUbxFrame
  <2>1. PICK f \in UbxFrames, at \in Times : UbxFrame(Stamped(f, at))
    BY <1>2 DEF ReceiveUbxFrame
  <2> DEFINE g == Stamped(f, at)
  <2>2. g.at = at
    BY StampedAt
  <2>3. g.type = "NAV-PVT" => g.carrier # NoValue
    BY UbxAssumption, StampedField
  <2> HIDE DEF g
  <2>4. UNCHANGED state \/ \E u \in UbxUpdate(g) : state' = Merge(state, u)
    BY <2>1 DEF UbxFrame, g
  <2> QED
    BY <2>2, <2>3, <2>4, FrameAnswers DEF StateStep, Learned, Answers
<1>3. CASE ReceivePositionLog
  <2>1. PICK l \in UnicoreLines, at \in Times : UnicorePositionLog(Stamped(l, at))
    BY <1>3 DEF ReceivePositionLog
  <2>2. PICK v : Located(v, Stamped(l, at).at) /\ state' = Merge(state, v)
    BY <2>1, PositionLogStep
  <2>3. kind = "unicore" /\ Stamped(l, at).at = at
    BY <1>3, StampedAt DEF ReceivePositionLog
  <2> QED
    BY <2>2, <2>3, LocatedIsUpdate DEF StateStep, Learned
<1>4. CASE ReceiveStatusLog
  <2>1. PICK l \in UnicoreLines, at \in Times : UnicoreStatusLog(Stamped(l, at))
    BY <1>4 DEF ReceiveStatusLog
  <2> DEFINE g == Stamped(l, at)
  <2>2. kind = "unicore" /\ g.at = at
    BY <1>4, StampedAt DEF ReceiveStatusLog
  <2> HIDE DEF g
  <2>3. UNCHANGED state \/ \E u \in StatusUpdate(g) : state' = Merge(state, u)
    BY <2>1 DEF UnicoreStatusLog, Refused, g
  <2> QED
    BY <2>2, <2>3, StatusSays DEF StateStep, Learned, Timed
<1>5. CASE ReceiveBinaryFrame
  <2>1. PICK f \in UnicoreFrames, at \in Times : UnicoreBinaryFrame(Stamped(f, at))
    BY <1>5 DEF ReceiveBinaryFrame
  <2>2. Refused \/ \E u : Located(u, at) /\ state' = Merge(state, u)
    BY <2>1, BinaryFrameStep
  <2>3. kind = "unicore"
    BY <1>5 DEF ReceiveBinaryFrame
  <2> QED
    BY <2>2, <2>3, LocatedIsUpdate DEF StateStep, Learned, Refused
<1>6. CASE ResetRuntime \/ Tick \/ UNCHANGED runtimeVars
  BY <1>6 DEF ResetRuntime, Tick, runtimeVars, StateStep
<1> QED
  BY <1>1, <1>2, <1>3, <1>4, <1>5, <1>6 DEF RuntimeNext

-----------------------------------------------------------------------------
\* Merging.

\* The fields and the fix that an update reaches.
Reached(u) == FieldsApplied(state, u) \cup (IF FixApplies(state, u) THEN {"fix"} ELSE {})

LEMMA MergeSays ==
  \A u : LET m == Merge(state, u)
         IN  /\ DOMAIN m.version = Reached(u) \cup DOMAIN state.version
             /\ \A s \in Reached(u) : m.version[s] = u.at
             /\ \A s \in DOMAIN state.version \ Reached(u) : m.version[s] = state.version[s]
             /\ m.fix = IF FixApplies(state, u) THEN u.fix ELSE state.fix
             /\ DOMAIN m.value = (DOMAIN state.value \ (FieldsApplied(state, u) \ DOMAIN u.set))
                                  \cup (FieldsApplied(state, u) \cap DOMAIN u.set)
BY DEF Merge, Over, Reached

LEMMA ReachedInTime == \A u : \A s \in Reached(u) : ShouldApply(state, s, u.at)
BY DEF Reached, FieldsApplied, FixApplies

LEMMA ReachesPosition ==
  \A u : \A p \in Position :
    p \in FieldsApplied(state, u) <=>
      (p \in DOMAIN u.set \/ p \in u.clear) /\ ShouldApply(state, p, u.at)
BY DEF FieldsApplied

LEMMA NoStateSays ==
  DOMAIN NoState.version = {} /\ DOMAIN NoState.value = {} /\ NoState.fix = UnknownFix
BY DEF NoState, EmptyFunction

-----------------------------------------------------------------------------
\* The newest wins.

LEMMA TimesAreTimes == \A at \in Times : IF timed THEN at \in Int /\ at <= now ELSE at = NoTime
BY DEF Times

\* In a session with a clock every field has a time.
VersionsKnown == timed => \A s \in DOMAIN state.version : state.version[s] \in Int

LEMMA KnownInit == RuntimeInit => VersionsKnown
BY NoStateSays DEF RuntimeInit, VersionsKnown

LEMMA TimedStays == [RuntimeNext]_runtimeVars => timed' = timed /\ kind' = kind
BY DEF RuntimeNext, runtimeVars, ReceiveSentence, ReceiveUbxFrame, ReceivePositionLog,
       ReceiveStatusLog, ReceiveBinaryFrame, ResetRuntime, Tick, Receive

LEMMA KnownStep == VersionsKnown /\ [RuntimeNext]_runtimeVars => VersionsKnown'
<1> SUFFICES ASSUME VersionsKnown, [RuntimeNext]_runtimeVars, timed,
                    NEW s \in DOMAIN state'.version
             PROVE  state'.version[s] \in Int
  BY TimedStays DEF VersionsKnown
<1>1. StateStep
  BY EveryStateStep
<1>2. CASE state' = state
  BY <1>2 DEF VersionsKnown
<1>3. CASE state' = NoState
  BY <1>3, NoStateSays
<1>4. CASE \E u : Learned(u) /\ state' = Merge(state, u)
  <2>1. PICK u : Learned(u) /\ state' = Merge(state, u)
    BY <1>4
  <2>2. u.at \in Int
    BY <2>1, TimesAreTimes DEF Learned
  <2> QED
    BY <2>1, <2>2, MergeSays DEF VersionsKnown
<1> QED
  BY <1>1, <1>2, <1>3, <1>4 DEF StateStep

LEMMA NewestStep == VersionsKnown /\ [RuntimeNext]_runtimeVars => Newest
<1> SUFFICES ASSUME VersionsKnown, [RuntimeNext]_runtimeVars, timed,
                    NEW s \in DOMAIN state.version \cap DOMAIN state'.version
             PROVE  state'.version[s] >= state.version[s]
  BY DEF Newest
<1>1. StateStep
  BY EveryStateStep
<1>2. state.version[s] \in Int
  BY DEF VersionsKnown
<1>3. CASE state' = state
  BY <1>2, <1>3
<1>4. CASE state' = NoState
  BY <1>4, NoStateSays
<1>5. CASE \E u : Learned(u) /\ state' = Merge(state, u)
  <2>1. PICK u : Learned(u) /\ state' = Merge(state, u)
    BY <1>5
  <2>2. u.at \in Int
    BY <2>1, TimesAreTimes DEF Learned
  <2>3. CASE s \in Reached(u)
    <3>1. ShouldApply(state, s, u.at)
      BY <2>3, ReachedInTime
    <3>2. u.at >= state.version[s]
      BY <1>2, <2>2, <3>1, MissingAssumption DEF ShouldApply
    <3> QED
      BY <2>1, <2>3, <3>2, MergeSays
  <2>4. CASE s \notin Reached(u)
    BY <1>2, <2>1, <2>4, MergeSays
  <2> QED
    BY <2>3, <2>4
<1> QED
  BY <1>1, <1>3, <1>4, <1>5 DEF StateStep

(***************************************************************************)
(* NewestWins: in a session with a clock no field, and not the fix, ever   *)
(* goes back to what an older record said of it, in whatever order records *)
(* of whatever age arrive (GnssRuntimeAggregator::ShouldApply).            *)
(***************************************************************************)
THEOREM NewestIsKept == RuntimeSpec => NewestWins
<1>1. RuntimeSpec => []VersionsKnown
  BY KnownInit, KnownStep, PTL DEF RuntimeSpec
<1>2. VersionsKnown /\ [RuntimeNext]_runtimeVars => [Newest]_state
  BY NewestStep
<1> QED
  BY <1>1, <1>2, PTL DEF RuntimeSpec, NewestWins

-----------------------------------------------------------------------------
\* A state without a fix shows no coordinates.

LEMMA ReachesFix == \A u : "fix" \in Reached(u) <=> FixApplies(state, u)
BY DEF Reached, FieldsApplied, CapabilityFields, ClassicFields, MotionFields, CorrectionFields,
       BaselineFields, InterferenceFields, Position

LEMMA ReachedPosition ==
  \A u : \A p \in Position : p \in Reached(u) <=> p \in FieldsApplied(state, u)
BY DEF Reached, Position

\* a is not younger than b; without a clock nothing is.
Since(a, b) == timed => a <= b

\* Coordinates that are shown are no younger than the fix, and the word that
\* there is no fix is no younger than that there are no coordinates.
Backed ==
  kind # "unicore" =>
    /\ \A p \in Position : p \in DOMAIN state.value =>
         /\ {p, "fix"} \subseteq DOMAIN state.version
         /\ Since(state.version[p], state.version["fix"])
    /\ state.fix.type # "unknown" /\ ~state.fix.valid =>
         \A p \in Position :
           /\ p \notin DOMAIN state.value
           /\ {p, "fix"} \subseteq DOMAIN state.version
           /\ Since(state.version["fix"], state.version[p])

\* Without a clock no version has a time.
VersionsAlike == ~timed => \A s \in DOMAIN state.version : state.version[s] = NoTime

LEMMA AlikeInit == RuntimeInit => VersionsAlike
BY NoStateSays DEF RuntimeInit, VersionsAlike

LEMMA AlikeStep == VersionsAlike /\ [RuntimeNext]_runtimeVars => VersionsAlike'
<1> SUFFICES ASSUME VersionsAlike, [RuntimeNext]_runtimeVars, ~timed,
                    NEW s \in DOMAIN state'.version
             PROVE  state'.version[s] = NoTime
  BY TimedStays DEF VersionsAlike
<1>1. StateStep
  BY EveryStateStep
<1>2. CASE state' = state
  BY <1>2 DEF VersionsAlike
<1>3. CASE state' = NoState
  BY <1>3, NoStateSays
<1>4. CASE \E u : Learned(u) /\ state' = Merge(state, u)
  <2>1. PICK u : Learned(u) /\ state' = Merge(state, u)
    BY <1>4
  <2>2. u.at = NoTime
    BY <2>1, TimesAreTimes DEF Learned
  <2> QED
    BY <2>1, <2>2, MergeSays DEF VersionsAlike
<1> QED
  BY <1>1, <1>2, <1>3, <1>4 DEF StateStep

\* A field is reached when it was never told or the update is no older.
LEMMA AppliesSince ==
  ASSUME VersionsKnown, VersionsAlike, NEW u, Learned(u), NEW s
  PROVE  ShouldApply(state, s, u.at) <=>
           (s \in DOMAIN state.version => Since(state.version[s], u.at))
<1>1. CASE timed
  <2>1. u.at \in Int
    BY <1>1, TimesAreTimes DEF Learned
  <2>2. s \in DOMAIN state.version => state.version[s] \in Int
    BY <1>1 DEF VersionsKnown
  <2> QED
    BY <1>1, <2>1, <2>2, MissingAssumption DEF ShouldApply, Since
<1>2. CASE ~timed
  <2>1. u.at = NoTime
    BY <1>2, TimesAreTimes DEF Learned
  <2> QED
    BY <1>2, <2>1 DEF ShouldApply, Since
<1> QED
  BY <1>1, <1>2

LEMMA BackedInit == RuntimeInit => Backed
BY NoStateSays DEF RuntimeInit, Backed, UnknownFix

\* Merging what a record of one of the two sessions says keeps the two times in
\* order.
LEMMA BackedMerge ==
  ASSUME Backed, VersionsKnown, VersionsAlike, kind # "unicore",
         NEW u, Learned(u)
  PROVE  LET m == Merge(state, u)
         IN  /\ \A p \in Position : p \in DOMAIN m.value =>
                  /\ {p, "fix"} \subseteq DOMAIN m.version
                  /\ Since(m.version[p], m.version["fix"])
             /\ m.fix.type # "unknown" /\ ~m.fix.valid =>
                  \A p \in Position :
                    /\ p \notin DOMAIN m.value
                    /\ {p, "fix"} \subseteq DOMAIN m.version
                    /\ Since(m.version["fix"], m.version[p])
<1> DEFINE m == Merge(state, u)
           applied == FieldsApplied(state, u)
           fixed == FixApplies(state, u)
           v == state.version
<1>1. /\ DOMAIN m.version = Reached(u) \cup DOMAIN v
      /\ \A s \in Reached(u) : m.version[s] = u.at
      /\ \A s \in DOMAIN v \ Reached(u) : m.version[s] = v[s]
      /\ m.fix = IF fixed THEN u.fix ELSE state.fix
      /\ DOMAIN m.value = (DOMAIN state.value \ (applied \ DOMAIN u.set))
                           \cup (applied \cap DOMAIN u.set)
  BY MergeSays
<1>2. "fix" \in Reached(u) <=> fixed
  BY ReachesFix
<1>3. \A p \in Position :
        /\ p \in Reached(u) <=> p \in applied
        /\ p \in applied <=> (p \in DOMAIN u.set \/ p \in u.clear)
                               /\ (p \in DOMAIN v => Since(v[p], u.at))
  BY ReachedPosition, ReachesPosition, AppliesSince
<1>4. fixed <=> /\ u.fix.type # "unknown"
                /\ "fix" \in DOMAIN v => Since(v["fix"], u.at)
                /\ \/ u.fix.type \notin {"2d", "3d"}
                   \/ state.fix.type \notin CorrectionClass
                   \/ "rtk_mode" \in DOMAIN u.set
  BY AppliesSince DEF FixApplies
<1>5. Sane(u)
  BY DEF Learned
<1>6. timed => u.at \in Int /\ \A s \in DOMAIN v : v[s] \in Int
  BY TimesAreTimes DEF Learned, VersionsKnown
<1> HIDE DEF m, applied, fixed, v
<1>7. ASSUME NEW p \in Position, p \in DOMAIN m.value
      PROVE  {p, "fix"} \subseteq DOMAIN m.version /\ Since(m.version[p], m.version["fix"])
  <2>1. CASE p \in applied
    <3>1. p \in DOMAIN u.set
      BY <1>1, <1>7, <2>1
    <3>2. /\ u.fix.type # "unknown"
          /\ u.fix.type \in {"2d", "3d"} => "rtk_mode" \in DOMAIN u.set
      BY <1>5, <3>1 DEF Sane
    <3>3. fixed \/ ("fix" \in DOMAIN v /\ ~Since(v["fix"], u.at))
      BY <1>4, <3>2
    <3>4. p \in DOMAIN m.version /\ m.version[p] = u.at
      BY <1>1, <1>3, <2>1
    <3>5. CASE fixed
      BY <1>1, <1>2, <1>6, <3>4, <3>5 DEF Since
    <3>6. CASE ~fixed
      <4>1. "fix" \in DOMAIN m.version /\ m.version["fix"] = v["fix"]
        BY <1>1, <1>2, <3>3, <3>6
      <4> QED
        BY <1>6, <3>3, <3>4, <3>6, <4>1 DEF Since
    <3> QED
      BY <3>5, <3>6
  <2>2. CASE p \notin applied
    <3>1. p \in DOMAIN state.value
      BY <1>1, <1>7, <2>2
    <3>2. {p, "fix"} \subseteq DOMAIN v /\ Since(v[p], v["fix"])
      BY <3>1 DEF Backed, v
    <3>3. p \in DOMAIN m.version /\ m.version[p] = v[p]
      BY <1>1, <1>3, <2>2, <3>2
    <3>4. CASE fixed
      <4>1. "fix" \in DOMAIN m.version /\ m.version["fix"] = u.at /\ Since(v["fix"], u.at)
        BY <1>1, <1>2, <1>4, <3>2, <3>4
      <4> QED
        BY <1>6, <3>2, <3>3, <4>1 DEF Since
    <3>5. CASE ~fixed
      BY <1>1, <1>2, <3>2, <3>3, <3>5
    <3> QED
      BY <3>4, <3>5
  <2> QED
    BY <2>1, <2>2
<1>8. ASSUME m.fix.type # "unknown", ~m.fix.valid, NEW p \in Position
      PROVE  /\ p \notin DOMAIN m.value
             /\ {p, "fix"} \subseteq DOMAIN m.version
             /\ Since(m.version["fix"], m.version[p])
  <2>1. CASE fixed
    <3>1. p \in u.clear /\ p \notin DOMAIN u.set
      BY <1>1, <1>5, <1>8, <2>1 DEF Sane
    <3>2. "fix" \in DOMAIN m.version /\ m.version["fix"] = u.at
      BY <1>1, <1>2, <2>1
    <3>3. CASE p \in applied
      BY <1>1, <1>3, <1>6, <3>1, <3>2, <3>3 DEF Since
    <3>4. CASE p \notin applied
      <4>1. p \in DOMAIN v /\ ~Since(v[p], u.at)
        BY <1>3, <3>1, <3>4
      <4>2. p \in DOMAIN state.value =>
              {p, "fix"} \subseteq DOMAIN v /\ Since(v[p], v["fix"])
        BY DEF Backed, v
      <4>3. "fix" \in DOMAIN v => Since(v["fix"], u.at)
        BY <1>4, <2>1
      <4>4. p \notin DOMAIN state.value
        BY <1>6, <4>1, <4>2, <4>3 DEF Since
      <4>5. p \in DOMAIN m.version /\ m.version[p] = v[p]
        BY <1>1, <1>3, <3>4, <4>1
      <4> QED
        BY <1>1, <1>6, <3>2, <3>4, <4>1, <4>4, <4>5 DEF Since
    <3> QED
      BY <3>3, <3>4
  <2>2. CASE ~fixed
    <3>1. state.fix.type # "unknown" /\ ~state.fix.valid
      BY <1>1, <1>8, <2>2
    <3>2. /\ p \notin DOMAIN state.value /\ {p, "fix"} \subseteq DOMAIN v
          /\ Since(v["fix"], v[p])
      BY <3>1 DEF Backed, v
    <3>3. "fix" \in DOMAIN m.version /\ m.version["fix"] = v["fix"]
      BY <1>1, <1>2, <2>2, <3>2
    <3>4. CASE p \in applied
      <4>1. Since(v[p], u.at) /\ p \in DOMAIN m.version /\ m.version[p] = u.at
        BY <1>1, <1>3, <3>2, <3>4
      <4>2. Since(v["fix"], u.at)
        BY <1>6, <3>2, <4>1 DEF Since
      <4>3. p \notin DOMAIN u.set
        <5> SUFFICES ASSUME p \in DOMAIN u.set PROVE FALSE
          OBVIOUS
        <5>1. /\ u.fix.type # "unknown"
              /\ u.fix.type \in {"2d", "3d"} => "rtk_mode" \in DOMAIN u.set
          BY <1>5 DEF Sane
        <5> QED
          BY <1>4, <2>2, <4>2, <5>1
      <4> QED
        BY <1>1, <3>2, <3>3, <4>1, <4>2, <4>3
    <3>5. CASE p \notin applied
      BY <1>1, <1>3, <3>2, <3>3, <3>5
    <3> QED
      BY <3>4, <3>5
  <2> QED
    BY <2>1, <2>2
<1> QED
  BY <1>7, <1>8 DEF m

LEMMA BackedStep ==
  Backed /\ VersionsKnown /\ VersionsAlike /\ [RuntimeNext]_runtimeVars => Backed'
<1> SUFFICES ASSUME Backed, VersionsKnown, VersionsAlike, [RuntimeNext]_runtimeVars
             PROVE  Backed'
  OBVIOUS
<1>1. StateStep /\ timed' = timed /\ kind' = kind
  BY EveryStateStep, TimedStays
<1>2. CASE kind = "unicore"
  BY <1>1, <1>2 DEF Backed
<1>3. CASE state' = state
  BY <1>1, <1>3 DEF Backed, Since
<1>4. CASE state' = NoState
  BY <1>4, NoStateSays DEF Backed, UnknownFix
<1>5. CASE kind # "unicore" /\ \E u : Learned(u) /\ state' = Merge(state, u)
  <2>1. PICK u : Learned(u) /\ state' = Merge(state, u)
    BY <1>5
  <2>2. /\ \A p \in Position : p \in DOMAIN state'.value =>
             /\ {p, "fix"} \subseteq DOMAIN state'.version
             /\ Since(state'.version[p], state'.version["fix"])
        /\ state'.fix.type # "unknown" /\ ~state'.fix.valid =>
             \A p \in Position :
               /\ p \notin DOMAIN state'.value
               /\ {p, "fix"} \subseteq DOMAIN state'.version
               /\ Since(state'.version["fix"], state'.version[p])
    BY <1>5, <2>1, BackedMerge
  <2> QED
    BY <1>1, <2>2 DEF Backed, Since
<1> QED
  BY <1>1, <1>2, <1>3, <1>4, <1>5 DEF StateStep

(***************************************************************************)
(* NoFixNoPosition: a u-blox or an NMEA session that says there is no fix  *)
(* shows no coordinates, however late and in whatever order the records    *)
(* arrived that set or took away either of the two.                        *)
(***************************************************************************)
THEOREM LostFixTakesPosition == RuntimeSpec => []NoFixNoPosition
<1>1. RuntimeInit => VersionsKnown /\ VersionsAlike /\ Backed
  BY KnownInit, AlikeInit, BackedInit
<1>2. VersionsKnown /\ VersionsAlike /\ Backed /\ [RuntimeNext]_runtimeVars =>
        VersionsKnown' /\ VersionsAlike' /\ Backed'
  BY KnownStep, AlikeStep, BackedStep
<1>3. Backed => NoFixNoPosition
  BY DEF Backed, NoFixNoPosition
<1> QED
  BY <1>1, <1>2, <1>3, PTL DEF RuntimeSpec

-----------------------------------------------------------------------------
\* The satellites of a cycle.

TalkerFields == {"total", "at", "inView", "tracked", "seen", "cn0"}

\* The messages that were counted: some of the present cycle, or one of a cycle
\* that says it has more messages than there can be.
OfOneCycle(c) ==
  \/ c.seen \subseteq 1..c.total
  \/ c.total = 1 /\ \E i \in Nat : c.seen \subseteq {i}

CycleSound(c) ==
  /\ DOMAIN c = TalkerFields
  /\ c.total \in Nat
  /\ c.tracked \in Nat
  /\ IsFiniteSet(c.seen)
  /\ OfOneCycle(c)
  /\ c.tracked <= MaxPerMessage * Cardinality(c.seen)

CyclesSound == \A t \in DOMAIN talkers : CycleSound(talkers[t])

LEMMA NewTalkerSound ==
  \A n \in Nat : LET c == [NewTalker EXCEPT !.total = n]
                 IN  /\ CycleSound(c) /\ c.total = n /\ c.seen = {} /\ c.tracked = 0
<1> TAKE n \in Nat
<1> DEFINE c == [NewTalker EXCEPT !.total = n]
<1>1. DOMAIN c = TalkerFields /\ c.total = n /\ c.tracked = 0 /\ c.seen = {}
  BY DEF NewTalker, TalkerFields
<1> HIDE DEF c
<1>2. IsFiniteSet({}) /\ Cardinality({}) = 0 /\ MaxPerMessage * 0 = 0
  BY FS_EmptySet, LimitsAssumption
<1>3. CycleSound(c)
  BY <1>1, <1>2 DEF CycleSound, OfOneCycle
<1> QED
  BY <1>1, <1>3 DEF c

LEMMA RestartedSound ==
  ASSUME NEW t, CycleSound(t), NEW s, s.total \in Nat, s.index \in 1..s.total
  PROVE  LET c == RestartedCycle(t, s)
         IN  /\ CycleSound(c)
             /\ \/ c.seen = {} /\ c.total \in {1, s.total}
                \/ c.seen \subseteq 1..c.total /\ c.total = s.total
<1> DEFINE c == RestartedCycle(t, s)
           n == IF s.total > MaxMessages THEN 1 ELSE s.total
           again == s.index <= 1 \/ StaleCycle(t, s.at) \/ s.total > MaxMessages
                      \/ t.total # s.total
<1>1. c = IF again THEN [NewTalker EXCEPT !.total = n] ELSE t
  BY DEF RestartedCycle
<1>2. n \in Nat /\ n \in {1, s.total}
  OBVIOUS
<1>3. ~again => s.index > 1 /\ t.total = s.total
  OBVIOUS
<1> HIDE DEF c, n, again
<1>4. CASE again
  <2>1. CycleSound(c) /\ c.total = n /\ c.seen = {}
    BY <1>1, <1>2, <1>4, NewTalkerSound
  <2> QED
    BY <1>2, <2>1 DEF c
<1>5. CASE ~again
  <2>1. c = t /\ s.index > 1 /\ t.total = s.total
    BY <1>1, <1>3, <1>5
  <2>2. t.seen \subseteq 1..t.total
    BY <2>1 DEF CycleSound, OfOneCycle
  <2> QED
    BY <2>1, <2>2 DEF c
<1> QED
  BY <1>4, <1>5

\* A message is counted once, with no more satellites than it can carry.
LEMMA CountedSound ==
  ASSUME NEW t, CycleSound(t), NEW s, s.total \in Nat, s.index \in 1..s.total,
         s.satellites \in 0..MaxPerMessage
  PROVE  CycleSound(CountGsv(t, s))
<1> DEFINE base == RestartedCycle(t, s)
           c == [base EXCEPT !.inView = s.in_view, !.at = s.at]
           more == [c EXCEPT !.seen = @ \cup {s.index}, !.tracked = @ + s.satellites,
                             !.cn0 = @ \/ s.cn0 # NoValue]
<1>1. CountGsv(t, s) = IF s.index \notin 1..MaxMessages \/ s.index \in c.seen THEN c ELSE more
  BY DEF CountGsv
<1>2. /\ CycleSound(base)
      /\ \/ base.seen = {} /\ base.total \in {1, s.total}
         \/ base.seen \subseteq 1..base.total /\ base.total = s.total
  BY RestartedSound
<1> HIDE DEF base
<1>3. /\ DOMAIN c = TalkerFields /\ c.total = base.total /\ c.tracked = base.tracked
      /\ c.seen = base.seen
  BY <1>2 DEF CycleSound, TalkerFields
<1> HIDE DEF c
<1>4. CycleSound(c)
  BY <1>2, <1>3 DEF CycleSound, OfOneCycle
<1>5. ASSUME s.index \notin c.seen
      PROVE  CycleSound(more)
  <2>1. /\ DOMAIN more = TalkerFields /\ more.total = c.total
        /\ more.tracked = c.tracked + s.satellites /\ more.seen = c.seen \cup {s.index}
    BY <1>3 DEF TalkerFields
  <2> HIDE DEF more
  <2>2. /\ IsFiniteSet(more.seen)
        /\ Cardinality(more.seen) = Cardinality(c.seen) + 1
        /\ Cardinality(c.seen) \in Nat
    BY <1>4, <1>5, <2>1, FS_AddElement, FS_CardinalityType DEF CycleSound
  <2>3. OfOneCycle(more)
    BY <1>2, <1>3, <2>1 DEF OfOneCycle
  <2>4. more.tracked \in Nat /\ more.total \in Nat
    BY <1>4, <2>1, LimitsAssumption DEF CycleSound
  <2>5. more.tracked <= MaxPerMessage * Cardinality(more.seen)
    <3>1. \A n \in Nat : MaxPerMessage * (n + 1) = MaxPerMessage * n + MaxPerMessage
                           /\ MaxPerMessage * n \in Nat
      BY LimitsAssumption
    <3>2. c.tracked <= MaxPerMessage * Cardinality(c.seen) /\ c.tracked \in Nat
      BY <1>4 DEF CycleSound
    <3> QED
      BY <2>1, <2>2, <3>1, <3>2, LimitsAssumption
  <2> QED
    BY <2>1, <2>2, <2>3, <2>4, <2>5 DEF CycleSound
<1> QED
  BY <1>1, <1>4, <1>5

LEMMA GsvIsSound ==
  ASSUME NEW r \in Sentences, NEW at, Stamped(r, at).type = "GSV", ParseNmeaGsv(Stamped(r, at))
  PROVE  LET s == Stamped(r, at)
         IN  s.total \in Nat /\ s.index \in 1..s.total /\ s.satellites \in 0..MaxPerMessage
<1> DEFINE s == Stamped(r, at)
<1>1. r.type = "GSV" /\ GsvFields \subseteq DOMAIN r
  BY SentencesAssumption, StampedField
<1>2. /\ s.checksum = r.checksum /\ s.complete = r.complete /\ s.cn0 = r.cn0
      /\ s.total = r.total /\ s.index = r.index /\ s.in_view = r.in_view
      /\ s.satellites = r.satellites
  BY <1>1, StampedField DEF GsvFields
<1> HIDE DEF s
<1>3. ParseNmeaGsv(s)
  BY DEF s
<1>4. ParseNmeaGsv(r)
  BY <1>2, <1>3 DEF ParseNmeaGsv, Readable
<1>5. s.total \in Nat /\ s.index \in 1..s.total /\ s.satellites \in 0..MaxPerMessage
  BY <1>1, <1>2, <1>3, <1>4, SentencesAssumption DEF ParseNmeaGsv
<1> QED
  BY <1>5 DEF s

\* Only a GSV sentence of a Unicore session, or a reset, changes the cycles.
LEMMA TalkersStep ==
  ASSUME [RuntimeNext]_runtimeVars
  PROVE  \/ talkers' = talkers
         \/ talkers' = EmptyFunction
         \/ \E s : /\ s.total \in Nat /\ s.index \in 1..s.total
                   /\ s.satellites \in 0..MaxPerMessage
                   /\ talkers' = Over([t \in {s.talker} |-> CountGsv(TalkerBefore(s), s)],
                                      talkers)
<1> USE DEF Receive, mixing
<1>1. CASE ReceiveSentence
  <2>1. CASE \/ kind = "nmea" /\ Receive(NmeaSentence, Sentences)
             \/ kind = "ublox" /\ Receive(UbloxSentence, Sentences)
    BY <2>1 DEF NmeaSentence, UbloxSentence, TakeSentence, Refused
  <2>2. CASE kind = "unicore" /\ Receive(UnicoreSentence, Sentences)
    <3>1. PICK r \in Sentences, at \in Times : UnicoreSentence(Stamped(r, at))
      BY <2>2
    <3> DEFINE s == Stamped(r, at)
    <3>2. s.type = "GSV" /\ ParseNmeaGsv(s) =>
            s.total \in Nat /\ s.index \in 1..s.total /\ s.satellites \in 0..MaxPerMessage
      BY GsvIsSound
    <3> HIDE DEF s
    <3>3. UnicoreSentence(s)
      BY <3>1 DEF s
    <3>4. CASE UnicoreGsv(s) /\ ParseNmeaGsv(s)
      <4>1. /\ s.type = "GSV"
            /\ talkers' = Over([t \in {s.talker} |-> CountGsv(TalkerBefore(s), s)], talkers)
        BY <3>4 DEF UnicoreGsv
      <4> QED
        BY <3>2, <3>4, <4>1
    <3>5. CASE UnicoreGga(s) \/ UnicoreGst(s) \/ Refused
      BY <3>5 DEF UnicoreGga, UnicoreGst, Refused
    <3> QED
      BY <3>3, <3>4, <3>5 DEF UnicoreSentence, UnicoreGsv, UnicoreOtherSentence
  <2> QED
    BY <1>1, <2>1, <2>2 DEF ReceiveSentence
<1>2. CASE ReceiveUbxFrame
  BY <1>2 DEF ReceiveUbxFrame, UbxFrame
<1>3. CASE ReceivePositionLog
  BY <1>3 DEF ReceivePositionLog, UnicorePositionLog, NativePosition
<1>4. CASE ReceiveStatusLog
  BY <1>4 DEF ReceiveStatusLog, UnicoreStatusLog, Refused
<1>5. CASE ReceiveBinaryFrame
  BY <1>5 DEF ReceiveBinaryFrame, UnicoreBinaryFrame, NativePosition, Refused
<1>6. CASE ResetRuntime \/ Tick \/ UNCHANGED runtimeVars
  BY <1>6 DEF ResetRuntime, Tick, runtimeVars
<1> QED
  BY <1>1, <1>2, <1>3, <1>4, <1>5, <1>6 DEF RuntimeNext

LEMMA CyclesInit == RuntimeInit => CyclesSound
BY DEF RuntimeInit, CyclesSound, EmptyFunction

LEMMA CyclesStep == CyclesSound /\ [RuntimeNext]_runtimeVars => CyclesSound'
<1> SUFFICES ASSUME CyclesSound, [RuntimeNext]_runtimeVars
             PROVE  CyclesSound'
  OBVIOUS
<1>1. CASE talkers' = talkers
  BY <1>1 DEF CyclesSound
<1>2. CASE talkers' = EmptyFunction
  BY <1>2 DEF CyclesSound, EmptyFunction
<1>3. ASSUME NEW s, s.total \in Nat, s.index \in 1..s.total, s.satellites \in 0..MaxPerMessage,
             talkers' = Over([t \in {s.talker} |-> CountGsv(TalkerBefore(s), s)], talkers)
      PROVE  CyclesSound'
  <2>1. CycleSound(NewTalker)
    <3>1. /\ DOMAIN NewTalker = TalkerFields /\ NewTalker.total = 0
          /\ NewTalker.tracked = 0 /\ NewTalker.seen = {}
      BY DEF NewTalker, TalkerFields
    <3>2. IsFiniteSet({}) /\ Cardinality({}) = 0 /\ MaxPerMessage * 0 = 0
      BY FS_EmptySet, LimitsAssumption
    <3> QED
      BY <3>1, <3>2 DEF CycleSound, OfOneCycle
  <2>2. CycleSound(TalkerBefore(s))
    BY <2>1 DEF TalkerBefore, CyclesSound
  <2>3. CycleSound(CountGsv(TalkerBefore(s), s))
    BY <1>3, <2>2, CountedSound
  <2> HIDE DEF CycleSound
  <2> QED
    BY <1>3, <2>3 DEF CyclesSound, Over
<1> QED
  BY <1>1, <1>2, <1>3, TalkersStep

LEMMA SoundIsOnce ==
  ASSUME NEW c, CycleSound(c)
  PROVE  Cardinality(c.seen) <= c.total
<1>1. CASE c.seen \subseteq 1..c.total
  <2>1. IsFiniteSet(1..c.total) /\ Cardinality(1..c.total) = c.total
    <3> DEFINE n == c.total
    <3>1. n \in Int /\ 1 \in Int /\ n >= 0
      BY DEF CycleSound
    <3> HIDE DEF n
    <3>2. IsFiniteSet(1..n) /\ Cardinality(1..n) = n
      BY <3>1, FS_Interval
    <3> QED
      BY <3>2 DEF n
  <2>2. Cardinality(c.seen) <= Cardinality(1..c.total)
    BY <1>1, <2>1, FS_Subset
  <2> QED
    BY <2>1, <2>2
<1>2. CASE c.total = 1 /\ \E i \in Nat : c.seen \subseteq {i}
  <2>1. PICK i \in Nat : c.seen \subseteq {i}
    BY <1>2
  <2>2. IsFiniteSet({i}) /\ Cardinality({i}) = 1
    BY FS_Singleton
  <2>3. Cardinality(c.seen) <= Cardinality({i})
    BY <2>1, <2>2, FS_Subset
  <2> QED
    BY <1>2, <2>2, <2>3
<1> QED
  BY <1>1, <1>2 DEF CycleSound, OfOneCycle

(***************************************************************************)
(* CycleCountsOnce: whatever GSV messages arrive, lost, repeated, out of   *)
(* order or of cycles cut short, a talker's satellites are of at most as   *)
(* many messages as its present cycle has, each counted once.              *)
(***************************************************************************)
THEOREM CyclesCountOnce == RuntimeSpec => []CycleCountsOnce
<1>1. CyclesSound => CycleCountsOnce
  BY SoundIsOnce DEF CyclesSound, CycleCountsOnce, CycleSound
<1> QED
  BY <1>1, CyclesInit, CyclesStep, PTL DEF RuntimeSpec

-----------------------------------------------------------------------------
\* The counters of the tracker describe all its observations.

\* A sequence, of whatever values.
IsHistory(h) == \E S : h \in Seq(S)

LEMMA HistoryGrows ==
  ASSUME NEW h, IsHistory(h), NEW e
  PROVE  /\ IsHistory(Append(h, e))
         /\ Len(h) \in Nat /\ DOMAIN h = 1..Len(h)
         /\ Len(Append(h, e)) = Len(h) + 1
         /\ DOMAIN Append(h, e) = 1..(Len(h) + 1)
         /\ \A i \in 1..Len(h) : Append(h, e)[i] = h[i]
         /\ Append(h, e)[Len(h) + 1] = e
<1>1. PICK S : h \in Seq(S)
  BY DEF IsHistory
<1> DEFINE T == S \cup {e}
<1>2. h \in Seq(T)
  BY <1>1
<1>3. e \in T
  OBVIOUS
<1> HIDE DEF T
<1>4. /\ Append(h, e) \in Seq(T)
      /\ Len(Append(h, e)) = Len(h) + 1
      /\ \A i \in 1..Len(h) : Append(h, e)[i] = h[i]
      /\ Append(h, e)[Len(h) + 1] = e
  BY <1>2, <1>3, AppendProperties
<1>5. Len(h) \in Nat /\ DOMAIN h = 1..Len(h)
  BY <1>1
<1>6. DOMAIN Append(h, e) = 1..(Len(h) + 1)
  BY <1>4
<1> QED
  BY <1>4, <1>5, <1>6 DEF IsHistory

Placed(h) == {i \in DOMAIN h : h[i].payload # NoValue}

LEMMA PlacedGrows ==
  ASSUME NEW h, IsHistory(h), NEW e
  PROVE  Placed(Append(h, e)) =
           Placed(h) \cup (IF e.payload # NoValue THEN {Len(h) + 1} ELSE {})
<1> DEFINE g == Append(h, e)
           n == Len(h)
<1>1. /\ n \in Nat /\ DOMAIN h = 1..n /\ DOMAIN g = 1..(n + 1)
      /\ \A i \in 1..n : g[i] = h[i]
      /\ g[n + 1] = e
  BY HistoryGrows
<1> HIDE DEF g, n
<1>2. Placed(g) = Placed(h) \cup (IF e.payload # NoValue THEN {n + 1} ELSE {})
  BY <1>1 DEF Placed
<1> QED
  BY <1>2 DEF g, n

LEMMA ChangesGrow ==
  ASSUME NEW h, IsHistory(h), NEW e
  PROVE  Changes(Append(h, e)) =
           Changes(h) \cup (IF /\ e.payload # NoValue
                               /\ Len(h) = 0 \/ h[Len(h)].payload # e.payload
                              THEN {Len(h) + 1} ELSE {})
<1> DEFINE g == Append(h, e)
           n == Len(h)
           changed == e.payload # NoValue /\ (n = 0 \/ h[n].payload # e.payload)
<1>1. /\ n \in Nat /\ DOMAIN h = 1..n /\ DOMAIN g = 1..(n + 1)
      /\ \A i \in 1..n : g[i] = h[i]
      /\ g[n + 1] = e
  BY HistoryGrows
<1> HIDE DEF g, n
<1>2. ASSUME NEW i \in 1..n
      PROVE  i \in Changes(g) <=> i \in Changes(h)
  <2>1. i = 1 \/ i - 1 \in 1..n
    BY <1>1
  <2> QED
    BY <1>1, <2>1 DEF Changes
<1>3. n + 1 \in Changes(g) <=> changed
  <2>1. CASE n = 0
    BY <1>1, <2>1 DEF Changes
  <2>2. CASE n # 0
    <3>1. n \in 1..n /\ n + 1 # 1 /\ (n + 1) - 1 = n
      BY <1>1, <2>2
    <3> QED
      BY <1>1, <2>2, <3>1 DEF Changes
  <2> QED
    BY <2>1, <2>2
<1>4. Changes(g) \subseteq 1..(n + 1) /\ Changes(h) \subseteq 1..n
  BY <1>1 DEF Changes
<1>5. Changes(g) = Changes(h) \cup (IF changed THEN {n + 1} ELSE {})
  <2> HIDE DEF changed
  <2>1. n + 1 \notin 1..n /\ 1..(n + 1) = 1..n \cup {n + 1}
    BY <1>1
  <2> QED
    BY <1>2, <1>3, <1>4, <2>1
<1> QED
  BY <1>5 DEF g, n

LEMMA UnchangedGrows ==
  ASSUME NEW h, IsHistory(h), NEW e
  PROVE  /\ e.payload = NoValue => Unchanged(Append(h, e)) = {}
         /\ e.payload # NoValue /\ Len(h) # 0 /\ h[Len(h)].payload = e.payload =>
              Unchanged(Append(h, e)) = Unchanged(h) \cup {Len(h) + 1} /\ Unchanged(h) # {}
         /\ e.payload # NoValue /\ (Len(h) = 0 \/ h[Len(h)].payload # e.payload) =>
              Unchanged(Append(h, e)) = {Len(h) + 1}
<1> DEFINE g == Append(h, e)
           n == Len(h)
<1>1. /\ n \in Nat /\ DOMAIN h = 1..n
      /\ Len(g) = n + 1 /\ DOMAIN g = 1..(n + 1)
      /\ \A i \in 1..n : g[i] = h[i]
      /\ g[n + 1] = e
  BY HistoryGrows
<1> HIDE DEF g, n
<1>2. Unchanged(g) \subseteq 1..(n + 1) /\ Unchanged(h) \subseteq 1..n
  BY <1>1 DEF Unchanged
<1>3. ASSUME NEW i \in 1..n
      PROVE  i \in Unchanged(g) <=> i \in Unchanged(h) /\ h[i].payload = e.payload
  <2>1. i..(n + 1) = i..n \cup {n + 1} /\ i..n \subseteq 1..n
    BY <1>1
  <2>2. g[i] = h[i] /\ \A j \in i..n : g[j] = h[j]
    BY <1>1, <2>1
  <2> QED
    BY <1>1, <2>1, <2>2 DEF Unchanged
<1>4. n + 1 \in Unchanged(g) <=> e.payload # NoValue
  <2>1. (n + 1)..(n + 1) = {n + 1}
    BY <1>1
  <2> QED
    BY <1>1, <2>1 DEF Unchanged
<1>5. ASSUME NEW i \in Unchanged(h)
      PROVE  n # 0 /\ h[n].payload = h[i].payload /\ h[i].payload # NoValue
  <2>1. n \in i..n
    BY <1>1, <1>2
  <2> QED
    BY <1>1, <1>2, <2>1 DEF Unchanged
<1>6. n # 0 /\ h[n].payload # NoValue => n \in Unchanged(h)
  <2>1. n..n = {n} /\ (n # 0 => n \in 1..n)
    BY <1>1
  <2> QED
    BY <1>1, <2>1 DEF Unchanged
<1>7. n + 1 \notin 1..n /\ 1..(n + 1) = 1..n \cup {n + 1}
  BY <1>1
<1>8. e.payload = NoValue => Unchanged(g) = {}
  BY <1>2, <1>3, <1>4, <1>5, <1>7
<1>9. e.payload # NoValue /\ n # 0 /\ h[n].payload = e.payload =>
        Unchanged(g) = Unchanged(h) \cup {n + 1} /\ Unchanged(h) # {}
  BY <1>2, <1>3, <1>4, <1>5, <1>6, <1>7
<1>10. e.payload # NoValue /\ (n = 0 \/ h[n].payload # e.payload) =>
         Unchanged(g) = {n + 1}
  BY <1>2, <1>3, <1>4, <1>5, <1>7
<1> QED
  BY <1>8, <1>9, <1>10 DEF g, n

TrackerFields ==
  {"valid", "invalid", "changes", "same", "lastAt", "changedAt", "span", "position",
   "epochs", "advances", "sameEpochs", "regressions", "relation", "epoch"}

LEMMA EpochKeeps ==
  \A t, epoch : DOMAIN t = TrackerFields =>
    LET o == ObserveReceiverEpoch(t, epoch)
    IN  /\ DOMAIN o = TrackerFields
        /\ o.valid = t.valid /\ o.invalid = t.invalid /\ o.changes = t.changes
        /\ o.same = t.same /\ o.lastAt = t.lastAt /\ o.changedAt = t.changedAt
        /\ o.span = t.span /\ o.position = t.position
BY DEF ObserveReceiverEpoch, TrackerFields

\* What one observation does to the counters.
LEMMA ObserveSays ==
  ASSUME NEW t, DOMAIN t = TrackerFields, NEW u, NEW epoch
  PROVE  LET o == Observe(t, u, epoch)
             payload == Payload(u)
         IN  /\ DOMAIN o = TrackerFields
             /\ o.lastAt = u.at
             /\ payload = NoValue =>
                  /\ o.valid = t.valid /\ o.invalid = t.invalid + 1
                  /\ o.changes = t.changes /\ o.same = 0 /\ o.position = NoValue
             /\ payload # NoValue /\ payload = t.position =>
                  /\ o.valid = t.valid + 1 /\ o.invalid = t.invalid
                  /\ o.changes = t.changes /\ o.same = t.same + 1 /\ o.position = payload
                  /\ o.changedAt = t.changedAt
                  /\ o.span = UpdateUnchangedObservationSpan(t, u.at)
             /\ payload # NoValue /\ payload # t.position =>
                  /\ o.valid = t.valid + 1 /\ o.invalid = t.invalid
                  /\ o.changes = t.changes + 1 /\ o.same = 1 /\ o.position = payload
                  /\ o.changedAt = u.at /\ o.span = IF u.at = NoTime THEN NoTime ELSE 0
<1> DEFINE o == Observe(t, u, epoch)
           dated == [t EXCEPT !.lastAt = u.at]
           known == ObserveReceiverEpoch(dated, epoch)
           payload == Payload(u)
<1>1. /\ DOMAIN dated = TrackerFields /\ dated.lastAt = u.at
      /\ dated.valid = t.valid /\ dated.invalid = t.invalid /\ dated.changes = t.changes
      /\ dated.same = t.same /\ dated.changedAt = t.changedAt
      /\ dated.span = t.span /\ dated.position = t.position
  BY DEF TrackerFields
<1> HIDE DEF dated
<1>2. /\ DOMAIN known = TrackerFields /\ known.lastAt = u.at
      /\ known.valid = t.valid /\ known.invalid = t.invalid /\ known.changes = t.changes
      /\ known.same = t.same /\ known.changedAt = t.changedAt
      /\ known.span = t.span /\ known.position = t.position
  BY <1>1, EpochKeeps
<1>3. payload = NoValue =>
        o = [known EXCEPT !.invalid = @ + 1, !.position = NoValue, !.same = 0, !.span = NoTime]
  BY DEF Observe, known, dated
<1>4. payload # NoValue /\ payload = t.position =>
        o = [known EXCEPT !.valid = @ + 1, !.same = @ + 1,
                          !.span = UpdateUnchangedObservationSpan(t, u.at)]
  BY DEF Observe, known, dated
<1>5. payload # NoValue /\ payload # t.position =>
        o = [known EXCEPT !.valid = @ + 1, !.same = 1, !.changes = @ + 1,
                          !.position = payload, !.changedAt = u.at,
                          !.span = IF u.at = NoTime THEN NoTime ELSE 0]
  BY DEF Observe, known, dated
<1> HIDE DEF known, o, payload
<1>0. {"valid", "invalid", "changes", "same", "changedAt", "span", "position", "lastAt"}
        \subseteq DOMAIN known
  BY <1>2 DEF TrackerFields
<1>6. CASE payload = NoValue
  <2>1. /\ DOMAIN o = TrackerFields /\ o.lastAt = u.at
        /\ o.valid = t.valid /\ o.invalid = t.invalid + 1
        /\ o.changes = t.changes /\ o.same = 0 /\ o.position = NoValue
    BY <1>0, <1>2, <1>3, <1>6
  <2> QED
    BY <1>6, <2>1 DEF o, payload
<1>7. CASE payload # NoValue /\ payload = t.position
  <2>1. /\ DOMAIN o = TrackerFields /\ o.lastAt = u.at
        /\ o.valid = t.valid + 1 /\ o.invalid = t.invalid
        /\ o.changes = t.changes /\ o.same = t.same + 1 /\ o.position = payload
        /\ o.changedAt = t.changedAt
        /\ o.span = UpdateUnchangedObservationSpan(t, u.at)
    BY <1>0, <1>2, <1>4, <1>7
  <2> QED
    BY <1>7, <2>1 DEF o, payload
<1>8. CASE payload # NoValue /\ payload # t.position
  <2> DEFINE counted == [known EXCEPT !.valid = @ + 1, !.same = 1, !.changes = @ + 1]
             span == IF u.at = NoTime THEN NoTime ELSE 0
  <2>2. o = [counted EXCEPT !.position = payload, !.changedAt = u.at, !.span = span]
    BY <1>5, <1>8
  <2>3. /\ DOMAIN counted = TrackerFields /\ counted.lastAt = u.at
        /\ counted.valid = t.valid + 1 /\ counted.invalid = t.invalid
        /\ counted.changes = t.changes + 1 /\ counted.same = 1
    BY <1>0, <1>2
  <2>4. {"position", "changedAt", "span"} \subseteq DOMAIN counted
    BY <2>3 DEF TrackerFields
  <2> HIDE DEF counted, span
  <2>1. /\ DOMAIN o = TrackerFields /\ o.lastAt = u.at
        /\ o.valid = t.valid + 1 /\ o.invalid = t.invalid
        /\ o.changes = t.changes + 1 /\ o.same = 1 /\ o.position = payload
        /\ o.changedAt = u.at /\ o.span = span
    BY <2>2, <2>3, <2>4
  <2> QED
    BY <1>8, <2>1 DEF o, payload, span
<1> QED
  BY <1>6, <1>7, <1>8

\* The tracker t has seen the observations h.
Remembers(t, h) ==
  /\ DOMAIN t = TrackerFields
  /\ IsHistory(h)
  /\ t.position = IF Len(h) = 0 THEN NoValue ELSE h[Len(h)].payload
  /\ Unchanged(h) # {} =>
       \E i \in Unchanged(h) :
         /\ \A j \in Unchanged(h) : i <= j
         /\ t.changedAt = h[i].at
  /\ t.valid = Cardinality(Placed(h))
  /\ t.invalid = Len(h) - t.valid
  /\ t.changes = Cardinality(Changes(h))
  /\ t.same = Cardinality(Unchanged(h))
  /\ Unchanged(h) # {} /\ NoTime \notin {h[i].at : i \in Unchanged(h)} =>
       LET last == h[Len(h)].at
       IN  t.span = IF last < t.changedAt THEN NoTime ELSE last - t.changedAt

LEMMA RemembersDescribes ==
  ASSUME NEW t, NEW h, Remembers(t, h)
  PROVE  Describes(t, h)
<1>1. ASSUME Unchanged(h) # {}
      PROVE  t.changedAt = h[FirstUnchanged(h)].at
  <2>1. PICK i \in Unchanged(h) : (\A j \in Unchanged(h) : i <= j) /\ t.changedAt = h[i].at
    BY <1>1 DEF Remembers
  <2> DEFINE k == FirstUnchanged(h)
  <2>2. k \in Unchanged(h) /\ \A j \in Unchanged(h) : k <= j
    BY <2>1 DEF FirstUnchanged
  <2>3. i \in Int /\ k \in Int
    BY <2>2, HistoryGrows DEF Unchanged, Remembers
  <2> HIDE DEF k
  <2>4. i = k
    BY <2>1, <2>2, <2>3
  <2> QED
    BY <2>1, <2>4 DEF k
<1>2. Placed(h) = {i \in DOMAIN h : h[i].payload # NoValue}
  BY DEF Placed
<1> QED
  BY <1>1, <1>2 DEF Remembers, Describes

LEMMA SetsAreFinite ==
  ASSUME NEW h, IsHistory(h)
  PROVE  /\ IsFiniteSet(Placed(h)) /\ IsFiniteSet(Changes(h)) /\ IsFiniteSet(Unchanged(h))
         /\ Len(h) + 1 \notin Placed(h) /\ Len(h) + 1 \notin Changes(h)
         /\ Len(h) + 1 \notin Unchanged(h)
<1> DEFINE n == Len(h)
<1>1. n \in Nat /\ DOMAIN h = 1..n
  BY HistoryGrows
<1> HIDE DEF n
<1>2. IsFiniteSet(1..n) /\ n + 1 \notin 1..n
  <2>1. 1 \in Int /\ n \in Int
    BY <1>1
  <2> QED
    BY <1>1, <2>1, FS_Interval
<1>3. Placed(h) \subseteq 1..n /\ Changes(h) \subseteq 1..n /\ Unchanged(h) \subseteq 1..n
  BY <1>1 DEF Placed, Changes, Unchanged
<1> QED
  BY <1>2, <1>3, FS_Subset DEF n

LEMMA CountOneMore ==
  ASSUME NEW S, IsFiniteSet(S), NEW x, x \notin S
  PROVE  Cardinality(S \cup {x}) = Cardinality(S) + 1 /\ Cardinality(S) \in Nat
BY FS_AddElement, FS_CardinalityType

\* One more observation, of a record that carries a time or of a session that
\* has none.
LEMMA RemembersMore ==
  ASSUME NEW t, NEW h, Remembers(t, h), NEW u, NEW epoch, u.at \in Int \cup {NoTime},
         NEW e, e.payload = Payload(u), e.at = u.at
  PROVE  Remembers(Observe(t, u, epoch), Append(h, e))
<1> DEFINE o == Observe(t, u, epoch)
           g == Append(h, e)
           n == Len(h)
<1>1. /\ IsHistory(g)
      /\ n \in Nat /\ DOMAIN h = 1..n
      /\ Len(g) = n + 1
      /\ \A i \in 1..n : g[i] = h[i]
      /\ g[n + 1] = e
  BY HistoryGrows DEF Remembers
<1>2. /\ Placed(g) = Placed(h) \cup (IF e.payload # NoValue THEN {n + 1} ELSE {})
      /\ Changes(g) = Changes(h) \cup (IF e.payload # NoValue /\ (n = 0 \/ h[n].payload # e.payload)
                                         THEN {n + 1} ELSE {})
  BY PlacedGrows, ChangesGrow DEF Remembers
<1>3. /\ e.payload = NoValue => Unchanged(g) = {}
      /\ e.payload # NoValue /\ n # 0 /\ h[n].payload = e.payload =>
           Unchanged(g) = Unchanged(h) \cup {n + 1} /\ Unchanged(h) # {}
      /\ e.payload # NoValue /\ (n = 0 \/ h[n].payload # e.payload) =>
           Unchanged(g) = {n + 1}
  BY UnchangedGrows DEF Remembers
<1>4. /\ Cardinality(Placed(h) \cup {n + 1}) = Cardinality(Placed(h)) + 1
      /\ Cardinality(Changes(h) \cup {n + 1}) = Cardinality(Changes(h)) + 1
      /\ Cardinality(Unchanged(h) \cup {n + 1}) = Cardinality(Unchanged(h)) + 1
      /\ Cardinality({n + 1}) = 1 /\ Cardinality({}) = 0
      /\ Cardinality(Placed(h)) \in Nat
  BY SetsAreFinite, CountOneMore, FS_Singleton, FS_EmptySet DEF Remembers
<1>5. /\ DOMAIN o = TrackerFields
      /\ e.payload = NoValue =>
           /\ o.valid = t.valid /\ o.invalid = t.invalid + 1
           /\ o.changes = t.changes /\ o.same = 0 /\ o.position = NoValue
      /\ e.payload # NoValue /\ e.payload = t.position =>
           /\ o.valid = t.valid + 1 /\ o.invalid = t.invalid
           /\ o.changes = t.changes /\ o.same = t.same + 1 /\ o.position = e.payload
           /\ o.changedAt = t.changedAt
           /\ o.span = UpdateUnchangedObservationSpan(t, u.at)
      /\ e.payload # NoValue /\ e.payload # t.position =>
           /\ o.valid = t.valid + 1 /\ o.invalid = t.invalid
           /\ o.changes = t.changes + 1 /\ o.same = 1 /\ o.position = e.payload
           /\ o.changedAt = u.at /\ o.span = IF u.at = NoTime THEN NoTime ELSE 0
  BY ObserveSays DEF Remembers
<1>6. t.position = IF n = 0 THEN NoValue ELSE h[n].payload
  BY DEF Remembers
<1>7. /\ t.valid = Cardinality(Placed(h)) /\ t.invalid = n - t.valid
      /\ t.changes = Cardinality(Changes(h)) /\ t.same = Cardinality(Unchanged(h))
  BY DEF Remembers
<1> HIDE DEF o, g, n
<1>8. CASE e.payload = NoValue
  BY <1>1, <1>2, <1>3, <1>4, <1>5, <1>7, <1>8 DEF Remembers, o, g
<1>9. CASE e.payload # NoValue /\ n # 0 /\ h[n].payload = e.payload
  <2>1. /\ Unchanged(g) = Unchanged(h) \cup {n + 1} /\ Unchanged(h) # {}
        /\ Placed(g) = Placed(h) \cup {n + 1} /\ Changes(g) = Changes(h)
    BY <1>2, <1>3, <1>9
  <2>2. /\ o.valid = t.valid + 1 /\ o.invalid = t.invalid
        /\ o.changes = t.changes /\ o.same = t.same + 1 /\ o.position = e.payload
        /\ o.changedAt = t.changedAt
        /\ o.span = UpdateUnchangedObservationSpan(t, u.at)
    BY <1>5, <1>6, <1>9
  <2>3. PICK i \in Unchanged(h) : (\A j \in Unchanged(h) : i <= j) /\ t.changedAt = h[i].at
    BY <2>1 DEF Remembers
  <2>4. i \in 1..n
    BY <1>1 DEF Unchanged
  <2>5. i \in Unchanged(g) /\ (\A j \in Unchanged(g) : i <= j) /\ o.changedAt = g[i].at
    BY <1>1, <2>1, <2>2, <2>3, <2>4
  <2>6. NoTime \notin {g[j].at : j \in Unchanged(g)} =>
          o.span = IF g[n + 1].at < o.changedAt THEN NoTime ELSE g[n + 1].at - o.changedAt
    <3> SUFFICES ASSUME NoTime \notin {g[j].at : j \in Unchanged(g)}
                 PROVE  o.span = IF u.at < t.changedAt THEN NoTime ELSE u.at - t.changedAt
      BY <1>1, <2>2
    <3>1. u.at # NoTime /\ t.changedAt # NoTime
      BY <1>1, <2>1, <2>2, <2>5
    <3> QED
      BY <2>2, <3>1 DEF UpdateUnchangedObservationSpan
  <2>7. /\ o.valid = Cardinality(Placed(g)) /\ o.invalid = (n + 1) - o.valid
        /\ o.changes = Cardinality(Changes(g)) /\ o.same = Cardinality(Unchanged(g))
    BY <1>1, <1>4, <1>7, <2>1, <2>2
  <2>8. o.position = g[n + 1].payload /\ n + 1 # 0
    BY <1>1, <2>2
  <2>9. Remembers(o, g)
    BY <1>1, <1>5, <2>5, <2>6, <2>7, <2>8 DEF Remembers
  <2> QED
    BY <2>9 DEF o, g
<1>10. CASE e.payload # NoValue /\ (n = 0 \/ h[n].payload # e.payload)
  <2>1. /\ Unchanged(g) = {n + 1}
        /\ Placed(g) = Placed(h) \cup {n + 1} /\ Changes(g) = Changes(h) \cup {n + 1}
    BY <1>2, <1>3, <1>10
  <2>2. /\ o.valid = t.valid + 1 /\ o.invalid = t.invalid
        /\ o.changes = t.changes + 1 /\ o.same = 1 /\ o.position = e.payload
        /\ o.changedAt = u.at /\ o.span = IF u.at = NoTime THEN NoTime ELSE 0
    BY <1>5, <1>6, <1>10
  <2>3. n + 1 \in Unchanged(g) /\ (\A j \in Unchanged(g) : n + 1 <= j)
          /\ o.changedAt = g[n + 1].at
    BY <1>1, <2>1, <2>2
  <2>4. NoTime \notin {g[j].at : j \in Unchanged(g)} =>
          o.span = IF g[n + 1].at < o.changedAt THEN NoTime ELSE g[n + 1].at - o.changedAt
    <3> SUFFICES ASSUME NoTime \notin {g[j].at : j \in Unchanged(g)}
                 PROVE  o.span = IF u.at < u.at THEN NoTime ELSE u.at - u.at
      BY <1>1, <2>2
    <3>1. u.at # NoTime
      BY <1>1, <2>1
    <3> QED
      BY <2>2, <3>1
  <2>5. /\ o.valid = Cardinality(Placed(g)) /\ o.invalid = (n + 1) - o.valid
        /\ o.changes = Cardinality(Changes(g)) /\ o.same = Cardinality(Unchanged(g))
    BY <1>1, <1>4, <1>7, <2>1, <2>2
  <2> QED
    BY <1>1, <1>5, <2>2, <2>3, <2>4, <2>5 DEF Remembers, o, g
<1> QED
  BY <1>8, <1>9, <1>10

LEMMA RemembersNothing == Remembers(NewTracker, <<>>)
<1>1. IsHistory(<<>>) /\ Len(<<>>) = 0
  BY EmptySeq DEF IsHistory
<1>2. Placed(<<>>) = {} /\ Changes(<<>>) = {} /\ Unchanged(<<>>) = {}
  <2>1. DOMAIN <<>> = {}
    BY <1>1, HistoryGrows
  <2> QED
    BY <2>1 DEF Placed, Changes, Unchanged
<1>3. /\ DOMAIN NewTracker = TrackerFields /\ NewTracker.position = NoValue
      /\ NewTracker.valid = 0 /\ NewTracker.invalid = 0 /\ NewTracker.changes = 0
      /\ NewTracker.same = 0
  BY DEF NewTracker, TrackerFields
<1>4. NewTracker.invalid = Len(<<>>) - NewTracker.valid /\ Cardinality({}) = 0
  BY <1>1, <1>3, FS_EmptySet
<1> QED
  BY <1>1, <1>2, <1>3, <1>4 DEF Remembers

\* What one step shows to the tracker.
ObservationStep ==
  \/ Unobserved
  \/ tracker' = NewTracker /\ seen' = <<>>
  \/ \E u, epoch : u.at \in Times /\ Observed(u, epoch)

LEMMA SentenceObserved ==
  ASSUME NEW s, s.at \in Times, TakeSentence(s)
  PROVE  ObservationStep
<1>1. \A u \in SentenceUpdate(s) : u.at = s.at
  BY SentenceAnswers DEF Answers
<1> QED
  BY <1>1 DEF TakeSentence, ObservationStep, Unobserved

LEMMA EveryObservationStep ==
  ASSUME [RuntimeNext]_runtimeVars
  PROVE  ObservationStep
<1> USE DEF Receive
<1>1. CASE ReceiveSentence
  <2>1. PICK r \in Sentences, at \in Times :
          \/ NmeaSentence(Stamped(r, at)) \/ UbloxSentence(Stamped(r, at))
          \/ UnicoreSentence(Stamped(r, at))
    BY <1>1 DEF ReceiveSentence
  <2> DEFINE s == Stamped(r, at)
  <2>2. s.at \in Times
    BY StampedAt
  <2> HIDE DEF s
  <2>3. CASE TakeSentence(s)
    BY <2>2, <2>3, SentenceObserved
  <2>4. CASE Refused
    BY <2>4 DEF Refused, ObservationStep, Unobserved
  <2>5. CASE UnicoreSentence(s) /\ ~Refused
    <3>1. Unobserved \/ Observed(NmeaGgaToRuntimeState(s), UtcEpoch(s.utc_time, Day))
      BY <2>5 DEF UnicoreSentence, UnicoreGga, UnicoreGst, UnicoreGsv, UnicoreOtherSentence
    <3>2. NmeaGgaToRuntimeState(s).at = s.at
      BY GgaSays
    <3> QED
      BY <2>2, <3>1, <3>2 DEF ObservationStep
  <2> QED
    BY <2>1, <2>3, <2>4, <2>5 DEF NmeaSentence, UbloxSentence, s
<1>2. CASE ReceiveUbxFrame
  <2>1. PICK f \in UbxFrames, at \in Times : UbxFrame(Stamped(f, at))
    BY <1>2 DEF ReceiveUbxFrame
  <2> DEFINE g == Stamped(f, at)
  <2>2. g.at = at
    BY StampedAt
  <2>3. g.type = "NAV-PVT" => g.carrier # NoValue
    BY UbxAssumption, StampedField
  <2> HIDE DEF g
  <2>4. Unobserved \/ \E u \in UbxUpdate(g) : Observed(u, TowEpoch(g.tow, Week))
    BY <2>1 DEF UbxFrame, Unobserved, g
  <2>5. \A u \in UbxUpdate(g) : u.at = at
    BY <2>2, <2>3, FrameAnswers DEF Answers
  <2> QED
    BY <2>4, <2>5 DEF ObservationStep
<1>3. CASE ReceivePositionLog
  <2>1. PICK l \in UnicoreLines, at \in Times : UnicorePositionLog(Stamped(l, at))
    BY <1>3 DEF ReceivePositionLog
  <2>2. PICK u : /\ Located(u, Stamped(l, at).at)
                 /\ NativePosition(Stamped(l, at), u, Stamped(l, at).at)
    BY <2>1, PositionLogStep
  <2>3. u.at = at
    BY <2>2, LocatedIsUpdate, StampedAt
  <2> QED
    BY <2>2, <2>3 DEF NativePosition, ObservationStep
<1>4. CASE ReceiveStatusLog
  BY <1>4 DEF ReceiveStatusLog, UnicoreStatusLog, Refused, Unobserved, ObservationStep
<1>5. CASE ReceiveBinaryFrame
  <2>1. PICK f \in UnicoreFrames, at \in Times : UnicoreBinaryFrame(Stamped(f, at))
    BY <1>5 DEF ReceiveBinaryFrame
  <2>2. CASE Refused
    BY <2>2 DEF Refused, ObservationStep, Unobserved
  <2>3. CASE ~Refused
    <3>1. PICK u : Located(u, at) /\ NativePosition(Stamped(f, at), u, at)
      BY <2>1, <2>3, BinaryFrameStep
    <3> QED
      BY <3>1, LocatedIsUpdate DEF NativePosition, ObservationStep
  <2> QED
    BY <2>2, <2>3
<1>6. CASE ResetRuntime \/ Tick \/ UNCHANGED runtimeVars
  BY <1>6 DEF ResetRuntime, Tick, runtimeVars, ObservationStep, Unobserved
<1> QED
  BY <1>1, <1>2, <1>3, <1>4, <1>5, <1>6 DEF RuntimeNext

TrackerRemembers == Remembers(tracker, seen)

LEMMA RemembersInit == RuntimeInit => TrackerRemembers
BY RemembersNothing DEF RuntimeInit, TrackerRemembers

LEMMA RemembersStep == TrackerRemembers /\ [RuntimeNext]_runtimeVars => TrackerRemembers'
<1> SUFFICES ASSUME TrackerRemembers, [RuntimeNext]_runtimeVars
             PROVE  Remembers(tracker', seen')
  BY DEF TrackerRemembers
<1>1. CASE Unobserved
  BY <1>1 DEF Unobserved, TrackerRemembers
<1>2. CASE tracker' = NewTracker /\ seen' = <<>>
  BY <1>2, RemembersNothing
<1>3. ASSUME NEW u, NEW epoch, u.at \in Times, Observed(u, epoch)
      PROVE  Remembers(tracker', seen')
  <2> DEFINE e == [payload |-> Payload(u), at |-> u.at, fix |-> u.fix.type,
                   native |-> epoch # NoEpoch /\ epoch.domain = "week_tow"]
  <2>1. e.payload = Payload(u) /\ e.at = u.at
    OBVIOUS
  <2>2. tracker' = Observe(tracker, u, epoch) /\ seen' = Append(seen, e)
    BY <1>3 DEF Observed
  <2>3. u.at \in Int \cup {NoTime}
    BY <1>3, TimesAreTimes
  <2> HIDE DEF e
  <2> QED
    BY <2>1, <2>2, <2>3, RemembersMore DEF TrackerRemembers
<1> QED
  BY <1>1, <1>2, <1>3, EveryObservationStep DEF ObservationStep

(***************************************************************************)
(* FreshnessDescribesObservations: the counters of the tracker say of all  *)
(* the observations it was ever shown what they are named for, however     *)
(* many there were and in whatever order records of whatever age came.     *)
(***************************************************************************)
THEOREM CountersDescribe == RuntimeSpec => []FreshnessDescribesObservations
<1>1. TrackerRemembers => FreshnessDescribesObservations
  BY RemembersDescribes DEF TrackerRemembers, FreshnessDescribesObservations
<1> QED
  BY <1>1, RemembersInit, RemembersStep, PTL DEF RuntimeSpec

-----------------------------------------------------------------------------
\* A position that is reported live is not frozen.

\* A Unicore session takes records in order: each carries the present time.
ClockRuns == kind \in RuntimeKinds /\ now \in Nat

LEMMA ClockInit == RuntimeInit => ClockRuns
BY DEF RuntimeInit, ClockRuns

LEMMA NowRuns == [RuntimeNext]_runtimeVars => now' = now \/ now' = now + 1
BY DEF RuntimeNext, runtimeVars, ReceiveSentence, ReceiveUbxFrame,
   ReceivePositionLog, ReceiveStatusLog, ReceiveBinaryFrame, ResetRuntime, Tick, Receive

LEMMA ClockStep == ClockRuns /\ [RuntimeNext]_runtimeVars => ClockRuns'
BY TimedStays, NowRuns DEF ClockRuns

LEMMA InOrder ==
  ASSUME ClockRuns, kind = "unicore", timed, NEW at \in Times
  PROVE  at = now
<1>1. Lateness[kind] = 0
  BY OrderAssumption DEF ClockRuns
<1>2. at \in (now - Lateness[kind])..now
  BY DEF Times
<1>3. at \in (now - 0)..now /\ now \in Int
  BY <1>1, <1>2 DEF ClockRuns
<1> QED
  BY <1>3

\* An observation of a native position, of a GGA, and steps without one.
NativeStep ==
  \E u, v, epoch : \E at \in Times :
    /\ Located(u, at) /\ Located(v, at) /\ Agrees(u, v)
    /\ state' = Merge(state, v)
    /\ Observed(u, epoch) /\ epoch # NoEpoch /\ epoch.domain = "week_tow"
    /\ lastNative' = at

StandInStep ==
  \E u, v, epoch : \E at \in Times :
    /\ Timed(u, at) /\ Timed(v, at)
    /\ state' = Merge(state, v)
    /\ Observed(u, epoch) /\ ~(epoch # NoEpoch /\ epoch.domain = "week_tow")
    /\ UNCHANGED lastNative
    /\ u.fix.valid =>
         \A p \in Position :
           /\ p \notin v.clear
           /\ p \in DOMAIN v.set <=>
                /\ p \in DOMAIN u.set
                /\ ~(NativePositionIsFresh(lastNative, at) /\ p \in DOMAIN state.value)

QuietStep ==
  /\ Unobserved /\ UNCHANGED lastNative
  /\ state' = state \/ \E u : Learned(u) /\ state' = Merge(state, u)

LEMMA GgaStandsIn ==
  ASSUME NEW s, s.at \in Times, UnicoreGga(s), ParseNmeaGga(s)
  PROVE  StandInStep
<1> DEFINE u == NmeaGgaToRuntimeState(s)
           pruned == PruneNmeaGgaFallback(u, HasFreshMixedNmeaSample(s.at, s.at))
           fresh == NativePositionIsFresh(lastNative, s.at)
           v == IF fresh THEN pruned ELSE u
           epoch == UtcEpoch(s.utc_time, Day)
<1>1. Observed(u, epoch) /\ state' = Merge(state, v) /\ UNCHANGED lastNative
  BY DEF UnicoreGga
<1>2. Timed(u, s.at) /\ (u.fix.valid => \A p \in Position : p \notin u.clear)
  BY GgaSays DEF Timed
<1>3. ~(epoch # NoEpoch /\ epoch.domain = "week_tow")
  BY DEF UtcEpoch
<1> HIDE DEF u, epoch
<1>4. /\ Timed(pruned, s.at)
      /\ \A p \in Position :
           /\ p \in DOMAIN pruned.set <=> p \in DOMAIN u.set /\ p \notin DOMAIN state.value
           /\ p \in pruned.clear => p \in u.clear
  BY <1>2, PrunedGga
<1> HIDE DEF pruned, fresh
<1>5. /\ Timed(v, s.at)
      /\ u.fix.valid =>
           \A p \in Position :
             /\ p \notin v.clear
             /\ p \in DOMAIN v.set <=> p \in DOMAIN u.set /\ ~(fresh /\ p \in DOMAIN state.value)
  BY <1>2, <1>4
<1> HIDE DEF v
<1> QED
  BY <1>1, <1>2, <1>3, <1>5 DEF StandInStep, fresh

LEMMA UnicoreSteps ==
  ASSUME [RuntimeNext]_runtimeVars, kind = "unicore"
  PROVE  NativeStep \/ StandInStep \/ QuietStep \/ ResetRuntime
<1> USE DEF Receive
<1>0. Refused => QuietStep
  BY DEF Refused, QuietStep, Unobserved, mixing
<1>1. CASE ReceiveSentence
  <2>1. PICK r \in Sentences, at \in Times : UnicoreSentence(Stamped(r, at))
    BY <1>1 DEF ReceiveSentence
  <2> DEFINE s == Stamped(r, at)
  <2>2. s.at \in Times
    BY StampedAt
  <2> HIDE DEF s
  <2>3. CASE UnicoreGga(s) /\ ParseNmeaGga(s)
    BY <2>2, <2>3, GgaStandsIn
  <2>4. ASSUME NEW u, Timed(u, s.at)
        PROVE  Learned(u)
    BY <2>2, <2>4 DEF Timed, Learned
  <2>5. CASE UnicoreGst(s) /\ ParseNmeaGst(s)
    <3> DEFINE u == NmeaGstToRuntimeState(s)
    <3>1. /\ state' = Merge(state, u) \/ state' = Merge(state, PruneNmeaGstFallback(u))
          /\ Unobserved /\ UNCHANGED lastNative
      BY <2>5 DEF UnicoreGst, mixing
    <3>2. Timed(u, s.at)
      BY OtherSentencesSay, PlainIsUpdate DEF Timed
    <3> QED
      BY <2>4, <3>1, <3>2, PrunedGst DEF QuietStep
  <2>6. CASE UnicoreGsv(s) /\ ParseNmeaGsv(s)
    BY <2>4, <2>6, GsvTimed DEF UnicoreGsv, QuietStep
  <2> QED
    BY <1>0, <2>1, <2>3, <2>5, <2>6
       DEF UnicoreSentence, UnicoreGga, UnicoreGst, UnicoreGsv, UnicoreOtherSentence, s
<1>2. CASE ReceiveUbxFrame
  BY <1>2 DEF ReceiveUbxFrame, UbxFrame
<1>3. CASE ReceivePositionLog
  <2>1. PICK l \in UnicoreLines, at \in Times : UnicorePositionLog(Stamped(l, at))
    BY <1>3 DEF ReceivePositionLog
  <2> DEFINE m == Stamped(l, at)
             epoch == WeekTowEpoch(m.epoch)
  <2>2. m.at = at
    BY StampedAt
  <2>3. epoch # NoEpoch
    <3>1. m.log = l.log
      BY NativeAssumption, StampedField
    <3>2. m.log \in {"PVTSLNA", "BESTNAVA"}
      BY <2>1 DEF UnicorePositionLog
    <3>3. m.epoch = l.epoch /\ WeekTowEpoch(l.epoch) # NoEpoch
      BY <3>1, <3>2, NativeAssumption, StampedField
    <3> QED
      BY <3>3
  <2>4. epoch.domain = "week_tow"
    BY DEF WeekTowEpoch
  <2>5. PICK u, v : /\ Located(u, m.at) /\ Located(v, m.at) /\ Agrees(u, v)
                    /\ state' = Merge(state, v)
                    /\ NativePosition(m, u, m.at)
    BY <2>1, PositionLogStep
  <2>6. Observed(u, epoch) /\ lastNative' = at
    BY <2>2, <2>5 DEF NativePosition
  <2>7. Located(u, at) /\ Located(v, at)
    BY <2>2, <2>5
  <2> HIDE DEF m, epoch
  <2> QED
    BY <2>3, <2>4, <2>5, <2>6, <2>7 DEF NativeStep
<1>4. CASE ReceiveStatusLog
  <2>1. PICK l \in UnicoreLines, at \in Times : UnicoreStatusLog(Stamped(l, at))
    BY <1>4 DEF ReceiveStatusLog
  <2> DEFINE g == Stamped(l, at)
  <2>2. g.at = at
    BY StampedAt
  <2> HIDE DEF g
  <2>3. \/ Refused
        \/ /\ \E u \in StatusUpdate(g) : state' = Merge(state, u)
           /\ Unobserved /\ UNCHANGED lastNative
    BY <2>1 DEF UnicoreStatusLog, mixing, g
  <2> QED
    BY <1>0, <2>2, <2>3, StatusSays DEF QuietStep, Learned, Timed
<1>5. CASE ReceiveBinaryFrame
  <2>1. PICK f \in UnicoreFrames, at \in Times : UnicoreBinaryFrame(Stamped(f, at))
    BY <1>5 DEF ReceiveBinaryFrame
  <2> DEFINE g == Stamped(f, at)
             epoch == WeekTowEpoch(g.epoch)
  <2>2. CASE ~Refused
    <3>1. PICK u : /\ Located(u, at) /\ state' = Merge(state, u)
                   /\ NativePosition(g, u, at) /\ epoch # NoEpoch
      BY <2>1, <2>2, BinaryFrameStep
    <3>2. epoch.domain = "week_tow"
      BY DEF WeekTowEpoch
    <3>3. Agrees(u, u)
      BY <3>1, LocatedIsUpdate, AgreesSelf
    <3>4. Observed(u, epoch) /\ lastNative' = at
      BY <3>1 DEF NativePosition
    <3> HIDE DEF g, epoch
    <3> QED
      BY <3>1, <3>2, <3>3, <3>4 DEF NativeStep
  <2> QED
    BY <1>0, <2>2
<1>6. CASE ResetRuntime
  BY <1>6
<1>7. CASE Tick \/ UNCHANGED runtimeVars
  BY <1>7 DEF Tick, runtimeVars, mixing, QuietStep, Unobserved
<1> QED
  BY <1>1, <1>2, <1>3, <1>4, <1>5, <1>6, <1>7 DEF RuntimeNext

\* The coordinates a native position left are as old as it is, or younger; and
\* there is no native time without a native observation.
NativeBacks ==
  kind = "unicore" /\ timed =>
    /\ \A s \in DOMAIN state.version : state.version[s] <= now
    /\ lastNative \in Int \cup {NoTime}
    /\ lastNative # NoTime =>
         \E i \in NativeSeen :
           /\ \A j \in NativeSeen : j <= i
           /\ seen[i].fix # "unknown" =>
                \A p \in Coordinates :
                  p \in DOMAIN state.version /\ state.version[p] >= lastNative

LEMMA NativeBacksInit == RuntimeInit => NativeBacks
BY NoStateSays DEF RuntimeInit, NativeBacks

\* An update of the present reaches every field it speaks of.
LEMMA PresentReaches ==
  ASSUME VersionsKnown, ClockRuns, NativeBacks, kind = "unicore", timed,
         NEW u, IsUpdate(u), u.at = now
  PROVE  LET m == Merge(state, u)
         IN  /\ \A s \in DOMAIN m.version : m.version[s] \in Int /\ m.version[s] <= now
             /\ \A s \in DOMAIN state.version :
                  s \in DOMAIN m.version /\ m.version[s] >= state.version[s]
             /\ \A p \in Position : p \in DOMAIN u.set \/ p \in u.clear =>
                  p \in DOMAIN m.version /\ m.version[p] = now
             /\ \A p \in Position : p \in DOMAIN u.set => p \in DOMAIN m.value
             /\ \A p \in Position : p \notin DOMAIN u.set /\ p \notin u.clear =>
                  /\ p \in DOMAIN state.value => p \in DOMAIN m.value
                  /\ p \in DOMAIN state.version => m.version[p] = state.version[p]
<1> DEFINE m == Merge(state, u)
           v == state.version
<1>1. now \in Int /\ \A s \in DOMAIN v : v[s] \in Int /\ v[s] <= now
  BY DEF VersionsKnown, ClockRuns, NativeBacks
<1>2. /\ DOMAIN m.version = Reached(u) \cup DOMAIN v
      /\ \A s \in Reached(u) : m.version[s] = now
      /\ \A s \in DOMAIN v \ Reached(u) : m.version[s] = v[s]
      /\ DOMAIN m.value = (DOMAIN state.value \ (FieldsApplied(state, u) \ DOMAIN u.set))
                           \cup (FieldsApplied(state, u) \cap DOMAIN u.set)
  BY MergeSays
<1>3. \A s : ShouldApply(state, s, u.at)
  BY <1>1 DEF ShouldApply
<1>4. \A p \in Position :
        /\ p \in Reached(u) <=> p \in FieldsApplied(state, u)
        /\ p \in FieldsApplied(state, u) <=> p \in DOMAIN u.set \/ p \in u.clear
  BY <1>3, ReachedPosition, ReachesPosition
<1> HIDE DEF m, v
<1>5. \A s \in DOMAIN m.version : m.version[s] \in Int /\ m.version[s] <= now
  BY <1>1, <1>2
<1>6. \A s \in DOMAIN v : s \in DOMAIN m.version /\ m.version[s] >= v[s]
  BY <1>1, <1>2
<1>7. \A p \in Position : p \in DOMAIN u.set \/ p \in u.clear =>
        p \in DOMAIN m.version /\ m.version[p] = now
  BY <1>2, <1>4
<1>8. \A p \in Position : p \in DOMAIN u.set => p \in DOMAIN m.value
  BY <1>2, <1>4
<1>9. \A p \in Position : p \notin DOMAIN u.set /\ p \notin u.clear =>
        /\ p \in DOMAIN state.value => p \in DOMAIN m.value
        /\ p \in DOMAIN v => m.version[p] = v[p]
  BY <1>2, <1>4
<1> QED
  BY <1>5, <1>6, <1>7, <1>8, <1>9 DEF m, v

\* The observation that comes last of a kind.
LEMMA NativeGrows ==
  ASSUME TrackerRemembers, NEW e, seen' = Append(seen, e)
  PROVE  /\ \A i \in NativeSeen : i <= Len(seen)
         /\ e.native = TRUE =>
              /\ Len(seen) + 1 \in NativeSeen' /\ \A j \in NativeSeen' : j <= Len(seen) + 1
              /\ seen'[Len(seen) + 1] = e
         /\ e.native = FALSE =>
              NativeSeen' = NativeSeen /\ \A i \in NativeSeen : seen'[i] = seen[i]
<1> DEFINE n == Len(seen)
<1>1. /\ n \in Nat /\ DOMAIN seen = 1..n /\ DOMAIN seen' = 1..(n + 1)
      /\ \A i \in 1..n : seen'[i] = seen[i]
      /\ seen'[n + 1] = e
  BY HistoryGrows DEF TrackerRemembers, Remembers
<1> HIDE DEF n
<1>2. NativeSeen = {i \in DOMAIN seen : seen[i].native}
      /\ NativeSeen' = {i \in DOMAIN seen' : seen'[i].native}
  BY DEF NativeSeen
<1>3. \A i \in NativeSeen : i \in 1..n /\ i <= n
  BY <1>1, <1>2
<1>4. e.native = TRUE =>
        n + 1 \in NativeSeen' /\ (\A j \in NativeSeen' : j <= n + 1) /\ seen'[n + 1] = e
  BY <1>1, <1>2
<1>5. e.native = FALSE =>
        NativeSeen' = NativeSeen /\ \A i \in NativeSeen : seen'[i] = seen[i]
  <2>1. 1..(n + 1) = 1..n \cup {n + 1}
    BY <1>1
  <2> QED
    BY <1>1, <1>2, <1>3, <2>1
<1> QED
  BY <1>3, <1>4, <1>5 DEF n

LEMMA NativeBacksStep ==
  TrackerRemembers /\ VersionsKnown /\ ClockRuns /\ NativeBacks /\ [RuntimeNext]_runtimeVars
    => NativeBacks'
<1> SUFFICES ASSUME TrackerRemembers, VersionsKnown, ClockRuns, NativeBacks,
                    [RuntimeNext]_runtimeVars, kind = "unicore", timed
             PROVE  /\ \A s \in DOMAIN state'.version : state'.version[s] <= now'
                    /\ lastNative' \in Int \cup {NoTime}
                    /\ lastNative' # NoTime =>
                         \E i \in NativeSeen' :
                           /\ \A j \in NativeSeen' : j <= i
                           /\ seen'[i].fix # "unknown" =>
                                \A p \in Coordinates :
                                  p \in DOMAIN state'.version /\ state'.version[p] >= lastNative'
  BY TimedStays DEF NativeBacks
<1>0. now \in Int /\ now' \in Int /\ now <= now'
  BY NowRuns DEF ClockRuns
<1>1. lastNative \in Int \cup {NoTime}
  BY DEF NativeBacks
<1>2. ASSUME NEW u, IsUpdate(u), u.at = now, state' = Merge(state, u)
      PROVE  /\ \A s \in DOMAIN state'.version :
                  state'.version[s] \in Int /\ state'.version[s] <= now'
             /\ \A s \in DOMAIN state.version :
                  s \in DOMAIN state'.version /\ state'.version[s] >= state.version[s]
             /\ \A p \in Position : p \in DOMAIN u.set \/ p \in u.clear =>
                  p \in DOMAIN state'.version /\ state'.version[p] = now
  BY <1>0, <1>2, PresentReaches
<1>3. CASE NativeStep
  <2>1. PICK u, v, epoch, at :
          /\ at \in Times
          /\ Located(u, at) /\ Located(v, at) /\ Agrees(u, v)
          /\ state' = Merge(state, v)
          /\ Observed(u, epoch) /\ epoch # NoEpoch /\ epoch.domain = "week_tow"
          /\ lastNative' = at
    BY <1>3 DEF NativeStep
  <2> DEFINE e == [payload |-> Payload(u), at |-> u.at, fix |-> u.fix.type,
                   native |-> epoch # NoEpoch /\ epoch.domain = "week_tow"]
             n == Len(seen)
  <2>2. seen' = Append(seen, e) /\ e.native = TRUE /\ e.fix = u.fix.type
    BY <2>1 DEF Observed
  <2> HIDE DEF e
  <2>3. n + 1 \in NativeSeen' /\ (\A j \in NativeSeen' : j <= n + 1) /\ seen'[n + 1] = e
    BY <2>2, NativeGrows
  <2>4. at = now /\ IsUpdate(v) /\ v.at = now /\ v.fix = u.fix
    BY <2>1, InOrder, LocatedIsUpdate, AgreesFix
  <2>5. v.fix.type # "unknown" =>
          \A p \in Coordinates : p \in DOMAIN state'.version /\ state'.version[p] = now
    BY <1>2, <2>1, <2>4 DEF Located, Coordinates, Position
  <2>6. \A s \in DOMAIN state'.version : state'.version[s] <= now'
    BY <1>2, <2>1, <2>4
  <2>7. seen'[n + 1].fix # "unknown" =>
          \A p \in Coordinates :
            p \in DOMAIN state'.version /\ state'.version[p] >= lastNative'
    BY <1>0, <2>1, <2>2, <2>3, <2>4, <2>5
  <2> HIDE DEF n
  <2>8. \E i \in NativeSeen' :
          /\ \A j \in NativeSeen' : j <= i
          /\ seen'[i].fix # "unknown" =>
               \A p \in Coordinates :
                 p \in DOMAIN state'.version /\ state'.version[p] >= lastNative'
    BY <2>3, <2>7
  <2>9. lastNative' \in Int \cup {NoTime}
    BY <1>0, <2>1, <2>4
  <2> QED
    BY <2>6, <2>8, <2>9
<1>4. ASSUME NEW u, IsUpdate(u), u.at = now, state' = Merge(state, u),
             UNCHANGED lastNative,
             NativeSeen' = NativeSeen, \A i \in NativeSeen : seen'[i] = seen[i]
      PROVE  /\ \A s \in DOMAIN state'.version : state'.version[s] <= now'
             /\ lastNative' # NoTime =>
                  \E i \in NativeSeen' :
                    /\ \A j \in NativeSeen' : j <= i
                    /\ seen'[i].fix # "unknown" =>
                         \A p \in Coordinates :
                           p \in DOMAIN state'.version /\ state'.version[p] >= lastNative'
  <2>1. /\ \A s \in DOMAIN state'.version :
             state'.version[s] \in Int /\ state'.version[s] <= now'
        /\ \A s \in DOMAIN state.version :
             s \in DOMAIN state'.version /\ state'.version[s] >= state.version[s]
    BY <1>2, <1>4
  <2>2. \A s \in DOMAIN state.version : state.version[s] \in Int
    BY DEF VersionsKnown
  <2>3. ASSUME lastNative # NoTime
        PROVE  \E i \in NativeSeen' :
                    /\ \A j \in NativeSeen' : j <= i
                    /\ seen'[i].fix # "unknown" =>
                         \A p \in Coordinates :
                           p \in DOMAIN state'.version /\ state'.version[p] >= lastNative'
    <3>1. PICK i \in NativeSeen :
             /\ \A j \in NativeSeen : j <= i
             /\ seen[i].fix # "unknown" =>
                  \A p \in Coordinates :
                    p \in DOMAIN state.version /\ state.version[p] >= lastNative
      BY <2>3 DEF NativeBacks
    <3>2. seen[i].fix # "unknown" =>
            \A p \in Coordinates :
              p \in DOMAIN state'.version /\ state'.version[p] >= lastNative
      BY <1>1, <2>1, <2>2, <2>3, <3>1
    <3> QED
      BY <1>4, <3>1, <3>2
  <2> QED
    BY <1>4, <2>1, <2>3
<1>5. CASE StandInStep
  <2>1. PICK u, v, epoch, at :
          /\ at \in Times
          /\ Timed(u, at) /\ Timed(v, at)
          /\ state' = Merge(state, v)
          /\ Observed(u, epoch) /\ ~(epoch # NoEpoch /\ epoch.domain = "week_tow")
          /\ UNCHANGED lastNative
    BY <1>5 DEF StandInStep
  <2> DEFINE e == [payload |-> Payload(u), at |-> u.at, fix |-> u.fix.type,
                   native |-> epoch # NoEpoch /\ epoch.domain = "week_tow"]
  <2>2. seen' = Append(seen, e) /\ e.native = FALSE
    BY <2>1 DEF Observed
  <2> HIDE DEF e
  <2>3. NativeSeen' = NativeSeen /\ \A i \in NativeSeen : seen'[i] = seen[i]
    BY <2>2, NativeGrows
  <2>4. IsUpdate(v) /\ v.at = now
    BY <2>1, InOrder DEF Timed
  <2> QED
    BY <1>1, <1>4, <2>1, <2>3, <2>4
<1>6. CASE QuietStep
  <2>1. NativeSeen' = NativeSeen /\ (\A i \in NativeSeen : seen'[i] = seen[i])
          /\ UNCHANGED lastNative
    BY <1>6 DEF QuietStep, Unobserved, NativeSeen
  <2>2. CASE state' = state
    <3>1. \A s \in DOMAIN state.version : state.version[s] \in Int /\ state.version[s] <= now
      BY DEF VersionsKnown, NativeBacks
    <3>2. \A s \in DOMAIN state'.version : state'.version[s] <= now'
      BY <1>0, <2>2, <3>1
    <3> QED
      BY <1>1, <2>1, <2>2, <3>2 DEF NativeBacks
  <2>3. CASE \E u : Learned(u) /\ state' = Merge(state, u)
    <3>1. PICK u : Learned(u) /\ state' = Merge(state, u)
      BY <2>3
    <3>2. IsUpdate(u) /\ u.at = now
      BY <3>1, InOrder DEF Learned
    <3> QED
      BY <1>1, <1>4, <2>1, <3>1, <3>2
  <2> QED
    BY <1>6, <2>2, <2>3 DEF QuietStep
<1>7. CASE ResetRuntime
  BY <1>7, NoStateSays DEF ResetRuntime
<1> QED
  BY <1>3, <1>5, <1>6, <1>7, UnicoreSteps

\* A position that is counted valid carries both coordinates.
LEMMA CountedIsPlaced ==
  ASSUME TrackerRemembers, NEW u, NEW epoch, Observed(u, epoch), tracker'.valid > tracker.valid
  PROVE  /\ u.fix.valid /\ Coordinates \subseteq DOMAIN u.set
         /\ tracker'.lastAt = u.at
<1>1. tracker' = Observe(tracker, u, epoch)
  BY DEF Observed
<1>2. DOMAIN tracker = TrackerFields /\ tracker.valid \in Nat
  <2>1. IsHistory(seen) /\ tracker.valid = Cardinality(Placed(seen))
    BY DEF TrackerRemembers, Remembers
  <2> QED
    BY <2>1, SetsAreFinite, FS_CardinalityType DEF TrackerRemembers, Remembers
<1>3. Payload(u) # NoValue /\ tracker'.lastAt = u.at
  BY <1>1, <1>2, ObserveSays
<1> QED
  BY <1>3 DEF Payload, Coordinates

LEMMA LiveStep ==
  TrackerRemembers /\ VersionsKnown /\ ClockRuns /\ NativeBacks /\ [RuntimeNext]_runtimeVars
    => Live
<1> SUFFICES ASSUME TrackerRemembers, VersionsKnown, ClockRuns, NativeBacks,
                    [RuntimeNext]_runtimeVars, kind = "unicore", timed,
                    tracker'.valid > tracker.valid,
                    NativeSeen # {} => LastNativeSeen.fix # "unknown"
             PROVE  /\ Coordinates \subseteq DOMAIN state'.value
                    /\ tracker'.lastAt - state'.version["latitude"] <= NativeWindow
  BY DEF Live, Coordinates
<1>0. now \in Int /\ NativeWindow \in Nat
  BY LimitsAssumption DEF ClockRuns
<1>1. tracker.valid \in Nat
  <2>1. IsHistory(seen) /\ tracker.valid = Cardinality(Placed(seen))
    BY DEF TrackerRemembers, Remembers
  <2> QED
    BY <2>1, SetsAreFinite, FS_CardinalityType
<1>2. Coordinates \subseteq Position /\ "latitude" \in Coordinates
  BY DEF Coordinates, Position
<1>3. ASSUME NEW v, IsUpdate(v), v.at = now, state' = Merge(state, v)
      PROVE  /\ \A p \in Position : p \in DOMAIN v.set =>
                  p \in DOMAIN state'.value /\ state'.version[p] = now
             /\ \A p \in Position : p \notin DOMAIN v.set /\ p \notin v.clear =>
                  /\ p \in DOMAIN state.value => p \in DOMAIN state'.value
                  /\ p \in DOMAIN state.version => state'.version[p] = state.version[p]
  BY <1>3, PresentReaches
<1>4. CASE NativeStep
  <2>1. PICK u, v, epoch, at :
          /\ at \in Times
          /\ Located(u, at) /\ Located(v, at) /\ Agrees(u, v)
          /\ state' = Merge(state, v) /\ Observed(u, epoch)
    BY <1>4 DEF NativeStep
  <2>2. IsUpdate(v) /\ v.at = now /\ u.at = now
    BY <2>1, InOrder, LocatedIsUpdate
  <2>3. Coordinates \subseteq DOMAIN u.set /\ tracker'.lastAt = now
    BY <2>1, <2>2, CountedIsPlaced
  <2>4. Coordinates \subseteq DOMAIN v.set
    BY <1>2, <2>1, <2>3 DEF Agrees
  <2> QED
    BY <1>0, <1>2, <1>3, <2>1, <2>2, <2>3, <2>4
<1>5. CASE StandInStep
  <2>1. PICK u, v, epoch, at :
          /\ at \in Times
          /\ Timed(u, at) /\ Timed(v, at)
          /\ state' = Merge(state, v) /\ Observed(u, epoch)
          /\ u.fix.valid =>
               \A p \in Position :
                 /\ p \notin v.clear
                 /\ p \in DOMAIN v.set <=>
                      /\ p \in DOMAIN u.set
                      /\ ~(NativePositionIsFresh(lastNative, at) /\ p \in DOMAIN state.value)
    BY <1>5 DEF StandInStep
  <2>2. at = now /\ IsUpdate(v) /\ v.at = now /\ u.at = now
    BY <2>1, InOrder DEF Timed
  <2>3. u.fix.valid /\ Coordinates \subseteq DOMAIN u.set /\ tracker'.lastAt = now
    BY <2>1, <2>2, CountedIsPlaced
  <2>4. ASSUME NEW p \in Coordinates
        PROVE  p \in DOMAIN state'.value /\ now - state'.version[p] <= NativeWindow
    <3>1. p \in Position /\ p \in DOMAIN u.set
      BY <1>2, <2>3
    <3>2. CASE p \in DOMAIN v.set
      BY <1>0, <1>3, <2>1, <2>2, <3>1, <3>2
    <3>3. CASE p \notin DOMAIN v.set
      <4>1. NativePositionIsFresh(lastNative, now) /\ p \in DOMAIN state.value /\ p \notin v.clear
        BY <2>1, <2>2, <2>3, <3>1, <3>3
      <4>2. lastNative \in Int /\ lastNative # NoTime /\ now - lastNative <= NativeWindow
        BY <1>0, <4>1, MissingAssumption DEF NativePositionIsFresh, NativeBacks
      <4>3. PICK i \in NativeSeen :
              /\ \A j \in NativeSeen : j <= i
              /\ seen[i].fix # "unknown" =>
                   \A q \in Coordinates :
                     q \in DOMAIN state.version /\ state.version[q] >= lastNative
        BY <4>2 DEF NativeBacks
      <4>4. LastNativeSeen.fix # "unknown" /\ LastNativeSeen = seen[i]
        <5> DEFINE k == CHOOSE j \in NativeSeen : \A l \in NativeSeen : l <= j
        <5>1. k \in NativeSeen /\ \A l \in NativeSeen : l <= k
          BY <4>3
        <5>2. k \in Int /\ i \in Int
          BY <5>1, HistoryGrows DEF NativeSeen, TrackerRemembers, Remembers
        <5>3. LastNativeSeen = seen[k]
          BY DEF LastNativeSeen
        <5> HIDE DEF k
        <5>4. k = i
          BY <4>3, <5>1, <5>2
        <5> QED
          BY <4>3, <5>3, <5>4
      <4>5. p \in DOMAIN state.version /\ state.version[p] >= lastNative
        BY <4>3, <4>4
      <4>6. state.version[p] \in Int
        BY <4>5 DEF VersionsKnown
      <4>7. p \in DOMAIN state'.value /\ state'.version[p] = state.version[p]
        BY <1>3, <2>1, <2>2, <3>1, <3>3, <4>1, <4>5
      <4> QED
        BY <1>0, <4>2, <4>5, <4>6, <4>7
    <3> QED
      BY <3>2, <3>3
  <2> QED
    BY <1>2, <2>3, <2>4
<1>6. CASE QuietStep
  BY <1>1, <1>6 DEF QuietStep, Unobserved
<1>7. CASE ResetRuntime
  BY <1>1, <1>7 DEF ResetRuntime, NewTracker
<1> QED
  BY <1>4, <1>5, <1>6, <1>7, UnicoreSteps

(***************************************************************************)
(* PositionNotFrozen: whenever a Unicore session counts one more valid     *)
(* position, both coordinates it publishes are there, and they are at most *)
(* the window of a native position older than that record, however the     *)
(* native logs and the sentences alternate, stop and come back.            *)
(***************************************************************************)
THEOREM PositionStaysLive == RuntimeSpec => PositionNotFrozen
<1>1. RuntimeSpec => [](TrackerRemembers /\ VersionsKnown /\ ClockRuns /\ NativeBacks)
  <2>1. RuntimeInit => TrackerRemembers /\ VersionsKnown /\ ClockRuns /\ NativeBacks
    BY RemembersInit, KnownInit, ClockInit, NativeBacksInit
  <2>2. TrackerRemembers /\ VersionsKnown /\ ClockRuns /\ NativeBacks
          /\ [RuntimeNext]_runtimeVars
          => (TrackerRemembers /\ VersionsKnown /\ ClockRuns /\ NativeBacks)'
    BY RemembersStep, KnownStep, ClockStep, NativeBacksStep
  <2> QED
    BY <2>1, <2>2, PTL DEF RuntimeSpec
<1>2. TrackerRemembers /\ VersionsKnown /\ ClockRuns /\ NativeBacks /\ [RuntimeNext]_runtimeVars
        => [Live]_<<tracker, state>>
  BY LiveStep
<1> QED
  BY <1>1, <1>2, PTL DEF RuntimeSpec, PositionNotFrozen

-----------------------------------------------------------------------------
\* The monitor of an RTCM stream: what one frame does to it.

MonitorFields ==
  {"station", "total", "valid", "invalid", "last", "first", "seen", "semantic", "held",
   "lastMsm", "decoded", "malformed", "totalTimes", "validTimes", "times"}

Activities == [count : Nat, at : Instants \cup {None}]

IsMonitor(m) ==
  /\ DOMAIN m = MonitorFields
  /\ m.station \in Stations \cup {None}
  /\ m.valid \in Nat
  /\ m.last \in Instants \cup {None}
  /\ m.held \in [Decoded -> Receipts \cup {None}]
  /\ m.lastMsm \in Msm \cup {None}
  /\ m.semantic \in [Types -> Activities]

LEMMA SpokenFields ==
  \A m : DOMAIN m = MonitorFields =>
    {"station", "valid", "last", "held", "lastMsm", "semantic", "total", "totalTimes",
     "invalid", "first", "validTimes", "seen", "times", "decoded", "malformed"}
      \subseteq DOMAIN m
BY DEF MonitorFields

LEMMA LatestSays ==
  \A a, b : a \in Instants \cup {None} /\ b \in Instants \cup {None} =>
    /\ Latest(a, b) \in Instants \cup {None}
    /\ Latest(a, b) \in {a, b}
    /\ a # None => Latest(a, b) # None /\ a <= Latest(a, b)
    /\ b # None => Latest(a, b) # None /\ b <= Latest(a, b)
BY NoneAssumption DEF Latest, Instants

LEMMA CountedSays ==
  ASSUME NEW m, DOMAIN m = MonitorFields, NEW at
  PROVE  LET n == Counted(m, at)
         IN  /\ DOMAIN n = MonitorFields
             /\ n.station = m.station /\ n.valid = m.valid /\ n.held = m.held
             /\ n.lastMsm = m.lastMsm /\ n.semantic = m.semantic
             /\ n.last = Latest(at, m.last)
             /\ n.totalTimes = Appended(m.totalTimes, at) /\ n.times = m.times
BY SpokenFields DEF Counted

LEMMA InvalidSays ==
  ASSUME NEW m, DOMAIN m = MonitorFields, NEW at
  PROVE  LET n == ObservedInvalid(m, at)
         IN  /\ DOMAIN n = MonitorFields
             /\ n.station = m.station /\ n.valid = m.valid /\ n.held = m.held
             /\ n.lastMsm = m.lastMsm /\ n.semantic = m.semantic
             /\ n.last = Latest(at, m.last)
             /\ n.totalTimes = Appended(m.totalTimes, at) /\ n.times = m.times
<1> DEFINE c == Counted(m, at)
<1>1. /\ DOMAIN c = MonitorFields
      /\ c.station = m.station /\ c.valid = m.valid /\ c.held = m.held
      /\ c.lastMsm = m.lastMsm /\ c.semantic = m.semantic
      /\ c.last = Latest(at, m.last)
      /\ c.totalTimes = Appended(m.totalTimes, at) /\ c.times = m.times
  BY CountedSays
<1>2. ObservedInvalid(m, at) = [c EXCEPT !.invalid = @ + 1]
  BY DEF ObservedInvalid
<1> HIDE DEF c
<1> QED
  BY <1>1, <1>2

\* The times of the types, with one more of the type.
TimesWith(times, type, at) == [times EXCEPT ![type] = Appended(@, at)]

LEMMA ValidSays ==
  ASSUME NEW m, DOMAIN m = MonitorFields, NEW type, NEW at
  PROVE  LET n == RecordedValid(m, type, at)
         IN  /\ DOMAIN n = MonitorFields
             /\ n.station = m.station /\ n.held = m.held /\ n.lastMsm = m.lastMsm
             /\ n.semantic = m.semantic /\ n.last = m.last
             /\ n.valid = m.valid + 1
             /\ n.totalTimes = m.totalTimes
             /\ n.times = TimesWith(m.times, type, at)
<1> DEFINE a == [m EXCEPT !.valid = @ + 1, !.first = IF @ = None THEN at ELSE @]
           seenNow == [m.seen EXCEPT ![type] = Active(@, at)]
           timesNow == [m.times EXCEPT ![type] = Appended(@, at)]
<1>1. /\ DOMAIN a = MonitorFields
      /\ a.station = m.station /\ a.held = m.held /\ a.lastMsm = m.lastMsm
      /\ a.semantic = m.semantic /\ a.last = m.last /\ a.valid = m.valid + 1
      /\ a.validTimes = m.validTimes /\ a.seen = m.seen /\ a.times = m.times
      /\ a.totalTimes = m.totalTimes
  BY SpokenFields
<1>2. RecordedValid(m, type, at) =
        [a EXCEPT !.validTimes = Appended(m.validTimes, at), !.seen = seenNow, !.times = timesNow]
  BY <1>1, SpokenFields DEF RecordedValid
<1>3. timesNow = TimesWith(m.times, type, at)
  BY DEF TimesWith
<1> HIDE DEF a, seenNow, timesNow
<1> QED
  BY <1>1, <1>2, <1>3, SpokenFields

SemanticWith(semantic, type, at) == [semantic EXCEPT ![type] = Active(@, at)]

LEMMA SemanticSays ==
  ASSUME NEW m, DOMAIN m = MonitorFields, NEW type, NEW at
  PROVE  LET n == RecordedSemantic(m, type, at)
         IN  /\ DOMAIN n = MonitorFields
             /\ n.station = m.station /\ n.held = m.held /\ n.lastMsm = m.lastMsm
             /\ n.valid = m.valid /\ n.last = m.last
             /\ n.totalTimes = m.totalTimes /\ n.times = m.times
             /\ n.semantic = SemanticWith(m.semantic, type, at)
BY SpokenFields DEF RecordedSemantic, SemanticWith

\* The record ObserveFrame keeps of a frame: when it is decoded and no other
\* station's.
Taken(m, f) == f.type \in Decoded /\ Parsed(f) /\ m.station \in {None, f.station}

Received(f, at, before) ==
  [station |-> f.station, valid |-> f.content = "good",
   at |-> Latest(at, IF before = None THEN None ELSE before.at)]

LEMMA HoldingSays ==
  ASSUME NEW m, DOMAIN m = MonitorFields, NEW f, NEW at
  PROVE  LET n == Holding(m, f, at)
         IN  /\ DOMAIN n = MonitorFields
             /\ n.station = m.station /\ n.valid = m.valid /\ n.last = m.last
             /\ n.semantic = m.semantic /\ n.totalTimes = m.totalTimes /\ n.times = m.times
             /\ n.held = IF Taken(m, f)
                           THEN [m.held EXCEPT ![f.type] = Received(f, at, m.held[f.type])]
                           ELSE m.held
             /\ n.lastMsm = IF Taken(m, f) /\ f.type \in Msm THEN f.type ELSE m.lastMsm
<1> DEFINE n == Holding(m, f, at)
           broken == [m EXCEPT !.malformed[f.type] = @ + 1]
           counted == [m EXCEPT !.decoded[f.type] = @ + 1]
           before == IF m.held[f.type] = None THEN None ELSE m.held[f.type].at
           rec == [station |-> f.station, valid |-> f.content = "good",
                   at |-> Latest(at, before)]
           kept == [counted EXCEPT !.held[f.type] = rec,
                                   !.lastMsm = IF f.type \in Msm THEN f.type ELSE @]
<1>1. /\ DOMAIN broken = MonitorFields
      /\ broken.station = m.station /\ broken.valid = m.valid /\ broken.last = m.last
      /\ broken.totalTimes = m.totalTimes /\ broken.times = m.times
      /\ broken.semantic = m.semantic /\ broken.held = m.held /\ broken.lastMsm = m.lastMsm
  BY SpokenFields
<1>2. /\ DOMAIN counted = MonitorFields
      /\ counted.station = m.station /\ counted.valid = m.valid /\ counted.last = m.last
      /\ counted.totalTimes = m.totalTimes /\ counted.times = m.times
      /\ counted.semantic = m.semantic /\ counted.held = m.held
      /\ counted.lastMsm = m.lastMsm
  BY SpokenFields
<1>3. rec = Received(f, at, m.held[f.type])
  BY DEF Received
<1> HIDE DEF rec
<1>4. /\ DOMAIN kept = MonitorFields
      /\ kept.station = m.station /\ kept.valid = m.valid /\ kept.last = m.last
      /\ kept.semantic = m.semantic /\ kept.totalTimes = m.totalTimes /\ kept.times = m.times
      /\ kept.held = [m.held EXCEPT ![f.type] = rec]
      /\ kept.lastMsm = IF f.type \in Msm THEN f.type ELSE m.lastMsm
  <2> HIDE DEF counted
  <2>1. {"held", "lastMsm"} \subseteq DOMAIN counted
    BY <1>2, SpokenFields
  <2> QED
    BY <1>2, <2>1
<1>5. n = IF f.type \notin Decoded THEN m
          ELSE IF ~Parsed(f) THEN broken
          ELSE IF m.station \notin {None, f.station} THEN counted ELSE kept
  BY DEF Holding, broken, counted, kept, rec, before
<1> HIDE DEF n, broken, counted, kept
<1>6. /\ DOMAIN n = MonitorFields
      /\ n.station = m.station /\ n.valid = m.valid /\ n.last = m.last
      /\ n.semantic = m.semantic /\ n.totalTimes = m.totalTimes /\ n.times = m.times
      /\ n.held = IF Taken(m, f) THEN [m.held EXCEPT ![f.type] = rec] ELSE m.held
      /\ n.lastMsm = IF Taken(m, f) /\ f.type \in Msm THEN f.type ELSE m.lastMsm
  BY <1>1, <1>2, <1>4, <1>5 DEF Taken
<1> QED
  BY <1>3, <1>6 DEF n

\* What a station that is accepted finds of another one is forgotten first.
Foreign(m, s) ==
  IF m.station # None THEN m.station # s
  ELSE \E t \in Decoded \ {"1005"} : m.held[t] # None /\ m.held[t].station # s

Base(m, f) == IF Accepted(f) /\ Foreign(m, f.station) THEN Fresh ELSE m

LEMMA FreshSays ==
  /\ DOMAIN Fresh = MonitorFields
  /\ Fresh.station = None /\ Fresh.valid = 0 /\ Fresh.last = None /\ Fresh.lastMsm = None
  /\ Fresh.held = [t \in Decoded |-> None]
  /\ Fresh.semantic = [t \in Types |-> NoActivity]
  /\ Fresh.totalTimes = NoTimes /\ Fresh.times = [t \in Types |-> NoTimes]
BY DEF Fresh, MonitorFields

LEMMA FreshIsMonitor == IsMonitor(Fresh)
<1>1. NoActivity \in Activities
  BY DEF NoActivity, Activities
<1> QED
  BY <1>1, FreshSays DEF IsMonitor

LEMMA OwnedSays ==
  ASSUME NEW m, DOMAIN m = MonitorFields, NEW f, Accepted(f)
  PROVE  LET n == Owned(m, f.station)
             b == Base(m, f)
         IN  /\ DOMAIN n = MonitorFields
             /\ n.station = f.station
             /\ n.valid = b.valid /\ n.last = b.last /\ n.held = b.held
             /\ n.lastMsm = b.lastMsm /\ n.semantic = b.semantic
             /\ n.totalTimes = b.totalTimes /\ n.times = b.times
<1>1. Owned(m, f.station) = [Base(m, f) EXCEPT !.station = f.station]
  BY DEF Owned, Base, Foreign
<1>2. DOMAIN Base(m, f) = MonitorFields
  BY FreshSays DEF Base
<1> QED
  BY <1>1, <1>2, SpokenFields

\* What a frame does to the monitor.
LEMMA ObserveFrameSays ==
  ASSUME NEW m, DOMAIN m = MonitorFields, NEW f, NEW at
  PROVE  LET n == ObserveFrame(m, f, at)
             b == Base(m, f)
             station == IF Accepted(f) THEN f.station ELSE m.station
             taken == /\ f.type \in Decoded /\ Parsed(f)
                      /\ station \in {None, f.station}
         IN  /\ DOMAIN n = MonitorFields
             /\ n.station = station
             /\ n.valid = IF Typed(f) THEN b.valid + 1 ELSE b.valid
             /\ n.last = Latest(at, b.last)
             /\ n.totalTimes = Appended(b.totalTimes, at)
             /\ n.times = IF Typed(f) THEN TimesWith(b.times, f.type, at) ELSE b.times
             /\ n.held = IF taken
                           THEN [b.held EXCEPT ![f.type] = Received(f, at, b.held[f.type])]
                           ELSE b.held
             /\ n.lastMsm = IF taken /\ f.type \in Msm THEN f.type ELSE b.lastMsm
             /\ n.semantic = IF Accepted(f)
                               THEN [b.semantic EXCEPT ![f.type] = Active(@, at)]
                               ELSE b.semantic
<1> DEFINE n == ObserveFrame(m, f, at)
           b == Base(m, f)
           station == IF Accepted(f) THEN f.station ELSE m.station
           taken == f.type \in Decoded /\ Parsed(f) /\ station \in {None, f.station}
           owned == IF Accepted(f) THEN Owned(m, f.station) ELSE m
           counted == Counted(owned, at)
           holding == Holding(counted, f, at)
           valid == RecordedValid(holding, f.type, at)
<1>1. CASE ~Typed(f)
  <2>1. ~Accepted(f) /\ ~Parsed(f)
    BY <1>1 DEF Accepted, Parsed
  <2>2. b = m /\ n = ObservedInvalid(m, at)
    BY <1>1, <2>1 DEF Base, ObserveFrame
  <2> QED
    BY <1>1, <2>1, <2>2, InvalidSays
<1>2. CASE Typed(f)
  <2>1. n = IF Accepted(f) THEN RecordedSemantic(valid, f.type, at) ELSE valid
    BY <1>2 DEF ObserveFrame
  <2>2. /\ DOMAIN owned = MonitorFields /\ owned.station = station
        /\ owned.valid = b.valid /\ owned.last = b.last /\ owned.held = b.held
        /\ owned.lastMsm = b.lastMsm /\ owned.semantic = b.semantic
        /\ owned.totalTimes = b.totalTimes /\ owned.times = b.times
    BY OwnedSays DEF Base
  <2> HIDE DEF owned, b, station
  <2>3. /\ DOMAIN counted = MonitorFields /\ counted.station = station
        /\ counted.valid = b.valid /\ counted.last = Latest(at, b.last)
        /\ counted.held = b.held
        /\ counted.lastMsm = b.lastMsm /\ counted.semantic = b.semantic
        /\ counted.totalTimes = Appended(b.totalTimes, at) /\ counted.times = b.times
    BY <2>2, CountedSays
  <2> HIDE DEF counted
  <2>4. Taken(counted, f) <=> taken
    BY <2>3 DEF Taken
  <2> HIDE DEF taken
  <2>5. /\ DOMAIN holding = MonitorFields /\ holding.station = station
        /\ holding.valid = b.valid /\ holding.last = Latest(at, b.last)
        /\ holding.held = IF taken
                            THEN [b.held EXCEPT ![f.type] = Received(f, at, b.held[f.type])]
                            ELSE b.held
        /\ holding.lastMsm = IF taken /\ f.type \in Msm THEN f.type ELSE b.lastMsm
        /\ holding.semantic = b.semantic
        /\ holding.totalTimes = Appended(b.totalTimes, at) /\ holding.times = b.times
    BY <2>3, <2>4, HoldingSays
  <2> HIDE DEF holding
  <2>6. /\ DOMAIN valid = MonitorFields /\ valid.station = holding.station
        /\ valid.valid = holding.valid + 1 /\ valid.last = holding.last
        /\ valid.held = holding.held /\ valid.lastMsm = holding.lastMsm
        /\ valid.semantic = holding.semantic
        /\ valid.totalTimes = holding.totalTimes
        /\ valid.times = TimesWith(holding.times, f.type, at)
    BY <2>5, ValidSays
  <2> HIDE DEF valid
  <2>7. /\ DOMAIN n = MonitorFields /\ n.station = valid.station /\ n.valid = valid.valid
        /\ n.last = valid.last /\ n.held = valid.held /\ n.lastMsm = valid.lastMsm
        /\ n.semantic = IF Accepted(f) THEN SemanticWith(valid.semantic, f.type, at)
                                       ELSE valid.semantic
        /\ n.totalTimes = valid.totalTimes /\ n.times = valid.times
    BY <2>1, <2>6, SemanticSays
  <2> HIDE DEF n
  <2>8. /\ DOMAIN n = MonitorFields /\ n.station = station
        /\ n.valid = (IF Typed(f) THEN b.valid + 1 ELSE b.valid)
        /\ n.last = Latest(at, b.last) /\ n.held = holding.held
        /\ n.lastMsm = holding.lastMsm
        /\ n.semantic = IF Accepted(f) THEN SemanticWith(b.semantic, f.type, at)
                                       ELSE b.semantic
    BY <1>2, <2>5, <2>6, <2>7
  <2>9. /\ n.totalTimes = Appended(b.totalTimes, at)
        /\ n.times = TimesWith(b.times, f.type, at)
    BY <2>5, <2>6, <2>7
  <2> QED
    BY <1>2, <2>5, <2>8, <2>9 DEF n, b, station, taken, SemanticWith
<1> QED
  BY <1>1, <1>2

\* A new connection keeps what the station said of itself, if it said any.
LEMMA ResetSays ==
  ASSUME NEW m
  PROVE  LET n == ResetDynamicState(m)
         IN  \/ /\ n = Fresh
                /\ m.station = None \/ m.held["1005"] = None
             \/ /\ m.station # None
                /\ DOMAIN n = MonitorFields
                /\ n.station = m.station /\ n.valid = 0 /\ n.last = None /\ n.lastMsm = None
                /\ n.totalTimes = NoTimes /\ n.times = [t \in Types |-> NoTimes]
                /\ n.held = [t \in Decoded |-> IF t \in Static THEN m.held[t] ELSE None]
                /\ n.semantic = [t \in Types |-> IF t \in Static THEN m.semantic[t]
                                                                 ELSE NoActivity]
<1> DEFINE n == ResetDynamicState(m)
           held == [t \in Decoded |-> IF t \in Static THEN m.held[t] ELSE None]
           decoded == [t \in Decoded |-> IF t \in Static THEN m.decoded[t] ELSE 0]
           seenStill == [t \in Types |-> IF t \in Static THEN m.seen[t] ELSE NoActivity]
           semantic == [t \in Types |-> IF t \in Static THEN m.semantic[t] ELSE NoActivity]
           kept == [Fresh EXCEPT !.station = m.station, !.held = held, !.decoded = decoded,
                                 !.seen = seenStill, !.semantic = semantic]
<1>1. n = IF m.station = None \/ \A t \in Static : m.held[t] = None THEN Fresh ELSE kept
  BY DEF ResetDynamicState
<1> HIDE DEF held, decoded, seenStill, semantic, n
<1>2. /\ DOMAIN kept = MonitorFields /\ kept.station = m.station
      /\ kept.valid = 0 /\ kept.last = None /\ kept.lastMsm = None
      /\ kept.totalTimes = NoTimes /\ kept.times = [t \in Types |-> NoTimes]
      /\ kept.held = held /\ kept.semantic = semantic
  BY FreshSays, SpokenFields
<1> HIDE DEF kept
<1>3. CASE m.station = None \/ \A t \in Static : m.held[t] = None
  <2>1. n = Fresh /\ (m.station = None \/ m.held["1005"] = None)
    BY <1>1, <1>3 DEF Static
  <2> QED
    BY <2>1 DEF n
<1>4. CASE ~(m.station = None \/ \A t \in Static : m.held[t] = None)
  <2>1. n = kept /\ m.station # None
    BY <1>1, <1>4
  <2> QED
    BY <1>2, <2>1 DEF n, held, semantic
<1> QED
  BY <1>3, <1>4

-----------------------------------------------------------------------------
\* What was heard since the source was chosen.

MonitorTyped ==
  /\ IsMonitor(monitor)
  /\ clock \in Instants
  /\ session \in Nat

LogTyped ==
  /\ IsHistory(log)
  /\ \A i \in DOMAIN log :
       /\ Heard(i) \in Frames
       /\ log[i].at \in (0..clock) \cup {None}
       /\ log[i].session \in Nat /\ log[i].session <= session
  /\ \A i, j \in DOMAIN log : i <= j =>
       /\ log[i].session <= log[j].session
       /\ None \notin {log[i].at, log[j].at} => log[i].at <= log[j].at

\* One more frame at the end of the log.
HearsOne(f, at) ==
  /\ f \in Frames
  /\ at \in {None, clock}
  /\ monitor' = ObserveFrame(monitor, f, at)
  /\ log' = Append(log, [frame |-> f, at |-> at, session |-> session])
  /\ UNCHANGED <<clock, session>>

LEMMA MonitorSteps ==
  ASSUME [MonitorNext]_monitorVars
  PROVE  \/ \E f, at : HearsOne(f, at)
         \/ NewSession \/ NewSource \/ StreamTime \/ UNCHANGED monitorVars
BY DEF MonitorNext, Hears, HearsOne

LEMMA LogGrows ==
  ASSUME LogTyped, NEW f, NEW at, HearsOne(f, at)
  PROVE  LET n == Len(log)
         IN  /\ n \in Nat /\ DOMAIN log = 1..n
             /\ Len(log') = n + 1 /\ DOMAIN log' = 1..(n + 1) /\ IsHistory(log')
             /\ \A i \in 1..n : log'[i] = log[i]
             /\ log'[n + 1].frame = f /\ log'[n + 1].at = at /\ log'[n + 1].session = session
<1> DEFINE e == [frame |-> f, at |-> at, session |-> session]
           n == Len(log)
<1>1. log' = Append(log, e) /\ e.frame = f /\ e.at = at /\ e.session = session
  BY DEF HearsOne
<1> HIDE DEF e
<1>2. /\ n \in Nat /\ DOMAIN log = 1..n
      /\ Len(log') = n + 1 /\ DOMAIN log' = 1..(n + 1) /\ IsHistory(log')
      /\ \A i \in 1..n : log'[i] = log[i]
      /\ log'[n + 1] = e
  BY <1>1, HistoryGrows DEF LogTyped
<1> QED
  BY <1>1, <1>2

LEMMA InstantsAre == Instants \subseteq Nat /\ None \notin Instants
BY NoneAssumption, DurationsAssumption DEF Instants

LEMMA InstantIsInt == \A at : at \in Instants \cup {None} /\ at # None => at \in Int
BY InstantsAre

LEMMA NoLater == \A x, y, z \in Int : x <= y /\ y <= z => x <= z
OBVIOUS

LEMMA AcceptedIs ==
  \A f : Accepted(f) =>
    Typed(f) /\ Parsed(f) /\ f.type \in Decoded /\ f.type \in Types
BY DEF Accepted, Parsed, ArpParsed, AntennaParsed, BiasParsed, MsmParsed, Decoded, Types,
       Static, Msm

LEMMA MonitorTypedInit == MonitorInit => MonitorTyped
BY FreshIsMonitor, DurationsAssumption DEF MonitorInit, MonitorTyped, Instants

LEMMA BaseTyped ==
  \A m, f : IsMonitor(m) => IsMonitor(Base(m, f))
BY FreshIsMonitor DEF Base

LEMMA ActiveTyped ==
  \A a, at : a \in Activities /\ at \in Instants \cup {None} => Active(a, at) \in Activities
BY LatestSays DEF Active, Activities

LEMMA ReceivedTyped ==
  \A f \in Frames : \A at, before :
    at \in Instants \cup {None} /\ before \in Receipts \cup {None} =>
      Received(f, at, before) \in Receipts
<1> TAKE f \in Frames
<1> TAKE at, before
<1> HAVE at \in Instants \cup {None} /\ before \in Receipts \cup {None}
<1> DEFINE earlier == IF before = None THEN None ELSE before.at
<1>1. earlier \in Instants \cup {None}
  BY DEF Receipts
<1> HIDE DEF earlier
<1>2. Latest(at, earlier) \in Instants \cup {None}
  BY <1>1, LatestSays
<1>3. f.station \in Stations
  BY DEF Stations
<1>4. Received(f, at, before) =
        [station |-> f.station, valid |-> f.content = "good", at |-> Latest(at, earlier)]
  BY DEF Received, earlier
<1> QED
  BY <1>2, <1>3, <1>4 DEF Receipts

\* The station that owns the stream after f, and whether f is kept.
OwnerAfter(f) == IF Accepted(f) THEN f.station ELSE monitor.station
TakenNow(f) == f.type \in Decoded /\ Parsed(f) /\ OwnerAfter(f) \in {None, f.station}

LEMMA HeardSays ==
  ASSUME MonitorTyped, NEW f, NEW at, HearsOne(f, at)
  PROVE  LET b == Base(monitor, f)
         IN  /\ IsMonitor(b)
             /\ at \in Instants \cup {None} /\ f \in Frames
             /\ DOMAIN monitor' = MonitorFields
             /\ monitor'.station = OwnerAfter(f)
             /\ monitor'.valid = IF Typed(f) THEN b.valid + 1 ELSE b.valid
             /\ monitor'.last = Latest(at, b.last)
             /\ monitor'.totalTimes = Appended(b.totalTimes, at)
             /\ monitor'.times = IF Typed(f) THEN TimesWith(b.times, f.type, at) ELSE b.times
             /\ monitor'.held = IF TakenNow(f)
                                  THEN [b.held EXCEPT ![f.type] = Received(f, at, b.held[f.type])]
                                  ELSE b.held
             /\ monitor'.lastMsm = IF TakenNow(f) /\ f.type \in Msm THEN f.type ELSE b.lastMsm
             /\ monitor'.semantic = IF Accepted(f)
                                      THEN [b.semantic EXCEPT ![f.type] = Active(@, at)]
                                      ELSE b.semantic
<1>1. monitor' = ObserveFrame(monitor, f, at) /\ DOMAIN monitor = MonitorFields
  BY DEF HearsOne, MonitorTyped, IsMonitor
<1>2. IsMonitor(Base(monitor, f))
  BY BaseTyped DEF MonitorTyped
<1>3. at \in Instants \cup {None} /\ f \in Frames
  BY DEF HearsOne, MonitorTyped
<1> QED
  BY <1>1, <1>2, <1>3, ObserveFrameSays DEF OwnerAfter, TakenNow

LEMMA MonitorTypedStep == MonitorTyped /\ [MonitorNext]_monitorVars => MonitorTyped'
<1> SUFFICES ASSUME MonitorTyped, [MonitorNext]_monitorVars
             PROVE  MonitorTyped'
  OBVIOUS
<1>1. ASSUME NEW f, NEW at, HearsOne(f, at)
      PROVE  MonitorTyped'
  <2> DEFINE b == Base(monitor, f)
             station == OwnerAfter(f)
             taken == TakenNow(f)
  <2>2. /\ IsMonitor(b)
        /\ DOMAIN monitor' = MonitorFields
        /\ monitor'.station = station
        /\ monitor'.valid = IF Typed(f) THEN b.valid + 1 ELSE b.valid
        /\ monitor'.last = Latest(at, b.last)
        /\ monitor'.held = IF taken
                             THEN [b.held EXCEPT ![f.type] = Received(f, at, b.held[f.type])]
                             ELSE b.held
        /\ monitor'.lastMsm = IF taken /\ f.type \in Msm THEN f.type ELSE b.lastMsm
        /\ monitor'.semantic = IF Accepted(f)
                                 THEN [b.semantic EXCEPT ![f.type] = Active(@, at)]
                                 ELSE b.semantic
    BY <1>1, HeardSays
  <2>1. IsMonitor(b)
    BY <2>2
  <2>3. at \in Instants \cup {None} /\ f \in Frames
    BY <1>1, HeardSays
  <2>4. station \in Stations \cup {None} /\ (taken => f.type \in Decoded)
    BY <2>3 DEF MonitorTyped, IsMonitor, Stations, OwnerAfter, TakenNow
  <2> HIDE DEF b, station, taken
  <2>5. monitor'.valid \in Nat /\ monitor'.last \in Instants \cup {None}
    BY <2>1, <2>2, <2>3, LatestSays DEF IsMonitor
  <2>6. monitor'.held \in [Decoded -> Receipts \cup {None}]
    <3>1. CASE taken
      <4>1. b.held[f.type] \in Receipts \cup {None}
        BY <2>1, <2>4, <3>1 DEF IsMonitor
      <4>2. Received(f, at, b.held[f.type]) \in Receipts
        BY <2>3, <4>1, ReceivedTyped
      <4> QED
        BY <2>1, <2>2, <3>1, <4>2 DEF IsMonitor
    <3>2. CASE ~taken
      BY <2>1, <2>2, <3>2 DEF IsMonitor
    <3> QED
      BY <3>1, <3>2
  <2>7. monitor'.lastMsm \in Msm \cup {None}
    BY <2>1, <2>2 DEF IsMonitor
  <2>8. monitor'.semantic \in [Types -> Activities]
    <3>1. CASE Accepted(f)
      <4>1. f.type \in Types /\ b.semantic[f.type] \in Activities
        BY <2>1, <3>1, AcceptedIs DEF IsMonitor
      <4>2. Active(b.semantic[f.type], at) \in Activities
        BY <2>3, <4>1, ActiveTyped
      <4> QED
        BY <2>1, <2>2, <3>1, <4>1, <4>2 DEF IsMonitor
    <3>2. CASE ~Accepted(f)
      BY <2>1, <2>2, <3>2 DEF IsMonitor
    <3> QED
      BY <3>1, <3>2
  <2>9. clock' \in Instants /\ session' \in Nat
    BY <1>1 DEF HearsOne, MonitorTyped
  <2> QED
    BY <2>2, <2>4, <2>5, <2>6, <2>7, <2>8, <2>9 DEF MonitorTyped, IsMonitor
<1>2. CASE NewSession
  <2> DEFINE n == ResetDynamicState(monitor)
  <2>1. monitor' = n /\ clock' = clock /\ session' = session + 1
    BY <1>2 DEF NewSession
  <2>2. CASE n = Fresh
    BY <2>1, <2>2, FreshIsMonitor DEF MonitorTyped
  <2>3. CASE n # Fresh
    <3>1. /\ DOMAIN n = MonitorFields
          /\ n.station = monitor.station /\ n.valid = 0 /\ n.last = None /\ n.lastMsm = None
          /\ n.held = [t \in Decoded |-> IF t \in Static THEN monitor.held[t] ELSE None]
          /\ n.semantic = [t \in Types |-> IF t \in Static THEN monitor.semantic[t]
                                                           ELSE NoActivity]
      BY <2>3, ResetSays
    <3> HIDE DEF n
    <3>2. NoActivity \in Activities
      BY DEF NoActivity, Activities
    <3>3. IsMonitor(n)
      BY <3>1, <3>2 DEF IsMonitor, MonitorTyped
    <3> QED
      BY <2>1, <3>3 DEF MonitorTyped
  <2> QED
    BY <2>2, <2>3
<1>3. CASE NewSource
  BY <1>3, FreshIsMonitor DEF NewSource, MonitorTyped
<1>4. CASE StreamTime
  BY <1>4, DurationsAssumption DEF StreamTime, MonitorTyped, Instants
<1>5. CASE UNCHANGED monitorVars
  BY <1>5 DEF monitorVars, MonitorTyped
<1> QED
  BY <1>1, <1>2, <1>3, <1>4, <1>5, MonitorSteps

LEMMA NothingHeard == IsHistory(<<>>) /\ DOMAIN <<>> = {} /\ Len(<<>>) = 0
BY EmptySeq DEF IsHistory

LEMMA LogTypedInit == MonitorInit => LogTyped
BY NothingHeard DEF MonitorInit, LogTyped

LEMMA LogTypedStep == MonitorTyped /\ LogTyped /\ [MonitorNext]_monitorVars => LogTyped'
<1> SUFFICES ASSUME MonitorTyped, LogTyped, [MonitorNext]_monitorVars
             PROVE  LogTyped'
  OBVIOUS
<1>0. clock \in Nat
  BY InstantsAre DEF MonitorTyped
<1>1. ASSUME NEW f, NEW at, HearsOne(f, at)
      PROVE  LogTyped'
  <2> DEFINE n == Len(log)
  <2>1. /\ n \in Nat /\ DOMAIN log = 1..n
        /\ DOMAIN log' = 1..(n + 1) /\ IsHistory(log')
        /\ \A i \in 1..n : log'[i] = log[i]
        /\ log'[n + 1].frame = f /\ log'[n + 1].at = at /\ log'[n + 1].session = session
    BY <1>1, LogGrows
  <2>2. f \in Frames /\ at \in {None, clock} /\ clock' = clock /\ session' = session
    BY <1>1 DEF HearsOne
  <2> HIDE DEF n
  <2>3. 1..(n + 1) = 1..n \cup {n + 1}
    BY <2>1
  <2>4. \A i \in 1..n :
          /\ log[i].frame \in Frames
          /\ log[i].at \in (0..clock) \cup {None}
          /\ log[i].session \in Nat /\ log[i].session <= session
    BY <2>1 DEF LogTyped, Heard
  <2>5. \A i \in DOMAIN log' :
          /\ log'[i].frame \in Frames
          /\ log'[i].at \in (0..clock) \cup {None}
          /\ log'[i].session \in Nat /\ log'[i].session <= session
    BY <1>0, <2>1, <2>2, <2>3, <2>4 DEF MonitorTyped
  <2>6. ASSUME NEW i \in DOMAIN log', NEW j \in DOMAIN log', i <= j
        PROVE  /\ log'[i].session <= log'[j].session
               /\ None \notin {log'[i].at, log'[j].at} => log'[i].at <= log'[j].at
    <3>1. CASE j \in 1..n
      <4>1. i \in 1..n
        BY <2>1, <2>3, <2>6, <3>1
      <4> QED
        BY <2>1, <2>6, <3>1, <4>1 DEF LogTyped
    <3>2. CASE j = n + 1
      <4>1. None \notin {log'[i].at, log'[j].at} => log'[i].at <= log'[j].at
        BY <1>0, <2>1, <2>2, <2>5, <3>2
      <4> QED
        BY <2>1, <2>5, <3>2, <4>1
    <3> QED
      BY <2>1, <2>3, <3>1, <3>2
  <2> QED
    BY <2>1, <2>2, <2>5, <2>6 DEF LogTyped, Heard
<1>2. CASE NewSession
  BY <1>2 DEF NewSession, LogTyped, MonitorTyped, Heard
<1>3. CASE NewSource
  BY <1>3, NothingHeard DEF NewSource, LogTyped
<1>4. CASE StreamTime
  <2>1. log' = log /\ session' = session /\ clock' = clock + 1
    BY <1>4 DEF StreamTime
  <2>2. 0..clock \subseteq 0..clock'
    BY <1>0, <2>1
  <2> QED
    BY <2>1, <2>2 DEF LogTyped, Heard
<1>5. CASE UNCHANGED monitorVars
  BY <1>5 DEF monitorVars, LogTyped, Heard
<1> QED
  BY <1>1, <1>2, <1>3, <1>4, <1>5, MonitorSteps

-----------------------------------------------------------------------------
\* One station owns the stream.

\* What is accepted belongs to its own station from then on.
LEMMA OwnGrows ==
  ASSUME LogTyped, NEW f, NEW at, HearsOne(f, at)
  PROVE  LET n == Len(log)
         IN  /\ Own \subseteq 1..n
             /\ \A i \in Own : Heard(i)' = Heard(i) /\ log'[i] = log[i]
             /\ ~Accepted(f) => Own' = Own
             /\ Accepted(f) => Own' = {i \in Own : Heard(i).station = f.station} \cup {n + 1}
             /\ log'[n + 1].frame = f /\ \A i : Heard(i)' = log'[i].frame
<1> DEFINE n == Len(log)
           g == log'
<1>1. /\ n \in Nat /\ DOMAIN log = 1..n /\ DOMAIN g = 1..(n + 1)
      /\ \A i \in 1..n : g[i] = log[i]
      /\ g[n + 1].frame = f
  BY LogGrows
<1> HIDE DEF n
<1>2. AcceptedIn = {i \in 1..n : Accepted(log[i].frame)}
  BY <1>1 DEF AcceptedIn, Heard
<1>3. AcceptedIn' = {i \in 1..(n + 1) : Accepted(g[i].frame)}
  BY <1>1 DEF AcceptedIn, Heard
<1>4. /\ Own = {i \in AcceptedIn : \A j \in AcceptedIn :
                  j > i => log[j].frame.station = log[i].frame.station}
      /\ Own' = {i \in AcceptedIn' : \A j \in AcceptedIn' :
                   j > i => g[j].frame.station = g[i].frame.station}
  BY DEF Own, Heard
<1>5. \A i : Heard(i) = log[i].frame /\ Heard(i)' = g[i].frame
  BY DEF Heard
<1> HIDE DEF g
<1>6. 1..(n + 1) = 1..n \cup {n + 1} /\ n + 1 \notin 1..n
        /\ \A i \in 1..n : n + 1 > i /\ ~(i > n + 1)
        /\ ~(n + 1 > n + 1)
  BY <1>1
<1>7. AcceptedIn' = AcceptedIn \cup (IF Accepted(f) THEN {n + 1} ELSE {})
  BY <1>1, <1>2, <1>3, <1>6
<1>8. ~Accepted(f) => Own' = Own
  BY <1>1, <1>2, <1>4, <1>7
<1>9. ASSUME Accepted(f)
      PROVE  Own' = {i \in Own : Heard(i).station = f.station} \cup {n + 1}
  <2>1. AcceptedIn' = AcceptedIn \cup {n + 1}
    BY <1>7, <1>9
  <2>2. \A i \in AcceptedIn : i \in 1..n /\ g[i] = log[i]
    BY <1>1, <1>2
  <2>3. n + 1 \in Own'
    BY <1>4, <1>6, <2>1, <2>2
  <2>4. ASSUME NEW i \in AcceptedIn
        PROVE  i \in Own' <=> i \in Own /\ Heard(i).station = f.station
    <3>1. i \in 1..n /\ g[i] = log[i] /\ Heard(i) = log[i].frame
      BY <1>5, <2>2
    <3> QED
      BY <1>1, <1>4, <1>6, <2>1, <2>2, <3>1
  <2>5. Own' \subseteq AcceptedIn \cup {n + 1} /\ Own \subseteq AcceptedIn
    BY <1>4, <2>1
  <2> QED
    BY <2>3, <2>4, <2>5
<1>10. Own \subseteq 1..n
  BY <1>2, <1>4
<1>11. \A i \in Own : Heard(i)' = Heard(i) /\ g[i] = log[i]
  BY <1>1, <1>5, <1>10
<1> QED
  BY <1>1, <1>5, <1>8, <1>9, <1>10, <1>11 DEF n, g

\* The owner is the station of the accepted frames.
OwnerHeard == monitor.station # None => \A i \in Own : Heard(i).station = monitor.station

\* All that is held is the owner's; a stream that no one owns has accepted
\* nothing on this connection.
OwnerHolds ==
  /\ \A t \in Decoded : monitor.held[t] # None /\ monitor.station # None =>
       monitor.held[t].station = monitor.station
  /\ monitor.station = None =>
       /\ monitor.held["1005"] = None
       /\ \A t \in Types : monitor.semantic[t].count = 0
       /\ \A i \in Own : log[i].session # session
  /\ monitor.lastMsm # None => monitor.held[monitor.lastMsm] # None
  /\ monitor.semantic["1005"].count > 0 => monitor.held["1005"] # None

LEMMA OwnEmpty == log = <<>> => Own = {}
BY NothingHeard DEF Own, AcceptedIn

LEMMA OwnKept == log' = log => Own' = Own /\ \A i : Heard(i)' = Heard(i)
BY DEF Own, AcceptedIn, Heard

LEMMA OwnerHeardStep ==
  MonitorTyped /\ LogTyped /\ OwnerHeard /\ [MonitorNext]_monitorVars => OwnerHeard'
<1> SUFFICES ASSUME MonitorTyped, LogTyped, OwnerHeard, [MonitorNext]_monitorVars
             PROVE  OwnerHeard'
  OBVIOUS
<1>1. ASSUME NEW f, NEW at, HearsOne(f, at)
      PROVE  OwnerHeard'
  <2>1. monitor'.station = OwnerAfter(f)
    BY <1>1, HeardSays
  <2>2. /\ \A i \in Own : Heard(i)' = Heard(i)
        /\ ~Accepted(f) => Own' = Own
        /\ Accepted(f) => Own' = {i \in Own : Heard(i).station = f.station} \cup {Len(log) + 1}
        /\ log'[Len(log) + 1].frame = f /\ \A i : Heard(i)' = log'[i].frame
    BY <1>1, OwnGrows
  <2> QED
    BY <2>1, <2>2 DEF OwnerHeard, OwnerAfter
<1>2. CASE NewSession
  <2>1. monitor'.station \in {None, monitor.station} /\ log' = log
    BY <1>2, ResetSays, FreshSays DEF NewSession
  <2> QED
    BY <2>1, OwnKept DEF OwnerHeard
<1>3. CASE NewSource
  BY <1>3, FreshSays DEF NewSource, OwnerHeard
<1>4. CASE StreamTime \/ UNCHANGED monitorVars
  BY <1>4, OwnKept DEF StreamTime, monitorVars, OwnerHeard
<1> QED
  BY <1>1, <1>2, <1>3, <1>4, MonitorSteps

LEMMA ActiveSays ==
  ASSUME NEW a \in Activities, NEW at
  PROVE  LET b == Active(a, at)
         IN  b.count = a.count + 1 /\ b.count > 0 /\ b.at = Latest(at, a.at)
BY DEF Active, Activities

LEMMA FreshHolds ==
  /\ \A t \in Decoded : Fresh.held[t] = None
  /\ \A t \in Types : Fresh.semantic[t].count = 0 /\ Fresh.semantic[t].at = None
  /\ Fresh.station = None /\ Fresh.lastMsm = None /\ Fresh.last = None /\ Fresh.valid = 0
BY FreshSays DEF NoActivity

LEMMA KindsAre ==
  /\ Msm \subseteq Decoded /\ Decoded \subseteq Types /\ "1005" \in Decoded
  /\ Static \subseteq Decoded /\ "1005" \in Static /\ Msm \cap Static = {}
BY DEF Msm, Decoded, Types, Static

LEMMA OwnerHoldsHeard ==
  ASSUME MonitorTyped, LogTyped, OwnerHeard, OwnerHolds, NEW f, NEW at, HearsOne(f, at)
  PROVE  OwnerHolds'
<1> DEFINE b == Base(monitor, f)
           rec == Received(f, at, b.held[f.type])
<1>1. /\ IsMonitor(b) /\ f \in Frames
      /\ monitor'.station = OwnerAfter(f)
      /\ monitor'.held = IF TakenNow(f) THEN [b.held EXCEPT ![f.type] = rec] ELSE b.held
      /\ monitor'.lastMsm = IF TakenNow(f) /\ f.type \in Msm THEN f.type ELSE b.lastMsm
      /\ monitor'.semantic = IF Accepted(f)
                               THEN [b.semantic EXCEPT ![f.type] = Active(@, at)]
                               ELSE b.semantic
  BY HeardSays
<1>2. TakenNow(f) => rec # None /\ rec.station = f.station
  <2> SUFFICES ASSUME TakenNow(f)
               PROVE  rec # None /\ rec.station = f.station
    OBVIOUS
  <2>1. b.held[f.type] \in Receipts \cup {None}
    BY <1>1 DEF IsMonitor, TakenNow
  <2>2. at \in Instants \cup {None}
    BY HeardSays
  <2>3. rec \in Receipts
    BY <1>1, <2>1, <2>2, ReceivedTyped
  <2> QED
    BY <2>3, NoneAssumption DEF Received
<1>3. f.station # None
  BY <1>1, NoneAssumption DEF Stations
<1>4. b = Fresh \/ b = monitor
  BY DEF Base
<1>5. b.held \in [Decoded -> Receipts \cup {None}] /\ b.semantic \in [Types -> Activities]
        /\ b.lastMsm \in Msm \cup {None}
  BY <1>1 DEF IsMonitor
\* What is held after the forgetting is of the owner to be.
<1>6. ASSUME NEW t \in Decoded, b.held[t] # None, OwnerAfter(f) # None
      PROVE  b.held[t].station = OwnerAfter(f)
  <2>1. b = monitor
    BY <1>4, <1>6, FreshHolds
  <2>2. CASE Accepted(f)
    <3>1. OwnerAfter(f) = f.station /\ ~Foreign(monitor, f.station)
      BY <2>1, <2>2, <1>6, FreshHolds DEF OwnerAfter, Base
    <3>2. CASE monitor.station = None
      BY <1>6, <2>1, <3>1, <3>2 DEF Foreign, OwnerHolds
    <3>3. CASE monitor.station # None
      BY <1>6, <2>1, <3>1, <3>3 DEF Foreign, OwnerHolds
    <3> QED
      BY <3>2, <3>3
  <2>3. CASE ~Accepted(f)
    BY <1>6, <2>1, <2>3 DEF OwnerAfter, OwnerHolds
  <2> QED
    BY <2>2, <2>3
<1>7. b.lastMsm # None => b.held[b.lastMsm] # None
  BY <1>4, FreshHolds DEF OwnerHolds
<1>8. b.semantic["1005"].count > 0 => b.held["1005"] # None
  BY <1>4, FreshHolds, KindsAre DEF OwnerHolds
<1> HIDE DEF b, rec
<1>9. ASSUME NEW t \in Decoded, monitor'.held[t] # None, monitor'.station # None
      PROVE  monitor'.held[t].station = monitor'.station
  <2>1. CASE TakenNow(f) /\ t = f.type
    <3>1. OwnerAfter(f) = f.station
      BY <1>1, <1>9, <2>1 DEF TakenNow
    <3> QED
      BY <1>1, <1>2, <1>5, <2>1, <3>1
  <2>2. CASE ~(TakenNow(f) /\ t = f.type)
    <3>1. monitor'.held[t] = b.held[t]
      BY <1>1, <1>5, <2>2
    <3> QED
      BY <1>1, <1>6, <1>9, <3>1
  <2> QED
    BY <2>1, <2>2
<1>10. ASSUME monitor'.station = None
       PROVE  /\ monitor'.held["1005"] = None
              /\ \A t \in Types : monitor'.semantic[t].count = 0
              /\ \A i \in Own' : log'[i].session # session'
  <2>1. ~Accepted(f) /\ monitor.station = None
    BY <1>1, <1>3, <1>10 DEF OwnerAfter
  <2>2. b = monitor
    BY <2>1 DEF Base, b
  <2>3. f.type = "1005" => ~TakenNow(f)
    BY <2>1 DEF TakenNow, Accepted, Static, Parsed, ArpParsed, AntennaParsed, BiasParsed,
                MsmParsed, Msm
  <2>4. monitor'.held["1005"] = None
    <3>1. monitor.held["1005"] = None /\ "1005" \in Decoded
      BY <2>1, KindsAre DEF OwnerHolds
    <3> QED
      BY <1>1, <1>5, <2>2, <2>3, <3>1
  <2>5. \A t \in Types : monitor'.semantic[t].count = 0
    BY <1>1, <2>1, <2>2 DEF OwnerHolds
  <2>6. Own' = Own /\ (\A i \in Own : log'[i] = log[i]) /\ session' = session
    BY <2>1, OwnGrows DEF HearsOne
  <2> QED
    BY <2>1, <2>4, <2>5, <2>6 DEF OwnerHolds
<1>11. monitor'.lastMsm # None => monitor'.held[monitor'.lastMsm] # None
  BY <1>1, <1>2, <1>5, <1>7, KindsAre
<1>12. monitor'.semantic["1005"].count > 0 => monitor'.held["1005"] # None
  <2>1. CASE Accepted(f) /\ f.type = "1005"
    <3>1. TakenNow(f)
      BY <2>1, AcceptedIs DEF TakenNow, OwnerAfter
    <3> QED
      BY <1>1, <1>2, <1>5, <2>1, <3>1, KindsAre
  <2>2. CASE ~(Accepted(f) /\ f.type = "1005")
    <3>1. monitor'.semantic["1005"] = b.semantic["1005"]
      BY <1>1, <1>5, <2>2, KindsAre
    <3> QED
      BY <1>1, <1>2, <1>5, <1>8, <3>1, KindsAre
  <2> QED
    BY <2>1, <2>2
<1> QED
  BY <1>9, <1>10, <1>11, <1>12 DEF OwnerHolds

LEMMA OwnerHoldsStep ==
  MonitorTyped /\ LogTyped /\ OwnerHeard /\ OwnerHolds /\ [MonitorNext]_monitorVars
    => OwnerHolds'
<1> SUFFICES ASSUME MonitorTyped, LogTyped, OwnerHeard, OwnerHolds, [MonitorNext]_monitorVars
             PROVE  OwnerHolds'
  OBVIOUS
<1>1. ASSUME NEW f, NEW at, HearsOne(f, at)
      PROVE  OwnerHolds'
  BY <1>1, OwnerHoldsHeard
<1>2. CASE NewSession
  <2> DEFINE n == ResetDynamicState(monitor)
  <2>1. monitor' = n /\ log' = log /\ session' = session + 1
    BY <1>2 DEF NewSession
  <2>2. Own' = Own /\ Own \subseteq DOMAIN log
    BY <2>1, OwnKept DEF Own, AcceptedIn
  <2>3. \A i \in Own' : log'[i].session # session'
    BY <2>1, <2>2 DEF LogTyped, MonitorTyped
  <2>4. CASE n = Fresh
    BY <2>1, <2>3, <2>4, FreshHolds, KindsAre DEF OwnerHolds
  <2>5. CASE n # Fresh
    <3>1. /\ monitor.station # None
          /\ n.station = monitor.station /\ n.lastMsm = None
          /\ n.held = [t \in Decoded |-> IF t \in Static THEN monitor.held[t] ELSE None]
          /\ n.semantic = [t \in Types |-> IF t \in Static THEN monitor.semantic[t]
                                                           ELSE NoActivity]
      BY <2>5, ResetSays
    <3> HIDE DEF n
    <3>2. \A t \in Decoded : n.held[t] # None /\ n.station # None =>
            n.held[t].station = n.station
      BY <3>1 DEF OwnerHolds
    <3>3. n.semantic["1005"].count > 0 => n.held["1005"] # None
      BY <3>1, KindsAre DEF OwnerHolds
    <3> QED
      BY <2>1, <3>1, <3>2, <3>3 DEF OwnerHolds
  <2> QED
    BY <2>4, <2>5
<1>3. CASE NewSource
  <2>1. monitor' = Fresh /\ Own' = {}
    BY <1>3, NothingHeard DEF NewSource, Own, AcceptedIn
  <2> QED
    BY <2>1, FreshHolds, KindsAre DEF OwnerHolds
<1>4. CASE StreamTime \/ UNCHANGED monitorVars
  <2>1. monitor' = monitor /\ log' = log /\ session' = session
    BY <1>4 DEF StreamTime, monitorVars
  <2> QED
    BY <2>1, OwnKept DEF OwnerHolds
<1> QED
  BY <1>1, <1>2, <1>3, <1>4, MonitorSteps

StreamInv == MonitorTyped /\ LogTyped /\ OwnerHeard /\ OwnerHolds

LEMMA StreamInit == MonitorInit => StreamInv
<1> SUFFICES ASSUME MonitorInit
             PROVE  StreamInv
  OBVIOUS
<1>1. Own = {}
  BY OwnEmpty DEF MonitorInit
<1>2. OwnerHeard /\ OwnerHolds
  BY <1>1, FreshHolds, KindsAre DEF MonitorInit, OwnerHeard, OwnerHolds
<1> QED
  BY <1>2, MonitorTypedInit, LogTypedInit DEF StreamInv

LEMMA StreamStep == StreamInv /\ [MonitorNext]_monitorVars => StreamInv'
BY MonitorTypedStep, LogTypedStep, OwnerHeardStep, OwnerHoldsStep DEF StreamInv

LEMMA ObservedStation ==
  /\ \A m, t, now_ :
       Observation(m, t, now_).station = IF m.held[t] = None THEN None ELSE m.held[t].station
  /\ \A m : MsmObservation(m).station =
       IF m.lastMsm = None THEN None ELSE m.held[m.lastMsm].station
BY DEF Observation, MsmObservation

(***************************************************************************)
(* OneStation: for every stream of frames of any stations, damaged in any  *)
(* way and over any connections, all that is shown is of the one station   *)
(* that owns the stream, whose frame was the last to be accepted           *)
(* (RtcmCorrectionMonitor::PrepareStationOwnership).                        *)
(***************************************************************************)
THEOREM OneStationOwns == MonitorSpec => []OneStation
<1>1. StreamInv => OneStation
  <2> SUFFICES ASSUME StreamInv, monitor.station # None
               PROVE  /\ \A i \in Own : Heard(i).station = monitor.station
                      /\ \A t \in Decoded :
                           Observation(monitor, t, clock).station \in {None, monitor.station}
                      /\ MsmObservation(monitor).station \in {None, monitor.station}
    BY DEF OneStation
  <2>1. monitor.lastMsm \in Msm \cup {None}
    BY DEF StreamInv, MonitorTyped, IsMonitor
  <2> QED
    BY <2>1, ObservedStation, KindsAre DEF StreamInv, OwnerHeard, OwnerHolds
<1> QED
  BY <1>1, StreamInit, StreamStep, PTL DEF MonitorSpec

-----------------------------------------------------------------------------
\* Whether corrections are available.

\* The owner's frames of this connection, and those that say where it stands.
Ours == {i \in Own : log[i].session = session}
Bases == {i \in Own : Heard(i).type = "1005"}

BaseKnown == monitor.semantic["1005"].count > 0 <=> Bases # {}

\* The time of an MSM type is that of its latest frame.
MsmKnown ==
  \A t \in Msm :
    LET s == monitor.semantic[t]
    IN  /\ s.at # None =>
             s.count > 0 /\ \E i \in Ours : Heard(i).type = t /\ log[i].at = s.at
        /\ \A i \in Ours : Heard(i).type = t /\ log[i].at # None =>
             s.at # None /\ log[i].at <= s.at
        /\ s.count > 0 => monitor.valid > 0

\* The latest time is of this connection, and no earlier than anything that
\* came with or after a frame of the owner's.
LastKnown ==
  /\ monitor.last # None =>
       \E i \in DOMAIN log : log[i].session = session /\ log[i].at = monitor.last
  /\ \A i \in Ours, j \in DOMAIN log : j >= i /\ log[j].at # None =>
       monitor.last # None /\ log[j].at <= monitor.last

\* A frame makes the stream foreign, and all of the owner's frames are gone, or
\* it is one more of them.
LEMMA OursGrow ==
  ASSUME StreamInv, BaseKnown, NEW f, NEW at, HearsOne(f, at)
  PROVE  LET n == Len(log)
         IN  /\ Ours \subseteq 1..n
             /\ Base(monitor, f) # monitor =>
                  /\ Base(monitor, f) = Fresh /\ Accepted(f)
                  /\ Ours' = {n + 1}
                  /\ Bases' = IF f.type = "1005" THEN {n + 1} ELSE {}
             /\ Base(monitor, f) = monitor /\ Accepted(f) =>
                  /\ Ours' = Ours \cup {n + 1}
                  /\ Bases' = Bases \cup (IF f.type = "1005" THEN {n + 1} ELSE {})
             /\ Base(monitor, f) = monitor /\ ~Accepted(f) => Ours' = Ours /\ Bases' = Bases
<1> DEFINE n == Len(log)
           g == log'
           mine == {i \in Own : Heard(i).station = f.station}
<1>1. /\ Own \subseteq 1..n
      /\ \A i \in Own : Heard(i)' = Heard(i) /\ g[i] = log[i]
      /\ ~Accepted(f) => Own' = Own
      /\ Accepted(f) => Own' = mine \cup {n + 1}
      /\ g[n + 1].frame = f /\ \A i : Heard(i)' = g[i].frame
  BY OwnGrows DEF StreamInv
<1>2. g[n + 1].session = session /\ session' = session /\ n \in Nat
  BY LogGrows DEF StreamInv, HearsOne
<1>3. /\ Ours' = {i \in Own' : g[i].session = session'}
      /\ Bases' = {i \in Own' : g[i].frame.type = "1005"}
      /\ Ours = {i \in Own : log[i].session = session}
      /\ Bases = {i \in Own : Heard(i).type = "1005"}
  <2>1. \A i : Heard(i)' = g[i].frame
    BY <1>1
  <2> QED
    BY <2>1 DEF Ours, Bases
<1>4. \A i \in Own : g[i].frame.type = Heard(i).type
  BY <1>1
<1>5. CASE ~Accepted(f)
  <2>1. Base(monitor, f) = monitor
    BY <1>5 DEF Base
  <2>2. Own' = Own
    BY <1>1, <1>5
  <2>3. Ours' = Ours /\ Bases' = Bases
    BY <1>1, <1>2, <1>3, <1>4, <2>2
  <2>4. Ours \subseteq 1..n
    BY <1>1, <1>3
  <2> QED
    BY <1>5, <2>1, <2>3, <2>4
<1>6. CASE Accepted(f)
  <2> HIDE DEF g, n, mine
  <2>1. n + 1 \notin Own
    BY <1>1, <1>2
  <2>2. Own' = mine \cup {n + 1} /\ mine \subseteq Own
    BY <1>1, <1>6 DEF mine
  <2>3. Ours' = {i \in mine : log[i].session = session} \cup {n + 1}
    BY <1>1, <1>2, <1>3, <2>2
  <2>4. Bases' = {i \in mine : Heard(i).type = "1005"}
                   \cup (IF f.type = "1005" THEN {n + 1} ELSE {})
    BY <1>1, <1>3, <1>4, <2>2
  <2>5. CASE monitor.station = None
    <3>1. Ours = {} /\ \A i \in Own : log[i].session # session
      BY <1>3, <2>5 DEF StreamInv, OwnerHolds
    <3>2. monitor.semantic["1005"].count = 0
      BY <2>5, KindsAre DEF StreamInv, OwnerHolds
    <3>3. Bases = {} /\ \A i \in Own : Heard(i).type # "1005"
      BY <1>3, <3>2 DEF BaseKnown
    <3>4. Ours' = {n + 1} /\ Bases' = IF f.type = "1005" THEN {n + 1} ELSE {}
      BY <2>2, <2>3, <2>4, <3>1, <3>3
    <3> QED
      BY <1>6, <3>1, <3>3, <3>4 DEF Base, n
  <2>6. CASE monitor.station = f.station
    <3>1. mine = Own /\ f.station # None
      <4>1. f.station # None
        BY NoneAssumption DEF HearsOne, Stations
      <4> QED
        BY <2>6, <4>1 DEF mine, StreamInv, OwnerHeard
    <3>2. Base(monitor, f) = monitor
      BY <2>6, <3>1 DEF Base, Foreign
    <3>3. Ours' = Ours \cup {n + 1} /\ Ours \subseteq 1..n
      BY <1>1, <1>3, <2>3, <3>1
    <3>4. Bases' = Bases \cup (IF f.type = "1005" THEN {n + 1} ELSE {})
      BY <1>3, <2>4, <3>1
    <3> QED
      BY <1>6, <3>2, <3>3, <3>4 DEF n
  <2>7. CASE monitor.station \notin {None, f.station}
    <3>1. mine = {} /\ Base(monitor, f) = Fresh
      BY <1>6, <2>7 DEF mine, StreamInv, OwnerHeard, Base, Foreign
    <3>2. Fresh # monitor
      BY <2>7, FreshHolds
    <3>3. Ours' = {n + 1} /\ Bases' = (IF f.type = "1005" THEN {n + 1} ELSE {})
      BY <2>3, <2>4, <3>1
    <3>4. Ours \subseteq 1..n
      BY <1>1, <1>3
    <3> QED
      BY <1>6, <3>1, <3>2, <3>3, <3>4 DEF n
  <2> QED
    BY <2>5, <2>6, <2>7
<1> QED
  BY <1>5, <1>6

LEMMA BaseHeard ==
  ASSUME StreamInv, BaseKnown, NEW f, NEW at, HearsOne(f, at)
  PROVE  BaseKnown'
<1> DEFINE b == Base(monitor, f)
<1>1. /\ b # monitor => /\ b = Fresh /\ Accepted(f)
                        /\ Bases' = IF f.type = "1005" THEN {Len(log) + 1} ELSE {}
      /\ b = monitor /\ Accepted(f) =>
           Bases' = Bases \cup (IF f.type = "1005" THEN {Len(log) + 1} ELSE {})
      /\ b = monitor /\ ~Accepted(f) => Bases' = Bases
  BY OursGrow
<1>2. /\ IsMonitor(b)
      /\ monitor'.semantic = IF Accepted(f)
                               THEN [b.semantic EXCEPT ![f.type] = Active(@, at)]
                               ELSE b.semantic
  BY HeardSays DEF StreamInv
<1> HIDE DEF b
<1>3. b.semantic \in [Types -> Activities] /\ "1005" \in Types
  BY <1>2, KindsAre DEF IsMonitor
<1>4. CASE Accepted(f) /\ f.type = "1005"
  <2>1. b.semantic["1005"] \in Activities
    BY <1>3
  <2>2. Active(b.semantic["1005"], at).count > 0
    BY <2>1, ActiveSays
  <2>3. monitor'.semantic["1005"].count > 0
    BY <1>2, <1>3, <1>4, <2>2
  <2>4. Bases' # {}
    BY <1>1, <1>4
  <2> QED
    BY <2>3, <2>4 DEF BaseKnown
<1>5. CASE ~(Accepted(f) /\ f.type = "1005")
  <2>1. monitor'.semantic["1005"] = b.semantic["1005"]
    BY <1>2, <1>3, <1>5
  <2>2. b = monitor => Bases' = Bases
    BY <1>1, <1>5
  <2>3. b # monitor => Bases' = {} /\ b.semantic["1005"].count = 0
    BY <1>1, <1>5, FreshHolds, KindsAre
  <2> QED
    BY <2>1, <2>2, <2>3 DEF BaseKnown
<1> QED
  BY <1>4, <1>5

LEMMA MsmHeard ==
  ASSUME StreamInv, BaseKnown, MsmKnown, NEW f, NEW at, HearsOne(f, at)
  PROVE  MsmKnown'
<1> DEFINE b == Base(monitor, f)
           n == Len(log)
<1>1. /\ Ours \subseteq 1..n
      /\ b # monitor => b = Fresh /\ Accepted(f) /\ Ours' = {n + 1}
      /\ b = monitor /\ Accepted(f) => Ours' = Ours \cup {n + 1}
      /\ b = monitor /\ ~Accepted(f) => Ours' = Ours
  BY OursGrow
<1>2. /\ IsMonitor(b)
      /\ at \in Instants \cup {None}
      /\ monitor'.valid = IF Typed(f) THEN b.valid + 1 ELSE b.valid
      /\ monitor'.semantic = IF Accepted(f)
                               THEN [b.semantic EXCEPT ![f.type] = Active(@, at)]
                               ELSE b.semantic
  BY HeardSays DEF StreamInv
<1>3. /\ n \in Nat /\ \A i \in 1..n : log'[i] = log[i]
      /\ log'[n + 1].frame = f /\ log'[n + 1].at = at
  BY LogGrows DEF StreamInv
<1>4. b.semantic \in [Types -> Activities] /\ b.valid \in Nat
  BY <1>2 DEF IsMonitor
\* What is so of the monitor that the frame finds.
<1>5. ASSUME NEW t \in Msm
      PROVE  LET s == b.semantic[t]
                 before == IF b = monitor THEN Ours ELSE {}
             IN  /\ s.at # None =>
                      s.count > 0 /\ \E i \in before : Heard(i).type = t /\ log[i].at = s.at
                 /\ \A i \in before : Heard(i).type = t /\ log[i].at # None =>
                      s.at # None /\ log[i].at <= s.at
                 /\ s.count > 0 => b.valid > 0
  <2>1. CASE b = monitor
    BY <2>1 DEF MsmKnown
  <2>2. CASE b # monitor
    <3>1. b = Fresh /\ t \in Types
      BY <1>1, <2>2, KindsAre
    <3> HIDE DEF b
    <3> QED
      BY <2>2, <3>1, FreshHolds
  <2> QED
    BY <2>1, <2>2
<1> HIDE DEF b, n
<1>6. SUFFICES ASSUME NEW t \in Msm
               PROVE  LET s == monitor'.semantic[t]
                      IN  /\ s.at # None =>
                               /\ s.count > 0
                               /\ \E i \in Ours' : log'[i].frame.type = t /\ log'[i].at = s.at
                          /\ \A i \in Ours' : log'[i].frame.type = t /\ log'[i].at # None =>
                               s.at # None /\ log'[i].at <= s.at
                          /\ s.count > 0 => monitor'.valid > 0
  BY DEF MsmKnown, Heard
<1> DEFINE before == IF b = monitor THEN Ours ELSE {}
           p == b.semantic[t]
           s == monitor'.semantic[t]
<1>7. /\ p.at # None =>
           p.count > 0 /\ \E i \in before : log[i].frame.type = t /\ log[i].at = p.at
      /\ \A i \in before : log[i].frame.type = t /\ log[i].at # None =>
           p.at # None /\ log[i].at <= p.at
      /\ p.count > 0 => b.valid > 0
  BY <1>5 DEF Heard
<1>8. before \subseteq 1..n /\ \A i \in before : log'[i] = log[i]
  BY <1>1, <1>3
<1>9. t \in Types /\ p \in Activities
  BY <1>4, KindsAre
<1>10. /\ ~Accepted(f) => Ours' = before
       /\ Accepted(f) => Ours' = before \cup {n + 1}
  BY <1>1
<1> HIDE DEF before, p
<1>11. CASE Accepted(f) /\ f.type = t
  <2>1. s = Active(p, at)
    BY <1>2, <1>4, <1>9, <1>11 DEF p
  <2>2. s.count > 0 /\ s.at = Latest(at, p.at)
    BY <1>9, <2>1, ActiveSays
  <2>3. p.at \in Instants \cup {None}
    BY <1>9 DEF Activities
  <2>4. /\ s.at \in {at, p.at}
        /\ at # None => s.at # None /\ at <= s.at
        /\ p.at # None => s.at # None /\ p.at <= s.at
        /\ s.at \in Instants \cup {None}
    BY <1>2, <2>2, <2>3, LatestSays
  <2>5. monitor'.valid > 0
    BY <1>2, <1>4, <1>11, AcceptedIs
  <2> HIDE DEF s
  <2>6. s.at # None => \E i \in Ours' : log'[i].frame.type = t /\ log'[i].at = s.at
    <3>1. CASE s.at = at
      BY <1>3, <1>10, <1>11, <3>1
    <3>2. CASE s.at = p.at
      BY <1>7, <1>8, <1>10, <1>11, <3>2
    <3> QED
      BY <2>4, <3>1, <3>2
  <2>7. ASSUME NEW i \in Ours', log'[i].frame.type = t, log'[i].at # None
        PROVE  s.at # None /\ log'[i].at <= s.at
    <3>1. CASE i = n + 1
      BY <1>3, <2>4, <2>7, <3>1
    <3>2. CASE i # n + 1
      <4>1. i \in before /\ log'[i] = log[i]
        BY <1>8, <1>10, <1>11, <2>7, <3>2
      <4>2. p.at # None /\ log[i].at <= p.at
        BY <1>7, <2>7, <4>1
      <4>3. i \in DOMAIN log /\ log[i].at # None
        BY <1>3, <1>8, <2>7, <4>1, LogGrows DEF StreamInv, n
      <4>4. log[i].at \in 0..clock
        BY <4>3 DEF StreamInv, LogTyped
      <4>5. log[i].at \in Int
        BY <4>4
      <4>6. p.at \in Int
        BY <2>3, <4>2, InstantIsInt
      <4>7. s.at # None /\ p.at <= s.at
        BY <2>4, <4>2
      <4>8. s.at \in Int
        BY <2>4, <4>7, InstantIsInt
      <4>9. log[i].at <= s.at
        BY <4>2, <4>5, <4>6, <4>7, <4>8, NoLater
      <4> QED
        BY <4>1, <4>7, <4>9
    <3> QED
      BY <3>1, <3>2
  <2> QED
    BY <2>2, <2>5, <2>6, <2>7 DEF s
<1>12. CASE ~(Accepted(f) /\ f.type = t)
  <2>1. s = p
    BY <1>2, <1>4, <1>9, <1>12 DEF p
  <2>2. monitor'.valid >= b.valid
    BY <1>2, <1>4
  <2>3. s.count > 0 => monitor'.valid > 0
    BY <1>2, <1>4, <1>7, <2>1, <2>2
  <2> HIDE DEF s
  <2>4. s.at # None =>
          s.count > 0 /\ \E i \in Ours' : log'[i].frame.type = t /\ log'[i].at = s.at
    BY <1>7, <1>8, <1>10, <2>1
  <2>5. ASSUME NEW i \in Ours', log'[i].frame.type = t, log'[i].at # None
        PROVE  s.at # None /\ log'[i].at <= s.at
    <3>1. i \in before /\ log'[i] = log[i]
      BY <1>3, <1>8, <1>10, <1>12, <2>5
    <3> QED
      BY <1>7, <2>1, <2>5, <3>1
  <2> QED
    BY <2>3, <2>4, <2>5 DEF s
<1> QED
  BY <1>11, <1>12

LEMMA LastHeard ==
  ASSUME StreamInv, BaseKnown, LastKnown, NEW f, NEW at, HearsOne(f, at)
  PROVE  LastKnown'
<1> DEFINE b == Base(monitor, f)
           n == Len(log)
<1>1. /\ Ours \subseteq 1..n
      /\ b # monitor => b = Fresh /\ Accepted(f) /\ Ours' = {n + 1}
      /\ b = monitor /\ Accepted(f) => Ours' = Ours \cup {n + 1}
      /\ b = monitor /\ ~Accepted(f) => Ours' = Ours
  BY OursGrow
<1>2. /\ IsMonitor(b)
      /\ at \in Instants \cup {None}
      /\ monitor'.last = Latest(at, b.last)
  BY HeardSays DEF StreamInv
<1>3. /\ n \in Nat /\ DOMAIN log = 1..n /\ DOMAIN log' = 1..(n + 1)
      /\ \A i \in 1..n : log'[i] = log[i]
      /\ log'[n + 1].at = at /\ log'[n + 1].session = session /\ session' = session
  BY LogGrows DEF StreamInv, HearsOne
<1>4. b # monitor => b.last = None
  BY <1>1, FreshHolds
<1>5. b.last \in Instants \cup {None}
  BY <1>2 DEF IsMonitor
<1> HIDE DEF b, n
<1>6. /\ monitor'.last \in {at, b.last}
      /\ monitor'.last \in Instants \cup {None}
      /\ at # None => monitor'.last # None /\ at <= monitor'.last
      /\ b.last # None => monitor'.last # None /\ b.last <= monitor'.last
  BY <1>2, <1>5, LatestSays
<1>7. n + 1 \in DOMAIN log' /\ 1..n \subseteq DOMAIN log'
  BY <1>3
<1>8. ASSUME monitor'.last # None
      PROVE  \E i \in DOMAIN log' : log'[i].session = session' /\ log'[i].at = monitor'.last
  <2>1. CASE monitor'.last = at
    BY <1>3, <1>7, <2>1
  <2>2. CASE monitor'.last = b.last
    <3>1. PICK i \in DOMAIN log : log[i].session = session /\ log[i].at = monitor.last
      BY <1>4, <1>8, <2>2 DEF LastKnown
    <3>2. b = monitor
      BY <1>4, <1>8, <2>2
    <3> QED
      BY <1>3, <1>7, <2>2, <3>1, <3>2
  <2> QED
    BY <1>6, <2>1, <2>2
<1>9. ASSUME NEW i \in Ours', NEW j \in DOMAIN log', j >= i, log'[j].at # None
      PROVE  monitor'.last # None /\ log'[j].at <= monitor'.last
  <2>1. CASE j = n + 1
    BY <1>3, <1>6, <1>9, <2>1
  <2>2. CASE j # n + 1
    <3>1. j \in 1..n /\ log'[j] = log[j]
      BY <1>3, <2>2
    <3>2. i # n + 1
      BY <1>3, <1>9, <3>1
    <3>3. b = monitor /\ i \in Ours
      BY <1>1, <1>9, <3>2
    <3>4. monitor.last # None /\ log[j].at <= monitor.last
      BY <1>3, <1>9, <3>1, <3>3 DEF LastKnown
    <3>5. b.last # None /\ b.last <= monitor'.last /\ log[j].at <= b.last
      BY <1>6, <3>3, <3>4
    <3>6. log[j].at \in 0..clock
      BY <1>3, <1>9, <3>1 DEF StreamInv, LogTyped
    <3>7. b.last \in Int
      BY <1>5, <3>5, InstantIsInt
    <3>8. monitor'.last # None
      BY <1>6, <3>5
    <3>9. monitor'.last \in Int
      BY <1>6, <3>8, InstantIsInt
    <3>10. log[j].at \in Int
      BY <3>6
    <3>11. log[j].at <= monitor'.last
      BY <3>5, <3>7, <3>9, <3>10, NoLater
    <3> QED
      BY <3>1, <3>8, <3>11
  <2> QED
    BY <2>1, <2>2
<1> QED
  BY <1>8, <1>9 DEF LastKnown

AvailableInv == StreamInv /\ BaseKnown /\ MsmKnown /\ LastKnown

LEMMA AvailableInit == MonitorInit => AvailableInv
<1> SUFFICES ASSUME MonitorInit
             PROVE  AvailableInv
  OBVIOUS
<1>1. Own = {} /\ monitor = Fresh
  BY OwnEmpty DEF MonitorInit
<1>2. Ours = {} /\ Bases = {}
  BY <1>1 DEF Ours, Bases
<1>3. BaseKnown
  BY <1>1, <1>2, FreshHolds, KindsAre DEF BaseKnown
<1>4. MsmKnown /\ LastKnown
  BY <1>1, <1>2, FreshHolds, KindsAre DEF MsmKnown, LastKnown
<1> QED
  BY <1>3, <1>4, StreamInit DEF AvailableInv

\* Another connection has brought nothing yet, and the base station's own
\* account outlives it.
LEMMA AvailableAgain ==
  ASSUME AvailableInv, NewSession
  PROVE  BaseKnown' /\ MsmKnown' /\ LastKnown'
<1> DEFINE n == ResetDynamicState(monitor)
<1>1. monitor' = n /\ log' = log /\ session' = session + 1
  BY DEF NewSession
<1>2. Own' = Own /\ (\A i : Heard(i)' = Heard(i)) /\ Own \subseteq DOMAIN log
  BY <1>1, OwnKept DEF Own, AcceptedIn
<1>3. \A i \in Own : log[i].session # session'
  BY <1>1, <1>2 DEF AvailableInv, StreamInv, LogTyped, MonitorTyped
<1>4. Ours' = {} /\ Bases' = Bases
  BY <1>1, <1>2, <1>3 DEF Ours, Bases
<1>5. /\ n.last = None
      /\ \A t \in Msm : n.semantic[t].count = 0 /\ n.semantic[t].at = None
      /\ n.semantic["1005"].count > 0 <=> monitor.semantic["1005"].count > 0
  <2>1. CASE n = Fresh
    <3>1. CASE monitor.station = None \/ monitor.held["1005"] = None
      <4>1. ~(monitor.semantic["1005"].count > 0)
        BY <3>1, KindsAre DEF AvailableInv, StreamInv, OwnerHolds
      <4> QED
        BY <2>1, <4>1, FreshHolds, KindsAre
    <3>2. CASE monitor.station # None
      <4>1. ~(n.station # None)
        BY <2>1, FreshHolds
      <4>2. monitor.held["1005"] = None
        BY <3>2, <4>1, ResetSays
      <4> QED
        BY <3>1, <4>2
    <3> QED
      BY <3>1, <3>2
  <2>2. CASE n # Fresh
    <3>1. /\ n.last = None
          /\ n.semantic = [t \in Types |-> IF t \in Static THEN monitor.semantic[t]
                                                           ELSE NoActivity]
      BY <2>2, ResetSays
    <3> HIDE DEF n
    <3> QED
      BY <3>1, KindsAre DEF NoActivity
  <2> QED
    BY <2>1, <2>2
<1> HIDE DEF n
<1>6. BaseKnown'
  BY <1>1, <1>4, <1>5 DEF AvailableInv, BaseKnown
<1>7. MsmKnown'
  BY <1>1, <1>4, <1>5 DEF MsmKnown
<1>8. LastKnown'
  BY <1>1, <1>4, <1>5 DEF LastKnown
<1> QED
  BY <1>6, <1>7, <1>8

LEMMA AvailableStep == AvailableInv /\ [MonitorNext]_monitorVars => AvailableInv'
<1> SUFFICES ASSUME AvailableInv, [MonitorNext]_monitorVars
             PROVE  BaseKnown' /\ MsmKnown' /\ LastKnown'
  BY StreamStep DEF AvailableInv
<1>1. ASSUME NEW f, NEW at, HearsOne(f, at)
      PROVE  BaseKnown' /\ MsmKnown' /\ LastKnown'
  BY <1>1, BaseHeard, MsmHeard, LastHeard DEF AvailableInv
<1>2. CASE NewSession
  BY <1>2, AvailableAgain
<1>3. CASE NewSource
  <2>1. monitor' = Fresh /\ Own' = {}
    BY <1>3, NothingHeard DEF NewSource, Own, AcceptedIn
  <2>2. Ours' = {} /\ Bases' = {}
    BY <2>1 DEF Ours, Bases
  <2>3. BaseKnown'
    BY <2>1, <2>2, FreshHolds, KindsAre DEF BaseKnown
  <2>4. MsmKnown'
    BY <2>1, <2>2, FreshHolds, KindsAre DEF MsmKnown
  <2>5. LastKnown'
    BY <2>1, <2>2, FreshHolds DEF LastKnown
  <2> QED
    BY <2>3, <2>4, <2>5
<1>4. CASE StreamTime \/ UNCHANGED monitorVars
  <2>1. monitor' = monitor /\ log' = log /\ session' = session
    BY <1>4 DEF StreamTime, monitorVars
  <2>2. Own' = Own /\ \A i : Heard(i)' = Heard(i)
    BY <2>1, OwnKept
  <2>3. Ours' = Ours /\ Bases' = Bases
    BY <2>1, <2>2 DEF Ours, Bases
  <2>4. BaseKnown'
    BY <2>1, <2>3 DEF AvailableInv, BaseKnown
  <2>5. MsmKnown'
    BY <2>1, <2>2, <2>3 DEF AvailableInv, MsmKnown
  <2>6. LastKnown'
    BY <2>1, <2>3 DEF AvailableInv, LastKnown
  <2> QED
    BY <2>4, <2>5, <2>6
<1> QED
  BY <1>1, <1>2, <1>3, <1>4, MonitorSteps

\* What health is reported for the times that the monitor holds.
LEMMA HealthSays ==
  ASSUME AvailableInv
  PROVE  CorrectionHealth(monitor, clock).correction_available <=>
           /\ monitor.last # None /\ monitor.last <= clock
           /\ StaleAfter > 0 => clock - monitor.last <= StaleAfter
           /\ monitor.valid > 0
           /\ \E t \in Msm : InWindow(monitor.semantic[t], clock)
           /\ monitor.semantic["1005"].count > 0
<1> DEFINE age == AgeSince(monitor.last, clock)
           required == HasRequiredCorrectionMessages(monitor, clock)
<1>1. CorrectionHealth(monitor, clock).correction_available <=>
        age # None /\ ~(StaleAfter > 0 /\ age # None /\ age > StaleAfter) /\ required
  BY DEF CorrectionHealth
<1>2. clock \in Int /\ StaleAfter \in Int /\ monitor.last \in Instants \cup {None}
  BY InstantsAre, DurationsAssumption DEF AvailableInv, StreamInv, MonitorTyped, IsMonitor
<1>3. monitor.last # None => monitor.last \in Int
  BY <1>2, InstantIsInt
<1>4. age # None /\ ~(StaleAfter > 0 /\ age > StaleAfter) <=>
        /\ monitor.last # None /\ monitor.last <= clock
        /\ StaleAfter > 0 => clock - monitor.last <= StaleAfter
  <2>1. CASE monitor.last = None \/ monitor.last > clock
    BY <1>2, <1>3, <2>1 DEF AgeSince
  <2>2. CASE ~(monitor.last = None \/ monitor.last > clock)
    <3>1. age = clock - monitor.last
      BY <2>2 DEF AgeSince
    <3>2. age \in Int /\ age # None
      BY <1>2, <1>3, <2>2, <3>1, NoneAssumption
    <3> HIDE DEF age
    <3> QED
      BY <1>2, <1>3, <2>2, <3>1, <3>2
  <2> QED
    BY <2>1, <2>2
<1> HIDE DEF age
<1>5. required <=> /\ monitor.valid > 0
                   /\ \E t \in Msm : InWindow(monitor.semantic[t], clock)
                   /\ monitor.semantic["1005"].count > 0
  BY DEF HasRequiredCorrectionMessages
<1> HIDE DEF required
<1> QED
  BY <1>1, <1>4, <1>5

(***************************************************************************)
(* AvailableIsTrue: over any connections and sources, frames in any order  *)
(* and with or without time stamps, corrections are available exactly when *)
(* the station that owns the stream said where it stands and sent          *)
(* observations on this connection within the window, and something came   *)
(* lately (BuildRtcmCorrectionHealth).                                      *)
(***************************************************************************)
THEOREM AvailabilityIsTrue == MonitorSpec => []AvailableIsTrue
<1>1. ASSUME AvailableInv, Window > 0
      PROVE  AvailableIsTrue
  <2> DEFINE last == monitor.last
             lasting == IF StaleAfter > 0 THEN StaleAfter ELSE EndOfStream
             available == CorrectionHealth(monitor, clock).correction_available
             lately(i, d) == log[i].session = session /\ log[i].at # None /\ clock - log[i].at <= d
  <2>1. available <=>
           /\ last # None /\ last <= clock /\ clock - last <= lasting
           /\ monitor.valid > 0
           /\ \E t \in Msm : InWindow(monitor.semantic[t], clock)
           /\ monitor.semantic["1005"].count > 0
    <3>1. last # None => last \in Nat
      BY <1>1, InstantsAre DEF AvailableInv, StreamInv, MonitorTyped, IsMonitor
    <3>2. clock \in Nat /\ clock <= EndOfStream /\ EndOfStream \in Nat
      BY <1>1, DurationsAssumption DEF AvailableInv, StreamInv, MonitorTyped, Instants
    <3>3. last # None => clock - last <= EndOfStream
      BY <3>1, <3>2
    <3>4. last # None => ((StaleAfter > 0 => clock - last <= StaleAfter) <=> clock - last <= lasting)
      BY <3>3
    <3> QED
      BY <1>1, <3>4, HealthSays
  <2>2. monitor.semantic["1005"].count > 0 <=> \E i \in Own : Heard(i).type = "1005"
    BY <1>1 DEF AvailableInv, BaseKnown, Bases
  <2>3. Own \subseteq DOMAIN log /\ DOMAIN log \subseteq Int
    <3>1. DOMAIN log = 1..Len(log)
      BY <1>1 DEF AvailableInv, StreamInv, LogTyped, IsHistory
    <3> QED
      BY <3>1 DEF Own, AcceptedIn
  <2>4. clock \in Int /\ Window \in Int /\ lasting \in Int
    BY <1>1, InstantsAre, DurationsAssumption DEF AvailableInv, StreamInv, MonitorTyped
  <2> HIDE DEF lasting
  <2>5. \A i \in DOMAIN log : log[i].at # None => log[i].at \in Int /\ log[i].at <= clock
    <3>1. \A i \in DOMAIN log : log[i].at # None => log[i].at \in 0..clock
      BY <1>1 DEF AvailableInv, StreamInv, LogTyped
    <3> QED
      BY <2>4, <3>1
  <2>6. /\ last # None =>
             \E i \in DOMAIN log : log[i].session = session /\ log[i].at = last
        /\ \A i \in Ours, j \in DOMAIN log : j >= i /\ log[j].at # None =>
             last # None /\ log[j].at <= last
    BY <1>1 DEF AvailableInv, LastKnown
  <2>7. \A t \in Msm :
          LET s == monitor.semantic[t]
          IN  /\ s.at # None =>
                   s.count > 0 /\ \E i \in Ours : Heard(i).type = t /\ log[i].at = s.at
              /\ \A i \in Ours : Heard(i).type = t /\ log[i].at # None =>
                   s.at # None /\ log[i].at <= s.at
              /\ s.count > 0 => monitor.valid > 0
    BY <1>1 DEF AvailableInv, MsmKnown
  <2>8. \A i, d : Within(i, d) <=> lately(i, d)
    BY DEF Within
  <2>9. ASSUME available
        PROVE  /\ \E i \in Own : Heard(i).type \in Msm /\ lately(i, Window)
               /\ \E i \in DOMAIN log : lately(i, lasting)
    <3>1. PICK t \in Msm : InWindow(monitor.semantic[t], clock)
      BY <2>1, <2>9
    <3>2. PICK i \in Ours : Heard(i).type = t /\ log[i].at = monitor.semantic[t].at
      BY <1>1, <2>7, <3>1 DEF InWindow
    <3>3. i \in Own /\ log[i].session = session
      BY DEF Ours
    <3>4. log[i].at # None /\ log[i].at >= clock - Window
      BY <1>1, <3>1, <3>2 DEF InWindow
    <3>5. clock - log[i].at <= Window
      BY <2>3, <2>4, <2>5, <3>3, <3>4
    <3>6. last # None /\ clock - last <= lasting
      BY <2>1, <2>9
    <3>7. PICK j \in DOMAIN log : log[j].session = session /\ log[j].at = last
      BY <2>6, <3>6
    <3> QED
      BY <3>2, <3>3, <3>4, <3>5, <3>6, <3>7
  <2>10. ASSUME NEW i \in Own, Heard(i).type \in Msm, lately(i, Window),
                NEW j \in DOMAIN log, lately(j, lasting)
         PROVE  /\ last # None /\ last <= clock /\ clock - last <= lasting
                /\ monitor.valid > 0
                /\ InWindow(monitor.semantic[Heard(i).type], clock)
    <3> DEFINE s == monitor.semantic[Heard(i).type]
    <3>1. i \in Ours /\ i \in DOMAIN log
      BY <2>3, <2>10 DEF Ours
    <3>2. s.at # None /\ log[i].at <= s.at
      BY <2>7, <2>10, <3>1
    <3>3. PICK k \in Ours : log[k].at = s.at
      BY <2>7, <2>10, <3>2
    <3>4. s.count > 0 /\ monitor.valid > 0
      BY <2>7, <2>10, <3>2
    <3>5. k \in DOMAIN log
      BY <2>3 DEF Ours
    <3>6. s.at \in Int /\ s.at <= clock
      BY <2>5, <3>2, <3>3, <3>5
    <3>7. log[i].at \in Int /\ clock - log[i].at <= Window
      BY <2>5, <2>10, <3>1
    <3> HIDE DEF s
    <3>8. s.at >= clock - Window
      BY <2>4, <3>2, <3>6, <3>7
    <3>9. InWindow(s, clock)
      BY <3>2, <3>4, <3>6, <3>8 DEF InWindow
    <3>10. last # None /\ log[i].at <= last
      BY <2>3, <2>6, <2>10, <3>1
    <3>11. PICK l \in DOMAIN log : log[l].at = last
      BY <2>6, <3>10
    <3>12. last \in Int /\ last <= clock
      BY <2>5, <3>10, <3>11
    <3>13. log[j].at \in Int /\ clock - log[j].at <= lasting
      BY <2>5, <2>10
    <3>14. log[j].at <= last
      <4>1. CASE j >= i
        BY <2>6, <2>10, <3>1, <4>1
      <4>2. CASE j <= i
        <5>1. log[j].at <= log[i].at
          BY <1>1, <2>10, <3>1, <4>2 DEF AvailableInv, StreamInv, LogTyped
        <5> HIDE DEF last
        <5> QED
          BY <3>7, <3>10, <3>12, <3>13, <5>1
      <4> QED
        BY <2>3, <3>1, <4>1, <4>2
    <3>15. clock - last <= lasting
      <4> HIDE DEF last
      <4> QED
        BY <2>4, <3>12, <3>13, <3>14
    <3> QED
      BY <3>4, <3>9, <3>10, <3>12, <3>15 DEF s
  <2> HIDE DEF last, available, lately
  <2>11. available <=>
           /\ \E i \in Own : Heard(i).type \in Msm /\ lately(i, Window)
           /\ \E i \in Own : Heard(i).type = "1005"
           /\ \E i \in DOMAIN log : lately(i, lasting)
    BY <2>1, <2>2, <2>9, <2>10
  <2> QED
    BY <2>8, <2>11 DEF AvailableIsTrue, available, lasting
<1>2. AvailableInv => AvailableIsTrue
  BY <1>1 DEF AvailableIsTrue
<1> QED
  BY <1>2, AvailableInit, AvailableStep, PTL DEF MonitorSpec

-----------------------------------------------------------------------------
\* A sum over a finite set: MapThenSumSet adds what it takes one by one.

\* Every set of numbers has a least one.
LEMMA LessWellFounded == IsWellFoundedOn({p \in Nat \X Nat : p[1] < p[2]}, Nat)
BY NatLessThanWellFounded DEF OpToRel

LEMMA Least ==
  ASSUME NEW S, S \subseteq Nat, S # {}
  PROVE  \E m \in S : \A x \in S : m <= x
<1> DEFINE R == {p \in Nat \X Nat : p[1] < p[2]}
<1>1. IsWellFoundedOn(R, Nat)
  BY LessWellFounded
<1> HIDE DEF R
<1>2. PICK m \in S : \A x \in S : ~(<<x, m>> \in R)
  BY <1>1, WFMin
<1>3. ASSUME NEW x \in S PROVE m <= x
  <2>1. x \in Nat /\ m \in Nat
    OBVIOUS
  <2>2. ~(<<x, m>> \in R)
    BY <1>2
  <2> QED
    BY <2>1, <2>2 DEF R
<1> QED
  BY <1>3

\* The elements whose keys are in s.
Keyed(K, key, s) == {i \in K : key[i] \in s}

\* bag has as many of each t as have the key t.
Tallies(bag, K, key, S) ==
  IsFiniteSet(K) /\ \A t \in S : bag[t] = Cardinality(Keyed(K, key, {t}))

Sizes(K, key, S) == [s \in SUBSET S |-> Cardinality(Keyed(K, key, s))]

\* What is left of a set when one of its elements is taken.
SumFrom(bag, h, S) ==
  [s \in SUBSET S |->
     IF s = {} THEN 0
     ELSE bag[CHOOSE x \in s : TRUE] + h[s \ {CHOOSE x \in s : TRUE}]]

LEMMA CountIsSum ==
  ASSUME NEW bag, NEW end, NEW duration
  PROVE  LET S == (end - duration)..end \cap Instants
         IN  CountInWindow(bag, end, duration) = (CHOOSE h : h = SumFrom(bag, h, S))[S]
BY DEF CountInWindow, MapThenSumSet, MapThenFoldSet, SumFrom


LEMMA KeyedApart ==
  ASSUME NEW K, IsFiniteSet(K), NEW key
  PROVE  /\ Cardinality(Keyed(K, key, {})) = 0
         /\ \A s : \A x \in s :
              Cardinality(Keyed(K, key, s)) =
                Cardinality(Keyed(K, key, {x})) + Cardinality(Keyed(K, key, s \ {x}))
<1>1. Keyed(K, key, {}) = {}
  BY DEF Keyed
<1>2. ASSUME NEW s, NEW x \in s
      PROVE  Cardinality(Keyed(K, key, s)) =
               Cardinality(Keyed(K, key, {x})) + Cardinality(Keyed(K, key, s \ {x}))
  <2> DEFINE one == Keyed(K, key, {x})
             rest == Keyed(K, key, s \ {x})
  <2>1. /\ Keyed(K, key, s) = one \cup rest /\ one \cap rest = {}
        /\ one \in SUBSET K /\ rest \in SUBSET K
    BY DEF Keyed
  <2> HIDE DEF one, rest
  <2>2. /\ IsFiniteSet(one) /\ Cardinality(one) \in Nat
        /\ IsFiniteSet(rest) /\ Cardinality(rest) \in Nat
    BY <2>1, FS_Subset, FS_CardinalityType
  <2>3. Cardinality(one \cup rest) =
          Cardinality(one) + Cardinality(rest) - Cardinality(one \cap rest)
    BY <2>2, FS_Union, Zenon
  <2>4. Cardinality(one \cap rest) = 0
    BY <2>1, FS_EmptySet
  <2>5. Cardinality(Keyed(K, key, s)) = Cardinality(one) + Cardinality(rest)
    BY <2>1, <2>2, <2>3, <2>4
  <2> QED
    BY <2>5 DEF one, rest
<1> QED
  BY <1>1, <1>2, FS_EmptySet

\* A sum over the keys of as many as have the key: there is one, and one only.
LEMMA SumExists ==
  ASSUME NEW S, NEW K, NEW key, NEW bag, Tallies(bag, K, key, S)
  PROVE  Sizes(K, key, S) = SumFrom(bag, Sizes(K, key, S), S)
<1> DEFINE g == Sizes(K, key, S)
<1> USE DEF Sizes, Tallies
<1>1. ASSUME NEW s \in SUBSET S
      PROVE  g[s] = IF s = {} THEN 0
                    ELSE bag[CHOOSE x \in s : TRUE] + g[s \ {CHOOSE x \in s : TRUE}]
  <2>1. CASE s = {}
    BY <2>1, KeyedApart
  <2>2. CASE s # {}
    <3> DEFINE x == CHOOSE x \in s : TRUE
    <3>1. x \in s
      BY <2>2
    <3> HIDE DEF x
    <3>2. bag[x] = Cardinality(Keyed(K, key, {x}))
      BY <3>1
    <3>3. g[s \ {x}] = Cardinality(Keyed(K, key, s \ {x}))
      OBVIOUS
    <3>4. g[s] = bag[x] + g[s \ {x}]
      BY <3>1, <3>2, <3>3, KeyedApart
    <3> HIDE DEF g
    <3> QED
      BY <2>2, <3>4 DEF x
  <2> QED
    BY <2>1, <2>2
<1>2. g = [s \in SUBSET S |-> g[s]]
  OBVIOUS
<1> HIDE DEF g
<1>3. g = SumFrom(bag, g, S)
  BY <1>1, <1>2 DEF SumFrom
<1> QED
  BY <1>3 DEF g

LEMMA SumUnique ==
  ASSUME NEW S, IsFiniteSet(S), NEW K, NEW key, NEW bag, Tallies(bag, K, key, S),
         NEW h, h = SumFrom(bag, h, S)
  PROVE  h[S] = Cardinality(Keyed(K, key, S))
<1> DEFINE wrong == {s \in SUBSET S : h[s] # Cardinality(Keyed(K, key, s))}
           sizes == {Cardinality(s) : s \in wrong}
<1> USE DEF Tallies
<1>1. ASSUME NEW s \in SUBSET S
      PROVE  IsFiniteSet(s) /\ Cardinality(s) \in Nat
  BY FS_Subset, FS_CardinalityType
<1>2. ASSUME NEW s \in SUBSET S,
             \A r \in SUBSET S :
               Cardinality(r) < Cardinality(s) => h[r] = Cardinality(Keyed(K, key, r))
      PROVE  h[s] = Cardinality(Keyed(K, key, s))
  <2>1. h[s] = IF s = {} THEN 0
               ELSE bag[CHOOSE x \in s : TRUE] + h[s \ {CHOOSE x \in s : TRUE}]
    BY DEF SumFrom
  <2>2. CASE s = {}
    BY <2>1, <2>2, KeyedApart
  <2>3. CASE s # {}
    <3> DEFINE x == CHOOSE x \in s : TRUE
    <3>1. x \in s
      BY <2>3
    <3>2. h[s] = bag[x] + h[s \ {x}]
      BY <2>1, <2>3
    <3> HIDE DEF x
    <3>3. s \ {x} \in SUBSET S /\ Cardinality(s \ {x}) = Cardinality(s) - 1
      BY <1>1, <3>1, FS_RemoveElement
    <3>4. h[s \ {x}] = Cardinality(Keyed(K, key, s \ {x}))
      BY <1>1, <1>2, <3>3
    <3>5. bag[x] = Cardinality(Keyed(K, key, {x}))
      BY <3>1
    <3> QED
      BY <3>1, <3>2, <3>4, <3>5, KeyedApart
  <2> QED
    BY <2>2, <2>3
<1>3. wrong = {}
  <2> SUFFICES ASSUME wrong # {}
               PROVE  FALSE
    OBVIOUS
  <2>1. sizes \subseteq Nat /\ sizes # {}
    BY <1>1
  <2> HIDE DEF wrong
  <2>2. PICK k \in sizes : \A j \in sizes : k <= j
    BY <2>1, Least
  <2>3. PICK s \in wrong : k = Cardinality(s)
    BY <2>2
  <2>4. s \in SUBSET S /\ h[s] # Cardinality(Keyed(K, key, s))
    BY <2>3 DEF wrong
  <2>5. ASSUME NEW r \in SUBSET S, Cardinality(r) < Cardinality(s)
        PROVE  h[r] = Cardinality(Keyed(K, key, r))
    <3> SUFFICES ASSUME r \in wrong
                 PROVE  FALSE
      BY DEF wrong
    <3>1. k <= Cardinality(r)
      BY <2>2
    <3> QED
      BY <1>1, <2>3, <2>4, <2>5, <3>1
  <2> QED
    BY <1>2, <2>4, <2>5
<1> QED
  BY <1>3

LEMMA CountedInWindow ==
  ASSUME NEW end, NEW duration, NEW K, NEW key, NEW bag,
         IsFiniteSet((end - duration)..end \cap Instants),
         Tallies(bag, K, key, (end - duration)..end \cap Instants)
  PROVE  CountInWindow(bag, end, duration) =
           Cardinality(Keyed(K, key, (end - duration)..end \cap Instants))
<1> DEFINE S == (end - duration)..end \cap Instants
           h == CHOOSE h : h = SumFrom(bag, h, S)
<1>1. CountInWindow(bag, end, duration) = h[S]
  BY CountIsSum
<1>2. IsFiniteSet(S) /\ Tallies(bag, K, key, S)
  OBVIOUS
<1> HIDE DEF S
<1>3. Sizes(K, key, S) = SumFrom(bag, Sizes(K, key, S), S)
  BY <1>2, SumExists
<1>4. h = SumFrom(bag, h, S)
  BY <1>3
<1> HIDE DEF h
<1>5. h[S] = Cardinality(Keyed(K, key, S))
  BY <1>2, <1>4, SumUnique
<1> QED
  BY <1>1, <1>5 DEF S

-----------------------------------------------------------------------------
\* The times of the frames, and the rates that are counted from them.

\* A bag of times, none of them to come.
IsBag(bag) == bag \in [Instants -> Nat] /\ \A t \in Instants : bag[t] > 0 => t <= clock

\* The times that no retention forgets yet.
Recent == {t \in Instants : t >= clock - Retention}

LEMMA NoTimesIsBag == IsBag(NoTimes)
BY DEF IsBag, NoTimes

\* The retention never takes a time that a rate counts.
LEMMA AppendedSays ==
  ASSUME NEW bag, IsBag(bag), clock \in Instants, NEW at \in {None, clock}
  PROVE  /\ IsBag(Appended(bag, at))
         /\ \A t \in Recent : Appended(bag, at)[t] = IF t = at THEN bag[t] + 1 ELSE bag[t]
<1>0. clock \in Nat /\ Instants \subseteq Nat /\ None \notin Instants /\ Retention \in Nat
  BY InstantsAre, DurationsAssumption
<1>1. CASE at = None
  BY <1>0, <1>1 DEF Appended, Recent
<1>2. CASE at = clock
  <2> DEFINE all == [bag EXCEPT ![at] = @ + 1]
             top(t) == all[t] > 0 /\ \A u \in Instants : all[u] > 0 => u <= t
             latest == CHOOSE t \in Instants : top(t)
  <2>1. at # None /\ at \in Instants
    BY <1>0, <1>2
  <2>2. Appended(bag, at) = [t \in Instants |-> IF t < latest - Retention THEN 0 ELSE all[t]]
    BY <2>1 DEF Appended
  <2>3. /\ all \in [Instants -> Nat]
        /\ \A t \in Instants : all[t] = IF t = at THEN bag[t] + 1 ELSE bag[t]
    BY <2>1 DEF IsBag
  <2> HIDE DEF all
  <2>4. all[clock] > 0 /\ \A t \in Instants : all[t] > 0 => t <= clock
    <3>1. all[clock] = bag[clock] + 1 /\ bag[clock] \in Nat
      BY <1>2, <2>1, <2>3 DEF IsBag
    <3>2. ASSUME NEW t \in Instants, all[t] > 0
          PROVE  t <= clock
      BY <1>0, <1>2, <2>3, <3>2 DEF IsBag
    <3> QED
      BY <3>1, <3>2
  <2>5. top(clock)
    BY <2>4
  <2>6. latest \in Instants /\ top(latest)
    BY <2>5
  <2> HIDE DEF latest
  <2>7. latest = clock
    BY <1>0, <2>4, <2>6
  <2>8. \A t \in Instants :
          Appended(bag, at)[t] = IF t < clock - Retention THEN 0 ELSE all[t]
    BY <2>2, <2>7
  <2>9. Appended(bag, at) \in [Instants -> Nat]
    BY <2>2, <2>3
  <2>10. IsBag(Appended(bag, at))
    BY <2>4, <2>8, <2>9 DEF IsBag
  <2>11. ASSUME NEW t \in Recent
         PROVE  Appended(bag, at)[t] = IF t = at THEN bag[t] + 1 ELSE bag[t]
    <3>1. t \in Instants /\ ~(t < clock - Retention)
      BY <1>0 DEF Recent
    <3> QED
      BY <2>3, <2>8, <3>1
  <2> QED
    BY <2>10, <2>11
<1> QED
  BY <1>1, <1>2

\* One more arrival, in the bag and among what was heard.
LEMMA TallyGrows ==
  ASSUME NEW bag, IsBag(bag), clock \in Instants, NEW at \in {None, clock},
         NEW K, NEW key, Tallies(bag, K, key, Recent),
         NEW n, n \notin K, NEW more, more[n] = at, \A i \in K : more[i] = key[i]
  PROVE  Tallies(Appended(bag, at), K \cup {n}, more, Recent)
<1>1. IsFiniteSet(K \cup {n})
  BY FS_AddElement DEF Tallies
<1>2. ASSUME NEW t \in Recent
      PROVE  Appended(bag, at)[t] = Cardinality(Keyed(K \cup {n}, more, {t}))
  <2>1. Appended(bag, at)[t] = IF t = at THEN bag[t] + 1 ELSE bag[t]
    BY AppendedSays
  <2>2. bag[t] = Cardinality(Keyed(K, key, {t}))
    BY DEF Tallies
  <2>3. Keyed(K \cup {n}, more, {t}) =
          IF t = at THEN Keyed(K, key, {t}) \cup {n} ELSE Keyed(K, key, {t})
    BY DEF Keyed
  <2>4. IsFiniteSet(Keyed(K, key, {t})) /\ n \notin Keyed(K, key, {t})
    <3>1. Keyed(K, key, {t}) \in SUBSET K /\ IsFiniteSet(K)
      BY DEF Keyed, Tallies
    <3> QED
      BY <3>1, FS_Subset
  <2>5. Cardinality(Keyed(K, key, {t}) \cup {n}) = Cardinality(Keyed(K, key, {t})) + 1
    BY <2>4, FS_AddElement
  <2> QED
    BY <2>1, <2>2, <2>3, <2>5
<1> QED
  BY <1>1, <1>2 DEF Tallies

\* The same arrivals, over no more times.
LEMMA TallyKept ==
  ASSUME NEW bag, NEW K, NEW key, NEW S, Tallies(bag, K, key, S),
         NEW more, \A i \in K : more[i] = key[i], NEW T, T \subseteq S
  PROVE  Tallies(bag, K, more, T)
<1>1. \A t : Keyed(K, more, {t}) = Keyed(K, key, {t})
  BY DEF Keyed
<1> QED
  BY <1>1 DEF Tallies

LEMMA NoneTallied ==
  ASSUME NEW key, NEW S, S \subseteq Instants
  PROVE  Tallies(NoTimes, {}, key, S)
<1>1. \A t : Keyed({}, key, {t}) = {}
  BY DEF Keyed
<1> QED
  BY <1>1, FS_EmptySet DEF Tallies, NoTimes

\* Every station that the monitor knows was heard from this source.
HeardFrom(l, s) == \E i \in DOMAIN l : l[i].frame.station = s

StationsHeard ==
  /\ monitor.station # None => HeardFrom(log, monitor.station)
  /\ \A t \in Decoded : monitor.held[t] # None => HeardFrom(log, monitor.held[t].station)

LEMMA ResetKeeps ==
  ASSUME NEW m
  PROVE  LET n == ResetDynamicState(m)
         IN  /\ n.station \in {None, m.station}
             /\ \A t \in Decoded : n.held[t] \in {None, m.held[t]}
             /\ n.totalTimes = NoTimes /\ n.times = [t \in Types |-> NoTimes]
<1> DEFINE n == ResetDynamicState(m)
<1>1. CASE n = Fresh
  BY <1>1, FreshSays, FreshHolds
<1>2. CASE n # Fresh
  <2>1. /\ n.station = m.station
        /\ n.held = [t \in Decoded |-> IF t \in Static THEN m.held[t] ELSE None]
        /\ n.totalTimes = NoTimes /\ n.times = [t \in Types |-> NoTimes]
    BY <1>2, ResetSays
  <2> HIDE DEF n
  <2>2. \A t \in Decoded : n.held[t] \in {None, m.held[t]}
    BY <2>1
  <2> QED
    BY <2>1, <2>2 DEF n
<1> QED
  BY <1>1, <1>2

LEMMA StationsHeardStep ==
  StreamInv /\ StationsHeard /\ [MonitorNext]_monitorVars => StationsHeard'
<1> SUFFICES ASSUME StreamInv, StationsHeard, [MonitorNext]_monitorVars
             PROVE  StationsHeard'
  OBVIOUS
<1>1. ASSUME NEW f, NEW at, HearsOne(f, at)
      PROVE  StationsHeard'
  <2> DEFINE b == Base(monitor, f)
             rec == Received(f, at, b.held[f.type])
  <2>1. /\ IsMonitor(b)
        /\ monitor'.station = OwnerAfter(f)
        /\ monitor'.held = IF TakenNow(f) THEN [b.held EXCEPT ![f.type] = rec] ELSE b.held
    BY <1>1, HeardSays DEF StreamInv
  <2>2. rec.station = f.station
    BY DEF Received
  <2>3. b.held \in [Decoded -> Receipts \cup {None}]
    BY <2>1 DEF IsMonitor
  <2>4. \A t \in Decoded : b.held[t] # None => HeardFrom(log, b.held[t].station)
    BY FreshHolds DEF Base, StationsHeard
  <2> HIDE DEF b, rec
  <2>5. HeardFrom(log', f.station) /\ \A s : HeardFrom(log, s) => HeardFrom(log', s)
    <3>1. /\ DOMAIN log = 1..Len(log) /\ DOMAIN log' = 1..(Len(log) + 1) /\ Len(log) \in Nat
          /\ \A i \in 1..Len(log) : log'[i] = log[i]
          /\ log'[Len(log) + 1].frame = f
      BY <1>1, LogGrows DEF StreamInv
    <3>2. Len(log) + 1 \in DOMAIN log' /\ DOMAIN log \subseteq DOMAIN log'
      BY <3>1
    <3> QED
      BY <3>1, <3>2 DEF HeardFrom
  <2>6. monitor'.station # None => HeardFrom(log', monitor'.station)
    BY <2>1, <2>5 DEF OwnerAfter, StationsHeard
  <2>7. ASSUME NEW t \in Decoded, monitor'.held[t] # None
        PROVE  HeardFrom(log', monitor'.held[t].station)
    <3>1. CASE TakenNow(f) /\ t = f.type
      BY <2>1, <2>2, <2>3, <2>5, <3>1
    <3>2. CASE ~(TakenNow(f) /\ t = f.type)
      <4>1. monitor'.held[t] = b.held[t]
        BY <2>1, <2>3, <3>2
      <4> QED
        BY <2>4, <2>5, <2>7, <4>1
    <3> QED
      BY <3>1, <3>2
  <2> QED
    BY <2>6, <2>7 DEF StationsHeard
<1>2. CASE NewSession
  <2>1. /\ monitor'.station \in {None, monitor.station} /\ log' = log
        /\ \A t \in Decoded : monitor'.held[t] \in {None, monitor.held[t]}
    BY <1>2, ResetKeeps DEF NewSession
  <2> QED
    BY <2>1 DEF StationsHeard
<1>3. CASE NewSource
  BY <1>3, FreshHolds DEF NewSource, StationsHeard
<1>4. CASE StreamTime \/ UNCHANGED monitorVars
  BY <1>4 DEF StreamTime, monitorVars, StationsHeard
<1> QED
  BY <1>1, <1>2, <1>3, <1>4, MonitorSteps

BagsTyped ==
  /\ IsBag(monitor.totalTimes)
  /\ monitor.times \in [Types -> [Instants -> Nat]]
  /\ \A t \in Types : IsBag(monitor.times[t])

LEMMA FreshBags ==
  /\ IsBag(Fresh.totalTimes)
  /\ Fresh.times \in [Types -> [Instants -> Nat]]
  /\ \A t \in Types : IsBag(Fresh.times[t])
<1>1. NoTimes \in [Instants -> Nat]
  BY NoTimesIsBag DEF IsBag
<1> QED
  BY <1>1, NoTimesIsBag, FreshSays

LEMMA BagsHeard ==
  ASSUME StreamInv, BagsTyped, NEW f, NEW at, HearsOne(f, at)
  PROVE  LET b == Base(monitor, f)
         IN  /\ BagsTyped'
             /\ monitor'.totalTimes = Appended(b.totalTimes, at)
             /\ \A t \in Types : monitor'.times[t] =
                  IF Typed(f) /\ t = f.type THEN Appended(b.times[t], at) ELSE b.times[t]
<1> DEFINE b == Base(monitor, f)
<1>1. /\ monitor'.totalTimes = Appended(b.totalTimes, at)
      /\ monitor'.times = IF Typed(f) THEN TimesWith(b.times, f.type, at) ELSE b.times
  BY HeardSays DEF StreamInv
<1>2. /\ IsBag(b.totalTimes)
      /\ b.times \in [Types -> [Instants -> Nat]]
      /\ \A t \in Types : IsBag(b.times[t])
  BY FreshBags DEF Base, BagsTyped
<1>3. /\ f \in Frames /\ f.type \in Types /\ at \in {None, clock} /\ clock' = clock
      /\ clock \in Instants
  BY FramesAssumption DEF HearsOne, StreamInv, MonitorTyped
<1> HIDE DEF b
<1>4. TimesWith(b.times, f.type, at) =
        [b.times EXCEPT ![f.type] = Appended(b.times[f.type], at)]
  BY DEF TimesWith
<1>5. IsBag(Appended(b.totalTimes, at))
  BY <1>2, <1>3, AppendedSays
<1>6. IsBag(Appended(b.times[f.type], at))
  BY <1>2, <1>3, AppendedSays
<1>7. Appended(b.times[f.type], at) \in [Instants -> Nat]
  BY <1>6 DEF IsBag
<1>8. \A t \in Types : monitor'.times[t] =
        IF Typed(f) /\ t = f.type THEN Appended(b.times[t], at) ELSE b.times[t]
  BY <1>1, <1>2, <1>3, <1>4
<1>9. monitor'.times \in [Types -> [Instants -> Nat]]
  BY <1>1, <1>2, <1>3, <1>4, <1>7
<1>10. \A t \in Types : IsBag(monitor'.times[t])
  BY <1>2, <1>6, <1>8
<1>11. BagsTyped'
  <2>1. IsBag(monitor'.totalTimes)
    BY <1>1, <1>5
  <2>2. \A bag : IsBag(bag) <=>
          bag \in [Instants -> Nat] /\ \A t \in Instants : bag[t] > 0 => t <= clock'
    BY <1>3 DEF IsBag
  <2> QED
    BY <1>9, <1>10, <2>1, <2>2 DEF BagsTyped, IsBag
<1> QED
  BY <1>1, <1>8, <1>11 DEF b

LEMMA BagsTypedStep == StreamInv /\ BagsTyped /\ [MonitorNext]_monitorVars => BagsTyped'
<1> SUFFICES ASSUME StreamInv, BagsTyped, [MonitorNext]_monitorVars
             PROVE  BagsTyped'
  OBVIOUS
<1>1. ASSUME NEW f, NEW at, HearsOne(f, at)
      PROVE  BagsTyped'
  BY <1>1, BagsHeard
<1>2. CASE NewSession \/ NewSource
  <2>1. /\ monitor'.totalTimes = Fresh.totalTimes /\ monitor'.times = Fresh.times
        /\ clock' = clock
    BY <1>2, ResetKeeps, FreshSays DEF NewSession, NewSource
  <2> QED
    BY <2>1, FreshBags DEF BagsTyped, IsBag
<1>3. CASE StreamTime
  <2>1. monitor' = monitor /\ clock' = clock + 1 /\ clock \in Nat /\ Instants \subseteq Nat
    BY <1>3, InstantsAre DEF StreamTime, StreamInv, MonitorTyped
  <2>2. \A t \in Instants : t <= clock => t <= clock'
    BY <2>1
  <2> QED
    BY <2>1, <2>2 DEF BagsTyped, IsBag
<1>4. CASE UNCHANGED monitorVars
  BY <1>4 DEF monitorVars, BagsTyped, IsBag
<1> QED
  BY <1>1, <1>2, <1>3, <1>4, MonitorSteps

\* The frames of this connection, those of a type among them, and when they came.
Lately == {i \in DOMAIN log : log[i].session = session}
LatelyOf(type) == {i \in Lately : Typed(Heard(i)) /\ Heard(i).type = type}
Arrivals == [i \in DOMAIN log |-> log[i].at]

OneHeard == \A i, j \in DOMAIN log : Heard(i).station = Heard(j).station

\* As long as one station is heard, nothing is forgotten but what is too old.
RatesTallied ==
  OneHeard =>
    /\ Tallies(monitor.totalTimes, Lately, Arrivals, Recent)
    /\ \A t \in Types : Tallies(monitor.times[t], LatelyOf(t), Arrivals, Recent)

\* A stream of one station is never foreign to what is known.
LEMMA NeverForeign ==
  ASSUME StreamInv, StationsHeard, NEW f, NEW at, HearsOne(f, at), OneHeard'
  PROVE  OneHeard /\ Base(monitor, f) = monitor
<1> DEFINE n == Len(log)
<1>1. /\ n \in Nat /\ DOMAIN log = 1..n /\ DOMAIN log' = 1..(n + 1)
      /\ \A i \in 1..n : log'[i] = log[i]
      /\ log'[n + 1].frame = f
  BY LogGrows DEF StreamInv
<1> HIDE DEF n
<1>2. 1..n \subseteq 1..(n + 1) /\ n + 1 \in 1..(n + 1)
  BY <1>1
<1>3. \A i, j \in 1..(n + 1) : log'[i].frame.station = log'[j].frame.station
  BY <1>1 DEF OneHeard, Heard
<1>4. \A i \in DOMAIN log : log[i].frame.station = f.station
  BY <1>1, <1>2, <1>3
<1>5. \A s : HeardFrom(log, s) => s = f.station
  BY <1>4 DEF HeardFrom
<1>6. ~Foreign(monitor, f.station)
  BY <1>5 DEF Foreign, StationsHeard
<1> QED
  BY <1>4, <1>6 DEF OneHeard, Heard, Base

LEMMA LatelyGrows ==
  ASSUME StreamInv, NEW f, NEW at, HearsOne(f, at)
  PROVE  LET n == Len(log)
         IN  /\ n + 1 \notin Lately
             /\ Lately' = Lately \cup {n + 1}
             /\ \A t : LatelyOf(t)' =
                  IF Typed(f) /\ t = f.type THEN LatelyOf(t) \cup {n + 1} ELSE LatelyOf(t)
             /\ Arrivals'[n + 1] = at
             /\ \A i \in Lately : Arrivals'[i] = Arrivals[i]
<1> DEFINE n == Len(log)
           g == log'
<1>1. /\ n \in Nat /\ DOMAIN log = 1..n /\ DOMAIN g = 1..(n + 1)
      /\ \A i \in 1..n : g[i] = log[i]
      /\ g[n + 1].frame = f /\ g[n + 1].at = at /\ g[n + 1].session = session
  BY LogGrows DEF StreamInv
<1>2. /\ Lately' = {i \in DOMAIN g : g[i].session = session}
      /\ \A t : LatelyOf(t)' = {i \in Lately' : Typed(g[i].frame) /\ g[i].frame.type = t}
      /\ Arrivals' = [i \in DOMAIN g |-> g[i].at]
  BY DEF HearsOne, Lately, LatelyOf, Arrivals, Heard
<1>3. /\ Lately = {i \in DOMAIN log : log[i].session = session}
      /\ \A t : LatelyOf(t) = {i \in Lately : Typed(log[i].frame) /\ log[i].frame.type = t}
      /\ Arrivals = [i \in DOMAIN log |-> log[i].at]
  BY DEF Lately, LatelyOf, Arrivals, Heard
<1> HIDE DEF g, n
<1>4. 1..(n + 1) = 1..n \cup {n + 1} /\ n + 1 \notin 1..n
  BY <1>1
<1>5. Lately \subseteq 1..n /\ n + 1 \notin Lately
  BY <1>1, <1>3, <1>4
<1>6. Lately' = Lately \cup {n + 1}
  BY <1>1, <1>2, <1>3, <1>4
<1>7. \A t : LatelyOf(t)' =
        IF Typed(f) /\ t = f.type THEN LatelyOf(t) \cup {n + 1} ELSE LatelyOf(t)
  BY <1>1, <1>2, <1>3, <1>5, <1>6
<1>8. Arrivals'[n + 1] = at /\ \A i \in Lately : Arrivals'[i] = Arrivals[i]
  BY <1>1, <1>2, <1>3, <1>4, <1>5
<1> QED
  BY <1>5, <1>6, <1>7, <1>8 DEF n

LEMMA RatesHeard ==
  ASSUME StreamInv, StationsHeard, BagsTyped, RatesTallied, NEW f, NEW at, HearsOne(f, at)
  PROVE  RatesTallied'
<1> SUFFICES ASSUME OneHeard'
             PROVE  /\ Tallies(monitor'.totalTimes, Lately', Arrivals', Recent')
                    /\ \A t \in Types :
                         Tallies(monitor'.times[t], LatelyOf(t)', Arrivals', Recent')
  BY DEF RatesTallied
<1>1. OneHeard /\ Base(monitor, f) = monitor
  BY NeverForeign
<1>2. /\ Tallies(monitor.totalTimes, Lately, Arrivals, Recent)
      /\ \A t \in Types : Tallies(monitor.times[t], LatelyOf(t), Arrivals, Recent)
  BY <1>1 DEF RatesTallied
<1>3. /\ monitor'.totalTimes = Appended(monitor.totalTimes, at)
      /\ \A t \in Types : monitor'.times[t] =
           IF Typed(f) /\ t = f.type THEN Appended(monitor.times[t], at) ELSE monitor.times[t]
  BY <1>1, BagsHeard
<1> DEFINE n == Len(log) + 1
<1>4. /\ n \notin Lately
      /\ Lately' = Lately \cup {n}
      /\ \A t : LatelyOf(t)' =
           IF Typed(f) /\ t = f.type THEN LatelyOf(t) \cup {n} ELSE LatelyOf(t)
      /\ Arrivals'[n] = at
      /\ \A i \in Lately : Arrivals'[i] = Arrivals[i]
  BY LatelyGrows
<1> HIDE DEF n
<1>5. Recent' = Recent /\ clock \in Instants /\ at \in {None, clock}
  BY DEF HearsOne, Recent, StreamInv, MonitorTyped
<1>6. IsBag(monitor.totalTimes) /\ \A t \in Types : IsBag(monitor.times[t])
  BY DEF BagsTyped
<1>7. \A t : LatelyOf(t) \subseteq Lately
  BY DEF LatelyOf
<1>8. Tallies(Appended(monitor.totalTimes, at), Lately \cup {n}, Arrivals', Recent)
  BY <1>2, <1>4, <1>5, <1>6, TallyGrows
<1>9. ASSUME NEW t \in Types
      PROVE  Tallies(monitor'.times[t], LatelyOf(t)', Arrivals', Recent)
  <2>1. /\ Tallies(monitor.times[t], LatelyOf(t), Arrivals, Recent)
        /\ IsBag(monitor.times[t]) /\ n \notin LatelyOf(t)
        /\ \A i \in LatelyOf(t) : Arrivals'[i] = Arrivals[i]
    BY <1>2, <1>4, <1>6, <1>7
  <2>2. CASE Typed(f) /\ t = f.type
    <3>1. Tallies(Appended(monitor.times[t], at), LatelyOf(t) \cup {n}, Arrivals', Recent)
      BY <1>4, <1>5, <2>1, TallyGrows
    <3> QED
      BY <1>3, <1>4, <2>2, <3>1
  <2>3. CASE ~(Typed(f) /\ t = f.type)
    <3>1. Tallies(monitor.times[t], LatelyOf(t), Arrivals', Recent)
      BY <2>1, TallyKept
    <3> QED
      BY <1>3, <1>4, <2>3, <3>1
  <2> QED
    BY <2>2, <2>3
<1> QED
  BY <1>3, <1>4, <1>5, <1>8, <1>9

LEMMA RatesStep ==
  StreamInv /\ StationsHeard /\ BagsTyped /\ RatesTallied /\ [MonitorNext]_monitorVars
    => RatesTallied'
<1> SUFFICES ASSUME StreamInv, StationsHeard, BagsTyped, RatesTallied, [MonitorNext]_monitorVars
             PROVE  RatesTallied'
  OBVIOUS
<1>1. ASSUME NEW f, NEW at, HearsOne(f, at)
      PROVE  RatesTallied'
  BY <1>1, RatesHeard
<1>2. CASE NewSession \/ NewSource
  <2>1. /\ monitor'.totalTimes = NoTimes /\ monitor'.times = [t \in Types |-> NoTimes]
    BY <1>2, ResetKeeps, FreshSays DEF NewSession, NewSource
  <2>2. Lately' = {}
    <3>1. CASE NewSession
      <4>1. log' = log /\ session' = session + 1 /\ session \in Nat
        BY <3>1 DEF NewSession, StreamInv, MonitorTyped
      <4>2. \A i \in DOMAIN log : log[i].session \in Nat /\ log[i].session <= session
        BY DEF StreamInv, LogTyped
      <4> QED
        BY <4>1, <4>2 DEF Lately
    <3>2. CASE NewSource
      BY <3>2, NothingHeard DEF NewSource, Lately
    <3> QED
      BY <1>2, <3>1, <3>2
  <2>3. \A t : LatelyOf(t)' = {}
    BY <2>2 DEF LatelyOf
  <2>4. Recent' \subseteq Instants
    BY DEF Recent
  <2>5. Tallies(NoTimes, {}, Arrivals', Recent')
    BY <2>4, NoneTallied
  <2> QED
    BY <2>1, <2>2, <2>3, <2>5 DEF RatesTallied
<1>3. CASE StreamTime \/ UNCHANGED monitorVars
  <2>1. /\ monitor' = monitor /\ log' = log /\ session' = session
        /\ clock' = clock \/ clock' = clock + 1
    BY <1>3 DEF StreamTime, monitorVars
  <2>2. /\ Lately' = Lately /\ Arrivals' = Arrivals /\ (OneHeard' <=> OneHeard)
        /\ \A t : LatelyOf(t)' = LatelyOf(t)
    BY <2>1 DEF Lately, LatelyOf, Arrivals, OneHeard, Heard
  <2>3. Recent' \subseteq Recent
    <3>1. Instants \subseteq Nat /\ clock \in Nat /\ Retention \in Nat
      BY InstantsAre, DurationsAssumption DEF StreamInv, MonitorTyped
    <3>2. \A t \in Instants : t >= clock' - Retention => t >= clock - Retention
      BY <2>1, <3>1
    <3>3. Recent' = {t \in Instants : t >= clock' - Retention}
      BY DEF Recent
    <3> QED
      BY <3>2, <3>3 DEF Recent
  <2>4. \A bag, K : Tallies(bag, K, Arrivals, Recent) => Tallies(bag, K, Arrivals, Recent')
    BY <2>3 DEF Tallies
  <2> QED
    BY <2>1, <2>2, <2>4 DEF RatesTallied
<1> QED
  BY <1>1, <1>2, <1>3, MonitorSteps

RatesInv == StreamInv /\ StationsHeard /\ BagsTyped /\ RatesTallied

LEMMA RatesInit == MonitorInit => RatesInv
<1> SUFFICES ASSUME MonitorInit
             PROVE  RatesInv
  OBVIOUS
<1>1. monitor = Fresh /\ log = <<>>
  BY DEF MonitorInit
<1>2. StationsHeard
  BY <1>1, FreshHolds DEF StationsHeard
<1>3. BagsTyped
  BY <1>1, FreshBags DEF BagsTyped
<1>4. Lately = {} /\ \A t : LatelyOf(t) = {}
  BY <1>1, NothingHeard DEF Lately, LatelyOf
<1>5. Recent \subseteq Instants
  BY DEF Recent
<1>6. Tallies(NoTimes, {}, Arrivals, Recent)
  BY <1>5, NoneTallied
<1>7. RatesTallied
  BY <1>1, <1>4, <1>6, FreshSays DEF RatesTallied
<1> QED
  BY <1>2, <1>3, <1>7, StreamInit DEF RatesInv

LEMMA RatesInvStep == RatesInv /\ [MonitorNext]_monitorVars => RatesInv'
BY StreamStep, StationsHeardStep, BagsTypedStep, RatesStep DEF RatesInv

\* What came within a duration is what came at one of its times.
LEMMA WithinSays ==
  ASSUME StreamInv, NEW duration \in 1..Retention
  PROVE  LET S == (clock - duration)..clock \cap Instants
         IN  /\ IsFiniteSet(S) /\ S \subseteq Recent
             /\ Keyed(Lately, Arrivals, S) = {i \in DOMAIN log : Within(i, duration)}
             /\ \A t : Keyed(LatelyOf(t), Arrivals, S) =
                  {i \in DOMAIN log : Typed(Heard(i)) /\ Heard(i).type = t /\ Within(i, duration)}
<1> DEFINE S == (clock - duration)..clock \cap Instants
<1>1. /\ Instants \subseteq Nat /\ clock \in Instants /\ clock \in Nat /\ EndOfStream \in Nat
      /\ Retention \in Nat /\ duration \in Nat /\ Instants = 0..EndOfStream
      /\ duration <= Retention /\ None \notin Instants
  BY InstantsAre, DurationsAssumption DEF StreamInv, MonitorTyped, Instants
<1>2. IsFiniteSet(S)
  <2>1. IsFiniteSet((clock - duration)..clock)
    BY <1>1, FS_Interval
  <2> QED
    BY <2>1, FS_Intersection
<1>3. S \subseteq Recent
  BY <1>1 DEF Recent
<1>4. ASSUME NEW i \in DOMAIN log
      PROVE  log[i].at \in S <=> log[i].at # None /\ clock - log[i].at <= duration
  <2>1. log[i].at \in (0..clock) \cup {None}
    BY DEF StreamInv, LogTyped
  <2>2. CASE log[i].at = None
    BY <1>1, <2>2
  <2>3. CASE log[i].at # None
    <3>1. log[i].at \in 0..clock /\ log[i].at \in Instants
      BY <1>1, <2>1, <2>3
    <3> QED
      BY <1>1, <2>3, <3>1
  <2> QED
    BY <2>2, <2>3
<1> HIDE DEF S
<1>5. \A i \in DOMAIN log :
        Within(i, duration) <=> log[i].session = session /\ log[i].at \in S
  BY <1>4 DEF Within
<1>6. Keyed(Lately, Arrivals, S) = {i \in DOMAIN log : Within(i, duration)}
  BY <1>5 DEF Keyed, Lately, Arrivals
<1>7. ASSUME NEW t
      PROVE  Keyed(LatelyOf(t), Arrivals, S) =
               {i \in DOMAIN log : Typed(Heard(i)) /\ Heard(i).type = t /\ Within(i, duration)}
  BY <1>5 DEF Keyed, Lately, LatelyOf, Arrivals
<1> QED
  BY <1>2, <1>3, <1>6, <1>7 DEF S

(***************************************************************************)
(* RatesExact: for every stream of one station, over any connections and   *)
(* with or without time stamps, and for every window that the retention    *)
(* covers, the rates count each frame of this connection once and nothing  *)
(* else (RtcmCorrectionMonitor::ComputeRateHz, AppendTimestamp).            *)
(***************************************************************************)
THEOREM RatesCountEach == MonitorSpec => []RatesExact
<1>1. RatesInv => RatesExact
  <2> SUFFICES ASSUME RatesInv, OneHeard, NEW duration \in 1..Retention
               PROVE  /\ CountInWindow(monitor.totalTimes, clock, duration) =
                           Cardinality({i \in DOMAIN log : Within(i, duration)})
                      /\ \A t \in Types :
                           CountInWindow(monitor.times[t], clock, duration) =
                             Cardinality({i \in DOMAIN log :
                               Typed(Heard(i)) /\ Heard(i).type = t /\ Within(i, duration)})
    BY DEF RatesExact, OneHeard
  <2> DEFINE S == (clock - duration)..clock \cap Instants
  <2>1. /\ IsFiniteSet(S) /\ S \subseteq Recent
        /\ Keyed(Lately, Arrivals, S) = {i \in DOMAIN log : Within(i, duration)}
        /\ \A t : Keyed(LatelyOf(t), Arrivals, S) =
             {i \in DOMAIN log : Typed(Heard(i)) /\ Heard(i).type = t /\ Within(i, duration)}
    BY WithinSays DEF RatesInv
  <2>2. /\ Tallies(monitor.totalTimes, Lately, Arrivals, Recent)
        /\ \A t \in Types : Tallies(monitor.times[t], LatelyOf(t), Arrivals, Recent)
    BY DEF RatesInv, RatesTallied
  <2>3. ASSUME NEW bag, NEW K, Tallies(bag, K, Arrivals, Recent)
        PROVE  CountInWindow(bag, clock, duration) = Cardinality(Keyed(K, Arrivals, S))
    <3>1. Tallies(bag, K, Arrivals, S)
      BY <2>1, <2>3 DEF Tallies
    <3> QED
      BY <2>1, <3>1, CountedInWindow
  <2> HIDE DEF S
  <2> QED
    BY <2>1, <2>2, <2>3
<1> QED
  BY <1>1, RatesInit, RatesInvStep, PTL DEF MonitorSpec

=============================================================================
