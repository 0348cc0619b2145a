---------------------- MODULE PositionPayloadFreshness ----------------------
(***************************************************************************)
(* Whether the position a receiver reports still changes: a driver session *)
(* shows every position observation, before it is merged, to a tracker     *)
(* that counts payloads, changes, repetitions and receiver epochs.         *)
(***************************************************************************)
EXTENDS RuntimeState

CONSTANT NoEpoch

NoRollover == 0

\* The clocks a record may carry.  Only the time of day and the time of week
\* start again.
UtcEpoch(utc, day) ==
  IF utc = NoValue THEN NoEpoch ELSE [domain |-> "utc", value |-> utc, period |-> day]
TowEpoch(tow, week) == [domain |-> "tow", value |-> tow, period |-> week]
WeekTowEpoch(value) == [domain |-> "week_tow", value |-> value, period |-> NoRollover]

NewTracker ==
  [valid |-> 0, invalid |-> 0, changes |-> 0, same |-> 0, lastAt |-> NoTime,
   changedAt |-> NoTime, span |-> NoTime, position |-> NoValue,
   epochs |-> 0, advances |-> 0, sameEpochs |-> 0, regressions |-> 0,
   relation |-> "unavailable", epoch |-> NoEpoch]

\* A clock that starts again goes from its last quarter to its first.
Advanced(before, epoch) ==
  \/ epoch.value > before.value
  \/ /\ epoch.period # NoRollover
     /\ before.period = epoch.period
     /\ before.value > (epoch.period * 3) \div 4
     /\ epoch.value < epoch.period \div 4

Relation(before, epoch) ==
  CASE before = NoEpoch -> "first"
    [] before # NoEpoch /\ before.domain # epoch.domain -> "domain_changed"
    [] before # NoEpoch /\ before.domain = epoch.domain /\ before.value = epoch.value ->
         "identical"
    [] OTHER -> IF Advanced(before, epoch) THEN "advanced" ELSE "regressed"

ObserveReceiverEpoch(t, epoch) ==
  IF epoch = NoEpoch
    THEN [t EXCEPT !.relation = "unavailable"]
    ELSE LET relation == Relation(t.epoch, epoch)
         IN  [t EXCEPT !.epochs = @ + 1,
                       !.epoch = epoch,
                       !.relation = relation,
                       !.sameEpochs = IF relation = "identical" THEN @ + 1 ELSE 1,
                       !.advances = IF relation = "advanced" THEN @ + 1 ELSE @,
                       !.regressions = IF relation = "regressed" THEN @ + 1 ELSE @]

\* The payload of an update: its coordinates, when it is a position.
Payload(u) ==
  IF u.fix.valid /\ {"latitude", "longitude"} \subseteq DOMAIN u.set
    THEN <<u.set["latitude"], u.set["longitude"]>>
    ELSE NoValue

UpdateUnchangedObservationSpan(t, at) ==
  IF NoTime \in {at, t.changedAt} \/ at < t.changedAt THEN NoTime ELSE at - t.changedAt

\* Mutant: an observation without a position is counted and skipped.
ObserveSkippingInvalid(t, u, epoch) ==
  LET seen == ObserveReceiverEpoch([t EXCEPT !.lastAt = u.at], epoch)
      payload == Payload(u)
  IN  CASE payload = NoValue -> [seen EXCEPT !.invalid = @ + 1, !.span = NoTime]
        [] payload # NoValue /\ payload = t.position ->
             [seen EXCEPT !.valid = @ + 1, !.same = @ + 1,
                          !.span = UpdateUnchangedObservationSpan(t, u.at)]
        [] OTHER ->
             [seen EXCEPT !.valid = @ + 1, !.same = 1, !.changes = @ + 1,
                          !.position = payload, !.changedAt = u.at,
                          !.span = IF u.at = NoTime THEN NoTime ELSE 0]

Observe(t, u, epoch) ==
  LET seen == ObserveReceiverEpoch([t EXCEPT !.lastAt = u.at], epoch)
      payload == Payload(u)
  IN  CASE payload = NoValue ->
             [seen EXCEPT !.invalid = @ + 1, !.position = NoValue, !.same = 0, !.span = NoTime]
        [] payload # NoValue /\ payload = t.position ->
             [seen EXCEPT !.valid = @ + 1, !.same = @ + 1,
                          !.span = UpdateUnchangedObservationSpan(t, u.at)]
        [] OTHER ->
             [seen EXCEPT !.valid = @ + 1, !.same = 1, !.changes = @ + 1,
                          !.position = payload, !.changedAt = u.at,
                          !.span = IF u.at = NoTime THEN NoTime ELSE 0]

-----------------------------------------------------------------------------
\* What the counters stand for, over the whole sequence of observations, each
\* with its payload and its time.

\* The observations at the end that show one and the same position.
Unchanged(h) ==
  {i \in DOMAIN h : h[i].payload # NoValue /\ \A j \in i..Len(h) : h[j].payload = h[i].payload}

FirstUnchanged(h) == CHOOSE i \in Unchanged(h) : \A j \in Unchanged(h) : i <= j

Changes(h) ==
  {i \in DOMAIN h :
     h[i].payload # NoValue /\ (i = 1 \/ h[i - 1].payload # h[i].payload)}

Describes(t, h) ==
  /\ t.valid = Cardinality({i \in DOMAIN h : h[i].payload # NoValue})
  /\ t.invalid = Len(h) - t.valid
  /\ t.changes = Cardinality(Changes(h))
  /\ t.same = Cardinality(Unchanged(h))
  /\ Unchanged(h) # {} /\ NoTime \notin {h[i].at : i \in Unchanged(h)} =>
       LET first == h[FirstUnchanged(h)].at
           last == h[Len(h)].at
       IN  t.span = IF last < first THEN NoTime ELSE last - first
=============================================================================
