----------------------------- MODULE Ntrip_proofs -----------------------------
(***************************************************************************)
(* Proofs about the NTRIP side, for every set of casters and of            *)
(* publishers, every policy, every deadline and any sequence of calls: the *)
(* reconnect policy, the client over it, the node over the client, and the *)
(* local caster.                                                           *)
(*                                                                         *)
(* Policy: the inductive invariant only adds that a delay once set is at   *)
(* least the first one.                                                    *)
(*                                                                         *)
(* Client: ConnectionsApart is inductive but for the types of its records. *)
(* That attempts count the failures also needs that a policy which has     *)
(* given up has reached its limit (Attempts).  Schedules is what any call  *)
(* may do to the records with times in them.  The bound on failures plays  *)
(* no part.                                                                *)
(*                                                                         *)
(* Node: one that has tried to connect is never without a caster and       *)
(* without a schedule (Scheduled): this holds at every step of a tick, and *)
(* rests on Attempts.  That a position is news, and of one publisher,      *)
(* rests on the agreement between what the node remembers of an            *)
(* observation and whose it was and when it first arrived (Remembered).    *)
(* Time stops at Horizon, which may be any number.                         *)
(*                                                                         *)
(* Local caster, for any clients, sources and frames, and a buffer of any  *)
(* size: what is cached of a type is its last frame of the present period  *)
(* (CachedIsLast), since a period ends with what is cached.  A client that *)
(* is served has received, and is still to be sent, exactly what it is due *)
(* (Served); one that is not has nothing waiting.                          *)
(***************************************************************************)
EXTENDS NtripNode, LocalRtcmCaster, SequenceTheorems, TLAPS


-----------------------------------------------------------------------------
(* The reconnect policy                                                    *)

FirstDelay == AtMost(InitialDelay, MaxDelay)

DelaySet == reconnect.delay = 0 \/ reconnect.delay >= FirstDelay

PolicyInv == PolicyTypeOK /\ WithinLimits /\ NoEarlyRetry /\ DelaySet

\* Multiplying by at least one and rounding up does not make a number smaller.
LEMMA RoundedUp ==
  ASSUME NEW d \in Nat, NEW m \in Nat, m >= 100
  PROVE  /\ (d * m + 99) \div 100 \in Nat
         /\ (d * m + 99) \div 100 >= d
<1>1. PICK k \in Nat : m = 100 + k
  <2>1. m - 100 \in Nat /\ m = 100 + (m - 100)
    OBVIOUS
  <2> QED
    BY <2>1
<1>2. d * m = 100 * d + d * k
  BY <1>1
<1>3. d * k \in Nat
  BY <1>1
<1> DEFINE p == d * k
<1>4. (100 * d + p + 99) \div 100 \in Nat /\ (100 * d + p + 99) \div 100 >= d
  <2> HIDE DEF p
  <2> QED
    BY <1>3 DEF p
<1> QED
  BY <1>2, <1>4

\* The next delay is within the limits and not below the last.
LEMMA NextDelayBounds ==
  ASSUME PolicyTypeOK, WithinLimits, DelaySet
  PROVE  /\ NextDelay(reconnect) \in Nat
         /\ NextDelay(reconnect) <= MaxDelay
         /\ NextDelay(reconnect) >= reconnect.delay
         /\ NextDelay(reconnect) >= FirstDelay
<1> DEFINE d == reconnect.delay
           m == AtLeast(Multiplier, 100)
           scaled == (d * m + 99) \div 100
<1>1. d \in Nat /\ m \in Nat /\ m >= 100 /\ InitialDelay \in Nat /\ MaxDelay \in Nat
  BY PolicyAssumption DEF PolicyTypeOK, ReconnectStates, AtLeast
<1>2. d <= MaxDelay /\ (d = 0 \/ d >= FirstDelay)
  BY DEF WithinLimits, DelaySet
<1>3. FirstDelay \in Nat /\ FirstDelay <= MaxDelay
  BY <1>1 DEF FirstDelay, AtMost
<1>4. CASE d = 0
  BY <1>1, <1>3, <1>4 DEF NextDelay, FirstDelay
<1>5. CASE d # 0
  <2>1. scaled \in Nat /\ scaled >= d
    BY <1>1, RoundedUp
  <2>2. NextDelay(reconnect) = AtMost(scaled, MaxDelay)
    BY <1>5 DEF NextDelay
  <2> HIDE DEF scaled, d
  <2> QED
    BY <1>1, <1>2, <1>3, <1>5, <2>1, <2>2 DEF AtMost, d
<1> QED
  BY <1>4, <1>5

\* A limit that is not reached is above the attempts.
LEMMA BelowLimit ==
  ASSUME NEW n \in Nat, ~LimitReached(n), MaxAttempts # Unlimited
  PROVE  n + 1 <= MaxAttempts
BY PolicyAssumption DEF LimitReached

LEMMA FailsKeeps ==
  ASSUME PolicyInv, Fails
  PROVE  PolicyInv' /\ reconnect'.delay >= reconnect.delay
<1>1. reconnect' = OnFailure(reconnect, now) /\ now' = now
  BY DEF Fails
<1>2. reconnect \in ReconnectStates /\ now \in Nat /\ now <= EndOfTime
  BY TimeAssumption DEF PolicyInv, PolicyTypeOK
<1>3. CASE CanAttempt(reconnect)
  <2> DEFINE next == NextDelay(reconnect)
  <2>1. /\ next \in Nat
        /\ next <= MaxDelay
        /\ next >= reconnect.delay
        /\ next >= FirstDelay
    BY NextDelayBounds DEF PolicyInv
  <2>2. reconnect' = [attempts |-> reconnect.attempts + 1, delay |-> next,
                      exhausted |-> LimitReached(reconnect.attempts + 1),
                      next |-> AttemptTime(now, next), failedAt |-> now]
    BY <1>1, <1>3 DEF OnFailure
  <2>3. AttemptTime(now, next) \in Times
    BY <1>2, <2>1, TimeAssumption DEF AttemptTime, Times
  <2>4. now \in Times
    BY <1>2, TimeAssumption DEF Times
  <2>5. PolicyTypeOK'
    BY <1>1, <1>2, <2>1, <2>2, <2>3, <2>4
    DEF PolicyInv, PolicyTypeOK, ReconnectStates, LimitReached
  <2>6. MaxAttempts # Unlimited => reconnect.attempts + 1 <= MaxAttempts
    BY <1>2, <1>3, BelowLimit DEF CanAttempt, ReconnectStates
  <2> HIDE DEF next
  <2>7. WithinLimits' /\ DelaySet'
    BY <2>1, <2>2, <2>6 DEF WithinLimits, DelaySet, FirstDelay
  <2>8. NoEarlyRetry'
    BY <2>2, <2>3, <2>4, TimeAssumption DEF NoEarlyRetry, AttemptTime, Times
  <2> QED
    BY <2>1, <2>2, <2>5, <2>7, <2>8 DEF PolicyInv
<1>4. CASE ~CanAttempt(reconnect)
  <2>1. reconnect' = [reconnect EXCEPT !.failedAt = now, !.next = Never,
                                       !.exhausted = Enabled /\ LimitReached(reconnect.attempts)]
    BY <1>1, <1>4 DEF OnFailure
  <2>2. now \in Times
    BY <1>2, TimeAssumption DEF Times
  <2>3. (Enabled /\ LimitReached(reconnect.attempts)) \in BOOLEAN
    BY PolicyAssumption DEF LimitReached
  <2>4. PolicyTypeOK'
    BY <1>1, <1>2, <2>1, <2>2, <2>3 DEF PolicyInv, PolicyTypeOK, ReconnectStates
  <2>5. /\ reconnect'.delay = reconnect.delay
        /\ reconnect'.attempts = reconnect.attempts
        /\ reconnect'.next = Never
    BY <1>2, <2>1 DEF ReconnectStates
  <2>6. WithinLimits' /\ DelaySet' /\ NoEarlyRetry'
    BY <2>5 DEF PolicyInv, WithinLimits, DelaySet, NoEarlyRetry, FirstDelay
  <2>7. reconnect'.delay >= reconnect.delay
    BY <1>2, <2>5 DEF ReconnectStates
  <2> QED
    BY <2>4, <2>6, <2>7 DEF PolicyInv
<1> QED
  BY <1>3, <1>4

LEMMA SucceedsKeeps ==
  ASSUME PolicyInv, Succeeds
  PROVE  PolicyInv'
<1>1. reconnect' = OnSuccess(reconnect) /\ now' = now
  BY DEF Succeeds
<1>2. CASE ResetAfterSuccess
  BY <1>1, <1>2, PolicyAssumption
  DEF PolicyInv, OnSuccess, Fresh, PolicyTypeOK, ReconnectStates, WithinLimits, NoEarlyRetry, DelaySet
<1>3. CASE ~ResetAfterSuccess
  BY <1>1, <1>3
  DEF PolicyInv, OnSuccess, PolicyTypeOK, ReconnectStates, WithinLimits, NoEarlyRetry, DelaySet,
      FirstDelay
<1> QED
  BY <1>2, <1>3

LEMMA NextKeeps ==
  ASSUME PolicyInv, [PolicyNext]_policyVars
  PROVE  PolicyInv'
<1>1. CASE Fails
  BY <1>1, FailsKeeps
<1>2. CASE Succeeds
  BY <1>2, SucceedsKeeps
<1>3. CASE Elapses
  BY <1>3, TimeAssumption
  DEF Elapses, PolicyInv, PolicyTypeOK, WithinLimits, NoEarlyRetry, DelaySet, FirstDelay
<1>4. CASE UNCHANGED policyVars
  BY <1>4 DEF policyVars, PolicyInv, PolicyTypeOK, WithinLimits, NoEarlyRetry, DelaySet, FirstDelay
<1> QED
  BY <1>1, <1>2, <1>3, <1>4 DEF PolicyNext

LEMMA InitPolicyInv == PolicyInit => PolicyInv
BY PolicyAssumption, TimeAssumption
DEF PolicyInit, Fresh, PolicyInv, PolicyTypeOK, ReconnectStates, WithinLimits, NoEarlyRetry, DelaySet

LEMMA PolicyInvariance == PolicySpec => []PolicyInv
<1>1. PolicyInv /\ [PolicyNext]_policyVars => PolicyInv'
  BY NextKeeps
<1> QED
  BY <1>1, InitPolicyInv, PTL DEF PolicySpec

-----------------------------------------------------------------------------
\* Every time the policy computes is within the clock, and its counts are
\* natural numbers.
THEOREM PolicyTypeCorrect == PolicySpec => []PolicyTypeOK
<1>1. PolicyInv => PolicyTypeOK
  BY DEF PolicyInv
<1> QED
  BY <1>1, PolicyInvariance, PTL

\* The delay and the number of attempts respect the policy's limits for any
\* policy: the product is never stored uncapped.
THEOREM LimitsHold == PolicySpec => []WithinLimits
<1>1. PolicyInv => WithinLimits
  BY DEF PolicyInv
<1> QED
  BY <1>1, PolicyInvariance, PTL

\* A scheduled attempt is a full delay after its failure, up to saturation.
THEOREM RetriesWait == PolicySpec => []NoEarlyRetry
<1>1. PolicyInv => NoEarlyRetry
  BY DEF PolicyInv
<1> QED
  BY <1>1, PolicyInvariance, PTL

\* The delay never shrinks between successes, for any multiplier, and a
\* policy that has given up schedules nothing.
THEOREM BackoffGrows == PolicySpec => BackoffOnlyGrows
<1>1. PolicyInv /\ [PolicyNext]_policyVars =>
        [reconnect' = OnFailure(reconnect, now) =>
           /\ reconnect'.delay >= reconnect.delay
           /\ reconnect.exhausted => reconnect'.next = Never]_policyVars
  <2> SUFFICES ASSUME PolicyInv, reconnect' = OnFailure(reconnect, now)
               PROVE  /\ reconnect'.delay >= reconnect.delay
                      /\ reconnect.exhausted => reconnect'.next = Never
    OBVIOUS
  <2>1. reconnect \in ReconnectStates
    BY DEF PolicyInv, PolicyTypeOK
  <2>2. CASE CanAttempt(reconnect)
    BY <2>2, NextDelayBounds DEF PolicyInv, OnFailure, CanAttempt
  <2>3. CASE ~CanAttempt(reconnect)
    BY <2>1, <2>3 DEF OnFailure, ReconnectStates
  <2> QED
    BY <2>2, <2>3
<1> QED
  BY <1>1, PolicyInvariance, PTL DEF PolicySpec, BackoffOnlyGrows

-----------------------------------------------------------------------------
(* The client                                                              *)

MetricRecords ==
  [requested : BOOLEAN, responded : BOOLEAN, connected : BOOLEAN, error : Errors]

PolicyFields == {"attempts", "next", "failedAt", "delay", "exhausted"}

ConnectionTypeOK ==
  /\ state \in ClientStates \ {"connecting"}
  /\ open \in BOOLEAN /\ arrival \in BOOLEAN
  /\ metrics \in MetricRecords
  /\ buffer \in Held /\ framer \in Held

Attempts ==
  /\ failures \in Nat
  /\ DOMAIN reconnect = PolicyFields /\ reconnect.attempts \in Nat
  /\ reconnect.exhausted \in BOOLEAN
  /\ reconnect.exhausted => LimitReached(reconnect.attempts)
  /\ BackoffUntilOperational

ClientInv == ConnectionTypeOK /\ ConnectionsApart /\ Attempts

Flows ==
  [accepted : BOOLEAN, acceptedAt : Times \cup {Never}, frames : 0 .. OperationalAt,
   frameAt : Times \cup {Never}, operational : BOOLEAN]

ScheduleTypeOK ==
  /\ reconnect \in ReconnectStates
  /\ source \in Sources
  /\ flow \in Flows
  /\ ggaSentAt \in Times \cup {Never}

ClockOK == now \in 0 .. Horizon

IInv == ClientInv /\ ScheduleTypeOK /\ ClockOK

connectionVars == <<state, open, metrics, arrival, buffer, framer>>
countVars == <<reconnect, failures>>

-----------------------------------------------------------------------------
(* Attempts.                                                               *)

\* A failure that counts makes one more attempt, unless the policy is out of
\* them; then it stays so.
LEMMA FailureCounts ==
  ASSUME Attempts, NEW time, reconnect' = OnFailure(reconnect, time), failures' = failures + 1
  PROVE  Attempts'
<1>0. MaxAttempts = Unlimited \/ MaxAttempts \in Nat
  BY PolicyAssumption
<1>1. CASE CanAttempt(reconnect)
  <2>1. /\ DOMAIN reconnect' = PolicyFields /\ reconnect'.attempts = reconnect.attempts + 1
        /\ reconnect'.exhausted = LimitReached(reconnect.attempts + 1)
    BY <1>1 DEF OnFailure, PolicyFields
  <2>2. ~LimitReached(reconnect.attempts)
    BY <1>1 DEF CanAttempt
  <2>3. BackoffUntilOperational'
    BY <2>1, <2>2, <1>0 DEF Attempts, BackoffUntilOperational, LimitReached, AtMost
  <2>4. LimitReached(reconnect.attempts + 1) \in BOOLEAN
    BY DEF LimitReached
  <2>5. /\ reconnect'.exhausted \in BOOLEAN
        /\ reconnect'.exhausted => LimitReached(reconnect'.attempts)
    BY <2>1, <2>4
  <2>6. failures' \in Nat /\ reconnect'.attempts \in Nat
    BY <2>1 DEF Attempts
  <2> QED
    BY <2>1, <2>3, <2>5, <2>6 DEF Attempts, LimitReached
<1>2. CASE ~CanAttempt(reconnect)
  <2>1. /\ DOMAIN reconnect' = PolicyFields /\ reconnect'.attempts = reconnect.attempts
        /\ reconnect'.exhausted = (Enabled /\ LimitReached(reconnect.attempts))
    BY <1>2 DEF OnFailure, Attempts, PolicyFields
  <2>2. Enabled => LimitReached(reconnect.attempts)
    BY <1>2 DEF CanAttempt, Attempts
  <2>3. BackoffUntilOperational'
    BY <2>1, <2>2, <1>0 DEF Attempts, BackoffUntilOperational, LimitReached, AtMost
  <2> QED
    BY <2>1, <2>3, PolicyAssumption DEF Attempts, LimitReached
<1> QED
  BY <1>1, <1>2

LEMMA SuccessForgets ==
  ASSUME Attempts, reconnect' = OnSuccess(reconnect) \/ reconnect' = Fresh, failures' = 0
  PROVE  Attempts'
<1>0. MaxAttempts = Unlimited \/ MaxAttempts \in Nat
  BY PolicyAssumption
<1>1. CASE reconnect' = Fresh
  BY <1>0, <1>1 DEF Attempts, Fresh, PolicyFields, BackoffUntilOperational, AtMost
<1>2. CASE ~ResetAfterSuccess /\ reconnect' = OnSuccess(reconnect)
  <2>1. /\ DOMAIN reconnect' = PolicyFields /\ reconnect'.attempts = reconnect.attempts
        /\ reconnect'.exhausted = FALSE
    BY <1>2 DEF OnSuccess, Attempts, PolicyFields
  <2> QED
    BY <1>2, <2>1 DEF Attempts, BackoffUntilOperational
<1> QED
  BY <1>1, <1>2 DEF OnSuccess

LEMMA SameAttempts ==
  ASSUME Attempts, UNCHANGED countVars
  PROVE  Attempts'
BY DEF Attempts, countVars, BackoffUntilOperational

LEMMA FailAttempts ==
  ASSUME Attempts, NEW st, NEW m, NEW error, NEW time, Fail(st, m, error, time)
  PROVE  Attempts'
<1>1. CASE Tracked(st, error)
  BY <1>1, FailureCounts DEF Fail
<1>2. CASE ~Tracked(st, error)
  BY <1>2, SameAttempts DEF Fail, countVars
<1> QED
  BY <1>1, <1>2

-----------------------------------------------------------------------------
(* Connections.                                                            *)

USE DEF Errors

LEMMA FailApart ==
  ASSUME NEW st, NEW m \in MetricRecords, NEW error \in Errors, NEW time,
         Fail(st, m, error, time), buffer' \in Held, framer' \in Held
  PROVE  ConnectionTypeOK' /\ ConnectionsApart'
BY DEF Fail, ConnectionTypeOK, ConnectionsApart, SocketAgrees, NoStaleBytes, MetricRecords,
       ClientStates

LEMMA CarriedHeld == \A held \in Held : Carried(held) \in Held
BY DEF Carried, Held

LEMMA FailNowKeeps ==
  ASSUME ClientInv, NEW error \in Errors, NEW time, FailNow(error, time)
  PROVE  ClientInv'
<1>1. ConnectionTypeOK' /\ ConnectionsApart'
  BY FailApart, CarriedHeld DEF ClientInv, ConnectionTypeOK, FailNow
<1> QED
  BY <1>1, FailAttempts DEF ClientInv, FailNow

\* A call that changes neither the connection nor the counts.
LEMMA SameConnection ==
  ASSUME ClientInv, UNCHANGED <<connectionVars, countVars>>
  PROVE  ClientInv'
<1>1. Attempts'
  BY SameAttempts DEF ClientInv, countVars
<1> QED
  BY <1>1 DEF ClientInv, ConnectionTypeOK, ConnectionsApart, SocketAgrees, NoStaleBytes,
              connectionVars

LEMMA ConnectedKeeps ==
  ASSUME ClientInv, Connected, buffer' = "none", framer' = "none"
  PROVE  ClientInv'
<1>1. ConnectionTypeOK' /\ ConnectionsApart'
  BY DEF Connected, NoMetrics, MetricRecords, ConnectionTypeOK, ConnectionsApart, SocketAgrees,
         NoStaleBytes, ClientStates, Held
<1>2. Attempts'
  BY SameAttempts DEF ClientInv, Connected, countVars
<1> QED
  BY <1>1, <1>2 DEF ClientInv

LEMMA SetConfigKeeps ==
  ASSUME ClientInv, NEW configured, SetConfig(configured)
  PROVE  ClientInv'
<1>1. CASE configured # source
  <2>0. /\ state' = "disconnected" /\ open' = FALSE /\ arrival' = FALSE
        /\ metrics' = NoMetrics /\ buffer' = "none" /\ framer' = "none"
    BY <1>1 DEF SetConfig
  <2>1. ConnectionTypeOK' /\ ConnectionsApart'
    BY <2>0 DEF NoMetrics, MetricRecords, ConnectionTypeOK, ConnectionsApart, SocketAgrees,
         NoStaleBytes, ClientStates, Held
  <2>2. Attempts'
    BY <1>1, SuccessForgets DEF SetConfig, ClientInv
  <2> QED
    BY <2>1, <2>2 DEF ClientInv
<1>2. CASE configured = source
  BY <1>2, SameConnection DEF SetConfig, connectionVars, countVars
<1> QED
  BY <1>1, <1>2

LEMMA ConnectKeeps ==
  ASSUME ClientInv, NEW error \in OpenErrors, NEW time, Connect(error, time) \/ Adopt(error)
  PROVE  ClientInv'
<1>1. buffer' = "none" /\ framer' = "none"
  BY DEF Connect, Adopt, ResetSession
<1>2. NoMetrics \in MetricRecords /\ error \in Errors
  BY DEF NoMetrics, MetricRecords, OpenErrors
<1>3. CASE Connected
  BY <1>1, <1>3, ConnectedKeeps
<1>4. ASSUME NEW st, NEW e \in Errors, NEW t, Fail(st, NoMetrics, e, t)
      PROVE  ClientInv'
  <2>1. ConnectionTypeOK' /\ ConnectionsApart'
    BY <1>1, <1>2, <1>4, FailApart DEF Held
  <2> QED
    BY <1>4, <2>1, FailAttempts DEF ClientInv
<1>5. "configuration" \in Errors
  OBVIOUS
<1> QED
  BY <1>2, <1>3, <1>4, <1>5 DEF Connect, Adopt

LEMMA DisconnectKeeps ==
  ASSUME ClientInv, NEW error \in Errors, Disconnect(error)
  PROVE  ClientInv'
<1>1. ConnectionTypeOK' /\ ConnectionsApart'
  BY CarriedHeld DEF Disconnect, ClientInv, ConnectionTypeOK, ConnectionsApart, SocketAgrees,
         NoStaleBytes, MetricRecords, ClientStates
<1>2. Attempts'
  BY SameAttempts DEF Disconnect, ClientInv, countVars
<1> QED
  BY <1>1, <1>2 DEF ClientInv

LEMMA WriteErrors == \A end \in WriteEnds : WriteError(end) \in Errors
BY DEF WriteError

LEMMA SendRequestKeeps ==
  ASSUME ClientInv, NEW end \in WriteEnds, NEW time, SendRequest(end, time)
  PROVE  ClientInv'
<1>1. CASE \E error \in Errors : FailNow(error, time)
  BY <1>1, FailNowKeeps
<1>2. CASE /\ metrics' = [metrics EXCEPT !.requested = TRUE]
           /\ UNCHANGED <<state, open, arrival, buffer, framer, countVars>>
  <2>1. ConnectionTypeOK' /\ ConnectionsApart'
    BY <1>2 DEF ClientInv, ConnectionTypeOK, ConnectionsApart, SocketAgrees, NoStaleBytes,
         MetricRecords
  <2>2. Attempts'
    BY <1>2, SameAttempts DEF ClientInv
  <2> QED
    BY <2>1, <2>2 DEF ClientInv
<1>3. "disconnected" \in Errors
  OBVIOUS
<1> QED
  BY <1>1, <1>2, <1>3, WriteErrors DEF SendRequest, countVars

LEMMA GgaSentKeeps ==
  ASSUME ClientInv, NEW time, GgaSent(time)
  PROVE  ClientInv'
BY SameConnection DEF GgaSent, connectionVars, countVars

LEMMA SendGgaKeeps ==
  ASSUME ClientInv, NEW fix, NEW end \in WriteEnds, NEW time,
         SendGga(fix, end, time) \/ MaybeSendGga(fix, end, time)
           \/ MaybeInjectGga(fix, end, time)
  PROVE  ClientInv'
<1>1. "disconnected" \in Errors
  OBVIOUS
<1>2. SendGga(fix, end, time) => ClientInv'
  BY <1>1, FailNowKeeps, GgaSentKeeps, WriteErrors DEF SendGga
<1> QED
  BY <1>1, <1>2, FailNowKeeps, GgaSentKeeps DEF MaybeSendGga, MaybeInjectGga

LEMMA PayloadKeeps ==
  ASSUME ClientInv, NEW f, NEW got \in Reads, Payload(f, got), state' = "streaming",
         open, buffer' \in {buffer, "none"}, metrics' \in MetricRecords,
         metrics'.connected = metrics.connected
  PROVE  ClientInv'
<1>1. got.age \in {"kept", "set", "reset"} /\ got.unfinished \in BOOLEAN
  BY DEF Reads
<1>2. open' = open /\ framer' \in {"none", "this"}
  BY DEF Payload
<1>3. arrival' \in BOOLEAN
  BY <1>1 DEF Payload, ClientInv, ConnectionTypeOK
<1>4. ConnectionTypeOK' /\ ConnectionsApart'
  BY <1>2, <1>3 DEF ClientInv, ConnectionTypeOK, ConnectionsApart, SocketAgrees, NoStaleBytes,
       ClientStates, Held
<1>5. Attempts'
  BY SuccessForgets, SameAttempts DEF Payload, ClientInv, countVars
<1> QED
  BY <1>4, <1>5 DEF ClientInv

LEMMA ReadKeeps ==
  ASSUME ClientInv, NEW got \in Reads, NEW time, Read(got, time)
  PROVE  ClientInv'
<1>0. open /\ {"timeout", "disconnected", "protocol", "http"} \subseteq Errors
  BY DEF Read, Readable, Unusable
<1>1. CASE FailNow("timeout", time) \/ FailNow("disconnected", time)
  BY <1>0, <1>1, FailNowKeeps
<1>2. CASE ReadsPayload(got)
  <2>1. metrics' = metrics /\ buffer' = buffer /\ state' = "streaming" /\ Payload(flow, got)
    BY <1>2 DEF ReadsPayload
  <2> QED
    BY <1>0, <2>1, PayloadKeeps DEF ClientInv, ConnectionTypeOK
<1>3. CASE ReadsHeader(got, time)
  <2>1. CASE buffer' = "this" /\ UNCHANGED <<state, open, metrics, arrival, framer, countVars>>
    <3>1. Attempts'
      BY <2>1, SameAttempts DEF ClientInv
    <3> QED
      BY <2>1, <3>1 DEF ClientInv, ConnectionTypeOK, ConnectionsApart, SocketAgrees, NoStaleBytes,
              Held
  <2>2. ASSUME got.header \in DOMAIN HeaderErrors,
               Fail(state, metrics, HeaderErrors[got.header], time),
               buffer' = "earlier", framer' = Carried(framer)
        PROVE  ClientInv'
    <3>1. HeaderErrors[got.header] \in Errors
      BY <2>2 DEF HeaderErrors
    <3>2. ConnectionTypeOK' /\ ConnectionsApart'
      BY <2>2, <3>1, FailApart, CarriedHeld DEF ClientInv, ConnectionTypeOK, Held
    <3> QED
      BY <2>2, <3>2, FailAttempts DEF ClientInv
  <2>3. ASSUME buffer' = "none", state' = "streaming",
               metrics' = [metrics EXCEPT !.responded = TRUE],
               Payload([flow EXCEPT !.accepted = TRUE, !.acceptedAt = now], got)
        PROVE  ClientInv'
    <3>1. metrics' \in MetricRecords /\ metrics'.connected = metrics.connected
      BY <2>3 DEF ClientInv, ConnectionTypeOK, MetricRecords
    <3> QED
      BY <1>0, <2>3, <3>1, PayloadKeeps
  <2> QED
    BY <1>3, <2>1, <2>2, <2>3 DEF ReadsHeader, countVars
<1> QED
  BY <1>1, <1>2, <1>3 DEF Read

-----------------------------------------------------------------------------
(* Records and times.                                                      *)

\* What any call may do to the policy's state, the flow and the GGA interval.
Schedules(time) ==
  /\ reconnect' \in {reconnect, Fresh, OnSuccess(reconnect), OnFailure(reconnect, time)}
  /\ source' \in Sources
  /\ flow' \in Flows
  /\ ggaSentAt' \in {ggaSentAt, Never, time}

LEMMA TimesAreNaturals ==
  /\ Times \subseteq Nat /\ 0 \in Times /\ EndOfTime \in Times
  /\ ClockOK => now \in Times
BY TimeAssumption DEF Times, ClockOK

LEMMA DelayIsNatural ==
  ASSUME NEW r \in ReconnectStates
  PROVE  NextDelay(r) \in Nat
<1>1. /\ InitialDelay \in Nat /\ MaxDelay \in Nat /\ r.delay \in Nat
      /\ AtLeast(Multiplier, 100) \in Nat
  BY PolicyAssumption DEF AtLeast, ReconnectStates
<1>2. \A d, m \in Nat : (d * m + 99) \div 100 \in Nat
  <2> SUFFICES ASSUME NEW d \in Nat, NEW m \in Nat PROVE (d * m + 99) \div 100 \in Nat
    OBVIOUS
  <2>1. d * m \in Nat
    OBVIOUS
  <2> DEFINE n == d * m
  <2>2. n \in Nat => (n + 99) \div 100 \in Nat
    <3> HIDE DEF n
    <3> QED
      OBVIOUS
  <2> QED
    BY <2>1, <2>2
<1>3. (r.delay * AtLeast(Multiplier, 100) + 99) \div 100 \in Nat
  BY <1>1, <1>2
<1> DEFINE scaled == (r.delay * AtLeast(Multiplier, 100) + 99) \div 100
<1>4. NextDelay(r) =
        IF r.delay = 0 THEN AtMost(InitialDelay, MaxDelay) ELSE AtMost(scaled, MaxDelay)
  BY DEF NextDelay
<1> HIDE DEF scaled
<1> QED
  BY <1>1, <1>3, <1>4 DEF AtMost, scaled

\* A failure's record: the next attempt saturates at the end of time.
LEMMA FailureTypes ==
  ASSUME NEW r \in ReconnectStates, NEW time \in Times
  PROVE  OnFailure(r, time) \in ReconnectStates
<1>1. r.attempts \in Nat /\ r.attempts + 1 \in Nat
  BY DEF ReconnectStates
<1>2. \A n \in Nat : LimitReached(n) \in BOOLEAN
  BY DEF LimitReached
<1>3. CASE CanAttempt(r)
  <2> DEFINE delay == NextDelay(r)
  <2>1. delay \in Nat
    BY DelayIsNatural
  <2>2. OnFailure(r, time) =
          [attempts |-> r.attempts + 1, delay |-> delay, exhausted |-> LimitReached(r.attempts + 1),
           next |-> AttemptTime(time, delay), failedAt |-> time]
    BY <1>3 DEF OnFailure
  <2> HIDE DEF delay
  <2>3. AttemptTime(time, delay) \in Times
    BY <2>1, TimeAssumption DEF AttemptTime, Times
  <2> QED
    BY <1>1, <1>2, <2>1, <2>2, <2>3 DEF ReconnectStates
<1>4. CASE ~CanAttempt(r)
  <2>1. (Enabled /\ LimitReached(r.attempts)) \in BOOLEAN
    OBVIOUS
  <2>2. OnFailure(r, time) =
          [r EXCEPT !.failedAt = time, !.next = Never,
                    !.exhausted = Enabled /\ LimitReached(r.attempts)]
    BY <1>4 DEF OnFailure
  <2> QED
    BY <2>1, <2>2 DEF ReconnectStates
<1> QED
  BY <1>3, <1>4

LEMMA SchedulesKeeps ==
  ASSUME ScheduleTypeOK, NEW time \in Times, Schedules(time)
  PROVE  ScheduleTypeOK'
<1>1. Fresh \in ReconnectStates
  BY TimesAreNaturals DEF Fresh, ReconnectStates
<1>2. OnSuccess(reconnect) \in ReconnectStates
  BY <1>1 DEF OnSuccess, ReconnectStates, ScheduleTypeOK
<1>3. OnFailure(reconnect, time) \in ReconnectStates
  BY FailureTypes DEF ScheduleTypeOK
<1> QED
  BY <1>1, <1>2, <1>3 DEF Schedules, ScheduleTypeOK

LEMMA FailSchedules ==
  ASSUME NEW st, NEW m, NEW error, NEW time, Fail(st, m, error, time)
  PROVE  reconnect' \in {reconnect, OnFailure(reconnect, time)}
BY DEF Fail

LEMMA NoFlowTypes == NoFlow \in Flows
BY TimesAreNaturals, ClientAssumption DEF NoFlow, Flows, OperationalAt, AtLeast

LEMMA ProgressTypes ==
  ASSUME NEW f \in Flows, NEW frames \in {0, 1, 2}, ClockOK
  PROVE  Progress(f, frames) \in Flows
<1>1. OperationalAt \in Nat /\ now \in Times
  BY ClientAssumption, TimesAreNaturals DEF OperationalAt, AtLeast
<1>2. CASE frames = 0
  BY <1>2 DEF Progress
<1>3. CASE frames # 0
  <2>1. Progress(f, frames) =
          [accepted |-> f.accepted, acceptedAt |-> f.acceptedAt,
           frames |-> AtMost(f.frames + frames, OperationalAt), frameAt |-> now,
           operational |-> (f.operational \/ f.frames + frames >= OperationalAt)]
    BY <1>3 DEF Progress, Flows
  <2>2. f.frames \in 0 .. OperationalAt /\ f.accepted \in BOOLEAN /\ f.operational \in BOOLEAN
        /\ f.acceptedAt \in Times \cup {Never}
    BY DEF Flows
  <2>3. AtMost(f.frames + frames, OperationalAt) \in 0 .. OperationalAt
    BY <1>1, <2>2 DEF AtMost
  <2>4. (f.operational \/ f.frames + frames >= OperationalAt) \in BOOLEAN
    OBVIOUS
  <2> HIDE DEF OperationalAt
  <2> QED
    BY <1>1, <2>1, <2>2, <2>3, <2>4 DEF Flows
<1> QED
  BY <1>2, <1>3

LEMMA FailNowSchedules ==
  ASSUME ScheduleTypeOK, NEW error, NEW time, FailNow(error, time)
  PROVE  Schedules(time)
BY FailSchedules DEF FailNow, Schedules, ScheduleTypeOK

LEMMA ConnectSchedules ==
  ASSUME ScheduleTypeOK, NEW error, NEW time, Connect(error, time)
  PROVE  Schedules(time)
BY FailSchedules, NoFlowTypes DEF Connect, ResetSession, Connected, Schedules, ScheduleTypeOK

LEMMA AdoptSchedules ==
  ASSUME ScheduleTypeOK, NEW error, Adopt(error)
  PROVE  Schedules(0)
BY FailSchedules, NoFlowTypes DEF Adopt, ResetSession, Connected, Schedules, ScheduleTypeOK

LEMMA SetConfigSchedules ==
  ASSUME ScheduleTypeOK, NEW configured \in Sources, NEW time, SetConfig(configured)
  PROVE  Schedules(time)
BY NoFlowTypes DEF SetConfig, Schedules, ScheduleTypeOK

LEMMA SendSchedules ==
  ASSUME ScheduleTypeOK, NEW fix, NEW end, NEW time,
         SendRequest(end, time) \/ SendGga(fix, end, time)
           \/ MaybeSendGga(fix, end, time) \/ MaybeInjectGga(fix, end, time)
  PROVE  Schedules(time)
<1>1. CASE \E error : FailNow(error, time)
  BY <1>1, FailNowSchedules
<1>2. CASE UNCHANGED <<reconnect, source, flow>> /\ ggaSentAt' \in {ggaSentAt, time}
  BY <1>2 DEF Schedules, ScheduleTypeOK
<1> QED
  BY <1>1, <1>2 DEF SendRequest, SendGga, MaybeSendGga, MaybeInjectGga, GgaSent

LEMMA PayloadSchedules ==
  ASSUME ScheduleTypeOK, ClockOK, NEW f \in Flows, NEW got \in Reads, NEW time, Payload(f, got)
  PROVE  Schedules(time)
<1>1. got.frames \in {0, 1, 2}
  BY DEF Reads
<1>2. flow' \in Flows
  BY <1>1, ProgressTypes DEF Payload
<1>3. reconnect' \in {reconnect, OnSuccess(reconnect)}
  BY DEF Payload
<1> QED
  BY <1>2, <1>3 DEF Payload, Schedules, ScheduleTypeOK

LEMMA ReadSchedules ==
  ASSUME ScheduleTypeOK, ClockOK, NEW got \in Reads, NEW time, Read(got, time)
  PROVE  Schedules(time)
<1>1. CASE \E error : FailNow(error, time)
  BY <1>1, FailNowSchedules
<1>2. CASE ReadsPayload(got)
  BY <1>2, PayloadSchedules DEF ReadsPayload, ScheduleTypeOK
<1>3. CASE ReadsHeader(got, time)
  <2>1. CASE UNCHANGED <<source, flow, ggaSentAt, reconnect>>
    BY <2>1 DEF Schedules, ScheduleTypeOK
  <2>2. CASE \E error : Fail(state, metrics, error, time) /\ UNCHANGED <<source, flow, ggaSentAt>>
    BY <2>2, FailSchedules DEF Schedules, ScheduleTypeOK
  <2>3. CASE Payload([flow EXCEPT !.accepted = TRUE, !.acceptedAt = now], got)
    <3>1. [flow EXCEPT !.accepted = TRUE, !.acceptedAt = now] \in Flows
      BY TimesAreNaturals DEF ScheduleTypeOK, Flows
    <3> QED
      BY <2>3, <3>1, PayloadSchedules
  <2> QED
    BY <1>3, <2>1, <2>2, <2>3 DEF ReadsHeader
<1> QED
  BY <1>1, <1>2, <1>3 DEF Read

-----------------------------------------------------------------------------

LEMMA InitIInv == ClientInit => IInv
<1> SUFFICES ASSUME ClientInit PROVE IInv
  OBVIOUS
<1>1. ConnectionTypeOK /\ ConnectionsApart
  BY DEF ClientInit, ConnectionTypeOK, ConnectionsApart, SocketAgrees, NoStaleBytes, NoMetrics,
         MetricRecords, ClientStates, Held
<1>2. MaxAttempts = Unlimited \/ MaxAttempts \in Nat
  BY PolicyAssumption
<1>3. Attempts
  BY <1>2 DEF ClientInit, PolicyInit, Attempts, Fresh, PolicyFields, BackoffUntilOperational,
         AtMost
<1>4. ScheduleTypeOK
  BY NoFlowTypes, TimesAreNaturals DEF ClientInit, PolicyInit, Fresh, ReconnectStates,
     ScheduleTypeOK
<1>5. ClockOK
  BY TimeAssumption DEF ClientInit, PolicyInit, ClockOK
<1> QED
  BY <1>1, <1>3, <1>4, <1>5 DEF IInv, ClientInv

LEMMA ElapsesKeeps ==
  ASSUME IInv, Elapses, UNCHANGED clientVars
  PROVE  IInv'
<1>1. ClientInv'
  BY SameConnection DEF IInv, Elapses, clientVars, connectionVars, countVars
<1>2. ScheduleTypeOK'
  BY DEF IInv, ScheduleTypeOK, Elapses, clientVars
<1>3. ClockOK'
  BY TimeAssumption DEF IInv, ClockOK, Elapses
<1> QED
  BY <1>1, <1>2, <1>3 DEF IInv

LEMMA NextIInv == IInv /\ [ClientNext]_clientAndPolicyVars => IInv'
<1> SUFFICES ASSUME IInv, [ClientNext]_clientAndPolicyVars PROVE IInv'
  OBVIOUS
<1>1. CASE Calls /\ UNCHANGED now
  <2>1. {"none", "unknown"} \subseteq Errors
    OBVIOUS
  <2>2. ClientInv'
    BY <1>1, <2>1, SetConfigKeeps, ConnectKeeps, DisconnectKeeps, SendRequestKeeps, SendGgaKeeps,
       ReadKeeps DEF Calls, IInv
  <2>3. \E time \in Times : Schedules(time)
    <3>1. now \in Times /\ 0 \in Times
      BY TimesAreNaturals DEF IInv
    <3>2. CASE \E configured \in Sources : SetConfig(configured)
      BY <3>1, <3>2, SetConfigSchedules DEF IInv
    <3>3. CASE \E error \in OpenErrors : Connect(error, now) \/ Adopt(error)
      BY <3>1, <3>3, ConnectSchedules, AdoptSchedules DEF IInv
    <3>4. CASE \E error \in {"none", "unknown"} : Disconnect(error)
      BY <3>1, <3>4 DEF Disconnect, Schedules, IInv, ScheduleTypeOK
    <3>5. CASE \E end \in WriteEnds : SendRequest(end, now)
      BY <3>1, <3>5, SendSchedules DEF IInv
    <3>6. CASE \E fix \in Positions, end \in WriteEnds :
                 SendGga(fix, end, now) \/ MaybeSendGga(fix, end, now)
                   \/ MaybeInjectGga(fix, end, now)
      BY <3>1, <3>6, SendSchedules DEF IInv
    <3>7. CASE \E got \in Reads : Read(got, now)
      BY <3>1, <3>7, ReadSchedules DEF IInv
    <3> QED
      BY <1>1, <3>2, <3>3, <3>4, <3>5, <3>6, <3>7 DEF Calls
  <2>4. ScheduleTypeOK'
    BY <2>3, SchedulesKeeps DEF IInv
  <2> QED
    BY <1>1, <2>2, <2>4 DEF IInv, ClockOK
<1>2. CASE Elapses /\ UNCHANGED clientVars
  BY <1>2, ElapsesKeeps
<1>3. CASE UNCHANGED clientAndPolicyVars
  <2>1. ClientInv'
    BY <1>3, SameConnection DEF IInv, clientAndPolicyVars, clientVars, policyVars, connectionVars,
       countVars
  <2> QED
    BY <1>3, <2>1 DEF IInv, ScheduleTypeOK, ClockOK, clientAndPolicyVars, clientVars, policyVars
<1> QED
  BY <1>1, <1>2, <1>3 DEF ClientNext

LEMMA IInvTypes == IInv => ClientTypeOK
BY DEF IInv, ClientInv, ConnectionTypeOK, Attempts, ScheduleTypeOK, ClientTypeOK, MetricRecords,
       Flows

\* The records of the client keep their types, for every policy and threshold:
\* no time leaves the clock and no counter its bound (ntrip_client.cpp:33-49).
THEOREM ClientTypeCorrect == ClientSpec => []ClientTypeOK
BY InitIInv, NextIInv, IInvTypes, PTL DEF ClientSpec

\* Whatever the caster and the caller do, the state, the metrics and the socket
\* agree, and no byte or age of one connection is left to the next
\* (ntrip_client.cpp:821-850).
THEOREM ConnectionsStayApart == ClientSpec => []ConnectionsApart
<1>1. IInv => ConnectionsApart
  BY DEF IInv, ClientInv
<1> QED
  BY InitIInv, NextIInv, <1>1, PTL DEF ClientSpec

\* For every policy and threshold, each lost connection counts until
\* corrections flow (ntrip_client.cpp:898, :1011).
THEOREM LossesCount == ClientSpec => []BackoffUntilOperational
<1>1. IInv => BackoffUntilOperational
  BY DEF IInv, ClientInv, Attempts
<1> QED
  BY InitIInv, NextIInv, <1>1, PTL DEF ClientSpec

-----------------------------------------------------------------------------
(* The node                                                                *)

Scheduled ==
  tried /\ ~IsConnected =>
    /\ state = "failed"
    /\ reconnect.next # Never \/ ~Enabled \/ LimitReached(reconnect.attempts)

StepTypeOK ==
  /\ pc \in Steps /\ stamp \in Times /\ tried \in BOOLEAN /\ reads \in 0 .. MaxReads
  /\ source \notin Incomplete

StatusTypeOK ==
  /\ expected \in Settings
  /\ active \in Publishers \cup {NoPublisher}
  /\ position \in Positions
  /\ seenAt \in Times \cup {Never}
  /\ lastSeq \in Nat /\ lastStamp \in Nat
  /\ updates \in [Publishers -> [seq : Nat, stamp : Nat]]
  /\ arrived \in [from : Publishers \cup {NoPublisher}, seq : Nat, at : Times \cup {Never}]

Remembered ==
  /\ active \in expected \cup {NoPublisher} /\ arrived.from = active
  /\ active = NoPublisher => arrived.seq = 0 /\ lastSeq = 0 /\ lastStamp = 0
  /\ active # NoPublisher /\ position # "none" => seenAt = arrived.at /\ seenAt # Never
  /\ active \in Publishers \ Legacy =>
       /\ lastSeq = arrived.seq
       /\ arrived.seq = 0 => position = "none"
       /\ arrived.seq # 0 => seenAt = arrived.at /\ seenAt # Never
  /\ active \in Legacy =>
       /\ lastSeq = 0 /\ lastStamp = arrived.seq + 1
       /\ seenAt = arrived.at /\ seenAt # Never

NodeInv == IInv /\ Scheduled /\ StepTypeOK /\ StatusTypeOK /\ Remembered

-----------------------------------------------------------------------------
(* The client in the node's hands                                          *)

\* A failure that counts is answered by a schedule, or the policy has ended.
LEMMA FailureScheduled ==
  ASSUME ClientInv, ScheduleTypeOK, NEW time \in Times, reconnect' = OnFailure(reconnect, time)
  PROVE  reconnect'.next # Never \/ ~Enabled \/ LimitReached(reconnect'.attempts)
<1>1. CASE CanAttempt(reconnect)
  <2>1. reconnect'.next = AttemptTime(time, NextDelay(reconnect))
    BY <1>1 DEF OnFailure
  <2>2. AttemptTime(time, NextDelay(reconnect)) \in Nat
    BY DelayIsNatural, TimesAreNaturals, TimeAssumption DEF ScheduleTypeOK, AttemptTime
  <2> QED
    BY <2>1, <2>2, TimeAssumption
<1>2. CASE ~CanAttempt(reconnect)
  <2>1. reconnect'.attempts = reconnect.attempts
    BY <1>2 DEF OnFailure, ScheduleTypeOK, ReconnectStates
  <2>2. Enabled => LimitReached(reconnect.attempts)
    BY <1>2 DEF CanAttempt, ClientInv, Attempts
  <2> QED
    BY <2>1, <2>2
<1> QED
  BY <1>1, <1>2

LEMMA TrackedFailureScheduled ==
  ASSUME ClientInv, ScheduleTypeOK, NEW time \in Times, NEW st, NEW m, NEW error,
         Tracked(st, error), Fail(st, m, error, time)
  PROVE  Scheduled'
<1>1. reconnect' = OnFailure(reconnect, time) /\ state' = "failed"
  BY DEF Fail
<1>2. reconnect'.next # Never \/ ~Enabled \/ LimitReached(reconnect'.attempts)
  BY <1>1, FailureScheduled
<1> QED
  BY <1>1, <1>2 DEF Scheduled, LimitReached

\* While the client is connected, every error the node meets counts.
LEMMA FailNowScheduled ==
  ASSUME ClientInv, ScheduleTypeOK, NEW time \in Times, IsConnected,
         NEW error \in Errors \ {"none", "configuration"}, FailNow(error, time)
  PROVE  Scheduled'
BY TrackedFailureScheduled DEF FailNow, Tracked, IsConnected

\* What a step of the tick keeps when it is a call on the client.
LEMMA ClientStep ==
  ASSUME IInv, ClientInv', NEW time \in Times, Schedules(time), now' = now
  PROVE  IInv'
BY SchedulesKeeps DEF IInv, ClockOK

LEMMA ClientIdle ==
  ASSUME IInv, UNCHANGED <<clientVars, reconnect>>, now' \in 0 .. Horizon
  PROVE  IInv'
<1>1. ClientInv'
  BY SameConnection DEF IInv, clientVars, connectionVars, countVars
<1>2. ScheduleTypeOK' /\ source' = source
  BY DEF IInv, ScheduleTypeOK, clientVars
<1> QED
  BY <1>1, <1>2 DEF IInv, ClockOK

LEMMA SameSchedule ==
  ASSUME Scheduled, UNCHANGED <<state, reconnect, tried>>
  PROVE  Scheduled'
BY DEF Scheduled, IsConnected, LimitReached

\* The status of the receivers does not change in a tick.
LEMMA StatusKept ==
  ASSUME StatusTypeOK, Remembered, UNCHANGED <<statusVars, updates>>
  PROVE  StatusTypeOK' /\ Remembered'
BY DEF StatusTypeOK, Remembered, statusVars

-----------------------------------------------------------------------------
(* The steps of a tick                                                     *)

LEMMA TimerFiresKeeps ==
  ASSUME NodeInv, TimerFires
  PROVE  NodeInv'
<1>1. IInv'
  BY ClientIdle DEF NodeInv, TimerFires, policyVars, IInv, ClockOK
<1>2. StepTypeOK'
  BY TimesAreNaturals DEF NodeInv, IInv, StepTypeOK, TimerFires, Steps, clientVars
<1>3. Scheduled'
  BY SameSchedule DEF NodeInv, TimerFires, clientVars, policyVars
<1>4. StatusTypeOK' /\ Remembered'
  BY StatusKept DEF NodeInv, TimerFires
<1> QED
  BY <1>1, <1>2, <1>3, <1>4 DEF NodeInv

LEMMA EnsureConnectedKeeps ==
  ASSUME NodeInv, EnsureConnected
  PROVE  NodeInv'
<1>0. stamp \in Times /\ source \notin Incomplete /\ IInv
  BY DEF NodeInv, StepTypeOK
<1>1. StatusTypeOK' /\ Remembered'
  BY StatusKept DEF NodeInv, EnsureConnected
<1>2. CASE UNCHANGED <<tried, clientVars, reconnect>>
  <2>1. IInv'
    BY <1>0, <1>2, ClientIdle DEF EnsureConnected, IInv, ClockOK
  <2>2. Scheduled'
    BY <1>2, SameSchedule DEF NodeInv, clientVars
  <2>3. StepTypeOK'
    BY <1>2 DEF NodeInv, StepTypeOK, EnsureConnected, Steps, clientVars
  <2> QED
    BY <1>1, <2>1, <2>2, <2>3 DEF NodeInv
<1>3. ASSUME NEW error \in OpenErrors \ {"configuration"}, Connect(error, stamp), tried' = TRUE
      PROVE  NodeInv'
  <2>1. ClientInv' /\ Schedules(stamp)
    BY <1>0, <1>3, ConnectKeeps, ConnectSchedules DEF IInv
  <2>2. IInv'
    BY <1>0, <2>1, ClientStep DEF EnsureConnected
  <2>3. Scheduled'
    <3>1. CASE error = "none"
      <4>1. state' = "connected"
        BY <1>0, <1>3, <3>1 DEF Connect, Connected
      <4> QED
        BY <4>1 DEF Scheduled, IsConnected
    <3>2. CASE error # "none"
      <4>1. Fail("connecting", NoMetrics, error, stamp) /\ Tracked("connecting", error)
        BY <1>0, <1>3, <3>2 DEF Connect, Tracked, OpenErrors
      <4> QED
        BY <1>0, <4>1, TrackedFailureScheduled DEF IInv
    <3> QED
      BY <3>1, <3>2
  <2>4. StepTypeOK'
    BY <1>3 DEF NodeInv, StepTypeOK, EnsureConnected, Steps, Connect
  <2> QED
    BY <1>1, <2>2, <2>3, <2>4 DEF NodeInv
<1> QED
  BY <1>2, <1>3 DEF EnsureConnected

LEMMA EnsureRequestSentKeeps ==
  ASSUME NodeInv, EnsureRequestSent
  PROVE  NodeInv'
<1>0. stamp \in Times /\ IInv
  BY DEF NodeInv, StepTypeOK
<1>1. StatusTypeOK' /\ Remembered'
  BY StatusKept DEF NodeInv, EnsureRequestSent, Goto
<1>2. source' = source /\ UNCHANGED <<tried, stamp, now>>
  BY DEF EnsureRequestSent, Goto, SendRequest, FailNow, clientVars
<1>3. StepTypeOK'
  BY <1>2, NodeAssumption DEF NodeInv, StepTypeOK, EnsureRequestSent, Goto, Steps
<1>4. CASE UNCHANGED <<clientVars, reconnect>>
  <2>1. IInv'
    BY <1>0, <1>2, <1>4, ClientIdle DEF IInv, ClockOK
  <2>2. Scheduled'
    BY <1>2, <1>4, SameSchedule DEF NodeInv, clientVars
  <2> QED
    BY <1>1, <1>3, <2>1, <2>2 DEF NodeInv
<1>5. ASSUME NEW end \in WriteEnds, SendRequest(end, stamp), state = "connected"
      PROVE  NodeInv'
  <2>1. ClientInv' /\ Schedules(stamp)
    BY <1>0, <1>5, SendRequestKeeps, SendSchedules DEF IInv
  <2>2. IInv'
    BY <1>0, <1>2, <2>1, ClientStep
  <2>3. Scheduled'
    <3>1. CASE FailNow("disconnected", stamp) \/ FailNow(WriteError(end), stamp)
      BY <1>0, <1>5, <3>1, FailNowScheduled DEF IInv, IsConnected, WriteError,
         Errors
    <3>2. CASE UNCHANGED <<state, reconnect>>
      BY <1>2, <3>2, SameSchedule DEF NodeInv
    <3> QED
      BY <1>5, <3>1, <3>2 DEF SendRequest
  <2> QED
    BY <1>1, <1>3, <2>2, <2>3 DEF NodeInv
<1> QED
  BY <1>4, <1>5 DEF EnsureRequestSent

LEMMA ReadOnceKeeps ==
  ASSUME NodeInv, ReadOnce
  PROVE  NodeInv'
<1>0. stamp \in Times /\ IInv /\ IsConnected
  BY DEF NodeInv, StepTypeOK, ReadOnce
<1>1. StatusTypeOK' /\ Remembered'
  BY StatusKept DEF NodeInv, ReadOnce, Goto
<1>2. source' = source /\ UNCHANGED <<tried, stamp, now>>
  BY DEF ReadOnce, Goto, Read, FailNow, ReadsPayload, ReadsHeader, Payload, clientVars
<1>3. StepTypeOK'
  <2>1. reads + 1 \in 0 .. MaxReads
    BY NodeAssumption DEF NodeInv, StepTypeOK, ReadOnce
  <2>2. pc' \in {"read", "gga"} /\ reads' = reads + 1
    BY DEF ReadOnce, Goto
  <2> QED
    BY <1>2, <2>1, <2>2 DEF NodeInv, StepTypeOK, Steps
<1>4. CASE UNCHANGED <<clientVars, reconnect>>
  <2>1. IInv'
    BY <1>0, <1>2, <1>4, ClientIdle DEF IInv, ClockOK
  <2>2. Scheduled'
    BY <1>2, <1>4, SameSchedule DEF NodeInv, clientVars
  <2> QED
    BY <1>1, <1>3, <2>1, <2>2 DEF NodeInv
<1>5. ASSUME NEW got \in Reads, Read(got, stamp)
      PROVE  NodeInv'
  <2>1. ClientInv' /\ Schedules(stamp)
    BY <1>0, <1>5, ReadKeeps, ReadSchedules DEF IInv
  <2>2. IInv'
    BY <1>0, <1>2, <2>1, ClientStep
  <2>3. Scheduled'
    <3>1. CASE FailNow("timeout", stamp) \/ FailNow("disconnected", stamp)
      BY <1>0, <3>1, FailNowScheduled DEF IInv, Errors
    <3>2. CASE state' \in {"connected", "streaming"}
      BY <3>2 DEF Scheduled, IsConnected
    <3>3. ASSUME got.header \in DOMAIN HeaderErrors,
                 Fail(state, metrics, HeaderErrors[got.header], stamp)
          PROVE  Scheduled'
      <4>1. HeaderErrors[got.header] \in {"protocol", "http"}
        BY <3>3 DEF HeaderErrors
      <4>2. Tracked(state, HeaderErrors[got.header])
        BY <1>0, <4>1 DEF Tracked, IsConnected
      <4> QED
        BY <1>0, <3>3, <4>2, TrackedFailureScheduled DEF IInv
    <3> QED
      BY <1>5, <3>1, <3>2, <3>3 DEF Read, ReadsPayload, ReadsHeader
  <2> QED
    BY <1>1, <1>3, <2>2, <2>3 DEF NodeInv
<1> QED
  BY <1>4, <1>5 DEF ReadOnce

LEMMA ReadDoneKeeps ==
  ASSUME NodeInv, ReadDone
  PROVE  NodeInv'
<1>1. UNCHANGED <<clientVars, reconnect, reads, stamp, tried, now, statusVars, updates>>
      /\ pc' = "gga"
  BY DEF ReadDone, Goto
<1>2. IInv'
  BY <1>1, ClientIdle DEF NodeInv, IInv, ClockOK
<1>3. StatusTypeOK' /\ Remembered'
  BY <1>1, StatusKept DEF NodeInv
<1>4. Scheduled'
  BY <1>1, SameSchedule DEF NodeInv, clientVars
<1>5. StepTypeOK'
  BY <1>1 DEF NodeInv, StepTypeOK, Steps, clientVars
<1> QED
  BY <1>2, <1>3, <1>4, <1>5 DEF NodeInv

LEMMA MaybeInjectsKeeps ==
  ASSUME NodeInv, MaybeInjects
  PROVE  NodeInv'
<1>0. stamp \in Times /\ IInv
  BY DEF NodeInv, StepTypeOK
<1>1. UNCHANGED <<reads, stamp, tried, now, statusVars, updates>> /\ pc' = "idle"
  BY DEF MaybeInjects, Goto
<1>2. StatusTypeOK' /\ Remembered'
  BY <1>1, StatusKept DEF NodeInv
<1>3. source' = source
  BY DEF MaybeInjects, MaybeInjectGga, GgaSent, FailNow, clientVars
<1>4. StepTypeOK'
  BY <1>1, <1>3 DEF NodeInv, StepTypeOK, Steps
<1>5. CASE UNCHANGED <<clientVars, reconnect>>
  <2>1. IInv'
    BY <1>0, <1>1, <1>5, ClientIdle DEF IInv, ClockOK
  <2>2. Scheduled'
    BY <1>1, <1>5, SameSchedule DEF NodeInv, clientVars
  <2> QED
    BY <1>2, <1>4, <2>1, <2>2 DEF NodeInv
<1>6. ASSUME NEW end \in WriteEnds, MaybeInjectGga(position, end, stamp)
      PROVE  NodeInv'
  <2>1. ClientInv' /\ Schedules(stamp)
    BY <1>0, <1>6, SendGgaKeeps, SendSchedules DEF IInv
  <2>2. IInv'
    BY <1>0, <1>1, <2>1, ClientStep
  <2>3. Scheduled'
    <3>1. CASE FailNow("disconnected", stamp)
      BY <1>0, <1>6, <3>1, FailNowScheduled DEF IInv, IsConnected, MaybeInjectGga,
         InjectionDue, Errors
    <3>2. CASE GgaSent(stamp)
      BY <1>1, <3>2, SameSchedule DEF NodeInv, GgaSent
    <3> QED
      BY <1>6, <3>1, <3>2 DEF MaybeInjectGga
  <2> QED
    BY <1>2, <1>4, <2>2, <2>3 DEF NodeInv
<1> QED
  BY <1>5, <1>6 DEF MaybeInjects

-----------------------------------------------------------------------------
(* Status messages, updates, time                                          *)

LEMMA OnStatusMessageKeeps ==
  ASSUME NodeInv, NEW p \in Publishers, OnStatusMessage(p)
  PROVE  NodeInv'
<1>1. UNCHANGED <<clientVars, reconnect, now, pc, stamp, tried, reads, updates>>
  BY DEF OnStatusMessage, policyVars, stepVars
<1>2. IInv'
  BY <1>1, ClientIdle DEF NodeInv, IInv, ClockOK
<1>3. Scheduled'
  BY <1>1, SameSchedule DEF NodeInv, clientVars
<1>4. StepTypeOK'
  BY <1>1 DEF NodeInv, StepTypeOK, clientVars
<1>5. CASE UNCHANGED statusVars
  BY <1>1, <1>2, <1>3, <1>4, <1>5, StatusKept DEF NodeInv
<1>6. CASE ~UNCHANGED statusVars
  <2> DEFINE m == Message(p)
  <2>1. /\ p \in expected /\ active \in {NoPublisher, p} /\ expected' = expected
        /\ active' = IF active = NoPublisher THEN p ELSE active
        /\ arrived' = [from |-> p, seq |-> Observation(p),
                       at |-> IF Observation(p) = arrived.seq THEN arrived.at ELSE now]
        /\ position' \in (IF updates[p].seq = 0 THEN {"none"} ELSE {"noFix", "fix"})
        /\ lastSeq' = m.seq
        /\ lastStamp' = IF m.seq # 0 THEN 0 ELSE m.stamp + 1
        /\ seenAt' = IF IsNewObservation(m) THEN now ELSE seenAt
    BY <1>6 DEF OnStatusMessage, Accepts
  <2>2. /\ updates[p].seq \in Nat /\ updates[p].stamp \in Nat /\ updates[p].stamp > 0
        /\ lastSeq \in Nat /\ lastStamp \in Nat
        /\ arrived.seq \in Nat /\ arrived.at \in Times \cup {Never}
    BY DEF NodeInv, StatusTypeOK, OnStatusMessage
  <2>3. m.seq = (IF p \in Legacy THEN 0 ELSE updates[p].seq) /\ m.stamp = updates[p].stamp
    BY DEF Message
  <2>4. now \in Times /\ now # Never
    BY TimesAreNaturals, TimeAssumption DEF NodeInv, IInv
  <2>7. Observation(p) = (IF p \in Legacy THEN updates[p].stamp ELSE updates[p].seq)
    BY DEF Observation
  <2> HIDE DEF m
  <2>8. p # NoPublisher /\ active' = p
    BY <2>1, NodeAssumption
  <2>9. arrived'.from = p /\ arrived'.seq = Observation(p)
        /\ arrived'.at = IF Observation(p) = arrived.seq THEN arrived.at ELSE now
    BY <2>1
  <2>5. StatusTypeOK'
    <3>1. Observation(p) \in Nat
      BY <2>2, <2>7
    <3>2. arrived' \in [from : Publishers \cup {NoPublisher}, seq : Nat, at : Times \cup {Never}]
      BY <2>1, <2>2, <2>4, <3>1
    <3> QED
      BY <1>1, <2>1, <2>2, <2>3, <2>4, <2>8, <3>2 DEF NodeInv, StatusTypeOK, Positions
  <2>6. Remembered'
    <3>1. active' \in expected' /\ active' # NoPublisher /\ arrived'.from = active'
      BY <2>1, <2>8, <2>9
    <3>2. ASSUME p \notin Legacy
          PROVE  /\ lastSeq' = arrived'.seq
                 /\ arrived'.seq = 0 => position' = "none"
                 /\ arrived'.seq # 0 => seenAt' = arrived'.at /\ seenAt' # Never
      <4>1. lastSeq' = updates[p].seq /\ arrived'.seq = updates[p].seq
        BY <2>1, <2>3, <2>7, <2>9, <3>2
      <4>2. lastSeq # 0 => lastSeq = arrived.seq /\ seenAt = arrived.at /\ seenAt # Never
        BY <2>1, <3>2 DEF NodeInv, Remembered
      <4>3. ASSUME updates[p].seq # 0
            PROVE  seenAt' = arrived'.at /\ seenAt' # Never
        <5>1. CASE lastSeq = updates[p].seq
          BY <2>1, <2>3, <2>7, <2>9, <3>2, <4>2, <4>3, <5>1 DEF IsNewObservation
        <5>2. CASE lastSeq # updates[p].seq
          <6>1. seenAt' = now
            BY <2>1, <2>3, <3>2, <4>3, <5>2 DEF IsNewObservation
          <6>2. updates[p].seq # arrived.seq \/ active = NoPublisher
            BY <2>1, <3>2, <5>2 DEF NodeInv, Remembered
          <6>3. active = NoPublisher => arrived.seq = 0
            BY DEF NodeInv, Remembered
          <6> QED
            BY <2>4, <2>7, <2>9, <3>2, <4>3, <6>1, <6>2, <6>3
        <5> QED
          BY <5>1, <5>2
      <4> QED
        BY <2>1, <4>1, <4>3
    <3>3. ASSUME p \in Legacy
          PROVE  /\ lastSeq' = 0 /\ lastStamp' = arrived'.seq + 1
                 /\ seenAt' = arrived'.at /\ seenAt' # Never
      <4>1. lastSeq' = 0 /\ lastStamp' = updates[p].stamp + 1 /\ arrived'.seq = updates[p].stamp
        BY <2>1, <2>3, <2>7, <2>9, <3>3
      <4>2. CASE active = p
        <5>1. lastStamp = arrived.seq + 1 /\ seenAt = arrived.at /\ seenAt # Never
          BY <3>3, <4>2 DEF NodeInv, Remembered
        <5>2. lastStamp # 0 /\ (updates[p].stamp + 1 # lastStamp <=> updates[p].stamp # arrived.seq)
          BY <2>2, <5>1
        <5>3. IsNewObservation(m) <=> updates[p].stamp # arrived.seq
          BY <2>3, <3>3, <5>2 DEF IsNewObservation
        <5> QED
          BY <2>1, <2>4, <2>7, <2>9, <3>3, <4>1, <5>1, <5>3
      <4>3. CASE active = NoPublisher
        <5>1. lastStamp = 0 /\ arrived.seq = 0
          BY <4>3 DEF NodeInv, Remembered
        <5>2. IsNewObservation(m)
          BY <2>3, <3>3, <5>1 DEF IsNewObservation
        <5>3. updates[p].stamp # arrived.seq
          BY <2>2, <5>1
        <5> QED
          BY <2>1, <2>4, <2>7, <2>9, <3>3, <4>1, <5>2, <5>3
      <4> QED
        BY <2>1, <4>2, <4>3
    <3>4. active' = p /\ active' # NoPublisher
      BY <2>8
    <3>5. position' # "none" => seenAt' = arrived'.at /\ seenAt' # Never
      BY <3>2, <3>3
    <3> QED
      BY <3>1, <3>2, <3>3, <3>4, <3>5 DEF Remembered
  <2> QED
    BY <1>2, <1>3, <1>4, <2>5, <2>6 DEF NodeInv
<1> QED
  BY <1>5, <1>6

LEMMA UpdatesKeeps ==
  ASSUME NodeInv, NEW p \in Publishers, Updates(p)
  PROVE  NodeInv'
<1>1. UNCHANGED <<clientVars, reconnect, now, pc, stamp, tried, reads, statusVars>>
  BY DEF Updates, policyVars, stepVars
<1>2. IInv'
  BY <1>1, ClientIdle DEF NodeInv, IInv, ClockOK
<1>3. Scheduled'
  BY <1>1, SameSchedule DEF NodeInv, clientVars
<1>4. StepTypeOK'
  BY <1>1 DEF NodeInv, StepTypeOK, clientVars
<1>5. PICK positional \in {0, 1} :
        updates' = [updates EXCEPT ![p] = [seq |-> @.seq + positional, stamp |-> @.stamp + 1]]
  BY DEF Updates
<1>6. updates \in [Publishers -> [seq : Nat, stamp : Nat]]
  BY DEF NodeInv, StatusTypeOK
<1>7. updates' \in [Publishers -> [seq : Nat, stamp : Nat]]
  <2>1. updates' = [q \in Publishers |->
          IF q = p THEN [seq |-> updates[p].seq + positional, stamp |-> updates[p].stamp + 1]
          ELSE updates[q]]
    BY <1>5, <1>6
  <2>2. \A q \in Publishers : updates[q].seq \in Nat /\ updates[q].stamp \in Nat
    BY <1>6
  <2> QED
    BY <1>6, <2>1, <2>2
<1>8. StatusTypeOK'
  BY <1>1, <1>7 DEF NodeInv, StatusTypeOK, statusVars
<1>9. Remembered'
  BY <1>1 DEF NodeInv, Remembered, statusVars
<1> QED
  BY <1>2, <1>3, <1>4, <1>8, <1>9 DEF NodeInv

LEMMA TimePassesKeeps ==
  ASSUME NodeInv, TimePasses
  PROVE  NodeInv'
<1>1. UNCHANGED <<clientVars, reconnect, pc, stamp, tried, reads, statusVars, updates>>
  BY DEF TimePasses, Elapses, stepVars
<1>2. IInv'
  BY ElapsesKeeps DEF NodeInv, TimePasses
<1>3. Scheduled'
  BY <1>1, SameSchedule DEF NodeInv, clientVars
<1>4. StepTypeOK'
  BY <1>1 DEF NodeInv, StepTypeOK, clientVars
<1>5. StatusTypeOK' /\ Remembered'
  BY <1>1, StatusKept DEF NodeInv
<1> QED
  BY <1>2, <1>3, <1>4, <1>5 DEF NodeInv

-----------------------------------------------------------------------------
LEMMA InitNodeInv == NodeInit => NodeInv
<1> SUFFICES ASSUME NodeInit PROVE NodeInv
  OBVIOUS
<1>1. IInv
  BY InitIInv DEF NodeInit
<1>2. Scheduled
  BY DEF NodeInit, Scheduled
<1>5. Remembered
  <2>1. /\ active = NoPublisher /\ arrived.from = NoPublisher /\ arrived.seq = 0
        /\ lastSeq = 0 /\ lastStamp = 0 /\ position = "none"
    BY DEF NodeInit
  <2> QED
    BY <2>1, NodeAssumption DEF Remembered
<1>3. StepTypeOK
  <2>1. /\ pc = "idle" /\ stamp = 0 /\ tried = FALSE /\ reads = 0 /\ source \notin Incomplete
    BY DEF NodeInit
  <2> QED
    <3>1. 0 \in 0 .. MaxReads /\ 0 \in Times
      BY NodeAssumption, TimesAreNaturals
    <3> QED
      BY <2>1, <3>1 DEF StepTypeOK, Steps
<1>4. StatusTypeOK
  BY DEF NodeInit, StatusTypeOK, Positions
<1> QED
  BY <1>1, <1>2, <1>3, <1>4, <1>5 DEF NodeInv

LEMMA NextNodeInv == NodeInv /\ [NodeNext]_nodeVars => NodeInv'
<1> SUFFICES ASSUME NodeInv, [NodeNext]_nodeVars PROVE NodeInv'
  OBVIOUS
<1>1. CASE NodeStep
  BY <1>1, TimerFiresKeeps, EnsureConnectedKeeps, EnsureRequestSentKeeps, ReadOnceKeeps,
     ReadDoneKeeps, MaybeInjectsKeeps DEF NodeStep
<1>2. CASE TimePasses
  BY <1>2, TimePassesKeeps
<1>3. CASE \E p \in Publishers : OnStatusMessage(p) \/ Updates(p)
  BY <1>3, OnStatusMessageKeeps, UpdatesKeeps
<1>4. CASE UNCHANGED nodeVars
  <2>1. IInv'
    BY <1>4, ClientIdle DEF NodeInv, IInv, ClockOK, nodeVars, clientAndPolicyVars, policyVars
  <2>2. Scheduled'
    BY <1>4, SameSchedule DEF NodeInv, nodeVars, clientAndPolicyVars, clientVars, policyVars,
       stepVars
  <2>3. StepTypeOK'
    BY <1>4 DEF NodeInv, StepTypeOK, nodeVars, clientAndPolicyVars, clientVars, stepVars
  <2>4. StatusTypeOK' /\ Remembered'
    BY <1>4, StatusKept DEF NodeInv, nodeVars
  <2> QED
    BY <2>1, <2>2, <2>3, <2>4 DEF NodeInv
<1> QED
  BY <1>1, <1>2, <1>3, <1>4 DEF NodeNext

\* A node that lost its caster has an attempt scheduled between any two ticks,
\* or its policy has ended; and every loss counts until corrections flow
\* (ntrip_node.cpp:499, ntrip_client.cpp:898).
THEOREM LossesRetried == NodeSpec => []LossesAreRetried
<1>1. NodeInv => LossesAreRetried
  <2> SUFFICES ASSUME NodeInv PROVE LossesAreRetried
    OBVIOUS
  <2>1. NodeTypeOK
    BY IInvTypes DEF NodeInv, NodeTypeOK, StepTypeOK, StatusTypeOK
  <2>2. RetryIsScheduled
    BY <2>1 DEF NodeInv, RetryIsScheduled, Scheduled
  <2> QED
    BY <2>2 DEF LossesAreRetried, NodeInv, IInv, ClientInv, Attempts
<1> QED
  BY InitNodeInv, NextNodeInv, <1>1, PTL DEF NodeSpec

\* Whoever publishes, and however often the same state: what the node knows
\* comes of one publisher for life, and a position offered to the caster
\* arrived less than StaleAfter ago, from a publisher that the configuration
\* allows (ntrip_node.cpp:381-429, docs/ros2.md:262).
THEOREM GgaStaysFresh == NodeSpec => [][GgaIsFresh]_nodeVars
<1>1. NodeInv /\ [NodeNext]_nodeVars => [arrived.from # NoPublisher => arrived'.from = arrived.from]_nodeVars
  <2> SUFFICES ASSUME NodeInv, NodeNext, arrived.from # NoPublisher
               PROVE  arrived'.from = arrived.from
    OBVIOUS
  <2>1. CASE NodeStep \/ TimePasses \/ \E p \in Publishers : Updates(p)
    <3>1. UNCHANGED statusVars
      BY <2>1 DEF NodeStep, TimerFires, EnsureConnected, EnsureRequestSent, ReadOnce, ReadDone,
         MaybeInjects, Goto, TimePasses, Updates
    <3> QED
      BY <3>1 DEF statusVars
  <2>2. ASSUME NEW p \in Publishers, OnStatusMessage(p)
        PROVE  arrived'.from = arrived.from
    <3>1. active = arrived.from
      BY DEF NodeInv, Remembered
    <3>2. CASE UNCHANGED statusVars
      BY <3>2 DEF statusVars
    <3>3. CASE ~UNCHANGED statusVars
      <4>1. arrived'.from = p /\ active \in {NoPublisher, p}
        BY <2>2, <3>3 DEF OnStatusMessage, Accepts
      <4> QED
        BY <3>1, <4>1
    <3> QED
      BY <3>2, <3>3
  <2> QED
    BY <2>1, <2>2 DEF NodeNext
<1>2. NodeInv /\ [NodeNext]_nodeVars =>
        [ggaSentAt' # ggaSentAt => arrived.from \in expected /\ now < arrived.at + StaleAfter]_nodeVars
  <2> SUFFICES ASSUME NodeInv, NodeNext, ggaSentAt' # ggaSentAt
               PROVE  arrived.from \in expected /\ now < arrived.at + StaleAfter
    OBVIOUS
  <2>1. MaybeInjects
    <3>1. CASE NodeStep
      <4>1. TimerFires => ggaSentAt' = ggaSentAt
        BY DEF TimerFires, clientVars
      <4>2. EnsureConnected => ggaSentAt' = ggaSentAt
        BY DEF EnsureConnected, Connect, ResetSession, clientVars
      <4>3. EnsureRequestSent => ggaSentAt' = ggaSentAt
        BY DEF EnsureRequestSent, SendRequest, FailNow, clientVars
      <4>4. ReadOnce => ggaSentAt' = ggaSentAt
        BY DEF ReadOnce, Read, FailNow, ReadsPayload, ReadsHeader, Payload, clientVars
      <4>5. ReadDone => ggaSentAt' = ggaSentAt
        BY DEF ReadDone, clientVars
      <4> QED
        BY <3>1, <4>1, <4>2, <4>3, <4>4, <4>5 DEF NodeStep
    <3>2. CASE TimePasses
      BY <3>2 DEF TimePasses, clientVars
    <3>3. CASE \E p \in Publishers : OnStatusMessage(p) \/ Updates(p)
      BY <3>3 DEF OnStatusMessage, Updates, clientVars
    <3> QED
      BY <3>1, <3>2, <3>3 DEF NodeNext
  <2>2. PositionFresh /\ position = "fix"
    BY <2>1 DEF MaybeInjects, InjectionDue, clientVars
  <2>3. active # NoPublisher /\ arrived.from \in expected
    BY <2>2 DEF PositionFresh, NodeInv, Remembered
  <2>4. seenAt = arrived.at /\ seenAt # Never
    BY <2>2, <2>3 DEF NodeInv, Remembered
  <2> QED
    BY <2>2, <2>3, <2>4 DEF PositionFresh
<1>3. NodeInv /\ [NodeNext]_nodeVars => [GgaIsFresh]_nodeVars
  BY <1>1, <1>2 DEF GgaIsFresh
<1> QED
  BY InitNodeInv, NextNodeInv, <1>3, PTL DEF NodeSpec

-----------------------------------------------------------------------------
(* The local caster                                                        *)

Bytes == Nat \X {1, 2}
Stages == {"away", "backlog", "accepted", "ready", "closed"}
FrameType == [type : FrameTypes, period : Nat]
ClientType == [stage : Stages, pending : Seq(Bytes), joined : Nat, period : Nat]

CasterTypeOK ==
  /\ cached \in [Cached -> Seq(Bytes)]
  /\ clients \in [Clients -> ClientType]
  /\ received \in [Clients -> Seq(Bytes)]
  /\ published \in Seq(FrameType)
  /\ period \in Nat

\* The past of the caster, and what is cached of it.
CachedIsLast ==
  /\ \A n \in 1 .. Len(published) : published[n].period <= period
  /\ \A t \in Cached : cached[t] = LastOf(published, t, Len(published), period)

\* After some frames, a client and what it got.
Served(frames, client, got) ==
  /\ client.joined <= Len(frames)
  /\ client.stage # "ready" => client.pending = NoBytes
  /\ client.stage \notin {"ready", "closed"} => got = NoBytes
  /\ \A t \in Cached : LastOf(frames, t, client.joined, client.period) \in Seq(Bytes)
  /\ client.stage = "ready" => got \o client.pending = ServedTo(frames, client)
  /\ \E rest \in Seq(Bytes) : got \o rest = ServedTo(frames, client)

CasterInv ==
  /\ CasterTypeOK
  /\ CachedIsLast
  /\ \A c \in Clients : Served(published, clients[c], received[c])

-----------------------------------------------------------------------------
(* What is sent                                                            *)

LEMMA WholeType == ASSUME NEW n \in Nat PROVE Whole(n) \in Seq(Bytes) /\ Len(Whole(n)) = 2
BY DEF Whole, Bytes

LEMMA NoBytesType == NoBytes \in Seq(Bytes) /\ Len(NoBytes) = 0
BY DEF NoBytes, Bytes

\* A greatest element is the maximum.
LEMMA Greatest ==
  ASSUME NEW S \in SUBSET Nat, NEW m \in S, \A n \in S : m >= n
  PROVE  Max(S) = m
<1>1. \A x \in S : (\A y \in S : x >= y) => x = m
  OBVIOUS
<1> QED
  BY <1>1 DEF Max

LEMMA FramesBetweenType ==
  ASSUME NEW k \in Nat, NEW n \in 0 .. k
  PROVE  /\ FramesBetween(n, k) \in Seq(Bytes)
         /\ Len(FramesBetween(n, k)) = 2 * (k - n)
<1> DEFINE m == 2 * (k - n)
<1>1. m \in Nat
  OBVIOUS
<1>2. \A i \in 1 .. m : FramesBetween(n, k)[i] \in Bytes
  BY <1>1 DEF FramesBetween, Bytes
<1>3. FramesBetween(n, k) \in [1 .. m -> Bytes]
  BY <1>2 DEF FramesBetween
<1> QED
  BY <1>1, <1>3

\* What a client is due, its parts put together.
LEMMA ServedToType ==
  ASSUME NEW frames \in Seq(FrameType), NEW client \in ClientType, client.joined <= Len(frames),
         \A t \in Cached : LastOf(frames, t, client.joined, client.period) \in Seq(Bytes)
  PROVE  ServedTo(frames, client) \in Seq(Bytes)
<1>1. IcyResponse \in Seq(Bytes)
  BY WholeType DEF IcyResponse
<1>2. FramesBetween(client.joined, Len(frames)) \in Seq(Bytes)
  BY FramesBetweenType DEF ClientType
<1> QED
  BY <1>1, <1>2, ConcatProperties DEF ServedTo, Cached

\* What comes first is a prefix of the whole.
LEMMA FirstPartIsPrefix ==
  ASSUME NEW s \in Seq(Bytes), NEW u \in Seq(Bytes)
  PROVE  IsPrefix(s, s \o u)
<1>1. /\ s \o u \in Seq(Bytes)
      /\ Len(s \o u) = Len(s) + Len(u)
      /\ \A i \in 1 .. Len(s) + Len(u) : (s \o u)[i] = IF i <= Len(s) THEN s[i] ELSE u[i - Len(s)]
  BY ConcatProperties
<1>2. Len(s) \in Nat /\ Len(u) \in Nat
  OBVIOUS
<1>3. SubSeq(s, 1, Len(s)) = s
  BY SubSeqFull
<1>4. \A i \in 1 .. Len(s) : (s \o u)[i] = s[i] /\ s[i] \in Bytes
  BY <1>1, <1>2
<1>5. /\ SubSeq(s \o u, 1, Len(s)) \in Seq(Bytes)
      /\ Len(SubSeq(s \o u, 1, Len(s))) = Len(s)
      /\ \A i \in 1 .. Len(s) : SubSeq(s \o u, 1, Len(s))[i] = (s \o u)[i]
  <2>1. \A i \in 1 .. Len(s) : (s \o u)[i] \in Bytes
    BY <1>4
  <2> HIDE DEF Bytes
  <2>2. /\ SubSeq(s \o u, 1, Len(s)) \in Seq(Bytes)
        /\ Len(SubSeq(s \o u, 1, Len(s))) = IF 1 <= Len(s) THEN Len(s) - 1 + 1 ELSE 0
        /\ \A i \in 1 .. Len(s) - 1 + 1 : SubSeq(s \o u, 1, Len(s))[i] = (s \o u)[1 + i - 1]
    BY <2>1, <1>2, SubSeqProperties
  <2> QED
    BY <2>2, <1>2
<1>6. SubSeq(s \o u, 1, Len(s)) = s
  BY <1>4, <1>5, SeqEqual
<1> QED
  BY <1>1, <1>2, <1>3, <1>6 DEF IsPrefix

\* A client that got nothing is due what it is due.
LEMMA NothingYet ==
  ASSUME NEW frames \in Seq(FrameType), NEW client \in ClientType, client.joined <= Len(frames),
         \A t \in Cached : LastOf(frames, t, client.joined, client.period) \in Seq(Bytes)
  PROVE  \E rest \in Seq(Bytes) : NoBytes \o rest = ServedTo(frames, client)
<1>1. ServedTo(frames, client) \in Seq(Bytes)
  BY ServedToType
<1>2. NoBytes \o ServedTo(frames, client) = ServedTo(frames, client)
  BY <1>1, ConcatEmptySeq DEF NoBytes
<1> QED
  BY <1>1, <1>2

\* Closing a client leaves it with what it got.
LEMMA ClosedServed ==
  ASSUME NEW frames, NEW client \in ClientType, NEW got, Served(frames, client, got)
  PROVE  Closed(client) \in ClientType /\ Served(frames, Closed(client), got)
<1>1. Closed(client) \in ClientType
  BY NoBytesType DEF Closed, ClientType, Stages
<1>2. /\ Closed(client).joined = client.joined
      /\ Closed(client).period = client.period
      /\ Closed(client).stage = "closed"
      /\ Closed(client).pending = NoBytes
  BY DEF Closed, ClientType
<1>3. ServedTo(frames, Closed(client)) = ServedTo(frames, client)
  BY <1>2 DEF ServedTo
<1> QED
  BY <1>1, <1>2, <1>3 DEF Served

-----------------------------------------------------------------------------
(* Publishing                                                              *)

\* A frame that is published changes nothing of what came before it.
LEMMA PastStays ==
  ASSUME NEW frames \in Seq(FrameType), NEW frame \in FrameType,
         NEW t, NEW n \in 0 .. Len(frames), NEW p
  PROVE  LastOf(Append(frames, frame), t, n, p) = LastOf(frames, t, n, p)
<1> DEFINE all == Append(frames, frame)
<1>1. \A i \in 1 .. n : all[i] = frames[i]
  OBVIOUS
<1>2. {i \in 1 .. n : all[i].type = t /\ all[i].period = p}
        = {i \in 1 .. n : frames[i].type = t /\ frames[i].period = p}
  BY <1>1
<1> QED
  BY <1>2 DEF LastOf

\* It is one more of the frames after any.
LEMMA OneFrameMore ==
  ASSUME NEW k \in Nat, NEW n \in 0 .. k
  PROVE  FramesBetween(n, k + 1) = FramesBetween(n, k) \o Whole(k + 1)
<1> DEFINE m == 2 * (k - n)
           Byte(i) == <<n + (i + 1) \div 2, IF i % 2 = 1 THEN 1 ELSE 2>>
           old == FramesBetween(n, k)
           all == FramesBetween(n, k + 1)
           last == Whole(k + 1)
<1>1. m \in Nat /\ m = 2 * (k - n)
  OBVIOUS
<1>2. old \in Seq(Bytes) /\ Len(old) = m
  BY FramesBetweenType
<1>3. last \in Seq(Bytes) /\ Len(last) = 2 /\ last[1] = <<k + 1, 1>> /\ last[2] = <<k + 1, 2>>
  BY <1>1, WholeType DEF Whole
<1>4. all = [i \in 1 .. 2 * (k + 1 - n) |-> Byte(i)]
  BY DEF FramesBetween
<1>5. old = [i \in 1 .. m |-> Byte(i)]
  BY DEF FramesBetween
<1> HIDE DEF all, old, last, m
<1>6. /\ 2 * (k + 1 - n) = m + 2
      /\ Byte(m + 1) = <<k + 1, 1>>
      /\ Byte(m + 2) = <<k + 1, 2>>
  <2>1. 2 * (k + 1 - n) = m + 2 /\ (m + 1) % 2 = 1 /\ (m + 2) % 2 = 0
    BY <1>1
  <2>2. n + (m + 1 + 1) \div 2 = k + 1 /\ n + (m + 2 + 1) \div 2 = k + 1
    BY <1>1
  <2> QED
    BY <2>1, <2>2
<1>7. \A i \in 1 .. m + 2 : Byte(i) \in Bytes
  BY <1>1 DEF Bytes
<1> HIDE DEF Byte
<1>8. all \in Seq(Bytes) /\ Len(all) = m + 2
  <2>1. all \in [1 .. m + 2 -> Bytes]
    BY <1>4, <1>6, <1>7
  <2>2. m + 2 \in Nat
    BY <1>1
  <2> QED
    BY <2>1, <2>2
<1>9. /\ old \o last \in Seq(Bytes)
      /\ Len(old \o last) = m + 2
      /\ \A i \in 1 .. m + 2 : (old \o last)[i] = IF i <= m THEN old[i] ELSE last[i - m]
  <2>1. /\ old \o last \in Seq(Bytes)
        /\ Len(old \o last) = Len(old) + Len(last)
        /\ \A i \in 1 .. Len(old) + Len(last) :
             (old \o last)[i] = IF i <= Len(old) THEN old[i] ELSE last[i - Len(old)]
    BY <1>2, <1>3, ConcatProperties
  <2> QED
    BY <1>2, <1>3, <2>1
<1>10. \A i \in 1 .. m + 2 : all[i] = (old \o last)[i]
  <2> SUFFICES ASSUME NEW i \in 1 .. m + 2 PROVE all[i] = (old \o last)[i]
    OBVIOUS
  <2>1. all[i] = Byte(i)
    BY <1>4, <1>6
  <2>2. CASE i <= m
    BY <1>1, <1>5, <1>9, <2>1, <2>2
  <2>3. CASE i = m + 1
    <3>1. ~(i <= m) /\ i - m = 1
      BY <1>1, <2>3
    <3>2. (old \o last)[i] = last[1]
      BY <1>9, <3>1
    <3> QED
      BY <1>3, <1>6, <2>1, <2>3, <3>2
  <2>4. CASE i = m + 2
    <3>1. ~(i <= m) /\ i - m = 2
      BY <1>1, <2>4
    <3>2. (old \o last)[i] = last[2]
      BY <1>9, <3>1
    <3> QED
      BY <1>3, <1>6, <2>1, <2>4, <3>2
  <2> QED
    <3>1. i <= m \/ i = m + 1 \/ i = m + 2
      BY <1>1
    <3> QED
      BY <2>2, <2>3, <2>4, <3>1
<1>11. all = old \o last
  BY <1>8, <1>9, <1>10, SeqEqual
<1> QED
  BY <1>11 DEF all, old, last

\* And the last of what any client is due.
LEMMA DueOneMore ==
  ASSUME NEW frames \in Seq(FrameType), NEW frame \in FrameType,
         NEW client \in ClientType, client.joined <= Len(frames),
         \A t \in Cached : LastOf(frames, t, client.joined, client.period) \in Seq(Bytes)
  PROVE  ServedTo(Append(frames, frame), client) = ServedTo(frames, client) \o Whole(Len(frames) + 1)
<1> DEFINE all == Append(frames, frame)
           k == Len(frames)
           n == client.joined
           since == FramesBetween(n, k)
           Static(of) == IcyResponse \o LastOf(of, "1005", n, client.period)
                                     \o LastOf(of, "1006", n, client.period)
<1>1. k \in Nat /\ n \in 0 .. k /\ Len(all) = k + 1
  BY DEF ClientType
<1>2. Static(frames) \in Seq(Bytes)
  BY WholeType, ConcatProperties DEF IcyResponse, Cached
<1>3. Static(all) = Static(frames)
  <2>1. \A t : LastOf(all, t, n, client.period) = LastOf(frames, t, n, client.period)
    BY <1>1, PastStays
  <2> HIDE DEF all
  <2> QED
    BY <2>1
<1>4. FramesBetween(n, k + 1) = since \o Whole(k + 1)
  BY <1>1, OneFrameMore
<1>5. since \in Seq(Bytes) /\ Whole(k + 1) \in Seq(Bytes)
  <2>1. since \in Seq(Bytes)
    BY <1>1, FramesBetweenType
  <2>2. k + 1 \in Nat
    BY <1>1
  <2> QED
    BY <2>1, <2>2, WholeType
<1>6. ServedTo(frames, client) = Static(frames) \o since
  BY DEF ServedTo
<1>7. ServedTo(all, client) = Static(frames) \o (since \o Whole(k + 1))
  BY <1>1, <1>3, <1>4 DEF ServedTo
<1> HIDE DEF Static, since, all
<1>8. (Static(frames) \o since) \o Whole(k + 1) = Static(frames) \o (since \o Whole(k + 1))
  BY <1>2, <1>5, ConcatAssociative
<1> QED
  BY <1>6, <1>7, <1>8 DEF all

\* Nothing of a period that only begins has been published.
LEMMA NewPeriod ==
  ASSUME CasterTypeOK, CachedIsLast, NEW p \in Nat, p > period
  PROVE  \A t \in Cached : LastOf(published, t, Len(published), p) = NoBytes
<1>1. \A n \in 1 .. Len(published) : published[n].period # p
  BY DEF CasterTypeOK, CachedIsLast, FrameType
<1> QED
  BY <1>1 DEF LastOf

\* A published frame is the last of its type in its period.
LEMMA NewestFrame ==
  ASSUME NEW frames \in Seq(FrameType), NEW frame \in FrameType
  PROVE  LastOf(Append(frames, frame), frame.type, Len(frames) + 1, frame.period)
           = Whole(Len(frames) + 1)
<1> DEFINE k == Len(frames)
           all == Append(frames, frame)
           of == {n \in 1 .. k + 1 : all[n].type = frame.type /\ all[n].period = frame.period}
<1>1. k \in Nat /\ all[k + 1] = frame
  OBVIOUS
<1>2. k + 1 \in of /\ of \in SUBSET Nat /\ \A n \in of : k + 1 >= n
  BY <1>1
<1>3. Max(of) = k + 1
  <2> HIDE DEF of, k
  <2> QED
    BY <1>2, Greatest
<1> QED
  BY <1>2, <1>3 DEF LastOf

\* One of another type or period leaves the last one what it was.
LEMMA OtherFrame ==
  ASSUME NEW frames \in Seq(FrameType), NEW frame \in FrameType,
         NEW t, NEW p, frame.type # t
  PROVE  LastOf(Append(frames, frame), t, Len(frames) + 1, p) = LastOf(frames, t, Len(frames), p)
<1> DEFINE k == Len(frames)
           all == Append(frames, frame)
<1>1. k \in Nat /\ all[k + 1] = frame /\ \A i \in 1 .. k : all[i] = frames[i]
  OBVIOUS
<1>2. {n \in 1 .. k + 1 : all[n].type = t /\ all[n].period = p}
        = {n \in 1 .. k : frames[n].type = t /\ frames[n].period = p}
  <2> HIDE DEF all, k
  <2> QED
    BY <1>1
<1> QED
  BY <1>2 DEF LastOf

\* A frame that is published is queued whole for a client that is ready, or
\* the client is closed.
LEMMA FrameQueued ==
  ASSUME NEW frames \in Seq(FrameType), NEW frame \in FrameType,
         NEW client \in ClientType, NEW got \in Seq(Bytes), Served(frames, client, got)
  PROVE  LET bytes == Whole(Len(frames) + 1)
             all == Append(frames, frame)
             more == [client EXCEPT !.pending = @ \o bytes]
         IN /\ Served(all, client, got) \/ client.stage = "ready"
            /\ Served(all, Closed(client), got)
            /\ more \in ClientType
            /\ client.stage = "ready" => Served(all, more, got)
<1> DEFINE k == Len(frames)
           bytes == Whole(k + 1)
           all == Append(frames, frame)
           more == [client EXCEPT !.pending = @ \o bytes]
<1>1. k \in Nat /\ Len(all) = k + 1 /\ client.joined \in 0 .. k /\ client.pending \in Seq(Bytes)
  BY DEF Served, ClientType
<1>2. bytes \in Seq(Bytes)
  BY <1>1, WholeType
<1>3. ServedTo(all, client) = ServedTo(frames, client) \o bytes
  BY DueOneMore DEF Served
<1>4. \A t \in Cached : LastOf(all, t, client.joined, client.period) \in Seq(Bytes)
  BY <1>1, PastStays DEF Served
<1> HIDE DEF bytes, all
<1>5. PICK rest \in Seq(Bytes) : got \o rest = ServedTo(frames, client)
  BY DEF Served
<1>6. got \o (rest \o bytes) = ServedTo(all, client) /\ rest \o bytes \in Seq(Bytes)
  <2>1. (got \o rest) \o bytes = got \o (rest \o bytes)
    BY <1>2, ConcatAssociative
  <2> QED
    BY <1>2, <1>3, <1>5, <2>1, ConcatProperties
<1>7. client.stage = "ready" => got \o (client.pending \o bytes) = ServedTo(all, client)
  <2>1. \A s \in Seq(Bytes) : (got \o s) \o bytes = got \o (s \o bytes)
    BY <1>2, ConcatAssociative
  <2> QED
    BY <1>1, <1>3, <2>1 DEF Served
<1>8. client.joined <= Len(all)
  BY <1>1
<1>9. client.stage # "ready" => Served(all, client, got)
  BY <1>4, <1>6, <1>8 DEF Served
<1>10. Served(all, Closed(client), got)
  <2> DEFINE shut == Closed(client)
  <2>1. shut.joined = client.joined /\ shut.period = client.period /\ shut.stage = "closed" /\ shut.pending = NoBytes
    BY DEF Closed, ClientType
  <2>2. ServedTo(all, shut) = ServedTo(all, client)
    BY <2>1 DEF ServedTo
  <2> HIDE DEF shut
  <2>3. Served(all, shut, got)
    BY <1>4, <1>6, <1>8, <2>1, <2>2 DEF Served
  <2> QED
    BY <2>3 DEF shut
<1>11. more \in ClientType /\ (client.stage = "ready" => Served(all, more, got))
  <2>1. client.pending \o bytes \in Seq(Bytes)
    BY <1>1, <1>2, ConcatProperties
  <2>2. more \in ClientType
    BY <2>1 DEF ClientType
  <2>3. more.joined = client.joined /\ more.period = client.period /\ more.stage = client.stage /\ more.pending = client.pending \o bytes
    BY DEF ClientType
  <2>4. ServedTo(all, more) = ServedTo(all, client)
    BY <2>3 DEF ServedTo
  <2> HIDE DEF more
  <2> QED
    BY <1>4, <1>6, <1>7, <1>8, <2>2, <2>3, <2>4 DEF Served
<1> QED
  BY <1>9, <1>10, <1>11 DEF all, bytes, more

-----------------------------------------------------------------------------
(* Answering and sending                                                   *)

\* A client that is answered is due what is queued for it.
LEMMA AnsweredServed ==
  ASSUME CasterTypeOK, CachedIsLast, NEW client \in ClientType
  PROVE  LET ready == Answered(client)
         IN /\ ready.stage = "ready" =>
                 ready \in ClientType /\ Served(published, ready, NoBytes)
            /\ ready.stage # "ready" => ready = Closed(client)
<1> DEFINE k == Len(published)
           bytes == IcyResponse \o cached["1005"] \o cached["1006"]
           ready == [client EXCEPT !.stage = "ready", !.pending = bytes,
                                   !.joined = k, !.period = period]
<1>1. k \in Nat /\ period \in Nat
  BY DEF CasterTypeOK
<1>2. \A t \in Cached : cached[t] \in Seq(Bytes) /\ cached[t] = LastOf(published, t, k, period)
  BY DEF CasterTypeOK, CachedIsLast
<1>3. bytes \in Seq(Bytes)
  BY <1>2, WholeType, ConcatProperties DEF IcyResponse, Cached
<1>4. FramesBetween(k, k) = << >>
  <2>1. 2 * (k - k) = 0
    BY <1>1
  <2>2. FramesBetween(k, k) \in Seq(Bytes) /\ Len(FramesBetween(k, k)) = 0
    BY <1>1, <2>1, FramesBetweenType
  <2> QED
    BY <2>2, EmptySeq
<1> HIDE DEF bytes, k
<1>5. ready \in ClientType
  BY <1>1, <1>3 DEF ClientType, Stages
<1>6. /\ ready.stage = "ready" /\ ready.pending = bytes
      /\ ready.joined = k /\ ready.period = period
  BY DEF ClientType
<1>7. ServedTo(published, ready) = bytes
  <2>1. ServedTo(published, ready) = IcyResponse \o cached["1005"] \o cached["1006"] \o << >>
    BY <1>2, <1>4, <1>6 DEF ServedTo, Cached, k
  <2>2. ServedTo(published, ready) = bytes \o << >>
    BY <2>1 DEF bytes
  <2> QED
    BY <1>3, <2>2, ConcatEmptySeq
<1>8. NoBytes \o bytes = bytes
  BY <1>3, ConcatEmptySeq DEF NoBytes
<1> HIDE DEF ready
<1>9. Served(published, ready, NoBytes)
  <2>1. ready.joined <= Len(published)
    BY <1>1, <1>6 DEF k
  <2>2. \A t \in Cached : LastOf(published, t, ready.joined, ready.period) \in Seq(Bytes)
    BY <1>2, <1>6
  <2> QED
    BY <1>3, <1>6, <1>7, <1>8, <2>1, <2>2 DEF Served
<1>10. Answered(client) = IF Fits(NoBytes, bytes) THEN ready ELSE Closed(client)
  BY DEF Answered, bytes, ready, k
<1>11. Closed(client).stage # "ready"
  BY DEF Closed, ClientType
<1> QED
  BY <1>5, <1>6, <1>9, <1>10, <1>11

LEMMA RequestServed ==
  ASSUME CasterTypeOK, CachedIsLast, NEW client \in ClientType, NEW got,
         Served(published, client, got), NEW asked \in Requested(client)
  PROVE  asked \in ClientType /\ Served(published, asked, got)
<1>1. CASE client.stage \notin {"backlog", "accepted"}
  BY <1>1 DEF Requested
<1>2. CASE client.stage \in {"backlog", "accepted"}
  <2>1. got = NoBytes /\ client.pending = NoBytes
    BY <1>2 DEF Served
  <2>2. CASE asked = [client EXCEPT !.stage = "accepted"]
    <3>1. /\ asked \in ClientType
          /\ asked.stage = "accepted" /\ asked.pending = client.pending
          /\ asked.joined = client.joined /\ asked.period = client.period
      BY <2>2 DEF ClientType, Stages
    <3>2. ServedTo(published, asked) = ServedTo(published, client)
      BY <3>1 DEF ServedTo
    <3> QED
      BY <2>1, <3>1, <3>2 DEF Served
  <2>3. CASE asked = Closed(client)
    BY <2>3, ClosedServed
  <2>4. CASE asked = Answered(client)
    BY <2>1, <2>3, <2>4, AnsweredServed, ClosedServed
  <2> QED
    BY <1>2, <2>2, <2>3, <2>4 DEF Requested
<1> QED
  BY <1>1, <1>2

LEMMA SplitAt ==
  ASSUME NEW s \in Seq(Bytes), NEW n \in 0 .. Len(s)
  PROVE  SubSeq(s, 1, n) \o SubSeq(s, n + 1, Len(s)) = s
<1>1. Len(s) \in Nat
  OBVIOUS
<1>2. 1 \in 1 .. Len(s) + 1 /\ n \in 1 - 1 .. Len(s) /\ Len(s) \in n .. Len(s)
  BY <1>1
<1>3. SubSeq(s, 1, n) \o SubSeq(s, n + 1, Len(s)) = SubSeq(s, 1, Len(s))
  BY <1>2, ConcatAdjacentSubSeq
<1> QED
  BY <1>3, SubSeqFull

\* Sending moves what is next from what waits to what was received.
LEMMA SentServed ==
  ASSUME NEW frames, NEW client \in ClientType, NEW got \in Seq(Bytes),
         Served(frames, client, got), NEW sent \in Sent(client)
  PROVE  /\ sent.client \in ClientType
         /\ got \o sent.bytes \in Seq(Bytes)
         /\ Served(frames, sent.client, got \o sent.bytes)
<1> DEFINE p == client.pending
           Rest(n) == [client EXCEPT !.pending = SubSeq(@, n + 1, Len(@))]
           First(n) == SubSeq(client.pending, 1, n)
<1>1. p \in Seq(Bytes) /\ Len(p) \in Nat
  BY DEF ClientType
<1>2. got \o NoBytes = got
  BY ConcatEmptySeq DEF NoBytes
<1>3. ASSUME sent = [client |-> Closed(client), bytes |-> NoBytes]
      PROVE  /\ sent.client \in ClientType
             /\ got \o sent.bytes \in Seq(Bytes)
             /\ Served(frames, sent.client, got \o sent.bytes)
  BY <1>2, <1>3, ClosedServed
<1>4. ASSUME NEW n \in 0 .. Len(p), sent = [client |-> Rest(n), bytes |-> First(n)]
      PROVE  /\ sent.client \in ClientType
             /\ got \o sent.bytes \in Seq(Bytes)
             /\ Served(frames, sent.client, got \o sent.bytes)
  <2> DEFINE first == SubSeq(p, 1, n)
             rest == SubSeq(p, n + 1, Len(p))
  <2>1. first \in Seq(Bytes) /\ rest \in Seq(Bytes)
    BY <1>1
  <2>2. first \o rest = p
    BY <1>1, SplitAt
  <2>3. /\ sent.client = [client EXCEPT !.pending = rest]
        /\ sent.bytes = first
    BY <1>4
  <2> HIDE DEF first, rest
  <2>4. /\ sent.client \in ClientType
        /\ sent.client.pending = rest
        /\ sent.client.stage = client.stage
        /\ sent.client.joined = client.joined /\ sent.client.period = client.period
    <3> DEFINE moved == [client EXCEPT !.pending = rest]
    <3>1. moved \in ClientType
      BY <2>1 DEF ClientType
    <3>2. /\ moved.pending = rest /\ moved.stage = client.stage
          /\ moved.joined = client.joined /\ moved.period = client.period
      BY DEF ClientType
    <3> HIDE DEF moved
    <3>3. sent.client = moved
      BY <2>3 DEF moved
    <3> QED
      BY <3>1, <3>2, <3>3
  <2>5. ServedTo(frames, sent.client) = ServedTo(frames, client)
    BY <2>4 DEF ServedTo
  <2>6. got \o first \in Seq(Bytes) /\ (got \o first) \o rest = got \o p
    <3>1. (got \o first) \o rest = got \o (first \o rest)
      BY <2>1, ConcatAssociative
    <3>2. got \o first \in Seq(Bytes)
      BY <2>1, ConcatProperties
    <3> QED
      BY <2>2, <3>1, <3>2
  <2>7. CASE client.stage = "ready"
    <3>1. (got \o first) \o rest = ServedTo(frames, client)
      BY <2>6, <2>7 DEF Served
    <3> QED
      BY <2>1, <2>3, <2>4, <2>5, <2>6, <2>7, <3>1 DEF Served
  <2>8. CASE client.stage # "ready"
    <3>1. p = NoBytes
      BY <2>8 DEF Served
    <3>2. first = NoBytes /\ rest = NoBytes
      <4>1. first \o rest = << >>
        BY <2>2, <3>1 DEF NoBytes
      <4> QED
        BY <2>1, <4>1, ConcatEqualIffEmpty DEF NoBytes
    <3>3. got \o first = got
      BY <1>2, <3>2
    <3> QED
      BY <2>3, <2>4, <2>5, <2>8, <3>2, <3>3 DEF Served
  <2> QED
    BY <2>7, <2>8
<1> QED
  BY <1>3, <1>4 DEF Sent

-----------------------------------------------------------------------------
(* The caster                                                              *)

\* A connection that has asked for nothing.
LEMMA NewClient ==
  ASSUME NEW frames \in Seq(FrameType), NEW stage \in {"away", "backlog"}
  PROVE  Client(stage) \in ClientType /\ Served(frames, Client(stage), NoBytes)
<1> DEFINE new == Client(stage)
<1>1. new \in ClientType /\ new.joined = 0 /\ new.stage = stage /\ new.pending = NoBytes
  BY NoBytesType DEF Client, ClientType, Stages
<1>2. \A t, p : LastOf(frames, t, 0, p) \in Seq(Bytes)
  BY NoBytesType DEF LastOf
<1>3. new.joined <= Len(frames)
  BY <1>1
<1> HIDE DEF new
<1>4. \A t \in Cached : LastOf(frames, t, new.joined, new.period) \in Seq(Bytes)
  BY <1>1, <1>2
<1>5. \E rest \in Seq(Bytes) : NoBytes \o rest = ServedTo(frames, new)
  BY <1>1, <1>3, <1>4, NothingYet
<1>6. Served(frames, new, NoBytes)
  BY <1>1, <1>3, <1>4, <1>5 DEF Served
<1> QED
  BY <1>1, <1>6 DEF new

LEMMA CasterStarts == CasterInit => CasterInv
<1> SUFFICES ASSUME CasterInit PROVE CasterInv
  OBVIOUS
<1>1. /\ cached = NothingCached /\ published = << >> /\ period = 0
      /\ clients = [c \in Clients |-> Client("away")]
      /\ received = [c \in Clients |-> NoBytes]
  BY DEF CasterInit
<1>2. published \in Seq(FrameType) /\ Client("away") \in ClientType
  <2>1. published \in Seq(FrameType)
    BY <1>1, EmptySeq
  <2>2. "away" \in {"away", "backlog"}
    OBVIOUS
  <2> QED
    BY <2>1, <2>2, NewClient
<1>3. CasterTypeOK
  BY <1>1, <1>2, NoBytesType DEF CasterTypeOK, NothingCached, Cached
<1>4. \A t, p : LastOf(published, t, 0, p) = NoBytes
  BY DEF LastOf
<1>5. CachedIsLast
  BY <1>1, <1>4 DEF CachedIsLast, NothingCached
<1>6. Served(published, Client("away"), NoBytes)
  BY <1>2, NewClient
<1> QED
  BY <1>1, <1>3, <1>5, <1>6 DEF CasterInv

\* A step that publishes nothing keeps the invariant if it keeps what is cached,
\* or begins a period with nothing cached, and serves every client it changes.
LEMMA NothingPublished ==
  ASSUME CasterInv, published' = published,
         \/ period' = period /\ cached' = cached
         \/ period' = period + 1 /\ cached' = NothingCached,
         clients' \in [Clients -> ClientType], received' \in [Clients -> Seq(Bytes)],
         \A c \in Clients : Served(published, clients'[c], received'[c])
  PROVE  CasterInv'
<1>1. CasterTypeOK /\ CachedIsLast
  BY DEF CasterInv
<1>2. CasterTypeOK'
  <2>1. cached \in [Cached -> Seq(Bytes)] /\ published \in Seq(FrameType) /\ period \in Nat
    BY <1>1 DEF CasterTypeOK
  <2>2. cached' \in [Cached -> Seq(Bytes)] /\ period' \in Nat
    <3>1. NothingCached \in [Cached -> Seq(Bytes)]
      BY NoBytesType DEF NothingCached
    <3>2. period + 1 \in Nat
      BY <2>1
    <3> QED
      BY <2>1, <3>1, <3>2
  <2> QED
    BY <2>1, <2>2 DEF CasterTypeOK
<1>3. CachedIsLast'
  <2>1. CASE period' = period /\ cached' = cached
    BY <1>1, <2>1 DEF CachedIsLast
  <2>2. CASE period' = period + 1 /\ cached' = NothingCached
    <3>1. period \in Nat /\ \A n \in 1 .. Len(published) : published[n].period \in Nat
      <4>1. period \in Nat /\ published \in Seq(FrameType)
        BY <1>1 DEF CasterTypeOK
      <4>2. \A n \in 1 .. Len(published) : published[n] \in FrameType
        BY <4>1
      <4> QED
        BY <4>1, <4>2 DEF FrameType
    <3>2. \A n \in 1 .. Len(published) : published[n].period <= period + 1
      BY <1>1, <3>1 DEF CachedIsLast
    <3>3. \A t \in Cached : LastOf(published, t, Len(published), period + 1) = NoBytes
      BY <1>1, <3>1, NewPeriod
    <3> QED
      BY <2>2, <3>2, <3>3 DEF CachedIsLast, NothingCached
  <2> QED
    BY <2>1, <2>2
<1> QED
  BY <1>2, <1>3 DEF CasterInv

LEMMA PublishServes ==
  ASSUME CasterInv, NEW type \in FrameTypes, PublishFrame(type)
  PROVE  CasterInv'
<1> DEFINE k == Len(published)
           frame == [type |-> type, period |-> period]
           all == Append(published, frame)
           bytes == Whole(k + 1)
<1>1. CasterTypeOK /\ CachedIsLast /\ \A c \in Clients : Served(published, clients[c], received[c])
  BY DEF CasterInv
<1>2. /\ cached' = [t \in Cached |-> IF t = type THEN bytes ELSE cached[t]]
      /\ published' = all
      /\ received' = received /\ period' = period
  BY DEF PublishFrame
<1>3. frame \in FrameType /\ published \in Seq(FrameType) /\ period \in Nat
  BY <1>1 DEF CasterTypeOK, FrameType
<1>4. k \in Nat /\ all \in Seq(FrameType) /\ Len(all) = k + 1
  BY <1>3
<1>5. bytes \in Seq(Bytes)
  BY <1>4, WholeType
<1>6. \A c \in Clients :
        clients'[c] \in ClientType /\ Served(all, clients'[c], received[c])
  <2> SUFFICES ASSUME NEW c \in Clients
               PROVE  clients'[c] \in ClientType /\ Served(all, clients'[c], received[c])
    OBVIOUS
  <2>1. clients'[c] =
          IF clients[c].stage = "ready"
          THEN IF Fits(clients[c].pending, bytes)
               THEN [clients[c] EXCEPT !.pending = @ \o bytes]
               ELSE Closed(clients[c])
          ELSE clients[c]
    BY DEF PublishFrame
  <2>2. /\ clients[c] \in ClientType /\ received[c] \in Seq(Bytes)
        /\ Served(published, clients[c], received[c])
    BY <1>1 DEF CasterTypeOK
  <2>3. /\ Served(all, clients[c], received[c]) \/ clients[c].stage = "ready"
        /\ Served(all, Closed(clients[c]), received[c])
        /\ [clients[c] EXCEPT !.pending = @ \o bytes] \in ClientType
        /\ clients[c].stage = "ready" =>
             Served(all, [clients[c] EXCEPT !.pending = @ \o bytes], received[c])
    BY <1>3, <2>2, FrameQueued
  <2>4. Closed(clients[c]) \in ClientType
    BY <2>2, ClosedServed
  <2> QED
    BY <2>1, <2>2, <2>3, <2>4
<1>7. clients' \in [Clients -> ClientType]
  <2>1. clients' = [c \in Clients |-> clients'[c]]
    BY DEF PublishFrame
  <2> QED
    BY <1>6, <2>1
<1>8. CasterTypeOK'
  BY <1>1, <1>2, <1>4, <1>5, <1>7 DEF CasterTypeOK
<1>9. CachedIsLast'
  <2>1. \A n \in 1 .. k + 1 : all[n].period <= period
    <3>1. \A n \in 1 .. k : all[n] = published[n] /\ published[n].period <= period
      BY <1>1, <1>3 DEF CachedIsLast
    <3>2. all[k + 1].period = period
      BY <1>3
    <3> QED
      BY <1>3, <1>4, <3>1, <3>2
  <2>2. ASSUME NEW t \in Cached
        PROVE  cached'[t] = LastOf(all, t, k + 1, period)
    <3>1. CASE t = type
      <4>1. LastOf(all, frame.type, k + 1, frame.period) = bytes
        BY <1>3, NewestFrame
      <4> QED
        BY <1>2, <3>1, <4>1
    <3>2. CASE t # type
      <4>1. LastOf(all, t, k + 1, period) = LastOf(published, t, k, period)
        BY <1>3, <3>2, OtherFrame
      <4> QED
        BY <1>1, <1>2, <3>2, <4>1 DEF CachedIsLast
    <3> QED
      BY <3>1, <3>2
  <2> QED
    BY <1>2, <1>4, <2>1, <2>2 DEF CachedIsLast
<1> QED
  BY <1>2, <1>6, <1>8, <1>9 DEF CasterInv

LEMMA PollServes ==
  ASSUME CasterInv, Poll
  PROVE  CasterInv'
<1>1. CasterTypeOK /\ CachedIsLast /\ \A c \in Clients : Served(published, clients[c], received[c])
  BY DEF CasterInv
<1>2. PICK outcome \in [Clients -> UNION {Polled(clients[c]) : c \in Clients}] :
        /\ \A c \in Clients : outcome[c] \in Polled(clients[c])
        /\ clients' = [c \in Clients |-> outcome[c].client]
        /\ received' = [c \in Clients |-> received[c] \o outcome[c].bytes]
  BY DEF Poll
<1>3. ASSUME NEW c \in Clients
      PROVE  /\ outcome[c].client \in ClientType
             /\ received[c] \o outcome[c].bytes \in Seq(Bytes)
             /\ Served(published, outcome[c].client, received[c] \o outcome[c].bytes)
  <2>1. PICK asked \in Requested(clients[c]) : outcome[c] \in Sent(asked)
    BY <1>2 DEF Polled
  <2>2. clients[c] \in ClientType /\ received[c] \in Seq(Bytes)
    BY <1>1 DEF CasterTypeOK
  <2>3. asked \in ClientType /\ Served(published, asked, received[c])
    BY <1>1, <2>2, RequestServed
  <2> QED
    BY <2>1, <2>2, <2>3, SentServed
<1>4. published' = published /\ period' = period /\ cached' = cached
  BY DEF Poll
<1>5. clients' \in [Clients -> ClientType] /\ received' \in [Clients -> Seq(Bytes)]
  BY <1>2, <1>3
<1>6. \A c \in Clients : Served(published, clients'[c], received'[c])
  BY <1>2, <1>3
<1> QED
  BY <1>4, <1>5, <1>6, NothingPublished

\* For any clients, sources, frames and buffer: a client gets every frame
\* whole and in order from the moment it is served, after the static frames
\* of the source that is active then (local_rtcm_caster.cpp, PublishFrame and
\* Poll).
THEOREM ServesWhole == CasterSpec => []ServedWhole
<1>1. CasterInv /\ [CasterNext]_casterVars => CasterInv'
  <2> SUFFICES ASSUME CasterInv, [CasterNext]_casterVars PROVE CasterInv'
    OBVIOUS
  <2>1. /\ CasterTypeOK
        /\ clients \in [Clients -> ClientType] /\ received \in [Clients -> Seq(Bytes)]
        /\ \A c \in Clients : Served(published, clients[c], received[c])
    BY DEF CasterInv, CasterTypeOK
  <2>2. ASSUME UNCHANGED <<clients, received, published>>,
               \/ UNCHANGED <<cached, period>>
               \/ period' = period + 1 /\ cached' = NothingCached
        PROVE  CasterInv'
    BY <2>1, <2>2, NothingPublished
  <2>3. CASE UNCHANGED casterVars
    BY <2>2, <2>3 DEF casterVars
  <2>4. CASE \E s \in Identities : ActivateSource(s)
    BY <2>2, <2>4 DEF ActivateSource
  <2>5. CASE EndSource
    BY <2>2, <2>5 DEF EndSource
  <2>6. CASE Stopped
    <3>1. \A c \in Clients : Closed(clients[c]) \in ClientType /\ Served(published, Closed(clients[c]), received[c])
      BY <2>1, ClosedServed
    <3>2. /\ clients' = [c \in Clients |-> IF clients[c].stage = "away" THEN clients[c] ELSE Closed(clients[c])]
          /\ cached' = NothingCached /\ period' = period + 1
          /\ published' = published /\ received' = received
      BY <2>6 DEF Stopped
    <3>3. clients' \in [Clients -> ClientType]
      BY <2>1, <3>1, <3>2
    <3>4. \A c \in Clients : Served(published, clients'[c], received'[c])
      BY <2>1, <3>1, <3>2
    <3> QED
      BY <2>1, <3>2, <3>3, <3>4, NothingPublished
  <2>7. CASE \E type \in FrameTypes : PublishFrame(type)
    BY <2>7, PublishServes
  <2>8. CASE Poll
    BY <2>8, PollServes
  <2>9. ASSUME NEW c \in Clients, Connects(c)
        PROVE  CasterInv'
    <3> DEFINE new == Client("backlog")
    <3>1. /\ clients[c].stage = "away" /\ clients' = [clients EXCEPT ![c] = new]
          /\ UNCHANGED <<cached, received, published, period>>
      BY <2>9 DEF Connects
    <3>2. new \in ClientType /\ Served(published, new, NoBytes)
      BY <2>1, NewClient DEF CasterTypeOK
    <3>3. received[c] = NoBytes
      BY <2>1, <3>1 DEF Served
    <3> HIDE DEF new
    <3>4. clients' \in [Clients -> ClientType]
      BY <2>1, <3>1, <3>2
    <3>5. \A d \in Clients : Served(published, clients'[d], received'[d])
      BY <2>1, <3>1, <3>2, <3>3
    <3> QED
      BY <2>1, <3>1, <3>4, <3>5, NothingPublished
  <2> QED
    BY <2>3, <2>4, <2>5, <2>6, <2>7, <2>8, <2>9 DEF CasterNext, Start, Stop
<1>2. CasterInv => ServedWhole
  <2> SUFFICES ASSUME CasterInv, NEW c \in Clients
               PROVE  IF clients[c].stage = "ready"
                      THEN received[c] \o clients[c].pending = ServedTo(published, clients[c])
                      ELSE IsPrefix(received[c], ServedTo(published, clients[c]))
    BY DEF ServedWhole
  <2>1. Served(published, clients[c], received[c]) /\ received[c] \in Seq(Bytes)
    BY DEF CasterInv, CasterTypeOK
  <2>2. PICK rest \in Seq(Bytes) : received[c] \o rest = ServedTo(published, clients[c])
    BY <2>1 DEF Served
  <2>3. IsPrefix(received[c], received[c] \o rest)
    BY <2>1, FirstPartIsPrefix
  <2> QED
    BY <2>1, <2>2, <2>3 DEF Served
<1> QED
  BY <1>1, <1>2, CasterStarts, PTL DEF CasterSpec
=============================================================================
