------------------------ MODULE NtripReconnectPolicy ------------------------
(***************************************************************************)
(* gnss_ntrip/src/ntrip_reconnect_policy.cpp: when a client that failed    *)
(* may connect again.  The policy has no state of its own; the caller      *)
(* keeps an NtripReconnectState and says what happened and when.           *)
(*                                                                         *)
(* Times are the caller's nanoseconds, delays its milliseconds, here in    *)
(* one unit.  The multiplier, a double, is in hundredths.                  *)
(***************************************************************************)
EXTENDS Naturals

CONSTANTS
  Enabled, InitialDelay, MaxDelay, Multiplier, ResetAfterSuccess,  \* the policy
  MaxAttempts,  \* max_attempts, or Unlimited
  Unlimited,
  Never,        \* no time
  EndOfTime,    \* the greatest time stamp
  Horizon       \* bound: time stops here

ASSUME PolicyAssumption ==
  /\ Enabled \in BOOLEAN /\ ResetAfterSuccess \in BOOLEAN
  /\ InitialDelay \in Nat /\ MaxDelay \in Nat /\ Multiplier \in Nat
  /\ Unlimited \notin Nat
  /\ MaxAttempts \in Nat \cup {Unlimited}

ASSUME TimeAssumption ==
  /\ EndOfTime \in Nat /\ Horizon \in Nat
  /\ Horizon <= EndOfTime
  /\ Never \notin Nat

VARIABLES
  reconnect,  \* NtripReconnectState
  now         \* the caller's clock

policyVars == <<reconnect, now>>

Times == 0 .. EndOfTime
ReconnectStates ==
  [attempts : Nat, next : Times \cup {Never}, failedAt : Times \cup {Never},
   delay : Nat, exhausted : BOOLEAN]

Fresh ==
  [attempts |-> 0, next |-> Never, failedAt |-> Never, delay |-> 0, exhausted |-> FALSE]

AtMost(a, b) == IF a <= b THEN a ELSE b
AtLeast(a, b) == IF a >= b THEN a ELSE b

-----------------------------------------------------------------------------
\* NextDelay: the first delay, then the last one multiplied and rounded up.
NextDelay(r) ==
  IF r.delay = 0
  THEN AtMost(InitialDelay, MaxDelay)
  ELSE AtMost((r.delay * AtLeast(Multiplier, 100) + 99) \div 100, MaxDelay)

LimitReached(attempts) == MaxAttempts # Unlimited /\ attempts >= MaxAttempts

CanAttempt(r) == Enabled /\ ~r.exhausted /\ ~LimitReached(r.attempts)

\* ComputeNextAttemptTimeNs saturates.
AttemptTime(time, delay) == IF time + delay >= EndOfTime THEN EndOfTime ELSE time + delay

\* OnFailure: schedules the next attempt, unless disabled or out of attempts.
OnFailure(r, time) ==
  IF CanAttempt(r)
  THEN [attempts |-> r.attempts + 1,
        delay |-> NextDelay(r),
        exhausted |-> LimitReached(r.attempts + 1),
        next |-> AttemptTime(time, NextDelay(r)),
        failedAt |-> time]
  ELSE [r EXCEPT !.failedAt = time,
                 !.next = Never,
                 !.exhausted = Enabled /\ LimitReached(r.attempts)]

OnSuccess(r) ==
  IF ResetAfterSuccess THEN Fresh ELSE [r EXCEPT !.exhausted = FALSE, !.next = Never]

ShouldReconnect(r, time) == Enabled /\ r.next # Never /\ time >= r.next

-----------------------------------------------------------------------------
Fails == reconnect' = OnFailure(reconnect, now) /\ UNCHANGED now
Succeeds == reconnect' = OnSuccess(reconnect) /\ UNCHANGED now
Elapses == now < Horizon /\ now' = now + 1 /\ UNCHANGED reconnect

PolicyInit == reconnect = Fresh /\ now = 0
PolicyNext == Fails \/ Succeeds \/ Elapses
PolicySpec == PolicyInit /\ [][PolicyNext]_policyVars

-----------------------------------------------------------------------------
(* Properties                                                              *)

PolicyTypeOK == reconnect \in ReconnectStates /\ now \in 0 .. Horizon

\* The delay stays within its limits and the attempts within theirs, however
\* long the outage: a multiplier below one does not shrink it, the product is
\* capped before it is stored, and a limit of attempts is never passed.
WithinLimits ==
  /\ reconnect.delay <= MaxDelay
  /\ reconnect.attempts > 0 => reconnect.delay >= AtMost(InitialDelay, MaxDelay)
  /\ MaxAttempts # Unlimited => reconnect.attempts <= MaxAttempts

\* A scheduled attempt is a full delay after the failure it answers, except
\* where the clock ends.
NoEarlyRetry ==
  reconnect.next # Never =>
    /\ reconnect.failedAt # Never
    /\ \/ reconnect.next = reconnect.failedAt + reconnect.delay
       \/ reconnect.next = EndOfTime

\* Between successes the delay never shrinks, and a policy that has given up
\* schedules nothing (docs/ntrip.md:291-296; what counts as a success is the
\* client's to say, see BackoffUntilOperational of NtripClient).
BackoffOnlyGrows ==
  [][reconnect' = OnFailure(reconnect, now) =>
       /\ reconnect'.delay >= reconnect.delay
       /\ reconnect.exhausted => reconnect'.next = Never]_policyVars
==============================================================================
