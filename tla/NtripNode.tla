------------------------------ MODULE NtripNode ------------------------------
(***************************************************************************)
(* gnss_ros2/src/ntrip_node.cpp: the node that gives an NtripClient its    *)
(* thread.  A wall timer calls StepOnce: connect or reconnect if it is     *)
(* time, send the request, read up to a number of chunks, offer a          *)
(* position.  Status messages of the receiver node arrive on the same      *)
(* executor, between two ticks.                                            *)
(*                                                                         *)
(* The other actors are external: the caster, as the outcomes of the       *)
(* client's calls; the receiver nodes, which publish the state they hold,  *)
(* repeatedly, whether or not it is new.  Diagnostics are left out.        *)
(***************************************************************************)
EXTENDS NtripClient

CONSTANTS
  Publishers,   \* sources of status messages: a source and an incarnation
  Legacy,       \* those that name no source and count no observations
  Retired,      \* incarnations that are over: what they published still arrives
  Settings,     \* what expected_source_incarnation may allow: one incarnation,
                \* or, when it is not set, any publisher
  NoPublisher,
  StaleAfter,   \* kGnssInputStaleTimeout
  MaxReads,     \* reads of one tick, 8 in the code
  MaxUpdates    \* bound: updates of one publisher's state

ASSUME NodeAssumption ==
  /\ Legacy \subseteq Publishers /\ Retired \subseteq Publishers
  /\ Settings \subseteq SUBSET Publishers
  /\ NoPublisher \notin Publishers
  /\ StaleAfter \in Nat /\ MaxReads \in Nat /\ MaxUpdates \in Nat

VARIABLES
  pc,        \* where StepOnce is
  stamp,     \* now_ns of the tick
  tried,     \* initial_connect_attempted_
  reads,     \* iterations of ReadOnce
  expected,  \* the publishers that config_.expected_source_incarnation allows
  active,    \* active_source_
  position,  \* runtime_state_, as far as GGA needs it
  seenAt,    \* last_position_observation_time_
  lastSeq,   \* last_position_observation_sequence_
  lastStamp, \* last_legacy_position_stamp_ns_
  updates,   \* external: each publisher's observation sequence and stamp
  arrived    \* history: the last observation the node took over: whose, which, since when

stepVars == <<pc, stamp, tried, reads>>
statusVars == <<expected, active, position, seenAt, lastSeq, lastStamp, arrived>>
nodeVars == <<clientAndPolicyVars, stepVars, statusVars, updates>>

Steps == {"idle", "connect", "request", "read", "gga"}

NodeTypeOK ==
  /\ ClientTypeOK
  /\ pc \in Steps
  /\ stamp \in Times
  /\ tried \in BOOLEAN
  /\ reads \in 0 .. MaxReads
  /\ expected \in Settings
  /\ active \in Publishers \cup {NoPublisher}
  /\ position \in Positions
  /\ seenAt \in Times \cup {Never}
  /\ lastSeq \in Nat /\ lastStamp \in Nat
  /\ updates \in [Publishers -> [seq : Nat, stamp : Nat]]
  /\ arrived \in [from : Publishers \cup {NoPublisher}, seq : Nat, at : Times \cup {Never}]

NodeInit ==
  /\ ClientInit
  /\ source \notin Incomplete
  /\ pc = "idle" /\ stamp = 0 /\ tried = FALSE /\ reads = 0
  /\ expected \in Settings
  /\ active = NoPublisher /\ position = "none" /\ seenAt = Never
  /\ lastSeq = 0 /\ lastStamp = 0
  /\ updates = [p \in Publishers |->
       IF p \in Retired THEN [seq |-> 1, stamp |-> 1] ELSE [seq |-> 0, stamp |-> 0]]
  /\ arrived = [from |-> NoPublisher, seq |-> 0, at |-> Never]

Goto(step) == pc' = step /\ UNCHANGED <<stamp, tried, statusVars, updates, now>>

-----------------------------------------------------------------------------
(* StepOnce                                                                *)

TimerFires ==
  /\ pc = "idle"
  /\ pc' = "connect"
  /\ stamp' = now
  /\ UNCHANGED <<clientVars, policyVars, tried, reads, statusVars, updates>>

IsConnected == state \in {"connected", "streaming"}

\* Mutant: a lost client is never connected again.
MayConnectOnce == ~tried

\* The first attempt, and those the policy asks for.
MayConnect ==
  \/ ~tried
  \/ state = "failed" /\ ShouldReconnect(reconnect, stamp)

\* Open cannot refuse the node's configuration, which was validated.
EnsureConnected ==
  /\ pc = "connect"
  /\ IF ~IsConnected /\ MayConnect
     THEN /\ tried' = TRUE
          /\ \E error \in OpenErrors \ {"configuration"} : Connect(error, stamp)
     ELSE UNCHANGED <<tried, clientVars, reconnect>>
  /\ pc' = "request"
  /\ UNCHANGED <<stamp, reads, statusVars, updates, now>>

EnsureRequestSent ==
  /\ pc = "request"
  /\ IF state = "connected" /\ ~metrics.requested
     THEN \E end \in WriteEnds : SendRequest(end, stamp)
     ELSE UNCHANGED <<clientVars, reconnect>>
  /\ reads' = 0
  /\ Goto("read")

\* One turn of ReadOnce: a turn that brought payload, or the response, is
\* followed by another.
ReadOnce ==
  /\ pc = "read" /\ reads < MaxReads
  /\ metrics.requested /\ IsConnected
  /\ \/ \E got \in Reads :
          /\ Read(got, stamp)
          /\ Goto(IF state' = "streaming" /\ ~FlowTimedOut THEN "read" ELSE "gga")
     \/ /\ ~FlowTimedOut
        /\ UNCHANGED <<clientVars, reconnect>>
        /\ Goto("gga")
  /\ reads' = reads + 1

ReadDone ==
  /\ pc = "read"
  /\ reads = MaxReads \/ ~metrics.requested \/ ~IsConnected
  /\ Goto("gga")
  /\ UNCHANGED <<clientVars, reconnect, reads>>

\* There is a state, and its position is not stale.
PositionFresh == active # NoPublisher /\ (seenAt # Never => now < seenAt + StaleAfter)

MaybeInjects ==
  /\ pc = "gga"
  /\ IF PositionFresh /\ InjectionDue(position, stamp)
     THEN \E end \in WriteEnds : MaybeInjectGga(position, end, stamp)
     ELSE UNCHANGED <<clientVars, reconnect>>
  /\ Goto("idle")
  /\ UNCHANGED reads

NodeStep ==
  TimerFires \/ EnsureConnected \/ EnsureRequestSent \/ ReadOnce \/ ReadDone \/ MaybeInjects

-----------------------------------------------------------------------------
(* OnStatusMessage                                                         *)

Message(p) ==
  [from |-> p, seq |-> IF p \in Legacy THEN 0 ELSE updates[p].seq, stamp |-> updates[p].stamp]

\* Mutant: every message counts as an observation.
AlwaysNew(m) == TRUE

\* By its sequence if it has one, else by its stamp.
IsNewObservation(m) ==
  IF m.seq # 0 THEN lastSeq = 0 \/ m.seq # lastSeq
  ELSE lastStamp = 0 \/ m.stamp + 1 # lastStamp

\* Mutants: a competing source is accepted; the incarnation is not looked at.
AcceptsCompeting(p) == p \in expected
AcceptsRetired(p) == active \in {NoPublisher, p}

\* The node keeps the first source it accepts.  A message with only half of a
\* source is one of a publisher that no setting allows.
Accepts(p) == p \in expected /\ active \in {NoPublisher, p}

\* What tells two states of a publisher apart.
Observation(p) == IF p \in Legacy THEN updates[p].stamp ELSE updates[p].seq

\* A publisher without an observation has no position.
OnStatusMessage(p) ==
  LET m == Message(p)
  IN  /\ pc = "idle"
      /\ updates[p].stamp > 0
      /\ UNCHANGED <<clientVars, policyVars, stepVars, updates>>
      /\ \/ ~Accepts(p) /\ UNCHANGED statusVars
         \/ /\ Accepts(p)
            /\ expected' = expected
            /\ active' = IF active = NoPublisher THEN p ELSE active
            /\ arrived' = [from |-> p, seq |-> Observation(p),
                           at |-> IF Observation(p) = arrived.seq THEN arrived.at ELSE now]
            /\ position' \in (IF updates[p].seq = 0 THEN {"none"} ELSE {"noFix", "fix"})
            /\ lastSeq' = m.seq
            /\ lastStamp' = IF m.seq # 0 THEN 0 ELSE m.stamp + 1
            /\ seenAt' = IF IsNewObservation(m) THEN now ELSE seenAt

\* External: a publisher's receiver reports a position, or something else.
\* A retired incarnation only repeats itself.
Updates(p) ==
  /\ p \notin Retired
  /\ updates[p].stamp < MaxUpdates
  /\ \E positional \in {0, 1} :
       updates' = [updates EXCEPT ![p] = [seq |-> @.seq + positional, stamp |-> @.stamp + 1]]
  /\ UNCHANGED <<clientVars, policyVars, stepVars, statusVars>>

TimePasses == Elapses /\ UNCHANGED <<clientVars, stepVars, statusVars, updates>>

NodeNext ==
  \/ NodeStep
  \/ TimePasses
  \/ \E p \in Publishers : OnStatusMessage(p) \/ Updates(p)

NodeSpec == NodeInit /\ [][NodeNext]_nodeVars

\* The executor is scheduled and time passes; a socket is nonblocking.
FairNodeSpec == NodeSpec /\ WF_nodeVars(NodeStep) /\ WF_nodeVars(TimePasses)

-----------------------------------------------------------------------------
(* Properties                                                              *)

\* A node that lost its caster is never stuck: between ticks a failed client
\* has an attempt scheduled, or the policy has used up its attempts.
RetryIsScheduled ==
  /\ NodeTypeOK
  /\ pc = "idle" /\ tried /\ ~IsConnected =>
       /\ state = "failed"
       /\ \/ reconnect.next # Never
          \/ ~Enabled
          \/ LimitReached(reconnect.attempts)

\* A lost connection is neither forgotten nor retried in a loop: its retry is
\* scheduled, and every loss counts until corrections flow again, not only
\* until the caster accepts a connection (ntrip_config.hpp:60-62).
LossesAreRetried == RetryIsScheduled /\ BackoffUntilOperational

\* What the node knows of its receiver comes of one publisher for life, and a
\* position is offered only if that is one the configuration allows and the
\* position is news: within the time-out of its arrival, however often the same
\* observation is published again.  A retired incarnation is thus excluded
\* where the incarnation is configured, as the combined launch does; without,
\* the first publisher heard is kept, whichever it is (docs/ros2.md:262-271).
GgaIsFresh ==
  /\ arrived.from # NoPublisher => arrived'.from = arrived.from
  /\ ggaSentAt' # ggaSentAt =>
       /\ arrived.from \in expected
       /\ now < arrived.at + StaleAfter

\* A failed client is connected again when its time has come.
RetriesHappen ==
  \A t \in 0 .. Horizon :
    (state = "failed" /\ reconnect.next = t) ~> (state # "failed" \/ reconnect.next # t)

Deadline ==
  IF flow.frames > 0 THEN flow.frameAt + FrameTimeout ELSE flow.acceptedAt + FirstTimeout

\* A stream without corrections is given up, whatever bytes it brings: within
\* the deadline a valid frame arrives, or the client fails and reconnects.
SilentStreamEnds ==
  \A t \in 0 .. Horizon :
    (state = "streaming" /\ Deadline = t) ~> (state # "streaming" \/ Deadline # t)
==============================================================================
