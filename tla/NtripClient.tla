----------------------------- MODULE NtripClient -----------------------------
(***************************************************************************)
(* gnss_ntrip/src/ntrip_client.cpp and gga_injector.cpp: a client of one   *)
(* caster.  It owns a socket, sends one request, strips the answer's       *)
(* header, watches that corrections flow, and offers positions.  It never  *)
(* acts by itself: each operation is a call, with the caller's time stamp; *)
(* deadlines on the flow use the steady clock `now'.                       *)
(*                                                                         *)
(* Bytes are abstract: a read is told what they turned out to be.  What is *)
(* kept of an unfinished header or frame is only whether it is there and   *)
(* of which connection.  Texts, credentials and byte counters are left out.*)
(***************************************************************************)
EXTENDS NtripReconnectPolicy

CONSTANTS
  Sources,       \* identities of casters: host, port, mount point
  Incomplete,    \* those without a host or a port
  FirstTimeout, FrameTimeout,  \* 0 disables
  Threshold,     \* operational_min_valid_rtcm_frames
  GgaEnabled, GgaInterval,
  MaxFailures    \* bound: failures until the client is operational

ASSUME ClientAssumption ==
  /\ Incomplete \subseteq Sources
  /\ FirstTimeout \in Nat /\ FrameTimeout \in Nat /\ Threshold \in Nat /\ GgaInterval \in Nat
  /\ GgaEnabled \in BOOLEAN /\ MaxFailures \in Nat

VARIABLES
  source,     \* source_identity_, that of config_
  state,      \* state_
  open,       \* transport_ is open
  metrics,    \* request_sent, response_received, connected, last_error
  flow,       \* correction_flow_state_ and the two steady times
  arrival,    \* the arrival-age estimator holds an observation
  ggaSentAt,  \* gga_injection_policy_.last_sent_timestamp_ns
  buffer,     \* response_buffer_: nothing, bytes of this connection, of an earlier one
  framer,     \* rtcm_framer_'s unfinished frame, likewise
  failures    \* history: connections lost since the client was operational

clientVars == <<source, state, open, metrics, flow, arrival, ggaSentAt, buffer, framer, failures>>
clientAndPolicyVars == <<clientVars, policyVars>>

ClientStates == {"disconnected", "connecting", "connected", "streaming", "failed"}
Errors == {"none", "configuration", "http", "protocol", "timeout", "disconnected", "unknown"}
Held == {"none", "this", "earlier"}

NoMetrics == [requested |-> FALSE, responded |-> FALSE, connected |-> FALSE, error |-> "none"]
NoFlow ==
  [accepted |-> FALSE, acceptedAt |-> Never, frames |-> 0, frameAt |-> Never,
   operational |-> FALSE]

OperationalAt == AtLeast(1, Threshold)

ClientTypeOK ==
  /\ reconnect \in ReconnectStates
  /\ source \in Sources
  /\ state \in ClientStates \ {"connecting"}
  /\ open \in BOOLEAN
  /\ metrics \in [requested : BOOLEAN, responded : BOOLEAN, connected : BOOLEAN, error : Errors]
  /\ flow \in [accepted : BOOLEAN, acceptedAt : Times \cup {Never}, frames : 0 .. OperationalAt,
               frameAt : Times \cup {Never}, operational : BOOLEAN]
  /\ arrival \in BOOLEAN
  /\ ggaSentAt \in Times \cup {Never}
  /\ buffer \in Held /\ framer \in Held
  /\ failures \in Nat

ClientInit ==
  /\ PolicyInit
  /\ source \in Sources
  /\ state = "disconnected"
  /\ open = FALSE
  /\ metrics = NoMetrics
  /\ flow = NoFlow
  /\ arrival = FALSE
  /\ ggaSentAt = Never
  /\ buffer = "none" /\ framer = "none"
  /\ failures = 0

-----------------------------------------------------------------------------
(* FailWith                                                                *)

\* Failures that count for reconnection: of a live client, and not of its
\* configuration.
Tracked(st, error) ==
  /\ st \notin {"disconnected", "failed"}
  /\ error \notin {"none", "configuration"}

\* FailWith, called in state st with metrics m.  The buffers and the flow
\* stay as they are until the next connection.
Fail(st, m, error, time) ==
  /\ reconnect' = IF Tracked(st, error) THEN OnFailure(reconnect, time) ELSE reconnect
  /\ failures' = IF Tracked(st, error) THEN failures + 1 ELSE failures
  /\ state' = "failed"
  /\ open' = FALSE
  /\ arrival' = FALSE
  /\ metrics' = [m EXCEPT !.connected = FALSE, !.error = error]

\* What is left in a buffer when its connection ends.
Carried(held) == IF held = "none" THEN "none" ELSE "earlier"

FailNow(error, time) ==
  /\ Fail(state, metrics, error, time)
  /\ buffer' = Carried(buffer) /\ framer' = Carried(framer)
  /\ UNCHANGED <<source, flow, ggaSentAt>>

-----------------------------------------------------------------------------
(* set_config, Connect, AdoptConnectedSocket, Disconnect                   *)

\* Mutant: a new session keeps the unfinished frame.
ResetSessionButFramer ==
  /\ buffer' = "none" /\ framer' = Carried(framer)
  /\ flow' = NoFlow
  /\ UNCHANGED ggaSentAt

\* ResetSessionState; ResetSourceState differs in the monitor, which is not
\* modelled.
ResetSession ==
  /\ buffer' = "none" /\ framer' = "none"
  /\ flow' = NoFlow
  /\ UNCHANGED ggaSentAt

\* A configuration of the same caster only restarts the GGA interval.
SetConfig(configured) ==
  /\ source' = configured
  /\ ggaSentAt' = Never
  /\ IF configured # source
     THEN /\ reconnect' = Fresh
          /\ failures' = 0
          /\ state' = "disconnected"
          /\ open' = FALSE
          /\ arrival' = FALSE
          /\ metrics' = NoMetrics
          /\ buffer' = "none" /\ framer' = "none"
          /\ flow' = NoFlow
     ELSE UNCHANGED <<reconnect, failures, state, open, arrival, metrics, buffer, framer, flow>>

\* Mutant: a connection counts as success, whatever comes of it, as
\* docs/ntrip.md:297 still says.
ConnectedIsSuccess ==
  /\ state' = "connected"
  /\ open' = TRUE
  /\ arrival' = FALSE
  /\ metrics' = [NoMetrics EXCEPT !.connected = TRUE]
  /\ reconnect' = OnSuccess(reconnect)
  /\ UNCHANGED failures

Connected ==
  /\ state' = "connected"
  /\ open' = TRUE
  /\ arrival' = FALSE
  /\ metrics' = [NoMetrics EXCEPT !.connected = TRUE]
  /\ UNCHANGED <<reconnect, failures>>

OpenErrors == {"none", "configuration", "timeout", "disconnected", "unknown"}

\* The transport's Open, mapped by MapTransportError.  Any earlier socket is
\* closed first.  The identity is that of the configuration since SetConfig,
\* so the branch for another one is never taken.
Connect(error, time) ==
  /\ ResetSession
  /\ UNCHANGED source
  /\ IF source \in Incomplete THEN Fail(state, NoMetrics, "configuration", time)
     ELSE IF error # "none" THEN Fail("connecting", NoMetrics, error, time)
     ELSE Connected

\* AdoptConnectedSocket fails without a time stamp, which counts as time 0.
Adopt(error) ==
  /\ ResetSession
  /\ UNCHANGED source
  /\ IF error # "none" THEN Fail("connecting", NoMetrics, error, 0) ELSE Connected

Disconnect(error) ==
  /\ open' = FALSE
  /\ state' = "disconnected"
  /\ arrival' = FALSE
  /\ metrics' = [metrics EXCEPT !.connected = FALSE, !.error = error]
  /\ buffer' = Carried(buffer) /\ framer' = Carried(framer)
  /\ UNCHANGED <<source, reconnect, failures, flow, ggaSentAt>>

-----------------------------------------------------------------------------
(* SendRequest, SendGga, MaybeSendGga, MaybeInjectGga                      *)

\* A text is written whole; or a write takes no bytes, or fails.
WriteEnds == {"written", "blocked", "failed"}
WriteError(end) == IF end = "blocked" THEN "timeout" ELSE "disconnected"

Unusable == ~open \/ state = "disconnected"

\* A client that is not connected fails when it is asked to send.
SendRequest(end, time) ==
  \/ Unusable /\ FailNow("disconnected", time)
  \/ ~Unusable /\ state # "failed" /\ ~metrics.requested /\ end # "written"
       /\ FailNow(WriteError(end), time)
  \/ ~Unusable /\ state # "failed" /\ ~metrics.requested /\ end = "written"
       /\ metrics' = [metrics EXCEPT !.requested = TRUE]
       /\ UNCHANGED <<source, state, open, flow, arrival, ggaSentAt, buffer, framer, failures,
                      reconnect>>

\* What is known of the position: no coordinates, no valid fix, a fix.
Positions == {"none", "noFix", "fix"}

GgaSent(time) ==
  /\ ggaSentAt' = time
  /\ UNCHANGED <<source, state, open, metrics, flow, arrival, buffer, framer, failures, reconnect>>

\* No sentence can be built without coordinates.
SendGga(position, end, time) ==
  \/ Unusable /\ FailNow("disconnected", time)
  \/ ~Unusable /\ state # "failed" /\ position # "none" /\ end # "written"
       /\ FailNow(WriteError(end), time)
  \/ ~Unusable /\ state # "failed" /\ position # "none" /\ end = "written" /\ GgaSent(time)

\* ShouldInjectGga, for a position with a fix.
GgaDue(time) ==
  GgaEnabled /\ (ggaSentAt # Never => time >= ggaSentAt + GgaInterval)

\* A position without a fix is not sent.
MaybeSendGga(position, end, time) ==
  /\ GgaEnabled
  /\ \/ Unusable /\ FailNow("disconnected", time)
     \/ ~Unusable /\ position = "fix" /\ GgaDue(time) /\ SendGga(position, end, time)

InjectionDue(position, time) ==
  open /\ state = "streaming" /\ position = "fix" /\ GgaDue(time)

\* Through the injector, only while streaming.  A write that takes no bytes
\* is an error of the writer.
MaybeInjectGga(position, end, time) ==
  /\ InjectionDue(position, time)
  /\ \/ end = "written" /\ GgaSent(time)
     \/ end # "written" /\ FailNow("disconnected", time)

-----------------------------------------------------------------------------
(* Read                                                                    *)

\* What a read of the socket brings: nothing, the end, an error, or bytes.
\* Of a header, what it turns out to be; of payload, the valid frames, whether
\* a frame is left unfinished, and what the observations do to the age.
Headers == {"incomplete", "tooLong", "refused", "malformed", "accepted"}
Reads ==
  [end : {"bytes"}, header : Headers, frames : {1, 2}, unfinished : BOOLEAN,
   age : {"kept", "set", "reset"}]
  \cup [end : {"bytes"}, header : Headers, frames : {0}, unfinished : BOOLEAN, age : {"kept"}]
  \cup [end : {"idle", "closed", "error"}, header : {"incomplete"}, frames : {0},
        unfinished : {FALSE}, age : {"kept"}]

Readable == ~Unusable /\ state # "failed" /\ metrics.requested

\* HasSteadyElapsed.
Elapsed(since, timeout) == timeout # 0 /\ since # Never /\ now >= since + timeout

\* Mutant: nothing is expected after the first frame.
FlowNeverStarted ==
  /\ state = "streaming" /\ flow.accepted
  /\ flow.frames = 0 /\ Elapsed(flow.acceptedAt, FirstTimeout)

\* CheckCorrectionFlowTimeout.
FlowTimedOut ==
  /\ state = "streaming" /\ flow.accepted
  /\ IF flow.frames > 0 THEN Elapsed(flow.frameAt, FrameTimeout)
                        ELSE Elapsed(flow.acceptedAt, FirstTimeout)

\* NoteCorrectionFlowProgress; frames past the threshold are not counted.
Progress(f, frames) ==
  IF frames = 0 THEN f
  ELSE [f EXCEPT !.frames = AtMost(@ + frames, OperationalAt),
                 !.frameAt = now,
                 !.operational = @ \/ f.frames + frames >= OperationalAt]

\* Payload, read in flow f.
Payload(f, got) ==
  /\ flow' = Progress(f, got.frames)
  /\ IF flow'.operational /\ ~f.operational
     THEN reconnect' = OnSuccess(reconnect) /\ failures' = 0
     ELSE UNCHANGED <<reconnect, failures>>
  /\ arrival' = CASE got.age = "kept" -> arrival
                  [] got.age = "set" -> TRUE
                  [] got.age = "reset" -> FALSE
  /\ framer' = IF got.unfinished THEN "this" ELSE "none"
  /\ UNCHANGED <<source, open, ggaSentAt>>

ReadsPayload(got) ==
  /\ state = "streaming"
  /\ Payload(flow, got)
  /\ UNCHANGED <<state, metrics, buffer>>

HeaderErrors == [tooLong |-> "protocol", refused |-> "http", malformed |-> "protocol"]

\* HandleResponseBytes.
ReadsHeader(got, time) ==
  /\ state = "connected"
  /\ \/ /\ got.header = "incomplete"
        /\ buffer' = "this"
        /\ UNCHANGED <<source, state, open, metrics, flow, arrival, ggaSentAt, framer, failures,
                       reconnect>>
     \/ /\ got.header \in DOMAIN HeaderErrors
        /\ Fail(state, metrics, HeaderErrors[got.header], time)
        /\ buffer' = "earlier" /\ framer' = Carried(framer)
        /\ UNCHANGED <<source, flow, ggaSentAt>>
     \/ /\ got.header = "accepted"
        /\ buffer' = "none"
        /\ state' = "streaming"
        /\ metrics' = [metrics EXCEPT !.responded = TRUE]
        /\ Payload([flow EXCEPT !.accepted = TRUE, !.acceptedAt = now], got)

\* Without a request, or in no state to read, Read only reports.
Read(got, time) ==
  /\ Readable
  /\ \/ FlowTimedOut /\ FailNow("timeout", time)
     \/ ~FlowTimedOut /\ got.end \in {"closed", "error"} /\ FailNow("disconnected", time)
     \/ ~FlowTimedOut /\ got.end = "bytes" /\ (ReadsPayload(got) \/ ReadsHeader(got, time))

-----------------------------------------------------------------------------
Calls ==
  \/ \E configured \in Sources : SetConfig(configured)
  \/ \E error \in OpenErrors : Connect(error, now) \/ Adopt(error)
  \/ \E error \in {"none", "unknown"} : Disconnect(error)
  \/ \E end \in WriteEnds : SendRequest(end, now)
  \/ \E position \in Positions, end \in WriteEnds :
       SendGga(position, end, now) \/ MaybeSendGga(position, end, now)
         \/ MaybeInjectGga(position, end, now)
  \/ \E got \in Reads : Read(got, now)

ClientNext ==
  \/ failures < MaxFailures /\ Calls /\ UNCHANGED now
  \/ Elapses /\ UNCHANGED clientVars

ClientSpec == ClientInit /\ [][ClientNext]_clientAndPolicyVars

-----------------------------------------------------------------------------
(* Properties                                                              *)

\* The state the caller sees, the flag in the metrics and the socket agree:
\* no failure or disconnect leaks a socket, and none is taken away under a
\* client that believes itself connected.  And the age of corrections is
\* unavailable "after disconnect, failure, reconnect, source change"
\* (docs/ntrip.md:343).  Some twenty places set these.
SocketAgrees ==
  /\ open <=> state \in {"connected", "streaming"}
  /\ metrics.connected <=> open
  /\ arrival => state = "streaming"

\* No byte of one connection is read as if it belonged to the next: neither
\* the rest of a refused header nor half a frame.
NoStaleBytes == open => buffer # "earlier" /\ framer # "earlier"

\* Connections are told apart: what is held of one (its socket, its flags, the
\* age of its corrections, its unread bytes) ends with it.
ConnectionsApart == SocketAgrees /\ NoStaleBytes

\* Only corrections that flow reset the backoff: each lost connection counts,
\* although the caster accepted it, or even answered and sent a frame, so that
\* "connect-one-frame-drop loops" back off (ntrip_config.hpp:60-62).
BackoffUntilOperational ==
  Enabled /\ ResetAfterSuccess =>
    reconnect.attempts =
      IF MaxAttempts = Unlimited THEN failures ELSE AtMost(failures, MaxAttempts)
==============================================================================
