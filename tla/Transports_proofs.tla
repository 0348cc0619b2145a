---------------------------- MODULE Transports_proofs --------------------------
(***************************************************************************)
(* Proofs about the transports.                                            *)
(*                                                                         *)
(* The TCP client's, for every set of configurations, every default budget *)
(* and any number of addresses, sockets and bytes.  Neither property is    *)
(* inductive: that a failure frees everything rests on knowing, at each    *)
(* stage, who owns the socket and the TLS objects (Ownership), and that    *)
(* the last wait ends in time rests on how far it was allowed to go when   *)
(* it began (WaitsEnd).                                                    *)
(*                                                                         *)
(* The serial port's, for any finite set of threads and any set of         *)
(* descriptor numbers.  NoUseAfterClose is not inductive: that             *)
(* CloseImplDrained takes away no thread's descriptor rests on             *)
(* active_operations_ counting the leases exactly, and that nobody         *)
(* publishes another one meanwhile rests on open_close_mutex_.  Nor is     *)
(* NoDescriptorLeak: that Open and Close, wherever they stop, close what   *)
(* is left rests on what each stage of them holds (StagesOfClose).  IInv   *)
(* adds the three.                                                         *)
(***************************************************************************)
EXTENDS PosixSerialTransport, TcpClientTransport, SequenceTheorems, FiniteSetTheorems, TLAPS

-----------------------------------------------------------------------------
(* The TCP client.                                                         *)

\* Who owns the socket at each stage: the call, then the transport.
Searching == {"next"}
Connecting == {"connect", "awaitConnect", "pollConnect", "configure"}
Securing == {"handshake", "awaitPeer", "pollPeer", "shaken"}
Stages == {"idle", "tls"} \cup Searching \cup Connecting \cup Securing

Sockets == Nat \cup {NoSocket}

Errors ==
  {"none", "invalidArgument", "connectFailure", "timeout", "closed", "unsupported",
   "tlsHandshakeFailure", "tlsVerificationFailure", "unknown"}

OpenCalls ==
  [stage : Stages, left : Int, socket : Sockets, error : Errors, deadline : Nat, until : Nat]

TcpTypeOK ==
  /\ tcpFd \in Sockets /\ session \in Sockets
  /\ config \in Config
  /\ open \in OpenCalls
  /\ sockets \subseteq Sockets /\ objects \subseteq Sockets /\ made \in Nat
  /\ cancelled \in Nat \cup {-1} /\ clock \in Nat

\* What is open, and whose it is.
Ownership ==
  /\ sockets = {tcpFd, open.socket} \ {NoSocket}
  /\ At("idle") =>
       /\ open.socket = NoSocket
       /\ objects = {session} \ {NoSocket}
       /\ session # NoSocket => session = tcpFd
       /\ tcpFd # NoSocket <=> answer = "ok"
       /\ answer = "ok" /\ config.tls => session = tcpFd
  /\ ~At("idle") => session = NoSocket /\ answer # "ok"
  /\ open.stage \in Searching => tcpFd = NoSocket /\ open.socket = NoSocket /\ objects = {}
  /\ open.stage \in Connecting => tcpFd = NoSocket /\ open.socket # NoSocket /\ objects = {}
  /\ At("tls") => tcpFd = open.socket /\ tcpFd # NoSocket /\ objects = {} /\ config.tls
  /\ open.stage \in Securing =>
       tcpFd = open.socket /\ tcpFd # NoSocket /\ objects = {tcpFd} /\ config.tls

Chunks == [on : Nat, place : Nat]

\* The bytes of this connection, from place n on.
InPlace(s, n) == \A i \in 1..Len(s) : s[i] = [on |-> tcpFd, place |-> n + i]

StreamOfConnection ==
  /\ read \in Seq(Chunks) /\ withheld \in Seq(Chunks) /\ arriving \in Seq(Chunks)
  /\ InPlace(read, 0) /\ InPlace(withheld, Len(read)) /\ InPlace(arriving, Len(read) + Len(withheld))
  /\ session = NoSocket => withheld = << >>
  /\ ~At("idle") \/ tcpFd = NoSocket => read = << >> /\ withheld = << >> /\ arriving = << >>

\* A wait begins before the deadline and not after a cancellation, and it
\* ends at the deadline or one interval later.
WaitsEnd ==
  ~At("idle") /\ config.tls =>
    /\ open.deadline = TlsConnectTimeout(config)
    /\ clock <= open.deadline
    /\ cancelled # -1 => config.cancellable /\ clock <= cancelled + 1
    /\ open.stage \in {"pollConnect", "pollPeer"} =>
         /\ clock <= open.until /\ open.until <= open.deadline
         /\ config.cancellable => open.until <= clock + 1
         /\ cancelled # -1 => open.until <= cancelled + 1

TcpIInv == TcpTypeOK /\ Ownership /\ StreamOfConnection /\ WaitsEnd

-----------------------------------------------------------------------------
(* Types.  A call under way stays one, however it goes on.                 *)

USE DEF Stages, Searching, Connecting, Securing, Errors

LEMMA IdleTyped == Idle \in OpenCalls
BY DEF Idle, OpenCalls, Sockets

\* What a stage leaves of the call: going on, failing, waiting.
LEMMA GoesTyped ==
  ASSUME open \in OpenCalls, NEW stage \in Stages, Goes(stage)
  PROVE  /\ open' \in OpenCalls /\ open'.stage = stage /\ open'.socket = open.socket
         /\ open'.deadline = open.deadline /\ open'.until = open.until
BY DEF Goes, OpenCalls

LEMMA FailsTyped ==
  ASSUME open \in OpenCalls, NEW error \in Errors, Fails(error)
  PROVE  /\ open' \in OpenCalls /\ open'.stage = "next" /\ open'.socket = NoSocket
         /\ open'.deadline = open.deadline /\ sockets' = sockets \ {open.socket}
BY DEF Fails, OpenCalls, Sockets

LEMMA TlsFailsTyped ==
  ASSUME open \in OpenCalls, NEW error \in Errors, TlsFails(error)
  PROVE  /\ open' \in OpenCalls /\ open'.stage = "next" /\ open'.socket = NoSocket
         /\ open'.deadline = open.deadline /\ sockets' = sockets \ {tcpFd}
         /\ tcpFd' = NoSocket /\ objects' = objects \ {tcpFd}
BY DEF TlsFails, OpenCalls, Sockets

LEMMA WaitTyped ==
  ASSUME TcpTypeOK, NEW stage \in Stages,
         open' = [open EXCEPT !.stage = stage, !.until = PollsUntil]
  PROVE  /\ open' \in OpenCalls /\ open'.stage = stage /\ open'.socket = open.socket
         /\ open'.deadline = open.deadline /\ open'.until = PollsUntil
<1>1. PollsUntil \in Nat
  BY DEF TcpTypeOK, PollsUntil, OpenCalls
<1> QED
  BY <1>1 DEF TcpTypeOK, OpenCalls

LEMMA IdleFields == Idle.stage = "idle" /\ Idle.socket = NoSocket
BY DEF Idle

LEMMA CallFields ==
  ASSUME NEW stage, NEW left, NEW socket, NEW error, NEW c
  PROVE  LET call == Call(stage, left, socket, error, c)
         IN  /\ call.stage = stage /\ call.socket = socket
             /\ call.deadline = TlsConnectTimeout(c)
BY DEF Call

LEMMA TlsConnectTimeoutTyped ==
  ASSUME NEW c \in Config
  PROVE  TlsConnectTimeout(c) \in Nat
BY BudgetAssumption DEF Config, TlsConnectTimeout

LEMMA CallTyped ==
  ASSUME NEW stage \in Stages, NEW left \in Int, NEW socket \in Sockets, NEW error \in Errors,
         NEW c \in Config
  PROVE  Call(stage, left, socket, error, c) \in OpenCalls
BY TlsConnectTimeoutTyped DEF Call, OpenCalls

\* Every step keeps the types.
LEMMA TypeStep == TcpTypeOK /\ [TcpNext]_tcpVars => TcpTypeOK'
<1> SUFFICES ASSUME TcpTypeOK, [TcpNext]_tcpVars PROVE TcpTypeOK'
  OBVIOUS
<1> USE DEF TcpTypeOK
<1>1. ASSUME NEW c \in Configs, OpenTcp(c) PROVE TcpTypeOK'
  <2>1. open' \in OpenCalls
    <3>1. ASSUME NEW left \in 1..MaxCandidates,
                 open' = Call("next", left, NoSocket, "connectFailure", c)
          PROVE  open' \in OpenCalls
      <4>1. c \in Config /\ left \in Int /\ NoSocket \in Sockets
        BY <3>1, ConfigsAssumption, CandidatesAssumption DEF Sockets
      <4>2. "next" \in Stages /\ "connectFailure" \in Errors
        OBVIOUS
      <4>3. Call("next", left, NoSocket, "connectFailure", c) \in OpenCalls
        BY <4>1, <4>2, CallTyped
      <4> QED
        BY <3>1, <4>3
    <3>2. open' = Idle \/ \E left \in 1..MaxCandidates :
                             open' = Call("next", left, NoSocket, "connectFailure", c)
      BY <1>1 DEF OpenTcp
    <3> QED
      BY <3>1, <3>2, IdleTyped
  <2> QED
    BY <1>1, <2>1, ConfigsAssumption DEF OpenTcp, Closes, Sockets
<1>2. ASSUME NEW c \in Configs, Adopt(c) PROVE TcpTypeOK'
  <2>1. open' \in OpenCalls
    BY <1>2, ConfigsAssumption, CallTyped DEF Adopt, Sockets
  <2> QED
    BY <1>2, <2>1, ConfigsAssumption DEF Adopt, Sockets
<1>3. CASE NextCandidate
  <2>1. open' \in OpenCalls
    <3>1. open.left - 1 \in Int /\ made + 1 \in Sockets
      BY DEF OpenCalls, Sockets
    <3>2. CASE open' = [open EXCEPT !.left = open.left - 1, !.error = "connectFailure"]
      BY <3>1, <3>2 DEF OpenCalls
    <3>3. CASE open' = [open EXCEPT !.left = open.left - 1, !.socket = made + 1,
                                    !.stage = "connect"]
      BY <3>1, <3>3 DEF OpenCalls
    <3> QED
      BY <1>3, <3>2, <3>3 DEF NextCandidate
  <2> QED
    BY <1>3, <2>1 DEF NextCandidate, Sockets, transport, system, stream, At, Goes, Calls
<1>4. CASE NoCandidateLeft
  <2>1. open' \in OpenCalls
    BY <1>4, IdleTyped DEF NoCandidateLeft, Sockets, transport, system, stream, At, Goes, Calls
  <2> QED
    BY <1>4, <2>1 DEF NoCandidateLeft, Sockets, transport, system, stream, At, Goes, Calls
<1>5. CASE ConnectsPlain
  <2>1. open' \in OpenCalls
    BY <1>5, GoesTyped, FailsTyped
    DEF ConnectsPlain, Sockets, transport, system, stream, At, Calls
  <2> QED
    BY <1>5, <2>1 DEF ConnectsPlain, Fails, Config, Sockets, transport, system, stream, At,
        Goes, Calls
<1>6. CASE ConnectsTls
  <2>1. open' \in OpenCalls
    BY <1>6, GoesTyped, FailsTyped
    DEF ConnectsTls, Sockets, transport, system, stream, At, Calls
  <2> QED
    BY <1>6, <2>1 DEF ConnectsTls, Fails, Sockets, transport, system, stream, At, Goes, Calls
<1>7. CASE AwaitsConnect
  <2>1. open' \in OpenCalls
    BY <1>7, FailsTyped, WaitTyped
    DEF AwaitsConnect, Sockets, transport, system, stream, At, Goes, Calls
  <2> QED
    BY <1>7, <2>1 DEF AwaitsConnect, Fails, Sockets, transport, system, stream, At, Goes, Calls
<1>8. CASE ConnectPolled
  <2>1. open' \in OpenCalls
    BY <1>8, GoesTyped, FailsTyped
    DEF ConnectPolled, Sockets, transport, system, stream, At, Calls
  <2> QED
    BY <1>8, <2>1 DEF ConnectPolled, Fails, Sockets, transport, system, stream, At, Goes, Calls
<1>9. CASE Configures
  <2>1. open' \in OpenCalls
    BY <1>9, GoesTyped, FailsTyped, IdleTyped
    DEF Configures, Sockets, transport, system, stream, At, Calls
  <2> QED
    BY <1>9, <2>1 DEF Configures, Fails, OpenCalls, Sockets, transport, system, stream, At,
        Goes, Calls
<1>10. CASE StartsTls
  <2>1. open' \in OpenCalls
    BY <1>10, GoesTyped, TlsFailsTyped
    DEF StartsTls, Sockets, transport, system, stream, At, Calls
  <2> QED
    BY <1>10, <2>1 DEF StartsTls, TlsFails, Sockets, transport, system, stream, At, Goes, Calls
<1>11. CASE Handshakes
  <2>1. open' \in OpenCalls
    BY <1>11, GoesTyped, TlsFailsTyped
    DEF Handshakes, Sockets, transport, system, stream, At, Calls
  <2> QED
    BY <1>11, <2>1 DEF Handshakes, TlsFails, Sockets, transport, system, stream, At, Goes, Calls
<1>12. CASE AwaitsPeer
  <2>1. open' \in OpenCalls
    BY <1>12, TlsFailsTyped, WaitTyped
    DEF AwaitsPeer, Sockets, transport, system, stream, At, Goes, Calls
  <2> QED
    BY <1>12, <2>1 DEF AwaitsPeer, TlsFails, Sockets, transport, system, stream, At, Goes, Calls
<1>13. CASE PeerPolled
  <2>1. open' \in OpenCalls
    BY <1>13, GoesTyped, TlsFailsTyped
    DEF PeerPolled, Sockets, transport, system, stream, At, Calls
  <2> QED
    BY <1>13, <2>1 DEF PeerPolled, TlsFails, Sockets, transport, system, stream, At, Goes, Calls
<1>14. CASE HandshakeEnds
  <2>1. open' \in OpenCalls
    BY <1>14, TlsFailsTyped, IdleTyped
    DEF HandshakeEnds, Sockets, transport, system, stream, At, Goes, Calls
  <2> QED
    BY <1>14, <2>1 DEF HandshakeEnds, TlsFails, Sockets, transport, system, stream, At, Goes,
        Calls
<1>15. CASE CloseTcp
  BY <1>15 DEF CloseTcp, Closes, Sockets, transport, system, stream, At, Goes, Calls
<1>16. CASE Read
  BY <1>16 DEF Read, Sockets, transport, system, stream, At, Goes, Calls
<1>17. CASE PeerSends
  BY <1>17 DEF PeerSends, Sockets, transport, system, stream, At, Goes, Calls
<1>18. CASE PeerEnds
  BY <1>18 DEF PeerEnds, Sockets, transport, system, stream, At, Goes, Calls
<1>19. CASE Cancels
  BY <1>19 DEF Cancels, Sockets, transport, system, stream, At, Goes, Calls
<1>20. CASE PollTime
  BY <1>20 DEF PollTime, Sockets, transport, system, stream, At, Goes, Calls
<1>21. CASE UNCHANGED tcpVars
  BY <1>21 DEF tcpVars, transport, system, stream, At, Goes, Calls
<1> QED
  BY <1>1, <1>2, <1>3, <1>4, <1>5, <1>6, <1>7, <1>8, <1>9, <1>10, <1>11, <1>12, <1>13, <1>14,
      <1>15, <1>16, <1>17, <1>18, <1>19, <1>20, <1>21 DEF TcpNext, SetupStep

-----------------------------------------------------------------------------
(* Ownership and time.                                                     *)

\* Every step hands the socket and the TLS objects on, or frees them.
LEMMA OwnershipStep == TcpIInv /\ [TcpNext]_tcpVars => Ownership'
<1> SUFFICES ASSUME TcpIInv, [TcpNext]_tcpVars PROVE Ownership'
  OBVIOUS
<1> USE DEF TcpIInv
<1>1. ASSUME NEW c \in Configs, OpenTcp(c) PROVE Ownership'
  BY <1>1, IdleFields, CallFields, NoSocketAssumption
  DEF Ownership, TcpTypeOK, Sockets, OpenTcp, Closes, transport, system, stream, At, Calls
<1>2. ASSUME NEW c \in Configs, Adopt(c) PROVE Ownership'
  BY <1>2, CallFields, NoSocketAssumption
  DEF Ownership, TcpTypeOK, Sockets, Adopt, transport, system, stream, At, Calls
<1>3. CASE NextCandidate
  <2>1. tcpFd' = tcpFd /\ session' = session /\ answer' = answer /\ objects' = objects
    BY <1>3 DEF NextCandidate, transport
  <2>2. CASE open'.stage = "next" /\ open'.socket = open.socket /\ sockets' = sockets
    BY <1>3, <2>1, <2>2 DEF Ownership, NextCandidate, At
  <2>3. CASE /\ open'.stage = "connect" /\ open'.socket = made + 1
             /\ sockets' = sockets \cup {made + 1}
    BY <1>3, <2>1, <2>3, NoSocketAssumption DEF Ownership, TcpTypeOK, NextCandidate, At
  <2> QED
    BY <1>3, <2>2, <2>3 DEF NextCandidate, At, TcpTypeOK, OpenCalls
<1>4. CASE NoCandidateLeft
  BY <1>4, NoSocketAssumption, IdleFields
  DEF Ownership, TcpTypeOK, Sockets, NoCandidateLeft, OpenCalls, transport, system, stream,
      At, Calls
<1>5. CASE ConnectsPlain
  BY <1>5, NoSocketAssumption, GoesTyped, FailsTyped
  DEF Ownership, TcpTypeOK, Sockets, ConnectsPlain, transport, system, stream, At, Calls
<1>6. CASE ConnectsTls
  BY <1>6, NoSocketAssumption, GoesTyped, FailsTyped
  DEF Ownership, TcpTypeOK, Sockets, ConnectsTls, transport, system, stream, At, Calls
<1>7. CASE AwaitsConnect
  BY <1>7, NoSocketAssumption, FailsTyped, WaitTyped
  DEF Ownership, TcpTypeOK, Sockets, AwaitsConnect, transport, system, stream, At, Calls
<1>8. CASE ConnectPolled
  BY <1>8, NoSocketAssumption, GoesTyped, FailsTyped
  DEF Ownership, TcpTypeOK, Sockets, ConnectPolled, transport, system, stream, At, Calls
<1>9. CASE Configures
  BY ZenonT(60), <1>9, NoSocketAssumption, GoesTyped, FailsTyped, IdleFields
  DEF Ownership, TcpTypeOK, Sockets, Configures, transport, system, stream, At, Calls
<1>10. CASE StartsTls
  <2>1. ASSUME NEW error \in Errors, TlsFails(error), UNCHANGED <<session, config, answer>>
        PROVE  Ownership'
    BY <1>10, <2>1, TlsFailsTyped, NoSocketAssumption DEF Ownership, TcpTypeOK, StartsTls, At
  <2>2. CASE /\ objects' = objects \cup {tcpFd} /\ Goes("handshake")
             /\ UNCHANGED <<tcpFd, sockets, session, config, answer>>
    BY <1>10, <2>2, GoesTyped, NoSocketAssumption DEF Ownership, TcpTypeOK, StartsTls, At
  <2> QED
    BY <1>10, <2>1, <2>2 DEF StartsTls
<1>11. CASE Handshakes
  BY <1>11, NoSocketAssumption, GoesTyped, TlsFailsTyped
  DEF Ownership, TcpTypeOK, Sockets, Handshakes, transport, system, stream, At, Calls
<1>12. CASE AwaitsPeer
  BY <1>12, NoSocketAssumption, TlsFailsTyped, WaitTyped
  DEF Ownership, TcpTypeOK, Sockets, AwaitsPeer, transport, system, stream, At, Calls
<1>13. CASE PeerPolled
  BY <1>13, NoSocketAssumption, GoesTyped, TlsFailsTyped
  DEF Ownership, TcpTypeOK, Sockets, PeerPolled, transport, system, stream, At, Calls
<1>14. CASE HandshakeEnds
  BY <1>14, NoSocketAssumption, TlsFailsTyped, IdleFields
  DEF Ownership, TcpTypeOK, Sockets, HandshakeEnds, transport, system, stream, At, Calls
<1>15. CASE CloseTcp
  BY <1>15, NoSocketAssumption
  DEF Ownership, TcpTypeOK, Sockets, CloseTcp, Closes, transport, system, stream, At, Calls
<1>16. CASE Read
  BY <1>16, NoSocketAssumption
  DEF Ownership, TcpTypeOK, Sockets, Read, transport, system, stream, At, Calls
<1>17. CASE PeerSends
  BY <1>17, NoSocketAssumption
  DEF Ownership, TcpTypeOK, Sockets, PeerSends, transport, system, stream, At, Calls
<1>18. CASE PeerEnds
  BY <1>18, NoSocketAssumption
  DEF Ownership, TcpTypeOK, Sockets, PeerEnds, transport, system, stream, At, Calls
<1>19. CASE Cancels
  BY <1>19, NoSocketAssumption
  DEF Ownership, TcpTypeOK, Sockets, Cancels, transport, system, stream, At, Calls
<1>20. CASE PollTime
  BY <1>20, NoSocketAssumption
  DEF Ownership, TcpTypeOK, Sockets, PollTime, OpenCalls, transport, system, stream, At, Calls
<1>21. CASE UNCHANGED tcpVars
  BY <1>21 DEF Ownership, TcpTypeOK, Sockets, tcpVars, transport, system, stream, At, Calls
<1> QED
  BY <1>1, <1>2, <1>3, <1>4, <1>5, <1>6, <1>7, <1>8, <1>9, <1>10, <1>11, <1>12, <1>13, <1>14,
      <1>15, <1>16, <1>17, <1>18, <1>19, <1>20, <1>21 DEF TcpNext, SetupStep

\* No step lets a setup with TLS go on past its deadline or a cancellation.
LEMMA WaitsStep == TcpIInv /\ [TcpNext]_tcpVars => WaitsEnd'
<1> SUFFICES ASSUME TcpIInv, [TcpNext]_tcpVars PROVE WaitsEnd'
  OBVIOUS
<1> USE DEF TcpIInv
<1>1. ASSUME NEW c \in Configs, OpenTcp(c) PROVE WaitsEnd'
  BY <1>1, IdleFields, CallFields, ConfigsAssumption, TlsConnectTimeoutTyped
  DEF WaitsEnd, Cancelled, Late, TcpTypeOK, Sockets, OpenTcp, Closes, transport, system, stream,
      At, Calls
<1>2. ASSUME NEW c \in Configs, Adopt(c) PROVE WaitsEnd'
  BY <1>2, CallFields, ConfigsAssumption, TlsConnectTimeoutTyped
  DEF WaitsEnd, Cancelled, Late, TcpTypeOK, Sockets, Adopt, transport, system, stream, At, Calls
<1>3. CASE NextCandidate
  BY <1>3 DEF WaitsEnd, Cancelled, Late, TcpTypeOK, Sockets, OpenCalls, NextCandidate,
      transport, system, stream, At, Calls
<1>4. CASE NoCandidateLeft
  BY <1>4, IdleFields
  DEF WaitsEnd, Cancelled, Late, TcpTypeOK, Sockets, NoCandidateLeft, OpenCalls, transport,
      system, stream, At, Calls
<1>5. CASE ConnectsPlain
  BY <1>5, GoesTyped, FailsTyped
  DEF WaitsEnd, Cancelled, Late, TcpTypeOK, Sockets, ConnectsPlain, Config, OpenCalls,
      transport, system, stream, At, Calls
<1>6. CASE ConnectsTls
  BY <1>6, GoesTyped, FailsTyped
  DEF WaitsEnd, Cancelled, Late, TcpTypeOK, Sockets, ConnectsTls, OpenCalls, transport,
      system, stream, At, Calls
<1>7. CASE AwaitsConnect
  BY <1>7, FailsTyped, WaitTyped
  DEF WaitsEnd, Cancelled, Late, TcpTypeOK, Sockets, AwaitsConnect, PollsUntil, OpenCalls,
      transport, system, stream, At, Calls
<1>8. CASE ConnectPolled
  BY <1>8, GoesTyped, FailsTyped
  DEF WaitsEnd, Cancelled, Late, TcpTypeOK, Sockets, ConnectPolled, OpenCalls, transport,
      system, stream, At, Calls
<1>9. CASE Configures
  BY <1>9, GoesTyped, FailsTyped, IdleFields
  DEF WaitsEnd, Cancelled, Late, TcpTypeOK, Sockets, Configures, OpenCalls, transport, system,
      stream, At, Calls
<1>10. CASE StartsTls
  BY <1>10, GoesTyped, TlsFailsTyped
  DEF WaitsEnd, Cancelled, Late, TcpTypeOK, Sockets, StartsTls, OpenCalls, transport, system,
      stream, At, Calls
<1>11. CASE Handshakes
  BY <1>11, GoesTyped, TlsFailsTyped
  DEF WaitsEnd, Cancelled, Late, TcpTypeOK, Sockets, Handshakes, OpenCalls, transport, system,
      stream, At, Calls
<1>12. CASE AwaitsPeer
  BY <1>12, TlsFailsTyped, WaitTyped
  DEF WaitsEnd, Cancelled, Late, TcpTypeOK, Sockets, AwaitsPeer, PollsUntil, OpenCalls,
      transport, system, stream, At, Calls
<1>13. CASE PeerPolled
  BY <1>13, GoesTyped, TlsFailsTyped
  DEF WaitsEnd, Cancelled, Late, TcpTypeOK, Sockets, PeerPolled, OpenCalls, transport, system,
      stream, At, Calls
<1>14. CASE HandshakeEnds
  BY <1>14, TlsFailsTyped, IdleFields
  DEF WaitsEnd, Cancelled, Late, TcpTypeOK, Sockets, HandshakeEnds, OpenCalls, transport,
      system, stream, At, Calls
<1>15. CASE CloseTcp
  BY <1>15 DEF WaitsEnd, Cancelled, Late, TcpTypeOK, Sockets, CloseTcp, Closes, transport,
      system, stream, At, Calls
<1>16. CASE Read
  BY <1>16 DEF WaitsEnd, Cancelled, Late, TcpTypeOK, Sockets, Read, transport, system, stream,
      At, Calls
<1>17. CASE PeerSends
  BY <1>17 DEF WaitsEnd, Cancelled, Late, TcpTypeOK, Sockets, PeerSends, transport, system,
      stream, At, Calls
<1>18. CASE PeerEnds
  BY <1>18 DEF WaitsEnd, Cancelled, Late, TcpTypeOK, Sockets, PeerEnds, transport, system,
      stream, At, Calls
<1>19. CASE Cancels
  BY <1>19 DEF WaitsEnd, Cancelled, Late, TcpTypeOK, Sockets, Cancels, transport, system,
      stream, At, Calls
<1>20. CASE PollTime
  BY <1>20 DEF WaitsEnd, Cancelled, Late, TcpTypeOK, Sockets, PollTime, OpenCalls, transport,
      system, stream, At, Calls
<1>21. CASE UNCHANGED tcpVars
  BY <1>21 DEF WaitsEnd, Cancelled, Late, TcpTypeOK, Sockets, tcpVars, transport, system,
      stream, At, Calls
<1> QED
  BY <1>1, <1>2, <1>3, <1>4, <1>5, <1>6, <1>7, <1>8, <1>9, <1>10, <1>11, <1>12, <1>13, <1>14,
      <1>15, <1>16, <1>17, <1>18, <1>19, <1>20, <1>21 DEF TcpNext, SetupStep

-----------------------------------------------------------------------------
(* The stream.  During a setup nothing is read; outside of it nothing but  *)
(* Close changes the connection.                                           *)

\* An empty stream is of any connection, and an untouched one of the same.
LEMMA EmptyStream ==
  ASSUME read' = << >>, withheld' = << >>, arriving' = << >>
  PROVE  StreamOfConnection'
BY DEF StreamOfConnection, InPlace

\* One chunk is taken from s and added to t.
LEMMA TakesFirst ==
  ASSUME NEW s \in Seq(Chunks), NEW t \in Seq(Chunks), s # << >>
  PROVE  /\ Append(t, Head(s)) \in Seq(Chunks) /\ Len(Append(t, Head(s))) = Len(t) + 1
         /\ \A i \in 1..Len(t) : Append(t, Head(s))[i] = t[i]
         /\ Append(t, Head(s))[Len(t) + 1] = s[1]
         /\ Tail(s) \in Seq(Chunks) /\ Len(Tail(s)) = Len(s) - 1 /\ Len(s) >= 1
         /\ \A i \in 1..Len(Tail(s)) : Tail(s)[i] = s[i + 1]
<1>1. Head(s) \in Chunks /\ Head(s) = s[1] /\ Len(s) >= 1
  BY HeadTailProperties, EmptySeq
<1> QED
  BY <1>1, HeadTailProperties, AppendProperties

LEMMA SameConnection ==
  ASSUME StreamOfConnection, UNCHANGED <<stream, tcpFd, session>>, At("idle")' <=> At("idle")
  PROVE  StreamOfConnection'
BY DEF StreamOfConnection, InPlace, stream

\* Every step keeps what was sent in place, across what is read, held and arriving.
LEMMA StreamStep == TcpIInv /\ [TcpNext]_tcpVars => StreamOfConnection'
<1> SUFFICES ASSUME TcpIInv, [TcpNext]_tcpVars PROVE StreamOfConnection'
  OBVIOUS
<1> USE DEF TcpIInv
<1>1. CASE (\E c \in Configs : OpenTcp(c) \/ Adopt(c)) \/ CloseTcp
  BY <1>1, EmptyStream DEF OpenTcp, Adopt, CloseTcp, Closes
<1>2. CASE ~At("idle") /\ UNCHANGED stream
  BY <1>2, EmptyStream DEF StreamOfConnection, stream
<1>3. CASE SetupStep \/ Cancels
  <2>1. ~At("idle") /\ UNCHANGED stream
    BY <1>3 DEF SetupStep, NextCandidate, NoCandidateLeft, ConnectsPlain, ConnectsTls,
         AwaitsConnect, ConnectPolled, Configures, StartsTls, Handshakes, AwaitsPeer, PeerPolled,
         HandshakeEnds, Cancels, At, Calls, stream
  <2> QED
    BY <2>1, <1>2
<1>4. CASE PollTime
  BY <1>4, <1>2 DEF PollTime, At, stream
<1>5. CASE PeerEnds
  BY <1>5 DEF PeerEnds, StreamOfConnection, InPlace, At, transport
<1>6. CASE PeerSends
  <2> DEFINE sent == Len(read) + Len(withheld) + Len(arriving)
             one == <<[on |-> tcpFd, place |-> sent + 1]>>
             two == <<[on |-> tcpFd, place |-> sent + 1], [on |-> tcpFd, place |-> sent + 2]>>
  <2>1. tcpFd \in Nat /\ sent \in Nat
    BY <1>6 DEF PeerSends, TcpTypeOK, Sockets, StreamOfConnection
  <2>2. /\ one \in Seq(Chunks) /\ two \in Seq(Chunks)
        /\ \A i \in 1..Len(one) : one[i] = [on |-> tcpFd, place |-> sent + i]
        /\ \A i \in 1..Len(two) : two[i] = [on |-> tcpFd, place |-> sent + i]
    <3>1. [on |-> tcpFd, place |-> sent + 1] \in Chunks /\ [on |-> tcpFd, place |-> sent + 2] \in Chunks
      BY <2>1 DEF Chunks
    <3> QED
      BY <3>1
  <2>3. arriving' = arriving \o one \/ arriving' = arriving \o two
    BY <1>6 DEF PeerSends
  <2> HIDE DEF one, two
  <2>4. PICK new \in Seq(Chunks) :
          /\ arriving' = arriving \o new
          /\ \A i \in 1..Len(new) : new[i] = [on |-> tcpFd, place |-> sent + i]
    BY <2>2, <2>3
  <2>5. /\ arriving' \in Seq(Chunks) /\ Len(arriving') = Len(arriving) + Len(new)
        /\ \A i \in 1..Len(arriving) + Len(new) :
             arriving'[i] = IF i <= Len(arriving) THEN arriving[i] ELSE new[i - Len(arriving)]
    BY <2>4, ConcatProperties DEF StreamOfConnection
  <2>6. UNCHANGED <<tcpFd, session, read, withheld, open>> /\ tcpFd # NoSocket /\ At("idle")
    BY <1>6 DEF PeerSends, transport, Calls, At
  <2>7. Len(new) \in Nat /\ Len(arriving) \in Nat /\ Len(read) \in Nat /\ Len(withheld) \in Nat
    BY <2>4, LenProperties DEF StreamOfConnection
  <2>8. InPlace(arriving, Len(read) + Len(withheld))'
    <3> SUFFICES ASSUME NEW i \in 1..Len(arriving) + Len(new)
                 PROVE  arriving'[i] = [on |-> tcpFd, place |-> Len(read) + Len(withheld) + i]
      BY <2>5, <2>6 DEF InPlace
    <3>1. CASE i <= Len(arriving)
      <4>1. i \in 1..Len(arriving)
        BY <3>1, <2>7
      <4>2. arriving[i] = [on |-> tcpFd, place |-> Len(read) + Len(withheld) + i]
        BY <4>1 DEF InPlace, StreamOfConnection
      <4> QED
        BY <3>1, <4>2, <2>5
    <3>2. CASE i > Len(arriving)
      <4>1. /\ i - Len(arriving) \in 1..Len(new)
            /\ sent + (i - Len(arriving)) = Len(read) + Len(withheld) + i
        BY <3>2, <2>7
      <4> QED
        BY <3>2, <4>1, <2>4, <2>5
    <3> QED
      BY <3>1, <3>2, <2>7
  <2> QED
    BY <2>5, <2>6, <2>8 DEF StreamOfConnection, InPlace, At
<1>7. CASE Read
  <2>0. UNCHANGED <<tcpFd, session, open>> /\ tcpFd # NoSocket
    BY <1>7 DEF Read, transport
  <2>1. CASE session = NoSocket
    <3>1. /\ arriving # << >> /\ withheld = << >> /\ withheld' = withheld
          /\ read' = Append(read, Head(arriving)) /\ arriving' = Tail(arriving)
      BY <1>7, <2>1 DEF Read, StreamOfConnection
    <3>2. read' \in Seq(Chunks) /\ arriving' \in Seq(Chunks)
      BY <3>1, TakesFirst DEF StreamOfConnection
    <3>3. InPlace(read, 0)'
      BY <2>0, <3>1, TakesFirst DEF StreamOfConnection, InPlace
    <3>4. /\ Len(read') = Len(read) + 1 /\ Len(withheld) = 0 /\ Len(read) \in Nat
          /\ \A i \in 1..Len(arriving') :
               i + 1 \in 1..Len(arriving) /\ arriving'[i] = arriving[i + 1]
      BY <3>1, TakesFirst, LenProperties DEF StreamOfConnection
    <3>5. InPlace(arriving, Len(read) + Len(withheld))'
      BY <2>0, <3>1, <3>4 DEF StreamOfConnection, InPlace
    <3> QED
      BY <2>0, <3>1, <3>2, <3>3, <3>5, <1>7 DEF StreamOfConnection, InPlace, At, Read, Calls
  <2>2. CASE session # NoSocket /\ withheld # << >>
    <3>1. read' = Append(read, Head(withheld)) /\ withheld' = Tail(withheld) /\ arriving' = arriving
      BY <1>7, <2>2 DEF Read
    <3>2. read' \in Seq(Chunks) /\ withheld' \in Seq(Chunks)
      BY <2>2, <3>1, TakesFirst DEF StreamOfConnection
    <3>3. InPlace(read, 0)' /\ InPlace(withheld, Len(read))'
      BY <2>0, <2>2, <3>1, TakesFirst DEF StreamOfConnection, InPlace
    <3>4. InPlace(arriving, Len(read) + Len(withheld))'
      BY <2>0, <2>2, <3>1, TakesFirst DEF StreamOfConnection, InPlace
    <3> QED
      BY <2>0, <2>2, <3>1, <3>2, <3>3, <3>4, <1>7 DEF StreamOfConnection, At, Read, Calls
  <2>3. CASE session # NoSocket /\ withheld = << >>
    <3>1. /\ Len(arriving) >= 2 /\ read' = Append(read, Head(arriving))
          /\ withheld' = SubSeq(arriving, 2, 2) /\ arriving' = SubSeq(arriving, 3, Len(arriving))
      BY <1>7, <2>3 DEF Read
    <3>2. arriving \in Seq(Chunks) /\ arriving # << >> /\ read \in Seq(Chunks)
      BY <3>1 DEF StreamOfConnection
    <3>3. /\ withheld' \in Seq(Chunks) /\ Len(withheld') = 1 /\ withheld'[1] = arriving[2]
      BY <3>1, <3>2, SubSeqProperties, ElementOfSeq
    <3>4. /\ arriving' \in Seq(Chunks) /\ Len(arriving') = Len(arriving) - 2
          /\ \A i \in 1..Len(arriving') : arriving'[i] = arriving[i + 2]
      <4>1. Len(arriving) \in Nat /\ \A i \in 3..Len(arriving) : arriving[i] \in Chunks
        BY <3>2, ElementOfSeq, LenProperties
      <4>2. \A i \in 1..Len(arriving) - 3 + 1 : arriving'[i] = arriving[3 + i - 1]
        BY <3>1, <4>1, SubSeqProperties
      <4>3. arriving' \in Seq(Chunks) /\ Len(arriving') = Len(arriving) - 2
        <5>1. /\ SubSeq(arriving, 3, Len(arriving)) \in Seq(Chunks)
              /\ Len(SubSeq(arriving, 3, Len(arriving)))
                   = IF 3 <= Len(arriving) THEN Len(arriving) - 3 + 1 ELSE 0
          BY <4>1, SubSeqProperties
        <5>2. ASSUME NEW n \in Nat, n >= 2
              PROVE  (IF 3 <= n THEN n - 3 + 1 ELSE 0) = n - 2
          BY <5>2
        <5>4. (IF 3 <= Len(arriving) THEN Len(arriving) - 3 + 1 ELSE 0) = Len(arriving) - 2
          BY <3>1, <4>1, <5>2, Zenon
        <5>3. arriving' = SubSeq(arriving, 3, Len(arriving))
          BY <3>1
        <5> QED
          BY <5>1, <5>3, <5>4, Zenon
      <4> QED
        BY <4>1, <4>2, <4>3
    <3>5. read' \in Seq(Chunks) /\ InPlace(read, 0)'
      BY <2>0, <2>3, <3>1, <3>2, TakesFirst DEF StreamOfConnection, InPlace
    <3>6. InPlace(withheld, Len(read))'
      BY <2>0, <2>3, <3>1, <3>2, <3>3, TakesFirst DEF StreamOfConnection, InPlace
    <3>7. InPlace(arriving, Len(read) + Len(withheld))'
      BY <2>0, <2>3, <3>1, <3>2, <3>3, <3>4, TakesFirst DEF StreamOfConnection, InPlace
    <3> QED
      BY <2>0, <2>3, <3>3, <3>4, <3>5, <3>6, <3>7, <1>7 DEF StreamOfConnection, At, Read, Calls
  <2> QED
    BY <2>1, <2>2, <2>3
<1>8. CASE UNCHANGED tcpVars
  BY <1>8, SameConnection DEF tcpVars, transport, At
<1> QED
  BY <1>1, <1>3, <1>4, <1>5, <1>6, <1>7, <1>8 DEF TcpNext

-----------------------------------------------------------------------------

LEMMA TcpInitIInv == TcpInit => TcpIInv
<1> SUFFICES ASSUME TcpInit PROVE TcpIInv
  OBVIOUS
<1>1. TcpTypeOK
  BY IdleTyped DEF TcpInit, TcpTypeOK, Sockets, NoConfig, Config
<1>2. Ownership /\ WaitsEnd
  BY IdleFields DEF TcpInit, Ownership, WaitsEnd, At
<1>3. StreamOfConnection
  BY DEF TcpInit, StreamOfConnection, InPlace
<1> QED
  BY <1>1, <1>2, <1>3 DEF TcpIInv

LEMMA InductiveInvariant == TcpSpec => []TcpIInv
<1>1. TcpIInv /\ [TcpNext]_tcpVars => TcpIInv'
  BY TypeStep, OwnershipStep, WaitsStep, StreamStep DEF TcpIInv
<1> QED
  BY TcpInitIInv, <1>1, PTL DEF TcpSpec

\* The fields of the transport, of the call under way and of the system keep
\* their types.
THEOREM TcpTypeCorrect == TcpSpec => []TcpTypeOK
BY InductiveInvariant, PTL DEF TcpIInv

\* Whatever step of a setup fails, with any number of addresses and of
\* connections before, nothing stays open but the connection (transport.md:279).
THEOREM SetupReleasesAll == TcpSpec => []NothingLeftBehind
<1>1. ASSUME TcpIInv PROVE NothingLeftBehind
  <2>1. objects \subseteq sockets
    <3>1. open.stage \in Stages /\ Ownership
      BY <1>1 DEF TcpIInv, TcpTypeOK, OpenCalls
    <3>2. CASE At("idle")
      BY <3>1, <3>2 DEF Ownership
    <3>3. CASE At("tls") \/ open.stage \in Searching \cup Connecting \cup Securing
      BY <3>1, <3>3 DEF Ownership
    <3> QED
      BY <3>1, <3>2, <3>3 DEF At
  <2>2. \A i \in DOMAIN read : read[i] = [on |-> tcpFd, place |-> i]
    <3>1. DOMAIN read = 1..Len(read) /\ Len(read) \in Nat
      BY <1>1, LenProperties DEF TcpIInv, StreamOfConnection
    <3>2. \A i \in 1..Len(read) : read[i] = [on |-> tcpFd, place |-> 0 + i]
      BY <1>1 DEF TcpIInv, StreamOfConnection, InPlace
    <3> QED
      BY <3>1, <3>2
  <2> QED
    BY <1>1, <2>1, <2>2 DEF TcpIInv, Ownership, NothingLeftBehind, At, Calls
<1> QED
  BY InductiveInvariant, <1>1, PTL

\* For every time-out and default, a TLS setup over any number of addresses ends
\* within one budget and one interval after its cancellation (transport.md:271).
THEOREM SetupEndsInTime == TcpSpec => []SetupWithinBudget
<1>1. TcpIInv => SetupWithinBudget
  BY DEF TcpIInv, WaitsEnd, SetupWithinBudget, At, Calls
<1> QED
  BY InductiveInvariant, <1>1, PTL

-----------------------------------------------------------------------------
(* The serial port.                                                        *)

\* A thread inside Open or Close owns open_close_mutex_.
LockHeld == \A t \in Threads : pc[t] \in LifecycleStates => lifecycleLock = t

\* What each stage of CloseImpl and Open knows of fd_, and holds.
StagesOfClose ==
  \A t \in Threads :
    /\ pc[t] = "drain" => fd # NoFd
    /\ pc[t] \in {"closeFds"} \cup OpenStates => fd = NoFd
    /\ pc[t] \in {"idle", "closeImpl", "drain", "openPipe"} =>
         held[t] = NoFd /\ heldPipe[t] = NoFd
    /\ pc[t] = "openDevice" => held[t] = NoFd /\ heldPipe[t] \in Descriptors
    /\ pc[t] \in {"closeFds", "configure"} =>
         held[t] \in Descriptors /\ heldPipe[t] \in Descriptors

\* A port has its device and its pipe, or neither.
Paired == fd = NoFd <=> pipe = NoFd

IInv ==
  /\ TypeOK
  /\ LockHeld
  /\ StagesOfClose
  /\ Paired
  /\ LeasesCounted
  /\ NoUseAfterClose
  /\ NoDescriptorLeak

USE DEF OperationStates, OpenStates, LifecycleStates, portVars, localVars, Holds

-----------------------------------------------------------------------------
\* The types of the port's fields and of the threads' local variables are
\* preserved by every step; activeOps is the only one that needs IInv.
LEMMA HoldersFinite == IsFiniteSet(Holders)
  BY ThreadsFinite, FS_Subset DEF Holders

LEMMA InitIInv == Init => IInv
<1> SUFFICES ASSUME Init PROVE IInv
  OBVIOUS
<1>1. Holders = {}
  BY DEF Init, Holders
<1>2. TypeOK /\ LockHeld /\ StagesOfClose /\ Paired /\ NoUseAfterClose
  BY <1>1 DEF Init, TypeOK, LockHeld, StagesOfClose, Paired, NoUseAfterClose
<1>3. LeasesCounted
  BY <1>1, FS_EmptySet DEF Init, LeasesCounted
<1>4. NoDescriptorLeak
  BY NoFdAssumption DEF Init, NoDescriptorLeak
<1> QED
  BY <1>2, <1>3, <1>4 DEF IInv

\* With no lease counted, no thread is between AcquireOperation and
\* ReleaseOperation.
LEMMA NoOperations ==
  ASSUME LeasesCounted, activeOps = 0
  PROVE  Holders = {}
BY HoldersFinite, FS_EmptySet DEF LeasesCounted

\* A step that moves no thread in or out of an operation keeps the lease
\* count.
LEMMA SameHolders ==
  ASSUME LeasesCounted, Holders' = Holders, activeOps' = activeOps
  PROVE  LeasesCounted'
BY DEF LeasesCounted

\* AcquireOperation counts exactly the one lease it adds.
LEMMA AcquireCounts ==
  ASSUME TypeOK, LeasesCounted, NEW t \in Threads, AcquireOperation(t)
  PROVE  LeasesCounted'
<1>1. t \notin Holders /\ Holders' = Holders \cup {t}
  BY DEF AcquireOperation, Holders, Goto, TypeOK
<1>2. Cardinality(Holders \cup {t}) = Cardinality(Holders) + 1
  BY <1>1, HoldersFinite, FS_AddElement
<1> QED
  BY <1>1, <1>2 DEF AcquireOperation, LeasesCounted

\* ReleaseOperation gives back exactly one.
LEMMA ReleaseCounts ==
  ASSUME TypeOK, LeasesCounted, NEW t \in Threads, ReleaseOperation(t)
  PROVE  /\ LeasesCounted'
         /\ activeOps' \in Nat
<1>1. t \in Holders /\ Holders' = Holders \ {t}
  BY DEF ReleaseOperation, Holders, Goto, TypeOK
<1>2. /\ Cardinality(Holders \ {t}) = Cardinality(Holders) - 1
      /\ Cardinality(Holders \ {t}) \in Nat
  BY <1>1, HoldersFinite, FS_RemoveElement, FS_CardinalityType, FS_Subset
<1> QED
  BY <1>1, <1>2 DEF ReleaseOperation, LeasesCounted

-----------------------------------------------------------------------------
\* A thread inside Open or Close is alone there: what is open is the port's or
\* its own.
LEMMA AloneInLifecycle ==
  ASSUME IInv, NEW t \in Threads, pc[t] \in LifecycleStates
  PROVE  /\ \A u \in Threads : pc[u] \in LifecycleStates => u = t
         /\ osOpen = {fd, pipe, held[t], heldPipe[t]} \cap Descriptors
<1>1. \A u \in Threads : pc[u] \in LifecycleStates => u = t
  BY DEF IInv, LockHeld
<1>2. osOpen = {fd, pipe, held[t], heldPipe[t]} \cap Descriptors
  BY <1>1 DEF IInv, NoDescriptorLeak
<1> QED
  BY <1>1, <1>2

\* With no descriptor of the port, no operation is under way.
LEMMA ClosedHasNoHolders ==
  ASSUME IInv, fd = NoFd
  PROVE  Holders = {}
BY NoFdAssumption DEF IInv, NoUseAfterClose, TypeOK

\* The steps of Read and Write leave the descriptors and the locks alone.
LEMMA OperationStep ==
  ASSUME IInv, NEW t \in Threads, Operation(t)
  PROVE  IInv'
<1> USE DEF IInv, Goto
<1>1. CASE AcquireOperation(t)
  <2>1. TypeOK' /\ LockHeld' /\ StagesOfClose' /\ Paired'
    BY <1>1 DEF AcquireOperation, TypeOK, LockHeld, StagesOfClose, Paired
  <2>2. LeasesCounted'
    BY <1>1, AcquireCounts
  <2>3. {fd, pipe} \subseteq osOpen
    BY <1>1 DEF AcquireOperation, NoDescriptorLeak, Paired, TypeOK
  <2>4. NoUseAfterClose'
    BY <1>1, <2>3 DEF AcquireOperation, NoUseAfterClose, Holders, TypeOK
  <2>5. NoDescriptorLeak'
    BY <1>1 DEF AcquireOperation, NoDescriptorLeak, TypeOK
  <2> QED
    BY <2>1, <2>2, <2>4, <2>5
<1>2. CASE \/ PollReady(t) \/ PollReturnsEmpty(t) \/ PollCancelled(t)
           \/ SystemCallReturns(t) \/ SystemCallInterrupted(t)
  <2> USE DEF PollReady, PollReturnsEmpty, PollCancelled, SystemCallReturns,
              SystemCallInterrupted
  <2>1. TypeOK' /\ LockHeld' /\ StagesOfClose' /\ Paired'
    BY <1>2 DEF TypeOK, LockHeld, StagesOfClose, Paired
  <2>2. Holders' = Holders
    BY <1>2 DEF Holders, TypeOK
  <2>3. LeasesCounted'
    BY <1>2, <2>2, SameHolders
  <2>4. NoUseAfterClose'
    BY <1>2, <2>2 DEF NoUseAfterClose
  <2>5. NoDescriptorLeak'
    BY <1>2 DEF NoDescriptorLeak, TypeOK
  <2> QED
    BY <2>1, <2>3, <2>4, <2>5
<1>3. CASE ReleaseOperation(t)
  <2>1. LeasesCounted' /\ activeOps' \in Nat
    BY <1>3, ReleaseCounts
  <2>2. TypeOK' /\ LockHeld' /\ StagesOfClose' /\ Paired'
    BY <1>3, <2>1 DEF ReleaseOperation, TypeOK, LockHeld, StagesOfClose, Paired
  <2>3. NoUseAfterClose'
    BY <1>3 DEF ReleaseOperation, NoUseAfterClose, Holders, TypeOK
  <2>4. NoDescriptorLeak'
    BY <1>3 DEF ReleaseOperation, NoDescriptorLeak, TypeOK
  <2> QED
    BY <2>1, <2>2, <2>3, <2>4
<1> QED
  BY <1>1, <1>2, <1>3 DEF Operation

\* Close, Open and CloseImpl, as far as they touch no descriptor.
LEMMA WaitingStep ==
  ASSUME IInv, NEW t \in Threads,
         Close(t) \/ Open(t) \/ CloseImplNothing(t) \/ CloseImplBegin(t)
  PROVE  IInv'
<1> USE DEF IInv, Goto, AfterCloseImpl, Close, Open, LockLifecycle, CloseImplNothing,
            CloseImplBegin
<1>1. TypeOK'
  BY DEF TypeOK
<1>2. LockHeld' /\ StagesOfClose' /\ Paired'
  BY ThreadsFinite DEF TypeOK, LockHeld, StagesOfClose, Paired
<1>3. Holders' = Holders
  BY DEF Holders, TypeOK
<1>4. LeasesCounted'
  BY <1>3, SameHolders
<1>5. NoUseAfterClose'
  BY <1>3 DEF NoUseAfterClose
<1>6. /\ held[t] = NoFd /\ heldPipe[t] = NoFd
      /\ \A u \in Threads \ {t} : pc'[u] = pc[u]
      /\ UNCHANGED <<fd, pipe, osOpen, held, heldPipe>>
  BY DEF StagesOfClose, TypeOK
<1>7. NoDescriptorLeak'
  BY <1>6, NoFdAssumption DEF NoDescriptorLeak
<1> QED
  BY <1>1, <1>2, <1>4, <1>5, <1>7

\* CloseImplDrained, which takes the descriptors from the port, meets no lease.
LEMMA DrainedStep ==
  ASSUME IInv, NEW t \in Threads, CloseImplDrained(t)
  PROVE  IInv'
<1> USE DEF IInv, Goto, CloseImplDrained
<1>1. Holders = {}
  BY NoOperations
<1>2. Holders' = {}
  BY <1>1 DEF Holders, TypeOK
<1>3. TypeOK'
  BY DEF TypeOK
<1>4. \A u \in Threads : pc[u] \in LifecycleStates => u = t
  BY AloneInLifecycle
<1>5. LockHeld' /\ StagesOfClose' /\ Paired'
  BY <1>4 DEF TypeOK, LockHeld, StagesOfClose, Paired
<1>6. LeasesCounted'
  BY <1>1, <1>2, SameHolders
<1>7. NoUseAfterClose'
  BY <1>2 DEF NoUseAfterClose
<1>8. osOpen = {fd, pipe} \cap Descriptors
  BY AloneInLifecycle, NoFdAssumption DEF StagesOfClose
<1>9. NoDescriptorLeak'
  BY <1>4, <1>8, NoFdAssumption DEF NoDescriptorLeak, TypeOK
<1> QED
  BY <1>3, <1>5, <1>6, <1>7, <1>9

\* The ::close calls of CloseImpl, and all of Open after it: the port has no
\* descriptor and nobody a lease, so that only what the thread holds counts.
LEMMA ClosedStep ==
  ASSUME IInv, NEW t \in Threads, CloseDescriptors(t) \/ OpenAfterClose(t)
  PROVE  IInv'
<1> USE DEF IInv, Goto
<1> USE DEF AfterCloseImpl, CloseDescriptors, OpenAfterClose, OpenPipe, OpenDevice,
            OpenReturns, PublishDescriptors, PipeFails, DeviceFails, ConfigureFails
<1>1. /\ pc[t] \in {"closeFds"} \cup OpenStates
      /\ fd = NoFd /\ pipe = NoFd
  BY DEF StagesOfClose, Paired
<1>2. Holders = {}
  BY <1>1, ClosedHasNoHolders
<1>3. Holders' = {}
  BY <1>2 DEF Holders, TypeOK
<1>4. \A u \in Threads : pc[u] \in LifecycleStates => u = t
  BY <1>1, AloneInLifecycle
<1>5. osOpen = {held[t], heldPipe[t]} \cap Descriptors
  BY <1>1, AloneInLifecycle, NoFdAssumption
<1>6. TypeOK'
  <2>1. held[t] \in Descriptors \cup {NoFd} /\ heldPipe[t] \in Descriptors \cup {NoFd}
    BY DEF TypeOK
  <2>2. /\ held' \in [Threads -> Descriptors \cup {NoFd}]
        /\ heldPipe' \in [Threads -> Descriptors \cup {NoFd}]
    BY <2>1 DEF TypeOK
  <2>3. pc' \in [Threads -> {"idle"} \cup OperationStates \cup LifecycleStates]
    BY DEF TypeOK
  <2>4. osOpen' \in SUBSET Descriptors
    BY DEF TypeOK
  <2>5. fd' \in Descriptors \cup {NoFd} /\ pipe' \in Descriptors \cup {NoFd}
    BY <1>1, <2>1 DEF TypeOK
  <2> QED
    BY <2>2, <2>3, <2>4, <2>5 DEF TypeOK
<1>7. LockHeld'
  BY <1>4 DEF TypeOK, LockHeld
<1>8. StagesOfClose'
  BY <1>1, <1>4 DEF TypeOK, StagesOfClose
<1>9. Paired'
  BY <1>1, NoFdAssumption DEF StagesOfClose, Paired
<1>10. LeasesCounted'
  BY <1>2, <1>3, SameHolders
<1>11. NoUseAfterClose'
  BY <1>3 DEF NoUseAfterClose
<1>12. NoDescriptorLeak'
  <2>1. \A u \in Threads \ {t} : pc'[u] \notin LifecycleStates
    BY <1>4 DEF TypeOK
  <2>2. CASE CloseDescriptors(t) \/ PipeFails(t) \/ DeviceFails(t) \/ ConfigureFails(t)
    <3>1. osOpen' = {}
      BY <1>1, <1>5, <2>2, NoFdAssumption DEF StagesOfClose
    <3>2. /\ fd' = NoFd /\ pipe' = NoFd
          /\ held'[t] = NoFd /\ heldPipe'[t] = NoFd
      BY <1>1, <2>2 DEF TypeOK
    <3> QED
      BY <2>1, <3>1, <3>2, NoFdAssumption DEF NoDescriptorLeak
  <2>3. CASE OpenPipe(t) \/ OpenDevice(t)
    <3>1. osOpen' = {held'[t], heldPipe'[t]} \cap Descriptors
      BY <1>1, <1>5, <2>3, NoFdAssumption DEF StagesOfClose, TypeOK
    <3>2. fd' = NoFd /\ pipe' = NoFd /\ pc'[t] \in LifecycleStates
      BY <1>1, <2>3 DEF TypeOK
    <3> QED
      BY <2>1, <3>1, <3>2, NoFdAssumption DEF NoDescriptorLeak
  <2>4. CASE PublishDescriptors(t)
    <3>1. osOpen' = {fd', pipe'} \cap Descriptors
      BY <1>5, <2>4
    <3>2. pc'[t] \notin LifecycleStates
      BY <2>4 DEF TypeOK
    <3> QED
      BY <2>1, <3>1, <3>2 DEF NoDescriptorLeak
  <2> QED
    BY <2>2, <2>3, <2>4
<1> QED
  BY <1>6, <1>7, <1>8, <1>9, <1>10, <1>11, <1>12

LEMMA NextIInv == IInv /\ [Next]_vars => IInv'
<1>1. ASSUME IInv, Next PROVE IInv'
  BY <1>1, OperationStep, WaitingStep, DrainedStep, ClosedStep DEF Next, Lifecycle, CloseImpl
<1>2. ASSUME IInv, UNCHANGED vars PROVE IInv'
  BY <1>2 DEF IInv, vars, TypeOK, LockHeld, StagesOfClose, Paired, LeasesCounted,
              NoUseAfterClose, NoDescriptorLeak, Holders
<1> QED
  BY <1>1, <1>2

LEMMA Invariance == Spec => []IInv
BY InitIInv, NextIInv, PTL DEF Spec

-----------------------------------------------------------------------------
\* For any number of threads: the state of the port stays well typed;
\* active_operations_ in particular never wraps below zero.
THEOREM TypeCorrect == Spec => []TypeOK
<1>1. IInv => TypeOK
  BY DEF IInv
<1> QED
  BY <1>1, Invariance, PTL

\* For any number of threads: poll, read and write only ever touch the
\* device and the pipe of the port, while the system still has them open.
THEOREM DescriptorSafety == Spec => []NoUseAfterClose
<1>1. IInv => NoUseAfterClose
  BY DEF IInv
<1> QED
  BY <1>1, Invariance, PTL

\* For any number of threads: no descriptor is lost by Open and Close, wherever
\* they fail.
THEOREM DescriptorsAccounted == Spec => []NoDescriptorLeak
<1>1. IInv => NoDescriptorLeak
  BY DEF IInv
<1> QED
  BY <1>1, Invariance, PTL

\* For any number of threads: active_operations_ is the number of leases.
THEOREM LeaseCount == Spec => []LeasesCounted
<1>1. IInv => LeasesCounted
  BY DEF IInv
<1> QED
  BY <1>1, Invariance, PTL

-----------------------------------------------------------------------------
Leases == {l \in Holders \X Descriptors : l[2] \in {held[l[1]], heldPipe[l[1]]}}

\* A step that leaves the operations and what they hold alone leaves their
\* leases.
LEMMA SameLeases ==
  ASSUME Holders' = Holders, \A t \in Holders : held'[t] = held[t] /\ heldPipe'[t] = heldPipe[t]
  PROVE  Leases' = Leases
BY DEF Leases

\* Every step of Read and Write takes the leases of one operation, gives them
\* back, or is invisible to the abstract specification.
LEMMA OperationRefines ==
  ASSUME IInv, NEW t \in Threads, Operation(t)
  PROVE  [Abstract!Next]_(Abstract!vars)
<1> USE DEF IInv, Goto
<1>1. CASE AcquireOperation(t)
  <2>1. osOpen' = osOpen /\ {fd, pipe} \subseteq osOpen
    BY <1>1 DEF AcquireOperation, NoDescriptorLeak, Paired, TypeOK
  <2>2. t \notin Holders /\ Holders' = Holders \cup {t}
    BY <1>1 DEF AcquireOperation, Holders, TypeOK
  <2>3. /\ held'[t] = fd /\ heldPipe'[t] = pipe
        /\ \A u \in Holders : held'[u] = held[u] /\ heldPipe'[u] = heldPipe[u]
    BY <1>1, <2>2 DEF AcquireOperation, Holders, TypeOK
  <2>4. {fd, pipe} \subseteq Descriptors
    BY <2>1 DEF TypeOK
  <2>5. Leases' = Leases \cup ({t} \X {fd, pipe})
    BY <2>2, <2>3, <2>4 DEF Leases
  <2>6. {l \in Leases : l[1] = t} = {}
    BY <2>2 DEF Leases
  <2> QED
    <3>1. {fd, pipe} \in SUBSET osOpen
      BY <2>1
    <3>2. Abstract!Acquire
      BY <2>1, <2>5, <2>6, <3>1 DEF Leases, Abstract!Acquire, Abstract!LeasesOf
    <3> QED
      BY <3>2 DEF Abstract!Next
<1>2. CASE \/ PollReady(t) \/ PollReturnsEmpty(t) \/ PollCancelled(t)
           \/ SystemCallReturns(t) \/ SystemCallInterrupted(t)
  <2> USE DEF PollReady, PollReturnsEmpty, PollCancelled, SystemCallReturns,
              SystemCallInterrupted
  <2>1. Holders' = Holders /\ held' = held /\ heldPipe' = heldPipe /\ osOpen' = osOpen
    BY <1>2 DEF Holders, TypeOK
  <2> QED
    BY <2>1, SameLeases DEF Leases, Abstract!vars
<1>3. CASE ReleaseOperation(t)
  <2>1. t \in Holders /\ Holders' = Holders \ {t} /\ osOpen' = osOpen
    BY <1>3 DEF ReleaseOperation, Holders, TypeOK
  <2>2. \A u \in Holders \ {t} : held'[u] = held[u] /\ heldPipe'[u] = heldPipe[u]
    BY <1>3 DEF ReleaseOperation, Holders, TypeOK
  <2>3. Leases' = Leases \ {l \in Leases : l[1] = t}
    BY <2>1, <2>2 DEF Leases
  <2> QED
    BY <2>1, <2>3 DEF Holders, Leases, Abstract!Next, Abstract!Release, Abstract!LeasesOf
<1> QED
  BY <1>1, <1>2, <1>3 DEF Operation

\* Among the steps of Close and Open, only those that call ::open or ::close
\* are visible, and nobody holds a lease then.
LEMMA LifecycleRefines ==
  ASSUME IInv, NEW t \in Threads, Lifecycle(t)
  PROVE  [Abstract!Next]_(Abstract!vars)
<1> USE DEF IInv, Goto, AfterCloseImpl
<1>1. CASE Close(t) \/ Open(t) \/ CloseImplNothing(t) \/ CloseImplBegin(t)
  <2>1. Holders' = Holders /\ held' = held /\ heldPipe' = heldPipe /\ osOpen' = osOpen
    BY <1>1 DEF Close, Open, LockLifecycle, CloseImplNothing, CloseImplBegin,
                Holders, TypeOK
  <2> QED
    BY <2>1, SameLeases DEF Leases, Abstract!vars
<1>2. CASE CloseImplDrained(t)
  <2>1. Holders = {}
    BY <1>2, NoOperations DEF CloseImplDrained
  <2>2. Holders' = {} /\ osOpen' = osOpen
    BY <1>2, <2>1 DEF CloseImplDrained, Holders, TypeOK
  <2> QED
    BY <2>1, <2>2 DEF Abstract!vars
<1>3. CASE CloseDescriptors(t) \/ OpenAfterClose(t)
  <2> USE DEF CloseDescriptors, OpenAfterClose, OpenPipe, OpenDevice, OpenReturns,
              PublishDescriptors, PipeFails, DeviceFails, ConfigureFails
  <2>1. Holders = {}
    BY <1>3, ClosedHasNoHolders DEF StagesOfClose
  <2>2. Holders' = {}
    BY <1>3, <2>1 DEF Holders, TypeOK
  <2>3. Leases = {} /\ Leases' = {}
    BY <2>1, <2>2 DEF Leases
  <2>4. CASE CloseDescriptors(t) \/ DeviceFails(t) \/ ConfigureFails(t)
    <3>1. PICK ds \in SUBSET Descriptors : osOpen' = osOpen \ ds
      BY <2>4, NoFdAssumption DEF StagesOfClose
    <3>2. ds \cap osOpen \in SUBSET osOpen /\ osOpen' = osOpen \ (ds \cap osOpen)
      BY <3>1
    <3> QED
      BY <2>3, <3>2 DEF Leases, Abstract!Next, Abstract!Retire
  <2>5. CASE OpenPipe(t) \/ OpenDevice(t)
    <3>1. PICK d \in Descriptors \ osOpen : osOpen' = osOpen \cup {d}
      BY <2>5
    <3>2. {d} \in SUBSET (Descriptors \ osOpen)
      BY <3>1
    <3> QED
      BY <2>3, <3>1, <3>2 DEF Leases, Abstract!Next, Abstract!Publish
  <2>6. CASE PublishDescriptors(t) \/ PipeFails(t)
    BY <2>3, <2>6 DEF Leases, Abstract!vars
  <2> QED
    BY <1>3, <2>4, <2>5, <2>6
<1> QED
  BY <1>1, <1>2, <1>3 DEF Lifecycle, CloseImpl

\* For any number of threads and descriptors: PosixSerialTransport keeps the
\* promise of DescriptorLease, so a caller may reason with that module.
THEOREM Refinement == Spec => ImplementsDescriptorLease
<1>1. Init => Abstract!Init
  BY DEF Init, Holders, Abstract!Init
<1>2. IInv /\ [Next]_vars => [Abstract!Next]_(Abstract!vars)
  <2>1. ASSUME IInv, Next PROVE [Abstract!Next]_(Abstract!vars)
    BY <2>1, OperationRefines, LifecycleRefines DEF Next
  <2>2. ASSUME UNCHANGED vars PROVE UNCHANGED Abstract!vars
    BY <2>2 DEF vars, Abstract!vars, Holders
  <2> QED
    BY <2>1, <2>2
<1> QED
  BY <1>1, <1>2, Invariance, PTL DEF Spec, ImplementsDescriptorLease, Abstract!Spec
=============================================================================
