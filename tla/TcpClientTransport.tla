------------------------- MODULE TcpClientTransport -------------------------
(* TcpClientTransport: one caller that opens, reads, writes and closes a    *)
(* socket, perhaps with TLS; another thread may cancel a TLS setup; the     *)
(* peer connects, answers, sends and ends as it likes.  Time passes only in *)
(* waits; a tick is the interval at which a cancellation is looked for.     *)
(* Write, and a read without bytes, change nothing but metrics.             *)
EXTENDS Integers, Sequences

CONSTANTS
  Configs,        \* how a connection is made: members of Config
  NoSocket,
  Budget,         \* kDefaultTlsConnectTimeoutMs, of a timeout of zero
  MaxCandidates,  \* bound on the addresses of a host
  MaxSockets,     \* bound on the sockets the system hands out
  MaxSent         \* bound on what a peer sends on a connection

VARIABLES
  tcpFd,     \* fd_
  session,   \* the socket of tls_session_, or NoSocket
  config,    \* config_ of the last call
  open,      \* the Open or Adopt call under way
  answer,    \* its result, "none" once the transport was closed
  sockets,   \* external: the descriptors open in the system
  objects,   \* external: the sockets whose SSL and SSL_CTX are not freed
  made,      \* external: the sockets handed out so far
  arriving,  \* external: what waits in the kernel: chunks, in TLS in records
  withheld,  \* external: the rest of a record, in tls_session_
  peer,      \* external: "up" or "ended"
  cancelled, \* when connect_cancelled turned true, or -1
  clock,     \* since the call under way began
  read       \* history: what the caller has read since the last Close

\* TcpClientConfig.
Config ==
  [tls : BOOLEAN, nonblocking : BOOLEAN, timeout : Nat, cancellable : BOOLEAN,
   readTimeout : Nat]

NoConfig == [tls |-> FALSE, nonblocking |-> FALSE, timeout |-> 0, cancellable |-> FALSE,
             readTimeout |-> 0]

\* TlsConnectDeadline, from now.
TlsConnectTimeout(c) == IF c.timeout = 0 THEN Budget ELSE c.timeout

ASSUME ConfigsAssumption == Configs \subseteq Config
ASSUME BudgetAssumption == Budget \in Nat
ASSUME CandidatesAssumption == MaxCandidates \in Nat
ASSUME NoSocketAssumption == NoSocket \notin Nat

transport == <<tcpFd, session, config, answer>>
system == <<sockets, objects, made>>
stream == <<arriving, withheld, peer, read>>
tcpVars == <<transport, system, stream, open, cancelled, clock>>

Idle == [stage |-> "idle", left |-> 0, socket |-> NoSocket, error |-> "none",
         deadline |-> 0, until |-> 0]

TcpInit ==
  /\ tcpFd = NoSocket /\ session = NoSocket /\ config = NoConfig
  /\ open = Idle /\ answer = "none"
  /\ sockets = {} /\ objects = {} /\ made = 0
  /\ arriving = << >> /\ withheld = << >> /\ peer = "up" /\ read = << >>
  /\ cancelled = -1 /\ clock = 0

Calls == open.stage = "idle"
At(stage) == open.stage = stage
Goes(stage) == open' = [open EXCEPT !.stage = stage]

-----------------------------------------------------------------------------
(* Close                                                                   *)

\* ReleaseTls and the close of fd_: what the session held is gone with it.
Closes ==
  /\ objects' = objects \ {session}
  /\ session' = NoSocket
  /\ sockets' = sockets \ {tcpFd}
  /\ tcpFd' = NoSocket
  /\ arriving' = << >> /\ withheld' = << >> /\ peer' = "up" /\ read' = << >>

CloseTcp ==
  /\ Calls
  /\ Closes
  /\ answer' = "none"
  /\ UNCHANGED <<config, open, made, cancelled, clock>>

-----------------------------------------------------------------------------
(* Open and AdoptConnectedSocket                                           *)

Call(stage, left, socket, error, c) ==
  [stage |-> stage, left |-> left, socket |-> socket, error |-> error,
   deadline |-> TlsConnectTimeout(c), until |-> 0]

\* Open closes what is open; a bad host, or one that does not resolve, is
\* refused at once.  A config is stored before the host is looked up.
OpenTcp(c) ==
  /\ Calls
  /\ Closes
  /\ \/ answer' = "invalidArgument" /\ open' = Idle /\ UNCHANGED config
     \/ /\ config' = c
        /\ \/ answer' = "connectFailure" /\ open' = Idle
           \/ /\ answer' = "none"
              /\ \E left \in 1..MaxCandidates :
                   open' = Call("next", left, NoSocket, "connectFailure", c)
  /\ cancelled' = -1 /\ clock' = 0
  /\ UNCHANGED made

\* AdoptConnectedSocket of a socket that the caller made; of none, it is as
\* Open with a bad host.
Adopt(c) ==
  /\ Calls
  /\ made < MaxSockets
  /\ objects' = objects \ {session} /\ session' = NoSocket
  /\ sockets' = (sockets \ {tcpFd}) \cup {made + 1} /\ tcpFd' = NoSocket
  /\ made' = made + 1
  /\ arriving' = << >> /\ withheld' = << >> /\ peer' = "up" /\ read' = << >>
  /\ config' = c
  /\ open' = Call("configure", 0, made + 1, "none", c)
  /\ answer' = "none"
  /\ cancelled' = -1 /\ clock' = 0

\* The next address, or the last error.
NextCandidate ==
  /\ At("next") /\ open.left > 0
  /\ \/ open' = [open EXCEPT !.left = @ - 1, !.error = "connectFailure"]
        /\ UNCHANGED <<sockets, made>>
     \/ /\ made < MaxSockets
        /\ made' = made + 1
        /\ sockets' = sockets \cup {made + 1}
        /\ open' = [open EXCEPT !.left = @ - 1, !.socket = made + 1, !.stage = "connect"]
  /\ UNCHANGED <<transport, objects, stream, cancelled, clock>>

NoCandidateLeft ==
  /\ At("next") /\ open.left = 0
  /\ open' = Idle
  /\ answer' = open.error
  /\ UNCHANGED <<tcpFd, session, config, system, stream, cancelled, clock>>

\* Mutant: a candidate that fails is not closed.
FailsOpen(error) ==
  /\ UNCHANGED sockets
  /\ open' = [open EXCEPT !.stage = "next", !.socket = NoSocket, !.error = error]

\* Mutant: the deadline is that of an address.
FailsAnew(error) ==
  /\ sockets' = sockets \ {open.socket}
  /\ open' = [open EXCEPT !.stage = "next", !.socket = NoSocket, !.error = error,
                          !.deadline = clock + TlsConnectTimeout(config)]

\* A candidate that fails before it is fd_.
Fails(error) ==
  /\ sockets' = sockets \ {open.socket}
  /\ open' = [open EXCEPT !.stage = "next", !.socket = NoSocket, !.error = error]

Cancelled == config.cancellable /\ cancelled # -1
Late == clock >= open.deadline

\* ConnectWithTimeout: blocks for the time-out of this address, or, if that is
\* zero, for as long as the system lets it.
ConnectsPlain ==
  /\ At("connect") /\ ~config.tls
  /\ \E spent \in 0..config.timeout : clock' = clock + spent
  /\ \/ Goes("configure") /\ UNCHANGED sockets
     \/ Fails("connectFailure")
     \/ config.timeout > 0 /\ \E error \in {"timeout", "unknown"} : Fails(error)
  /\ UNCHANGED <<transport, objects, made, stream, cancelled>>

\* ConnectWithDeadline, up to its first wait.
ConnectsTls ==
  /\ At("connect") /\ config.tls
  /\ IF Cancelled THEN Fails("closed")
     ELSE IF Late THEN Fails("timeout")
     ELSE \/ \E error \in {"connectFailure", "unknown"} : Fails(error)
          \/ \E stage \in {"configure", "awaitConnect"} : Goes(stage) /\ UNCHANGED sockets
  /\ UNCHANGED <<transport, objects, made, stream, cancelled, clock>>

\* WaitForSocketUntil asks again each time before it polls: at most until the
\* deadline, and for one interval if there is a cancellation to look for.
PollsUntil == IF config.cancellable THEN clock + 1 ELSE open.deadline

AwaitsConnect ==
  /\ At("awaitConnect")
  /\ IF Cancelled THEN Fails("closed")
     ELSE IF Late THEN Fails("timeout")
     ELSE /\ open' = [open EXCEPT !.stage = "pollConnect", !.until = PollsUntil]
          /\ UNCHANGED sockets
  /\ UNCHANGED <<transport, objects, made, stream, cancelled, clock>>

ConnectPolled ==
  /\ At("pollConnect")
  /\ \/ clock = open.until /\ Goes("awaitConnect") /\ UNCHANGED sockets
     \/ \E stage \in {"configure", "awaitConnect"} : Goes(stage) /\ UNCHANGED sockets
     \/ \E error \in {"connectFailure", "timeout", "unknown"} : Fails(error)
  /\ UNCHANGED <<transport, objects, made, stream, cancelled, clock>>

\* ConfigureConnectedSocket; then the socket is fd_.
Configures ==
  /\ At("configure")
  /\ \/ \E error \in {"unsupported", "unknown"} : Fails(error) /\ UNCHANGED <<tcpFd, answer>>
     \/ /\ tcpFd' = open.socket
        /\ IF config.tls THEN Goes("tls") /\ UNCHANGED answer
           ELSE open' = Idle /\ answer' = "ok"
        /\ UNCHANGED sockets
  /\ UNCHANGED <<session, config, objects, made, stream, cancelled, clock>>

\* StartTls fails: its objects are freed, and Close closes fd_.
TlsFails(error) ==
  /\ objects' = objects \ {tcpFd}
  /\ sockets' = sockets \ {tcpFd}
  /\ tcpFd' = NoSocket
  /\ open' = [open EXCEPT !.stage = "next", !.socket = NoSocket, !.error = error]

\* StartTls, up to the handshake: blocking sockets only.
StartsTls ==
  /\ At("tls")
  /\ IF config.nonblocking THEN TlsFails("unsupported")
     ELSE \/ \E error \in {"tlsHandshakeFailure", "invalidArgument", "tlsVerificationFailure",
                           "unknown"} : TlsFails(error)
          \/ objects' = objects \cup {tcpFd} /\ Goes("handshake") /\ UNCHANGED <<tcpFd, sockets>>
  /\ UNCHANGED <<session, config, answer, made, stream, cancelled, clock>>

\* A turn of the handshake.
Handshakes ==
  /\ At("handshake")
  /\ IF Cancelled THEN TlsFails("closed")
     ELSE IF Late THEN TlsFails("timeout")
     ELSE \/ \E error \in {"tlsHandshakeFailure", "tlsVerificationFailure"} : TlsFails(error)
          \/ \E stage \in {"shaken", "awaitPeer"} :
               Goes(stage) /\ UNCHANGED <<tcpFd, sockets, objects>>
  /\ UNCHANGED <<session, config, answer, made, stream, cancelled, clock>>

AwaitsPeer ==
  /\ At("awaitPeer")
  /\ IF Cancelled THEN TlsFails("closed")
     ELSE IF Late THEN TlsFails("timeout")
     ELSE /\ open' = [open EXCEPT !.stage = "pollPeer", !.until = PollsUntil]
          /\ UNCHANGED <<tcpFd, sockets, objects>>
  /\ UNCHANGED <<session, config, answer, made, stream, cancelled, clock>>

PeerPolled ==
  /\ At("pollPeer")
  /\ \/ clock = open.until /\ Goes("awaitPeer") /\ UNCHANGED <<tcpFd, sockets, objects>>
     \/ Goes("handshake") /\ UNCHANGED <<tcpFd, sockets, objects>>
     \/ TlsFails("tlsHandshakeFailure")
  /\ UNCHANGED <<session, config, answer, made, stream, cancelled, clock>>

\* The handshake is over: asked once more, and blocking again.
HandshakeEnds ==
  /\ At("shaken")
  /\ IF Cancelled THEN TlsFails("closed") /\ UNCHANGED <<session, answer>>
     ELSE \/ TlsFails("unknown") /\ UNCHANGED <<session, answer>>
          \/ /\ session' = tcpFd /\ open' = Idle /\ answer' = "ok"
             /\ UNCHANGED <<tcpFd, sockets, objects>>
  /\ UNCHANGED <<config, made, stream, cancelled, clock>>

-----------------------------------------------------------------------------
(* Read and Write                                                          *)

\* WaitForSocketEvent, before a read of a blocking socket with a time-out.
Readable ==
  config.nonblocking \/ config.readTimeout = 0 \/ arriving # << >> \/ peer = "ended"

\* Read: bytes, or nothing, the end or an error, none of which close.  The
\* socket is polled before the session is asked, which may hold the rest of a
\* record: within a read time-out that rest is not found until more arrives.
Read ==
  /\ Calls /\ tcpFd # NoSocket
  /\ Readable
  /\ IF session = NoSocket
     THEN /\ arriving # << >>
          /\ read' = Append(read, Head(arriving)) /\ arriving' = Tail(arriving)
          /\ UNCHANGED withheld
     ELSE IF withheld # << >>
     THEN /\ read' = Append(read, Head(withheld)) /\ withheld' = Tail(withheld)
          /\ UNCHANGED arriving
     ELSE /\ Len(arriving) >= 2
          /\ read' = Append(read, Head(arriving))
          /\ withheld' = SubSeq(arriving, 2, 2) /\ arriving' = SubSeq(arriving, 3, Len(arriving))
  /\ UNCHANGED <<transport, system, peer, open, cancelled, clock>>

\* External: the peer sends a chunk (with TLS, a record of two), or ends.
PeerSends ==
  /\ Calls /\ tcpFd # NoSocket /\ peer = "up"
  /\ LET sent == Len(read) + Len(withheld) + Len(arriving)
         record == IF session = NoSocket THEN <<[on |-> tcpFd, place |-> sent + 1]>>
                   ELSE <<[on |-> tcpFd, place |-> sent + 1], [on |-> tcpFd, place |-> sent + 2]>>
     IN sent < MaxSent /\ arriving' = arriving \o record
  /\ UNCHANGED <<transport, system, withheld, peer, read, open, cancelled, clock>>

PeerEnds ==
  /\ Calls /\ tcpFd # NoSocket /\ peer = "up"
  /\ peer' = "ended"
  /\ UNCHANGED <<transport, system, arriving, withheld, read, open, cancelled, clock>>

-----------------------------------------------------------------------------

\* External: another thread cancels.
Cancels ==
  /\ ~Calls /\ config.cancellable /\ cancelled = -1
  /\ cancelled' = clock
  /\ UNCHANGED <<transport, system, stream, open, clock>>

PollTime ==
  /\ open.stage \in {"pollConnect", "pollPeer"} /\ clock < open.until
  /\ clock' = clock + 1
  /\ UNCHANGED <<transport, system, stream, open, cancelled>>

SetupStep ==
  \/ NextCandidate \/ NoCandidateLeft
  \/ ConnectsPlain \/ ConnectsTls \/ AwaitsConnect \/ ConnectPolled
  \/ Configures \/ StartsTls \/ Handshakes \/ AwaitsPeer \/ PeerPolled \/ HandshakeEnds

TcpNext ==
  \/ \E c \in Configs : OpenTcp(c) \/ Adopt(c)
  \/ SetupStep \/ CloseTcp
  \/ Read \/ PeerSends \/ PeerEnds
  \/ Cancels \/ PollTime

TcpSpec == TcpInit /\ [][TcpNext]_tcpVars

-----------------------------------------------------------------------------
(* Properties                                                              *)

\* "Failed setup releases the TLS objects and socket" (docs/transport.md:279),
\* whichever of its steps failed: nothing is open but the connection and what
\* is being tried, and a connection that was to have TLS has it.  What is read
\* was sent on this connection, in this order.
NothingLeftBehind ==
  /\ sockets = {tcpFd, open.socket} \ {NoSocket}
  /\ objects \subseteq sockets
  /\ Calls =>
       /\ objects = {session} \ {NoSocket}
       /\ session # NoSocket => session = tcpFd
       /\ tcpFd # NoSocket <=> answer = "ok"
       /\ answer = "ok" /\ config.tls => session = tcpFd
  /\ \A i \in DOMAIN read : read[i] = [on |-> tcpFd, place |-> i]

\* However many addresses a host has, a TLS setup ends within one budget, and
\* within one interval of its cancellation (docs/transport.md:271-283).
SetupWithinBudget ==
  ~Calls /\ config.tls =>
    /\ clock <= TlsConnectTimeout(config)
    /\ cancelled # -1 => clock <= cancelled + 1
=============================================================================
