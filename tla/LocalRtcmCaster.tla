--------------------------- MODULE LocalRtcmCaster ---------------------------
(* LocalRtcmCaster: a caster that serves one source of RTCM frames to its   *)
(* clients, each behind a bounded buffer, from one thread.  A byte is a     *)
(* pair of what it belongs to and its place there.                          *)
EXTENDS Integers, Sequences, FiniteSetsExt, SequencesExt

CONSTANTS
  Clients,       \* the connections of a run, each used once
  SourceIds,     \* source_id
  Incarnations,  \* incarnation, zero among them
  NoSource,
  FrameTypes,    \* "1005", "1006" and others
  BufferBytes,   \* client_buffer_bytes; Start refuses less than the response
  MaxPublished,  \* bound on the frames
  MaxPeriods     \* bound on the changes of the source

VARIABLES
  running,    \* the listener is open
  served,     \* source: who is served, or NoSource
  previous,   \* previous_source, kept when the source ends
  cached,     \* cached_1005, cached_1006
  clients,    \* what the caster knows of each connection
  received,   \* what each client received
  published,  \* history: the frames since the caster was made
  period      \* history: the changes of the source since then

casterVars == <<running, served, previous, cached, clients, received, published, period>>

Cached == {"1005", "1006"}
Identities == [source_id : SourceIds, incarnation : Incarnations]

\* The response, and a frame: two bytes each.
Whole(n) == <<<<n, 1>>, <<n, 2>>>>
IcyResponse == Whole(0)
NoBytes == << >>

\* A connection: not made, in the backlog, accepted, ready, or closed; when it
\* got ready it joined after so many frames, in this period (history).
Client(stage) == [stage |-> stage, pending |-> NoBytes, joined |-> 0, period |-> 0]

NothingCached == [t \in Cached |-> NoBytes]

CasterInit ==
  /\ running = FALSE
  /\ served = NoSource /\ previous = NoSource
  /\ cached = NothingCached
  /\ clients = [c \in Clients |-> Client("away")]
  /\ received = [c \in Clients |-> NoBytes]
  /\ published = << >>
  /\ period = 0

-----------------------------------------------------------------------------
(* The caller's operations                                                 *)

\* Queue: all the bytes, or none of them.
Fits(pending, bytes) == Len(bytes) <= BufferBytes - Len(pending)

Closed(client) == [client EXCEPT !.stage = "closed", !.pending = NoBytes]

\* Stop: the clients go, and those that wait; previous_source stays.
Stopped ==
  /\ served' = NoSource
  /\ cached' = NothingCached
  /\ clients' = [c \in Clients |->
       IF clients[c].stage = "away" THEN clients[c] ELSE Closed(clients[c])]
  /\ period' = period + 1
  /\ UNCHANGED <<previous, received, published>>

\* Start stops what runs; the configuration or the port may be refused.
Start(opens) == Stopped /\ running' = opens

Stop == running /\ Stopped /\ running' = FALSE

\* ActivateSource.
ActivateSource(source) ==
  /\ running
  /\ source.incarnation # 0
  /\ source # previous
  /\ served' = source /\ previous' = source
  /\ cached' = NothingCached
  /\ period' = period + 1
  /\ UNCHANGED <<running, clients, received, published>>

\* Mutant: the caches outlive their source.
EndSourceOnly ==
  /\ served # NoSource
  /\ served' = NoSource
  /\ period' = period + 1
  /\ UNCHANGED <<running, previous, cached, clients, received, published>>

\* EndSource.
EndSource ==
  /\ served # NoSource
  /\ served' = NoSource
  /\ cached' = NothingCached
  /\ period' = period + 1
  /\ UNCHANGED <<running, previous, clients, received, published>>

\* PublishFrame of a valid frame: cached if it is static, and queued for every
\* ready client; one that has no room is disconnected, and only that one.
PublishFrame(type) ==
  /\ served # NoSource
  /\ LET bytes == Whole(Len(published) + 1)
         Served(client) ==
           IF Fits(client.pending, bytes) THEN [client EXCEPT !.pending = @ \o bytes]
                                          ELSE Closed(client)
     IN /\ cached' = [t \in Cached |-> IF t = type THEN bytes ELSE cached[t]]
        /\ clients' = [c \in Clients |->
             IF clients[c].stage = "ready" THEN Served(clients[c]) ELSE clients[c]]
  /\ published' = Append(published, [type |-> type, period |-> period])
  /\ UNCHANGED <<running, served, previous, received, period>>

-----------------------------------------------------------------------------
(* Poll                                                                    *)

\* A client that asked for the mountpoint: the response and the cached frames,
\* if the buffer holds them.
Answered(client) ==
  LET bytes == IcyResponse \o cached["1005"] \o cached["1006"]
  IN IF Fits(NoBytes, bytes)
     THEN [client EXCEPT !.stage = "ready", !.pending = bytes,
                         !.joined = Len(published), !.period = period]
     ELSE Closed(client)

\* What recv brings of a request: no line yet, the line that asks for the
\* mountpoint, or another one, too much, or the end.
Requested(client) ==
  IF client.stage \notin {"backlog", "accepted"} THEN {client}
  ELSE {[client EXCEPT !.stage = "accepted"], Answered(client), Closed(client)}

\* send takes some of the first bytes, or it fails.
Sent(client) ==
  {[client |-> [client EXCEPT !.pending = SubSeq(@, n + 1, Len(@))],
    bytes |-> SubSeq(client.pending, 1, n)] : n \in 0..Len(client.pending)}
  \cup {[client |-> Closed(client), bytes |-> NoBytes] : n \in 1..Len(client.pending)}

Polled(client) == UNION {Sent(asked) : asked \in Requested(client)}

\* Poll: every client is accepted, read and sent to, one after another.
Poll ==
  /\ running
  /\ \E outcome \in [Clients -> UNION {Polled(clients[c]) : c \in Clients}] :
       /\ \A c \in Clients : outcome[c] \in Polled(clients[c])
       /\ clients' = [c \in Clients |-> outcome[c].client]
       /\ received' = [c \in Clients |-> received[c] \o outcome[c].bytes]
  /\ UNCHANGED <<running, served, previous, cached, published, period>>

\* A client connects.
Connects(c) ==
  /\ running
  /\ clients[c].stage = "away"
  /\ clients' = [clients EXCEPT ![c] = Client("backlog")]
  /\ UNCHANGED <<running, served, previous, cached, received, published, period>>

CasterNext ==
  \/ period < MaxPeriods /\ \E opens \in BOOLEAN : Start(opens)
  \/ Stop
  \/ period < MaxPeriods /\ \E source \in Identities : ActivateSource(source)
  \/ EndSource
  \/ Len(published) < MaxPublished /\ \E type \in FrameTypes : PublishFrame(type)
  \/ Poll
  \/ \E c \in Clients : Connects(c)

CasterSpec == CasterInit /\ [][CasterNext]_casterVars

-----------------------------------------------------------------------------
(* Properties                                                              *)

\* The last frame of a type that was published in a period, among the first so
\* many frames.
LastOf(frames, type, count, in) ==
  LET of == {n \in 1..count : frames[n].type = type /\ frames[n].period = in}
  IN IF of = {} THEN NoBytes ELSE Whole(Max(of))

\* The frames after the n-th, to the m-th.
FramesBetween(n, m) ==
  [i \in 1 .. 2 * (m - n) |-> <<n + (i + 1) \div 2, IF i % 2 = 1 THEN 1 ELSE 2>>]

\* What a client is to receive from the moment it is served: the response, the
\* base position of the source that is active then, and every frame since.
ServedTo(frames, client) ==
  IcyResponse \o LastOf(frames, "1005", client.joined, client.period)
              \o LastOf(frames, "1006", client.joined, client.period)
              \o FramesBetween(client.joined, Len(frames))

\* A client gets every frame whole and in order, after the static frames of
\* the active source and of no other (docs/ntrip.md:73); one whose buffer is
\* full, or who fails, ends with what it got by then, and no other client
\* misses anything.
ServedWhole ==
  \A c \in Clients :
    IF clients[c].stage = "ready"
    THEN received[c] \o clients[c].pending = ServedTo(published, clients[c])
    ELSE IsPrefix(received[c], ServedTo(published, clients[c]))
==============================================================================
