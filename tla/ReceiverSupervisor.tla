------------------------- MODULE ReceiverSupervisor -------------------------
(***************************************************************************)
(* gnss_runtime/src/receiver_supervisor.cpp: one receiver kept connected,  *)
(* and one NTRIP stream whose RTCM frames are forwarded to it.  Three      *)
(* threads meet here: the owner, who calls Start and Stop; the receiver    *)
(* worker (Run); the NTRIP worker (RunNtrip).                              *)
(*                                                                         *)
(* mutex_ and correction_mutex_ protect short sections that never block:   *)
(* one action each.  A link's writer_mutex is held across transport calls, *)
(* so it is a variable.  Transport calls follow the lease protocol of      *)
(* DescriptorLease: Close refuses new operations, cancels the pending      *)
(* ones and returns when the last one has.  A serial port opened by        *)
(* universal_gnss_supervisor blocks without a time limit, so a pending     *)
(* read or write may stay pending for as long as the port is open.         *)
(*                                                                         *)
(* Time is abstract: a timed wait returns at an arbitrary moment, so the   *)
(* doubling of the reconnect delay is not modelled, nor are the counters   *)
(* and texts of the snapshot that no decision reads.                       *)
(***************************************************************************)
EXTENDS Integers, Sequences, FiniteSets, RtcmFrameWriter

CONSTANTS
  MaxLinks,      \* bound: transports opened in all
  MaxFrames,     \* bound: RTCM frames received from the caster in all
  MaxPositions,  \* bound: position observations per receiver session
  MaxRuns        \* bound: calls of Start

ASSUME BoundsAssumption ==
  {MaxLinks, MaxFrames, MaxPositions, MaxRuns} \subseteq Nat

VARIABLES
  stopping,     \* stopping_
  active,       \* active_, guarded by correction_mutex_
  snapshot,     \* snapshot_, guarded by mutex_
  port,         \* a link's transport: "none", "open", "closing", "closed"
  leases,       \* threads with a transport operation in progress on a link
  writerLock,   \* owner of a link's writer_mutex
  queue,        \* a link's writer
  incarnation,  \* a link's incarnation
  owner,        \* the owner thread: where it is, Stop's link
  worker,       \* the receiver worker: where it is, its link and session
  ntrip,        \* the NTRIP worker: where it is, its client and locals
  opened,       \* transports opened so far: links are 1 .. opened
  received,     \* frames received so far
  runs,         \* calls of Start so far
  wire,         \* history: the bytes each transport accepted
  ggaSent       \* history: <<link, observation>> of each injection attempt

shared == <<stopping, active, snapshot>>
links == <<port, leases, writerLock, queue, incarnation, opened, wire>>
vars == <<shared, links, owner, worker, ntrip, received, runs, ggaSent>>

Links == 1 .. MaxLinks
Frames == 1 .. MaxFrames
NoLink == 0
NoObs == -1
Lifecycles == {"stopped", "starting", "connected", "reconnecting", "stopping"}
ClientStates == {"disconnected", "connected", "streaming"}

OwnerStates ==
  {"idle", "running", "take", "notify", "close", "closing", "abandon",
   "joinWorker", "joinNtrip"}
WorkerStates ==
  {"none", "check", "open", "publish", "activate", "inner", "read", "reading",
   "update", "idle", "lastUpdate", "close", "closing", "retire", "abandon",
   "left", "reconnect", "wait", "final", "done"}
NtripStates ==
  {"none", "check", "connect", "wait", "gga", "ggaUpdate", "flush",
   "flushLock", "write", "writing", "closeFailed", "closing", "publish",
   "read", "forward", "enqueue", "update", "disconnect", "done"}

EmptySnapshot ==
  [lifecycle |-> "stopped", connected |-> FALSE, incarnation |-> 0,
   state |-> NoLink, observations |-> NoObs, client |-> "disconnected",
   forwarding |-> FALSE, depth |-> 0, frames |-> 0]

IdleWorker ==
  [pc |-> "none", link |-> NoLink, updated |-> FALSE, observations |-> 0,
   terminal |-> FALSE, result |-> "idle"]

IdleNtrip ==
  [pc |-> "none", link |-> NoLink, client |-> "disconnected", todo |-> << >>,
   idle |-> TRUE, forwards |-> FALSE, depth |-> 0, frames |-> 0, ggaIncarnation |-> 0,
   ggaObservations |-> 0]

Snapshots ==
  [lifecycle : Lifecycles, connected : BOOLEAN, incarnation : 0 .. MaxLinks,
   state : Links \cup {NoLink}, observations : {NoObs} \cup 0 .. MaxPositions,
   client : ClientStates, forwarding : BOOLEAN, depth : Nat, frames : Nat]
Owners == [pc : OwnerStates, link : Links \cup {NoLink}]
Workers ==
  [pc : WorkerStates, link : Links \cup {NoLink}, updated : BOOLEAN,
   observations : 0 .. MaxPositions, terminal : BOOLEAN,
   result : {"idle", "data", "terminal"}]
Ntrips ==
  [pc : NtripStates, link : Links \cup {NoLink}, client : ClientStates,
   todo : Seq(Frames), idle : BOOLEAN, forwards : BOOLEAN, depth : Nat, frames : Nat,
   ggaIncarnation : 0 .. MaxLinks,
   ggaObservations : 0 .. MaxPositions]

TypeOK ==
  /\ stopping \in BOOLEAN
  /\ active \in Links \cup {NoLink}
  /\ snapshot \in Snapshots
  /\ port \in [Links -> {"none", "open", "closing", "closed"}]
  /\ leases \in [Links -> SUBSET {"worker", "ntrip"}]
  /\ writerLock \in [Links -> {"free", "ntrip"}]
  /\ queue \in [Links -> Seq(Entries(Frames))]
  /\ incarnation \in [Links -> 0 .. MaxLinks]
  /\ owner \in Owners
  /\ worker \in Workers
  /\ ntrip \in Ntrips
  /\ opened \in 0 .. MaxLinks
  /\ received \in 0 .. MaxFrames
  /\ runs \in 0 .. MaxRuns

Init ==
  /\ stopping = FALSE
  /\ active = NoLink
  /\ snapshot = EmptySnapshot
  /\ port = [l \in Links |-> "none"]
  /\ leases = [l \in Links |-> {}]
  /\ writerLock = [l \in Links |-> "free"]
  /\ queue = [l \in Links |-> << >>]
  /\ incarnation = [l \in Links |-> 0]
  /\ owner = [pc |-> "idle", link |-> NoLink]
  /\ worker = IdleWorker
  /\ ntrip = IdleNtrip
  /\ opened = 0
  /\ received = 0
  /\ runs = 0
  /\ wire = [l \in Links |-> << >>]
  /\ ggaSent = << >>

-----------------------------------------------------------------------------
(* Transport calls, in the lease protocol of DescriptorLease.              *)

\* Close: nothing to do, or cancel; it waits for another thread's Close.
CloseBegins(l) ==
  /\ port[l] # "closing"
  /\ port' = [port EXCEPT ![l] = IF @ = "open" THEN "closing" ELSE @]
  /\ UNCHANGED <<leases, writerLock, queue, incarnation, opened, wire>>

CloseReturns(l) ==
  /\ leases[l] = {}
  /\ port' = [port EXCEPT ![l] = "closed"]
  /\ UNCHANGED <<leases, writerLock, queue, incarnation, opened, wire>>

\* writer.Abandon() under writer_mutex, by a thread that then releases it.
Abandon(l) ==
  /\ writerLock[l] = "free"
  /\ queue' = [queue EXCEPT ![l] = Abandoned]
  /\ UNCHANGED <<port, leases, writerLock, incarnation, opened, wire>>

-----------------------------------------------------------------------------
(* The owner thread.                                                       *)

OwnerGoto(label) == owner' = [owner EXCEPT !.pc = label]

\* Start, when no worker is joinable.  Otherwise it changes nothing.
Start ==
  /\ owner.pc = "idle"
  /\ runs < MaxRuns
  /\ runs' = runs + 1
  /\ stopping' = FALSE
  /\ snapshot' = [EmptySnapshot EXCEPT !.lifecycle = "starting"]
  /\ worker' = [IdleWorker EXCEPT !.pc = "check"]
  /\ ntrip' = [IdleNtrip EXCEPT !.pc = "check"]
  /\ OwnerGoto("running")
  /\ UNCHANGED <<active, links, received, ggaSent>>

\* Stop, in the order it takes: raise the flag, ...
StopRequested ==
  /\ owner.pc \in {"idle", "running"}
  /\ stopping' = TRUE
  /\ OwnerGoto("take")
  /\ UNCHANGED <<active, snapshot, links, worker, ntrip, received, runs, ggaSent>>

\* ... take the active link, ...
StopTakesLink ==
  /\ owner.pc = "take"
  /\ owner' = [pc |-> "notify", link |-> active]
  /\ active' = NoLink
  /\ UNCHANGED <<stopping, snapshot, links, worker, ntrip, received, runs, ggaSent>>

\* ... show it, wake the waits, ...
StopNotifies ==
  /\ owner.pc = "notify"
  /\ snapshot' = [snapshot EXCEPT
       !.lifecycle = IF @ = "stopped" THEN @ ELSE "stopping",
       !.forwarding = FALSE,
       !.depth = 0]
  /\ OwnerGoto(IF owner.link = NoLink THEN "joinWorker" ELSE "close")
  /\ UNCHANGED <<stopping, active, links, worker, ntrip, received, runs, ggaSent>>

\* Mutant: Stop leaves the transport to the worker.
StopSkipsClose ==
  /\ owner.pc = "close"
  /\ OwnerGoto("abandon")
  /\ UNCHANGED <<shared, links, worker, ntrip, received, runs, ggaSent>>

\* ... close the transport, ...
StopCloses ==
  /\ \/ owner.pc = "close" /\ CloseBegins(owner.link) /\ OwnerGoto("closing")
     \/ owner.pc = "closing" /\ CloseReturns(owner.link) /\ OwnerGoto("abandon")
  /\ UNCHANGED <<shared, worker, ntrip, received, runs, ggaSent>>

\* ... drop what was queued for it, ...
StopAbandons ==
  /\ owner.pc = "abandon"
  /\ Abandon(owner.link)
  /\ owner' = [pc |-> "joinWorker", link |-> NoLink]
  /\ UNCHANGED <<shared, worker, ntrip, received, runs, ggaSent>>

\* Mutant: Stop joins the receiver worker only.
StopJoinsReceiverOnly ==
  /\ owner.pc = "joinWorker"
  /\ worker.pc \in {"none", "done"}
  /\ owner' = [pc |-> "idle", link |-> NoLink]
  /\ UNCHANGED <<shared, links, worker, ntrip, received, runs, ggaSent>>

\* ... and join both workers, if there are any.
StopJoins ==
  /\ \/ /\ owner.pc = "joinWorker"
        /\ worker.pc \in {"none", "done"}
        /\ OwnerGoto("joinNtrip")
     \/ /\ owner.pc = "joinNtrip"
        /\ ntrip.pc \in {"none", "done"}
        /\ owner' = [pc |-> "idle", link |-> NoLink]
  /\ UNCHANGED <<shared, links, worker, ntrip, received, runs, ggaSent>>

OwnerSteps ==
  StopTakesLink \/ StopNotifies \/ StopCloses \/ StopAbandons \/ StopJoins

-----------------------------------------------------------------------------
(* The receiver worker: Run.                                               *)

WorkerGoto(label) == worker' = [worker EXCEPT !.pc = label]

\* What the steps of the worker never touch.
WorkerFrame == UNCHANGED <<stopping, owner, ntrip, received, runs, ggaSent>>

\* The conditions of Run's two loops.
RunChecksStop ==
  /\ \/ worker.pc = "check" /\ WorkerGoto(IF stopping THEN "final" ELSE "open")
     \/ worker.pc = "inner" /\ WorkerGoto(IF stopping THEN "lastUpdate" ELSE "read")
  /\ UNCHANGED <<active, snapshot, links>>
  /\ WorkerFrame

\* transport_factory fails.
RunOpenFails ==
  /\ worker.pc = "open"
  /\ snapshot' = [snapshot EXCEPT
       !.lifecycle = "reconnecting", !.connected = FALSE, !.state = NoLink]
  /\ WorkerGoto("wait")
  /\ UNCHANGED <<active, links>>
  /\ WorkerFrame

\* transport_factory returns an open transport; a new session is built on it.
RunOpens ==
  /\ worker.pc = "open"
  /\ opened < MaxLinks
  /\ opened' = opened + 1
  /\ port' = [port EXCEPT ![opened + 1] = "open"]
  /\ worker' = [IdleWorker EXCEPT !.pc = "publish", !.link = opened + 1]
  /\ UNCHANGED <<active, snapshot, leases, writerLock, queue, incarnation, wire>>
  /\ WorkerFrame

RunPublishes ==
  /\ worker.pc = "publish"
  /\ snapshot' = [snapshot EXCEPT
       !.incarnation = @ + 1,
       !.lifecycle = "connected",
       !.connected = TRUE,
       !.state = NoLink,
       !.observations = worker.observations]
  /\ incarnation' = [incarnation EXCEPT ![worker.link] = snapshot.incarnation + 1]
  /\ WorkerGoto("activate")
  /\ UNCHANGED <<active, port, leases, writerLock, queue, opened, wire>>
  /\ WorkerFrame

RunActivates ==
  /\ worker.pc = "activate"
  /\ active' = worker.link
  /\ WorkerGoto("inner")
  /\ UNCHANGED <<snapshot, links>>
  /\ WorkerFrame

\* The session takes what the read returned: nothing, data that may carry a
\* position, or a terminal status, which may complete a pending position.
SessionSteps(result, updates, positions) ==
  /\ worker.observations + positions <= MaxPositions
  /\ worker' = [worker EXCEPT
       !.pc = "update",
       !.result = result,
       !.updated = @ \/ updates,
       !.observations = @ + positions]

\* Finalize flushes what the parsers still hold.
SessionEnds ==
  \E updates \in BOOLEAN, positions \in {0, 1} :
    /\ positions = 1 => updates
    /\ SessionSteps("terminal", updates, positions)

\* Mutant: a read on a closed port is taken for an idle one.
RunReadsClosedAsIdle ==
  /\ worker.pc = "read"
  /\ IF port[worker.link] = "open"
     THEN /\ leases' = [leases EXCEPT ![worker.link] = @ \cup {"worker"}]
          /\ WorkerGoto("reading")
     ELSE /\ SessionSteps("idle", FALSE, 0)
          /\ UNCHANGED leases
  /\ UNCHANGED <<active, snapshot, port, writerLock, queue, incarnation, opened, wire>>
  /\ WorkerFrame

RunReads ==
  /\ worker.pc = "read"
  /\ IF port[worker.link] = "open"
     THEN /\ leases' = [leases EXCEPT ![worker.link] = @ \cup {"worker"}]
          /\ WorkerGoto("reading")
     ELSE /\ SessionEnds
          /\ UNCHANGED leases
  /\ UNCHANGED <<active, snapshot, port, writerLock, queue, incarnation, opened, wire>>
  /\ WorkerFrame

\* The device, or the absence of an answer within the poll, ends the read.
RunReadReturns ==
  /\ worker.pc = "reading"
  /\ \/ SessionSteps("idle", FALSE, 0)
     \/ SessionSteps("data", FALSE, 0)
     \/ \E positions \in {0, 1} : SessionSteps("data", TRUE, positions)
     \/ SessionEnds
  /\ leases' = [leases EXCEPT ![worker.link] = @ \ {"worker"}]
  /\ UNCHANGED <<active, snapshot, port, writerLock, queue, incarnation, opened, wire>>
  /\ WorkerFrame

\* A Close cancels the pending read.
RunReadCancelled ==
  /\ worker.pc = "reading"
  /\ port[worker.link] = "closing"
  /\ SessionEnds
  /\ leases' = [leases EXCEPT ![worker.link] = @ \ {"worker"}]
  /\ UNCHANGED <<active, snapshot, port, writerLock, queue, incarnation, opened, wire>>
  /\ WorkerFrame

\* Update, in the loop and once more after it.
Update ==
  /\ worker.pc \in {"update", "lastUpdate"}
  /\ snapshot' = [snapshot EXCEPT
       !.observations = worker.observations,
       !.state = IF worker.updated THEN worker.link ELSE @]
  /\ worker' = [worker EXCEPT
       !.pc = CASE worker.pc = "lastUpdate" -> "close"
                [] worker.pc = "update" /\ worker.result = "terminal" -> "lastUpdate"
                [] worker.pc = "update" /\ worker.result = "idle" -> "idle"
                [] OTHER -> "inner",
       !.terminal = @ \/ (worker.pc = "update" /\ worker.result = "terminal"),
       !.result = "idle"]
  /\ UNCHANGED <<active, links>>
  /\ WorkerFrame

\* Wait returns: false when Stop was called, else the time is over.
RunWaits ==
  /\ \/ worker.pc = "idle" /\ WorkerGoto(IF stopping THEN "lastUpdate" ELSE "inner")
     \/ worker.pc = "wait" /\ WorkerGoto(IF stopping THEN "final" ELSE "check")
  /\ UNCHANGED <<active, snapshot, links>>
  /\ WorkerFrame

\* Mutant: the worker relies on Stop, or on a failed write, to close.
RunSkipsClose ==
  /\ worker.pc = "close"
  /\ WorkerGoto("retire")
  /\ UNCHANGED <<active, snapshot, links>>
  /\ WorkerFrame

\* The worker closes the transport it opened, whoever else has.
RunCloses ==
  /\ \/ worker.pc = "close" /\ CloseBegins(worker.link) /\ WorkerGoto("closing")
     \/ worker.pc = "closing" /\ CloseReturns(worker.link) /\ WorkerGoto("retire")
  /\ UNCHANGED <<active, snapshot>>
  /\ WorkerFrame

RunRetires ==
  /\ worker.pc = "retire"
  /\ active' = IF active = worker.link THEN NoLink ELSE active
  /\ WorkerGoto("abandon")
  /\ UNCHANGED <<snapshot, links>>
  /\ WorkerFrame

RunAbandons ==
  /\ worker.pc = "abandon"
  /\ Abandon(worker.link)
  /\ WorkerGoto("left")
  /\ UNCHANGED <<active, snapshot>>
  /\ WorkerFrame

RunLeavesSession ==
  /\ worker.pc = "left"
  /\ WorkerGoto(IF stopping \/ ~worker.terminal THEN "final" ELSE "reconnect")
  /\ UNCHANGED <<active, snapshot, links>>
  /\ WorkerFrame

\* Mutant: the receiver state is left to the next publication to clear.
RunReconnectsKeepingState ==
  /\ worker.pc = "reconnect"
  /\ snapshot' = [snapshot EXCEPT
       !.lifecycle = "reconnecting", !.connected = FALSE,
       !.forwarding = FALSE, !.depth = 0]
  /\ WorkerGoto("wait")
  /\ UNCHANGED <<active, links>>
  /\ WorkerFrame

RunReconnects ==
  /\ worker.pc = "reconnect"
  /\ snapshot' = [snapshot EXCEPT
       !.lifecycle = "reconnecting", !.connected = FALSE, !.state = NoLink,
       !.forwarding = FALSE, !.depth = 0]
  /\ WorkerGoto("wait")
  /\ UNCHANGED <<active, links>>
  /\ WorkerFrame

RunEnds ==
  /\ worker.pc = "final"
  /\ snapshot' = [snapshot EXCEPT
       !.lifecycle = "stopped", !.connected = FALSE, !.state = NoLink,
       !.forwarding = FALSE, !.depth = 0]
  /\ WorkerGoto("done")
  /\ UNCHANGED <<active, links>>
  /\ WorkerFrame

\* The steps that wait for nothing but another thread's progress.
WorkerSteps ==
  \/ RunChecksStop \/ RunOpenFails \/ RunOpens \/ RunPublishes \/ RunActivates
  \/ RunReads \/ RunReadCancelled \/ Update \/ RunWaits
  \/ RunCloses \/ RunRetires \/ RunAbandons \/ RunLeavesSession
  \/ RunReconnects \/ RunEnds

-----------------------------------------------------------------------------
(* The NTRIP worker: RunNtrip.                                             *)

NtripGoto(label) == ntrip' = [ntrip EXCEPT !.pc = label]

\* The end of FlushPendingRtcm or ForwardRtcm: its locals are gone.
NtripLeavesLink(label) ==
  ntrip' = [ntrip EXCEPT !.pc = label, !.link = NoLink, !.forwards = FALSE,
                         !.frames = 0, !.depth = 0,
                         !.todo = IF ntrip.forwards THEN Tail(@) ELSE @]

\* What the steps of the NTRIP worker never touch.
NtripFrame == UNCHANGED <<stopping, active, owner, worker, runs>>

\* UpdateNtrip copies the client's state into the snapshot.
UpdateNtrip(state) == snapshot' = [snapshot EXCEPT !.client = state]

\* The loop condition, and whether to connect.
NtripChecksStop ==
  /\ ntrip.pc = "check"
  /\ NtripGoto(IF stopping THEN "disconnect"
               ELSE IF ntrip.client = "disconnected" THEN "connect" ELSE "gga")
  /\ UNCHANGED <<snapshot, links, received, ggaSent>>
  /\ NtripFrame

\* Connect and SendRequest, then UpdateNtrip.
NtripConnects ==
  /\ ntrip.pc = "connect"
  /\ \E result \in {"disconnected", "connected"} :
       /\ ntrip' = [ntrip EXCEPT
            !.client = result,
            !.pc = IF result = "connected" THEN "gga" ELSE "wait"]
       /\ UpdateNtrip(result)
  /\ UNCHANGED <<links, received, ggaSent>>
  /\ NtripFrame

NtripWaits ==
  /\ ntrip.pc = "wait"
  /\ NtripGoto(IF stopping THEN "disconnect" ELSE "check")
  /\ UNCHANGED <<snapshot, links, received, ggaSent>>
  /\ NtripFrame

\* Mutant: the observation last offered is not remembered.
PositionsForgotten == 0

\* gga_position_observations, which a new incarnation resets.
PositionsSeen ==
  IF snapshot.incarnation = ntrip.ggaIncarnation THEN ntrip.ggaObservations ELSE 0

\* Snapshot, then at most one injection for an observation not seen before.
\* The client sends the sentence, declines it, or loses the connection.
NtripInjectsGga ==
  /\ ntrip.pc = "gga"
  /\ LET inject == /\ ntrip.client = "streaming"
                   /\ snapshot.state # NoLink
                   /\ snapshot.observations > PositionsSeen
     IN \/ /\ inject
           /\ \E result \in {"streaming", "disconnected"} :
                ntrip' = [ntrip EXCEPT
                  !.pc = "ggaUpdate", !.client = result,
                  !.ggaIncarnation = snapshot.incarnation,
                  !.ggaObservations = snapshot.observations]
           /\ ggaSent' = Append(ggaSent, <<snapshot.state, snapshot.observations>>)
        \/ /\ ~inject
           /\ ntrip' = [ntrip EXCEPT
                !.pc = "flush",
                !.ggaIncarnation = snapshot.incarnation,
                !.ggaObservations = PositionsSeen]
           /\ UNCHANGED ggaSent
  /\ UNCHANGED <<snapshot, links, received>>
  /\ NtripFrame

NtripPublishesGga ==
  /\ ntrip.pc = "ggaUpdate"
  /\ UpdateNtrip(ntrip.client)
  /\ NtripGoto(IF ntrip.client = "disconnected" THEN "check" ELSE "flush")
  /\ UNCHANGED <<links, received, ggaSent>>
  /\ NtripFrame

\* client.Read: an error, nothing, or bytes that may complete the response
\* header and any number of frames.
NtripReads ==
  /\ ntrip.pc = "read"
  /\ \/ /\ ntrip' = [ntrip EXCEPT !.pc = "forward", !.client = "disconnected",
                                  !.idle = FALSE]
        /\ UNCHANGED received
     \/ /\ ntrip' = [ntrip EXCEPT !.pc = "forward", !.idle = TRUE]
        /\ UNCHANGED received
     \/ \E count \in 0 .. MaxFrames - received :
          /\ ntrip' = [ntrip EXCEPT
               !.pc = "forward", !.client = "streaming", !.idle = FALSE,
               !.todo = [i \in 1 .. count |-> received + i]]
          /\ received' = received + count
  /\ UNCHANGED <<snapshot, links, ggaSent>>
  /\ NtripFrame

\* FlushPendingRtcm and ForwardRtcm take the active link; without one,
\* nothing is flushed and the frame is dropped.
TakesActiveLink ==
  /\ \/ /\ ntrip.pc = "flush"
        /\ ntrip' = [ntrip EXCEPT !.link = active,
                                  !.pc = IF active = NoLink THEN "read" ELSE "flushLock"]
     \/ /\ ntrip.pc = "forward"
        /\ ntrip.todo # << >>
        /\ ntrip' = [ntrip EXCEPT !.link = active, !.forwards = active # NoLink,
                                  !.todo = IF active = NoLink THEN Tail(@) ELSE @,
                                  !.pc = IF active = NoLink THEN @ ELSE "enqueue"]
  /\ UNCHANGED <<snapshot, links, received, ggaSent>>
  /\ NtripFrame

\* FlushPendingRtcm under writer_mutex, up to its first write.
FlushPendingRtcm ==
  /\ ntrip.pc = "flushLock"
  /\ writerLock[ntrip.link] = "free"
  /\ IF queue[ntrip.link] = << >> \/ port[ntrip.link] # "open"
     THEN NtripLeavesLink("read") /\ UNCHANGED writerLock
     ELSE NtripGoto("write") /\ writerLock' = [writerLock EXCEPT ![ntrip.link] = "ntrip"]
  /\ UNCHANGED <<snapshot, port, leases, queue, incarnation, opened, wire, received,
                 ggaSent>>
  /\ NtripFrame

\* ForwardRtcm under writer_mutex: the frame is dropped when the port is
\* closed or the queue full, and else queued and flushed.
ForwardRtcm ==
  /\ ntrip.pc = "enqueue"
  /\ writerLock[ntrip.link] = "free"
  /\ LET l == ntrip.link IN
       \/ /\ port[l] # "open"
          /\ NtripLeavesLink("forward")
          /\ UNCHANGED <<writerLock, queue>>
       \/ /\ port[l] = "open"
          /\ ~CanEnqueue(queue[l])
          /\ ntrip' = [ntrip EXCEPT !.depth = Len(queue[l]), !.pc = "publish"]
          /\ UNCHANGED <<writerLock, queue>>
       \/ /\ port[l] = "open"
          /\ CanEnqueue(queue[l])
          /\ queue' = [queue EXCEPT ![l] = Enqueue(@, Head(ntrip.todo))]
          /\ writerLock' = [writerLock EXCEPT ![l] = "ntrip"]
          /\ NtripGoto("write")
  /\ UNCHANGED <<snapshot, port, leases, incarnation, opened, wire, received, ggaSent>>
  /\ NtripFrame

\* The writer fails: its queue is abandoned and the transport is closed,
\* still under writer_mutex.
WriterFails(l) ==
  /\ queue' = [queue EXCEPT ![l] = Abandoned]
  /\ ntrip' = [ntrip EXCEPT !.depth = 0, !.pc = "closeFailed"]

\* A turn of Flush begins.
NtripWrites ==
  /\ ntrip.pc = "write"
  /\ LET l == ntrip.link IN
       IF port[l] = "open"
       THEN /\ leases' = [leases EXCEPT ![l] = @ \cup {"ntrip"}]
            /\ NtripGoto("writing")
            /\ UNCHANGED queue
       ELSE WriterFails(l) /\ UNCHANGED leases
  /\ UNCHANGED <<snapshot, port, writerLock, incarnation, opened, wire, received,
                 ggaSent>>
  /\ NtripFrame

\* The device accepts bytes of the head, or none for now (kBlocked): another
\* turn follows unless nothing was accepted or the queue is drained.
NtripWriteAccepted ==
  /\ ntrip.pc = "writing"
  /\ LET l == ntrip.link IN
     \E accepted \in 0 .. Remaining(queue[l]) :
       LET rest == AfterWrite(queue[l], accepted)
           again == accepted > 0 /\ rest # << >>
       IN /\ wire' = [wire EXCEPT ![l] = @ \o Bytes(queue[l], accepted)]
          /\ queue' = [queue EXCEPT ![l] = rest]
          /\ leases' = [leases EXCEPT ![l] = @ \ {"ntrip"}]
          /\ writerLock' = [writerLock EXCEPT ![l] = IF again THEN @ ELSE "free"]
          /\ ntrip' = [ntrip EXCEPT
               !.frames = IF Completes(queue[l], accepted) THEN @ + 1 ELSE @,
               !.depth = Len(rest),
               !.pc = IF again THEN "write" ELSE "publish"]
  /\ UNCHANGED <<snapshot, port, incarnation, opened, received, ggaSent>>
  /\ NtripFrame

\* The write fails, after accepting any number of bytes.
NtripWriteFails ==
  /\ ntrip.pc = "writing"
  /\ LET l == ntrip.link IN
     \E accepted \in 0 .. Remaining(queue[l]) - 1 :
       /\ wire' = [wire EXCEPT ![l] = @ \o Bytes(queue[l], accepted)]
       /\ leases' = [leases EXCEPT ![l] = @ \ {"ntrip"}]
       /\ WriterFails(l)
  /\ UNCHANGED <<snapshot, port, writerLock, incarnation, opened, received, ggaSent>>
  /\ NtripFrame

\* A Close cancels the pending write.
NtripWriteCancelled ==
  /\ ntrip.pc = "writing"
  /\ port[ntrip.link] = "closing"
  /\ leases' = [leases EXCEPT ![ntrip.link] = @ \ {"ntrip"}]
  /\ WriterFails(ntrip.link)
  /\ UNCHANGED <<snapshot, port, writerLock, incarnation, opened, wire, received,
                 ggaSent>>
  /\ NtripFrame

\* After kFailed: Close, and writer_mutex is released at the end of its scope.
NtripCloses ==
  /\ \/ ntrip.pc = "closeFailed" /\ CloseBegins(ntrip.link) /\ NtripGoto("closing")
     \/ /\ ntrip.pc = "closing"
        /\ leases[ntrip.link] = {}
        /\ port' = [port EXCEPT ![ntrip.link] = "closed"]
        /\ writerLock' = [writerLock EXCEPT ![ntrip.link] = "free"]
        /\ NtripGoto("publish")
        /\ UNCHANGED <<leases, queue, incarnation, opened, wire>>
  /\ UNCHANGED <<snapshot, received, ggaSent>>
  /\ NtripFrame

\* The end of FlushPendingRtcm and ForwardRtcm, under mutex_ alone.
PublishesForwarding ==
  /\ ntrip.pc = "publish"
  /\ snapshot' = [snapshot EXCEPT
       !.depth = ntrip.depth,
       !.frames = @ + ntrip.frames,
       !.forwarding = @ \/ ntrip.frames > 0]
  /\ NtripLeavesLink(IF ntrip.forwards THEN "forward" ELSE "read")
  /\ UNCHANGED <<links, received, ggaSent>>
  /\ NtripFrame

\* UpdateNtrip after the last frame of a read; an idle stream is waited for.
NtripEndsTurn ==
  /\ ntrip.pc = "forward"
  /\ ntrip.todo = << >>
  /\ UpdateNtrip(ntrip.client)
  /\ ntrip' = [ntrip EXCEPT !.pc = IF ntrip.idle THEN "wait" ELSE "check",
                            !.idle = TRUE]
  /\ UNCHANGED <<links, received, ggaSent>>
  /\ NtripFrame

NtripEnds ==
  /\ ntrip.pc = "disconnect"
  /\ ntrip' = [ntrip EXCEPT !.client = "disconnected", !.pc = "done"]
  /\ UpdateNtrip("disconnected")
  /\ UNCHANGED <<links, received, ggaSent>>
  /\ NtripFrame

\* The steps that wait for nothing but another thread's progress.
NtripSteps ==
  \/ NtripChecksStop \/ NtripConnects \/ NtripWaits
  \/ NtripInjectsGga \/ NtripPublishesGga \/ NtripReads
  \/ TakesActiveLink \/ FlushPendingRtcm \/ ForwardRtcm
  \/ NtripWrites \/ NtripWriteCancelled \/ NtripCloses
  \/ PublishesForwarding \/ NtripEndsTurn \/ NtripEnds

-----------------------------------------------------------------------------
Next ==
  \/ Start \/ StopRequested \/ OwnerSteps
  \/ WorkerSteps \/ RunReadReturns
  \/ NtripSteps \/ NtripWriteAccepted \/ NtripWriteFails

Spec == Init /\ [][Next]_vars

(* A thread that can run does run.  Nothing is assumed of the device: a    *)
(* read or a write on an open port may never return.                       *)
Fairness == WF_vars(OwnerSteps) /\ WF_vars(WorkerSteps) /\ WF_vars(NtripSteps)

FairSpec == Spec /\ Fairness

-----------------------------------------------------------------------------
(* Properties.                                                             *)

\* The bytes of one transport are whole frames in the order they came, the
\* last one possibly cut short: a partially written frame is continued or
\* it is the last thing the receiver gets, whatever closes the port.
WholeFrames(w) ==
  \A i \in 1 .. Len(w) :
    LET frame == w[i][1]
        position == w[i][2]
    IN IF position = 1
       THEN i > 1 => w[i - 1][2] = FrameBytes /\ w[i - 1][1] < frame
       ELSE i > 1 /\ w[i - 1] = <<frame, position - 1>>
NoTornFrame == \A l \in Links : WholeFrames(wire[l])

\* Flush works on a reference to the head of its queue; Run and Stop, which
\* abandon queues, never do so between the write and the use of its result.
FlushKeepsItsFrame ==
  ntrip.pc \in {"write", "writing"} =>
    writerLock[ntrip.link] = "ntrip" /\ queue[ntrip.link] # << >>

\* Correction bytes reach only the session that the worker is running: none
\* is accepted by a transport that was retired, or before it is published.
BytesOnlyToLiveSession ==
  [][\A l \in Links : wire[l]' # wire[l] =>
       /\ l = worker.link
       /\ worker.pc \in {"inner", "read", "reading", "update", "idle",
                         "lastUpdate", "close", "closing"}]_vars

\* A receiver state is shown only while connected, and it is the state of
\* the session whose incarnation is shown with it.
StateOfThisIncarnation ==
  snapshot.state # NoLink =>
    /\ snapshot.connected
    /\ incarnation[snapshot.state] = snapshot.incarnation

\* rtcm_forwarded_frames counts what the receivers of this run got, no more
\* and no less: every frame completed on the wire is counted once, by the
\* call that completed it.
LinksOfRun ==
  {l \in 1 .. opened :
     l + snapshot.incarnation > opened - (IF worker.pc = "publish" THEN 1 ELSE 0)}
Completed(l) == {i \in 1 .. Len(wire[l]) : wire[l][i][2] = FrameBytes}
FramesAccounted ==
  /\ TypeOK
  /\ snapshot.frames + ntrip.frames =
       Cardinality(UNION {{l} \X Completed(l) : l \in LinksOfRun})

\* No correction frame is lost in part, sent in part or counted wrongly,
\* whoever closes the port, stops the run or loses the receiver meanwhile.
FramesKept == NoTornFrame /\ FlushKeepsItsFrame /\ FramesAccounted

\* The caster is offered each position observation at most once, in order,
\* and never one of a session older than the last one used.
Later(a, b) == a[1] > b[1] \/ (a[1] = b[1] /\ a[2] > b[2])
GgaOncePerObservation ==
  \A i \in 2 .. Len(ggaSent) : Later(ggaSent[i], ggaSent[i - 1])

\* When Stop has returned nothing is left behind: no open transport, no
\* operation, no lock, no queued frame, and a snapshot that says so.
StoppedMeansQuiet ==
  owner.pc = "idle" =>
    /\ active = NoLink
    /\ \A l \in Links : /\ port[l] \in {"none", "closed"}
                        /\ leases[l] = {}
                        /\ writerLock[l] = "free"
                        /\ queue[l] = << >>
    /\ snapshot.lifecycle = "stopped"
    /\ ~snapshot.connected
    /\ snapshot.state = NoLink
    /\ snapshot.client = "disconnected"

\* Stop returns, although the receiver may be silent, a correction write may
\* be blocked and the two workers may be anywhere.
StopTerminates == owner.pc = "take" ~> owner.pc = "idle"

\* A link whose transport died (a failed correction write closed it) is
\* noticed by the worker and retired, not forwarded to for ever.
DeadLinkRetired == \A l \in Links : port[l] = "closed" ~> active # l

\* "State in this snapshot belongs to it" (receiver_supervisor.hpp, on
\* session_incarnation): forwarding is shown active while connected only if
\* the incarnation shown has been sent a whole frame.
ForwardingOfThisIncarnation ==
  snapshot.connected /\ snapshot.forwarding =>
    \E l \in LinksOfRun :
      /\ incarnation[l] = snapshot.incarnation
      /\ \E i \in 1 .. Len(wire[l]) : wire[l][i][2] = FrameBytes
==============================================================================
