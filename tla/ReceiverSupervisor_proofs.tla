--------------------- MODULE ReceiverSupervisor_proofs ---------------------
(***************************************************************************)
(* Proofs about ReceiverSupervisor, for any number of links, frames,       *)
(* positions and calls of Start, and any writer capacity and frame size.   *)
(*                                                                         *)
(* What Stop leaves behind and where correction bytes may go depend on     *)
(* three threads at once, so the invariant ties each shared variable to    *)
(* the place in the code of the thread that answers for it: the snapshot   *)
(* to the receiver worker (Shown), the end of Stop to the workers it has   *)
(* joined (Joined), a link in another thread's hands to its having been    *)
(* made active (Sharing), and a link's port, operations, lock and queue to *)
(* the threads that hold them (InUse).                                     *)
(*                                                                         *)
(* GgaSeen is for the positions offered to the caster.                     *)
(*                                                                         *)
(* The frames come last: none is torn, and each is counted once.  Frames   *)
(* are numbered as the caster sends them, and the list of a read is worked *)
(* off in that order (Numbered): what is queued or on a wire has left the  *)
(* list (Passed).  The head of a queue continues the last frame of its     *)
(* wire, or the wire ends with a whole frame (Follows); a frame cut short  *)
(* is the last of its wire, whose port is closing (Unbroken).  A frame is  *)
(* counted between the write that completes it and the end of the call     *)
(* that made it (Counted).                                                 *)
(***************************************************************************)
EXTENDS ReceiverSupervisor, SequenceTheorems, FiniteSetTheorems, TLAPS

\* Where the worker has a transport: not yet shown to others, in its session.
Unshared == {"publish", "activate"}
Live == {"inner", "read", "reading", "update", "idle", "lastUpdate", "close", "closing"}
Quiet == {"none", "done"}

\* Where the NTRIP worker has a link, and where it owns the link's writer.
Writing == {"write", "writing", "closeFailed", "closing"}
Forwarding == Writing \cup {"flushLock", "enqueue"}

\* What the snapshot shows is what the worker is doing.
Shown ==
  /\ snapshot.incarnation <= opened
  /\ worker.pc = "publish" => snapshot.incarnation < opened
  /\ worker.pc \in Live \cup {"activate"} =>
       snapshot.connected /\ incarnation[worker.link] = snapshot.incarnation
  /\ snapshot.state # NoLink =>
       /\ worker.pc \in Live \cup {"retire", "abandon", "left", "reconnect", "final"}
       /\ snapshot.connected
       /\ snapshot.state = worker.link
       /\ incarnation[worker.link] = snapshot.incarnation
  /\ worker.pc \in Quiet =>
       snapshot.lifecycle = "stopped" /\ ~snapshot.connected /\ snapshot.state = NoLink
  /\ ntrip.pc \in Quiet => snapshot.client = "disconnected"

\* How far Stop has come.
Joined ==
  /\ owner.pc \in {"idle", "joinNtrip"} => worker.pc \in Quiet
  /\ owner.pc = "idle" => ntrip.pc \in Quiet
  /\ owner.pc \in {"close", "closing", "abandon"} => owner.link # NoLink

\* A link in the hands of another thread has been shared, and the active one
\* is the worker's.
Shared(l) == l <= opened /\ (l = worker.link => worker.pc \notin Unshared)
Sharing ==
  /\ worker.link <= opened
  /\ worker.pc \in Unshared \cup Live \cup {"retire", "abandon"} => worker.link # NoLink
  /\ ntrip.pc \in Forwarding => ntrip.link # NoLink
  /\ ntrip.forwards => ntrip.pc \in Forwarding \cup {"publish"} /\ ntrip.todo # << >>
  /\ ntrip.pc = "enqueue" => ntrip.forwards
  /\ active # NoLink => active = worker.link /\ worker.pc \in Live \cup {"retire"}
  /\ owner.link # NoLink => Shared(owner.link)
  /\ ntrip.link # NoLink => Shared(ntrip.link)

\* An open transport is the worker's; its operations are those in progress.
PortInUse(l) ==
  /\ port[l] \in {"open", "closing"} => l = worker.link /\ worker.pc \in Unshared \cup Live
  /\ leases[l] # {} => port[l] \in {"open", "closing"}
  /\ "worker" \in leases[l] <=> l = worker.link /\ worker.pc = "reading"
  /\ "ntrip" \in leases[l] <=> l = ntrip.link /\ ntrip.pc = "writing"

\* What is queued is queued for the worker's link, and stays there while the
\* NTRIP worker flushes it.
WriterInUse(l) ==
  /\ writerLock[l] = "ntrip" <=> l = ntrip.link /\ ntrip.pc \in Writing
  /\ queue[l] # << >> => l = worker.link /\ worker.pc \in Live \cup {"retire", "abandon"}
  /\ l = ntrip.link /\ ntrip.pc \in {"write", "writing"} => queue[l] # << >>

InUse == \A l \in Links : PortInUse(l) /\ WriterInUse(l)

IInv == TypeOK /\ Shown /\ Joined /\ Sharing /\ InUse
-----------------------------------------------------------------------------
(* Types.                                                                  *)

LEMMA Bounds ==
  /\ MaxLinks \in Nat /\ MaxFrames \in Nat /\ MaxPositions \in Nat /\ MaxRuns \in Nat
BY BoundsAssumption

LEMMA IdleTypes ==
  EmptySnapshot \in Snapshots /\ IdleWorker \in Workers /\ IdleNtrip \in Ntrips
<1>1. EmptySnapshot \in Snapshots
  BY Bounds DEF EmptySnapshot, Snapshots, Lifecycles, ClientStates
<1>2. IdleWorker \in Workers
  BY Bounds DEF IdleWorker, Workers, WorkerStates
<1>3. IdleNtrip \in Ntrips
  <2>1. << >> \in Seq(Frames)
    OBVIOUS
  <2> QED
    BY <2>1, Bounds DEF IdleNtrip, Ntrips, NtripStates, ClientStates
<1> QED
  BY <1>1, <1>2, <1>3

LEMMA OwnerTypeOK ==
  ASSUME IInv, Start \/ StopRequested \/ OwnerSteps
  PROVE  TypeOK'
<1> USE DEF IInv, TypeOK, shared, links
<1>1. CASE Start
  <2>1. snapshot' \in Snapshots
    BY <1>1, IdleTypes DEF Start, Snapshots, Lifecycles
  <2>2. worker' \in Workers
    BY <1>1, IdleTypes DEF Start, Workers, WorkerStates
  <2>3. ntrip' \in Ntrips
    BY <1>1, IdleTypes DEF Start, Ntrips, NtripStates
  <2>4. owner' \in Owners
    BY <1>1 DEF Start, OwnerGoto, Owners, OwnerStates
  <2>5. runs' \in 0 .. MaxRuns
    BY <1>1, Bounds DEF Start
  <2> QED
    BY <1>1, <2>1, <2>2, <2>3, <2>4, <2>5 DEF Start
<1>2. CASE StopRequested
  <2>1. owner' \in Owners
    BY <1>2 DEF StopRequested, OwnerGoto, Owners, OwnerStates
  <2> QED
    BY <1>2, <2>1 DEF StopRequested
<1>3. CASE StopTakesLink
  <2>1. owner' \in Owners
    BY <1>3 DEF StopTakesLink, Owners, OwnerStates
  <2> QED
    BY <1>3, <2>1 DEF StopTakesLink
<1>4. CASE StopNotifies
  <2>1. owner' \in Owners
    BY <1>4 DEF StopNotifies, OwnerGoto, Owners, OwnerStates
  <2>2. snapshot' \in Snapshots
    BY <1>4 DEF StopNotifies, Snapshots, Lifecycles
  <2> QED
    BY <1>4, <2>1, <2>2 DEF StopNotifies
<1>5. CASE StopCloses
  <2>1. owner' \in Owners
    BY <1>5 DEF StopCloses, OwnerGoto, Owners, OwnerStates
  <2>2. port' \in [Links -> {"none", "open", "closing", "closed"}]
    BY <1>5 DEF StopCloses, CloseBegins, CloseReturns
  <2> QED
    BY <1>5, <2>1, <2>2 DEF StopCloses, CloseBegins, CloseReturns
<1>6. CASE StopAbandons
  <2>1. owner' \in Owners
    BY <1>6 DEF StopAbandons, Owners, OwnerStates
  <2>2. queue' \in [Links -> Seq(Entries(Frames))]
    <3>1. << >> \in Seq(Entries(Frames))
      OBVIOUS
    <3> QED
      BY <1>6, <3>1 DEF StopAbandons, Abandon, Abandoned
  <2> QED
    BY <1>6, <2>1, <2>2 DEF StopAbandons, Abandon
<1>7. CASE StopJoins
  <2>1. owner' = [owner EXCEPT !.pc = "joinNtrip"] \/ owner' = [pc |-> "idle", link |-> NoLink]
    BY <1>7 DEF StopJoins, OwnerGoto
  <2>2. owner' \in Owners
    <3>1. CASE owner' = [owner EXCEPT !.pc = "joinNtrip"]
      BY <3>1 DEF Owners, OwnerStates
    <3>2. CASE owner' = [pc |-> "idle", link |-> NoLink]
      BY <3>2 DEF Owners, OwnerStates
    <3> QED
      BY <2>1, <3>1, <3>2
  <2> QED
    BY <1>7, <2>2 DEF StopJoins
<1> QED
  BY <1>1, <1>2, <1>3, <1>4, <1>5, <1>6, <1>7 DEF OwnerSteps

LEMMA SessionTypes ==
  ASSUME worker \in Workers, NEW result \in {"idle", "data", "terminal"}, NEW updates \in BOOLEAN,
         NEW positions \in {0, 1}, SessionSteps(result, updates, positions)
  PROVE  worker' \in Workers
<1>1. worker.observations + positions \in 0 .. MaxPositions
  BY Bounds DEF SessionSteps, Workers
<1> QED
  BY <1>1 DEF SessionSteps, Workers, WorkerStates

LEMMA SessionEndTypes ==
  ASSUME worker \in Workers, SessionEnds
  PROVE  worker' \in Workers
BY SessionTypes DEF SessionEnds

LEMMA WorkerTypeOK ==
  ASSUME IInv, WorkerSteps \/ RunReadReturns
  PROVE  TypeOK'
<1> USE DEF IInv, TypeOK, shared, links, WorkerGoto, WorkerFrame
<1>1. CASE RunChecksStop
  <2>1. worker' \in Workers
    BY ZenonT(60), <1>1 DEF RunChecksStop, Workers, WorkerStates
  <2> QED
    BY <1>1, <2>1 DEF RunChecksStop
<1>2. CASE RunOpenFails
  <2>1. worker' \in Workers
    BY <1>2 DEF RunOpenFails, Workers, WorkerStates
  <2>2. snapshot' \in Snapshots
    BY <1>2 DEF RunOpenFails, Snapshots, Lifecycles
  <2> QED
    BY <1>2, <2>1, <2>2 DEF RunOpenFails
<1>3. CASE RunOpens
  <2>1. opened' \in 0 .. MaxLinks /\ opened + 1 \in Links
    BY <1>3, Bounds DEF RunOpens, Links
  <2>2. worker' \in Workers
    BY <1>3, <2>1, IdleTypes DEF RunOpens, Workers, WorkerStates
  <2>3. port' \in [Links -> {"none", "open", "closing", "closed"}]
    BY <1>3, <2>1 DEF RunOpens
  <2> QED
    BY <1>3, <2>1, <2>2, <2>3 DEF RunOpens
<1>4. CASE RunPublishes
  <2>1. snapshot.incarnation + 1 \in 0 .. MaxLinks
    BY <1>4, Bounds DEF RunPublishes, Shown, Snapshots
  <2>2. worker' \in Workers
    BY <1>4 DEF RunPublishes, Workers, WorkerStates
  <2>3. snapshot' \in Snapshots
    BY <1>4, <2>1 DEF RunPublishes, Snapshots, Lifecycles, Workers
  <2>4. incarnation' \in [Links -> 0 .. MaxLinks]
    BY <1>4, <2>1 DEF RunPublishes
  <2> QED
    BY <1>4, <2>2, <2>3, <2>4 DEF RunPublishes
<1>5. CASE RunActivates
  <2>1. worker' \in Workers /\ active' \in Links \cup {NoLink}
    BY <1>5 DEF RunActivates, Workers, WorkerStates
  <2> QED
    BY <1>5, <2>1 DEF RunActivates
<1>6. CASE RunReads
  <2>1. leases' \in [Links -> SUBSET {"worker", "ntrip"}]
    <3>1. CASE leases' = leases
      BY <3>1
    <3>2. CASE leases' = [leases EXCEPT ![worker.link] = @ \cup {"worker"}]
      BY <3>2
    <3> QED
      BY <1>6, <3>1, <3>2 DEF RunReads
  <2>2. worker' \in Workers
    <3>1. CASE SessionEnds
      BY <3>1, SessionEndTypes
    <3>2. CASE worker' = [worker EXCEPT !.pc = "reading"]
      BY <3>2 DEF Workers, WorkerStates
    <3> QED
      BY <1>6, <3>1, <3>2 DEF RunReads
  <2> QED
    BY <1>6, <2>1, <2>2 DEF RunReads
<1>7. CASE RunReadReturns
  <2>1. leases' \in [Links -> SUBSET {"worker", "ntrip"}]
    BY <1>7 DEF RunReadReturns
  <2>2. worker' \in Workers
    BY <1>7, SessionTypes, SessionEndTypes DEF RunReadReturns
  <2> QED
    BY <1>7, <2>1, <2>2 DEF RunReadReturns
<1>8. CASE RunReadCancelled
  <2>1. leases' \in [Links -> SUBSET {"worker", "ntrip"}]
    BY <1>8 DEF RunReadCancelled
  <2>2. worker' \in Workers
    BY <1>8, SessionEndTypes DEF RunReadCancelled
  <2> QED
    BY <1>8, <2>1, <2>2 DEF RunReadCancelled
<1>9. CASE Update
  <2>1. worker' \in Workers
    BY ZenonT(60), <1>9 DEF Update, Workers, WorkerStates
  <2>2. snapshot' \in Snapshots
    BY <1>9 DEF Update, Snapshots, Workers
  <2> QED
    BY <1>9, <2>1, <2>2 DEF Update
<1>10. CASE RunWaits
  <2>1. worker' \in Workers
    BY ZenonT(60), <1>10 DEF RunWaits, Workers, WorkerStates
  <2> QED
    BY <1>10, <2>1 DEF RunWaits
<1>11. CASE RunCloses
  <2>1. worker' \in Workers
    BY ZenonT(60), <1>11 DEF RunCloses, Workers, WorkerStates
  <2>2. port' \in [Links -> {"none", "open", "closing", "closed"}]
    BY ZenonT(60), <1>11 DEF RunCloses, CloseBegins, CloseReturns
  <2> QED
    BY <1>11, <2>1, <2>2 DEF RunCloses, CloseBegins, CloseReturns
<1>12. CASE RunRetires
  <2>1. worker' \in Workers
    BY <1>12 DEF RunRetires, Workers, WorkerStates
  <2> QED
    BY <1>12, <2>1 DEF RunRetires
<1>13. CASE RunAbandons
  <2>1. worker' \in Workers
    BY <1>13 DEF RunAbandons, Workers, WorkerStates
  <2>2. queue' \in [Links -> Seq(Entries(Frames))]
    <3>1. << >> \in Seq(Entries(Frames))
      OBVIOUS
    <3> QED
      BY <1>13, <3>1 DEF RunAbandons, Abandon, Abandoned
  <2> QED
    BY <1>13, <2>1, <2>2 DEF RunAbandons, Abandon
<1>14. CASE RunLeavesSession
  <2>1. worker' \in Workers
    BY <1>14 DEF RunLeavesSession, Workers, WorkerStates
  <2> QED
    BY <1>14, <2>1 DEF RunLeavesSession
<1>15. CASE RunReconnects
  <2>1. worker' \in Workers
    BY <1>15 DEF RunReconnects, Workers, WorkerStates
  <2>2. snapshot' \in Snapshots
    BY <1>15 DEF RunReconnects, Snapshots, Lifecycles
  <2> QED
    BY <1>15, <2>1, <2>2 DEF RunReconnects
<1>16. CASE RunEnds
  <2>1. worker' \in Workers
    BY <1>16 DEF RunEnds, Workers, WorkerStates
  <2>2. snapshot' \in Snapshots
    BY <1>16 DEF RunEnds, Snapshots, Lifecycles
  <2> QED
    BY <1>16, <2>1, <2>2 DEF RunEnds
<1> QED
  BY <1>1, <1>2, <1>3, <1>4, <1>5, <1>6, <1>7, <1>8, <1>9, <1>10, <1>11, <1>12, <1>13, <1>14,
     <1>15, <1>16 DEF WorkerSteps

\* A frame that the caster sends, and a flush, leave the queues as they are.
LEMMA ReceivedTypes ==
  ASSUME received \in 0 .. MaxFrames, NEW count \in 0 .. MaxFrames - received
  PROVE  [i \in 1 .. count |-> received + i] \in Seq(Frames)
BY Bounds DEF Frames

LEMMA EnqueueTypes ==
  ASSUME NEW q \in Seq(Entries(Frames)), NEW frame \in Frames
  PROVE  Enqueue(q, frame) \in Seq(Entries(Frames)) /\ Enqueue(q, frame) # << >>
<1>1. [frame |-> frame, offset |-> 0] \in Entries(Frames)
  BY FrameBytesAssumption DEF Entries
<1> QED
  BY <1>1 DEF Enqueue

LEMMA FlushTypes ==
  ASSUME NEW q \in Seq(Entries(Frames)), q # << >>, NEW accepted \in 0 .. Remaining(q)
  PROVE  AfterWrite(q, accepted) \in Seq(Entries(Frames))
<1>1. Head(q) \in Entries(Frames) /\ q[1] = Head(q)
  OBVIOUS
<1>2. CASE Completes(q, accepted)
  BY <1>2 DEF AfterWrite
<1>3. CASE ~Completes(q, accepted)
  <2>1. q[1].offset + accepted \in 0 .. FrameBytes - 1
    BY SMTT(30), <1>1, <1>3, FrameBytesAssumption DEF Completes, Remaining, Entries
  <2>2. [q[1] EXCEPT !.offset = @ + accepted] \in Entries(Frames)
    BY <1>1, <2>1 DEF Entries
  <2>3. AfterWrite(q, accepted) = [q EXCEPT ![1] = [q[1] EXCEPT !.offset = @ + accepted]]
    BY <1>3 DEF AfterWrite
  <2> QED
    BY <2>2, <2>3
<1> QED
  BY <1>2, <1>3

\* FlushPendingRtcm and ForwardRtcm end: the frame was the head of the list.
LEMMA LeaveTypes ==
  ASSUME ntrip \in Ntrips, ntrip.forwards => ntrip.todo # << >>, NEW label \in NtripStates,
         NtripLeavesLink(label)
  PROVE  ntrip' \in Ntrips
<1>1. NoLink \in Links \cup {NoLink} /\ 0 \in Nat
  OBVIOUS
<1>2. CASE ntrip.forwards
  <2>1. Tail(ntrip.todo) \in Seq(Frames)
    BY <1>2 DEF Ntrips
  <2>2. ntrip' = [ntrip EXCEPT !.pc = label, !.link = NoLink, !.forwards = FALSE,
                               !.frames = 0, !.depth = 0, !.todo = Tail(ntrip.todo)]
    BY <1>2 DEF NtripLeavesLink, Ntrips
  <2> QED
    BY <1>1, <2>1, <2>2 DEF Ntrips
<1>3. CASE ~ntrip.forwards
  <2>1. ntrip' = [ntrip EXCEPT !.pc = label, !.link = NoLink, !.forwards = FALSE,
                               !.frames = 0, !.depth = 0]
    BY <1>3 DEF NtripLeavesLink, Ntrips
  <2> QED
    BY <1>1, <2>1 DEF Ntrips
<1> QED
  BY <1>2, <1>3

LEMMA FailTypes ==
  ASSUME ntrip \in Ntrips, queue \in [Links -> Seq(Entries(Frames))], NEW l, WriterFails(l)
  PROVE  ntrip' \in Ntrips /\ queue' \in [Links -> Seq(Entries(Frames))]
<1>1. << >> \in Seq(Entries(Frames))
  OBVIOUS
<1> QED
  BY <1>1 DEF WriterFails, Abandoned, Ntrips, NtripStates

LEMMA NtripTypeOK ==
  ASSUME IInv, NtripSteps \/ NtripWriteAccepted \/ NtripWriteFails
  PROVE  TypeOK'
<1> USE DEF IInv, TypeOK, shared, links, NtripGoto, NtripFrame
<1>1. CASE NtripChecksStop
  <2>1. ntrip' \in Ntrips
    BY <1>1 DEF NtripChecksStop, Ntrips, NtripStates
  <2> QED
    BY <1>1, <2>1 DEF NtripChecksStop
<1>2. CASE NtripConnects
  <2>1. ntrip' \in Ntrips
    BY ZenonT(60), <1>2 DEF NtripConnects, Ntrips, NtripStates, ClientStates
  <2>2. snapshot' \in Snapshots
    BY <1>2 DEF NtripConnects, UpdateNtrip, Snapshots, ClientStates
  <2> QED
    BY <1>2, <2>1, <2>2 DEF NtripConnects
<1>3. CASE NtripWaits
  <2>1. ntrip' \in Ntrips
    BY <1>3 DEF NtripWaits, Ntrips, NtripStates
  <2> QED
    BY <1>3, <2>1 DEF NtripWaits
<1>4. CASE NtripInjectsGga
  <2>1. snapshot.incarnation \in 0 .. MaxLinks /\ PositionsSeen \in 0 .. MaxPositions
    BY Bounds DEF PositionsSeen, Snapshots, Ntrips
  <2>2. ASSUME snapshot.observations > PositionsSeen, NEW result \in {"streaming", "disconnected"},
               ntrip' = [ntrip EXCEPT
                 !.pc = "ggaUpdate", !.client = result,
                 !.ggaIncarnation = snapshot.incarnation,
                 !.ggaObservations = snapshot.observations]
        PROVE  ntrip' \in Ntrips
    <3>1. snapshot.observations \in 0 .. MaxPositions
      BY <2>1, <2>2, Bounds DEF Snapshots, NoObs
    <3> QED
      BY <2>1, <2>2, <3>1 DEF Ntrips, NtripStates, ClientStates
  <2>3. ASSUME ntrip' = [ntrip EXCEPT !.pc = "flush",
                                      !.ggaIncarnation = snapshot.incarnation,
                                      !.ggaObservations = PositionsSeen]
        PROVE  ntrip' \in Ntrips
    BY <2>1, <2>3 DEF Ntrips, NtripStates
  <2>4. \/ \E result \in {"streaming", "disconnected"} :
             /\ snapshot.observations > PositionsSeen
             /\ ntrip' = [ntrip EXCEPT
                  !.pc = "ggaUpdate", !.client = result,
                  !.ggaIncarnation = snapshot.incarnation,
                  !.ggaObservations = snapshot.observations]
        \/ ntrip' = [ntrip EXCEPT !.pc = "flush",
                                  !.ggaIncarnation = snapshot.incarnation,
                                  !.ggaObservations = PositionsSeen]
    BY <1>4, Zenon DEF NtripInjectsGga
  <2>5. ntrip' \in Ntrips
    BY <2>2, <2>3, <2>4
  <2> QED
    BY <1>4, <2>5 DEF NtripInjectsGga
<1>5. CASE NtripPublishesGga
  <2>1. ntrip' \in Ntrips
    BY <1>5 DEF NtripPublishesGga, Ntrips, NtripStates
  <2>2. snapshot' \in Snapshots
    BY <1>5 DEF NtripPublishesGga, UpdateNtrip, Snapshots, Ntrips
  <2> QED
    BY <1>5, <2>1, <2>2 DEF NtripPublishesGga
<1>6. CASE NtripReads
  <2>1. CASE /\ ntrip' = [ntrip EXCEPT !.pc = "forward", !.client = "disconnected",
                                       !.idle = FALSE]
             /\ received' = received
    <3>1. ntrip' \in Ntrips
      BY <2>1 DEF Ntrips, NtripStates, ClientStates
    <3> QED
      BY <1>6, <2>1, <3>1 DEF NtripReads
  <2>2. CASE ntrip' = [ntrip EXCEPT !.pc = "forward", !.idle = TRUE] /\ received' = received
    <3>1. ntrip' \in Ntrips
      BY <2>2 DEF Ntrips, NtripStates
    <3> QED
      BY <1>6, <2>2, <3>1 DEF NtripReads
  <2>3. ASSUME NEW count \in 0 .. MaxFrames - received,
               ntrip' = [ntrip EXCEPT
                 !.pc = "forward", !.client = "streaming", !.idle = FALSE,
                 !.todo = [i \in 1 .. count |-> received + i]],
               received' = received + count
        PROVE  TypeOK'
    <3>1. [i \in 1 .. count |-> received + i] \in Seq(Frames)
      BY ReceivedTypes
    <3>2. ntrip' \in Ntrips
      BY <2>3, <3>1 DEF Ntrips, NtripStates, ClientStates
    <3>3. received' \in 0 .. MaxFrames
      BY <2>3, Bounds
    <3> QED
      BY <1>6, <3>2, <3>3 DEF NtripReads
  <2> QED
    BY <1>6, <2>1, <2>2, <2>3 DEF NtripReads
<1>7. CASE TakesActiveLink
  <2>1. CASE /\ ntrip.pc = "flush"
             /\ ntrip' = [ntrip EXCEPT !.link = active,
                            !.pc = IF active = NoLink THEN "read" ELSE "flushLock"]
    <3>1. ntrip' \in Ntrips
      BY <2>1 DEF Ntrips, NtripStates
    <3> QED
      BY <1>7, <3>1 DEF TakesActiveLink
  <2>2. CASE /\ ntrip.todo # << >>
             /\ ntrip' = [ntrip EXCEPT !.link = active, !.forwards = active # NoLink,
                            !.todo = IF active = NoLink THEN Tail(@) ELSE @,
                            !.pc = IF active = NoLink THEN @ ELSE "enqueue"]
    <3>1. Tail(ntrip.todo) \in Seq(Frames)
      BY <2>2 DEF Ntrips
    <3>2. CASE active = NoLink
      <4>1. ntrip' = [ntrip EXCEPT !.link = NoLink, !.forwards = FALSE,
                        !.todo = Tail(ntrip.todo)]
        BY <2>2, <3>2 DEF Ntrips
      <4>2. ntrip' \in Ntrips
        BY <3>1, <4>1 DEF Ntrips
      <4> QED
        BY <1>7, <4>2 DEF TakesActiveLink
    <3>3. CASE active # NoLink
      <4>1. ntrip' = [ntrip EXCEPT !.link = active, !.forwards = TRUE, !.pc = "enqueue"]
        BY <2>2, <3>3 DEF Ntrips
      <4>2. ntrip' \in Ntrips
        BY <4>1 DEF Ntrips, NtripStates
      <4> QED
        BY <1>7, <4>2 DEF TakesActiveLink
    <3> QED
      BY <3>2, <3>3
  <2> QED
    BY <1>7, <2>1, <2>2 DEF TakesActiveLink
<1>8. CASE FlushPendingRtcm
  <2>1. CASE NtripLeavesLink("read") /\ writerLock' = writerLock
    <3>1. ntrip.forwards => ntrip.todo # << >>
      BY DEF Sharing
    <3>2. "read" \in NtripStates /\ "forward" \in NtripStates
      BY DEF NtripStates
    <3>3. ntrip' \in Ntrips
      BY <2>1, <3>1, <3>2, LeaveTypes
    <3> QED
      BY <1>8, <2>1, <3>3 DEF FlushPendingRtcm
  <2>2. CASE /\ ntrip' = [ntrip EXCEPT !.pc = "write"]
             /\ writerLock' = [writerLock EXCEPT ![ntrip.link] = "ntrip"]
    <3>1. ntrip' \in Ntrips
      BY <2>2 DEF Ntrips, NtripStates
    <3>2. writerLock' \in [Links -> {"free", "ntrip"}]
      BY <2>2
    <3> QED
      BY <1>8, <3>1, <3>2 DEF FlushPendingRtcm
  <2> QED
    BY <1>8, <2>1, <2>2 DEF FlushPendingRtcm
<1>9. CASE ForwardRtcm
  <2>1. CASE NtripLeavesLink("forward") /\ writerLock' = writerLock /\ queue' = queue
    <3>1. ntrip.forwards => ntrip.todo # << >>
      BY DEF Sharing
    <3>2. "read" \in NtripStates /\ "forward" \in NtripStates
      BY DEF NtripStates
    <3>3. ntrip' \in Ntrips
      BY <2>1, <3>1, <3>2, LeaveTypes
    <3> QED
      BY <1>9, <2>1, <3>3 DEF ForwardRtcm
  <2>2. CASE /\ ntrip' = [ntrip EXCEPT !.depth = Len(queue[ntrip.link]), !.pc = "publish"]
             /\ writerLock' = writerLock /\ queue' = queue
    <3>1. Len(queue[ntrip.link]) \in Nat
      BY <1>9 DEF Sharing, Forwarding, Ntrips, ForwardRtcm
    <3>2. ntrip' \in Ntrips
      BY <2>2, <3>1 DEF Ntrips, NtripStates
    <3> QED
      BY <1>9, <2>2, <3>2 DEF ForwardRtcm
  <2>3. CASE /\ queue' = [queue EXCEPT ![ntrip.link] = Enqueue(@, Head(ntrip.todo))]
             /\ writerLock' = [writerLock EXCEPT ![ntrip.link] = "ntrip"]
             /\ ntrip' = [ntrip EXCEPT !.pc = "write"]
    <3>1. ntrip' \in Ntrips
      BY <2>3 DEF Ntrips, NtripStates
    <3>2. writerLock' \in [Links -> {"free", "ntrip"}]
      BY <2>3
    <3>3. Head(ntrip.todo) \in Frames
      BY <1>9 DEF ForwardRtcm, Sharing, Ntrips
    <3>4. queue' \in [Links -> Seq(Entries(Frames))]
      BY <2>3, <3>3, EnqueueTypes
    <3> QED
      BY <1>9, <3>1, <3>2, <3>4 DEF ForwardRtcm
  <2> QED
    BY <1>9, <2>1, <2>2, <2>3 DEF ForwardRtcm
<1>10. CASE NtripWrites
  <2>1. CASE WriterFails(ntrip.link) /\ leases' = leases
    BY <1>10, <2>1, FailTypes DEF NtripWrites
  <2>2. CASE /\ leases' = [leases EXCEPT ![ntrip.link] = @ \cup {"ntrip"}]
             /\ ntrip' = [ntrip EXCEPT !.pc = "writing"]
             /\ queue' = queue
    <3>1. ntrip' \in Ntrips
      BY <2>2 DEF Ntrips, NtripStates
    <3>2. leases' \in [Links -> SUBSET {"worker", "ntrip"}]
      BY <2>2
    <3> QED
      BY <1>10, <2>2, <3>1, <3>2 DEF NtripWrites
  <2> QED
    BY <1>10, <2>1, <2>2 DEF NtripWrites
<1>11. CASE NtripWriteAccepted
  <2> DEFINE l == ntrip.link
             q == queue[l]
  <2>1. l \in Links /\ q \in Seq(Entries(Frames)) /\ q # << >>
    BY <1>11 DEF NtripWriteAccepted, Sharing, Forwarding, Writing, InUse, WriterInUse, Ntrips
  <2>2. PICK accepted \in 0 .. Remaining(q) :
          LET rest == AfterWrite(q, accepted)
              again == accepted > 0 /\ rest # << >>
          IN /\ queue' = [queue EXCEPT ![l] = rest]
             /\ leases' = [leases EXCEPT ![l] = @ \ {"ntrip"}]
             /\ writerLock' = [writerLock EXCEPT ![l] = IF again THEN @ ELSE "free"]
             /\ ntrip' = [ntrip EXCEPT
                  !.frames = IF Completes(q, accepted) THEN @ + 1 ELSE @,
                  !.depth = Len(rest),
                  !.pc = IF again THEN "write" ELSE "publish"]
    BY <1>11 DEF NtripWriteAccepted
  <2>3. AfterWrite(q, accepted) \in Seq(Entries(Frames))
    BY <2>1, FlushTypes
  <2>4. queue' \in [Links -> Seq(Entries(Frames))]
    BY <2>2, <2>3
  <2>5. leases' \in [Links -> SUBSET {"worker", "ntrip"}]
    BY <2>2
  <2>6. writerLock' \in [Links -> {"free", "ntrip"}]
    BY <2>2
  <2>7. Len(AfterWrite(q, accepted)) \in Nat
    BY <2>3
  <2> DEFINE count == IF Completes(q, accepted) THEN ntrip.frames + 1 ELSE ntrip.frames
             label == IF accepted > 0 /\ AfterWrite(q, accepted) # << >> THEN "write" ELSE "publish"
  <2>8. count \in Nat /\ label \in NtripStates
    BY DEF Ntrips, NtripStates
  <2>9. ntrip' = [ntrip EXCEPT !.frames = count, !.depth = Len(AfterWrite(q, accepted)),
                               !.pc = label]
    BY <2>2 DEF Ntrips
  <2>10. ntrip' \in Ntrips
    <3> HIDE DEF count, label
    <3> QED
      BY <2>7, <2>8, <2>9 DEF Ntrips
  <2> QED
    BY <1>11, <2>4, <2>5, <2>6, <2>10 DEF NtripWriteAccepted
<1>12. CASE NtripWriteFails
  <2>1. leases' = [leases EXCEPT ![ntrip.link] = @ \ {"ntrip"}] /\ WriterFails(ntrip.link)
    BY <1>12 DEF NtripWriteFails
  <2>2. leases' \in [Links -> SUBSET {"worker", "ntrip"}]
    BY <2>1
  <2> QED
    BY <1>12, <2>1, <2>2, FailTypes DEF NtripWriteFails
<1>13. CASE NtripWriteCancelled
  <2>1. leases' \in [Links -> SUBSET {"worker", "ntrip"}]
    BY <1>13 DEF NtripWriteCancelled
  <2> QED
    BY <1>13, <2>1, FailTypes DEF NtripWriteCancelled
<1>14. CASE NtripCloses
  <2>1. ntrip' \in Ntrips
    BY ZenonT(60), <1>14 DEF NtripCloses, Ntrips, NtripStates
  <2>2. port' \in [Links -> {"none", "open", "closing", "closed"}]
    BY ZenonT(60), <1>14 DEF NtripCloses, CloseBegins
  <2>3. writerLock' \in [Links -> {"free", "ntrip"}]
    BY <1>14 DEF NtripCloses, CloseBegins
  <2> QED
    BY <1>14, <2>1, <2>2, <2>3 DEF NtripCloses, CloseBegins
<1>15. CASE PublishesForwarding
  <2>1. ntrip' \in Ntrips
    <3>1. ntrip.forwards => ntrip.todo # << >>
      BY DEF Sharing
    <3>2. "read" \in NtripStates /\ "forward" \in NtripStates
      BY DEF NtripStates
    <3> QED
      BY <1>15, <3>1, <3>2, LeaveTypes DEF PublishesForwarding
  <2>2. snapshot' \in Snapshots
    <3>1. ntrip.depth \in Nat /\ snapshot.frames + ntrip.frames \in Nat
      BY SMTT(30) DEF Ntrips, Snapshots
    <3>2. CASE snapshot.forwarding \/ ntrip.frames > 0
      <4>1. snapshot' = [snapshot EXCEPT !.depth = ntrip.depth,
                           !.frames = snapshot.frames + ntrip.frames, !.forwarding = TRUE]
        BY <1>15, <3>2 DEF PublishesForwarding, Snapshots
      <4> QED
        BY <3>1, <4>1 DEF Snapshots
    <3>3. CASE ~(snapshot.forwarding \/ ntrip.frames > 0)
      <4>1. snapshot' = [snapshot EXCEPT !.depth = ntrip.depth,
                           !.frames = snapshot.frames + ntrip.frames, !.forwarding = FALSE]
        BY <1>15, <3>3 DEF PublishesForwarding, Snapshots
      <4> QED
        BY <3>1, <4>1 DEF Snapshots
    <3> QED
      BY <3>2, <3>3
  <2> QED
    BY <1>15, <2>1, <2>2 DEF PublishesForwarding
<1>16. CASE NtripEndsTurn
  <2>1. ntrip' \in Ntrips
    BY <1>16 DEF NtripEndsTurn, Ntrips, NtripStates
  <2>2. snapshot' \in Snapshots
    BY <1>16 DEF NtripEndsTurn, UpdateNtrip, Snapshots, Ntrips
  <2> QED
    BY <1>16, <2>1, <2>2 DEF NtripEndsTurn
<1>17. CASE NtripEnds
  <2>1. ntrip' \in Ntrips
    BY <1>17 DEF NtripEnds, Ntrips, NtripStates, ClientStates
  <2>2. snapshot' \in Snapshots
    BY <1>17 DEF NtripEnds, UpdateNtrip, Snapshots, ClientStates
  <2> QED
    BY <1>17, <2>1, <2>2 DEF NtripEnds
<1> QED
  BY <1>1, <1>2, <1>3, <1>4, <1>5, <1>6, <1>7, <1>8, <1>9, <1>10, <1>11, <1>12, <1>13, <1>14,
     <1>15, <1>16, <1>17 DEF NtripSteps

-----------------------------------------------------------------------------
(* The owner.                                                              *)

LEMMA OwnerSteadies ==
  ASSUME IInv, Start \/ StopRequested \/ OwnerSteps
  PROVE  Shown' /\ Joined' /\ Sharing' /\ InUse'
<1> USE DEF IInv, TypeOK, Owners, Workers, Ntrips, OwnerGoto, shared, links, Quiet, NoLink, Links
<1>1. CASE Start
  <2>1. worker.pc \in Quiet /\ ntrip.pc \in Quiet
    BY <1>1 DEF Start, Joined
  <2>2. /\ worker'.pc = "check" /\ worker'.link = NoLink
        /\ ntrip'.pc = "check" /\ ntrip'.link = NoLink /\ ~ntrip'.forwards
        /\ owner'.pc = "running" /\ owner'.link = owner.link
        /\ snapshot'.incarnation = 0 /\ snapshot'.state = NoLink
    BY <1>1 DEF Start, IdleWorker, IdleNtrip, EmptySnapshot
  <2>3. UNCHANGED <<active, port, leases, writerLock, queue, incarnation, opened>>
    BY <1>1 DEF Start
  <2>4. Shown' /\ Joined'
    BY <2>2, <2>3 DEF Shown, Joined, Live
  <2>5. Sharing'
    BY SMTT(30), <2>1, <2>2, <2>3 DEF Sharing, Shared, Unshared, Live, Forwarding, Writing
  <2>6. InUse'
    BY <2>1, <2>2, <2>3 DEF InUse, PortInUse, WriterInUse, Unshared, Live, Writing
  <2> QED
    BY <2>4, <2>5, <2>6
<1>2. CASE StopRequested \/ StopTakesLink
  <2>1. /\ owner'.pc \in {"take", "notify"} /\ owner'.link \in {owner.link, active}
        /\ active' \in {active, NoLink}
        /\ UNCHANGED <<snapshot, links, worker, ntrip>>
    BY <1>2 DEF StopRequested, StopTakesLink
  <2>2. Shown' /\ Joined' /\ InUse'
    BY SMTT(30), <2>1 DEF Shown, Joined, InUse, PortInUse, WriterInUse
  <2>3. Sharing'
    BY <2>1 DEF Sharing, Shared, Live, Unshared
  <2> QED
    BY <2>2, <2>3
<1>3. CASE StopNotifies
  <2>1. /\ snapshot'.incarnation = snapshot.incarnation
        /\ snapshot'.connected = snapshot.connected /\ snapshot'.state = snapshot.state
        /\ snapshot.lifecycle = "stopped" => snapshot'.lifecycle = "stopped"
        /\ snapshot'.client = snapshot.client
    BY <1>3 DEF StopNotifies, Snapshots
  <2>2. /\ owner'.pc \in {"joinWorker", "close"} /\ owner'.link = owner.link
        /\ owner'.pc = "close" => owner.link # NoLink
        /\ UNCHANGED <<active, links, worker, ntrip>>
    BY <1>3 DEF StopNotifies
  <2>3. Shown'
    BY <2>1, <2>2 DEF Shown
  <2>4. Joined' /\ Sharing' /\ InUse'
    BY SMTT(30), <2>2 DEF Joined, Sharing, Shared, InUse, PortInUse, WriterInUse
  <2> QED
    BY <2>3, <2>4
<1>4. CASE StopCloses
  <2>1. /\ owner.link # NoLink /\ owner'.pc \in {"closing", "abandon"} /\ owner'.link = owner.link
        /\ UNCHANGED <<active, snapshot, leases, writerLock, queue, incarnation, opened, worker,
                       ntrip>>
    BY <1>4 DEF StopCloses, CloseBegins, CloseReturns, Joined
  <2>2. Shown' /\ Joined' /\ Sharing'
    BY ZenonT(60), <2>1 DEF Shown, Joined, Sharing, Shared
  <2>3. ASSUME NEW l \in Links PROVE PortInUse(l)'
    <3>1. CASE port'[l] = port[l]
      BY <2>1, <3>1 DEF InUse, PortInUse
    <3>2. CASE port[l] = "open" /\ port'[l] = "closing"
      BY <2>1, <3>2 DEF InUse, PortInUse
    <3>3. CASE leases[l] = {} /\ port'[l] = "closed"
      BY <2>1, <3>3 DEF InUse, PortInUse
    <3>4. CASE CloseBegins(owner.link)
      BY <3>1, <3>2, <3>4 DEF CloseBegins
    <3>5. CASE CloseReturns(owner.link)
      BY <3>1, <3>3, <3>5 DEF CloseReturns
    <3> QED
      BY <1>4, <3>4, <3>5 DEF StopCloses
  <2>4. InUse'
    BY <2>1, <2>3 DEF InUse, WriterInUse
  <2> QED
    BY <2>2, <2>4
<1>5. CASE StopAbandons
  <2>1. /\ owner.link \in Links /\ owner'.pc = "joinWorker" /\ owner'.link = NoLink
        /\ writerLock[owner.link] = "free"
        /\ queue' = [queue EXCEPT ![owner.link] = << >>]
        /\ UNCHANGED <<active, snapshot, port, leases, writerLock, incarnation, opened, worker,
                       ntrip>>
    BY <1>5 DEF StopAbandons, Abandon, Abandoned, Joined
  <2>2. Shown'
    BY <2>1 DEF Shown
  <2>3. Joined' /\ Sharing'
    BY <2>1 DEF Joined, Sharing, Shared
  <2>4. InUse'
    BY <2>1 DEF InUse, PortInUse, WriterInUse, Writing
  <2> QED
    BY <2>2, <2>3, <2>4
<1>6. CASE StopJoins
  <2>1. /\ UNCHANGED <<active, snapshot, links, worker, ntrip>>
        /\ \/ owner'.pc = "joinNtrip" /\ owner'.link = owner.link /\ worker.pc \in Quiet
           \/ /\ owner'.pc = "idle" /\ owner'.link = NoLink /\ ntrip.pc \in Quiet
              /\ owner.pc = "joinNtrip"
    BY <1>6 DEF StopJoins
  <2>2. Joined' /\ Sharing'
    BY <2>1 DEF Joined, Sharing, Shared
  <2>3. Shown' /\ InUse'
    BY <2>1 DEF Shown, InUse, PortInUse, WriterInUse
  <2> QED
    BY <2>2, <2>3
<1> QED
  BY <1>1, <1>2, <1>3, <1>4, <1>5, <1>6 DEF OwnerSteps

-----------------------------------------------------------------------------
(* The receiver worker.                                                    *)

\* A step within the session: of what is shared, its own lease may change.
LEMMA SessionSteadies ==
  ASSUME IInv, worker.pc \in Live, worker'.pc \in Live, worker'.link = worker.link,
         UNCHANGED <<active, owner, ntrip, opened, incarnation, port, writerLock, queue>>,
         snapshot'.connected, snapshot'.incarnation = snapshot.incarnation,
         snapshot'.state \in {snapshot.state, worker.link},
         snapshot'.client = snapshot.client,
         \A l \in Links : leases'[l] \ {"worker"} = leases[l] \ {"worker"},
         \A l \in Links : "worker" \in leases'[l] <=> l = worker.link /\ worker'.pc = "reading",
         worker'.pc = "reading" => port[worker.link] = "open" \/ worker.pc = "reading"
  PROVE  Shown' /\ Joined' /\ Sharing' /\ InUse'
<1>1. Shown'
  BY DEF IInv, Shown, Live, Quiet
<1>2. Joined'
  BY DEF IInv, Joined, Live, Quiet
<1>3. Sharing'
  BY DEF IInv, Sharing, Shared, Live, Unshared
<1>4. ASSUME NEW l \in Links PROVE PortInUse(l)'
  <2>1. leases'[l] # {} => leases[l] # {} \/ (l = worker.link /\ port[l] = "open")
    <3>1. CASE "worker" \in leases'[l]
      <4>1. l = worker.link /\ worker'.pc = "reading"
        BY <3>1
      <4>2. CASE worker.pc = "reading"
        <5>1. "worker" \in leases[l]
          BY <4>1, <4>2 DEF IInv, InUse, PortInUse
        <5> QED
          BY <5>1
      <4>3. CASE worker.pc # "reading"
        BY <4>1, <4>3
      <4> QED
        BY <4>2, <4>3
    <3>2. ASSUME "worker" \notin leases'[l], NEW thread \in leases'[l] PROVE thread \in leases[l]
      <4>1. leases'[l] \ {"worker"} = leases[l] \ {"worker"}
        OBVIOUS
      <4>2. thread \in leases'[l] \ {"worker"}
        BY <3>2
      <4> QED
        BY <4>1, <4>2
    <3> QED
      BY <3>1, <3>2
  <2>2. port'[l] = port[l] /\ ("ntrip" \in leases'[l] <=> "ntrip" \in leases[l])
    <3>1. leases'[l] \ {"worker"} = leases[l] \ {"worker"}
      OBVIOUS
    <3> QED
      BY <3>1
  <2>3. PortInUse(l)
    BY DEF IInv, InUse
  <2> QED
    BY <2>1, <2>2, <2>3 DEF PortInUse, Live
<1>5. ASSUME NEW l \in Links PROVE WriterInUse(l)'
  BY DEF IInv, InUse, WriterInUse
<1> QED
  BY <1>1, <1>2, <1>3, <1>4, <1>5 DEF InUse

\* A step between two sessions.
Between == {"check", "open", "wait", "left", "reconnect", "final"}

LEMMA BetweenSteadies ==
  ASSUME IInv, worker.pc \in Between, worker'.pc \in Between, worker'.link = worker.link,
         UNCHANGED <<active, owner, ntrip, links>>,
         snapshot'.client = snapshot.client, snapshot'.incarnation = snapshot.incarnation,
         \/ snapshot'.state = NoLink
         \/ /\ snapshot'.state = snapshot.state /\ snapshot'.connected = snapshot.connected
            /\ \/ worker.pc \in {"check", "open", "wait"}
               \/ worker'.pc \in {"reconnect", "final"}
  PROVE  Shown' /\ Joined' /\ Sharing' /\ InUse'
<1> USE DEF IInv, Between, links
<1>1. Shown'
  BY DEF Shown, Live, Quiet
<1>2. Joined' /\ Sharing'
  BY DEF Joined, Sharing, Shared, Live, Unshared, Quiet
<1>3. InUse'
  BY DEF InUse, PortInUse, WriterInUse, Live, Unshared
<1> QED
  BY <1>1, <1>2, <1>3

LEMMA WorkerSteadies ==
  ASSUME IInv, WorkerSteps \/ RunReadReturns
  PROVE  Shown' /\ Joined' /\ Sharing' /\ InUse'
<1> USE DEF IInv, TypeOK, Workers, WorkerGoto, WorkerFrame, links, NoLink, Links
<1>1. CASE RunChecksStop \/ RunWaits
  <2>1. UNCHANGED <<active, snapshot, links, owner, ntrip>> /\ worker'.link = worker.link
    BY <1>1 DEF RunChecksStop, RunWaits
  <2>2. CASE worker.pc \in Live
    <3>1. worker.pc \in {"inner", "idle"} /\ worker'.pc \in {"lastUpdate", "read", "inner"}
      BY <1>1, <2>2 DEF RunChecksStop, RunWaits, Live
    <3>2. worker'.pc \in Live /\ snapshot.connected
      BY <3>1, <2>2 DEF Live, Shown
    <3> QED
      BY <2>1, <2>2, <3>1, <3>2, SessionSteadies DEF InUse, PortInUse
  <2>3. CASE worker.pc \in {"check", "wait"}
    <3>1. worker'.pc \in {"final", "open", "check"}
      BY <1>1, <2>3 DEF RunChecksStop, RunWaits
    <3> QED
      BY <2>1, <2>3, <3>1, BetweenSteadies DEF Between
  <2> QED
    BY <1>1, <2>2, <2>3 DEF RunChecksStop, RunWaits, Live
<1>2. CASE RunOpenFails \/ RunReconnects
  <2>1. /\ UNCHANGED <<active, links, owner, ntrip>>
        /\ worker'.link = worker.link /\ worker'.pc = "wait" /\ worker.pc \in {"open", "reconnect"}
    BY <1>2 DEF RunOpenFails, RunReconnects
  <2>2. /\ snapshot'.client = snapshot.client /\ snapshot'.incarnation = snapshot.incarnation
        /\ snapshot'.state = NoLink
    BY ZenonT(60), <1>2 DEF RunOpenFails, RunReconnects, Snapshots
  <2> QED
    BY <2>1, <2>2, BetweenSteadies DEF Between
<1>3. CASE RunOpens
  <2>1. /\ worker.pc = "open" /\ worker'.pc = "publish" /\ worker'.link = opened + 1
        /\ opened' = opened + 1 /\ opened + 1 \in Links
        /\ port' = [port EXCEPT ![opened + 1] = "open"]
        /\ UNCHANGED <<active, snapshot, leases, writerLock, queue, incarnation, owner, ntrip>>
    BY SMTT(30), <1>3, Bounds DEF RunOpens, IdleWorker
  <2>2. snapshot.incarnation \in Nat /\ snapshot.incarnation <= opened /\ snapshot.state = NoLink
    BY <2>1, Bounds DEF Shown, Live, Snapshots
  <2>3. Shown'
    BY <2>1, <2>2 DEF Shown, Live, Quiet
  <2>4. Joined'
    BY <2>1 DEF Joined, Quiet
  <2>5. Sharing'
    <3>1. opened \in Nat /\ active = NoLink
      BY <2>1, Bounds DEF Sharing, Live
    <3>2. owner.link # NoLink => owner.link \in Nat /\ owner.link <= opened
      BY Bounds DEF Sharing, Shared, Owners
    <3>3. ntrip.link # NoLink => ntrip.link \in Nat /\ ntrip.link <= opened
      BY Bounds DEF Sharing, Shared, Ntrips
    <3>4. owner.link # NoLink => Shared(owner.link)'
      BY <2>1, <3>1, <3>2 DEF Shared
    <3>5. ntrip.link # NoLink => Shared(ntrip.link)'
      BY <2>1, <3>1, <3>3 DEF Shared
    <3>6. /\ worker'.link <= opened' /\ worker'.link # NoLink /\ active' = NoLink
          /\ ntrip' = ntrip /\ owner' = owner
      BY <2>1, <3>1
    <3> QED
      BY <3>4, <3>5, <3>6 DEF Sharing
  <2>6. ASSUME NEW l \in Links PROVE PortInUse(l)' /\ WriterInUse(l)'
    BY <2>1 DEF InUse, PortInUse, WriterInUse, Live, Unshared
  <2> QED
    BY <2>3, <2>4, <2>5, <2>6 DEF InUse
<1>4. CASE RunPublishes
  <2>1. /\ worker.pc = "publish" /\ worker'.pc = "activate" /\ worker'.link = worker.link
        /\ worker.link \in Links
        /\ incarnation' = [incarnation EXCEPT ![worker.link] = snapshot.incarnation + 1]
        /\ UNCHANGED <<active, port, leases, writerLock, queue, opened, owner, ntrip>>
    BY <1>4 DEF RunPublishes, Sharing, Unshared
  <2>2. /\ snapshot'.incarnation = snapshot.incarnation + 1 /\ snapshot'.state = NoLink
        /\ snapshot'.connected /\ snapshot'.client = snapshot.client
        /\ snapshot.incarnation \in Nat
    BY <1>4, Bounds DEF RunPublishes, Snapshots
  <2>3. Shown'
    BY <2>1, <2>2, Bounds DEF Shown, Live, Quiet
  <2>4. Joined' /\ Sharing'
    BY <2>1 DEF Joined, Sharing, Shared, Live, Unshared, Quiet
  <2>5. InUse'
    BY <2>1 DEF InUse, PortInUse, WriterInUse, Live, Unshared
  <2> QED
    BY <2>3, <2>4, <2>5
<1>5. CASE RunActivates
  <2>1. /\ worker.pc = "activate" /\ worker'.pc = "inner" /\ worker'.link = worker.link
        /\ active' = worker.link /\ UNCHANGED <<snapshot, links, owner, ntrip>>
    BY <1>5 DEF RunActivates
  <2>2. Shown'
    BY <2>1 DEF Shown, Live, Quiet
  <2>3. Joined' /\ Sharing'
    BY <2>1 DEF Joined, Sharing, Shared, Live, Unshared, Quiet
  <2>4. InUse'
    BY <2>1 DEF InUse, PortInUse, WriterInUse, Live, Unshared
  <2> QED
    BY <2>2, <2>3, <2>4
<1>6. CASE RunReads \/ RunReadReturns \/ RunReadCancelled
  <2>1. /\ UNCHANGED <<active, snapshot, port, writerLock, queue, incarnation, opened, owner,
                       ntrip>>
        /\ worker.pc \in {"read", "reading"} /\ worker'.link = worker.link
    BY ZenonT(60), <1>6 DEF RunReads, RunReadReturns, RunReadCancelled, SessionEnds, SessionSteps
  <2>2. \/ /\ worker'.pc = "reading" /\ worker.pc = "read" /\ port[worker.link] = "open"
           /\ leases' = [leases EXCEPT ![worker.link] = @ \cup {"worker"}]
        \/ /\ worker'.pc = "update" /\ worker.pc = "read" /\ leases' = leases
        \/ /\ worker'.pc = "update" /\ worker.pc = "reading"
           /\ leases' = [leases EXCEPT ![worker.link] = @ \ {"worker"}]
    BY <1>6 DEF RunReads, RunReadReturns, RunReadCancelled, SessionEnds, SessionSteps
  <2>3. worker.link \in Links /\ worker.pc \in Live /\ worker'.pc \in Live /\ snapshot.connected
    BY <2>1, <2>2 DEF Live, Sharing, Shown
  <2>4. ASSUME NEW l \in Links
        PROVE  /\ leases'[l] \ {"worker"} = leases[l] \ {"worker"}
               /\ "worker" \in leases'[l] <=> l = worker.link /\ worker'.pc = "reading"
    <3>1. "worker" \in leases[l] <=> l = worker.link /\ worker.pc = "reading"
      BY DEF InUse, PortInUse
    <3>2. CASE leases' = leases /\ worker.pc = "read" /\ worker'.pc = "update"
      BY <3>1, <3>2
    <3>3. CASE l # worker.link
      <4>1. leases'[l] = leases[l]
        BY <2>2, <3>3
      <4> QED
        BY <3>1, <3>3, <4>1
    <3>4. CASE l = worker.link
      <4>1. \/ leases' = leases /\ worker.pc = "read" /\ worker'.pc = "update"
            \/ worker'.pc = "reading" /\ leases'[l] = leases[l] \cup {"worker"}
            \/ worker'.pc = "update" /\ leases'[l] = leases[l] \ {"worker"}
        BY <2>2, <2>3, <3>4
      <4>2. CASE worker'.pc = "reading" /\ leases'[l] = leases[l] \cup {"worker"}
        BY <3>4, <4>2
      <4>3. CASE worker'.pc = "update" /\ leases'[l] = leases[l] \ {"worker"}
        BY <4>3
      <4> QED
        BY <3>2, <4>1, <4>2, <4>3
    <3> QED
      BY <3>3, <3>4
  <2> QED
    BY <2>1, <2>2, <2>3, <2>4, SessionSteadies
<1>7. CASE Update
  <2>1. /\ worker.pc \in {"update", "lastUpdate"}
        /\ worker'.pc \in {"close", "lastUpdate", "idle", "inner"}
        /\ worker'.link = worker.link /\ UNCHANGED <<active, links, owner, ntrip>>
    BY <1>7 DEF Update
  <2>2. /\ snapshot'.state \in {snapshot.state, worker.link}
        /\ snapshot'.incarnation = snapshot.incarnation /\ snapshot'.client = snapshot.client
        /\ snapshot'.connected = snapshot.connected
    BY <1>7 DEF Update, Snapshots
  <2>3. worker.pc \in Live /\ worker'.pc \in Live /\ snapshot'.connected
    BY <2>1, <2>2 DEF Live, Shown
  <2> QED
    BY <2>1, <2>2, <2>3, SessionSteadies DEF InUse, PortInUse
<1>8. CASE RunCloses
  <2>1. /\ worker.link \in Links /\ worker'.link = worker.link /\ worker.pc \in {"close", "closing"}
        /\ UNCHANGED <<active, snapshot, leases, writerLock, queue, incarnation, opened, owner,
                       ntrip>>
    BY <1>8 DEF RunCloses, CloseBegins, CloseReturns, Sharing, Live
  <2>2. \/ /\ worker'.pc = "closing"
           /\ port' = [port EXCEPT ![worker.link] = IF @ = "open" THEN "closing" ELSE @]
        \/ /\ worker'.pc = "retire" /\ leases[worker.link] = {}
           /\ port' = [port EXCEPT ![worker.link] = "closed"]
    BY <1>8 DEF RunCloses, CloseBegins, CloseReturns
  <2>3. Shown'
    BY <2>1, <2>2 DEF Shown, Live, Quiet
  <2>4. Joined' /\ Sharing'
    BY <2>1, <2>2 DEF Joined, Sharing, Shared, Live, Unshared, Quiet
  <2>5. ASSUME NEW l \in Links PROVE PortInUse(l)' /\ WriterInUse(l)'
    BY ZenonT(60), <2>1, <2>2 DEF InUse, PortInUse, WriterInUse, Live, Unshared
  <2> QED
    BY <2>3, <2>4, <2>5 DEF InUse
<1>9. CASE RunRetires
  <2>1. /\ worker.pc = "retire" /\ worker'.pc = "abandon" /\ worker'.link = worker.link
        /\ active' = NoLink /\ UNCHANGED <<snapshot, links, owner, ntrip>>
    BY <1>9 DEF RunRetires, Sharing
  <2>2. Shown'
    BY <2>1 DEF Shown, Live, Quiet
  <2>3. Joined' /\ Sharing'
    BY <2>1 DEF Joined, Sharing, Shared, Live, Unshared, Quiet
  <2>4. InUse'
    BY <2>1 DEF InUse, PortInUse, WriterInUse, Live, Unshared
  <2> QED
    BY <2>2, <2>3, <2>4
<1>10. CASE RunAbandons
  <2>1. /\ worker.pc = "abandon" /\ worker'.pc = "left" /\ worker'.link = worker.link
        /\ worker.link \in Links /\ writerLock[worker.link] = "free"
        /\ queue' = [queue EXCEPT ![worker.link] = << >>]
        /\ UNCHANGED <<active, snapshot, port, leases, writerLock, incarnation, opened, owner,
                       ntrip>>
    BY <1>10 DEF RunAbandons, Abandon, Abandoned, Sharing
  <2>2. Shown'
    BY <2>1 DEF Shown, Live, Quiet
  <2>3. Joined' /\ Sharing'
    BY <2>1 DEF Joined, Sharing, Shared, Live, Unshared, Quiet
  <2>4. InUse'
    BY <2>1 DEF InUse, PortInUse, WriterInUse, Live, Unshared, Writing
  <2> QED
    BY <2>2, <2>3, <2>4
<1>11. CASE RunLeavesSession
  <2>1. /\ worker.pc = "left" /\ worker'.pc \in {"final", "reconnect"} /\ worker'.link = worker.link
        /\ UNCHANGED <<active, snapshot, links, owner, ntrip>>
    BY <1>11 DEF RunLeavesSession
  <2> QED
    BY <2>1, BetweenSteadies DEF Between
<1>12. CASE RunEnds
  <2>1. /\ worker.pc = "final" /\ worker'.pc = "done" /\ worker'.link = worker.link
        /\ UNCHANGED <<active, links, owner, ntrip>>
    BY <1>12 DEF RunEnds
  <2>2. /\ snapshot'.lifecycle = "stopped" /\ ~snapshot'.connected /\ snapshot'.state = NoLink
        /\ snapshot'.incarnation = snapshot.incarnation /\ snapshot'.client = snapshot.client
    BY <1>12 DEF RunEnds, Snapshots
  <2>3. Shown'
    BY <2>1, <2>2 DEF Shown, Live, Quiet
  <2>4. Joined' /\ Sharing'
    BY <2>1 DEF Joined, Sharing, Shared, Live, Unshared, Quiet
  <2>5. InUse'
    BY <2>1 DEF InUse, PortInUse, WriterInUse, Live, Unshared
  <2> QED
    BY <2>3, <2>4, <2>5
<1> QED
  BY <1>1, <1>2, <1>3, <1>4, <1>5, <1>6, <1>7, <1>8, <1>9, <1>10, <1>11, <1>12 DEF WorkerSteps

-----------------------------------------------------------------------------
(* The NTRIP worker.                                                       *)

LEMMA NtripKeepsShown ==
  ASSUME IInv, ntrip.pc \notin Quiet, UNCHANGED <<owner, worker, opened, incarnation>>,
         snapshot'.incarnation = snapshot.incarnation,
         snapshot'.connected = snapshot.connected,
         snapshot'.state = snapshot.state,
         snapshot'.lifecycle = snapshot.lifecycle,
         ntrip'.pc \in Quiet => snapshot'.client = "disconnected"
  PROVE  Shown' /\ Joined'
<1>1. Shown'
  BY DEF IInv, Shown
<1>2. Joined'
  BY DEF IInv, Joined
<1> QED
  BY <1>1, <1>2

LEMMA NtripKeepsSharing ==
  ASSUME IInv, UNCHANGED <<active, owner, worker, opened>>,
         ntrip'.link \in {NoLink, ntrip.link, active},
         ntrip'.pc \in Forwarding => ntrip'.link # NoLink,
         ntrip'.forwards => ntrip'.pc \in Forwarding \cup {"publish"} /\ ntrip'.todo # << >>,
         ntrip'.pc = "enqueue" => ntrip'.forwards
  PROVE  Sharing'
<1>1. active # NoLink => Shared(active)
  BY DEF IInv, Sharing, Shared, Live, Unshared
<1>2. ntrip'.link # NoLink => Shared(ntrip'.link)
  BY <1>1 DEF IInv, Sharing
<1>3. \A l : Shared(l) => Shared(l)'
  BY DEF Shared
<1>4. ntrip'.link # NoLink => Shared(ntrip.link)'
  BY <1>2 DEF Shared
<1>5. owner.link # NoLink => Shared(owner.link)'
  BY DEF IInv, Sharing, Shared
<1> QED
  BY <1>4, <1>5 DEF IInv, Sharing

\* A step that has nothing to do with the links.
LEMMA NtripOutside ==
  ASSUME IInv, UNCHANGED <<active, owner, worker, links>>,
         ntrip.pc \notin Forwarding \cup {"publish"},
         ntrip'.pc \notin Forwarding \cup {"publish"},
         ntrip'.link = ntrip.link, ntrip'.forwards = ntrip.forwards
  PROVE  Sharing' /\ InUse'
<1>1. Sharing'
  <2>1. ~ntrip.forwards
    BY DEF IInv, Sharing
  <2>2. opened' = opened
    BY DEF links
  <2> QED
    BY <2>1, <2>2, NtripKeepsSharing DEF Forwarding
<1>2. ASSUME NEW l \in Links PROVE PortInUse(l)' /\ WriterInUse(l)'
  BY DEF IInv, InUse, PortInUse, WriterInUse, links, Forwarding, Writing
<1> QED
  BY <1>1, <1>2 DEF InUse

LEMMA LeavesLink ==
  ASSUME ntrip \in Ntrips, NEW label, NtripLeavesLink(label)
  PROVE  ntrip'.pc = label /\ ntrip'.link = NoLink /\ ~ntrip'.forwards
BY DEF NtripLeavesLink, Ntrips

\* The steps outside the links.
NtripOuterSteps ==
  \/ NtripChecksStop \/ NtripConnects \/ NtripWaits \/ NtripInjectsGga
  \/ NtripPublishesGga \/ NtripReads \/ NtripEndsTurn \/ NtripEnds

LEMMA NtripOuterSteadies ==
  ASSUME IInv, NtripOuterSteps
  PROVE  Shown' /\ Joined' /\ Sharing' /\ InUse'
<1> USE DEF IInv, TypeOK, NtripGoto, NtripFrame
<1> DEFINE Outer == {"check", "connect", "wait", "gga", "ggaUpdate", "flush", "read", "forward",
                     "disconnect"}
           Steady == /\ UNCHANGED <<active, owner, worker, links>>
                     /\ ntrip.pc \in Outer
                     /\ ntrip'.link = ntrip.link
                     /\ ntrip'.forwards = ntrip.forwards
                     /\ snapshot'.incarnation = snapshot.incarnation
                     /\ snapshot'.connected = snapshot.connected
                     /\ snapshot'.state = snapshot.state
                     /\ snapshot'.lifecycle = snapshot.lifecycle
           Goes == ntrip'.pc \in Outer
                     \/ (ntrip'.pc = "done" /\ snapshot'.client = "disconnected")
<1>1. Steady /\ Goes
  <2>1. CASE NtripChecksStop
    BY <2>1 DEF NtripChecksStop, Ntrips
  <2>2. CASE NtripConnects
    BY <2>2 DEF NtripConnects, Ntrips, UpdateNtrip, Snapshots
  <2>3. CASE NtripWaits
    BY <2>3 DEF NtripWaits, Ntrips
  <2>4. CASE NtripInjectsGga
    <3>1. /\ UNCHANGED <<active, owner, worker, links, snapshot>> /\ ntrip.pc = "gga"
      BY <2>4 DEF NtripInjectsGga
    <3>2. ntrip'.pc \in {"ggaUpdate", "flush"} /\ ntrip'.link = ntrip.link
        /\ ntrip'.forwards = ntrip.forwards
      BY ZenonT(60), <2>4 DEF NtripInjectsGga, Ntrips
    <3> QED
      BY <3>1, <3>2
  <2>5. CASE NtripPublishesGga
    BY <2>5 DEF NtripPublishesGga, Ntrips, UpdateNtrip, Snapshots
  <2>6. CASE NtripReads
    <3>1. /\ UNCHANGED <<active, owner, worker, links, snapshot>> /\ ntrip.pc = "read"
    BY <2>6 DEF NtripReads
    <3>2. ntrip'.pc = "forward" /\ ntrip'.link = ntrip.link /\ ntrip'.forwards = ntrip.forwards
    BY ZenonT(60), <2>6 DEF NtripReads, Ntrips
    <3> QED
      BY <3>1, <3>2
  <2>7. CASE NtripEndsTurn
    BY <2>7 DEF NtripEndsTurn, Ntrips, UpdateNtrip, Snapshots
  <2>8. CASE NtripEnds
    BY <2>8 DEF NtripEnds, Ntrips, UpdateNtrip, Snapshots
  <2> QED
    BY <2>1, <2>2, <2>3, <2>4, <2>5, <2>6, <2>7, <2>8 DEF NtripOuterSteps
<1>2. Shown' /\ Joined'
  <2>1. ntrip.pc \notin Quiet /\ (ntrip'.pc \in Quiet => snapshot'.client = "disconnected")
    BY <1>1 DEF Quiet
  <2>2. UNCHANGED <<owner, worker, opened, incarnation>>
    BY <1>1 DEF links
  <2> QED
    BY <1>1, <2>1, <2>2, NtripKeepsShown
<1>3. Sharing' /\ InUse'
  <2>1. /\ ntrip.pc \notin Forwarding \cup {"publish"}
        /\ ntrip'.pc \notin Forwarding \cup {"publish"}
    BY <1>1 DEF Forwarding, Writing
  <2> QED
    BY <1>1, <2>1, NtripOutside
<1> QED
  BY <1>2, <1>3

\* The steps that take a link, use it and leave it.
NtripLinkSteps ==
  \/ TakesActiveLink \/ FlushPendingRtcm \/ ForwardRtcm \/ NtripWrites \/ NtripWriteAccepted
  \/ NtripWriteFails \/ NtripWriteCancelled \/ NtripCloses \/ PublishesForwarding

LEMMA NtripLinkShows ==
  ASSUME IInv, NtripLinkSteps
  PROVE  /\ Shown' /\ Joined'
         /\ UNCHANGED <<active, owner, worker, opened, incarnation>>
<1> USE DEF IInv, TypeOK, NtripGoto, NtripFrame, links
<1> DEFINE Steady == /\ UNCHANGED <<active, owner, worker, opened, incarnation>>
                     /\ snapshot'.incarnation = snapshot.incarnation
                     /\ snapshot'.connected = snapshot.connected
                     /\ snapshot'.state = snapshot.state
                     /\ snapshot'.lifecycle = snapshot.lifecycle
           Goes == ntrip.pc \notin Quiet /\ ntrip'.pc \notin Quiet
<1>1. Steady
  <2>1. CASE PublishesForwarding
    BY <2>1 DEF PublishesForwarding, Snapshots
  <2>2. CASE NtripCloses
    BY <2>2 DEF NtripCloses, CloseBegins
  <2>3. CASE TakesActiveLink \/ FlushPendingRtcm \/ ForwardRtcm \/ NtripWrites
    BY <2>3 DEF TakesActiveLink, FlushPendingRtcm, ForwardRtcm, NtripWrites
  <2>4. CASE NtripWriteAccepted \/ NtripWriteFails \/ NtripWriteCancelled
    BY <2>4 DEF NtripWriteAccepted, NtripWriteFails, NtripWriteCancelled
  <2> QED
    BY <2>1, <2>2, <2>3, <2>4 DEF NtripLinkSteps
<1>2. Goes
  <2>1. CASE PublishesForwarding
    BY <2>1, LeavesLink DEF PublishesForwarding, Quiet
  <2>2. CASE NtripCloses
    BY <2>2 DEF NtripCloses, Quiet, Ntrips
  <2>3. CASE TakesActiveLink
    BY <2>3 DEF TakesActiveLink, Quiet, Ntrips
  <2>4. CASE FlushPendingRtcm
    <3>1. ntrip'.pc \in {"read", "write"}
      BY <2>4, LeavesLink DEF FlushPendingRtcm, Ntrips
    <3> QED
      BY <2>4, <3>1 DEF FlushPendingRtcm, Quiet
  <2>5. CASE ForwardRtcm
    <3>1. ntrip'.pc \in {"forward", "write", "publish"}
      BY <2>5, LeavesLink DEF ForwardRtcm, Ntrips
    <3> QED
      BY <2>5, <3>1 DEF ForwardRtcm, Quiet
  <2>6. CASE NtripWrites
    BY <2>6 DEF NtripWrites, WriterFails, Quiet, Ntrips
  <2>7. CASE NtripWriteAccepted
    BY <2>7 DEF NtripWriteAccepted, Quiet, Ntrips
  <2>8. CASE NtripWriteFails \/ NtripWriteCancelled
    BY <2>8 DEF NtripWriteFails, NtripWriteCancelled, WriterFails, Quiet, Ntrips
  <2> QED
    BY <2>1, <2>2, <2>3, <2>4, <2>5, <2>6, <2>7, <2>8 DEF NtripLinkSteps
<1> QED
  BY <1>1, <1>2, NtripKeepsShown

LEMMA LinkTaken ==
  ASSUME ntrip \in Ntrips, TakesActiveLink, ntrip.pc = "forward"
  PROVE  \/ active = NoLink /\ ntrip'.pc = "forward" /\ ~ntrip'.forwards
         \/ /\ active # NoLink /\ ntrip'.pc = "enqueue"
            /\ ntrip'.forwards /\ ntrip'.todo # << >>
<1>1. CASE active = NoLink
  <2>1. ntrip' = [ntrip EXCEPT !.link = NoLink, !.forwards = FALSE, !.todo = Tail(@)]
    BY <1>1 DEF TakesActiveLink, Ntrips
  <2> QED
    BY <1>1, <2>1 DEF Ntrips
<1>2. CASE active # NoLink
  <2>1. /\ ntrip' = [ntrip EXCEPT !.link = active, !.forwards = TRUE, !.pc = "enqueue"]
        /\ ntrip.todo # << >>
    BY <1>2 DEF TakesActiveLink, Ntrips
  <2> QED
    BY <1>2, <2>1 DEF Ntrips
<1> QED
  BY <1>1, <1>2

LEMMA NtripLinkSteadies ==
  ASSUME IInv, NtripLinkSteps
  PROVE  Sharing' /\ InUse'
<1> USE DEF IInv, TypeOK, NtripGoto, NtripFrame, links, NoLink, Links
<1>0. UNCHANGED <<active, owner, worker, opened, incarnation>>
  BY NtripLinkShows
<1>1. CASE TakesActiveLink
  <2>1. /\ ntrip.pc \in {"flush", "forward"} /\ ntrip'.link = active
        /\ UNCHANGED <<port, leases, writerLock, queue>>
    BY <1>1 DEF TakesActiveLink, Ntrips
  <2>2. /\ ntrip'.pc \in {"read", "flushLock", "forward", "enqueue"}
        /\ ntrip'.pc \in {"flushLock", "enqueue"} => active # NoLink
        /\ ntrip'.pc = "enqueue" => ntrip'.forwards
        /\ ntrip'.forwards => ntrip'.pc = "enqueue" /\ ntrip'.todo # << >>
    <3>1. ~ntrip.forwards
      BY <2>1 DEF Sharing, Forwarding, Writing
    <3>2. CASE ntrip.pc = "flush"
      BY <1>1, <3>1, <3>2 DEF TakesActiveLink, Ntrips
    <3>3. CASE ntrip.pc = "forward"
      BY <1>1, <3>3, LinkTaken
    <3> QED
      BY <2>1, <3>2, <3>3
  <2>3. Sharing'
    BY <1>0, <2>1, <2>2, NtripKeepsSharing DEF Forwarding, Writing
  <2>4. ASSUME NEW l \in Links PROVE PortInUse(l)' /\ WriterInUse(l)'
    BY <1>0, <2>1, <2>2 DEF InUse, PortInUse, WriterInUse, Writing
  <2> QED
    BY <2>3, <2>4 DEF InUse
<1>2. CASE \/ FlushPendingRtcm /\ NtripLeavesLink("read")
           \/ ForwardRtcm /\ NtripLeavesLink("forward")
           \/ PublishesForwarding
  <2>1. /\ ntrip.pc \in {"flushLock", "enqueue", "publish"}
        /\ UNCHANGED <<port, leases, writerLock, queue>>
    BY <1>2, LeavesLink DEF FlushPendingRtcm, ForwardRtcm, PublishesForwarding, Ntrips
  <2>2. ntrip'.pc \in {"read", "forward"} /\ ntrip'.link = NoLink /\ ~ntrip'.forwards
    BY <1>2, LeavesLink DEF PublishesForwarding
  <2>3. Sharing'
    BY <1>0, <2>2, NtripKeepsSharing DEF Forwarding, Writing
  <2>4. ASSUME NEW l \in Links PROVE PortInUse(l)' /\ WriterInUse(l)'
    BY <1>0, <2>1, <2>2 DEF InUse, PortInUse, WriterInUse, Writing
  <2> QED
    BY <2>3, <2>4 DEF InUse
<1>3. CASE FlushPendingRtcm /\ ntrip' = [ntrip EXCEPT !.pc = "write"]
  <2>1. /\ ntrip.pc = "flushLock" /\ ntrip'.pc = "write" /\ ntrip'.link = ntrip.link
        /\ ntrip'.forwards = ntrip.forwards /\ ntrip'.todo = ntrip.todo
        /\ ntrip.link \in Links
        /\ queue[ntrip.link] # << >>
        /\ writerLock' = [writerLock EXCEPT ![ntrip.link] = "ntrip"]
        /\ UNCHANGED <<port, leases, queue>>
    BY ZenonT(60), <1>3 DEF FlushPendingRtcm, NtripLeavesLink, Sharing, Forwarding, Ntrips
  <2>2. Sharing'
    BY <1>0, <2>1, NtripKeepsSharing DEF Sharing, Forwarding, Writing
  <2>3. ASSUME NEW l \in Links PROVE PortInUse(l)' /\ WriterInUse(l)'
    BY <1>0, <2>1 DEF InUse, PortInUse, WriterInUse, Writing
  <2> QED
    BY <2>2, <2>3 DEF InUse
<1>4. CASE ForwardRtcm /\ ~CanEnqueue(queue[ntrip.link]) /\ ntrip'.pc = "publish"
  <2>1. /\ ntrip.pc = "enqueue" /\ ntrip'.link = ntrip.link /\ ntrip.link \in Links
        /\ ntrip'.forwards = ntrip.forwards /\ ntrip'.todo = ntrip.todo
        /\ UNCHANGED <<port, leases, writerLock, queue>>
    <3>1. ntrip' = [ntrip EXCEPT !.depth = Len(queue[ntrip.link]), !.pc = "publish"]
            /\ UNCHANGED <<port, leases, writerLock, queue>> /\ ntrip.pc = "enqueue"
      BY <1>4, LeavesLink DEF ForwardRtcm
    <3>2. ntrip.link \in Links
      BY <3>1 DEF Sharing, Forwarding, Ntrips
    <3> QED
      BY <3>1, <3>2 DEF Ntrips
  <2>2. Sharing'
    BY <1>0, <1>4, <2>1, NtripKeepsSharing DEF Sharing, Forwarding, Writing
  <2>3. ASSUME NEW l \in Links PROVE PortInUse(l)' /\ WriterInUse(l)'
    BY <1>0, <1>4, <2>1 DEF InUse, PortInUse, WriterInUse, Writing
  <2> QED
    BY <2>2, <2>3 DEF InUse
<1>5. CASE ForwardRtcm /\ CanEnqueue(queue[ntrip.link]) /\ ntrip'.pc = "write"
  <2>1. /\ ntrip.pc = "enqueue" /\ ntrip'.link = ntrip.link /\ ntrip.link \in Links
        /\ ntrip'.forwards = ntrip.forwards /\ ntrip'.todo = ntrip.todo
        /\ port[ntrip.link] = "open"
        /\ queue' = [queue EXCEPT ![ntrip.link] = Enqueue(@, Head(ntrip.todo))]
        /\ writerLock' = [writerLock EXCEPT ![ntrip.link] = "ntrip"]
        /\ UNCHANGED <<port, leases>>
    BY <1>5, LeavesLink DEF ForwardRtcm, Sharing, Forwarding, Ntrips
  <2>2. queue'[ntrip.link] # << >>
    <3>1. Head(ntrip.todo) \in Frames
      BY <2>1 DEF Sharing, Ntrips
    <3> QED
      BY <2>1, <3>1, EnqueueTypes
  <2>3. ntrip.link = worker.link /\ worker.pc \in Live
    BY <2>1 DEF InUse, PortInUse, Sharing, Shared
  <2>4. Sharing'
    BY <1>0, <1>5, <2>1, NtripKeepsSharing DEF Sharing, Forwarding, Writing
  <2>5. ASSUME NEW l \in Links PROVE PortInUse(l)'
    BY <1>0, <1>5, <2>1 DEF InUse, PortInUse
  <2>6. ASSUME NEW l \in Links PROVE WriterInUse(l)'
    BY <1>0, <1>5, <2>1, <2>2, <2>3 DEF InUse, WriterInUse, Writing
  <2> QED
    BY <2>4, <2>5, <2>6 DEF InUse
<1>6. CASE NtripWrites /\ ntrip' = [ntrip EXCEPT !.pc = "writing"]
  <2>1. /\ ntrip.pc = "write" /\ ntrip'.pc = "writing" /\ ntrip'.link = ntrip.link
        /\ ntrip'.forwards = ntrip.forwards /\ ntrip'.todo = ntrip.todo
        /\ ntrip.link \in Links /\ port[ntrip.link] = "open"
        /\ leases' = [leases EXCEPT ![ntrip.link] = @ \cup {"ntrip"}]
        /\ UNCHANGED <<port, writerLock, queue>>
    BY ZenonT(60), <1>6 DEF NtripWrites, WriterFails, Sharing, Forwarding, Writing, Ntrips
  <2>2. Sharing'
    BY <1>0, <2>1, NtripKeepsSharing DEF Sharing, Forwarding, Writing
  <2>3. ASSUME NEW l \in Links PROVE PortInUse(l)'
    <3>1. CASE l = ntrip.link
      <4>1. leases'[l] = leases[l] \cup {"ntrip"}
        BY <2>1, <3>1
      <4> QED
        BY <1>0, <2>1, <3>1, <4>1 DEF InUse, PortInUse
    <3>2. CASE l # ntrip.link
      <4>1. leases'[l] = leases[l]
        BY <2>1, <3>2
      <4> QED
        BY <1>0, <2>1, <3>2, <4>1 DEF InUse, PortInUse
    <3> QED
      BY <3>1, <3>2
  <2>4. ASSUME NEW l \in Links PROVE WriterInUse(l)'
    BY <1>0, <2>1 DEF InUse, WriterInUse, Writing
  <2> QED
    BY <2>2, <2>3, <2>4 DEF InUse
<1>7. CASE WriterFails(ntrip.link) /\ (NtripWrites \/ NtripWriteFails \/ NtripWriteCancelled)
  <2>1. /\ ntrip.pc \in {"write", "writing"} /\ ntrip'.pc = "closeFailed"
        /\ ntrip'.link = ntrip.link
        /\ ntrip'.forwards = ntrip.forwards /\ ntrip'.todo = ntrip.todo
        /\ ntrip.link \in Links
        /\ queue' = [queue EXCEPT ![ntrip.link] = << >>]
        /\ UNCHANGED <<port, writerLock>>
    BY <1>7 DEF NtripWrites, NtripWriteFails, NtripWriteCancelled, WriterFails, Abandoned, Sharing,
                Forwarding, Writing, Ntrips
  <2>2. \/ leases' = leases /\ ntrip.pc = "write"
        \/ leases' = [leases EXCEPT ![ntrip.link] = @ \ {"ntrip"}]
    BY <1>7 DEF NtripWrites, NtripWriteFails, NtripWriteCancelled, WriterFails, Ntrips
  <2>3. Sharing'
    BY <1>0, <2>1, NtripKeepsSharing DEF Sharing, Forwarding, Writing
  <2>4. ASSUME NEW l \in Links PROVE PortInUse(l)'
    <3>1. leases'[l] \subseteq leases[l] /\ ("worker" \in leases'[l] <=> "worker" \in leases[l])
      BY ZenonT(60), <2>1, <2>2
    <3>2. "ntrip" \notin leases'[l]
      <4>1. "ntrip" \in leases[l] => l = ntrip.link /\ ntrip.pc = "writing"
        BY DEF InUse, PortInUse
      <4>2. CASE leases' = leases /\ ntrip.pc = "write"
        BY <4>1, <4>2
      <4>3. CASE l = ntrip.link /\ leases'[l] = leases[l] \ {"ntrip"}
        BY <4>3
      <4>4. CASE l # ntrip.link
        BY <3>1, <4>1, <4>4
      <4> QED
        BY <2>1, <2>2, <4>2, <4>3, <4>4
    <3>3. leases'[l] # {} => leases[l] # {}
      BY <3>1
    <3> QED
      BY <1>0, <2>1, <3>1, <3>2, <3>3 DEF InUse, PortInUse
  <2>5. ASSUME NEW l \in Links PROVE WriterInUse(l)'
    BY <1>0, <2>1 DEF InUse, WriterInUse, Writing
  <2> QED
    BY <2>3, <2>4, <2>5 DEF InUse
<1>8. CASE NtripWriteAccepted
  <2> DEFINE link == ntrip.link
             q == queue[link]
  <2>1. /\ ntrip.pc = "writing" /\ link \in Links /\ port' = port
    BY <1>8 DEF NtripWriteAccepted, Sharing, Forwarding, Writing, Ntrips
  <2>2. PICK accepted \in 0 .. Remaining(q) :
          LET rest == AfterWrite(q, accepted)
              again == accepted > 0 /\ rest # << >>
          IN /\ queue' = [queue EXCEPT ![link] = rest]
             /\ leases' = [leases EXCEPT ![link] = @ \ {"ntrip"}]
             /\ writerLock' = [writerLock EXCEPT ![link] = IF again THEN @ ELSE "free"]
             /\ ntrip' = [ntrip EXCEPT
                  !.frames = IF Completes(q, accepted) THEN @ + 1 ELSE @,
                  !.depth = Len(rest),
                  !.pc = IF again THEN "write" ELSE "publish"]
    BY <1>8 DEF NtripWriteAccepted
  <2> DEFINE rest == AfterWrite(q, accepted)
             again == accepted > 0 /\ rest # << >>
  <2>3. /\ ntrip'.pc = IF again THEN "write" ELSE "publish"
        /\ ntrip'.link = link /\ ntrip'.forwards = ntrip.forwards /\ ntrip'.todo = ntrip.todo
    BY <2>2 DEF Ntrips
  <2>4. Sharing'
    BY <1>0, <2>1, <2>3, NtripKeepsSharing DEF Sharing, Forwarding, Writing
  <2>5. /\ queue' = [queue EXCEPT ![link] = rest]
        /\ writerLock' = [writerLock EXCEPT ![link] = IF again THEN @ ELSE "free"]
        /\ leases' = [leases EXCEPT ![link] = @ \ {"ntrip"}]
    BY <2>2
  <2>6. q # << >> /\ writerLock[link] = "ntrip"
    BY <2>1 DEF InUse, WriterInUse, Writing
  <2>7. ASSUME NEW l \in Links PROVE PortInUse(l)'
    <3>1. leases'[l] \subseteq leases[l] /\ ("worker" \in leases'[l] <=> "worker" \in leases[l])
      BY <2>1, <2>5
    <3>2. "ntrip" \notin leases'[l]
      BY <2>1, <2>5 DEF InUse, PortInUse
    <3>3. leases'[l] # {} => leases[l] # {}
      BY <3>1
    <3>4. ntrip'.pc # "writing"
      BY <2>3
    <3> QED
      BY <1>0, <2>1, <3>1, <3>2, <3>3, <3>4 DEF InUse, PortInUse
  <2>8. ASSUME NEW l \in Links PROVE WriterInUse(l)'
    <3> HIDE DEF rest
    <3>1. CASE l = link
      <4>1. /\ queue'[l] = rest /\ writerLock'[l] = IF again THEN "ntrip" ELSE "free"
            /\ again => rest # << >>
        BY <2>1, <2>5, <2>6, <3>1
      <4>2. l = worker.link /\ worker.pc \in Live \cup {"retire", "abandon"}
        BY <2>6, <3>1 DEF InUse, WriterInUse
      <4> QED
        BY <1>0, <2>3, <3>1, <4>1, <4>2 DEF WriterInUse, Writing
    <3>2. CASE l # link
      <4>1. queue'[l] = queue[l] /\ writerLock'[l] = writerLock[l]
        BY <2>1, <2>5, <3>2
      <4> QED
        BY <1>0, <2>3, <3>2, <4>1 DEF InUse, WriterInUse
    <3> QED
      BY <3>1, <3>2
  <2> QED
    BY <2>4, <2>7, <2>8 DEF InUse
<1>9. CASE NtripCloses
  <2>1. /\ ntrip.pc \in {"closeFailed", "closing"} /\ ntrip'.link = ntrip.link
        /\ ntrip'.forwards = ntrip.forwards /\ ntrip'.todo = ntrip.todo
        /\ ntrip.link \in Links
        /\ UNCHANGED <<leases, queue>>
    BY <1>9 DEF NtripCloses, CloseBegins, Sharing, Forwarding, Writing, Ntrips
  <2>2. \/ /\ ntrip'.pc = "closing" /\ writerLock' = writerLock
           /\ port' = [port EXCEPT ![ntrip.link] = IF @ = "open" THEN "closing" ELSE @]
        \/ /\ ntrip'.pc = "publish" /\ leases[ntrip.link] = {}
           /\ port' = [port EXCEPT ![ntrip.link] = "closed"]
           /\ writerLock' = [writerLock EXCEPT ![ntrip.link] = "free"]
    BY <1>9 DEF NtripCloses, CloseBegins, Ntrips
  <2>3. Sharing'
    BY <1>0, <2>1, <2>2, NtripKeepsSharing DEF Sharing, Forwarding, Writing
  <2>4. ASSUME NEW l \in Links PROVE PortInUse(l)'
    BY ZenonT(60), <1>0, <2>1, <2>2 DEF InUse, PortInUse
  <2>5. ASSUME NEW l \in Links PROVE WriterInUse(l)'
    BY ZenonT(60), <1>0, <2>1, <2>2 DEF InUse, WriterInUse, Writing
  <2> QED
    BY <2>3, <2>4, <2>5 DEF InUse
<1> QED
  <2>1. CASE FlushPendingRtcm
    BY <1>2, <1>3, <2>1 DEF FlushPendingRtcm
  <2>2. CASE ForwardRtcm
    <3>1. ntrip' = [ntrip EXCEPT !.pc = "write"] => ntrip'.pc = "write"
      BY DEF Ntrips
    <3>2. ntrip' = [ntrip EXCEPT !.depth = Len(queue[ntrip.link]), !.pc = "publish"]
            => ntrip'.pc = "publish"
      BY DEF Ntrips
    <3> QED
      BY <1>2, <1>4, <1>5, <2>2, <3>1, <3>2 DEF ForwardRtcm
  <2>3. CASE NtripWrites
    BY <1>6, <1>7, <2>3 DEF NtripWrites
  <2>4. CASE NtripWriteFails \/ NtripWriteCancelled
    BY <1>7, <2>4 DEF NtripWriteFails, NtripWriteCancelled
  <2> QED
    BY <1>1, <1>2, <1>8, <1>9, <2>1, <2>2, <2>3, <2>4 DEF NtripLinkSteps
-----------------------------------------------------------------------------
(* The invariant.                                                          *)

LEMMA InitIInv == Init => IInv
<1> SUFFICES ASSUME Init PROVE IInv
  OBVIOUS
<1> USE DEF Init
<1>1. /\ worker.pc = "none" /\ worker.link = NoLink
      /\ ntrip.pc = "none" /\ ntrip.link = NoLink /\ ~ntrip.forwards
      /\ snapshot.incarnation = 0 /\ snapshot.state = NoLink /\ ~snapshot.connected
      /\ snapshot.lifecycle = "stopped" /\ snapshot.client = "disconnected"
  BY DEF IdleWorker, IdleNtrip, EmptySnapshot
<1>2. TypeOK
  <2>1. snapshot \in Snapshots /\ worker \in Workers /\ ntrip \in Ntrips
    BY IdleTypes
  <2>2. owner \in Owners
    BY DEF Owners, OwnerStates
  <2>3. << >> \in Seq(Entries(Frames))
    OBVIOUS
  <2>4. queue \in [Links -> Seq(Entries(Frames))]
    BY <2>3
  <2>5. /\ opened \in 0 .. MaxLinks /\ received \in 0 .. MaxFrames /\ runs \in 0 .. MaxRuns
        /\ incarnation \in [Links -> 0 .. MaxLinks]
    BY Bounds
  <2>6. /\ stopping \in BOOLEAN /\ active \in Links \cup {NoLink}
        /\ port \in [Links -> {"none", "open", "closing", "closed"}]
        /\ leases \in [Links -> SUBSET {"worker", "ntrip"}]
        /\ writerLock \in [Links -> {"free", "ntrip"}]
    OBVIOUS
  <2> QED
    BY <2>1, <2>2, <2>4, <2>5, <2>6 DEF TypeOK
<1>3. Shown /\ Joined
  BY <1>1 DEF Shown, Joined, Live, Quiet
<1>4. Sharing
  <2>1. owner.link = NoLink /\ active = NoLink /\ opened = 0
    OBVIOUS
  <2> QED
    BY <1>1, <2>1 DEF Sharing, Unshared, Live, Forwarding, Writing, NoLink
<1>5. InUse
  BY <1>1 DEF InUse, PortInUse, WriterInUse, NoLink, Links, Writing
<1> QED
  BY <1>2, <1>3, <1>4, <1>5 DEF IInv

LEMMA NextIInv == IInv /\ [Next]_vars => IInv'
<1> SUFFICES ASSUME IInv, [Next]_vars PROVE IInv'
  OBVIOUS
<1>1. CASE Start \/ StopRequested \/ OwnerSteps
  BY <1>1, OwnerTypeOK, OwnerSteadies DEF IInv
<1>2. CASE WorkerSteps \/ RunReadReturns
  BY <1>2, WorkerTypeOK, WorkerSteadies DEF IInv
<1>3. CASE NtripSteps \/ NtripWriteAccepted \/ NtripWriteFails
  <2>1. TypeOK'
    BY <1>3, NtripTypeOK
  <2>2. CASE NtripOuterSteps
    BY <2>1, <2>2, NtripOuterSteadies DEF IInv
  <2>3. CASE NtripLinkSteps
    BY <2>1, <2>3, NtripLinkShows, NtripLinkSteadies DEF IInv
  <2> QED
    BY <1>3, <2>2, <2>3 DEF NtripSteps, NtripOuterSteps, NtripLinkSteps
<1>4. CASE UNCHANGED vars
  BY <1>4 DEF vars, shared, links, IInv, TypeOK, Shown, Joined, Sharing, Shared, InUse, PortInUse,
              WriterInUse
<1> QED
  BY <1>1, <1>2, <1>3, <1>4 DEF Next

\* IInv is an invariant of the supervisor, for every number of links, frames
\* and runs: what the owner's, the worker's and the NTRIP worker's places in
\* their code say of the transports, the locks, the queues and the snapshot.
THEOREM Invariance == Spec => []IInv
BY InitIInv, NextIInv, PTL DEF Spec

\* Every variable of the supervisor keeps its type; in particular the queues
\* that Flush updates hold frames whose offset stays below their size.
THEOREM SupervisorTypeCorrect == Spec => []TypeOK
<1>1. IInv => TypeOK
  BY DEF IInv
<1> QED
  BY <1>1, Invariance, PTL

\* A receiver state is only shown while connected, and with the incarnation of
\* the session it came from: Run clears it before it publishes another one.
THEOREM StateIsOfItsIncarnation == Spec => []StateOfThisIncarnation
<1>1. IInv => StateOfThisIncarnation
  BY DEF IInv, Shown, StateOfThisIncarnation
<1> QED
  BY <1>1, Invariance, PTL

\* Once Stop has returned (or before the first Start) nothing is left behind,
\* wherever the two workers were when it was called.
THEOREM StopLeavesNothing == Spec => []StoppedMeansQuiet
<1>1. IInv => StoppedMeansQuiet
  <2> SUFFICES ASSUME IInv, owner.pc = "idle" PROVE StoppedMeansQuiet
    BY DEF StoppedMeansQuiet
  <2> USE DEF IInv
  <2>1. worker.pc \in Quiet /\ ntrip.pc \in Quiet
    BY DEF Joined
  <2>2. active = NoLink
    BY <2>1 DEF Sharing, Quiet, Live
  <2>3. ASSUME NEW l \in Links
        PROVE  /\ port[l] \in {"none", "closed"} /\ leases[l] = {}
               /\ writerLock[l] = "free" /\ queue[l] = << >>
    <3>1. PortInUse(l) /\ WriterInUse(l)
      BY DEF InUse
    <3>2. port[l] \in {"none", "closed"}
      BY <2>1, <3>1 DEF PortInUse, TypeOK, Quiet, Live, Unshared
    <3>3. leases[l] = {}
      BY <3>1, <3>2 DEF PortInUse
    <3>4. writerLock[l] = "free" /\ queue[l] = << >>
      BY <2>1, <3>1 DEF WriterInUse, TypeOK, Quiet, Live, Writing
    <3> QED
      BY <3>2, <3>3, <3>4
  <2>4. /\ snapshot.lifecycle = "stopped" /\ ~snapshot.connected /\ snapshot.state = NoLink
        /\ snapshot.client = "disconnected"
    BY <2>1 DEF Shown
  <2> QED
    BY <2>2, <2>3, <2>4 DEF StoppedMeansQuiet
<1> QED
  BY <1>1, Invariance, PTL

\* The head that Flush refers to between two writes stays in its queue: the
\* threads that abandon queues are kept out by writer_mutex.
THEOREM FlushOwnsItsFrame == Spec => []FlushKeepsItsFrame
<1>1. IInv => FlushKeepsItsFrame
  <2> SUFFICES ASSUME IInv, ntrip.pc \in {"write", "writing"}
               PROVE  writerLock[ntrip.link] = "ntrip" /\ queue[ntrip.link] # << >>
    BY DEF FlushKeepsItsFrame
  <2>1. ntrip.link \in Links
    BY DEF IInv, TypeOK, Ntrips, Sharing, Forwarding, Writing
  <2> QED
    BY <2>1 DEF IInv, InUse, WriterInUse, Writing
<1> QED
  BY <1>1, Invariance, PTL

\* Only the NTRIP worker's writes put bytes on a wire.
LEMMA WiredBy ==
  ASSUME Next, wire' # wire
  PROVE  NtripWriteAccepted \/ NtripWriteFails
<1>1. ~Start /\ ~StopRequested /\ ~OwnerSteps
  BY DEF Start, StopRequested, OwnerSteps, StopTakesLink, StopNotifies, StopCloses,
     CloseBegins, CloseReturns, StopAbandons, Abandon, StopJoins, links
<1>2. ~WorkerSteps /\ ~RunReadReturns
  BY DEF WorkerSteps, RunChecksStop, RunOpenFails, RunOpens, RunPublishes, RunActivates,
     RunReads, RunReadCancelled, Update, RunWaits, RunCloses, CloseBegins,
     CloseReturns, RunRetires, RunAbandons, Abandon, RunLeavesSession, RunReconnects,
     RunEnds, RunReadReturns, links
<1>3. ~NtripSteps
  BY DEF NtripSteps, NtripChecksStop, NtripConnects, NtripWaits, NtripInjectsGga,
     NtripPublishesGga, NtripReads, TakesActiveLink, FlushPendingRtcm, ForwardRtcm,
     NtripWrites, NtripWriteCancelled, NtripCloses, CloseBegins,
     PublishesForwarding, NtripEndsTurn, NtripEnds, links
<1> QED
  BY <1>1, <1>2, <1>3 DEF Next

LEMMA Wired == Spec => [](DOMAIN wire = Links)
<1>1. Init => DOMAIN wire = Links
  BY DEF Init
<1>2. DOMAIN wire = Links /\ [Next]_vars => (DOMAIN wire = Links)'
  BY WiredBy DEF vars, links, NtripWriteAccepted, NtripWriteFails
<1> QED
  BY <1>1, <1>2, PTL DEF Spec

\* A transport accepts correction bytes only between the moment its session is
\* made active and the moment the worker retires it.
THEOREM BytesReachTheLiveSession == Spec => BytesOnlyToLiveSession
<1> DEFINE Reaches ==
      \A l \in Links : wire[l]' # wire[l] =>
        /\ l = worker.link
        /\ worker.pc \in {"inner", "read", "reading", "update", "idle",
                          "lastUpdate", "close", "closing"}
<1>1. IInv /\ DOMAIN wire = Links /\ [Next]_vars => [Reaches]_vars
  <2> SUFFICES ASSUME IInv, DOMAIN wire = Links, Next PROVE Reaches
    OBVIOUS
  <2> SUFFICES ASSUME NEW l \in Links, wire[l]' # wire[l]
               PROVE  l = worker.link /\ worker.pc \in Live
    BY DEF Live
  <2>1. NtripWriteAccepted \/ NtripWriteFails
    BY WiredBy
  <2>2. l = ntrip.link /\ ntrip.pc = "writing"
    <3>1. CASE NtripWriteAccepted
      BY <3>1 DEF NtripWriteAccepted
    <3>2. CASE NtripWriteFails
      BY <3>2 DEF NtripWriteFails
    <3> QED
      BY <2>1, <3>1, <3>2
  <2>3. leases[l] # {} /\ PortInUse(l)
    BY <2>2 DEF IInv, InUse, PortInUse
  <2>4. l = worker.link /\ worker.pc \in Unshared \cup Live
    BY <2>3 DEF PortInUse
  <2>5. worker.pc \notin Unshared
    BY <2>2, <2>4 DEF IInv, Sharing, Shared, Forwarding, Writing, NoLink, Links
  <2> QED
    BY <2>4, <2>5
<1> QED
  BY <1>1, Invariance, Wired, PTL DEF Spec, BytesOnlyToLiveSession

-----------------------------------------------------------------------------
(* Positions offered to the caster.                                        *)

\* The last one offered is of a link opened before, and while the worker is
\* at that link the NTRIP worker remembers it, whether the session lasts or not.
LastOffered == ggaSent[Len(ggaSent)]
GgaSeen ==
  /\ ggaSent \in Seq(Links \X (0 .. MaxPositions))
  /\ worker.link \in {NoLink, opened}
  /\ ggaSent # << >> =>
       /\ LastOffered[1] <= opened
       /\ worker.pc = "publish" => LastOffered[1] # worker.link
       /\ worker.link = LastOffered[1] =>
            /\ ntrip.ggaIncarnation = snapshot.incarnation
            /\ ntrip.ggaObservations = LastOffered[2]

GgaInv == GgaSeen /\ GgaOncePerObservation

LEMMA OfferedType ==
  ASSUME GgaSeen, ggaSent # << >>
  PROVE  LastOffered[1] \in Links /\ LastOffered[2] \in 0 .. MaxPositions
<1>1. Len(ggaSent) \in 1 .. Len(ggaSent)
  BY DEF GgaSeen
<1>2. LastOffered \in Links \X (0 .. MaxPositions)
  BY <1>1 DEF GgaSeen, LastOffered
<1> QED
  BY <1>2

\* A step that neither offers a position nor begins a session or a run.
LEMMA GgaStays ==
  ASSUME GgaInv, UNCHANGED <<ggaSent, opened, worker.link, snapshot.incarnation,
                             ntrip.ggaIncarnation, ntrip.ggaObservations>>,
         worker'.pc = "publish" => worker.pc = "publish"
  PROVE  GgaInv'
BY DEF GgaInv, GgaSeen, LastOffered, GgaOncePerObservation

LEMMA OwnerKeepsGga ==
  ASSUME IInv, GgaInv, Start \/ StopRequested \/ OwnerSteps
  PROVE  GgaInv'
<1>1. CASE Start
  <2>1. UNCHANGED <<ggaSent, opened>> /\ worker'.pc = "check" /\ worker'.link = NoLink
    BY <1>1 DEF Start, links, IdleWorker
  <2>2. ggaSent # << >> => LastOffered[1] # NoLink
    BY OfferedType DEF GgaInv, Links, NoLink
  <2> QED
    BY <2>1, <2>2 DEF GgaInv, GgaSeen, LastOffered, GgaOncePerObservation
<1>2. CASE StopNotifies
  <2>1. snapshot'.incarnation = snapshot.incarnation
    BY <1>2 DEF StopNotifies, IInv, TypeOK, Snapshots
  <2> QED
    BY <1>2, <2>1, GgaStays DEF StopNotifies, links
<1>3. CASE StopRequested \/ StopTakesLink \/ StopCloses \/ StopAbandons \/ StopJoins
  BY <1>3, GgaStays DEF StopRequested, StopTakesLink, StopCloses, CloseBegins, CloseReturns,
     StopAbandons, Abandon, StopJoins, links, shared
<1> QED
  BY <1>1, <1>2, <1>3 DEF OwnerSteps

LEMMA WorkerKeepsGga ==
  ASSUME IInv, GgaInv, WorkerSteps \/ RunReadReturns
  PROVE  GgaInv'
<1> USE DEF WorkerFrame, links
<1>0. worker \in Workers /\ snapshot \in Snapshots /\ opened \in Nat
  BY Bounds DEF IInv, TypeOK
<1>1. CASE RunOpens
  <2>1. /\ UNCHANGED <<ggaSent, snapshot, ntrip>> /\ opened' = opened + 1
        /\ worker'.link = opened + 1
    BY <1>1 DEF RunOpens, IdleWorker
  <2>2. ggaSent # << >> => LastOffered[1] <= opened /\ LastOffered[1] \in Nat
    BY OfferedType, Bounds DEF GgaInv, GgaSeen, Links
  <2>3. ggaSent # << >> => LastOffered[1] # opened + 1 /\ LastOffered[1] <= opened + 1
    BY <1>0, <2>2
  <2> QED
    BY <2>1, <2>3 DEF GgaInv, GgaSeen, LastOffered, GgaOncePerObservation
<1>2. CASE RunPublishes
  <2>1. /\ UNCHANGED <<ggaSent, opened>> /\ worker.pc = "publish"
        /\ worker'.link = worker.link /\ worker'.pc = "activate"
    BY <1>0, <1>2 DEF RunPublishes, WorkerGoto, Workers
  <2> QED
    BY <2>1 DEF GgaInv, GgaSeen, LastOffered, GgaOncePerObservation
<1>3. CASE RunReads \/ RunReadReturns \/ RunReadCancelled
  <2>1. UNCHANGED <<ggaSent, opened, snapshot, ntrip>>
    BY <1>3 DEF RunReads, RunReadReturns, RunReadCancelled
  <2>2. worker'.link = worker.link /\ worker'.pc \in {"reading", "update"}
    BY <1>0, <1>3 DEF RunReads, RunReadReturns, RunReadCancelled, SessionEnds, SessionSteps,
       WorkerGoto, Workers
  <2> QED
    BY <2>1, <2>2, GgaStays
<1>4. CASE RunOpenFails \/ RunReconnects \/ RunEnds
  <2>1. UNCHANGED <<ggaSent, opened, ntrip>> /\ snapshot'.incarnation = snapshot.incarnation
    BY <1>0, <1>4 DEF RunOpenFails, RunReconnects, RunEnds, Snapshots
  <2>2. worker'.link = worker.link /\ worker'.pc \in {"wait", "done"}
    BY <1>0, <1>4 DEF RunOpenFails, RunReconnects, RunEnds, WorkerGoto, Workers
  <2> QED
    BY <2>1, <2>2, GgaStays
<1>5. CASE Update
  <2>1. UNCHANGED <<ggaSent, opened, ntrip>> /\ snapshot'.incarnation = snapshot.incarnation
    BY <1>0, <1>5 DEF Update, Snapshots
  <2>2. worker'.link = worker.link /\ worker'.pc \in {"close", "lastUpdate", "idle", "inner"}
    BY <1>0, <1>5 DEF Update, Workers
  <2> QED
    BY <2>1, <2>2, GgaStays
<1>6. CASE RunChecksStop \/ RunActivates \/ RunWaits
  <2>1. UNCHANGED <<ggaSent, opened, snapshot, ntrip>>
    BY <1>6 DEF RunChecksStop, RunActivates, RunWaits
  <2>2. worker'.link = worker.link /\ worker'.pc # "publish"
    BY <1>0, <1>6 DEF RunChecksStop, RunActivates, RunWaits, WorkerGoto, Workers
  <2> QED
    BY <2>1, <2>2, GgaStays
<1>7. CASE RunCloses \/ RunRetires \/ RunAbandons \/ RunLeavesSession
  <2>1. UNCHANGED <<ggaSent, opened, snapshot, ntrip>>
    BY <1>7 DEF RunCloses, CloseBegins, CloseReturns, RunRetires, RunAbandons, Abandon,
       RunLeavesSession
  <2>2. worker'.link = worker.link /\ worker'.pc # "publish"
    BY <1>0, <1>7 DEF RunCloses, RunRetires, RunAbandons, RunLeavesSession, WorkerGoto, Workers
  <2> QED
    BY <2>1, <2>2, GgaStays
<1> QED
  BY <1>1, <1>2, <1>3, <1>4, <1>5, <1>6, <1>7 DEF WorkerSteps

LEMMA InjectKeepsGga ==
  ASSUME IInv, GgaInv, NtripInjectsGga
  PROVE  GgaInv'
<1>0. /\ snapshot \in Snapshots /\ ntrip \in Ntrips /\ worker \in Workers /\ opened \in 0 .. MaxLinks
      /\ UNCHANGED <<snapshot, worker, opened>>
  BY DEF IInv, TypeOK, NtripInjectsGga, NtripFrame, links
<1>1. CASE /\ ntrip'.ggaIncarnation = snapshot.incarnation
           /\ ntrip'.ggaObservations = PositionsSeen
           /\ UNCHANGED ggaSent
  <2>1. ggaSent # << >> /\ worker.link = LastOffered[1] =>
          /\ ntrip'.ggaIncarnation = snapshot.incarnation
          /\ ntrip'.ggaObservations = LastOffered[2]
    BY <1>1 DEF GgaInv, GgaSeen, PositionsSeen
  <2> QED
    BY <1>0, <1>1, <2>1 DEF GgaInv, GgaSeen, LastOffered, GgaOncePerObservation
<1>2. CASE /\ snapshot.state # NoLink
           /\ snapshot.observations > PositionsSeen
           /\ ntrip'.ggaIncarnation = snapshot.incarnation
           /\ ntrip'.ggaObservations = snapshot.observations
           /\ ggaSent' = Append(ggaSent, <<snapshot.state, snapshot.observations>>)
  <2> DEFINE new == <<snapshot.state, snapshot.observations>>
  <2> DEFINE n == Len(ggaSent)
  <2>1. snapshot.state = worker.link /\ worker.pc # "publish" /\ worker.link = opened
    BY <1>2 DEF IInv, Shown, Live, GgaInv, GgaSeen
  <2>2. PositionsSeen \in Nat /\ snapshot.state \in Links
    BY <1>0, <1>2, Bounds DEF PositionsSeen, Ntrips, Snapshots
  <2>3. snapshot.observations \in 0 .. MaxPositions
    BY <1>0, <1>2, <2>2, Bounds DEF Snapshots, NoObs
  <2>4. ggaSent \in Seq(Links \X (0 .. MaxPositions)) /\ new \in Links \X (0 .. MaxPositions)
    BY <2>2, <2>3 DEF GgaInv, GgaSeen
  <2> HIDE DEF new
  <2>5. ggaSent' = Append(ggaSent, new)
    BY <1>2 DEF new
  <2>6. /\ ggaSent' \in Seq(Links \X (0 .. MaxPositions)) /\ n \in Nat
        /\ Len(ggaSent') = n + 1 /\ ggaSent'[n + 1] = new
        /\ \A i \in 1 .. n : ggaSent'[i] = ggaSent[i]
    BY <2>4, <2>5
  <2>7. LastOffered' = new
    BY <2>6 DEF LastOffered
  <2>8. new[1] = opened /\ new[1] = worker.link /\ new[2] = snapshot.observations
    BY <2>1 DEF new
  <2>9. GgaSeen'
    BY <1>0, <1>2, <2>1, <2>6, <2>7, <2>8, Bounds DEF GgaSeen
  <2>10. ASSUME n # 0 PROVE Later(new, LastOffered)
    <3>1. ggaSent # << >>
      BY <2>4, <2>10
    <3>2. LastOffered[1] <= opened /\ LastOffered[1] \in Nat /\ LastOffered[2] \in Nat
      BY <3>1, OfferedType, Bounds DEF GgaInv, GgaSeen, Links
    <3>3. CASE LastOffered[1] = opened
      <4>1. PositionsSeen = LastOffered[2]
        BY <2>1, <3>1, <3>3 DEF GgaInv, GgaSeen, PositionsSeen
      <4> QED
        BY <1>2, <2>8, <3>3, <4>1 DEF Later
    <3>4. CASE LastOffered[1] # opened
      BY <1>0, <2>8, <3>2, <3>4, Bounds DEF Later
    <3> QED
      BY <3>3, <3>4
  <2>11. GgaOncePerObservation'
    <3> SUFFICES ASSUME NEW i \in 2 .. n + 1
                 PROVE  Later(ggaSent'[i], ggaSent'[i - 1])
      BY <2>6 DEF GgaOncePerObservation, Later
    <3>1. CASE i = n + 1
      <4>1. n \in 1 .. n /\ i - 1 = n /\ n # 0
        BY <2>6, <3>1
      <4>2. ggaSent'[i] = new /\ ggaSent'[i - 1] = LastOffered
        BY <2>6, <3>1, <4>1 DEF LastOffered
      <4> QED
        BY <2>10, <4>1, <4>2
    <3>2. CASE i # n + 1
      <4>1. i \in 2 .. n /\ i \in 1 .. n /\ i - 1 \in 1 .. n
        BY <2>6, <3>2
      <4> QED
        BY <2>6, <4>1 DEF GgaInv, GgaOncePerObservation
    <3> QED
      BY <3>1, <3>2
  <2> QED
    BY <2>9, <2>11 DEF GgaInv
<1>3. \/ /\ ntrip'.ggaIncarnation = snapshot.incarnation
         /\ ntrip'.ggaObservations = PositionsSeen
         /\ UNCHANGED ggaSent
      \/ /\ snapshot.state # NoLink
         /\ snapshot.observations > PositionsSeen
         /\ ntrip'.ggaIncarnation = snapshot.incarnation
         /\ ntrip'.ggaObservations = snapshot.observations
         /\ ggaSent' = Append(ggaSent, <<snapshot.state, snapshot.observations>>)
  <2>1. \/ \E result \in {"streaming", "disconnected"} :
             /\ snapshot.state # NoLink
             /\ snapshot.observations > PositionsSeen
             /\ ntrip' = [ntrip EXCEPT
                  !.pc = "ggaUpdate", !.client = result,
                  !.ggaIncarnation = snapshot.incarnation,
                  !.ggaObservations = snapshot.observations]
             /\ ggaSent' = Append(ggaSent, <<snapshot.state, snapshot.observations>>)
        \/ /\ ntrip' = [ntrip EXCEPT !.pc = "flush",
                                     !.ggaIncarnation = snapshot.incarnation,
                                     !.ggaObservations = PositionsSeen]
           /\ UNCHANGED ggaSent
    BY Zenon DEF NtripInjectsGga
  <2>2. ASSUME NEW result, NEW seen,
               ntrip' = [ntrip EXCEPT
                  !.pc = "ggaUpdate", !.client = result,
                  !.ggaIncarnation = snapshot.incarnation,
                  !.ggaObservations = seen]
        PROVE  ntrip'.ggaIncarnation = snapshot.incarnation /\ ntrip'.ggaObservations = seen
    BY <1>0, <2>2 DEF Ntrips
  <2>3. ASSUME ntrip' = [ntrip EXCEPT !.pc = "flush",
                                      !.ggaIncarnation = snapshot.incarnation,
                                      !.ggaObservations = PositionsSeen]
        PROVE  /\ ntrip'.ggaIncarnation = snapshot.incarnation
               /\ ntrip'.ggaObservations = PositionsSeen
    BY <1>0, <2>3 DEF Ntrips
  <2> QED
    BY <2>1, <2>2, <2>3, Zenon
<1> QED
  BY <1>1, <1>2, <1>3

LEMMA NtripKeepsGga ==
  ASSUME IInv, GgaInv, NtripSteps \/ NtripWriteAccepted \/ NtripWriteFails
  PROVE  GgaInv'
<1> USE DEF NtripFrame, links
<1>0. ntrip \in Ntrips /\ snapshot \in Snapshots
  BY DEF IInv, TypeOK
<1>1. CASE NtripInjectsGga
  BY <1>1, InjectKeepsGga
<1>2. CASE NtripChecksStop \/ NtripWaits
  <2>1. UNCHANGED <<ggaSent, opened, snapshot, worker, ntrip.ggaIncarnation, ntrip.ggaObservations>>
    BY <1>0, <1>2 DEF NtripChecksStop, NtripWaits, NtripGoto, Ntrips
  <2> QED
    BY <2>1, GgaStays
<1>3. CASE NtripConnects \/ NtripPublishesGga \/ NtripEndsTurn \/ NtripEnds
  <2>1. UNCHANGED <<ggaSent, opened, worker, snapshot.incarnation>>
    BY <1>0, <1>3 DEF NtripConnects, NtripPublishesGga, NtripEndsTurn, NtripEnds, UpdateNtrip,
       Snapshots
  <2>2. UNCHANGED <<ntrip.ggaIncarnation, ntrip.ggaObservations>>
    BY <1>0, <1>3 DEF NtripConnects, NtripPublishesGga, NtripEndsTurn, NtripEnds, NtripGoto, Ntrips
  <2> QED
    BY <2>1, <2>2, GgaStays
<1>4. CASE NtripReads \/ TakesActiveLink
  <2>1. UNCHANGED <<ggaSent, opened, snapshot, worker>>
    BY <1>4 DEF NtripReads, TakesActiveLink
  <2>2. UNCHANGED <<ntrip.ggaIncarnation, ntrip.ggaObservations>>
    BY <1>0, <1>4 DEF NtripReads, TakesActiveLink, Ntrips
  <2> QED
    BY <2>1, <2>2, GgaStays
<1>5. CASE FlushPendingRtcm \/ ForwardRtcm \/ PublishesForwarding
  <2>1. UNCHANGED <<ggaSent, opened, worker, snapshot.incarnation>>
    BY <1>0, <1>5 DEF FlushPendingRtcm, ForwardRtcm, PublishesForwarding, Snapshots
  <2>2. UNCHANGED <<ntrip.ggaIncarnation, ntrip.ggaObservations>>
    BY <1>0, <1>5 DEF FlushPendingRtcm, ForwardRtcm, PublishesForwarding, NtripLeavesLink, NtripGoto,
       Ntrips
  <2> QED
    BY <2>1, <2>2, GgaStays
<1>6. CASE NtripWrites \/ NtripWriteAccepted \/ NtripWriteFails \/ NtripWriteCancelled \/ NtripCloses
  <2>1. UNCHANGED <<ggaSent, opened, snapshot, worker>>
    BY <1>6 DEF NtripWrites, NtripWriteAccepted, NtripWriteFails, NtripWriteCancelled, NtripCloses,
       CloseBegins
  <2>2. UNCHANGED <<ntrip.ggaIncarnation, ntrip.ggaObservations>>
    BY <1>0, <1>6 DEF NtripWrites, NtripWriteAccepted, NtripWriteFails, NtripWriteCancelled,
       NtripCloses, WriterFails, NtripGoto, Ntrips
  <2> QED
    BY <2>1, <2>2, GgaStays
<1> QED
  BY <1>1, <1>2, <1>3, <1>4, <1>5, <1>6 DEF NtripSteps

\* For any number of sessions and runs: the caster is offered each observation
\* at most once, in the order in which they came, however often a receiver
\* is lost and however the snapshot changes between the two workers' steps
\* (receiver_supervisor.cpp, gga_position_observations in RunNtrip).
THEOREM PositionsOfferedOnce == Spec => []GgaOncePerObservation
<1>1. Init => GgaInv
  <2> SUFFICES ASSUME Init PROVE GgaInv
    OBVIOUS
  <2>1. ggaSent = << >> /\ worker.link = NoLink
    BY DEF Init, IdleWorker
  <2>2. << >> \in Seq(Links \X (0 .. MaxPositions)) /\ 2 .. Len(<< >>) = {}
    OBVIOUS
  <2> QED
    BY <2>1, <2>2 DEF GgaInv, GgaSeen, GgaOncePerObservation
<1>2. IInv /\ GgaInv /\ [Next]_vars => GgaInv'
  <2> SUFFICES ASSUME IInv, GgaInv, [Next]_vars PROVE GgaInv'
    OBVIOUS
  <2>1. CASE UNCHANGED vars
    <3>1. UNCHANGED <<ggaSent, opened, worker, snapshot, ntrip>>
      BY <2>1 DEF vars, links, shared
    <3> QED
      BY <3>1, GgaStays
  <2> QED
    BY <2>1, OwnerKeepsGga, WorkerKeepsGga, NtripKeepsGga DEF Next
<1>3. GgaInv => GgaOncePerObservation
  BY DEF GgaInv
<1> QED
  BY <1>1, <1>2, <1>3, Invariance, PTL DEF Spec

-----------------------------------------------------------------------------
(* The frames                                                              *)

\* The bytes of a wire, its last frame whole, and a queue in order: only the
\* head of a queue may be begun.
WireSeq == Seq(Frames \X (1 .. FrameBytes))
Ends(w) == w # << >> => w[Len(w)][2] = FrameBytes
Ordered(q) ==
  /\ \A i, j \in 1 .. Len(q) : i < j => q[i].frame < q[j].frame
  /\ \A i \in 2 .. Len(q) : q[i].offset = 0

\* The head of a queue continues the last frame of its wire, or follows it.
Follows(w, q) ==
  q # << >> =>
    IF q[1].offset = 0
    THEN w # << >> => w[Len(w)][2] = FrameBytes /\ w[Len(w)][1] < q[1].frame
    ELSE w # << >> /\ w[Len(w)] = <<q[1].frame, q[1].offset>>

\* Frames are numbered as they come; those up to Passed have left the list.
Passed ==
  received - Len(ntrip.todo) + (IF ntrip.forwards /\ ntrip.pc # "enqueue" THEN 1 ELSE 0)
Numbered ==
  /\ ntrip.pc # "forward" /\ ~ntrip.forwards => ntrip.todo = << >>
  /\ ntrip.pc = "flushLock" => ~ntrip.forwards
  /\ \A i \in 1 .. Len(ntrip.todo) : ntrip.todo[i] = received - Len(ntrip.todo) + i

\* A frame cut short is the last of its wire, whose port no longer takes any.
Unbroken(l) ==
  /\ l > opened => wire[l] = << >>
  /\ WholeFrames(wire[l])
  /\ Ordered(queue[l])
  /\ Follows(wire[l], queue[l])
  /\ queue[l] # << >> => queue[l][Len(queue[l])].frame <= Passed
  /\ wire[l] # << >> => wire[l][Len(wire[l])][1] <= Passed
  /\ queue[l] = << >> /\ port[l] = "open" =>
       Ends(wire[l]) \/ (l = ntrip.link /\ ntrip.pc = "closeFailed")

FramesInv ==
  /\ IInv
  /\ wire \in [Links -> WireSeq]
  /\ Numbered
  /\ owner.pc \in {"closing", "abandon"} => port[owner.link] # "open"
  /\ \A l \in Links : Unbroken(l)

\* The session that runs is the last one opened, and one of this run.
LastOpened ==
  /\ worker.pc \in Unshared \cup Live => worker.link = opened
  /\ worker.pc \in Live \cup {"activate"} => snapshot.incarnation > 0

\* A frame is counted between the write that completed it and the end of the
\* call that made it.
AllCompleted == UNION {{l} \X Completed(l) : l \in LinksOfRun}
Counted ==
  /\ IsFiniteSet(AllCompleted)
  /\ snapshot.frames + ntrip.frames = Cardinality(AllCompleted)
  /\ ntrip.frames > 0 => ntrip.pc \in Writing \cup {"publish"}

-----------------------------------------------------------------------------
(* A turn of Flush.                                                        *)

LEMMA RemainingType ==
  ASSUME NEW q \in Seq(Entries(Frames)), q # << >>
  PROVE  Remaining(q) \in Nat
<1>1. Head(q) \in Entries(Frames)
  OBVIOUS
<1> QED
  BY <1>1, FrameBytesAssumption DEF Remaining, Entries

LEMMA Turn ==
  ASSUME NEW q \in Seq(Entries(Frames)), q # << >>, NEW accepted \in 0 .. Remaining(q)
  PROVE  /\ Head(q) = q[1] /\ q[1].frame \in Frames /\ q[1].offset \in 0 .. FrameBytes - 1
         /\ FrameBytes \in Nat \ {0} /\ Remaining(q) = FrameBytes - q[1].offset
         /\ accepted \in Nat
         /\ Bytes(q, accepted) \in WireSeq /\ Len(Bytes(q, accepted)) = accepted
         /\ \A i \in 1 .. accepted : Bytes(q, accepted)[i] = <<q[1].frame, q[1].offset + i>>
<1>1. /\ Head(q) = q[1] /\ q[1].frame \in Frames /\ q[1].offset \in 0 .. FrameBytes - 1
      /\ FrameBytes \in Nat \ {0}
  <2>1. Head(q) \in Entries(Frames) /\ q[1] = Head(q)
    OBVIOUS
  <2> QED
    BY <2>1, FrameBytesAssumption DEF Entries
<1>2. Remaining(q) = FrameBytes - q[1].offset /\ accepted \in Nat
  BY <1>1 DEF Remaining
<1>3. ASSUME NEW i \in 1 .. accepted
      PROVE  <<q[1].frame, q[1].offset + i>> \in Frames \X (1 .. FrameBytes)
  <2>1. q[1].offset + i \in 1 .. FrameBytes
    BY <1>1, <1>2
  <2> QED
    BY <1>1, <2>1
<1>4. Bytes(q, accepted) = [i \in 1 .. accepted |-> <<q[1].frame, q[1].offset + i>>]
  BY <1>1 DEF Bytes
<1>5. Bytes(q, accepted) \in WireSeq /\ Len(Bytes(q, accepted)) = accepted
  BY <1>2, <1>3, <1>4 DEF WireSeq
<1> QED
  BY <1>1, <1>2, <1>4, <1>5

\* What the sink takes from the head continues the wire.
LEMMA StaysWhole ==
  ASSUME NEW w \in WireSeq, NEW q \in Seq(Entries(Frames)), q # << >>,
         Follows(w, q), WholeFrames(w), NEW n \in 0 .. Remaining(q),
         NEW v \in WireSeq, Len(v) = Len(w) + n,
         \A i \in 1 .. Len(w) : v[i] = w[i],
         \A i \in 1 .. n : v[Len(w) + i] = <<q[1].frame, q[1].offset + i>>
  PROVE  WholeFrames(v)
<1> DEFINE frame == q[1].frame
           offset == q[1].offset
<1>1. Len(w) \in Nat /\ (w # << >> <=> Len(w) >= 1) /\ n \in Nat /\ offset \in Nat
  BY Turn DEF WireSeq
<1>6. /\ offset = 0 => (w # << >> => w[Len(w)][2] = FrameBytes /\ w[Len(w)][1] < frame)
      /\ offset # 0 => w # << >> /\ w[Len(w)] = <<frame, offset>>
      /\ \A j \in 1 .. n : v[Len(w) + j] = <<frame, offset + j>>
  BY DEF Follows
<1> HIDE DEF frame, offset
<1> SUFFICES ASSUME NEW i \in 1 .. Len(v)
             PROVE  /\ v[i][2] = 1 =>
                         (i > 1 => v[i - 1][2] = FrameBytes /\ v[i - 1][1] < v[i][1])
                    /\ v[i][2] # 1 => i > 1 /\ v[i - 1] = <<v[i][1], v[i][2] - 1>>
  BY DEF WholeFrames
<1>2. i \in Nat /\ i >= 1 /\ i <= Len(w) + n
  BY <1>1
<1>3. CASE i <= Len(w)
  <2>1. i \in 1 .. Len(w) /\ (i > 1 => i - 1 \in 1 .. Len(w))
    BY <1>1, <1>2, <1>3
  <2>2. v[i] = w[i] /\ (i > 1 => v[i - 1] = w[i - 1])
    BY <2>1
  <2> QED
    BY <2>1, <2>2 DEF WholeFrames
<1>4. CASE i > Len(w) + 1
  <2> DEFINE k == i - Len(w)
  <2>1. k \in 1 .. n /\ k - 1 \in 1 .. n /\ i = Len(w) + k /\ i - 1 = Len(w) + (k - 1) /\ i > 1
    BY <1>1, <1>2, <1>4
  <2> HIDE DEF k
  <2>2. v[i] = <<frame, offset + k>> /\ v[i - 1] = <<frame, offset + (k - 1)>>
    BY <1>6, <2>1
  <2>3. offset + k # 1 /\ offset + (k - 1) = offset + k - 1
    BY <1>1, <1>2, <2>1
  <2>4. v[i][1] = frame /\ v[i][2] = offset + k
    BY <2>2
  <2>5. v[i][2] # 1 /\ v[i][2] - 1 = offset + (k - 1)
    BY <1>1, <2>1, <2>3, <2>4
  <2>6. v[i - 1] = <<v[i][1], v[i][2] - 1>>
    BY <2>2, <2>4, <2>5, Zenon
  <2> QED
    BY <2>1, <2>5, <2>6
<1>5. CASE i = Len(w) + 1
  <2>1. 1 \in 1 .. n /\ v[i] = <<frame, offset + 1>>
    BY <1>1, <1>2, <1>5, <1>6
  <2>2. i > 1 => w # << >> /\ i - 1 = Len(w) /\ v[i - 1] = w[Len(w)]
    BY <1>1, <1>5
  <2>3. w # << >> => i > 1
    BY <1>1, <1>5
  <2>4. CASE offset = 0
    BY <1>6, <2>1, <2>2, <2>4
  <2>5. CASE offset # 0
    <3>1. i > 1 /\ v[i - 1] = <<frame, offset>> /\ offset + 1 # 1 /\ offset + 1 - 1 = offset
      BY <1>1, <1>6, <2>2, <2>3, <2>5
    <3>2. v[i][1] = frame /\ v[i][2] = offset + 1
      BY <2>1
    <3>3. v[i][2] # 1 /\ v[i][2] - 1 = offset
      BY <1>1, <3>1, <3>2
    <3>4. v[i - 1] = <<v[i][1], v[i][2] - 1>>
      BY <3>1, <3>2, <3>3, Zenon
    <3> QED
      BY <3>1, <3>3, <3>4
  <2> QED
    BY <2>4, <2>5
<1> QED
  BY <1>1, <1>2, <1>3, <1>4, <1>5

Grown(w, q, accepted) == w \o Bytes(q, accepted)

LEMMA WireGrows ==
  ASSUME NEW w \in WireSeq, NEW q \in Seq(Entries(Frames)), q # << >>,
         Follows(w, q), WholeFrames(w), NEW accepted \in 0 .. Remaining(q)
  PROVE  /\ Grown(w, q, accepted) \in WireSeq
         /\ Len(Grown(w, q, accepted)) = Len(w) + accepted
         /\ \A i \in 1 .. Len(w) : Grown(w, q, accepted)[i] = w[i]
         /\ \A i \in 1 .. accepted :
              Grown(w, q, accepted)[Len(w) + i] = <<q[1].frame, q[1].offset + i>>
         /\ WholeFrames(Grown(w, q, accepted))
<1> DEFINE v == Grown(w, q, accepted)
<1>1. /\ q[1].frame \in Frames /\ q[1].offset \in Nat /\ accepted \in Nat
      /\ Bytes(q, accepted) \in WireSeq /\ Len(Bytes(q, accepted)) = accepted
      /\ \A i \in 1 .. accepted : Bytes(q, accepted)[i] = <<q[1].frame, q[1].offset + i>>
  BY Turn
<1>2. /\ v \in WireSeq /\ Len(v) = Len(w) + accepted /\ Len(w) \in Nat
      /\ \A i \in 1 .. Len(w) + accepted :
           v[i] = IF i <= Len(w) THEN w[i] ELSE Bytes(q, accepted)[i - Len(w)]
  <2> DEFINE S == Frames \X (1 .. FrameBytes)
             b == Bytes(q, accepted)
  <2>1. w \in Seq(S) /\ b \in Seq(S)
    BY <1>1 DEF WireSeq
  <2>2. WireSeq = Seq(S)
    BY DEF WireSeq
  <2>3. Len(b) = accepted /\ v = w \o b
    BY <1>1 DEF Grown
  <2> HIDE DEF S, b, v
  <2>4. /\ w \o b \in Seq(S) /\ Len(w \o b) = Len(w) + Len(b)
        /\ \A i \in 1 .. Len(w) + Len(b) :
             (w \o b)[i] = IF i <= Len(w) THEN w[i] ELSE b[i - Len(w)]
    BY <2>1, ConcatProperties
  <2>5. Len(w) \in Nat
    BY <2>1
  <2> QED
    BY <2>2, <2>3, <2>4, <2>5 DEF b, v
<1>3. ASSUME NEW i \in 1 .. Len(w) PROVE v[i] = w[i]
  BY <1>1, <1>2
<1>4. ASSUME NEW i \in 1 .. accepted PROVE v[Len(w) + i] = <<q[1].frame, q[1].offset + i>>
  <2>1. /\ Len(w) + i \in 1 .. Len(w) + accepted /\ ~(Len(w) + i <= Len(w))
        /\ Len(w) + i - Len(w) = i
    BY <1>1, <1>2
  <2>2. v[Len(w) + i] = Bytes(q, accepted)[i]
    BY <1>2, <2>1
  <2> QED
    BY <1>1, <2>2
<1>5. WholeFrames(v)
  BY <1>2, <1>3, <1>4, StaysWhole
<1> QED
  BY <1>2, <1>3, <1>4, <1>5

\* ... and leaves the queue in order, its head where the wire ends.
LEMMA QueueAdvances ==
  ASSUME NEW w \in WireSeq, NEW q \in Seq(Entries(Frames)), q # << >>,
         Follows(w, q), WholeFrames(w), Ordered(q), NEW accepted \in 0 .. Remaining(q),
         NEW v \in WireSeq, v = Grown(w, q, accepted),
         NEW rest \in Seq(Entries(Frames)), rest = AfterWrite(q, accepted)
  PROVE  /\ Ordered(rest) /\ Follows(v, rest)
         /\ rest = << >> => Ends(v)
         /\ rest # << >> => rest[Len(rest)].frame = q[Len(q)].frame
         /\ v # << >> => v[Len(v)][1] <= q[Len(q)].frame
<1> DEFINE f == q[1].frame
           o == q[1].offset
<1>1. /\ f \in Frames /\ o \in 0 .. FrameBytes - 1 /\ FrameBytes \in Nat \ {0}
      /\ accepted \in Nat /\ Remaining(q) = FrameBytes - o
  BY Turn
<1>2. /\ v \in WireSeq /\ Len(v) = Len(w) + accepted
      /\ \A i \in 1 .. Len(w) : v[i] = w[i]
      /\ \A i \in 1 .. accepted : v[Len(w) + i] = <<f, o + i>>
  BY ZenonT(60), WireGrows
<1>3. Len(w) \in Nat /\ Len(q) \in Nat \ {0} /\ \A i \in 1 .. Len(q) : q[i] \in Entries(Frames)
  BY DEF WireSeq
<1>4. ASSUME accepted > 0 PROVE v # << >> /\ v[Len(v)] = <<f, o + accepted>>
  <2>1. accepted \in 1 .. accepted /\ Len(w) + accepted > 0
    BY <1>1, <1>3, <1>4
  <2>2. v[Len(v)] = <<f, o + accepted>>
    BY <1>2, <2>1
  <2> QED
    BY <1>2, <2>1, <2>2 DEF WireSeq
<1>5. accepted = 0 => Len(v) = Len(w) /\ (w # << >> => v # << >> /\ v[Len(v)] = w[Len(w)])
                      /\ (v # << >> => w # << >>)
  BY <1>2, <1>3 DEF WireSeq
<1>6. \A i \in 1 .. Len(q) : q[i].frame \in Nat /\ q[1].frame <= q[i].frame
  <2>1. ASSUME NEW i \in 1 .. Len(q) PROVE q[i].frame \in Nat /\ q[1].frame \in Nat
    BY <1>3, Bounds DEF Entries, Frames
  <2>2. ASSUME NEW i \in 1 .. Len(q), i # 1 PROVE q[1].frame < q[i].frame
    <3>1. 1 \in 1 .. Len(q) /\ 1 < i
      BY <1>3, <2>2
    <3> QED
      BY <2>2, <3>1 DEF Ordered
  <2> QED
    BY <2>1, <2>2
<1>7. v # << >> => v[Len(v)][1] <= q[Len(q)].frame
  <2>1. f <= q[Len(q)].frame /\ f \in Nat /\ q[Len(q)].frame \in Nat
    BY <1>3, <1>6
  <2>2. CASE accepted > 0
    BY <1>4, <2>1, <2>2
  <2>3. CASE accepted = 0
    <3>1. w # << >> => w[Len(w)][1] \in Nat
      BY <1>3, Bounds DEF WireSeq, Frames
    <3>2. w # << >> => w[Len(w)][1] <= f
      BY <1>1, <2>1, <3>1 DEF Follows
    <3> QED
      BY <1>5, <2>1, <2>3, <3>1, <3>2
  <2> QED
    BY <1>1, <2>2, <2>3
<1>8. CASE Completes(q, accepted)
  <2>1. rest = Tail(q) /\ accepted > 0 /\ o + accepted = FrameBytes
    BY <1>1, <1>8 DEF AfterWrite, Completes
  <2>2. /\ Len(rest) = Len(q) - 1 /\ rest \in Seq(Entries(Frames))
        /\ \A i \in 1 .. Len(rest) : rest[i] = q[i + 1]
    BY <1>3, <2>1
  <2>3. v # << >> /\ v[Len(v)] = <<f, FrameBytes>>
    BY <1>4, <2>1
  <2>4. Ordered(rest)
    <3>1. ASSUME NEW i \in 1 .. Len(rest), NEW j \in 1 .. Len(rest), i < j
          PROVE  rest[i].frame < rest[j].frame
      <4>1. i + 1 \in 1 .. Len(q) /\ j + 1 \in 1 .. Len(q) /\ i + 1 < j + 1
        BY <1>3, <2>2, <3>1
      <4> QED
        BY <2>2, <4>1 DEF Ordered
    <3>2. ASSUME NEW i \in 2 .. Len(rest) PROVE rest[i].offset = 0
      <4>1. i \in 1 .. Len(rest) /\ i + 1 \in 2 .. Len(q)
        BY <1>3, <2>2
      <4> QED
        BY <2>2, <4>1 DEF Ordered
    <3> QED
      BY <3>1, <3>2 DEF Ordered
  <2>5. ASSUME rest # << >>
        PROVE  rest[1].offset = 0 /\ f < rest[1].frame /\ rest[Len(rest)].frame = q[Len(q)].frame
    <3>1. Len(rest) >= 1 /\ rest[1] = q[2] /\ rest[Len(rest)] = q[Len(q)] /\ Len(q) >= 2
      BY <1>3, <2>2, <2>5
    <3> QED
      BY <1>3, <3>1 DEF Ordered
  <2>6. Follows(v, rest) /\ Ends(v)
    BY <2>3, <2>5 DEF Follows, Ends
  <2> QED
    BY <1>7, <2>4, <2>5, <2>6
<1>9. CASE ~Completes(q, accepted)
  <2>1. o + accepted \in 0 .. FrameBytes - 1
    BY SMTT(30), <1>1, <1>9 DEF Completes
  <2>2. rest = [q EXCEPT ![1] = [q[1] EXCEPT !.offset = @ + accepted]]
    BY <1>9 DEF AfterWrite
  <2>3. /\ Len(rest) = Len(q) /\ rest # << >>
        /\ rest[1].frame = f /\ rest[1].offset = o + accepted
        /\ \A i \in 2 .. Len(q) : rest[i] = q[i]
    <3>1. q[1] \in Entries(Frames) /\ 1 \in DOMAIN q
      BY <1>3
    <3>2. rest[1] = [q[1] EXCEPT !.offset = @ + accepted]
      BY <2>2, <3>1
    <3>3. rest[1].frame = f /\ rest[1].offset = o + accepted
      BY <3>1, <3>2 DEF Entries
    <3>4. DOMAIN rest = DOMAIN q /\ \A i \in 2 .. Len(q) : rest[i] = q[i]
      BY <1>3, <2>2
    <3>5. rest \in Seq(Entries(Frames))
      BY FlushTypes
    <3>6. Len(rest) = Len(q)
      BY <1>3, <3>4, <3>5
    <3> QED
      BY <1>3, <3>3, <3>4, <3>5, <3>6
  <2>4. Ordered(rest)
    <3>1. \A i \in 1 .. Len(q) : rest[i].frame = q[i].frame
      BY <1>3, <2>3
    <3> QED
      BY <1>3, <2>3, <3>1 DEF Ordered
  <2>5. Follows(v, rest)
    <3>1. CASE accepted > 0
      BY <1>1, <1>4, <2>3, <3>1 DEF Follows
    <3>2. CASE accepted = 0
      <4>1. rest[1].offset = o
        BY <1>1, <2>3, <3>2
      <4> QED
        BY <1>5, <2>3, <3>2, <4>1 DEF Follows
    <3> QED
      BY <1>1, <3>1, <3>2
  <2>6. rest[Len(rest)].frame = q[Len(q)].frame
    BY <1>3, <2>3
  <2> QED
    BY <1>7, <2>3, <2>4, <2>5, <2>6
<1> QED
  BY <1>8, <1>9

\* A frame is put behind those already there.
LEMMA EnqueueFollows ==
  ASSUME NEW w \in WireSeq, NEW q \in Seq(Entries(Frames)), NEW frame \in Frames,
         Ordered(q), Follows(w, q), q = << >> => Ends(w),
         q # << >> => q[Len(q)].frame < frame, w # << >> => w[Len(w)][1] < frame
  PROVE  /\ Ordered(Enqueue(q, frame)) /\ Follows(w, Enqueue(q, frame))
         /\ Enqueue(q, frame)[Len(Enqueue(q, frame))].frame = frame
<1> DEFINE entry == [frame |-> frame, offset |-> 0]
           r == Append(q, entry)
<1>1. entry \in Entries(Frames) /\ entry.frame = frame /\ entry.offset = 0
  BY FrameBytesAssumption DEF Entries
<1> HIDE DEF entry
<1>2. /\ Len(q) \in Nat /\ Len(r) = Len(q) + 1 /\ r[Len(q) + 1] = entry
      /\ \A i \in 1 .. Len(q) : r[i] = q[i]
      /\ \A i \in 1 .. Len(q) : q[i] \in Entries(Frames)
  BY <1>1
<1>3. r # << >>
  BY <1>1
<1> HIDE DEF r
<1>4. \A i \in 1 .. Len(q) : q[i].frame < frame
  <2>1. ASSUME NEW i \in 1 .. Len(q)
        PROVE  q[i].frame \in Nat /\ q[i].frame <= q[Len(q)].frame
    <3>1. Len(q) \in 1 .. Len(q) /\ (i < Len(q) \/ i = Len(q))
      BY <1>2
    <3>2. q[i].frame \in Nat /\ q[Len(q)].frame \in Nat
      <4>1. \A e \in Entries(Frames) : e.frame \in Nat
        BY Bounds DEF Entries, Frames
      <4> QED
        BY <1>2, <3>1, <4>1
    <3>3. i < Len(q) => q[i].frame < q[Len(q)].frame
      BY <3>1 DEF Ordered
    <3> QED
      BY <3>1, <3>2, <3>3
  <2>2. frame \in Nat
    BY Bounds DEF Frames
  <2> QED
    BY <1>2, <2>1, <2>2
<1>5. Ordered(r)
  <2>1. ASSUME NEW i \in 1 .. Len(r), NEW j \in 1 .. Len(r), i < j PROVE r[i].frame < r[j].frame
    <3>1. CASE j <= Len(q)
      BY <1>2, <2>1, <3>1 DEF Ordered
    <3>2. CASE j = Len(q) + 1
      BY <1>1, <1>2, <1>4, <2>1, <3>2
    <3> QED
      BY <1>2, <3>1, <3>2
  <2>2. ASSUME NEW i \in 2 .. Len(r) PROVE r[i].offset = 0
    BY <1>1, <1>2 DEF Ordered
  <2> QED
    BY <2>1, <2>2 DEF Ordered
<1>6. Follows(w, r)
  <2>1. CASE q = << >>
    <3>1. r[1] = entry
      BY <1>2, <2>1
    <3> QED
      BY <1>1, <2>1, <3>1 DEF Follows, Ends
  <2>2. CASE q # << >>
    <3>1. r[1] = q[1]
      BY <1>2, <2>2
    <3> QED
      BY <2>2, <3>1 DEF Follows
  <2> QED
    BY <2>1, <2>2
<1> QED
  BY <1>1, <1>2, <1>5, <1>6 DEF r, entry, Enqueue

-----------------------------------------------------------------------------
(* The frames in hand.                                                     *)

LEMMA PassedType == TypeOK => Passed \in Int /\ received \in Nat /\ Len(ntrip.todo) \in Nat
<1> SUFFICES ASSUME TypeOK PROVE Passed \in Int /\ received \in Nat /\ Len(ntrip.todo) \in Nat
  OBVIOUS
<1>1. received \in Nat /\ Len(ntrip.todo) \in Nat
  BY Bounds DEF TypeOK, Ntrips
<1> QED
  BY <1>1 DEF Passed

LEMMA ListKept ==
  ASSUME TypeOK, Numbered, received' = received, ntrip'.todo = ntrip.todo,
         ntrip'.forwards <=> ntrip.forwards,
         ntrip'.pc # "forward" => ntrip.pc # "forward" \/ ntrip.todo = << >>,
         ntrip'.pc = "flushLock" => ~ntrip.forwards,
         ntrip'.pc # "enqueue"
  PROVE  Numbered' /\ Passed <= Passed'
<1>1. Numbered'
  BY DEF Numbered
<1>2. Passed <= Passed'
  BY PassedType DEF Passed
<1> QED
  BY <1>1, <1>2

LEMMA ListDrops ==
  ASSUME TypeOK, Numbered, received' = received, ntrip.todo # << >>,
         ntrip'.todo = Tail(ntrip.todo), ntrip'.pc = "forward", ~ntrip'.forwards
  PROVE  Numbered' /\ Passed <= Passed'
<1>1. /\ Len(ntrip'.todo) = Len(ntrip.todo) - 1
      /\ \A i \in 1 .. Len(ntrip'.todo) : ntrip'.todo[i] = ntrip.todo[i + 1]
  BY HeadTailProperties DEF TypeOK, Ntrips
<1>2. received \in Nat /\ Len(ntrip.todo) \in Nat
  BY PassedType
<1>3. ASSUME NEW i \in 1 .. Len(ntrip'.todo)
      PROVE  ntrip'.todo[i] = received' - Len(ntrip'.todo) + i
  <2>1. i + 1 \in 1 .. Len(ntrip.todo)
    BY <1>1, <1>2
  <2>2. ntrip.todo[i + 1] = received - Len(ntrip.todo) + (i + 1)
    BY <2>1 DEF Numbered
  <2> DEFINE n == Len(ntrip.todo)
             m == Len(ntrip'.todo)
  <2>3. n \in Nat /\ m = n - 1 /\ received' = received /\ i \in Nat
    BY <1>1, <1>2
  <2> HIDE DEF n, m
  <2>4. received - n + (i + 1) = received' - m + i
    BY <1>2, <2>3
  <2> QED
    BY <1>1, <2>2, <2>4 DEF n, m
<1>4. Passed <= Passed'
  <2> DEFINE n == Len(ntrip.todo)
             m == Len(ntrip'.todo)
  <2>1. Passed <= received - n + 1
    BY <1>2 DEF Passed
  <2>2. n \in Nat /\ m = n - 1 /\ received' = received
    BY <1>1, <1>2
  <2>3. Passed' = received' - m + 0
    BY DEF Passed
  <2> HIDE DEF n, m
  <2>4. received' - m + 0 = received - n + 1
    BY <1>2, <2>2
  <2> QED
    BY <2>1, <2>3, <2>4
<1> QED
  BY <1>3, <1>4 DEF Numbered

\* The end of FlushPendingRtcm, of ForwardRtcm and of the publication.
LEMMA ListLeft ==
  ASSUME IInv, Numbered, received' = received, NEW label \in {"read", "forward"},
         NtripLeavesLink(label), ntrip.pc # "forward",
         IF ntrip.forwards THEN label = "forward" ELSE label = "read"
  PROVE  Numbered' /\ Passed <= Passed'
<1>1. ntrip'.pc = label /\ ~ntrip'.forwards
  BY LeavesLink DEF IInv, TypeOK
<1>2. ntrip'.todo = IF ntrip.forwards THEN Tail(ntrip.todo) ELSE ntrip.todo
  BY DEF NtripLeavesLink, IInv, TypeOK, Ntrips
<1>3. CASE ntrip.forwards
  <2>1. ntrip.todo # << >>
    BY <1>3 DEF IInv, Sharing
  <2> QED
    BY <1>1, <1>2, <1>3, <2>1, ListDrops DEF IInv
<1>4. CASE ~ntrip.forwards
  BY <1>1, <1>2, <1>4, ListKept DEF IInv
<1> QED
  BY <1>3, <1>4

LEMMA NtripNumbers ==
  ASSUME IInv, Numbered, NtripSteps \/ NtripWriteAccepted \/ NtripWriteFails
  PROVE  Numbered' /\ Passed <= Passed'
<1> USE DEF IInv, TypeOK, NtripGoto
<1>1. CASE \/ NtripChecksStop \/ NtripConnects \/ NtripWaits \/ NtripPublishesGga \/ NtripEnds
           \/ NtripEndsTurn
  <2>1. /\ received' = received /\ ntrip'.todo = ntrip.todo /\ ntrip'.forwards = ntrip.forwards
        /\ ntrip.pc # "forward" \/ ntrip.todo = << >>
        /\ ntrip'.pc \notin {"flushLock", "enqueue"}
    BY ZenonT(60), <1>1 DEF NtripChecksStop, NtripConnects, NtripWaits, NtripPublishesGga,
       NtripEnds,
                NtripEndsTurn, Ntrips
  <2> QED
    BY <2>1, ListKept
<1>2. CASE NtripInjectsGga
  <2>1. /\ received' = received /\ ntrip'.todo = ntrip.todo /\ ntrip'.forwards = ntrip.forwards
        /\ ntrip.pc # "forward" /\ ntrip'.pc \notin {"flushLock", "enqueue"}
    BY ZenonT(60), <1>2 DEF NtripInjectsGga, Ntrips
  <2> QED
    BY <2>1, ListKept
<1>3. CASE NtripReads
  <2>1. ntrip.pc = "read" /\ ~ntrip.forwards /\ ntrip.todo = << >>
    BY <1>3 DEF NtripReads, Sharing, Forwarding, Writing, Numbered
  <2>2. CASE received' = received /\ ntrip'.todo = ntrip.todo /\ ~ntrip'.forwards
             /\ ntrip'.pc = "forward"
    BY <2>1, <2>2, ListKept
  <2>3. ASSUME NEW count \in 0 .. MaxFrames - received, received' = received + count,
               ntrip'.todo = [i \in 1 .. count |-> received + i],
               ntrip'.pc = "forward", ~ntrip'.forwards
        PROVE  Numbered' /\ Passed <= Passed'
    <3>1. count \in Nat /\ received \in Nat
      BY Bounds
    <3>2. Len(ntrip'.todo) = count /\ \A i \in 1 .. count : ntrip'.todo[i] = received + i
      BY <2>3, <3>1
    <3>3. Len(ntrip.todo) = 0
      BY <2>1
    <3>4. Numbered'
      BY <2>3, <3>1, <3>2 DEF Numbered
    <3>5. Passed <= Passed'
      BY <2>1, <2>3, <3>1, <3>2, <3>3 DEF Passed
    <3> QED
      BY <3>4, <3>5
  <2>4. \/ /\ received' = received /\ ntrip'.todo = ntrip.todo
           /\ ~ntrip'.forwards /\ ntrip'.pc = "forward"
        \/ \E count \in 0 .. MaxFrames - received :
             /\ received' = received + count
             /\ ntrip'.todo = [i \in 1 .. count |-> received + i]
             /\ ntrip'.pc = "forward" /\ ~ntrip'.forwards
    BY ZenonT(60), <1>3, <2>1 DEF NtripReads, Ntrips
  <2> QED
    BY <2>2, <2>3, <2>4
<1>4. CASE TakesActiveLink
  <2>1. ~ntrip.forwards /\ received' = received /\ ntrip.pc # "enqueue"
    BY <1>4 DEF TakesActiveLink, Sharing, Forwarding, Writing
  <2>2. CASE ntrip.pc = "flush"
    <3>1. /\ ntrip'.todo = ntrip.todo /\ ~ntrip'.forwards /\ ntrip'.pc \in {"read", "flushLock"}
      BY <1>4, <2>1, <2>2 DEF TakesActiveLink, Ntrips
    <3> QED
      BY <2>1, <2>2, <3>1, ListKept
  <2>3. CASE ntrip.pc = "forward" /\ active = NoLink
    <3>1. /\ ntrip.todo # << >> /\ ntrip'.todo = Tail(ntrip.todo)
          /\ ~ntrip'.forwards /\ ntrip'.pc = "forward"
      BY <1>4, <2>3 DEF TakesActiveLink, Ntrips
    <3> QED
      BY <2>1, <3>1, ListDrops
  <2>4. CASE ntrip.pc = "forward" /\ active # NoLink
    <3>1. /\ ntrip'.todo = ntrip.todo /\ ntrip'.forwards /\ ntrip'.pc = "enqueue"
      BY <1>4, <2>4 DEF TakesActiveLink, Ntrips
    <3>2. Numbered'
      BY <2>1, <3>1 DEF Numbered
    <3>3. Passed <= Passed'
      BY <2>1, <3>1, PassedType DEF Passed
    <3> QED
      BY <3>2, <3>3
  <2> QED
    BY <1>4, <2>2, <2>3, <2>4 DEF TakesActiveLink
<1>5. CASE FlushPendingRtcm
  <2>1. ntrip.pc = "flushLock" /\ received' = received /\ ~ntrip.forwards
    BY <1>5 DEF FlushPendingRtcm, Numbered
  <2>2. CASE NtripLeavesLink("read")
    BY <2>1, <2>2, ListLeft
  <2>3. CASE ntrip' = [ntrip EXCEPT !.pc = "write"]
    <3>1. ntrip'.todo = ntrip.todo /\ ntrip'.forwards = ntrip.forwards /\ ntrip'.pc = "write"
      BY <2>3 DEF Ntrips
    <3> QED
      BY <2>1, <3>1, ListKept
  <2> QED
    BY <1>5, <2>2, <2>3 DEF FlushPendingRtcm
<1>6. CASE ForwardRtcm
  <2>1. ntrip.pc = "enqueue" /\ received' = received /\ ntrip.forwards
    BY <1>6 DEF ForwardRtcm, Sharing
  <2>2. CASE NtripLeavesLink("forward")
    BY <2>1, <2>2, ListLeft
  <2>3. CASE \/ ntrip' = [ntrip EXCEPT !.pc = "write"]
             \/ ntrip' = [ntrip EXCEPT !.depth = Len(queue[ntrip.link]), !.pc = "publish"]
    <3>1. ntrip'.todo = ntrip.todo /\ ntrip'.forwards = ntrip.forwards
          /\ ntrip'.pc \in {"write", "publish"}
      BY <2>3 DEF Ntrips
    <3> QED
      BY <2>1, <3>1, ListKept
  <2> QED
    BY <1>6, <2>2, <2>3 DEF ForwardRtcm
<1>7. CASE PublishesForwarding
  <2>1. ntrip.pc = "publish" /\ received' = received
        /\ NtripLeavesLink(IF ntrip.forwards THEN "forward" ELSE "read")
    BY <1>7 DEF PublishesForwarding
  <2> QED
    BY <2>1, ListLeft
<1>8. CASE NtripWrites \/ NtripWriteFails \/ NtripWriteCancelled \/ NtripCloses
  <2>1. /\ ntrip.pc \in Writing /\ ntrip'.pc \in {"writing", "closeFailed", "closing", "publish"}
        /\ received' = received /\ ntrip'.todo = ntrip.todo /\ ntrip'.forwards = ntrip.forwards
    BY <1>8 DEF NtripWrites, NtripWriteFails, NtripWriteCancelled, NtripCloses, WriterFails,
                Writing, Ntrips
  <2> QED
    BY <2>1, ListKept DEF Writing
<1>9. CASE NtripWriteAccepted
  <2>1. /\ ntrip.pc = "writing" /\ ntrip'.pc \in {"write", "publish"}
        /\ received' = received /\ ntrip'.todo = ntrip.todo /\ ntrip'.forwards = ntrip.forwards
    BY <1>9 DEF NtripWriteAccepted, Ntrips
  <2> QED
    BY <2>1, ListKept
<1> QED
  BY <1>1, <1>2, <1>3, <1>4, <1>5, <1>6, <1>7, <1>8, <1>9 DEF NtripSteps

-----------------------------------------------------------------------------
(* No frame is torn.                                                       *)

\* A step that puts no byte on a wire and no frame in a queue.
LEMMA UnbrokenKept ==
  ASSUME IInv, IInv', NEW l \in Links, wire \in [Links -> WireSeq], Unbroken(l),
         wire'[l] = wire[l], opened <= opened', Passed <= Passed',
         queue'[l] = queue[l] \/ queue'[l] = << >>,
         queue'[l] = << >> /\ port'[l] = "open" =>
           \/ wire[l] = << >>
           \/ l = ntrip'.link /\ ntrip'.pc = "closeFailed"
           \/ /\ queue[l] = << >> /\ port[l] = "open"
              /\ ~(l = ntrip.link /\ ntrip.pc = "closeFailed")
  PROVE  Unbroken(l)'
<1>1. Passed \in Int /\ Passed' \in Int /\ opened \in Int /\ opened' \in Int
  <2>1. Passed \in Int
    BY PassedType DEF IInv
  <2>2. received' \in Nat /\ Len(ntrip'.todo) \in Nat
    BY Bounds DEF IInv, TypeOK, Ntrips
  <2>3. Passed' \in Int
    BY <2>2 DEF Passed
  <2>4. opened \in Int /\ opened' \in Int
    BY Bounds DEF IInv, TypeOK
  <2> QED
    BY <2>1, <2>3, <2>4
<1>2. l > opened' => wire'[l] = << >>
  <2>1. l \in Int
    BY DEF Links
  <2> QED
    BY <1>1, <2>1 DEF Unbroken
<1>3. WholeFrames(wire'[l])
  BY DEF Unbroken
<1>4. Ordered(queue'[l]) /\ Follows(wire'[l], queue'[l])
  <2>1. CASE queue'[l] = queue[l]
    BY <2>1 DEF Unbroken
  <2>2. CASE queue'[l] = << >>
    BY <2>2 DEF Ordered, Follows
  <2> QED
    BY <2>1, <2>2
<1>5. queue'[l] # << >> => queue'[l][Len(queue'[l])].frame <= Passed'
  <2>1. ASSUME queue'[l] # << >> PROVE queue'[l][Len(queue'[l])].frame <= Passed'
    <3>1. queue'[l] = queue[l] /\ queue[l] \in Seq(Entries(Frames)) /\ queue[l] # << >>
      BY <2>1 DEF IInv, TypeOK
    <3>2. Len(queue[l]) \in 1 .. Len(queue[l])
      BY <3>1
    <3>3. queue[l][Len(queue[l])] \in Entries(Frames)
      BY <3>1, <3>2
    <3>4. queue[l][Len(queue[l])].frame \in Int
      BY <3>3, Bounds DEF Entries, Frames
    <3> QED
      BY <1>1, <3>1, <3>4 DEF Unbroken
  <2> QED
    BY <2>1
<1>6. wire'[l] # << >> => wire'[l][Len(wire'[l])][1] <= Passed'
  <2>1. ASSUME wire[l] # << >> PROVE wire[l][Len(wire[l])][1] \in Int
    <3>1. Len(wire[l]) \in 1 .. Len(wire[l]) /\ wire[l] \in WireSeq
      BY <2>1 DEF WireSeq
    <3>2. wire[l][Len(wire[l])] \in Frames \X (1 .. FrameBytes)
      BY <3>1 DEF WireSeq
    <3> QED
      BY <3>2, Bounds DEF Frames
  <2> QED
    BY <1>1, <2>1 DEF Unbroken
<1>7. queue'[l] = << >> /\ port'[l] = "open" =>
        Ends(wire'[l]) \/ (l = ntrip'.link /\ ntrip'.pc = "closeFailed")
  BY DEF Unbroken, Ends
<1> QED
  BY <1>2, <1>3, <1>4, <1>5, <1>6, <1>7 DEF Unbroken

LEMMA ListStays ==
  ASSUME TypeOK, Numbered, UNCHANGED <<ntrip, received>>
  PROVE  Numbered' /\ Passed <= Passed'
<1>1. Numbered'
  BY DEF Numbered
<1>2. Passed \in Int /\ Passed' = Passed
  BY PassedType DEF Passed
<1> QED
  BY <1>1, <1>2

\* The owner and the receiver worker.
LEMMA OthersKeepFrames ==
  ASSUME FramesInv, IInv', wire' = wire, Passed <= Passed', opened <= opened',
         UNCHANGED ntrip \/ ntrip.pc # "closeFailed",
         \A l \in Links :
           /\ queue'[l] = queue[l] \/ (queue'[l] = << >> /\ port'[l] # "open")
           /\ port'[l] = "open" => port[l] = "open" \/ l > opened
  PROVE  \A l \in Links : Unbroken(l)'
<1> SUFFICES ASSUME NEW l \in Links PROVE Unbroken(l)'
  OBVIOUS
<1>1. wire \in [Links -> WireSeq] /\ Unbroken(l) /\ IInv
  BY DEF FramesInv
<1>2. CASE wire[l] = << >>
  BY <1>1, <1>2, UnbrokenKept
<1>3. CASE port'[l] # "open"
  BY <1>1, <1>3, UnbrokenKept
<1>4. CASE port[l] = "open" /\ queue'[l] = queue[l]
  BY <1>1, <1>4, UnbrokenKept
<1> QED
  BY <1>1, <1>2, <1>3, <1>4 DEF Unbroken

LEMMA OwnerKeepsFrames ==
  ASSUME FramesInv, IInv', Start \/ StopRequested \/ OwnerSteps
  PROVE  FramesInv'
<1> USE DEF FramesInv, IInv, TypeOK, OwnerGoto, links
<1>1. wire' = wire /\ received' = received /\ opened' = opened
  BY DEF Start, StopRequested, OwnerSteps, StopTakesLink, StopNotifies, StopCloses, CloseBegins,
         CloseReturns, StopAbandons, Abandon, StopJoins
<1>2. Numbered' /\ Passed <= Passed' /\ (UNCHANGED ntrip \/ ntrip.pc # "closeFailed")
  <2>1. CASE ntrip' = ntrip
    BY <1>1, <2>1, ListStays
  <2>2. CASE Start
    <3>1. ntrip.todo = << >> /\ ~ntrip.forwards /\ ntrip.pc # "closeFailed"
      BY <2>2 DEF Start, Joined, Quiet, Sharing, Forwarding, Writing, Numbered
    <3>2. ntrip'.todo = << >> /\ ~ntrip'.forwards /\ ntrip'.pc = "check"
      BY <2>2 DEF Start, IdleNtrip
    <3> QED
      BY <1>1, <3>1, <3>2, PassedType DEF Numbered, Passed
  <2> QED
    BY <2>1, <2>2 DEF StopRequested, OwnerSteps, StopTakesLink, StopNotifies, StopCloses,
                      StopAbandons, StopJoins
<1>3. \A l \in Links :
        /\ queue'[l] = queue[l] \/ (queue'[l] = << >> /\ port'[l] # "open")
        /\ port'[l] = "open" => port[l] = "open"
  <2>1. CASE StopCloses
    BY <2>1 DEF StopCloses, CloseBegins, CloseReturns
  <2>2. CASE StopAbandons
    BY <2>2 DEF StopAbandons, Abandon, Abandoned
  <2>3. CASE UNCHANGED <<queue, port>>
    BY <2>3
  <2> QED
    BY <2>1, <2>2, <2>3 DEF Start, StopRequested, OwnerSteps, StopTakesLink, StopNotifies,
                            StopJoins
<1>4. owner'.pc \in {"closing", "abandon"} => port'[owner'.link] # "open"
  <2>1. CASE StopCloses
    <3>1. owner.link \in Links /\ owner'.link = owner.link
      BY <2>1 DEF StopCloses, Joined, Owners
    <3> QED
      BY <2>1, <3>1 DEF StopCloses, CloseBegins, CloseReturns
  <2>2. CASE Start \/ StopRequested \/ StopTakesLink \/ StopNotifies \/ StopAbandons \/ StopJoins
    <3>1. owner'.pc \notin {"closing", "abandon"}
      BY <2>2 DEF Start, StopRequested, StopTakesLink, StopNotifies, StopAbandons, StopJoins,
                  Owners
    <3> QED
      BY <3>1
  <2> QED
    BY <2>1, <2>2 DEF OwnerSteps
<1>5. opened <= opened'
  BY <1>1, Bounds
<1>6. \A l \in Links : Unbroken(l)'
  BY <1>1, <1>2, <1>3, <1>5, OthersKeepFrames
<1> QED
  BY <1>1, <1>2, <1>4, <1>6

\* Whoever else acts: the port that Stop closes is not opened again.
LEMMA StopPortStaysClosed ==
  ASSUME FramesInv, owner' = owner,
         \A l \in Links : port'[l] = "open" => port[l] = "open" \/ l > opened
  PROVE  owner'.pc \in {"closing", "abandon"} => port'[owner'.link] # "open"
<1> SUFFICES ASSUME owner.pc \in {"closing", "abandon"} PROVE port'[owner.link] # "open"
  OBVIOUS
<1>1. owner.link \in Links /\ ~(owner.link > opened)
  BY Bounds DEF FramesInv, IInv, TypeOK, Joined, Owners, Sharing, Shared, Links
<1> QED
  BY <1>1 DEF FramesInv

LEMMA WorkerKeepsFrames ==
  ASSUME FramesInv, IInv', WorkerSteps \/ RunReadReturns
  PROVE  FramesInv'
<1> USE DEF FramesInv, IInv, TypeOK, WorkerGoto, WorkerFrame, links
<1>1. wire' = wire /\ received' = received /\ ntrip' = ntrip /\ owner' = owner
  BY DEF WorkerSteps, RunChecksStop, RunOpenFails, RunOpens, RunPublishes, RunActivates,
         RunReads, RunReadCancelled, Update, RunWaits, RunCloses, CloseBegins, CloseReturns,
         RunRetires, RunAbandons, Abandon, RunLeavesSession, RunReconnects, RunEnds,
         RunReadReturns
<1>2. Numbered' /\ Passed <= Passed'
  BY <1>1, ListStays
<1>3. /\ opened <= opened'
      /\ \A l \in Links :
           /\ queue'[l] = queue[l] \/ (queue'[l] = << >> /\ port'[l] # "open")
           /\ port'[l] = "open" => port[l] = "open" \/ l > opened
  <2>1. CASE RunOpens
    BY <2>1, Bounds DEF RunOpens, Links
  <2>2. CASE RunCloses
    BY <2>2, Bounds DEF RunCloses, CloseBegins, CloseReturns
  <2>3. CASE RunAbandons
    <3>1. /\ worker.pc = "abandon" /\ UNCHANGED <<port, opened>>
          /\ queue' = [queue EXCEPT ![worker.link] = << >>]
      BY <2>3 DEF RunAbandons, Abandon, Abandoned
    <3>2. \A l \in Links : port[l] # "open"
      BY <3>1 DEF InUse, PortInUse, Unshared, Live
    <3> QED
      BY <3>1, <3>2, Bounds
  <2>4. CASE UNCHANGED <<queue, port, opened>>
    BY <2>4, Bounds
  <2> QED
    BY <2>1, <2>2, <2>3, <2>4
       DEF WorkerSteps, RunChecksStop, RunOpenFails, RunPublishes, RunActivates, RunReads,
           RunReadCancelled, Update, RunWaits, RunRetires, RunLeavesSession, RunReconnects,
           RunEnds, RunReadReturns
<1>4. owner'.pc \in {"closing", "abandon"} => port'[owner'.link] # "open"
  BY <1>1, <1>3, StopPortStaysClosed
<1>5. \A l \in Links : Unbroken(l)'
  BY <1>1, <1>2, <1>3, OthersKeepFrames
<1> QED
  BY <1>1, <1>2, <1>4, <1>5

\* The NTRIP worker outside the calls that put bytes on a wire or a frame in
\* a queue.
Enqueues == ForwardRtcm /\ queue' # queue

LEMMA NtripQuietly ==
  ASSUME IInv, NtripSteps, ~Enqueues
  PROVE  /\ UNCHANGED <<wire, opened, owner>>
         /\ \A l \in Links : port'[l] = "open" => port[l] = "open"
         /\ \/ UNCHANGED <<queue, port>> /\ ntrip.pc # "closeFailed"
            \/ /\ ntrip'.link = ntrip.link /\ ntrip'.pc = "closeFailed" /\ port' = port
               /\ ntrip.pc # "closeFailed" /\ ntrip.link \in Links
               /\ queue' = [queue EXCEPT ![ntrip.link] = << >>]
            \/ /\ ntrip.link \in Links /\ queue' = queue /\ port'[ntrip.link] # "open"
               /\ \A l \in Links : l # ntrip.link => port'[l] = port[l]
<1> USE DEF IInv, TypeOK, NtripGoto, NtripFrame, links
<1>1. CASE NtripCloses
  <2>1. ntrip.link \in Links
    BY <1>1 DEF NtripCloses, Sharing, Forwarding, Writing, Ntrips
  <2> QED
    BY <1>1, <2>1 DEF NtripCloses, CloseBegins
<1>2. CASE (NtripWrites \/ NtripWriteCancelled) /\ WriterFails(ntrip.link)
  <2>1. ntrip.link \in Links
    BY <1>2 DEF NtripWrites, NtripWriteCancelled, Sharing, Forwarding, Writing, Ntrips
  <2> QED
    BY <1>2, <2>1 DEF NtripWrites, NtripWriteCancelled, WriterFails, Abandoned, Ntrips
<1>3. CASE FlushPendingRtcm \/ (NtripWrites /\ queue' = queue) \/ (ForwardRtcm /\ queue' = queue)
  BY <1>3 DEF FlushPendingRtcm, NtripWrites, ForwardRtcm
<1>4. CASE NtripOuterSteps \/ TakesActiveLink \/ PublishesForwarding
  BY <1>4 DEF NtripOuterSteps, NtripChecksStop, NtripConnects, NtripWaits, NtripInjectsGga,
              NtripPublishesGga, NtripReads, NtripEndsTurn, NtripEnds, TakesActiveLink,
              PublishesForwarding
<1>5. NtripWrites => WriterFails(ntrip.link) \/ queue' = queue
  BY DEF NtripWrites
<1>6. NtripWriteCancelled => WriterFails(ntrip.link)
  BY DEF NtripWriteCancelled
<1> QED
  BY <1>1, <1>2, <1>3, <1>4, <1>5, <1>6 DEF NtripSteps, NtripOuterSteps, Enqueues

LEMMA NtripQuietlyKeepsFrames ==
  ASSUME FramesInv, IInv', NtripSteps, ~Enqueues
  PROVE  FramesInv'
<1>1. IInv /\ wire \in [Links -> WireSeq] /\ Numbered
  BY DEF FramesInv
<1>2. Numbered' /\ Passed <= Passed'
  BY <1>1, NtripNumbers
<1>3. /\ UNCHANGED <<wire, opened, owner>>
      /\ \A l \in Links : port'[l] = "open" => port[l] = "open"
      /\ \/ UNCHANGED <<queue, port>> /\ ntrip.pc # "closeFailed"
         \/ /\ ntrip'.link = ntrip.link /\ ntrip'.pc = "closeFailed" /\ port' = port
            /\ ntrip.pc # "closeFailed" /\ ntrip.link \in Links
            /\ queue' = [queue EXCEPT ![ntrip.link] = << >>]
         \/ /\ ntrip.link \in Links /\ queue' = queue /\ port'[ntrip.link] # "open"
            /\ \A l \in Links : l # ntrip.link => port'[l] = port[l]
  BY <1>1, NtripQuietly
<1>4. ASSUME NEW l \in Links PROVE Unbroken(l)'
  <2>1. wire'[l] = wire[l] /\ opened <= opened' /\ Unbroken(l)
    BY <1>1, <1>3, Bounds DEF FramesInv, IInv, TypeOK
  <2>2. queue'[l] = queue[l] \/ queue'[l] = << >>
    BY <1>1, <1>3 DEF IInv, TypeOK
  <2>3. queue'[l] = << >> /\ port'[l] = "open" =>
           \/ wire[l] = << >>
           \/ l = ntrip'.link /\ ntrip'.pc = "closeFailed"
           \/ /\ queue[l] = << >> /\ port[l] = "open"
              /\ ~(l = ntrip.link /\ ntrip.pc = "closeFailed")
    BY <1>1, <1>3 DEF IInv, TypeOK
  <2> QED
    BY <1>1, <1>2, <2>1, <2>2, <2>3, UnbrokenKept
<1>5. owner'.pc \in {"closing", "abandon"} => port'[owner'.link] # "open"
  BY <1>3, StopPortStaysClosed
<1> QED
  BY <1>1, <1>2, <1>3, <1>4, <1>5 DEF FramesInv

\* ForwardRtcm queues the frame that it takes from the list.
LEMMA EnqueueKeepsFrames ==
  ASSUME FramesInv, IInv', Enqueues
  PROVE  FramesInv'
<1> USE DEF Enqueues
<1>1. IInv /\ wire \in [Links -> WireSeq] /\ Numbered /\ \A k \in Links : Unbroken(k)
  BY DEF FramesInv
<1>2. Numbered' /\ Passed <= Passed'
  BY <1>1, NtripNumbers DEF NtripSteps
<1> DEFINE link == ntrip.link
           frame == Head(ntrip.todo)
<1>3. /\ ntrip.pc = "enqueue" /\ ntrip.forwards /\ ntrip.todo # << >> /\ link \in Links
      /\ port[link] = "open"
      /\ queue' = [queue EXCEPT ![link] = Enqueue(@, frame)]
      /\ ntrip'.pc = "write" /\ ntrip'.forwards /\ ntrip'.todo = ntrip.todo
      /\ UNCHANGED <<wire, port, opened, owner, received>>
  BY SMTT(30), <1>1 DEF ForwardRtcm, NtripGoto, NtripFrame, IInv, TypeOK, Sharing, Forwarding,
     Ntrips
<1>4. frame \in Frames /\ frame = Passed + 1 /\ Passed' = Passed + 1 /\ Passed \in Int
  <2>1. frame \in Frames /\ frame = ntrip.todo[1] /\ 1 \in 1 .. Len(ntrip.todo)
    BY SMTT(30), <1>1, <1>3 DEF IInv, TypeOK, Ntrips
  <2>2. frame = received - Len(ntrip.todo) + 1
    BY <1>1, <2>1 DEF Numbered
  <2>3. received \in Nat /\ Len(ntrip.todo) \in Nat
    BY <1>1, PassedType DEF IInv
  <2>4. Passed = received - Len(ntrip.todo) + 0
    BY <1>3 DEF Passed
  <2>5. Passed' = received - Len(ntrip.todo) + 1
    BY <1>3 DEF Passed
  <2> DEFINE n == Len(ntrip.todo)
  <2>6. frame = received - n + 1 /\ Passed = received - n + 0 /\ Passed' = received - n + 1
    BY <2>2, <2>4, <2>5
  <2>7. received \in Int /\ n \in Int
    BY <2>3
  <2> HIDE DEF frame, n
  <2>8. frame = Passed + 1 /\ Passed' = Passed + 1 /\ Passed \in Int
    BY <2>6, <2>7
  <2> QED
    BY <2>1, <2>8
<1> HIDE DEF frame
<1>5. ASSUME NEW l \in Links, l = link PROVE Unbroken(l)'
  <2> DEFINE w == wire[link]
             q == queue[link]
  <2>1. w \in WireSeq /\ q \in Seq(Entries(Frames)) /\ Unbroken(link)
    BY <1>1, <1>3 DEF IInv, TypeOK
  <2>2. Ordered(q) /\ Follows(w, q) /\ (q = << >> => Ends(w))
    BY <1>3, <2>1 DEF Unbroken
  <2>3. q # << >> => q[Len(q)].frame < frame
    <3>1. ASSUME q # << >> PROVE q[Len(q)].frame \in Int
      <4>1. Len(q) \in 1 .. Len(q)
        BY <2>1, <3>1
      <4>2. q[Len(q)] \in Entries(Frames)
        BY <2>1, <4>1
      <4> QED
        BY <4>2, Bounds DEF Entries, Frames
    <3> QED
      BY <1>4, <2>1, <3>1 DEF Unbroken
  <2>4. w # << >> => w[Len(w)][1] < frame
    <3>1. ASSUME w # << >> PROVE w[Len(w)][1] \in Int
      <4>1. Len(w) \in 1 .. Len(w)
        BY <2>1, <3>1 DEF WireSeq
      <4>2. w[Len(w)] \in Frames \X (1 .. FrameBytes)
        BY <2>1, <4>1 DEF WireSeq
      <4> QED
        BY <4>2, Bounds DEF Frames
    <3> QED
      BY <1>4, <2>1, <3>1 DEF Unbroken
  <2>5. /\ queue'[l] = Enqueue(q, frame) /\ wire'[l] = w /\ Enqueue(q, frame) # << >>
        /\ opened' = opened
    <3>1. link \in DOMAIN queue
      BY <1>1, <1>3 DEF IInv, TypeOK
    <3>2. Enqueue(q, frame) # << >>
      BY <1>4, <2>1, EnqueueTypes
    <3>3. queue'[link] = Enqueue(q, frame)
      BY <1>3, <3>1
    <3> QED
      BY <1>3, <1>5, <3>2, <3>3
  <2>6. /\ Ordered(Enqueue(q, frame)) /\ Follows(w, Enqueue(q, frame))
        /\ Enqueue(q, frame)[Len(Enqueue(q, frame))].frame = frame
    BY <1>4, <2>1, <2>2, <2>3, <2>4, EnqueueFollows
  <2>7. queue'[l][Len(queue'[l])].frame <= Passed'
    BY <1>4, <2>5, <2>6
  <2>8. w # << >> => w[Len(w)][1] <= Passed'
    <3>1. w # << >> => w[Len(w)][1] <= Passed /\ w[Len(w)][1] \in Int
      <4>1. ASSUME w # << >> PROVE w[Len(w)] \in Frames \X (1 .. FrameBytes)
        <5>1. Len(w) \in 1 .. Len(w)
          BY <2>1, <4>1 DEF WireSeq
        <5> QED
          BY <2>1, <5>1 DEF WireSeq
      <4> QED
        BY <2>1, <4>1, Bounds DEF Unbroken, Frames
    <3> QED
      BY <1>4, <3>1
  <2>9. (l > opened => w = << >>) /\ WholeFrames(w)
    BY <1>5, <2>1 DEF Unbroken
  <2> HIDE DEF w, q
  <2>10. queue'[l] # << >> /\ Ordered(queue'[l]) /\ Follows(wire'[l], queue'[l])
    BY <2>5, <2>6
  <2> QED
    BY <2>5, <2>7, <2>8, <2>9, <2>10 DEF Unbroken
<1>6. ASSUME NEW l \in Links, l # link PROVE Unbroken(l)'
  <2>1. queue'[l] = queue[l] /\ wire'[l] = wire[l] /\ port'[l] = port[l] /\ opened <= opened'
    BY <1>1, <1>3, <1>6, Bounds DEF IInv, TypeOK
  <2> QED
    BY <1>1, <1>2, <1>3, <2>1, UnbrokenKept
<1>7. owner'.pc \in {"closing", "abandon"} => port'[owner'.link] # "open"
  BY <1>3, StopPortStaysClosed
<1> QED
  BY <1>1, <1>2, <1>3, <1>5, <1>6, <1>7 DEF FramesInv

\* A write that the device accepts in whole or in part, or that fails.
LEMMA WriteKeepsFrames ==
  ASSUME FramesInv, IInv', NtripWriteAccepted \/ NtripWriteFails
  PROVE  FramesInv'
<1>1. IInv /\ wire \in [Links -> WireSeq] /\ Numbered /\ \A k \in Links : Unbroken(k)
  BY DEF FramesInv
<1>2. Numbered' /\ Passed <= Passed'
  BY <1>1, NtripNumbers
<1> DEFINE link == ntrip.link
           w == wire[link]
           q == queue[link]
<1>3. /\ ntrip.pc = "writing" /\ link \in Links /\ link <= opened
      /\ UNCHANGED <<port, opened, owner>>
  BY <1>1 DEF NtripWriteAccepted, NtripWriteFails, NtripFrame, IInv, TypeOK, Sharing, Shared,
              Forwarding, Writing, Ntrips, NoLink
<1>4. w \in WireSeq /\ q \in Seq(Entries(Frames)) /\ q # << >>
  BY <1>1, <1>3 DEF IInv, TypeOK, InUse, WriterInUse
<1>5. PICK accepted \in 0 .. Remaining(q) :
        /\ wire' = [wire EXCEPT ![link] = Grown(w, q, accepted)]
        /\ \/ queue' = [queue EXCEPT ![link] = AfterWrite(q, accepted)]
           \/ /\ queue' = [queue EXCEPT ![link] = << >>]
              /\ ntrip'.link = link /\ ntrip'.pc = "closeFailed"
  <2>1. CASE NtripWriteAccepted
    BY <2>1 DEF NtripWriteAccepted, Grown
  <2>2. CASE NtripWriteFails
    <3>1. PICK accepted \in 0 .. Remaining(q) - 1 :
            wire' = [wire EXCEPT ![link] = @ \o Bytes(q, accepted)] /\ WriterFails(link)
      BY <2>2 DEF NtripWriteFails
    <3>2. accepted \in 0 .. Remaining(q)
      BY <1>4, RemainingType
    <3>3. ntrip'.link = link /\ ntrip'.pc = "closeFailed"
      BY <1>1, <3>1 DEF WriterFails, IInv, TypeOK, Ntrips
    <3> QED
      BY <3>1, <3>2, <3>3 DEF WriterFails, Abandoned, Grown
  <2> QED
    BY <2>1, <2>2
<1> DEFINE v == Grown(w, q, accepted)
           rest == AfterWrite(q, accepted)
<1>6. Follows(w, q) /\ WholeFrames(w) /\ Ordered(q) /\ q[Len(q)].frame <= Passed
  BY <1>1, <1>3, <1>4 DEF Unbroken
<1>7. v \in WireSeq /\ WholeFrames(v) /\ rest \in Seq(Entries(Frames))
  BY <1>4, <1>6, WireGrows, FlushTypes
<1>8. /\ Ordered(rest) /\ Follows(v, rest)
      /\ rest = << >> => Ends(v)
      /\ rest # << >> => rest[Len(rest)].frame = q[Len(q)].frame
      /\ v # << >> => v[Len(v)][1] <= q[Len(q)].frame
  BY <1>4, <1>6, <1>7, QueueAdvances
<1>9. q[Len(q)].frame <= Passed' /\ q[Len(q)].frame \in Int /\ Passed' \in Int
  <2>1. Len(q) \in 1 .. Len(q)
    BY <1>4
  <2>2. q[Len(q)] \in Entries(Frames)
    BY <1>4, <2>1
  <2>3. q[Len(q)].frame \in Int
    BY <2>2, Bounds DEF Entries, Frames
  <2>4. received' \in Nat /\ Len(ntrip'.todo) \in Nat
    BY Bounds DEF IInv, TypeOK, Ntrips
  <2>5. Passed' \in Int /\ Passed \in Int
    BY <1>1, <2>4, PassedType DEF Passed, IInv
  <2> QED
    BY <1>2, <1>6, <2>3, <2>5
<1>10. v # << >> => v[Len(v)][1] <= Passed'
  <2>1. ASSUME v # << >> PROVE v[Len(v)][1] \in Int
    <3> HIDE DEF v
    <3>1. Len(v) \in 1 .. Len(v)
      BY <1>7, <2>1 DEF WireSeq
    <3>2. v[Len(v)] \in Frames \X (1 .. FrameBytes)
      BY <1>7, <3>1 DEF WireSeq
    <3> QED
      BY <3>2, Bounds DEF Frames
  <2> HIDE DEF v
  <2> QED
    BY <1>8, <1>9, <2>1
<1>11. wire'[link] = v /\ wire' \in [Links -> WireSeq]
  BY <1>1, <1>3, <1>5, <1>7
<1>12. ASSUME NEW l \in Links, l = link PROVE Unbroken(l)'
  <2>1. ~(l > opened') /\ wire'[l] = v
    BY <1>3, <1>11, <1>12, Bounds DEF IInv, TypeOK, Links
  <2>2. \/ queue'[l] = rest
        \/ queue'[l] = << >> /\ l = ntrip'.link /\ ntrip'.pc = "closeFailed"
    BY <1>1, <1>3, <1>5, <1>12 DEF IInv, TypeOK
  <2>3. rest # << >> => rest[Len(rest)].frame <= Passed'
    BY <1>8, <1>9
  <2> HIDE DEF v, rest
  <2>4. CASE queue'[l] = rest
    BY <1>7, <1>8, <1>10, <2>1, <2>3, <2>4 DEF Unbroken
  <2>5. CASE queue'[l] = << >> /\ l = ntrip'.link /\ ntrip'.pc = "closeFailed"
    <3>1. Ordered(<< >>) /\ Follows(v, << >>)
      BY DEF Ordered, Follows
    <3> QED
      BY <1>7, <1>10, <2>1, <2>5, <3>1 DEF Unbroken
  <2> QED
    BY <2>2, <2>4, <2>5
<1>13. ASSUME NEW l \in Links, l # link PROVE Unbroken(l)'
  <2>1. queue'[l] = queue[l] /\ wire'[l] = wire[l] /\ port'[l] = port[l] /\ opened <= opened'
    BY <1>1, <1>3, <1>5, <1>13, Bounds DEF IInv, TypeOK
  <2> QED
    BY <1>1, <1>2, <1>3, <2>1, UnbrokenKept
<1>14. owner'.pc \in {"closing", "abandon"} => port'[owner'.link] # "open"
  BY <1>3, StopPortStaysClosed
<1> QED
  BY <1>2, <1>11, <1>12, <1>13, <1>14 DEF FramesInv

LEMMA FramesInvariance == Spec => []FramesInv
<1>1. IInv /\ Init => FramesInv
  <2> SUFFICES ASSUME IInv, Init PROVE FramesInv
    OBVIOUS
  <2>1. /\ ntrip.todo = << >> /\ ntrip.pc = "none" /\ ~ntrip.forwards /\ received = 0
        /\ owner.pc = "idle"
    BY DEF Init, IdleNtrip
  <2>2. Numbered
    BY <2>1 DEF Numbered
  <2>3. wire \in [Links -> WireSeq]
    BY DEF Init, WireSeq
  <2>4. ASSUME NEW l \in Links PROVE Unbroken(l)
    <3>1. wire[l] = << >> /\ queue[l] = << >>
      BY DEF Init
    <3> QED
      BY <3>1 DEF Unbroken, WholeFrames, Ordered, Follows, Ends
  <2> QED
    BY <2>1, <2>2, <2>3, <2>4 DEF FramesInv
<1>2. IInv' /\ FramesInv /\ [Next]_vars => FramesInv'
  <2> SUFFICES ASSUME IInv', FramesInv, [Next]_vars PROVE FramesInv'
    OBVIOUS
  <2>1. CASE Start \/ StopRequested \/ OwnerSteps
    BY <2>1, OwnerKeepsFrames
  <2>2. CASE WorkerSteps \/ RunReadReturns
    BY <2>2, WorkerKeepsFrames
  <2>3. CASE NtripSteps
    BY <2>3, NtripQuietlyKeepsFrames, EnqueueKeepsFrames
  <2>4. CASE NtripWriteAccepted \/ NtripWriteFails
    BY <2>4, WriteKeepsFrames
  <2>5. CASE UNCHANGED vars
    BY <2>5 DEF vars, links, FramesInv, Numbered, Unbroken, Passed
  <2> QED
    BY <2>1, <2>2, <2>3, <2>4, <2>5 DEF Next
<1> QED
  BY <1>1, <1>2, Invariance, PTL DEF Spec

\* The bytes each receiver gets are whole frames in the order they came, the
\* last one possibly cut short: Flush, Stop and a failing device never make
\* a partially written frame be followed by another.
THEOREM NoFrameIsTorn == Spec => []NoTornFrame
<1>1. FramesInv => NoTornFrame
  BY DEF FramesInv, Unbroken, NoTornFrame
<1> QED
  BY <1>1, FramesInvariance, PTL

-----------------------------------------------------------------------------
(* Every frame on a wire is counted once.                                  *)

LEMMA LinksStay ==
  ASSUME snapshot'.incarnation = snapshot.incarnation, opened' = opened,
         worker'.pc = "publish" <=> worker.pc = "publish"
  PROVE  LinksOfRun' = LinksOfRun
BY DEF LinksOfRun

LEMMA CompletedStay ==
  ASSUME LinksOfRun' = LinksOfRun, \A l \in LinksOfRun : wire'[l] = wire[l]
  PROVE  AllCompleted' = AllCompleted
<1>1. \A l \in LinksOfRun : Completed(l)' = Completed(l)
  BY DEF Completed
<1> QED
  BY <1>1 DEF AllCompleted

LEMMA LinkAdded ==
  ASSUME NEW n \in Links, LinksOfRun' = LinksOfRun \cup {n}, wire' = wire, wire[n] = << >>
  PROVE  AllCompleted' = AllCompleted
<1>1. Completed(n)' = {}
  BY DEF Completed
<1>2. \A l \in LinksOfRun : Completed(l)' = Completed(l)
  BY DEF Completed
<1> QED
  BY <1>1, <1>2 DEF AllCompleted

LEMMA CountStays ==
  ASSUME Counted, AllCompleted' = AllCompleted,
         snapshot'.frames + ntrip'.frames = snapshot.frames + ntrip.frames,
         ntrip'.frames > 0 => ntrip'.pc \in Writing \cup {"publish"}
  PROVE  Counted'
BY DEF Counted

LEMMA OwnerCounts ==
  ASSUME IInv, LastOpened, Counted, Start \/ StopRequested \/ OwnerSteps
  PROVE  LastOpened' /\ Counted'
<1> USE DEF IInv, TypeOK, OwnerGoto, links
<1>1. CASE Start
  <2>1. /\ worker'.pc = "check" /\ snapshot'.incarnation = 0 /\ snapshot'.frames = 0
        /\ ntrip'.frames = 0 /\ opened' = opened /\ opened \in Nat
    BY <1>1, Bounds DEF Start, IdleWorker, IdleNtrip, EmptySnapshot
  <2>2. LinksOfRun' = {}
    BY <2>1 DEF LinksOfRun
  <2>3. AllCompleted' = {}
    BY <2>2 DEF AllCompleted
  <2>4. Counted'
    BY <2>1, <2>3, FS_EmptySet DEF Counted
  <2> QED
    BY <2>1, <2>4 DEF LastOpened, Unshared, Live
<1>2. CASE StopRequested \/ OwnerSteps
  <2>1. UNCHANGED <<wire, opened, worker, ntrip>>
    BY <1>2 DEF StopRequested, OwnerSteps, StopTakesLink, StopNotifies, StopCloses, CloseBegins,
                CloseReturns, StopAbandons, Abandon, StopJoins
  <2>2. snapshot'.incarnation = snapshot.incarnation /\ snapshot'.frames = snapshot.frames
    <3>1. CASE StopNotifies
      BY <3>1 DEF StopNotifies, Snapshots
    <3>2. CASE StopRequested \/ StopTakesLink \/ StopCloses \/ StopAbandons \/ StopJoins
      BY <3>2 DEF StopRequested, StopTakesLink, StopCloses, StopAbandons, StopJoins, shared
    <3> QED
      BY <1>2, <3>1, <3>2 DEF OwnerSteps
  <2>3. AllCompleted' = AllCompleted
    BY <2>1, <2>2, LinksStay, CompletedStay
  <2>4. Counted'
    BY <2>1, <2>2, <2>3, CountStays DEF Counted
  <2> QED
    BY <2>1, <2>2, <2>4 DEF LastOpened
<1> QED
  BY <1>1, <1>2

LEMMA WorkerCounts ==
  ASSUME FramesInv, LastOpened, Counted, WorkerSteps \/ RunReadReturns
  PROVE  LastOpened' /\ Counted'
<1> USE DEF FramesInv, IInv, TypeOK, WorkerGoto, WorkerFrame, links
<1>1. wire' = wire /\ ntrip' = ntrip
  BY DEF WorkerSteps, RunChecksStop, RunOpenFails, RunOpens, RunPublishes, RunActivates,
         RunReads, RunReadCancelled, Update, RunWaits, RunCloses, CloseBegins, CloseReturns,
         RunRetires, RunAbandons, Abandon, RunLeavesSession, RunReconnects, RunEnds,
         RunReadReturns
<1>2. opened \in Nat /\ snapshot.incarnation \in Nat
  BY Bounds DEF Snapshots
<1>3. CASE RunOpens
  <2>1. /\ worker'.pc = "publish" /\ worker.pc = "open" /\ worker'.link = opened'
        /\ opened' = opened + 1 /\ snapshot' = snapshot /\ opened + 1 \in Links
    BY <1>2, <1>3, Bounds DEF RunOpens, IdleWorker, Links
  <2>2. LinksOfRun' = LinksOfRun \cup {opened + 1}
    <3>1. ASSUME NEW l \in 1 .. opened + 1
          PROVE  l + snapshot.incarnation > opened + 1 - 1 <=>
                   l = opened + 1 \/ (l \in 1 .. opened /\ l + snapshot.incarnation > opened - 0)
      BY <1>2
    <3>2. LinksOfRun = {l \in 1 .. opened : l + snapshot.incarnation > opened - 0}
      BY <2>1 DEF LinksOfRun
    <3>3. LinksOfRun' = {l \in 1 .. opened + 1 : l + snapshot.incarnation > opened + 1 - 1}
      BY <2>1 DEF LinksOfRun
    <3> QED
      BY <1>2, <3>1, <3>2, <3>3
  <2>3. wire[opened + 1] = << >>
    BY <1>2, <2>1 DEF Unbroken
  <2>4. AllCompleted' = AllCompleted
    BY <1>1, <2>1, <2>2, <2>3, LinkAdded
  <2>5. Counted'
    BY <1>1, <2>1, <2>4, CountStays DEF Counted
  <2> QED
    BY <2>1, <2>5 DEF LastOpened, Live
<1>4. CASE RunPublishes
  <2>1. /\ worker'.pc = "activate" /\ worker.pc = "publish" /\ worker'.link = worker.link
        /\ snapshot'.incarnation = snapshot.incarnation + 1
        /\ snapshot'.frames = snapshot.frames /\ opened' = opened
    BY <1>4 DEF RunPublishes, Snapshots
  <2>2. LinksOfRun' = LinksOfRun
    <3>1. ASSUME NEW l \in 1 .. opened
          PROVE  l + (snapshot.incarnation + 1) > opened - 0 <=>
                   l + snapshot.incarnation > opened - 1
      BY <1>2
    <3>2. LinksOfRun = {l \in 1 .. opened : l + snapshot.incarnation > opened - 1}
      BY <2>1 DEF LinksOfRun
    <3>3. LinksOfRun' = {l \in 1 .. opened : l + (snapshot.incarnation + 1) > opened - 0}
      BY <2>1 DEF LinksOfRun
    <3> QED
      BY <3>1, <3>2, <3>3
  <2>3. Counted'
    BY <1>1, <2>1, <2>2, CompletedStay, CountStays DEF Counted
  <2> QED
    BY <1>2, <2>1, <2>3 DEF LastOpened, Unshared
<1>5. CASE \/ RunChecksStop \/ RunOpenFails \/ RunActivates \/ RunReads \/ RunReadCancelled
           \/ RunReadReturns \/ Update \/ RunWaits \/ RunCloses \/ RunRetires \/ RunAbandons
           \/ RunLeavesSession \/ RunReconnects \/ RunEnds
  <2>1. /\ snapshot'.incarnation = snapshot.incarnation /\ snapshot'.frames = snapshot.frames
        /\ opened' = opened
    BY ZenonT(60), <1>5 DEF RunChecksStop, RunOpenFails, RunActivates,
         RunReads, RunReadCancelled, Update, RunWaits, RunCloses, CloseBegins, CloseReturns,
         RunRetires, RunAbandons, Abandon, RunLeavesSession, RunReconnects, RunEnds,
         RunReadReturns, Snapshots
  <2>2. /\ worker'.link = worker.link
        /\ worker.pc # "publish" /\ worker'.pc # "publish"
        /\ worker'.pc \in Unshared \cup Live => worker.pc \in Live \cup {"activate"}
    <3> DEFINE Moves(from, to) ==
                 worker'.link = worker.link /\ worker.pc \in from /\ worker'.pc \in to
    <3>1. CASE RunReads \/ RunReadCancelled \/ RunReadReturns
      <4>1. Moves({"read", "reading"}, {"reading", "update"})
        BY ZenonT(60), <3>1 DEF RunReads, RunReadCancelled, RunReadReturns, SessionEnds,
           SessionSteps, Workers
      <4> QED
        BY <4>1 DEF Unshared, Live
    <3>2. CASE Update
      <4>1. Moves({"update", "lastUpdate"}, {"close", "lastUpdate", "idle", "inner"})
        BY <3>2 DEF Update, Workers
      <4> QED
        BY <4>1 DEF Unshared, Live
    <3>3. CASE RunChecksStop \/ RunWaits
      <4>1. \/ Moves({"check", "wait"}, {"final", "open", "check"})
            \/ Moves({"inner", "idle"}, {"lastUpdate", "read", "inner"})
        BY <3>3 DEF RunChecksStop, RunWaits, Workers
      <4> QED
        BY <4>1 DEF Unshared, Live
    <3>4. CASE RunOpenFails \/ RunActivates \/ RunCloses
      <4>1. \/ Moves({"open"}, {"wait"})
            \/ Moves({"activate"}, {"inner"})
            \/ Moves({"close", "closing"}, {"closing", "retire"})
        BY <3>4 DEF RunOpenFails, RunActivates, RunCloses, Workers
      <4> QED
        BY <4>1 DEF Unshared, Live
    <3>5. CASE RunRetires \/ RunAbandons \/ RunLeavesSession \/ RunReconnects \/ RunEnds
      <4>1. Moves({"retire", "abandon", "left", "reconnect", "final"},
                  {"abandon", "left", "final", "reconnect", "wait", "done"})
        BY <3>5 DEF RunRetires, RunAbandons, RunLeavesSession, RunReconnects, RunEnds, Workers
      <4> QED
        BY <4>1 DEF Unshared, Live
    <3> QED
      BY <1>5, <3>1, <3>2, <3>3, <3>4, <3>5
  <2>3. LinksOfRun' = LinksOfRun
    BY <2>1, <2>2, LinksStay
  <2>4. Counted'
    BY <1>1, <2>1, <2>3, CompletedStay, CountStays DEF Counted
  <2> QED
    BY <2>1, <2>2, <2>4 DEF LastOpened, Unshared
<1> QED
  BY <1>3, <1>4, <1>5 DEF WorkerSteps

\* The NTRIP worker.
LEMMA NtripStays ==
  ASSUME IInv, NtripSteps \/ NtripWriteAccepted \/ NtripWriteFails
  PROVE  UNCHANGED <<worker, opened>> /\ snapshot'.incarnation = snapshot.incarnation
<1> USE DEF IInv, TypeOK, NtripFrame, links
<1>1. UNCHANGED <<worker, opened>>
  BY DEF NtripSteps, NtripChecksStop, NtripConnects, NtripWaits, NtripInjectsGga,
         NtripPublishesGga, NtripReads, TakesActiveLink, FlushPendingRtcm, ForwardRtcm,
         NtripWrites, NtripWriteCancelled, NtripCloses, CloseBegins, PublishesForwarding,
         NtripEndsTurn, NtripEnds, NtripWriteAccepted, NtripWriteFails
<1>2. snapshot'.incarnation = snapshot.incarnation
  BY DEF NtripSteps, NtripChecksStop, NtripConnects, NtripWaits, NtripInjectsGga,
         NtripPublishesGga, NtripReads, TakesActiveLink, FlushPendingRtcm, ForwardRtcm,
         NtripWrites, NtripWriteCancelled, NtripCloses, PublishesForwarding,
         NtripEndsTurn, NtripEnds, NtripWriteAccepted, NtripWriteFails, UpdateNtrip, Snapshots
<1> QED
  BY <1>1, <1>2

\* What the step adds to the frames counted.
Adds(n) == snapshot'.frames + ntrip'.frames = snapshot.frames + ntrip.frames + n

LEMMA NtripAddsNone ==
  ASSUME IInv, Counted, NtripSteps \/ NtripWriteFails
  PROVE  Adds(0) /\ (ntrip'.frames > 0 => ntrip'.pc \in Writing \cup {"publish"})
<1> USE DEF IInv, TypeOK, NtripGoto, NtripFrame
<1>1. ntrip.frames \in Nat /\ snapshot.frames \in Nat
  BY DEF Ntrips, Snapshots
<1>2. ntrip.pc \notin Writing \cup {"publish"} => ntrip.frames = 0
  BY <1>1 DEF Counted
<1>3. CASE NtripOuterSteps \/ TakesActiveLink
  <2>1. ntrip'.frames = ntrip.frames
    BY ZenonT(60), <1>3 DEF NtripOuterSteps, NtripChecksStop, NtripConnects, NtripWaits,
       NtripInjectsGga,
                NtripPublishesGga, NtripReads, NtripEndsTurn, NtripEnds, TakesActiveLink, Ntrips
  <2>2. snapshot'.frames = snapshot.frames
    BY <1>3 DEF NtripOuterSteps, NtripChecksStop, NtripConnects, NtripWaits, NtripInjectsGga,
                NtripPublishesGga, NtripReads, NtripEndsTurn, NtripEnds, TakesActiveLink,
                UpdateNtrip, Snapshots
  <2>3. ntrip.frames = 0
    <3>1. ntrip.pc \notin Writing \cup {"publish"}
      BY <1>3 DEF NtripOuterSteps, NtripChecksStop, NtripConnects, NtripWaits, NtripInjectsGga,
                  NtripPublishesGga, NtripReads, NtripEndsTurn, NtripEnds, TakesActiveLink, Writing
    <3> QED
      BY <1>2, <3>1
  <2> QED
    BY <1>1, <2>1, <2>2, <2>3 DEF Adds
<1>4. CASE (FlushPendingRtcm \/ ForwardRtcm) /\ ntrip'.frames = 0
  <2>1. ntrip.pc \notin Writing \cup {"publish"} /\ snapshot' = snapshot
    BY <1>4 DEF FlushPendingRtcm, ForwardRtcm, Writing
  <2> QED
    BY <1>1, <1>2, <1>4, <2>1 DEF Adds
<1>5. FlushPendingRtcm \/ ForwardRtcm => ntrip'.frames = 0
  <2>1. ASSUME NEW label, NtripLeavesLink(label) PROVE ntrip'.frames = 0
    BY <2>1 DEF NtripLeavesLink, Ntrips
  <2>2. FlushPendingRtcm \/ ForwardRtcm => ntrip.frames = 0
    BY <1>2 DEF FlushPendingRtcm, ForwardRtcm, Writing
  <2>3. ntrip.frames = 0 /\ FlushPendingRtcm => ntrip'.frames = 0
    BY <2>1 DEF FlushPendingRtcm, Ntrips
  <2>4. ntrip.frames = 0 /\ ForwardRtcm => ntrip'.frames = 0
    BY <2>1 DEF ForwardRtcm, Ntrips
  <2> QED
    BY <2>2, <2>3, <2>4
<1>6. CASE NtripWrites \/ NtripWriteFails \/ NtripWriteCancelled \/ NtripCloses
  <2>1. /\ ntrip'.frames = ntrip.frames /\ snapshot' = snapshot
        /\ ntrip'.pc \in {"writing", "closeFailed", "closing", "publish"}
    BY <1>6 DEF NtripWrites, NtripWriteFails, NtripWriteCancelled, NtripCloses, WriterFails, Ntrips
  <2> QED
    BY <1>1, <2>1 DEF Adds, Writing
<1>7. CASE PublishesForwarding
  <2>1. snapshot'.frames = snapshot.frames + ntrip.frames
    BY <1>7 DEF PublishesForwarding, Snapshots
  <2>2. ntrip'.frames = 0
    BY <1>7 DEF PublishesForwarding, NtripLeavesLink, Ntrips
  <2> QED
    BY <1>1, <2>1, <2>2 DEF Adds
<1> QED
  BY <1>3, <1>4, <1>5, <1>6, <1>7 DEF NtripSteps, NtripOuterSteps

LEMMA NtripCounts ==
  ASSUME FramesInv, LastOpened, Counted, NtripSteps
  PROVE  LastOpened' /\ Counted'
<1>1. IInv
  BY DEF FramesInv
<1>2. UNCHANGED <<worker, opened>> /\ snapshot'.incarnation = snapshot.incarnation
  BY <1>1, NtripStays
<1>3. wire' = wire
  BY DEF NtripSteps, NtripChecksStop, NtripConnects, NtripWaits, NtripInjectsGga,
         NtripPublishesGga, NtripReads, TakesActiveLink, FlushPendingRtcm, ForwardRtcm,
         NtripWrites, NtripWriteCancelled, NtripCloses, CloseBegins, PublishesForwarding,
         NtripEndsTurn, NtripEnds, links
<1>4. AllCompleted' = AllCompleted
  BY <1>2, <1>3, LinksStay, CompletedStay
<1>5. Adds(0) /\ (ntrip'.frames > 0 => ntrip'.pc \in Writing \cup {"publish"})
  BY <1>1, NtripAddsNone
<1>6. snapshot'.frames + ntrip'.frames = snapshot.frames + ntrip.frames
  <2>1. ntrip.frames \in Nat /\ snapshot.frames \in Nat
    BY <1>1 DEF IInv, TypeOK, Ntrips, Snapshots
  <2> QED
    BY <1>5, <2>1 DEF Adds
<1>7. Counted'
  BY <1>4, <1>5, <1>6, CountStays
<1> QED
  BY <1>2, <1>7 DEF LastOpened

\* A frame is completed by the write that takes all that remains of it.
LEMMA TurnCompletes ==
  ASSUME NEW l \in Links, NEW w \in WireSeq, NEW q \in Seq(Entries(Frames)), q # << >>,
         Follows(w, q), WholeFrames(w), NEW accepted \in 0 .. Remaining(q),
         wire[l] = w, wire'[l] = Grown(w, q, accepted)
  PROVE  Completed(l)' = IF Completes(q, accepted)
                         THEN Completed(l) \cup {Len(w) + accepted}
                         ELSE Completed(l)
<1> DEFINE v == Grown(w, q, accepted)
           o == q[1].offset
<1>1. /\ o \in 0 .. FrameBytes - 1 /\ FrameBytes \in Nat \ {0} /\ Remaining(q) = FrameBytes - o
      /\ accepted \in Nat
  BY Turn
<1>2. /\ Len(v) = Len(w) + accepted /\ Len(w) \in Nat
      /\ \A i \in 1 .. Len(w) : v[i] = w[i]
      /\ \A i \in 1 .. accepted : v[Len(w) + i][2] = o + i
  <2>1. /\ Len(v) = Len(w) + accepted
        /\ \A i \in 1 .. Len(w) : v[i] = w[i]
        /\ \A i \in 1 .. accepted : v[Len(w) + i] = <<q[1].frame, o + i>>
    BY WireGrows
  <2>2. Len(w) \in Nat
    BY DEF WireSeq
  <2> HIDE DEF v, o
  <2>3. ASSUME NEW i \in 1 .. accepted PROVE v[Len(w) + i][2] = o + i
    BY <2>1
  <2> QED
    BY <2>1, <2>2, <2>3
<1>3. /\ Completed(l) = {i \in 1 .. Len(w) : w[i][2] = FrameBytes}
      /\ Completed(l)' = {i \in 1 .. Len(v) : v[i][2] = FrameBytes}
  BY DEF Completed
<1> HIDE DEF v, o
<1>4. ASSUME NEW i \in 1 .. Len(w) + accepted, i > Len(w)
      PROVE  v[i][2] = FrameBytes <=> Completes(q, accepted) /\ i = Len(w) + accepted
  <2> DEFINE k == i - Len(w)
  <2>1. k \in 1 .. accepted /\ i = Len(w) + k
    BY <1>1, <1>2, <1>4
  <2> HIDE DEF k
  <2>2. v[i][2] = o + k
    BY <1>2, <2>1
  <2>3. o + k = FrameBytes <=> accepted = FrameBytes - o /\ k = accepted
    BY <1>1, <2>1
  <2>4. k = accepted <=> i = Len(w) + accepted
    BY <1>1, <1>2, <2>1
  <2> QED
    BY <1>1, <2>2, <2>3, <2>4 DEF Completes
<1>5. Completes(q, accepted) => Len(w) + accepted \in 1 .. Len(v) /\ Len(w) + accepted > Len(w)
  BY <1>1, <1>2 DEF Completes
<1>6. ASSUME NEW i
      PROVE  i \in Completed(l)' <=>
               i \in Completed(l) \/ (Completes(q, accepted) /\ i = Len(w) + accepted)
  BY <1>1, <1>2, <1>3, <1>4, <1>5
<1> QED
  BY <1>6

LEMMA CountGrows ==
  ASSUME Counted, LinksOfRun' = LinksOfRun, NEW l \in Links, l \in LinksOfRun,
         NEW w \in WireSeq, NEW q \in Seq(Entries(Frames)), q # << >>,
         Follows(w, q), WholeFrames(w), NEW accepted \in 0 .. Remaining(q),
         wire[l] = w, wire'[l] = Grown(w, q, accepted),
         \A k \in LinksOfRun : k # l => wire'[k] = wire[k],
         Completes(q, accepted) => Adds(1), ~Completes(q, accepted) => Adds(0),
         snapshot.frames \in Nat, ntrip.frames \in Nat,
         ntrip'.frames > 0 => ntrip'.pc \in Writing \cup {"publish"}
  PROVE  Counted'
<1>1. Completed(l)' = IF Completes(q, accepted)
                      THEN Completed(l) \cup {Len(w) + accepted}
                      ELSE Completed(l)
  BY TurnCompletes
<1>2. \A k \in LinksOfRun : k # l => Completed(k)' = Completed(k)
  BY DEF Completed
<1>3. CASE ~Completes(q, accepted)
  <2>1. \A k \in LinksOfRun : Completed(k)' = Completed(k)
    BY <1>1, <1>2, <1>3
  <2>2. AllCompleted' = AllCompleted
    BY <2>1 DEF AllCompleted
  <2>3. snapshot'.frames + ntrip'.frames = snapshot.frames + ntrip.frames
    BY <1>3 DEF Adds
  <2> QED
    BY <2>2, <2>3, CountStays
<1>4. CASE Completes(q, accepted)
  <2> DEFINE at == <<l, Len(w) + accepted>>
  <2>1. AllCompleted' = AllCompleted \cup {at}
    <3>1. {l} \X Completed(l)' = ({l} \X Completed(l)) \cup {at}
      BY <1>1, <1>4
    <3>2. AllCompleted' = UNION {{k} \X Completed(k)' : k \in LinksOfRun}
      BY DEF AllCompleted
    <3>3. ASSUME NEW x
          PROVE  x \in AllCompleted' <=> x \in AllCompleted \/ x = at
      <4>1. x \in AllCompleted' <=> \E k \in LinksOfRun : x \in {k} \X Completed(k)'
        BY <3>2
      <4>2. x \in AllCompleted <=> \E k \in LinksOfRun : x \in {k} \X Completed(k)
        BY DEF AllCompleted
      <4> HIDE DEF at
      <4> QED
        BY <1>2, <3>1, <4>1, <4>2
    <3> HIDE DEF at
    <3> QED
      BY <3>3
  <2>2. at \notin AllCompleted
    <3>1. Len(w) \in Nat
      BY DEF WireSeq
    <3>2. accepted = Remaining(q) /\ Remaining(q) > 0
      BY <1>4, Turn DEF Completes
    <3>3. Len(w) + accepted \notin Completed(l)
      BY <3>1, <3>2 DEF Completed
    <3> QED
      BY <3>3 DEF AllCompleted
  <2> HIDE DEF at
  <2>3. IsFiniteSet(AllCompleted) /\ Cardinality(AllCompleted) \in Nat
    BY FS_CardinalityType DEF Counted
  <2>4. /\ IsFiniteSet(AllCompleted \cup {at})
        /\ Cardinality(AllCompleted \cup {at}) = Cardinality(AllCompleted) + 1
    BY <2>2, <2>3, FS_AddElement
  <2>5. snapshot'.frames + ntrip'.frames = snapshot.frames + ntrip.frames + 1
    BY <1>4 DEF Adds
  <2>6. /\ IsFiniteSet(AllCompleted')
        /\ snapshot'.frames + ntrip'.frames = Cardinality(AllCompleted')
    BY <2>1, <2>4, <2>5 DEF Counted
  <2> QED
    BY <2>6 DEF Counted
<1> QED
  BY <1>3, <1>4

LEMMA WriteCounts ==
  ASSUME FramesInv, LastOpened, Counted, NtripWriteAccepted \/ NtripWriteFails
  PROVE  LastOpened' /\ Counted'
<1> DEFINE link == ntrip.link
           w == wire[link]
           q == queue[link]
<1>1. IInv /\ wire \in [Links -> WireSeq]
  BY DEF FramesInv
<1>2. UNCHANGED <<worker, opened>> /\ snapshot'.incarnation = snapshot.incarnation
  BY <1>1, NtripStays
<1>3. LinksOfRun' = LinksOfRun
  BY <1>2, LinksStay
<1>4. /\ ntrip.pc = "writing" /\ link \in Links
      /\ w \in WireSeq /\ q \in Seq(Entries(Frames)) /\ q # << >>
      /\ Follows(w, q) /\ WholeFrames(w)
  <2>1. ntrip.pc = "writing" /\ link \in Links
    BY <1>1 DEF NtripWriteAccepted, NtripWriteFails, IInv, TypeOK, Sharing, Forwarding, Writing,
                Ntrips
  <2> QED
    BY <1>1, <2>1 DEF FramesInv, IInv, TypeOK, InUse, WriterInUse, Unbroken
<1>5. link \in LinksOfRun
  <2>1. leases[link] # {} /\ PortInUse(link)
    BY <1>1, <1>4 DEF IInv, InUse, PortInUse
  <2>2. link = worker.link /\ worker.pc \in Unshared \cup Live
    BY <2>1 DEF PortInUse
  <2>3. worker.pc \in Live
    BY <1>1, <1>4, <2>2 DEF IInv, Sharing, Shared, Forwarding, Writing, NoLink, Links
  <2>4. link = opened /\ snapshot.incarnation > 0 /\ worker.pc # "publish"
    BY <2>2, <2>3 DEF LastOpened, Live
  <2>5. snapshot.incarnation \in Nat /\ opened \in Nat /\ opened >= 1
    BY <1>1, <1>4, <2>4, Bounds DEF IInv, TypeOK, Snapshots, Links
  <2>6. opened \in 1 .. opened /\ opened + snapshot.incarnation > opened - 0
    BY <2>4, <2>5
  <2> QED
    BY <2>4, <2>6 DEF LinksOfRun
<1>6. snapshot.frames \in Nat /\ ntrip.frames \in Nat /\ LinksOfRun \subseteq Links
  BY <1>1, Bounds DEF LinksOfRun, Links, IInv, TypeOK, Ntrips, Snapshots
<1>7. ASSUME NtripWriteAccepted PROVE Counted'
  <2>1. PICK accepted \in 0 .. Remaining(q) :
          /\ wire' = [wire EXCEPT ![link] = Grown(w, q, accepted)]
          /\ ntrip' = [ntrip EXCEPT
               !.frames = IF Completes(q, accepted) THEN @ + 1 ELSE @,
               !.depth = Len(AfterWrite(q, accepted)),
               !.pc = IF accepted > 0 /\ AfterWrite(q, accepted) # << >>
                      THEN "write" ELSE "publish"]
    BY <1>7 DEF NtripWriteAccepted, Grown
  <2>2. snapshot' = snapshot /\ ntrip'.pc \in {"write", "publish"}
    BY <1>1, <1>7 DEF NtripWriteAccepted, IInv, TypeOK, Ntrips
  <2>3. ntrip'.frames = IF Completes(q, accepted) THEN ntrip.frames + 1 ELSE ntrip.frames
    BY <1>1, <2>1 DEF IInv, TypeOK, Ntrips
  <2>4. (Completes(q, accepted) => Adds(1)) /\ (~Completes(q, accepted) => Adds(0))
    BY <1>6, <2>2, <2>3 DEF Adds
  <2>5. /\ wire'[link] = Grown(w, q, accepted)
        /\ \A k \in LinksOfRun : k # link => wire'[k] = wire[k]
    BY <1>1, <1>4, <1>6, <2>1
  <2>6. ntrip'.frames > 0 => ntrip'.pc \in Writing \cup {"publish"}
    BY <2>2 DEF Writing
  <2>7. wire[link] = w
    OBVIOUS
  <2> HIDE DEF link, w, q
  <2> QED
    BY <1>3, <1>4, <1>5, <1>6, <2>1, <2>4, <2>5, <2>6, <2>7, CountGrows
<1>8. ASSUME NtripWriteFails PROVE Counted'
  <2>1. PICK accepted \in 0 .. Remaining(q) - 1 :
          wire' = [wire EXCEPT ![link] = Grown(w, q, accepted)]
    BY <1>8 DEF NtripWriteFails, Grown
  <2>2. accepted \in 0 .. Remaining(q) /\ ~Completes(q, accepted)
    BY <1>4, RemainingType DEF Completes
  <2>3. Adds(0) /\ (ntrip'.frames > 0 => ntrip'.pc \in Writing \cup {"publish"})
    BY <1>1, <1>8, NtripAddsNone
  <2>4. (Completes(q, accepted) => Adds(1)) /\ (~Completes(q, accepted) => Adds(0))
    BY <2>2, <2>3
  <2>5. /\ wire'[link] = Grown(w, q, accepted)
        /\ \A k \in LinksOfRun : k # link => wire'[k] = wire[k]
    BY <1>1, <1>4, <1>6, <2>1
  <2>6. wire[link] = w
    OBVIOUS
  <2> HIDE DEF link, w, q
  <2> QED
    BY <1>3, <1>4, <1>5, <1>6, <2>2, <2>3, <2>4, <2>5, <2>6, CountGrows
<1>9. Counted'
  BY <1>7, <1>8
<1> QED
  BY <1>2, <1>9 DEF LastOpened

LEMMA CountInvariance == Spec => [](LastOpened /\ Counted)
<1>1. Init => LastOpened /\ Counted
  <2> SUFFICES ASSUME Init PROVE LastOpened /\ Counted
    OBVIOUS
  <2>1. /\ opened = 0 /\ worker.pc = "none" /\ snapshot.frames = 0 /\ ntrip.frames = 0
    BY DEF Init, IdleWorker, IdleNtrip, EmptySnapshot
  <2>2. AllCompleted = {}
    <3>1. LinksOfRun = {}
      BY <2>1 DEF LinksOfRun
    <3> QED
      BY <3>1 DEF AllCompleted
  <2> QED
    BY <2>1, <2>2, FS_EmptySet DEF LastOpened, Counted, Unshared, Live
<1>2. FramesInv /\ LastOpened /\ Counted /\ [Next]_vars => (LastOpened /\ Counted)'
  <2> SUFFICES ASSUME FramesInv, LastOpened, Counted, [Next]_vars
               PROVE  LastOpened' /\ Counted'
    OBVIOUS
  <2>1. CASE Start \/ StopRequested \/ OwnerSteps
    BY <2>1, OwnerCounts DEF FramesInv
  <2>2. CASE WorkerSteps \/ RunReadReturns
    BY <2>2, WorkerCounts
  <2>3. CASE NtripSteps
    BY <2>3, NtripCounts
  <2>4. CASE NtripWriteAccepted \/ NtripWriteFails
    BY <2>4, WriteCounts
  <2>5. CASE UNCHANGED vars
    <3>1. AllCompleted' = AllCompleted
      BY <2>5, LinksStay, CompletedStay DEF vars, shared, links
    <3> QED
      BY <2>5, <3>1 DEF vars, shared, links, LastOpened, Counted
  <2> QED
    BY <2>1, <2>2, <2>3, <2>4, <2>5 DEF Next
<1> QED
  BY <1>1, <1>2, FramesInvariance, PTL DEF Spec

\* Frames reach the wire whole, in order and behind the writer's lock, and
\* rtcm_forwarded_frames counts each of them once, although its call adds it
\* after the lock is gone and Stop or Run may drop the queue in between.
THEOREM CorrectionsAreKept == Spec => []FramesKept
<1>1. IInv /\ Counted => FramesAccounted
  BY DEF IInv, Counted, AllCompleted, FramesAccounted
<1> QED
  BY <1>1, NoFrameIsTorn, FlushOwnsItsFrame, CountInvariance, Invariance, PTL DEF FramesKept
==============================================================================
