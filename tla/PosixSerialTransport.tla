------------------------ MODULE PosixSerialTransport ------------------------
(***************************************************************************)
(* gnss_transport/src/posix_serial_transport.cpp: a serial port shared by  *)
(* threads that read, write, close and reopen it.                          *)
(*                                                                         *)
(* A section under mutex_ is one action, because nothing in it blocks      *)
(* except CloseImpl's wait, where the action is split, and Open's system   *)
(* calls, each of which may fail: until the last one fd_ is -1, and what   *)
(* others do under mutex_ changes nothing then.  open_close_mutex_ is held *)
(* across steps, so it is a variable.  poll() and the read() or write()    *)
(* that follows run with no lock held and are separate actions.            *)
(*                                                                         *)
(* The two ends of a wakeup pipe are made by one call and closed together: *)
(* they count as one descriptor.                                           *)
(***************************************************************************)
EXTENDS Integers, FiniteSets

CONSTANTS
  Threads,      \* the threads that share the transport
  Descriptors,  \* descriptor numbers the operating system hands out
  NoThread,     \* open_close_mutex_ is free
  NoFd          \* the -1 of fd_

ASSUME ThreadsFinite == IsFiniteSet(Threads) /\ NoThread \notin Threads
ASSUME NoFdAssumption == NoFd \notin Descriptors

VARIABLES
  fd,            \* fd_
  pipe,          \* wakeup_read_fd_ and wakeup_write_fd_
  closing,       \* closing_
  wakeup,        \* a byte is in the wakeup pipe; nobody drains it
  activeOps,     \* active_operations_
  lifecycleLock, \* owner of open_close_mutex_
  osOpen,        \* descriptors open in the operating system
  pc,            \* where each thread is
  held,          \* the thread's local fd: of its lease, of a device it is
                 \* about to ::close, or of one it has just opened
  heldPipe,      \* the thread's local wakeup_fd or wakeup_fds
  reopening      \* the thread is in Open, not in Close

portVars == <<fd, pipe, closing, wakeup>>
localVars == <<held, heldPipe>>
vars == <<portVars, activeOps, lifecycleLock, osOpen, pc, localVars, reopening>>

OperationStates == {"poll", "io", "release"}
OpenStates == {"openPipe", "openDevice", "configure"}
LifecycleStates == {"closeImpl", "drain", "closeFds"} \cup OpenStates

TypeOK ==
  /\ fd \in Descriptors \cup {NoFd}
  /\ pipe \in Descriptors \cup {NoFd}
  /\ closing \in BOOLEAN
  /\ wakeup \in BOOLEAN
  /\ activeOps \in Nat
  /\ lifecycleLock \in Threads \cup {NoThread}
  /\ osOpen \in SUBSET Descriptors
  /\ pc \in [Threads -> {"idle"} \cup OperationStates \cup LifecycleStates]
  /\ held \in [Threads -> Descriptors \cup {NoFd}]
  /\ heldPipe \in [Threads -> Descriptors \cup {NoFd}]
  /\ reopening \in [Threads -> BOOLEAN]

Init ==
  /\ fd = NoFd /\ pipe = NoFd
  /\ closing = FALSE
  /\ wakeup = FALSE
  /\ activeOps = 0
  /\ lifecycleLock = NoThread
  /\ osOpen = {}
  /\ pc = [t \in Threads |-> "idle"]
  /\ held = [t \in Threads |-> NoFd]
  /\ heldPipe = [t \in Threads |-> NoFd]
  /\ reopening = [t \in Threads |-> FALSE]

Goto(t, label) == pc' = [pc EXCEPT ![t] = label]

\* The thread's local copies.
Holds(t, device, wake) ==
  /\ held' = [held EXCEPT ![t] = device]
  /\ heldPipe' = [heldPipe EXCEPT ![t] = wake]

-----------------------------------------------------------------------------
(* Read and Write.  They differ in data only: both lease the descriptor,   *)
(* poll it, call the system and return the lease.                          *)

\* AcquireOperation, on success.  Its failure returns kClosed and changes
\* nothing.
AcquireOperation(t) ==
  /\ pc[t] = "idle"
  /\ fd # NoFd
  /\ ~closing
  /\ activeOps' = activeOps + 1
  /\ Holds(t, fd, pipe)
  /\ Goto(t, "poll")
  /\ UNCHANGED <<portVars, lifecycleLock, osOpen, reopening>>

\* poll() reports the descriptor ready; the wakeup pipe is looked at first.
PollReady(t) ==
  /\ pc[t] = "poll"
  /\ ~wakeup
  /\ Goto(t, "io")
  /\ UNCHANGED <<portVars, activeOps, lifecycleLock, osOpen, localVars, reopening>>

\* poll() times out (or does not wait: nonblocking) or reports an error.
PollReturnsEmpty(t) ==
  /\ pc[t] = "poll"
  /\ ~wakeup
  /\ Goto(t, "release")
  /\ UNCHANGED <<portVars, activeOps, lifecycleLock, osOpen, localVars, reopening>>

\* poll() sees the wakeup pipe: kCancelled.
PollCancelled(t) ==
  /\ pc[t] = "poll"
  /\ wakeup
  /\ Goto(t, "release")
  /\ UNCHANGED <<portVars, activeOps, lifecycleLock, osOpen, localVars, reopening>>

\* read() or write() returns bytes, end of file, EAGAIN or an error.
SystemCallReturns(t) ==
  /\ pc[t] = "io"
  /\ Goto(t, "release")
  /\ UNCHANGED <<portVars, activeOps, lifecycleLock, osOpen, localVars, reopening>>

\* EINTR: back to poll().
SystemCallInterrupted(t) ==
  /\ pc[t] = "io"
  /\ Goto(t, "poll")
  /\ UNCHANGED <<portVars, activeOps, lifecycleLock, osOpen, localVars, reopening>>

ReleaseOperation(t) ==
  /\ pc[t] = "release"
  /\ activeOps' = activeOps - 1
  /\ Holds(t, NoFd, NoFd)
  /\ Goto(t, "idle")
  /\ UNCHANGED <<portVars, lifecycleLock, osOpen, reopening>>

-----------------------------------------------------------------------------
(* Close and Open.                                                         *)

LockLifecycle(t, open) ==
  /\ pc[t] = "idle"
  /\ lifecycleLock = NoThread
  /\ lifecycleLock' = t
  /\ reopening' = [reopening EXCEPT ![t] = open]
  /\ Goto(t, "closeImpl")
  /\ UNCHANGED <<portVars, activeOps, osOpen, localVars>>

Close(t) == LockLifecycle(t, FALSE)
Open(t) == LockLifecycle(t, TRUE)

\* CloseImpl returns: to Close, which unlocks, or to Open, which goes on.
AfterCloseImpl(t) ==
  IF reopening[t]
  THEN Goto(t, "openPipe") /\ UNCHANGED lifecycleLock
  ELSE Goto(t, "idle") /\ lifecycleLock' = NoThread

\* CloseImpl with nothing open.
CloseImplNothing(t) ==
  /\ pc[t] = "closeImpl"
  /\ ~closing
  /\ fd = NoFd
  /\ AfterCloseImpl(t)
  /\ UNCHANGED <<portVars, activeOps, osOpen, localVars, reopening>>

\* Mutant: CloseImpl does not write to the wakeup pipe.
CloseImplWithoutWakeup(t) ==
  /\ pc[t] = "closeImpl"
  /\ ~closing
  /\ fd # NoFd
  /\ closing' = TRUE
  /\ Goto(t, "drain")
  /\ UNCHANGED <<fd, pipe, wakeup, activeOps, lifecycleLock, osOpen, localVars,
                 reopening>>

\* CloseImpl refuses new operations and wakes the ones in poll().
CloseImplBegin(t) ==
  /\ pc[t] = "closeImpl"
  /\ ~closing
  /\ fd # NoFd
  /\ closing' = TRUE
  /\ wakeup' = TRUE
  /\ Goto(t, "drain")
  /\ UNCHANGED <<fd, pipe, activeOps, lifecycleLock, osOpen, localVars, reopening>>

\* Mutant: CloseImpl does not wait for the leases.
CloseImplUndrained(t) ==
  /\ pc[t] = "drain"
  /\ Holds(t, fd, pipe)
  /\ fd' = NoFd /\ pipe' = NoFd
  /\ closing' = FALSE
  /\ Goto(t, "closeFds")
  /\ UNCHANGED <<wakeup, activeOps, lifecycleLock, osOpen, reopening>>

\* The second wait of CloseImpl ends: every lease is back.
CloseImplDrained(t) ==
  /\ pc[t] = "drain"
  /\ activeOps = 0
  /\ Holds(t, fd, pipe)
  /\ fd' = NoFd /\ pipe' = NoFd
  /\ closing' = FALSE
  /\ Goto(t, "closeFds")
  /\ UNCHANGED <<wakeup, activeOps, lifecycleLock, osOpen, reopening>>

\* The ::close calls at the end of CloseImpl, outside mutex_.
CloseDescriptors(t) ==
  /\ pc[t] = "closeFds"
  /\ osOpen' = osOpen \ {held[t], heldPipe[t]}
  /\ Holds(t, NoFd, NoFd)
  /\ AfterCloseImpl(t)
  /\ UNCHANGED <<portVars, activeOps, reopening>>

\* Open, after CloseImpl: pipe2.  The system hands out what it considers free.
OpenPipe(t) ==
  /\ pc[t] = "openPipe"
  /\ \E d \in Descriptors \ osOpen :
       /\ osOpen' = osOpen \cup {d}
       /\ Holds(t, NoFd, d)
  /\ Goto(t, "openDevice")
  /\ UNCHANGED <<portVars, activeOps, lifecycleLock, reopening>>

\* ::open of the device.
OpenDevice(t) ==
  /\ pc[t] = "openDevice"
  /\ \E d \in Descriptors \ osOpen :
       /\ osOpen' = osOpen \cup {d}
       /\ Holds(t, d, heldPipe[t])
  /\ Goto(t, "configure")
  /\ UNCHANGED <<portVars, activeOps, lifecycleLock, reopening>>

\* Open returns, and what it holds is nobody's or the port's.
OpenReturns(t) ==
  /\ Holds(t, NoFd, NoFd)
  /\ lifecycleLock' = NoThread
  /\ Goto(t, "idle")
  /\ UNCHANGED <<closing, activeOps, reopening>>

\* ConfigureSerialPort succeeds: device and pipe are the port's.
PublishDescriptors(t) ==
  /\ pc[t] = "configure"
  /\ fd' = held[t] /\ pipe' = heldPipe[t]
  /\ wakeup' = FALSE
  /\ OpenReturns(t)
  /\ UNCHANGED osOpen

\* A bad configuration, or no pipe: nothing was opened.
PipeFails(t) ==
  /\ pc[t] = "openPipe"
  /\ OpenReturns(t)
  /\ UNCHANGED <<fd, pipe, wakeup, osOpen>>

\* Mutant: Open without a device forgets the pipe.
DeviceFailsLeaking(t) ==
  /\ pc[t] = "openDevice"
  /\ OpenReturns(t)
  /\ UNCHANGED <<fd, pipe, wakeup, osOpen>>

\* No device: the pipe is closed again.
DeviceFails(t) ==
  /\ pc[t] = "openDevice"
  /\ osOpen' = osOpen \ {heldPipe[t]}
  /\ OpenReturns(t)
  /\ UNCHANGED <<fd, pipe, wakeup>>

\* Mutant: a device that cannot be configured is closed, but not its pipe.
ConfigureFailsLeaking(t) ==
  /\ pc[t] = "configure"
  /\ osOpen' = osOpen \ {held[t]}
  /\ OpenReturns(t)
  /\ UNCHANGED <<fd, pipe, wakeup>>

\* ConfigureSerialPort fails: both are closed again.
ConfigureFails(t) ==
  /\ pc[t] = "configure"
  /\ osOpen' = osOpen \ {held[t], heldPipe[t]}
  /\ OpenReturns(t)
  /\ UNCHANGED <<fd, pipe, wakeup>>

-----------------------------------------------------------------------------
Operation(t) ==
  \/ AcquireOperation(t)
  \/ PollReady(t) \/ PollReturnsEmpty(t) \/ PollCancelled(t)
  \/ SystemCallReturns(t) \/ SystemCallInterrupted(t)
  \/ ReleaseOperation(t)

CloseImpl(t) ==
  \/ CloseImplNothing(t) \/ CloseImplBegin(t) \/ CloseImplDrained(t)
  \/ CloseDescriptors(t)

OpenAfterClose(t) ==
  \/ OpenPipe(t) \/ PipeFails(t)
  \/ OpenDevice(t) \/ DeviceFails(t)
  \/ PublishDescriptors(t) \/ ConfigureFails(t)

Lifecycle(t) == Close(t) \/ Open(t) \/ CloseImpl(t) \/ OpenAfterClose(t)

Next == \E t \in Threads : Operation(t) \/ Lifecycle(t)

Spec == Init /\ [][Next]_vars

(* A running thread takes its next step unless it waits: for the device in *)
(* poll() (PollReady, PollReturnsEmpty: a blocking port may stay silent)   *)
(* or for a caller to call.                                                *)
Fairness ==
  \A t \in Threads :
    /\ WF_vars(PollCancelled(t))
    /\ WF_vars(SystemCallReturns(t))
    /\ WF_vars(ReleaseOperation(t))
    /\ WF_vars(CloseImpl(t))
    /\ WF_vars(OpenAfterClose(t))

FairSpec == Spec /\ Fairness

-----------------------------------------------------------------------------
(* Properties.                                                             *)

Holders == {t \in Threads : pc[t] \in OperationStates}

\* A thread between AcquireOperation and ReleaseOperation works on the port's
\* present device and pipe, still open in the system: Close never closes (and
\* the system never hands out again) a descriptor that poll, read or write uses.
NoUseAfterClose ==
  \A t \in Holders :
    /\ held[t] = fd /\ heldPipe[t] = pipe
    /\ {fd, pipe} \subseteq osOpen

\* Open and Close account for every descriptor at every step: those open in
\* the system are the port's, or those that a call under way has opened and
\* not yet given to the port, or taken from it and not yet closed.  Open, at
\* whichever call it fails, leaves none behind (posix_serial_transport.cpp:244-272).
NoDescriptorLeak ==
  osOpen = {d \in Descriptors :
              \/ d \in {fd, pipe}
              \/ \E t \in Threads : pc[t] \in LifecycleStates /\ d \in {held[t], heldPipe[t]}}

\* active_operations_ is the number of leases, so the drain wait of
\* CloseImpl cannot return early and its decrement never wraps below zero.
LeasesCounted == activeOps = Cardinality(Holders)

\* Close (or the close inside Open) returns, even when operations are blocked
\* in poll() on a silent device: the wakeup pipe cancels them.
CloseTerminates == \A t \in Threads : pc[t] = "drain" ~> pc[t] = "idle"

\* The lease protocol that callers of the transport rely on.
Abstract == INSTANCE DescriptorLease WITH
  live <- osOpen,
  leases <- {l \in Holders \X Descriptors : l[2] \in {held[l[1]], heldPipe[l[1]]}}
ImplementsDescriptorLease == Abstract!Spec
==============================================================================
