# TLA+ models of universal-gnss

Models of the parts of universal-gnss whose correctness depends on the order of
things: threads, transports that close under their users, reconnects, command
transactions, streams of damaged bytes, records that contradict each other. Each
module is translated from the C++ source; `PROJECT.json` ("map") names the lines
every definition stands for.

## 1. The system

universal-gnss reads GNSS receivers over serial ports and sockets, decodes NMEA,
UBX, Unicore and RTCM, keeps one runtime state, finds and configures receivers,
feeds them RTCM corrections from an NTRIP caster, and serves corrections itself.

| Package | State it keeps | Operations | Concurrency, failure | Modelled by |
|---|---|---|---|---|
| `gnss_transport` serial port | descriptor, wakeup pipe, `closing_`, `active_operations_` | Open, Read, Write, Close | shared by threads; Close cancels blocked operations | PosixSerialTransport |
| `gnss_transport` TCP | socket, TLS session, deadlines | Open, Adopt, Read, Write, Close | one caller, a cancelling thread; time-outs, partial TLS setups | TcpClientTransport |
| `gnss_transport` UDP | socket | Open, Read, Write, Close | one datagram per call | not modelled |
| `gnss_transport` `RtcmFrameWriter` | bounded queue, offset of the head | Enqueue, Flush, Abandon | partial, blocked and failed writes | RtcmFrameWriter |
| `gnss_runtime` `ReceiverSupervisor` | snapshot, active link, stop flag, two workers | Start, Stop, Snapshot | three threads, three mutexes, reconnect | ReceiverSupervisor |
| `gnss_protocols` framers | partial frames | Push, resynchronise | corrupted, cut, nested input | StreamFraming |
| `gnss_protocols` parsers | none | parse, convert to an update | malformed fields | NmeaRecords, UbxRecords, UnicoreRecords |
| `gnss_protocols` correction monitor | history, stations, owner, health | ObserveFrame, resets | two stations, clocks | RtcmCorrectionMonitor |
| `gnss_driver` session, detector | selected protocol, pending bytes | FeedBytes, Finalize, Reset | order of bytes and selection | ReceiverSession |
| `gnss_driver` protocol sessions | aggregate, freshness, mixed-NMEA state | route a record, Reset | late and contradicting records | SessionRuntime |
| `gnss_core` aggregator, freshness | fields with times, epochs | Apply, Observe | stale fields, clocks that start again | RuntimeState, PositionPayloadFreshness |
| `gnss_driver` command transactions | transaction, attempts, deadline, quarantine | Start, ApplyResponse, MarkTimeout, Retry, Reset | late, lost and duplicate answers | CommandTransactionEngine |
| `gnss_driver` config application | command list, index, counters | Start, Step, ApplyResponse, CheckTimeout | failure of one step of several | ReceiverConfigApplication |
| `gnss_driver` discovery | candidates, best probe | enumerate, probe, rank | silent, mixed, failing ports | ReceiverDiscovery |
| `gnss_driver` auto-config | plan | select, plan | wrong receiver, lasting writes | AutoConfig |
| `gnss_tools` apply workflows | phase, causality fence, report | prepare, execute, recover | receiver left half configured | ConfigApply, ApplyWorkflows |
| `gnss_ntrip` client | connection state, header buffer, metrics | Connect, SendRequest, Read, SendGga | time-outs, reconnect schedule | NtripClient |
| `gnss_ntrip` reconnect policy | attempts, next attempt time | OnFailure, OnSuccess, CanAttempt | overflow, attempt limit | NtripReconnectPolicy |
| `gnss_ntrip` local caster | source, clients, buffers, cache | ActivateSource, PublishFrame, Poll | slow clients, a source that restarts | LocalRtcmCaster |
| `gnss_ntrip` orchestrator | chosen caster | Poll | no caller in the repository | not modelled |
| `gnss_ros2` NTRIP node | tick, publishers' status | timer, status callback | one executor, competing publishers | NtripNode |
| `gnss_ros2` receiver, replay; `gnss_mavros` | adapters | spin, publish | one executor thread | not modelled |

How they meet: the supervisor's receiver worker opens a transport through a
factory, builds a `ReceiverSession` on it and drives it with
`ReceiverSessionRunner`. Its NTRIP worker runs an `NtripClient`, takes the
active link under `correction_mutex_`, and writes frames through the link's
`RtcmFrameWriter` to the transport the receiver worker is reading. Stop is
called by the owner. The serial transport is the place where the three meet:
read by one thread, written by another, closed by any of them. The command
engine, the dispatcher and the configuration application share one transport
with the response routers, in one thread, driven by the apply workflows, on the
plan that AutoConfig made for the receiver that ReceiverDiscovery found. A
`ReceiverSession` selects a protocol session; its framers cut the bytes into
records, its parsers turn records into updates, its aggregator merges them.

What makes each correct, and hard: section "hazards" of `PROJECT.json` lists
every place, with its line and the properties that watch it.

## 2. Modules

An arrow is EXTENDS unless it says otherwise; on the right the module TLC runs.

    DescriptorLease <--refines-- PosixSerialTransport
                                 TcpClientTransport
                                     both in             MCTransports, Transports_proofs
    RtcmFrameWriter <-- ReceiverSupervisor               MCReceiverSupervisor
                            ^  ReceiverSupervisor_proofs
    CommandTransactionEngine <-- ReceiverConfigApplication <-- ConfigApply
                                                         ConfigApply_proofs
        ConfigApply --refines--> ConfigurationAttempt
    ReceiverDiscovery <-- AutoConfig                     AutoConfig_proofs
        with ConfigApply in                              MCCommands
    ApplyWorkflows                                       MCApplyWorkflows
                                                         ApplyWorkflows_proofs
    NtripReconnectPolicy <-- NtripClient <-- NtripNode   MCNtripNode <-- MCNtripUsers
    LocalRtcmCaster               with it in             MCNtripUsers, Ntrip_proofs
    StreamFraming <-- ReceiverSession                    MCReceiverSession
                                                         ReceiverSession_proofs
    RuntimeState <-- NmeaRecords, UbxRecords, UnicoreRecords, PositionPayloadFreshness
                 <-- SessionRuntime                      MCSessionRuntime
    RtcmCorrectionMonitor                                MCRtcmCorrectionMonitor
        with SessionRuntime in                           DriverSession_proofs
        with it and ReceiverSession in                   MCDriverSession

Where one MC module holds several components that share no state, a variable
(`driver`, `part`, `user`) chosen in Init says which of them the behaviour is
about: the same run then asks the questions of each, and the properties of one
are vacuous only in the behaviours of the others.

### PosixSerialTransport

`posix_serial_transport.cpp`. A section under `mutex_` is one action;
`CloseImpl`, which waits on the condition variable, is split at its waits;
`open_close_mutex_` is a variable because it is held across steps. Read and
Write are one operation: acquire a lease, `poll`, the system call, release.
`poll` returns ready, empty (time-out, error) or cancelled. The port has a device
(`fd`) and a wakeup pipe (`pipe`, its two ends counted as one descriptor; `wakeup`
says that a byte is in it, and nobody drains it). Open makes the pipe, opens the
device and configures it, one action each, and each may fail (`PipeFails`,
`DeviceFails`, `ConfigureFails`) and closes what the earlier ones opened;
`NoDescriptorLeak` counts these too. Descriptor numbers
come from a set and are reused, since a recycled number is what the
protocol is there to survive. Left out: termios settings, byte counters,
`last_error_`.

`DescriptorLease` says what callers rely on: a descriptor goes away only when
no operation uses it. `ImplementsDescriptorLease` is the refinement, with the
operating system's open descriptors as `live` and, as `leases`, the device and the
pipe that each thread between acquire and release uses.

### TcpClientTransport

`tcp_client_transport.cpp`. One caller opens, reads and closes; a second thread may
only cancel (`Cancels`, the callable in the configuration). An Open is a state
machine: resolve, take the next address, connect or wait for it, then the TLS
setup with its waits; `open.stage` is the place, `open.deadline` the one budget of all
its waits. `sockets` and `objects` are the descriptors and SSL objects that exist
outside, so that a path that forgets one shows. A tick of `clock` is the interval at
which a wait looks for a cancellation. What the peer sends is numbered in chunks;
in TLS a record may hold two and `withheld` is the half the library keeps. Write, and
a read that brings no bytes, change metrics only. The resolver is external and has no
time-out in the code either. Actions and variables bear names that let one run hold
both transports (`tcpFd`, `CloseTcp`).

### RtcmFrameWriter

`rtcm_frame_writer.cpp`, as operators on a queue of entries (frame, offset).
`Flush` is a loop over sink calls between which other threads act, so one
turn of it is given: what is offered (`Remaining`), the bytes accepted
(`Bytes`), the queue afterwards (`AfterWrite`).

### ReceiverSupervisor

`receiver_supervisor.cpp`. Three processes: `owner` (Start, Stop), `worker`
(Run) and `ntrip` (RunNtrip), each with a program counter and its locals.
Sections under `mutex_` and `correction_mutex_` never block and are one action
each; `writer_mutex` is a variable, held across writes. A link is a
transport, its writer, and its incarnation; links are numbered in the order
they were opened. Transport calls follow `DescriptorLease`: Close turns an open
port "closing", which refuses new operations and lets pending ones be cancelled,
and returns when none is left. `wire` records the bytes each transport
accepted, `ggaSent` the positions offered to the caster; nothing reads them but
properties. A session is the number of its position observations and whether it
produced any update. An NTRIP client is disconnected, connected or streaming, and may
change as Connect, MaybeInjectGga and Read may change it. A connection attempt
may be made at any time: the reconnect policy only restricts when.

The universal_gnss_supervisor program opens its serial port without a read
time-out, so the model lets a read or a write block for as long as the port is
open; that it may also return empty covers transports that poll.

### CommandTransactionEngine

`receiver_command_transaction_engine.cpp` and the dispatcher it owns. One
action per public operation; `status` is the step status the call returned. The
dispatcher is the set of ends a dispatch may have: rejected, all written,
nothing written, or written in part. A command is what the engine looks at: is
an answer expected, of which identity, may it be dispatched, is it required, how
often may it be retried. `unanswered` is history: the commands of which bytes
have been written, an answer may come, and none was accepted. RetryPending is
modelled in full although nothing can reach its sending branch; that it cannot is
the theorem `RetryNeverSends`.

### ReceiverConfigApplication

`receiver_config_application.cpp`, over the engine's own
variables (an operation that both have is named `App...`). Each public call of the application makes one call on the engine,
so it is one action that conjoins the engine's action with what the application
does about `status'`. Start makes two (Reset, then StartTransaction by the
first Step) and is two actions; while `starting` nothing else is enabled.
`orphaned` is history: Reset has thrown away the list while one of its commands
was in flight. The engine then still holds that command, and a later timeout is
counted against a list it does not belong to. The properties about one list
say so by `Started`.

### ConfigApply and ConfigurationAttempt

`config_apply.cpp`, the command loop of ExecuteConfigApply and
ExecuteUnicoreCommandPhase: start, step, apply what is queued, read, process,
check the deadline. `pc` is the place in the loop, `fence` the
ResponseCausalityFence, `queue` and `partial` the response router. The receiver is
the other actor: it acts on a command at any time or never, answers yes or no,
and may answer twice. An answer is two pieces, so a read may
cut it. `ConfigurationAttempt` states what the attempt promises without any of
that; `fates` (what the host knows of each command) and `said` (what the
receiver said of it) are kept as history variables in `ConfigApply` and are the
refinement mapping.

`AttemptsAssumption` says of which lists this is asked. Only the last command may be one to which no
answer is expected, since an answer that comes all the same could be taken for the next one's: the phases of
the Unicore workflows end at FRESET and COM1, and `PlansFitWorkflows`, which `PlansFit` proves, shows that the planner emits neither
for another list. The errors of a list are not ignored, as ConfigApply leaves `continue_on_error` at its default. And a
second answer starts in the same read
as the end of the first (`ReadEndsAt`), unless the attempt marks `lateEchoes`, which
it does only where every command has an identity and no two the same. An
echo of the same identity that starts after the next dispatch cannot be told
from its answer by anything on the host; the repository says the same of its
fence.

### ApplyWorkflows

`config_apply.cpp`, what surrounds the loop: the generic application, the
SIGNALGROUP workflow, the runtime baud switch, the recovery after FRESET. A
workflow is a `script` of stages, the statements of the function in their order;
the first stage that fails empties it and reports. `Decides` puts the rest of the
SIGNALGROUP workflow in once the receiver has been asked. A command is one step
with one of the fates of `ConfigurationAttempt`; the answers in transit are
`ConfigApply`'s subject. The probe at the old baud only words an error and is left
out; so are the waiting times.

The receiver is external: it hears what is sent at its own baud while it is up, may
ignore COM1 and FRESET, which the code does not expect it to answer, and may restart
on SIGNALGROUP, keeping or losing what was not saved. Assumed: it handles commands in
order, and a restart begins before it answers anything more (the settle delay of
500 ms and the order of bytes stand for this in the code). That FRESET was carried
out is something neither the code nor any property checks: a receiver that ignored
it at 115200 is indistinguishable.

### NtripReconnectPolicy

`ntrip_reconnect_policy.cpp`, as operators on an NtripReconnectState and a time,
and a small specification of its own in which failures and successes come at
any time. Delays and times are in one unit and the multiplier in hundredths, so
rounding up and saturation are those of the code; `EndOfTime` is the greatest
time stamp. The client's run checks its limits, the proofs the rest.

### NtripClient

`ntrip_client.cpp` with `gga_injector.cpp`. Each public operation is one
action: none of them waits except in the socket, whose outcomes are the
operation's input. `Fail` takes the state and the metrics as they were when
FailWith was called, because Connect changes both before it fails. What a read
brings is a record: of a header, what it turns out to be, and of payload, the
valid frames in it and whether one is left unfinished. Of the header buffer and
the framer is kept whether they hold nothing, bytes of this connection, or bytes of
an `earlier` one, which is what a connection that ends turns the former into. The two
clocks of the code, the caller's time stamp and the steady clock of the flow
deadlines, are a parameter and `now`.

### NtripNode

`ntrip_node.cpp`: one tick of the timer is five steps, as time passes within it
and its `now_ns` is taken at its start; status messages are handled between
ticks, as both are callbacks of one executor. A publisher is a source and an
incarnation; it reports a position or something else, and publishes its state
at any time, as often as it likes; a retired one only repeats what it published last.
`expected`, chosen once from `Settings`, is what `expected_source_incarnation` allows: one
incarnation, or every publisher if it is not set. A message with half a source is one of a
publisher no setting allows. A legacy publisher names no source and counts no
observations: its stamp tells them apart. `arrived` is history, and says whose state the node
took over last, whatever `active` says. Diagnostics and the frames published are left out: the node acts
on neither.

### LocalRtcmCaster

`local_rtcm_caster.cpp`: a single-threaded server. One action per public call; Poll
serves every client in one step, as the code does, with the outcome of its `recv` and
its `send` chosen per client. A byte is a pair (what it belongs to, its place), so a
torn frame or one of another source is seen on the wire. The response and every frame
are two bytes. `published` and `period` (the changes of source) are history and say what a
client should have been served.

### StreamFraming and ReceiverSession

`StreamFraming` holds the framers of `gnss_protocols` (UBX, Unicore text and binary, NMEA, RTCM)
with their resynchronisation, and the loops with which the three vendor sessions drive
them, as operators on finite sequences. Bytes are numbers; headers are reduced to the sync
bytes and a length of one byte, checksums to a parity; limits, line ends, failed
checksums and retries are the code's. '!' is treated as '$' and '%' as a '#' line without
checksum. `Process`, the loop of a session, is a function by recursion on what is left
to read. `ReceiverSession` (`receiver_session.cpp`, `stream_detector.cpp`) has one action per
public call. `wire` is what a receiver will ever send; the session's buffers are
segments of it, given by `begin`, `got` and `done`, so "read at once" and "read
byte by byte" can be compared on the same bytes.

### RuntimeState, the records, PositionPayloadFreshness, SessionRuntime

`RuntimeState` is `runtime_aggregator.cpp`: an update says of each field that it is set,
cleared or not mentioned, and the aggregate keeps the time each field comes from.
`NmeaRecords`, `UbxRecords` and `UnicoreRecords` are what the parsers accept and what their converters
turn a record into; a record is what its fields denote, with `NoValue` for an empty field and
`Garbled` for one that cannot be read. `PositionPayloadFreshness` is the tracker of
that name: counters of positions, changes, repetitions, epochs, with the roll-over of
time of day and time of week. `SessionRuntime` composes them as the sessions do: one
action takes one record through its routing, the mixed-NMEA rules of a Unicore receiver,
the satellite accumulators, the tracker and the merge. `Day` and `Week` shorten the two
clocks that start again.

### ReceiverDiscovery and AutoConfig

`receiver_discovery.cpp`: ports are listed under several names, resolved, and each device is
probed at one rate after another until the evidence suffices; a candidate is the best
probe of a device. What a device sends is a sequence of items of one size; evidence is the
set of kinds seen, with the code's weights. `receiver_auto_config.cpp` and the profile builders
are `AutoConfig`: from the candidate, or a family that the user named, to a plan of
commands, refusals included. `bauds` is the list that is tried: with a baud rate of the
user's only that one, at the path the user names or at every port;
a device path without discovery is in `request.looks`. The model that discovery found is not
copied into the request, as in the code. QueryReceiverModel is left out.

### RtcmCorrectionMonitor

`rtcm_correction_monitor.cpp`, with the arrival estimate that `NtripClient` keeps beside it
(`FeedRtcmMonitor`). One action takes one frame, valid or not; a type stands for its kind (one
MSM type per constellation). Time stamps are those of the steady clock,
or absent (`Stamps`). The history of arrivals, the stations, health and its events are kept as
the code keeps them; `log` is the history against which the properties recount.
ObserveMessage is called by tests and tools only and is left out. A `Window` or a `StaleAfter` of zero
switches the check off, as in the code; what is available is asked where there is a window.

## 3. Runs

| Run | Question, and the properties that ask it | Bounds |
|---|---|---|
| `transports` | the serial port under three threads (`NoDescriptorLeak`, `ImplementsDescriptorLease`, `CloseTerminates`), a TCP connection set up and cancelled (`NothingLeftBehind`, `SetupWithinBudget`) | 3 threads, 3 descriptors; 6 configurations, budget of 2 ticks, 2 addresses, 4 sockets, 4 chunks |
| `supervisor` | corrections over reconnects and two Start/Stop cycles: `FramesKept`, `StateOfThisIncarnation`, `StoppedMeansQuiet`, `BytesOnlyToLiveSession` | 2 links, 2 frames of 2 bytes, queue of 2, no positions, 2 Starts |
| `stopping` | positions, and liveness under scheduling fairness: `GgaOncePerObservation`, `StopTerminates`, `DeadLinkRetired` | 2 links, 1 frame of 1 byte, 1 position per session, 1 Start |
| `forwarding_doc` | the header's statement on incarnations; a counterexample is expected | 2 links, 1 frame |
| `commands` | any calls on the command engine and on the application over it (`NoForgottenCommand`, `QuarantineIsFinal`, `AgreesAndAccounts`); the command loop against a slow, silent or repetitive receiver (`ImplementsAttempt`, `EveryAttemptEnds`); discovery and the plan for what it found (`DiscoveryIsComplete`, `PlansFitWorkflows`, and in `WrittenAsAskedToTheProven` `PermanentOnlyIfAsked` and `OnlyTheProvenReceiver`) | 7 commands of 2 identities and of none, 4 transactions between resets, lists of up to 3; 5 attempts of up to 3 commands, two answers each; 2 devices behind 4 names, 2 rates tried in 3 lists, 9 behaviours, about 190 requests |
| `workflows` | the four workflows against a receiver that restarts, reverts, ignores, refuses (`ReportIsTrue`, `EveryCommandOnce`, `WritesInPlace`), and their end (`EveryWorkflowEnds`) | 9 plans of up to 5 commands, 3 bauds, 2 groups |
| `node` | any calls on the client and the node between a caster and its publishers (`ConnectionsApart`, `LossesAreRetried`, `GgaFromFreshPosition`); the local caster (`ServedWhole`) | 2 casters, Horizon 2, 3 failures between successes; 3 publishers (present, legacy, retired), 2 updates each, one incarnation expected or any; 2 clients, a buffer of two frames, 2 frames, 3 changes of source |
| `node_live` | retries and deadlines under fairness: `RetriesHappen`, `SilentStreamEnds` | no positions, 1 read a tick, Horizon 4 |
| `driver` | bytes to records (`RoutedOnce`, `AsIfReadAtOnce`), records to the receiver state (`NoFixNoPosition`, `FreshnessDescribesObservations`, `CycleCountsOnce`, `NewestWins`, `PositionNotFrozen`), RTCM frames to health (`OneStation`, `AvailableIsTrue`, `RatesExact`) | streams of two segments, of two damaged records and a valid one, of a line without end, sync bytes and a record or its beginning, or of a frame that a line takes apart; frames of up to 12 bytes, lines and buffer of 8; 3 records, clock 3; 2 stations, 3 frames, 2 connections, clock 3 |
| `ublox_duplicates`, `native_position`, `arrival_age` | three statements that the code does not keep; counterexamples are expected | as `driver` or smaller |

What each property says is in the comment above its definition.

Why the bounds are enough. Serial port: a use after close needs a user, a closer and a
reopener; a port takes two numbers, its device and its pipe, and with three a
reopened port may take the same, the same exchanged, or a new one. TCP: a first address that fails and a second, with every combination of TLS,
time-out and cancellation that the code tells apart; a third address repeats the second.
Supervisor: a torn frame needs a frame cut in two (2 bytes), a
second frame behind it in the queue, and a second link to send the rest to;
what leaks from one run needs a second. The bounds MaxLinks, MaxFrames, MaxPositions and
MaxRuns stand in guards of the model (`RunOpens`, `NtripReads`,
`SessionSteps`, `Start`): past them the program goes on without the event, by
failing opens, silent casters or a receiver without a fix.

Commands: a forgotten command needs one sent and one after it; the commands
cover every combination the guards tell apart. A list of three
has a first, a middle and a last command, required and optional. An answer
credited to the wrong command needs two commands of one identity; the third
makes a failure in the middle visible. MaxTransactions stands in the guard of
`Start`, the action of a caller that does not stop; the application and the loop do not use it.
Discovery: two devices make one of them wrong, more names than devices make
one device found twice, two rates make a wrong one; MaxHeard lets a probe hear more than one
record, so that evidence may be mixed (that something outweighs an answer takes more, and is left to the
proof). The requests are every family, profile,
mode and destination that the planner tells apart.

Workflows: the plans have the planner's shapes (FRESET and COM1 first, SAVECONFIG last;
`PlansFitWorkflows` of `commands` shows that the planner makes no other)
with one command of each kind on each side of SIGNALGROUP, which every cut into
phases needs; three bauds are the old one, the planned one and the factory's.

Client, node: the delay reaches its cap and the attempts their limit within
three failures; a deadline of one or two units can pass before, between and
after frames within the Horizon. Time stops at Horizon: what is due
later is not asked about. MaxFailures stands in the guard of `ClientNext`;
`NodeNext` does not use it, there the delays bound the failures. MaxUpdates
stands in `Updates`: past it publishers repeat themselves. MaxReads is eight in the code;
two turns of the loop already differ only in what they bring, and one keeps
the run small. A stale position needs one observation published twice with
StaleAfter between; a competing source needs a second publisher that the setting allows, and
a retired one that is rejected needs the setting of one incarnation. Local caster: two
frames fill a buffer, so the second makes a slow client one too many behind; a second client shows
that only that one is disconnected, and the third change of source lets an old one come back.

Driver: the shortest streams in which one record hides in another, spans two reads, is cut
by the limit of the buffer, or follows two damaged ones; every cut into reads is explored. Three
records: one that sets a field, one that contradicts it, and one late or
repeated between them. Three frames: a station, the other one, and the first again; the clock passes
every window. A reader who wants more has only to raise the constants; the state count grows
by about ten with each record.

### The four counterexamples

`forwarding_doc`: a flush on link 1 completes a
frame and releases `writer_mutex`; the receiver is lost, link 2 opens and
incarnation 2 is published; then the NTRIP worker takes `mutex_` and sets
`forwarding_active`. The counters it adds to are cumulative and stay right
(`FramesAccounted`); the flag and the queue depth are shown for the wrong
incarnation until the next flush or reconnect.

`ublox_duplicates`: the header of a damaged UBX candidate contains a valid record.
The probe finds it and the session routes it, then advances from the start of the candidate by the
size of the record, meets the record again, and routes it a second time. The Unicore and NMEA
sessions advance to the end of the candidate or of the record and keep `RecordedOnce`.

`native_position`: a Unicore receiver reports a position with BESTNAV, then a GGA sentence
without fix. While the native position is fresh the values of the GGA are pruned, but not its
requests to clear, so the coordinates go and the fix stays. `NoFixNoPosition` in `driver` is stated so
that it does not depend on this.

`arrival_age`: an MSM frame of a second station, or one without cells, is decoded and
moves the arrival time, although the owner of the stream is another station or nobody.

### Fairness

`stopping` assumes weak fairness of each thread's steps (`OwnerSteps`,
`WorkerSteps`, `NtripSteps`): a runnable thread is scheduled, and every wait on a
mutex or condition in it ends when its condition stays true. Nothing is
assumed of the environment: `RunReadReturns`, `NtripWriteAccepted` and
`NtripWriteFails` have no fairness, so a silent receiver may block a read or a
write for ever, and only Close ends it. The serial port in `transports` does the same:
`PollReady` and `PollReturnsEmpty` have no fairness.

`workflows` and, of the command loop, `commands` assume that the tool's thread runs (`WorkflowStep`;
`LoopStep`, which includes a read that returns empty: the apply transports have a read time-out); `commands`
also that time passes (`DeadlinePasses`). Each wait of a workflow has a deadline or a number of
attempts. Nothing is assumed of the receiver, nor that a read fails; a restart need never end.

`node_live` assumes that the executor is scheduled (`NodeStep`: a tick goes on, and
the timer fires again) and that time passes (`TimePasses`). The node's socket
is nonblocking with a bounded connect, so no step of a tick waits. Nothing is
assumed of the caster: it may refuse, close, or send bytes for ever.

## 4. Proofs

`Transports_proofs` proves of the serial port, for every set of threads and of
descriptors (`ThreadsFinite`, `NoFdAssumption`: the -1 of the code is no descriptor):
`TypeCorrect`, `DescriptorSafety`, `DescriptorsAccounted`, `LeaseCount` and
`Refinement`. None is inductive alone. The inductive invariant `IInv` adds
`LockHeld` (a thread inside CloseImpl or Open owns `open_close_mutex_`, so
there is at most one), `StagesOfClose` (what `fd_` and the thread's own copies
are at each stage of a close and an open) and `Paired` (a device and its pipe, or
neither). The counter equals the number of leases, so a
drained counter means that no holder is left, which is the step on which
`NoUseAfterClose` and the refinement rest.

Of the TCP client it proves, for every set of configurations, any budget and any number of
addresses: `TcpTypeCorrect`, `SetupReleasesAll` and `SetupEndsInTime`. The inductive
invariant, `TcpIInv`, is `TcpTypeOK`, `Ownership` (the descriptors and SSL objects that exist are exactly
those which `fd_`, the session or the call under way owns, by stage),
`StreamOfConnection` (read, withheld and arriving bytes are consecutive bytes of the connection
that is open) and `WaitsEnd` (a wait begins before the deadline and not after a cancellation, and lasts
to the deadline or one interval at most).

`ConfigApply_proofs` proves of the engine, for every set of commands and of
identities and without the bound on transactions mattering: `EngineTypeCorrect`,
`DoubtIsRemembered`, `RetryNeverSends`, `AccountsBalance`, `QuarantineHolds`.
The inductive invariant adds `SlotInv` (a transaction in the slot was sent once,
and if it timed out the session is in quarantine), which makes RetryPending's
sending branch unreachable, and `DoubtInv` (outside quarantine the number of
commands in doubt is one if a command is awaited, else zero), which is
what lets an accepted answer settle all doubt.

It proves of the application `ApplicationAgrees`, for every set of commands and of lists
(`ListsAssumption`), whether or not the application continues on an error. It uses the
engine's part, so that what a call does to the engine is cited, not proved again. `Waiting` is the heart: an answer is outstanding only
while the application waits for it, or, in quarantine, because Reset threw its command
away. `Applied` is the one strengthening of the counters that the step needs.

`ReceiverSupervisor_proofs` proves, for any number of links, frames, positions and
runs (so the guards that stop at them cut nothing off), any writer capacity and any frame
size of at least one byte (`BoundsAssumption`, `CapacityAssumption`, `FrameBytesAssumption`):
`SupervisorTypeCorrect`, `StateIsOfItsIncarnation`, `StopLeavesNothing`,
`FlushOwnsItsFrame` and `BytesReachTheLiveSession`. Each shared variable is tied to the
program counter of the thread that answers for it: the snapshot to what the receiver worker
is doing (`Shown`), the end of Stop to the workers it has joined (`Joined`), a link that
another thread holds to its having been made active (`Sharing`), and a link's port,
operations, lock and queue to who holds them (`InUse`). Only together are these inductive: a
queue that Stop finds empty stays empty because the link that the NTRIP worker still
holds has a closed port, and ForwardRtcm looks at the port under the lock that Stop took.
`PositionsOfferedOnce` adds `GgaSeen`: while the worker is at the link of the last position offered,
in its session or after it, the NTRIP worker remembers that position under the incarnation shown.

Its last part is about frames: `NoFrameIsTorn` and `CorrectionsAreKept`,
which is `FramesKept`. `Numbered` says that what is queued or on a wire has left the
list of the read, so a frame is queued behind smaller ones; `Unbroken` says
that the head of a queue continues its wire, and that a frame cut short is left only
on a port that takes no more. `Counted` is the balance while a call is in progress: frames
that the call has completed and not yet added to the snapshot. It needs `LastOpened`: the session
that takes bytes is the last one opened, and one of this run, so a
frame of an earlier run is never added to the counters that Start has reset.

`Ntrip_proofs` first proves the reconnect policy, for every policy and every clock:
`LimitsHold`, `RetriesWait`, `BackoffGrows`, and `PolicyTypeCorrect` with them. The invariant adds
that a delay once set is at least the first one (`DelaySet`); the step rests on
`NextDelayBounds`: each next delay is within the limits and at least the last, which is
integer arithmetic: multiplying by at least one hundred hundredths and rounding up. Then the
client, for every policy, threshold, deadline and set of casters:
`ClientTypeCorrect`, `ConnectionsStayApart` and `LossesCount`. `ClientInv` is the agreement of
state, metrics and socket together with `Attempts`: a policy that has given up has
reached its limit, without which "every loss counts" is not inductive, as the
counter stands still then. The lemmas on schedules say once what any call may
do to the records that hold times. The invariant asks nothing of the clock but that it
does not go back within a call, so the node, whose time stamp is older than its clock, inherits it.

On top of that it proves of the node, for every set of publishers: `LossesRetried` and
`GgaStaysFresh`. `Scheduled` holds at every step of a tick and not only between ticks:
after the first connect a node without a connection is `failed`, with a schedule or at the
end of its policy. `Remembered` ties what the node keeps of the last observation to whose it was and when that
observation first arrived, so publishing it again cannot refresh it, and no other publisher's can take its place.

Of the local caster it proves `ServesWhole`, which is `ServedWhole`, for any clients, sources and frames,
without a bound on periods and for a buffer of any size. `CachedIsLast` is what makes it hold: the cache is what was
published last in the present period, because whatever begins a period empties it. `Served` adds to what a client got
what is still due to it, so that a client that is cut off at any byte has a prefix. The
rest is algebra of sequences: publishing appends the same two bytes to what waits and to what is due
(`DueOneMore`), sending splits what waits (`SplitAt`).

`ConfigApply_proofs` also proves `LoopRefines`, that the apply loop implements `ConfigurationAttempt`, for
every list of commands that `AttemptsAssumption` allows and a receiver that may say anything at any time. `LoopInv`
has two halves. The first is bookkeeping: `FatesInOrder` (the commands before the present one have
passed, it is sent or not, those after it are unsent), `UnderWay` (where loop, application and
receiver are with the list), `InHand` and `Unasked` (a receiver has at most one command in
hand, has not answered it, and has said nothing of a command it did not get). `MetReports` takes a fate
through the application to the abstract step and its report. The second half is the argument
that an answer is about the command it is taken for. Pieces read and unread are one `Stream`. `Truthful` says
that each piece and each queued response is what the receiver said of its command. While a command is
waited for, whatever is about another one is the rest of one answer that began before the
dispatch (`OnlyOurs`) or is queued from before it (`OldOnesFenced`), so the fence drops it; `EchoesRead`, which
holds because no read ends between an answer and its echo, makes `NothingUnread` true
when the answer is taken, and this is what makes the first two true at the next dispatch
(`AnswerEnds`, `DispatchFences`). Attempts with late echoes need none of this: `AnswersPresent` takes the
command from its identity. The application's own invariant comes from the first part of the module:
`StepOfApplication` shows each step of the loop to be one of its calls or none.

`ApplyWorkflows_proofs` proves the four workflows for every plan, every set of baud rates and
signal groups and any number of probes, in two halves. The first, `Progress`, is about plans of
either vendor: `Shape` (what a script may consist of), `Pending` (a command that nothing became of is
in exactly one place of the script, and no other is in it), `Counted` and `Judged`. It gives
`CommandsOnce` and `DoubtIsReported`. The second, `Faithful`, is about what is known of a Unicore
receiver, which may restart and lose what it was told at almost any step. `InReach` says that before
every stage that needs the receiver it is known to listen at the baud of that stage, from the start or because
a wait, a probe or a scan in between goes on only when it has been heard, and that nothing between the two
unsettles it again. `Arranged` is the order of the stages: what undoes settings comes before
them, a check follows SIGNALGROUP, SAVECONFIG is last. With
`Untouched` (nothing was sent behind a command that is still to undo it), `InForce` (what was accepted
is in the receiver), `Asked` and `Opened` it is inductive, and gives `ReportHolds` and
`WritesWait`. This half rests on `PlanAssumption`, the planner's form of a Unicore plan, which the
run `commands` checks of every plan made and `PlansFit` proves in the planner's own terms
(`PlansFitWorkflows`). That a script has these properties
is shown where it is put together: lemmas on joined sequences (`JoinArranged`, `JoinProvided`) take
it from its parts, and the first command of a kind is found by well-founded induction (`Least`).

`AutoConfig_proofs` proves `Written` (`WrittenAsAskedToTheProven`) and `PlansFit` (`PlansFitWorkflows`), for any
ports, devices, baud rates, thresholds and options, and without the bound on what is heard mattering. It assumes
that an option that is not given is no model and no baud rate (`AbsentAssumption`). The
invariant is `HonestSoFar`: a result that says its device answered names that device's model and a baud rate at which
it speaks. It rests on what was heard so far being what the device sends at this
baud rate, and it is kept by every probe, by the choice of the best one and of any result, so the theorems do not
depend on how results are weighed or sorted. The other half is about the plan alone: a Unicore plan is six
sequences joined (`SixParts`), each of commands of one kind except the fixed settings
(`UnicoreLayout`), from which `PlacesOf` reads where each kind is. That a new baud rate is never the
present one needs both halves: the run requires a verified answer, and the profile compares with the rate of that answer.

It also proves `DiscoveryCompletes` (`DiscoveryIsComplete`), here with the weights and the sorting as they are. It assumes
that a listed name has one of the four sources and that two paths of one source are two names (`NamesAssumption`), and
that the threshold is no more than the score of a verified answer (`ThresholdAssumption`; it is 100 and no caller sets
it). `Weighed` is what the weights amount to: what is recognised has a score of 10 at least and some confidence, and
what is not has hardly any. `Tops` is the invariant of a port's probes: the best so far has the greatest score, and
is a receiver if one was heard, unless a probe of no receiver outweighs it. The order of the results is total
(`InOrder`), so one of them is first; the names of a device are ordered too, so one of them is kept, and the
sequence of ports holds each kept name once because it has as many places as there are names. The proof
showed that the property as it was first stated, without `Outweighed`, held only because two items are heard at most
in the run: see Observations.

`DriverSession_proofs` proves what the driver's sessions keep, for every set of records that a receiver may
send and any times of arrival, without the bounds on records and time mattering: `NewestIsKept`
(`NewestWins`), `LostFixTakesPosition` (`NoFixNoPosition`), `CyclesCountOnce` (`CycleCountsOnce`), `CountersDescribe`
(`FreshnessDescribesObservations`) and `PositionStaysLive` (`PositionNotFrozen`). It assumes what the parsers
guarantee of a record: a GSV message that is parsed has a number of messages and at most four satellites
(`SentencesAssumption`), a NAV-PVT tells the carrier solution (`UbxAssumption`), native logs carry their epoch and
the binary ones their coordinates (`NativeAssumption`), a Unicore session takes its records in the order of
their first bytes (`OrderAssumption`); and that what is missing is no value (`MissingAssumption`). The update algebra comes first:
`Agrees` is what an update says of time, fix and position, and each of the parsers' conversions keeps
it, whatever else it adds. From it, `Backed` (coordinates that are shown are no younger than the fix, and the word
that there is no fix is no younger than that there are no coordinates) gives the lost fix, and `VersionsKnown` (with
a clock every version is a time; without one none is, `VersionsAlike`) the newest value. `CyclesSound` says that a
talker tracks no more satellites than the distinct messages it has seen can carry. `TrackerRemembers` is the one that needs a witness: that the first of the observations
unchanged at the end exists is kept from step to step, since a minimum cannot be computed by induction. With it,
`NativeBacks` (a native position that is recent is one that the sessions published, at its time) makes a
counted position a published one.

Of the monitor of the corrections it proves `OneStationOwns` (`OneStation`) and `AvailabilityIsTrue`
(`AvailableIsTrue`), for any frames, stations, windows, sessions and sources, stamped or not. `OwnerHolds` adds to
the property what makes it inductive: a stream that nobody owns has accepted nothing on this connection, so that the
first owner finds nothing of another one. Availability compares the monitor with the log of frames: `BaseKnown`,
`MsmKnown` and `LastKnown` say of the three things it is made of which frames they come from, and `OursGrow` what one frame
does to the owner's frames: one more, or all gone with the old owner. That frames are logged in the order
of their times (`LogTyped`) is what lets one latest time stand for all of them.

`RatesCountEach` (`RatesExact`) compares sums with numbers of frames. `RatesTallied` is the invariant: as long as one
station is heard, a bag of times has, of every time that the retention still covers (`Recent`), as many as
frames of this connection came then. It is kept because what `AppendTimestamp` prunes is older than any
window (`AppendedSays`: no time is later than the clock, so the latest is not either), and because a
stream of one station is never foreign to what is known of it, so nothing is forgotten before the connection is
(`StationsHeard`: each station known was heard, `NeverForeign`). That the sum over a window's times is the number of
frames of those times (`CountedInWindow`) is shown of the recursive function that `MapThenSumSet` is: the numbers of
frames, by sets of times, are a solution of its equation (`SumExists`), and any two agree, since a least set on which
they did not would have a smaller one (`SumUnique`, `Least`).

`ReceiverSession_proofs` proves `RecordsRoutedOnce` (`RoutedOnce`): for any stream, any cut into reads and whichever
protocol is configured or recognised, and without a bound on streams, records, lines or buffers mattering, a record that nothing
damaged reaches is routed as soon as its last byte was read, and by a Unicore or NMEA session no byte is in two records. It assumes
that a frame may have four bytes and a line one (`FramingAssumption`), and that the kinds of session are the code's
four and a stream is one of bytes (`SessionAssumption`). The proof goes from the inside out. What a framer makes of
one more byte (`Outcome`) is all that the framers have in common: it goes on, has a record, or
resynchronises, and what it may take with it is within reach of the byte that began it
(`Closely`). One turn of the loop of a session (`Consumed`, `WentOn`) leaves a valid record that begins where the turn begins
either under way or routed (`ConsumeValid`). `Clean` is the set of offsets from which the stream is fair: that nothing damaged reaches
them is defined by going up from the first offset, and is used as the fixed point that this reaches. `Did` says of the whole loop what it did
with the offsets it passed, by descent over the function `Process`; as the NMEA session has one framer and no loop, `NmeaHas` says the same
of it directly. Replay byte by byte is a fold, taken apart step by step. `Child` says of a
session that it has done what `Did` says over all the reads so far, and `SessionInv` adds where the buffers begin and end; it is inductive
under reading, finalising and resetting.

Only model-checked: everything about liveness
(`CloseTerminates`, `StopTerminates`, `DeadLinkRetired`, `EveryAttemptEnds`, `EveryWorkflowEnds`,
`RetriesHappen`, `SilentStreamEnds`; ENABLED and
fairness are out of the prover's reach);
and `AsIfReadAtOnce`, which compares what a session did over many reads with one run over all the bytes: it is a
statement about damaged streams too, where nothing short of the framers' whole state decides what comes next, and so
would need each framer's resynchronisation to be shown the same from any cut.

## 5. Plan

Done: what shares state between threads (serial port, TCP, supervisor), what
leaves a receiver in doubt (command engine, application, apply loop, workflows), how a receiver is found and
what it is sent (discovery, plans), the NTRIP client, node and caster, and the
stream from bytes to receiver state and correction health.

Left, in the order of what they would add:

1. `ReceiverNode` and `ReplayNode`: transport, session, reconnect and watchdogs on
   one executor thread, as a composition of `ReceiverSession` and `SessionRuntime`.
2. The caster orchestrator, the UDP transport and the MAVROS fragmenter: small, and with little order.

## 6. What is not modelled, and why

- The UDP transport (nothing is kept between calls but metrics), the caster orchestrator (no
  caller in the repository), the ROS 2 receiver and replay nodes and the MAVROS bridge
  (adapters on one executor thread), the command-line tools other than the apply
  workflows. `PROJECT.json` gives the state of every component.
- Decoding of a field from its text or bits, builders of the text of
  configuration commands, formatting, exports, log comparison, quality
  reports: data without control; their results enter the models as choices.
- `QueryReceiverModel` and `ObserveMessage`, which only tools and tests call; the restart of a
  TCP connect that a signal interrupts (ConnectWithTimeout).
- Socket calls, termios, the TLS library and serial drivers: external; they appear as the
  outcomes the code distinguishes.
- Byte counters, time stamps and last-error texts, unless a decision reads them.
- Time in the supervisor and the workflows: a deadline has passed or not, a delay is over at any
  time. Where a property is about a schedule, the module has a clock.

Two properties say less than one may think. `GgaOncePerObservation` is about a position sent
twice or out of order; one of a new session that is skipped breaks no property, as the code may
skip any (the count it compares says only that there is a newer one). `RatesExact` is
checked on frames whose stamps are those of a clock that does not go back; frames without a stamp
are in its theorem only.

Three more weaknesses are known and have no property, as the code makes no attempt against them:
a second answer of the same identity whose first byte comes after the next command was sent cannot be
told from its answer (`config_apply.cpp:1578`); each command phase of the Unicore workflows starts with a
new engine and a new fence, which know nothing of the phase before (`config_apply.cpp:1778`); and
no deadline runs before a caster's response header is complete, so a caster that accepts the
connection and stays silent keeps the client connected (`ntrip_client.cpp:872`).

## 7. Observations

What the models show of the code beyond the four findings. They are statements about
behaviour that the source leaves open; none is counted as an error here.

Sessions and records:
- The Unicore session skips the whole of a damaged candidate in which it finds a valid record,
  and with it what else the candidate holds; `RoutedOnce` asks only for records that nothing damaged reaches.
  What reaches a record is decided from the first byte on: a sync byte inside a valid record is harmless only if nothing
  damaged reaches that record either, since else it may be taken apart and its inside searched for records. A first form of the
  property took every such byte for harmless; that held of the streams the run had then; `MCTaken`, which refutes it, is now one of them.
- How the reads cut the stream decides what a Unicore session still holds: once a line has overflowed,
  its N4 framer restarts on a repeated sync byte and the session keeps the one before, whereas one read of both resynchronises past
  it. The records are the same, as `AsIfReadAtOnce` says; that what is held is the same, which the property said before,
  was true only of streams in which no line longer than MaxLine precedes a repeated sync byte.
- ReceiverSession falls back to Unicore on '#' lines whose checksum was not verified.
- On the GGA path HasFreshMixedNmeaSample is always true.
- A native record without fix, followed by a valid GGA while it is fresh, leaves coordinates under "no fix".
  Native logs of an unknown position type keep the NMEA fallback out all the same.
- Unicore GSV and NAV-SAT never clear the mean and maximum C/N0; a GGA that is pruned keeps its `rtk_mode`; a
  BESTNAV that is not computed keeps the `rtk_mode` of its type; binary native records do not leave
  the satellite counts to NMEA.
- GSA and RTKSTATUS set a valid fix without coordinates; a valid RMC overwrites an RTK fix by a plain one; a
  valid GGA without coordinates keeps the old position.
- A receiver whose records carry different clocks always shows `domain_changed`.

Discovery and plans:
- Between baud rates the score alone decides, recognised or not (`IsBetterProbeResult`). If at one baud rate more is heard
  that is no receiver, UBX frames beside heartbeats or NMEA where `allow_generic_nmea_fallback` is off, a receiver that
  answered VERSIONA at a later one is reported as unknown (`Outweighed`). It takes a stream of more than 100 points before the
  answer comes: six GGA, on a port whose baud rate does not matter.
- A flood of NMEA reaches the threshold before the answer to VERSIONA and ends the probe. With evidence of two vendors and
  NMEA first, Unicore is chosen although the note says "earliest". The note `read_failed` is overwritten by `no_data`;
  negative scores and the notes of ports that did not open never surface; a silent port is not reported as
  `docs/tools.md:113` says.
- `docs/driver.md:633` and `docs/tools.md:65` call discovery read-only; it writes VERSIONA
  (`receiver_discovery.cpp:1196`).
- `docs/auto_configuration.md:410` and `:518` and `docs/driver.md:512` say that an unknown Unicore model falls
  back and skips SIGNALGROUP; the planner refuses it.

Corrections:
- The documentation and the code disagree on what resets the backoff. `docs/ntrip.md:297` ("optionally reset backoff
  state after a successful connect") and `:308-310` (`reconnect_state()` is updated on "successful connections") say that a
  connection does; the client resets it only once `operational_min_valid_rtcm_frames` valid frames have come
  (`ntrip_client.cpp:898`, `:1011`), and `ntrip_config.hpp:60-62` says why: "two complete valid frames avoid resetting
  backoff for connect-one-frame-drop loops". The models follow the code, so `BackoffUntilOperational`, and with it
  `LossesAreRetried`, asserts what the two lines deny; its mutant `ConnectedIsSuccess` is the behaviour they describe. It is the
  document that wants correcting.
- An invalid frame refreshes the clock by which the stream gets stale. A clock that goes back makes corrections "missing".
  Two stations that alternate start the grace period again each time. After a reset of state that nobody
  owned, FeedRtcmMonitor misses one arrival.
- Local caster: bytes of the old source that are still buffered precede the frames of the new one.
  `docs/ntrip.md:78` asks for a new incarnation of a source that restarts; ActivateSource
  (`local_rtcm_caster.cpp:162`) compares with the last source only.

TCP:
- With TLS and a read time-out, Read polls the socket before SSL_read, so the rest of a record that is decrypted
  already is held back until more arrives.
- A TLS setup that is cancelled or late may report a connect failure, if the last address gives no socket, where
  `docs/transport.md:280` says closed.
- SSL_write in Write is outside ScopedSigpipeBlock.
