--------------------------- MODULE RtcmFrameWriter ---------------------------
(***************************************************************************)
(* gnss_transport/src/rtcm_frame_writer.cpp: the bounded FIFO of complete  *)
(* RTCM frames that feeds a receiver's correction input.  A queue is a     *)
(* sequence of entries, each a frame and the number of its bytes already   *)
(* accepted by the sink.                                                   *)
(*                                                                         *)
(* The loop of Flush calls the sink once per turn, and other threads act   *)
(* between two calls, so Flush is given as the operators of one turn:      *)
(* the offered bytes, and the queue after the sink's answer.               *)
(***************************************************************************)
EXTENDS Naturals, Sequences

CONSTANTS
  Capacity,    \* capacity_
  FrameBytes   \* bytes in a frame; every frame has the same size here

ASSUME CapacityAssumption == Capacity \in Nat
ASSUME FrameBytesAssumption == FrameBytes \in Nat \ {0}

Entries(Frames) == [frame : Frames, offset : 0 .. FrameBytes - 1]

\* Enqueue succeeds: frames are never empty here.
CanEnqueue(queue) == Len(queue) < Capacity
Enqueue(queue, frame) == Append(queue, [frame |-> frame, offset |-> 0])

\* What a turn of Flush offers to the sink.
Remaining(queue) == FrameBytes - Head(queue).offset

\* The bytes the sink takes from the head, as <<frame, position>> pairs.
Bytes(queue, accepted) ==
  [i \in 1 .. accepted |-> <<Head(queue).frame, Head(queue).offset + i>>]

\* The turn completes the head, which is popped and counted.
Completes(queue, accepted) == accepted = Remaining(queue)

\* Mutant: a partial write does not advance the offset of the head.
AfterWriteFromStart(queue, accepted) ==
  IF Completes(queue, accepted) THEN Tail(queue) ELSE queue

AfterWrite(queue, accepted) ==
  IF Completes(queue, accepted)
  THEN Tail(queue)
  ELSE [queue EXCEPT ![1].offset = @ + accepted]

Abandoned == << >>
==============================================================================
