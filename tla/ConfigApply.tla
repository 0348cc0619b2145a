----------------------------- MODULE ConfigApply -----------------------------
(***************************************************************************)
(* gnss_tools/src/config_apply.cpp: the loop that drives a                 *)
(* ReceiverConfigApplication over a transport (the generic loop of         *)
(* ExecuteConfigApply, and ExecuteUnicoreCommandPhase, which do the same), *)
(* with the ResponseCausalityFence and the response routers that feed it.  *)
(*                                                                         *)
(* The host is one thread; the other actor is the receiver, external, as   *)
(* the code has to expect it: it acts on a command at any time or never,   *)
(* and may answer twice (Unicore sends "<OK" and echoes the command).      *)
(* An answer travels in two pieces, its first bytes and its last, so that  *)
(* a read may end inside it.  Telemetry between answers is left out.       *)
(***************************************************************************)
EXTENDS ReceiverConfigApplication

CONSTANT
  Attempts   \* records of a family, its non-empty list of commands, and
             \* lateEchoes: a second answer may arrive apart from the first

Families == {"ublox", "unicore"}

\* A list ends at a command to which no answer is expected, as the phases of
\* the workflows do at FRESET and COM1: the receiver may answer all the same,
\* and nothing tells that answer from one to the next command.  Late echoes
\* are allowed for where every command has an identity of its own.
\* ConfigApply leaves continue_on_error at its default.
ASSUME AttemptsAssumption ==
  /\ Attempts \subseteq [family : Families, commands : Plans, lateEchoes : BOOLEAN]
  /\ \A a \in Attempts :
       /\ a.commands # << >>
       /\ \A c \in 1 .. Len(a.commands) - 1 : a.commands[c].answered
       /\ a.lateEchoes =>
            /\ a.family = "ublox"
            /\ \A c \in DOMAIN a.commands : a.commands[c].target # NoTarget
            /\ \A c, d \in DOMAIN a.commands :
                 a.commands[c].target = a.commands[d].target => c = d
  /\ ~ContinueOnError

VARIABLES
  attempt,    \* the plan being applied
  pc,         \* where the loop is
  fence,      \* ResponseCausalityFence: last and minimum generation
  partial,    \* generation of the answer being received, 0 if none
  queue,      \* the router's queued responses
  chunk,      \* what is left of the bytes of the last read
  overdue,    \* the current command's deadline has passed
  report,     \* ConfigApplyResult: status and receiver_state_indeterminate
  received,   \* commands the receiver has got and not acted on
  inbound,    \* pieces of answers on their way to the host
  said,       \* history: the receiver's answer to each command
  fates       \* history: what the host made of each command

hostVars == <<attempt, pc, fence, partial, queue, chunk, report, fates>>
receiverVars == <<received, inbound, said>>
vars == <<appVars, hostVars, overdue, receiverVars>>

NoReport == [status |-> "none", indeterminate |-> FALSE]
Everyone == DOMAIN attempt.commands

Init ==
  /\ AppInit
  /\ attempt \in Attempts
  /\ pc = "start"
  /\ fence = [last |-> 0, minimum |-> 0]
  /\ partial = 0
  /\ queue = << >>
  /\ chunk = << >>
  /\ overdue = FALSE
  /\ report = NoReport
  /\ received = << >>
  /\ inbound = << >>
  /\ said = [c \in Everyone |-> "nothing"]
  /\ fates = [c \in Everyone |-> "unsent"]

-----------------------------------------------------------------------------
(* The receiver                                                            *)

AnswerPieces(c, kind) ==
  <<[of |-> c, kind |-> kind, last |-> FALSE], [of |-> c, kind |-> kind, last |-> TRUE]>>

\* It acts on the oldest command: silently, or with one answer or two.
ReceiverActs ==
  /\ received # << >>
  /\ received' = Tail(received)
  /\ LET c == Head(received) IN
     \/ UNCHANGED <<inbound, said>>
     \/ \E kind \in {"positive", "negative"}, twice \in BOOLEAN :
          /\ inbound' = inbound \o AnswerPieces(c, kind) \o
                        (IF twice THEN AnswerPieces(c, kind) ELSE << >>)
          /\ said' = [said EXCEPT ![c] = kind]
  /\ UNCHANGED <<appVars, hostVars, overdue>>

DeadlinePasses ==
  /\ state = "waiting" /\ pc # "done" /\ ~overdue
  /\ overdue' = TRUE
  /\ UNCHANGED <<appVars, hostVars, receiverVars>>

-----------------------------------------------------------------------------
(* The fence                                                               *)

BeginCapture == fence' = [fence EXCEPT !.last = @ + 1]

NoteDispatch ==
  fence' = IF status' = "dispatched" THEN [fence EXCEPT !.minimum = fence.last] ELSE fence

IsEligible(response) == response.generation > fence.minimum

-----------------------------------------------------------------------------
(* The end of an attempt                                                   *)

\* SuccessfulCompletionStatus
CompletionStatus ==
  IF tally'["required"] > 0 THEN "applicationFailed"
  ELSE IF tally'["optional"] > 0 THEN "partialSuccess" ELSE "ok"

\* MapApplicationFailureStatus
FailureStatus ==
  CASE status' \in {"dispatchFailed", "rejected", "timedOut"} -> status'
    [] status' = "retryUnavailable" -> "timedOut"
    [] OTHER -> "applicationFailed"

\* FinalizeIfApplicationStopped after a call on the application; otherwise
\* the loop goes on at next.
FinishesOr(next) ==
  IF state' \in {"completed", "failed"}
  THEN /\ pc' = "done"
       /\ report' = [status |-> IF state' = "completed" THEN CompletionStatus ELSE FailureStatus,
                     indeterminate |-> state' = "failed" /\ indeterminate']
  ELSE pc' = next /\ UNCHANGED report

\* What a call on the application made of command c.
Fate ==
  CASE status' = "dispatched" -> "sent"
    [] status' = "acknowledged" -> "accepted"
    [] status' = "rejected" -> "refused"
    [] status' = "timedOut" -> "unknown"
    [] status' = "dispatchFailed" -> IF indeterminate' THEN "unknown" ELSE "notSent"
    [] OTHER -> fates[index + 1]

RecordFate ==
  fates' = IF index + 1 \in Everyone THEN [fates EXCEPT ![index + 1] = Fate] ELSE fates

-----------------------------------------------------------------------------
(* The loop                                                                *)

\* A call that may dispatch a command: the deadline is set anew, and the
\* receiver gets the command if it was written, perhaps if it was in part.
Dispatches(next) ==
  /\ NoteDispatch
  /\ RecordFate
  /\ overdue' = FALSE
  /\ IF metrics'["dispatched"] > metrics["dispatched"]
     THEN received' = Append(received, index + 1)
     ELSE \/ UNCHANGED received
          \/ indeterminate' /\ received' = Append(received, index + 1)
  /\ FinishesOr(next)
  /\ UNCHANGED <<attempt, partial, queue, chunk, inbound, said>>

StartsApplication ==
  /\ pc = "start"
  /\ StartBegins(attempt.commands)
  /\ pc' = "first"
  /\ UNCHANGED <<attempt, fence, partial, queue, chunk, overdue, report, receiverVars, fates>>

SendsFirst ==
  /\ pc = "first"
  /\ \E outcome \in Outcomes(CurrentCommand) : StartSteps(outcome)
  /\ Dispatches("top")

\* A waiting application is not stepped.
Steps ==
  /\ pc = "top"
  /\ state = "running"
  /\ \E outcome \in Outcomes(CurrentCommand) : Step(outcome)
  /\ Dispatches(IF state' = "waiting" THEN "queued" ELSE "top")

Waits ==
  /\ pc = "top"
  /\ state = "waiting"
  /\ pc' = "queued"
  /\ UNCHANGED <<appVars, attempt, fence, partial, queue, chunk, overdue, report,
                 receiverVars, fates>>

\* One turn of ApplyQueued...Responses: an ineligible response is dropped,
\* an eligible one given to the application.
TargetOf(response) ==
  IF attempt.family = "ublox" THEN attempt.commands[response.of].target ELSE NoTarget

AppliesQueued ==
  /\ pc \in {"queued", "apply"}
  /\ state = "waiting"
  /\ queue # << >>
  /\ queue' = Tail(queue)
  /\ UNCHANGED <<attempt, fence, partial, chunk, overdue, receiverVars>>
  /\ IF IsEligible(Head(queue))
     THEN /\ AppApplyResponse(Head(queue).kind, TargetOf(Head(queue)))
          /\ RecordFate
          /\ FinishesOr(pc)
     ELSE UNCHANGED <<appVars, pc, report, fates>>

QueueApplied ==
  /\ pc \in {"queued", "apply"}
  /\ state # "waiting" \/ queue = << >>
  /\ pc' = CASE pc = "queued" -> "read"
             [] pc = "apply" /\ chunk # << >> -> "process"
             [] OTHER -> "check"
  /\ UNCHANGED <<appVars, attempt, fence, partial, queue, chunk, overdue, report,
                 receiverVars, fates>>

\* Where the k-th piece ends one answer and the next begins its echo.
BetweenEchoes(k) ==
  /\ k < Len(inbound)
  /\ inbound[k].last
  /\ inbound[k].of = inbound[k + 1].of

\* A read may end anywhere, but between an answer and its echo only in
\* attempts that allow for late echoes.
ReadEndsAt(k) == BetweenEchoes(k) => attempt.lateEchoes

\* A Unicore read is one capture; u-blox captures begin with each frame.
ReadsBytes ==
  /\ pc = "read"
  /\ \E k \in 1 .. Len(inbound) :
       /\ ReadEndsAt(k)
       /\ chunk' = SubSeq(inbound, 1, k)
       /\ inbound' = SubSeq(inbound, k + 1, Len(inbound))
  /\ IF attempt.family = "unicore" THEN BeginCapture ELSE UNCHANGED fence
  /\ pc' = "process"
  /\ UNCHANGED <<appVars, attempt, partial, queue, overdue, report, received, said, fates>>

\* Mutant: a read without bytes goes round the loop without the time-out check.
ReadsNothingAgain ==
  /\ pc = "read"
  /\ pc' = "top"
  /\ UNCHANGED <<appVars, attempt, fence, partial, queue, chunk, overdue, report,
                 receiverVars, fates>>

\* Nothing within the transport's time-out, or only telemetry.
ReadsNothing ==
  /\ pc = "read"
  /\ pc' = "check"
  /\ UNCHANGED <<appVars, attempt, fence, partial, queue, chunk, overdue, report,
                 receiverVars, fates>>

\* The transport failed: MarkReceiverStateIndeterminate, without the engine.
ReadFails ==
  /\ pc = "read"
  /\ pc' = "done"
  /\ report' = [status |-> "readFailed", indeterminate |-> TRUE]
  /\ fates' = [fates EXCEPT ![index + 1] = "unknown"]
  /\ UNCHANGED <<appVars, attempt, fence, partial, queue, chunk, overdue, receiverVars>>

\* Mutant: an answer belongs to the capture that completes it.
TakesFirstBytesLate ==
  /\ pc = "process" /\ chunk # << >> /\ ~Head(chunk).last
  /\ chunk' = Tail(chunk)
  /\ UNCHANGED <<fence, partial>>
  /\ UNCHANGED <<appVars, attempt, pc, queue, overdue, report, receiverVars, fates>>

\* The first bytes of an answer fix its capture generation.
TakesFirstBytes ==
  /\ pc = "process" /\ chunk # << >> /\ ~Head(chunk).last
  /\ chunk' = Tail(chunk)
  /\ IF attempt.family = "ublox" THEN BeginCapture ELSE UNCHANGED fence
  /\ partial' = fence'.last
  /\ UNCHANGED <<appVars, attempt, pc, queue, overdue, report, receiverVars, fates>>

\* Its last bytes make it a queued response; u-blox applies it at once.
TakesLastBytes ==
  /\ pc = "process" /\ chunk # << >> /\ Head(chunk).last
  /\ chunk' = Tail(chunk)
  /\ queue' = Append(queue, [of |-> Head(chunk).of, kind |-> Head(chunk).kind,
                             generation |-> IF partial # 0 THEN partial ELSE fence.last])
  /\ partial' = 0
  /\ pc' = IF attempt.family = "ublox" THEN "apply" ELSE "process"
  /\ UNCHANGED <<appVars, attempt, fence, overdue, report, receiverVars, fates>>

ReadProcessed ==
  /\ pc = "process" /\ chunk = << >>
  /\ pc' = IF attempt.family = "ublox" THEN "check" ELSE "apply"
  /\ UNCHANGED <<appVars, attempt, fence, partial, queue, chunk, overdue, report,
                 receiverVars, fates>>

ChecksTimeout ==
  /\ pc = "check"
  /\ AppCheckTimeout(overdue)
  /\ RecordFate
  /\ FinishesOr("top")
  /\ UNCHANGED <<attempt, fence, partial, queue, chunk, overdue, receiverVars>>

LoopStep ==
  \/ StartsApplication \/ SendsFirst \/ Steps \/ Waits
  \/ AppliesQueued \/ QueueApplied
  \/ ReadsBytes \/ ReadsNothing
  \/ TakesFirstBytes \/ TakesLastBytes \/ ReadProcessed
  \/ ChecksTimeout

Next == LoopStep \/ ReadFails \/ ReceiverActs \/ DeadlinePasses

Spec == Init /\ [][Next]_vars

\* The host is scheduled, its reads return, and deadlines pass.  Nothing is
\* assumed of the receiver.
FairSpec == Spec /\ WF_vars(LoopStep) /\ WF_vars(DeadlinePasses)

-----------------------------------------------------------------------------
(* Properties                                                              *)

\* The attempt keeps the promise of ConfigurationAttempt: in order, one at a
\* time, nothing after an unknown fate, each command accepted or refused by
\* what the receiver said about it and no other, and an honest report.  The
\* second answer to a command, left in the router's queue or cut by a read,
\* is what could break it (config_apply.cpp:1578-1611).
Attempt == INSTANCE ConfigurationAttempt WITH Plans <- {a.commands : a \in Attempts}, plan <- attempt.commands

ImplementsAttempt == Attempt!AttemptSpec
==============================================================================
