---------------------- MODULE CommandTransactionEngine ----------------------
(***************************************************************************)
(* gnss_driver/src/receiver_command_transaction_engine.cpp, with the       *)
(* dispatcher it owns (receiver_command_dispatcher.cpp) and the record it  *)
(* keeps (receiver_command_transaction.hpp): one command at a time is      *)
(* written to a receiver and its answer awaited.  A receiver's answer      *)
(* names no transaction, so once a sent command may still be answered and  *)
(* nobody knows, the session is quarantined for ever.                      *)
(*                                                                         *)
(* Every public operation may be called at any time; `status' is what the  *)
(* last call returned.  Time is abstract: CheckTimeout is told whether the *)
(* deadline of the current transaction has passed.  Transaction numbers,   *)
(* time stamps, texts and the counters no property is about are left out.  *)
(***************************************************************************)
EXTENDS Naturals

CONSTANTS
  Targets,         \* UBX message identities (class and id)
  NoTarget,        \* no identity: a text command or answer
  Commands,        \* the commands a caller may start
  NoTransaction,   \* an empty slot
  MaxTransactions  \* bound: transactions started between two resets

\* A command expects an answer or not; is well formed and approved, or the
\* dispatcher rejects it; has a retry budget; may fail without harm or not.
CommandType ==
  [answered : BOOLEAN, target : Targets \cup {NoTarget}, dispatchable : BOOLEAN,
   required : BOOLEAN, retries : Nat]

ASSUME CommandsAssumption == Commands \subseteq CommandType
ASSUME SlotAssumption ==
  /\ NoTransaction \notin [command : Commands,
                           state : {"pending", "sent", "acknowledged", "rejected",
                                    "timedOut", "failed"},
                           attempts : Nat]
  /\ MaxTransactions \in Nat

VARIABLES
  current,        \* current_transaction_
  completed,      \* completed_transaction_
  indeterminate,  \* session_indeterminate_
  metrics,        \* metrics_
  status,         \* the step status the last call returned
  unanswered      \* history: commands with bytes on the wire, an answer
                  \* possibly due, and none accepted

engineVars == <<current, completed, indeterminate, metrics, status, unanswered>>

TransactionStates ==
  {"pending", "sent", "acknowledged", "rejected", "timedOut", "failed"}
Transactions == [command : Commands, state : TransactionStates, attempts : Nat]
Statuses ==
  {"idle", "dispatched", "acknowledged", "rejected", "timedOut", "notTimedOut",
   "retryDispatched", "dispatchFailed", "busy", "responseUnmatched",
   "noCurrentTransaction", "retryUnavailable", "sessionIndeterminate"}
Counters ==
  {"created", "dispatched", "acknowledged", "rejected", "timedOut",
   "failures", "accepted", "quarantined"}

\* What an answer says: yes (ack, text_ok), no (nak, text_error), or a kind
\* that cannot be applied.
AnswerKinds == {"positive", "negative", "other"}

EngineTypeOK ==
  /\ current \in Transactions \cup {NoTransaction}
  /\ completed \in Transactions \cup {NoTransaction}
  /\ indeterminate \in BOOLEAN
  /\ metrics \in [Counters -> Nat]
  /\ status \in Statuses
  /\ unanswered \in Nat

EngineInit ==
  /\ current = NoTransaction
  /\ completed = NoTransaction
  /\ indeterminate = FALSE
  /\ metrics = [c \in Counters |-> 0]
  /\ status = "idle"
  /\ unanswered = 0

-----------------------------------------------------------------------------
(* The dispatcher: reject, or write until all is written or a write fails. *)

Outcomes(command) ==
  IF command.dispatchable THEN {"sent", "unwritten", "partlyWritten"} ELSE {"rejected"}

Occupied == current # NoTransaction
AwaitsAnswer == Occupied /\ current.state = "sent"

\* Adds one to each counter of a set.
Count(counters) == [c \in Counters |-> metrics[c] + (IF c \in counters THEN 1 ELSE 0)]
Unless(condition, counters) == IF condition THEN {} ELSE counters

\* The call changes nothing and returns the given status.
Returns(result) ==
  /\ status' = result
  /\ UNCHANGED <<current, completed, indeterminate, metrics, unanswered>>

Sent(command, attempts) == [command |-> command, state |-> "sent", attempts |-> attempts]

-----------------------------------------------------------------------------
(* StartTransaction                                                        *)

StartRefused ==
  \/ indeterminate /\ Returns("sessionIndeterminate")
  \/ ~indeterminate /\ Occupied /\ Returns("busy")

\* The dispatch failed: if bytes were written the receiver may yet act.
StartFails(command, outcome) ==
  /\ ~indeterminate /\ ~Occupied
  /\ completed' = [command |-> command, state |-> "failed", attempts |-> 0]
  /\ indeterminate' = (outcome = "partlyWritten")
  /\ metrics' = Count({"created", "failures"} \cup
                      Unless(outcome # "partlyWritten", {"quarantined"}))
  /\ unanswered' = unanswered + (IF outcome = "partlyWritten" THEN 1 ELSE 0)
  /\ status' = "dispatchFailed"
  /\ UNCHANGED current

\* Sent, and no answer is expected: acknowledged at once.
StartsUnanswered(command) ==
  /\ ~indeterminate /\ ~Occupied
  /\ ~command.answered
  /\ completed' = [Sent(command, 1) EXCEPT !.state = "acknowledged"]
  /\ metrics' = Count({"created", "dispatched", "acknowledged"})
  /\ status' = "acknowledged"
  /\ UNCHANGED <<current, indeterminate, unanswered>>

StartsAnswered(command) ==
  /\ ~indeterminate /\ ~Occupied
  /\ command.answered
  /\ current' = Sent(command, 1)
  /\ metrics' = Count({"created", "dispatched"})
  /\ unanswered' = unanswered + 1
  /\ status' = "dispatched"
  /\ UNCHANGED <<completed, indeterminate>>

StartTransaction(command, outcome) ==
  \/ StartRefused
  \/ outcome # "sent" /\ StartFails(command, outcome)
  \/ outcome = "sent" /\ StartsUnanswered(command)
  \/ outcome = "sent" /\ StartsAnswered(command)

-----------------------------------------------------------------------------
(* ApplyResponse                                                           *)

\* An answer without an identity, or to a command without one, matches.
MatchesCurrent(target) ==
  \/ target = NoTarget
  \/ current.command.target = NoTarget
  \/ target = current.command.target

\* Mutant: the quarantine is not looked at.
EligibleInQuarantine(kind, target) ==
  /\ AwaitsAnswer \/ (Occupied /\ current.state = "timedOut")
  /\ kind # "other"
  /\ MatchesCurrent(target)

Eligible(kind, target) ==
  /\ ~indeterminate
  /\ AwaitsAnswer
  /\ kind # "other"
  /\ MatchesCurrent(target)

\* The transaction is answered, kept as the completed one, and the slot freed.
AcceptResponse(kind) ==
  LET verdict == IF kind = "positive" THEN "acknowledged" ELSE "rejected"
  IN  /\ completed' = [current EXCEPT !.state = verdict]
      /\ current' = NoTransaction
      /\ metrics' = Count({"accepted", verdict})
      /\ unanswered' = unanswered - 1
      /\ status' = verdict
      /\ UNCHANGED indeterminate

ApplyResponse(kind, target) ==
  \/ ~Eligible(kind, target) /\ Returns("responseUnmatched")
  \/ Eligible(kind, target) /\ AcceptResponse(kind)

-----------------------------------------------------------------------------
(* MarkTimeout, CheckTimeout                                               *)

\* The timed-out transaction keeps the slot; the session is quarantined.
TimesOut ==
  /\ AwaitsAnswer
  /\ current' = [current EXCEPT !.state = "timedOut"]
  /\ indeterminate' = TRUE
  /\ metrics' = Count({"timedOut"} \cup Unless(indeterminate, {"quarantined"}))
  /\ status' = "timedOut"
  /\ UNCHANGED <<completed, unanswered>>

MarkTimeout ==
  \/ ~Occupied /\ Returns("noCurrentTransaction")
  \/ Occupied /\ ~AwaitsAnswer /\ Returns("notTimedOut")
  \/ TimesOut

CheckTimeout(due) ==
  \/ indeterminate /\ Returns("sessionIndeterminate")
  \/ ~indeterminate /\ ~Occupied /\ Returns("noCurrentTransaction")
  \/ ~indeterminate /\ Occupied /\ ~(AwaitsAnswer /\ due) /\ Returns("notTimedOut")
  \/ ~indeterminate /\ AwaitsAnswer /\ due /\ MarkTimeout

-----------------------------------------------------------------------------
(* RetryPending, Reset                                                     *)

CanRetry ==
  /\ current.state \in {"timedOut", "failed"}
  /\ current.attempts \in 1 .. current.command.retries

RetryDispatches(outcome) ==
  IF outcome = "sent"
  THEN /\ current' = Sent(current.command, current.attempts + 1)
       /\ metrics' = Count({"dispatched"})
       /\ unanswered' = unanswered + 1
       /\ status' = "retryDispatched"
       /\ UNCHANGED <<completed, indeterminate>>
  ELSE /\ current' = [current EXCEPT !.state = "failed"]
       /\ metrics' = Count({"failures"})
       /\ unanswered' = unanswered + (IF outcome = "partlyWritten" THEN 1 ELSE 0)
       /\ status' = "dispatchFailed"
       /\ UNCHANGED <<completed, indeterminate>>

RetryPending ==
  IF indeterminate THEN Returns("sessionIndeterminate")
  ELSE IF ~Occupied THEN Returns("noCurrentTransaction")
  ELSE IF ~CanRetry THEN Returns("retryUnavailable")
  ELSE \E outcome \in Outcomes(current.command) : RetryDispatches(outcome)

\* Mutant: Reset forgets a command that was sent.
ResetForgets ==
  /\ IF indeterminate
     THEN UNCHANGED <<current, completed, indeterminate, metrics>>
     ELSE /\ current' = NoTransaction
          /\ completed' = NoTransaction
          /\ metrics' = [c \in Counters |-> 0]
          /\ UNCHANGED indeterminate
  /\ UNCHANGED <<status, unanswered>>

\* A quarantined engine stays as it is; a sent command quarantines it.
Reset ==
  /\ IF indeterminate
     THEN UNCHANGED <<current, completed, indeterminate, metrics>>
     ELSE IF AwaitsAnswer
     THEN /\ indeterminate' = TRUE
          /\ metrics' = Count({"quarantined"})
          /\ UNCHANGED <<current, completed>>
     ELSE /\ current' = NoTransaction
          /\ completed' = NoTransaction
          /\ metrics' = [c \in Counters |-> 0]
          /\ UNCHANGED indeterminate
  /\ UNCHANGED <<status, unanswered>>

-----------------------------------------------------------------------------
Start ==
  /\ metrics["created"] < MaxTransactions
  /\ \E command \in Commands : \E outcome \in Outcomes(command) :
       StartTransaction(command, outcome)

Answer ==
  \E kind \in AnswerKinds, target \in Targets \cup {NoTarget} : ApplyResponse(kind, target)

Checks == \E due \in BOOLEAN : CheckTimeout(due)

EngineNext == Start \/ Answer \/ MarkTimeout \/ Checks \/ RetryPending \/ Reset

EngineSpec == EngineInit /\ [][EngineNext]_engineVars

-----------------------------------------------------------------------------
(* Properties                                                              *)

\* The engine never loses sight of a command the receiver may still answer:
\* such a command is the one current transaction, or the session is
\* quarantined.  This is what makes an accepted answer unambiguous; Reset,
\* a half-written command and a time-out are the ways to lose it
\* (receiver_command_transaction_engine.cpp:70, 180, 255).
NoForgottenCommand ==
  unanswered > 0 =>
    \/ indeterminate
    \/ unanswered = 1 /\ AwaitsAnswer

\* No command is written twice: "configured retry budgets are intentionally
\* not used" (docs/driver.md:324), although RetryPending implements them.
NeverSentTwice == Occupied => current.attempts = 1

\* The counters tell every transaction's fate: each one started is
\* acknowledged, rejected, timed out, failed, or still waits.
TransactionsAccounted ==
  /\ metrics["created"] =
       metrics["acknowledged"] + metrics["rejected"] + metrics["timedOut"] +
       metrics["failures"] + (IF AwaitsAnswer THEN 1 ELSE 0)
  /\ metrics["dispatched"] = metrics["created"] - metrics["failures"]

\* Quarantine is for ever, and in it nothing is sent and no answer accepted,
\* whatever is called: no late answer to A can satisfy A or a later B
\* (docs/auto_configuration.md:475).
QuarantineIsFinal ==
  [][indeterminate =>
       /\ indeterminate'
       /\ metrics'["dispatched"] = metrics["dispatched"]
       /\ metrics'["accepted"] = metrics["accepted"]]_engineVars
==============================================================================
