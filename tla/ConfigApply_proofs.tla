--------------------------- MODULE ConfigApply_proofs ---------------------------
(***************************************************************************)
(* Proofs about CommandTransactionEngine, ReceiverConfigApplication and    *)
(* ConfigApply, for all commands, identities, lists and bounds, whether an *)
(* application continues on an error or not.                               *)
(*                                                                         *)
(* The engine: the inductive invariant adds to the properties what the     *)
(* slot may hold: a transaction sent once, or one that timed out and so    *)
(* put the session in quarantine.  It follows that RetryPending never      *)
(* finds a transaction it could send again.                                *)
(*                                                                         *)
(* The application: one of its calls is one call of the engine, so what    *)
(* that does is taken from the first part.                                 *)
(*                                                                         *)
(* The loop keeps the promise of ConfigurationAttempt whatever the         *)
(* receiver does, for attempts of the form AttemptsAssumption.  One half   *)
(* of the inductive invariant is bookkeeping: the fates are those of the   *)
(* list up to the present command.  The other is the argument that an      *)
(* answer is about the command that it is taken for: it follows the        *)
(* answers in transit through the reads, the router and the fence.         *)
(***************************************************************************)
EXTENDS ConfigApply, SequenceTheorems, TLAPS

-----------------------------------------------------------------------------
(* The engine and the application                                          *)

\* What the slot may hold.
SlotInv ==
  Occupied =>
    /\ current.attempts = 1
    /\ current.state \in {"sent", "timedOut"}
    /\ current.state = "timedOut" => indeterminate

\* Outside quarantine the one command in doubt is the one awaited.
DoubtInv == ~indeterminate => unanswered = (IF AwaitsAnswer THEN 1 ELSE 0)

IInv == EngineTypeOK /\ SlotInv /\ DoubtInv /\ TransactionsAccounted

\* An empty slot is told from every transaction.
LEMMA EmptySlot == NoTransaction \notin Transactions
BY SlotAssumption DEF Transactions, TransactionStates

\* What Count does to each counter.
LEMMA CountAdds ==
  ASSUME EngineTypeOK, NEW S, metrics' = Count(S)
  PROVE  /\ metrics' \in [Counters -> Nat]
         /\ \A c \in Counters : metrics'[c] = metrics[c] + (IF c \in S THEN 1 ELSE 0)
         /\ \A c \in Counters : metrics[c] \in Nat
BY DEF EngineTypeOK, Count

\* A call that returns without effect keeps the invariant.
LEMMA ReturnsKeeps ==
  ASSUME IInv, NEW s \in Statuses, Returns(s)
  PROVE  IInv'
BY DEF IInv, EngineTypeOK, SlotInv, DoubtInv, TransactionsAccounted, Returns, Occupied,
       AwaitsAnswer

LEMMA InitIInv == EngineInit => IInv
<1> SUFFICES ASSUME EngineInit PROVE IInv
  OBVIOUS
<1>1. ~Occupied /\ ~AwaitsAnswer
  BY DEF EngineInit, Occupied, AwaitsAnswer
<1>2. EngineTypeOK
  BY DEF EngineInit, EngineTypeOK, Statuses
<1>3. SlotInv /\ DoubtInv
  BY <1>1 DEF EngineInit, SlotInv, DoubtInv
<1>4. \A c \in Counters : metrics[c] = 0
  BY DEF EngineInit
<1>5. TransactionsAccounted
  BY <1>1, <1>4 DEF TransactionsAccounted, Counters
<1> QED
  BY <1>2, <1>3, <1>5 DEF IInv

-----------------------------------------------------------------------------
LEMMA StartFailsKeeps ==
  ASSUME IInv, NEW command \in Commands, NEW outcome, StartFails(command, outcome)
  PROVE  IInv'
<1>1. metrics' \in [Counters -> Nat]
  BY CountAdds DEF IInv, StartFails
<1>2. EngineTypeOK'
  BY <1>1 DEF IInv, EngineTypeOK, StartFails, Transactions, TransactionStates, Statuses
<1>3. SlotInv' /\ DoubtInv'
  <2>1. ~Occupied' /\ ~AwaitsAnswer'
    BY DEF StartFails, Occupied, AwaitsAnswer
  <2>2. unanswered = 0
    BY DEF IInv, DoubtInv, StartFails, AwaitsAnswer
  <2>3. CASE outcome = "partlyWritten"
    BY <2>1, <2>3 DEF StartFails, SlotInv, DoubtInv
  <2>4. CASE outcome # "partlyWritten"
    BY <2>1, <2>2, <2>4 DEF StartFails, SlotInv, DoubtInv
  <2> QED
    BY <2>3, <2>4
<1>4. /\ metrics'["created"] = metrics["created"] + 1
      /\ metrics'["failures"] = metrics["failures"] + 1
      /\ \A c \in {"acknowledged", "rejected", "timedOut", "dispatched"} : metrics'[c] = metrics[c]
      /\ \A c \in Counters : metrics[c] \in Nat
  <2> DEFINE S == {"created", "failures"} \cup Unless(outcome # "partlyWritten", {"quarantined"})
  <2>1. /\ "created" \in S /\ "failures" \in S
        /\ "acknowledged" \notin S /\ "rejected" \notin S
        /\ "timedOut" \notin S /\ "dispatched" \notin S
    BY DEF Unless
  <2>2. metrics' = Count(S)
    BY DEF StartFails
  <2> HIDE DEF S
  <2> QED
    BY <2>1, <2>2, CountAdds DEF IInv, Counters
<1>5. TransactionsAccounted'
  BY <1>4 DEF IInv, TransactionsAccounted, StartFails, AwaitsAnswer, Occupied, Counters
<1> QED
  BY <1>2, <1>3, <1>5 DEF IInv

LEMMA StartsUnansweredKeeps ==
  ASSUME IInv, NEW command \in Commands, StartsUnanswered(command)
  PROVE  IInv'
<1>1. metrics' \in [Counters -> Nat]
  BY CountAdds DEF IInv, StartsUnanswered
<1>2. EngineTypeOK'
  BY <1>1 DEF IInv, EngineTypeOK, StartsUnanswered, Sent, Transactions, TransactionStates, Statuses
<1>3. SlotInv' /\ DoubtInv'
  BY DEF IInv, EngineTypeOK, SlotInv, DoubtInv, StartsUnanswered, Occupied, AwaitsAnswer
<1>4. /\ \A c \in {"created", "dispatched", "acknowledged"} : metrics'[c] = metrics[c] + 1
      /\ \A c \in {"rejected", "timedOut", "failures"} : metrics'[c] = metrics[c]
      /\ \A c \in Counters : metrics[c] \in Nat
  BY CountAdds DEF IInv, StartsUnanswered, Counters
<1>5. TransactionsAccounted'
  BY <1>4 DEF IInv, TransactionsAccounted, StartsUnanswered, AwaitsAnswer, Occupied, Counters
<1> QED
  BY <1>2, <1>3, <1>5 DEF IInv

LEMMA StartsAnsweredKeeps ==
  ASSUME IInv, NEW command \in Commands, StartsAnswered(command)
  PROVE  IInv'
<1>1. metrics' \in [Counters -> Nat]
  BY CountAdds DEF IInv, StartsAnswered
<1>2. current' \in Transactions /\ current'.state = "sent" /\ current'.attempts = 1
  BY DEF StartsAnswered, Sent, Transactions, TransactionStates
<1>3. EngineTypeOK'
  BY <1>1, <1>2 DEF IInv, EngineTypeOK, StartsAnswered, Statuses
<1>4. Occupied' /\ AwaitsAnswer'
  BY <1>2, EmptySlot DEF Occupied, AwaitsAnswer
<1>5. SlotInv' /\ DoubtInv'
  BY <1>2, <1>4 DEF IInv, EngineTypeOK, SlotInv, DoubtInv, StartsAnswered, AwaitsAnswer
<1>6. /\ \A c \in {"created", "dispatched"} : metrics'[c] = metrics[c] + 1
      /\ \A c \in {"acknowledged", "rejected", "timedOut", "failures"} : metrics'[c] = metrics[c]
      /\ \A c \in Counters : metrics[c] \in Nat
  BY CountAdds DEF IInv, StartsAnswered, Counters
<1>7. ~AwaitsAnswer
  BY DEF StartsAnswered, AwaitsAnswer
<1>8. TransactionsAccounted'
  BY <1>4, <1>6, <1>7 DEF IInv, TransactionsAccounted, Counters
<1> QED
  BY <1>3, <1>5, <1>8 DEF IInv

LEMMA StartKeeps ==
  ASSUME IInv, NEW command \in Commands, NEW outcome, StartTransaction(command, outcome)
  PROVE  IInv'
<1>1. CASE StartRefused
  BY <1>1, ReturnsKeeps DEF StartRefused, Statuses
<1>2. CASE StartFails(command, outcome)
  BY <1>2, StartFailsKeeps
<1>3. CASE StartsUnanswered(command)
  BY <1>3, StartsUnansweredKeeps
<1>4. CASE StartsAnswered(command)
  BY <1>4, StartsAnsweredKeeps
<1> QED
  BY <1>1, <1>2, <1>3, <1>4 DEF StartTransaction

-----------------------------------------------------------------------------
\* An eligible answer frees the slot: nothing is in doubt any more.
LEMMA AcceptKeeps ==
  ASSUME IInv, NEW kind, ~indeterminate, AwaitsAnswer, AcceptResponse(kind)
  PROVE  IInv'
<1> DEFINE verdict == IF kind = "positive" THEN "acknowledged" ELSE "rejected"
<1>1. metrics' = Count({"accepted", verdict})
  BY DEF AcceptResponse
<1>2. metrics' \in [Counters -> Nat]
  BY <1>1, CountAdds DEF IInv
<1>3. current \in Transactions
  BY DEF IInv, EngineTypeOK, AwaitsAnswer, Occupied
<1>4. completed' \in Transactions
  BY <1>3 DEF AcceptResponse, Transactions, TransactionStates
<1>5. ~AwaitsAnswer' /\ ~Occupied' /\ ~indeterminate' /\ unanswered' = 0
  BY DEF AcceptResponse, AwaitsAnswer, Occupied, IInv, DoubtInv
<1>6. EngineTypeOK'
  <2>1. current' = NoTransaction
    BY DEF AcceptResponse
  <2>2. status' = verdict
    BY DEF AcceptResponse
  <2>3. verdict \in Statuses
    BY DEF Statuses
  <2>4. status' \in Statuses
    BY <2>2, <2>3
  <2>5. indeterminate' = indeterminate
    BY DEF AcceptResponse
  <2>6. indeterminate \in BOOLEAN
    BY DEF IInv, EngineTypeOK
  <2>7. unanswered' \in Nat
    BY <1>5, SMT
  <2> HIDE DEF verdict
  <2> QED
    BY <1>2, <1>4, <2>1, <2>4, <2>5, <2>6, <2>7 DEF EngineTypeOK
<1>7. SlotInv' /\ DoubtInv'
  BY <1>5 DEF SlotInv, DoubtInv
<1>8. /\ metrics'[verdict] = metrics[verdict] + 1
      /\ \A c \in {"created", "dispatched", "timedOut", "failures"} : metrics'[c] = metrics[c]
      /\ \A c \in {"acknowledged", "rejected"} \ {verdict} : metrics'[c] = metrics[c]
      /\ \A c \in Counters : metrics[c] \in Nat
  BY <1>1, CountAdds DEF IInv, Counters
<1>9. TransactionsAccounted'
  BY <1>5, <1>8 DEF IInv, TransactionsAccounted, Counters
<1> QED
  BY <1>6, <1>7, <1>9 DEF IInv

LEMMA TimesOutKeeps ==
  ASSUME IInv, TimesOut
  PROVE  IInv'
<1>1. metrics' \in [Counters -> Nat]
  BY CountAdds DEF IInv, TimesOut
<1>2. current \in Transactions /\ current.attempts = 1
  BY DEF IInv, EngineTypeOK, SlotInv, TimesOut, AwaitsAnswer, Occupied
<1>3. /\ current' \in Transactions
      /\ current'.state = "timedOut"
      /\ current'.attempts = 1
  BY <1>2 DEF TimesOut, Transactions, TransactionStates
<1>4. EngineTypeOK'
  BY <1>1, <1>3 DEF IInv, EngineTypeOK, TimesOut, Statuses
<1>5. SlotInv' /\ DoubtInv' /\ ~AwaitsAnswer'
  BY <1>3 DEF SlotInv, DoubtInv, TimesOut, AwaitsAnswer
<1>6. /\ metrics'["timedOut"] = metrics["timedOut"] + 1
      /\ \A c \in {"created", "dispatched", "acknowledged", "rejected", "failures"} :
           metrics'[c] = metrics[c]
      /\ \A c \in Counters : metrics[c] \in Nat
  <2> DEFINE S == {"timedOut"} \cup Unless(indeterminate, {"quarantined"})
  <2>1. /\ "timedOut" \in S
        /\ S \cap {"created", "dispatched", "acknowledged", "rejected", "failures"} = {}
    BY DEF Unless
  <2>2. metrics' = Count(S)
    BY DEF TimesOut
  <2> HIDE DEF S
  <2> QED
    BY <2>1, <2>2, CountAdds DEF IInv, Counters
<1>7. TransactionsAccounted'
  <2>1. AwaitsAnswer
    BY DEF TimesOut
  <2> QED
    BY <2>1, <1>5, <1>6 DEF IInv, TransactionsAccounted, Counters
<1> QED
  BY <1>4, <1>5, <1>7 DEF IInv

LEMMA MarkTimeoutKeeps ==
  ASSUME IInv, MarkTimeout
  PROVE  IInv'
BY ReturnsKeeps, TimesOutKeeps DEF MarkTimeout, Statuses

LEMMA ResetKeeps ==
  ASSUME IInv, Reset
  PROVE  IInv'
<1>1. CASE indeterminate
  BY <1>1 DEF Reset, IInv, EngineTypeOK, SlotInv, DoubtInv, TransactionsAccounted, Occupied,
              AwaitsAnswer
<1>2. CASE ~indeterminate /\ AwaitsAnswer
  <2>1. metrics' = Count({"quarantined"}) /\ indeterminate' /\ current' = current
    BY <1>2 DEF Reset
  <2>2. EngineTypeOK' /\ SlotInv' /\ DoubtInv'
    BY <1>2, <2>1, CountAdds DEF Reset, IInv, EngineTypeOK, SlotInv, DoubtInv, Occupied
  <2>3. \A c \in Counters \ {"quarantined"} : metrics'[c] = metrics[c]
    BY <2>1, CountAdds DEF IInv, Counters
  <2>4. TransactionsAccounted'
    BY <2>1, <2>3 DEF IInv, TransactionsAccounted, AwaitsAnswer, Occupied, Counters
  <2> QED
    BY <2>2, <2>4 DEF IInv
<1>3. CASE ~indeterminate /\ ~AwaitsAnswer
  BY <1>3 DEF Reset, IInv, EngineTypeOK, SlotInv, DoubtInv, TransactionsAccounted, Occupied,
              AwaitsAnswer, Counters
<1> QED
  BY <1>1, <1>2, <1>3

\* A transaction in the slot of a usable session was sent, so it cannot be
\* sent again: RetryPending only ever returns.
LEMMA RetryOnlyReturns ==
  ASSUME IInv, RetryPending
  PROVE  \E s \in Statuses : Returns(s)
BY DEF IInv, SlotInv, RetryPending, CanRetry, Statuses, EngineTypeOK

LEMMA NextKeeps ==
  ASSUME IInv, [EngineNext]_engineVars
  PROVE  IInv'
<1>1. CASE Start
  BY <1>1, StartKeeps DEF Start
<1>2. CASE Answer
  <2>1. PICK kind \in AnswerKinds, target \in Targets \cup {NoTarget} : ApplyResponse(kind, target)
    BY <1>2 DEF Answer
  <2> QED
    BY <2>1, ReturnsKeeps, AcceptKeeps DEF ApplyResponse, Eligible, Statuses
<1>3. CASE MarkTimeout
  BY <1>3, MarkTimeoutKeeps
<1>4. CASE Checks
  BY <1>4, ReturnsKeeps, MarkTimeoutKeeps DEF Checks, CheckTimeout, Statuses
<1>5. CASE RetryPending
  BY <1>5, RetryOnlyReturns, ReturnsKeeps
<1>6. CASE Reset
  BY <1>6, ResetKeeps
<1>7. CASE UNCHANGED engineVars
  BY <1>7 DEF engineVars, IInv, EngineTypeOK, SlotInv, DoubtInv, TransactionsAccounted, Occupied,
              AwaitsAnswer
<1> QED
  BY <1>1, <1>2, <1>3, <1>4, <1>5, <1>6, <1>7 DEF EngineNext

LEMMA Invariance == EngineSpec => []IInv
<1>1. EngineInit => IInv
  BY InitIInv
<1>2. IInv /\ [EngineNext]_engineVars => IInv'
  BY NextKeeps
<1> QED
  BY <1>1, <1>2, PTL DEF EngineSpec

-----------------------------------------------------------------------------
\* The slot, the counters and the flag always have their types.
THEOREM EngineTypeCorrect == EngineSpec => []EngineTypeOK
<1>1. IInv => EngineTypeOK
  BY DEF IInv
<1> QED
  BY <1>1, Invariance, PTL

\* For any commands and any sequence of calls, a command that may still be
\* answered is the current one, or the session is quarantined.
THEOREM DoubtIsRemembered == EngineSpec => []NoForgottenCommand
<1>1. IInv => NoForgottenCommand
  BY DEF IInv, EngineTypeOK, DoubtInv, NoForgottenCommand
<1> QED
  BY <1>1, Invariance, PTL

\* No command is ever written a second time, whatever its retry budget.
THEOREM RetryNeverSends == EngineSpec => []NeverSentTwice
<1>1. IInv => NeverSentTwice
  BY DEF IInv, SlotInv, NeverSentTwice
<1> QED
  BY <1>1, Invariance, PTL

\* The counters add up.
THEOREM AccountsBalance == EngineSpec => []TransactionsAccounted
<1>1. IInv => TransactionsAccounted
  BY DEF IInv
<1> QED
  BY <1>1, Invariance, PTL

-----------------------------------------------------------------------------
\* A step in quarantine sends nothing, accepts nothing and stays there.
LEMMA QuarantineStep ==
  ASSUME IInv, EngineNext, indeterminate
  PROVE  /\ indeterminate'
         /\ metrics'["dispatched"] = metrics["dispatched"]
         /\ metrics'["accepted"] = metrics["accepted"]
<1>1. CASE \E s \in Statuses : Returns(s)
  BY <1>1 DEF Returns
<1>2. CASE TimesOut
  <2>1. metrics' = Count({"timedOut"}) /\ indeterminate'
    BY <1>2 DEF TimesOut, Unless
  <2> QED
    BY <2>1, CountAdds DEF IInv, Counters, EngineTypeOK
<1>3. CASE Reset
  BY <1>3 DEF Reset
<1>4. Start => \E s \in Statuses : Returns(s)
  BY DEF Start, StartTransaction, StartRefused, StartFails, StartsUnanswered, StartsAnswered, Statuses
<1>5. Answer => \E s \in Statuses : Returns(s)
  BY DEF Answer, ApplyResponse, Eligible, Statuses
<1>6. MarkTimeout \/ Checks => (\E s \in Statuses : Returns(s)) \/ TimesOut
  BY DEF MarkTimeout, Checks, CheckTimeout, Statuses
<1>7. RetryPending => \E s \in Statuses : Returns(s)
  BY DEF RetryPending, Statuses
<1> QED
  BY <1>1, <1>2, <1>3, <1>4, <1>5, <1>6, <1>7 DEF EngineNext

\* Quarantine is final for any commands and any sequence of calls.
THEOREM QuarantineHolds == EngineSpec => QuarantineIsFinal
<1>1. IInv /\ [EngineNext]_engineVars =>
        [indeterminate => /\ indeterminate'
                          /\ metrics'["dispatched"] = metrics["dispatched"]
                          /\ metrics'["accepted"] = metrics["accepted"]]_engineVars
  BY QuarantineStep
<1> QED
  BY <1>1, Invariance, PTL DEF EngineSpec, QuarantineIsFinal

-----------------------------------------------------------------------------
(* The engine's part of a call                                             *)

\* Whatever is called on it, the engine keeps its invariant.
LEMMA EngineKeeps ==
  ASSUME IInv,
         \/ \E command \in Commands : \E outcome : StartTransaction(command, outcome)
         \/ \E kind \in AnswerKinds, target \in Targets \cup {NoTarget} :
              ApplyResponse(kind, target)
         \/ MarkTimeout
         \/ \E due \in BOOLEAN : CheckTimeout(due)
         \/ Reset
  PROVE  IInv'
<1>1. (\E kind \in AnswerKinds, target \in Targets \cup {NoTarget} :
         ApplyResponse(kind, target)) => EngineNext
  BY DEF EngineNext, Answer
<1>2. MarkTimeout \/ Reset \/ (\E due \in BOOLEAN : CheckTimeout(due)) => EngineNext
  BY DEF EngineNext, Checks
<1> QED
  BY <1>1, <1>2, StartKeeps, NextKeeps

\* What the invariant of the engine says of its slot.
LEMMA SlotOfEngine ==
  ASSUME IInv
  PROVE  /\ EngineTypeOK
         /\ Occupied /\ ~indeterminate => AwaitsAnswer
         /\ ~indeterminate => unanswered = (IF AwaitsAnswer THEN 1 ELSE 0)
         /\ NoTransaction \notin Transactions
BY EmptySlot DEF IInv, SlotInv, DoubtInv, AwaitsAnswer

\* The same after a call.
LEMMA SlotOfEngineNext ==
  ASSUME IInv'
  PROVE  /\ EngineTypeOK'
         /\ Occupied' /\ ~indeterminate' => AwaitsAnswer'
BY DEF IInv, SlotInv, AwaitsAnswer

-----------------------------------------------------------------------------
(* The inductive invariant                                                 *)

\* Who waits waits for its own command, and only a command that AppReset threw
\* away is in the slot of a quarantined engine.
Waiting ==
  /\ state = "waiting" =>
       ~indeterminate /\ AwaitsAnswer /\ HasCurrent /\ current.command = CurrentCommand
  /\ AwaitsAnswer => (IF indeterminate THEN orphaned ELSE state = "waiting")
  /\ orphaned => indeterminate

\* Where the application is in its list.
Place ==
  /\ state = "running" => HasCurrent
  /\ starting => state = "running" /\ index = 0 /\ tally = NoTally
  /\ Started /\ state \in {"running", "completed"} => ~indeterminate

\* An answer was applied only to a command that it finished.
Applied == Started => tally["applied"] <= tally["completed"] + Failed

AppInv ==
  IInv /\ AppTypeOK /\ Waiting /\ Place /\ CommandsAccounted /\ Applied

\* What a list holds, and what an accepted list is.
LEMMA ListType ==
  ASSUME AppTypeOK
  PROVE  /\ commands \in Seq(Commands) /\ Len(commands) \in Nat /\ index \in Nat
         /\ HasCurrent => CurrentCommand \in Commands /\ commands # << >>
<1>1. << >> \in Seq(Commands)
  OBVIOUS
<1>2. commands \in Seq(Commands)
  BY <1>1, ListsAssumption DEF AppTypeOK
<1>3. Len(commands) \in Nat /\ index \in Nat
  BY <1>2 DEF AppTypeOK
<1>4. ASSUME HasCurrent PROVE CurrentCommand \in Commands /\ commands # << >>
  <2>1. index + 1 \in 1 .. Len(commands)
    BY <1>3, <1>4 DEF HasCurrent
  <2>2. Len(commands) # 0
    BY <1>3, <1>4 DEF HasCurrent
  <2> QED
    BY <1>2, <2>1, <2>2 DEF CurrentCommand
<1> QED
  BY <1>2, <1>3, <1>4

\* What Counted does to each counter.
LEMMA CountedAdds ==
  ASSUME AppTypeOK, NEW S
  PROVE  /\ Counted(S) \in [Tallies -> Nat]
         /\ \A t \in Tallies : Counted(S)[t] = tally[t] + (IF t \in S THEN 1 ELSE 0)
         /\ \A t \in Tallies : tally[t] \in Nat
BY DEF AppTypeOK, Counted

\* The counters after a step: one command more finished, in one way.
LEMMA FinishCounts ==
  ASSUME AppTypeOK, NEW S \in SUBSET {"started", "applied", "timeouts"},
         NEW r \in {"completed", "required", "optional"},
         tally' = Counted(S \cup {r})
  PROVE  /\ tally' \in [Tallies -> Nat]
         /\ tally'["completed"] + Failed' = tally["completed"] + Failed + 1
         /\ tally'["started"] = tally["started"] + (IF "started" \in S THEN 1 ELSE 0)
         /\ tally'["applied"] = tally["applied"] + (IF "applied" \in S THEN 1 ELSE 0)
<1> DEFINE T == S \cup {r}
<1>1. tally' = Counted(T)
  OBVIOUS
<1>2. /\ "completed" \in T <=> r = "completed"
      /\ "required" \in T <=> r = "required"
      /\ "optional" \in T <=> r = "optional"
      /\ "started" \in T <=> "started" \in S
      /\ "applied" \in T <=> "applied" \in S
  OBVIOUS
<1> HIDE DEF T
<1>3. /\ tally' \in [Tallies -> Nat]
      /\ \A t \in Tallies : tally'[t] = tally[t] + (IF t \in T THEN 1 ELSE 0)
      /\ \A t \in Tallies : tally[t] \in Nat
  <2>1. /\ Counted(T) \in [Tallies -> Nat]
        /\ \A t \in Tallies : Counted(T)[t] = tally[t] + (IF t \in T THEN 1 ELSE 0)
        /\ \A t \in Tallies : tally[t] \in Nat
    BY CountedAdds
  <2> QED
    BY <1>1, <2>1
<1>4. tally'["started"] = tally["started"] + (IF "started" \in S THEN 1 ELSE 0)
  BY <1>2, <1>3 DEF Tallies
<1>5. tally'["applied"] = tally["applied"] + (IF "applied" \in S THEN 1 ELSE 0)
  BY <1>2, <1>3 DEF Tallies
<1>6. /\ tally'["completed"] = tally["completed"] + (IF r = "completed" THEN 1 ELSE 0)
      /\ tally'["required"] = tally["required"] + (IF r = "required" THEN 1 ELSE 0)
      /\ tally'["optional"] = tally["optional"] + (IF r = "optional" THEN 1 ELSE 0)
      /\ tally["completed"] \in Nat /\ tally["required"] \in Nat /\ tally["optional"] \in Nat
  BY <1>2, <1>3 DEF Tallies
<1>7. tally'["completed"] + Failed' = tally["completed"] + Failed + 1
  BY <1>6 DEF Failed
<1> QED
  BY <1>3, <1>4, <1>5, <1>7

\* The counters at a list that is being worked on.
LEMMA Even ==
  ASSUME AppTypeOK, Place, CommandsAccounted, Applied, commands # << >>, ~orphaned,
         state = "running" \/ (state = "waiting" /\ ~starting)
  PROVE  /\ tally["started"] = tally["completed"] + Failed +
                                 (IF state = "waiting" THEN 1 ELSE 0)
         /\ state = "running" => tally["started"] = tally["completed"] + Failed
         /\ index = tally["completed"] + Failed
         /\ tally["applied"] <= tally["completed"] + Failed
<1>1. \A t \in Tallies : tally[t] \in Nat
  BY DEF AppTypeOK
<1>2. CASE starting
  <2>1. state = "running" /\ index = 0 /\ tally = NoTally
    BY <1>2 DEF Place
  <2>2. \A t \in Tallies : tally[t] = 0
    BY <2>1 DEF NoTally
  <2>3. tally["started"] = 0 /\ tally["completed"] = 0 /\ Failed = 0 /\ tally["applied"] = 0
    BY <2>2 DEF Failed, Tallies
  <2> QED
    BY <2>1, <2>3
<1>3. CASE ~starting
  <2>1. Started
    BY <1>3 DEF Started
  <2>2. /\ tally["started"] = tally["completed"] + Failed +
                                    (IF state = "waiting" THEN 1 ELSE 0)
        /\ index = tally["completed"] + Failed - 0
        /\ tally["applied"] <= tally["completed"] + Failed
    BY <2>1 DEF CommandsAccounted, Applied
  <2>3. tally["completed"] \in Nat /\ Failed \in Nat
    BY <1>1 DEF Failed, Tallies
  <2> QED
    BY <2>2, <2>3
<1> QED
  BY <1>2, <1>3

\* A command is finished: one more is counted, and the list goes on to the
\* next command or stops at this one.
Finishes(S) ==
  /\ \E r \in {"completed", "required", "optional"} : tally' = Counted(S \cup {r})
  /\ (~indeterminate' /\ Advance) \/ Stop
  /\ UNCHANGED <<commands, orphaned>>

LEMMA SucceedsFinishes ==
  ASSUME NEW S, Succeeds(S), UNCHANGED <<commands, orphaned>>
  PROVE  Finishes(S)
BY DEF Succeeds, Finishes

LEMMA FailsFinishes ==
  ASSUME NEW S, NEW b \in BOOLEAN, Fails(S, b), UNCHANGED <<commands, orphaned>>
  PROVE  Finishes(S)
BY DEF Fails, Finishes

\* The present command was sent now, or was sent and is answered or late.
LEMMA FinishKeeps ==
  ASSUME AppInv, IInv', starting' = FALSE,
         NEW S \in SUBSET {"started", "applied", "timeouts"}, Finishes(S), HasCurrent,
         \/ state = "running" /\ S = {"started"}
         \/ state = "waiting" /\ ~starting /\ "started" \notin S,
         ~(AwaitsAnswer' /\ ~orphaned), orphaned => indeterminate',
         AwaitsAnswer' => indeterminate'
  PROVE  AppInv'
<1>1. /\ AppTypeOK /\ Waiting /\ Place /\ CommandsAccounted /\ Applied
  BY DEF AppInv
<1>2. commands' = commands /\ orphaned' = orphaned /\ Started' = (commands # << >> /\ ~orphaned)
  BY DEF Finishes, Started
<1>3. PICK r \in {"completed", "required", "optional"} : tally' = Counted(S \cup {r})
  BY DEF Finishes
<1>4. /\ tally' \in [Tallies -> Nat]
      /\ tally'["completed"] + Failed' = tally["completed"] + Failed + 1
      /\ tally'["started"] = tally["started"] + (IF "started" \in S THEN 1 ELSE 0)
      /\ tally'["applied"] = tally["applied"] + (IF "applied" \in S THEN 1 ELSE 0)
  BY <1>1, <1>3, FinishCounts
<1>5. /\ index \in Nat /\ Len(commands) \in Nat /\ index < Len(commands)
      /\ \A t \in Tallies : tally[t] \in Nat /\ tally'[t] \in Nat
      /\ commands # << >>
  BY <1>1, <1>4, ListType DEF HasCurrent, AppTypeOK
<1>6. \/ ~indeterminate' /\ index' = index + 1 /\ state' = "running" /\ index + 1 < Len(commands)
      \/ ~indeterminate' /\ index' = index + 1 /\ state' = "completed"
      \/ index' = index /\ state' = "failed"
  BY DEF Finishes, Advance, Stop
<1>7. AppTypeOK'
  <2>1. index' \in 0 .. Len(commands)
    BY <1>5, <1>6
  <2>2. EngineTypeOK'
    BY SlotOfEngineNext
  <2>3. state' \in States
    BY <1>6 DEF States
  <2>4. starting' \in BOOLEAN /\ orphaned' \in BOOLEAN
    BY <1>1, <1>2 DEF AppTypeOK
  <2>5. commands' \in Plans \cup {<< >>}
    BY <1>1, <1>2 DEF AppTypeOK
  <2> QED
    BY <1>2, <1>4, <2>1, <2>2, <2>3, <2>4, <2>5 DEF AppTypeOK
<1>8. Waiting'
  BY <1>2, <1>6 DEF Waiting
<1>9. Place'
  BY <1>2, <1>6 DEF Place, HasCurrent
<1>10. ASSUME ~orphaned
       PROVE  /\ tally["started"] = tally["completed"] + Failed +
                                      (IF state = "waiting" THEN 1 ELSE 0)
              /\ index = tally["completed"] + Failed
              /\ tally["applied"] <= tally["completed"] + Failed
  BY <1>1, <1>5, <1>10, Even
<1>11. CommandsAccounted' /\ Applied'
  <2> SUFFICES ASSUME ~orphaned
               PROVE  /\ tally'["started"] = tally'["completed"] + Failed'
                      /\ index' = tally'["completed"] + Failed' - (IF state' = "failed" THEN 1 ELSE 0)
                      /\ tally'["applied"] <= tally'["started"]
                      /\ tally'["applied"] <= tally'["completed"] + Failed'
    <3>1. state' # "waiting"
      BY <1>6
    <3>2. Started' => ~orphaned
      BY <1>2
    <3>3. tally'["completed"] + Failed' \in Nat
      BY <1>5, SMTT(30) DEF Failed, Tallies
    <3> QED
      BY <3>1, <3>2, <3>3 DEF CommandsAccounted, Applied
  <2>1. tally["completed"] + Failed \in Nat /\ tally["applied"] \in Nat /\ tally["started"] \in Nat
    BY <1>5, SMTT(30) DEF Failed, Tallies
  <2> DEFINE n == tally["completed"] + Failed
  <2> DEFINE m == tally'["completed"] + Failed'
  <2>2. n \in Nat /\ m = n + 1 /\ index = n /\ tally["applied"] <= n
    BY <1>4, <1>10, <2>1
  <2>3. tally'["started"] = m
    <3>1. CASE state = "running" /\ S = {"started"}
      BY <1>4, <1>10, <2>2, <3>1
    <3>2. CASE state = "waiting" /\ "started" \notin S
      BY <1>4, <1>10, <2>2, <3>2
    <3> QED
      BY <3>1, <3>2
  <2>4. tally'["applied"] <= m
    BY <1>4, <2>1, <2>2
  <2>5. index' = m - (IF state' = "failed" THEN 1 ELSE 0)
    BY <1>6, <2>2
  <2>6. tally'["completed"] \in Nat /\ Failed' \in Nat
    BY <1>5 DEF Failed, Tallies
  <2> QED
    BY <2>3, <2>4, <2>5, <2>6
<1> QED
  BY <1>7, <1>8, <1>9, <1>11 DEF AppInv

-----------------------------------------------------------------------------
(* The calls                                                               *)

\* Of a call that changes nothing in the application: the slot as it was, and
\* the quarantine too, is enough.
LEMMA IdleKeeps ==
  ASSUME AppInv, IInv', UNCHANGED applicationVars,
         UNCHANGED <<current, indeterminate>>
  PROVE  AppInv'
<1>1. AppTypeOK'
  BY SlotOfEngineNext DEF AppInv, AppTypeOK, applicationVars
<1>2. AwaitsAnswer' <=> AwaitsAnswer
  BY DEF AwaitsAnswer, Occupied
<1>3. Waiting' /\ Place' /\ CommandsAccounted' /\ Applied'
  BY <1>2 DEF AppInv, Waiting, Place, CommandsAccounted, Applied, applicationVars, Started,
     Failed, HasCurrent, CurrentCommand
<1> QED
  BY <1>1, <1>3 DEF AppInv

\* A command is sent: the engine was free, or refuses.
LEMMA SendKeeps ==
  ASSUME AppInv, starting' = FALSE, NEW outcome, SendCurrent(outcome)
  PROVE  AppInv'
<1>1. /\ AppTypeOK /\ Waiting /\ Place /\ CommandsAccounted /\ Applied /\ IInv
      /\ state = "running" /\ HasCurrent
      /\ StartTransaction(CurrentCommand, outcome)
      /\ UNCHANGED <<commands, orphaned>>
  BY DEF AppInv, SendCurrent
<1>2. CurrentCommand \in Commands /\ commands # << >>
  BY <1>1, ListType
<1>3. IInv'
  BY <1>1, <1>2, EngineKeeps
<1>4. \* What was in the slot before.
      /\ AwaitsAnswer => indeterminate /\ orphaned
      /\ Occupied => indeterminate
  <2>1. Occupied /\ ~indeterminate => AwaitsAnswer
    BY <1>1, SlotOfEngine
  <2> QED
    BY <1>1, <2>1 DEF Waiting
<1>5. CASE StartRefused
  <2>1. /\ status' \notin {"acknowledged", "dispatched"} /\ UNCHANGED <<current, indeterminate>>
        /\ indeterminate
    BY <1>4, <1>5 DEF StartRefused, Returns
  <2>2. Fails({"started"}, TRUE)
    BY <2>1 DEF SendCurrent
  <2>3. Finishes({"started"})
    BY <1>1, <2>2, FailsFinishes
  <2>4. AwaitsAnswer' => AwaitsAnswer
    BY <2>1 DEF AwaitsAnswer, Occupied
  <2> QED
    BY <1>1, <1>3, <1>4, <2>1, <2>3, <2>4, FinishKeeps
<1>6. CASE StartFails(CurrentCommand, outcome)
  <2>1. status' = "dispatchFailed" /\ ~Occupied' /\ ~indeterminate
    BY <1>6 DEF StartFails, Occupied
  <2>2. Fails({"started"}, TRUE)
    BY <2>1 DEF SendCurrent
  <2>3. Finishes({"started"})
    BY <1>1, <2>2, FailsFinishes
  <2>4. ~AwaitsAnswer' /\ ~orphaned
    BY <1>1, <2>1 DEF AwaitsAnswer, Waiting
  <2> QED
    BY <1>1, <1>3, <2>3, <2>4, FinishKeeps
<1>7. CASE StartsUnanswered(CurrentCommand)
  <2>1. status' = "acknowledged" /\ ~Occupied' /\ ~indeterminate
    BY <1>7 DEF StartsUnanswered, Occupied
  <2>2. Succeeds({"started"})
    BY <2>1 DEF SendCurrent
  <2>3. Finishes({"started"})
    BY <1>1, <2>2, SucceedsFinishes
  <2>4. ~AwaitsAnswer' /\ ~orphaned
    BY <1>1, <2>1 DEF AwaitsAnswer, Waiting
  <2> QED
    BY <1>1, <1>3, <2>3, <2>4, FinishKeeps
<1>8. CASE StartsAnswered(CurrentCommand)
  <2>1. /\ status' = "dispatched" /\ ~indeterminate /\ ~indeterminate'
        /\ current' = Sent(CurrentCommand, 1)
    BY <1>8 DEF StartsAnswered
  <2>2. state' = "waiting" /\ tally' = Counted({"started"}) /\ UNCHANGED index
    BY <2>1 DEF SendCurrent
  <2>3. ~orphaned
    BY <1>1, <2>1 DEF Waiting
  <2>4. current'.state = "sent" /\ current'.command = CurrentCommand
    BY <2>1 DEF Sent
  <2>5. AwaitsAnswer'
    <3>1. current' \in Transactions
      BY <1>2, <2>1 DEF Sent, Transactions, TransactionStates
    <3>2. NoTransaction \notin Transactions
      BY <1>1, SlotOfEngine
    <3> QED
      BY <2>4, <3>1, <3>2 DEF AwaitsAnswer, Occupied
  <2>6. Waiting'
    BY <1>1, <2>1, <2>2, <2>3, <2>4, <2>5 DEF Waiting, HasCurrent, CurrentCommand
  <2>7. /\ tally' \in [Tallies -> Nat]
        /\ tally'["started"] = tally["started"] + 1
        /\ \A t \in {"completed", "required", "optional", "applied"} : tally'[t] = tally[t]
        /\ \A t \in Tallies : tally[t] \in Nat
    BY <1>1, <2>2, CountedAdds DEF Tallies
  <2>8. AppTypeOK'
    <3>1. EngineTypeOK'
      BY <1>3, SlotOfEngineNext
    <3>2. state' \in States
      BY <2>2 DEF States
    <3> QED
      BY <1>1, <2>2, <2>7, <3>1, <3>2 DEF AppTypeOK
  <2>9. Place'
    BY <2>2 DEF Place
  <2>10. Failed' = Failed
    BY <2>7 DEF Failed
  <2>11. /\ tally["started"] = tally["completed"] + Failed
         /\ index = tally["completed"] + Failed
         /\ tally["applied"] <= tally["completed"] + Failed
    BY <1>1, <1>2, <2>3, Even
  <2>12. tally["completed"] \in Nat /\ Failed \in Nat /\ tally["applied"] \in Nat
    BY <2>7 DEF Failed, Tallies
  <2>13. CommandsAccounted' /\ Applied'
    BY <2>2, <2>7, <2>10, <2>11, <2>12 DEF CommandsAccounted, Applied
  <2> QED
    BY <1>3, <2>6, <2>8, <2>9, <2>13 DEF AppInv
<1> QED
  BY <1>1, <1>5, <1>6, <1>7, <1>8 DEF StartTransaction

\* An answer is taken only for the command that is waited for.
LEMMA ApplyKeeps ==
  ASSUME AppInv, NEW kind \in AnswerKinds,
         NEW target \in Targets \cup {NoTarget}, AppApplyResponse(kind, target)
  PROVE  AppInv'
<1>1. /\ AppTypeOK /\ Waiting /\ Place /\ CommandsAccounted /\ Applied /\ IInv
      /\ ~starting /\ ApplyResponse(kind, target)
      /\ UNCHANGED <<commands, starting, orphaned>>
  BY DEF AppInv, AppApplyResponse
<1>2. IInv'
  BY <1>1, EngineKeeps
<1>3. CASE Returns("responseUnmatched")
  <2>1. UNCHANGED <<current, indeterminate>> /\ status' = "responseUnmatched"
    BY <1>3 DEF Returns
  <2>2. UNCHANGED applicationVars
    BY <2>1 DEF AppApplyResponse, applicationVars
  <2> QED
    BY <1>2, <2>1, <2>2, IdleKeeps
<1>4. CASE Eligible(kind, target) /\ AcceptResponse(kind)
  <2>1. /\ ~indeterminate /\ AwaitsAnswer /\ ~indeterminate' /\ ~Occupied'
        /\ status' \in {"acknowledged", "rejected"}
    BY <1>4 DEF Eligible, AcceptResponse, Occupied
  <2>2. state = "waiting" /\ HasCurrent /\ ~orphaned
    BY <1>1, <2>1 DEF Waiting
  <2>3. Succeeds({"applied"}) \/ Fails({"applied"}, TRUE)
    BY <2>1 DEF AppApplyResponse
  <2>4. Finishes({"applied"})
    BY <1>1, <2>3, SucceedsFinishes, FailsFinishes
  <2>5. ~AwaitsAnswer' /\ starting' = FALSE
    BY <1>1, <2>1 DEF AwaitsAnswer, AppTypeOK
  <2> QED
    BY <1>1, <1>2, <2>2, <2>4, <2>5, FinishKeeps
<1> QED
  BY <1>1, <1>3, <1>4 DEF ApplyResponse

\* A command that is late stops its list.  One that AppReset threw away is
\* counted too, but then no list is under way.
LEMMA LateKeeps ==
  ASSUME AppInv, ~starting, IInv', TimesOut, HandleTimeoutResult
  PROVE  AppInv'
<1>1. /\ AppTypeOK /\ Waiting /\ Place /\ CommandsAccounted /\ Applied
      /\ UNCHANGED <<commands, starting, orphaned>>
  BY DEF AppInv, HandleTimeoutResult
<1>2. /\ AwaitsAnswer /\ indeterminate' /\ status' = "timedOut" /\ ~AwaitsAnswer'
  <2>1. current \in Transactions
    BY <1>1 DEF TimesOut, AwaitsAnswer, Occupied, AppTypeOK,
       EngineTypeOK
  <2>2. current'.state = "timedOut"
    BY <2>1 DEF TimesOut, Transactions
  <2> QED
    BY <2>2 DEF TimesOut, AwaitsAnswer
<1>3. Fails({"timeouts"}, FALSE)
  BY <1>2 DEF HandleTimeoutResult
<1>4. Finishes({"timeouts"})
  BY <1>1, <1>3, FailsFinishes
<1>5. starting' = FALSE
  BY <1>1 DEF AppTypeOK
<1>6. CASE ~orphaned
  <2>1. ~indeterminate
    BY <1>1, <1>2, <1>6 DEF Waiting
  <2>2. state = "waiting" /\ HasCurrent
    BY <1>1, <1>2, <2>1 DEF Waiting
  <2> QED
    BY <1>2, <1>4, <1>5, <2>2, FinishKeeps
<1>7. CASE orphaned
  <2>1. state' = "failed" /\ UNCHANGED index
    BY <1>2, <1>3 DEF Fails, Stop
  <2>2. orphaned' /\ ~Started'
    BY <1>1, <1>7 DEF Started
  <2>3. PICK r \in {"completed", "required", "optional"} : tally' = Counted({"timeouts"} \cup {r})
    BY <1>4 DEF Finishes
  <2>4. tally' \in [Tallies -> Nat]
    BY <1>1, <2>3, CountedAdds
  <2>5. AppTypeOK'
    BY <1>1, <2>1, <2>4, SlotOfEngineNext DEF AppTypeOK, States
  <2>6. Waiting' /\ Place' /\ CommandsAccounted' /\ Applied'
    BY <1>2, <1>5, <2>1, <2>2 DEF Waiting, Place, CommandsAccounted, Applied
  <2> QED
    BY <2>5, <2>6 DEF AppInv
<1> QED
  BY <1>6, <1>7

LEMMA TimeoutKeeps ==
  ASSUME AppInv,
         AppMarkTimeout \/ \E due \in BOOLEAN : AppCheckTimeout(due)
  PROVE  AppInv'
<1>1. /\ ~starting /\ HandleTimeoutResult
      /\ MarkTimeout \/ \E due \in BOOLEAN : CheckTimeout(due)
  BY DEF AppMarkTimeout, AppCheckTimeout
<1>2. IInv'
  BY <1>1, EngineKeeps DEF AppInv
<1>3. \/ TimesOut
      \/ \E s : s # "timedOut" /\ Returns(s)
  BY <1>1 DEF MarkTimeout, CheckTimeout
<1>4. ASSUME NEW s, s # "timedOut", Returns(s)
      PROVE  AppInv'
  <2>1. UNCHANGED <<current, indeterminate>> /\ status' # "timedOut"
    BY <1>4 DEF Returns
  <2>2. UNCHANGED applicationVars
    BY <1>1, <2>1 DEF HandleTimeoutResult, applicationVars
  <2> QED
    BY <1>2, <2>1, <2>2, IdleKeeps
<1> QED
  BY <1>1, <1>2, <1>3, <1>4, LateKeeps

\* Start and AppReset: the engine is emptied, or it was quarantined and stays as
\* it is, or it is quarantined now with what it held.
LEMMA ResetLeaves ==
  ASSUME AppInv, Reset
  PROVE  /\ indeterminate => indeterminate'
         /\ AwaitsAnswer' => AwaitsAnswer /\ indeterminate'
         /\ AwaitsAnswer => indeterminate'
<1>1. CASE indeterminate
  BY <1>1 DEF Reset, AwaitsAnswer, Occupied
<1>2. CASE ~indeterminate /\ AwaitsAnswer
  BY <1>2 DEF Reset, AwaitsAnswer, Occupied
<1>3. CASE ~indeterminate /\ ~AwaitsAnswer
  BY <1>3 DEF Reset, AwaitsAnswer, Occupied
<1> QED
  BY <1>1, <1>2, <1>3

LEMMA NoTallyType == NoTally \in [Tallies -> Nat] /\ \A t \in Tallies : NoTally[t] = 0
BY DEF NoTally

LEMMA StartBeginsKeeps ==
  ASSUME AppInv, NEW plan \in Plans, StartBegins(plan)
  PROVE  AppInv'
<1>1. /\ AppTypeOK /\ Waiting /\ Place /\ CommandsAccounted /\ Applied /\ IInv
      /\ state \notin {"running", "waiting"} /\ Reset
      /\ index' = 0 /\ tally' = NoTally /\ commands' = plan /\ UNCHANGED orphaned
      /\ state' = (IF plan = << >> THEN "completed" ELSE "running")
      /\ starting' = (plan # << >>)
  BY DEF AppInv, StartBegins
<1>2. IInv'
  BY <1>1, EngineKeeps
<1>3. plan \in Seq(Commands) /\ Len(plan) \in Nat /\ (plan # << >> => Len(plan) > 0)
  BY EmptySeq, ListsAssumption
<1>4. AppTypeOK'
  <2>1. state' \in States /\ starting' \in BOOLEAN /\ index' \in 0 .. Len(commands')
    BY <1>1, <1>3 DEF States
  <2>2. EngineTypeOK'
    BY <1>2, SlotOfEngineNext
  <2>3. tally' \in [Tallies -> Nat]
    BY <1>1, NoTallyType
  <2> QED
    BY <1>1, <2>1, <2>2, <2>3 DEF AppTypeOK
<1>5. Waiting'
  <2>1. state' # "waiting"
    BY <1>1
  <2>2. AwaitsAnswer => indeterminate /\ orphaned
    BY <1>1 DEF Waiting
  <2> QED
    BY <1>1, <2>1, <2>2, ResetLeaves DEF Waiting
<1>6. Place'
  BY <1>1, <1>3 DEF Place, HasCurrent, Started
<1>7. CommandsAccounted' /\ Applied'
  <2>1. ~Started'
    BY <1>1 DEF Started
  <2> QED
    BY <2>1 DEF CommandsAccounted, Applied
<1> QED
  BY <1>2, <1>4, <1>5, <1>6, <1>7 DEF AppInv

LEMMA AppResetKeeps ==
  ASSUME AppInv, AppReset
  PROVE  AppInv'
<1>1. /\ AppTypeOK /\ Waiting /\ IInv /\ starting = FALSE /\ starting' = FALSE
      /\ Reset /\ state' = "idle" /\ commands' = << >> /\ index' = 0 /\ tally' = NoTally
      /\ orphaned' = (orphaned \/ (AwaitsAnswer /\ ~indeterminate))
  BY DEF AppInv, AppReset, AppTypeOK
<1>2. IInv'
  BY <1>1, EngineKeeps
<1>3. AppTypeOK'
  <2>1. state' \in States /\ index' \in 0 .. Len(commands') /\ commands' \in Plans \cup {<< >>}
    BY <1>1 DEF States
  <2>2. orphaned' \in BOOLEAN
    BY <1>1 DEF AppTypeOK, AwaitsAnswer, EngineTypeOK
  <2> QED
    BY <1>1, <1>2, <2>1, <2>2, SlotOfEngineNext, NoTallyType DEF AppTypeOK
<1>4. Waiting'
  BY <1>1, ResetLeaves DEF Waiting
<1>5. ~Started' /\ Place'
  BY <1>1 DEF Place, Started
<1> QED
  BY <1>2, <1>3, <1>4, <1>5 DEF AppInv, CommandsAccounted, Applied

-----------------------------------------------------------------------------
LEMMA InitAppInv ==
  ASSUME AppInit
  PROVE  AppInv
<1>1. IInv
  BY InitIInv DEF AppInit
<1>2. ~AwaitsAnswer /\ ~indeterminate
  BY DEF AppInit, EngineInit, AwaitsAnswer, Occupied
<1>3. AppTypeOK
  <2>1. state \in States /\ starting \in BOOLEAN /\ orphaned \in BOOLEAN
    BY DEF AppInit, States
  <2>2. commands = << >> /\ index = 0 /\ tally \in [Tallies -> Nat]
    BY NoTallyType DEF AppInit
  <2>3. index \in 0 .. Len(commands)
    BY <2>2
  <2>4. EngineTypeOK
    BY <1>1, SlotOfEngine
  <2> QED
    BY <2>1, <2>2, <2>3, <2>4 DEF AppTypeOK
<1>4. Waiting /\ Place /\ ~Started
  BY <1>2 DEF AppInit, Waiting, Place, Started
<1> QED
  BY <1>1, <1>3, <1>4 DEF AppInv, CommandsAccounted, Applied

LEMMA NextAppInv ==
  ASSUME AppInv, [AppNext]_appVars
  PROVE  AppInv'
<1>1. CASE AppStarts
  BY <1>1, StartBeginsKeeps DEF AppStarts
<1>2. CASE HasCurrent /\ AppSends
  <2>1. PICK outcome : StartSteps(outcome) \/ Step(outcome)
    BY <1>2 DEF AppSends
  <2>2. SendCurrent(outcome) /\ starting' = FALSE
    BY <2>1 DEF StartSteps, Step, AppInv, AppTypeOK
  <2> QED
    BY <2>2, SendKeeps
<1>3. CASE AppAnswered
  BY <1>3, ApplyKeeps DEF AppAnswered
<1>4. CASE AppMarkTimeout \/ AppChecks
  BY <1>4, TimeoutKeeps DEF AppChecks
<1>5. CASE AppReset
  BY <1>5, AppResetKeeps
<1>6. CASE UNCHANGED appVars
  <2>1. UNCHANGED applicationVars /\ UNCHANGED engineVars
    BY <1>6 DEF appVars
  <2>2. IInv'
    BY <2>1, NextKeeps DEF AppInv
  <2> QED
    BY <2>1, <2>2, IdleKeeps DEF engineVars
<1> QED
  BY <1>1, <1>2, <1>3, <1>4, <1>5, <1>6 DEF AppNext

\* For every set of commands and of lists, and any sequence of calls: the
\* application and the engine agree on what is waited for, and the counters
\* tell the fate of every command of the list
\* (receiver_config_application.cpp:83, :224).
THEOREM ApplicationAgrees == AppSpec => []AgreesAndAccounts
<1>1. AppInit => AppInv
  BY InitAppInv
<1>2. AppInv /\ [AppNext]_appVars => AppInv'
  BY NextAppInv
<1>3. AppInv => AgreesAndAccounts
  <2> SUFFICES ASSUME AppInv PROVE AgreesAndAccounts
    OBVIOUS
  <2>1. AppTypeOK /\ Waiting /\ Place /\ CommandsAccounted /\ IInv
    BY DEF AppInv
  <2>2. /\ Occupied /\ ~indeterminate => AwaitsAnswer
        /\ ~indeterminate => unanswered = (IF AwaitsAnswer THEN 1 ELSE 0)
    BY <2>1, SlotOfEngine
  <2>3. AgreesWithEngine
    BY <2>1, <2>2 DEF AgreesWithEngine, Waiting, Place
  <2> QED
    BY <2>1, <2>3 DEF AgreesAndAccounts
<1> QED
  BY <1>1, <1>2, <1>3, PTL DEF AppSpec

-----------------------------------------------------------------------------
(* The inductive invariant                                                 *)

\* What is on its way to the router, read already or not.
Stream == chunk \o inbound

Kinds == {"positive", "negative"}
Pieces == [of : Everyone, kind : Kinds, last : BOOLEAN]
Responses == [of : Everyone, kind : Kinds, generation : Nat]
Places == {"start", "first", "top", "queued", "read", "process", "apply", "check", "done"}
FateNames == {"unsent", "sent", "accepted", "refused", "notSent", "unknown"}

LoopTypeOK ==
  /\ attempt \in Attempts
  /\ pc \in Places
  /\ fence \in [last : Nat, minimum : Nat]
  /\ partial \in Nat
  /\ queue \in Seq(Responses)
  /\ chunk \in Seq(Pieces) /\ inbound \in Seq(Pieces)
  /\ overdue \in BOOLEAN
  /\ said \in [Everyone -> Kinds \cup {"nothing"}]
  /\ fates \in [Everyone -> FateNames]

\* No generation is ahead of the fence.
Generations ==
  /\ partial <= fence.last
  /\ \A i \in DOMAIN queue : queue[i].generation <= fence.last

\* What is said of a command is what its receiver said.
Truthful ==
  /\ \A i \in DOMAIN queue : queue[i].kind = said[queue[i].of]
  /\ \A i \in DOMAIN Stream : Stream[i].kind = said[Stream[i].of]

\* At most one command is in the receiver's hands, and has had no answer.
InHand ==
  \/ received = << >>
  \/ \E c \in Everyone :
       received = <<c>> /\ said[c] = "nothing" /\ fates[c] \notin {"unsent", "notSent"}

\* Who has not got a command has said nothing of it.
Unasked == \A c \in Everyone : fates[c] \in {"unsent", "notSent"} => said[c] = "nothing"

\* Before the application is started.
NotStarted ==
  pc = "start" =>
    /\ state = "idle" /\ ~starting /\ ~orphaned /\ ~indeterminate
    /\ fates = [c \in Everyone |-> "unsent"]
    /\ received = << >> /\ queue = << >> /\ chunk = << >> /\ inbound = << >>

\* Where the application, the receiver and the loop are with the list.
UnderWay ==
  pc \notin {"start", "done"} =>
    /\ commands = attempt.commands /\ ~orphaned /\ ~indeterminate
    /\ state \in {"running", "waiting"}
    /\ starting <=> pc = "first"
    /\ received # << >> => state = "waiting" /\ received = <<index + 1>>
    /\ pc \notin {"process", "apply"} => chunk = << >>

\* The commands before the present one have passed, those after it wait.
FatesInOrder ==
  pc \notin {"start", "done"} =>
    /\ \A d \in 1 .. index : Attempt!Passed(fates, d)
    /\ fates[index + 1] = (IF state = "waiting" THEN "sent" ELSE "unsent")
    /\ \A d \in index + 2 .. Len(attempt.commands) : fates[d] = "unsent"
    /\ tally["required"] = 0
    /\ tally["optional"] = 0 <=> \A d \in 1 .. index : fates[d] = "accepted"

\* An answer's last bytes come right after its first, which are past if the
\* stream begins with last bytes; and an echo right after its answer.
WellFormed ==
  /\ Stream # << >> /\ Stream[1].last => partial # 0
  /\ chunk # << >> /\ attempt.family = "unicore" => fence.last > 0
  /\ \A i \in 2 .. Len(Stream) :
       Stream[i].last => ~Stream[i - 1].last /\ Stream[i - 1].of = Stream[i].of
  /\ \A i, j \in DOMAIN Stream :
       i < j /\ Stream[i].of = Stream[j].of /\ Stream[i].last /\ ~Stream[j].last => j = i + 1

\* While a command is waited for, only the rest of one answer that began
\* before its dispatch is about another one.
OnlyOurs ==
  \A i \in DOMAIN Stream :
    Stream[i].of # index + 1 => i = 1 /\ Stream[1].last /\ partial <= fence.minimum

\* Once an answer to it has been read, no echo of it is still to begin.
EchoesRead ==
  \A i \in Len(chunk) + 1 .. Len(Stream) :
    Stream[i].of = index + 1 /\ ~Stream[i].last =>
      /\ \A j \in 1 .. Len(chunk) : ~(Stream[j].of = index + 1 /\ Stream[j].last)
      /\ \A j \in DOMAIN queue : queue[j].of # index + 1

\* What is queued about another command is from before the dispatch.
OldOnesFenced ==
  \A i \in DOMAIN queue : queue[i].of = index + 1 \/ queue[i].generation <= fence.minimum

\* Between two commands nothing is unread but the rest of one answer.
NothingUnread ==
  \A i \in Len(chunk) + 1 .. Len(Stream) : i = Len(chunk) + 1 /\ Stream[i].last

Causal ==
  pc \notin {"start", "done"} /\ ~attempt.lateEchoes =>
    /\ WellFormed
    /\ state = "waiting" => OnlyOurs /\ EchoesRead /\ OldOnesFenced
    /\ state = "running" => NothingUnread

LoopInv ==
  /\ LoopTypeOK /\ Generations /\ Truthful /\ InHand /\ Unasked
  /\ NotStarted /\ UnderWay /\ FatesInOrder /\ Causal

-----------------------------------------------------------------------------
(* The list                                                                *)

\* What an attempt is.
LEMMA ListFacts ==
  ASSUME LoopTypeOK
  PROVE  /\ attempt.family \in Families /\ attempt.lateEchoes \in BOOLEAN
         /\ attempt.commands \in Plans /\ attempt.commands \in Seq(Commands)
         /\ Len(attempt.commands) \in Nat \ {0} /\ attempt.commands # << >>
         /\ Everyone = 1 .. Len(attempt.commands)
         /\ \A c \in 1 .. Len(attempt.commands) - 1 : attempt.commands[c].answered
         /\ attempt.lateEchoes =>
              /\ attempt.family = "ublox"
              /\ \A c \in Everyone : attempt.commands[c].target # NoTarget
              /\ \A c, d \in Everyone :
                   attempt.commands[c].target = attempt.commands[d].target => c = d
<1>1. attempt \in [family : Families, commands : Plans, lateEchoes : BOOLEAN]
  BY AttemptsAssumption DEF LoopTypeOK
<1>2. attempt.family \in Families /\ attempt.lateEchoes \in BOOLEAN /\ attempt.commands \in Plans
  BY <1>1
<1>3. attempt.commands \in Seq(Commands)
  BY <1>2, ListsAssumption
<1>4. attempt.commands # << >>
  BY AttemptsAssumption DEF LoopTypeOK
<1>5. Len(attempt.commands) \in Nat \ {0} /\ Everyone = 1 .. Len(attempt.commands)
  BY <1>3, <1>4, EmptySeq DEF Everyone
<1>6. \A c \in 1 .. Len(attempt.commands) - 1 : attempt.commands[c].answered
  BY AttemptsAssumption DEF LoopTypeOK
<1>7. attempt.lateEchoes =>
        /\ attempt.family = "ublox"
        /\ \A c \in Everyone : attempt.commands[c].target # NoTarget
        /\ \A c, d \in Everyone :
             attempt.commands[c].target = attempt.commands[d].target => c = d
  BY AttemptsAssumption DEF LoopTypeOK, Everyone
<1> QED
  BY <1>2, <1>3, <1>4, <1>5, <1>6, <1>7

Busy == pc \notin {"start", "done"}

\* While the loop runs, the application is at a command of the list.
LEMMA AtCommand ==
  ASSUME AppInv, LoopTypeOK, UnderWay, Busy
  PROVE  /\ index \in Nat /\ index + 1 \in Everyone /\ HasCurrent
         /\ CurrentCommand = attempt.commands[index + 1] /\ CurrentCommand \in Commands
         /\ index + 1 < Len(commands) <=> index + 1 # Len(attempt.commands)
<1>1. commands = attempt.commands /\ state \in {"running", "waiting"}
  BY DEF UnderWay, Busy
<1>2. HasCurrent
  BY <1>1 DEF AppInv, Waiting, Place
<1>3. index \in Nat /\ CurrentCommand \in Commands
  BY <1>2, ListType DEF AppInv
<1>4. Len(attempt.commands) \in Nat /\ Everyone = 1 .. Len(attempt.commands)
  BY ListFacts
<1>5. index < Len(attempt.commands)
  BY <1>1, <1>2 DEF HasCurrent
<1> QED
  BY <1>1, <1>2, <1>3, <1>4, <1>5 DEF CurrentCommand

-----------------------------------------------------------------------------
(* What a call on the application makes of the present command             *)

\* The present command meets a fate, and the list goes on or stops by it.
Met(f) ==
  /\ fates' = [fates EXCEPT ![index + 1] = f]
  /\ UNCHANGED <<commands, orphaned>> /\ starting' = FALSE
  /\ \/ /\ f = "accepted" \/ (f \in {"refused", "notSent"} /\ ~CurrentCommand.required)
        /\ Advance /\ ~indeterminate'
        /\ tally'["required"] = 0
        /\ tally'["optional"] = 0 <=> tally["optional"] = 0 /\ f = "accepted"
        /\ tally'["optional"] \in Nat
     \/ /\ f = "unknown" \/ (f \in {"refused", "notSent"} /\ CurrentCommand.required)
        /\ Stop /\ (indeterminate' <=> f = "unknown")
        /\ FailureStatus \in Attempt!Blames[f]

LEMMA SucceedsMeets ==
  ASSUME AppTypeOK, tally["required"] = 0,
         NEW S \in SUBSET {"started", "applied"}, Succeeds(S), ~indeterminate',
         UNCHANGED <<commands, orphaned>>, starting' = FALSE,
         fates' = [fates EXCEPT ![index + 1] = "accepted"]
  PROVE  Met("accepted")
<1>1. tally' = Counted(S \cup {"completed"}) /\ Advance
  BY DEF Succeeds
<1>2. "required" \notin S \cup {"completed"} /\ "optional" \notin S \cup {"completed"}
  OBVIOUS
<1>3. tally'["required"] = tally["required"] + 0 /\ tally'["optional"] = tally["optional"] + 0
  BY <1>1, <1>2, CountedAdds DEF Tallies
<1>4. tally["optional"] \in Nat
  BY DEF AppTypeOK, Tallies
<1> QED
  BY <1>1, <1>3, <1>4 DEF Met

LEMMA FailsMeets ==
  ASSUME AppTypeOK, tally["required"] = 0, HasCurrent, CurrentCommand.required \in BOOLEAN,
         NEW S \in SUBSET {"started", "applied", "timeouts"}, NEW b \in BOOLEAN, Fails(S, b),
         UNCHANGED <<commands, orphaned>>, starting' = FALSE,
         NEW f \in {"refused", "notSent", "unknown"},
         fates' = [fates EXCEPT ![index + 1] = f],
         indeterminate' <=> f = "unknown", ~indeterminate' => b,
         FailureStatus \in Attempt!Blames[f]
  PROVE  Met(f)
<1>1. CurrentRequired <=> CurrentCommand.required
  BY DEF CurrentRequired
<1>2. ~ContinueOnError
  BY AttemptsAssumption
<1>3. CASE f # "unknown" /\ ~CurrentCommand.required
  <2>1. tally' = Counted(S \cup {"optional"}) /\ Advance
    BY <1>1, <1>3 DEF Fails
  <2>2. "required" \notin S \cup {"optional"} /\ "optional" \in S \cup {"optional"}
    OBVIOUS
  <2>3. tally'["required"] = tally["required"] + 0 /\ tally'["optional"] = tally["optional"] + 1
    BY <2>1, <2>2, CountedAdds DEF Tallies
  <2>4. tally["optional"] \in Nat
    BY DEF AppTypeOK, Tallies
  <2>5. tally'["optional"] # 0 /\ tally'["optional"] \in Nat
    BY <2>3, <2>4
  <2> QED
    BY <1>3, <2>1, <2>3, <2>5 DEF Met
<1>4. CASE f = "unknown" \/ CurrentCommand.required
  <2>1. Stop
    BY <1>1, <1>2, <1>4 DEF Fails
  <2> QED
    BY <1>4, <2>1 DEF Met
<1> QED
  BY <1>3, <1>4

\* The command is sent and waited for.
Dispatched ==
  /\ CurrentCommand.answered
  /\ fates' = [fates EXCEPT ![index + 1] = "sent"]
  /\ state' = "waiting" /\ status' = "dispatched" /\ ~indeterminate'
  /\ UNCHANGED <<index, commands, orphaned>> /\ starting' = FALSE
  /\ tally'["required"] = tally["required"] /\ tally'["optional"] = tally["optional"]

MoreDispatched == metrics'["dispatched"] > metrics["dispatched"]

\* A running application sends the present command.
LEMMA SendOutcome ==
  ASSUME AppInv, LoopTypeOK, UnderWay, FatesInOrder, Busy, state = "running",
         NEW outcome \in Outcomes(CurrentCommand), SendCurrent(outcome), starting' = FALSE,
         RecordFate
  PROVE  \/ Dispatched /\ MoreDispatched
         \/ /\ status' # "dispatched"
            /\ \/ ~CurrentCommand.answered /\ Met("accepted") /\ MoreDispatched
               \/ Met("unknown") /\ ~MoreDispatched /\ indeterminate'
               \/ Met("notSent") /\ ~MoreDispatched /\ ~indeterminate'
<1>1. /\ AppTypeOK /\ IInv /\ Waiting /\ ~indeterminate /\ index + 1 \in Everyone /\ HasCurrent
      /\ CurrentCommand \in Commands /\ tally["required"] = 0
      /\ StartTransaction(CurrentCommand, outcome) /\ UNCHANGED <<commands, orphaned>>
  BY AtCommand DEF AppInv, UnderWay, Busy, FatesInOrder, SendCurrent
<1>2. ~Occupied
  BY <1>1, SlotOfEngine DEF Waiting
<1>3. CurrentCommand.answered \in BOOLEAN /\ CurrentCommand.required \in BOOLEAN
  BY <1>1, CommandsAssumption DEF CommandType
<1>4. fates' = [fates EXCEPT ![index + 1] = Fate]
  BY <1>1 DEF RecordFate
<1>5. metrics["dispatched"] \in Nat /\ EngineTypeOK
  BY <1>1 DEF IInv, EngineTypeOK, Counters
<1>6. ~StartRefused
  BY <1>1, <1>2 DEF StartRefused
<1>7. CASE StartFails(CurrentCommand, outcome)
  <2>1. status' = "dispatchFailed" /\ indeterminate' = (outcome = "partlyWritten")
    BY <1>7 DEF StartFails
  <2>2. ~MoreDispatched
    <3> DEFINE S == {"created", "failures"} \cup Unless(outcome # "partlyWritten", {"quarantined"})
    <3>1. "dispatched" \notin S
      BY DEF Unless
    <3>2. metrics' = Count(S)
      BY <1>7 DEF StartFails
    <3> HIDE DEF S
    <3>3. metrics'["dispatched"] = metrics["dispatched"] + 0
      BY <1>5, <3>1, <3>2, CountAdds DEF Counters
    <3> QED
      BY <1>5, <3>3 DEF MoreDispatched
  <2>3. Fails({"started"}, TRUE) /\ FailureStatus = "dispatchFailed"
    BY <2>1 DEF SendCurrent, FailureStatus
  <2>4. CASE outcome = "partlyWritten"
    <3>1. indeterminate' /\ Fate = "unknown" /\ FailureStatus \in Attempt!Blames["unknown"]
      BY <2>1, <2>3, <2>4 DEF Fate, Attempt!Blames
    <3>2. Met("unknown")
      BY <1>1, <1>3, <1>4, <2>3, <3>1, FailsMeets
    <3> QED
      BY <2>1, <2>2, <3>1, <3>2
  <2>5. CASE outcome # "partlyWritten"
    <3>1. ~indeterminate' /\ Fate = "notSent" /\ FailureStatus \in Attempt!Blames["notSent"]
      BY <2>1, <2>3, <2>5 DEF Fate, Attempt!Blames
    <3>2. Met("notSent")
      BY <1>1, <1>3, <1>4, <2>3, <3>1, FailsMeets
    <3> QED
      BY <2>1, <2>2, <3>1, <3>2
  <2> QED
    BY <2>4, <2>5
<1>8. CASE StartsUnanswered(CurrentCommand)
  <2>1. status' = "acknowledged" /\ ~indeterminate' /\ ~CurrentCommand.answered
    BY <1>8 DEF StartsUnanswered
  <2>2. MoreDispatched
    BY <1>5, <1>8, CountAdds DEF StartsUnanswered, Counters, MoreDispatched
  <2>3. Succeeds({"started"}) /\ Fate = "accepted"
    BY <2>1 DEF SendCurrent, Fate
  <2>4. Met("accepted")
    BY <1>1, <1>4, <2>1, <2>3, SucceedsMeets
  <2> QED
    BY <2>1, <2>2, <2>4
<1>9. CASE StartsAnswered(CurrentCommand)
  <2>1. status' = "dispatched" /\ ~indeterminate' /\ CurrentCommand.answered
    BY <1>9 DEF StartsAnswered
  <2>2. MoreDispatched
    BY <1>5, <1>9, CountAdds DEF StartsAnswered, Counters, MoreDispatched
  <2>3. /\ state' = "waiting" /\ tally' = Counted({"started"}) /\ UNCHANGED index
        /\ Fate = "sent"
    BY <2>1 DEF SendCurrent, Fate
  <2>4. tally'["required"] = tally["required"] + 0 /\ tally'["optional"] = tally["optional"] + 0
    BY <1>1, <2>3, CountedAdds DEF Tallies
  <2>5. tally["required"] \in Nat /\ tally["optional"] \in Nat
    BY <1>1 DEF AppTypeOK, Tallies
  <2> QED
    BY <1>1, <1>4, <2>1, <2>2, <2>3, <2>4, <2>5 DEF Dispatched
<1> QED
  BY <1>1, <1>6, <1>7, <1>8, <1>9 DEF StartTransaction

\* The call leaves the application and the fates as they are.
NothingHappens ==
  /\ UNCHANGED <<applicationVars, indeterminate, current>>
  /\ fates' = fates

\* An answer is taken for the present command, or not at all.
LEMMA AnswerOutcome ==
  ASSUME AppInv, LoopTypeOK, UnderWay, FatesInOrder, Busy, state = "waiting",
         NEW kind \in Kinds, NEW target, AppApplyResponse(kind, target), RecordFate
  PROVE  \/ NothingHappens
         \/ MatchesCurrent(target) /\ Met(IF kind = "positive" THEN "accepted" ELSE "refused")
<1>1. /\ AppTypeOK /\ index + 1 \in Everyone /\ HasCurrent
      /\ CurrentCommand \in Commands /\ tally["required"] = 0
      /\ ApplyResponse(kind, target) /\ UNCHANGED <<commands, starting, orphaned>> /\ ~starting
  BY AtCommand DEF AppInv, UnderWay, Busy, FatesInOrder, AppApplyResponse
<1>2. CurrentCommand.required \in BOOLEAN
  BY <1>1, CommandsAssumption DEF CommandType
<1>3. fates' = [fates EXCEPT ![index + 1] = Fate] /\ starting' = FALSE
  BY <1>1 DEF RecordFate, AppTypeOK
<1>4. CASE Returns("responseUnmatched")
  <2>1. status' = "responseUnmatched" /\ UNCHANGED <<current, indeterminate>>
    BY <1>4 DEF Returns
  <2>2. Fate = fates[index + 1] /\ UNCHANGED applicationVars
    BY <2>1 DEF Fate, AppApplyResponse, applicationVars
  <2>3. fates' = fates
    BY <1>3, <2>2 DEF LoopTypeOK
  <2> QED
    BY <2>1, <2>2, <2>3 DEF NothingHappens
<1>5. CASE Eligible(kind, target) /\ AcceptResponse(kind)
  <2>1. MatchesCurrent(target) /\ ~indeterminate'
    BY <1>5 DEF Eligible, AcceptResponse
  <2>2. CASE kind = "positive"
    <3>1. status' = "acknowledged"
      BY <1>5, <2>2 DEF AcceptResponse
    <3>2. Succeeds({"applied"}) /\ Fate = "accepted"
      BY <3>1 DEF AppApplyResponse, Fate
    <3>3. Met("accepted")
      BY <1>1, <1>3, <2>1, <3>2, SucceedsMeets
    <3> QED
      BY <2>1, <2>2, <3>3
  <2>3. CASE kind # "positive"
    <3>1. status' = "rejected"
      BY <1>5, <2>3 DEF AcceptResponse
    <3>2. Fails({"applied"}, TRUE) /\ Fate = "refused" /\ FailureStatus \in Attempt!Blames["refused"]
      BY <3>1 DEF AppApplyResponse, Fate, FailureStatus, Attempt!Blames
    <3>3. Met("refused")
      BY <1>1, <1>2, <1>3, <2>1, <3>2, FailsMeets
    <3> QED
      BY <2>1, <2>3, <3>3
  <2> QED
    BY <2>2, <2>3
<1> QED
  BY <1>1, <1>4, <1>5 DEF ApplyResponse

\* A deadline that has passed leaves the fate unknown.
LEMMA CheckOutcome ==
  ASSUME AppInv, LoopTypeOK, UnderWay, FatesInOrder, Busy, NEW due, AppCheckTimeout(due), RecordFate
  PROVE  \/ NothingHappens
         \/ state = "waiting" /\ Met("unknown")
<1>1. /\ AppTypeOK /\ Waiting /\ index + 1 \in Everyone /\ HasCurrent /\ ~indeterminate
      /\ CurrentCommand \in Commands /\ tally["required"] = 0
      /\ CheckTimeout(due) /\ HandleTimeoutResult
  BY AtCommand DEF AppInv, UnderWay, Busy, FatesInOrder, AppCheckTimeout
<1>2. CurrentCommand.required \in BOOLEAN
  BY <1>1, CommandsAssumption DEF CommandType
<1>3. fates' = [fates EXCEPT ![index + 1] = Fate]
  BY <1>1 DEF RecordFate
<1>4. ASSUME NEW s \in {"sessionIndeterminate", "noCurrentTransaction", "notTimedOut"}, Returns(s)
      PROVE  NothingHappens
  <2>1. status' = s /\ UNCHANGED <<current, indeterminate>>
    BY <1>4 DEF Returns
  <2>2. Fate = fates[index + 1] /\ UNCHANGED applicationVars
    BY <1>1, <2>1 DEF Fate, HandleTimeoutResult, applicationVars
  <2>3. fates' = fates
    BY <1>3, <2>2 DEF LoopTypeOK
  <2> QED
    BY <2>1, <2>2, <2>3 DEF NothingHappens
<1>5. CASE TimesOut
  <2>1. status' = "timedOut" /\ indeterminate' /\ AwaitsAnswer
    BY <1>5 DEF TimesOut
  <2>2. state = "waiting" /\ Fails({"timeouts"}, FALSE) /\ Fate = "unknown"
    BY <1>1, <2>1 DEF Waiting, HandleTimeoutResult, Fate
  <2>3. FailureStatus \in Attempt!Blames["unknown"]
    BY <2>1 DEF FailureStatus, Attempt!Blames
  <2>4. UNCHANGED <<commands, orphaned>> /\ starting' = FALSE
    BY <1>1 DEF HandleTimeoutResult, AppCheckTimeout, AppTypeOK
  <2>5. Met("unknown")
    BY <1>1, <1>2, <1>3, <2>1, <2>2, <2>3, <2>4, FailsMeets
  <2> QED
    BY <2>2, <2>5
<1> QED
  BY <1>1, <1>4, <1>5 DEF CheckTimeout, MarkTimeout

-----------------------------------------------------------------------------
(* What the attempt makes of it                                            *)

\* The loop ends, or goes on with the next command at the given place.
GoesOn(next) ==
  \/ pc' = "done"
  \/ /\ pc' = next /\ state' = "running" /\ index' = index + 1 /\ ~indeterminate'
     /\ starting' = FALSE /\ UNCHANGED <<commands, orphaned>>

\* Of the fates of the list when the present command, and only it, gets one.
LEMMA FatesAround ==
  ASSUME AppInv, LoopTypeOK, UnderWay, FatesInOrder, Busy, UNCHANGED attempt,
         NEW f, fates' = [fates EXCEPT ![index + 1] = f]
  PROVE  /\ fates'[index + 1] = f
         /\ \A d \in 1 .. index : fates'[d] = fates[d] /\ Attempt!Passed(fates', d)
         /\ \A d \in index + 2 .. Len(attempt.commands) : fates'[d] = "unsent"
         /\ \A d \in Everyone : d \in 1 .. index \/ d = index + 1 \/ d \in index + 2 .. Len(attempt.commands)
         /\ 1 .. index \subseteq Everyone
         /\ index + 2 .. Len(attempt.commands) \subseteq Everyone
<1>1. index \in Nat /\ index + 1 \in Everyone
  BY AtCommand
<1>2. Len(attempt.commands) \in Nat /\ Everyone = 1 .. Len(attempt.commands)
  BY ListFacts
<1>3. \A d \in Everyone : d \in 1 .. index \/ d = index + 1 \/ d \in index + 2 .. Len(attempt.commands)
  BY <1>1, <1>2
<1>4. 1 .. index \subseteq Everyone /\ index + 2 .. Len(attempt.commands) \subseteq Everyone
  BY <1>1, <1>2
<1>5. index + 1 \notin 1 .. index /\ index + 1 \notin index + 2 .. Len(attempt.commands)
  BY <1>1, <1>2
<1>6. fates'[index + 1] = f /\ \A d \in Everyone : d # index + 1 => fates'[d] = fates[d]
  BY <1>1 DEF LoopTypeOK
<1>7. /\ \A d \in 1 .. index : Attempt!Passed(fates, d)
      /\ \A d \in index + 2 .. Len(attempt.commands) : fates[d] = "unsent"
  BY DEF FatesInOrder, Busy
<1>8. \A d \in 1 .. index : fates'[d] = fates[d] /\ Attempt!Passed(fates', d)
  BY <1>4, <1>5, <1>6, <1>7 DEF Attempt!Passed
<1>9. \A d \in index + 2 .. Len(attempt.commands) : fates'[d] = "unsent"
  BY <1>4, <1>5, <1>6, <1>7
<1> QED
  BY <1>3, <1>4, <1>6, <1>8, <1>9

\* The attempt takes the fate of the present command as it is meant.
LEMMA MetReports ==
  ASSUME AppInv, LoopTypeOK, UnderWay, FatesInOrder, Busy, UNCHANGED <<attempt, said>>,
         NEW f, Met(f), NEW next, FinishesOr(next)
  PROVE  Attempt!Meets(index + 1, f) /\ GoesOn(next) /\ FatesInOrder'
<1> DEFINE p == index + 1
<1> DEFINE n == Len(attempt.commands)
<1>1. /\ index \in Nat /\ p \in Everyone /\ n \in Nat /\ Everyone = 1 .. n
      /\ CurrentCommand = attempt.commands[p] /\ (p < Len(commands) <=> p # n)
  BY AtCommand, ListFacts
<1>2. /\ fates'[p] = f
      /\ \A d \in 1 .. index : fates'[d] = fates[d] /\ Attempt!Passed(fates', d)
      /\ \A d \in index + 2 .. n : fates'[d] = "unsent"
      /\ \A d \in Everyone : d \in 1 .. index \/ d = p \/ d \in index + 2 .. n
      /\ 1 .. index \subseteq Everyone
      /\ index + 2 .. n \subseteq Everyone
  BY FatesAround DEF Met
<1>3. /\ fates' = [fates EXCEPT ![p] = f] /\ UNCHANGED <<commands, orphaned>> /\ starting' = FALSE
  BY DEF Met
<1>4. tally["optional"] = 0 <=> \A d \in 1 .. index : fates[d] = "accepted"
  BY DEF FatesInOrder, Busy
<1>5. CASE /\ f = "accepted" \/ (f \in {"refused", "notSent"} /\ ~CurrentCommand.required)
           /\ Advance /\ ~indeterminate'
           /\ tally'["required"] = 0
           /\ tally'["optional"] = 0 <=> tally["optional"] = 0 /\ f = "accepted"
           /\ tally'["optional"] \in Nat
  <2>1. Attempt!Passed(fates', p)
    BY <1>1, <1>2, <1>5 DEF Attempt!Passed
  <2>2. index' = p /\ state' = (IF p # n THEN "running" ELSE "completed")
    BY <1>1, <1>5 DEF Advance
  <2>3. tally'["optional"] = 0 <=> \A d \in 1 .. p : fates'[d] = "accepted"
    <3>1. 1 .. p = 1 .. index \cup {p}
      BY <1>1
    <3> QED
      BY <1>2, <1>4, <1>5, <3>1
  <2>4. \A d \in 1 .. p : Attempt!Passed(fates', d)
    <3>1. 1 .. p = 1 .. index \cup {p}
      BY <1>1
    <3> QED
      BY <1>2, <2>1, <3>1
  <2>5. CASE p = n
    <3>1. state' = "completed" /\ Everyone = 1 .. p
      BY <1>1, <2>2, <2>5
    <3>2. /\ pc' = "done"
          /\ report' = [status |-> CompletionStatus, indeterminate |-> state' = "failed" /\ indeterminate']
      BY <3>1 DEF FinishesOr
    <3>3. \A d \in DOMAIN attempt.commands : Attempt!Passed(fates', d)
      BY <2>4, <3>1 DEF Everyone
    <3>4. CompletionStatus = (IF \A d \in DOMAIN attempt.commands : fates'[d] = "accepted"
                              THEN "ok" ELSE "partialSuccess")
      BY <1>5, <2>3, <3>1 DEF CompletionStatus, Everyone
    <3>5. CompletionStatus \in Attempt!HonestStatuses(fates')
      BY <3>3, <3>4 DEF Attempt!HonestStatuses
    <3>6. \A d \in DOMAIN attempt.commands : fates'[d] # "unknown"
      BY <3>3 DEF Attempt!Passed
    <3>7. /\ report'.status = CompletionStatus /\ report'.indeterminate = FALSE
          /\ DOMAIN report' = {"status", "indeterminate"}
      BY <3>1, <3>2
    <3>8. Attempt!Meets(p, f)
      BY <1>3, <3>3, <3>5, <3>6, <3>7 DEF Attempt!Meets, Attempt!Over
    <3> QED
      BY <3>2, <3>8 DEF GoesOn, FatesInOrder
  <2>6. CASE p # n
    <3>1. state' = "running"
      BY <2>2, <2>6
    <3>2. pc' = next /\ UNCHANGED report
      BY <3>1 DEF FinishesOr
    <3>3. p + 1 \in index + 2 .. n
      BY <1>1, <2>6
    <3>4. fates'[p + 1] = "unsent" /\ p + 1 \in DOMAIN attempt.commands
      BY <1>2, <3>3 DEF Everyone
    <3>5. ~Attempt!Passed(fates', p + 1)
      BY <3>4 DEF Attempt!Passed
    <3>6. \A d \in DOMAIN attempt.commands : ~Attempt!Stops(fates', d)
      BY <1>2, <2>1 DEF Attempt!Stops, Everyone
    <3>7. Attempt!Meets(p, f)
      BY <1>3, <3>2, <3>4, <3>5, <3>6 DEF Attempt!Meets, Attempt!Over
    <3>8. \A d \in p + 2 .. n : fates'[d] = "unsent"
      BY <1>1, <1>2
    <3>9. FatesInOrder'
      <4>1. attempt' = attempt /\ index' = p /\ fates'[p + 1] = "unsent"
        BY <2>2, <3>4
      <4>2. (\A d \in 1 .. index : Attempt!Passed(fates, d))'
        BY <2>4, <4>1 DEF Attempt!Passed
      <4> HIDE DEF p
      <4> QED
        BY <1>5, <1>4, <2>3, <3>1, <3>8, <4>1, <4>2 DEF FatesInOrder
    <3> QED
      BY <1>3, <1>5, <2>2, <3>1, <3>2, <3>7, <3>9 DEF GoesOn
  <2> QED
    BY <2>5, <2>6
<1>6. CASE /\ f = "unknown" \/ (f \in {"refused", "notSent"} /\ CurrentCommand.required)
           /\ Stop /\ (indeterminate' <=> f = "unknown")
           /\ FailureStatus \in Attempt!Blames[f]
  <2>1. state' = "failed"
    BY <1>6 DEF Stop
  <2>2. /\ pc' = "done"
        /\ report' = [status |-> FailureStatus, indeterminate |-> state' = "failed" /\ indeterminate']
    BY <2>1 DEF FinishesOr
  <2>3. Attempt!Stops(fates', p) /\ ~Attempt!Passed(fates', p)
    BY <1>1, <1>2, <1>6 DEF Attempt!Stops, Attempt!Passed
  <2>4. p \in DOMAIN attempt.commands
    BY <1>1 DEF Everyone
  <2>5. FailureStatus \in Attempt!HonestStatuses(fates')
    BY <1>2, <1>6, <2>3, <2>4 DEF Attempt!HonestStatuses
  <2>6. (f = "unknown") <=> \E d \in DOMAIN attempt.commands : fates'[d] = "unknown"
    BY <1>2, <2>4 DEF Everyone, Attempt!Passed
  <2>7. /\ report'.status = FailureStatus
        /\ report'.indeterminate = (state' = "failed" /\ indeterminate')
        /\ DOMAIN report' = {"status", "indeterminate"}
    BY <2>2
  <2>8. report'.indeterminate = \E d \in DOMAIN attempt.commands : fates'[d] = "unknown"
    BY <1>6, <2>1, <2>6, <2>7
  <2>9. Attempt!Meets(p, f)
    BY <1>3, <2>3, <2>4, <2>5, <2>7, <2>8 DEF Attempt!Meets, Attempt!Over
  <2> QED
    BY <2>2, <2>9 DEF GoesOn, FatesInOrder
<1> QED
  BY <1>5, <1>6 DEF Met

\* A command that is sent and waited for ends nothing.
LEMMA DispatchedReports ==
  ASSUME AppInv, LoopTypeOK, UnderWay, FatesInOrder, Busy, UNCHANGED <<attempt, said>>,
         Dispatched, NEW next, FinishesOr(next)
  PROVE  Attempt!Meets(index + 1, "sent") /\ pc' = next /\ FatesInOrder'
<1> DEFINE p == index + 1
<1> DEFINE n == Len(attempt.commands)
<1>1. /\ index \in Nat /\ p \in Everyone
  BY AtCommand
<1>2. /\ fates'[p] = "sent"
      /\ \A d \in 1 .. index : fates'[d] = fates[d] /\ Attempt!Passed(fates', d)
      /\ \A d \in index + 2 .. n : fates'[d] = "unsent"
      /\ \A d \in Everyone : d \in 1 .. index \/ d = p \/ d \in index + 2 .. n
  BY FatesAround DEF Dispatched
<1>3. pc' = next /\ UNCHANGED report
  BY DEF Dispatched, FinishesOr
<1>4. ~Attempt!Passed(fates', p) /\ p \in DOMAIN attempt.commands
  BY <1>1, <1>2 DEF Attempt!Passed, Everyone
<1>5. \A d \in DOMAIN attempt.commands : ~Attempt!Stops(fates', d)
  BY <1>2 DEF Attempt!Stops, Everyone
<1>6. Attempt!Meets(p, "sent")
  BY <1>3, <1>4, <1>5 DEF Dispatched, Attempt!Meets, Attempt!Over
<1>7. FatesInOrder'
  <2>1. /\ index' = index /\ state' = "waiting"
        /\ tally'["required"] = tally["required"] /\ tally'["optional"] = tally["optional"]
    BY DEF Dispatched
  <2>2. tally["required"] = 0 /\ (tally["optional"] = 0 <=> \A d \in 1 .. index : fates[d] = "accepted")
    BY DEF FatesInOrder, Busy
  <2>3. (\A d \in 1 .. index : Attempt!Passed(fates, d))'
    BY <1>2, <2>1 DEF Attempt!Passed
  <2>4. \A d \in 1 .. index : fates'[d] = fates[d]
    BY <1>2
  <2>5. tally'["optional"] = 0 <=> \A d \in 1 .. index' : fates'[d] = "accepted"
    BY <2>1, <2>2, <2>4
  <2> QED
    BY <1>2, <2>1, <2>2, <2>3, <2>5 DEF FatesInOrder
<1> QED
  BY <1>3, <1>6, <1>7
-----------------------------------------------------------------------------
(* The answers in transit                                                  *)

\* While the attempt stays, so do the sets of what may be in transit.
LEMMA SameSets ==
  ASSUME UNCHANGED attempt
  PROVE  Everyone' = Everyone /\ Pieces' = Pieces /\ Responses' = Responses
BY DEF Everyone, Pieces, Responses, Kinds

\* The stream is what was read and then what was not.
LEMMA StreamFacts ==
  ASSUME LoopTypeOK
  PROVE  /\ Stream \in Seq(Pieces) /\ chunk \in Seq(Pieces) /\ inbound \in Seq(Pieces)
         /\ Len(chunk) \in Nat /\ Len(inbound) \in Nat
         /\ Len(Stream) = Len(chunk) + Len(inbound)
         /\ DOMAIN Stream = 1 .. Len(Stream)
         /\ \A i \in 1 .. Len(Stream) :
              /\ Stream[i] = (IF i <= Len(chunk) THEN chunk[i] ELSE inbound[i - Len(chunk)])
              /\ Stream[i].of \in Everyone /\ Stream[i].kind \in Kinds /\ Stream[i].last \in BOOLEAN
<1>1. chunk \in Seq(Pieces) /\ inbound \in Seq(Pieces)
  BY DEF LoopTypeOK
<1>2. /\ Stream \in Seq(Pieces) /\ Len(chunk) \in Nat /\ Len(inbound) \in Nat
      /\ Len(Stream) = Len(chunk) + Len(inbound)
      /\ \A i \in 1 .. Len(Stream) :
           Stream[i] = (IF i <= Len(chunk) THEN chunk[i] ELSE inbound[i - Len(chunk)])
  BY <1>1 DEF Stream
<1>3. \A i \in 1 .. Len(Stream) : Stream[i] \in Pieces
  BY <1>2
<1> QED
  BY <1>1, <1>2, <1>3 DEF Pieces

\* The first piece of what was read is taken.
LEMMA StreamTail ==
  ASSUME LoopTypeOK, UNCHANGED <<attempt, inbound>>, chunk # << >>, chunk' = Tail(chunk)
  PROVE  /\ chunk' \in Seq(Pieces) /\ Len(chunk') = Len(chunk) - 1
         /\ Len(chunk) \in Nat \ {0} /\ Len(Stream) \in Nat \ {0} /\ Len(chunk) <= Len(Stream)
         /\ Stream[1] = Head(chunk)
         /\ DOMAIN Stream' = 1 .. Len(Stream') /\ Len(Stream') = Len(Stream) - 1
         /\ \A i \in 1 .. Len(Stream') : i + 1 \in 2 .. Len(Stream) /\ Stream'[i] = Stream[i + 1]
<1>1. /\ chunk \in Seq(Pieces) /\ inbound \in Seq(Pieces) /\ Len(chunk) \in Nat /\ Len(inbound) \in Nat
      /\ Len(Stream) = Len(chunk) + Len(inbound)
      /\ \A i \in 1 .. Len(Stream) :
              Stream[i] = (IF i <= Len(chunk) THEN chunk[i] ELSE inbound[i - Len(chunk)])
  BY StreamFacts
<1>2. /\ chunk' \in Seq(Pieces) /\ Len(chunk') = Len(chunk) - 1 /\ Len(chunk) # 0
      /\ \A i \in 1 .. Len(chunk') : chunk'[i] = chunk[i + 1]
      /\ Head(chunk) = chunk[1]
  BY <1>1, EmptySeq
<1>3. /\ Stream' = chunk' \o inbound
  BY DEF Stream
<1>4. /\ Len(Stream') = Len(chunk') + Len(inbound)
      /\ DOMAIN Stream' = 1 .. Len(Stream')
      /\ \A i \in 1 .. Len(Stream') :
              Stream'[i] = (IF i <= Len(chunk') THEN chunk'[i] ELSE inbound[i - Len(chunk')])
  BY <1>1, <1>2, <1>3
<1>5. Stream[1] = Head(chunk)
  BY <1>1, <1>2
<1>6. ASSUME NEW i \in 1 .. Len(Stream')
      PROVE  i + 1 \in 2 .. Len(Stream) /\ Stream'[i] = Stream[i + 1]
  <2>1. i \in Nat /\ i + 1 \in 2 .. Len(Stream) /\ i + 1 \in 1 .. Len(Stream)
    BY <1>1, <1>2, <1>4
  <2>2. CASE i <= Len(chunk')
    <3>1. i + 1 <= Len(chunk) /\ i \in 1 .. Len(chunk')
      BY <1>1, <1>2, <2>2
    <3> QED
      BY <1>1, <1>2, <1>4, <2>1, <2>2, <3>1
  <2>3. CASE ~(i <= Len(chunk'))
    <3>1. ~(i + 1 <= Len(chunk)) /\ i - Len(chunk') = i + 1 - Len(chunk)
      BY <1>1, <1>2, <2>1, <2>3
    <3> QED
      BY <1>1, <1>4, <2>1, <2>3, <3>1
  <2> QED
    BY <2>2, <2>3
<1> QED
  BY <1>1, <1>2, <1>4, <1>5, <1>6

\* A read moves no piece.
LEMMA StreamRead ==
  ASSUME LoopTypeOK, UNCHANGED attempt, chunk = << >>, NEW k \in 1 .. Len(inbound),
         chunk' = SubSeq(inbound, 1, k), inbound' = SubSeq(inbound, k + 1, Len(inbound))
  PROVE  /\ Stream' = Stream /\ Stream = inbound
         /\ chunk' \in Seq(Pieces) /\ inbound' \in Seq(Pieces) /\ Len(chunk') = k
<1>1. inbound \in Seq(Pieces) /\ Len(inbound) \in Nat /\ k \in Nat
  BY StreamFacts
<1>2. Stream = inbound
  BY <1>1 DEF Stream
<1>3. /\ chunk' \in Seq(Pieces) /\ Len(chunk') = k
      /\ \A i \in 1 .. k : chunk'[i] = inbound[i]
  BY <1>1
<1>4. /\ inbound' \in Seq(Pieces) /\ Len(inbound') = Len(inbound) - k
      /\ \A i \in 1 .. Len(inbound') : inbound'[i] = inbound[k + i]
  BY <1>1
<1>5. chunk' \o inbound' = inbound
  <2>1. /\ chunk' \o inbound' \in Seq(Pieces)
        /\ Len(chunk' \o inbound') = Len(inbound)
        /\ \A i \in 1 .. Len(inbound) : (chunk' \o inbound')[i] = inbound[i]
    BY <1>1, <1>3, <1>4
  <2> QED
    BY <1>1, <2>1, SeqEqual
<1> QED
  BY <1>2, <1>3, <1>4, <1>5 DEF Stream

\* What an answer, or an answer and its echo, consists of.
LEMMA AnswerFacts ==
  ASSUME NEW c \in Everyone, NEW kind \in Kinds, NEW twice \in BOOLEAN
  PROVE  \E Q \in Seq(Pieces) :
           /\ Q = AnswerPieces(c, kind) \o (IF twice THEN AnswerPieces(c, kind) ELSE << >>)
           /\ Len(Q) \in Nat /\ 2 <= Len(Q) /\ Len(Q) <= 4
           /\ \A i \in 1 .. Len(Q) :
                Q[i].of = c /\ Q[i].kind = kind /\ (Q[i].last <=> i \in {2, 4})
<1>0. PICK Q : Q = AnswerPieces(c, kind) \o (IF twice THEN AnswerPieces(c, kind) ELSE << >>)
  OBVIOUS
<1> SUFFICES /\ Q \in Seq(Pieces) /\ Len(Q) \in Nat /\ 2 <= Len(Q) /\ Len(Q) <= 4
             /\ \A i \in 1 .. Len(Q) :
                  Q[i].of = c /\ Q[i].kind = kind /\ (Q[i].last <=> i \in {2, 4})
  BY <1>0
<1> DEFINE one == [of |-> c, kind |-> kind, last |-> FALSE]
<1> DEFINE two == [of |-> c, kind |-> kind, last |-> TRUE]
<1>1. one \in Pieces /\ two \in Pieces
  BY DEF Pieces
<1>2. AnswerPieces(c, kind) = <<one, two>>
  BY DEF AnswerPieces
<1>3. /\ one.of = c /\ one.kind = kind /\ one.last = FALSE
      /\ two.of = c /\ two.kind = kind /\ two.last = TRUE
  OBVIOUS
<1> DEFINE pair == <<one, two>>
<1>4. pair \in Seq(Pieces) /\ Len(pair) = 2 /\ pair[1] = one /\ pair[2] = two
  BY <1>1
<1> HIDE DEF one, two, pair
<1>5. CASE twice
  <2>1. Q = pair \o pair
    BY <1>0, <1>2, <1>5 DEF pair
  <2>2. /\ Q \in Seq(Pieces) /\ Len(Q) = Len(pair) + Len(pair)
        /\ \A i \in 1 .. Len(pair) + Len(pair) :
             Q[i] = (IF i <= Len(pair) THEN pair[i] ELSE pair[i - Len(pair)])
    BY ONLY <1>4, <2>1, ConcatProperties, Zenon
  <2>3. Len(Q) = 4 /\ Q[1] = one /\ Q[2] = two /\ Q[3] = one /\ Q[4] = two
    <3>1. Len(pair) = 2
      BY <1>4
    <3>2. Len(Q) = 4 /\ \A i \in 1 .. 4 : Q[i] = (IF i <= 2 THEN pair[i] ELSE pair[i - 2])
      BY ONLY <2>2, <3>1
    <3>3. Q[1] = pair[1] /\ Q[2] = pair[2] /\ Q[3] = pair[1] /\ Q[4] = pair[2]
      BY ONLY <3>2
    <3> QED
      BY ONLY <1>4, <3>2, <3>3
  <2>4. Q \in Seq(Pieces)
    BY <2>2
  <2>5. Len(Q) \in Nat /\ 2 <= Len(Q) /\ Len(Q) <= 4
    BY ONLY <2>3
  <2>6. \A i \in 1 .. Len(Q) : Q[i].of = c /\ Q[i].kind = kind /\ (Q[i].last <=> i \in {2, 4})
    BY <1>3, <2>3
  <2> QED
    BY <2>4, <2>5, <2>6
<1>6. CASE ~twice
  <2>1. Q = pair
    BY <1>0, <1>2, <1>4, <1>6, ConcatEmptySeq DEF pair
  <2>2. Len(Q) = 2 /\ Q[1] = one /\ Q[2] = two
    BY <1>4, <2>1
  <2>3. Q \in Seq(Pieces)
    BY <1>4, <2>1
  <2>4. Len(Q) \in Nat /\ 2 <= Len(Q) /\ Len(Q) <= 4
    BY ONLY <2>2
  <2>5. \A i \in 1 .. Len(Q) : Q[i].of = c /\ Q[i].kind = kind /\ (Q[i].last <=> i \in {2, 4})
    BY <1>3, <2>2
  <2> QED
    BY <2>3, <2>4, <2>5
<1> QED
  BY <1>5, <1>6

\* An answer joins the stream at its end.
LEMMA StreamGrows ==
  ASSUME LoopTypeOK, UNCHANGED <<attempt, chunk>>, NEW Q \in Seq(Pieces), inbound' = inbound \o Q
  PROVE  /\ inbound' \in Seq(Pieces)
         /\ DOMAIN Stream' = 1 .. Len(Stream') /\ Len(Stream') = Len(Stream) + Len(Q)
         /\ \A i \in 1 .. Len(Stream) : Stream'[i] = Stream[i]
         /\ \A i \in 1 .. Len(Q) : Stream'[Len(Stream) + i] = Q[i]
<1>1. /\ Stream \in Seq(Pieces) /\ chunk \in Seq(Pieces) /\ inbound \in Seq(Pieces)
  BY StreamFacts
<1>2. Stream' = Stream \o Q
  <2>1. chunk \o (inbound \o Q) = (chunk \o inbound) \o Q
    BY <1>1
  <2> QED
    BY <2>1 DEF Stream
<1>3. inbound' \in Seq(Pieces)
  BY <1>1
<1>4. Stream' \in Seq(Pieces) /\ Len(Stream) \in Nat /\ Len(Q) \in Nat
  BY <1>1, <1>2
<1> QED
  BY <1>1, <1>2, <1>3, <1>4

-----------------------------------------------------------------------------
(* What the steps do to the answers in transit                             *)

\* Of attempts without late echoes.
Checked == Busy /\ ~attempt.lateEchoes

\* Neither the pieces nor the router move.
SameTransit ==
  /\ UNCHANGED <<attempt, partial, queue, chunk, inbound>>
  /\ fence'.last = fence.last

LEMMA WellFormedStays ==
  ASSUME WellFormed, SameTransit
  PROVE  WellFormed'
<1>1. Stream' = Stream
  BY DEF SameTransit, Stream
<1> QED
  BY <1>1 DEF WellFormed, SameTransit

\* At the dispatch, what is in transit or queued is from before it.
LEMMA DispatchFences ==
  ASSUME LoopTypeOK, Generations, Causal, Checked, state = "running", chunk = << >>,
         SameTransit, fence'.minimum = fence.last, state' = "waiting", UNCHANGED index
  PROVE  Causal'
<1>1. Stream' = Stream
  BY DEF SameTransit, Stream
<1>2. WellFormed /\ NothingUnread
  BY DEF Causal, Checked, Busy
<1>3. WellFormed'
  BY <1>2, WellFormedStays
<1>4. Len(chunk) = 0 /\ DOMAIN Stream = 1 .. Len(Stream)
  BY StreamFacts
<1>5. \A i \in DOMAIN Stream : i = 1 /\ Stream[i].last
  BY <1>2, <1>4 DEF NothingUnread
<1>6. partial' <= fence'.minimum
  BY DEF Generations, SameTransit
<1>7. OnlyOurs'
  BY <1>1, <1>5, <1>6 DEF OnlyOurs
<1>8. EchoesRead'
  BY <1>1, <1>4, <1>5 DEF EchoesRead, SameTransit
<1>9. OldOnesFenced'
  BY DEF OldOnesFenced, Generations, SameTransit
<1> QED
  BY <1>3, <1>7, <1>8, <1>9 DEF Causal

\* A command that is not sent leaves all as it is.
LEMMA RunningStays ==
  ASSUME Causal, Checked, state = "running", SameTransit, state' = "running"
  PROVE  Causal'
<1>1. Stream' = Stream
  BY DEF SameTransit, Stream
<1>2. WellFormed /\ NothingUnread
  BY DEF Causal, Checked, Busy
<1>3. WellFormed'
  BY <1>2, WellFormedStays
<1>4. NothingUnread'
  BY <1>1, <1>2 DEF NothingUnread, SameTransit
<1> QED
  BY <1>3, <1>4 DEF Causal

\* So does a step that only moves the loop's place.
LEMMA WaitingStays ==
  ASSUME Causal, Checked, SameTransit, UNCHANGED <<fence, state, index>>
  PROVE  Causal'
<1>1. Stream' = Stream
  BY DEF SameTransit, Stream
<1>2. WellFormed'
  BY WellFormedStays DEF Causal, Checked, Busy
<1>3. CASE state = "waiting"
  <2>1. OnlyOurs /\ EchoesRead /\ OldOnesFenced
    BY <1>3 DEF Causal, Checked, Busy
  <2>2. OnlyOurs' /\ EchoesRead' /\ OldOnesFenced'
    BY <1>1, <2>1 DEF OnlyOurs, EchoesRead, OldOnesFenced, SameTransit
  <2> QED
    BY <1>2, <1>3, <2>2 DEF Causal
<1>4. CASE state # "waiting"
  <2>1. state = "running" => NothingUnread'
    BY <1>1 DEF Causal, Checked, Busy, NothingUnread, SameTransit
  <2> QED
    BY <1>2, <1>4, <2>1 DEF Causal
<1> QED
  BY <1>3, <1>4

\* The same when the first response is taken from the queue.
LEMMA DropStays ==
  ASSUME LoopTypeOK, Causal, Checked, queue # << >>, queue' = Tail(queue),
         UNCHANGED <<attempt, partial, chunk, inbound, fence, state, index>>
  PROVE  Causal'
<1>1. Stream' = Stream
  BY DEF Stream
<1>2. WellFormed'
  BY <1>1 DEF Causal, Checked, Busy, WellFormed
<1>3. \A i \in DOMAIN queue' : \E j \in DOMAIN queue : queue'[i] = queue[j]
  <2>1. queue \in Seq(Responses)
    BY DEF LoopTypeOK
  <2>2. /\ DOMAIN queue' = 1 .. Len(queue) - 1 /\ DOMAIN queue = 1 .. Len(queue) /\ Len(queue) \in Nat
        /\ \A i \in 1 .. Len(queue) - 1 : queue'[i] = queue[i + 1]
    BY <2>1
  <2>3. \A i \in 1 .. Len(queue) - 1 : i + 1 \in 1 .. Len(queue)
    BY <2>2
  <2> QED
    BY <2>2, <2>3
<1>4. CASE state = "waiting"
  <2>1. OnlyOurs /\ EchoesRead /\ OldOnesFenced
    BY <1>4 DEF Causal, Checked, Busy
  <2>2. OnlyOurs'
    BY <1>1, <2>1 DEF OnlyOurs
  <2>3. EchoesRead'
    BY <1>1, <1>3, <2>1 DEF EchoesRead
  <2>4. OldOnesFenced'
    BY <1>3, <2>1 DEF OldOnesFenced
  <2> QED
    BY <1>2, <1>4, <2>2, <2>3, <2>4 DEF Causal
<1>5. CASE state # "waiting"
  <2>1. state = "running" => NothingUnread'
    BY <1>1 DEF Causal, Checked, Busy, NothingUnread
  <2> QED
    BY <1>2, <1>5, <2>1 DEF Causal
<1> QED
  BY <1>4, <1>5

\* When the answer to the present command is taken, all that is unread is the
\* rest of one answer, if anything.
LEMMA AnswerEnds ==
  ASSUME LoopTypeOK, Causal, Checked, state = "waiting", queue # << >>, Head(queue).of = index + 1,
         UNCHANGED <<attempt, partial, chunk, inbound, fence>>, state' = "running"
  PROVE  Causal'
<1>1. Stream' = Stream
  BY DEF Stream
<1>2. WellFormed /\ OnlyOurs /\ EchoesRead
  BY DEF Causal, Checked, Busy
<1>3. WellFormed'
  BY <1>1, <1>2 DEF WellFormed
<1>4. 1 \in DOMAIN queue /\ queue[1].of = index + 1
  <2>1. queue \in Seq(Responses)
    BY DEF LoopTypeOK
  <2> QED
    BY <2>1, EmptySeq
<1>5. DOMAIN Stream = 1 .. Len(Stream) /\ Len(Stream) \in Nat /\ Len(chunk) \in Nat
  BY StreamFacts
<1>6. ASSUME NEW i \in Len(chunk) + 1 .. Len(Stream)
      PROVE  Stream[i].last
  <2>1. Stream[i].of = index + 1 => Stream[i].last
    BY <1>2, <1>4, <1>6 DEF EchoesRead
  <2>2. i \in DOMAIN Stream
    BY <1>5
  <2> QED
    BY <1>2, <2>1, <2>2 DEF OnlyOurs
<1>7. ASSUME NEW i \in Len(chunk) + 1 .. Len(Stream), i # Len(chunk) + 1
      PROVE  FALSE
  <2>1. i \in 2 .. Len(Stream) /\ i - 1 \in Len(chunk) + 1 .. Len(Stream)
    BY <1>5, <1>7
  <2>2. Stream[i].last /\ Stream[i - 1].last
    BY <1>6, <2>1
  <2> QED
    BY <1>2, <2>1, <2>2 DEF WellFormed
<1>8. NothingUnread'
  BY <1>1, <1>6, <1>7 DEF NothingUnread
<1> QED
  BY <1>3, <1>8 DEF Causal

\* A read ends anywhere but between an answer and its echo.
LEMMA ReadKeepsCausal ==
  ASSUME LoopTypeOK, Causal, Checked, chunk = << >>, NEW k \in 1 .. Len(inbound), ReadEndsAt(k),
         chunk' = SubSeq(inbound, 1, k), inbound' = SubSeq(inbound, k + 1, Len(inbound)),
         UNCHANGED <<attempt, partial, queue, state, index>>,
         fence'.minimum = fence.minimum,
         IF attempt.family = "unicore" THEN fence'.last = fence.last + 1 ELSE fence'.last = fence.last
  PROVE  Causal'
<1>1. /\ Stream' = Stream /\ Stream = inbound /\ Len(chunk') = k
      /\ k \in Nat /\ Len(Stream) \in Nat /\ Len(chunk) = 0 /\ k \in 1 .. Len(Stream)
      /\ DOMAIN Stream = 1 .. Len(Stream) /\ fence.last \in Nat
  BY StreamRead, StreamFacts DEF LoopTypeOK
<1>2. WellFormed
  BY DEF Causal, Checked, Busy
<1>3. WellFormed'
  <2>1. attempt'.family = "unicore" => fence'.last > 0
    BY <1>1
  <2> QED
    BY <1>1, <1>2, <2>1 DEF WellFormed
<1>4. CASE state = "waiting"
  <2>1. OnlyOurs /\ EchoesRead /\ OldOnesFenced
    BY <1>4 DEF Causal, Checked, Busy
  <2>2. OnlyOurs'
    BY <1>1, <2>1 DEF OnlyOurs
  <2>3. OldOnesFenced'
    BY <2>1 DEF OldOnesFenced
  <2>4. ASSUME NEW i \in k + 1 .. Len(Stream), Stream[i].of = index + 1, ~Stream[i].last,
               NEW j \in 1 .. k, Stream[j].of = index + 1, Stream[j].last
        PROVE  FALSE
    <3>1. i \in DOMAIN Stream /\ j \in DOMAIN Stream /\ j < i
      BY <1>1
    <3>2. i = j + 1
      BY <1>2, <2>4, <3>1 DEF WellFormed
    <3>3. j = k /\ k < Len(Stream) /\ i = k + 1
      BY <1>1, <3>2
    <3>4. BetweenEchoes(k)
      BY <1>1, <2>4, <3>3 DEF BetweenEchoes
    <3> QED
      BY <3>4 DEF ReadEndsAt, Checked
  <2>5. ASSUME NEW i \in k + 1 .. Len(Stream), Stream[i].of = index + 1, ~Stream[i].last
        PROVE  \A j \in DOMAIN queue : queue[j].of # index + 1
    <3>1. i \in Len(chunk) + 1 .. Len(Stream)
      BY <1>1
    <3> QED
      BY <2>1, <2>5, <3>1 DEF EchoesRead
  <2>6. EchoesRead'
    BY <1>1, <2>4, <2>5 DEF EchoesRead
  <2> QED
    BY <1>3, <1>4, <2>2, <2>3, <2>6 DEF Causal
<1>5. CASE state # "waiting"
  <2>1. ASSUME state = "running" PROVE NothingUnread'
    <3>1. \A i \in 1 .. Len(Stream) : i = 1
      BY <1>1, <2>1 DEF Causal, Checked, Busy, NothingUnread
    <3>2. ASSUME NEW i \in k + 1 .. Len(Stream) PROVE FALSE
      <4>1. i \in 1 .. Len(Stream) /\ i # 1
        BY <1>1
      <4> QED
        BY <3>1, <4>1
    <3> QED
      BY <1>1, <3>2 DEF NothingUnread
  <2> QED
    BY <1>3, <1>5, <2>1 DEF Causal
<1> QED
  BY <1>4, <1>5

\* The answers that are left when the first piece is taken follow each other
\* as before.
LEMMA TailWellFormed ==
  ASSUME LoopTypeOK, WellFormed, chunk # << >>, chunk' = Tail(chunk), UNCHANGED <<attempt, inbound>>,
         fence'.last >= fence.last, fence'.last \in Nat,
         ~Stream[1].last => partial' # 0
  PROVE  WellFormed'
<1>1. /\ chunk' \in Seq(Pieces) /\ Len(chunk') = Len(chunk) - 1
      /\ Len(Stream) \in Nat \ {0}
      /\ DOMAIN Stream' = 1 .. Len(Stream') /\ Len(Stream') = Len(Stream) - 1
      /\ \A i \in 1 .. Len(Stream') : i + 1 \in 2 .. Len(Stream) /\ Stream'[i] = Stream[i + 1]
  BY StreamTail
<1>2. DOMAIN Stream = 1 .. Len(Stream) /\ Stream[1].last \in BOOLEAN
  BY <1>1, StreamFacts
<1>3. ASSUME Stream' # << >>, Stream'[1].last
      PROVE  partial' # 0
  <2>1. Len(Stream') # 0
    <3>1. Stream' \in Seq(Pieces)
      <4>1. chunk' \o inbound \in Seq(Pieces)
        BY <1>1, StreamFacts
      <4> QED
        BY <4>1 DEF Stream
    <3> QED
      BY <1>3, <3>1, EmptySeq
  <2>2. 1 \in 1 .. Len(Stream')
    BY <1>1, <2>1
  <2>3. 2 \in 2 .. Len(Stream) /\ Stream[2].last
    BY <1>1, <1>3, <2>2
  <2>4. ~Stream[1].last
    BY <2>3 DEF WellFormed
  <2> QED
    BY <2>4
<1>4. chunk' # << >> /\ attempt'.family = "unicore" => fence'.last > 0
  <2>1. attempt.family = "unicore" => fence.last > 0
    BY DEF WellFormed
  <2> QED
    BY <2>1 DEF LoopTypeOK
<1>5. ASSUME NEW i \in 2 .. Len(Stream'), Stream'[i].last
      PROVE  ~Stream'[i - 1].last /\ Stream'[i - 1].of = Stream'[i].of
  <2>1. /\ i \in 1 .. Len(Stream') /\ i - 1 \in 1 .. Len(Stream') /\ (i - 1) + 1 = i /\ (i + 1) - 1 = i
    BY <1>1
  <2>2. i + 1 \in 2 .. Len(Stream) /\ Stream'[i] = Stream[i + 1] /\ Stream'[i - 1] = Stream[i]
    BY <1>1, <2>1
  <2>3. ~Stream[(i + 1) - 1].last /\ Stream[(i + 1) - 1].of = Stream[i + 1].of
    BY <1>5, <2>2 DEF WellFormed
  <2> QED
    BY <2>1, <2>2, <2>3
<1>6. ASSUME NEW i \in DOMAIN Stream', NEW j \in DOMAIN Stream',
             i < j, Stream'[i].of = Stream'[j].of, Stream'[i].last, ~Stream'[j].last
      PROVE  j = i + 1
  <2>1. /\ i + 1 \in 2 .. Len(Stream) /\ Stream'[i] = Stream[i + 1]
        /\ j + 1 \in 2 .. Len(Stream) /\ Stream'[j] = Stream[j + 1]
    BY <1>1
  <2>2. i + 1 \in DOMAIN Stream /\ j + 1 \in DOMAIN Stream /\ i + 1 < j + 1
    BY <1>1, <1>2, <1>6
  <2>3. j + 1 = (i + 1) + 1
    BY <1>6, <2>1, <2>2 DEF WellFormed
  <2> QED
    BY <1>1, <2>3
<1> QED
  BY <1>3, <1>4, <1>5, <1>6 DEF WellFormed

\* The rest of the invariant when a piece is taken: what is queued by it is of
\* the present command or fenced.
LEMMA TailCausal ==
  ASSUME LoopTypeOK, Causal, Checked, chunk # << >>, chunk' = Tail(chunk),
         UNCHANGED <<attempt, inbound, state, index>>,
         fence'.minimum = fence.minimum, WellFormed', OldOnesFenced \/ state # "waiting",
         \/ UNCHANGED queue
         \/ /\ Head(chunk).last
            /\ \E r \in Responses : queue' = Append(queue, r) /\ r.of = Head(chunk).of /\
                 (state = "waiting" => r.of = index + 1 \/ r.generation <= fence.minimum)
  PROVE  Causal'
<1>1. /\ Len(chunk') = Len(chunk) - 1 /\ Len(chunk) \in Nat \ {0} /\ Len(Stream) \in Nat \ {0}
      /\ Len(chunk) <= Len(Stream) /\ Stream[1] = Head(chunk)
      /\ DOMAIN Stream' = 1 .. Len(Stream') /\ Len(Stream') = Len(Stream) - 1
      /\ \A i \in 1 .. Len(Stream') : i + 1 \in 2 .. Len(Stream) /\ Stream'[i] = Stream[i + 1]
  BY StreamTail
<1>2. DOMAIN Stream = 1 .. Len(Stream)
  BY StreamFacts
<1>3. \A i \in Len(chunk') + 1 .. Len(Stream') :
        i \in 1 .. Len(Stream') /\ i + 1 \in Len(chunk) + 1 .. Len(Stream)
  BY <1>1
<1>4. CASE state = "waiting"
  <2>1. OnlyOurs /\ EchoesRead /\ OldOnesFenced
    BY <1>4 DEF Causal, Checked, Busy
  <2>2. OnlyOurs'
    <3>1. ASSUME NEW i \in DOMAIN Stream' PROVE Stream'[i].of = index + 1
      <4>1. i + 1 \in DOMAIN Stream /\ i + 1 # 1 /\ Stream'[i] = Stream[i + 1]
        BY <1>1, <1>2
      <4> QED
        BY <2>1, <4>1 DEF OnlyOurs
    <3> QED
      BY <3>1 DEF OnlyOurs
  <2>3. ASSUME NEW i \in Len(chunk') + 1 .. Len(Stream'), Stream'[i].of = index + 1, ~Stream'[i].last
        PROVE  /\ \A j \in 1 .. Len(chunk') : ~(Stream'[j].of = index + 1 /\ Stream'[j].last)
               /\ \A j \in DOMAIN queue' : queue'[j].of # index + 1
    <3>1. i + 1 \in Len(chunk) + 1 .. Len(Stream) /\ Stream'[i] = Stream[i + 1]
      BY <1>1, <1>3
    <3>2. /\ \A j \in 1 .. Len(chunk) : ~(Stream[j].of = index + 1 /\ Stream[j].last)
          /\ \A j \in DOMAIN queue : queue[j].of # index + 1
      BY <2>1, <2>3, <3>1 DEF EchoesRead
    <3>3. ASSUME NEW j \in 1 .. Len(chunk') PROVE ~(Stream'[j].of = index + 1 /\ Stream'[j].last)
      <4>1. j \in 1 .. Len(Stream') /\ j + 1 \in 1 .. Len(chunk)
        BY <1>1
      <4>2. Stream'[j] = Stream[j + 1]
        BY <1>1, <4>1
      <4> QED
        BY <3>2, <4>1, <4>2
    <3>4. \A j \in DOMAIN queue' : queue'[j].of # index + 1
      <4>1. CASE UNCHANGED queue
        BY <3>2, <4>1
      <4>2. CASE ~UNCHANGED queue
        <5>1. PICK r \in Responses : queue' = Append(queue, r) /\ r.of = Head(chunk).of
          BY <4>2
        <5>2. 1 \in 1 .. Len(chunk) /\ Head(chunk).last
          BY <1>1, <4>2
        <5>3. r.of # index + 1
          BY <1>1, <3>2, <5>1, <5>2
        <5>4. queue \in Seq(Responses)
          BY DEF LoopTypeOK
        <5>5. \A j \in DOMAIN queue' : queue'[j] = r \/ (j \in DOMAIN queue /\ queue'[j] = queue[j])
          BY <5>1, <5>4
        <5> QED
          BY <3>2, <5>3, <5>5
      <4> QED
        BY <4>1, <4>2
    <3> QED
      BY <3>3, <3>4
  <2>4. EchoesRead'
    BY <2>3 DEF EchoesRead
  <2>5. OldOnesFenced'
    <3>1. CASE UNCHANGED queue
      BY <2>1, <3>1 DEF OldOnesFenced
    <3>2. CASE ~UNCHANGED queue
      <4>1. PICK r \in Responses :
              queue' = Append(queue, r) /\ (r.of = index + 1 \/ r.generation <= fence.minimum)
        BY <1>4, <3>2
      <4>2. queue \in Seq(Responses)
        BY DEF LoopTypeOK
      <4>3. \A j \in DOMAIN queue' : queue'[j] = r \/ (j \in DOMAIN queue /\ queue'[j] = queue[j])
        BY <4>1, <4>2
      <4> QED
        BY <2>1, <4>1, <4>3 DEF OldOnesFenced
    <3> QED
      BY <3>1, <3>2
  <2> QED
    BY <1>4, <2>2, <2>4, <2>5 DEF Causal
<1>5. CASE state # "waiting"
  <2>1. ASSUME state = "running" PROVE NothingUnread'
    <3>1. NothingUnread
      BY <2>1 DEF Causal, Checked, Busy
    <3>2. ASSUME NEW i \in Len(chunk') + 1 .. Len(Stream')
          PROVE  i = Len(chunk') + 1 /\ Stream'[i].last
      <4>1. /\ i + 1 \in Len(chunk) + 1 .. Len(Stream) /\ Stream'[i] = Stream[i + 1] /\ i \in Nat
        BY <1>1, <1>3
      <4>2. i + 1 = Len(chunk) + 1 /\ Stream[i + 1].last
        BY <3>1, <4>1 DEF NothingUnread
      <4>3. i = Len(chunk') + 1
        <5>1. Len(chunk) \in Nat /\ Len(chunk') = Len(chunk) - 1
          BY <1>1
        <5> QED
          BY ONLY <4>1, <4>2, <5>1
      <4> QED
        BY ONLY <4>1, <4>2, <4>3
    <3> QED
      BY <3>2 DEF NothingUnread
  <2> QED
    BY <1>5, <2>1 DEF Causal
<1> QED
  BY <1>4, <1>5

\* The first bytes of an answer are taken.
LEMMA FirstBytesCausal ==
  ASSUME LoopTypeOK, Causal, Checked, TakesFirstBytes
  PROVE  Causal'
<1>1. /\ chunk # << >> /\ chunk' = Tail(chunk) /\ ~Head(chunk).last /\ partial' = fence'.last
      /\ UNCHANGED <<attempt, inbound, queue>> /\ UNCHANGED <<state, index>>
      /\ IF attempt.family = "ublox" THEN fence' = [fence EXCEPT !.last = @ + 1] ELSE fence' = fence
  BY DEF TakesFirstBytes, BeginCapture, appVars, applicationVars, receiverVars
<1>2. fence \in [last : Nat, minimum : Nat] /\ attempt.family \in Families /\ WellFormed
  BY ListFacts DEF LoopTypeOK, Causal, Checked, Busy
<1>3. /\ fence'.minimum = fence.minimum /\ fence'.last \in Nat /\ fence'.last >= fence.last
      /\ attempt.family = "ublox" => fence'.last = fence.last + 1
  BY <1>1, <1>2
<1>4. partial' # 0
  <2>1. attempt.family = "unicore" => fence.last > 0
    BY <1>1, <1>2 DEF WellFormed
  <2> QED
    BY <1>1, <1>2, <1>3, <2>1 DEF Families
<1>5. WellFormed'
  BY <1>1, <1>2, <1>3, <1>4, TailWellFormed
<1>6. OldOnesFenced \/ state # "waiting"
  BY DEF Causal, Checked, Busy
<1> QED
  BY <1>1, <1>3, <1>5, <1>6, TailCausal

\* The last bytes of an answer are taken, and it is queued.
LEMMA LastBytesCausal ==
  ASSUME LoopTypeOK, Causal, Checked, TakesLastBytes
  PROVE  Causal'
<1> DEFINE r == [of |-> Head(chunk).of, kind |-> Head(chunk).kind,
                 generation |-> IF partial # 0 THEN partial ELSE fence.last]
<1>1. /\ chunk # << >> /\ chunk' = Tail(chunk) /\ Head(chunk).last /\ queue' = Append(queue, r)
      /\ UNCHANGED <<attempt, inbound, fence>> /\ UNCHANGED <<state, index>>
  BY DEF TakesLastBytes, appVars, applicationVars, receiverVars
<1>2. /\ fence \in [last : Nat, minimum : Nat] /\ partial \in Nat /\ WellFormed
      /\ OldOnesFenced \/ state # "waiting"
  BY DEF LoopTypeOK, Causal, Checked, Busy
<1>3. /\ Stream[1] = Head(chunk) /\ Len(Stream) \in Nat \ {0} /\ 1 \in DOMAIN Stream
      /\ Head(chunk) \in Pieces
  <2>1. Stream[1] = Head(chunk) /\ Len(Stream) \in Nat \ {0} /\ 1 \in DOMAIN Stream
    BY <1>1, StreamTail, StreamFacts
  <2>2. chunk \in Seq(Pieces)
    BY DEF LoopTypeOK
  <2> QED
    BY <1>1, <2>1, <2>2
<1>4. r \in Responses
  BY <1>2, <1>3 DEF Responses, Pieces
<1>5. fence'.last >= fence.last /\ fence'.last \in Nat /\ fence'.minimum = fence.minimum
  BY <1>1, <1>2
<1>6. WellFormed'
  BY <1>1, <1>2, <1>3, <1>5, TailWellFormed
<1>7. state = "waiting" => r.of = index + 1 \/ r.generation <= fence.minimum
  <2>1. ASSUME state = "waiting", Stream[1].of # index + 1
        PROVE  partial # 0 /\ partial <= fence.minimum
    <3>1. OnlyOurs
      BY <2>1 DEF Causal, Checked, Busy
    <3>2. partial <= fence.minimum
      BY <1>3, <2>1, <3>1 DEF OnlyOurs
    <3>3. Stream # << >>
      BY <1>3
    <3>4. partial # 0
      BY <1>1, <1>2, <1>3, <3>3 DEF WellFormed
    <3> QED
      BY <3>2, <3>4
  <2> QED
    BY <1>3, <2>1
<1>8. r.of = Head(chunk).of
  OBVIOUS
<1> HIDE DEF r
<1> QED
  BY <1>1, <1>2, <1>4, <1>5, <1>6, <1>7, <1>8, TailCausal

\* The receiver answers the present command, of which nothing is in transit.
LEMMA ReceiverCausal ==
  ASSUME LoopTypeOK, Causal, Checked, state = "waiting",
         NEW Q \in Seq(Pieces), Len(Q) \in Nat, 2 <= Len(Q), Len(Q) <= 4,
         \A i \in 1 .. Len(Q) : Q[i].of = index + 1 /\ (Q[i].last <=> i \in {2, 4}),
         inbound' = inbound \o Q,
         \A i \in DOMAIN Stream : Stream[i].of # index + 1,
         \A i \in DOMAIN queue : queue[i].of # index + 1,
         UNCHANGED <<attempt, fence, partial, queue, chunk, state, index>>
  PROVE  Causal'
<1>0. PICK n \in Nat : n = Len(Stream)
  BY StreamFacts
<1>1. /\ DOMAIN Stream' = 1 .. Len(Stream') /\ Len(Stream') = n + Len(Q)
      /\ \A i \in 1 .. n : Stream'[i] = Stream[i]
      /\ \A i \in 1 .. Len(Q) : Stream'[n + i] = Q[i]
  BY <1>0, StreamGrows
<1>2. /\ DOMAIN Stream = 1 .. n /\ n \in Nat /\ Len(chunk) \in Nat /\ Len(chunk) <= n
      /\ Len(Q) \in Nat /\ 2 <= Len(Q) /\ Len(Q) <= 4 /\ Stream \in Seq(Pieces)
  BY <1>0, StreamFacts
<1>3. WellFormed /\ OnlyOurs /\ OldOnesFenced
  BY DEF Causal, Checked, Busy
<1>4. ASSUME NEW i \in 1 .. n + Len(Q), i \notin 1 .. n
      PROVE  /\ i - n \in 1 .. Len(Q)
             /\ Stream'[i].of = index + 1 /\ (Stream'[i].last <=> i \in {n + 2, n + 4})
  <2>1. i - n \in 1 .. Len(Q) /\ n + (i - n) = i
    BY <1>2, <1>4
  <2>2. Stream'[i] = Q[i - n]
    BY <1>1, <2>1
  <2>3. i - n \in {2, 4} <=> i \in {n + 2, n + 4}
    BY <1>2, <1>4
  <2> QED
    BY <2>1, <2>2, <2>3
<1>5. ASSUME Stream' # << >>, Stream'[1].last
      PROVE  partial # 0
  <2>1. CASE n = 0
    <3>1. 1 \in 1 .. n + Len(Q) /\ 1 \notin 1 .. n /\ 1 \notin {n + 2, n + 4}
      <4>1. n = 0 /\ Len(Q) \in Nat /\ 2 <= Len(Q)
        BY <1>2, <2>1
      <4> QED
        BY ONLY <4>1
    <3> QED
      BY <1>4, <1>5, <3>1
  <2>2. CASE n # 0
    <3>1. 1 \in 1 .. n /\ Stream # << >>
      BY <1>0, <1>2, <2>2
    <3> QED
      BY <1>1, <1>3, <1>5, <3>1 DEF WellFormed
  <2> QED
    BY <2>1, <2>2
<1>6. ASSUME NEW i \in 2 .. n + Len(Q), Stream'[i].last
      PROVE  ~Stream'[i - 1].last /\ Stream'[i - 1].of = Stream'[i].of
  <2>1. CASE i \in 1 .. n
    <3>1. i \in 2 .. n /\ i - 1 \in 1 .. n
      BY <1>2, <2>1
    <3>2. Stream[i].last => ~Stream[i - 1].last /\ Stream[i - 1].of = Stream[i].of
      BY <1>0, <1>3, <3>1 DEF WellFormed
    <3> QED
      BY <1>1, <1>6, <2>1, <3>1, <3>2
  <2>2. CASE i \notin 1 .. n
    <3>1. i \in 1 .. n + Len(Q)
      BY <1>2
    <3>2. i \in {n + 2, n + 4} /\ Stream'[i].of = index + 1
      BY <1>4, <1>6, <2>2, <3>1
    <3>3. i - 1 \in 1 .. n + Len(Q) /\ i - 1 \notin 1 .. n /\ i - 1 \notin {n + 2, n + 4}
      BY <1>2, <3>1, <3>2
    <3> QED
      BY <1>4, <3>2, <3>3
  <2> QED
    BY <2>1, <2>2
<1>7. ASSUME NEW i \in 1 .. n + Len(Q), NEW j \in 1 .. n + Len(Q),
             i < j, Stream'[i].of = Stream'[j].of, Stream'[i].last, ~Stream'[j].last
      PROVE  j = i + 1
  <2>1. CASE j \in 1 .. n
    <3>1. i \in 1 .. n
      BY <1>2, <1>7, <2>1
    <3>2. i \in DOMAIN Stream /\ j \in DOMAIN Stream /\ Stream'[i] = Stream[i] /\ Stream'[j] = Stream[j]
      BY <1>1, <1>2, <2>1, <3>1
    <3> QED
      BY ONLY <1>3, <1>7, <3>2 DEF WellFormed
  <2>2. CASE j \notin 1 .. n
    <3>1. Stream'[j].of = index + 1 /\ j \notin {n + 2, n + 4} /\ j - n \in 1 .. Len(Q)
      BY <1>4, <1>7, <2>2
    <3>2. i \notin 1 .. n
      BY <1>1, <1>2, <1>7, <3>1
    <3>3. i \in {n + 2, n + 4}
      BY <1>4, <1>7, <3>2
    <3> QED
      <4>1. j # n + 4 /\ (i = n + 2 \/ i = n + 4)
        BY <3>1, <3>3
      <4>2. Len(Q) \in Nat /\ Len(Q) <= 4
        OBVIOUS
      <4>3. i \in Nat /\ j \in Nat /\ j <= n + Len(Q) /\ i < j
        BY ONLY n \in Nat, <1>7, <4>2
      <4>4. j <= n + 4
        BY ONLY n \in Nat, <4>2, <4>3
      <4> QED
        BY ONLY n \in Nat, <4>1, <4>3, <4>4
  <2> QED
    BY <2>1, <2>2
<1>8. chunk' # << >> /\ attempt'.family = "unicore" => fence'.last > 0
  BY <1>3 DEF WellFormed
<1>9. WellFormed'
  BY <1>1, <1>5, <1>6, <1>7, <1>8 DEF WellFormed
<1>10. OnlyOurs'
  <2>1. ASSUME NEW i \in 1 .. n + Len(Q), Stream'[i].of # index + 1
        PROVE  i = 1 /\ Stream'[1].last /\ partial <= fence.minimum
    <3>1. i \in 1 .. n
      BY <1>4, <2>1
    <3>2. i \in DOMAIN Stream /\ Stream[i].of # index + 1
      BY <1>1, <1>2, <2>1, <3>1
    <3>3. i = 1 /\ Stream[1].last /\ partial <= fence.minimum
      BY <1>3, <3>2 DEF OnlyOurs
    <3> QED
      BY <1>1, <3>1, <3>3
  <2> QED
    BY <1>1, <2>1 DEF OnlyOurs
<1>11. EchoesRead'
  <2>1. ASSUME NEW j \in 1 .. Len(chunk) PROVE Stream'[j].of # index + 1
    <3>1. j \in 1 .. n
      BY <1>2
    <3> QED
      BY <1>1, <1>2, <3>1
  <2> QED
    BY <2>1 DEF EchoesRead
<1>12. OldOnesFenced'
  BY <1>3 DEF OldOnesFenced
<1> QED
  BY <1>9, <1>10, <1>11, <1>12 DEF Causal

-----------------------------------------------------------------------------
(* What a step leaves as it is                                             *)

\* Neither what is in transit nor what was said.
LEMMA TransitFrame ==
  ASSUME LoopTypeOK, Generations, Truthful,
         UNCHANGED <<attempt, partial, queue, chunk, inbound, said>>, fence'.last = fence.last
  PROVE  Generations' /\ Truthful'
<1>1. Stream' = Stream
  BY DEF Stream
<1> QED
  BY <1>1 DEF Generations, Truthful

\* The types, but for those of the fates.
LEMMA TypeFrame ==
  ASSUME LoopTypeOK, UNCHANGED <<attempt, partial, queue, chunk, inbound, said>>, pc' \in Places,
         fence' \in [last : Nat, minimum : Nat], overdue' \in BOOLEAN,
         fates' \in [Everyone -> FateNames]
  PROVE  LoopTypeOK'
BY SameSets DEF LoopTypeOK

\* A command meets a fate, and is perhaps given to the receiver.
LEMMA FateKeeps ==
  ASSUME LoopTypeOK, InHand, Unasked, UNCHANGED <<attempt, said>>,
         NEW p \in Everyone, NEW f \in FateNames, fates' = [fates EXCEPT ![p] = f],
         f \in {"unsent", "notSent"} => said[p] = "nothing" /\ received = << >>,
         \/ UNCHANGED received
         \/ received' = <<p>> /\ said[p] = "nothing" /\ f \notin {"unsent", "notSent"}
  PROVE  fates' \in [Everyone -> FateNames] /\ InHand' /\ Unasked'
<1>1. /\ fates' \in [Everyone -> FateNames] /\ fates'[p] = f
      /\ \A c \in Everyone : c # p => fates'[c] = fates[c]
  BY DEF LoopTypeOK
<1>2. Everyone' = Everyone
  BY SameSets
<1>3. Unasked'
  BY <1>1, <1>2 DEF Unasked
<1>4. ASSUME UNCHANGED received PROVE InHand'
  <2>1. CASE received = << >>
    BY <1>4, <2>1 DEF InHand
  <2>2. CASE received # << >>
    <3>1. PICK c \in Everyone :
            received = <<c>> /\ said[c] = "nothing" /\ fates[c] \notin {"unsent", "notSent"}
      BY <2>2 DEF InHand
    <3>2. f \notin {"unsent", "notSent"}
      BY <2>2
    <3>3. fates'[c] \notin {"unsent", "notSent"}
      BY <1>1, <3>1, <3>2
    <3> QED
      BY <1>2, <1>4, <3>1, <3>3 DEF InHand
  <2> QED
    BY <2>1, <2>2
<1>5. ASSUME received' = <<p>>, said[p] = "nothing", f \notin {"unsent", "notSent"} PROVE InHand'
  BY <1>1, <1>2, <1>5 DEF InHand
<1> QED
  BY <1>1, <1>3, <1>4, <1>5

\* Nothing happens but that the loop moves on, or a deadline passes.
Moves ==
  \/ UNCHANGED pc
  \/ /\ Busy /\ pc # "first" /\ pc' \in {"top", "queued", "read", "process", "apply", "check"}
     /\ pc' \notin {"process", "apply"} => chunk = << >>

LEMMA MoveKeeps ==
  ASSUME LoopInv, Moves, overdue' \in BOOLEAN,
         UNCHANGED <<applicationVars, indeterminate>>,
         UNCHANGED <<attempt, fence, partial, queue, chunk, fates>>, UNCHANGED receiverVars
  PROVE  LoopInv'
<1>1. /\ UNCHANGED <<state, commands, index, tally, starting, orphaned, indeterminate>>
      /\ UNCHANGED <<attempt, fence, partial, queue, chunk, fates, received, inbound, said>>
      /\ LoopTypeOK /\ Generations /\ Truthful /\ InHand /\ Unasked
      /\ NotStarted /\ UnderWay /\ FatesInOrder /\ Causal
  BY DEF LoopInv, applicationVars, receiverVars
<1>2. Everyone' = Everyone
  BY <1>1, SameSets
<1>3. LoopTypeOK'
  <2>1. pc' \in Places
    BY <1>1 DEF Moves, Places, LoopTypeOK
  <2> QED
    BY <1>1, <2>1, TypeFrame DEF LoopTypeOK
<1>4. Generations' /\ Truthful'
  BY <1>1, TransitFrame
<1>5. InHand' /\ Unasked'
  BY <1>1, <1>2 DEF InHand, Unasked
<1>6. Busy' => Busy
  BY DEF Moves, Busy
<1>7. NotStarted'
  BY <1>1, <1>2 DEF NotStarted, Moves
<1>8. UnderWay'
  BY <1>1, <1>6 DEF UnderWay, Moves, Busy
<1>9. FatesInOrder'
  <2>1. ASSUME Busy' PROVE FatesInOrder'
    <3>1. /\ \A d \in 1 .. index : Attempt!Passed(fates, d)
          /\ fates[index + 1] = (IF state = "waiting" THEN "sent" ELSE "unsent")
          /\ \A d \in index + 2 .. Len(attempt.commands) : fates[d] = "unsent"
          /\ tally["required"] = 0
          /\ tally["optional"] = 0 <=> \A d \in 1 .. index : fates[d] = "accepted"
      BY <1>1, <1>6, <2>1 DEF FatesInOrder, Busy
    <3>2. (\A d \in 1 .. index : Attempt!Passed(fates, d))'
      BY <1>1, <3>1 DEF Attempt!Passed
    <3> QED
      BY <1>1, <3>1, <3>2 DEF FatesInOrder
  <2> QED
    BY <2>1 DEF FatesInOrder, Busy
<1>10. Causal'
  <2>1. ASSUME Busy', ~attempt.lateEchoes PROVE Causal'
    <3>1. Checked /\ SameTransit
      BY <1>1, <1>6, <2>1 DEF Checked, SameTransit
    <3> QED
      BY <1>1, <3>1, WaitingStays
  <2> QED
    BY <1>1, <2>1 DEF Causal, Busy
<1> QED
  BY <1>3, <1>4, <1>5, <1>7, <1>8, <1>9, <1>10 DEF LoopInv

\* What is left to show of the parts about a loop that runs, when it has ended.
LEMMA DoneKeeps ==
  ASSUME pc' = "done", LoopTypeOK', Generations', Truthful', InHand', Unasked'
  PROVE  LoopInv'
BY DEF LoopInv, NotStarted, UnderWay, FatesInOrder, Causal

-----------------------------------------------------------------------------
(* The steps of the loop                                                   *)

\* A step of the attempt, or nothing it knows of.
AttemptStep == Attempt!AttemptNext \/ UNCHANGED Attempt!attemptVars

\* Start.
LEMMA StartsKeep ==
  ASSUME AppInv, LoopInv, StartsApplication
  PROVE  LoopInv' /\ UNCHANGED Attempt!attemptVars
<1>1. /\ pc = "start" /\ pc' = "first" /\ StartBegins(attempt.commands)
      /\ UNCHANGED <<attempt, fence, partial, queue, chunk, overdue, report, fates>>
      /\ UNCHANGED <<received, inbound, said>>
      /\ LoopTypeOK /\ Generations /\ Truthful /\ InHand /\ Unasked
  BY DEF StartsApplication, LoopInv, receiverVars
<1>2. /\ state = "idle" /\ ~orphaned /\ ~indeterminate
      /\ fates = [c \in Everyone |-> "unsent"]
      /\ received = << >> /\ queue = << >> /\ chunk = << >> /\ inbound = << >>
  BY <1>1 DEF LoopInv, NotStarted
<1>3. Everyone' = Everyone /\ attempt.commands # << >>
      /\ Len(attempt.commands) \in Nat \ {0} /\ Everyone = 1 .. Len(attempt.commands)
  BY <1>1, SameSets, ListFacts
<1>4. /\ Reset /\ index' = 0 /\ tally' = NoTally /\ commands' = attempt.commands
      /\ state' = "running" /\ starting' = TRUE /\ orphaned' = orphaned
  BY <1>1, <1>3 DEF StartBegins
<1>5. ~indeterminate'
  <2>1. ~AwaitsAnswer
    BY <1>2 DEF AppInv, Waiting
  <2> QED
    BY <1>2, <1>4, <2>1 DEF Reset
<1>6. LoopTypeOK'
  <2>1. pc' \in Places
    BY <1>1 DEF Places
  <2> QED
    BY <1>1, <2>1, TypeFrame DEF LoopTypeOK
<1>7. Generations' /\ Truthful'
  BY <1>1, TransitFrame
<1>8. InHand' /\ Unasked' /\ NotStarted'
  BY <1>1, <1>3 DEF InHand, Unasked, NotStarted
<1>9. UnderWay'
  BY <1>1, <1>2, <1>4, <1>5 DEF UnderWay
<1>10. FatesInOrder'
  <2>1. \A d \in Everyone : fates[d] = "unsent"
    BY <1>2
  <2>2. 1 \in Everyone /\ 2 .. Len(attempt.commands) \subseteq Everyone
    BY <1>3
  <2>3. /\ fates'[1] = "unsent"
        /\ \A d \in 2 .. Len(attempt.commands) : fates'[d] = "unsent"
    BY <1>1, <2>1, <2>2
  <2>4. tally'["required"] = 0 /\ tally'["optional"] = 0
    BY <1>4 DEF NoTally, Tallies
  <2>5. \A d \in 1 .. index' : FALSE
    BY <1>4
  <2>6. index' + 1 = 1 /\ index' + 2 = 2
    BY <1>4
  <2>7. state' # "waiting" /\ attempt' = attempt
    BY <1>1, <1>4
  <2> QED
    BY <2>3, <2>4, <2>5, <2>6, <2>7 DEF FatesInOrder
<1>11. Causal'
  <2>1. Stream = << >> /\ Stream' = Stream /\ Len(chunk) = 0
    BY <1>1, <1>2 DEF Stream
  <2>2. Len(Stream) = 0 /\ DOMAIN Stream = 1 .. 0
    BY <2>1
  <2>3. WellFormed'
    BY <1>1, <1>2, <2>1, <2>2 DEF WellFormed
  <2>4. NothingUnread'
    <3>1. Len(chunk') + 1 .. Len(Stream') = {}
      BY <1>1, <2>1, <2>2
    <3> QED
      BY <3>1 DEF NothingUnread
  <2> QED
    BY <1>4, <2>3, <2>4 DEF Causal
<1>12. UNCHANGED Attempt!attemptVars
  BY <1>1 DEF Attempt!attemptVars
<1> QED
  BY <1>6, <1>7, <1>8, <1>9, <1>10, <1>11, <1>12 DEF LoopInv

\* SendsFirst and Steps.
LEMMA SendsKeep ==
  ASSUME AppInv, LoopInv, Busy, state = "running", chunk = << >>,
         NEW outcome \in Outcomes(CurrentCommand), SendCurrent(outcome), starting' = FALSE,
         NEW next \in {"top", "queued"}, Dispatches(next)
  PROVE  LoopInv' /\ AttemptStep
<1> DEFINE p == index + 1
<1>1. /\ LoopTypeOK /\ Generations /\ Truthful /\ InHand /\ Unasked
      /\ UnderWay /\ FatesInOrder /\ Causal
  BY DEF LoopInv
<1>2. /\ index \in Nat /\ p \in Everyone /\ CurrentCommand = attempt.commands[p]
      /\ (p < Len(commands) <=> p # Len(attempt.commands))
  BY <1>1, AtCommand
<1>3. /\ received = << >> /\ commands = attempt.commands /\ ~orphaned /\ ~indeterminate
      /\ fates[p] = "unsent" /\ said[p] = "nothing"
      /\ \A d \in 1 .. index : Attempt!Passed(fates, d)
  BY <1>1, <1>2 DEF UnderWay, FatesInOrder, Unasked, Busy
<1>4. /\ NoteDispatch /\ RecordFate /\ FinishesOr(next) /\ overdue' = FALSE
      /\ UNCHANGED <<attempt, partial, queue, chunk, inbound, said>>
      /\ IF MoreDispatched THEN received' = Append(received, p)
         ELSE \/ UNCHANGED received
              \/ indeterminate' /\ received' = Append(received, p)
  BY DEF Dispatches, MoreDispatched
<1>5. Append(received, p) = <<p>>
  BY <1>3
<1>6. Generations' /\ Truthful' /\ fence' \in [last : Nat, minimum : Nat]
  <2>1. fence \in [last : Nat, minimum : Nat]
    BY <1>1 DEF LoopTypeOK
  <2>2. fence'.last = fence.last /\ fence' \in [last : Nat, minimum : Nat]
    BY <1>4, <2>1 DEF NoteDispatch
  <2> QED
    BY <1>1, <1>4, <2>2, TransitFrame
<1>7. pc' \in Places /\ next \in Places /\ next \notin {"start", "first", "done", "process", "apply"}
  BY <1>1, <1>4 DEF FinishesOr, Places
<1>8. ASSUME NEW f \in FateNames, fates' = [fates EXCEPT ![p] = f],
             \/ UNCHANGED received
             \/ received' = <<p>> /\ f \notin {"unsent", "notSent"}
      PROVE  LoopTypeOK' /\ InHand' /\ Unasked'
  <2>1. fates' \in [Everyone -> FateNames] /\ InHand' /\ Unasked'
    BY <1>1, <1>2, <1>3, <1>4, <1>8, FateKeeps
  <2>2. overdue' \in BOOLEAN
    BY <1>4
  <2> QED
    BY <1>1, <1>4, <1>6, <1>7, <2>1, <2>2, TypeFrame
<1>9. ASSUME NEW f \in {"sent", "notSent", "unknown"}, Attempt!Meets(p, f)
      PROVE  AttemptStep
  <2>1. \A d \in 1 .. p - 1 : Attempt!Passed(fates, d)
    BY <1>2, <1>3
  <2>2. Attempt!Send(p)
    BY <1>3, <1>9, <2>1 DEF Attempt!Send
  <2> QED
    BY <1>2, <2>2 DEF AttemptStep, Attempt!AttemptNext, Everyone
<1>10. ASSUME NEW f \in {"accepted", "notSent", "unknown"}, Met(f), status' # "dispatched",
              received' = received \/ pc' = "done", GoesOn(next), FatesInOrder',
              LoopTypeOK', InHand', Unasked'
       PROVE  LoopInv'
  <2>1. CASE pc' = "done"
    BY <1>6, <1>10, <2>1, DoneKeeps
  <2>2. CASE pc' # "done"
    <3>1. /\ pc' = next /\ state' = "running" /\ ~indeterminate' /\ received' = received
          /\ UNCHANGED <<commands, orphaned>>
      BY <1>10, <2>2 DEF GoesOn
    <3>2. UnderWay' /\ NotStarted'
      BY <1>3, <1>4, <1>7, <3>1 DEF UnderWay, NotStarted
    <3>3. Causal'
      <4>1. CASE attempt.lateEchoes
        BY <1>4, <4>1 DEF Causal
      <4>2. CASE ~attempt.lateEchoes
        <5>1. fence' = fence
          BY <1>4, <1>10 DEF NoteDispatch
        <5>2. Checked /\ SameTransit
          BY <1>4, <4>2, <5>1 DEF Checked, SameTransit
        <5> QED
          BY <1>1, <3>1, <5>2, RunningStays
      <4> QED
        BY <4>1, <4>2
    <3> QED
      BY <1>6, <1>10, <3>2, <3>3 DEF LoopInv
  <2> QED
    BY <2>1, <2>2
<1>11. CASE Dispatched /\ MoreDispatched
  <2>1. Attempt!Meets(p, "sent") /\ pc' = next /\ FatesInOrder'
    BY <1>1, <1>4, <1>11, DispatchedReports
  <2>2. /\ state' = "waiting" /\ status' = "dispatched" /\ ~indeterminate' /\ index' = index
        /\ UNCHANGED <<commands, orphaned>> /\ fates' = [fates EXCEPT ![p] = "sent"]
        /\ received' = <<p>>
    BY <1>4, <1>5, <1>11 DEF Dispatched
  <2>3. LoopTypeOK' /\ InHand' /\ Unasked'
    BY <1>8, <2>2 DEF FateNames
  <2>4. UnderWay' /\ NotStarted'
    BY <1>3, <1>4, <1>7, <2>1, <2>2 DEF UnderWay, NotStarted
  <2>5. Causal'
    <3>1. CASE attempt.lateEchoes
      BY <1>4, <3>1 DEF Causal
    <3>2. CASE ~attempt.lateEchoes
      <4>1. fence' = [fence EXCEPT !.minimum = fence.last] /\ fence \in [last : Nat, minimum : Nat]
        BY <1>1, <1>4, <2>2 DEF NoteDispatch, LoopTypeOK
      <4>2. fence'.minimum = fence.last /\ fence'.last = fence.last
        BY <4>1
      <4>3. Checked /\ SameTransit
        BY <1>4, <3>2, <4>2 DEF Checked, SameTransit
      <4> QED
        BY <1>1, <2>2, <4>2, <4>3, DispatchFences
    <3> QED
      BY <3>1, <3>2
  <2>6. AttemptStep
    BY <1>9, <2>1
  <2> QED
    BY <1>6, <2>1, <2>3, <2>4, <2>5, <2>6 DEF LoopInv
<1>12. CASE ~CurrentCommand.answered /\ Met("accepted") /\ MoreDispatched /\ status' # "dispatched"
  <2>1. Attempt!Meets(p, "accepted") /\ GoesOn(next) /\ FatesInOrder'
    BY <1>1, <1>4, <1>12, MetReports
  <2>2. p = Len(attempt.commands)
    <3>1. Len(attempt.commands) \in Nat /\ Everyone = 1 .. Len(attempt.commands)
          /\ \A c \in 1 .. Len(attempt.commands) - 1 : attempt.commands[c].answered
      BY <1>1, ListFacts
    <3> QED
      BY <1>2, <1>12, <3>1
  <2>3. pc' = "done"
    <3>1. Advance
      BY <1>12 DEF Met
    <3>2. state' # "running"
      BY <1>2, <2>2, <3>1 DEF Advance
    <3> QED
      BY <2>1, <3>2 DEF GoesOn
  <2>4. fates' = [fates EXCEPT ![p] = "accepted"] /\ received' = <<p>>
    BY <1>4, <1>5, <1>12 DEF Met
  <2>5. LoopTypeOK' /\ InHand' /\ Unasked'
    BY <1>8, <2>4 DEF FateNames
  <2>6. Attempt!Send(p)
    <3>1. \A d \in 1 .. p - 1 : Attempt!Passed(fates, d)
      BY <1>2, <1>3
    <3> QED
      BY <1>2, <1>3, <1>12, <2>1, <3>1 DEF Attempt!Send
  <2>7. AttemptStep
    BY <1>2, <2>6 DEF AttemptStep, Attempt!AttemptNext, Everyone
  <2> QED
    BY <1>10, <1>12, <2>1, <2>3, <2>5, <2>7
<1>13. CASE Met("unknown") /\ indeterminate' /\ status' # "dispatched" /\ ~MoreDispatched
  <2>1. Attempt!Meets(p, "unknown") /\ GoesOn(next) /\ FatesInOrder'
    BY <1>1, <1>4, <1>13, MetReports
  <2>2. pc' = "done"
    BY <1>13, <2>1 DEF GoesOn
  <2>3. fates' = [fates EXCEPT ![p] = "unknown"] /\ (UNCHANGED received \/ received' = <<p>>)
    BY <1>4, <1>5, <1>13 DEF Met
  <2>4. LoopTypeOK' /\ InHand' /\ Unasked'
    BY <1>8, <2>3 DEF FateNames
  <2>5. AttemptStep
    BY <1>9, <2>1
  <2> QED
    BY <1>10, <1>13, <2>1, <2>2, <2>4, <2>5
<1>14. CASE Met("notSent") /\ ~MoreDispatched /\ ~indeterminate' /\ status' # "dispatched"
  <2>1. Attempt!Meets(p, "notSent") /\ GoesOn(next) /\ FatesInOrder'
    BY <1>1, <1>4, <1>14, MetReports
  <2>2. fates' = [fates EXCEPT ![p] = "notSent"] /\ UNCHANGED received
    BY <1>4, <1>14 DEF Met
  <2>3. LoopTypeOK' /\ InHand' /\ Unasked'
    BY <1>8, <2>2 DEF FateNames
  <2>4. AttemptStep
    BY <1>9, <2>1
  <2> QED
    BY <1>10, <1>14, <2>1, <2>2, <2>3, <2>4
<1> QED
  BY <1>1, <1>4, <1>11, <1>12, <1>13, <1>14, SendOutcome

\* A response is dropped, or one that changes nothing is applied.
LEMMA DropKeeps ==
  ASSUME AppInv, LoopInv, Busy, queue # << >>, queue' = Tail(queue),
         UNCHANGED <<applicationVars, indeterminate>>,
         UNCHANGED <<attempt, pc, fence, partial, chunk, overdue, fates>>, UNCHANGED receiverVars
  PROVE  LoopInv'
<1>1. /\ UNCHANGED <<state, commands, index, tally, starting, orphaned, indeterminate>>
      /\ UNCHANGED <<attempt, pc, fence, partial, chunk, overdue, fates, received, inbound, said>>
      /\ LoopTypeOK /\ Generations /\ Truthful /\ InHand /\ Unasked
      /\ UnderWay /\ FatesInOrder /\ Causal
  BY DEF LoopInv, applicationVars, receiverVars
<1>2. Everyone' = Everyone /\ Pieces' = Pieces /\ Responses' = Responses /\ Stream' = Stream
  BY <1>1, SameSets DEF Stream
<1>3. queue \in Seq(Responses)
  BY <1>1 DEF LoopTypeOK
<1>4. queue' \in Seq(Responses) /\ \A i \in DOMAIN queue' : \E j \in DOMAIN queue : queue'[i] = queue[j]
  <2>1. /\ queue' \in Seq(Responses)
        /\ DOMAIN queue' = 1 .. Len(queue) - 1 /\ DOMAIN queue = 1 .. Len(queue) /\ Len(queue) \in Nat
        /\ \A i \in 1 .. Len(queue) - 1 : queue'[i] = queue[i + 1]
    BY <1>3
  <2>2. \A i \in 1 .. Len(queue) - 1 : i + 1 \in 1 .. Len(queue)
    BY <2>1
  <2> QED
    BY <2>1, <2>2
<1>5. LoopTypeOK'
  BY <1>1, <1>2, <1>4 DEF LoopTypeOK
<1>6. Generations' /\ Truthful'
  BY <1>1, <1>2, <1>4 DEF Generations, Truthful
<1>7. InHand' /\ Unasked'
  BY <1>1, <1>2 DEF InHand, Unasked
<1>8. UnderWay' /\ NotStarted'
  BY <1>1 DEF UnderWay, NotStarted, Busy
<1>9. FatesInOrder'
  <2>1. (\A d \in 1 .. index : Attempt!Passed(fates, d))'
    BY <1>1 DEF FatesInOrder, Attempt!Passed, Busy
  <2> QED
    BY <1>1, <2>1 DEF FatesInOrder, Busy
<1>10. Causal'
  <2>1. CASE attempt.lateEchoes
    BY <1>1, <2>1 DEF Causal
  <2>2. CASE ~attempt.lateEchoes
    <3>1. Checked
      BY <2>2 DEF Checked
    <3> QED
      BY <1>1, <3>1, DropStays
  <2> QED
    BY <2>1, <2>2
<1> QED
  BY <1>5, <1>6, <1>7, <1>8, <1>9, <1>10 DEF LoopInv

\* A response that is eligible and matches is to the present command: by the
\* fence, or by its identity.
LEMMA AnswersPresent ==
  ASSUME AppInv, LoopInv, Busy, state = "waiting", queue # << >>, IsEligible(Head(queue)),
         MatchesCurrent(TargetOf(Head(queue)))
  PROVE  Head(queue).of = index + 1
<1>1. /\ LoopTypeOK /\ UnderWay /\ Causal
  BY DEF LoopInv
<1>2. index \in Nat /\ index + 1 \in Everyone /\ CurrentCommand = attempt.commands[index + 1]
  BY <1>1, AtCommand
<1>3. /\ queue \in Seq(Responses) /\ fence \in [last : Nat, minimum : Nat]
  BY <1>1 DEF LoopTypeOK
<1>4. Head(queue) = queue[1] /\ 1 \in DOMAIN queue /\ queue[1] \in Responses
  BY <1>3, EmptySeq
<1>5. queue[1].of \in Everyone /\ queue[1].generation \in Nat
  BY <1>4 DEF Responses
<1>6. CASE attempt.lateEchoes
  <2>1. /\ attempt.family = "ublox"
        /\ \A c \in Everyone : attempt.commands[c].target # NoTarget
        /\ \A c, d \in Everyone : attempt.commands[c].target = attempt.commands[d].target => c = d
    BY <1>1, <1>6, ListFacts
  <2>2. TargetOf(Head(queue)) = attempt.commands[queue[1].of].target
    BY <1>4, <2>1 DEF TargetOf
  <2>3. current.command = attempt.commands[index + 1]
    BY <1>2 DEF AppInv, Waiting
  <2> QED
    BY <1>2, <1>4, <1>5, <2>1, <2>2, <2>3 DEF MatchesCurrent
<1>7. CASE ~attempt.lateEchoes
  <2>1. OldOnesFenced
    BY <1>1, <1>7 DEF Causal, Busy
  <2>2. ~(queue[1].generation <= fence.minimum)
    BY <1>3, <1>4, <1>5 DEF IsEligible
  <2> QED
    BY <1>4, <2>1, <2>2 DEF OldOnesFenced
<1> QED
  BY <1>6, <1>7, <1>1, ListFacts

\* One turn of the router's queue.
LEMMA AppliesKeep ==
  ASSUME AppInv, LoopInv, AppliesQueued
  PROVE  LoopInv' /\ AttemptStep
<1> DEFINE p == index + 1
<1>1. /\ LoopTypeOK /\ Generations /\ Truthful /\ InHand /\ Unasked
      /\ UnderWay /\ FatesInOrder /\ Causal
  BY DEF LoopInv
<1>2. /\ pc \in {"queued", "apply"} /\ state = "waiting" /\ queue # << >> /\ queue' = Tail(queue)
      /\ UNCHANGED <<attempt, fence, partial, chunk, overdue, received, inbound, said>>
      /\ Busy
  BY DEF AppliesQueued, receiverVars, Busy
<1>3. CASE ~IsEligible(Head(queue))
  <2>1. UNCHANGED <<applicationVars, indeterminate>> /\ UNCHANGED <<pc, report, fates>>
    BY <1>3 DEF AppliesQueued, appVars, engineVars
  <2>2. LoopInv'
    BY <1>2, <2>1, DropKeeps DEF receiverVars
  <2> QED
    BY <1>2, <2>1, <2>2 DEF AttemptStep, Attempt!attemptVars
<1>4. CASE IsEligible(Head(queue))
  <2>1. /\ AppApplyResponse(Head(queue).kind, TargetOf(Head(queue))) /\ RecordFate /\ FinishesOr(pc)
    BY <1>4 DEF AppliesQueued
  <2>2. queue \in Seq(Responses) /\ Head(queue) = queue[1] /\ 1 \in DOMAIN queue /\ queue[1] \in Responses
    BY <1>1, <1>2, EmptySeq DEF LoopTypeOK
  <2>3. Head(queue).kind \in Kinds
    BY <2>2 DEF Responses
  <2>4. CASE NothingHappens
    <3>1. UNCHANGED <<applicationVars, indeterminate>> /\ fates' = fates /\ state' = "waiting"
      BY <1>2, <2>4 DEF NothingHappens, applicationVars
    <3>2. UNCHANGED <<pc, report>>
      BY <2>1, <3>1 DEF FinishesOr
    <3>3. LoopInv'
      BY <1>2, <3>1, <3>2, DropKeeps DEF receiverVars
    <3> QED
      BY <1>2, <3>1, <3>2, <3>3 DEF AttemptStep, Attempt!attemptVars
  <2>5. ASSUME NEW f \in {"accepted", "refused"},
               f = (IF Head(queue).kind = "positive" THEN "accepted" ELSE "refused"),
               MatchesCurrent(TargetOf(Head(queue))), Met(f)
        PROVE  LoopInv' /\ AttemptStep
    <3>1. Head(queue).of = p
      BY <1>2, <1>4, <2>5, AnswersPresent
    <3>2. said[p] = Head(queue).kind
      BY <1>1, <2>2, <3>1 DEF Truthful
    <3>3. p \in Everyone /\ fates[p] = "sent"
      BY <1>1, <1>2, AtCommand DEF FatesInOrder, Busy
    <3>4. Attempt!Meets(p, f) /\ GoesOn(pc) /\ FatesInOrder'
      BY <1>1, <1>2, <2>1, <2>5, MetReports
    <3>5. AttemptStep
      <4>1. Attempt!Settle(p)
        BY <2>3, <2>5, <3>2, <3>3, <3>4 DEF Attempt!Settle, Kinds
      <4> QED
        BY <3>3, <4>1 DEF AttemptStep, Attempt!AttemptNext, Everyone
    <3>6. received = << >>
      <4>1. received # << >> => received = <<p>>
        BY <1>1, <1>2 DEF UnderWay, Busy
      <4>2. said[p] # "nothing"
        BY <2>3, <3>2 DEF Kinds
      <4> QED
        BY <1>1, <4>1, <4>2 DEF InHand
    <3>7. fates' \in [Everyone -> FateNames] /\ InHand' /\ Unasked'
      <4>1. fates' = [fates EXCEPT ![p] = f] /\ f \in FateNames /\ f \notin {"unsent", "notSent"}
        BY <2>5 DEF Met, FateNames
      <4> QED
        BY <1>1, <1>2, <3>3, <4>1, FateKeeps
    <3>8. Everyone' = Everyone /\ Pieces' = Pieces /\ Responses' = Responses /\ Stream' = Stream
      BY <1>2, SameSets DEF Stream
    <3>9. queue' \in Seq(Responses) /\ \A i \in DOMAIN queue' : \E j \in DOMAIN queue : queue'[i] = queue[j]
      <4>1. /\ queue' \in Seq(Responses)
            /\ DOMAIN queue' = 1 .. Len(queue) - 1 /\ DOMAIN queue = 1 .. Len(queue) /\ Len(queue) \in Nat
            /\ \A i \in 1 .. Len(queue) - 1 : queue'[i] = queue[i + 1]
        BY <1>2, <2>2
      <4>2. \A i \in 1 .. Len(queue) - 1 : i + 1 \in 1 .. Len(queue)
        BY <4>1
      <4> QED
        BY <4>1, <4>2
    <3>10. LoopTypeOK'
      <4>1. pc' \in Places
        BY <1>2, <3>4 DEF GoesOn, Places
      <4> QED
        BY <1>1, <1>2, <3>7, <3>8, <3>9, <4>1 DEF LoopTypeOK
    <3>11. Generations' /\ Truthful'
      BY <1>1, <1>2, <3>8, <3>9 DEF Generations, Truthful
    <3>12. CASE pc' = "done"
      BY <3>5, <3>7, <3>10, <3>11, <3>12, DoneKeeps
    <3>13. CASE pc' # "done"
      <4>1. /\ pc' = pc /\ state' = "running" /\ ~indeterminate' /\ starting' = FALSE
            /\ UNCHANGED <<commands, orphaned>>
        BY <3>4, <3>13 DEF GoesOn
      <4>2. UnderWay' /\ NotStarted'
        BY <1>1, <1>2, <3>6, <4>1 DEF UnderWay, NotStarted, Busy
      <4>3. Causal'
        <5>1. CASE attempt.lateEchoes
          BY <1>2, <5>1 DEF Causal
        <5>2. CASE ~attempt.lateEchoes
          <6>1. Checked
            BY <1>2, <5>2 DEF Checked
          <6> QED
            BY <1>1, <1>2, <3>1, <4>1, <6>1, AnswerEnds
        <5> QED
          BY <5>1, <5>2
      <4> QED
        BY <3>4, <3>5, <3>7, <3>10, <3>11, <4>2, <4>3 DEF LoopInv
    <3> QED
      BY <3>12, <3>13
  <2> QED
    BY <1>1, <1>2, <2>1, <2>3, <2>4, <2>5, AnswerOutcome
<1> QED
  BY <1>3, <1>4

\* The deadline of the present command is looked at.
LEMMA ChecksKeep ==
  ASSUME AppInv, LoopInv, ChecksTimeout
  PROVE  LoopInv' /\ AttemptStep
<1> DEFINE p == index + 1
<1>1. /\ LoopTypeOK /\ Generations /\ Truthful /\ InHand /\ Unasked
      /\ UnderWay /\ FatesInOrder /\ Causal
  BY DEF LoopInv
<1>2. /\ pc = "check" /\ Busy /\ AppCheckTimeout(overdue) /\ RecordFate /\ FinishesOr("top")
      /\ UNCHANGED <<attempt, fence, partial, queue, chunk, overdue, received, inbound, said>>
  BY DEF ChecksTimeout, receiverVars, Busy
<1>3. CASE NothingHappens
  <2>1. UNCHANGED <<applicationVars, indeterminate>> /\ fates' = fates /\ state' = state
    BY <1>3 DEF NothingHappens, applicationVars
  <2>2. state \in {"running", "waiting"} /\ chunk = << >>
    BY <1>1, <1>2 DEF UnderWay
  <2>3. pc' = "top" /\ UNCHANGED report
    BY <1>2, <2>1, <2>2 DEF FinishesOr
  <2>4. Moves /\ overdue' \in BOOLEAN
    BY <1>1, <1>2, <2>2, <2>3 DEF Moves, LoopTypeOK
  <2>5. LoopInv'
    BY <1>2, <2>1, <2>4, MoveKeeps DEF receiverVars
  <2> QED
    BY <1>2, <2>1, <2>3, <2>5 DEF AttemptStep, Attempt!attemptVars
<1>4. CASE state = "waiting" /\ Met("unknown")
  <2>1. Attempt!Meets(p, "unknown") /\ FatesInOrder'
    BY <1>1, <1>2, <1>4, MetReports
  <2>2. p \in Everyone /\ fates[p] = "sent"
    BY <1>1, <1>2, <1>4, AtCommand DEF FatesInOrder, Busy
  <2>3. AttemptStep
    <3>1. Attempt!Settle(p)
      BY <2>1, <2>2 DEF Attempt!Settle
    <3> QED
      BY <2>2, <3>1 DEF AttemptStep, Attempt!AttemptNext, Everyone
  <2>4. pc' = "done"
    BY <1>2, <1>4 DEF Met, Stop, FinishesOr
  <2>5. fates' \in [Everyone -> FateNames] /\ InHand' /\ Unasked'
    <3>1. fates' = [fates EXCEPT ![p] = "unknown"] /\ "unknown" \in FateNames
      BY <1>4 DEF Met, FateNames
    <3> QED
      BY <1>1, <1>2, <2>2, <3>1, FateKeeps
  <2>6. LoopTypeOK'
    <3>1. pc' \in Places /\ fence' \in [last : Nat, minimum : Nat] /\ overdue' \in BOOLEAN
      BY <1>1, <1>2, <2>4 DEF Places, LoopTypeOK
    <3> QED
      BY <1>1, <1>2, <2>5, <3>1, TypeFrame
  <2>7. Generations' /\ Truthful'
    BY <1>1, <1>2, TransitFrame
  <2> QED
    BY <2>3, <2>4, <2>5, <2>6, <2>7, DoneKeeps
<1> QED
  BY <1>1, <1>2, <1>3, <1>4, CheckOutcome

\* The transport fails.
LEMMA ReadFailKeeps ==
  ASSUME AppInv, LoopInv, ReadFails
  PROVE  LoopInv' /\ AttemptStep
<1> DEFINE p == index + 1
<1>1. /\ LoopTypeOK /\ Generations /\ Truthful /\ InHand /\ Unasked
      /\ UnderWay /\ FatesInOrder /\ Causal
  BY DEF LoopInv
<1>2. /\ pc = "read" /\ Busy /\ pc' = "done" /\ fates' = [fates EXCEPT ![p] = "unknown"]
      /\ report' = [status |-> "readFailed", indeterminate |-> TRUE]
      /\ UNCHANGED <<attempt, fence, partial, queue, chunk, overdue, received, inbound, said>>
  BY DEF ReadFails, receiverVars, Busy
<1>3. index \in Nat /\ p \in Everyone /\ \A d \in 1 .. index : Attempt!Passed(fates, d)
  BY <1>1, <1>2, AtCommand DEF FatesInOrder, Busy
<1>4. fates[p] \in {"sent", "unsent"}
  BY <1>1, <1>2 DEF FatesInOrder, Busy
<1>5. fates' \in [Everyone -> FateNames] /\ InHand' /\ Unasked'
  BY <1>1, <1>2, <1>3, FateKeeps DEF FateNames
<1>6. LoopTypeOK'
  <2>1. pc' \in Places /\ fence' \in [last : Nat, minimum : Nat] /\ overdue' \in BOOLEAN
    BY <1>1, <1>2 DEF Places, LoopTypeOK
  <2> QED
    BY <1>1, <1>2, <1>5, <2>1, TypeFrame
<1>7. Generations' /\ Truthful'
  BY <1>1, <1>2, TransitFrame
<1>8. LoopInv'
  BY <1>2, <1>5, <1>6, <1>7, DoneKeeps
<1>9. Attempt!Meets(p, "unknown")
  <2>1. fates'[p] = "unknown" /\ p \in DOMAIN attempt.commands
    BY <1>1, <1>2, <1>3 DEF LoopTypeOK, Everyone
  <2>2. ~Attempt!Passed(fates', p) /\ Attempt!Stops(fates', p)
    BY <2>1 DEF Attempt!Passed, Attempt!Stops
  <2>3. "readFailed" \in Attempt!HonestStatuses(fates')
    <3>1. "readFailed" \in Attempt!Blames[fates'[p]]
      BY <2>1 DEF Attempt!Blames
    <3> QED
      BY <2>1, <2>2, <3>1 DEF Attempt!HonestStatuses
  <2>4. /\ report'.status = "readFailed" /\ report'.indeterminate = TRUE
        /\ DOMAIN report' = {"status", "indeterminate"}
    BY <1>2
  <2>5. report'.indeterminate = \E d \in DOMAIN attempt.commands : fates'[d] = "unknown"
    BY <2>1, <2>4
  <2> QED
    BY <1>2, <2>1, <2>2, <2>3, <2>4, <2>5 DEF Attempt!Meets, Attempt!Over
<1>10. Attempt!Send(p) \/ Attempt!Settle(p)
  <2>1. \A d \in 1 .. p - 1 : Attempt!Passed(fates, d)
    BY <1>3
  <2> QED
    BY <1>4, <1>9, <2>1 DEF Attempt!Send, Attempt!Settle
<1>11. AttemptStep
  BY <1>3, <1>10 DEF AttemptStep, Attempt!AttemptNext, Everyone
<1> QED
  BY <1>8, <1>11

\* A piece of an answer comes from the wire or is taken: the list does not
\* move.
LEMMA ListStays ==
  ASSUME LoopInv, Busy, UNCHANGED <<state, commands, index, tally, starting, orphaned, indeterminate>>,
         UNCHANGED <<attempt, fates, received>>,
         pc' \in {"process", "apply"}, pc # "first"
  PROVE  NotStarted' /\ UnderWay' /\ FatesInOrder'
<1>1. UnderWay /\ FatesInOrder
  BY DEF LoopInv
<1>2. NotStarted' /\ UnderWay'
  BY <1>1 DEF NotStarted, UnderWay, Busy
<1>3. (\A d \in 1 .. index : Attempt!Passed(fates, d))'
  BY <1>1 DEF FatesInOrder, Busy, Attempt!Passed
<1>4. FatesInOrder'
  BY <1>1, <1>3 DEF FatesInOrder, Busy
<1> QED
  BY <1>2, <1>4

\* Bytes are read.
LEMMA ReadKeeps ==
  ASSUME LoopInv, ReadsBytes
  PROVE  LoopInv'
<1>1. /\ LoopTypeOK /\ Generations /\ Truthful /\ InHand /\ Unasked /\ UnderWay /\ Causal
  BY DEF LoopInv
<1>2. /\ pc = "read" /\ Busy /\ pc' = "process"
      /\ UNCHANGED <<state, commands, index, tally, starting, orphaned, indeterminate>>
      /\ UNCHANGED <<attempt, partial, queue, overdue, received, said, fates>>
      /\ IF attempt.family = "unicore" THEN fence' = [fence EXCEPT !.last = @ + 1] ELSE fence' = fence
  BY DEF ReadsBytes, BeginCapture, appVars, engineVars, applicationVars, Busy
<1>3. PICK k \in 1 .. Len(inbound) :
        /\ ReadEndsAt(k)
        /\ chunk' = SubSeq(inbound, 1, k)
        /\ inbound' = SubSeq(inbound, k + 1, Len(inbound))
  BY DEF ReadsBytes
<1>4. chunk = << >> /\ fence \in [last : Nat, minimum : Nat]
  BY <1>1, <1>2 DEF UnderWay, LoopTypeOK
<1>5. /\ fence' \in [last : Nat, minimum : Nat] /\ fence'.minimum = fence.minimum
      /\ fence'.last >= fence.last
      /\ IF attempt.family = "unicore" THEN fence'.last = fence.last + 1 ELSE fence'.last = fence.last
  BY <1>2, <1>4
<1>6. Stream' = Stream /\ chunk' \in Seq(Pieces) /\ inbound' \in Seq(Pieces)
  BY <1>1, <1>2, <1>3, <1>4, StreamRead
<1>7. Everyone' = Everyone /\ Pieces' = Pieces /\ Responses' = Responses
  BY <1>2, SameSets
<1>8. LoopTypeOK'
  BY <1>1, <1>2, <1>5, <1>6, <1>7 DEF LoopTypeOK, Places
<1>9. Generations' /\ Truthful'
  <2>1. \A i \in DOMAIN queue : queue[i].generation \in Nat
    <3>1. \A i \in DOMAIN queue : queue[i] \in Responses
      BY <1>1 DEF LoopTypeOK
    <3> QED
      BY <3>1 DEF Responses
  <2>2. partial \in Nat /\ fence.last \in Nat /\ fence'.last \in Nat
    BY <1>1, <1>4, <1>5 DEF LoopTypeOK
  <2>3. Generations'
    BY <1>1, <1>2, <1>5, <2>1, <2>2 DEF Generations
  <2> QED
    BY <1>1, <1>2, <1>6, <2>3 DEF Truthful
<1>10. InHand' /\ Unasked'
  BY <1>1, <1>2, <1>7 DEF InHand, Unasked
<1>11. NotStarted' /\ UnderWay' /\ FatesInOrder'
  BY <1>2, ListStays
<1>12. Causal'
  <2>1. CASE attempt.lateEchoes
    BY <1>2, <2>1 DEF Causal
  <2>2. CASE ~attempt.lateEchoes
    <3>1. Checked
      BY <1>2, <2>2 DEF Checked
    <3> QED
      BY <1>1, <1>2, <1>3, <1>4, <1>5, <3>1, ReadKeepsCausal
  <2> QED
    BY <2>1, <2>2
<1> QED
  BY <1>8, <1>9, <1>10, <1>11, <1>12 DEF LoopInv

\* What the router takes from the bytes read is true.
LEMMA TakenIsTrue ==
  ASSUME LoopTypeOK, Truthful, UNCHANGED <<attempt, inbound, said>>, chunk # << >>, chunk' = Tail(chunk)
  PROVE  /\ Head(chunk) \in Pieces /\ Head(chunk).kind = said[Head(chunk).of]
         /\ chunk' \in Seq(Pieces)
         /\ \A i \in DOMAIN Stream' : Stream'[i].kind = said[Stream'[i].of]
<1>1. /\ chunk' \in Seq(Pieces) /\ Stream[1] = Head(chunk)
      /\ Len(Stream) \in Nat \ {0}
      /\ DOMAIN Stream' = 1 .. Len(Stream') /\ Len(Stream') = Len(Stream) - 1
      /\ \A i \in 1 .. Len(Stream') : i + 1 \in 2 .. Len(Stream) /\ Stream'[i] = Stream[i + 1]
  BY StreamTail
<1>2. DOMAIN Stream = 1 .. Len(Stream) /\ 1 \in DOMAIN Stream /\ chunk \in Seq(Pieces)
  BY <1>1, StreamFacts
<1>3. Head(chunk) \in Pieces
  BY <1>2
<1>4. \A i \in DOMAIN Stream' : i + 1 \in DOMAIN Stream
  BY <1>1, <1>2
<1> QED
  BY <1>1, <1>2, <1>3, <1>4 DEF Truthful

\* The first bytes of an answer are taken.
LEMMA FirstBytesKeep ==
  ASSUME LoopInv, TakesFirstBytes
  PROVE  LoopInv'
<1>1. /\ LoopTypeOK /\ Generations /\ Truthful /\ InHand /\ Unasked /\ Causal
  BY DEF LoopInv
<1>2. /\ pc = "process" /\ Busy /\ pc' = pc /\ chunk # << >> /\ chunk' = Tail(chunk)
      /\ UNCHANGED <<state, commands, index, tally, starting, orphaned, indeterminate>>
      /\ UNCHANGED <<attempt, queue, overdue, received, inbound, said, fates>>
      /\ IF attempt.family = "ublox" THEN fence' = [fence EXCEPT !.last = @ + 1] ELSE fence' = fence
      /\ partial' = fence'.last
  BY DEF TakesFirstBytes, BeginCapture, appVars, engineVars, applicationVars, receiverVars, Busy
<1>3. fence \in [last : Nat, minimum : Nat] /\ queue \in Seq(Responses)
  BY <1>1 DEF LoopTypeOK
<1>4. /\ fence' \in [last : Nat, minimum : Nat] /\ fence'.last >= fence.last
      /\ fence.last \in Nat /\ fence'.last \in Nat
  BY <1>2, <1>3
<1>5. /\ chunk' \in Seq(Pieces)
      /\ \A i \in DOMAIN Stream' : Stream'[i].kind = said[Stream'[i].of]
  BY <1>1, <1>2, TakenIsTrue
<1>6. Everyone' = Everyone /\ Pieces' = Pieces /\ Responses' = Responses
  BY <1>2, SameSets
<1>7. LoopTypeOK'
  BY <1>1, <1>2, <1>4, <1>5, <1>6 DEF LoopTypeOK
<1>8. Generations' /\ Truthful'
  <2>1. \A i \in DOMAIN queue : queue[i].generation \in Nat
    <3>1. \A i \in DOMAIN queue : queue[i] \in Responses
      BY <1>3
    <3> QED
      BY <3>1 DEF Responses
  <2>2. Generations'
    BY <1>1, <1>2, <1>4, <2>1 DEF Generations
  <2> QED
    BY <1>1, <1>2, <1>5, <2>2 DEF Truthful
<1>9. InHand' /\ Unasked'
  BY <1>1, <1>2, <1>6 DEF InHand, Unasked
<1>10. NotStarted' /\ UnderWay' /\ FatesInOrder'
  BY <1>2, ListStays
<1>11. Causal'
  <2>1. CASE attempt.lateEchoes
    BY <1>2, <2>1 DEF Causal
  <2>2. CASE ~attempt.lateEchoes
    BY <1>1, <1>2, <2>2, FirstBytesCausal DEF Checked
  <2> QED
    BY <2>1, <2>2
<1> QED
  BY <1>7, <1>8, <1>9, <1>10, <1>11 DEF LoopInv

\* The last bytes of an answer are taken.
LEMMA LastBytesKeep ==
  ASSUME LoopInv, TakesLastBytes
  PROVE  LoopInv'
<1> DEFINE r == [of |-> Head(chunk).of, kind |-> Head(chunk).kind,
                 generation |-> IF partial # 0 THEN partial ELSE fence.last]
<1>1. /\ LoopTypeOK /\ Generations /\ Truthful /\ InHand /\ Unasked /\ Causal
  BY DEF LoopInv
<1>2. /\ pc = "process" /\ Busy /\ pc' \in {"process", "apply"}
      /\ chunk # << >> /\ chunk' = Tail(chunk) /\ queue' = Append(queue, r) /\ partial' = 0
      /\ UNCHANGED <<state, commands, index, tally, starting, orphaned, indeterminate>>
      /\ UNCHANGED <<attempt, fence, overdue, received, inbound, said, fates>>
  BY DEF TakesLastBytes, appVars, engineVars, applicationVars, receiverVars, Busy
<1>3. /\ fence \in [last : Nat, minimum : Nat] /\ queue \in Seq(Responses) /\ partial \in Nat
  BY <1>1 DEF LoopTypeOK
<1>4. /\ Head(chunk) \in Pieces /\ Head(chunk).kind = said[Head(chunk).of]
      /\ chunk' \in Seq(Pieces)
      /\ \A i \in DOMAIN Stream' : Stream'[i].kind = said[Stream'[i].of]
  BY <1>1, <1>2, TakenIsTrue
<1>5. r \in Responses /\ r.kind = said[r.of]
  BY <1>3, <1>4 DEF Pieces, Responses
<1>6. r.generation <= fence.last
  BY <1>1, <1>3 DEF Generations
<1> HIDE DEF r
<1>7. /\ queue' \in Seq(Responses)
      /\ \A i \in DOMAIN queue' : queue'[i] = r \/ (i \in DOMAIN queue /\ queue'[i] = queue[i])
  BY <1>2, <1>3, <1>5
<1>8. Everyone' = Everyone /\ Pieces' = Pieces /\ Responses' = Responses
  BY <1>2, SameSets
<1>9. LoopTypeOK'
  BY <1>1, <1>2, <1>4, <1>7, <1>8 DEF LoopTypeOK, Places
<1>10. Generations' /\ Truthful'
  <2>1. Generations'
    BY <1>1, <1>2, <1>3, <1>6, <1>7 DEF Generations
  <2> QED
    BY <1>1, <1>2, <1>4, <1>5, <1>7, <2>1 DEF Truthful
<1>11. InHand' /\ Unasked'
  BY <1>1, <1>2, <1>8 DEF InHand, Unasked
<1>12. NotStarted' /\ UnderWay' /\ FatesInOrder'
  BY <1>2, ListStays
<1>13. Causal'
  <2>1. CASE attempt.lateEchoes
    BY <1>2, <2>1 DEF Causal
  <2>2. CASE ~attempt.lateEchoes
    BY <1>1, <1>2, <2>2, LastBytesCausal DEF Checked
  <2> QED
    BY <2>1, <2>2
<1> QED
  BY <1>9, <1>10, <1>11, <1>12, <1>13 DEF LoopInv

\* The receiver acts on the command it has in hand.
LEMMA ReceiverKeeps ==
  ASSUME AppInv, LoopInv, ReceiverActs
  PROVE  LoopInv' /\ AttemptStep
<1>1. /\ LoopTypeOK /\ Generations /\ Truthful /\ InHand /\ Unasked
      /\ NotStarted /\ UnderWay /\ FatesInOrder /\ Causal
  BY DEF LoopInv
<1>2. /\ received # << >> /\ received' = Tail(received)
      /\ UNCHANGED <<state, commands, index, tally, starting, orphaned, indeterminate>>
      /\ UNCHANGED <<attempt, pc, fence, partial, queue, chunk, overdue, report, fates>>
  BY DEF ReceiverActs, appVars, engineVars, applicationVars, hostVars
<1>3. PICK c \in Everyone :
        received = <<c>> /\ said[c] = "nothing" /\ fates[c] \notin {"unsent", "notSent"}
  BY <1>1, <1>2 DEF InHand
<1>4. received' = << >> /\ Head(received) = c
  BY <1>2, <1>3
<1>5. pc # "start"
  BY <1>1, <1>2 DEF NotStarted
<1>6. Everyone' = Everyone /\ Pieces' = Pieces /\ Responses' = Responses
  BY <1>2, SameSets
<1>7. InHand' /\ NotStarted'
  BY <1>2, <1>4, <1>5 DEF InHand, NotStarted
<1>8. UnderWay'
  BY <1>1, <1>2, <1>4 DEF UnderWay
<1>9. FatesInOrder'
  <2>1. ASSUME Busy PROVE FatesInOrder'
    <3>1. (\A d \in 1 .. index : Attempt!Passed(fates, d))'
      BY <1>1, <1>2, <2>1 DEF FatesInOrder, Attempt!Passed, Busy
    <3> QED
      BY <1>1, <1>2, <2>1, <3>1 DEF FatesInOrder, Busy
  <2> QED
    BY <1>2, <2>1 DEF FatesInOrder, Busy
<1>10. CASE UNCHANGED <<inbound, said>>
  <2>1. LoopTypeOK' /\ Generations' /\ Truthful'
    <3>1. pc' \in Places /\ fence' \in [last : Nat, minimum : Nat] /\ overdue' \in BOOLEAN
          /\ fates' \in [Everyone -> FateNames]
      BY <1>1, <1>2 DEF LoopTypeOK
    <3> QED
      BY <1>1, <1>2, <1>10, <3>1, TypeFrame, TransitFrame
  <2>2. Unasked'
    BY <1>1, <1>2, <1>6, <1>10 DEF Unasked
  <2>3. Causal'
    <3>1. ASSUME Checked PROVE Causal'
      <4>1. SameTransit
        BY <1>2, <1>10 DEF SameTransit
      <4> QED
        BY <1>1, <1>2, <3>1, <4>1, WaitingStays
    <3> QED
      BY <1>2, <3>1 DEF Causal, Checked, Busy
  <2>4. AttemptStep
    BY <1>2, <1>10 DEF AttemptStep, Attempt!attemptVars
  <2> QED
    BY <1>7, <1>8, <1>9, <2>1, <2>2, <2>3, <2>4 DEF LoopInv
<1>11. ASSUME NEW kind \in Kinds, NEW twice \in BOOLEAN,
              inbound' = inbound \o AnswerPieces(c, kind) \o
                         (IF twice THEN AnswerPieces(c, kind) ELSE << >>),
              said' = [said EXCEPT ![c] = kind]
       PROVE  LoopInv' /\ AttemptStep
  <2>1. PICK Q \in Seq(Pieces) :
          /\ Q = AnswerPieces(c, kind) \o (IF twice THEN AnswerPieces(c, kind) ELSE << >>)
          /\ Len(Q) \in Nat /\ 2 <= Len(Q) /\ Len(Q) <= 4
          /\ \A i \in 1 .. Len(Q) :
               Q[i].of = c /\ Q[i].kind = kind /\ (Q[i].last <=> i \in {2, 4})
    BY AnswerFacts
  <2>2. inbound' = inbound \o Q
    <3>1. PICK A : A = AnswerPieces(c, kind)
      OBVIOUS
    <3>2. PICK B : B = IF twice THEN A ELSE << >>
      OBVIOUS
    <3>3. A \in Seq(Pieces) /\ B \in Seq(Pieces) /\ inbound \in Seq(Pieces)
      <4>1. A \in Seq(Pieces)
        BY <3>1 DEF AnswerPieces, Pieces
      <4> QED
        BY <1>1, <3>2, <4>1 DEF LoopTypeOK
    <3>4. inbound' = (inbound \o A) \o B /\ Q = A \o B
      BY <1>11, <2>1, <3>1, <3>2
    <3>5. (inbound \o A) \o B = inbound \o (A \o B)
      BY ONLY <3>3
    <3> QED
      BY ONLY <3>4, <3>5
  <2>3. /\ inbound' \in Seq(Pieces)
        /\ DOMAIN Stream' = 1 .. Len(Stream') /\ Len(Stream') = Len(Stream) + Len(Q)
        /\ \A i \in 1 .. Len(Stream) : Stream'[i] = Stream[i]
        /\ \A i \in 1 .. Len(Q) : Stream'[Len(Stream) + i] = Q[i]
    BY <1>1, <1>2, <2>1, <2>2, StreamGrows
  <2>4. Len(Stream) \in Nat /\ DOMAIN Stream = 1 .. Len(Stream)
        /\ \A i \in DOMAIN Stream : Stream[i].of \in Everyone /\ Stream[i].kind \in Kinds
    BY <1>1, StreamFacts
  <2>5. \A i \in DOMAIN queue : queue[i].of \in Everyone /\ queue[i].kind \in Kinds
    <3>1. \A i \in DOMAIN queue : queue[i] \in Responses
      BY <1>1 DEF LoopTypeOK
    <3> QED
      BY <3>1 DEF Responses
  <2>6. \A i \in DOMAIN Stream : Stream[i].of # c
    BY <1>1, <1>3, <2>4 DEF Truthful, Kinds
  <2>7. \A i \in DOMAIN queue : queue[i].of # c
    BY <1>1, <1>3, <2>5 DEF Truthful, Kinds
  <2>8. /\ said' \in [Everyone -> Kinds \cup {"nothing"}] /\ said'[c] = kind
        /\ \A d \in Everyone : d # c => said'[d] = said[d]
    BY <1>1, <1>3, <1>11 DEF LoopTypeOK
  <2>9. LoopTypeOK'
    BY <1>1, <1>2, <1>6, <2>3, <2>8 DEF LoopTypeOK
  <2>10. Generations'
    BY <1>1, <1>2 DEF Generations
  <2>11. Truthful'
    <3>1. \A i \in DOMAIN queue : queue[i].kind = said'[queue[i].of]
      BY <1>1, <2>5, <2>7, <2>8 DEF Truthful
    <3>2. ASSUME NEW i \in DOMAIN Stream' PROVE Stream'[i].kind = said'[Stream'[i].of]
      <4>1. CASE i \in 1 .. Len(Stream)
        BY <1>1, <2>3, <2>4, <2>6, <2>8, <4>1 DEF Truthful
      <4>2. CASE i \notin 1 .. Len(Stream)
        <5>1. i - Len(Stream) \in 1 .. Len(Q) /\ Len(Stream) + (i - Len(Stream)) = i
          BY <2>1, <2>3, <2>4, <4>2
        <5>2. Stream'[i] = Q[i - Len(Stream)]
          BY <2>3, <5>1
        <5> QED
          BY <2>1, <2>8, <5>1, <5>2
      <4> QED
        BY <4>1, <4>2
    <3> QED
      BY <1>2, <3>1, <3>2 DEF Truthful
  <2>12. Unasked'
    BY <1>1, <1>2, <1>3, <1>6, <2>8 DEF Unasked
  <2>13. Causal'
    <3>1. ASSUME Checked PROVE Causal'
      <4>1. state = "waiting" /\ received = <<index + 1>>
        BY <1>1, <1>2, <3>1 DEF UnderWay, Checked, Busy
      <4>2. c = index + 1
        BY <1>3, <4>1
      <4>3. /\ \A i \in 1 .. Len(Q) : Q[i].of = index + 1 /\ (Q[i].last <=> i \in {2, 4})
            /\ \A i \in DOMAIN Stream : Stream[i].of # index + 1
            /\ \A i \in DOMAIN queue : queue[i].of # index + 1
        BY <2>1, <2>6, <2>7, <4>2
      <4>4. UNCHANGED <<attempt, fence, partial, queue, chunk, state, index>>
        BY <1>2
      <4>5. Len(Q) \in Nat /\ 2 <= Len(Q) /\ Len(Q) <= 4
        BY <2>1
      <4> QED
        BY <1>1, <2>2, <3>1, <4>1, <4>3, <4>4, <4>5, ReceiverCausal
    <3> QED
      BY <1>2, <3>1 DEF Causal, Checked, Busy
  <2>14. AttemptStep
    <3>1. Attempt!Speak(c)
      BY <1>2, <1>3, <1>11 DEF Attempt!Speak, Kinds
    <3> QED
      BY <1>3, <3>1 DEF AttemptStep, Attempt!AttemptNext, Everyone
  <2> QED
    BY <1>7, <1>8, <1>9, <2>9, <2>10, <2>11, <2>12, <2>13, <2>14 DEF LoopInv
<1> QED
  BY <1>4, <1>10, <1>11 DEF ReceiverActs, Kinds

-----------------------------------------------------------------------------
(* The application's part of a step                                        *)

\* A step of the loop is a step of the application, or leaves it alone.
LEMMA StepOfApplication ==
  ASSUME AppInv, LoopInv, [Next]_vars
  PROVE  [AppNext]_appVars
<1>1. /\ LoopTypeOK /\ UnderWay
  BY DEF LoopInv
<1>2. CASE StartsApplication
  <2>1. StartBegins(attempt.commands) /\ attempt.commands \in Plans
    BY <1>1, <1>2, ListFacts DEF StartsApplication
  <2> QED
    BY <2>1 DEF AppNext, AppStarts
<1>3. CASE SendsFirst \/ Steps
  <2>1. Busy
    BY <1>3 DEF SendsFirst, Steps, Busy
  <2>2. HasCurrent
    BY <1>1, <2>1, AtCommand
  <2>3. \E outcome \in Outcomes(CurrentCommand) : StartSteps(outcome) \/ Step(outcome)
    BY <1>3 DEF SendsFirst, Steps
  <2> QED
    BY <2>2, <2>3 DEF AppNext, AppSends
<1>4. CASE AppliesQueued
  <2>1. queue \in Seq(Responses) /\ queue # << >>
    BY <1>1, <1>4 DEF AppliesQueued, LoopTypeOK
  <2>2. Head(queue) \in Responses
    BY <2>1
  <2>3. Head(queue).kind \in AnswerKinds /\ Head(queue).of \in Everyone
    BY <2>2 DEF Responses, Kinds, AnswerKinds
  <2>4. TargetOf(Head(queue)) \in Targets \cup {NoTarget}
    <3>1. attempt.commands \in Seq(Commands)
      BY <1>1, ListFacts
    <3>2. attempt.commands[Head(queue).of] \in CommandType
      BY <2>3, <3>1, CommandsAssumption DEF Everyone
    <3> QED
      BY <3>2 DEF TargetOf, CommandType
  <2>5. \/ AppApplyResponse(Head(queue).kind, TargetOf(Head(queue)))
        \/ UNCHANGED appVars
    BY <1>4 DEF AppliesQueued
  <2> QED
    BY <2>3, <2>4, <2>5 DEF AppNext, AppAnswered
<1>5. CASE ChecksTimeout
  <2>1. AppCheckTimeout(overdue) /\ overdue \in BOOLEAN
    BY <1>1, <1>5 DEF ChecksTimeout, LoopTypeOK
  <2> QED
    BY <2>1 DEF AppNext, AppChecks
<1>6. CASE Waits \/ QueueApplied \/ ReadsNothing \/ ReadProcessed
  BY <1>6 DEF Waits, QueueApplied, ReadsNothing, ReadProcessed
<1>7. CASE ReadsBytes \/ TakesFirstBytes \/ TakesLastBytes \/ ReadFails
  BY <1>7 DEF ReadsBytes, TakesFirstBytes, TakesLastBytes, ReadFails
<1>8. CASE ReceiverActs \/ DeadlinePasses
  BY <1>8 DEF ReceiverActs, DeadlinePasses
<1>9. CASE UNCHANGED vars
  BY <1>9 DEF vars
<1> QED
  BY <1>2, <1>3, <1>4, <1>5, <1>6, <1>7, <1>8, <1>9 DEF Next, LoopStep

-----------------------------------------------------------------------------
(* The loop keeps the promise                                              *)

\* The loop only moves on, or a deadline passes.
LEMMA QuietKeeps ==
  ASSUME AppInv, LoopInv,
         Waits \/ QueueApplied \/ ReadsNothing \/ ReadProcessed \/ DeadlinePasses \/ UNCHANGED vars
  PROVE  LoopInv' /\ AttemptStep
<1>1. LoopTypeOK /\ UnderWay
  BY DEF LoopInv
<1>2. /\ UNCHANGED <<applicationVars, indeterminate>>
      /\ UNCHANGED <<attempt, fence, partial, queue, chunk, report, fates>>
      /\ UNCHANGED receiverVars
  BY DEF Waits, QueueApplied, ReadsNothing, ReadProcessed, DeadlinePasses, vars, hostVars,
         appVars, engineVars
<1>3. overdue' \in BOOLEAN
  BY <1>1 DEF Waits, QueueApplied, ReadsNothing, ReadProcessed, DeadlinePasses, vars, LoopTypeOK
<1>4. Moves
  <2>1. CASE Waits
    BY <1>1, <2>1 DEF Waits, Moves, UnderWay, Busy
  <2>2. CASE QueueApplied
    BY <1>1, <2>2 DEF QueueApplied, Moves, UnderWay, Busy
  <2>3. CASE ReadsNothing
    BY <1>1, <2>3 DEF ReadsNothing, Moves, UnderWay, Busy
  <2>4. CASE ReadProcessed
    BY <1>1, <2>4 DEF ReadProcessed, Moves, UnderWay, Busy
  <2>5. CASE DeadlinePasses \/ UNCHANGED vars
    BY <2>5 DEF DeadlinePasses, vars, hostVars, Moves
  <2> QED
    BY <2>1, <2>2, <2>3, <2>4, <2>5
<1>5. LoopInv'
  BY <1>2, <1>3, <1>4, MoveKeeps
<1> QED
  BY <1>2, <1>5 DEF AttemptStep, Attempt!attemptVars, receiverVars

LEMMA InitLoopInv ==
  ASSUME Init
  PROVE  LoopInv /\ Attempt!AttemptInit
<1>1. /\ AppInit /\ attempt \in Attempts /\ pc = "start" /\ fence = [last |-> 0, minimum |-> 0]
      /\ partial = 0 /\ queue = << >> /\ chunk = << >> /\ overdue = FALSE /\ report = NoReport
      /\ received = << >> /\ inbound = << >>
      /\ said = [c \in Everyone |-> "nothing"] /\ fates = [c \in Everyone |-> "unsent"]
  BY DEF Init
<1>2. Stream = << >>
  BY <1>1 DEF Stream
<1>3. LoopTypeOK
  <2>1. << >> \in Seq(Responses) /\ << >> \in Seq(Pieces)
    OBVIOUS
  <2>2. "nothing" \in Kinds \cup {"nothing"} /\ "unsent" \in FateNames /\ "start" \in Places
    BY DEF FateNames, Places
  <2> QED
    BY <1>1, <2>1, <2>2 DEF LoopTypeOK
<1>4. Generations /\ Truthful /\ InHand /\ Unasked
  BY <1>1, <1>2 DEF Generations, Truthful, InHand, Unasked
<1>5. NotStarted /\ UnderWay /\ FatesInOrder /\ Causal
  BY <1>1 DEF AppInit, EngineInit, NotStarted, UnderWay, FatesInOrder, Causal
<1>6. Attempt!AttemptInit
  BY <1>1 DEF Attempt!AttemptInit, Everyone, NoReport, Attempt!NoReport
<1> QED
  BY <1>3, <1>4, <1>5, <1>6 DEF LoopInv

LEMMA NextLoopInv ==
  ASSUME AppInv, LoopInv, [Next]_vars
  PROVE  LoopInv' /\ AttemptStep
<1>1. LoopTypeOK /\ UnderWay
  BY DEF LoopInv
<1>2. CASE StartsApplication
  BY <1>2, StartsKeep DEF AttemptStep
<1>3. CASE SendsFirst
  <2>1. PICK outcome \in Outcomes(CurrentCommand) : StartSteps(outcome)
    BY <1>3 DEF SendsFirst
  <2>2. /\ pc = "first" /\ Busy /\ chunk = << >> /\ state = "running" /\ Dispatches("top")
        /\ SendCurrent(outcome) /\ starting' = FALSE
    BY <1>1, <1>3, <2>1 DEF SendsFirst, StartSteps, SendCurrent, UnderWay, Busy
  <2> QED
    BY <2>2, SendsKeep
<1>4. CASE Steps
  <2>1. PICK outcome \in Outcomes(CurrentCommand) : Step(outcome)
    BY <1>4 DEF Steps
  <2>2. /\ pc = "top" /\ Busy /\ chunk = << >> /\ state = "running"
        /\ Dispatches(IF state' = "waiting" THEN "queued" ELSE "top")
        /\ SendCurrent(outcome)
    BY <1>1, <1>4, <2>1 DEF Steps, Step, UnderWay, Busy
  <2>3. starting' = FALSE
    BY <2>1 DEF Step, AppInv, AppTypeOK
  <2>4. (IF state' = "waiting" THEN "queued" ELSE "top") \in {"top", "queued"}
    OBVIOUS
  <2> QED
    BY <2>2, <2>3, <2>4, SendsKeep
<1>5. CASE AppliesQueued
  BY <1>5, AppliesKeep
<1>6. CASE ReadsBytes
  <2>1. UNCHANGED Attempt!attemptVars
    BY <1>6 DEF ReadsBytes, Attempt!attemptVars
  <2> QED
    BY <1>6, <2>1, ReadKeeps DEF AttemptStep
<1>7. CASE TakesFirstBytes
  <2>1. UNCHANGED Attempt!attemptVars
    BY <1>7 DEF TakesFirstBytes, receiverVars, Attempt!attemptVars
  <2> QED
    BY <1>7, <2>1, FirstBytesKeep DEF AttemptStep
<1>8. CASE TakesLastBytes
  <2>1. UNCHANGED Attempt!attemptVars
    BY <1>8 DEF TakesLastBytes, receiverVars, Attempt!attemptVars
  <2> QED
    BY <1>8, <2>1, LastBytesKeep DEF AttemptStep
<1>9. CASE ChecksTimeout
  BY <1>9, ChecksKeep
<1>10. CASE ReadFails
  BY <1>10, ReadFailKeeps
<1>11. CASE ReceiverActs
  BY <1>11, ReceiverKeeps
<1>12. CASE Waits \/ QueueApplied \/ ReadsNothing \/ ReadProcessed \/ DeadlinePasses \/ UNCHANGED vars
  BY <1>12, QuietKeeps
<1> QED
  BY <1>2, <1>3, <1>4, <1>5, <1>6, <1>7, <1>8, <1>9, <1>10, <1>11, <1>12 DEF Next, LoopStep

\* For every set of commands and every attempt of the form AttemptsAssumption,
\* whatever the receiver answers and when, wherever the reads end and whichever
\* of them fails: the loop sends in order and one at a time, takes a command for
\* accepted or refused only on what the receiver said about that command, sends
\* nothing after an unknown fate, and reports the fates
\* (config_apply.cpp:1578-1611).
THEOREM LoopRefines == Spec => ImplementsAttempt
<1>1. Init => AppInv /\ LoopInv /\ Attempt!AttemptInit
  <2> SUFFICES ASSUME Init PROVE AppInv /\ LoopInv /\ Attempt!AttemptInit
    OBVIOUS
  <2>1. AppInit
    BY DEF Init
  <2> QED
    BY <2>1, InitAppInv, InitLoopInv
<1>2. AppInv /\ LoopInv /\ [Next]_vars =>
        AppInv' /\ LoopInv' /\ [Attempt!AttemptNext]_(Attempt!attemptVars)
  <2> SUFFICES ASSUME AppInv, LoopInv, [Next]_vars
               PROVE  AppInv' /\ LoopInv' /\ [Attempt!AttemptNext]_(Attempt!attemptVars)
    OBVIOUS
  <2>1. AppInv'
    BY StepOfApplication, NextAppInv
  <2>2. LoopInv' /\ AttemptStep
    BY NextLoopInv
  <2> QED
    BY <2>1, <2>2 DEF AttemptStep
<1> QED
  BY <1>1, <1>2, PTL DEF Spec, ImplementsAttempt, Attempt!AttemptSpec
================================================================================
