---------------------- MODULE ReceiverConfigApplication ----------------------
(***************************************************************************)
(* gnss_driver/src/receiver_config_application.cpp: a list of prepared     *)
(* commands sent one at a time through a CommandTransactionEngine.         *)
(*                                                                         *)
(* The engine's variables are the application's engine_; the operations of *)
(* the application that an engine has too are named App....  Start resets  *)
(* the engine and then takes the first Step: two calls on the engine, so   *)
(* two steps here, between which nothing else is enabled (`starting').     *)
(***************************************************************************)
EXTENDS CommandTransactionEngine, Sequences

CONSTANTS
  Plans,            \* the command lists a caller may start
  ContinueOnError   \* config_.continue_on_error

ASSUME ListsAssumption == Plans \subseteq Seq(Commands) /\ ContinueOnError \in BOOLEAN

VARIABLES
  state,     \* state_
  commands,  \* commands_
  index,     \* current_index_, from 0
  tally,     \* metrics_
  starting,  \* inside Start, after ResetRunState
  orphaned   \* history: Reset has discarded a command in flight

applicationVars == <<state, commands, index, tally, starting, orphaned>>
appVars == <<engineVars, applicationVars>>

States == {"idle", "running", "waiting", "completed", "failed"}
Tallies == {"started", "completed", "required", "optional", "applied", "timeouts"}
NoTally == [t \in Tallies |-> 0]

\* commands_failed is the sum of its required and optional parts.
Failed == tally["required"] + tally["optional"]

AppTypeOK ==
  /\ EngineTypeOK
  /\ state \in States
  /\ commands \in Plans \cup {<< >>}
  /\ index \in 0 .. Len(commands)
  /\ tally \in [Tallies -> Nat]
  /\ starting \in BOOLEAN
  /\ orphaned \in BOOLEAN

AppInit ==
  /\ EngineInit
  /\ state = "idle"
  /\ commands = << >>
  /\ index = 0
  /\ tally = NoTally
  /\ starting = FALSE
  /\ orphaned = FALSE

HasCurrent == index < Len(commands)
CurrentCommand == commands[index + 1]

\* IsRequiredCommand; a missing command counts as required.
CurrentRequired == ~HasCurrent \/ CurrentCommand.required

Counted(counters) == [t \in Tallies |-> tally[t] + (IF t \in counters THEN 1 ELSE 0)]

\* The state after the current command: the next one, or the end.
Advance ==
  /\ index' = index + 1
  /\ state' = IF index + 1 < Len(commands) THEN "running" ELSE "completed"

\* Mutant: a list that stops is past the command it stopped at.
StopAfter == state' = "failed" /\ index' = index + 1

Stop == state' = "failed" /\ UNCHANGED index

\* CompleteCurrentCommand after the engine's step, success and failure; the
\* engine may have been quarantined by that step.
Succeeds(counters) ==
  /\ tally' = Counted(counters \cup {"completed"})
  /\ IF indeterminate' THEN Stop ELSE Advance

Fails(counters, mayContinue) ==
  /\ tally' = Counted(counters \cup {IF CurrentRequired THEN "required" ELSE "optional"})
  /\ IF ~indeterminate' /\ mayContinue /\ (ContinueOnError \/ ~CurrentRequired)
     THEN Advance
     ELSE Stop

-----------------------------------------------------------------------------
(* Start and Step                                                          *)

\* Start, up to ResetRunState; of an active application it is refused.
StartBegins(plan) ==
  /\ ~starting
  /\ state \notin {"running", "waiting"}
  /\ Reset
  /\ index' = 0
  /\ tally' = NoTally
  /\ commands' = plan
  /\ state' = IF plan = << >> THEN "completed" ELSE "running"
  /\ starting' = (plan # << >>)
  /\ UNCHANGED orphaned

\* Step in the state running: the current command is given to the engine.
SendCurrent(outcome) ==
  /\ state = "running"
  /\ HasCurrent
  /\ StartTransaction(CurrentCommand, outcome)
  /\ UNCHANGED <<commands, orphaned>>
  /\ CASE status' = "acknowledged" -> Succeeds({"started"})
       [] status' = "dispatched" ->
            /\ state' = "waiting"
            /\ tally' = Counted({"started"})
            /\ UNCHANGED index
       [] OTHER -> Fails({"started"}, TRUE)

\* The Step that Start ends with.
StartSteps(outcome) == starting /\ starting' = FALSE /\ SendCurrent(outcome)

\* In every other state Step changes nothing.
Step(outcome) == ~starting /\ UNCHANGED starting /\ SendCurrent(outcome)

-----------------------------------------------------------------------------
(* ApplyResponse, MarkTimeout, CheckTimeout, Reset                         *)

AppApplyResponse(kind, target) ==
  /\ ~starting
  /\ ApplyResponse(kind, target)
  /\ UNCHANGED <<commands, starting, orphaned>>
  /\ CASE status' = "acknowledged" -> Succeeds({"applied"})
       [] status' = "rejected" -> Fails({"applied"}, TRUE)
       [] OTHER -> UNCHANGED <<state, index, tally>>

\* HandleTimeoutResult: a time-out fails the application, whatever the
\* command's policy.
HandleTimeoutResult ==
  /\ UNCHANGED <<commands, starting, orphaned>>
  /\ IF status' = "timedOut"
     THEN Fails({"timeouts"}, FALSE)
     ELSE UNCHANGED <<state, index, tally>>

AppMarkTimeout == ~starting /\ MarkTimeout /\ HandleTimeoutResult
AppCheckTimeout(due) == ~starting /\ CheckTimeout(due) /\ HandleTimeoutResult

\* ResetRunState.
AppReset ==
  /\ ~starting
  /\ Reset
  /\ state' = "idle"
  /\ commands' = << >>
  /\ index' = 0
  /\ tally' = NoTally
  /\ orphaned' = (orphaned \/ (AwaitsAnswer /\ ~indeterminate))
  /\ UNCHANGED starting

-----------------------------------------------------------------------------
AppStarts == \E plan \in Plans : StartBegins(plan)
AppSends ==
  \E outcome \in Outcomes(CurrentCommand) : StartSteps(outcome) \/ Step(outcome)
AppAnswered ==
  \E kind \in AnswerKinds, target \in Targets \cup {NoTarget} :
    AppApplyResponse(kind, target)
AppChecks == \E due \in BOOLEAN : AppCheckTimeout(due)

AppNext ==
  \/ AppStarts
  \/ HasCurrent /\ AppSends
  \/ AppAnswered
  \/ AppMarkTimeout
  \/ AppChecks
  \/ AppReset

AppSpec == AppInit /\ [][AppNext]_appVars

-----------------------------------------------------------------------------
(* Properties                                                              *)

\* Only commands of the present list are in play.  After Reset during a wait
\* the engine is quarantined and still holds a command of the old list;
\* MarkTimeout then counts a failure of that command against whatever list
\* the application holds by now, even none.
Started == commands # << >> /\ ~starting /\ ~orphaned

\* The application and its engine agree on what is being waited for: an
\* application that waits has its own current command in flight, and one that
\* goes on or has completed has nothing in flight and a usable session.  Two
\* objects keep this state, and every call changes both.
AgreesWithEngine ==
  /\ state = "waiting" =>
       ~indeterminate /\ AwaitsAnswer /\ current.command = CurrentCommand
  /\ Started /\ state \in {"running", "completed"} =>
       ~indeterminate /\ unanswered = 0 /\ ~Occupied

\* The counters of a run tell every command's fate, in the order of the list:
\* those before the current one are finished, and none is skipped or counted
\* twice.
CommandsAccounted ==
  Started =>
    /\ tally["started"] =
         tally["completed"] + Failed + (IF state = "waiting" THEN 1 ELSE 0)
    /\ index = tally["completed"] + Failed - (IF state = "failed" THEN 1 ELSE 0)
    /\ tally["applied"] <= tally["started"]

\* The application and its engine agree on what is being waited for, and its
\* counters tell every command's fate in the order of the list
\* (receiver_config_application.cpp:83, :224).
AgreesAndAccounts == AppTypeOK /\ AgreesWithEngine /\ CommandsAccounted
==============================================================================
