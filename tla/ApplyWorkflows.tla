--------------------------- MODULE ApplyWorkflows ---------------------------
(***************************************************************************)
(* gnss_tools/src/config_apply.cpp: ExecuteConfigApply and the workflows   *)
(* it chooses from: the plain application, the SIGNALGROUP workflow, the   *)
(* runtime baud switch and the recovery after a factory reset.  Each is a  *)
(* script of stages (command phases, reopenings of the port, VERSIONA and  *)
(* CONFIG queries) that is left at the first stage that fails.             *)
(*                                                                         *)
(* A command phase is as ConfigurationAttempt describes it and ConfigApply *)
(* implements it: commands in order, one at a time, each with one fate.    *)
(*                                                                         *)
(* The receiver is external.  It hears what is sent at its own baud while  *)
(* it is up, in order; it may ignore COM1 and FRESET, which it does not    *)
(* answer; SIGNALGROUP may restart it, which may lose what is not saved.   *)
(* A restart begins before the receiver answers anything more.             *)
(***************************************************************************)
EXTENDS Naturals, SequencesExt

CONSTANTS
  Bauds, FactoryBaud, NoBaud, Groups, FactoryGroups, NoGroups, Commands,
  Attempts,      \* plans with the circumstances of their application
  ProbeAttempts  \* kUnicoreRuntimeBaudSwitchMaxAttempts

Kinds == {"setting", "com1", "signalgroup", "freset", "save"}

ASSUME WorkflowAssumption ==
  /\ FactoryBaud \in Bauds /\ NoBaud \notin Bauds
  /\ FactoryGroups \in Groups /\ NoGroups \notin Groups
  /\ ProbeAttempts \in Nat \ {0}
  /\ \A c \in Commands :
       /\ c.kind \in Kinds /\ c.required \in BOOLEAN
       /\ c.kind = "com1" => c.value \in Bauds
       /\ c.kind = "signalgroup" => c.value \in Groups
  /\ \A a \in Attempts :
       /\ a.vendor \in {"ublox", "unicore"}
       /\ a.commands \in Seq(Commands) \ {<< >>}
       /\ a.baud \in Bauds
       /\ {a.verified, a.confirmed, a.hooks} \subseteq BOOLEAN

\* The planner's form of a plan for a Unicore receiver, which the run of
\* AutoConfig checks of it (PlansFitWorkflows): a reset comes first, the baud
\* first or right after the reset, at most one SIGNALGROUP, SAVECONFIG last.
ASSUME PlanAssumption ==
  \A a \in Attempts : a.vendor = "unicore" =>
    \A i \in 1 .. Len(a.commands) :
      LET kind == a.commands[i].kind IN
      /\ kind = "freset" => i = 1
      /\ kind = "com1" => i = 1 \/ (i = 2 /\ a.commands[1].kind = "freset")
      /\ kind = "signalgroup" =>
           \A j \in 1 .. Len(a.commands) : a.commands[j].kind = "signalgroup" => j = i
      /\ kind = "save" => i = Len(a.commands)

VARIABLES
  attempt,  \* the plan, the port's baud, whether VERSIONA confirmed it, --confirm, hooks
  pc,       \* "prepare", "running" or "done"
  script,   \* the stages still to go through
  queried,  \* the groups of the last CONFIG query, or NoGroups
  link,     \* the baud the port is open at
  tally,    \* commands completed, and optional ones failed
  report,   \* ConfigApplyResult
  rx,       \* the receiver
  fates,    \* history: what became of each command
  writes    \* history: how often bytes of each command were written

vars == <<attempt, pc, script, queried, link, tally, report, rx, fates, writes>>

plan == attempt.commands
Everyone == DOMAIN plan

Stage(do, baud) == [do |-> do, baud |-> baud, commands |-> << >>, left |-> ProbeAttempts]

StageNames ==
  {"phase", "reopen", "wait", "scan", "probe", "query", "decide", "check", "finish"}

Statuses ==
  {"none", "ok", "partialSuccess", "transportUnavailable", "safetyRejected", "buildError",
   "rejected", "dispatchFailed", "timedOut", "readFailed"}

WorkflowTypeOK ==
  /\ attempt \in Attempts
  /\ pc \in {"prepare", "running", "done"}
  /\ \A k \in DOMAIN script :
       /\ script[k].do \in StageNames
       /\ script[k].commands \in Seq(Everyone)
       /\ script[k].left \in 1 .. ProbeAttempts
  /\ queried \in Groups \cup {NoGroups}
  /\ link \in Bauds
  /\ tally.completed + tally.optional \in 0 .. Len(plan)
  /\ report.status \in Statuses
  /\ report.verified \in Bauds \cup {NoBaud}
  /\ rx.baud \in Bauds /\ rx.groups \in Groups /\ rx.settings \subseteq Everyone

\* The receiver listens at the verified baud if one was verified.
Init ==
  /\ attempt \in Attempts
  /\ pc = "prepare"
  /\ script = << >>
  /\ queried = NoGroups
  /\ link = attempt.baud
  /\ tally = [completed |-> 0, optional |-> 0]
  /\ report = [status |-> "none", indeterminate |-> FALSE,
               verified |-> NoBaud, baud |-> attempt.baud]
  /\ \E live \in IF attempt.verified THEN {attempt.baud} ELSE Bauds,
        kept \in Bauds, groups \in Groups :
       rx = [up |-> TRUE, baud |-> live, groups |-> groups, settings |-> {},
             saved |-> [baud |-> kept, settings |-> {}]]
  /\ fates = [c \in Everyone |-> "unsent"]
  /\ writes = [c \in Everyone |-> 0]

-----------------------------------------------------------------------------
(* The receiver                                                            *)

Hears(baud) == rx.up /\ rx.baud = baud

\* The states in which a receiver may be once it has acted on command c.
Obeyed(c) ==
  CASE plan[c].kind = "com1" -> {[rx EXCEPT !.baud = plan[c].value]}
    [] plan[c].kind = "freset" ->
         {[up |-> FALSE, baud |-> FactoryBaud, groups |-> FactoryGroups, settings |-> {},
           saved |-> [baud |-> FactoryBaud, settings |-> {}]]}
    [] plan[c].kind = "signalgroup" ->
         {[rx EXCEPT !.groups = groups] : groups \in {plan[c].value, rx.groups}} \cup
         {[rx EXCEPT !.groups = groups, !.up = FALSE, !.baud = baud, !.settings = settings] :
            groups \in {plan[c].value, rx.groups}, baud \in {rx.baud, rx.saved.baud},
            settings \in {rx.settings, rx.saved.settings}}
    [] plan[c].kind = "save" ->
         {[rx EXCEPT !.saved = [baud |-> rx.baud, settings |-> rx.settings]]}
    [] OTHER -> {[rx EXCEPT !.settings = @ \cup {c}]}

Restarts ==
  /\ ~rx.up
  /\ rx' = [rx EXCEPT !.up = TRUE]
  /\ UNCHANGED <<attempt, pc, script, queried, link, tally, report, fates, writes>>

-----------------------------------------------------------------------------
(* Scripts                                                                 *)

\* FindFirst...CommandIndex: the first command of this kind, 0 if none.
FirstFrom(kind, begin) ==
  LET Is(c) == c.kind = kind IN SelectInSubSeq(plan, begin, Len(plan), Is)

\* SlicePlanCommands
Slice(first, last) == [k \in 1 .. (IF last < first THEN 0 ELSE last + 1 - first) |-> first + k - 1]

Phase(first, last) == [Stage("phase", NoBaud) EXCEPT !.commands = Slice(first, last)]

\* ExecuteUnicoreSignalGroupAwarePhase up to its choice, or a plain phase.
ProfileStages(first, baud) ==
  IF FirstFrom("signalgroup", first) = 0
  THEN <<Phase(first, Len(plan))>>
  ELSE <<Stage("query", baud), Stage("reopen", baud),
         [Stage("decide", baud) EXCEPT !.commands = Slice(first, Len(plan))]>>

\* ExecuteUnicoreRecoveryWorkflow
RecoveryStages(reset, com1, baud) ==
  <<Stage("scan", NoBaud), Phase(1, reset),
    Stage("reopen", FactoryBaud), Stage("wait", FactoryBaud), Stage("reopen", FactoryBaud),
    Phase(reset + 1, com1),
    Stage("reopen", baud), Stage("wait", baud), Stage("reopen", baud)>>
  \o ProfileStages(com1 + 1, baud) \o <<Stage("finish", baud)>>

\* ExecuteUnicoreRuntimeBaudSwitchWorkflow
SwitchStages(com1, baud) ==
  <<Phase(1, com1), Stage("probe", baud), Stage("reopen", baud)>>
  \o ProfileStages(com1 + 1, baud) \o <<Stage("finish", baud)>>

\* The SIGNALGROUP workflow, and the generic loop.
PlainStages ==
  (IF attempt.vendor = "unicore" THEN ProfileStages(1, attempt.baud) ELSE <<Phase(1, Len(plan))>>)
  \o <<Stage("finish", attempt.baud)>>

-----------------------------------------------------------------------------
(* The end of a workflow                                                   *)

\* Mutant: the wrapper of a phase does not carry its flag on.
EndsForgetting(status, doubt) ==
  /\ pc' = "done"
  /\ script' = << >>
  /\ report' = [report EXCEPT !.status = status]

Ends(status, doubt) ==
  /\ pc' = "done"
  /\ script' = << >>
  /\ report' = [report EXCEPT !.status = status, !.indeterminate = @ \/ doubt]

GoesOn == script' = Tail(script) /\ UNCHANGED <<pc, report>>

\* SuccessfulCompletionStatus; required failures never get this far.
CompletionStatus == IF tally.optional > 0 THEN "partialSuccess" ELSE "ok"

\* A Unicore baud stands as verified; u-blox is asked (UBX-MON-VER) at the end.
Finishes ==
  /\ pc = "running" /\ Head(script).do = "finish"
  /\ pc' = "done"
  /\ script' = << >>
  /\ \E verified \in
       IF attempt.vendor = "unicore" THEN {Head(script).baud}
       ELSE {NoBaud} \cup (IF Hears(link) THEN {Head(script).baud} ELSE {}) :
       report' = [status |-> CompletionStatus, indeterminate |-> FALSE,
                  verified |-> verified, baud |-> Head(script).baud]
  /\ UNCHANGED <<attempt, queried, link, tally, rx, fates, writes>>

-----------------------------------------------------------------------------
(* Preparation: PrepareConfigApply, and the choice of ExecuteConfigApply   *)

Begins(stages) ==
  IF attempt.hooks
  THEN pc' = "running" /\ script' = stages /\ UNCHANGED report
  ELSE Ends("transportUnavailable", FALSE)

Prepares ==
  /\ pc = "prepare"
  /\ LET reset == FirstFrom("freset", 1)
         com1 == FirstFrom("com1", reset + 1)
         unicore == attempt.vendor = "unicore" IN
     IF unicore /\ ~attempt.verified THEN Ends("transportUnavailable", FALSE)
     ELSE IF ~attempt.confirmed \/ (~unicore /\ reset > 0) THEN Ends("safetyRejected", FALSE)
     ELSE IF reset > 0
     THEN IF com1 > 0
          THEN Begins(RecoveryStages(reset, com1, plan[com1].value))
          ELSE Ends(IF attempt.hooks THEN "buildError" ELSE "transportUnavailable", FALSE)
     ELSE IF unicore /\ com1 > 0 /\ plan[com1].value # attempt.baud
     THEN Begins(SwitchStages(com1, plan[com1].value))
     ELSE IF unicore /\ FirstFrom("signalgroup", 1) > 0 THEN Begins(PlainStages)
     ELSE pc' = "running" /\ script' = PlainStages /\ UNCHANGED report
  /\ UNCHANGED <<attempt, queried, link, tally, rx, fates, writes>>

-----------------------------------------------------------------------------
(* Command phases                                                          *)

At(do) == pc = "running" /\ Head(script).do = do

CommandPassed(outcome) ==
  /\ tally' = [tally EXCEPT ![outcome] = @ + 1]
  /\ script' = <<[Head(script) EXCEPT !.commands = Tail(@)]>> \o Tail(script)
  /\ UNCHANGED <<pc, report>>

OptionalOr(status, c) ==
  IF plan[c].required
  THEN Ends(status, FALSE) /\ UNCHANGED tally
  ELSE CommandPassed("optional")

Answered(c) == plan[c].kind \notin {"com1", "freset"}

CountWrite(c) == writes' = [writes EXCEPT ![c] = @ + 1]

\* Not a byte was written.
NotSent(c) ==
  /\ fates' = [fates EXCEPT ![c] = "notSent"]
  /\ OptionalOr("dispatchFailed", c)
  /\ UNCHANGED <<rx, writes>>

\* COM1 and FRESET are done once written; others once the receiver says OK.
Accepted(c) ==
  /\ fates' = [fates EXCEPT ![c] = "accepted"]
  /\ CountWrite(c)
  /\ IF Answered(c)
     THEN Hears(link) /\ rx' \in Obeyed(c)
     ELSE rx' \in {rx} \cup (IF Hears(link) THEN Obeyed(c) ELSE {})
  /\ CommandPassed("completed")

Refused(c) ==
  /\ Answered(c) /\ Hears(link)
  /\ fates' = [fates EXCEPT ![c] = "refused"]
  /\ CountWrite(c)
  /\ OptionalOr("rejected", c)
  /\ UNCHANGED rx

\* Written in part, no answer in time, or the port failed while waiting.
Doubtful(c) ==
  /\ fates' = [fates EXCEPT ![c] = "unknown"]
  /\ CountWrite(c)
  /\ rx' \in {rx} \cup (IF Hears(link) THEN Obeyed(c) ELSE {})
  /\ \E status \in IF Answered(c) THEN {"dispatchFailed", "timedOut", "readFailed"}
                   ELSE {"dispatchFailed"} :
       Ends(status, TRUE)
  /\ UNCHANGED tally

\* ExecuteUnicoreCommandPhase, and the generic loop of ExecuteConfigApply.
SendsCommand ==
  /\ At("phase") /\ Head(script).commands # << >>
  /\ LET c == Head(Head(script).commands) IN
     NotSent(c) \/ Accepted(c) \/ Refused(c) \/ Doubtful(c)
  /\ UNCHANGED <<attempt, queried, link>>

PhaseEnds ==
  /\ At("phase") /\ Head(script).commands = << >>
  /\ GoesOn
  /\ UNCHANGED <<attempt, queried, link, tally, rx, fates, writes>>

-----------------------------------------------------------------------------
(* The port and the queries                                                *)

\* ReopenTransportUntilReady, and the single reopening after a baud switch.
Reopens ==
  /\ At("reopen")
  /\ \/ link' = Head(script).baud /\ GoesOn
     \/ UNCHANGED link /\ Ends("transportUnavailable", FALSE)
  /\ UNCHANGED <<attempt, queried, tally, rx, fates, writes>>

\* WaitForUnicoreActiveResponse
Waits ==
  /\ At("wait")
  /\ \/ Hears(link) /\ GoesOn
     \/ Ends("transportUnavailable", FALSE)
  /\ UNCHANGED <<attempt, queried, link, tally, rx, fates, writes>>

\* ScanUnicoreFactoryResetActiveBaud: every baud is tried before FRESET.
Scans ==
  /\ At("scan")
  /\ \/ \E baud \in Bauds :
          /\ Hears(baud)
          /\ link' = baud
          /\ script' = Tail(script)
          /\ report' = [report EXCEPT !.baud = baud]
          /\ UNCHANGED pc
     \/ UNCHANGED link /\ Ends("transportUnavailable", FALSE)
  /\ UNCHANGED <<attempt, queried, tally, rx, fates, writes>>

\* Mutant: the attempts are not counted.
ProbesForEver ==
  /\ At("probe")
  /\ link' = Head(script).baud
  /\ \/ Hears(Head(script).baud) /\ GoesOn
     \/ UNCHANGED <<script, pc, report>>
  /\ UNCHANGED <<attempt, queried, tally, rx, fates, writes>>

\* One attempt of the baud switch: VERSIONA at the old baud, which only picks
\* the wording of an error, then at the target, which decides.
Probes ==
  /\ At("probe")
  /\ link' = Head(script).baud
  /\ \/ Hears(Head(script).baud) /\ GoesOn
     \/ IF Head(script).left > 1
        THEN /\ script' = [script EXCEPT ![1].left = @ - 1]
             /\ UNCHANGED <<pc, report>>
        ELSE Ends("transportUnavailable", FALSE)
  /\ UNCHANGED <<attempt, queried, tally, rx, fates, writes>>

\* QueryUnicoreSignalGroup before the profile: not to know is tolerated.
Queries ==
  /\ At("query")
  /\ queried' \in {NoGroups} \cup (IF Hears(link) THEN {rx.groups} ELSE {})
  /\ GoesOn
  /\ UNCHANGED <<attempt, link, tally, rx, fates, writes>>

\* The commands before and after SIGNALGROUP, each side in its own phase.
AroundSignalGroup(first, group, baud) ==
  <<Phase(first, group - 1)>>
  \o (IF group < Len(plan) THEN <<Stage("reopen", baud)>> ELSE << >>)
  \o <<Phase(group + 1, Len(plan))>>

\* Mutant: the plan's own order, SIGNALGROUP after what stands before it.
InPlanOrder(first, group, baud) ==
  <<Phase(first, group),
    Stage("reopen", baud), Stage("wait", baud), Stage("reopen", baud),
    [Stage("check", baud) EXCEPT !.commands = <<group>>], Stage("reopen", baud),
    Phase(group + 1, Len(plan))>>

\* Mutant: the commands after SIGNALGROUP begin with it.
SignalGroupTwice(first, group, baud) ==
  <<Phase(group, group),
    Stage("reopen", baud), Stage("wait", baud), Stage("reopen", baud),
    [Stage("check", baud) EXCEPT !.commands = <<group>>], Stage("reopen", baud),
    Phase(first, group - 1), Stage("reopen", baud), Phase(group, Len(plan))>>

\* SIGNALGROUP may restart the receiver: it is sent alone and first, then the
\* receiver is waited for and asked.
SignalGroupFirst(first, group, baud) ==
  <<Phase(group, group),
    Stage("reopen", baud), Stage("wait", baud), Stage("reopen", baud),
    [Stage("check", baud) EXCEPT !.commands = <<group>>], Stage("reopen", baud)>>
  \o AroundSignalGroup(first, group, baud)

Skips(first, group) == tally' = [tally EXCEPT !.completed = @ + 1]

\* SIGNALGROUP is skipped if the receiver has reported those groups already.
Decides ==
  /\ At("decide")
  /\ LET first == Head(Head(script).commands)
         baud == Head(script).baud
         group == FirstFrom("signalgroup", first) IN
     IF queried = plan[group].value
     THEN /\ script' = AroundSignalGroup(first, group, baud) \o Tail(script)
          /\ fates' = [fates EXCEPT ![group] = "skipped"]
          /\ Skips(first, group)
     ELSE /\ script' = SignalGroupFirst(first, group, baud) \o Tail(script)
          /\ UNCHANGED <<fates, tally>>
  /\ UNCHANGED <<attempt, pc, queried, link, report, rx, writes>>

\* The verification query: the receiver has to report the planned groups,
\* unless the command was optional and failed.
Checks ==
  /\ At("check")
  /\ LET group == Head(Head(script).commands) IN
     \/ /\ Hears(link)
        /\ queried' = rx.groups
        /\ IF queried' = plan[group].value \/ fates[group] # "accepted"
           THEN GoesOn
           ELSE Ends("rejected", FALSE)
     \/ /\ queried' = NoGroups
        /\ \E status \in {"transportUnavailable", "rejected"} : Ends(status, FALSE)
  /\ UNCHANGED <<attempt, link, tally, rx, fates, writes>>

WorkflowStep ==
  \/ Prepares \/ SendsCommand \/ PhaseEnds \/ Finishes
  \/ Reopens \/ Waits \/ Scans \/ Probes
  \/ Queries \/ Decides \/ Checks

Next == WorkflowStep \/ Restarts

Spec == Init /\ [][Next]_vars

\* The tool runs to its end: every wait in it has a deadline.
FairSpec == Spec /\ WF_vars(WorkflowStep)

-----------------------------------------------------------------------------
(* Properties                                                              *)

Unicore == attempt.vendor = "unicore"

Writes(c) == writes'[c] > writes[c]

\* A configuration command is only ever written to a Unicore receiver that is
\* up and listens at the baud the port is open at: not before VERSIONA or
\* discovery found it there, not while it restarts, and not at a baud COM1 was
\* meant to set but did not (config_apply.cpp:2393-2402, 2439-2451, 2672-2713).
CommandsAreHeard == Unicore => \A c \in Everyone : Writes(c) => Hears(link)

Kept(c, receiver) ==
  CASE plan[c].kind = "setting" -> c \in receiver.settings
    [] plan[c].kind = "com1" -> receiver.baud = plan[c].value
    [] plan[c].kind = "signalgroup" -> receiver.groups = plan[c].value
    [] OTHER -> TRUE

\* SAVECONFIG is sent only to a receiver in which everything required is in
\* force, the planned baud and groups included: nothing a restart undid and
\* no baud that is not live is made permanent (docs/tools.md:786-787).
SavesWholeProfile ==
  \A c \in Everyone :
    Unicore /\ plan[c].kind = "save" /\ Writes(c) =>
      \A d \in Everyone : plan[d].required => Kept(d, rx)

\* Nothing is written too early: no command to a receiver that is not there to
\* hear it, and no SAVECONFIG before all that it is to save.
WritesInPlace == [][CommandsAreHeard /\ SavesWholeProfile]_vars

Succeeded == pc = "done" /\ report.status \in {"ok", "partialSuccess"}

\* What a successful report says is so: what was accepted is still in force
\* when the workflow ends, the verified baud is the receiver's, and the status
\* tells whether anything optional was left out.
SuccessIsTrue ==
  Succeeded =>
    /\ Unicore => report.verified = rx.baud /\ report.baud = rx.baud
    /\ Unicore => \A c \in Everyone : fates[c] \in {"accepted", "skipped"} => Kept(c, rx)
    /\ report.status = "ok" <=> \A c \in Everyone : fates[c] \in {"accepted", "skipped"}

\* However a plan is cut into phases, no command is written twice, and success
\* means that each was dealt with and counted (config_apply.cpp:2034-2038).
EveryCommandOnce ==
  /\ WorkflowTypeOK
  /\ \A c \in Everyone : writes[c] <= 1
  /\ Succeeded => /\ \A c \in Everyone : fates[c] # "unsent"
                  /\ tally.completed + tally.optional = Len(plan)

\* Once a command may have been applied without an answer, the attempt is over
\* and says so, whichever workflow encloses the phase
\* (docs/auto_configuration.md:488-496).
DoubtStopsEverything ==
  (\E c \in Everyone : fates[c] = "unknown") <=> report.indeterminate

\* The report of an attempt is true, of its success and of its doubt.
ReportIsTrue == SuccessIsTrue /\ DoubtStopsEverything
=============================================================================
