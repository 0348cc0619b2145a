-------------------------- MODULE MCApplyWorkflows --------------------------
(* What gnss_config_apply does: the workflows that a plan goes through.     *)
(* Plans as the planner makes them: FRESET and COM1 first, SAVECONFIG last, *)
(* outputs optional, SIGNALGROUP optional when the operator names it.       *)
EXTENDS ApplyWorkflows

CONSTANTS
  b115200, b460800, b921600, factoryGroups, roverGroups

Setting(required) == [kind |-> "setting", required |-> required, value |-> NoBaud]
Com1(baud) == [kind |-> "com1", required |-> TRUE, value |-> baud]
SignalGroup(required) == [kind |-> "signalgroup", required |-> required, value |-> roverGroups]
Freset == [kind |-> "freset", required |-> TRUE, value |-> NoBaud]
Save == [kind |-> "save", required |-> TRUE, value |-> NoBaud]

Mode == Setting(TRUE)
Output == Setting(FALSE)

Try(vendor, list, baud) ==
  [vendor |-> vendor, commands |-> list, baud |-> baud,
   verified |-> TRUE, confirmed |-> TRUE, hooks |-> TRUE]

Full ==
  {Try("unicore", <<Com1(b460800), Mode, Output>>, b460800),
   Try("unicore", <<Mode, SignalGroup(TRUE), Output, Save>>, b460800),
   Try("unicore", <<Mode, SignalGroup(FALSE)>>, b460800),
   Try("unicore", <<Com1(b921600), Mode, SignalGroup(FALSE), Output, Save>>, b460800),
   Try("unicore", <<Com1(b921600), Mode, Save>>, b460800),
   Try("unicore", <<Freset, Com1(b921600), Mode, SignalGroup(TRUE), Save>>, b460800),
   Try("unicore", <<Freset, Com1(b921600), Output>>, b115200),
   Try("unicore", <<Freset, Mode>>, b460800),
   Try("ublox", <<Mode, Output>>, b460800)}

MCBauds == {b115200, b460800, b921600}
MCGroups == {factoryGroups, roverGroups}
MCCommands ==
  {Setting(r) : r \in BOOLEAN} \cup {SignalGroup(r) : r \in BOOLEAN} \cup
  {Com1(b) : b \in MCBauds} \cup {Freset, Save}
MCAttempts ==
  Full \cup {[a EXCEPT !.verified = FALSE] : a \in Full}
       \cup {[a EXCEPT !.confirmed = FALSE] : a \in Full}
       \cup {[a EXCEPT !.hooks = FALSE] : a \in Full}

ApplySpec == Spec /\ WF_vars(WorkflowStep)

\* Every workflow comes to an end, though probing and scanning may find
\* nothing (config_apply.cpp:2641).
EveryWorkflowEnds == <>(pc = "done")
=============================================================================
