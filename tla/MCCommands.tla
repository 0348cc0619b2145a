----------------------------- MODULE MCCommands -----------------------------
(* The engine in the hands of a caller, and in those of an application;    *)
(* the loop that drives an application over a transport; and, before there *)
(* are commands, discovery and the planner.  A behaviour is about one of   *)
(* the four.                                                               *)
(* Commands: binary ones of two identities, one with a retry budget and    *)
(* two optional; two text commands, one optional; one without an answer;   *)
(* one the dispatcher rejects.                                             *)
(* The loop: commands of one identity need the fence; late echoes only     *)
(* where the identities differ, as no fence helps against an echo of the   *)
(* same identity that starts after the dispatch.                           *)
EXTENDS ConfigApply, AutoConfig

CONSTANTS valset, reset

VARIABLE driver

commandsVars == <<vars, autoVars, driver>>

Command(answered, target, dispatchable, required, retries) ==
  [answered |-> answered, target |-> target, dispatchable |-> dispatchable,
   required |-> required, retries |-> retries]

Required == Command(TRUE, valset, TRUE, TRUE, 1)
Optional == Command(TRUE, reset, TRUE, FALSE, 0)
Text == Command(TRUE, NoTarget, TRUE, TRUE, 1)
Silent == Command(FALSE, NoTarget, TRUE, TRUE, 0)
Unapproved == Command(TRUE, valset, FALSE, FALSE, 1)

MCTargets == {valset, reset}
OptionalSet == Command(TRUE, valset, TRUE, FALSE, 0)
OptionalText == Command(TRUE, NoTarget, TRUE, FALSE, 0)
MCCommands == {Required, Optional, Text, Silent, Unapproved, OptionalSet, OptionalText}

Try(family, list, late) == [family |-> family, commands |-> list, lateEchoes |-> late]
MCAttempts ==
  {Try("ublox", <<OptionalSet, Required, Required>>, FALSE),
   Try("ublox", <<Required, Optional>>, TRUE),
   Try("ublox", <<Required, Unapproved>>, FALSE),
   Try("unicore", <<Text, OptionalText, Text>>, FALSE),
   Try("unicore", <<Silent>>, FALSE)}

MCPlans ==
  {<< >>, <<Silent>>, <<Required, Optional>>, <<Optional, Text>>,
   <<Unapproved, Optional>>, <<Optional, Optional, Required>>}
  \cup {a.commands : a \in MCAttempts}

\* Two devices, each behind two names; what each may be.
Port(source, path, device, looks) ==
  [source |-> source, path |-> path, device |-> device, looks |-> looks]
MCNames ==
  {Port("serial_by_id", 9, 1, "other"), Port("tty_acm", 1, 1, "usb"),
   Port("tty_usb", 2, 2, "uart"), Port("platform_uart", 3, 2, "uart")}

Device(speaks, items, model) == [bauds |-> speaks, items |-> items, model |-> model]
MCBaudLists == {<<1, 2>>, <<1>>, <<2>>}
MCBehaviours ==
  {Device({2}, {}, "UM982"), Device({1}, {"ascii", "gga"}, "UM980"),
   Device({2}, {"n4", "nmea", "rtcm"}, "UM982"), Device({1, 2}, {"ubx", "nmea"}, NoModel),
   Device({1}, {"gga"}, NoModel), Device({2}, {"rtcm"}, NoModel),
   Device({1}, {"heartbeat", "ubx", "ascii"}, "UM982"),
   Device({1}, {"text"}, NoModel), Device({1}, {}, NoModel)}

\* Every profile and mode, for every family and two models; and for some of
\* them an option at its limits.
Plain ==
  [family |-> "unknown", model |-> "UM982", profile |-> "rover", mode |-> "persistent",
   signal |-> Absent, group |-> Absent, dynamic |-> Absent, rtk |-> Absent, dgps |-> Absent,
   port |-> Absent, baud |-> Absent, rate |-> Absent, given |-> Absent, looks |-> "other",
   confirm |-> TRUE]
Written ==
  {[Plain EXCEPT !.mode = m, !.profile = p] :
     m \in {"runtime", "persistent"}, p \in {"rover", "factory_reset"}}
MCRequests ==
  {[Plain EXCEPT !.profile = p, !.mode = m, !.model = k, !.family = f, !.baud = b] :
     p \in {"runtime_only", "rover", "debug", "factory_reset"},
     m \in {"dry", "runtime", "persistent"}, k \in {Absent, "UM980", "UM982"},
     f \in {"unknown", "ublox", "unicore"}, b \in {Absent, 1}}
  \cup {[r EXCEPT !.group = <<4, 5>>] : r \in Written}
  \cup {[r EXCEPT !.rate = x, !.signal = "minimal"] :
          r \in Written, x \in {0, 15, 999, 3500, 50000, 60000}}
  \cup {[r EXCEPT !.port = x, !.baud = 2] : r \in Written, x \in {"usb", "uart2", "all", "auto"}}
  \cup {[r EXCEPT !.given = x, !.baud = 2] : r \in Written, x \in {1, 2}}
  \cup {[r EXCEPT !.rtk = x, !.dynamic = "rover"] : r \in Written, x \in {0, 1, 1800}}
  \cup {[r EXCEPT !.confirm = FALSE, !.baud = 0] : r \in Written}

-----------------------------------------------------------------------------

CommandsInit ==
  /\ Init /\ AutoConfigInit
  /\ driver \in {"caller", "application", "loop", "planner"}
  /\ driver # "loop" => attempt = CHOOSE a \in Attempts : TRUE
  /\ driver # "planner" => \A d \in Devices : world[d].items = {} /\ world[d].model = NoModel

CallerActs ==
  /\ driver = "caller" /\ EngineNext
  /\ UNCHANGED <<applicationVars, hostVars, overdue, receiverVars, autoVars, driver>>
ApplicationActs ==
  /\ driver = "application" /\ AppNext
  /\ UNCHANGED <<hostVars, overdue, receiverVars, autoVars, driver>>
InLoop(A) == driver = "loop" /\ A /\ UNCHANGED <<autoVars, driver>>
PlannerActs == driver = "planner" /\ AutoConfigNext /\ UNCHANGED <<vars, driver>>

\* The program ends; a caller and an application never get stuck.
PlannerEnds == driver = "planner" /\ asks = "planned" /\ UNCHANGED commandsVars
LoopEnds == driver = "loop" /\ pc = "done" /\ received = << >> /\ UNCHANGED commandsVars

CommandsNext ==
  CallerActs \/ ApplicationActs \/ InLoop(Next) \/ PlannerActs \/ PlannerEnds \/ LoopEnds

CommandsSpec ==
  /\ CommandsInit /\ [][CommandsNext]_commandsVars
  /\ WF_commandsVars(InLoop(LoopStep)) /\ WF_commandsVars(InLoop(DeadlinePasses))

-----------------------------------------------------------------------------
(* Properties                                                              *)

\* Every attempt comes to an end, though the receiver is silent or sends
\* nothing but telemetry (config_apply.cpp:3075).
EveryAttemptEnds == driver = "loop" ~> pc = "done"
==============================================================================
