------------------------------ MODULE AutoConfig ------------------------------
(***************************************************************************)
(* From a discovered receiver, or a family the user named, to a plan of    *)
(* commands: gnss_driver/src/receiver_auto_config.cpp with its profile     *)
(* builders, and the decision of gnss_tools to run the plan.               *)
(*                                                                         *)
(* A command is a record of its kind, the value it sets, how lasting it is *)
(* and whether the plan fails with it.  Rates are in thousandths of Hz,    *)
(* periods in ms.                                                          *)
(***************************************************************************)
EXTENDS ReceiverDiscovery

CONSTANTS
  Requests,   \* the options a user may give
  Absent      \* an option that was not given

VARIABLES
  request,    \* the options
  found,      \* the discovery result that is used
  plan        \* the plan

autoVars == <<discoveryVars, request, found, plan>>

Override(option, default) == IF option = Absent THEN default ELSE option

Live(r) == r.mode # "dry"

-----------------------------------------------------------------------------
(* Unicore profiles.                                                       *)

KnownModels == {"UM960", "UM980", "UM981", "UM982", "UB9A0"}

\* An option that was not given is none of the values an option has.
ASSUME AbsentAssumption == Absent \notin KnownModels /\ Absent # 921600

DefaultUnicoreRoverDynamicMode(model) ==
  CASE model = "UM980" -> "uav" [] model = "UM981" -> "rover" [] OTHER -> "survey_mow"

PortableRoverSignalGroup(model) == IF model = "UM982" THEN <<3, 6>> ELSE Absent

Rates == {1000, 2000, 5000, 10000, 20000, 50000}

Distance(a, b) == IF a < b THEN b - a ELSE a - b

\* The nearest, of two the lower.
NormalizeUnicoreOutputRateHz(asked) ==
  CHOOSE c \in Rates : \A d \in Rates \ {c} :
    Distance(asked, c) < Distance(asked, d) \/ (Distance(asked, c) = Distance(asked, d) /\ c < d)

\* With the minimal signal profile some are left out.
OutputMessages(r) ==
  LET Log(message, period) == [message |-> message, period |-> period]
  IN  << Log("GPGGA", 1000) >>
        \o (IF r.signal = "minimal" THEN <<>>
            ELSE << Log("GPGSV", 1000), Log("GPGST", 1000),
                    Log("PVTSLNA", IF r.profile = "debug" THEN 200 ELSE 1000) >>)
        \o << Log("BESTNAVA", IF r.rate = Absent THEN 200
                              ELSE 1000000 \div NormalizeUnicoreOutputRateHz(r.rate)),
              Log("RTKSTATUSA", 1000), Log("RTCMSTATUSA", Absent), Log("SATSINFOA", 1000) >>

\* The receiver already speaks the baud rate asked for, as far as is known.
CurrentBaud(r, f) == IF f # <<>> /\ f.baud # 0 THEN f.baud ELSE r.given

\* Mutant: even if the receiver speaks at that baud rate already.
EmitsWheneverAsked(r, f) == r.baud # Absent

ShouldEmitUnicoreRuntimeCom1BaudCommand(r, f) ==
  r.baud # Absent /\ CurrentBaud(r, f) # r.baud

\* Mutant: a model's signal group is always set.
AutomaticAlways(r) == TRUE

\* A signal group restarts the receiver: only a lasting plan sets it unasked.
AutomaticSignalGroup(r) == r.profile = "factory_reset" \/ r.mode = "persistent"

UnicoreProfile(r, f) ==
  [com1 |-> IF r.profile = "factory_reset" THEN Override(r.baud, 921600)
            ELSE IF ShouldEmitUnicoreRuntimeCom1BaudCommand(r, f) THEN r.baud
            ELSE Absent,
   mode |-> Override(r.dynamic, DefaultUnicoreRoverDynamicMode(r.model)),
   rtk |-> Override(r.rtk, 120),
   dgps |-> Override(r.dgps, 300),
   group |-> Override(r.group,
               IF AutomaticSignalGroup(r) THEN PortableRoverSignalGroup(r.model) ELSE Absent),
   outputs |-> OutputMessages(r),
   save |-> r.mode = "persistent"]

TextCommand(kind, value, required) ==
  [kind |-> kind, value |-> value, required |-> required,
   safety |-> CASE kind = "save" -> "persistent" [] kind = "freset" -> "factory_reset"
                [] OTHER -> "runtime"]

Given(kind, value, required) ==
  IF value = Absent THEN <<>> ELSE <<TextCommand(kind, value, required)>>

\* UnicoreConfigProfileBuilder::Build
UnicoreCommands(p, groupRequired) ==
  Given("com1", p.com1, TRUE)
    \o << TextCommand("mode", p.mode, TRUE), TextCommand("nmea", "V411", TRUE), TextCommand("rtk", p.rtk, TRUE),
          TextCommand("reliability", <<3, 1>>, TRUE), TextCommand("dgps", p.dgps, TRUE) >>
    \o Given("signalgroup", p.group, groupRequired)
    \o [i \in DOMAIN p.outputs |-> TextCommand("output", p.outputs[i], FALSE)]
    \o (IF p.save THEN <<TextCommand("save", "", TRUE)>> ELSE <<>>)

\* ValidateProfile
UnicoreBuilderRefuses(p) ==
  \/ p.com1 = 0
  \/ \E timeout \in {p.rtk, p.dgps} : timeout \notin 1..1800
  \/ p.group = <<>>
  \/ \E i \in DOMAIN p.outputs :
       p.outputs[i].period \notin {1000, 500, 200, 100, 50, 20, Absent}

-----------------------------------------------------------------------------
(* Plans.                                                                  *)

Refused(status) ==
  [status |-> status, vendor |-> "none", commands |-> <<>>, layers |-> {}, ready |-> FALSE]

Accepted(r, vendor, commands, layers) ==
  [status |-> "ok", vendor |-> vendor, commands |-> commands, layers |-> layers,
   ready |-> Live(r)]

MakeNoChangePlan(r, vendor) ==
  CASE r.mode = "persistent" -> Refused("unsupported_apply_mode")
    [] r.mode # "persistent" /\ (r.baud # Absent \/ r.rate # Absent) -> Refused("invalid_argument")
    [] OTHER -> Accepted(r, vendor, <<>>, {})

\* The options of the user that every planner checks.
ValidOptions(r) == r.baud # 0 /\ (r.rate # Absent => r.rate > 0)

ValidUnicoreOptions(r) ==
  /\ ValidOptions(r)
  /\ r.rate # Absent => r.rate \in 1000..50000
  /\ \A timeout \in {r.rtk, r.dgps} : timeout = Absent \/ timeout \in 1..1800

\* After a factory reset the whole profile is written again.
UnicorePlanCommands(r, p) ==
  (IF r.profile = "factory_reset" THEN <<TextCommand("freset", "", TRUE)>> ELSE <<>>)
    \o UnicoreCommands(p, r.group = Absent)

\* An unknown model is left alone.
BuildUnicorePlan(r, f) ==
  CASE r.model \notin KnownModels /\ r.profile = "runtime_only" ->
         [MakeNoChangePlan(r, "unicore") EXCEPT !.ready = FALSE]
    [] r.model \notin KnownModels /\ r.profile # "runtime_only" ->
         Refused("unsupported_receiver")
    [] r.model \in KnownModels /\ r.profile = "runtime_only" -> MakeNoChangePlan(r, "unicore")
    [] OTHER ->
         IF ~ValidUnicoreOptions(r) THEN Refused("invalid_argument")
         ELSE IF UnicoreBuilderRefuses(UnicoreProfile(r, f)) THEN Refused("build_error")
         ELSE Accepted(r, "unicore", UnicorePlanCommands(r, UnicoreProfile(r, f)), {})

\* ResolveUbloxOutputPort: the ports configured, and whether the path says so.
UbloxPorts(r, f) ==
  LET looks == IF f = <<>> THEN r.looks ELSE f.name.looks
  IN  CASE r.port = Absent -> <<"uart1", "usb">>
        [] r.port = "all" -> <<"uart1", "uart2", "usb">>
        [] r.port = "auto" -> IF looks = "usb" THEN <<"usb">> ELSE <<"uart1">>
        [] OTHER -> <<r.port>>

UbloxLayers(r) == IF r.mode = "persistent" THEN {"ram", "bbr", "flash"} ELSE {"ram"}

\* Of each profile: of the rover's (10 Hz), and of the diagnostics' (5 Hz).
UbloxMessages(r) ==
  IF r.profile = "debug"
  THEN <<"NAV-PVT", "NAV-SAT", "NAV-STATUS", "NAV-DOP", "MON-HW", "MON-HW2", "MON-RF", "RXM-RTCM", "GGA">>
  ELSE <<"NAV-PVT", "NAV-SAT", "NAV-STATUS", "MON-RF">>

\* UbloxConfigProfileBuilder::Build: each message on each port.
UbloxCommands(r, outputs) ==
  LET Frame(kind, value) ==
        [kind |-> kind, value |-> value, required |-> TRUE,
         safety |-> IF r.mode = "persistent" THEN "persistent" ELSE "runtime"]
      Baud(uart) ==
        IF r.baud # Absent /\ uart \in Range(outputs) THEN <<Frame("baud", <<uart, r.baud>>)>>
                                                      ELSE <<>>
      messages == UbloxMessages(r)
      n == Len(outputs)
  IN  Baud("uart1") \o Baud("uart2")
      \o <<Frame("rate", Override(r.rate, IF r.profile = "debug" THEN 5000 ELSE 10000))>>
      \o [i \in 1 .. Len(messages) * n |->
           Frame("message", <<messages[(i - 1) \div n + 1], outputs[((i - 1) % n) + 1]>>)]
      \o [i \in 1..4 |-> Frame("constellation", i)]

\* A measurement period is 1 to 65535 ms: 16 bits.
PeriodFits(asked) == asked \in 16..1000000

BuildUbloxPlan(r, f) ==
  CASE r.profile = "runtime_only" -> MakeNoChangePlan(r, "ublox")
    [] r.profile # "runtime_only" /\ ~ValidOptions(r) -> Refused("invalid_argument")
    [] r.profile = "factory_reset" /\ ValidOptions(r) -> Refused("unsupported_profile")
    [] OTHER -> IF PeriodFits(Override(r.rate, 10000))
                THEN Accepted(r, "ublox", UbloxCommands(r, UbloxPorts(r, f)), UbloxLayers(r))
                ELSE Refused("build_error")

BuildNmeaPlan(r) ==
  IF r.profile = "runtime_only" THEN MakeNoChangePlan(r, "nmea")
  ELSE Refused("unsupported_profile")

FamilyFound(f) == IF f = <<>> THEN "unknown" ELSE f.family

EffectiveFamily(r, f) == IF FamilyFound(f) # "unknown" THEN FamilyFound(f) ELSE r.family

\* What the user says of the receiver is not what it says of itself.
Contradicted(r, f) ==
  \/ "unknown" \notin {r.family, FamilyFound(f)} /\ r.family # FamilyFound(f)
  \/ /\ f # <<>> /\ EffectiveFamily(r, f) = "unicore" /\ f.model # NoModel
     /\ r.model # Absent /\ r.model # f.model

BuildReceiverAutoConfigPlan(r, f) ==
  IF Contradicted(r, f) THEN Refused("invalid_argument")
  ELSE CASE EffectiveFamily(r, f) = "unicore" -> BuildUnicorePlan(r, f)
         [] EffectiveFamily(r, f) = "ublox" -> BuildUbloxPlan(r, f)
         [] EffectiveFamily(r, f) = "nmea" -> BuildNmeaPlan(r)
         [] OTHER -> Refused("unsupported_receiver")

-----------------------------------------------------------------------------
(* The decision.                                                           *)

\* ResolveRequestedTransportBaud
TransportBaud(r, f) ==
  IF r.given # Absent THEN r.given ELSE IF FamilyFound(f) # "unknown" THEN f.baud ELSE 0

\* Mutant: a receiver that was recognised need not have answered.
VerifiedByFamily(r, f) == FamilyFound(f) = "unicore"

\* MakeBaseResult: the receiver answered VERSIONA at this baud rate.
CurrentBaudVerified(r, f) == f # <<>> /\ f.verified /\ f.baud = TransportBaud(r, f)

\* PrepareConfigApply, ApplyExecutionSafetyRules and the checks of main.
Outcome(r, f, p) ==
  CASE p.status # "ok" -> p.status
    [] p.status = "ok" /\ ~Live(r) -> "shown"
    [] OTHER ->
         IF p.vendor = "unicore" /\ ~CurrentBaudVerified(r, f) THEN "transport_unavailable"
         ELSE IF ~p.ready \/ (p.commands # <<>> /\ ~r.confirm) THEN "safety_rejected"
         ELSE IF f = <<>> \/ TransportBaud(r, f) = 0 THEN "invalid_argument"
         ELSE "run"

AutoConfigInit ==
  /\ DiscoveryInit
  /\ request = <<>> /\ found = <<>> /\ plan = <<>>

Discovers == DiscoveryNext /\ UNCHANGED <<request, found, plan>>

\* DiscoverRequestedReceiver: the first result is the receiver, and the rest
\* is forgotten.
Takes ==
  /\ asks = "done"
  /\ asks' = "taken"
  /\ \E i \in DOMAIN results : SortedFirst(i) /\ found' = results[i]
  /\ ports' = <<>> /\ results' = <<>> /\ probes' = <<>> /\ port' = 0
  /\ UNCHANGED <<world, bauds, rate, heard, probe, best, request, plan>>

Prepares(r, f, p) ==
  /\ request' = r
  /\ plan' = p
  /\ asks' = "planned"
  /\ UNCHANGED <<world, bauds, ports, port, rate, heard, probe, best, results, probes, found>>

\* A family the user named, and either no baud rate to try it at or no
\* intention to write.
PlansUndiscovered ==
  /\ asks = "list"
  /\ \E r \in Requests :
       /\ r.family # "unknown" /\ (r.given = Absent \/ ~Live(r))
       /\ Prepares(r, <<>>, BuildReceiverAutoConfigPlan(r, <<>>))

\* With a baud rate only that one was tried, of the port the user named or of
\* all.
PlansDiscovered ==
  /\ asks = "taken"
  /\ \E r \in Requests :
       /\ r.given # Absent => bauds = <<r.given>>
       /\ Prepares(r, found, BuildReceiverAutoConfigPlan(r, found))

AutoConfigNext == Discovers \/ Takes \/ PlansUndiscovered \/ PlansDiscovered

AutoConfigSpec == AutoConfigInit /\ [][AutoConfigNext]_autoVars

-----------------------------------------------------------------------------
(* Properties.                                                             *)

Built == asks = "planned"

Runs == Built /\ Outcome(request, found, plan) = "run"

At(kind) == {i \in DOMAIN plan.commands : plan.commands[i].kind = kind}

\* The workflows of config_apply.cpp take a plan apart by its commands.  Every
\* plan they are given has the form they rely on: a reset comes first and the
\* baud rate next; a baud rate otherwise comes first, and is another one than
\* the transport's (config_apply.cpp:589); there is one signal group at most,
\* one save at most, at the end, and only outputs and a signal group of the
\* user's may fail.
PlansFitWorkflows ==
  Runs /\ plan.vendor = "unicore" /\ plan.commands # <<>> =>
    /\ IF request.profile = "factory_reset"
       THEN At("freset") = {1} /\ At("com1") = {2}
       ELSE At("freset") = {} /\ At("com1") \subseteq {1}
    /\ At("freset") = {} =>
         \A i \in At("com1") : plan.commands[i].value # TransportBaud(request, found)
    /\ \A i, j \in At("signalgroup") : i = j
    /\ At("save") \subseteq {Len(plan.commands)}
    /\ \A i \in DOMAIN plan.commands :
         ~plan.commands[i].required =>
           i \in At("output") \/ (i \in At("signalgroup") /\ request.group # Absent)

\* What outlives a restart of the receiver, or restarts it, happens exactly if
\* the user asked for it (docs/tools.md:786 of SAVECONFIG): a save or a lasting
\* layer in a persistent plan, a reset in a factory reset, and a signal group
\* in one of these or by the user's own choice.
PermanentOnlyIfAsked ==
  Built /\ plan.commands # <<>> =>
    /\ (At("save") # {} \/ plan.layers \cap {"bbr", "flash"} # {}) <=>
         request.mode = "persistent"
    /\ At("freset") # {} <=> request.profile = "factory_reset"
    /\ At("signalgroup") # {} =>
         \/ request.group # Absent
         \/ request.mode = "persistent"
         \/ request.profile = "factory_reset"

\* Commands are only written to the receiver they were planned for: a Unicore
\* plan to a port whose receiver answered for itself with the planned model, at
\* the baud rate it answered at, and a u-blox plan to none that showed itself
\* to be another one (config_apply.cpp:2895, receiver_auto_config.cpp:1326).
OnlyTheProvenReceiver ==
  Runs /\ plan.commands # <<>> =>
    LET device == world[found.name.device]
    IN  IF plan.vendor = "unicore"
        THEN device.model = request.model /\ TransportBaud(request, found) \in device.bauds
        ELSE found.family = "ublox" \/ (found.family = "unknown" /\ request.family = "ublox")

\* What is written, and to whom, is what the user and discovery agree on
\* (receiver_auto_config.cpp:1326, config_apply.cpp:2895).
WrittenAsAskedToTheProven == PermanentOnlyIfAsked /\ OnlyTheProvenReceiver
=============================================================================
