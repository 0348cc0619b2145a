------------------------ MODULE ConfigurationAttempt ------------------------
(***************************************************************************)
(* What one attempt to configure a receiver promises, without bytes,       *)
(* answers in transit or time: commands are sent in order, one at a time;  *)
(* a command counts as accepted or refused only if the receiver said so    *)
(* about that very command; once the fate of a command is unknown nothing  *)
(* more is sent; and the report tells the fates.  Stated by                *)
(* docs/auto_configuration.md:471-506; gnss_tools/src/config_apply.cpp     *)
(* implements it.                                                          *)
(***************************************************************************)
EXTENDS Naturals, Sequences

CONSTANT Plans   \* the command lists that may be attempted

VARIABLES
  plan,     \* the commands of this attempt
  fates,    \* what the host knows of each command
  said,     \* what the receiver has said about each command
  report    \* the status of the attempt, and whether the receiver's
            \* configuration is indeterminate

attemptVars == <<plan, fates, said, report>>

NoReport == [status |-> "none", indeterminate |-> FALSE]

AttemptInit ==
  /\ plan \in Plans
  /\ fates = [c \in DOMAIN plan |-> "unsent"]
  /\ said = [c \in DOMAIN plan |-> "nothing"]
  /\ report = NoReport

\* A command after which the next one may be sent.
Passed(f, c) ==
  \/ f[c] = "accepted"
  \/ f[c] \in {"refused", "notSent"} /\ ~plan[c].required

\* A command after which none is sent.
Stops(f, c) == f[c] \notin {"unsent", "sent"} /\ ~Passed(f, c)

Blames ==
  [unknown |-> {"timedOut", "dispatchFailed", "readFailed"},
   notSent |-> {"dispatchFailed"}, refused |-> {"rejected"}]

\* The statuses that tell the truth about the fates f.
HonestStatuses(f) ==
  IF \A c \in DOMAIN plan : Passed(f, c)
  THEN {IF \A c \in DOMAIN plan : f[c] = "accepted" THEN "ok" ELSE "partialSuccess"}
  ELSE UNION {Blames[f[c]] : c \in {d \in DOMAIN plan : Stops(f, d)}}

Over(f) == (\A c \in DOMAIN plan : Passed(f, c)) \/ \E c \in DOMAIN plan : Stops(f, c)

\* Command c meets a fate; the attempt is reported when it is over.
Meets(c, fate) ==
  /\ fates' = [fates EXCEPT ![c] = fate]
  /\ IF Over(fates')
     THEN /\ report'.status \in HonestStatuses(fates')
          /\ report'.indeterminate = \E d \in DOMAIN plan : fates'[d] = "unknown"
          /\ DOMAIN report' = {"status", "indeterminate"}
     ELSE UNCHANGED report
  /\ UNCHANGED <<plan, said>>

Send(c) ==
  /\ fates[c] = "unsent"
  /\ \A d \in 1 .. c - 1 : Passed(fates, d)
  /\ \/ \E fate \in {"sent", "notSent", "unknown"} : Meets(c, fate)
     \/ ~plan[c].answered /\ Meets(c, "accepted")

\* The host learns what the receiver said, or gives up.
Settle(c) ==
  /\ fates[c] = "sent"
  /\ \/ said[c] = "positive" /\ Meets(c, "accepted")
     \/ said[c] = "negative" /\ Meets(c, "refused")
     \/ Meets(c, "unknown")

\* The receiver answers a command of which it has got any bytes, once.
Speak(c) ==
  /\ fates[c] \notin {"unsent", "notSent"}
  /\ said[c] = "nothing"
  /\ \E answer \in {"positive", "negative"} : said' = [said EXCEPT ![c] = answer]
  /\ UNCHANGED <<plan, fates, report>>

AttemptNext == \E c \in DOMAIN plan : Send(c) \/ Settle(c) \/ Speak(c)

AttemptSpec == AttemptInit /\ [][AttemptNext]_attemptVars
==============================================================================
