------------------------ MODULE ApplyWorkflows_proofs ------------------------
(***************************************************************************)
(* Proofs about ApplyWorkflows, for every plan, every set of baud rates    *)
(* and signal groups and every number of probes.                           *)
(*                                                                         *)
(* The first half proves Progress, what has been and what is to be sent,   *)
(* for plans of either vendor.  The second half proves Faithful, what is   *)
(* known of the receiver while a Unicore plan is carried out; it rests on  *)
(* the planner's form of such a plan (PlanAssumption).                     *)
(***************************************************************************)
EXTENDS ApplyWorkflows, FiniteSetTheorems, WellFoundedInduction, TLAPS

-----------------------------------------------------------------------------
(* The first command of a kind                                             *)

\* Every set of numbers has a least one.
LEMMA LessWellFounded == IsWellFoundedOn({p \in Nat \X Nat : p[1] < p[2]}, Nat)
BY NatLessThanWellFounded DEF OpToRel

LEMMA Least ==
  ASSUME NEW S, S \subseteq Nat, S # {}
  PROVE  \E m \in S : \A x \in S : m <= x
<1> DEFINE R == {p \in Nat \X Nat : p[1] < p[2]}
<1>1. IsWellFoundedOn(R, Nat)
  BY LessWellFounded
<1> HIDE DEF R
<1>2. PICK m \in S : \A x \in S : ~(<<x, m>> \in R)
  BY <1>1, WFMin
<1>3. ASSUME NEW x \in S PROVE m <= x
  <2>1. x \in Nat /\ m \in Nat
    OBVIOUS
  <2>2. ~(<<x, m>> \in R)
    BY <1>2
  <2> QED
    BY <2>1, <2>2 DEF R
<1> QED
  BY <1>3

LEMMA FirstFromFinds ==
  ASSUME NEW kind \in Kinds, NEW begin \in Nat \ {0}, attempt \in Attempts,
         NEW r, r = FirstFrom(kind, begin)
  PROVE  /\ r \in Nat
         /\ r = 0 => \A i \in begin .. Len(plan) : plan[i].kind # kind
         /\ r # 0 => r \in begin .. Len(plan) /\ plan[r].kind = kind
<1> DEFINE I == {i \in begin .. Len(plan) : plan[i].kind = kind}
<1>1. r = IF I # {} THEN CHOOSE x \in I : \A y \in I : x <= y ELSE 0
  BY DEF FirstFrom, SelectInSubSeq, Min
<1>2. I \subseteq Nat /\ Len(plan) \in Nat
  BY WorkflowAssumption DEF plan
<1>3. CASE I # {}
  <2>1. \E m \in I : \A x \in I : m <= x
    BY <1>2, <1>3, Least
  <2>2. r \in I
    BY <1>1, <1>3, <2>1
  <2> QED
    BY <1>2, <2>2
<1>4. CASE I = {}
  BY <1>1, <1>4
<1> QED
  BY <1>3, <1>4

-----------------------------------------------------------------------------
(* The inductive invariant: types                                          *)

Fates == {"unsent", "notSent", "accepted", "refused", "unknown", "skipped"}

StageRecords ==
  [do : StageNames, baud : Bauds \cup {NoBaud}, commands : Seq(Everyone),
   left : 1 .. ProbeAttempts]

Receivers ==
  [up : BOOLEAN, baud : Bauds, groups : Groups, settings : SUBSET Everyone,
   saved : [baud : Bauds, settings : SUBSET Everyone]]

TypeInv ==
  /\ attempt \in Attempts
  /\ pc \in {"prepare", "running", "done"}
  /\ script \in Seq(StageRecords)
  /\ queried \in Groups \cup {NoGroups}
  /\ link \in Bauds
  /\ tally \in [completed : Nat, optional : Nat]
  /\ report \in [status : Statuses, indeterminate : BOOLEAN,
                 verified : Bauds \cup {NoBaud}, baud : Bauds]
  /\ rx \in Receivers
  /\ fates \in [Everyone -> Fates]
  /\ writes \in [Everyone -> Nat]

-----------------------------------------------------------------------------
(* ... and the script: what is still to be sent                            *)

Carries(stage) == stage.do \in {"phase", "decide"}

Has(stage, c) == Carries(stage) /\ \E i \in 1 .. Len(stage.commands) : stage.commands[i] = c

\* What a stage can be: its commands are a stretch of the plan (list).
WellFormed(list, stage) ==
  /\ stage.do \in {"phase", "scan"} <=> stage.baud = NoBaud
  /\ stage.do = "phase" =>
       \E first \in 1 .. Len(list) + 1, last \in 0 .. Len(list) :
         stage.commands = Slice(first, last)
  /\ stage.do = "decide" =>
       \E first \in 1 .. Len(list) :
         /\ stage.commands = Slice(first, Len(list))
         /\ \E group \in first .. Len(list) : list[group].kind = "signalgroup"
  /\ stage.do = "check" =>
       \E group \in 1 .. Len(list) :
         stage.commands = <<group>> /\ list[group].kind = "signalgroup"

\* A script ends with its only "finish", right after the decision if that is
\* still to come, and is there while it runs.
Shape ==
  /\ \A k \in 1 .. Len(script) : WellFormed(plan, script[k])
  /\ pc # "running" => script = << >>
  /\ pc = "running" =>
       /\ script # << >>
       /\ \A k \in 1 .. Len(script) :
            /\ script[k].do = "finish" <=> k = Len(script)
            /\ script[k].do = "decide" => k + 1 = Len(script)

\* Every command that nothing became of yet is in one place of the script, and
\* no other command is in it.
Pending ==
  /\ pc = "prepare" => \A c \in Everyone : fates[c] = "unsent"
  /\ pc = "running" =>
       /\ \A c \in Everyone :
            fates[c] = "unsent" <=> \E k \in 1 .. Len(script) : Has(script[k], c)
       /\ \A c \in Everyone, j, k \in 1 .. Len(script) :
            Has(script[j], c) /\ Has(script[k], c) => j = k

-----------------------------------------------------------------------------
(* ... and what became of the rest                                         *)

Dealt == {c \in Everyone : fates[c] # "unsent"}

Counted ==
  /\ \A c \in Everyone : writes[c] <= 1 /\ (fates[c] = "unsent" => writes[c] = 0)
  /\ tally.completed + tally.optional <= Len(plan)
  /\ pc # "done" => tally.completed + tally.optional = Cardinality(Dealt)
  /\ Succeeded => Dealt = Everyone /\ tally.completed + tally.optional = Len(plan)

Failed(c) == fates[c] \in {"notSent", "refused"}

Judged ==
  /\ (\E c \in Everyone : fates[c] = "unknown") <=> report.indeterminate
  /\ pc # "done" =>
       /\ ~report.indeterminate
       /\ tally.optional = 0 <=> \A c \in Everyone : ~Failed(c)
       /\ \A c \in Everyone : Failed(c) => ~plan[c].required
  /\ Succeeded => (report.status = "ok" <=> \A c \in Everyone : fates[c] \in {"accepted", "skipped"})

Progress == TypeInv /\ Shape /\ Pending /\ Counted /\ Judged

-----------------------------------------------------------------------------
(* Stretches of the plan                                                   *)

LEMMA SliceIs ==
  ASSUME NEW first \in Nat \ {0}, NEW last \in Nat
  PROVE  /\ Slice(first, last) \in Seq(Nat \ {0})
         /\ Len(Slice(first, last)) = IF last < first THEN 0 ELSE last + 1 - first
         /\ \A i \in 1 .. Len(Slice(first, last)) : Slice(first, last)[i] = first + i - 1
         /\ Slice(first, last) # << >> <=> first <= last
         /\ first <= last => /\ Head(Slice(first, last)) = first
                            /\ Tail(Slice(first, last)) = Slice(first + 1, last)
<1> DEFINE s == Slice(first, last)
<1> DEFINE n == IF last < first THEN 0 ELSE last + 1 - first
<1>1. n \in Nat /\ s = [k \in 1 .. n |-> first + k - 1]
  BY DEF Slice
<1>2. s \in Seq(Nat \ {0}) /\ Len(s) = n /\ \A i \in 1 .. n : s[i] = first + i - 1
  BY <1>1
<1>3. s # << >> <=> first <= last
  BY <1>2
<1>4. ASSUME first <= last PROVE Head(s) = first /\ Tail(s) = Slice(first + 1, last)
  <2>1. Head(s) = first
    BY <1>2, <1>3, <1>4
  <2> DEFINE m == IF last < first + 1 THEN 0 ELSE last + 1 - (first + 1)
             t == [k \in 1 .. m |-> first + 1 + k - 1]
  <2>2. Slice(first + 1, last) = t
    BY DEF Slice
  <2>3. m = n - 1 /\ t \in Seq(Nat) /\ Len(t) = n - 1
        /\ \A i \in 1 .. n - 1 : t[i] = first + i
    BY <1>4
  <2>4. Tail(s) \in Seq(Nat) /\ Len(Tail(s)) = n - 1
        /\ \A i \in 1 .. n - 1 : Tail(s)[i] = first + i
    BY SMTT(30), <1>2, <1>3, <1>4
  <2>5. Tail(s) = t
    <3> HIDE DEF t, m, n
    <3> QED
      BY <2>3, <2>4
  <2> QED
    BY <2>1, <2>2, <2>5
<1> HIDE DEF n
<1>5. Len(s) = IF last < first THEN 0 ELSE last + 1 - first
  BY <1>2 DEF n
<1> QED
  BY <1>2, <1>3, <1>4, <1>5

\* Which commands a stage has whose commands are a stretch of the plan.
LEMMA HasStretch ==
  ASSUME NEW first \in Nat \ {0}, NEW last \in Nat, NEW stage, NEW c \in Nat,
         stage.commands = Slice(first, last), Carries(stage)
  PROVE  Has(stage, c) <=> c \in first .. last
<1> DEFINE s == Slice(first, last)
<1>1. /\ Len(s) = IF last < first THEN 0 ELSE last + 1 - first
      /\ \A i \in 1 .. Len(s) : s[i] = first + i - 1
  BY SliceIs
<1>2. ASSUME c \in first .. last PROVE \E i \in 1 .. Len(s) : s[i] = c
  <2> DEFINE i == c + 1 - first
  <2>1. i \in 1 .. Len(s) /\ first + i - 1 = c
    BY <1>1, <1>2
  <2> HIDE DEF i, s
  <2> QED
    BY <1>1, <2>1
<1>3. ASSUME NEW i \in 1 .. Len(s), s[i] = c PROVE c \in first .. last
  BY <1>1, <1>3
<1> QED
  BY <1>1, <1>2, <1>3 DEF Has

LEMMA PlanType ==
  ASSUME attempt \in Attempts
  PROVE  /\ plan \in Seq(Commands) /\ Len(plan) \in Nat \ {0} /\ Everyone = 1 .. Len(plan)
         /\ \A c \in Everyone :
              /\ plan[c] \in Commands /\ plan[c].kind \in Kinds /\ plan[c].required \in BOOLEAN
              /\ plan[c].kind = "com1" => plan[c].value \in Bauds
              /\ plan[c].kind = "signalgroup" => plan[c].value \in Groups
         /\ attempt.baud \in Bauds /\ attempt.vendor \in {"ublox", "unicore"}
         /\ attempt.verified \in BOOLEAN /\ attempt.confirmed \in BOOLEAN /\ attempt.hooks \in BOOLEAN
<1>1. plan \in Seq(Commands) /\ plan # << >>
  BY WorkflowAssumption DEF plan
<1>2. Len(plan) \in Nat \ {0} /\ Everyone = 1 .. Len(plan) /\ \A c \in Everyone : plan[c] \in Commands
  BY <1>1 DEF Everyone
<1> QED
  BY <1>1, <1>2, WorkflowAssumption

-----------------------------------------------------------------------------
(* Steps that send nothing                                                 *)

Reports ==
  [status : Statuses, indeterminate : BOOLEAN, verified : Bauds \cup {NoBaud}, baud : Bauds]

LEMMA PlanIsFinite ==
  ASSUME attempt \in Attempts
  PROVE  IsFiniteSet(1 .. Len(plan)) /\ Cardinality(1 .. Len(plan)) = Len(plan)
<1>1. 1 \in Int /\ Len(plan) \in Int /\ Len(plan) >= 1
  BY PlanType
<1> QED
  BY <1>1, FS_Interval

LEMMA DealtIsFinite ==
  ASSUME TypeInv
  PROVE  /\ IsFiniteSet(Dealt) /\ Cardinality(Dealt) \in Nat /\ Cardinality(Dealt) <= Len(plan)
         /\ Cardinality(Dealt) = Len(plan) => Dealt = Everyone
<1>1. Everyone = 1 .. Len(plan) /\ Len(plan) \in Nat
  BY PlanType DEF TypeInv
<1>2. IsFiniteSet(1 .. Len(plan)) /\ Cardinality(1 .. Len(plan)) = Len(plan)
  BY PlanIsFinite DEF TypeInv
<1>3. Dealt \subseteq 1 .. Len(plan)
  BY <1>1 DEF Dealt
<1> QED
  BY <1>1, <1>2, <1>3, FS_Subset, FS_CardinalityType

LEMMA InitProgress == Init => Progress
<1> SUFFICES ASSUME Init PROVE Progress
  OBVIOUS
<1>1. /\ Len(plan) \in Nat \ {0} /\ attempt \in Attempts /\ attempt.baud \in Bauds
  BY PlanType DEF Init
<1>2. \A c \in Everyone : fates[c] = "unsent" /\ writes[c] = 0
  BY DEF Init
<1>3. TypeInv
  BY <1>1 DEF Init, TypeInv, Receivers, Statuses, Fates
<1>4. Dealt = {}
  BY <1>2 DEF Dealt
<1>5. Cardinality(Dealt) = 0
  BY <1>4, FS_EmptySet
<1>6. Shape /\ Pending
  BY <1>2 DEF Init, Shape, Pending
<1>7. Counted
  BY <1>1, <1>2, <1>5 DEF Init, Counted, Succeeded
<1>8. Judged
  BY <1>2 DEF Init, Judged, Succeeded, Failed
<1> QED
  BY <1>3, <1>6, <1>7, <1>8 DEF Progress

LEMMA SameAttempt ==
  ASSUME attempt' = attempt
  PROVE  /\ plan' = plan /\ Everyone' = Everyone
         /\ StageRecords' = StageRecords /\ Receivers' = Receivers
BY DEF plan, Everyone, StageRecords, Receivers

\* A workflow that ends with an error, whatever became of its last command.
LEMMA EndsSafely ==
  ASSUME Progress, pc # "done", attempt' = attempt, queried' \in Groups \cup {NoGroups},
         link' \in Bauds, rx' \in Receivers, tally' = tally,
         fates' \in [Everyone -> Fates], writes' \in [Everyone -> Nat],
         \A c \in Everyone : writes'[c] <= 1 /\ (fates'[c] = "unsent" => writes'[c] = 0),
         NEW doubt \in BOOLEAN, (\E c \in Everyone : fates'[c] = "unknown") <=> doubt,
         NEW status \in Statuses \ {"ok", "partialSuccess"}, Ends(status, doubt)
  PROVE  Progress'
<1>1. ~Succeeded'
  BY DEF Ends, Succeeded, Progress, TypeInv
<1>2. TypeInv'
  <2>1. report' \in Reports
    BY DEF Ends, Progress, TypeInv, Reports
  <2>2. << >> \in Seq(StageRecords)
    OBVIOUS
  <2> QED
    BY <2>1, <2>2, SameAttempt DEF Ends, Progress, TypeInv, Reports
<1>3. Shape' /\ Pending'
  BY DEF Ends, Shape, Pending
<1>4. Counted'
  BY <1>1 DEF Ends, Progress, Counted, plan, Everyone
<1>5. Judged'
  <2>1. report'.indeterminate <=> doubt
    BY DEF Ends, Progress, TypeInv, Judged
  <2> QED
    BY <1>1, <2>1 DEF Ends, Judged, plan, Everyone
<1> QED
  BY <1>2, <1>3, <1>4, <1>5 DEF Progress

\* A stage that has no command to send is left behind.
LEMMA TailIs ==
  ASSUME NEW S, NEW s \in Seq(S), s # << >>
  PROVE  /\ Tail(s) \in Seq(S) /\ Len(s) \in Nat \ {0} /\ Len(Tail(s)) = Len(s) - 1
         /\ \A k \in 1 .. Len(Tail(s)) : Tail(s)[k] = s[k + 1] /\ k + 1 \in 1 .. Len(s)
         /\ \A k \in 2 .. Len(s) : k - 1 \in 1 .. Len(Tail(s)) /\ Tail(s)[k - 1] = s[k]
OBVIOUS

LEMMA PopsSafely ==
  ASSUME Progress, pc = "running", pc' = pc, script' = Tail(script), attempt' = attempt,
         \A c \in Everyone : ~Has(script[1], c), script[1].do # "finish",
         queried' \in Groups \cup {NoGroups}, link' \in Bauds, rx' \in Receivers,
         tally' = tally, fates' = fates, writes' = writes,
         report' \in Reports, report'.indeterminate = report.indeterminate
  PROVE  Progress'
<1>1. script \in Seq(StageRecords) /\ script # << >>
  BY DEF Progress, TypeInv, Shape
<1>2. /\ Len(script) \in Nat \ {0} /\ Len(script') = Len(script) - 1
      /\ \A k \in 1 .. Len(script') : script'[k] = script[k + 1] /\ k + 1 \in 1 .. Len(script)
      /\ \A k \in 2 .. Len(script) : k - 1 \in 1 .. Len(script') /\ script'[k - 1] = script[k]
  BY <1>1, TailIs
<1>3. ~Succeeded'
  BY DEF Succeeded
<1>4. TypeInv'
  BY <1>1, TailIs, SameAttempt DEF Progress, TypeInv, Reports
<1>5. Shape'
  <2>1. Len(script) # 1
    BY DEF Progress, Shape
  <2>2. script' # << >>
    <3>1. Len(script') # 0
      BY <1>2, <2>1
    <3>2. Len(<< >>) = 0
      OBVIOUS
    <3> QED
      BY <3>1, <3>2, Zenon
  <2>3. ASSUME NEW k \in 1 .. Len(script')
        PROVE  /\ WellFormed(plan', script'[k])
               /\ script'[k].do = "finish" <=> k = Len(script')
               /\ script'[k].do = "decide" => k + 1 = Len(script')
    <3>1. /\ WellFormed(plan, script[k + 1])
          /\ script[k + 1].do = "finish" <=> k + 1 = Len(script)
          /\ script[k + 1].do = "decide" => k + 1 + 1 = Len(script)
      BY <1>2 DEF Progress, Shape
    <3>2. script'[k] = script[k + 1] /\ plan' = plan
      BY <1>2, SameAttempt
    <3>3. WellFormed(plan', script'[k])
      BY <3>1, <3>2
    <3>4. /\ script'[k].do = "finish" <=> k = Len(script')
          /\ script'[k].do = "decide" => k + 1 = Len(script')
      <4>1. /\ k = Len(script') <=> k + 1 = Len(script)
            /\ k + 1 = Len(script') <=> k + 1 + 1 = Len(script)
        BY <1>2
      <4> QED
        BY <3>1, <3>2, <4>1
    <3> QED
      BY <3>3, <3>4
  <2> QED
    BY <2>2, <2>3 DEF Shape
<1>6. Pending'
  <2>1. /\ \A c \in Everyone :
              fates[c] = "unsent" <=> \E k \in 1 .. Len(script) : Has(script[k], c)
        /\ \A c \in Everyone, j, k \in 1 .. Len(script) :
              Has(script[j], c) /\ Has(script[k], c) => j = k
    BY DEF Progress, Pending
  <2>2. ASSUME NEW c \in Everyone
        PROVE  fates[c] = "unsent" <=> \E k \in 1 .. Len(script') : Has(script'[k], c)
    <3>1. ASSUME NEW k \in 1 .. Len(script), Has(script[k], c)
          PROVE  k - 1 \in 1 .. Len(script') /\ Has(script'[k - 1], c)
      <4>1. k \in 2 .. Len(script)
        BY <1>2, <3>1
      <4> QED
        BY <1>2, <3>1, <4>1
    <3> QED
      BY <1>2, <2>1, <3>1
  <2>3. ASSUME NEW c \in Everyone, NEW j \in 1 .. Len(script'), NEW k \in 1 .. Len(script'),
               Has(script'[j], c), Has(script'[k], c)
        PROVE  j = k
    <3>1. j + 1 \in 1 .. Len(script) /\ k + 1 \in 1 .. Len(script)
          /\ Has(script[j + 1], c) /\ Has(script[k + 1], c)
      BY <1>2, <2>3
    <3>2. j + 1 = k + 1
      BY <2>1, <3>1
    <3> QED
      BY <3>2
  <2> QED
    BY <2>2, <2>3, SameAttempt DEF Pending
<1>7. Counted'
  <2>1. Dealt' = Dealt
    BY SameAttempt DEF Dealt
  <2> QED
    BY <1>3, <2>1, SameAttempt DEF Progress, Counted
<1>8. Judged'
  BY <1>3, SameAttempt DEF Progress, Judged, Failed
<1> QED
  BY <1>4, <1>5, <1>6, <1>7, <1>8 DEF Progress

\* A stage may count its attempts, and the receiver may restart.
LEMMA StaysSafely ==
  ASSUME Progress, pc' = pc, attempt' = attempt,
         script' \in Seq(StageRecords), Len(script') = Len(script),
         \A k \in 1 .. Len(script) : /\ script'[k].do = script[k].do
                                     /\ script'[k].baud = script[k].baud
                                     /\ script'[k].commands = script[k].commands,
         queried' \in Groups \cup {NoGroups}, link' \in Bauds, rx' \in Receivers,
         tally' = tally, fates' = fates, writes' = writes, report' = report
  PROVE  Progress'
<1>1. TypeInv'
  BY SameAttempt DEF Progress, TypeInv
<1>2. \A k \in 1 .. Len(script), c \in Everyone : Has(script'[k], c) <=> Has(script[k], c)
  BY DEF Has, Carries
<1>3. \A k \in 1 .. Len(script) : WellFormed(plan', script'[k]) <=> WellFormed(plan, script[k])
  BY SMTT(30), SameAttempt DEF WellFormed
<1>4. Shape'
  <2>1. script \in Seq(StageRecords) /\ script' \in Seq(StageRecords)
    BY DEF Progress, TypeInv
  <2>2. script = << >> <=> script' = << >>
    BY <2>1
  <2> QED
    BY <1>3, <2>2 DEF Progress, Shape
<1>5. Pending'
  BY <1>2, SameAttempt DEF Progress, Pending
<1>6. Counted'
  <2>1. Dealt' = Dealt /\ (Succeeded' <=> Succeeded)
    BY SameAttempt DEF Dealt, Succeeded
  <2> QED
    BY <2>1, SameAttempt DEF Progress, Counted
<1>7. Judged'
  BY SameAttempt DEF Progress, Judged, Failed, Succeeded
<1> QED
  BY <1>1, <1>4, <1>5, <1>6, <1>7 DEF Progress

-----------------------------------------------------------------------------
(* Steps that deal with a command                                          *)

LEMMA DealsOne ==
  ASSUME Progress, attempt' = attempt,
         NEW c \in Everyone, fates[c] = "unsent", NEW fate \in Fates \ {"unsent"},
         fates' = [fates EXCEPT ![c] = fate]
  PROVE  /\ fates' \in [Everyone -> Fates] /\ fates'[c] = fate
         /\ \A d \in Everyone \ {c} : fates'[d] = fates[d]
         /\ Cardinality(Dealt') = Cardinality(Dealt) + 1
         /\ Cardinality(Dealt') <= Len(plan)
<1>1. fates \in [Everyone -> Fates]
  BY DEF Progress, TypeInv
<1>2. /\ fates' \in [Everyone -> Fates] /\ fates'[c] = fate
      /\ \A d \in Everyone \ {c} : fates'[d] = fates[d]
  BY <1>1
<1>3. Dealt' = Dealt \cup {c} /\ c \notin Dealt
  BY <1>1, <1>2, SameAttempt DEF Dealt
<1>4. IsFiniteSet(Dealt) /\ Cardinality(Dealt) \in Nat
  BY DealtIsFinite DEF Progress
<1>5. Cardinality(Dealt \cup {c}) = Cardinality(Dealt) + 1
  BY <1>3, <1>4, FS_AddElement
<1>6. Everyone = 1 .. Len(plan) /\ Len(plan) \in Nat
  BY PlanType DEF Progress, TypeInv
<1>7. Cardinality(Dealt \cup {c}) <= Len(plan)
  <2>1. IsFiniteSet(1 .. Len(plan)) /\ Cardinality(1 .. Len(plan)) = Len(plan)
    BY PlanIsFinite DEF Progress, TypeInv
  <2>2. Dealt \cup {c} \subseteq 1 .. Len(plan)
    BY <1>6 DEF Dealt
  <2> QED
    BY <2>1, <2>2, FS_Subset
<1> QED
  BY <1>2, <1>3, <1>5, <1>7

\* The stage at the head of the script, while it has commands.
LEMMA HeadPhase ==
  ASSUME Progress, At("phase"), Head(script).commands # << >>
  PROVE  /\ pc = "running" /\ script \in Seq(StageRecords) /\ Len(script) \in Nat \ {0}
         /\ Head(script) = script[1] /\ script[1].do = "phase" /\ script[1] \in StageRecords
         /\ Head(script[1].commands) \in Everyone
         /\ fates[Head(script[1].commands)] = "unsent"
         /\ \E last \in 0 .. Len(plan) :
              LET c == Head(script[1].commands) IN
              /\ script[1].commands = Slice(c, last) /\ c <= last
              /\ Tail(script[1].commands) = Slice(c + 1, last)
              /\ Tail(script[1].commands) \in Seq(Everyone)
<1>1. pc = "running" /\ script \in Seq(StageRecords) /\ script # << >>
  BY DEF Progress, TypeInv, At, Shape
<1>2. Len(script) \in Nat \ {0} /\ Head(script) = script[1] /\ script[1] \in StageRecords
  BY <1>1
<1>3. script[1].do = "phase" /\ WellFormed(plan, script[1])
  BY <1>2 DEF At, Progress, Shape
<1>4. PICK first \in 1 .. Len(plan) + 1, last \in 0 .. Len(plan) :
        script[1].commands = Slice(first, last)
  BY <1>3 DEF WellFormed
<1>5. Len(plan) \in Nat /\ Everyone = 1 .. Len(plan)
  BY PlanType DEF Progress, TypeInv
<1>6. first \in Nat \ {0} /\ last \in Nat
  BY <1>4, <1>5
<1>7. first <= last
  BY <1>2, <1>4, <1>6, SliceIs
<1>8. Head(script[1].commands) = first /\ Tail(script[1].commands) = Slice(first + 1, last)
  BY <1>4, <1>6, <1>7, SliceIs
<1>9. first \in Everyone
  BY <1>4, <1>5, <1>6, <1>7
<1>10. Carries(script[1]) /\ Has(script[1], first)
  BY <1>3, <1>4, <1>6, <1>7, HasStretch DEF Carries
<1>11. fates[first] = "unsent"
  BY <1>1, <1>2, <1>9, <1>10 DEF Progress, Pending
<1>12. Tail(script[1].commands) \in Seq(Everyone)
  <2>1. script[1].commands \in Seq(Everyone)
    BY <1>2 DEF StageRecords
  <2> QED
    BY <1>2, <2>1
<1> QED
  BY <1>1, <1>2, <1>3, <1>4, <1>7, <1>8, <1>9, <1>11, <1>12

\* The command at the head of a phase is done with, and the phase goes on.
LEMMA PassesSafely ==
  ASSUME Progress, At("phase"), Head(script).commands # << >>,
         NEW c \in Everyone, c = Head(Head(script).commands),
         NEW fate \in {"accepted", "notSent", "refused"},
         NEW outcome \in {"completed", "optional"},
         outcome = "completed" <=> fate = "accepted",
         outcome = "optional" => ~plan[c].required,
         attempt' = attempt, queried' = queried, link' = link, rx' \in Receivers,
         fates' = [fates EXCEPT ![c] = fate],
         writes' \in [Everyone -> Nat], writes'[c] <= 1,
         \A d \in Everyone \ {c} : writes'[d] = writes[d],
         CommandPassed(outcome)
  PROVE  Progress'
<1> DEFINE rest == [script[1] EXCEPT !.commands = Tail(@)]
<1>1. /\ pc = "running" /\ script \in Seq(StageRecords) /\ Len(script) \in Nat \ {0}
      /\ Head(script) = script[1] /\ script[1].do = "phase" /\ script[1] \in StageRecords
      /\ c = Head(script[1].commands) /\ fates[c] = "unsent"
  BY HeadPhase
<1>2. PICK last \in 0 .. Len(plan) :
        /\ script[1].commands = Slice(c, last) /\ c <= last
        /\ Tail(script[1].commands) = Slice(c + 1, last)
        /\ Tail(script[1].commands) \in Seq(Everyone)
  BY <1>1, HeadPhase
<1>3. /\ rest \in StageRecords /\ rest.do = "phase" /\ rest.baud = script[1].baud
      /\ rest.commands = Slice(c + 1, last)
  BY <1>1, <1>2 DEF StageRecords
<1>4. /\ script' \in Seq(StageRecords) /\ Len(script') = Len(script) /\ script'[1] = rest
      /\ \A k \in 2 .. Len(script) : script'[k] = script[k]
  <2>1. script' = <<rest>> \o Tail(script)
    BY <1>1 DEF CommandPassed
  <2>2. Tail(script) \in Seq(StageRecords) /\ Len(Tail(script)) = Len(script) - 1
        /\ \A k \in 2 .. Len(script) : k - 1 \in 1 .. Len(Tail(script)) /\ Tail(script)[k - 1] = script[k]
    BY <1>1, TailIs
  <2>3. <<rest>> \in Seq(StageRecords) /\ Len(<<rest>>) = 1 /\ <<rest>>[1] = rest
    BY <1>3
  <2> HIDE DEF rest
  <2> QED
    BY <1>1, <2>1, <2>2, <2>3
<1>5. Len(plan) \in Nat /\ Everyone = 1 .. Len(plan)
  BY PlanType DEF Progress, TypeInv
<1>6. /\ fates' \in [Everyone -> Fates] /\ fates'[c] = fate
      /\ \A d \in Everyone \ {c} : fates'[d] = fates[d]
      /\ Cardinality(Dealt') = Cardinality(Dealt) + 1 /\ Cardinality(Dealt') <= Len(plan)
  BY <1>1, DealsOne DEF Fates
<1>7. /\ pc' = "running" /\ report' = report /\ ~Succeeded'
      /\ tally' \in [completed : Nat, optional : Nat]
      /\ tally'.completed + tally'.optional = tally.completed + tally.optional + 1
      /\ tally'.optional = 0 <=> tally.optional = 0 /\ outcome = "completed"
  <2>1. tally \in [completed : Nat, optional : Nat]
    BY DEF Progress, TypeInv
  <2>2. tally' = [tally EXCEPT ![outcome] = @ + 1]
    BY DEF CommandPassed
  <2>3. pc' = "running" /\ report' = report /\ ~Succeeded'
    BY <1>1 DEF CommandPassed, Succeeded
  <2>4. ASSUME outcome = "completed"
        PROVE  tally' = [completed |-> tally.completed + 1, optional |-> tally.optional]
    BY <2>1, <2>2, <2>4
  <2>5. ASSUME outcome = "optional"
        PROVE  tally' = [completed |-> tally.completed, optional |-> tally.optional + 1]
    BY <2>1, <2>2, <2>5
  <2>6. tally.completed \in Nat /\ tally.optional \in Nat
    BY <2>1
  <2>7. CASE outcome = "completed"
    BY SMTT(30), <2>3, <2>4, <2>6, <2>7
  <2>8. CASE outcome = "optional"
    <3>1. /\ tally'.completed = tally.completed /\ tally'.optional = tally.optional + 1
          /\ tally' \in [completed : Nat, optional : Nat]
      BY <2>5, <2>6, <2>8
    <3>2. /\ tally.optional + 1 # 0 /\ outcome # "completed"
          /\ tally.completed + (tally.optional + 1) = tally.completed + tally.optional + 1
      BY <2>6, <2>8
    <3> QED
      BY <2>3, <3>1, <3>2
  <2> QED
    BY <2>7, <2>8
<1> HIDE DEF rest
<1>8. TypeInv'
  BY <1>4, <1>6, <1>7, SameAttempt DEF Progress, TypeInv
<1>9. Shape'
  <2>1. ASSUME NEW k \in 1 .. Len(script')
        PROVE  /\ WellFormed(plan', script'[k])
               /\ script'[k].do = "finish" <=> k = Len(script')
               /\ script'[k].do = "decide" => k + 1 = Len(script')
    <3>1. /\ WellFormed(plan, script[k])
          /\ script[k].do = "finish" <=> k = Len(script)
          /\ script[k].do = "decide" => k + 1 = Len(script)
      BY <1>1, <1>4 DEF Progress, Shape
    <3>2. CASE k = 1
      <4>1. c + 1 \in 1 .. Len(plan) + 1 /\ last \in 0 .. Len(plan)
        BY SMTT(30), <1>2, <1>5
      <4>2. WellFormed(plan, rest)
        BY <1>1, <1>3, <3>1, <3>2, <4>1 DEF WellFormed
      <4> QED
        BY <1>1, <1>3, <1>4, <3>1, <3>2, <4>2, SameAttempt
    <3>3. CASE k # 1
      <4>1. script'[k] = script[k]
        BY <1>4, <3>3
      <4> QED
        BY <1>4, <3>1, <4>1, SameAttempt
    <3> QED
      BY <3>2, <3>3
  <2>2. script' # << >>
    BY <1>1, <1>4
  <2> QED
    BY <1>7, <2>1, <2>2 DEF Shape
<1>10. Pending'
  <2>1. /\ \A d \in Everyone :
              fates[d] = "unsent" <=> \E k \in 1 .. Len(script) : Has(script[k], d)
        /\ \A d \in Everyone, j, k \in 1 .. Len(script) :
              Has(script[j], d) /\ Has(script[k], d) => j = k
    BY <1>1 DEF Progress, Pending
  <2>2. \A d \in Everyone : /\ Has(script[1], d) <=> d \in c .. last
                            /\ Has(rest, d) <=> d \in c + 1 .. last
    <3>1. Carries(script[1]) /\ Carries(rest) /\ c \in Nat \ {0} /\ last \in Nat /\ c + 1 \in Nat \ {0}
      BY <1>1, <1>3, <1>5 DEF Carries
    <3> QED
      BY SMTT(30), <1>2, <1>3, <1>5, <3>1, HasStretch
  <2>3. \A d \in Everyone, k \in 1 .. Len(script) :
          Has(script'[k], d) <=> Has(script[k], d) /\ d # c
    <3>1. ASSUME NEW d \in Everyone, NEW k \in 1 .. Len(script), k # 1
          PROVE  Has(script'[k], d) <=> Has(script[k], d) /\ d # c
      <4>1. script'[k] = script[k]
        BY <1>4, <3>1
      <4>2. Has(script[1], c) /\ 1 \in 1 .. Len(script)
        BY SMTT(30), <1>1, <1>2, <1>5, <2>2
      <4>3. ~Has(script[k], c)
        BY <2>1, <3>1, <4>2
      <4> QED
        BY <4>1, <4>3
    <3>2. ASSUME NEW d \in Everyone PROVE Has(script'[1], d) <=> Has(script[1], d) /\ d # c
      BY <1>4, <1>5, <2>2
    <3> QED
      BY <3>1, <3>2
  <2> QED
    BY <1>1, <1>4, <1>6, <1>7, <2>1, <2>3, SameAttempt DEF Pending
<1>11. Counted'
  <2>1. tally.completed + tally.optional = Cardinality(Dealt)
    BY <1>1 DEF Progress, Counted
  <2>2. \A d \in Everyone : writes'[d] <= 1 /\ (fates'[d] = "unsent" => writes'[d] = 0)
    BY <1>6 DEF Progress, Counted
  <2> QED
    BY <1>6, <1>7, <2>1, <2>2, SameAttempt DEF Counted
<1>12. Judged'
  <2>1. /\ \A d \in Everyone : fates[d] # "unknown" /\ (Failed(d) => ~plan[d].required)
        /\ ~report.indeterminate /\ (tally.optional = 0 <=> \A d \in Everyone : ~Failed(d))
    BY <1>1 DEF Progress, Judged
  <2>2. \A d \in Everyone : fates'[d] # "unknown" /\ (fates'[d] \in {"notSent", "refused"} => ~plan[d].required)
    BY <1>6, <2>1 DEF Failed
  <2>3. tally'.optional = 0 <=> \A d \in Everyone : fates'[d] \notin {"notSent", "refused"}
    <3>1. CASE outcome = "completed"
      <4>1. fate = "accepted"
        BY <3>1
      <4> QED
        BY <1>1, <1>6, <1>7, <2>1, <3>1, <4>1 DEF Failed
    <3>2. CASE outcome = "optional"
      <4>1. fates'[c] \in {"notSent", "refused"} /\ tally'.optional # 0
        BY <1>6, <1>7, <3>2
      <4> QED
        BY <4>1
    <3> QED
      BY <3>1, <3>2
  <2> QED
    BY <1>7, <2>1, <2>2, <2>3, SameAttempt DEF Judged, Failed
<1> QED
  BY <1>8, <1>9, <1>10, <1>11, <1>12 DEF Progress

\* The receiver that has acted on a command is a receiver still.
LEMMA ObeyedTypes ==
  ASSUME TypeInv, NEW c \in Everyone, NEW r \in Obeyed(c)
  PROVE  r \in Receivers
<1>1. /\ plan[c].kind \in Kinds
      /\ plan[c].kind = "com1" => plan[c].value \in Bauds
      /\ plan[c].kind = "signalgroup" => plan[c].value \in Groups
  BY PlanType DEF TypeInv
<1>2. rx \in Receivers /\ FactoryBaud \in Bauds /\ FactoryGroups \in Groups
  BY WorkflowAssumption DEF TypeInv
<1>3. CASE plan[c].kind = "com1"
  <2>1. r = [rx EXCEPT !.baud = plan[c].value]
    BY <1>3 DEF Obeyed
  <2> QED
    BY <1>1, <1>2, <1>3, <2>1 DEF Receivers
<1>4. CASE plan[c].kind = "freset"
  <2>1. r = [up |-> FALSE, baud |-> FactoryBaud, groups |-> FactoryGroups, settings |-> {},
             saved |-> [baud |-> FactoryBaud, settings |-> {}]]
    BY <1>4 DEF Obeyed
  <2> QED
    BY <1>2, <2>1 DEF Receivers
<1>5. CASE plan[c].kind = "signalgroup"
  <2>1. \/ \E groups \in {plan[c].value, rx.groups} : r = [rx EXCEPT !.groups = groups]
        \/ \E groups \in {plan[c].value, rx.groups}, baud \in {rx.baud, rx.saved.baud},
              settings \in {rx.settings, rx.saved.settings} :
             r = [rx EXCEPT !.groups = groups, !.up = FALSE, !.baud = baud, !.settings = settings]
    BY <1>5 DEF Obeyed
  <2>2. /\ plan[c].value \in Groups /\ rx.groups \in Groups /\ {rx.baud, rx.saved.baud} \subseteq Bauds
        /\ {rx.settings, rx.saved.settings} \subseteq SUBSET Everyone
    BY <1>1, <1>2, <1>5 DEF Receivers
  <2>3. ASSUME NEW groups \in {plan[c].value, rx.groups}, r = [rx EXCEPT !.groups = groups]
        PROVE  r \in Receivers
    BY <1>2, <2>2, <2>3 DEF Receivers
  <2>4. ASSUME NEW groups \in {plan[c].value, rx.groups}, NEW baud \in {rx.baud, rx.saved.baud},
               NEW settings \in {rx.settings, rx.saved.settings},
               r = [rx EXCEPT !.groups = groups, !.up = FALSE, !.baud = baud, !.settings = settings]
        PROVE  r \in Receivers
    BY <1>2, <2>2, <2>4 DEF Receivers
  <2> QED
    BY <2>1, <2>3, <2>4
<1>6. CASE plan[c].kind = "save"
  <2>1. r = [rx EXCEPT !.saved = [baud |-> rx.baud, settings |-> rx.settings]]
    BY <1>6 DEF Obeyed
  <2> QED
    BY <1>2, <2>1 DEF Receivers
<1>7. CASE plan[c].kind = "setting"
  <2>1. r = [rx EXCEPT !.settings = @ \cup {c}]
    BY <1>7 DEF Obeyed
  <2> QED
    BY <1>2, <2>1 DEF Receivers
<1> QED
  BY <1>1, <1>3, <1>4, <1>5, <1>6, <1>7 DEF Kinds

LEMMA SendsSafely ==
  ASSUME Progress, SendsCommand
  PROVE  Progress'
<1> DEFINE c == Head(Head(script).commands)
<1>1. /\ At("phase") /\ Head(script).commands # << >> /\ attempt' = attempt
      /\ queried' = queried /\ link' = link
      /\ NotSent(c) \/ Accepted(c) \/ Refused(c) \/ Doubtful(c)
  BY DEF SendsCommand
<1>2. c \in Everyone /\ fates[c] = "unsent" /\ pc = "running"
  BY <1>1, HeadPhase
<1>3. /\ queried \in Groups \cup {NoGroups} /\ link \in Bauds /\ rx \in Receivers
      /\ fates \in [Everyone -> Fates] /\ writes \in [Everyone -> Nat] /\ plan[c].required \in BOOLEAN
  BY <1>2, PlanType DEF Progress, TypeInv
<1>4. /\ \A d \in Everyone : writes[d] <= 1 /\ (fates[d] = "unsent" => writes[d] = 0)
      /\ \A d \in Everyone : fates[d] # "unknown"
  BY <1>2 DEF Progress, Counted, Judged
<1>5. ASSUME CountWrite(c)
      PROVE  /\ writes' \in [Everyone -> Nat] /\ writes'[c] = 1
             /\ \A d \in Everyone \ {c} : writes'[d] = writes[d]
  BY <1>2, <1>3, <1>4, <1>5 DEF CountWrite
<1> HIDE DEF c
<1>6. ASSUME NEW fate \in {"notSent", "refused"}, fates' = [fates EXCEPT ![c] = fate],
             NEW status \in {"dispatchFailed", "rejected"}, OptionalOr(status, c),
             rx' = rx, writes' = writes \/ CountWrite(c)
      PROVE  Progress'
  <2>1. /\ writes' \in [Everyone -> Nat] /\ writes'[c] <= 1
        /\ \A d \in Everyone \ {c} : writes'[d] = writes[d]
    BY <1>2, <1>3, <1>4, <1>5, <1>6
  <2>2. CASE plan[c].required
    <3>1. Ends(status, FALSE) /\ tally' = tally
      BY <1>6, <2>2 DEF OptionalOr
    <3>2. /\ fates' \in [Everyone -> Fates]
          /\ \A d \in Everyone : fates'[d] = IF d = c THEN fate ELSE fates[d]
      BY <1>2, <1>3, <1>6 DEF Fates
    <3>3. \A d \in Everyone : writes'[d] <= 1 /\ (fates'[d] = "unsent" => writes'[d] = 0)
      BY <1>2, <1>4, <2>1, <3>2
    <3>4. (\E d \in Everyone : fates'[d] = "unknown") <=> FALSE
      BY <1>4, <3>2
    <3>5. status \in Statuses \ {"ok", "partialSuccess"} /\ FALSE \in BOOLEAN /\ pc # "done"
      BY <1>2 DEF Statuses
    <3> QED
      BY <1>1, <1>3, <1>6, <2>1, <3>1, <3>2, <3>3, <3>4, <3>5, EndsSafely
  <2>3. CASE ~plan[c].required
    <3>1. CommandPassed("optional")
      BY <1>6, <2>3 DEF OptionalOr
    <3>2. "optional" \in {"completed", "optional"} /\ fate \in {"accepted", "notSent", "refused"}
          /\ ("optional" = "completed" <=> fate = "accepted")
      OBVIOUS
    <3> QED
      BY <1>1, <1>2, <1>3, <1>6, <2>1, <2>3, <3>1, <3>2, PassesSafely DEF c
  <2> QED
    BY <1>3, <2>2, <2>3
<1>7. CASE NotSent(c)
  BY <1>6, <1>7 DEF NotSent
<1>8. CASE Refused(c)
  BY <1>6, <1>8 DEF Refused
<1>9. CASE Accepted(c)
  <2>1. /\ fates' = [fates EXCEPT ![c] = "accepted"] /\ CountWrite(c) /\ CommandPassed("completed")
        /\ rx' \in {rx} \cup Obeyed(c)
    BY <1>9 DEF Accepted
  <2>2. rx' \in Receivers
    BY <1>2, <1>3, <2>1, ObeyedTypes DEF Progress
  <2>3. /\ "completed" \in {"completed", "optional"} /\ "accepted" \in {"accepted", "notSent", "refused"}
        /\ ("completed" = "completed" <=> "accepted" = "accepted") /\ "completed" # "optional"
    OBVIOUS
  <2>4. /\ writes' \in [Everyone -> Nat] /\ writes'[c] <= 1
        /\ \A d \in Everyone \ {c} : writes'[d] = writes[d]
    BY <1>5, <2>1
  <2> QED
    BY <1>1, <1>2, <2>1, <2>2, <2>3, <2>4, PassesSafely DEF c
<1>10. CASE Doubtful(c)
  <2>1. /\ fates' = [fates EXCEPT ![c] = "unknown"] /\ CountWrite(c) /\ tally' = tally
        /\ rx' \in {rx} \cup Obeyed(c)
    BY <1>10 DEF Doubtful
  <2>2. PICK status \in {"dispatchFailed", "timedOut", "readFailed"} : Ends(status, TRUE)
    BY <1>10 DEF Doubtful
  <2>3. rx' \in Receivers
    BY <1>2, <1>3, <2>1, ObeyedTypes DEF Progress
  <2>4. /\ fates' \in [Everyone -> Fates]
        /\ \A d \in Everyone : fates'[d] = IF d = c THEN "unknown" ELSE fates[d]
    BY <1>2, <1>3, <2>1 DEF Fates
  <2>5. \A d \in Everyone : writes'[d] <= 1 /\ (fates'[d] = "unsent" => writes'[d] = 0)
    BY <1>2, <1>4, <1>5, <2>1, <2>4
  <2>6. (\E d \in Everyone : fates'[d] = "unknown") <=> TRUE
    BY <1>2, <2>4
  <2>7. status \in Statuses \ {"ok", "partialSuccess"} /\ TRUE \in BOOLEAN /\ pc # "done"
    BY <1>2 DEF Statuses
  <2> QED
    BY <1>1, <1>3, <1>5, <2>1, <2>2, <2>3, <2>4, <2>5, <2>6, <2>7, EndsSafely
<1> QED
  BY <1>1, <1>7, <1>8, <1>9, <1>10

-----------------------------------------------------------------------------
(* Scripts                                                                 *)

\* A part of a script that sends the commands in C, each in one place.
Covers(s, C) ==
  /\ s \in Seq(StageRecords)
  /\ \A k \in 1 .. Len(s) :
       /\ WellFormed(plan, s[k])
       /\ s[k].do # "finish"
       /\ s[k].do = "decide" => k = Len(s)
  /\ \A c \in Everyone : c \in C <=> \E k \in 1 .. Len(s) : Has(s[k], c)
  /\ \A c \in Everyone, j, k \in 1 .. Len(s) : Has(s[j], c) /\ Has(s[k], c) => j = k

LEMMA JoinIs ==
  ASSUME NEW S, NEW s \in Seq(S), NEW t \in Seq(S)
  PROVE  /\ s \o t \in Seq(S) /\ Len(s) \in Nat /\ Len(t) \in Nat /\ Len(s \o t) = Len(s) + Len(t)
         /\ \A k \in 1 .. Len(s) : (s \o t)[k] = s[k]
         /\ \A k \in 1 .. Len(t) : (s \o t)[Len(s) + k] = t[k] /\ Len(s) + k \in 1 .. Len(s \o t)
         /\ \A k \in 1 .. Len(s \o t) :
              k \in 1 .. Len(s) \/ (k - Len(s) \in 1 .. Len(t) /\ (s \o t)[k] = t[k - Len(s)])
OBVIOUS

LEMMA CoversJoined ==
  ASSUME NEW s, NEW t, NEW C, NEW D, Covers(s, C), Covers(t, D), C \cap D = {},
         \A k \in 1 .. Len(s) : s[k].do # "decide"
  PROVE  Covers(s \o t, C \cup D)
<1> DEFINE u == s \o t
<1>1. s \in Seq(StageRecords) /\ t \in Seq(StageRecords)
  BY DEF Covers
<1>2. /\ u \in Seq(StageRecords) /\ Len(s) \in Nat /\ Len(t) \in Nat /\ Len(u) = Len(s) + Len(t)
      /\ \A k \in 1 .. Len(s) : u[k] = s[k]
      /\ \A k \in 1 .. Len(t) : u[Len(s) + k] = t[k] /\ Len(s) + k \in 1 .. Len(u)
      /\ \A k \in 1 .. Len(u) : k \in 1 .. Len(s) \/ (k - Len(s) \in 1 .. Len(t) /\ u[k] = t[k - Len(s)])
  BY <1>1, JoinIs
<1> HIDE DEF u
<1>3. ASSUME NEW k \in 1 .. Len(u)
      PROVE  WellFormed(plan, u[k]) /\ u[k].do # "finish" /\ (u[k].do = "decide" => k = Len(u))
  <2>1. CASE k \in 1 .. Len(s)
    <3>1. u[k] = s[k]
      BY <1>2, <2>1
    <3> QED
      BY <2>1, <3>1 DEF Covers
  <2>2. CASE k - Len(s) \in 1 .. Len(t) /\ u[k] = t[k - Len(s)]
    <3>1. /\ WellFormed(plan, t[k - Len(s)]) /\ t[k - Len(s)].do # "finish"
          /\ t[k - Len(s)].do = "decide" => k - Len(s) = Len(t)
      BY <2>2 DEF Covers
    <3>2. k - Len(s) = Len(t) => k = Len(u)
      BY <1>2
    <3> QED
      BY <2>2, <3>1, <3>2
  <2> QED
    BY <1>2, <2>1, <2>2
<1>4. ASSUME NEW c \in Everyone, c \in C \cup D PROVE \E k \in 1 .. Len(u) : Has(u[k], c)
  <2>1. CASE c \in C
    <3>1. PICK k \in 1 .. Len(s) : Has(s[k], c)
      BY <2>1 DEF Covers
    <3>2. k \in 1 .. Len(u) /\ u[k] = s[k]
      BY <1>2
    <3> QED
      BY <3>1, <3>2
  <2>2. CASE c \in D
    BY <1>2, <2>2 DEF Covers
  <2> QED
    BY <1>4, <2>1, <2>2
<1>5. ASSUME NEW c \in Everyone, NEW k \in 1 .. Len(u), Has(u[k], c)
      PROVE  \/ k \in 1 .. Len(s) /\ Has(s[k], c) /\ c \in C
             \/ k - Len(s) \in 1 .. Len(t) /\ Has(t[k - Len(s)], c) /\ c \in D
  BY <1>2, <1>5 DEF Covers
<1>6. ASSUME NEW c \in Everyone, NEW j \in 1 .. Len(u), NEW k \in 1 .. Len(u),
             Has(u[j], c), Has(u[k], c)
      PROVE  j = k
  <2>1. CASE c \in C
    BY <1>5, <1>6, <2>1 DEF Covers
  <2>2. CASE c \in D
    <3>1. j - Len(s) \in 1 .. Len(t) /\ k - Len(s) \in 1 .. Len(t)
          /\ Has(t[j - Len(s)], c) /\ Has(t[k - Len(s)], c)
      BY <1>5, <1>6, <2>2
    <3>2. j - Len(s) = k - Len(s)
      BY <3>1 DEF Covers
    <3> QED
      BY <1>2, <3>2
  <2> QED
    BY <1>5, <1>6, <2>1, <2>2
<1> QED
  BY <1>2, <1>3, <1>4, <1>5, <1>6 DEF Covers, u

LEMMA StageIs ==
  ASSUME NEW do \in StageNames, NEW baud \in Bauds \cup {NoBaud}
  PROVE  /\ Stage(do, baud) \in StageRecords
         /\ Stage(do, baud).do = do /\ Stage(do, baud).baud = baud
         /\ Stage(do, baud).commands = << >>
BY WorkflowAssumption DEF Stage, StageRecords

\* A stretch of the plan is a list of its commands.
LEMMA SliceTypes ==
  ASSUME attempt \in Attempts, NEW first \in Nat \ {0}, NEW last \in 0 .. Len(plan)
  PROVE  Slice(first, last) \in Seq(Everyone)
<1>1. Len(plan) \in Nat /\ Everyone = 1 .. Len(plan) /\ last \in Nat
  BY PlanType
<1>2. /\ Slice(first, last) \in Seq(Nat \ {0})
      /\ Len(Slice(first, last)) = IF last < first THEN 0 ELSE last + 1 - first
      /\ \A i \in 1 .. Len(Slice(first, last)) : Slice(first, last)[i] = first + i - 1
  BY <1>1, SliceIs
<1>3. \A i \in 1 .. Len(Slice(first, last)) : first + i - 1 \in Everyone
  BY <1>1, <1>2
<1> DEFINE s == Slice(first, last)
<1>4. s \in Seq(Nat \ {0}) /\ \A i \in 1 .. Len(s) : s[i] \in Everyone
  BY <1>2, <1>3
<1> HIDE DEF s
<1>5. s \in Seq(Everyone)
  BY <1>4
<1> QED
  BY <1>5 DEF s

LEMMA PhaseIs ==
  ASSUME attempt \in Attempts, NEW first \in 1 .. Len(plan) + 1, NEW last \in 0 .. Len(plan)
  PROVE  /\ Phase(first, last) \in StageRecords
         /\ Phase(first, last).do = "phase" /\ Phase(first, last).baud = NoBaud
         /\ Phase(first, last).commands = Slice(first, last)
         /\ WellFormed(plan, Phase(first, last))
         /\ \A c \in Everyone : Has(Phase(first, last), c) <=> c \in first .. last
<1>1. Len(plan) \in Nat /\ Everyone = 1 .. Len(plan) /\ first \in Nat \ {0} /\ last \in Nat
  BY PlanType
<1>2. /\ Stage("phase", NoBaud) \in StageRecords
      /\ Stage("phase", NoBaud).do = "phase" /\ Stage("phase", NoBaud).baud = NoBaud
  BY StageIs DEF StageNames
<1>3. /\ Phase(first, last) \in StageRecords
      /\ Phase(first, last).do = "phase" /\ Phase(first, last).baud = NoBaud
      /\ Phase(first, last).commands = Slice(first, last)
  BY <1>1, <1>2, SliceTypes DEF Phase, StageRecords
<1>4. WellFormed(plan, Phase(first, last))
  BY <1>3 DEF WellFormed
<1>5. \A c \in Everyone : Has(Phase(first, last), c) <=> c \in first .. last
  <2>1. Carries(Phase(first, last))
    BY <1>3 DEF Carries
  <2> QED
    BY <1>1, <1>3, <2>1, HasStretch
<1> QED
  BY <1>3, <1>4, <1>5

\* A stage that is no phase, scan, decision or check has nothing to send.
LEMMA QuietIs ==
  ASSUME NEW do \in {"reopen", "wait", "probe", "query"}, NEW baud \in Bauds
  PROVE  /\ Stage(do, baud) \in StageRecords
         /\ Stage(do, baud).do = do /\ Stage(do, baud).baud = baud
         /\ WellFormed(plan, Stage(do, baud))
         /\ \A c \in Everyone : ~Has(Stage(do, baud), c)
<1>1. /\ Stage(do, baud) \in StageRecords /\ Stage(do, baud).do = do /\ Stage(do, baud).baud = baud
  BY StageIs DEF StageNames
<1> QED
  BY <1>1, WorkflowAssumption DEF WellFormed, Has, Carries

\* The profile: either one phase, or a decision what to do about SIGNALGROUP.
DecideStage(first, baud) == [Stage("decide", baud) EXCEPT !.commands = Slice(first, Len(plan))]

LEMMA DecideIs ==
  ASSUME attempt \in Attempts, NEW first \in 1 .. Len(plan) + 1, NEW baud \in Bauds,
         FirstFrom("signalgroup", first) # 0
  PROVE  /\ DecideStage(first, baud) \in StageRecords
         /\ DecideStage(first, baud).do = "decide" /\ DecideStage(first, baud).baud = baud
         /\ DecideStage(first, baud).commands = Slice(first, Len(plan))
         /\ WellFormed(plan, DecideStage(first, baud)) /\ first \in Everyone
         /\ \A c \in Everyone : Has(DecideStage(first, baud), c) <=> c \in first .. Len(plan)
<1> DEFINE d == DecideStage(first, baud)
<1>1. Len(plan) \in Nat \ {0} /\ Everyone = 1 .. Len(plan) /\ first \in Nat \ {0}
  BY PlanType
<1>2. /\ Stage("decide", baud) \in StageRecords
      /\ Stage("decide", baud).do = "decide" /\ Stage("decide", baud).baud = baud
  BY StageIs DEF StageNames
<1>3. d \in StageRecords /\ d.do = "decide" /\ d.baud = baud /\ d.commands = Slice(first, Len(plan))
  <2>1. Slice(first, Len(plan)) \in Seq(Everyone)
    <3>1. Len(plan) \in 0 .. Len(plan)
      BY <1>1
    <3> QED
      BY <1>1, <3>1, SliceTypes
  <2> QED
    BY <1>2, <2>1 DEF DecideStage, StageRecords
<1>4. PICK group \in first .. Len(plan) : plan[group].kind = "signalgroup"
  BY <1>1, FirstFromFinds DEF Kinds
<1> HIDE DEF d
<1>5. first \in Everyone
  BY <1>1, <1>4
<1>6. WellFormed(plan, d)
  BY <1>1, <1>3, <1>4, <1>5, WorkflowAssumption DEF WellFormed
<1>7. \A c \in Everyone : Has(d, c) <=> c \in first .. Len(plan)
  BY <1>1, <1>3, HasStretch DEF Carries
<1> QED
  BY <1>3, <1>5, <1>6, <1>7 DEF d

LEMMA ProfileCovers ==
  ASSUME attempt \in Attempts, NEW first \in 1 .. Len(plan) + 1, NEW baud \in Bauds
  PROVE  Covers(ProfileStages(first, baud), first .. Len(plan))
<1> DEFINE s == ProfileStages(first, baud)
<1>1. Len(plan) \in Nat \ {0} /\ Everyone = 1 .. Len(plan)
  BY PlanType
<1>2. CASE FirstFrom("signalgroup", first) = 0
  <2> DEFINE p == Phase(first, Len(plan))
  <2>1. /\ p \in StageRecords /\ p.do = "phase" /\ WellFormed(plan, p)
        /\ \A c \in Everyone : Has(p, c) <=> c \in first .. Len(plan)
    BY <1>1, PhaseIs
  <2>2. s = <<p>>
    BY <1>2 DEF ProfileStages
  <2> HIDE DEF p, s
  <2>3. s \in Seq(StageRecords) /\ Len(s) = 1 /\ s[1] = p
    BY <2>1, <2>2
  <2> QED
    BY <2>1, <2>3 DEF Covers, s
<1>3. CASE FirstFrom("signalgroup", first) # 0
  <2> DEFINE q == Stage("query", baud)
             r == Stage("reopen", baud)
             d == DecideStage(first, baud)
  <2>1. /\ {q, r, d} \subseteq StageRecords
        /\ q.do = "query" /\ WellFormed(plan, q) /\ \A c \in Everyone : ~Has(q, c)
        /\ r.do = "reopen" /\ WellFormed(plan, r) /\ \A c \in Everyone : ~Has(r, c)
        /\ d.do = "decide" /\ WellFormed(plan, d)
        /\ \A c \in Everyone : Has(d, c) <=> c \in first .. Len(plan)
    BY <1>3, DecideIs, QuietIs
  <2>2. s = <<q, r, d>>
    BY <1>3 DEF ProfileStages, DecideStage
  <2> HIDE DEF q, r, d, s
  <2>3. s \in Seq(StageRecords) /\ Len(s) = 3 /\ s[1] = q /\ s[2] = r /\ s[3] = d
    BY <2>1, <2>2
  <2>4. \A k \in 1 .. 3 : k = 1 \/ k = 2 \/ k = 3
    OBVIOUS
  <2>5. \A c \in Everyone, k \in 1 .. 3 : Has(s[k], c) <=> k = 3 /\ c \in first .. Len(plan)
    BY <2>1, <2>3, <2>4
  <2>6. \A k \in 1 .. 3 : WellFormed(plan, s[k]) /\ s[k].do # "finish" /\ (s[k].do = "decide" => k = 3)
    BY <2>1, <2>3, <2>4
  <2>7. \A c \in Everyone : c \in first .. Len(plan) <=> \E k \in 1 .. 3 : Has(s[k], c)
    <3>1. 3 \in 1 .. 3
      OBVIOUS
    <3> QED
      BY <2>5, <3>1
  <2>8. Covers(s, first .. Len(plan))
    BY <2>3, <2>5, <2>6, <2>7 DEF Covers
  <2> QED
    BY <2>8 DEF s
<1> QED
  BY <1>2, <1>3

\* The stages of a recovery up to the profile.
LEMMA ResetCovers ==
  ASSUME attempt \in Attempts, NEW reset \in 1 .. Len(plan), NEW com1 \in reset + 1 .. Len(plan),
         NEW baud \in Bauds, NEW s,
         s = <<Stage("scan", NoBaud), Phase(1, reset),
               Stage("reopen", FactoryBaud), Stage("wait", FactoryBaud), Stage("reopen", FactoryBaud),
               Phase(reset + 1, com1),
               Stage("reopen", baud), Stage("wait", baud), Stage("reopen", baud)>>
  PROVE  Covers(s, 1 .. com1) /\ \A k \in 1 .. Len(s) : s[k].do # "decide"
<1> DEFINE a == Stage("scan", NoBaud)
           p == Phase(1, reset)
           ro == Stage("reopen", FactoryBaud)
           wo == Stage("wait", FactoryBaud)
           q == Phase(reset + 1, com1)
           rb == Stage("reopen", baud)
           wb == Stage("wait", baud)
<1>1. Len(plan) \in Nat \ {0} /\ Everyone = 1 .. Len(plan)
  BY PlanType
<1>2. /\ a \in StageRecords /\ a.do = "scan" /\ WellFormed(plan, a) /\ \A c \in Everyone : ~Has(a, c)
  BY StageIs DEF StageNames, WellFormed, Has, Carries
<1>3. /\ p \in StageRecords /\ p.do = "phase" /\ WellFormed(plan, p)
      /\ \A c \in Everyone : Has(p, c) <=> c \in 1 .. reset
  <2>1. 1 \in 1 .. Len(plan) + 1 /\ reset \in 0 .. Len(plan)
    BY <1>1
  <2> QED
    BY <2>1, PhaseIs
<1>4. /\ q \in StageRecords /\ q.do = "phase" /\ WellFormed(plan, q)
      /\ \A c \in Everyone : Has(q, c) <=> c \in reset + 1 .. com1
  <2>1. reset + 1 \in 1 .. Len(plan) + 1 /\ com1 \in 0 .. Len(plan)
    BY <1>1
  <2> QED
    BY <2>1, PhaseIs
<1>5. FactoryBaud \in Bauds
  BY WorkflowAssumption
<1>6. /\ ro \in StageRecords /\ ro.do = "reopen" /\ WellFormed(plan, ro) /\ \A c \in Everyone : ~Has(ro, c)
      /\ wo \in StageRecords /\ wo.do = "wait" /\ WellFormed(plan, wo) /\ \A c \in Everyone : ~Has(wo, c)
      /\ rb \in StageRecords /\ rb.do = "reopen" /\ WellFormed(plan, rb) /\ \A c \in Everyone : ~Has(rb, c)
      /\ wb \in StageRecords /\ wb.do = "wait" /\ WellFormed(plan, wb) /\ \A c \in Everyone : ~Has(wb, c)
  BY <1>5, QuietIs
<1>7. s = <<a, p, ro, wo, ro, q, rb, wb, rb>>
  OBVIOUS
<1> HIDE DEF a, p, ro, wo, q, rb, wb
<1>8. /\ s \in Seq(StageRecords) /\ Len(s) = 9
      /\ s[1] = a /\ s[2] = p /\ s[3] = ro /\ s[4] = wo /\ s[5] = ro /\ s[6] = q
      /\ s[7] = rb /\ s[8] = wb /\ s[9] = rb
  BY <1>2, <1>3, <1>4, <1>6, <1>7
<1>9. \A k \in 1 .. 9 : k \in {1, 2, 3, 4, 5, 6, 7, 8, 9}
  OBVIOUS
<1>10. \A c \in Everyone, k \in 1 .. 9 :
         Has(s[k], c) <=> (k = 2 /\ c \in 1 .. reset) \/ (k = 6 /\ c \in reset + 1 .. com1)
  BY <1>2, <1>3, <1>4, <1>6, <1>8, <1>9
<1>11. \A k \in 1 .. 9 : WellFormed(plan, s[k]) /\ s[k].do \notin {"finish", "decide"}
  BY <1>2, <1>3, <1>4, <1>6, <1>8, <1>9
<1>12. \A c \in Everyone : c \in 1 .. com1 <=> c \in 1 .. reset \/ c \in reset + 1 .. com1
  BY <1>1
<1>13. \A c \in Everyone : ~(c \in 1 .. reset /\ c \in reset + 1 .. com1)
  BY <1>1
<1>14. 2 \in 1 .. 9 /\ 6 \in 1 .. 9
  OBVIOUS
<1>15. \A c \in Everyone : c \in 1 .. com1 <=> \E k \in 1 .. 9 : Has(s[k], c)
  BY <1>10, <1>12, <1>14
<1>16. ASSUME NEW c \in Everyone, NEW j \in 1 .. 9, NEW k \in 1 .. 9,
              Has(s[j], c), Has(s[k], c)
       PROVE  j = k
  <2>1. (j = 2 /\ c \in 1 .. reset) \/ (j = 6 /\ c \in reset + 1 .. com1)
    BY <1>10, <1>16
  <2>2. (k = 2 /\ c \in 1 .. reset) \/ (k = 6 /\ c \in reset + 1 .. com1)
    BY <1>10, <1>16
  <2>3. ~(c \in 1 .. reset /\ c \in reset + 1 .. com1)
    BY <1>13
  <2> QED
    BY <2>1, <2>2, <2>3
<1> QED
  BY <1>8, <1>11, <1>15, <1>16 DEF Covers

\* The stages of a baud switch up to the profile.
LEMMA SwitchCovers ==
  ASSUME attempt \in Attempts, NEW com1 \in 1 .. Len(plan), NEW baud \in Bauds, NEW s,
         s = <<Phase(1, com1), Stage("probe", baud), Stage("reopen", baud)>>
  PROVE  Covers(s, 1 .. com1) /\ \A k \in 1 .. Len(s) : s[k].do # "decide"
<1> DEFINE p == Phase(1, com1)
           b == Stage("probe", baud)
           r == Stage("reopen", baud)
<1>1. Len(plan) \in Nat \ {0} /\ Everyone = 1 .. Len(plan)
  BY PlanType
<1>2. /\ p \in StageRecords /\ p.do = "phase" /\ WellFormed(plan, p)
      /\ \A c \in Everyone : Has(p, c) <=> c \in 1 .. com1
  <2>1. 1 \in 1 .. Len(plan) + 1 /\ com1 \in 0 .. Len(plan)
    BY <1>1
  <2> QED
    BY <2>1, PhaseIs
<1>3. /\ b \in StageRecords /\ b.do = "probe" /\ WellFormed(plan, b) /\ \A c \in Everyone : ~Has(b, c)
      /\ r \in StageRecords /\ r.do = "reopen" /\ WellFormed(plan, r) /\ \A c \in Everyone : ~Has(r, c)
  BY QuietIs
<1> HIDE DEF p, b, r
<1>4. s \in Seq(StageRecords) /\ Len(s) = 3 /\ s[1] = p /\ s[2] = b /\ s[3] = r
  BY <1>2, <1>3 DEF p, b, r
<1>5. \A k \in 1 .. 3 : k \in {1, 2, 3}
  OBVIOUS
<1>6. \A c \in Everyone, k \in 1 .. 3 : Has(s[k], c) <=> k = 1 /\ c \in 1 .. com1
  BY <1>2, <1>3, <1>4, <1>5
<1>7. \A k \in 1 .. 3 : WellFormed(plan, s[k]) /\ s[k].do \notin {"finish", "decide"}
  BY <1>2, <1>3, <1>4, <1>5
<1>8. 1 \in 1 .. 3
  OBVIOUS
<1>9. \A c \in Everyone : c \in 1 .. com1 <=> \E k \in 1 .. 3 : Has(s[k], c)
  BY <1>6, <1>8
<1> QED
  BY <1>4, <1>6, <1>7, <1>9 DEF Covers

\* SIGNALGROUP on its own, and the receiver asked what came of it.
CheckStage(group, baud) == [Stage("check", baud) EXCEPT !.commands = <<group>>]

LEMMA GroupCovers ==
  ASSUME attempt \in Attempts, NEW group \in Everyone, plan[group].kind = "signalgroup",
         NEW baud \in Bauds, NEW s,
         s = <<Phase(group, group),
               Stage("reopen", baud), Stage("wait", baud), Stage("reopen", baud),
               CheckStage(group, baud), Stage("reopen", baud)>>
  PROVE  Covers(s, {group}) /\ \A k \in 1 .. Len(s) : s[k].do # "decide"
<1> DEFINE p == Phase(group, group)
           r == Stage("reopen", baud)
           w == Stage("wait", baud)
           h == CheckStage(group, baud)
<1>1. Len(plan) \in Nat \ {0} /\ Everyone = 1 .. Len(plan)
  BY PlanType
<1>2. /\ p \in StageRecords /\ p.do = "phase" /\ WellFormed(plan, p)
      /\ \A c \in Everyone : Has(p, c) <=> c = group
  <2>1. group \in 1 .. Len(plan) + 1 /\ group \in 0 .. Len(plan)
    BY <1>1
  <2>2. \A c \in Everyone : c \in group .. group <=> c = group
    BY <1>1
  <2> QED
    BY <2>1, <2>2, PhaseIs
<1>3. /\ r \in StageRecords /\ r.do = "reopen" /\ WellFormed(plan, r) /\ \A c \in Everyone : ~Has(r, c)
      /\ w \in StageRecords /\ w.do = "wait" /\ WellFormed(plan, w) /\ \A c \in Everyone : ~Has(w, c)
  BY QuietIs
<1>4. h \in StageRecords /\ h.do = "check" /\ WellFormed(plan, h) /\ \A c \in Everyone : ~Has(h, c)
  <2>1. /\ Stage("check", baud) \in StageRecords
        /\ Stage("check", baud).do = "check" /\ Stage("check", baud).baud = baud
    BY StageIs DEF StageNames
  <2>2. <<group>> \in Seq(Everyone)
    OBVIOUS
  <2>3. h \in StageRecords /\ h.do = "check" /\ h.baud = baud /\ h.commands = <<group>>
    BY <2>1, <2>2 DEF CheckStage, StageRecords
  <2> HIDE DEF h
  <2> QED
    BY <1>1, <2>3, WorkflowAssumption DEF WellFormed, Has, Carries
<1> HIDE DEF p, r, w, h
<1>5. /\ s \in Seq(StageRecords) /\ Len(s) = 6
      /\ s[1] = p /\ s[2] = r /\ s[3] = w /\ s[4] = r /\ s[5] = h /\ s[6] = r
  BY <1>2, <1>3, <1>4 DEF p, r, w, h
<1>6. \A k \in 1 .. 6 : k \in {1, 2, 3, 4, 5, 6}
  OBVIOUS
<1>7. \A c \in Everyone, k \in 1 .. 6 : Has(s[k], c) <=> k = 1 /\ c = group
  BY <1>2, <1>3, <1>4, <1>5, <1>6
<1>8. \A k \in 1 .. 6 : WellFormed(plan, s[k]) /\ s[k].do \notin {"finish", "decide"}
  BY <1>2, <1>3, <1>4, <1>5, <1>6
<1>9. 1 \in 1 .. 6
  OBVIOUS
<1>10. \A c \in Everyone : c \in {group} <=> \E k \in 1 .. 6 : Has(s[k], c)
  BY <1>7, <1>9
<1> QED
  BY <1>5, <1>7, <1>8, <1>10 DEF Covers

LEMMA PhaseCovers ==
  ASSUME attempt \in Attempts, NEW first \in 1 .. Len(plan) + 1, NEW last \in 0 .. Len(plan)
  PROVE  /\ Covers(<<Phase(first, last)>>, first .. last)
         /\ \A k \in 1 .. Len(<<Phase(first, last)>>) : <<Phase(first, last)>>[k].do # "decide"
<1> DEFINE p == Phase(first, last)
           s == <<p>>
<1>1. /\ p \in StageRecords /\ p.do = "phase" /\ WellFormed(plan, p)
      /\ \A c \in Everyone : Has(p, c) <=> c \in first .. last
  BY PhaseIs
<1> HIDE DEF p
<1>2. s \in Seq(StageRecords) /\ Len(s) = 1 /\ s[1] = p
  BY <1>1
<1> HIDE DEF s
<1>3. Covers(s, first .. last) /\ \A k \in 1 .. Len(s) : s[k].do # "decide"
  BY <1>1, <1>2 DEF Covers
<1> QED
  BY <1>3 DEF s, p

LEMMA AroundCovers ==
  ASSUME attempt \in Attempts, NEW first \in Everyone, NEW group \in first .. Len(plan),
         NEW baud \in Bauds, NEW s, s = AroundSignalGroup(first, group, baud)
  PROVE  /\ Covers(s, (first .. Len(plan)) \ {group})
         /\ \A k \in 1 .. Len(s) : s[k].do # "decide"
<1> DEFINE a == <<Phase(first, group - 1)>>
           m == IF group < Len(plan) THEN <<Stage("reopen", baud)>> ELSE << >>
           z == <<Phase(group + 1, Len(plan))>>
<1>1. Len(plan) \in Nat \ {0} /\ Everyone = 1 .. Len(plan) /\ group \in Nat \ {0} /\ first \in Nat \ {0}
  BY PlanType
<1>2. Covers(a, first .. group - 1) /\ \A k \in 1 .. Len(a) : a[k].do # "decide"
  <2>1. first \in 1 .. Len(plan) + 1 /\ group - 1 \in 0 .. Len(plan)
    BY <1>1
  <2> QED
    BY <2>1, PhaseCovers
<1>3. Covers(z, group + 1 .. Len(plan)) /\ \A k \in 1 .. Len(z) : z[k].do # "decide"
  <2>1. group + 1 \in 1 .. Len(plan) + 1 /\ Len(plan) \in 0 .. Len(plan)
    BY <1>1
  <2> QED
    BY <2>1, PhaseCovers
<1>4. Covers(m, {}) /\ \A k \in 1 .. Len(m) : m[k].do # "decide"
  <2> DEFINE r == Stage("reopen", baud)
  <2>1. /\ r \in StageRecords /\ r.do = "reopen" /\ WellFormed(plan, r)
        /\ \A c \in Everyone : ~Has(r, c)
    BY QuietIs
  <2>2. m \in {<<r>>, << >>}
    OBVIOUS
  <2> HIDE DEF r, m
  <2>3. CASE m = << >>
    <3>1. m \in Seq(StageRecords) /\ Len(m) = 0
      BY <2>3
    <3> QED
      BY <3>1 DEF Covers
  <2>4. CASE m = <<r>>
    <3>1. m \in Seq(StageRecords) /\ Len(m) = 1 /\ m[1] = r
      BY <2>1, <2>4
    <3>2. \A k \in 1 .. 1 : k = 1
      OBVIOUS
    <3> QED
      BY <2>1, <3>1, <3>2 DEF Covers
  <2> QED
    BY <2>2, <2>3, <2>4
<1>5. s = (a \o m) \o z
  BY DEF AroundSignalGroup
<1> HIDE DEF a, m, z
<1>6. Covers(a \o m, (first .. group - 1) \cup {})
  BY <1>2, <1>4, CoversJoined
<1>7. \A k \in 1 .. Len(a \o m) : (a \o m)[k].do # "decide"
  <2>1. a \in Seq(StageRecords) /\ m \in Seq(StageRecords)
    BY <1>2, <1>4 DEF Covers
  <2> QED
    BY <1>2, <1>4, <2>1, JoinIs
<1> DEFINE u == a \o m
           C == (first .. group - 1) \cup {}
           D == group + 1 .. Len(plan)
<1>8. Covers(s, C \cup D)
  <2>1. C \cap D = {}
    BY <1>1
  <2>2. Covers(u, C) /\ Covers(z, D) /\ \A k \in 1 .. Len(u) : u[k].do # "decide"
    BY <1>3, <1>6, <1>7
  <2>3. s = u \o z
    BY <1>5
  <2> HIDE DEF u, C, D
  <2>4. Covers(u \o z, C \cup D)
    BY <2>1, <2>2, CoversJoined
  <2> QED
    BY <2>3, <2>4
<1>9. \A k \in 1 .. Len(s) : s[k].do # "decide"
  <2>1. a \o m \in Seq(StageRecords) /\ z \in Seq(StageRecords)
    BY <1>3, <1>6 DEF Covers
  <2> QED
    BY <1>3, <1>5, <1>7, <2>1, JoinIs
<1>10. ((first .. group - 1) \cup {}) \cup (group + 1 .. Len(plan)) = (first .. Len(plan)) \ {group}
  BY <1>1
<1> QED
  BY <1>8, <1>9, <1>10

-----------------------------------------------------------------------------
(* Scripts begun and continued                                             *)

LEMMA FinishIs ==
  ASSUME NEW baud \in Bauds
  PROVE  /\ Stage("finish", baud) \in StageRecords
         /\ Stage("finish", baud).do = "finish" /\ Stage("finish", baud).baud = baud
         /\ WellFormed(plan, Stage("finish", baud))
<1>1. /\ Stage("finish", baud) \in StageRecords
      /\ Stage("finish", baud).do = "finish" /\ Stage("finish", baud).baud = baud
  BY StageIs DEF StageNames
<1> QED
  BY <1>1, WorkflowAssumption DEF WellFormed

\* A part that sends what nothing became of yet, and then the end, is a script.
LEMMA ScriptIs ==
  ASSUME attempt \in Attempts, attempt' = attempt, pc' = "running",
         NEW s, NEW f \in StageRecords, f.do = "finish", WellFormed(plan, f),
         NEW C, Covers(s, C), script' = s \o <<f>>,
         \A c \in Everyone : fates'[c] = "unsent" <=> c \in C
  PROVE  script' \in Seq(StageRecords) /\ Shape' /\ Pending'
<1> DEFINE n == Len(s)
           u == script'
<1>1. s \in Seq(StageRecords) /\ <<f>> \in Seq(StageRecords) /\ Len(<<f>>) = 1 /\ <<f>>[1] = f
  BY DEF Covers
<1>2. /\ u \in Seq(StageRecords) /\ n \in Nat /\ Len(u) = n + 1
      /\ \A k \in 1 .. n : u[k] = s[k]
      /\ u[n + 1] = f
  BY <1>1, JoinIs
<1>3. \A k \in 1 .. Len(u) : k \in 1 .. n \/ k = n + 1
  BY <1>2
<1>4. ASSUME NEW k \in 1 .. Len(u)
      PROVE  /\ WellFormed(plan', u[k])
             /\ u[k].do = "finish" <=> k = Len(u)
             /\ u[k].do = "decide" => k + 1 = Len(u)
  <2>1. CASE k \in 1 .. n
    <3>1. /\ WellFormed(plan, s[k]) /\ s[k].do # "finish" /\ (s[k].do = "decide" => k = n)
      BY <2>1 DEF Covers
    <3>2. u[k] = s[k] /\ k # n + 1 /\ Len(u) = n + 1 /\ plan' = plan
      BY <1>2, <2>1, SameAttempt
    <3> HIDE DEF n, u
    <3> QED
      BY <3>1, <3>2
  <2>2. CASE k = n + 1
    <3>1. u[k] = f /\ Len(u) = n + 1 /\ plan' = plan
      BY <1>2, <2>2, SameAttempt
    <3> HIDE DEF n, u
    <3> QED
      BY <2>2, <3>1
  <2> QED
    BY <1>3, <2>1, <2>2
<1>5. \A c \in Everyone : ~Has(f, c)
  BY DEF Has, Carries
<1>6. ASSUME NEW c \in Everyone
      PROVE  fates'[c] = "unsent" <=> \E k \in 1 .. Len(u) : Has(u[k], c)
  <2>1. c \in C <=> \E k \in 1 .. n : Has(s[k], c)
    BY DEF Covers
  <2>2. \A k \in 1 .. n : k \in 1 .. Len(u)
    BY <1>2
  <2> HIDE DEF n, u
  <2> QED
    BY <1>2, <1>3, <1>5, <2>1, <2>2
<1>7. ASSUME NEW c \in Everyone, NEW j \in 1 .. Len(u), NEW k \in 1 .. Len(u),
             Has(u[j], c), Has(u[k], c)
      PROVE  j = k
  <2>1. j \in 1 .. n /\ k \in 1 .. n
    BY <1>2, <1>3, <1>5, <1>7
  <2>2. Has(s[j], c) /\ Has(s[k], c)
    BY <1>2, <1>7, <2>1
  <2> QED
    BY <2>1, <2>2 DEF Covers
<1>8. Shape'
  <2>1. u # << >>
    <3>1. Len(u) # 0
      BY <1>2
    <3>2. Len(<< >>) = 0
      OBVIOUS
    <3> QED
      BY <3>1, <3>2, Zenon
  <2> QED
    BY <1>4, <2>1 DEF Shape
<1>9. Pending'
  BY <1>6, <1>7, SameAttempt DEF Pending
<1> QED
  BY <1>2, <1>8, <1>9

LEMMA BeginsSafely ==
  ASSUME Progress, pc = "prepare", attempt' = attempt, queried' = queried, link' = link,
         tally' = tally, rx' = rx, fates' = fates, writes' = writes, report' = report,
         pc' = "running", NEW s, Covers(s, 1 .. Len(plan)), NEW baud \in Bauds,
         script' = s \o <<Stage("finish", baud)>>
  PROVE  Progress'
<1>1. attempt \in Attempts /\ Everyone = 1 .. Len(plan)
  BY PlanType DEF Progress, TypeInv
<1>2. \A c \in Everyone : fates'[c] = "unsent" <=> c \in 1 .. Len(plan)
  BY <1>1 DEF Progress, Pending
<1>3. script' \in Seq(StageRecords) /\ Shape' /\ Pending'
  BY <1>1, <1>2, FinishIs, ScriptIs
<1>4. TypeInv'
  BY <1>3, SameAttempt DEF Progress, TypeInv
<1>5. Counted'
  <2>1. Dealt' = Dealt /\ ~Succeeded'
    BY SameAttempt DEF Dealt, Succeeded
  <2> QED
    BY <2>1, SameAttempt DEF Progress, Counted
<1>6. Judged'
  BY SameAttempt DEF Progress, Judged, Failed, Succeeded
<1> QED
  BY <1>3, <1>4, <1>5, <1>6 DEF Progress

LEMMA PreparesSafely ==
  ASSUME Progress, Prepares
  PROVE  Progress'
<1> DEFINE reset == FirstFrom("freset", 1)
           com1 == FirstFrom("com1", reset + 1)
           n == Len(plan)
<1>1. /\ attempt \in Attempts /\ n \in Nat \ {0} /\ Everyone = 1 .. n /\ attempt.baud \in Bauds
      /\ \A c \in Everyone : plan[c].kind = "com1" => plan[c].value \in Bauds
  BY PlanType DEF Progress, TypeInv
<1>2. /\ pc = "prepare" /\ attempt' = attempt /\ queried' = queried /\ link' = link
      /\ tally' = tally /\ rx' = rx /\ fates' = fates /\ writes' = writes
  BY DEF Prepares
<1>3. ASSUME NEW status \in {"transportUnavailable", "safetyRejected", "buildError"},
             Ends(status, FALSE)
      PROVE  Progress'
  <2>1. \A c \in Everyone : fates'[c] # "unknown"
    BY <1>2 DEF Progress, Pending
  <2>2. status \in Statuses \ {"ok", "partialSuccess"}
    BY DEF Statuses
  <2>3. /\ queried' \in Groups \cup {NoGroups} /\ link' \in Bauds /\ rx' \in Receivers
        /\ fates' \in [Everyone -> Fates] /\ writes' \in [Everyone -> Nat]
    BY <1>2 DEF Progress, TypeInv
  <2>4. \A c \in Everyone : writes'[c] <= 1 /\ (fates'[c] = "unsent" => writes'[c] = 0)
    BY <1>2 DEF Progress, Counted
  <2>5. (\E c \in Everyone : fates'[c] = "unknown") <=> FALSE
    BY <2>1
  <2> QED
    BY <1>2, <1>3, <2>2, <2>3, <2>4, <2>5, EndsSafely
<1>4. reset \in Nat /\ (reset # 0 => reset \in 1 .. n /\ plan[reset].kind = "freset")
  BY <1>1, FirstFromFinds DEF Kinds
<1>5. com1 \in Nat /\ (com1 # 0 => com1 \in reset + 1 .. n /\ plan[com1].kind = "com1")
  <2>1. reset + 1 \in Nat \ {0} /\ "com1" \in Kinds
    BY <1>4 DEF Kinds
  <2> QED
    BY <1>1, <2>1, FirstFromFinds
<1>6. com1 # 0 => com1 \in Everyone /\ plan[com1].value \in Bauds
  BY <1>1, <1>4, <1>5
<1>7. ASSUME com1 # 0, NEW t, Covers(t, 1 .. com1), \A k \in 1 .. Len(t) : t[k].do # "decide",
             NEW baud \in Bauds
      PROVE  Covers(t \o ProfileStages(com1 + 1, baud), 1 .. n)
  <2> DEFINE z == ProfileStages(com1 + 1, baud)
             C == 1 .. com1
             D == com1 + 1 .. n
  <2>1. com1 + 1 \in 1 .. n + 1
    BY <1>1, <1>4, <1>5, <1>7
  <2>2. Covers(z, D)
    BY <1>1, <2>1, ProfileCovers
  <2>3. C \cap D = {} /\ C \cup D = 1 .. n
    BY <1>1, <1>4, <1>5, <1>7
  <2>4. Covers(t, C)
    BY <1>7
  <2> HIDE DEF z, C, D
  <2>5. Covers(t \o z, C \cup D)
    BY <1>7, <2>2, <2>3, <2>4, CoversJoined
  <2> QED
    BY <2>3, <2>5 DEF z
<1>8. ASSUME reset > 0, com1 > 0, Begins(RecoveryStages(reset, com1, plan[com1].value))
      PROVE  Progress'
  <2> DEFINE b == plan[com1].value
             t == <<Stage("scan", NoBaud), Phase(1, reset),
                    Stage("reopen", FactoryBaud), Stage("wait", FactoryBaud),
                    Stage("reopen", FactoryBaud), Phase(reset + 1, com1),
                    Stage("reopen", b), Stage("wait", b), Stage("reopen", b)>>
  <2>1. CASE ~attempt.hooks
    BY <1>3, <1>8, <2>1 DEF Begins
  <2>2. CASE attempt.hooks
    <3>1. reset # 0 /\ com1 # 0 /\ b \in Bauds
      BY <1>4, <1>5, <1>6, <1>8
    <3>2. reset \in 1 .. n /\ com1 \in reset + 1 .. n
      BY <1>4, <1>5, <3>1
    <3>3. Covers(t, 1 .. com1) /\ \A k \in 1 .. Len(t) : t[k].do # "decide"
      BY <1>1, <3>1, <3>2, ResetCovers
    <3>4. /\ pc' = "running" /\ report' = report
          /\ script' = (t \o ProfileStages(com1 + 1, b)) \o <<Stage("finish", b)>>
      BY <1>8, <2>2 DEF Begins, RecoveryStages
    <3> HIDE DEF t, b, com1, reset
    <3>5. Covers(t \o ProfileStages(com1 + 1, b), 1 .. n)
      BY <1>7, <3>1, <3>3
    <3> QED
      BY <1>2, <3>1, <3>4, <3>5, BeginsSafely
  <2> QED
    BY <1>1, <2>1, <2>2, PlanType
<1>9. ASSUME reset = 0, com1 > 0, Begins(SwitchStages(com1, plan[com1].value))
      PROVE  Progress'
  <2> DEFINE b == plan[com1].value
             t == <<Phase(1, com1), Stage("probe", b), Stage("reopen", b)>>
  <2>1. CASE ~attempt.hooks
    BY <1>3, <1>9, <2>1 DEF Begins
  <2>2. CASE attempt.hooks
    <3>1. com1 # 0 /\ b \in Bauds /\ com1 \in 1 .. n
      BY <1>1, <1>5, <1>6, <1>9
    <3>2. Covers(t, 1 .. com1) /\ \A k \in 1 .. Len(t) : t[k].do # "decide"
      BY <1>1, <3>1, SwitchCovers
    <3>3. /\ pc' = "running" /\ report' = report
          /\ script' = (t \o ProfileStages(com1 + 1, b)) \o <<Stage("finish", b)>>
      BY <1>9, <2>2 DEF Begins, SwitchStages
    <3> HIDE DEF t, b, com1, reset
    <3>4. Covers(t \o ProfileStages(com1 + 1, b), 1 .. n)
      BY <1>7, <3>1, <3>2
    <3> QED
      BY <1>2, <3>1, <3>3, <3>4, BeginsSafely
  <2> QED
    BY <1>1, <2>1, <2>2, PlanType
<1>10. ASSUME pc' = "running", script' = PlainStages, report' = report
       PROVE  Progress'
  <2> DEFINE t == IF attempt.vendor = "unicore" THEN ProfileStages(1, attempt.baud)
                  ELSE <<Phase(1, n)>>
  <2>1. 1 \in 1 .. n + 1 /\ n \in 0 .. n
    BY <1>1
  <2>2. Covers(ProfileStages(1, attempt.baud), 1 .. n)
    BY <1>1, <2>1, ProfileCovers
  <2>3. Covers(<<Phase(1, n)>>, 1 .. n)
    BY <1>1, <2>1, PhaseCovers
  <2>4. Covers(t, 1 .. n)
    BY <2>2, <2>3
  <2>5. script' = t \o <<Stage("finish", attempt.baud)>>
    BY <1>10 DEF PlainStages
  <2> HIDE DEF t
  <2> QED
    BY <1>1, <1>2, <1>10, <2>4, <2>5, BeginsSafely
<1>11. ASSUME Begins(PlainStages) PROVE Progress'
  <2>1. CASE ~attempt.hooks
    BY <1>3, <1>11, <2>1 DEF Begins
  <2>2. CASE attempt.hooks
    BY <1>10, <1>11, <2>2 DEF Begins
  <2> QED
    BY <1>1, <2>1, <2>2, PlanType
<1>12. \/ \E status \in {"transportUnavailable", "safetyRejected", "buildError"} : Ends(status, FALSE)
       \/ reset > 0 /\ com1 > 0 /\ Begins(RecoveryStages(reset, com1, plan[com1].value))
       \/ reset = 0 /\ com1 > 0 /\ Begins(SwitchStages(com1, plan[com1].value))
       \/ Begins(PlainStages)
       \/ pc' = "running" /\ script' = PlainStages /\ report' = report
  <2>1. reset > 0 \/ reset = 0
    BY <1>4
  <2>2. CASE reset > 0
    <3>1. CASE attempt.hooks
      BY <2>2, <3>1 DEF Prepares
    <3>2. CASE ~attempt.hooks
      BY <2>2, <3>2 DEF Prepares
    <3> QED
      BY <3>1, <3>2
  <2>3. CASE reset = 0
    BY <2>3 DEF Prepares
  <2> QED
    BY <2>1, <2>2, <2>3
<1> QED
  BY <1>3, <1>8, <1>9, <1>10, <1>11, <1>12

-----------------------------------------------------------------------------
(* The port, the queries and the end                                       *)

LEMMA HeadIs ==
  ASSUME Progress, pc = "running"
  PROVE  /\ script \in Seq(StageRecords) /\ Len(script) \in Nat \ {0}
         /\ Head(script) = script[1] /\ script[1] \in StageRecords /\ WellFormed(plan, script[1])
         /\ script[1].do \notin {"phase", "scan"} => script[1].baud \in Bauds
         /\ script[1].do \notin {"phase", "decide"} => \A c \in Everyone : ~Has(script[1], c)
<1>1. script \in Seq(StageRecords) /\ script # << >>
  BY DEF Progress, TypeInv, Shape
<1>2. Len(script) \in Nat \ {0} /\ Head(script) = script[1] /\ script[1] \in StageRecords
  BY <1>1
<1>3. 1 \in 1 .. Len(script)
  BY <1>2
<1>4. WellFormed(plan, script[1])
  BY <1>3 DEF Progress, Shape
<1>5. script[1].do \notin {"phase", "scan"} => script[1].baud \in Bauds
  BY <1>2, <1>4 DEF WellFormed, StageRecords
<1> QED
  BY <1>1, <1>2, <1>4, <1>5 DEF Has, Carries

\* A workflow that is given up between two commands.
LEMMA GivesUpSafely ==
  ASSUME Progress, pc = "running", attempt' = attempt, queried' \in Groups \cup {NoGroups},
         link' \in Bauds, rx' = rx, tally' = tally, fates' = fates, writes' = writes,
         NEW status \in {"transportUnavailable", "rejected"}, Ends(status, FALSE)
  PROVE  Progress'
<1>1. status \in Statuses \ {"ok", "partialSuccess"}
  BY DEF Statuses
<1>2. rx' \in Receivers /\ fates' \in [Everyone -> Fates] /\ writes' \in [Everyone -> Nat]
  BY DEF Progress, TypeInv
<1>3. \A c \in Everyone : writes'[c] <= 1 /\ (fates'[c] = "unsent" => writes'[c] = 0)
  BY DEF Progress, Counted
<1>4. (\E c \in Everyone : fates'[c] = "unknown") <=> FALSE
  BY DEF Progress, Judged
<1> QED
  BY <1>1, <1>2, <1>3, <1>4, EndsSafely

\* A stage that has succeeded.
LEMMA GoesOnSafely ==
  ASSUME Progress, pc = "running", Head(script).do \notin {"phase", "decide", "finish"},
         pc' = pc, script' = Tail(script), attempt' = attempt,
         queried' \in Groups \cup {NoGroups}, link' \in Bauds, rx' = rx,
         tally' = tally, fates' = fates, writes' = writes,
         report' \in Reports, report'.indeterminate = report.indeterminate
  PROVE  Progress'
<1>1. rx' \in Receivers
  BY DEF Progress, TypeInv
<1> QED
  BY <1>1, HeadIs, PopsSafely

LEMMA PhaseEndsSafely ==
  ASSUME Progress, PhaseEnds
  PROVE  Progress'
<1>1. /\ pc = "running" /\ Head(script).do = "phase" /\ Head(script).commands = << >>
      /\ script' = Tail(script) /\ pc' = pc /\ report' = report
      /\ attempt' = attempt /\ queried' = queried /\ link' = link /\ tally' = tally
      /\ rx' = rx /\ fates' = fates /\ writes' = writes
  BY DEF PhaseEnds, At, GoesOn
<1>2. script[1].do = "phase" /\ script[1].commands = << >>
  BY <1>1, HeadIs
<1>3. \A c \in Everyone : ~Has(script[1], c)
  BY <1>2 DEF Has
<1>4. /\ queried' \in Groups \cup {NoGroups} /\ link' \in Bauds /\ rx' \in Receivers
      /\ report' \in Reports
  BY <1>1 DEF Progress, TypeInv, Reports
<1> QED
  BY <1>1, <1>2, <1>3, <1>4, PopsSafely

LEMMA FinishesSafely ==
  ASSUME Progress, Finishes
  PROVE  Progress'
<1>1. /\ pc = "running" /\ Head(script).do = "finish" /\ pc' = "done" /\ script' = << >>
      /\ attempt' = attempt /\ queried' = queried /\ link' = link /\ tally' = tally
      /\ rx' = rx /\ fates' = fates /\ writes' = writes
  BY DEF Finishes
<1>2. /\ Len(script) \in Nat \ {0} /\ script[1].do = "finish" /\ script[1].baud \in Bauds
      /\ Head(script) = script[1] /\ \A c \in Everyone : ~Has(script[1], c)
  BY <1>1, HeadIs
<1>3. PICK verified \in {script[1].baud, NoBaud} :
        report' = [status |-> CompletionStatus, indeterminate |-> FALSE,
                   verified |-> verified, baud |-> script[1].baud]
  BY <1>2 DEF Finishes
<1>4. Len(script) = 1
  <2>1. 1 \in 1 .. Len(script)
    BY <1>2
  <2> QED
    BY <1>1, <1>2, <2>1 DEF Progress, Shape
<1>5. \A c \in Everyone : fates[c] # "unsent"
  <2>1. \A k \in 1 .. Len(script) : k = 1
    BY <1>4
  <2> QED
    BY <1>1, <1>2, <2>1 DEF Progress, Pending
<1>6. Dealt = Everyone /\ Dealt' = Everyone'
  BY <1>1, <1>5, SameAttempt DEF Dealt
<1>7. tally.completed + tally.optional = Len(plan)
  <2>1. Everyone = 1 .. Len(plan)
    BY PlanType DEF Progress, TypeInv
  <2>2. Cardinality(1 .. Len(plan)) = Len(plan)
    BY PlanIsFinite DEF Progress, TypeInv
  <2> QED
    BY <1>1, <1>6, <2>1, <2>2 DEF Progress, Counted
<1>8. TypeInv'
  <2>1. report' \in Reports
    BY <1>2, <1>3 DEF Reports, CompletionStatus, Statuses
  <2>2. << >> \in Seq(StageRecords)
    OBVIOUS
  <2> QED
    BY <1>1, <2>1, <2>2, SameAttempt DEF Progress, TypeInv, Reports
<1>9. Shape' /\ Pending'
  BY <1>1 DEF Shape, Pending
<1>10. Counted'
  BY <1>1, <1>6, <1>7, SameAttempt DEF Progress, Counted
<1>11. Judged'
  <2>1. /\ ~report.indeterminate /\ \A c \in Everyone : fates[c] # "unknown"
        /\ tally.optional = 0 <=> \A c \in Everyone : ~Failed(c)
    BY <1>1 DEF Progress, Judged
  <2>2. report'.status = "ok" <=> tally.optional = 0
    <3>1. tally.optional \in Nat
      BY DEF Progress, TypeInv
    <3> QED
      BY <1>3, <3>1 DEF CompletionStatus
  <2>3. ASSUME NEW c \in Everyone PROVE ~Failed(c) <=> fates[c] \in {"accepted", "skipped"}
    <3>1. fates[c] \in Fates
      BY DEF Progress, TypeInv
    <3> QED
      BY <1>5, <2>1, <3>1 DEF Failed, Fates
  <2> QED
    BY <1>1, <1>3, <2>1, <2>2, <2>3, SameAttempt DEF Judged
<1> QED
  BY <1>8, <1>9, <1>10, <1>11 DEF Progress

\* A probe that counts an attempt.
LEMMA ProbesAgain ==
  ASSUME Progress, pc = "running", script[1].left > 1, script' = [script EXCEPT ![1].left = @ - 1]
  PROVE  /\ script' \in Seq(StageRecords) /\ Len(script') = Len(script)
         /\ \A k \in 1 .. Len(script) : /\ script'[k].do = script[k].do
                                        /\ script'[k].baud = script[k].baud
                                        /\ script'[k].commands = script[k].commands
<1> DEFINE r == [script[1] EXCEPT !.left = @ - 1]
<1>1. script \in Seq(StageRecords) /\ Len(script) \in Nat \ {0} /\ script[1] \in StageRecords
  BY HeadIs
<1>2. ProbeAttempts \in Nat
  BY WorkflowAssumption
<1>3. script[1].left \in 1 .. ProbeAttempts
  BY <1>1 DEF StageRecords
<1>4. script[1].left - 1 \in 1 .. ProbeAttempts
  BY <1>2, <1>3
<1>5. /\ r \in StageRecords /\ r.do = script[1].do /\ r.baud = script[1].baud
      /\ r.commands = script[1].commands
  BY <1>1, <1>4 DEF StageRecords
<1>6. script' = [script EXCEPT ![1] = r]
  OBVIOUS
<1> HIDE DEF r
<1>7. /\ script' \in Seq(StageRecords) /\ Len(script') = Len(script)
      /\ \A k \in 1 .. Len(script) : script'[k] = IF k = 1 THEN r ELSE script[k]
  BY <1>1, <1>5, <1>6
<1> QED
  BY <1>5, <1>7

LEMMA PortSafely ==
  ASSUME Progress, Reopens \/ Waits \/ Scans \/ Probes \/ Queries \/ Checks
  PROVE  Progress'
<1>1. pc = "running" /\ Head(script).do \in {"reopen", "wait", "scan", "probe", "query", "check"}
  BY DEF Reopens, Waits, Scans, Probes, Queries, Checks, At
<1>2. /\ script \in Seq(StageRecords) /\ Len(script) \in Nat \ {0} /\ Head(script) = script[1]
      /\ script[1] \in StageRecords
      /\ script[1].do \notin {"phase", "scan"} => script[1].baud \in Bauds
  BY <1>1, HeadIs
<1>3. /\ queried \in Groups \cup {NoGroups} /\ link \in Bauds /\ report \in Reports
      /\ rx \in Receivers
  BY DEF Progress, TypeInv, Reports
<1>4. rx.groups \in Groups /\ rx.baud \in Bauds
  BY <1>3 DEF Receivers
<1>5. CASE Reopens
  <2>1. /\ attempt' = attempt /\ queried' = queried /\ tally' = tally /\ rx' = rx
        /\ fates' = fates /\ writes' = writes
        /\ \/ link' = Head(script).baud /\ script' = Tail(script) /\ pc' = pc /\ report' = report
           \/ link' = link /\ Ends("transportUnavailable", FALSE)
    BY <1>5 DEF Reopens, GoesOn
  <2>2. Head(script).baud \in Bauds
    BY <1>2, <1>5 DEF Reopens, At
  <2> QED
    BY <1>1, <1>3, <2>1, <2>2, GoesOnSafely, GivesUpSafely
<1>6. CASE Waits
  <2>1. /\ attempt' = attempt /\ queried' = queried /\ tally' = tally /\ rx' = rx /\ link' = link
        /\ fates' = fates /\ writes' = writes
        /\ \/ script' = Tail(script) /\ pc' = pc /\ report' = report
           \/ Ends("transportUnavailable", FALSE)
    BY <1>6 DEF Waits, GoesOn
  <2> QED
    BY <1>1, <1>3, <2>1, GoesOnSafely, GivesUpSafely
<1>7. CASE Scans
  <2>1. /\ attempt' = attempt /\ queried' = queried /\ tally' = tally /\ rx' = rx
        /\ fates' = fates /\ writes' = writes
        /\ \/ \E baud \in Bauds : /\ link' = baud /\ script' = Tail(script) /\ pc' = pc
                                  /\ report' = [report EXCEPT !.baud = baud]
           \/ link' = link /\ Ends("transportUnavailable", FALSE)
    BY <1>7 DEF Scans
  <2>2. ASSUME NEW baud \in Bauds, report' = [report EXCEPT !.baud = baud]
        PROVE  report' \in Reports /\ report'.indeterminate = report.indeterminate
    BY <1>3, <2>2 DEF Reports
  <2> QED
    BY <1>1, <1>3, <2>1, <2>2, GoesOnSafely, GivesUpSafely
<1>8. CASE Probes
  <2>1. /\ attempt' = attempt /\ queried' = queried /\ tally' = tally /\ rx' = rx
        /\ fates' = fates /\ writes' = writes /\ link' = Head(script).baud
        /\ \/ script' = Tail(script) /\ pc' = pc /\ report' = report
           \/ /\ Head(script).left > 1 /\ script' = [script EXCEPT ![1].left = @ - 1]
              /\ pc' = pc /\ report' = report
           \/ Ends("transportUnavailable", FALSE)
    BY <1>8 DEF Probes, GoesOn
  <2>2. Head(script).baud \in Bauds
    BY <1>2, <1>8 DEF Probes, At
  <2>3. CASE Head(script).left > 1 /\ script' = [script EXCEPT ![1].left = @ - 1]
             /\ pc' = pc /\ report' = report
    BY <1>1, <1>2, <1>3, <2>1, <2>2, <2>3, ProbesAgain, StaysSafely
  <2> QED
    BY <1>1, <1>3, <2>1, <2>2, <2>3, GoesOnSafely, GivesUpSafely
<1>9. CASE Queries
  <2>1. /\ attempt' = attempt /\ tally' = tally /\ rx' = rx /\ link' = link
        /\ fates' = fates /\ writes' = writes /\ script' = Tail(script) /\ pc' = pc
        /\ report' = report /\ queried' \in {NoGroups, rx.groups}
    BY <1>9 DEF Queries, GoesOn
  <2> QED
    BY <1>1, <1>3, <1>4, <2>1, GoesOnSafely
<1>10. CASE Checks
  <2>1. /\ attempt' = attempt /\ tally' = tally /\ rx' = rx /\ link' = link
        /\ fates' = fates /\ writes' = writes /\ queried' \in {NoGroups, rx.groups}
        /\ \/ script' = Tail(script) /\ pc' = pc /\ report' = report
           \/ \E status \in {"transportUnavailable", "rejected"} : Ends(status, FALSE)
    BY <1>10 DEF Checks, GoesOn
  <2> QED
    BY <1>1, <1>3, <1>4, <2>1, GoesOnSafely, GivesUpSafely
<1> QED
  BY <1>5, <1>6, <1>7, <1>8, <1>9, <1>10

LEMMA RestartsSafely ==
  ASSUME Progress, Restarts
  PROVE  Progress'
<1>1. /\ pc' = pc /\ attempt' = attempt /\ script' = script /\ queried' = queried
      /\ link' = link /\ tally' = tally /\ fates' = fates /\ writes' = writes
      /\ report' = report /\ rx' = [rx EXCEPT !.up = TRUE]
  BY DEF Restarts
<1>2. /\ script' \in Seq(StageRecords) /\ queried' \in Groups \cup {NoGroups} /\ link' \in Bauds
  BY <1>1 DEF Progress, TypeInv
<1>3. rx' \in Receivers
  BY <1>1 DEF Progress, TypeInv, Receivers
<1> QED
  BY <1>1, <1>2, <1>3, StaysSafely

-----------------------------------------------------------------------------
(* The decision about SIGNALGROUP                                          *)

LEMMA PairIs ==
  ASSUME NEW S, NEW s \in Seq(S), Len(s) = 2
  PROVE  Tail(s) = <<s[2]>> /\ s = <<s[1], s[2]>>
<1>1. 1 \in 1 .. Len(s) /\ 2 \in 1 .. Len(s) /\ s # << >>
  <2>1. Len(<< >>) = 0 /\ Len(s) # 0
    OBVIOUS
  <2> QED
    BY <2>1
<1>2. s[1] \in S /\ s[2] \in S
  BY <1>1
<1>3. s = <<s[1], s[2]>>
  BY <1>2
<1> DEFINE t == Tail(s)
<1>4. t \in Seq(S) /\ Len(t) = 1 /\ \A k \in 1 .. Len(t) : t[k] = s[k + 1]
  BY <1>1, TailIs
<1>5. t[1] = s[2]
  BY <1>4
<1> HIDE DEF t
<1>6. t = <<s[2]>>
  BY <1>2, <1>4, <1>5
<1> QED
  BY <1>3, <1>6 DEF t

\* What is left when the decision is taken.
LEMMA DecideHead ==
  ASSUME Progress, At("decide")
  PROVE  \E first \in Everyone, group \in Everyone, f \in StageRecords :
           /\ group \in first .. Len(plan) /\ plan[group].kind = "signalgroup"
           /\ Head(Head(script).commands) = first /\ FirstFrom("signalgroup", first) = group
           /\ Head(script).baud \in Bauds /\ pc = "running"
           /\ Tail(script) = <<f>> /\ f.do = "finish" /\ WellFormed(plan, f)
           /\ script = <<script[1], f>>
           /\ \A c \in Everyone : fates[c] = "unsent" <=> c \in first .. Len(plan)
<1>1. pc = "running" /\ Head(script).do = "decide"
  BY DEF At
<1>2. /\ script \in Seq(StageRecords) /\ Len(script) \in Nat \ {0} /\ Head(script) = script[1]
      /\ script[1] \in StageRecords /\ WellFormed(plan, script[1]) /\ script[1].do = "decide"
      /\ script[1].baud \in Bauds
  BY <1>1, HeadIs
<1>3. attempt \in Attempts /\ Len(plan) \in Nat \ {0} /\ Everyone = 1 .. Len(plan)
  BY PlanType DEF Progress, TypeInv
<1>4. PICK first \in 1 .. Len(plan) :
        /\ script[1].commands = Slice(first, Len(plan))
        /\ \E group \in first .. Len(plan) : plan[group].kind = "signalgroup"
  BY <1>2 DEF WellFormed
<1>5. Head(script[1].commands) = first
  BY <1>3, <1>4, SliceIs
<1> DEFINE group == FirstFrom("signalgroup", first)
<1>6. group \in first .. Len(plan) /\ plan[group].kind = "signalgroup"
  <2>1. first \in Nat \ {0} /\ "signalgroup" \in Kinds
    BY <1>3 DEF Kinds
  <2>2. /\ group = 0 => \A i \in first .. Len(plan) : plan[i].kind # "signalgroup"
        /\ group # 0 => group \in first .. Len(plan) /\ plan[group].kind = "signalgroup"
    BY <1>3, <2>1, FirstFromFinds
  <2> HIDE DEF group
  <2> QED
    BY <1>4, <2>2
<1>7. Len(script) = 2
  <2>1. 1 \in 1 .. Len(script)
    BY <1>2
  <2>2. 1 + 1 = Len(script)
    BY <1>1, <1>2, <2>1 DEF Progress, Shape
  <2> QED
    BY <2>2
<1>8. script[2] \in StageRecords /\ script[2].do = "finish" /\ WellFormed(plan, script[2])
  <2>1. 2 \in 1 .. Len(script) /\ 2 = Len(script)
    BY <1>7
  <2> QED
    BY <1>1, <1>2, <2>1 DEF Progress, Shape
<1>9. Tail(script) = <<script[2]>> /\ script = <<script[1], script[2]>>
  BY <1>2, <1>7, PairIs
<1>10. \A c \in Everyone : fates[c] = "unsent" <=> c \in first .. Len(plan)
  <2>1. \A c \in Everyone : fates[c] = "unsent" <=> \E k \in 1 .. Len(script) : Has(script[k], c)
    BY <1>1 DEF Progress, Pending
  <2>2. \A c \in Everyone : ~Has(script[2], c)
    BY <1>8 DEF Has, Carries
  <2>3. \A c \in Everyone : Has(script[1], c) <=> c \in first .. Len(plan)
    <3>1. Carries(script[1]) /\ first \in Nat \ {0} /\ Everyone \subseteq Nat
      BY <1>2, <1>3 DEF Carries
    <3> QED
      BY <1>3, <1>4, <3>1, HasStretch
  <2>4. \A k \in 1 .. Len(script) : k = 1 \/ k = 2
    BY <1>7
  <2>5. 1 \in 1 .. Len(script)
    BY <1>7
  <2> QED
    BY <2>1, <2>2, <2>3, <2>4, <2>5
<1>11. first \in Everyone /\ group \in Everyone
  BY <1>3, <1>6
<1> HIDE DEF group
<1> QED
  BY <1>1, <1>2, <1>5, <1>6, <1>8, <1>9, <1>10, <1>11 DEF group

LEMMA DecidesSafely ==
  ASSUME Progress, Decides
  PROVE  Progress'
<1>1. /\ At("decide") /\ attempt' = attempt /\ pc' = pc /\ queried' = queried /\ link' = link
      /\ report' = report /\ rx' = rx /\ writes' = writes
  BY DEF Decides
<1>2. PICK first \in Everyone, group \in Everyone, f \in StageRecords :
        /\ group \in first .. Len(plan) /\ plan[group].kind = "signalgroup"
        /\ Head(Head(script).commands) = first /\ FirstFrom("signalgroup", first) = group
        /\ Head(script).baud \in Bauds /\ pc = "running"
        /\ Tail(script) = <<f>> /\ f.do = "finish" /\ WellFormed(plan, f)
        /\ script = <<script[1], f>>
        /\ \A c \in Everyone : fates[c] = "unsent" <=> c \in first .. Len(plan)
  BY <1>1, DecideHead
<1> DEFINE baud == Head(script).baud
           around == AroundSignalGroup(first, group, baud)
           alone == <<Phase(group, group),
                      Stage("reopen", baud), Stage("wait", baud), Stage("reopen", baud),
                      CheckStage(group, baud), Stage("reopen", baud)>>
           rest == (first .. Len(plan)) \ {group}
<1>3. attempt \in Attempts /\ Len(plan) \in Nat \ {0} /\ Everyone = 1 .. Len(plan) /\ baud \in Bauds
  BY <1>2, PlanType DEF Progress, TypeInv
<1>4. Covers(around, rest)
  BY <1>2, <1>3, AroundCovers
<1>5. ~Succeeded' /\ pc' = "running"
  BY <1>1, <1>2 DEF Succeeded
<1>6. CASE queried = plan[group].value
  <2>1. /\ script' = around \o <<f>> /\ fates' = [fates EXCEPT ![group] = "skipped"]
        /\ tally' = [tally EXCEPT !.completed = @ + 1]
    BY <1>2, <1>6 DEF Decides, Skips
  <2>2. fates[group] = "unsent" /\ "skipped" \in Fates \ {"unsent"}
    BY <1>2 DEF Fates
  <2>3. /\ fates' \in [Everyone -> Fates] /\ fates'[group] = "skipped"
        /\ \A d \in Everyone \ {group} : fates'[d] = fates[d]
        /\ Cardinality(Dealt') = Cardinality(Dealt) + 1 /\ Cardinality(Dealt') <= Len(plan)
    BY <1>1, <2>1, <2>2, DealsOne
  <2>4. \A c \in Everyone : fates'[c] = "unsent" <=> c \in rest
    BY <1>2, <2>3
  <2> HIDE DEF around, rest
  <2>5. script' \in Seq(StageRecords) /\ Shape' /\ Pending'
    BY <1>1, <1>2, <1>3, <1>4, <1>5, <2>1, <2>4, ScriptIs
  <2>6. /\ tally' \in [completed : Nat, optional : Nat] /\ tally'.optional = tally.optional
        /\ tally'.completed + tally'.optional = tally.completed + tally.optional + 1
    <3>1. tally \in [completed : Nat, optional : Nat]
      BY DEF Progress, TypeInv
    <3>2. tally' = [completed |-> tally.completed + 1, optional |-> tally.optional]
      BY <2>1, <3>1
    <3>3. tally.completed \in Nat /\ tally.optional \in Nat
      BY <3>1
    <3>4. tally'.completed = tally.completed + 1 /\ tally'.optional = tally.optional
      BY <3>2
    <3>5. tally' \in [completed : Nat, optional : Nat]
      BY <3>2, <3>3
    <3> QED
      BY <3>3, <3>4, <3>5
  <2>7. TypeInv'
    BY <1>1, <2>3, <2>5, <2>6, SameAttempt DEF Progress, TypeInv
  <2>8. Counted'
    <3>1. tally.completed + tally.optional = Cardinality(Dealt)
      BY <1>2 DEF Progress, Counted
    <3>2. \A d \in Everyone : writes'[d] <= 1 /\ (fates'[d] = "unsent" => writes'[d] = 0)
      BY <1>1, <2>3 DEF Progress, Counted
    <3> QED
      BY <1>1, <1>5, <2>3, <2>6, <3>1, <3>2, SameAttempt DEF Counted
  <2>9. Judged'
    <3>1. /\ \A d \in Everyone : fates[d] # "unknown" /\ (Failed(d) => ~plan[d].required)
          /\ ~report.indeterminate /\ (tally.optional = 0 <=> \A d \in Everyone : ~Failed(d))
      BY <1>2 DEF Progress, Judged
    <3>2. \A d \in Everyone :
            /\ fates'[d] # "unknown"
            /\ fates'[d] \in {"notSent", "refused"} <=> Failed(d)
      BY <2>2, <2>3, <3>1 DEF Failed
    <3> QED
      BY <1>1, <1>5, <2>6, <3>1, <3>2, SameAttempt DEF Judged, Failed
  <2> QED
    BY <2>5, <2>7, <2>8, <2>9 DEF Progress
<1>7. CASE queried # plan[group].value
  <2>1. script' = (alone \o around) \o <<f>> /\ fates' = fates /\ tally' = tally
    BY <1>2, <1>7 DEF Decides, SignalGroupFirst, CheckStage
  <2>2. Covers(alone, {group}) /\ \A k \in 1 .. Len(alone) : alone[k].do # "decide"
    BY <1>2, <1>3, GroupCovers
  <2>3. {group} \cap rest = {} /\ {group} \cup rest = first .. Len(plan)
    BY <1>2
  <2> HIDE DEF alone, around, rest
  <2>4. Covers(alone \o around, {group} \cup rest)
    BY <1>4, <2>2, <2>3, CoversJoined
  <2>5. \A c \in Everyone : fates'[c] = "unsent" <=> c \in {group} \cup rest
    BY <1>2, <2>1, <2>3
  <2>6. script' \in Seq(StageRecords) /\ Shape' /\ Pending'
    <3> DEFINE s == alone \o around
               C == {group} \cup rest
    <3>1. Covers(s, C) /\ script' = s \o <<f>> /\ \A c \in Everyone : fates'[c] = "unsent" <=> c \in C
      BY <2>1, <2>4, <2>5
    <3> HIDE DEF s, C
    <3> QED
      BY <1>1, <1>2, <1>3, <1>5, <3>1, ScriptIs
  <2>7. TypeInv'
    BY <1>1, <2>1, <2>6, SameAttempt DEF Progress, TypeInv
  <2>8. Counted'
    <3>1. Dealt' = Dealt
      BY <1>1, <2>1, SameAttempt DEF Dealt
    <3> QED
      BY <1>1, <1>2, <1>5, <2>1, <3>1, SameAttempt DEF Progress, Counted
  <2>9. Judged'
    BY <1>1, <1>2, <1>5, <2>1, SameAttempt DEF Progress, Judged, Failed
  <2> QED
    BY <2>6, <2>7, <2>8, <2>9 DEF Progress
<1> QED
  BY <1>6, <1>7

-----------------------------------------------------------------------------
(* The theorems                                                            *)

LEMMA Unchanged ==
  ASSUME Progress, UNCHANGED vars
  PROVE  Progress'
BY SMTT(30), SameAttempt
DEF vars, Progress, TypeInv, Shape, Pending, Counted, Judged, Failed, Succeeded, Dealt

LEMMA NextProgress == Progress /\ [Next]_vars => Progress'
<1> SUFFICES ASSUME Progress, [Next]_vars PROVE Progress'
  OBVIOUS
<1>1. CASE Prepares
  BY <1>1, PreparesSafely
<1>2. CASE SendsCommand
  BY <1>2, SendsSafely
<1>3. CASE PhaseEnds
  BY <1>3, PhaseEndsSafely
<1>4. CASE Finishes
  BY <1>4, FinishesSafely
<1>5. CASE Reopens \/ Waits \/ Scans \/ Probes \/ Queries \/ Checks
  BY <1>5, PortSafely
<1>6. CASE Decides
  BY <1>6, DecidesSafely
<1>7. CASE Restarts
  BY <1>7, RestartsSafely
<1>8. CASE UNCHANGED vars
  BY <1>8, Unchanged
<1> QED
  BY <1>1, <1>2, <1>3, <1>4, <1>5, <1>6, <1>7, <1>8 DEF Next, WorkflowStep

\* The types, the shape of the script, and what is in it, hold throughout.
THEOREM ProgressHolds == Spec => []Progress
BY InitProgress, NextProgress, PTL DEF Spec

LEMMA ProgressTypes == Progress => WorkflowTypeOK
<1> SUFFICES ASSUME Progress PROVE WorkflowTypeOK
  OBVIOUS
<1>1. TypeInv /\ Counted
  BY DEF Progress
<1>2. \A k \in DOMAIN script :
        /\ script[k].do \in StageNames /\ script[k].commands \in Seq(Everyone)
        /\ script[k].left \in 1 .. ProbeAttempts
  <2>1. ASSUME NEW k \in DOMAIN script PROVE script[k] \in StageRecords
    BY <1>1 DEF TypeInv
  <2> QED
    BY <2>1 DEF StageRecords
<1>3. tally.completed + tally.optional \in 0 .. Len(plan)
  <2>1. tally.completed \in Nat /\ tally.optional \in Nat /\ Len(plan) \in Nat
    BY <1>1, PlanType DEF TypeInv
  <2> QED
    BY <1>1, <2>1 DEF Counted
<1>4. /\ report.status \in Statuses /\ report.verified \in Bauds \cup {NoBaud}
      /\ rx.baud \in Bauds /\ rx.groups \in Groups /\ rx.settings \subseteq Everyone
  BY <1>1 DEF TypeInv, Receivers
<1> QED
  BY <1>1, <1>2, <1>3, <1>4 DEF TypeInv, WorkflowTypeOK

\* For every plan of every vendor, however it is cut into phases: no command is
\* written twice, and a success has dealt with each and counted it
\* (config_apply.cpp:2034-2038).
THEOREM CommandsOnce == Spec => []EveryCommandOnce
<1>1. Progress => EveryCommandOnce
  BY ProgressTypes DEF Progress, Counted, EveryCommandOnce, Dealt
<1> QED
  BY <1>1, ProgressHolds, PTL

\* For every plan: an attempt that has left the fate of a command open says so
\* and sends nothing more, and one that has not does not
\* (docs/auto_configuration.md:488-496).
THEOREM DoubtIsReported == Spec => []DoubtStopsEverything
<1>1. Progress => DoubtStopsEverything
  BY DEF Progress, Judged, DoubtStopsEverything
<1> QED
  BY <1>1, ProgressHolds, PTL

-----------------------------------------------------------------------------
(* A Unicore receiver and the rest of the script                           *)

\* A command after which a receiver may not listen at this baud any more.
Unsettles(command, baud) ==
  \/ command.kind \in {"freset", "signalgroup"}
  \/ command.kind = "com1" /\ command.value # baud

\* Command a undoes what b does, so b has to come later.
Precedes(a, b) ==
  \/ a.kind \in {"freset", "signalgroup"} /\ b.kind = "setting"
  \/ a.kind = "freset" /\ b.kind = "signalgroup"

AtBaud(stage, baud) == stage.baud \in {NoBaud, baud}

\* A phase of which no command, or only the last, unsettles the receiver.
Steady(list, stage, baud) ==
  stage.do = "phase" =>
    \A c \in 1 .. Len(list) : Has(stage, c) => ~Unsettles(list[c], baud)

Nearly(list, stage, baud) ==
  stage.do = "phase" =>
    \A c, d \in 1 .. Len(list) : Has(stage, c) /\ Has(stage, d) /\ c < d => ~Unsettles(list[c], baud)

\* Who listens at this baud before stage j of s still does in stage k.
Settled(list, s, j, k, baud) ==
  /\ \A i \in j .. k - 1 : AtBaud(s[i], baud) /\ Steady(list, s[i], baud)
  /\ AtBaud(s[k], baud) /\ Nearly(list, s[k], baud)

\* Stages that go on only after the receiver was heard.
Settling == {"wait", "probe", "scan"}

\* Stages that need the receiver there.
Needs(list, stage) == stage.do = "finish" \/ \E c \in 1 .. Len(list) : Has(stage, c)

Provided(list, s, k) ==
  \E j \in 1 .. k - 1 : s[j].do \in Settling /\ Settled(list, s, j + 1, k, s[j].baud)

\* What a stage may have, and what may come after what.
Alone(list, stage) ==
  /\ stage.do = "phase" =>
       \A c, d \in 1 .. Len(list) : Has(stage, c) /\ Has(stage, d) => ~Precedes(list[c], list[d])
  /\ stage.do = "decide" =>
       \A c \in 1 .. Len(list) : Has(stage, c) =>
         list[c].kind # "freset" /\ (list[c].kind = "com1" => list[c].value = stage.baud)
  /\ stage.do = "finish" =>
       \A c \in 1 .. Len(list) : list[c].kind = "com1" => list[c].value = stage.baud

InTurn(list, a, b) ==
  /\ a.do = "phase" =>
       \A c, d \in 1 .. Len(list) : Has(a, d) =>
         /\ Has(b, c) => ~Precedes(list[c], list[d])
         /\ list[d].kind = "save" => b.do = "finish"
  /\ a.do = "query" => b.do # "phase"
  /\ a.do = "check" => b.do \notin {"query", "decide"}
  /\ b.do = "check" => a.do \notin {"query", "decide"}

Arranged(list, s) ==
  /\ \A k \in 1 .. Len(s) : Alone(list, s[k])
  /\ \A j, k \in 1 .. Len(s) : j < k => InTurn(list, s[j], s[k])
  /\ \A k \in 2 .. Len(s) : s[k].do = "wait" => s[k - 1].do = "reopen" /\ s[k - 1].baud = s[k].baud
  /\ \A k \in 1 .. Len(s), c \in 1 .. Len(list) :
       s[k].do = "phase" /\ Has(s[k], c) /\ list[c].kind = "signalgroup" =>
         \E j \in k + 1 .. Len(s) : s[j].do = "check"

\* A stage, and a script, that has less to send.
LEMMA LessStage ==
  ASSUME NEW list, NEW a, NEW b, a.do = b.do, a.baud = b.baud,
         \A c \in 1 .. Len(list) : Has(a, c) => Has(b, c)
  PROVE  /\ \A baud : /\ AtBaud(b, baud) => AtBaud(a, baud)
                      /\ Steady(list, b, baud) => Steady(list, a, baud)
                      /\ Nearly(list, b, baud) => Nearly(list, a, baud)
         /\ Alone(list, b) => Alone(list, a)
         /\ Needs(list, a) => Needs(list, b)
<1>1. ASSUME NEW baud
      PROVE  /\ AtBaud(b, baud) => AtBaud(a, baud)
             /\ Steady(list, b, baud) => Steady(list, a, baud)
             /\ Nearly(list, b, baud) => Nearly(list, a, baud)
  BY DEF AtBaud, Steady, Nearly
<1>2. Alone(list, b) => Alone(list, a)
  BY DEF Alone
<1>3. Needs(list, a) => Needs(list, b)
  BY DEF Needs
<1> QED
  BY <1>1, <1>2, <1>3

LEMMA LessInTurn ==
  ASSUME NEW list, NEW a, NEW b, a.do = b.do, \A c \in 1 .. Len(list) : Has(a, c) => Has(b, c),
         NEW u, NEW v, u.do = v.do, \A c \in 1 .. Len(list) : Has(u, c) => Has(v, c),
         InTurn(list, b, v)
  PROVE  InTurn(list, a, u)
BY DEF InTurn

Less(list, t, s) ==
  /\ Len(t) = Len(s)
  /\ \A k \in 1 .. Len(s) : /\ t[k].do = s[k].do /\ t[k].baud = s[k].baud
                            /\ \A c \in 1 .. Len(list) : Has(t[k], c) => Has(s[k], c)

LEMMA LessSettled ==
  ASSUME NEW list, NEW S, NEW s \in Seq(S), NEW t \in Seq(S), Less(list, t, s),
         NEW j \in 1 .. Len(s), NEW k \in j .. Len(s), NEW baud, Settled(list, s, j, k, baud)
  PROVE  Settled(list, t, j, k, baud)
<1>1. ASSUME NEW i \in 1 .. Len(s)
      PROVE  /\ AtBaud(s[i], baud) => AtBaud(t[i], baud)
             /\ Steady(list, s[i], baud) => Steady(list, t[i], baud)
             /\ Nearly(list, s[i], baud) => Nearly(list, t[i], baud)
  BY LessStage DEF Less
<1>2. Len(s) \in Nat /\ k \in 1 .. Len(s) /\ \A i \in j .. k - 1 : i \in 1 .. Len(s)
  OBVIOUS
<1> QED
  BY <1>1, <1>2 DEF Settled

LEMMA LessProvided ==
  ASSUME NEW list, NEW S, NEW s \in Seq(S), NEW t \in Seq(S), Less(list, t, s),
         NEW k \in 1 .. Len(s), Provided(list, s, k)
  PROVE  Provided(list, t, k)
<1>1. PICK j \in 1 .. k - 1 : s[j].do \in Settling /\ Settled(list, s, j + 1, k, s[j].baud)
  BY DEF Provided
<1>2. j \in 1 .. Len(s) /\ j + 1 \in 1 .. Len(s) /\ k \in j + 1 .. Len(s)
  OBVIOUS
<1>3. t[j].do \in Settling /\ t[j].baud = s[j].baud
  BY <1>1, <1>2 DEF Less
<1>4. Settled(list, t, j + 1, k, t[j].baud)
  BY <1>1, <1>2, <1>3, LessSettled
<1> QED
  BY <1>3, <1>4 DEF Provided

LEMMA LessArranged ==
  ASSUME NEW list, NEW S, NEW s \in Seq(S), NEW t \in Seq(S), Less(list, t, s), Arranged(list, s)
  PROVE  Arranged(list, t)
<1>1. Len(t) = Len(s) /\ Len(s) \in Nat
  BY DEF Less
<1>2. ASSUME NEW k \in 1 .. Len(s) PROVE Alone(list, t[k])
  BY LessStage DEF Less, Arranged
<1>3. ASSUME NEW j \in 1 .. Len(s), NEW k \in 1 .. Len(s), j < k PROVE InTurn(list, t[j], t[k])
  <2>1. InTurn(list, s[j], s[k])
    BY <1>3 DEF Arranged
  <2> QED
    BY <2>1, LessInTurn DEF Less
<1>4. ASSUME NEW k \in 2 .. Len(s), t[k].do = "wait"
      PROVE  t[k - 1].do = "reopen" /\ t[k - 1].baud = t[k].baud
  <2>1. k \in 1 .. Len(s) /\ k - 1 \in 1 .. Len(s)
    OBVIOUS
  <2>2. s[k].do = "wait" /\ s[k].baud = t[k].baud
    BY <1>4, <2>1 DEF Less
  <2>3. s[k - 1].do = "reopen" /\ s[k - 1].baud = s[k].baud
    BY <2>2 DEF Arranged
  <2> QED
    BY <2>1, <2>2, <2>3 DEF Less
<1>5. ASSUME NEW k \in 1 .. Len(s), NEW c \in 1 .. Len(list),
             t[k].do = "phase" /\ Has(t[k], c) /\ list[c].kind = "signalgroup"
      PROVE  \E j \in k + 1 .. Len(s) : t[j].do = "check"
  <2>1. s[k].do = "phase" /\ Has(s[k], c)
    BY <1>5 DEF Less
  <2>2. PICK j \in k + 1 .. Len(s) : s[j].do = "check"
    BY <1>5, <2>1 DEF Arranged
  <2>3. j \in 1 .. Len(s)
    OBVIOUS
  <2> QED
    BY <2>2, <2>3 DEF Less
<1> QED
  BY <1>1, <1>2, <1>3, <1>4, <1>5 DEF Arranged

\* A script whose first stage is over.
LEMMA TailSettled ==
  ASSUME NEW list, NEW S, NEW s \in Seq(S), s # << >>, NEW j \in 1 .. Len(s) - 1,
         NEW k \in j .. Len(s) - 1, NEW baud, Settled(list, s, j + 1, k + 1, baud)
  PROVE  Settled(list, Tail(s), j, k, baud)
<1> DEFINE t == Tail(s)
<1>1. Len(s) \in Nat \ {0} /\ \A i \in 1 .. Len(s) - 1 : t[i] = s[i + 1]
  BY TailIs
<1> HIDE DEF t
<1>2. ASSUME NEW i \in j .. k - 1 PROVE AtBaud(t[i], baud) /\ Steady(list, t[i], baud)
  <2>1. i + 1 \in j + 1 .. (k + 1) - 1 /\ i \in 1 .. Len(s) - 1
    BY <1>1
  <2> QED
    BY <1>1, <2>1 DEF Settled
<1>3. AtBaud(t[k], baud) /\ Nearly(list, t[k], baud)
  BY <1>1 DEF Settled
<1> QED
  BY <1>2, <1>3 DEF Settled, t

LEMMA TailArranged ==
  ASSUME NEW list, NEW S, NEW s \in Seq(S), s # << >>, Arranged(list, s)
  PROVE  Arranged(list, Tail(s))
<1> DEFINE t == Tail(s)
           n == Len(s) - 1
<1>1. /\ n \in Nat /\ Len(t) = n /\ Len(s) = n + 1
      /\ \A i \in 1 .. n : t[i] = s[i + 1] /\ i + 1 \in 1 .. Len(s)
  BY TailIs
<1> HIDE DEF t, n
<1>2. ASSUME NEW k \in 1 .. n PROVE Alone(list, t[k])
  BY <1>1 DEF Arranged
<1>3. ASSUME NEW j \in 1 .. n, NEW k \in 1 .. n, j < k PROVE InTurn(list, t[j], t[k])
  <2>1. j + 1 < k + 1
    BY <1>1, <1>3
  <2> QED
    BY <1>1, <2>1 DEF Arranged
<1>4. ASSUME NEW k \in 2 .. n, t[k].do = "wait"
      PROVE  t[k - 1].do = "reopen" /\ t[k - 1].baud = t[k].baud
  <2>1. k + 1 \in 2 .. Len(s) /\ (k + 1) - 1 = k /\ (k - 1) + 1 = k /\ k \in 1 .. n /\ k - 1 \in 1 .. n
    BY <1>1
  <2>2. t[k] = s[k + 1] /\ t[k - 1] = s[k]
    BY <1>1, <2>1
  <2>3. s[k].do = "reopen" /\ s[k].baud = s[k + 1].baud
    BY <1>4, <2>1, <2>2 DEF Arranged
  <2> QED
    BY <2>2, <2>3
<1>5. ASSUME NEW k \in 1 .. n, NEW c \in 1 .. Len(list),
             t[k].do = "phase" /\ Has(t[k], c) /\ list[c].kind = "signalgroup"
      PROVE  \E j \in k + 1 .. n : t[j].do = "check"
  <2>1. PICK j \in k + 1 + 1 .. Len(s) : s[j].do = "check"
    BY <1>1, <1>5 DEF Arranged
  <2>2. j - 1 \in k + 1 .. n /\ j - 1 \in 1 .. n /\ (j - 1) + 1 = j
    BY <1>1
  <2>3. t[j - 1] = s[j]
    BY <1>1, <2>2
  <2> QED
    BY <2>1, <2>2, <2>3
<1> QED
  BY <1>1, <1>2, <1>3, <1>4, <1>5 DEF Arranged, t

\* Before each stage that needs it, the receiver is known to listen where the
\* port is open: it does now, or a stage in between waits until it does.
Reach(k) ==
  \/ Provided(plan, script, k)
  \/ Hears(link) /\ Settled(plan, script, 1, k, link)

InReach == \A k \in 1 .. Len(script) : Needs(plan, script[k]) => Reach(k)

\* A wait is at the baud that the port is open at.
Opened == script[1].do = "wait" => link = script[1].baud

\* What a command would undo has not been done before it.
Untouched ==
  \A c, d \in Everyone :
    Precedes(plan[c], plan[d]) /\ fates[c] = "unsent" => fates[d] = "unsent"

\* What was accepted is in force, the groups at least once they were checked.
InForce ==
  \A c \in Everyone :
    /\ plan[c].kind = "setting" /\ fates[c] \in {"accepted", "skipped"} => c \in rx.settings
    /\ plan[c].kind = "signalgroup" /\ fates[c] \in {"accepted", "skipped"} =>
         \/ rx.groups = plan[c].value
         \/ \E k \in 1 .. Len(script) : script[k].do = "check"

\* The answer by which SIGNALGROUP is skipped is true when that is decided.
Asked ==
  /\ (\E k \in 1 .. Len(script) : script[k].do = "decide") =>
       \/ queried = NoGroups
       \/ queried = rx.groups /\ \A k \in 1 .. Len(script) : script[k].do # "phase"
  /\ (\E k \in 1 .. Len(script) : script[k].do \in {"decide", "check"}) =>
       \A c \in Everyone : fates[c] # "skipped"

Onward == Arranged(plan, script) /\ InReach /\ Opened /\ Untouched /\ InForce /\ Asked

\* The receiver of a plan that is taken up listens where VERSIONA found it.
Ready ==
  /\ queried = NoGroups
  /\ attempt.verified => Hears(link) /\ link = attempt.baud

Truthful ==
  /\ report.verified = rx.baud /\ report.baud = rx.baud
  /\ \A c \in Everyone : fates[c] \in {"accepted", "skipped"} => Kept(c, rx)

Faithful ==
  Unicore =>
    /\ pc = "prepare" => Ready
    /\ pc = "running" => Onward
    /\ Succeeded => Truthful

\* Who was found anywhere is found at that baud.
LEMMA SettledAnywhere ==
  ASSUME attempt \in Attempts, NEW s, NEW j, NEW k, NEW baud \in Bauds,
         Settled(plan, s, j, k, NoBaud)
  PROVE  Settled(plan, s, j, k, baud)
<1>1. \A c \in 1 .. Len(plan) : ~Unsettles(plan[c], NoBaud) => ~Unsettles(plan[c], baud)
  BY PlanType, WorkflowAssumption DEF Unsettles
<1>2. \A stage : /\ AtBaud(stage, NoBaud) => AtBaud(stage, baud)
                 /\ Steady(plan, stage, NoBaud) => Steady(plan, stage, baud)
                 /\ Nearly(plan, stage, NoBaud) => Nearly(plan, stage, baud)
  BY <1>1 DEF AtBaud, Steady, Nearly
<1> QED
  BY <1>2 DEF Settled

\* The stages after one that has succeeded are in reach.
LEMMA PopsInReach ==
  ASSUME Progress, pc = "running", InReach, attempt' = attempt, script' = Tail(script),
         link' \in Bauds,
         Hears(link) /\ AtBaud(script[1], link) => rx'.up /\ rx'.baud = link' /\ link' = link,
         script[1].do \in Settling =>
           rx'.up /\ rx'.baud = link' /\ script[1].baud \in {NoBaud, link'}
  PROVE  InReach'
<1>1. /\ script \in Seq(StageRecords) /\ Len(script) \in Nat \ {0} /\ script # << >>
      /\ attempt \in Attempts
  BY HeadIs DEF Progress, Shape, TypeInv
<1>2. /\ Len(script') = Len(script) - 1
      /\ \A k \in 1 .. Len(script') : script'[k] = script[k + 1] /\ k + 1 \in 1 .. Len(script)
  BY <1>1, TailIs
<1>3. plan' = plan /\ (Hears(link)' <=> rx'.up /\ rx'.baud = link')
  BY SameAttempt DEF Hears
<1> SUFFICES ASSUME NEW k \in 1 .. Len(script'), Needs(plan, script'[k])
             PROVE  \/ Provided(plan, script', k)
                    \/ rx'.up /\ rx'.baud = link' /\ Settled(plan, script', 1, k, link')
  BY <1>3 DEF InReach, Reach, Hears
<1>4. Reach(k + 1)
  BY <1>2 DEF InReach
<1>5. k \in 1 .. Len(script) - 1 /\ k + 1 \in 2 .. Len(script)
  BY <1>1, <1>2
<1>6. ASSUME Hears(link), Settled(plan, script, 1, k + 1, link)
      PROVE  rx'.up /\ rx'.baud = link' /\ Settled(plan, script', 1, k, link')
  <2>1. 1 \in 1 .. (k + 1) - 1 /\ 2 \in 1 .. k + 1
    BY <1>5
  <2>2. AtBaud(script[1], link)
    BY <1>6, <2>1 DEF Settled
  <2>3. rx'.up /\ rx'.baud = link' /\ link' = link
    BY <1>6, <2>2
  <2>4. Settled(plan, script, 2, k + 1, link)
    <3>1. \A i \in 2 .. (k + 1) - 1 : i \in 1 .. (k + 1) - 1
      BY <1>5
    <3> QED
      BY <1>6, <3>1 DEF Settled
  <2>5. 1 \in 1 .. Len(script) - 1 /\ k \in 1 .. Len(script) - 1 /\ 1 + 1 = 2
    BY <1>5
  <2>6. Settled(plan, script', 1, k, link)
    BY <1>1, <2>4, <2>5, TailSettled
  <2> QED
    BY <2>3, <2>6
<1>7. ASSUME NEW j \in 1 .. k, script[j].do \in Settling,
             Settled(plan, script, j + 1, k + 1, script[j].baud)
      PROVE  \/ Provided(plan, script', k)
             \/ rx'.up /\ rx'.baud = link' /\ Settled(plan, script', 1, k, link')
  <2>1. j \in 1 .. Len(script) - 1 /\ k \in j .. Len(script) - 1
    BY <1>5
  <2>2. Settled(plan, script', j, k, script[j].baud)
    BY <1>1, <1>7, <2>1, TailSettled
  <2>3. CASE j = 1
    <3>1. rx'.up /\ rx'.baud = link' /\ script[1].baud \in {NoBaud, link'}
      BY <1>7, <2>3
    <3>2. Settled(plan, script', 1, k, link')
      BY <1>1, <2>2, <2>3, <3>1, SettledAnywhere
    <3> QED
      BY <3>1, <3>2
  <2>4. CASE j # 1
    <3>1. j - 1 \in 1 .. k - 1 /\ j - 1 \in 1 .. Len(script') /\ (j - 1) + 1 = j
      BY <1>1, <1>2, <2>4
    <3>2. script'[j - 1] = script[j]
      BY <1>2, <3>1
    <3>3. Provided(plan, script', k)
      BY <1>7, <2>2, <3>1, <3>2 DEF Provided
    <3> QED
      BY <3>3
  <2> QED
    BY <2>3, <2>4
<1>8. CASE Hears(link) /\ Settled(plan, script, 1, k + 1, link)
  BY <1>6, <1>8
<1>9. CASE Provided(plan, script, k + 1)
  <2>1. (k + 1) - 1 = k
    BY <1>5
  <2>2. PICK j \in 1 .. (k + 1) - 1 : /\ script[j].do \in Settling
                                      /\ Settled(plan, script, j + 1, k + 1, script[j].baud)
    BY <1>9 DEF Provided
  <2> QED
    BY <1>7, <2>1, <2>2
<1> QED
  BY <1>4, <1>8, <1>9 DEF Reach

\* So are those of a script that has less to send, while the receiver stays.
LEMMA StaysInReach ==
  ASSUME Progress, pc = "running", InReach, attempt' = attempt,
         script' \in Seq(StageRecords), Less(plan, script', script),
         \A k \in 1 .. Len(script) :
           Needs(plan, script'[k]) /\ Hears(link) /\ Settled(plan, script, 1, k, link) =>
             rx'.up /\ rx'.baud = link' /\ link' = link
  PROVE  InReach'
<1>1. script \in Seq(StageRecords) /\ Len(script') = Len(script) /\ Len(script) \in Nat
  BY HeadIs DEF Less
<1>2. plan' = plan /\ (Hears(link)' <=> rx'.up /\ rx'.baud = link')
  BY SameAttempt DEF Hears
<1> SUFFICES ASSUME NEW k \in 1 .. Len(script), Needs(plan, script'[k])
             PROVE  \/ Provided(plan, script', k)
                    \/ rx'.up /\ rx'.baud = link' /\ Settled(plan, script', 1, k, link')
  BY <1>1, <1>2 DEF InReach, Reach, Hears
<1>3. Needs(plan, script[k])
  BY LessStage DEF Less
<1>4. CASE Provided(plan, script, k)
  BY <1>1, <1>4, LessProvided
<1>5. CASE Hears(link) /\ Settled(plan, script, 1, k, link)
  <2>1. rx'.up /\ rx'.baud = link' /\ link' = link
    BY <1>5
  <2>2. 1 \in 1 .. Len(script) /\ k \in 1 .. Len(script)
    BY <1>1
  <2>3. Settled(plan, script', 1, k, link)
    BY <1>1, <1>5, <2>2, LessSettled
  <2> QED
    BY <2>1, <2>3
<1> QED
  BY <1>3, <1>4, <1>5 DEF InReach, Reach

\* A stage has succeeded, and the receiver is as it was.
LEMMA PopsFaithfully ==
  ASSUME Progress, pc = "running", Onward, attempt' = attempt, script' = Tail(script),
         script[1].do # "finish", fates' = fates, rx' = rx, link' \in Bauds,
         Hears(link) /\ AtBaud(script[1], link) => link' = link,
         script[1].do \in Settling => Hears(link') /\ script[1].baud \in {NoBaud, link'},
         script[1].do = "reopen" => link' = script[1].baud,
         \/ queried' = queried
         \/ script[1].do = "query" /\ queried' \in {NoGroups, rx.groups}
         \/ script[1].do = "check",
         script[1].do = "check" =>
           \A c \in Everyone :
             plan[c].kind = "signalgroup" /\ fates[c] \in {"accepted", "skipped"} =>
               rx.groups = plan[c].value
  PROVE  Onward'
<1>1. script \in Seq(StageRecords) /\ script # << >> /\ Len(script) \in Nat \ {0}
  BY HeadIs DEF Progress, Shape
<1>2. /\ Len(script') = Len(script) - 1
      /\ \A k \in 1 .. Len(script') : script'[k] = script[k + 1] /\ k + 1 \in 1 .. Len(script)
      /\ \A k \in 2 .. Len(script) : k - 1 \in 1 .. Len(script') /\ script'[k - 1] = script[k]
  BY <1>1, TailIs
<1>3. plan' = plan /\ Everyone' = Everyone
  BY SameAttempt
<1>4. Arranged(plan, script')
  BY <1>1, TailArranged DEF Onward
<1>5. InReach'
  BY PopsInReach DEF Onward, Hears
<1>6. Opened'
  <2>1. 1 \in 1 .. Len(script')
    <3>1. Len(script) # 1
      <4>1. 1 \in 1 .. Len(script)
        BY <1>1
      <4> QED
        BY <4>1 DEF Progress, Shape
    <3> QED
      BY <1>1, <1>2, <3>1
  <2>2. script'[1] = script[2] /\ 2 \in 2 .. Len(script)
    BY <1>2, <2>1
  <2> SUFFICES ASSUME script[2].do = "wait" PROVE link' = script[2].baud
    BY <2>2 DEF Opened
  <2>3. script[2 - 1].do = "reopen" /\ script[2 - 1].baud = script[2].baud
    BY <2>2 DEF Onward, Arranged
  <2> QED
    BY <2>3
<1>7. Untouched'
  BY <1>3 DEF Onward, Untouched
<1>8. InForce'
  <2> SUFFICES ASSUME NEW c \in Everyone
               PROVE  /\ plan[c].kind = "setting" /\ fates[c] \in {"accepted", "skipped"} => c \in rx.settings
                      /\ plan[c].kind = "signalgroup" /\ fates[c] \in {"accepted", "skipped"} =>
                           \/ rx.groups = plan[c].value
                           \/ \E k \in 1 .. Len(script') : script'[k].do = "check"
    BY <1>3 DEF InForce
  <2>1. plan[c].kind = "setting" /\ fates[c] \in {"accepted", "skipped"} => c \in rx.settings
    BY DEF Onward, InForce
  <2>2. ASSUME plan[c].kind = "signalgroup", fates[c] \in {"accepted", "skipped"},
               rx.groups # plan[c].value
        PROVE  \E k \in 1 .. Len(script') : script'[k].do = "check"
    <3>1. PICK k \in 1 .. Len(script) : script[k].do = "check"
      BY <2>2 DEF Onward, InForce
    <3>2. k # 1
      BY <2>2, <3>1
    <3>3. k \in 2 .. Len(script)
      BY <1>1, <3>2
    <3> QED
      BY <1>2, <3>1, <3>3
  <2> QED
    BY <2>1, <2>2
<1>9. Asked'
  <2>1. ASSUME NEW do, \E k \in 1 .. Len(script') : script'[k].do = do
        PROVE  \E k \in 2 .. Len(script) : script[k].do = do
    <3>1. \A k \in 1 .. Len(script') : k + 1 \in 2 .. Len(script)
      BY <1>1, <1>2
    <3> QED
      BY <1>2, <2>1, <3>1
  <2>2. ASSUME \E k \in 1 .. Len(script') : script'[k].do = "decide"
        PROVE  \/ queried' = NoGroups
               \/ queried' = rx.groups /\ \A k \in 1 .. Len(script') : script'[k].do # "phase"
    <3>1. PICK d \in 2 .. Len(script) : script[d].do = "decide"
      BY <2>1, <2>2
    <3>2. \A k \in 2 .. Len(script) : InTurn(plan, script[1], script[k])
      <4>1. \A k \in 2 .. Len(script) : 1 \in 1 .. Len(script) /\ k \in 1 .. Len(script) /\ 1 < k
        BY <1>1
      <4> QED
        BY <4>1 DEF Onward, Arranged
    <3>3. script[1].do # "check"
      BY <3>1, <3>2 DEF InTurn
    <3>4. CASE script[1].do = "query" /\ queried' \in {NoGroups, rx.groups}
      <4>1. \A k \in 2 .. Len(script) : script[k].do # "phase"
        BY <3>2, <3>4 DEF InTurn
      <4>2. \A k \in 1 .. Len(script') : script'[k].do # "phase"
        BY <2>1, <4>1
      <4> QED
        BY <3>4, <4>2
    <3>5. CASE queried' = queried
      <4>1. d \in 1 .. Len(script)
        BY <1>1
      <4>2. \/ queried = NoGroups
            \/ queried = rx.groups /\ \A k \in 1 .. Len(script) : script[k].do # "phase"
        BY <3>1, <4>1 DEF Onward, Asked
      <4>3. \A k \in 2 .. Len(script) : k \in 1 .. Len(script)
        BY <1>1
      <4> QED
        BY <2>1, <3>5, <4>2, <4>3
    <3> QED
      BY <3>3, <3>4, <3>5
  <2>3. ASSUME \E k \in 1 .. Len(script') : script'[k].do \in {"decide", "check"}
        PROVE  \A c \in Everyone : fates[c] # "skipped"
    <3>1. PICK d \in 2 .. Len(script) : script[d].do \in {"decide", "check"}
      BY <2>1, <2>3
    <3>2. d \in 1 .. Len(script)
      BY <1>1
    <3> QED
      BY <3>1, <3>2 DEF Onward, Asked
  <2> QED
    BY <1>3, <2>2, <2>3 DEF Asked
<1> QED
  BY <1>3, <1>4, <1>5, <1>6, <1>7, <1>8, <1>9 DEF Onward

\* A stage counts its attempts, or the receiver restarts.
LEMMA StaysFaithfully ==
  ASSUME Progress, pc = "running", Onward, attempt' = attempt, script' \in Seq(StageRecords),
         Less(plan, script', script), script[1].do = "wait" => link' = link,
         fates' = fates, queried' = queried,
         rx'.baud = rx.baud, rx'.groups = rx.groups, rx'.settings = rx.settings,
         \A k \in 1 .. Len(script) :
           Hears(link) /\ Settled(plan, script, 1, k, link) => rx' = rx /\ link' = link
  PROVE  Onward'
<1>1. script \in Seq(StageRecords) /\ Len(script) \in Nat \ {0} /\ Len(script') = Len(script)
  BY HeadIs DEF Less
<1>2. plan' = plan /\ Everyone' = Everyone
  BY SameAttempt
<1>3. \A k \in 1 .. Len(script) : script'[k].do = script[k].do /\ script'[k].baud = script[k].baud
  BY DEF Less
<1>4. Arranged(plan, script')
  BY <1>1, LessArranged DEF Onward
<1>5. InReach'
  BY StaysInReach DEF Onward, Hears
<1>6. Opened'
  <2>1. 1 \in 1 .. Len(script)
    BY <1>1
  <2> QED
    BY <1>3, <2>1 DEF Onward, Opened
<1>7. Untouched'
  BY <1>2 DEF Onward, Untouched
<1>8. InForce'
  BY <1>1, <1>2, <1>3 DEF Onward, InForce
<1>9. Asked'
  BY <1>1, <1>2, <1>3 DEF Onward, Asked
<1> QED
  BY <1>2, <1>4, <1>5, <1>6, <1>7, <1>8, <1>9 DEF Onward

\* What has to be shown of a step, by the state it leads to.
LEMMA GoesOnTruly ==
  ASSUME attempt' = attempt, pc' = "running", Unicore => Onward'
  PROVE  Faithful'
BY DEF Faithful, Unicore, Succeeded

LEMMA GivesUpTruly ==
  ASSUME NEW status \in Statuses \ {"ok", "partialSuccess"}, NEW doubt \in BOOLEAN, Ends(status, doubt),
         report \in Reports
  PROVE  Faithful'
<1>1. pc' = "done" /\ report'.status = status
  BY DEF Ends, Reports
<1> QED
  BY <1>1 DEF Faithful, Succeeded

\* There is one SIGNALGROUP in a plan for a Unicore receiver.
LEMMA OneGroup ==
  ASSUME attempt \in Attempts, Unicore, NEW c \in Everyone, NEW d \in Everyone,
         plan[c].kind = "signalgroup", plan[d].kind = "signalgroup"
  PROVE  c = d
<1>1. c \in 1 .. Len(attempt.commands) /\ d \in 1 .. Len(attempt.commands)
  BY PlanType DEF plan
<1> QED
  BY <1>1, PlanAssumption DEF Unicore, plan

LEMMA PortFaithfully ==
  ASSUME Progress, Faithful, Reopens \/ Waits \/ Scans \/ Probes \/ Queries \/ Checks
  PROVE  Faithful'
<1>1. /\ pc = "running"
      /\ Head(script).do \in {"reopen", "wait", "scan", "probe", "query", "check"}
  BY DEF Reopens, Waits, Scans, Probes, Queries, Checks, At
<1>2. /\ script \in Seq(StageRecords) /\ Len(script) \in Nat \ {0} /\ Head(script) = script[1]
      /\ script[1] \in StageRecords
      /\ script[1].do \notin {"phase", "scan"} => script[1].baud \in Bauds
      /\ WellFormed(plan, script[1])
  BY <1>1, HeadIs
<1>3. link \in Bauds /\ report \in Reports /\ rx \in Receivers /\ attempt \in Attempts
  BY DEF Progress, TypeInv, Reports
<1>4. Unicore => Onward
  BY <1>1 DEF Faithful
<1>5. {"transportUnavailable", "rejected"} \subseteq Statuses \ {"ok", "partialSuccess"}
      /\ FALSE \in BOOLEAN
  BY DEF Statuses
<1>6. \A stage, baud : AtBaud(stage, baud) <=> stage.baud = NoBaud \/ stage.baud = baud
  BY DEF AtBaud
<1>7. NoBaud \notin Bauds
  BY WorkflowAssumption
<1>8. CASE Reopens
  <2>1. /\ attempt' = attempt /\ queried' = queried /\ rx' = rx /\ fates' = fates
        /\ script[1].do = "reopen"
        /\ \/ link' = script[1].baud /\ script' = Tail(script) /\ pc' = pc
           \/ Ends("transportUnavailable", FALSE)
    BY <1>2, <1>8 DEF Reopens, GoesOn, At
  <2>2. ASSUME link' = script[1].baud, script' = Tail(script), Unicore
        PROVE  Onward'
    <3>1. link' \in Bauds /\ (AtBaud(script[1], link) => link' = link)
      BY <1>2, <1>6, <1>7, <2>1, <2>2
    <3>2. script[1].do \notin Settling
      BY <2>1 DEF Settling
    <3> QED
      BY <1>1, <1>4, <2>1, <2>2, <3>1, <3>2, PopsFaithfully
  <2> QED
    BY <1>1, <1>3, <1>5, <2>1, <2>2, GoesOnTruly, GivesUpTruly
<1>9. CASE Waits
  <2>1. /\ attempt' = attempt /\ queried' = queried /\ rx' = rx /\ fates' = fates /\ link' = link
        /\ script[1].do = "wait"
        /\ \/ Hears(link) /\ script' = Tail(script) /\ pc' = pc
           \/ Ends("transportUnavailable", FALSE)
    BY <1>2, <1>9 DEF Waits, GoesOn, At
  <2>2. ASSUME Hears(link), script' = Tail(script), Unicore
        PROVE  Onward'
    <3>1. Hears(link') /\ script[1].baud \in {NoBaud, link'}
      BY <1>4, <2>1, <2>2 DEF Onward, Opened
    <3> QED
      BY <1>1, <1>3, <1>4, <2>1, <2>2, <3>1, PopsFaithfully
  <2> QED
    BY <1>1, <1>3, <1>5, <2>1, <2>2, GoesOnTruly, GivesUpTruly
<1>10. CASE Scans
  <2>1. /\ attempt' = attempt /\ queried' = queried /\ rx' = rx /\ fates' = fates
        /\ script[1].do = "scan"
        /\ \/ \E baud \in Bauds : Hears(baud) /\ link' = baud /\ script' = Tail(script) /\ pc' = pc
           \/ Ends("transportUnavailable", FALSE)
    BY <1>2, <1>10 DEF Scans, At
  <2>2. ASSUME NEW baud \in Bauds, Hears(baud), link' = baud, script' = Tail(script), Unicore
        PROVE  Onward'
    <3>1. link' \in Bauds /\ Hears(link')
      BY <2>2
    <3>2. script[1].baud = NoBaud
      BY <1>2, <2>1 DEF WellFormed
    <3>3. Hears(link) => link' = link
      BY <2>2 DEF Hears
    <3> QED
      BY <1>1, <1>4, <2>1, <2>2, <3>1, <3>2, <3>3, PopsFaithfully
  <2> QED
    BY <1>1, <1>3, <1>5, <2>1, <2>2, GoesOnTruly, GivesUpTruly
<1>11. CASE Probes
  <2>1. /\ attempt' = attempt /\ queried' = queried /\ rx' = rx /\ fates' = fates
        /\ script[1].do = "probe" /\ link' = script[1].baud
        /\ \/ Hears(script[1].baud) /\ script' = Tail(script) /\ pc' = pc
           \/ script[1].left > 1 /\ script' = [script EXCEPT ![1].left = @ - 1] /\ pc' = pc
           \/ Ends("transportUnavailable", FALSE)
    BY <1>2, <1>11 DEF Probes, GoesOn, At
  <2>2. link' \in Bauds /\ (AtBaud(script[1], link) => link' = link)
    BY <1>2, <1>6, <1>7, <2>1
  <2>3. ASSUME Hears(script[1].baud), script' = Tail(script), Unicore
        PROVE  Onward'
    BY <1>1, <1>4, <2>1, <2>2, <2>3, PopsFaithfully
  <2>4. ASSUME script[1].left > 1, script' = [script EXCEPT ![1].left = @ - 1], Unicore
        PROVE  Onward'
    <3>1. /\ script' \in Seq(StageRecords) /\ Len(script') = Len(script)
          /\ \A k \in 1 .. Len(script) : /\ script'[k].do = script[k].do
                                         /\ script'[k].baud = script[k].baud
                                         /\ script'[k].commands = script[k].commands
      BY <1>1, <2>4, ProbesAgain
    <3>2. Less(plan, script', script)
      BY <3>1 DEF Less, Has, Carries
    <3>3. ASSUME NEW k \in 1 .. Len(script), Settled(plan, script, 1, k, link)
          PROVE  link' = link
      <4>1. CASE k = 1
        BY <2>2, <3>3, <4>1 DEF Settled
      <4>2. CASE k # 1
        <5>1. 1 \in 1 .. k - 1
          BY <1>2, <4>2
        <5> QED
          BY <2>2, <3>3, <5>1 DEF Settled
      <4> QED
        BY <4>1, <4>2
    <3> QED
      BY <1>1, <1>4, <2>1, <2>4, <3>1, <3>2, <3>3, StaysFaithfully
  <2> QED
    BY <1>1, <1>3, <1>5, <2>1, <2>3, <2>4, GoesOnTruly, GivesUpTruly
<1>12. CASE Queries
  <2>1. /\ attempt' = attempt /\ rx' = rx /\ fates' = fates /\ link' = link
        /\ script[1].do = "query" /\ script' = Tail(script) /\ pc' = pc
        /\ queried' \in {NoGroups, rx.groups}
    BY <1>2, <1>12 DEF Queries, GoesOn, At
  <2>2. script[1].do \notin Settling
    BY <2>1 DEF Settling
  <2>3. ASSUME Unicore PROVE Onward'
    BY <1>1, <1>3, <1>4, <2>1, <2>2, <2>3, PopsFaithfully
  <2> QED
    BY <1>1, <2>1, <2>3, GoesOnTruly
<1>13. CASE Checks
  <2> DEFINE group == Head(script[1].commands)
  <2>1. /\ attempt' = attempt /\ rx' = rx /\ fates' = fates /\ link' = link
        /\ script[1].do = "check"
        /\ \/ /\ queried' = rx.groups
              /\ queried' = plan[group].value \/ fates[group] # "accepted"
              /\ script' = Tail(script) /\ pc' = pc
           \/ \E status \in {"transportUnavailable", "rejected"} : Ends(status, FALSE)
    BY <1>2, <1>13 DEF Checks, GoesOn, At
  <2>2. group \in Everyone /\ plan[group].kind = "signalgroup"
    <3>1. Everyone = 1 .. Len(plan)
      BY <1>3, PlanType
    <3>2. PICK g \in Everyone : script[1].commands = <<g>> /\ plan[g].kind = "signalgroup"
      BY <1>2, <2>1, <3>1 DEF WellFormed
    <3> QED
      BY <3>2
  <2> HIDE DEF group
  <2>3. ASSUME rx.groups = plan[group].value \/ fates[group] # "accepted",
               script' = Tail(script), Unicore
        PROVE  Onward'
    <3>1. script[1].do \notin Settling
      BY <2>1 DEF Settling
    <3>2. \A c \in Everyone : fates[c] # "skipped"
      <4>1. 1 \in 1 .. Len(script)
        BY <1>2
      <4> QED
        BY <1>4, <2>1, <2>3, <4>1 DEF Onward, Asked
    <3>3. ASSUME NEW c \in Everyone, plan[c].kind = "signalgroup",
                 fates[c] \in {"accepted", "skipped"}
          PROVE  rx.groups = plan[c].value
      <4>1. c = group /\ fates[c] = "accepted"
        BY <1>3, <2>2, <2>3, <3>2, <3>3, OneGroup
      <4> QED
        BY <2>3, <4>1
    <3> QED
      BY <1>1, <1>3, <1>4, <2>1, <2>3, <3>1, <3>3, PopsFaithfully
  <2> QED
    BY <1>1, <1>3, <1>5, <2>1, <2>3, GoesOnTruly, GivesUpTruly
<1> QED
  BY <1>8, <1>9, <1>10, <1>11, <1>12, <1>13

LEMMA PhaseEndsFaithfully ==
  ASSUME Progress, Faithful, PhaseEnds
  PROVE  Faithful'
<1>1. /\ pc = "running" /\ Head(script).do = "phase"
      /\ script' = Tail(script) /\ pc' = pc
      /\ attempt' = attempt /\ queried' = queried /\ link' = link
      /\ rx' = rx /\ fates' = fates
  BY DEF PhaseEnds, At, GoesOn
<1>2. script[1].do = "phase"
  BY <1>1, HeadIs
<1>3. script[1].do \notin Settling
  BY <1>2 DEF Settling
<1>4. link' \in Bauds
  BY <1>1 DEF Progress, TypeInv
<1>5. Unicore => Onward'
  BY <1>1, <1>2, <1>3, <1>4, PopsFaithfully DEF Faithful
<1> QED
  BY <1>1, <1>5, GoesOnTruly

LEMMA RestartsFaithfully ==
  ASSUME Progress, Faithful, Restarts
  PROVE  Faithful'
<1>1. /\ pc' = pc /\ attempt' = attempt /\ script' = script /\ queried' = queried
      /\ link' = link /\ fates' = fates /\ report' = report
      /\ ~rx.up /\ rx' = [rx EXCEPT !.up = TRUE]
  BY DEF Restarts
<1>2. /\ rx'.baud = rx.baud /\ rx'.groups = rx.groups /\ rx'.settings = rx.settings
      /\ ~Hears(link) /\ script \in Seq(StageRecords) /\ pc \in {"prepare", "running", "done"}
  BY <1>1 DEF Progress, TypeInv, Receivers, Hears
<1>3. CASE pc = "running"
  <2>1. Less(plan, script', script)
    BY <1>1 DEF Less
  <2>2. Unicore => Onward'
    BY <1>1, <1>2, <1>3, <2>1, StaysFaithfully DEF Faithful
  <2> QED
    BY <1>1, <1>3, <2>2, GoesOnTruly
<1>4. CASE pc = "prepare"
  BY <1>1, <1>2, <1>4 DEF Faithful, Ready, Succeeded, Unicore
<1>5. CASE pc = "done"
  <2>1. Succeeded' => Succeeded
    BY <1>1 DEF Succeeded
  <2>2. \A c \in Everyone : Kept(c, rx') <=> Kept(c, rx)
    BY <1>2 DEF Kept
  <2>3. plan' = plan /\ Everyone' = Everyone
    BY <1>1, SameAttempt
  <2>4. \A c \in Everyone : Kept(c, rx)' <=> Kept(c, rx')
    BY <2>3 DEF Kept
  <2> QED
    BY <1>1, <1>2, <1>5, <2>1, <2>2, <2>3, <2>4 DEF Faithful, Truthful, Unicore
<1> QED
  BY <1>2, <1>3, <1>4, <1>5

-----------------------------------------------------------------------------
(* ... while commands are sent                                             *)

\* What acting on a command leaves as it was.
LEMMA ObeyedKeeps ==
  ASSUME TypeInv, NEW c \in Everyone, NEW r \in Obeyed(c)
  PROVE  /\ plan[c].kind \in {"setting", "com1", "save"} => r.up = rx.up
         /\ plan[c].kind \in {"setting", "save"} => r.baud = rx.baud
         /\ plan[c].kind = "com1" => r.baud = plan[c].value
         /\ plan[c].kind \in {"setting", "com1", "save"} => rx.settings \subseteq r.settings
         /\ plan[c].kind = "setting" => c \in r.settings
         /\ plan[c].kind \in {"setting", "com1", "save"} => r.groups = rx.groups
<1>1. rx \in Receivers
  BY DEF TypeInv
<1>2. CASE plan[c].kind = "com1"
  <2>1. r = [rx EXCEPT !.baud = plan[c].value]
    BY <1>2 DEF Obeyed
  <2> QED
    BY <1>1, <1>2, <2>1 DEF Receivers
<1>3. CASE plan[c].kind = "save"
  <2>1. r = [rx EXCEPT !.saved = [baud |-> rx.baud, settings |-> rx.settings]]
    BY <1>3 DEF Obeyed
  <2> QED
    BY <1>1, <1>3, <2>1 DEF Receivers
<1>4. CASE plan[c].kind = "setting"
  <2>1. r = [rx EXCEPT !.settings = @ \cup {c}]
    BY <1>4 DEF Obeyed
  <2> QED
    BY <1>1, <1>4, <2>1 DEF Receivers
<1> QED
  BY <1>2, <1>3, <1>4

\* The command at the head of a phase leaves the rest of it.
LEMMA PassesLess ==
  ASSUME Progress, At("phase"), Head(script).commands # << >>,
         NEW c, c = Head(Head(script).commands), NEW outcome, CommandPassed(outcome)
  PROVE  /\ c \in Everyone /\ fates[c] = "unsent" /\ Has(script[1], c) /\ script[1].do = "phase"
         /\ script' \in Seq(StageRecords) /\ Less(plan, script', script)
         /\ \A d \in Everyone : Has(script'[1], d) => Has(script[1], d) /\ c < d
<1> DEFINE rest == [script[1] EXCEPT !.commands = Tail(@)]
<1>1. /\ script \in Seq(StageRecords) /\ Len(script) \in Nat \ {0}
      /\ Head(script) = script[1] /\ script[1].do = "phase" /\ script[1] \in StageRecords
      /\ c = Head(script[1].commands) /\ fates[c] = "unsent" /\ c \in Everyone
  BY HeadPhase
<1>2. PICK last \in 0 .. Len(plan) :
        /\ script[1].commands = Slice(c, last) /\ c <= last
        /\ Tail(script[1].commands) = Slice(c + 1, last)
        /\ Tail(script[1].commands) \in Seq(Everyone)
  BY HeadPhase, <1>1
<1>3. /\ rest \in StageRecords /\ rest.do = "phase" /\ rest.baud = script[1].baud
      /\ rest.commands = Slice(c + 1, last)
  BY <1>1, <1>2 DEF StageRecords
<1>4. /\ script' \in Seq(StageRecords) /\ Len(script') = Len(script) /\ script'[1] = rest
      /\ \A k \in 2 .. Len(script) : script'[k] = script[k]
  <2>1. script' = <<rest>> \o Tail(script)
    BY <1>1 DEF CommandPassed
  <2>2. script # << >>
    BY <1>1
  <2>3. Tail(script) \in Seq(StageRecords) /\ Len(Tail(script)) = Len(script) - 1
        /\ \A k \in 2 .. Len(script) : k - 1 \in 1 .. Len(Tail(script)) /\ Tail(script)[k - 1] = script[k]
    BY <1>1, <2>2, TailIs
  <2>4. <<rest>> \in Seq(StageRecords) /\ Len(<<rest>>) = 1 /\ <<rest>>[1] = rest
    BY <1>3
  <2> HIDE DEF rest
  <2> QED
    BY <1>1, <2>1, <2>3, <2>4, JoinIs
<1> HIDE DEF rest
<1>5. Len(plan) \in Nat /\ Everyone = 1 .. Len(plan)
  BY PlanType DEF Progress, TypeInv
<1>6. \A d \in Everyone : /\ Has(script[1], d) <=> d \in c .. last
                          /\ Has(rest, d) <=> d \in c + 1 .. last
  <2>1. Carries(script[1]) /\ Carries(rest) /\ c \in Nat \ {0} /\ last \in Nat /\ c + 1 \in Nat \ {0}
    BY <1>1, <1>3, <1>5 DEF Carries
  <2> QED
    BY SMTT(30), <1>2, <1>3, <1>5, <2>1, HasStretch
<1>7. \A d \in Everyone : Has(rest, d) => Has(script[1], d) /\ c < d
  BY <1>1, <1>5, <1>6
<1>8. Has(script[1], c)
  BY <1>1, <1>2, <1>5, <1>6
<1>9. Less(plan, script', script)
  <2>1. \A k \in 1 .. Len(script) : k = 1 \/ k \in 2 .. Len(script)
    BY <1>1
  <2> QED
    BY <1>1, <1>3, <1>4, <1>5, <1>7, <2>1 DEF Less
<1> QED
  BY <1>1, <1>4, <1>7, <1>8, <1>9

\* A command is dealt with: one that was accepted has been acted on, or needs no answer.
LEMMA PassesFaithfully ==
  ASSUME Progress, Unicore, Onward, At("phase"), Head(script).commands # << >>,
         NEW c, c = Head(Head(script).commands), NEW outcome, CommandPassed(outcome),
         NEW fate \in {"accepted", "notSent", "refused"},
         attempt' = attempt, queried' = queried, link' = link,
         fates' = [fates EXCEPT ![c] = fate],
         rx' \in {rx} \cup Obeyed(c),
         fate = "accepted" /\ plan[c].kind \notin {"com1", "freset"} => rx' \in Obeyed(c)
  PROVE  Onward'
<1>1. pc = "running" /\ TypeInv /\ attempt \in Attempts
  BY DEF At, Progress, TypeInv
<1>2. /\ c \in Everyone /\ fates[c] = "unsent" /\ Has(script[1], c) /\ script[1].do = "phase"
      /\ script' \in Seq(StageRecords) /\ Less(plan, script', script)
      /\ \A d \in Everyone : Has(script'[1], d) => Has(script[1], d) /\ c < d
  BY PassesLess
<1>3. script \in Seq(StageRecords) /\ Len(script) \in Nat \ {0} /\ Len(script') = Len(script)
  BY <1>1, <1>2, HeadIs DEF Less
<1>4. plan' = plan /\ Everyone' = Everyone /\ Everyone = 1 .. Len(plan)
  BY <1>1, SameAttempt, PlanType
<1>5. fates'[c] = fate /\ \A d \in Everyone \ {c} : fates'[d] = fates[d]
  BY <1>1, <1>2 DEF TypeInv
<1>6. \A k \in 1 .. Len(script) : script'[k].do = script[k].do /\ script'[k].baud = script[k].baud
  BY <1>2 DEF Less
<1>7. plan[c].kind \in {"setting", "com1", "save", "freset", "signalgroup"}
  BY <1>1, <1>2, PlanType DEF Kinds
<1>8. Arranged(plan, script')
  BY <1>2, <1>3, LessArranged DEF Onward
<1>9. InReach'
  <2>1. ASSUME Hears(link), ~Unsettles(plan[c], link)
        PROVE  rx'.up /\ rx'.baud = link'
    <3>1. plan[c].kind \in {"setting", "com1", "save"} /\ (plan[c].kind = "com1" => plan[c].value = link)
      BY <1>7, <2>1 DEF Unsettles
    <3> QED
      BY <1>1, <1>2, <2>1, <3>1, ObeyedKeeps DEF Hears
  <2>2. ASSUME NEW k \in 1 .. Len(script), Needs(plan, script'[k]), Hears(link),
               Settled(plan, script, 1, k, link)
        PROVE  ~Unsettles(plan[c], link)
    <3>1. CASE k = 1
      <4>1. script'[1].do = "phase"
        BY <1>2, <1>6, <2>2, <3>1
      <4>2. PICK d \in Everyone : Has(script'[1], d)
        BY <1>4, <2>2, <3>1, <4>1 DEF Needs
      <4>3. Has(script[1], d) /\ c < d
        BY <1>2, <4>2
      <4>4. Nearly(plan, script[1], link)
        BY <2>2, <3>1 DEF Settled
      <4> QED
        BY <1>2, <1>4, <4>3, <4>4 DEF Nearly
    <3>2. CASE k # 1
      <4>1. 1 \in 1 .. k - 1
        BY <1>3, <3>2
      <4>2. Steady(plan, script[1], link)
        BY <2>2, <4>1 DEF Settled
      <4> QED
        BY <1>2, <1>4, <4>2 DEF Steady
    <3> QED
      BY <3>1, <3>2
  <2> QED
    BY <1>1, <1>2, <2>1, <2>2, StaysInReach DEF Onward
<1>10. Opened'
  <2>1. 1 \in 1 .. Len(script)
    BY <1>3
  <2> QED
    BY <1>2, <1>6, <2>1 DEF Opened
<1>11. ASSUME NEW d \in Everyone, fates[d] = "unsent" PROVE ~Precedes(plan[d], plan[c])
  <2>1. PICK k \in 1 .. Len(script) : Has(script[k], d)
    BY <1>1, <1>11 DEF Progress, Pending
  <2>2. 1 \in 1 .. Len(script)
    BY <1>3
  <2>3. CASE k = 1
    <3>1. Alone(plan, script[1])
      BY <2>2 DEF Onward, Arranged
    <3> QED
      BY <1>2, <1>4, <2>1, <2>3, <3>1 DEF Alone
  <2>4. CASE k # 1
    <3>1. 1 < k
      BY <1>3, <2>4
    <3>2. InTurn(plan, script[1], script[k])
      BY <2>2, <3>1 DEF Onward, Arranged
    <3> QED
      BY <1>2, <1>4, <2>1, <3>2 DEF InTurn
  <2> QED
    BY <2>3, <2>4
<1>12. Untouched'
  <2> SUFFICES ASSUME NEW a \in Everyone, NEW d \in Everyone, Precedes(plan[a], plan[d]),
                      fates'[a] = "unsent"
               PROVE  fates'[d] = "unsent"
    BY <1>4 DEF Untouched
  <2>1. a # c /\ fates[a] = "unsent"
    BY <1>5
  <2>2. fates[d] = "unsent" /\ d # c
    BY <1>11, <2>1 DEF Onward, Untouched
  <2> QED
    BY <1>5, <2>2
<1>13. ASSUME NEW d \in Everyone, fates[d] # "unsent" PROVE ~Precedes(plan[c], plan[d])
  BY <1>2, <1>13 DEF Onward, Untouched
<1>14. ASSUME NEW d \in Everyone, plan[d].kind = "setting", fates'[d] \in {"accepted", "skipped"}
       PROVE  d \in rx'.settings
  <2>1. CASE d = c
    <3>1. rx' \in Obeyed(c)
      BY <1>5, <1>14, <2>1
    <3> QED
      BY <1>1, <1>2, <1>14, <2>1, <3>1, ObeyedKeeps
  <2>2. CASE d # c
    <3>1. fates[d] \in {"accepted", "skipped"}
      BY <1>5, <1>14, <2>2
    <3>2. d \in rx.settings
      BY <1>14, <3>1 DEF Onward, InForce
    <3>3. ~Precedes(plan[c], plan[d])
      BY <1>13, <3>1
    <3>4. plan[c].kind \in {"setting", "com1", "save"}
      BY <1>7, <1>14, <3>3 DEF Precedes
    <3>5. rx' = rx \/ rx.settings \subseteq rx'.settings
      BY <1>1, <1>2, <3>4, ObeyedKeeps
    <3> QED
      BY <3>2, <3>5
  <2> QED
    BY <2>1, <2>2
<1>15. ASSUME NEW d \in Everyone, plan[d].kind = "signalgroup", fates'[d] \in {"accepted", "skipped"}
       PROVE  \/ rx'.groups = plan[d].value
              \/ \E k \in 1 .. Len(script') : script'[k].do = "check"
  <2>1. ASSUME \E k \in 1 .. Len(script) : script[k].do = "check"
        PROVE  \E k \in 1 .. Len(script') : script'[k].do = "check"
    BY <1>3, <1>6, <2>1
  <2>2. CASE d = c
    <3>1. 1 \in 1 .. Len(script)
      BY <1>3
    <3>2. \E j \in 1 + 1 .. Len(script) : script[j].do = "check"
      BY <1>2, <1>4, <1>15, <2>2, <3>1 DEF Onward, Arranged
    <3>3. \A j \in 1 + 1 .. Len(script) : j \in 1 .. Len(script)
      BY <1>3
    <3> QED
      BY <2>1, <3>2, <3>3
  <2>3. CASE d # c
    <3>1. fates[d] \in {"accepted", "skipped"}
      BY <1>5, <1>15, <2>3
    <3>2. \/ rx.groups = plan[d].value
          \/ \E k \in 1 .. Len(script) : script[k].do = "check"
      BY <1>15, <3>1 DEF Onward, InForce
    <3>3. ~Precedes(plan[c], plan[d])
      BY <1>13, <3>1
    <3>4. plan[c].kind # "signalgroup"
      BY <1>1, <1>2, <1>15, <2>3, OneGroup
    <3>5. plan[c].kind \in {"setting", "com1", "save"}
      BY <1>7, <1>15, <3>3, <3>4 DEF Precedes
    <3>6. rx'.groups = rx.groups
      BY <1>1, <1>2, <3>5, ObeyedKeeps
    <3> QED
      BY <2>1, <3>2, <3>6
  <2> QED
    BY <2>2, <2>3
<1>16. InForce'
  BY <1>4, <1>14, <1>15 DEF InForce
<1>17. Asked'
  <2>1. 1 \in 1 .. Len(script)
    BY <1>3
  <2>2. ASSUME \E k \in 1 .. Len(script') : script'[k].do = "decide" PROVE queried' = NoGroups
    BY <1>2, <1>3, <1>6, <2>1, <2>2 DEF Onward, Asked
  <2>3. ASSUME \E k \in 1 .. Len(script') : script'[k].do \in {"decide", "check"}
        PROVE  \A d \in Everyone : fates'[d] # "skipped"
    BY <1>3, <1>5, <1>6, <2>3 DEF Onward, Asked
  <2> QED
    BY <1>4, <2>2, <2>3 DEF Asked
<1> QED
  BY <1>4, <1>8, <1>9, <1>10, <1>12, <1>16, <1>17 DEF Onward

LEMMA SendsFaithfully ==
  ASSUME Progress, Faithful, SendsCommand
  PROVE  Faithful'
<1> DEFINE c == Head(Head(script).commands)
<1>1. /\ At("phase") /\ Head(script).commands # << >> /\ attempt' = attempt
      /\ queried' = queried /\ link' = link
      /\ NotSent(c) \/ Accepted(c) \/ Refused(c) \/ Doubtful(c)
  BY DEF SendsCommand
<1>2. pc = "running" /\ (Unicore => Onward) /\ report \in Reports
  BY <1>1 DEF At, Faithful, Progress, TypeInv, Reports
<1> HIDE DEF c
<1>3. ASSUME NEW fate \in {"accepted", "notSent", "refused"}, NEW outcome, CommandPassed(outcome),
             fates' = [fates EXCEPT ![c] = fate], rx' \in {rx} \cup Obeyed(c),
             fate = "accepted" /\ plan[c].kind \notin {"com1", "freset"} => rx' \in Obeyed(c)
      PROVE  Faithful'
  <2>1. Unicore => Onward'
    BY <1>1, <1>2, <1>3, PassesFaithfully DEF c
  <2>2. pc' = "running"
    BY <1>2, <1>3 DEF CommandPassed
  <2> QED
    BY <1>1, <2>1, <2>2, GoesOnTruly
<1>4. ASSUME NEW status \in {"dispatchFailed", "rejected", "timedOut", "readFailed"},
             NEW doubt \in BOOLEAN, Ends(status, doubt)
      PROVE  Faithful'
  <2>1. status \in Statuses \ {"ok", "partialSuccess"}
    BY DEF Statuses
  <2> QED
    BY <1>2, <1>4, <2>1, GivesUpTruly
<1>5. CASE NotSent(c)
  <2>1. fates' = [fates EXCEPT ![c] = "notSent"] /\ rx' = rx /\ OptionalOr("dispatchFailed", c)
    BY <1>5 DEF NotSent
  <2>2. Ends("dispatchFailed", FALSE) \/ CommandPassed("optional")
    BY <2>1 DEF OptionalOr
  <2> QED
    BY <1>3, <1>4, <2>1, <2>2
<1>6. CASE Refused(c)
  <2>1. fates' = [fates EXCEPT ![c] = "refused"] /\ rx' = rx /\ OptionalOr("rejected", c)
    BY <1>6 DEF Refused
  <2>2. Ends("rejected", FALSE) \/ CommandPassed("optional")
    BY <2>1 DEF OptionalOr
  <2> QED
    BY <1>3, <1>4, <2>1, <2>2
<1>7. CASE Accepted(c)
  <2>1. /\ fates' = [fates EXCEPT ![c] = "accepted"] /\ CommandPassed("completed")
        /\ rx' \in {rx} \cup Obeyed(c)
        /\ plan[c].kind \notin {"com1", "freset"} => rx' \in Obeyed(c)
    BY <1>7 DEF Accepted, Answered
  <2> QED
    BY <1>3, <2>1
<1>8. CASE Doubtful(c)
  <2>1. PICK status \in {"dispatchFailed", "timedOut", "readFailed"} : Ends(status, TRUE)
    BY <1>8 DEF Doubtful
  <2> QED
    BY <1>4, <2>1
<1> QED
  BY <1>1, <1>5, <1>6, <1>7, <1>8

-----------------------------------------------------------------------------
(* ... until the workflow ends                                             *)

\* When its last stage is reached, the receiver listens at that stage's baud and
\* all is in force that was accepted.
LEMMA EndIsTrue ==
  ASSUME Progress, Onward, At("finish")
  PROVE  /\ Hears(link) /\ Head(script).baud = rx.baud
         /\ \A c \in Everyone : fates[c] \in {"accepted", "skipped"} => Kept(c, rx)
<1>1. pc = "running" /\ Head(script).do = "finish"
  BY DEF At
<1>2. /\ Len(script) \in Nat \ {0} /\ Head(script) = script[1] /\ script[1].do = "finish"
      /\ script[1].baud \in Bauds
  BY <1>1, HeadIs
<1>3. 1 \in 1 .. Len(script)
  BY <1>2
<1>4. Len(script) = 1
  BY <1>1, <1>2, <1>3 DEF Progress, Shape
<1>5. Reach(1)
  BY <1>2, <1>3 DEF Onward, InReach, Needs
<1>6. ~Provided(plan, script, 1)
  <2>1. 1 .. 1 - 1 = {}
    OBVIOUS
  <2> QED
    BY <2>1 DEF Provided
<1>7. Hears(link) /\ AtBaud(script[1], link)
  BY <1>5, <1>6 DEF Reach, Settled
<1>8. script[1].baud = rx.baud
  BY <1>2, <1>7, WorkflowAssumption DEF AtBaud, Hears
<1>9. Everyone = 1 .. Len(plan)
  BY PlanType DEF Progress, TypeInv
<1>10. ASSUME NEW c \in Everyone, fates[c] \in {"accepted", "skipped"}
       PROVE  Kept(c, rx)
  <2>1. CASE plan[c].kind = "setting"
    BY <1>10, <2>1 DEF Kept, Onward, InForce
  <2>2. CASE plan[c].kind = "com1"
    <3>1. Alone(plan, script[1])
      BY <1>3 DEF Onward, Arranged
    <3>2. plan[c].value = script[1].baud
      BY <1>2, <1>9, <2>2, <3>1 DEF Alone
    <3> QED
      BY <1>8, <2>2, <3>2 DEF Kept
  <2>3. CASE plan[c].kind = "signalgroup"
    <3>1. \A k \in 1 .. Len(script) : script[k].do # "check"
      <4>1. \A k \in 1 .. Len(script) : k = 1
        BY <1>4
      <4> QED
        BY <1>2, <4>1
    <3>2. rx.groups = plan[c].value
      BY <1>10, <2>3, <3>1 DEF Onward, InForce
    <3> QED
      BY <2>3, <3>2 DEF Kept
  <2>4. CASE plan[c].kind \notin {"setting", "com1", "signalgroup"}
    BY <2>4 DEF Kept
  <2> QED
    BY <2>1, <2>2, <2>3, <2>4
<1> QED
  BY <1>2, <1>7, <1>8, <1>10

LEMMA FinishesFaithfully ==
  ASSUME Progress, Faithful, Finishes
  PROVE  Faithful'
<1>1. /\ pc = "running" /\ At("finish") /\ pc' = "done" /\ attempt' = attempt
      /\ rx' = rx /\ fates' = fates
  BY DEF Finishes, At
<1> SUFFICES ASSUME Unicore PROVE Truthful'
  BY <1>1 DEF Faithful, Unicore
<1>2. report'.verified = Head(script).baud /\ report'.baud = Head(script).baud
  BY DEF Finishes, Unicore
<1>3. /\ Head(script).baud = rx.baud
      /\ \A c \in Everyone : fates[c] \in {"accepted", "skipped"} => Kept(c, rx)
  BY <1>1, EndIsTrue DEF Faithful
<1>4. plan' = plan /\ Everyone' = Everyone
  BY <1>1, SameAttempt
<1>5. \A c \in Everyone : Kept(c, rx)' <=> Kept(c, rx)
  BY <1>1, <1>4 DEF Kept
<1> QED
  BY <1>1, <1>2, <1>3, <1>4, <1>5 DEF Truthful

-----------------------------------------------------------------------------
(* Scripts put together                                                    *)

\* The end of a script at one baud: nothing in it makes the receiver leave.
Calm(s, b) ==
  /\ \A k \in 1 .. Len(s) :
       /\ s[k].do \in {"phase", "query", "reopen", "decide", "finish"} /\ AtBaud(s[k], b)
       /\ s[k].do \in {"decide", "finish"} => s[k].baud = b
       /\ \A c \in Everyone : Has(s[k], c) =>
            plan[c].kind # "freset" /\ (s[k].do = "phase" => plan[c].kind # "signalgroup")
  /\ \A c \in Everyone : plan[c].kind = "com1" => plan[c].value = b
  /\ \A j, k \in 1 .. Len(s) : j < k =>
       /\ s[j].do = "phase" =>
            /\ s[k].do # "decide"
            /\ \A d \in Everyone : Has(s[j], d) /\ plan[d].kind = "save" => s[k].do = "finish"
       /\ s[j].do = "query" => s[k].do # "phase"

\* What may come before it, with the stage that finds the receiver at its baud.
Leading(p, m, b) ==
  /\ Arranged(plan, p)
  /\ \A k \in 1 .. Len(p) :
       /\ p[k].do \notin {"query", "decide", "finish"}
       /\ \A c \in Everyone : Has(p[k], c) => plan[c].kind \in {"freset", "com1", "signalgroup"}
  /\ p[m].do \in Settling /\ p[m].baud = b
  /\ \A k \in m + 1 .. Len(p) : AtBaud(p[k], b) /\ Steady(plan, p[k], b)

LEMMA CalmIs ==
  ASSUME attempt \in Attempts, NEW s \in Seq(StageRecords), NEW b, Calm(s, b)
  PROVE  Arranged(plan, s) /\ \A k \in 1 .. Len(s) : Steady(plan, s[k], b)
<1>1. Everyone = 1 .. Len(plan) /\ Len(s) \in Nat
  BY PlanType
<1>2. ASSUME NEW k \in 1 .. Len(s) PROVE Steady(plan, s[k], b)
  BY <1>1 DEF Calm, Steady, Unsettles
<1>3. ASSUME NEW k \in 1 .. Len(s) PROVE Alone(plan, s[k])
  <2>1. s[k].do = "phase" => \A c \in Everyone : Has(s[k], c) =>
          plan[c].kind # "freset" /\ plan[c].kind # "signalgroup"
    BY DEF Calm
  <2>2. s[k].do = "decide" => \A c \in Everyone : Has(s[k], c) =>
          plan[c].kind # "freset" /\ (plan[c].kind = "com1" => plan[c].value = s[k].baud)
    BY DEF Calm
  <2>3. s[k].do = "finish" => \A c \in Everyone : plan[c].kind = "com1" => plan[c].value = s[k].baud
    BY DEF Calm
  <2> QED
    BY <1>1, <2>1, <2>2, <2>3 DEF Alone, Precedes
<1>4. ASSUME NEW j \in 1 .. Len(s), NEW k \in 1 .. Len(s), j < k PROVE InTurn(plan, s[j], s[k])
  <2>1. s[j].do \notin {"check", "wait"} /\ s[k].do \notin {"check", "wait"}
    BY DEF Calm
  <2>2. s[j].do = "query" => s[k].do # "phase"
    BY <1>4 DEF Calm
  <2>3. ASSUME s[j].do = "phase", NEW c \in Everyone, NEW d \in Everyone, Has(s[j], d)
        PROVE  /\ Has(s[k], c) => ~Precedes(plan[c], plan[d])
               /\ plan[d].kind = "save" => s[k].do = "finish"
    <3>1. plan[d].kind = "save" => s[k].do = "finish"
      BY <1>4, <2>3 DEF Calm
    <3>2. ASSUME Has(s[k], c) PROVE ~Precedes(plan[c], plan[d])
      <4>1. s[k].do = "phase"
        BY <1>4, <2>3, <3>2 DEF Calm, Has, Carries
      <4>2. plan[c].kind # "freset" /\ plan[c].kind # "signalgroup"
        BY <3>2, <4>1 DEF Calm
      <4> QED
        BY <4>2 DEF Precedes
    <3> QED
      BY <3>1, <3>2
  <2> QED
    BY <1>1, <2>1, <2>2, <2>3 DEF InTurn
<1>5. \A k \in 1 .. Len(s) : s[k].do # "wait"
  BY DEF Calm
<1>6. \A k \in 1 .. Len(s), c \in Everyone : ~(s[k].do = "phase" /\ Has(s[k], c) /\ plan[c].kind = "signalgroup")
  BY DEF Calm
<1>7. \A k \in 2 .. Len(s) : k \in 1 .. Len(s)
  BY <1>1
<1> QED
  BY <1>1, <1>2, <1>3, <1>4, <1>5, <1>6, <1>7 DEF Arranged

\* A receiver that listens at that baud is in reach of all of it.
LEMMA CalmSettled ==
  ASSUME attempt \in Attempts, NEW s \in Seq(StageRecords), NEW b, Calm(s, b),
         NEW k \in 1 .. Len(s)
  PROVE  Settled(plan, s, 1, k, b)
<1>1. \A i \in 1 .. Len(s) : AtBaud(s[i], b) /\ Steady(plan, s[i], b)
  BY CalmIs DEF Calm
<1>2. \A i \in 1 .. k - 1 : i \in 1 .. Len(s)
  OBVIOUS
<1>3. Nearly(plan, s[k], b)
  BY <1>1 DEF Steady, Nearly
<1> QED
  BY <1>1, <1>2, <1>3 DEF Settled

LEMMA JoinProvided ==
  ASSUME attempt \in Attempts, NEW p \in Seq(StageRecords), NEW z \in Seq(StageRecords),
         NEW m \in 1 .. Len(p), NEW b, Leading(p, m, b), Calm(z, b),
         NEW k \in 1 .. Len(p \o z)
  PROVE  /\ k > m => Provided(plan, p \o z, k)
         /\ k \in 1 .. Len(p) /\ Provided(plan, p, k) => Provided(plan, p \o z, k)
         /\ k \in 1 .. Len(p) => \A baud : Settled(plan, p, 1, k, baud) => Settled(plan, p \o z, 1, k, baud)
<1> DEFINE u == p \o z
           n == Len(p)
<1>1. /\ n \in Nat /\ m \in 1 .. n /\ k \in 1 .. Len(u)
      /\ \A i \in 1 .. n : u[i] = p[i]
      /\ \A i \in 1 .. Len(u) :
           i \in 1 .. n \/ (i - n \in 1 .. Len(z) /\ u[i] = z[i - n])
  BY JoinIs
<1>2. \A i \in 1 .. Len(z) : AtBaud(z[i], b) /\ Steady(plan, z[i], b)
  BY CalmIs DEF Calm
<1>3. p[m].do \in Settling /\ p[m].baud = b /\ \A i \in m + 1 .. n : AtBaud(p[i], b) /\ Steady(plan, p[i], b)
  BY DEF Leading
<1> HIDE DEF u, n
<1>4. \A i \in m + 1 .. Len(u) : AtBaud(u[i], b) /\ Steady(plan, u[i], b)
  <2> SUFFICES ASSUME NEW i \in m + 1 .. Len(u) PROVE AtBaud(u[i], b) /\ Steady(plan, u[i], b)
    OBVIOUS
  <2>1. i \in 1 .. Len(u)
    BY <1>1
  <2>2. i \in 1 .. n => i \in m + 1 .. n
    BY <1>1
  <2> QED
    BY <1>1, <1>2, <1>3, <2>1, <2>2
<1>5. ASSUME k > m PROVE Provided(plan, u, k)
  <2>1. m \in 1 .. k - 1 /\ u[m] = p[m] /\ \A i \in m + 1 .. k - 1 : i \in m + 1 .. Len(u)
    BY <1>1, <1>5
  <2>2. k \in m + 1 .. Len(u)
    BY <1>1, <1>5
  <2>3. Nearly(plan, u[k], b)
    BY <1>4, <2>2 DEF Steady, Nearly
  <2>4. Settled(plan, u, m + 1, k, b)
    BY <1>4, <2>1, <2>2, <2>3 DEF Settled
  <2> QED
    BY <1>3, <2>1, <2>4 DEF Provided
<1>6. ASSUME k \in 1 .. n, NEW j \in 1 .. k, NEW baud, Settled(plan, p, j, k, baud)
      PROVE  Settled(plan, u, j, k, baud)
  <2>1. u[k] = p[k] /\ \A i \in j .. k - 1 : u[i] = p[i]
    BY <1>1, <1>6
  <2> QED
    BY <1>6, <2>1 DEF Settled
<1>7. ASSUME k \in 1 .. n, Provided(plan, p, k) PROVE Provided(plan, u, k)
  <2>1. PICK j \in 1 .. k - 1 : p[j].do \in Settling /\ Settled(plan, p, j + 1, k, p[j].baud)
    BY <1>7 DEF Provided
  <2>2. j + 1 \in 1 .. k /\ j \in 1 .. n
    BY <1>1, <1>7
  <2>3. u[j] = p[j]
    BY <1>1, <2>2
  <2>4. Settled(plan, u, j + 1, k, u[j].baud)
    BY <1>6, <1>7, <2>1, <2>2, <2>3
  <2> QED
    BY <2>1, <2>3, <2>4 DEF Provided
<1>8. k \in 1 .. n => 1 \in 1 .. k
  BY <1>1
<1> QED
  BY <1>5, <1>6, <1>7, <1>8 DEF u, n

LEMMA JoinArranged ==
  ASSUME attempt \in Attempts, NEW p \in Seq(StageRecords), NEW z \in Seq(StageRecords),
         NEW m, NEW b, Leading(p, m, b), Calm(z, b),
         (\E k \in 1 .. Len(p) : p[k].do = "check") =>
           \A k \in 1 .. Len(z) : z[k].do \notin {"query", "decide"}
  PROVE  Arranged(plan, p \o z)
<1> DEFINE u == p \o z
           n == Len(p)
<1>1. /\ n \in Nat /\ Len(z) \in Nat /\ Len(u) = n + Len(z)
      /\ \A i \in 1 .. n : u[i] = p[i]
      /\ \A i \in 1 .. Len(u) :
           i \in 1 .. n \/ (i - n \in 1 .. Len(z) /\ u[i] = z[i - n])
  BY JoinIs
<1>2. Arranged(plan, p) /\ Arranged(plan, z) /\ Everyone = 1 .. Len(plan)
  BY CalmIs, PlanType DEF Leading
<1>3. \A k \in 1 .. n :
        /\ p[k].do \notin {"query", "decide", "finish"}
        /\ \A c \in Everyone : Has(p[k], c) => plan[c].kind \in {"freset", "com1", "signalgroup"}
  BY DEF Leading
<1>4. \A k \in 1 .. Len(z) :
        /\ z[k].do \in {"phase", "query", "reopen", "decide", "finish"}
        /\ \A c \in Everyone : Has(z[k], c) => plan[c].kind # "freset"
  BY DEF Calm
<1> HIDE DEF u, n
<1>5. ASSUME NEW i \in 1 .. n, NEW k \in 1 .. Len(z) PROVE InTurn(plan, p[i], z[k])
  <2>1. ASSUME NEW c \in Everyone, NEW d \in Everyone, Has(p[i], d)
        PROVE  /\ Has(z[k], c) => ~Precedes(plan[c], plan[d])
               /\ plan[d].kind # "save"
    BY <1>3, <1>4, <2>1 DEF Precedes
  <2>2. p[i].do # "query" /\ z[k].do # "check"
    BY <1>3, <1>4
  <2>3. p[i].do = "check" => z[k].do \notin {"query", "decide"}
    BY DEF n
  <2> QED
    BY <1>2, <2>1, <2>2, <2>3 DEF InTurn
<1>6. ASSUME NEW k \in 1 .. Len(u) PROVE Alone(plan, u[k])
  BY <1>1, <1>2 DEF Arranged, n
<1>7. ASSUME NEW i \in 1 .. Len(u), NEW k \in 1 .. Len(u), i < k PROVE InTurn(plan, u[i], u[k])
  <2>1. CASE k \in 1 .. n
    <3>1. i \in 1 .. n
      BY <1>1, <1>7, <2>1
    <3> QED
      BY <1>1, <1>2, <1>7, <2>1, <3>1 DEF Arranged, n
  <2>2. CASE i \in 1 .. n /\ k \notin 1 .. n
    BY <1>1, <1>5, <2>2
  <2>3. CASE i \notin 1 .. n /\ k \notin 1 .. n
    <3>1. /\ i - n \in 1 .. Len(z) /\ u[i] = z[i - n]
          /\ k - n \in 1 .. Len(z) /\ u[k] = z[k - n]
      BY <1>1, <2>3
    <3>2. i - n < k - n
      BY <1>1, <1>7
    <3> QED
      BY <1>2, <3>1, <3>2 DEF Arranged
  <2> QED
    BY <2>1, <2>2, <2>3
<1>8. ASSUME NEW k \in 1 .. Len(u), u[k].do \in {"wait", "check"} PROVE k \in 1 .. n /\ p[k] = u[k]
  BY <1>1, <1>4, <1>8
<1>9. ASSUME NEW k \in 2 .. Len(u), u[k].do = "wait"
      PROVE  u[k - 1].do = "reopen" /\ u[k - 1].baud = u[k].baud
  <2>1. k \in 1 .. Len(u)
    BY <1>1
  <2>2. k \in 1 .. n /\ p[k] = u[k]
    BY <1>8, <1>9, <2>1
  <2>3. k \in 2 .. n /\ k - 1 \in 1 .. n
    BY <1>1, <2>2
  <2>4. u[k - 1] = p[k - 1]
    BY <1>1, <2>3
  <2> QED
    BY <1>2, <1>9, <2>2, <2>3, <2>4 DEF Arranged, n
<1>10. ASSUME NEW k \in 1 .. Len(u), NEW c \in Everyone,
              u[k].do = "phase", Has(u[k], c), plan[c].kind = "signalgroup"
       PROVE  \E j \in k + 1 .. Len(u) : u[j].do = "check"
  <2>1. CASE k \in 1 .. n
    <3>1. u[k] = p[k]
      BY <1>1, <2>1
    <3>2. PICK j \in k + 1 .. n : p[j].do = "check"
      BY <1>2, <1>10, <2>1, <3>1 DEF Arranged, n
    <3>3. j \in k + 1 .. Len(u) /\ j \in 1 .. n
      BY <1>1, <2>1
    <3> QED
      BY <1>1, <3>2, <3>3
  <2>2. CASE k \notin 1 .. n
    <3>1. k - n \in 1 .. Len(z) /\ u[k] = z[k - n]
      BY <1>1, <2>2
    <3> QED
      BY <1>10, <3>1 DEF Calm
  <2> QED
    BY <2>1, <2>2
<1>11. Arranged(plan, u)
  BY <1>2, <1>6, <1>7, <1>9, <1>10 DEF Arranged
<1> QED
  BY <1>11 DEF u

\* Short scripts, stage by stage.
LEMMA SingleIs ==
  ASSUME NEW S, NEW a \in S, NEW x, x = <<a>>
  PROVE  x \in Seq(S) /\ Len(x) = 1 /\ x[1] = a
  OBVIOUS

LEMMA TwoIs ==
  ASSUME NEW S, NEW s \in Seq(S), NEW x \in Seq(S)
  PROVE  Len(s) = 1 /\ Len(x) = 1 =>
           /\ s \o x \in Seq(S) /\ Len(s \o x) = 2
           /\ (s \o x)[1] = s[1] /\ (s \o x)[2] = x[1]
<1> DEFINE t == s \o x
<1>1. /\ t \in Seq(S) /\ Len(t) = Len(s) + Len(x)
      /\ \A k \in 1 .. Len(s) : t[k] = s[k]
      /\ \A k \in 1 .. Len(x) : t[Len(s) + k] = x[k]
  BY JoinIs
<1> HIDE DEF t
<1> SUFFICES ASSUME Len(s) = 1, Len(x) = 1
             PROVE  /\ t \in Seq(S) /\ Len(t) = 2
                    /\ t[1] = s[1] /\ t[2] = x[1]
  BY DEF t
<1>2. 1 \in 1 .. Len(s) /\ 1 \in 1 .. Len(x)
  OBVIOUS
<1>3. t[1] = s[1] /\ t[Len(s) + 1] = x[1]
  BY <1>1, <1>2
<1> QED
  BY <1>1, <1>3

LEMMA ThreeIs ==
  ASSUME NEW S, NEW s \in Seq(S), NEW x \in Seq(S)
  PROVE  Len(s) = 2 /\ Len(x) = 1 =>
           /\ s \o x \in Seq(S) /\ Len(s \o x) = 3
           /\ (s \o x)[1] = s[1] /\ (s \o x)[2] = s[2] /\ (s \o x)[3] = x[1]
<1> DEFINE t == s \o x
<1>1. /\ t \in Seq(S) /\ Len(t) = Len(s) + Len(x)
      /\ \A k \in 1 .. Len(s) : t[k] = s[k]
      /\ \A k \in 1 .. Len(x) : t[Len(s) + k] = x[k]
  BY JoinIs
<1> HIDE DEF t
<1> SUFFICES ASSUME Len(s) = 2, Len(x) = 1
             PROVE  /\ t \in Seq(S) /\ Len(t) = 3
                    /\ t[1] = s[1] /\ t[2] = s[2] /\ t[3] = x[1]
  BY DEF t
<1>2. 1 \in 1 .. Len(s) /\ 2 \in 1 .. Len(s) /\ 1 \in 1 .. Len(x)
  OBVIOUS
<1>3. t[1] = s[1] /\ t[2] = s[2] /\ t[Len(s) + 1] = x[1]
  BY <1>1, <1>2
<1> QED
  BY <1>1, <1>3

LEMMA FourIs ==
  ASSUME NEW S, NEW s \in Seq(S), NEW x \in Seq(S)
  PROVE  Len(s) = 3 /\ Len(x) = 1 =>
           /\ s \o x \in Seq(S) /\ Len(s \o x) = 4
           /\ (s \o x)[1] = s[1] /\ (s \o x)[2] = s[2] /\ (s \o x)[3] = s[3] /\ (s \o x)[4] = x[1]
<1> DEFINE t == s \o x
<1>1. /\ t \in Seq(S) /\ Len(t) = Len(s) + Len(x)
      /\ \A k \in 1 .. Len(s) : t[k] = s[k]
      /\ \A k \in 1 .. Len(x) : t[Len(s) + k] = x[k]
  BY JoinIs
<1> HIDE DEF t
<1> SUFFICES ASSUME Len(s) = 3, Len(x) = 1
             PROVE  /\ t \in Seq(S) /\ Len(t) = 4
                    /\ t[1] = s[1] /\ t[2] = s[2] /\ t[3] = s[3] /\ t[4] = x[1]
  BY DEF t
<1>2. 1 \in 1 .. Len(s) /\ 2 \in 1 .. Len(s) /\ 3 \in 1 .. Len(s) /\ 1 \in 1 .. Len(x)
  OBVIOUS
<1>3. t[1] = s[1] /\ t[2] = s[2] /\ t[3] = s[3] /\ t[Len(s) + 1] = x[1]
  BY <1>1, <1>2
<1> QED
  BY <1>1, <1>3

\* What the planner's form says of a plan.
LEMMA PlanForm ==
  ASSUME attempt \in Attempts, Unicore, NEW c \in Everyone
  PROVE  /\ plan[c].kind = "freset" => c = 1
         /\ plan[c].kind = "com1" => c = 1 \/ (c = 2 /\ plan[1].kind = "freset")
         /\ plan[c].kind = "save" => c = Len(plan)
<1>1. c \in 1 .. Len(attempt.commands)
  BY PlanType DEF plan
<1> QED
  BY <1>1, PlanAssumption DEF Unicore, plan

\* The profile and the end, at the baud it is sent at.
LEMMA ProfileCalm ==
  ASSUME attempt \in Attempts, Unicore, NEW first \in 1 .. Len(plan) + 1, NEW b \in Bauds,
         \A c \in first .. Len(plan) : plan[c].kind # "freset",
         \A c \in Everyone : plan[c].kind = "com1" => plan[c].value = b,
         NEW z, z = ProfileStages(first, b) \o <<Stage("finish", b)>>
  PROVE  z \in Seq(StageRecords) /\ Calm(z, b) /\ Len(z) >= 1 /\ z[1].do \in {"phase", "query"}
<1> DEFINE f == Stage("finish", b)
<1>1. Len(plan) \in Nat \ {0} /\ Everyone = 1 .. Len(plan) /\ first \in Nat \ {0}
  BY PlanType
<1>2. f \in StageRecords /\ f.do = "finish" /\ f.baud = b /\ \A c \in Everyone : ~Has(f, c)
  BY FinishIs DEF Has, Carries
<1>3. CASE FirstFrom("signalgroup", first) = 0
  <2> DEFINE p == Phase(first, Len(plan))
  <2>1. /\ p \in StageRecords /\ p.do = "phase" /\ p.baud = NoBaud
        /\ \A c \in Everyone : Has(p, c) <=> c \in first .. Len(plan)
    <3>1. Len(plan) \in 0 .. Len(plan)
      BY <1>1
    <3> QED
      BY <3>1, PhaseIs
  <2>2. \A c \in first .. Len(plan) : plan[c].kind # "signalgroup"
    BY <1>1, <1>3, FirstFromFinds DEF Kinds
  <2>3. ProfileStages(first, b) = <<p>>
    BY <1>3 DEF ProfileStages
  <2> HIDE DEF p, f
  <2>4. z = <<p>> \o <<f>>
    BY <2>3 DEF f
  <2>5. z \in Seq(StageRecords) /\ Len(z) = 2 /\ z[1] = p /\ z[2] = f
    <3> DEFINE x == <<p>>
               y == <<f>>
    <3>1. /\ x \in Seq(StageRecords) /\ Len(x) = 1 /\ x[1] = p
          /\ y \in Seq(StageRecords) /\ Len(y) = 1 /\ y[1] = f
      BY <1>2, <2>1, SingleIs
    <3>2. z = x \o y
      BY <2>4
    <3> HIDE DEF x, y
    <3>3. /\ x \o y \in Seq(StageRecords) /\ Len(x \o y) = 2
          /\ (x \o y)[1] = p /\ (x \o y)[2] = f
      BY <3>1, TwoIs
    <3> QED
      BY Zenon, <3>2, <3>3
  <2>6. \A k \in 1 .. 2 : k = 1 \/ k = 2
    OBVIOUS
  <2>7. \A j, k \in 1 .. 2 : j < k => j = 1 /\ k = 2
    OBVIOUS
  <2>8. Calm(z, b)
    BY <1>2, <2>1, <2>2, <2>5, <2>6, <2>7 DEF Calm, AtBaud
  <2> QED
    BY <2>1, <2>5, <2>8
<1>4. CASE FirstFrom("signalgroup", first) # 0
  <2> DEFINE q == Stage("query", b)
             r == Stage("reopen", b)
             d == DecideStage(first, b)
  <2>1. /\ {q, r, d} \subseteq StageRecords
        /\ q.do = "query" /\ q.baud = b /\ \A c \in Everyone : ~Has(q, c)
        /\ r.do = "reopen" /\ r.baud = b /\ \A c \in Everyone : ~Has(r, c)
        /\ d.do = "decide" /\ d.baud = b
        /\ \A c \in Everyone : Has(d, c) <=> c \in first .. Len(plan)
    BY <1>4, DecideIs, QuietIs
  <2>2. ProfileStages(first, b) = <<q, r, d>>
    BY <1>4 DEF ProfileStages, DecideStage
  <2> HIDE DEF q, r, d, f
  <2>3. z = <<q, r, d>> \o <<f>>
    BY <2>2 DEF f
  <2>4. z \in Seq(StageRecords) /\ Len(z) = 4 /\ z[1] = q /\ z[2] = r /\ z[3] = d /\ z[4] = f
    <3> DEFINE x == <<q, r, d>>
               y == <<f>>
    <3>1. x \in Seq(StageRecords) /\ Len(x) = 3 /\ x[1] = q /\ x[2] = r /\ x[3] = d
      BY <2>1
    <3>2. y \in Seq(StageRecords) /\ Len(y) = 1 /\ y[1] = f
      BY <1>2, SingleIs
    <3>3. z = x \o y
      BY <2>3
    <3> HIDE DEF x, y
    <3>4. /\ x \o y \in Seq(StageRecords) /\ Len(x \o y) = 4
          /\ (x \o y)[1] = q /\ (x \o y)[2] = r /\ (x \o y)[3] = d /\ (x \o y)[4] = f
      BY <3>1, <3>2, FourIs
    <3> QED
      BY Zenon, <3>3, <3>4
  <2>5. \A k \in 1 .. 4 : k \in {1, 2, 3, 4}
    OBVIOUS
  <2>6. \A k \in 1 .. 4 : z[k].do # "phase"
    BY <1>2, <2>1, <2>4, <2>5
  <2>7. \A k \in 1 .. 4 :
          /\ z[k].do \in {"phase", "query", "reopen", "decide", "finish"} /\ z[k].baud = b
          /\ \A c \in Everyone : Has(z[k], c) => plan[c].kind # "freset"
    BY <1>2, <2>1, <2>4, <2>5
  <2>8. Calm(z, b)
    BY SMTT(30), <2>4, <2>6, <2>7 DEF Calm, AtBaud
  <2> QED
    BY <2>1, <2>4, <2>8
<1> QED
  BY <1>3, <1>4

\* The commands around SIGNALGROUP, and the end.
Closing(s, b) ==
  /\ s \in Seq(StageRecords) /\ Calm(s, b) /\ Len(s) \in Nat \ {0} /\ s[1].do = "phase"
  /\ \A k \in 1 .. Len(s) : s[k].do \in {"phase", "reopen", "finish"}

LEMMA AroundCalm ==
  ASSUME attempt \in Attempts, Unicore, NEW first \in Everyone, NEW group \in first .. Len(plan),
         plan[group].kind = "signalgroup", NEW b \in Bauds,
         \A c \in first .. Len(plan) : plan[c].kind # "freset",
         \A c \in Everyone : plan[c].kind = "com1" => plan[c].value = b,
         NEW a, a = AroundSignalGroup(first, group, b), NEW e \in Seq(StageRecords)
  PROVE  Len(e) = 1 /\ e[1].do = "finish" /\ e[1].baud = b => Closing(a \o e, b)
<1> DEFINE z == a \o e
<1> SUFFICES ASSUME Len(e) = 1, e[1].do = "finish", e[1].baud = b
             PROVE  /\ z \in Seq(StageRecords) /\ Calm(z, b) /\ Len(z) \in Nat \ {0} /\ z[1].do = "phase"
                    /\ \A k \in 1 .. Len(z) : z[k].do \in {"phase", "reopen", "finish"}
  BY DEF Closing
<1> DEFINE p == Phase(first, group - 1)
           r == Stage("reopen", b)
           q == Phase(group + 1, Len(plan))
           f == e[1]
<1>1. /\ Len(plan) \in Nat \ {0} /\ Everyone = 1 .. Len(plan) /\ first \in Nat \ {0}
      /\ group \in Everyone
  BY PlanType
<1>2. \A c \in Everyone \ {group} : plan[c].kind # "signalgroup"
  BY <1>1, OneGroup
<1>3. /\ p \in StageRecords /\ p.do = "phase" /\ p.baud = NoBaud
      /\ \A c \in Everyone : Has(p, c) <=> c \in first .. group - 1
  <2>1. first \in 1 .. Len(plan) + 1 /\ group - 1 \in 0 .. Len(plan)
    BY <1>1
  <2> QED
    BY <2>1, PhaseIs
<1>4. /\ q \in StageRecords /\ q.do = "phase" /\ q.baud = NoBaud
      /\ \A c \in Everyone : Has(q, c) <=> c \in group + 1 .. Len(plan)
  <2>1. group + 1 \in 1 .. Len(plan) + 1 /\ Len(plan) \in 0 .. Len(plan)
    BY <1>1
  <2> QED
    BY <2>1, PhaseIs
<1>5. r \in StageRecords /\ r.do = "reopen" /\ r.baud = b /\ \A c \in Everyone : ~Has(r, c)
  BY QuietIs
<1>6. f.do = "finish" /\ f.baud = b /\ \A c \in Everyone : ~Has(f, c)
  BY DEF Has, Carries
<1>7. z = ((<<p>> \o (IF group < Len(plan) THEN <<r>> ELSE << >>)) \o <<q>>) \o e
  BY DEF AroundSignalGroup
<1>8. \A c \in Everyone : Has(p, c) \/ Has(q, c) =>
        plan[c].kind # "freset" /\ plan[c].kind # "signalgroup"
  <2>1. \A c \in Everyone : c \in first .. group - 1 \/ c \in group + 1 .. Len(plan) =>
          c \in first .. Len(plan) /\ c \in Everyone \ {group}
    BY <1>1
  <2> QED
    BY <1>2, <1>3, <1>4, <2>1
<1>9. \A c \in Everyone : Has(p, c) => plan[c].kind # "save"
  <2>1. \A c \in Everyone : c \in first .. group - 1 => c # Len(plan)
    BY <1>1
  <2> QED
    BY <1>3, <2>1, PlanForm
<1> HIDE DEF p, r, q, f, z
<1>10. CASE group < Len(plan)
  <2>1. z = ((<<p>> \o <<r>>) \o <<q>>) \o e
    BY <1>7, <1>10
  <2>2. z \in Seq(StageRecords) /\ Len(z) = 4 /\ z[1] = p /\ z[2] = r /\ z[3] = q /\ z[4] = f
    <3> DEFINE p1 == <<p>>
               r1 == <<r>>
               q1 == <<q>>
               x == p1 \o r1
               y == x \o q1
    <3>1. /\ p1 \in Seq(StageRecords) /\ Len(p1) = 1 /\ p1[1] = p
          /\ r1 \in Seq(StageRecords) /\ Len(r1) = 1 /\ r1[1] = r
      BY <1>3, <1>5, SingleIs
    <3>2. /\ q1 \in Seq(StageRecords) /\ Len(q1) = 1 /\ q1[1] = q
          /\ e \in Seq(StageRecords) /\ Len(e) = 1 /\ e[1] = f
      BY <1>4, SingleIs DEF f
    <3>3. z = y \o e
      BY <2>1
    <3> HIDE DEF p1, r1, q1
    <3>4. x \in Seq(StageRecords) /\ Len(x) = 2 /\ x[1] = p /\ x[2] = r
      BY <3>1, TwoIs
    <3> HIDE DEF x
    <3>5. y \in Seq(StageRecords) /\ Len(y) = 3 /\ y[1] = p /\ y[2] = r /\ y[3] = q
      BY <3>2, <3>4, ThreeIs
    <3> HIDE DEF y
    <3>6. /\ y \o e \in Seq(StageRecords) /\ Len(y \o e) = 4
          /\ (y \o e)[1] = p /\ (y \o e)[2] = r /\ (y \o e)[3] = q /\ (y \o e)[4] = f
      BY <3>2, <3>5, FourIs
    <3> QED
      BY Zenon, <3>3, <3>6
  <2>3. \A k \in 1 .. 4 : k \in {1, 2, 3, 4}
    OBVIOUS
  <2>4. \A k \in 1 .. 4 : z[k].do \in {"phase", "reopen", "finish"} /\ z[k].baud \in {NoBaud, b}
                          /\ (z[k].do = "finish" => z[k].baud = b)
    BY <1>3, <1>4, <1>5, <1>6, <2>2, <2>3
  <2>5. \A k \in 1 .. 4 : \A c \in Everyone : Has(z[k], c) =>
          plan[c].kind # "freset" /\ plan[c].kind # "signalgroup"
    BY <1>5, <1>6, <1>8, <2>2, <2>3
  <2>6. ASSUME NEW j \in 1 .. 4, NEW k \in 1 .. 4, j < k, NEW c \in Everyone,
               Has(z[j], c), plan[c].kind = "save"
        PROVE  z[k].do = "finish"
    <3>1. j = 3
      <4>1. j # 4
        BY <2>6
      <4> QED
        BY <1>5, <1>9, <2>2, <2>3, <2>6, <4>1
    <3>2. k = 4
      BY <2>6, <3>1
    <3> QED
      BY <1>6, <2>2, <3>2
  <2>7. Calm(z, b)
    BY <2>2, <2>4, <2>5, <2>6 DEF Calm, AtBaud
  <2> QED
    BY <1>3, <2>2, <2>4, <2>7
<1>11. CASE ~(group < Len(plan))
  <2>1. z = (<<p>> \o <<q>>) \o e
    <3>1. <<p>> \o << >> = <<p>>
      BY <1>3
    <3> QED
      BY <1>7, <1>11, <3>1
  <2>2. z \in Seq(StageRecords) /\ Len(z) = 3 /\ z[1] = p /\ z[2] = q /\ z[3] = f
    <3> DEFINE p1 == <<p>>
               q1 == <<q>>
               x == p1 \o q1
    <3>1. /\ p1 \in Seq(StageRecords) /\ Len(p1) = 1 /\ p1[1] = p
          /\ q1 \in Seq(StageRecords) /\ Len(q1) = 1 /\ q1[1] = q
          /\ e \in Seq(StageRecords) /\ Len(e) = 1 /\ e[1] = f
      BY <1>3, <1>4, SingleIs DEF f
    <3>2. z = x \o e
      BY <2>1
    <3> HIDE DEF p1, q1
    <3>3. x \in Seq(StageRecords) /\ Len(x) = 2 /\ x[1] = p /\ x[2] = q
      BY <3>1, TwoIs
    <3> HIDE DEF x
    <3>4. /\ x \o e \in Seq(StageRecords) /\ Len(x \o e) = 3
          /\ (x \o e)[1] = p /\ (x \o e)[2] = q /\ (x \o e)[3] = f
      BY <3>1, <3>3, ThreeIs
    <3> QED
      BY Zenon, <3>2, <3>4
  <2>3. \A k \in 1 .. 3 : k \in {1, 2, 3}
    OBVIOUS
  <2>4. \A k \in 1 .. 3 : z[k].do \in {"phase", "reopen", "finish"} /\ z[k].baud \in {NoBaud, b}
                          /\ (z[k].do = "finish" => z[k].baud = b)
    BY <1>3, <1>4, <1>6, <2>2, <2>3
  <2>5. \A k \in 1 .. 3 : \A c \in Everyone : Has(z[k], c) =>
          plan[c].kind # "freset" /\ plan[c].kind # "signalgroup"
    BY <1>6, <1>8, <2>2, <2>3
  <2>6. ASSUME NEW j \in 1 .. 3, NEW k \in 1 .. 3, j < k, NEW c \in Everyone,
               Has(z[j], c), plan[c].kind = "save"
        PROVE  z[k].do = "finish"
    <3>1. j = 2
      <4>1. j # 3
        BY <2>6
      <4> QED
        BY <1>9, <2>2, <2>3, <2>6, <4>1
    <3>2. k = 3
      BY <2>6, <3>1
    <3> QED
      BY <1>6, <2>2, <3>2
  <2>7. Calm(z, b)
    BY <2>2, <2>4, <2>5, <2>6 DEF Calm, AtBaud
  <2> QED
    BY <1>3, <2>2, <2>4, <2>7
<1> QED
  BY <1>10, <1>11

-----------------------------------------------------------------------------
(* ... behind what finds the receiver                                      *)

\* A phase of one command.
LEMMA OneIs ==
  ASSUME attempt \in Attempts, NEW c \in Everyone
  PROVE  /\ Phase(c, c) \in StageRecords /\ Phase(c, c).do = "phase" /\ Phase(c, c).baud = NoBaud
         /\ \A d \in Everyone : Has(Phase(c, c), d) <=> d = c
         /\ \A baud : AtBaud(Phase(c, c), baud) /\ Nearly(plan, Phase(c, c), baud)
<1>1. Len(plan) \in Nat /\ Everyone = 1 .. Len(plan)
  BY PlanType
<1>2. c \in 1 .. Len(plan) + 1 /\ c \in 0 .. Len(plan)
  BY <1>1
<1>3. \A d \in Everyone : d \in c .. c <=> d = c
  BY <1>1
<1>4. /\ Phase(c, c) \in StageRecords /\ Phase(c, c).do = "phase" /\ Phase(c, c).baud = NoBaud
      /\ \A d \in Everyone : Has(Phase(c, c), d) <=> d = c
  BY <1>2, <1>3, PhaseIs
<1>5. \A d, e \in 1 .. Len(plan) : ~(Has(Phase(c, c), d) /\ Has(Phase(c, c), e) /\ d < e)
  <2>1. \A d \in 1 .. Len(plan) : ~(d < d)
    BY <1>1
  <2> QED
    BY <1>1, <1>4, <2>1
<1> QED
  BY <1>4, <1>5 DEF AtBaud, Nearly

\* A phase of one command is in order with itself, and so is a stage with none.
LEMMA AloneIs ==
  ASSUME attempt \in Attempts, NEW s, NEW kind \in {"freset", "com1", "signalgroup"},
         \A d \in Everyone : Has(s, d) => plan[d].kind = kind, s.do \notin {"finish", "decide"}
  PROVE  Alone(plan, s)
<1>1. Everyone = 1 .. Len(plan)
  BY PlanType
<1> QED
  BY <1>1 DEF Alone, Precedes

\* Stages whose commands are of these kinds do not get in each other's way.
LEMMA LeadArranged ==
  ASSUME attempt \in Attempts, NEW p, NEW K \in {{"freset", "com1"}, {"signalgroup"}},
         \A k \in 1 .. Len(p) :
           /\ p[k].do \notin {"query", "decide", "finish"}
           /\ \A c \in Everyone : Has(p[k], c) => plan[c].kind \in K,
         \A k \in 2 .. Len(p) : p[k].do = "wait" => p[k - 1].do = "reopen" /\ p[k - 1].baud = p[k].baud,
         \A k \in 1 .. Len(p), c \in Everyone : Has(p[k], c) /\ plan[c].kind = "signalgroup" =>
           \E j \in k + 1 .. Len(p) : p[j].do = "check"
  PROVE  Arranged(plan, p)
<1>1. Everyone = 1 .. Len(plan)
  BY PlanType
<1>2. \A c, d \in Everyone : plan[c].kind \in K /\ plan[d].kind \in K =>
        ~Precedes(plan[c], plan[d]) /\ plan[d].kind # "save"
  BY DEF Precedes
<1>3. ASSUME NEW k \in 1 .. Len(p) PROVE Alone(plan, p[k])
  BY <1>1, <1>2 DEF Alone
<1>4. ASSUME NEW j \in 1 .. Len(p), NEW k \in 1 .. Len(p), j < k PROVE InTurn(plan, p[j], p[k])
  BY <1>1, <1>2 DEF InTurn
<1> QED
  BY <1>1, <1>3, <1>4 DEF Arranged

\* A recovery up to its profile.
LEMMA ResetLeads ==
  ASSUME attempt \in Attempts, NEW b \in Bauds, 1 \in Everyone, 2 \in Everyone,
         plan[1].kind = "freset", plan[2].kind = "com1", NEW s,
         s = <<Stage("scan", NoBaud), Phase(1, 1),
               Stage("reopen", FactoryBaud), Stage("wait", FactoryBaud), Stage("reopen", FactoryBaud),
               Phase(2, 2), Stage("reopen", b), Stage("wait", b), Stage("reopen", b)>>
  PROVE  /\ s \in Seq(StageRecords) /\ Len(s) = 9 /\ s[1].do = "scan" /\ Leading(s, 8, b)
         /\ \A k \in 1 .. 9 : s[k].do # "check" /\ (Needs(plan, s[k]) => Provided(plan, s, k))
<1> DEFINE a == Stage("scan", NoBaud)
           p == Phase(1, 1)
           ro == Stage("reopen", FactoryBaud)
           wo == Stage("wait", FactoryBaud)
           q == Phase(2, 2)
           rb == Stage("reopen", b)
           wb == Stage("wait", b)
<1>1. FactoryBaud \in Bauds /\ Everyone = 1 .. Len(plan)
  BY PlanType, WorkflowAssumption
<1>2. a \in StageRecords /\ a.do = "scan" /\ a.baud = NoBaud /\ \A c \in Everyone : ~Has(a, c)
  BY StageIs DEF StageNames, Has, Carries
<1>3. /\ p \in StageRecords /\ p.do = "phase" /\ p.baud = NoBaud
      /\ \A c \in Everyone : Has(p, c) <=> c = 1
      /\ \A baud : AtBaud(p, baud) /\ Nearly(plan, p, baud)
  BY OneIs
<1>4. /\ q \in StageRecords /\ q.do = "phase" /\ q.baud = NoBaud
      /\ \A c \in Everyone : Has(q, c) <=> c = 2
      /\ \A baud : AtBaud(q, baud) /\ Nearly(plan, q, baud)
  BY OneIs
<1>5. /\ ro \in StageRecords /\ ro.do = "reopen" /\ ro.baud = FactoryBaud /\ \A c \in Everyone : ~Has(ro, c)
      /\ wo \in StageRecords /\ wo.do = "wait" /\ wo.baud = FactoryBaud /\ \A c \in Everyone : ~Has(wo, c)
      /\ rb \in StageRecords /\ rb.do = "reopen" /\ rb.baud = b /\ \A c \in Everyone : ~Has(rb, c)
      /\ wb \in StageRecords /\ wb.do = "wait" /\ wb.baud = b /\ \A c \in Everyone : ~Has(wb, c)
  BY <1>1, QuietIs
<1>6. s = <<a, p, ro, wo, ro, q, rb, wb, rb>>
  OBVIOUS
<1> HIDE DEF a, p, ro, wo, q, rb, wb
<1>7. /\ s \in Seq(StageRecords) /\ Len(s) = 9
      /\ s[1] = a /\ s[2] = p /\ s[3] = ro /\ s[4] = wo /\ s[5] = ro /\ s[6] = q
      /\ s[7] = rb /\ s[8] = wb /\ s[9] = rb
  BY <1>2, <1>3, <1>4, <1>5, <1>6
<1>8. \A k \in 1 .. 9 : k \in {1, 2, 3, 4, 5, 6, 7, 8, 9}
  OBVIOUS
<1>9. \A k \in 1 .. 9 : s[k].do \in {"scan", "phase", "reopen", "wait"}
  BY <1>2, <1>3, <1>4, <1>5, <1>7, <1>8
<1>10. \A c \in Everyone, k \in 1 .. 9 : Has(s[k], c) => (k = 2 /\ c = 1) \/ (k = 6 /\ c = 2)
  BY <1>2, <1>3, <1>4, <1>5, <1>7, <1>8
<1>11. Arranged(plan, s)
  <2>1. \A c \in Everyone, k \in 1 .. 9 : Has(s[k], c) => plan[c].kind \in {"freset", "com1"}
    BY <1>10
  <2>2. \A k \in 2 .. 9 : s[k].do = "wait" => s[k - 1].do = "reopen" /\ s[k - 1].baud = s[k].baud
    <3>1. \A k \in 2 .. 9 : k \in 1 .. 9
      OBVIOUS
    <3>2. \A k \in 2 .. 9 : s[k].do = "wait" => k = 4 \/ k = 8
      BY <1>2, <1>3, <1>4, <1>5, <1>7, <1>8, <3>1
    <3>3. 4 - 1 = 3 /\ 8 - 1 = 7
      OBVIOUS
    <3> QED
      BY <1>5, <1>7, <3>2, <3>3
  <2>3. \A c \in Everyone, k \in 1 .. 9 : ~(Has(s[k], c) /\ plan[c].kind = "signalgroup")
    BY <2>1
  <2>4. {"freset", "com1"} \in {{"freset", "com1"}, {"signalgroup"}}
    OBVIOUS
  <2> QED
    BY <1>7, <1>9, <2>1, <2>2, <2>3, <2>4, LeadArranged
<1>12. Leading(s, 8, b)
  <2>1. \A k \in 8 + 1 .. 9 : k = 9
    OBVIOUS
  <2>2. AtBaud(s[9], b) /\ Steady(plan, s[9], b)
    BY <1>5, <1>7 DEF AtBaud, Steady
  <2>3. s[8].do \in Settling /\ s[8].baud = b
    BY <1>5, <1>7 DEF Settling
  <2>4. \A k \in 1 .. 9 :
          /\ s[k].do \notin {"query", "decide", "finish"}
          /\ \A c \in Everyone : Has(s[k], c) => plan[c].kind \in {"freset", "com1", "signalgroup"}
    BY <1>9, <1>10
  <2> QED
    BY <1>7, <1>11, <2>1, <2>2, <2>3, <2>4 DEF Leading
<1>13. Provided(plan, s, 2)
  <2>1. Settled(plan, s, 1 + 1, 2, NoBaud)
    <3>1. \A i \in 1 + 1 .. 2 - 1 : FALSE
      OBVIOUS
    <3> QED
      BY <1>3, <1>7, <3>1 DEF Settled
  <2>2. 1 \in 1 .. 2 - 1 /\ s[1].do \in Settling /\ s[1].baud = NoBaud
    BY <1>2, <1>7 DEF Settling
  <2> QED
    BY <2>1, <2>2 DEF Provided
<1>14. Provided(plan, s, 6)
  <2>1. Settled(plan, s, 4 + 1, 6, FactoryBaud)
    <3>1. \A i \in 4 + 1 .. 6 - 1 : i = 5
      OBVIOUS
    <3>2. AtBaud(s[5], FactoryBaud) /\ Steady(plan, s[5], FactoryBaud)
      BY <1>5, <1>7 DEF AtBaud, Steady
    <3> QED
      BY <1>4, <1>7, <3>1, <3>2 DEF Settled
  <2>2. 4 \in 1 .. 6 - 1 /\ s[4].do \in Settling /\ s[4].baud = FactoryBaud
    BY <1>5, <1>7 DEF Settling
  <2> QED
    BY <2>1, <2>2 DEF Provided
<1>15. \A k \in 1 .. 9 : Needs(plan, s[k]) => k = 2 \/ k = 6
  BY <1>1, <1>9, <1>10 DEF Needs
<1> QED
  BY <1>2, <1>7, <1>9, <1>12, <1>13, <1>14, <1>15

\* A baud switch up to its profile.
LEMMA SwitchLeads ==
  ASSUME attempt \in Attempts, NEW b \in Bauds, 1 \in Everyone, plan[1].kind = "com1", NEW s,
         s = <<Phase(1, 1), Stage("probe", b), Stage("reopen", b)>>
  PROVE  /\ s \in Seq(StageRecords) /\ Len(s) = 3 /\ s[1].do = "phase" /\ Leading(s, 2, b)
         /\ \A k \in 1 .. 3 : s[k].do # "check" /\ (Needs(plan, s[k]) => k = 1)
         /\ \A baud : Settled(plan, s, 1, 1, baud)
<1> DEFINE p == Phase(1, 1)
           w == Stage("probe", b)
           r == Stage("reopen", b)
<1>1. Everyone = 1 .. Len(plan)
  BY PlanType
<1>2. /\ p \in StageRecords /\ p.do = "phase" /\ p.baud = NoBaud
      /\ \A c \in Everyone : Has(p, c) <=> c = 1
      /\ \A baud : AtBaud(p, baud) /\ Nearly(plan, p, baud)
  BY OneIs
<1>3. /\ w \in StageRecords /\ w.do = "probe" /\ w.baud = b /\ \A c \in Everyone : ~Has(w, c)
      /\ r \in StageRecords /\ r.do = "reopen" /\ r.baud = b /\ \A c \in Everyone : ~Has(r, c)
  BY QuietIs
<1>4. s = <<p, w, r>>
  OBVIOUS
<1> HIDE DEF p, w, r
<1>5. s \in Seq(StageRecords) /\ Len(s) = 3 /\ s[1] = p /\ s[2] = w /\ s[3] = r
  BY <1>2, <1>3, <1>4
<1>6. \A k \in 1 .. 3 : k \in {1, 2, 3}
  OBVIOUS
<1>7. \A k \in 1 .. 3 : s[k].do \in {"phase", "probe", "reopen"}
  BY <1>2, <1>3, <1>5, <1>6
<1>8. \A c \in Everyone, k \in 1 .. 3 : Has(s[k], c) => k = 1 /\ c = 1
  BY <1>2, <1>3, <1>5, <1>6
<1>9. Arranged(plan, s)
  <2>1. \A c \in Everyone, k \in 1 .. 3 : Has(s[k], c) => plan[c].kind \in {"freset", "com1"}
    BY <1>8
  <2>2. \A k \in 2 .. 3 : s[k].do # "wait"
    <3>1. \A k \in 2 .. 3 : k \in 1 .. 3
      OBVIOUS
    <3> QED
      BY <1>7, <3>1
  <2>3. \A c \in Everyone, k \in 1 .. 3 : ~(Has(s[k], c) /\ plan[c].kind = "signalgroup")
    BY <2>1
  <2>4. {"freset", "com1"} \in {{"freset", "com1"}, {"signalgroup"}}
    OBVIOUS
  <2> QED
    BY <1>5, <1>7, <2>1, <2>2, <2>3, <2>4, LeadArranged
<1>10. Leading(s, 2, b)
  <2>1. \A k \in 2 + 1 .. 3 : k = 3
    OBVIOUS
  <2>2. AtBaud(s[3], b) /\ Steady(plan, s[3], b)
    BY <1>3, <1>5 DEF AtBaud, Steady
  <2>3. s[2].do \in Settling /\ s[2].baud = b
    BY <1>3, <1>5 DEF Settling
  <2>4. \A k \in 1 .. 3 :
          /\ s[k].do \notin {"query", "decide", "finish"}
          /\ \A c \in Everyone : Has(s[k], c) => plan[c].kind \in {"freset", "com1", "signalgroup"}
    BY <1>7, <1>8
  <2> QED
    BY <1>5, <1>9, <2>1, <2>2, <2>3, <2>4 DEF Leading
<1>11. \A baud : Settled(plan, s, 1, 1, baud)
  <2>1. \A i \in 1 .. 1 - 1 : FALSE
    OBVIOUS
  <2> QED
    BY <1>2, <1>5, <2>1 DEF Settled
<1>12. \A k \in 1 .. 3 : Needs(plan, s[k]) => k = 1
  BY <1>1, <1>7, <1>8 DEF Needs
<1> QED
  BY <1>2, <1>5, <1>7, <1>10, <1>11, <1>12

\* SIGNALGROUP and the question what came of it.
LEMMA GroupLeads ==
  ASSUME attempt \in Attempts, NEW b \in Bauds, NEW group \in Everyone,
         plan[group].kind = "signalgroup", NEW s,
         s = <<Phase(group, group),
               Stage("reopen", b), Stage("wait", b), Stage("reopen", b),
               CheckStage(group, b), Stage("reopen", b)>>
  PROVE  /\ s \in Seq(StageRecords) /\ Len(s) = 6 /\ s[1].do = "phase" /\ Leading(s, 3, b)
         /\ \A k \in 1 .. 6 : Needs(plan, s[k]) => k = 1
         /\ \A baud : Settled(plan, s, 1, 1, baud)
<1> DEFINE p == Phase(group, group)
           r == Stage("reopen", b)
           w == Stage("wait", b)
           h == CheckStage(group, b)
<1>1. Everyone = 1 .. Len(plan)
  BY PlanType
<1>2. /\ p \in StageRecords /\ p.do = "phase" /\ p.baud = NoBaud
      /\ \A c \in Everyone : Has(p, c) <=> c = group
      /\ \A baud : AtBaud(p, baud) /\ Nearly(plan, p, baud)
  BY OneIs
<1>3. /\ r \in StageRecords /\ r.do = "reopen" /\ r.baud = b /\ \A c \in Everyone : ~Has(r, c)
      /\ w \in StageRecords /\ w.do = "wait" /\ w.baud = b /\ \A c \in Everyone : ~Has(w, c)
  BY QuietIs
<1>4. h \in StageRecords /\ h.do = "check" /\ h.baud = b /\ \A c \in Everyone : ~Has(h, c)
  <2>1. /\ Stage("check", b) \in StageRecords
        /\ Stage("check", b).do = "check" /\ Stage("check", b).baud = b
    BY StageIs DEF StageNames
  <2>2. <<group>> \in Seq(Everyone)
    OBVIOUS
  <2>3. h \in StageRecords /\ h.do = "check" /\ h.baud = b
    BY <2>1, <2>2 DEF CheckStage, StageRecords
  <2> QED
    BY <2>3 DEF Has, Carries
<1>5. s = <<p, r, w, r, h, r>>
  OBVIOUS
<1> HIDE DEF p, r, w, h
<1>6. /\ s \in Seq(StageRecords) /\ Len(s) = 6
      /\ s[1] = p /\ s[2] = r /\ s[3] = w /\ s[4] = r /\ s[5] = h /\ s[6] = r
  BY <1>2, <1>3, <1>4, <1>5
<1>7. \A k \in 1 .. 6 : k \in {1, 2, 3, 4, 5, 6}
  OBVIOUS
<1>8. \A k \in 1 .. 6 : s[k].do \in {"phase", "reopen", "wait", "check"}
  BY <1>2, <1>3, <1>4, <1>6, <1>7
<1>9. \A c \in Everyone, k \in 1 .. 6 : Has(s[k], c) => k = 1 /\ c = group
  BY <1>2, <1>3, <1>4, <1>6, <1>7
<1>10. Arranged(plan, s)
  <2>1. \A c \in Everyone, k \in 1 .. 6 : Has(s[k], c) => plan[c].kind \in {"signalgroup"}
    BY <1>9
  <2>2. \A k \in 2 .. 6 : s[k].do = "wait" => s[k - 1].do = "reopen" /\ s[k - 1].baud = s[k].baud
    <3>1. \A k \in 2 .. 6 : k \in 1 .. 6
      OBVIOUS
    <3>2. \A k \in 2 .. 6 : s[k].do = "wait" => k = 3
      BY <1>2, <1>3, <1>4, <1>6, <1>7, <3>1
    <3>3. 3 - 1 = 2
      OBVIOUS
    <3> QED
      BY <1>3, <1>6, <3>2, <3>3
  <2>3. \A c \in Everyone, k \in 1 .. 6 : Has(s[k], c) => \E j \in k + 1 .. 6 : s[j].do = "check"
    <3>1. 5 \in 1 + 1 .. 6 /\ s[5].do = "check"
      BY <1>4, <1>6
    <3> QED
      BY <1>9, <3>1
  <2>4. {"signalgroup"} \in {{"freset", "com1"}, {"signalgroup"}}
    OBVIOUS
  <2> QED
    BY <1>6, <1>8, <2>1, <2>2, <2>3, <2>4, LeadArranged
<1>11. Leading(s, 3, b)
  <2>1. \A k \in 3 + 1 .. 6 : k \in {4, 5, 6}
    OBVIOUS
  <2>2. \A k \in {4, 5, 6} : AtBaud(s[k], b) /\ Steady(plan, s[k], b)
    BY <1>3, <1>4, <1>6 DEF AtBaud, Steady
  <2>3. s[3].do \in Settling /\ s[3].baud = b
    BY <1>3, <1>6 DEF Settling
  <2>4. \A k \in 1 .. 6 :
          /\ s[k].do \notin {"query", "decide", "finish"}
          /\ \A c \in Everyone : Has(s[k], c) => plan[c].kind \in {"freset", "com1", "signalgroup"}
    BY <1>8, <1>9
  <2> QED
    BY <1>6, <1>10, <2>1, <2>2, <2>3, <2>4 DEF Leading
<1>12. \A baud : Settled(plan, s, 1, 1, baud)
  <2>1. \A i \in 1 .. 1 - 1 : FALSE
    OBVIOUS
  <2> QED
    BY <1>2, <1>6, <2>1 DEF Settled
<1>13. \A k \in 1 .. 6 : Needs(plan, s[k]) => k = 1
  BY <1>1, <1>8, <1>9 DEF Needs
<1> QED
  BY <1>2, <1>6, <1>11, <1>12, <1>13

-----------------------------------------------------------------------------
(* ... from the start                                                      *)

LEMMA JoinTwice ==
  ASSUME NEW S, NEW s \in Seq(S), NEW t \in Seq(S), NEW u \in Seq(S)
  PROVE  (s \o t) \o u = s \o (t \o u)
OBVIOUS

\* What comes first and what ends a script, together.
LEMMA LeadsOn ==
  ASSUME attempt \in Attempts, NEW p \in Seq(StageRecords), NEW z \in Seq(StageRecords),
         NEW m \in 1 .. Len(p), NEW b, Leading(p, m, b), Calm(z, b),
         (\E k \in 1 .. Len(p) : p[k].do = "check") =>
           \A k \in 1 .. Len(z) : z[k].do \notin {"query", "decide"},
         \A k \in 1 .. Len(p) : Needs(plan, p[k]) =>
           Provided(plan, p, k) \/ (k = 1 /\ \A baud : Settled(plan, p, 1, 1, baud)),
         NEW u, u = p \o z
  PROVE  /\ u \in Seq(StageRecords) /\ Arranged(plan, u) /\ Len(u) \in Nat \ {0} /\ u[1] = p[1]
         /\ \A k \in 1 .. Len(u) : Needs(plan, u[k]) =>
              Provided(plan, u, k) \/ \A baud : Settled(plan, u, 1, k, baud)
<1> DEFINE v == p \o z
<1>1. /\ v \in Seq(StageRecords) /\ Len(v) \in Nat \ {0}
      /\ \A k \in 1 .. Len(p) : v[k] = p[k]
      /\ 1 \in 1 .. Len(p) /\ Len(p) \in Nat
  BY JoinIs
<1>2. Arranged(plan, v)
  BY JoinArranged
<1>3. ASSUME NEW k \in 1 .. Len(v), Needs(plan, v[k])
      PROVE  Provided(plan, v, k) \/ \A baud : Settled(plan, v, 1, k, baud)
  <2>1. k \in 1 .. Len(p) \/ k > m
    BY <1>1
  <2>2. CASE k > m
    BY <2>2, JoinProvided
  <2>3. CASE k \in 1 .. Len(p)
    <3>1. Needs(plan, p[k])
      BY <1>1, <1>3, <2>3
    <3>2. CASE Provided(plan, p, k)
      BY <2>3, <3>2, JoinProvided
    <3>3. CASE k = 1 /\ \A baud : Settled(plan, p, 1, 1, baud)
      <4>1. \A baud : Settled(plan, p, 1, k, baud)
        BY <3>3
      <4> QED
        BY <2>3, <4>1, JoinProvided
    <3> QED
      BY <2>3, <3>1, <3>2, <3>3
  <2> QED
    BY <2>1, <2>2, <2>3
<1>4. u = v
  OBVIOUS
<1> HIDE DEF v
<1>5. v[1] = p[1]
  BY <1>1
<1> QED
  BY Zenon, <1>1, <1>2, <1>3, <1>4, <1>5

\* A script that is put together well, behind a receiver that was found.
LEMMA BeginsTruly ==
  ASSUME Progress, Faithful, pc = "prepare", attempt' = attempt, queried' = queried,
         link' = link, rx' = rx, fates' = fates, pc' = "running",
         Unicore =>
           /\ Arranged(plan, script') /\ script'[1].do # "wait"
           /\ \A k \in 1 .. Len(script') : Needs(plan, script'[k]) =>
                \/ Provided(plan, script', k)
                \/ Hears(link) /\ Settled(plan, script', 1, k, link)
  PROVE  Faithful'
<1> SUFFICES ASSUME Unicore PROVE Onward'
  BY GoesOnTruly
<1>1. plan' = plan /\ Everyone' = Everyone /\ Ready
  BY SameAttempt DEF Faithful
<1>2. Arranged(plan', script') /\ Opened'
  BY <1>1 DEF Opened
<1>3. InReach'
  <2>1. \A baud : Hears(baud) => Hears(baud)'
    BY DEF Hears
  <2> QED
    BY <1>1, <2>1 DEF InReach, Reach, Hears
<1>4. \A c \in Everyone : fates'[c] = "unsent"
  BY DEF Progress, Pending
<1>5. Untouched' /\ InForce'
  BY <1>1, <1>4 DEF Untouched, InForce
<1>6. Asked'
  BY <1>1, <1>4 DEF Asked, Ready
<1> QED
  BY <1>1, <1>2, <1>3, <1>5, <1>6 DEF Onward

LEMMA PreparesFaithfully ==
  ASSUME Progress, Faithful, Prepares
  PROVE  Faithful'
<1> DEFINE reset == FirstFrom("freset", 1)
           com1 == FirstFrom("com1", reset + 1)
           n == Len(plan)
<1>1. /\ attempt \in Attempts /\ n \in Nat \ {0} /\ Everyone = 1 .. n /\ attempt.baud \in Bauds
      /\ \A c \in Everyone : plan[c].kind = "com1" => plan[c].value \in Bauds
      /\ report \in Reports /\ attempt.verified \in BOOLEAN /\ attempt.hooks \in BOOLEAN
  BY PlanType, WorkflowAssumption DEF Progress, TypeInv, Reports
<1>2. /\ pc = "prepare" /\ attempt' = attempt /\ queried' = queried /\ link' = link
      /\ rx' = rx /\ fates' = fates
  BY DEF Prepares
<1>3. ASSUME NEW status, Ends(status, FALSE),
             status \in {"transportUnavailable", "safetyRejected", "buildError"}
      PROVE  Faithful'
  <2>1. status \in Statuses \ {"ok", "partialSuccess"}
    BY <1>3 DEF Statuses
  <2> QED
    BY <1>1, <1>3, <2>1, GivesUpTruly
<1>4. reset \in Nat /\ (reset # 0 => reset \in 1 .. n /\ plan[reset].kind = "freset")
      /\ (reset = 0 => \A c \in 1 .. n : plan[c].kind # "freset")
  BY <1>1, FirstFromFinds DEF Kinds
<1>5. /\ com1 \in Nat /\ (com1 # 0 => com1 \in reset + 1 .. n /\ plan[com1].kind = "com1")
      /\ com1 = 0 => \A c \in reset + 1 .. n : plan[c].kind # "com1"
  <2>1. reset + 1 \in Nat \ {0} /\ "com1" \in Kinds
    BY <1>4 DEF Kinds
  <2> QED
    BY <1>1, <2>1, FirstFromFinds
<1>6. Unicore => (attempt.verified => Hears(link) /\ link = attempt.baud)
  BY <1>2 DEF Faithful, Ready
<1>7. \/ \E status \in {"transportUnavailable", "safetyRejected", "buildError"} : Ends(status, FALSE)
      \/ /\ pc' = "running"
         /\ Unicore =>
              \/ /\ attempt.verified /\ reset > 0 /\ com1 > 0
                 /\ script' = RecoveryStages(reset, com1, plan[com1].value)
              \/ /\ attempt.verified /\ reset = 0 /\ com1 > 0
                 /\ script' = SwitchStages(com1, plan[com1].value)
              \/ /\ attempt.verified /\ reset = 0 /\ script' = PlainStages
                 /\ com1 > 0 => plan[com1].value = attempt.baud
  <2> HIDE DEF com1, reset
  <2>1. reset > 0 \/ reset = 0
    BY <1>4
  <2>2. CASE Unicore /\ ~attempt.verified
    BY <2>2 DEF Prepares, Unicore
  <2>3. CASE Unicore /\ attempt.verified /\ reset > 0
    BY <2>3 DEF Prepares, Begins, Unicore, reset, com1
  <2>4. CASE Unicore /\ attempt.verified /\ reset = 0
    BY <2>4 DEF Prepares, Begins, Unicore, reset, com1
  <2>5. CASE ~Unicore
    BY <2>5 DEF Prepares, Begins, Unicore, reset, com1
  <2> QED
    BY <1>1, <2>1, <2>2, <2>3, <2>4, <2>5
<1>8. ASSUME Unicore, pc' = "running", attempt.verified, reset > 0, com1 > 0,
             script' = RecoveryStages(reset, com1, plan[com1].value)
      PROVE  Faithful'
  <2>1. reset = 1 /\ com1 = 2 /\ 1 \in 1 .. n /\ 2 \in 1 .. n /\ 3 \in 1 .. n + 1
    <3>1. reset \in 1 .. n /\ plan[reset].kind = "freset" /\ com1 \in reset + 1 .. n /\ plan[com1].kind = "com1"
      BY <1>4, <1>5, <1>8
    <3> HIDE DEF com1, reset
    <3>2. reset = 1
      BY <1>1, <1>8, <3>1, PlanForm
    <3>3. com1 \in Everyone /\ com1 # 1
      BY <1>1, <3>1, <3>2
    <3>4. com1 = 2
      BY <1>1, <1>8, <3>1, <3>3, PlanForm
    <3> QED
      BY <1>1, <3>1, <3>2, <3>4
  <2>2. plan[1].kind = "freset" /\ plan[2].kind = "com1"
    BY <1>4, <1>5, <1>8, <2>1
  <2> DEFINE b == plan[2].value
             p == <<Stage("scan", NoBaud), Phase(1, 1),
                    Stage("reopen", FactoryBaud), Stage("wait", FactoryBaud),
                    Stage("reopen", FactoryBaud), Phase(2, 2),
                    Stage("reopen", b), Stage("wait", b), Stage("reopen", b)>>
             o == ProfileStages(3, b)
             f == <<Stage("finish", b)>>
             z == o \o f
  <2>3. b \in Bauds
    BY <1>1, <2>1, <2>2
  <2>4. script' = (p \o o) \o f
    <3>1. script' = RecoveryStages(1, 2, b)
      BY <1>8, <2>1
    <3>2. 1 + 1 = 2 /\ 2 + 1 = 3
      OBVIOUS
    <3> QED
      BY <3>1, <3>2 DEF RecoveryStages
  <2>5. /\ p \in Seq(StageRecords) /\ Len(p) = 9 /\ p[1].do = "scan" /\ Leading(p, 8, b)
        /\ \A k \in 1 .. 9 : p[k].do # "check" /\ (Needs(plan, p[k]) => Provided(plan, p, k))
    BY <1>1, <2>1, <2>2, <2>3, ResetLeads
  <2>6. z \in Seq(StageRecords) /\ Calm(z, b)
    <3>1. \A c \in 3 .. n : plan[c].kind # "freset"
      <4>1. \A c \in 3 .. n : c \in Everyone /\ c # 1
        BY <1>1
      <4> QED
        BY <1>1, <1>8, <4>1, PlanForm
    <3>2. \A c \in Everyone : plan[c].kind = "com1" => plan[c].value = b
      <4>1. \A c \in Everyone : plan[c].kind = "com1" => c = 2
        BY <1>1, <1>8, <2>2, PlanForm
      <4> QED
        BY <4>1
    <3> HIDE DEF b
    <3> QED
      BY <1>1, <1>8, <2>1, <2>3, <3>1, <3>2, ProfileCalm
  <2>7. o \in Seq(StageRecords) /\ f \in Seq(StageRecords)
    <3>1. o \in Seq(StageRecords)
      BY <1>1, <2>1, <2>3, ProfileCovers DEF Covers
    <3>2. Stage("finish", b) \in StageRecords
      BY <2>3, FinishIs
    <3> QED
      BY <3>1, <3>2
  <2> HIDE DEF p, o, f, b
  <2>8. script' = p \o z
    <3>1. p \in Seq(StageRecords)
      BY <2>5
    <3>2. (p \o o) \o f = p \o z
      BY <2>7, <3>1, JoinTwice
    <3> QED
      BY Zenon, <2>4, <3>2
  <2> HIDE DEF z
  <2>9. 8 \in 1 .. Len(p) /\ 1 .. Len(p) = 1 .. 9
    BY <2>5
  <2>10. /\ Arranged(plan, script') /\ script'[1] = p[1]
         /\ \A k \in 1 .. Len(script') : Needs(plan, script'[k]) =>
              Provided(plan, script', k) \/ \A baud : Settled(plan, script', 1, k, baud)
    BY <1>1, <2>5, <2>6, <2>8, <2>9, LeadsOn
  <2>11. Hears(link)
    BY <1>6, <1>8
  <2> QED
    BY <1>2, <1>8, <2>5, <2>10, <2>11, BeginsTruly
<1>9. ASSUME Unicore, pc' = "running", attempt.verified, reset = 0, com1 > 0,
             script' = SwitchStages(com1, plan[com1].value)
      PROVE  Faithful'
  <2>1. \A c \in 1 .. n : plan[c].kind # "freset"
    BY <1>4, <1>9
  <2>2. com1 = 1 /\ 1 \in 1 .. n /\ 2 \in 1 .. n + 1 /\ plan[1].kind = "com1"
    <3>1. com1 \in 1 .. n /\ plan[com1].kind = "com1"
      BY <1>5, <1>9
    <3> HIDE DEF com1, reset
    <3>2. 1 \in 1 .. n /\ 2 \in 1 .. n + 1
      BY <1>1
    <3>3. com1 = 1
      BY <1>1, <1>9, <2>1, <3>1, <3>2, PlanForm
    <3> QED
      BY <3>1, <3>2, <3>3
  <2> DEFINE b == plan[1].value
             p == <<Phase(1, 1), Stage("probe", b), Stage("reopen", b)>>
             o == ProfileStages(2, b)
             f == <<Stage("finish", b)>>
             z == o \o f
  <2>3. b \in Bauds
    BY <1>1, <2>2
  <2>4. script' = (p \o o) \o f
    <3>1. script' = SwitchStages(1, b)
      BY <1>9, <2>2
    <3>2. 1 + 1 = 2
      OBVIOUS
    <3> QED
      BY <3>1, <3>2 DEF SwitchStages
  <2>5. /\ p \in Seq(StageRecords) /\ Len(p) = 3 /\ p[1].do = "phase" /\ Leading(p, 2, b)
        /\ \A k \in 1 .. 3 : p[k].do # "check" /\ (Needs(plan, p[k]) => k = 1)
        /\ \A baud : Settled(plan, p, 1, 1, baud)
    BY <1>1, <2>2, <2>3, SwitchLeads
  <2>6. z \in Seq(StageRecords) /\ Calm(z, b)
    <3>1. \A c \in 2 .. n : plan[c].kind # "freset"
      <4>1. \A c \in 2 .. n : c \in 1 .. n
        BY <1>1
      <4> QED
        BY <2>1, <4>1
    <3>2. \A c \in Everyone : plan[c].kind = "com1" => plan[c].value = b
      <4>1. \A c \in Everyone : plan[c].kind = "com1" => c = 1
        BY <1>1, <1>9, <2>1, <2>2, PlanForm
      <4> QED
        BY <4>1
    <3> HIDE DEF b
    <3> QED
      BY <1>1, <1>9, <2>2, <2>3, <3>1, <3>2, ProfileCalm
  <2>7. o \in Seq(StageRecords) /\ f \in Seq(StageRecords)
    <3>1. o \in Seq(StageRecords)
      BY <1>1, <2>2, <2>3, ProfileCovers DEF Covers
    <3>2. Stage("finish", b) \in StageRecords
      BY <2>3, FinishIs
    <3> QED
      BY <3>1, <3>2
  <2> HIDE DEF p, o, f, b
  <2>8. script' = p \o z
    <3>1. p \in Seq(StageRecords)
      BY <2>5
    <3>2. (p \o o) \o f = p \o z
      BY <2>7, <3>1, JoinTwice
    <3> QED
      BY Zenon, <2>4, <3>2
  <2> HIDE DEF z
  <2>9. 2 \in 1 .. Len(p) /\ 1 .. Len(p) = 1 .. 3
    BY <2>5
  <2>10. /\ Arranged(plan, script') /\ script'[1] = p[1]
         /\ \A k \in 1 .. Len(script') : Needs(plan, script'[k]) =>
              Provided(plan, script', k) \/ \A baud : Settled(plan, script', 1, k, baud)
    BY <1>1, <2>5, <2>6, <2>8, <2>9, LeadsOn
  <2>11. Hears(link)
    BY <1>6, <1>9
  <2> QED
    BY <1>2, <1>9, <2>5, <2>10, <2>11, BeginsTruly
<1>10. ASSUME Unicore, pc' = "running", attempt.verified, reset = 0, script' = PlainStages,
              com1 > 0 => plan[com1].value = attempt.baud
       PROVE  Faithful'
  <2> DEFINE b == attempt.baud
             z == ProfileStages(1, b) \o <<Stage("finish", b)>>
  <2>1. \A c \in 1 .. n : plan[c].kind # "freset"
    BY <1>4, <1>10
  <2>2. \A c \in Everyone : plan[c].kind = "com1" => plan[c].value = b
    <3> SUFFICES ASSUME NEW c \in Everyone, plan[c].kind = "com1" PROVE plan[c].value = b
      OBVIOUS
    <3>1. com1 # 0 /\ com1 > 0
      <4>1. c \in reset + 1 .. n
        BY <1>1, <1>10
      <4>2. com1 # 0
        BY <1>5, <4>1
      <4> QED
        BY <1>5, <4>2
    <3>2. com1 \in Everyone /\ plan[com1].kind = "com1" /\ plan[com1].value = b
      BY <1>1, <1>5, <1>10, <3>1
    <3> HIDE DEF com1, reset, b
    <3>3. 1 \in 1 .. n
      BY <1>1
    <3>4. com1 = 1 /\ c = 1
      BY <1>1, <1>10, <2>1, <3>2, <3>3, PlanForm
    <3> QED
      BY <3>2, <3>4
  <2>3. script' = z /\ b \in Bauds /\ 1 \in 1 .. n + 1
    BY <1>1, <1>10 DEF PlainStages, Unicore
  <2>4. z \in Seq(StageRecords) /\ Calm(z, b) /\ z[1].do \in {"phase", "query"}
    BY <1>1, <1>10, <2>1, <2>2, <2>3, ProfileCalm
  <2>5. Hears(link) /\ link = b
    BY <1>6, <1>10
  <2> HIDE DEF z, b
  <2>6. Arranged(plan, z) /\ \A k \in 1 .. Len(z) : Settled(plan, z, 1, k, b)
    BY <1>1, <2>4, CalmIs, CalmSettled
  <2> QED
    BY <1>2, <1>10, <2>3, <2>4, <2>5, <2>6, BeginsTruly
<1> HIDE DEF com1, reset
<1> QED
  <2>1. ASSUME ~Unicore, pc' = "running" PROVE Faithful'
    BY <1>2, <2>1, GoesOnTruly
  <2> QED
    BY <1>3, <1>7, <1>8, <1>9, <1>10, <2>1

-----------------------------------------------------------------------------
(* ... and from the decision about SIGNALGROUP                             *)

\* What is known of the receiver and the plan when that is decided.
LEMMA DecideKnows ==
  ASSUME Progress, Onward, Unicore, At("decide"),
         NEW first \in Everyone, NEW f \in StageRecords, f.do = "finish", WellFormed(plan, f),
         script = <<script[1], f>>, script[1].baud \in Bauds, script[1].do = "decide",
         \A c \in Everyone : fates[c] = "unsent" <=> c \in first .. Len(plan)
  PROVE  /\ Hears(link) /\ link = script[1].baud /\ f.baud = script[1].baud
         /\ \A c \in first .. Len(plan) : plan[c].kind # "freset"
         /\ \A c \in Everyone : plan[c].kind = "com1" => plan[c].value = script[1].baud
         /\ queried = NoGroups \/ queried = rx.groups
         /\ \A c \in Everyone : fates[c] # "skipped"
<1> DEFINE s == script[1]
           b == script[1].baud
<1>1. /\ pc = "running" /\ attempt \in Attempts /\ Everyone = 1 .. Len(plan)
      /\ Len(plan) \in Nat \ {0} /\ link \in Bauds
  BY PlanType DEF At, Progress, TypeInv
<1>2. Len(script) = 2 /\ script[2] = f /\ 1 \in 1 .. 2 /\ 2 \in 1 .. 2
  OBVIOUS
<1>3. \A k \in 1 .. 2 : k = 1 \/ k = 2
  OBVIOUS
<1>4. \A c \in Everyone : ~Has(f, c)
  BY DEF Has, Carries
<1>5. \A c \in Everyone : c \in first .. Len(plan) => Has(s, c)
  BY <1>1, <1>2, <1>3, <1>4 DEF Progress, Pending
<1>6. ~Provided(plan, script, 1) /\ ~Provided(plan, script, 2)
  <2>1. 1 .. 1 - 1 = {} /\ \A j \in 1 .. 2 - 1 : j = 1
    OBVIOUS
  <2>2. script[1].do \notin Settling
    BY DEF Settling
  <2> QED
    BY <2>1, <2>2 DEF Provided
<1>7. first \in first .. Len(plan)
  BY <1>1
<1>8. Needs(plan, s) /\ Needs(plan, f)
  BY <1>1, <1>5, <1>7 DEF Needs
<1>9. Hears(link) /\ Settled(plan, script, 1, 1, link) /\ Settled(plan, script, 1, 2, link)
  BY <1>2, <1>6, <1>8 DEF Onward, InReach, Reach
<1>10. AtBaud(s, link) /\ AtBaud(f, link)
  BY <1>2, <1>9 DEF Settled
<1>11. f.baud # NoBaud
  BY DEF WellFormed
<1>12. link = b /\ f.baud = b
  BY <1>10, <1>11, WorkflowAssumption DEF AtBaud
<1>13. Alone(plan, s) /\ Alone(plan, f)
  BY <1>2 DEF Onward, Arranged
<1>14. \A c \in first .. Len(plan) : plan[c].kind # "freset"
  <2>1. \A c \in first .. Len(plan) : c \in Everyone
    BY <1>1
  <2> QED
    BY <1>1, <1>5, <1>13, <2>1 DEF Alone
<1>15. \A c \in Everyone : plan[c].kind = "com1" => plan[c].value = b
  BY <1>1, <1>12, <1>13 DEF Alone
<1>16. queried = NoGroups \/ queried = rx.groups
  BY <1>2 DEF Onward, Asked
<1>17. \A c \in Everyone : fates[c] # "skipped"
  BY <1>2 DEF Onward, Asked
<1> QED
  BY <1>9, <1>12, <1>14, <1>15, <1>16, <1>17

LEMMA DecidesFaithfully ==
  ASSUME Progress, Faithful, Decides
  PROVE  Faithful'
<1>1. /\ At("decide") /\ attempt' = attempt /\ pc' = pc /\ queried' = queried /\ link' = link
      /\ rx' = rx /\ pc = "running" /\ Head(script).do = "decide"
  BY DEF Decides, At
<1> SUFFICES ASSUME Unicore PROVE Onward'
  BY <1>1, GoesOnTruly
<1>2. PICK first \in Everyone, group \in Everyone, f \in StageRecords :
        /\ group \in first .. Len(plan) /\ plan[group].kind = "signalgroup"
        /\ Head(Head(script).commands) = first /\ FirstFrom("signalgroup", first) = group
        /\ Head(script).baud \in Bauds /\ pc = "running"
        /\ Tail(script) = <<f>> /\ f.do = "finish" /\ WellFormed(plan, f)
        /\ script = <<script[1], f>>
        /\ \A c \in Everyone : fates[c] = "unsent" <=> c \in first .. Len(plan)
  BY <1>1, DecideHead
<1>3. Head(script) = script[1]
  BY <1>1, HeadIs
<1>4. Onward
  BY <1>1 DEF Faithful
<1>5. /\ Hears(link) /\ link = script[1].baud /\ f.baud = script[1].baud
      /\ \A c \in first .. Len(plan) : plan[c].kind # "freset"
      /\ \A c \in Everyone : plan[c].kind = "com1" => plan[c].value = script[1].baud
      /\ queried = NoGroups \/ queried = rx.groups
      /\ \A c \in Everyone : fates[c] # "skipped"
  BY <1>1, <1>2, <1>3, <1>4, DecideKnows
<1> DEFINE b == link
           around == AroundSignalGroup(first, group, b)
           alone == <<Phase(group, group),
                      Stage("reopen", b), Stage("wait", b), Stage("reopen", b),
                      CheckStage(group, b), Stage("reopen", b)>>
           f1 == <<f>>
           z == around \o f1
<1>6. /\ attempt \in Attempts /\ Len(plan) \in Nat \ {0} /\ Everyone = 1 .. Len(plan) /\ b \in Bauds
      /\ plan[group].value \in Groups
  BY <1>2, PlanType, WorkflowAssumption DEF Progress, TypeInv
<1>7. /\ z \in Seq(StageRecords) /\ Calm(z, b) /\ z[1].do = "phase" /\ Len(z) \in Nat \ {0}
      /\ \A k \in 1 .. Len(z) : z[k].do \in {"phase", "reopen", "finish"}
  <2>1. z = AroundSignalGroup(first, group, b) \o f1 /\ f1 \in Seq(StageRecords) /\ Len(f1) = 1 /\ f1[1] = f
    BY SingleIs
  <2> HIDE DEF b, f1, around, alone, z
  <2>2. /\ f1[1].do = "finish" /\ f1[1].baud = b /\ b \in Bauds /\ attempt \in Attempts
        /\ \A c \in Everyone : plan[c].kind = "com1" => plan[c].value = b
        /\ \A c \in first .. Len(plan) : plan[c].kind # "freset"
        /\ group \in first .. Len(plan) /\ plan[group].kind = "signalgroup"
    BY <1>2, <1>5, <1>6, <2>1 DEF b
  <2>3. around = AroundSignalGroup(first, group, b)
    BY DEF around
  <2>4. Closing(around \o f1, b)
    BY <2>1, <2>2, <2>3, AroundCalm
  <2>5. z = around \o f1
    BY DEF z
  <2>6. Closing(z, b)
    BY Zenon, <2>4, <2>5
  <2> QED
    BY <2>6 DEF Closing
<1>8. Hears(link)' /\ Hears(link) /\ b = link /\ link' = link /\ plan' = plan
  BY <1>1, <1>5, SameAttempt DEF Hears
<1>9. /\ \A c, d \in Everyone : Precedes(plan[c], plan[d]) /\ fates[c] = "unsent" =>
           fates[d] = "unsent" /\ d # group
      /\ fates[group] = "unsent"
  <2>1. \A c \in Everyone : Precedes(plan[c], plan[group]) => plan[c].kind = "freset"
    BY <1>2 DEF Precedes
  <2> QED
    BY <1>2, <1>4, <1>5, <2>1 DEF Onward, Untouched
<1>10. /\ InForce
       /\ \A c \in Everyone : plan[c].kind = "signalgroup" => c = group
  BY <1>2, <1>4, <1>6, OneGroup DEF Onward
<1>11. CASE queried = plan[group].value
  <2>1. script' = z /\ fates' = [fates EXCEPT ![group] = "skipped"]
    BY <1>2, <1>3, <1>5, <1>11 DEF Decides
  <2>2. /\ fates'[group] = "skipped" /\ \A c \in Everyone \ {group} : fates'[c] = fates[c]
    BY <1>2, <2>1 DEF Progress, TypeInv
  <2>3. rx.groups = plan[group].value
    BY <1>5, <1>6, <1>11, WorkflowAssumption
  <2> HIDE DEF z, b
  <2>4. Arranged(plan, z) /\ \A k \in 1 .. Len(z) : Settled(plan, z, 1, k, b)
    BY <1>6, <1>7, CalmIs, CalmSettled
  <2>5. Arranged(plan', script') /\ Opened' /\ InReach'
    <3>1. Opened'
      BY <1>7, <2>1 DEF Opened
    <3>2. InReach'
      BY <1>8, <2>1, <2>4 DEF InReach, Reach
    <3> QED
      BY <1>8, <2>1, <2>4, <3>1, <3>2
  <2>6. Untouched'
    BY <1>1, <1>8, <1>9, <2>2, SameAttempt DEF Untouched
  <2>7. InForce'
    <3> SUFFICES ASSUME NEW c \in Everyone
                 PROVE  /\ plan[c].kind = "setting" /\ fates'[c] \in {"accepted", "skipped"} => c \in rx.settings
                        /\ plan[c].kind = "signalgroup" /\ fates'[c] \in {"accepted", "skipped"} =>
                             rx.groups = plan[c].value
      BY <1>1, <1>8, SameAttempt DEF InForce
    <3>1. plan[c].kind = "setting" => c # group
      BY <1>2
    <3>2. plan[c].kind = "setting" /\ fates'[c] \in {"accepted", "skipped"} => c \in rx.settings
      BY <1>10, <2>2, <3>1 DEF InForce
    <3> QED
      BY <1>10, <2>3, <3>2
  <2>8. Asked'
    BY <1>7, <2>1 DEF Asked
  <2> QED
    BY <2>5, <2>6, <2>7, <2>8 DEF Onward
<1>12. CASE queried # plan[group].value
  <2>1. script' = (alone \o around) \o f1 /\ fates' = fates
    BY <1>2, <1>3, <1>5, <1>12 DEF Decides, SignalGroupFirst, CheckStage
  <2>2. /\ alone \in Seq(StageRecords) /\ Len(alone) = 6 /\ alone[1].do = "phase" /\ Leading(alone, 3, b)
        /\ \A k \in 1 .. 6 : Needs(plan, alone[k]) => k = 1
        /\ \A baud : Settled(plan, alone, 1, 1, baud)
    BY <1>2, <1>6, GroupLeads
  <2>3. around \in Seq(StageRecords) /\ f1 \in Seq(StageRecords)
    <3>1. around \in Seq(StageRecords)
      BY <1>2, <1>6, AroundCovers DEF Covers
    <3> QED
      BY <1>2, <3>1
  <2> HIDE DEF alone, around, f1
  <2>4. script' = alone \o z
    <3>1. alone \in Seq(StageRecords)
      BY <2>2
    <3>2. (alone \o around) \o f1 = alone \o z
      BY <2>3, <3>1, JoinTwice
    <3> QED
      BY Zenon, <2>1, <3>2
  <2> HIDE DEF z, b
  <2>5. 3 \in 1 .. Len(alone) /\ 1 .. Len(alone) = 1 .. 6
    BY <2>2
  <2>6. /\ Arranged(plan, script') /\ script'[1] = alone[1]
        /\ \A k \in 1 .. Len(script') : Needs(plan, script'[k]) =>
             Provided(plan, script', k) \/ \A baud : Settled(plan, script', 1, k, baud)
    BY <1>6, <1>7, <2>2, <2>4, <2>5, LeadsOn
  <2>7. \A k \in 1 .. Len(script') : script'[k].do # "decide"
    <3> DEFINE u == alone \o z
    <3>1. alone \in Seq(StageRecords) /\ z \in Seq(StageRecords)
      BY <1>7, <2>2
    <3>2. /\ \A k \in 1 .. Len(alone) : u[k] = alone[k]
          /\ \A k \in 1 .. Len(u) : k \in 1 .. Len(alone) \/ (k - Len(alone) \in 1 .. Len(z) /\ u[k] = z[k - Len(alone)])
      BY <3>1, JoinIs
    <3>3. u = script'
      BY <2>4
    <3> HIDE DEF u
    <3>4. \A k \in 1 .. Len(alone) : alone[k].do # "decide"
      BY <2>2 DEF Leading
    <3>5. \A k \in 1 .. Len(z) : z[k].do # "decide"
      BY <1>7
    <3>6. \A k \in 1 .. Len(u) : u[k].do # "decide"
      BY <3>2, <3>4, <3>5
    <3> QED
      BY <3>3, <3>6
  <2>8. Arranged(plan', script') /\ Opened' /\ InReach'
    <3>1. Opened'
      BY <2>2, <2>6 DEF Opened
    <3>2. InReach'
      BY <1>8, <2>6 DEF InReach, Reach
    <3> QED
      BY <1>8, <2>6, <3>1, <3>2
  <2>9. Untouched'
    BY <1>1, <1>8, <1>9, <2>1, SameAttempt DEF Untouched
  <2>10. InForce'
    <3> SUFFICES ASSUME NEW c \in Everyone
                 PROVE  /\ plan[c].kind = "setting" /\ fates[c] \in {"accepted", "skipped"} => c \in rx.settings
                        /\ plan[c].kind = "signalgroup" => fates[c] \notin {"accepted", "skipped"}
      BY <1>1, <1>8, <2>1, SameAttempt DEF InForce
    <3> QED
      BY <1>9, <1>10 DEF InForce
  <2>11. Asked'
    BY <1>1, <1>5, <1>8, <2>1, <2>7, SameAttempt DEF Asked
  <2> QED
    BY <2>8, <2>9, <2>10, <2>11 DEF Onward
<1> QED
  BY <1>11, <1>12

-----------------------------------------------------------------------------
(* The report is true                                                      *)

LEMMA InitFaithful == Init => Faithful
<1> SUFFICES ASSUME Init PROVE Faithful
  OBVIOUS
<1>1. pc = "prepare" /\ queried = NoGroups /\ link = attempt.baud
  BY DEF Init
<1>2. attempt.verified => rx.up /\ rx.baud = attempt.baud
  BY DEF Init
<1> QED
  BY <1>1, <1>2 DEF Faithful, Ready, Hears, Succeeded

LEMMA StandsFaithfully ==
  ASSUME Faithful, UNCHANGED vars
  PROVE  Faithful'
<1>1. /\ attempt' = attempt /\ pc' = pc /\ script' = script /\ queried' = queried /\ link' = link
      /\ report' = report /\ rx' = rx /\ fates' = fates
  BY DEF vars
<1>2. plan' = plan /\ Everyone' = Everyone
  BY <1>1, SameAttempt
<1>3. Ready => Ready'
  BY <1>1 DEF Ready, Hears
<1>4. Onward => Onward'
  BY <1>1, <1>2 DEF Onward, InReach, Reach, Hears, Opened, Untouched, InForce, Asked
<1>5. \A c \in Everyone : Kept(c, rx)' <=> Kept(c, rx)
  BY <1>1, <1>2 DEF Kept
<1>6. Truthful => Truthful'
  BY <1>1, <1>2, <1>5 DEF Truthful
<1> QED
  BY <1>1, <1>3, <1>4, <1>6 DEF Faithful, Unicore, Succeeded

LEMMA NextFaithful == Progress /\ Faithful /\ [Next]_vars => Faithful'
<1> SUFFICES ASSUME Progress, Faithful, [Next]_vars PROVE Faithful'
  OBVIOUS
<1>1. CASE Prepares
  BY <1>1, PreparesFaithfully
<1>2. CASE SendsCommand
  BY <1>2, SendsFaithfully
<1>3. CASE PhaseEnds
  BY <1>3, PhaseEndsFaithfully
<1>4. CASE Finishes
  BY <1>4, FinishesFaithfully
<1>5. CASE Reopens \/ Waits \/ Scans \/ Probes \/ Queries \/ Checks
  BY <1>5, PortFaithfully
<1>6. CASE Decides
  BY <1>6, DecidesFaithfully
<1>7. CASE Restarts
  BY <1>7, RestartsFaithfully
<1>8. CASE UNCHANGED vars
  BY <1>8, StandsFaithfully
<1> QED
  BY <1>1, <1>2, <1>3, <1>4, <1>5, <1>6, <1>7, <1>8 DEF Next, WorkflowStep

\* What the rest of the script needs of the receiver is so, and what a success
\* claims of it.
THEOREM FaithfulHolds == Spec => [](Progress /\ Faithful)
BY InitProgress, NextProgress, InitFaithful, NextFaithful, PTL DEF Spec

\* For every plan of the planner's form and every receiver: what a report says
\* is so. After a success all that was accepted is in force, at the baud that
\* the report calls verified, whatever restarted the receiver in between
\* (config_apply.cpp:2443-2455, 2684-2713), and a doubt is in the report.
THEOREM ReportHolds == Spec => []ReportIsTrue
<1>1. Progress /\ Faithful => SuccessIsTrue
  <2> SUFFICES ASSUME Progress, Faithful, Succeeded
               PROVE  /\ Unicore => report.verified = rx.baud /\ report.baud = rx.baud
                      /\ Unicore => \A c \in Everyone : fates[c] \in {"accepted", "skipped"} => Kept(c, rx)
                      /\ report.status = "ok" <=> \A c \in Everyone : fates[c] \in {"accepted", "skipped"}
    BY DEF SuccessIsTrue
  <2>1. Unicore => Truthful
    BY DEF Faithful
  <2>2. report.status = "ok" <=> \A c \in Everyone : fates[c] \in {"accepted", "skipped"}
    BY DEF Progress, Judged
  <2> QED
    BY <2>1, <2>2 DEF Truthful
<1>2. Progress => DoubtStopsEverything
  BY DEF Progress, Judged, DoubtStopsEverything
<1>3. Progress /\ Faithful => ReportIsTrue
  BY <1>1, <1>2 DEF ReportIsTrue
<1> QED
  BY <1>3, FaithfulHolds, PTL

-----------------------------------------------------------------------------
(* Nothing is written too early                                            *)

\* Bytes are written of the command at the head of a phase only.
LEMMA WritesHead ==
  ASSUME Progress, [Next]_vars, NEW c \in Everyone, Writes(c)
  PROVE  At("phase") /\ Head(script).commands # << >> /\ c = Head(Head(script).commands)
<1>1. writes \in [Everyone -> Nat]
  BY DEF Progress, TypeInv
<1>2. \A k \in Nat : ~(k > k)
  OBVIOUS
<1>3. writes'[c] # writes[c]
  BY <1>1, <1>2 DEF Writes
<1>4. SendsCommand
  <2>1. writes' # writes
    BY <1>3
  <2> QED
    BY <2>1 DEF Next, WorkflowStep, vars, Prepares, PhaseEnds, Finishes, Reopens, Waits, Scans,
                Probes, Queries, Decides, Checks, Restarts
<1> DEFINE d == Head(Head(script).commands)
<1>5. /\ At("phase") /\ Head(script).commands # << >>
      /\ NotSent(d) \/ Accepted(d) \/ Refused(d) \/ Doubtful(d)
  BY <1>4 DEF SendsCommand
<1> HIDE DEF d
<1>6. writes' = writes \/ writes' = [writes EXCEPT ![d] = @ + 1]
  BY <1>5 DEF NotSent, Accepted, Refused, Doubtful, CountWrite
<1>7. c = d
  BY <1>1, <1>3, <1>6
<1> QED
  BY <1>5, <1>7 DEF d

\* It is heard, for a plan for a Unicore receiver.
LEMMA WritesHeard ==
  ASSUME Progress, Onward, At("phase"), Head(script).commands # << >>
  PROVE  Hears(link)
<1> DEFINE c == Head(script[1].commands)
<1>1. /\ Len(script) \in Nat \ {0} /\ script[1].do = "phase" /\ c \in Everyone
      /\ Head(script) = script[1] /\ fates[c] = "unsent" /\ script[1] \in StageRecords
  BY HeadPhase
<1>2. script[1].commands \in Seq(Everyone) /\ script[1].commands # << >>
  BY <1>1 DEF StageRecords
<1>3. 1 \in 1 .. Len(script[1].commands) /\ script[1].commands[1] = c
  BY <1>2
<1>4. Has(script[1], c) /\ 1 \in 1 .. Len(script)
  BY <1>1, <1>3 DEF Has, Carries
<1>5. Everyone = 1 .. Len(plan)
  BY PlanType DEF Progress, TypeInv
<1>6. Reach(1)
  BY <1>1, <1>4, <1>5 DEF Onward, InReach, Needs
<1>7. ~Provided(plan, script, 1)
  <2>1. 1 .. 1 - 1 = {}
    OBVIOUS
  <2> QED
    BY <2>1 DEF Provided
<1> QED
  BY <1>6, <1>7 DEF Reach

\* When SAVECONFIG is sent, everything else has been dealt with.
LEMMA SavesLast ==
  ASSUME Progress, Onward, Unicore, At("phase"), Head(script).commands # << >>,
         NEW c \in Everyone, c = Head(Head(script).commands), plan[c].kind = "save"
  PROVE  /\ \A k \in 2 .. Len(script) : script[k].do = "finish"
         /\ \A d \in Everyone : fates[d] = "unsent" => d = c
         /\ Len(script) \in 2 .. Len(script)
<1>1. /\ pc = "running" /\ Len(script) \in Nat \ {0} /\ script[1].do = "phase"
      /\ Head(script) = script[1] /\ script[1] \in StageRecords
  BY HeadPhase
<1>2. PICK last \in 0 .. Len(plan) : script[1].commands = Slice(c, last) /\ c <= last
  BY <1>1, HeadPhase
<1>3. /\ attempt \in Attempts /\ Len(plan) \in Nat \ {0} /\ Everyone = 1 .. Len(plan)
  BY PlanType DEF Progress, TypeInv
<1>4. c = Len(plan) /\ c \in Nat \ {0} /\ last \in Nat
  BY <1>3, PlanForm
<1>5. \A d \in Everyone : Has(script[1], d) <=> d \in c .. last
  <2>1. Carries(script[1]) /\ Everyone \subseteq Nat
    BY <1>1, <1>3 DEF Carries
  <2> QED
    BY <1>2, <1>4, <2>1, HasStretch
<1>6. Has(script[1], c)
  BY <1>2, <1>4, <1>5
<1>7. 1 \in 1 .. Len(script) /\ \A k \in 2 .. Len(script) : k \in 1 .. Len(script) /\ 1 < k
  BY <1>1
<1>8. ASSUME NEW k \in 2 .. Len(script) PROVE script[k].do = "finish"
  <2>1. InTurn(plan, script[1], script[k])
    BY <1>7 DEF Onward, Arranged
  <2> QED
    BY <1>1, <1>3, <1>6, <2>1 DEF InTurn
<1>9. Len(script) \in 2 .. Len(script)
  <2>1. Len(script) # 1
    BY <1>1, <1>7 DEF Progress, Shape
  <2>2. Len(script) \in Nat \ {0}
    BY <1>1
  <2>3. \A n \in Nat \ {0} : n # 1 => n \in 2 .. n
    OBVIOUS
  <2> QED
    BY <2>1, <2>2, <2>3
<1>10. ASSUME NEW d \in Everyone, fates[d] = "unsent" PROVE d = c
  <2>1. PICK k \in 1 .. Len(script) : Has(script[k], d)
    BY <1>1, <1>10 DEF Progress, Pending
  <2>2. k = 1 \/ k \in 2 .. Len(script)
    BY <1>1
  <2>3. k = 1
    BY <1>8, <2>1, <2>2 DEF Has, Carries
  <2>4. d \in c .. last
    BY <1>5, <2>1, <2>3
  <2> QED
    BY <1>3, <1>4, <2>4
<1> QED
  BY <1>8, <1>9, <1>10

LEMMA SavesWhole ==
  ASSUME Progress, Onward, Unicore, At("phase"), Head(script).commands # << >>,
         NEW c \in Everyone, c = Head(Head(script).commands), plan[c].kind = "save",
         NEW d \in Everyone, plan[d].required
  PROVE  Kept(d, rx)
<1> DEFINE n == Len(script)
<1>1. /\ \A k \in 2 .. n : script[k].do = "finish"
      /\ \A e \in Everyone : fates[e] = "unsent" => e = c
      /\ n \in 2 .. n
  BY SavesLast
<1>2. /\ pc = "running" /\ n \in Nat \ {0} /\ script[1].do = "phase" /\ script \in Seq(StageRecords)
  BY HeadPhase
<1>3. Hears(link) /\ Everyone = 1 .. Len(plan)
  BY WritesHeard, PlanType DEF Progress, TypeInv
<1> HIDE DEF n
<1>4. d = c \/ fates[d] \in {"accepted", "skipped"}
  <2>1. fates[d] \in Fates
    BY DEF Progress, TypeInv
  <2>2. fates[d] # "unknown" /\ fates[d] \notin {"notSent", "refused"}
    BY <1>2 DEF Progress, Judged, Failed
  <2> QED
    BY <1>1, <2>1, <2>2 DEF Fates
<1>5. CASE d = c
  BY <1>5 DEF Kept
<1>6. CASE fates[d] \in {"accepted", "skipped"} /\ plan[d].kind = "setting"
  BY <1>6 DEF Kept, Onward, InForce
<1>7. CASE fates[d] \in {"accepted", "skipped"} /\ plan[d].kind = "signalgroup"
  <2>1. \A k \in 1 .. n : k = 1 \/ k \in 2 .. n
    BY <1>2
  <2>2. \A k \in 1 .. n : script[k].do # "check"
    BY <1>1, <1>2, <2>1
  <2>3. rx.groups = plan[d].value
    BY <1>7, <2>2 DEF Onward, InForce, n
  <2> QED
    BY <1>7, <2>3 DEF Kept
<1>8. CASE plan[d].kind = "com1"
  <2>1. n \in 1 .. n /\ script[n].do = "finish"
    BY <1>1, <1>2
  <2>2. Alone(plan, script[n]) /\ Needs(plan, script[n]) /\ WellFormed(plan, script[n])
    BY <1>2, <2>1 DEF Onward, Arranged, Needs, Progress, Shape, n
  <2>3. plan[d].value = script[n].baud
    BY <1>3, <1>8, <2>1, <2>2 DEF Alone
  <2>4. ~Provided(plan, script, n)
    <3>1. \A j \in 1 .. n - 1 : j = 1 \/ j \in 2 .. n
      BY <1>2
    <3>2. \A j \in 1 .. n - 1 : script[j].do \notin Settling
      BY <1>1, <1>2, <3>1 DEF Settling
    <3> QED
      BY <3>2 DEF Provided
  <2>5. Settled(plan, script, 1, n, link)
    BY <2>1, <2>2, <2>4 DEF Onward, InReach, Reach, n
  <2>6. AtBaud(script[n], link) /\ script[n].baud # NoBaud
    BY <2>1, <2>2, <2>5 DEF Settled, WellFormed
  <2> QED
    BY <1>3, <1>8, <2>3, <2>6 DEF AtBaud, Hears, Kept
<1>9. CASE plan[d].kind \in {"freset", "save"}
  BY <1>9 DEF Kept
<1>10. plan[d].kind \in Kinds
  BY PlanType, WorkflowAssumption DEF Progress, TypeInv
<1> QED
  BY <1>4, <1>5, <1>6, <1>7, <1>8, <1>9, <1>10 DEF Kinds

\* For every plan of the planner's form: a command is written only to a Unicore
\* receiver that is there to hear it, and SAVECONFIG only when all that the plan
\* requires is in force in it (config_apply.cpp:2393-2402, 2439-2451, 2672-2713,
\* docs/tools.md:786-787).
THEOREM WritesWait == Spec => WritesInPlace
<1>1. ASSUME Progress, Faithful, [Next]_vars PROVE CommandsAreHeard /\ SavesWholeProfile
  <2>1. ASSUME Unicore, NEW c \in Everyone, Writes(c)
        PROVE  /\ At("phase") /\ Head(script).commands # << >> /\ c = Head(Head(script).commands)
               /\ Onward
    <3>1. At("phase") /\ Head(script).commands # << >> /\ c = Head(Head(script).commands)
      BY <1>1, <2>1, WritesHead
    <3> QED
      BY <1>1, <2>1, <3>1 DEF At, Faithful
  <2>2. CommandsAreHeard
    BY <1>1, <2>1, WritesHeard DEF CommandsAreHeard
  <2>3. SavesWholeProfile
    BY <1>1, <2>1, SavesWhole DEF SavesWholeProfile
  <2> QED
    BY <2>2, <2>3
<1> QED
  BY <1>1, FaithfulHolds, PTL DEF Spec, WritesInPlace
====
