--------------------------- MODULE AutoConfig_proofs ---------------------------
(***************************************************************************)
(* Proofs about the way from a port to a plan of commands, for any ports,  *)
(* devices, baud rates and options: what is written is what the user asked *)
(* for, it is written to the receiver that answered, and it has the form   *)
(* that the workflows rely on.                                             *)
(*                                                                         *)
(* A result that says a device answered is true of the device (Honest), at *)
(* every step of the probes and whichever result is taken (HonestSoFar).   *)
(* A Unicore plan is a sequence of six parts, each of commands of one kind *)
(* but one (Layout); what a plan contains, and where, follows.             *)
(*                                                                         *)
(* What was heard of a port is not lost: the best probe so far is at least *)
(* as good as each of them (Tops), results keep that (Surveyed), and they  *)
(* are sorted by an order that is total (InOrder).                         *)
(***************************************************************************)
EXTENDS AutoConfig, FiniteSetTheorems, SequenceTheorems, WellFoundedInduction, TLAPS

-----------------------------------------------------------------------------
(* A Unicore plan                                                          *)

FixedKinds == {"mode", "nmea", "rtk", "reliability", "dgps"}

Is(command, kind) == command.kind = kind /\ command.required

\* The commands of a plan in order.
Layout(cmds, r, p) ==
  LET a == IF r.profile = "factory_reset" THEN 1 ELSE 0
      b == a + (IF p.com1 # Absent THEN 1 ELSE 0)
      c == b + 5
      d == c + (IF p.group # Absent THEN 1 ELSE 0)
      e == d + Len(p.outputs)
      f == e + (IF p.save THEN 1 ELSE 0)
  IN /\ Len(cmds) = f /\ DOMAIN cmds = 1 .. f
     /\ \A i \in 1 .. f :
          /\ i <= a => Is(cmds[i], "freset")
          /\ a < i /\ i <= b => Is(cmds[i], "com1") /\ cmds[i].value = p.com1
          /\ b < i /\ i <= c => \E kind \in FixedKinds : Is(cmds[i], kind)
          /\ c < i /\ i <= d =>
               cmds[i].kind = "signalgroup" /\ (~cmds[i].required => r.group # Absent)
          /\ d < i /\ i <= e => cmds[i].kind = "output"
          /\ e < i => Is(cmds[i], "save")

\* A sequence that is six sequences one after the other, of these lengths.
SixJoined(all, n1, n2, n3, n4, n5, n6, s1, s2, s3, s4, s5, s6) ==
  LET a == n1
      b == a + n2
      c == b + n3
      d == c + n4
      e == d + n5
      f == e + n6
  IN /\ Len(all) = f /\ DOMAIN all = 1 .. f
     /\ \A i \in 1 .. f :
          /\ i <= a => all[i] = s1[i]
          /\ a < i /\ i <= b => all[i] = s2[i - a]
          /\ b < i /\ i <= c => all[i] = s3[i - b]
          /\ c < i /\ i <= d => all[i] = s4[i - c]
          /\ d < i /\ i <= e => all[i] = s5[i - d]
          /\ e < i => all[i] = s6[i - e]

\* Where the elements of joined sequences are.
LEMMA TwoParts ==
  ASSUME NEW S
  PROVE  \A s, t \in Seq(S) :
           /\ s \o t \in Seq(S)
           /\ Len(s \o t) = Len(s) + Len(t)
           /\ \A i \in 1 .. Len(s) : (s \o t)[i] = s[i]
           /\ \A i \in 1 .. Len(t) : (s \o t)[Len(s) + i] = t[i]
<1> SUFFICES ASSUME NEW s \in Seq(S), NEW t \in Seq(S)
             PROVE  /\ s \o t \in Seq(S)
                    /\ Len(s \o t) = Len(s) + Len(t)
                    /\ \A i \in 1 .. Len(s) : (s \o t)[i] = s[i]
                    /\ \A i \in 1 .. Len(t) : (s \o t)[Len(s) + i] = t[i]
  OBVIOUS
<1> DEFINE m == Len(s)
           n == Len(t)
           both == s \o t
<1>1. /\ both \in Seq(S)
      /\ Len(both) = m + n
      /\ \A i \in 1 .. m + n : both[i] = IF i <= m THEN s[i] ELSE t[i - m]
  BY ConcatProperties
<1>2. m \in Nat /\ n \in Nat
  OBVIOUS
<1> HIDE DEF m, n, both
<1>3. \A i \in 1 .. n : m + i \in 1 .. m + n /\ ~(m + i <= m) /\ (m + i) - m = i
  BY <1>2
<1>4. \A i \in 1 .. m : i \in 1 .. m + n /\ i <= m
  BY <1>2
<1>5. \A i \in 1 .. m : both[i] = s[i]
  BY <1>1, <1>4
<1>6. \A i \in 1 .. n : both[m + i] = t[i]
  BY <1>1, <1>3
<1> QED
  BY <1>1, <1>5, <1>6 DEF m, n, both

LEMMA SixParts ==
  ASSUME NEW S, NEW n1 \in Nat, NEW n2 \in Nat, NEW n3 \in Nat,
         NEW n4 \in Nat, NEW n5 \in Nat, NEW n6 \in Nat,
         NEW s1 \in Seq(S), NEW s2 \in Seq(S), NEW s3 \in Seq(S),
         NEW s4 \in Seq(S), NEW s5 \in Seq(S), NEW s6 \in Seq(S),
         Len(s1) = n1, Len(s2) = n2, Len(s3) = n3, Len(s4) = n4, Len(s5) = n5, Len(s6) = n6
  PROVE  SixJoined(s1 \o (s2 \o s3 \o s4 \o s5 \o s6),
                   n1, n2, n3, n4, n5, n6, s1, s2, s3, s4, s5, s6)
<1> DEFINE c == n2 + n3
           d == c + n4
           e == d + n5
           f == e + n6
           Joins(s, m, t, n, u) ==
             /\ u \in Seq(S) /\ Len(u) = m + n
             /\ \A i \in 1 .. m : u[i] = s[i]
             /\ \A i \in 1 .. n : u[m + i] = t[i]
<1>0. \A s, t \in Seq(S) : Joins(s, Len(s), t, Len(t), s \o t)
  BY TwoParts
<1>1. /\ c = n2 + n3 /\ d = c + n4 /\ e = d + n5 /\ f = e + n6
      /\ c \in Nat /\ d \in Nat /\ e \in Nat /\ f \in Nat
  OBVIOUS
<1> HIDE DEF c, d, e, f
<1> DEFINE t3 == s2 \o s3
<1>2. Joins(s2, n2, s3, n3, t3) /\ Len(t3) = c
  <2> HIDE DEF Joins
  <2>1. Joins(s2, n2, s3, n3, t3)
    BY <1>0
  <2> QED
    BY <1>1, <2>1 DEF Joins
<1> HIDE DEF t3
<1> DEFINE t4 == t3 \o s4
<1>3. Joins(t3, c, s4, n4, t4) /\ Len(t4) = d
  <2>0. t3 \in Seq(S) /\ Len(t3) = c
    BY <1>2
  <2> HIDE DEF Joins
  <2>1. Joins(t3, c, s4, n4, t4)
    BY <1>0, <2>0
  <2> QED
    BY <1>1, <2>1 DEF Joins
<1> HIDE DEF t4
<1> DEFINE t5 == t4 \o s5
<1>4. Joins(t4, d, s5, n5, t5) /\ Len(t5) = e
  <2>0. t4 \in Seq(S) /\ Len(t4) = d
    BY <1>3
  <2> HIDE DEF Joins
  <2>1. Joins(t4, d, s5, n5, t5)
    BY <1>0, <2>0
  <2> QED
    BY <1>1, <2>1 DEF Joins
<1> HIDE DEF t5
<1> DEFINE t6 == t5 \o s6
<1>5. Joins(t5, e, s6, n6, t6) /\ Len(t6) = f
  <2>0. t5 \in Seq(S) /\ Len(t5) = e
    BY <1>4
  <2> HIDE DEF Joins
  <2>1. Joins(t5, e, s6, n6, t6)
    BY <1>0, <2>0
  <2> QED
    BY <1>1, <2>1 DEF Joins
<1> HIDE DEF t6
<1> DEFINE all == s1 \o t6
<1>6. Joins(s1, n1, t6, f, all)
  <2>0. t6 \in Seq(S) /\ Len(t6) = f
    BY <1>5
  <2> HIDE DEF Joins
  <2> QED
    BY <1>0, <2>0
<1> HIDE DEF all
<1>7. \A i \in 1 .. f : all[n1 + i] = t6[i]
  BY <1>6
<1>8. \A i \in 1 .. e : all[n1 + i] = t5[i]
  <2>1. \A i \in 1 .. e : i \in 1 .. f
    BY <1>1
  <2>2. \A i \in 1 .. e : t6[i] = t5[i]
    BY <1>5
  <2> QED
    BY <1>7, <2>1, <2>2
<1>9. \A i \in 1 .. d : all[n1 + i] = t4[i]
  <2>1. \A i \in 1 .. d : i \in 1 .. e
    BY <1>1
  <2>2. \A i \in 1 .. d : t5[i] = t4[i]
    BY <1>4
  <2> QED
    BY <1>8, <2>1, <2>2
<1>10. \A i \in 1 .. c : all[n1 + i] = t3[i]
  <2>1. \A i \in 1 .. c : i \in 1 .. d
    BY <1>1
  <2>2. \A i \in 1 .. c : t4[i] = t3[i]
    BY <1>3
  <2> QED
    BY <1>9, <2>1, <2>2
<1>11. ASSUME NEW i \in Nat, n1 < i, i <= n1 + n2 PROVE all[i] = s2[i - n1]
  <2> DEFINE j == i - n1
  <2>1. j \in 1 .. n2 /\ j \in 1 .. c /\ n1 + j = i
    BY <1>1, <1>11
  <2> HIDE DEF j
  <2>2. t3[j] = s2[j] /\ all[n1 + j] = t3[j]
    BY <1>2, <1>10, <2>1
  <2>3. all[i] = s2[j]
    BY <2>1, <2>2
  <2> QED
    BY <2>3 DEF j
<1>12. ASSUME NEW i \in Nat, n1 + n2 < i, i <= n1 + n2 + n3 PROVE all[i] = s3[i - (n1 + n2)]
  <2> DEFINE j == i - n1
             l == i - (n1 + n2)
  <2>1. j \in 1 .. c /\ n1 + j = i /\ l \in 1 .. n3 /\ n2 + l = j
    BY <1>1, <1>12
  <2> HIDE DEF j, l
  <2>2. t3[n2 + l] = s3[l]
    BY <1>2, <2>1
  <2>3. all[n1 + j] = t3[j]
    BY <1>10, <2>1
  <2>4. all[i] = s3[l]
    BY <2>1, <2>2, <2>3
  <2> QED
    BY <2>4 DEF l
<1>13. ASSUME NEW i \in Nat, n1 + n2 + n3 < i, i <= n1 + n2 + n3 + n4 PROVE all[i] = s4[i - (n1 + n2 + n3)]
  <2> DEFINE j == i - n1
             l == i - (n1 + n2 + n3)
  <2>1. j \in 1 .. d /\ n1 + j = i /\ l \in 1 .. n4 /\ c + l = j
    BY <1>1, <1>13
  <2> HIDE DEF j, l
  <2>2. t4[c + l] = s4[l]
    BY <1>3, <2>1
  <2>3. all[n1 + j] = t4[j]
    BY <1>9, <2>1
  <2>4. all[i] = s4[l]
    BY <2>1, <2>2, <2>3
  <2> QED
    BY <2>4 DEF l
<1>14. ASSUME NEW i \in Nat, n1 + n2 + n3 + n4 < i, i <= n1 + n2 + n3 + n4 + n5 PROVE all[i] = s5[i - (n1 + n2 + n3 + n4)]
  <2> DEFINE j == i - n1
             l == i - (n1 + n2 + n3 + n4)
  <2>1. j \in 1 .. e /\ n1 + j = i /\ l \in 1 .. n5 /\ d + l = j
    BY <1>1, <1>14
  <2> HIDE DEF j, l
  <2>2. t5[d + l] = s5[l]
    BY <1>4, <2>1
  <2>3. all[n1 + j] = t5[j]
    BY <1>8, <2>1
  <2>4. all[i] = s5[l]
    BY <2>1, <2>2, <2>3
  <2> QED
    BY <2>4 DEF l
<1>15. ASSUME NEW i \in Nat, n1 + n2 + n3 + n4 + n5 < i, i <= n1 + n2 + n3 + n4 + n5 + n6 PROVE all[i] = s6[i - (n1 + n2 + n3 + n4 + n5)]
  <2> DEFINE j == i - n1
             l == i - (n1 + n2 + n3 + n4 + n5)
  <2>1. j \in 1 .. f /\ n1 + j = i /\ l \in 1 .. n6 /\ e + l = j
    BY <1>1, <1>15
  <2> HIDE DEF j, l
  <2>2. t6[e + l] = s6[l]
    BY <1>5, <2>1
  <2>3. all[n1 + j] = t6[j]
    BY <1>7, <2>1
  <2>4. all[i] = s6[l]
    BY <2>1, <2>2, <2>3
  <2> QED
    BY <2>4 DEF l
<1>16. all \in Seq(S) /\ Len(all) = n1 + f /\ \A i \in 1 .. n1 : all[i] = s1[i]
  BY <1>6
<1>17. Len(all) = n1 + n2 + n3 + n4 + n5 + n6
  BY <1>1, <1>16
<1>18. DOMAIN all = 1 .. Len(all)
  BY <1>16, LenProperties
<1> DEFINE g == n1 + n2 + n3 + n4 + n5
<1>19. ASSUME NEW i \in 1 .. g + n6
       PROVE  /\ i \in Nat
              /\ i <= n1 => i \in 1 .. n1
              /\ g < i => i <= g + n6
  BY <1>1
<1>20. SixJoined(all, n1, n2, n3, n4, n5, n6, s1, s2, s3, s4, s5, s6)
  <2>1. ASSUME NEW i \in 1 .. g + n6
        PROVE  /\ i <= n1 => all[i] = s1[i]
               /\ n1 < i /\ i <= n1 + n2 => all[i] = s2[i - n1]
               /\ n1 + n2 < i /\ i <= n1 + n2 + n3 => all[i] = s3[i - (n1 + n2)]
               /\ n1 + n2 + n3 < i /\ i <= n1 + n2 + n3 + n4 => all[i] = s4[i - (n1 + n2 + n3)]
               /\ n1 + n2 + n3 + n4 < i /\ i <= g => all[i] = s5[i - (n1 + n2 + n3 + n4)]
               /\ g < i => all[i] = s6[i - g]
    BY <1>11, <1>12, <1>13, <1>14, <1>15, <1>16, <1>19
  <2> QED
    BY <1>17, <1>18, <2>1 DEF SixJoined
<1>21. all = s1 \o (s2 \o s3 \o s4 \o s5 \o s6)
  BY DEF all, t3, t4, t5, t6
<1> QED
  BY <1>20, <1>21, Zenon

\* A sequence of a number of elements, each with its properties.
LEMMA ShortSeq ==
  ASSUME NEW S, NEW k \in Nat, NEW s, s = [i \in 1 .. k |-> s[i]],
         {s[i] : i \in DOMAIN s} \subseteq S
  PROVE  s \in Seq(S) /\ Len(s) = k
<1>1. s \in [1 .. k -> S]
  OBVIOUS
<1> QED
  BY <1>1

\* A sequence of a number of times the same command.
Repeats(s, k, command) == s = [i \in 1 .. k |-> s[i]] /\ \A i \in 1 .. k : s[i] = command

\* An optional command.
LEMMA OptionalPart ==
  ASSUME NEW k \in {0, 1}, NEW command, NEW s,
         k = 1 => s = <<command>>, k = 0 => s = <<>>
  PROVE  Repeats(s, k, command)
<1>1. CASE k = 1
  <2>1. s = [i \in 1 .. 1 |-> s[i]]
    BY <1>1
  <2>2. ASSUME NEW i \in 1 .. 1 PROVE s[i] = command
    BY <1>1
  <2> QED
    BY <1>1, <2>1, <2>2 DEF Repeats
<1>2. CASE k = 0
  BY <1>2 DEF Repeats
<1> QED
  BY <1>1, <1>2

LEMMA UnicoreLayout ==
  ASSUME NEW O, NEW r, NEW p, p.outputs \in Seq(O)
  PROVE  Layout(UnicorePlanCommands(r, p), r, p)
<1> DEFINE reset == TextCommand("freset", "", TRUE)
           baud == TextCommand("com1", p.com1, TRUE)
           group == TextCommand("signalgroup", p.group, r.group = Absent)
           save == TextCommand("save", "", TRUE)
           s1 == IF r.profile = "factory_reset" THEN <<reset>> ELSE <<>>
           s2 == IF p.com1 = Absent THEN <<>> ELSE <<baud>>
           s3 == << TextCommand("mode", p.mode, TRUE), TextCommand("nmea", "V411", TRUE),
                    TextCommand("rtk", p.rtk, TRUE), TextCommand("reliability", <<3, 1>>, TRUE),
                    TextCommand("dgps", p.dgps, TRUE) >>
           s4 == IF p.group = Absent THEN <<>> ELSE <<group>>
           s5 == [i \in DOMAIN p.outputs |-> TextCommand("output", p.outputs[i], FALSE)]
           s6 == IF p.save THEN <<save>> ELSE <<>>
           n1 == IF r.profile = "factory_reset" THEN 1 ELSE 0
           n2 == IF p.com1 # Absent THEN 1 ELSE 0
           n4 == IF p.group # Absent THEN 1 ELSE 0
           n5 == Len(p.outputs)
           n6 == IF p.save THEN 1 ELSE 0
           Elements(s) == {s[i] : i \in DOMAIN s}
           S == UNION {Elements(s) : s \in {s1, s2, s3, s4, s5, s6}}
<1>1. UnicorePlanCommands(r, p) = s1 \o (s2 \o s3 \o s4 \o s5 \o s6)
  BY DEF UnicorePlanCommands, UnicoreCommands, Given
<1>2. n5 \in Nat /\ DOMAIN p.outputs = 1 .. n5
  OBVIOUS
<1>3. /\ n1 \in {0, 1} /\ n2 \in {0, 1} /\ n4 \in {0, 1} /\ n6 \in {0, 1}
      /\ (n1 = 1 => s1 = <<reset>>) /\ (n1 = 0 => s1 = <<>>)
      /\ (n2 = 1 => s2 = <<baud>>) /\ (n2 = 0 => s2 = <<>>)
      /\ (n4 = 1 => s4 = <<group>>) /\ (n4 = 0 => s4 = <<>>)
      /\ (n6 = 1 => s6 = <<save>>) /\ (n6 = 0 => s6 = <<>>)
  <2> HIDE DEF reset, baud, group, save
  <2> QED
    OBVIOUS
<1>4. /\ s3 = [i \in 1 .. 5 |-> s3[i]]
      /\ \A i \in 1 .. 5 : \E kind \in FixedKinds : Is(s3[i], kind)
  BY DEF TextCommand, FixedKinds, Is
<1>5. /\ s5 = [i \in 1 .. n5 |-> s5[i]]
      /\ \A i \in 1 .. n5 : s5[i].kind = "output"
  BY <1>2 DEF TextCommand
<1>6. /\ Is(reset, "freset") /\ Is(baud, "com1") /\ baud.value = p.com1 /\ Is(save, "save")
      /\ group.kind = "signalgroup" /\ (~group.required => r.group # Absent)
  BY DEF TextCommand, Is
<1> HIDE DEF reset, baud, group, save, s1, s2, s3, s4, s5, s6, n1, n2, n4, n5, n6
<1>7. s1 = [i \in 1 .. n1 |-> s1[i]] /\ \A i \in 1 .. n1 : s1[i] = reset
  <2>1. Repeats(s1, n1, reset)
    BY <1>3, OptionalPart
  <2> QED
    BY <2>1 DEF Repeats
<1>8. s2 = [i \in 1 .. n2 |-> s2[i]] /\ \A i \in 1 .. n2 : s2[i] = baud
  <2>1. Repeats(s2, n2, baud)
    BY <1>3, OptionalPart
  <2> QED
    BY <2>1 DEF Repeats
<1>9. s4 = [i \in 1 .. n4 |-> s4[i]] /\ \A i \in 1 .. n4 : s4[i] = group
  <2>1. Repeats(s4, n4, group)
    BY <1>3, OptionalPart
  <2> QED
    BY <2>1 DEF Repeats
<1>10. s6 = [i \in 1 .. n6 |-> s6[i]] /\ \A i \in 1 .. n6 : s6[i] = save
  <2>1. Repeats(s6, n6, save)
    BY <1>3, OptionalPart
  <2> QED
    BY <2>1 DEF Repeats
<1>11. /\ Elements(s1) \subseteq S /\ Elements(s2) \subseteq S /\ Elements(s3) \subseteq S
       /\ Elements(s4) \subseteq S /\ Elements(s5) \subseteq S /\ Elements(s6) \subseteq S
  <2> HIDE DEF Elements
  <2> QED
    OBVIOUS
<1> HIDE DEF S
<1>12. n1 \in Nat /\ n2 \in Nat /\ 5 \in Nat /\ n4 \in Nat /\ n5 \in Nat /\ n6 \in Nat
  BY <1>2, <1>3
<1>13. s1 \in Seq(S) /\ Len(s1) = n1
  BY <1>7, <1>11, <1>12, ShortSeq
<1>14. s2 \in Seq(S) /\ Len(s2) = n2
  BY <1>8, <1>11, <1>12, ShortSeq
<1>15. s3 \in Seq(S) /\ Len(s3) = 5
  BY <1>4, <1>11, <1>12, ShortSeq
<1>16. s4 \in Seq(S) /\ Len(s4) = n4
  BY <1>9, <1>11, <1>12, ShortSeq
<1>17. s5 \in Seq(S) /\ Len(s5) = n5
  BY <1>5, <1>11, <1>12, ShortSeq
<1>18. s6 \in Seq(S) /\ Len(s6) = n6
  BY <1>10, <1>11, <1>12, ShortSeq
<1> DEFINE cmds == s1 \o (s2 \o s3 \o s4 \o s5 \o s6)
<1>19. SixJoined(cmds, n1, n2, 5, n4, n5, n6, s1, s2, s3, s4, s5, s6)
  BY <1>12, <1>13, <1>14, <1>15, <1>16, <1>17, <1>18, SixParts, Zenon
<1> HIDE DEF cmds
<1> DEFINE a == n1
           b == a + n2
           c == b + 5
           d == c + n4
           e == d + n5
           f == e + n6
<1>20. /\ Len(cmds) = f /\ DOMAIN cmds = 1 .. f
       /\ \A i \in 1 .. f :
            /\ i <= a => cmds[i] = s1[i]
            /\ a < i /\ i <= b => cmds[i] = s2[i - a]
            /\ b < i /\ i <= c => cmds[i] = s3[i - b]
            /\ c < i /\ i <= d => cmds[i] = s4[i - c]
            /\ d < i /\ i <= e => cmds[i] = s5[i - d]
            /\ e < i => cmds[i] = s6[i - e]
  BY <1>19 DEF SixJoined
<1>21. ASSUME NEW i \in 1 .. f
       PROVE  /\ i <= a => i \in 1 .. n1
              /\ a < i /\ i <= b => i - a \in 1 .. n2
              /\ b < i /\ i <= c => i - b \in 1 .. 5
              /\ c < i /\ i <= d => i - c \in 1 .. n4
              /\ d < i /\ i <= e => i - d \in 1 .. n5
              /\ e < i => i - e \in 1 .. n6
  BY <1>12
<1> HIDE DEF a, b, c, d, e, f
<1>22. ASSUME NEW i \in 1 .. f
       PROVE  /\ i <= a => Is(cmds[i], "freset")
              /\ a < i /\ i <= b => Is(cmds[i], "com1") /\ cmds[i].value = p.com1
              /\ b < i /\ i <= c => \E kind \in FixedKinds : Is(cmds[i], kind)
              /\ c < i /\ i <= d =>
                   cmds[i].kind = "signalgroup" /\ (~cmds[i].required => r.group # Absent)
              /\ d < i /\ i <= e => cmds[i].kind = "output"
              /\ e < i => Is(cmds[i], "save")
  <2>1. i <= a => Is(cmds[i], "freset")
    BY <1>6, <1>7, <1>20, <1>21
  <2>2. a < i /\ i <= b => Is(cmds[i], "com1") /\ cmds[i].value = p.com1
    BY <1>6, <1>8, <1>20, <1>21
  <2>3. b < i /\ i <= c => \E kind \in FixedKinds : Is(cmds[i], kind)
    BY <1>4, <1>20, <1>21
  <2>4. c < i /\ i <= d => cmds[i].kind = "signalgroup" /\ (~cmds[i].required => r.group # Absent)
    <3> SUFFICES ASSUME c < i, i <= d
                 PROVE cmds[i].kind = "signalgroup" /\ (~cmds[i].required => r.group # Absent)
      OBVIOUS
    <3>1. i - c \in 1 .. n4 /\ cmds[i] = s4[i - c]
      BY <1>20, <1>21
    <3>2. cmds[i] = group
      BY <1>9, <3>1
    <3> QED
      BY <1>6, <3>2
  <2>5. d < i /\ i <= e => cmds[i].kind = "output"
    <3> SUFFICES ASSUME d < i, i <= e PROVE cmds[i].kind = "output"
      OBVIOUS
    <3>1. i - d \in 1 .. n5 /\ cmds[i] = s5[i - d]
      BY <1>20, <1>21
    <3> QED
      BY <1>5, <3>1
  <2>6. e < i => Is(cmds[i], "save")
    BY <1>6, <1>10, <1>20, <1>21
  <2> QED
    BY <2>1, <2>2, <2>3, <2>4, <2>5, <2>6
<1>23. Layout(cmds, r, p)
  BY <1>20, <1>22 DEF Layout, a, b, c, d, e, f, n1, n2, n4, n5, n6
<1> QED
  BY <1>1, <1>23 DEF cmds

\* What a profile puts out is a sequence.
LEMMA OutputsAreSeq ==
  ASSUME NEW r
  PROVE  \E O : OutputMessages(r) \in Seq(O)
<1> DEFINE Log(message, period) == [message |-> message, period |-> period]
           debug == IF r.profile = "debug" THEN 200 ELSE 1000
           fast == IF r.rate = Absent THEN 200
                   ELSE 1000000 \div NormalizeUnicoreOutputRateHz(r.rate)
           l1 == Log("GPGGA", 1000)
           l2 == Log("GPGSV", 1000)
           l3 == Log("GPGST", 1000)
           l4 == Log("PVTSLNA", debug)
           l5 == Log("BESTNAVA", fast)
           l6 == Log("RTKSTATUSA", 1000)
           l7 == Log("RTCMSTATUSA", Absent)
           l8 == Log("SATSINFOA", 1000)
           O == {l1, l2, l3, l4, l5, l6, l7, l8}
           s == <<l1>>
           t == IF r.signal = "minimal" THEN <<>> ELSE <<l2, l3, l4>>
           u == <<l5, l6, l7, l8>>
<1>1. OutputMessages(r) = s \o t \o u
  BY DEF OutputMessages
<1> HIDE DEF l1, l2, l3, l4, l5, l6, l7, l8
<1>2. s \in Seq(O) /\ t \in Seq(O) /\ u \in Seq(O)
  <2>1. /\ l1 \in O /\ l2 \in O /\ l3 \in O /\ l4 \in O
        /\ l5 \in O /\ l6 \in O /\ l7 \in O /\ l8 \in O
    OBVIOUS
  <2> HIDE DEF O
  <2>2. s \in Seq(O)
    BY <2>1
  <2>3. t \in Seq(O)
    BY <2>1
  <2>4. u \in Seq(O)
    BY <2>1
  <2> QED
    BY <2>2, <2>3, <2>4
<1> HIDE DEF s, t, u, O
<1>3. s \o t \in Seq(O)
  BY <1>2, TwoParts
<1>4. s \o t \o u \in Seq(O)
  BY <1>2, <1>3, TwoParts
<1> QED
  BY <1>1, <1>4

-----------------------------------------------------------------------------
(* A u-blox plan                                                           *)

UbloxKinds == {"baud", "rate", "message", "constellation"}

LEMMA UbloxLayout ==
  ASSUME NEW r, NEW outputs, Len(outputs) \in Nat
  PROVE  \A i \in DOMAIN UbloxCommands(r, outputs) : UbloxCommands(r, outputs)[i].kind \in UbloxKinds
<1> DEFINE Frame(kind, value) ==
             [kind |-> kind, value |-> value, required |-> TRUE,
              safety |-> IF r.mode = "persistent" THEN "persistent" ELSE "runtime"]
           Baud(uart) ==
             IF r.baud # Absent /\ uart \in Range(outputs) THEN <<Frame("baud", <<uart, r.baud>>)>>
                                                           ELSE <<>>
           messages == UbloxMessages(r)
           n == Len(outputs)
           k == Len(messages) * n
           s1 == Baud("uart1")
           s2 == Baud("uart2")
           s3 == <<Frame("rate", Override(r.rate, IF r.profile = "debug" THEN 5000 ELSE 10000))>>
           s4 == [i \in 1 .. k |->
                   Frame("message", <<messages[(i - 1) \div n + 1], outputs[((i - 1) % n) + 1]>>)]
           s5 == [i \in 1 .. 4 |-> Frame("constellation", i)]
           Elements(s) == {s[i] : i \in DOMAIN s}
           S == {x \in UNION {Elements(s) : s \in {s1, s2, s3, s4, s5}} : x.kind \in UbloxKinds}
<1>1. UbloxCommands(r, outputs) = s1 \o s2 \o s3 \o s4 \o s5
  BY DEF UbloxCommands
<1>2. k \in Nat
  <2>1. Len(messages) = 9 \/ Len(messages) = 4
    BY DEF UbloxMessages
  <2> HIDE DEF messages, n
  <2> QED
    BY <2>1 DEF n
<1>3. \A i \in DOMAIN s1 : s1[i].kind \in UbloxKinds
  BY DEF UbloxKinds
<1>4. \A i \in DOMAIN s2 : s2[i].kind \in UbloxKinds
  BY DEF UbloxKinds
<1>5. \A i \in DOMAIN s3 : s3[i].kind \in UbloxKinds
  BY DEF UbloxKinds
<1>6. \A i \in DOMAIN s4 : s4[i].kind \in UbloxKinds
  BY DEF UbloxKinds
<1>7. \A i \in DOMAIN s5 : s5[i].kind \in UbloxKinds
  BY DEF UbloxKinds
<1>8. /\ (s1 = [i \in 1 .. 1 |-> s1[i]] \/ s1 = [i \in 1 .. 0 |-> s1[i]])
      /\ (s2 = [i \in 1 .. 1 |-> s2[i]] \/ s2 = [i \in 1 .. 0 |-> s2[i]])
      /\ s3 = [i \in 1 .. 1 |-> s3[i]]
      /\ s4 = [i \in 1 .. k |-> s4[i]]
      /\ s5 = [i \in 1 .. 4 |-> s5[i]]
  <2> HIDE DEF Frame, k
  <2> QED
    OBVIOUS
<1> HIDE DEF s1, s2, s3, s4, s5, k, messages, n
<1>9. /\ Elements(s1) \subseteq S /\ Elements(s2) \subseteq S /\ Elements(s3) \subseteq S
      /\ Elements(s4) \subseteq S /\ Elements(s5) \subseteq S
  BY <1>3, <1>4, <1>5, <1>6, <1>7
<1>10. \A x \in S : x.kind \in UbloxKinds
  OBVIOUS
<1> HIDE DEF S
<1>11. s1 \in Seq(S)
  BY <1>8, <1>9, ShortSeq
<1>12. s2 \in Seq(S)
  BY <1>8, <1>9, ShortSeq
<1>13. s3 \in Seq(S) /\ s4 \in Seq(S) /\ s5 \in Seq(S)
  BY <1>2, <1>8, <1>9, ShortSeq
<1>14. s1 \o s2 \in Seq(S)
  BY <1>11, <1>12, TwoParts
<1>15. s1 \o s2 \o s3 \in Seq(S)
  BY <1>13, <1>14, TwoParts
<1>16. s1 \o s2 \o s3 \o s4 \in Seq(S)
  BY <1>13, <1>15, TwoParts
<1> DEFINE all == s1 \o s2 \o s3 \o s4 \o s5
<1>17. all \in Seq(S)
  BY <1>13, <1>16, TwoParts
<1> HIDE DEF all
<1>18. \A i \in DOMAIN all : all[i] \in S
  BY <1>17
<1> QED
  BY <1>1, <1>10, <1>18 DEF all

-----------------------------------------------------------------------------
(* The plans                                                               *)

\* A plan with commands is a Unicore's or a u-blox's, of what was found.
LEMMA PlanOf ==
  ASSUME NEW r, NEW f, BuildReceiverAutoConfigPlan(r, f).commands # <<>>
  PROVE  LET q == BuildReceiverAutoConfigPlan(r, f)
         IN /\ ~Contradicted(r, f) /\ q.status = "ok"
            /\ \/ /\ q.vendor = "unicore" /\ EffectiveFamily(r, f) = "unicore"
                  /\ r.model \in KnownModels
                  /\ q.commands = UnicorePlanCommands(r, UnicoreProfile(r, f)) /\ q.layers = {}
               \/ /\ q.vendor = "ublox" /\ EffectiveFamily(r, f) = "ublox"
                  /\ r.profile # "factory_reset"
                  /\ q.commands = UbloxCommands(r, UbloxPorts(r, f)) /\ q.layers = UbloxLayers(r)
<1> DEFINE q == BuildReceiverAutoConfigPlan(r, f)
<1>1. \A status : Refused(status).commands = <<>>
  BY DEF Refused
<1>2. \A vendor, commands, layers :
        /\ Accepted(r, vendor, commands, layers).status = "ok"
        /\ Accepted(r, vendor, commands, layers).commands = commands
        /\ Accepted(r, vendor, commands, layers).vendor = vendor
        /\ Accepted(r, vendor, commands, layers).layers = layers
  BY DEF Accepted
<1>3. \A vendor : /\ MakeNoChangePlan(r, vendor).commands = <<>>
                   /\ [MakeNoChangePlan(r, vendor) EXCEPT !.ready = FALSE].commands = <<>>
  BY DEF MakeNoChangePlan, Refused, Accepted
<1>4. ~Contradicted(r, f)
  BY <1>1 DEF BuildReceiverAutoConfigPlan
<1>5. CASE EffectiveFamily(r, f) = "unicore"
  <2>1. q = BuildUnicorePlan(r, f)
    BY <1>4, <1>5 DEF BuildReceiverAutoConfigPlan
  <2>2. /\ r.model \in KnownModels
        /\ q = Accepted(r, "unicore", UnicorePlanCommands(r, UnicoreProfile(r, f)), {})
    BY <1>1, <1>3, <2>1 DEF BuildUnicorePlan
  <2> QED
    BY <1>2, <1>4, <1>5, <2>2
<1>6. CASE EffectiveFamily(r, f) = "ublox"
  <2>1. q = BuildUbloxPlan(r, f)
    BY <1>4, <1>6 DEF BuildReceiverAutoConfigPlan
  <2>2. /\ r.profile # "factory_reset"
        /\ q = Accepted(r, "ublox", UbloxCommands(r, UbloxPorts(r, f)), UbloxLayers(r))
    BY <1>1, <1>3, <2>1 DEF BuildUbloxPlan
  <2> QED
    BY <1>2, <1>4, <1>6, <2>2
<1>7. CASE EffectiveFamily(r, f) \notin {"unicore", "ublox"}
  BY <1>1, <1>3, <1>4, <1>7 DEF BuildReceiverAutoConfigPlan, BuildNmeaPlan
<1> QED
  BY <1>5, <1>6, <1>7

\* What the profile holds, of what the plan's form depends on.
LEMMA ProfileOf ==
  ASSUME NEW r, NEW f
  PROVE  LET p == UnicoreProfile(r, f)
         IN /\ \E O : p.outputs \in Seq(O)
            /\ p.com1 # Absent <=>
                 IF r.profile = "factory_reset" THEN Override(r.baud, 921600) # Absent
                 ELSE ShouldEmitUnicoreRuntimeCom1BaudCommand(r, f)
            /\ r.profile # "factory_reset" /\ p.com1 # Absent => p.com1 = r.baud
            /\ p.group # Absent => r.group # Absent \/ AutomaticSignalGroup(r)
            /\ p.save = (r.mode = "persistent")
<1> DEFINE p == UnicoreProfile(r, f)
<1>1. p.outputs = OutputMessages(r)
  BY DEF UnicoreProfile
<1>2. p.com1 = IF r.profile = "factory_reset" THEN Override(r.baud, 921600)
               ELSE IF ShouldEmitUnicoreRuntimeCom1BaudCommand(r, f) THEN r.baud
               ELSE Absent
  BY DEF UnicoreProfile
<1>3. p.group = Override(r.group,
                  IF AutomaticSignalGroup(r) THEN PortableRoverSignalGroup(r.model) ELSE Absent)
  BY DEF UnicoreProfile
<1>4. p.save = (r.mode = "persistent")
  BY DEF UnicoreProfile
<1> HIDE DEF p
<1>5. ShouldEmitUnicoreRuntimeCom1BaudCommand(r, f) => r.baud # Absent
  BY DEF ShouldEmitUnicoreRuntimeCom1BaudCommand
<1>6. p.group # Absent => r.group # Absent \/ AutomaticSignalGroup(r)
  BY <1>3 DEF Override
<1> QED
  BY <1>1, <1>2, <1>4, <1>5, <1>6, OutputsAreSeq DEF p

\* Where the commands of a kind are.
LEMMA PlacesOf ==
  ASSUME NEW cmds, NEW r, NEW p, Len(p.outputs) \in Nat, Layout(cmds, r, p)
  PROVE  LET Of(kind) == {i \in DOMAIN cmds : cmds[i].kind = kind}
         IN /\ Of("freset") = IF r.profile = "factory_reset" THEN {1} ELSE {}
            /\ Of("com1") = IF p.com1 = Absent THEN {}
                            ELSE IF r.profile = "factory_reset" THEN {2} ELSE {1}
            /\ \A i \in Of("com1") : cmds[i].value = p.com1
            /\ Of("signalgroup") # {} => p.group # Absent
            /\ \A i, j \in Of("signalgroup") : i = j
            /\ Of("save") = IF p.save THEN {Len(cmds)} ELSE {}
            /\ \A i \in DOMAIN cmds :
                 ~cmds[i].required =>
                   i \in Of("output") \/ (i \in Of("signalgroup") /\ r.group # Absent)
<1> DEFINE Of(kind) == {i \in DOMAIN cmds : cmds[i].kind = kind}
           n1 == IF r.profile = "factory_reset" THEN 1 ELSE 0
           n2 == IF p.com1 # Absent THEN 1 ELSE 0
           n4 == IF p.group # Absent THEN 1 ELSE 0
           n5 == Len(p.outputs)
           n6 == IF p.save THEN 1 ELSE 0
           a == n1
           b == a + n2
           c == b + 5
           d == c + n4
           e == d + n5
           f == e + n6
<1>1. /\ Len(cmds) = f /\ DOMAIN cmds = 1 .. f
      /\ \A i \in 1 .. f :
          /\ i <= a => Is(cmds[i], "freset")
          /\ a < i /\ i <= b => Is(cmds[i], "com1") /\ cmds[i].value = p.com1
          /\ b < i /\ i <= c => \E kind \in FixedKinds : Is(cmds[i], kind)
          /\ c < i /\ i <= d =>
               cmds[i].kind = "signalgroup" /\ (~cmds[i].required => r.group # Absent)
          /\ d < i /\ i <= e => cmds[i].kind = "output"
          /\ e < i => Is(cmds[i], "save")
  BY DEF Layout
<1>2. /\ n1 \in {0, 1} /\ (n1 = 1 <=> r.profile = "factory_reset")
      /\ n2 \in {0, 1} /\ (n2 = 1 <=> p.com1 # Absent)
      /\ n4 \in {0, 1} /\ (n4 = 1 <=> p.group # Absent)
      /\ n6 \in {0, 1} /\ (n6 = 1 <=> p.save)
      /\ n5 \in Nat
  OBVIOUS
<1> HIDE DEF n1, n2, n4, n5, n6
<1>3. /\ a \in 0 .. 1 /\ b \in a .. a + 1 /\ c = b + 5 /\ d \in c .. c + 1 /\ e \in Nat /\ e >= d
      /\ f \in e .. e + 1
      /\ (a = 1 <=> r.profile = "factory_reset") /\ (b = a + 1 <=> p.com1 # Absent)
      /\ (d = c + 1 <=> p.group # Absent) /\ (f = e + 1 <=> p.save)
  BY <1>2
<1> HIDE DEF a, b, c, d, e, f
<1>4. ASSUME NEW i \in 1 .. f
      PROVE  /\ cmds[i].kind = "freset" <=> i <= a
             /\ cmds[i].kind = "com1" <=> a < i /\ i <= b
             /\ cmds[i].kind = "signalgroup" <=> c < i /\ i <= d
             /\ cmds[i].kind = "output" <=> d < i /\ i <= e
             /\ cmds[i].kind = "save" <=> e < i
             /\ ~cmds[i].required => c < i /\ i <= e
  <2>1. i <= a \/ (a < i /\ i <= b) \/ (b < i /\ i <= c) \/ (c < i /\ i <= d) \/ (d < i /\ i <= e) \/ e < i
    BY <1>3
  <2> QED
    BY <1>1, <1>3, <2>1 DEF Is, FixedKinds
<1>5. Of("freset") = IF r.profile = "factory_reset" THEN {1} ELSE {}
  BY <1>1, <1>3, <1>4
<1>6. Of("com1") = IF p.com1 = Absent THEN {} ELSE IF r.profile = "factory_reset" THEN {2} ELSE {1}
  BY <1>1, <1>3, <1>4
<1>7. \A i \in Of("com1") : cmds[i].value = p.com1
  BY <1>1, <1>4
<1>8. /\ Of("signalgroup") # {} => p.group # Absent
      /\ \A i, j \in Of("signalgroup") : i = j
  BY <1>1, <1>3, <1>4
<1>9. Of("save") = IF p.save THEN {Len(cmds)} ELSE {}
  BY <1>1, <1>3, <1>4
<1>10. \A i \in DOMAIN cmds :
        ~cmds[i].required => i \in Of("output") \/ (i \in Of("signalgroup") /\ r.group # Absent)
  BY <1>1, <1>3, <1>4
<1> QED
  BY <1>5, <1>6, <1>7, <1>8, <1>9, <1>10

-----------------------------------------------------------------------------
(* What discovery knows                                                    *)

ResultFields ==
  {"name", "baud", "family", "confidence", "score", "vendor", "bytes", "model", "verified", "reason"}

\* A result, and what it says of a device that answered is true of it.
Honest(w, x) ==
  /\ DOMAIN x = ResultFields
  /\ x.verified =>
       /\ x.family = "unicore" /\ x.model # NoModel
       /\ x.model = w[x.name.device].model /\ x.baud \in w[x.name.device].bauds

Probing == asks \in {"open", "read", "stop"}

HonestSoFar ==
  /\ Probing => heard \in Seq(Sends) /\ Honest(world, best)
  /\ asks \in {"read", "stop"} => Honest(world, probe)
  /\ results \in Seq({results[i] : i \in DOMAIN results})
  /\ \A i \in DOMAIN results : Honest(world, results[i])
  /\ asks = "list" => found = <<>>
  /\ asks \in {"taken", "planned"} => found = <<>> \/ Honest(world, found)
  /\ asks = "planned" => plan = BuildReceiverAutoConfigPlan(request, found)

LEMMA NothingKnown ==
  ASSUME NEW w, NEW n, NEW baud, NEW reason
  PROVE  /\ Honest(w, Base(n)) /\ Honest(w, [Base(n) EXCEPT !.baud = baud])
         /\ Honest(w, [Base(n) EXCEPT !.baud = baud, !.reason = reason])
<1>1. Honest(w, Base(n))
  BY DEF Honest, Base, ResultFields
<1>2. Honest(w, [Base(n) EXCEPT !.baud = baud])
  BY DEF Honest, Base, ResultFields
<1>3. Honest(w, [Base(n) EXCEPT !.baud = baud, !.reason = reason])
  BY DEF Honest, Base, ResultFields
<1> QED
  BY <1>1, <1>2, <1>3

LEMMA StaysHonest ==
  ASSUME NEW w, NEW x, Honest(w, x), NEW reason
  PROVE  /\ Honest(w, [x EXCEPT !.reason = reason])
         /\ x.family = "unknown" => Honest(w, [x EXCEPT !.baud = 0])
<1>1. Honest(w, [x EXCEPT !.reason = reason])
  BY DEF Honest, ResultFields
<1>2. x.family = "unknown" => Honest(w, [x EXCEPT !.baud = 0])
  BY DEF Honest, ResultFields
<1> QED
  BY <1>1, <1>2

LEMMA AnalyzeHonest ==
  ASSUME NEW n, NEW baud
  PROVE  /\ Honest(world, Analyze(n, baud))
         /\ Analyze(n, baud).name = n /\ Analyze(n, baud).baud = baud
  BY DEF Honest, Analyze, Base, ResultFields

LEMMA AnsweredHonest ==
  ASSUME NEW w, NEW x, Honest(w, x), NEW model, model # NoModel,
         model = w[x.name.device].model, x.baud \in w[x.name.device].bauds
  PROVE  Honest(w, Answered(x, model))
  BY DEF Honest, Answered, ResultFields

\* The end of a probe keeps what is known.
LEMMA ProbeEndsHonest ==
  ASSUME HonestSoFar, Probing, NEW r, Honest(world, r), ProbeEnds(r),
         UNCHANGED <<request, found, plan>>
  PROVE  HonestSoFar'
<1> DEFINE now == IF IsBetterProbeResult(r, best) THEN r ELSE best
           final == rate = Len(bauds) \/ (now.confidence = High /\ now.score >= Threshold)
           result == IF now.family = "unknown" THEN [now EXCEPT !.baud = 0] ELSE now
<1>1. Honest(world, now)
  BY DEF HonestSoFar
<1>2. Honest(world, result)
  BY <1>1, StaysHonest
<1>3. /\ world' = world /\ request' = request /\ found' = found /\ plan' = plan
      /\ IF final
         THEN results' = Append(results, result) /\ AtPort(port + 1)
         ELSE /\ asks' = "open" /\ best' = now /\ heard' = <<>>
              /\ results' = results
  BY DEF ProbeEnds
<1> HIDE DEF now, final, result
<1>4. CASE final
  <2>1. /\ results' = Append(results, result) /\ asks' \in {"done", "open"} /\ heard' = <<>>
        /\ (asks' = "open" => best' = Base(ports'[port + 1]))
    BY <1>3, <1>4 DEF AtPort
  <2> DEFINE S == {results[i] : i \in DOMAIN results}
  <2>2. results \in Seq(S) /\ \A x \in S : Honest(world, x)
    BY DEF HonestSoFar
  <2> HIDE DEF S
  <2>3. results' \in Seq(S \cup {result})
    BY <2>1, <2>2
  <2>4. \A x \in S \cup {result} : Honest(world, x)
    BY <1>2, <2>2
  <2>5. results' \in Seq({results'[i] : i \in DOMAIN results'})
    <3> DEFINE s == results'
               R == {s[i] : i \in DOMAIN s}
    <3>1. s \in Seq(S \cup {result}) /\ Len(s) \in Nat /\ s = [i \in 1 .. Len(s) |-> s[i]]
      BY <2>3
    <3>2. R \subseteq R
      OBVIOUS
    <3> HIDE DEF s
    <3> QED
      BY <3>1, <3>2, ShortSeq DEF s
  <2>6. \A i \in DOMAIN results' : Honest(world, results'[i])
    BY <2>3, <2>4
  <2>7. asks' = "open" => Honest(world, best')
    BY <2>1, NothingKnown, Zenon
  <2>8. heard' \in Seq(Sends')
    BY <2>1
  <2> QED
    BY <1>3, <2>1, <2>5, <2>6, <2>7, <2>8 DEF HonestSoFar, Probing
<1>5. CASE ~final
  <2>1. heard' \in Seq(Sends')
    BY <1>3, <1>5
  <2> QED
    BY <1>1, <1>3, <1>5, <2>1 DEF HonestSoFar, Probing
<1> QED
  BY <1>4, <1>5

LEMMA HonestInit == AutoConfigInit => HonestSoFar
<1> SUFFICES ASSUME AutoConfigInit PROVE HonestSoFar
  OBVIOUS
<1>1. asks = "list" /\ results = <<>> /\ found = <<>>
  BY DEF AutoConfigInit, DiscoveryInit
<1>2. results \in Seq({results[i] : i \in DOMAIN results}) /\ DOMAIN results = {}
  BY <1>1
<1> QED
  BY <1>1, <1>2 DEF HonestSoFar, Probing

LEMMA ReadHonest ==
  ASSUME HonestSoFar, Read, UNCHANGED <<request, found, plan>>
  PROVE  HonestSoFar'
<1>1. /\ asks = "read" /\ world' = world /\ bauds' = bauds /\ ports' = ports /\ port' = port /\ rate' = rate
      /\ best' = best /\ results' = results /\ request' = request /\ found' = found /\ plan' = plan
  BY DEF Read
<1>2. /\ heard \in Seq(Sends) /\ Honest(world, best)
      /\ results \in Seq({results[i] : i \in DOMAIN results})
      /\ \A i \in DOMAIN results : Honest(world, results[i])
  BY <1>1 DEF HonestSoFar, Probing
<1>3. Sends' = Sends
  BY <1>1 DEF Sends
<1>4. PICK k \in 1 .. 2 : \E chunk \in [1 .. k -> Sends] : heard' = heard \o chunk
  BY DEF Read
<1>5. PICK chunk \in [1 .. k -> Sends] : heard' = heard \o chunk
  BY <1>4
<1>6. heard' \in Seq(Sends)
  <2>1. chunk \in Seq(Sends)
    BY <1>5
  <2> QED
    BY <1>2, <1>5, <2>1, TwoParts
<1> DEFINE n == ports[port]
           w == world[n.device]
           weighed == Analyze(n, bauds[rate])
           r == IF "version" \in Range(heard') THEN Answered(weighed, w.model) ELSE weighed
<1>7. probe' = r /\ asks' \in {"stop", "read"}
  BY DEF Read
<1>8. Honest(world, weighed) /\ weighed.name = n /\ weighed.baud = bauds[rate]
  BY AnalyzeHonest
<1>9. ASSUME "version" \in Range(heard') PROVE w.model # NoModel /\ bauds[rate] \in w.bauds
  <2>1. "version" \in Sends
    BY <1>6, <1>9 DEF Range
  <2> QED
    BY <2>1 DEF Sends
<1> HIDE DEF weighed
<1>10. Honest(world, r)
  BY <1>8, <1>9, AnsweredHonest
<1> QED
  BY <1>1, <1>2, <1>3, <1>6, <1>7, <1>10 DEF HonestSoFar, Probing

LEMMA ListHonest ==
  ASSUME HonestSoFar, List, UNCHANGED <<request, found, plan>>
  PROVE  HonestSoFar'
<1>1. /\ world' = world /\ results' = results /\ asks' \in {"done", "open"} /\ heard' = <<>>
      /\ (asks' = "open" => best' = Base(ports'[1]))
  BY DEF List, AtPort
<1>2. heard' \in Seq(Sends')
  BY <1>1
<1>3. asks' = "open" => Honest(world, best')
  BY <1>1, NothingKnown, Zenon
<1> QED
  BY <1>1, <1>2, <1>3 DEF HonestSoFar, Probing

LEMMA OpenHonest ==
  ASSUME HonestSoFar, Open, UNCHANGED <<request, found, plan>>
  PROVE  HonestSoFar'
<1>1. /\ asks = "open" /\ asks' = "read"
      /\ world' = world /\ bauds' = bauds /\ ports' = ports /\ port' = port /\ rate' = rate
      /\ heard' = heard
      /\ best' = best /\ results' = results
      /\ probe' = [Base(ports[port]) EXCEPT !.baud = bauds[rate]]
  BY DEF Open
<1>2. Honest(world, probe')
  BY <1>1, NothingKnown, Zenon
<1>3. Sends' = Sends
  BY <1>1 DEF Sends
<1> QED
  BY <1>1, <1>2, <1>3 DEF HonestSoFar, Probing

LEMMA DiscoversHonest ==
  ASSUME HonestSoFar, Discovers
  PROVE  HonestSoFar'
<1>1. UNCHANGED <<request, found, plan>>
  BY DEF Discovers
<1>2. CASE List
  BY <1>1, <1>2, ListHonest
<1>3. CASE OpenFails
  <2> DEFINE r == [Base(ports[port]) EXCEPT !.baud = bauds[rate], !.reason = "failed"]
  <2>1. Probing /\ ProbeEnds(r)
    BY <1>3 DEF OpenFails, Probing
  <2>2. Honest(world, r)
    BY NothingKnown, Zenon
  <2> HIDE DEF r
  <2> QED
    BY <1>1, <2>1, <2>2, ProbeEndsHonest
<1>4. CASE Open
  BY <1>1, <1>4, OpenHonest
<1>5. CASE Read
  BY <1>1, <1>5, ReadHonest
<1>6. CASE ReadEnds
  <2> DEFINE r == IF heard = <<>> THEN [probe EXCEPT !.reason = "no_data"] ELSE probe
  <2>1. asks \in {"read", "stop"} /\ Probing /\ ProbeEnds(r)
    BY <1>6 DEF ReadEnds, Probing
  <2>2. Honest(world, probe)
    BY <2>1 DEF HonestSoFar
  <2>3. Honest(world, r)
    BY <2>2, StaysHonest
  <2> HIDE DEF r
  <2> QED
    BY <1>1, <2>1, <2>3, ProbeEndsHonest
<1> QED
  BY <1>2, <1>3, <1>4, <1>5, <1>6 DEF Discovers, DiscoveryNext

LEMMA TakesHonest ==
  ASSUME HonestSoFar, Takes
  PROVE  HonestSoFar'
<1>1. asks' = "taken" /\ world' = world /\ results' = <<>>
  BY DEF Takes
<1>2. PICK i \in DOMAIN results : found' = results[i]
  BY DEF Takes
<1>3. Honest(world, found')
  BY <1>2 DEF HonestSoFar
<1>4. results' \in Seq({results'[j] : j \in DOMAIN results'}) /\ DOMAIN results' = {}
  BY <1>1
<1> QED
  BY <1>1, <1>3, <1>4 DEF HonestSoFar, Probing

LEMMA PlansHonest ==
  ASSUME HonestSoFar, PlansUndiscovered \/ PlansDiscovered
  PROVE  HonestSoFar'
<1>1. /\ asks' = "planned" /\ world' = world /\ results' = results
      /\ plan' = BuildReceiverAutoConfigPlan(request', found')
      /\ found' = <<>> \/ (found' = found /\ asks = "taken")
  <2>1. CASE PlansUndiscovered
    BY <2>1 DEF PlansUndiscovered, Prepares, HonestSoFar
  <2>2. CASE PlansDiscovered
    BY <2>2 DEF PlansDiscovered, Prepares
  <2> QED
    BY <2>1, <2>2
<1>2. found' = <<>> \/ Honest(world', found')
  BY <1>1 DEF HonestSoFar
<1>3. BuildReceiverAutoConfigPlan(request, found)' = BuildReceiverAutoConfigPlan(request', found')
  OBVIOUS
<1> QED
  BY <1>1, <1>2, <1>3 DEF HonestSoFar, Probing

LEMMA HonestAlways == AutoConfigSpec => []HonestSoFar
<1>1. AutoConfigInit => HonestSoFar
  BY HonestInit
<1>2. HonestSoFar /\ [AutoConfigNext]_autoVars => HonestSoFar'
  <2> SUFFICES ASSUME HonestSoFar, [AutoConfigNext]_autoVars PROVE HonestSoFar'
    OBVIOUS
  <2>1. CASE Discovers
    BY <2>1, DiscoversHonest
  <2>2. CASE Takes
    BY <2>2, TakesHonest
  <2>3. CASE PlansUndiscovered \/ PlansDiscovered
    BY <2>3, PlansHonest
  <2>4. CASE UNCHANGED autoVars
    BY <2>4 DEF autoVars, discoveryVars, HonestSoFar, Probing, Sends
  <2> QED
    BY <2>1, <2>2, <2>3, <2>4 DEF AutoConfigNext
<1> QED
  BY <1>1, <1>2, PTL DEF AutoConfigSpec

-----------------------------------------------------------------------------
(* The theorems                                                            *)

\* Of a plan that is built.
LEMMA BuiltPlan ==
  ASSUME HonestSoFar, Built, plan.commands # <<>>
  PROVE  /\ plan = BuildReceiverAutoConfigPlan(request, found)
         /\ found = <<>> \/ Honest(world, found)
         /\ ~Contradicted(request, found) /\ plan.status = "ok"
         /\ \/ /\ plan.vendor = "unicore" /\ EffectiveFamily(request, found) = "unicore"
               /\ request.model \in KnownModels
               /\ plan.commands = UnicorePlanCommands(request, UnicoreProfile(request, found))
               /\ plan.layers = {}
            \/ /\ plan.vendor = "ublox" /\ EffectiveFamily(request, found) = "ublox"
               /\ request.profile # "factory_reset"
               /\ plan.commands = UbloxCommands(request, UbloxPorts(request, found))
               /\ plan.layers = UbloxLayers(request)
<1>1. /\ plan = BuildReceiverAutoConfigPlan(request, found)
      /\ found = <<>> \/ Honest(world, found)
  BY DEF HonestSoFar, Built
<1> QED
  BY <1>1, PlanOf

\* Where the commands of a Unicore plan are.
LEMMA UnicorePlaces ==
  ASSUME HonestSoFar, Built, plan.commands # <<>>, plan.vendor = "unicore"
  PROVE  LET p == UnicoreProfile(request, found)
         IN /\ At("freset") = IF request.profile = "factory_reset" THEN {1} ELSE {}
            /\ At("com1") = IF p.com1 = Absent THEN {}
                            ELSE IF request.profile = "factory_reset" THEN {2} ELSE {1}
            /\ \A i \in At("com1") : plan.commands[i].value = p.com1
            /\ At("signalgroup") # {} => p.group # Absent
            /\ \A i, j \in At("signalgroup") : i = j
            /\ At("save") = IF p.save THEN {Len(plan.commands)} ELSE {}
            /\ \A i \in DOMAIN plan.commands :
                 ~plan.commands[i].required =>
                   i \in At("output") \/ (i \in At("signalgroup") /\ request.group # Absent)
<1> DEFINE p == UnicoreProfile(request, found)
<1>1. plan.commands = UnicorePlanCommands(request, p)
  BY BuiltPlan
<1>2. PICK O : p.outputs \in Seq(O)
  BY ProfileOf
<1> HIDE DEF p
<1>3. Layout(plan.commands, request, p)
  BY <1>1, <1>2, UnicoreLayout
<1>4. Len(p.outputs) \in Nat
  BY <1>2
<1> QED
  BY <1>3, <1>4, PlacesOf DEF At, p

\* What outlives a restart, or restarts the receiver, happens exactly if the
\* user asked for it.
THEOREM PermanentAsAsked == AutoConfigSpec => []PermanentOnlyIfAsked
<1>1. HonestSoFar => PermanentOnlyIfAsked
  <2> SUFFICES ASSUME HonestSoFar, Built, plan.commands # <<>>
               PROVE  /\ (At("save") # {} \/ plan.layers \cap {"bbr", "flash"} # {}) <=>
                           request.mode = "persistent"
                      /\ At("freset") # {} <=> request.profile = "factory_reset"
                      /\ At("signalgroup") # {} =>
                           \/ request.group # Absent
                           \/ request.mode = "persistent"
                           \/ request.profile = "factory_reset"
    BY DEF PermanentOnlyIfAsked
  <2>1. CASE plan.vendor = "unicore"
    <3> DEFINE p == UnicoreProfile(request, found)
    <3>1. plan.layers = {}
      BY <2>1, BuiltPlan
    <3>2. /\ At("freset") = IF request.profile = "factory_reset" THEN {1} ELSE {}
          /\ At("signalgroup") # {} => p.group # Absent
          /\ At("save") = IF p.save THEN {Len(plan.commands)} ELSE {}
      BY <2>1, UnicorePlaces
    <3>3. /\ p.group # Absent => request.group # Absent \/ AutomaticSignalGroup(request)
          /\ p.save = (request.mode = "persistent")
      BY ProfileOf
    <3> HIDE DEF p
    <3> QED
      BY <3>1, <3>2, <3>3 DEF AutomaticSignalGroup
  <2>2. CASE plan.vendor # "unicore"
    <3> DEFINE outputs == UbloxPorts(request, found)
    <3>1. /\ request.profile # "factory_reset" /\ plan.layers = UbloxLayers(request)
          /\ plan.commands = UbloxCommands(request, outputs)
      BY <2>2, BuiltPlan
    <3>2. Len(outputs) \in Nat
      BY DEF UbloxPorts
    <3> HIDE DEF outputs
    <3>3. \A i \in DOMAIN plan.commands : plan.commands[i].kind \in UbloxKinds
      BY <3>1, <3>2, UbloxLayout
    <3>4. At("save") = {} /\ At("freset") = {} /\ At("signalgroup") = {}
      BY <3>3 DEF At, UbloxKinds
    <3>5. plan.layers \cap {"bbr", "flash"} # {} <=> request.mode = "persistent"
      BY <3>1 DEF UbloxLayers
    <3> QED
      BY <3>1, <3>4, <3>5
  <2> QED
    BY <2>1, <2>2
<1> QED
  BY <1>1, HonestAlways, PTL

\* A plan that runs is for a receiver that was found, at a baud rate that is
\* known.
LEMMA RunsWhere ==
  ASSUME HonestSoFar, Runs, plan.commands # <<>>
  PROVE  /\ Built /\ found # <<>> /\ TransportBaud(request, found) # 0
         /\ plan.vendor = "unicore" => CurrentBaudVerified(request, found)
<1>1. Built /\ Outcome(request, found, plan) = "run"
  BY DEF Runs
<1>2. plan.status = "ok" /\ Live(request)
  <2>1. plan.status = "ok"
    BY <1>1, BuiltPlan
  <2> QED
    BY <1>1, <2>1 DEF Outcome
<1>3. Outcome(request, found, plan) =
        IF plan.vendor = "unicore" /\ ~CurrentBaudVerified(request, found) THEN "transport_unavailable"
        ELSE IF ~plan.ready \/ (plan.commands # <<>> /\ ~request.confirm) THEN "safety_rejected"
        ELSE IF found = <<>> \/ TransportBaud(request, found) = 0 THEN "invalid_argument"
        ELSE "run"
  BY <1>2 DEF Outcome
<1>4. ~(plan.vendor = "unicore" /\ ~CurrentBaudVerified(request, found))
  BY <1>1, <1>3
<1>5. ~(found = <<>> \/ TransportBaud(request, found) = 0)
  BY <1>1, <1>3
<1> QED
  BY <1>1, <1>4, <1>5

\* Commands are only written to the receiver they were planned for.
THEOREM WrittenToTheProven == AutoConfigSpec => []OnlyTheProvenReceiver
<1>1. HonestSoFar => OnlyTheProvenReceiver
  <2> SUFFICES ASSUME HonestSoFar, Runs, plan.commands # <<>>
               PROVE  LET device == world[found.name.device]
                      IN IF plan.vendor = "unicore"
                         THEN /\ device.model = request.model
                              /\ TransportBaud(request, found) \in device.bauds
                         ELSE \/ found.family = "ublox"
                              \/ found.family = "unknown" /\ request.family = "ublox"
    BY DEF OnlyTheProvenReceiver
  <2>1. Built /\ found # <<>> /\ (plan.vendor = "unicore" => CurrentBaudVerified(request, found))
    BY RunsWhere
  <2>2. Honest(world, found) /\ ~Contradicted(request, found)
    BY <2>1, BuiltPlan
  <2>3. CASE plan.vendor = "unicore"
    <3>1. EffectiveFamily(request, found) = "unicore" /\ request.model \in KnownModels
      BY <2>1, <2>3, BuiltPlan
    <3>2. found.verified /\ found.baud = TransportBaud(request, found)
      BY <2>1, <2>3 DEF CurrentBaudVerified
    <3>3. /\ found.model # NoModel /\ found.model = world[found.name.device].model
          /\ found.baud \in world[found.name.device].bauds
      BY <2>2, <3>2 DEF Honest
    <3>4. request.model # Absent
      BY <3>1, AbsentAssumption
    <3>5. request.model = found.model
      BY <2>1, <2>2, <3>1, <3>3, <3>4 DEF Contradicted
    <3> QED
      BY <2>3, <3>2, <3>3, <3>5
  <2>4. CASE plan.vendor # "unicore"
    <3>1. EffectiveFamily(request, found) = "ublox"
      BY <2>1, <2>4, BuiltPlan
    <3> QED
      BY <2>1, <2>4, <3>1 DEF EffectiveFamily, FamilyFound
  <2> QED
    BY <2>3, <2>4
<1> QED
  BY <1>1, HonestAlways, PTL

\* What is written, and to whom, is what the user and discovery agree on.
THEOREM Written == AutoConfigSpec => []WrittenAsAskedToTheProven
  BY PermanentAsAsked, WrittenToTheProven, PTL DEF WrittenAsAskedToTheProven

\* Every plan the workflows are given has the form they rely on.
THEOREM PlansFit == AutoConfigSpec => []PlansFitWorkflows
<1>1. HonestSoFar => PlansFitWorkflows
  <2> SUFFICES ASSUME HonestSoFar, Runs, plan.vendor = "unicore", plan.commands # <<>>
               PROVE  /\ IF request.profile = "factory_reset"
                         THEN At("freset") = {1} /\ At("com1") = {2}
                         ELSE At("freset") = {} /\ At("com1") \subseteq {1}
                      /\ At("freset") = {} =>
                           \A i \in At("com1") :
                             plan.commands[i].value # TransportBaud(request, found)
                      /\ \A i, j \in At("signalgroup") : i = j
                      /\ At("save") \subseteq {Len(plan.commands)}
                      /\ \A i \in DOMAIN plan.commands :
                           ~plan.commands[i].required =>
                             i \in At("output") \/ (i \in At("signalgroup") /\ request.group # Absent)
    BY DEF PlansFitWorkflows
  <2> DEFINE p == UnicoreProfile(request, found)
             baud == TransportBaud(request, found)
  <2>1. Built /\ found # <<>> /\ baud # 0 /\ CurrentBaudVerified(request, found)
    BY RunsWhere
  <2>2. /\ At("freset") = IF request.profile = "factory_reset" THEN {1} ELSE {}
        /\ At("com1") = IF p.com1 = Absent THEN {}
                        ELSE IF request.profile = "factory_reset" THEN {2} ELSE {1}
        /\ \A i \in At("com1") : plan.commands[i].value = p.com1
        /\ \A i, j \in At("signalgroup") : i = j
        /\ At("save") \subseteq {Len(plan.commands)}
        /\ \A i \in DOMAIN plan.commands :
             ~plan.commands[i].required =>
               i \in At("output") \/ (i \in At("signalgroup") /\ request.group # Absent)
    BY <2>1, UnicorePlaces
  <2>3. /\ p.com1 # Absent <=>
             IF request.profile = "factory_reset" THEN Override(request.baud, 921600) # Absent
             ELSE ShouldEmitUnicoreRuntimeCom1BaudCommand(request, found)
        /\ request.profile # "factory_reset" /\ p.com1 # Absent => p.com1 = request.baud
    BY ProfileOf
  <2> HIDE DEF p, baud
  <2>4. Override(request.baud, 921600) # Absent
    BY AbsentAssumption DEF Override
  <2>5. CurrentBaud(request, found) = baud
    BY <2>1 DEF CurrentBaud, CurrentBaudVerified, baud
  <2>6. request.profile # "factory_reset" /\ p.com1 # Absent => p.com1 # baud
    BY <2>3, <2>5 DEF ShouldEmitUnicoreRuntimeCom1BaudCommand
  <2> QED
    BY <2>2, <2>3, <2>4, <2>6 DEF baud
<1> QED
  BY <1>1, HonestAlways, PTL

-----------------------------------------------------------------------------
(* What a result is worth                                                  *)

\* A result whose family, confidence and score fit together: a receiver that
\* is known has more than nothing, and what is not known has no confidence to
\* speak of.
Weighed(x) ==
  /\ DOMAIN x = ResultFields
  /\ x.score \in Int /\ x.confidence \in 0..3 /\ x.vendor \in Nat /\ x.bytes \in Nat
  /\ x.family # "unknown" =>
       /\ x.score >= 10 /\ x.confidence >= 1
       /\ x.confidence = 3 <=> x.score >= 100
       /\ ~AllowNmea => x.confidence >= 2
  /\ x.family = "unknown" =>
       /\ x.confidence <= 1 /\ ~x.verified
       /\ x.confidence = 1 /\ AllowNmea => x.score <= 0
  /\ x.verified => x.family = "unicore" /\ x.score >= 100

LEMMA GreaterOfTwo ==
  ASSUME NEW a \in Int, NEW b \in Int
  PROVE  /\ Max({a, b}) \in Int /\ Max({a, b}) >= a /\ Max({a, b}) >= b
         /\ Max({a, b}) = a \/ Max({a, b}) = b
<1>1. \E x \in {a, b} : \A y \in {a, b} : x >= y
  OBVIOUS
<1>2. Max({a, b}) \in {a, b} /\ \A y \in {a, b} : Max({a, b}) >= y
  BY <1>1, Zenon DEF Max
<1> QED
  BY <1>2

\* What is counted is there.
LEMMA CountIs ==
  ASSUME NEW T, heard' \in Seq(T), NEW items
  PROVE  /\ CountOf(items) \in Nat
         /\ CountOf(items) > 0 <=> \E i \in DOMAIN heard' : heard'[i] \in items
<1> DEFINE A == {i \in DOMAIN heard' : heard'[i] \in items}
<1>1. DOMAIN heard' = 1..Len(heard') /\ Len(heard') \in Nat
  OBVIOUS
<1>2. IsFiniteSet(DOMAIN heard') /\ A \in SUBSET (DOMAIN heard')
  <2>1. IsFiniteSet(1..Len(heard'))
    BY <1>1, FS_Interval
  <2> QED
    BY <1>1, <2>1
<1>3. IsFiniteSet(A)
  BY <1>2, FS_Subset
<1>4. Cardinality(A) \in Nat /\ (Cardinality(A) = 0 <=> A = {})
  BY <1>3, FS_CardinalityType, FS_EmptySet
<1>5. A # {} <=> \E i \in DOMAIN heard' : heard'[i] \in items
  OBVIOUS
<1>6. CountOf(items) = Cardinality(A)
  BY DEF CountOf
<1> HIDE DEF A
<1> QED
  BY <1>4, <1>5, <1>6

\* What the scores of the kinds add up to.
LEMMA CountsAgree ==
  ASSUME NEW T, heard' \in Seq(T)
  PROVE  /\ CountOf(NmeaItems) > 0 <=> CountOf({"gga"}) > 0 \/ CountOf({"nmea"}) > 0
         /\ CountOf(NmeaItems) > 0 => CountOf(NmeaItems \cup {"ascii", "version"}) > 0
         /\ CountOf(VendorItems \cup NmeaItems) > 0 <=>
              \/ CountOf({"ubx"}) > 0 \/ CountOf({"ascii", "n4"}) > 0
              \/ CountOf({"gga"}) > 0 \/ CountOf({"nmea"}) > 0
<1> DEFINE There(items) == \E i \in DOMAIN heard' : heard'[i] \in items
<1>1. \A items : CountOf(items) > 0 <=> There(items)
  <2>1. ASSUME NEW items PROVE CountOf(items) > 0 <=> There(items)
    BY CountIs
  <2> QED
    BY <2>1
<1>2. There(NmeaItems) <=> There({"gga"}) \/ There({"nmea"})
  BY DEF NmeaItems
<1>3. There(NmeaItems) => There(NmeaItems \cup {"ascii", "version"})
  BY DEF NmeaItems
<1>4. There(VendorItems \cup NmeaItems) <=>
        There({"ubx"}) \/ There({"ascii", "n4"}) \/ There({"gga"}) \/ There({"nmea"})
  BY DEF NmeaItems, VendorItems
<1> HIDE DEF There
<1> QED
  BY <1>1, <1>2, <1>3, <1>4

LEMMA ScoreIs ==
  ASSUME NEW T, heard' \in Seq(T)
  PROVE  /\ Score \in Int
         /\ CountOf({"heartbeat"}) = 0 =>
              /\ CountOf({"ubx"}) > 0 \/ CountOf({"ascii", "n4"}) > 0 => Score >= 50
              /\ CountOf(NmeaItems) > 0 => Score >= 10
         /\ CountOf(VendorItems \cup NmeaItems) = 0 => Score <= 0
<1> DEFINE u == CountOf({"ubx"})
           a == CountOf({"ascii", "n4"})
           g == CountOf({"gga"})
           n == CountOf({"nmea"})
           h == CountOf({"heartbeat"})
           v == Max({u, a})
           m == Max({VendorScore, NmeaScore})
           text == IF LooksLikeRandomAscii THEN 50 ELSE 0
<1>1. u \in Nat /\ a \in Nat /\ g \in Nat /\ n \in Nat /\ h \in Nat
      /\ CountOf(VendorItems \cup NmeaItems) \in Nat /\ CountOf(NmeaItems) \in Nat
  BY CountIs
<1>2. /\ CountOf(NmeaItems) > 0 <=> g > 0 \/ n > 0
      /\ CountOf(NmeaItems) > 0 => CountOf(NmeaItems \cup {"ascii", "version"}) > 0
      /\ CountOf(VendorItems \cup NmeaItems) > 0 <=> u > 0 \/ a > 0 \/ g > 0 \/ n > 0
  BY CountsAgree
<1>3. VendorScore = 100 * v /\ NmeaScore = 20 * g + 10 * n /\ Score = m - 200 * h - text
  BY DEF VendorScore, NmeaScore, Score
<1>4. CountOf(NmeaItems) > 0 => text = 0
  BY <1>2, CountIs DEF LooksLikeRandomAscii
<1>5. text \in {0, 50}
  OBVIOUS
<1> HIDE DEF u, a, g, n, h, v, m, text
<1>6. v \in Int /\ v >= u /\ v >= a /\ (v = u \/ v = a)
  <2>1. u \in Int /\ a \in Int
    BY <1>1
  <2> QED
    BY <2>1, GreaterOfTwo, Zenon DEF v
<1>7. VendorScore \in Int /\ NmeaScore \in Int
  BY <1>1, <1>3, <1>6
<1>8. m \in Int /\ m >= VendorScore /\ m >= NmeaScore /\ (m = VendorScore \/ m = NmeaScore)
  BY <1>7, GreaterOfTwo DEF m
<1>9. Score \in Int
  BY <1>1, <1>3, <1>5, <1>8
<1>10. ASSUME h = 0, u > 0 \/ a > 0 PROVE Score >= 50
  <2>1. v >= 1
    BY <1>1, <1>6, <1>10
  <2>2. VendorScore >= 100
    BY <1>3, <1>6, <2>1
  <2> QED
    BY <1>3, <1>5, <1>7, <1>8, <1>10, <2>2
<1>11. ASSUME h = 0, CountOf(NmeaItems) > 0 PROVE Score >= 10
  <2>1. NmeaScore >= 10
    BY <1>1, <1>2, <1>3, <1>11
  <2> QED
    BY <1>3, <1>4, <1>7, <1>8, <1>11, <2>1
<1>12. ASSUME CountOf(VendorItems \cup NmeaItems) = 0 PROVE Score <= 0
  <2>1. u = 0 /\ a = 0 /\ g = 0 /\ n = 0
    BY <1>1, <1>2, <1>12
  <2>2. m = 0
    BY <1>3, <1>6, <1>8, <2>1
  <2> QED
    BY <1>1, <1>3, <1>5, <2>2
<1> QED
  BY <1>9, <1>10, <1>11, <1>12 DEF u, a, h

LEMMA ConfidenceIs ==
  ASSUME NEW score \in Int
  PROVE  /\ ConfidenceFromScore(score) \in 0..3
         /\ ConfidenceFromScore(score) = 3 <=> score >= 100
         /\ score >= 10 => ConfidenceFromScore(score) >= 1
         /\ score >= 50 => ConfidenceFromScore(score) >= 2
  BY DEF ConfidenceFromScore

\* What is known was heard, without a heartbeat.
LEMMA FamilyIs ==
  ASSUME NEW T, heard' \in Seq(T)
  PROVE  /\ Family # "unknown" =>
              /\ CountOf({"heartbeat"}) = 0
              /\ \/ CountOf({"ubx"}) > 0 \/ CountOf({"ascii", "n4"}) > 0
                 \/ CountOf(NmeaItems) > 0 /\ AllowNmea
         /\ Family = "unknown" /\ CountOf({"heartbeat"}) = 0 /\ AllowNmea => ~(CountOf(NmeaItems) > 0)
<1> DEFINE beats == CountOf({"heartbeat"}) > 0
           ublox == CountOf({"ubx"}) > 0
           unicore == CountOf({"ascii", "n4"}) > 0
           nmea == CountOf(NmeaItems) > 0
           first == EarliestIsUbx
<1>1. beats \/ CountOf({"heartbeat"}) = 0
  BY CountIs
<1>2. Family =
        IF beats THEN "unknown"
        ELSE CASE ublox /\ (unicore => first) -> "ublox"
               [] unicore /\ (ublox => ~first) -> "unicore"
               [] OTHER -> IF nmea /\ AllowNmea THEN "nmea" ELSE "unknown"
  BY Zenon DEF Family
<1>3. beats => CountOf({"heartbeat"}) # 0
  OBVIOUS
<1>4. /\ beats \in BOOLEAN /\ ublox \in BOOLEAN /\ unicore \in BOOLEAN /\ nmea \in BOOLEAN
  OBVIOUS
<1> HIDE DEF beats, ublox, unicore, nmea, first
<1>5. beats => Family = "unknown"
  BY <1>2, <1>4
<1>6. ~beats /\ ~ublox /\ ~unicore => Family = IF nmea /\ AllowNmea THEN "nmea" ELSE "unknown"
  BY <1>2, <1>4
<1>7. ~beats /\ (ublox \/ unicore) => Family \in {"ublox", "unicore"}
  BY <1>2, <1>4
<1>8. /\ Family # "unknown" => ~beats /\ (ublox \/ unicore \/ (nmea /\ AllowNmea))
      /\ Family = "unknown" /\ ~beats /\ AllowNmea => ~nmea
  BY <1>5, <1>6, <1>7
<1> QED
  BY <1>1, <1>3, <1>8 DEF beats, ublox, unicore, nmea

LEMMA BaseWeighed ==
  ASSUME NEW n, NEW baud, NEW reason
  PROVE  /\ Weighed(Base(n)) /\ Weighed([Base(n) EXCEPT !.baud = baud])
         /\ Weighed([Base(n) EXCEPT !.baud = baud, !.reason = reason])
         /\ Base(n).name = n /\ [Base(n) EXCEPT !.baud = baud].name = n
         /\ [Base(n) EXCEPT !.baud = baud, !.reason = reason].name = n
         /\ Base(n).score = 0 /\ Base(n).confidence = 0 /\ Base(n).family = "unknown"
<1>1. Weighed(Base(n)) /\ Base(n).name = n
  BY DEF Weighed, Base, ResultFields
<1>2. Weighed([Base(n) EXCEPT !.baud = baud]) /\ [Base(n) EXCEPT !.baud = baud].name = n
  BY DEF Weighed, Base, ResultFields
<1>3. /\ Weighed([Base(n) EXCEPT !.baud = baud, !.reason = reason])
      /\ [Base(n) EXCEPT !.baud = baud, !.reason = reason].name = n
  BY DEF Weighed, Base, ResultFields
<1>4. Base(n).score = 0 /\ Base(n).confidence = 0 /\ Base(n).family = "unknown"
  BY DEF Base
<1> QED
  BY <1>1, <1>2, <1>3, <1>4

LEMMA AnalyzeWeighed ==
  ASSUME NEW T, heard' \in Seq(T), NEW n, NEW baud
  PROVE  Weighed(Analyze(n, baud)) /\ Analyze(n, baud).name = n /\ ~Analyze(n, baud).verified
<1> DEFINE x == Analyze(n, baud)
<1>1. CASE heard' = <<>>
  <2>1. x = [Base(n) EXCEPT !.baud = baud, !.reason = "no_data"]
    BY <1>1 DEF Analyze
  <2>2. ~[Base(n) EXCEPT !.baud = baud, !.reason = "no_data"].verified
    BY DEF Base
  <2> DEFINE y == [Base(n) EXCEPT !.baud = baud, !.reason = "no_data"]
  <2>3. Weighed(y) /\ y.name = n
    BY BaseWeighed, Zenon
  <2> HIDE DEF x, y
  <2>4. Weighed(x) /\ x.name = n /\ ~x.verified
    BY <2>1, <2>2, <2>3 DEF y
  <2> QED
    BY <2>4 DEF x
<1>2. CASE heard' # <<>>
  <2> DEFINE weak == CountOf({"heartbeat"}) = 0 /\ ~LooksLikeRandomAscii /\ WeakStream
  <2> DEFINE heavy == IF Family # "unknown" THEN ConfidenceFromScore(Score) ELSE IF weak THEN 1 ELSE 0
  <2>0. x = [Base(n) EXCEPT
              !.baud = baud, !.family = Family, !.score = Score, !.confidence = heavy,
              !.vendor = CountOf(VendorItems \cup NmeaItems), !.bytes = Len(heard'),
              !.reason = "evidence"]
    BY <1>2, Zenon DEF Analyze
  <2> HIDE DEF x, heavy
  <2>a. x = [name |-> n, baud |-> baud, family |-> Family, confidence |-> heavy, score |-> Score,
             vendor |-> CountOf(VendorItems \cup NmeaItems), bytes |-> Len(heard'),
             model |-> NoModel, verified |-> FALSE, reason |-> "evidence"]
    BY <2>0 DEF Base
  <2>b. x.confidence = heavy
    BY <2>a
  <2>1. /\ DOMAIN x = ResultFields /\ x.name = n /\ x.verified = FALSE
        /\ x.family = Family /\ x.score = Score
        /\ x.confidence = IF Family # "unknown" THEN ConfidenceFromScore(Score)
                          ELSE IF weak THEN 1 ELSE 0
        /\ x.vendor = CountOf(VendorItems \cup NmeaItems) /\ x.bytes = Len(heard')
    BY <2>a, <2>b DEF ResultFields, heavy
  <2>2. x.vendor \in Nat /\ x.bytes \in Nat
    BY <2>1, CountIs
  <2>3. Score \in Int
    BY ScoreIs
  <2>4. ASSUME Family # "unknown"
        PROVE  /\ x.score >= 10 /\ x.confidence \in 0..3 /\ x.confidence >= 1
               /\ x.confidence = 3 <=> x.score >= 100
               /\ ~AllowNmea => x.confidence >= 2
    <3>1. CountOf({"heartbeat"}) = 0
      BY <2>4, FamilyIs
    <3>2. CountOf({"ubx"}) > 0 \/ CountOf({"ascii", "n4"}) > 0 \/ (CountOf(NmeaItems) > 0 /\ AllowNmea)
      BY <2>4, FamilyIs
    <3>3. Score >= 10 /\ (~AllowNmea => Score >= 50)
      BY <2>3, <3>1, <3>2, ScoreIs
    <3>4. x.confidence = ConfidenceFromScore(Score)
      BY <2>1, <2>4
    <3> QED
      BY <2>1, <2>3, <3>3, <3>4, ConfidenceIs
  <2>5. ASSUME Family = "unknown"
        PROVE  /\ x.confidence \in 0..3 /\ x.confidence <= 1
               /\ x.confidence = 1 /\ AllowNmea => x.score <= 0
    <3>1. x.confidence = IF weak THEN 1 ELSE 0
      BY <2>1, <2>5
    <3>2. ASSUME weak, AllowNmea PROVE Score <= 0
      <4>1. ~(CountOf(NmeaItems) > 0)
        BY <2>5, <3>2, FamilyIs
      <4>2. CountOf(VendorItems \cup NmeaItems) = 0
        BY <3>2, <4>1 DEF WeakStream
      <4> QED
        BY <4>2, ScoreIs
    <3> HIDE DEF weak
    <3> QED
      BY <2>1, <3>1, <3>2
  <2> QED
    <3>1. /\ DOMAIN x = ResultFields /\ x.score \in Int /\ ~x.verified
          /\ x.family = Family /\ x.name = n
      BY <2>1, <2>3
    <3> HIDE DEF weak
    <3>2. Weighed(x)
      BY <2>2, <2>4, <2>5, <3>1 DEF Weighed
    <3> QED
      BY <3>1, <3>2 DEF x
<1> QED
  BY <1>1, <1>2

LEMMA AnsweredWeighed ==
  ASSUME NEW x, Weighed(x), NEW model
  PROVE  Weighed(Answered(x, model)) /\ Answered(x, model).name = x.name
<1> DEFINE y == Answered(x, model)
<1>1. x.score \in Int /\ DOMAIN x = ResultFields /\ x.vendor \in Nat /\ x.bytes \in Nat
  BY DEF Weighed
<1>2. Max({x.score, 100}) \in Int /\ Max({x.score, 100}) >= 100
  <2>1. x.score \in Int /\ 100 \in Int
    BY <1>1
  <2> QED
    BY <2>1, GreaterOfTwo, Zenon
<1>3. /\ DOMAIN y = ResultFields /\ y.name = x.name /\ y.family = "unicore" /\ y.confidence = 3
      /\ y.score = Max({x.score, 100}) /\ y.vendor = x.vendor /\ y.bytes = x.bytes
  BY <1>1 DEF Answered, High, ResultFields
<1> HIDE DEF y
<1> QED
  BY <1>1, <1>2, <1>3 DEF Weighed, y

LEMMA StaysWeighed ==
  ASSUME NEW x, Weighed(x), NEW reason
  PROVE  /\ Weighed([x EXCEPT !.reason = reason]) /\ [x EXCEPT !.reason = reason].name = x.name
         /\ Weighed([x EXCEPT !.baud = 0]) /\ [x EXCEPT !.baud = 0].name = x.name
         /\ [x EXCEPT !.baud = 0].family = x.family
<1>1. DOMAIN x = ResultFields
  BY DEF Weighed
<1>2. Weighed([x EXCEPT !.reason = reason]) /\ [x EXCEPT !.reason = reason].name = x.name
  BY <1>1 DEF Weighed, ResultFields
<1>3. Weighed([x EXCEPT !.baud = 0]) /\ [x EXCEPT !.baud = 0].name = x.name
      /\ [x EXCEPT !.baud = 0].family = x.family
  BY <1>1 DEF Weighed, ResultFields
<1> QED
  BY <1>2, <1>3

-----------------------------------------------------------------------------
(* The order of the ports                                                  *)

\* The rank of a source tells the source.
LEMMA SourceKnown ==
  ASSUME NEW n \in Names
  PROVE  /\ SourcePriority(n.source) \in 1..4 /\ n.path \in Nat
         /\ n.source = Sources[SourcePriority(n.source)]
         /\ n.source = "serial_by_id" <=> SourcePriority(n.source) = 1
         /\ n.source # "explicit_path"
<1>1. n.path \in Nat /\ \E i \in 1..4 : n.source = Sources[i]
  BY NamesAssumption
<1>2. PICK i \in 1..4 : n.source = Sources[i]
  BY <1>1
<1>3. DOMAIN Sources = 1..5
  BY DEF Sources
<1>4. \E j \in DOMAIN Sources : Sources[j] = n.source
  BY <1>2, <1>3
<1> DEFINE r == SourcePriority(n.source)
<1>5. r \in DOMAIN Sources /\ Sources[r] = n.source
  BY <1>4 DEF SourcePriority
<1> HIDE DEF r
<1>6. /\ Sources[1] = "serial_by_id" /\ Sources[2] = "tty_acm" /\ Sources[3] = "tty_usb"
      /\ Sources[4] = "platform_uart" /\ Sources[5] = "explicit_path"
  BY DEF Sources
<1>7. r \in 1..4
  BY <1>2, <1>3, <1>5, <1>6
<1>8. n.source = "serial_by_id" <=> r = 1
  BY <1>5, <1>6, <1>7
<1>9. n.source # "explicit_path"
  BY <1>2, <1>6
<1> QED
  BY <1>1, <1>5, <1>7, <1>8, <1>9 DEF r

LEMMA NotBeforeItself ==
  ASSUME NEW m \in Names, NEW n \in Names, Precedes(m, n)
  PROVE  m # n
<1>1. SourcePriority(m.source) \in 1..4 /\ m.path \in Nat
  BY SourceKnown
<1> QED
  BY <1>1 DEF Precedes

\* Of two names one precedes the other.
LEMMA OneIsFirst ==
  ASSUME NEW m \in Names, NEW n \in Names, m # n
  PROVE  Precedes(m, n) \/ Precedes(n, m)
<1>1. /\ SourcePriority(m.source) \in 1..4 /\ m.path \in Nat
      /\ SourcePriority(n.source) \in 1..4 /\ n.path \in Nat
      /\ m.source = Sources[SourcePriority(m.source)] /\ n.source = Sources[SourcePriority(n.source)]
  BY SourceKnown
<1>2. m.source = n.source => m.path # n.path
  BY NamesAssumption
<1>3. CASE m.source = n.source
  BY <1>1, <1>2, <1>3 DEF Precedes
<1>4. CASE m.source # n.source
  <2>1. SourcePriority(m.source) # SourcePriority(n.source)
    BY <1>1, <1>4
  <2> QED
    BY <1>1, <2>1 DEF Precedes
<1> QED
  BY <1>3, <1>4

\* Every set of numbers has a least one.
LEMMA LessWellFounded == IsWellFoundedOn({p \in Nat \X Nat : p[1] < p[2]}, Nat)
BY NatLessThanWellFounded DEF OpToRel

LEMMA Least ==
  ASSUME NEW S, S \subseteq Nat, S # {}
  PROVE  \E m \in S : \A x \in S : m <= x
<1> DEFINE R == {p \in Nat \X Nat : p[1] < p[2]}
<1>1. IsWellFoundedOn(R, Nat)
  BY LessWellFounded
<1> HIDE DEF R
<1>2. PICK m \in S : \A x \in S : ~(<<x, m>> \in R)
  BY <1>1, WFMin
<1>3. ASSUME NEW x \in S PROVE m <= x
  <2>1. x \in Nat /\ m \in Nat
    OBVIOUS
  <2>2. ~(<<x, m>> \in R)
    BY <1>2
  <2> QED
    BY <2>1, <2>2 DEF R
<1> QED
  BY <1>3

\* Of the names of a device one precedes all others: the one that is kept.
LEMMA FirstName ==
  ASSUME NEW D, D \subseteq Names, D # {}
  PROVE  \E n \in D : \A m \in D : ~Precedes(m, n)
<1> DEFINE R == {SourcePriority(n.source) : n \in D}
<1>1. \A n \in D : SourcePriority(n.source) \in Nat /\ n.path \in Nat
                     /\ n.source = Sources[SourcePriority(n.source)]
  BY SourceKnown
<1>2. R \subseteq Nat /\ R # {}
  BY <1>1
<1>3. PICK r \in R : \A x \in R : r <= x
  BY <1>2, Least
<1> DEFINE E == {n \in D : SourcePriority(n.source) = r}
           P == {n.path : n \in E}
<1>4. P \subseteq Nat /\ P # {}
  BY <1>1
<1>5. PICK p \in P : \A x \in P : p <= x
  BY <1>4, Least
<1>6. PICK n \in E : n.path = p
  OBVIOUS
<1>7. ASSUME NEW m \in D PROVE ~Precedes(m, n)
  <2>1. SourcePriority(n.source) = r /\ r <= SourcePriority(m.source)
    BY <1>3
  <2>2. r \in Nat /\ p \in Nat /\ SourcePriority(m.source) \in Nat /\ m.path \in Nat
    BY <1>1, <1>2, <1>4
  <2>3. m.source = n.source => p <= m.path
    BY <1>5, <2>1
  <2> QED
    BY <1>6, <2>1, <2>2, <2>3 DEF Precedes
<1> QED
  BY <1>7

LEMMA PreferredIs ==
  ASSUME NEW S, S \subseteq Names
  PROVE  /\ Preferred(S) \subseteq S
         /\ \A m, n \in Preferred(S) : m.device = n.device => m = n
         /\ \A m \in S : \E n \in Preferred(S) : n.device = m.device
         /\ \A m \in S, n \in Preferred(S) :
              m.device = n.device /\ m.source = "serial_by_id" => n.source = "serial_by_id"
<1>1. Preferred(S) \subseteq S
  BY DEF Preferred
<1>2. ASSUME NEW m \in Preferred(S), NEW n \in Preferred(S), m.device = n.device
      PROVE  m = n
  <2>1. ~Precedes(m, n) /\ ~Precedes(n, m)
    BY <1>2 DEF Preferred
  <2> QED
    BY <1>1, <2>1, OneIsFirst
<1>3. ASSUME NEW m \in S PROVE \E n \in Preferred(S) : n.device = m.device
  <2> DEFINE D == {n \in S : n.device = m.device}
  <2>1. D \subseteq Names /\ m \in D
    OBVIOUS
  <2>2. PICK n \in D : \A k \in D : ~Precedes(k, n)
    BY <2>1, FirstName
  <2> QED
    BY <2>2 DEF Preferred
<1>4. ASSUME NEW m \in S, NEW n \in Preferred(S), m.device = n.device, m.source = "serial_by_id"
      PROVE  n.source = "serial_by_id"
  <2>1. ~Precedes(m, n)
    BY <1>4 DEF Preferred
  <2>2. /\ SourcePriority(m.source) = 1
        /\ SourcePriority(n.source) \in 1..4
        /\ n.source = "serial_by_id" <=> SourcePriority(n.source) = 1
    BY <1>1, <1>4, SourceKnown
  <2> QED
    BY <2>1, <2>2 DEF Precedes
<1> QED
  BY <1>1, <1>2, <1>3, <1>4

\* A sorted sequence of a set of names holds each of them once.
LEMMA SortedIs ==
  ASSUME NEW S, S \subseteq Names, NEW s \in Sorted(S)
  PROVE  /\ s \in Seq(S)
         /\ \A i, j \in DOMAIN s : i < j => Precedes(s[i], s[j])
         /\ \A i, j \in DOMAIN s : s[i] = s[j] => i = j
         /\ \A n \in S : \E i \in DOMAIN s : s[i] = n
<1> DEFINE c == Cardinality(S)
<1>1. IsFiniteSet(S) /\ c \in Nat
  BY NamesAssumption, FS_Subset, FS_CardinalityType
<1>2. s \in [1..c -> S] /\ \A i, j \in DOMAIN s : i < j => Precedes(s[i], s[j])
  BY DEF Sorted
<1> HIDE DEF c
<1>3. s \in Seq(S) /\ DOMAIN s = 1..c
  BY <1>1, <1>2
<1>4. ASSUME NEW i \in 1..c, NEW j \in 1..c, s[i] = s[j] PROVE i = j
  <2>1. s[i] \in Names /\ s[j] \in Names
    BY <1>2
  <2>2. ~(i < j) /\ ~(j < i)
    BY <1>2, <1>3, <1>4, <2>1, NotBeforeItself
  <2> QED
    BY <1>1, <2>2
<1>5. s \in Injection(1..c, S)
  BY <1>2, <1>4 DEF Injection, IsInjective
<1>6. Cardinality(1..c) = c
  BY <1>1, FS_Interval
<1>7. s \in Surjection(1..c, S)
  <2>1. Cardinality(1..c) = Cardinality(S) <=> s \in Surjection(1..c, S)
    BY <1>1, <1>5, FS_Injection, Zenon
  <2> QED
    BY <1>6, <2>1 DEF c
<1>8. \A n \in S : \E i \in 1..c : s[i] = n
  BY <1>7 DEF Surjection
<1> QED
  BY <1>2, <1>3, <1>4, <1>8

-----------------------------------------------------------------------------
(* The best probe of a port                                                *)

\* Of the results s of a port's probes: one of no receiver that has more than
\* the j-th.
Heavier(s, j) == \E k \in DOMAIN s : s[k].family = "unknown" /\ s[k].score > s[j].score

\* A result that does not lose what the probes s found.
Settles(s, x) ==
  \A j \in DOMAIN s :
    /\ s[j].verified => x = s[j] \/ Heavier(s, j)
    /\ s[j].family # "unknown" => x.family # "unknown" \/ Heavier(s, j)

\* The best of the probes s of port n, or none: none has a greater score.
Tops(s, n, x) ==
  /\ Weighed(x) /\ x.name = n
  /\ x = Base(n) \/ \E j \in DOMAIN s : x = s[j]
  /\ \A j \in DOMAIN s : s[j].score <= x.score
  /\ Settles(s, x)

Final(x) == x.confidence = High /\ x.score >= Threshold

\* A known receiver is better than as much of no receiver.
LEMMA BetterIs ==
  ASSUME NEW x, Weighed(x), NEW y, Weighed(y)
  PROVE  /\ IsBetterProbeResult(x, y) =>
              /\ x.score >= y.score
              /\ x.family = "unknown" /\ y.family # "unknown" => x.score > y.score
         /\ ~IsBetterProbeResult(x, y) =>
              /\ y.score >= x.score
              /\ y.family = "unknown" /\ x.family # "unknown" => y.score > x.score
<1> DEFINE f == IF x.family = "unknown" THEN 0 ELSE 1
           g == IF y.family = "unknown" THEN 0 ELSE 1
           B == \E k \in 1..5 : Key(x)[k] > Key(y)[k] /\ \A j \in 1..(k - 1) : Key(x)[j] = Key(y)[j]
<1>1. /\ Key(x)[1] = x.score /\ Key(x)[2] = x.confidence /\ Key(x)[3] = f
      /\ Key(x)[4] = x.vendor /\ Key(x)[5] = x.bytes
      /\ Key(y)[1] = y.score /\ Key(y)[2] = y.confidence /\ Key(y)[3] = g
      /\ Key(y)[4] = y.vendor /\ Key(y)[5] = y.bytes
  BY DEF Key
<1>2. /\ x.score \in Int /\ x.confidence \in Int /\ y.score \in Int /\ y.confidence \in Int
      /\ f \in {0, 1} /\ g \in {0, 1} /\ (f = 0 <=> x.family = "unknown") /\ (g = 0 <=> y.family = "unknown")
      /\ (f = 0 => x.confidence <= 1) /\ (f = 1 => x.confidence >= 1)
      /\ (g = 0 => y.confidence <= 1) /\ (g = 1 => y.confidence >= 1)
  BY DEF Weighed
<1> HIDE DEF f, g
<1>3. ASSUME B
      PROVE  x.score >= y.score /\ (f = 0 /\ g = 1 => x.score > y.score)
  <2>1. PICK k \in 1..5 : Key(x)[k] > Key(y)[k] /\ \A j \in 1..(k - 1) : Key(x)[j] = Key(y)[j]
    BY <1>3
  <2>2. CASE k = 1
    BY <1>1, <1>2, <2>1, <2>2
  <2>3. CASE k # 1
    <3>1. x.score = y.score
      BY <1>1, <2>1, <2>3
    <3>2. k = 2 => x.confidence > y.confidence
      BY <1>1, <2>1
    <3>3. k > 2 => x.confidence = y.confidence
      BY <1>1, <2>1
    <3>4. k = 3 => f > g
      BY <1>1, <2>1
    <3>5. k > 3 => f = g
      BY <1>1, <2>1
    <3> QED
      BY <1>2, <2>1, <2>3, <3>1, <3>2, <3>3, <3>4, <3>5
  <2> QED
    BY <2>2, <2>3
<1>4. ASSUME ~B
      PROVE  y.score >= x.score /\ (g = 0 /\ f = 1 => y.score > x.score)
  <2>0. \A k \in 1..5 : (\A j \in 1..(k - 1) : Key(x)[j] = Key(y)[j]) => ~(Key(x)[k] > Key(y)[k])
    BY <1>4
  <2>1. ~(x.score > y.score)
    BY <1>1, <2>0
  <2>2. x.score = y.score => ~(x.confidence > y.confidence)
    <3>1. ASSUME x.score = y.score PROVE \A j \in 1..(2 - 1) : Key(x)[j] = Key(y)[j]
      BY <1>1, <3>1
    <3> QED
      BY <1>1, <2>0, <3>1
  <2>3. x.score = y.score /\ x.confidence = y.confidence => ~(f > g)
    <3>1. ASSUME x.score = y.score, x.confidence = y.confidence
          PROVE  \A j \in 1..(3 - 1) : Key(x)[j] = Key(y)[j]
      BY <1>1, <3>1
    <3> QED
      BY <1>1, <2>0, <3>1
  <2> QED
    BY <1>2, <2>1, <2>2, <2>3
<1>5. IsBetterProbeResult(x, y) <=> B
  BY DEF IsBetterProbeResult
<1> HIDE DEF B
<1> QED
  BY <1>2, <1>3, <1>4, <1>5

\* A verified result ends the probes of its port.
LEMMA KnownIsFinal ==
  ASSUME NEW x, Weighed(x), x.family # "unknown", x.score >= 100
  PROVE  Final(x)
  BY ThresholdAssumption DEF Weighed, Final, High

\* One more probe: the better of it and the best so far is the best.
LEMMA OneMoreProbe ==
  ASSUME NEW R, \A x \in R : Weighed(x), NEW s \in Seq(R), NEW n, NEW b, Tops(s, n, b), ~Final(b),
         NEW r, Weighed(r), r.name = n
  PROVE  Tops(Append(s, r), n, IF IsBetterProbeResult(r, b) THEN r ELSE b)
<1> DEFINE now == IF IsBetterProbeResult(r, b) THEN r ELSE b
           t == Append(s, r)
           m == Len(s) + 1
<1>1. /\ DOMAIN s = 1..Len(s) /\ Len(s) \in Nat /\ DOMAIN t = 1..m /\ t[m] = r
      /\ \A j \in DOMAIN s : t[j] = s[j] /\ j \in DOMAIN t /\ Weighed(s[j])
      /\ m \in DOMAIN t /\ \A j \in DOMAIN t : j = m \/ j \in DOMAIN s
  OBVIOUS
<1>2. Weighed(b) /\ b.name = n /\ (b = Base(n) \/ \E j \in DOMAIN s : b = s[j])
      /\ (\A j \in DOMAIN s : s[j].score <= b.score) /\ Settles(s, b)
  BY DEF Tops
<1>3. Weighed(now) /\ now.name = n /\ (now = r \/ now = b)
  BY <1>2
<1>4. b.score \in Int /\ r.score \in Int /\ \A j \in DOMAIN s : s[j].score \in Int
  BY <1>1, <1>2 DEF Weighed
<1>5. /\ now = r => b.score <= r.score /\ (r.family = "unknown" /\ b.family # "unknown" => r.score > b.score)
      /\ now # r => r.score <= b.score /\ (b.family = "unknown" /\ r.family # "unknown" => b.score > r.score)
  BY <1>2, BetterIs
<1>6. Base(n).score = 0 /\ Base(n).family = "unknown"
  BY DEF Base
<1> HIDE DEF now, t, m
<1>7. now = Base(n) \/ \E j \in DOMAIN t : now = t[j]
  <2>1. CASE now = r
    BY <1>1, <2>1
  <2>2. CASE now = b
    BY <1>1, <1>2, <2>2
  <2> QED
    BY <1>3, <2>1, <2>2
<1>8. \A j \in DOMAIN t : t[j].score <= now.score
  <2> SUFFICES ASSUME NEW j \in DOMAIN t PROVE t[j].score <= now.score
    OBVIOUS
  <2>1. CASE j = m
    BY <1>1, <1>3, <1>4, <1>5, <2>1
  <2>2. CASE j \in DOMAIN s
    BY <1>1, <1>2, <1>3, <1>4, <1>5, <2>2
  <2> QED
    BY <1>1, <2>1, <2>2
\* What is outweighed stays so.
<1>9. \A j \in DOMAIN s : Heavier(s, j) => Heavier(t, j)
  BY <1>1 DEF Heavier
\* The best so far was heard.
<1>10. ASSUME b.family = "unknown", r.family # "unknown", b.score > r.score PROVE Heavier(t, m)
  <2>1. r.score >= 10
    BY <1>10 DEF Weighed
  <2>2. b # Base(n)
    BY <1>4, <1>6, <1>10, <2>1
  <2>3. PICK k \in DOMAIN s : b = s[k]
    BY <1>2, <2>2
  <2> QED
    BY <1>1, <1>10, <2>3 DEF Heavier
<1>11. ASSUME NEW j \in DOMAIN t
       PROVE  /\ t[j].verified => now = t[j] \/ Heavier(t, j)
              /\ t[j].family # "unknown" => now.family # "unknown" \/ Heavier(t, j)
  <2>1. CASE j = m
    <3>1. t[j] = r
      BY <1>1, <2>1
    <3>2. ASSUME r.verified, now # r PROVE Heavier(t, m)
      <4>1. r.family # "unknown" /\ r.score >= 100
        BY <3>2 DEF Weighed
      <4>2. b.score >= 100
        BY <1>4, <1>5, <3>2, <4>1
      <4>3. b.family = "unknown"
        BY <1>2, <4>2, KnownIsFinal
      <4> QED
        BY <1>5, <1>10, <3>2, <4>1, <4>3
    <3>3. ASSUME r.family # "unknown", now.family = "unknown" PROVE Heavier(t, m)
      <4>1. now = b /\ now # r
        BY <1>3, <3>3
      <4> QED
        BY <1>5, <1>10, <3>3, <4>1
    <3> QED
      BY <2>1, <3>1, <3>2, <3>3
  <2>2. CASE j \in DOMAIN s
    <3>1. t[j] = s[j] /\ Weighed(s[j])
      BY <1>1, <2>2
    <3>2. /\ s[j].verified => b = s[j] \/ Heavier(s, j)
          /\ s[j].family # "unknown" => b.family # "unknown" \/ Heavier(s, j)
      BY <1>2, <2>2 DEF Settles
    <3>3. ASSUME s[j].verified PROVE Heavier(t, j)
      <4>1. s[j].family # "unknown" /\ s[j].score >= 100
        BY <3>1, <3>3 DEF Weighed
      <4>2. b # s[j]
        BY <3>1, <4>1, KnownIsFinal
      <4> QED
        BY <1>9, <2>2, <3>2, <3>3, <4>2
    <3>4. ASSUME s[j].family # "unknown", now.family = "unknown" PROVE Heavier(t, j)
      <4>1. CASE b.family = "unknown"
        BY <1>9, <2>2, <3>2, <3>4, <4>1
      <4>2. CASE b.family # "unknown"
        <5>1. now = r
          BY <1>3, <3>4, <4>2
        <5>2. r.score > b.score /\ s[j].score <= b.score
          BY <1>2, <1>5, <2>2, <3>4, <4>2, <5>1
        <5>3. r.score > s[j].score
          BY <1>4, <2>2, <5>2
        <5> QED
          BY <1>1, <3>1, <3>4, <5>1, <5>3 DEF Heavier
      <4> QED
        BY <4>1, <4>2
    <3> QED
      BY <3>1, <3>3, <3>4
  <2> QED
    BY <1>1, <2>1, <2>2
<1>12. Settles(t, now)
  BY <1>11 DEF Settles
<1>13. Tops(t, n, now)
  BY <1>3, <1>7, <1>8, <1>12 DEF Tops
<1> QED
  BY <1>13 DEF t, now

\* Before a port is probed there is nothing to lose.
LEMMA NothingProbed ==
  ASSUME NEW n
  PROVE  Tops(<<>>, n, Base(n)) /\ ~Final(Base(n))
<1>1. Weighed(Base(n)) /\ Base(n).name = n /\ Base(n).confidence = 0
  BY BaseWeighed, Zenon
<1>2. Settles(<<>>, Base(n))
  BY DEF Settles
<1> QED
  BY <1>1, <1>2 DEF Tops, Final, High

\* What is reported of a port is its best probe.
LEMMA ReportSettles ==
  ASSUME NEW R, \A x \in R : Weighed(x), NEW s \in Seq(R), NEW n, NEW now, Tops(s, n, now)
  PROVE  LET report == IF now.family = "unknown" THEN [now EXCEPT !.baud = 0] ELSE now
         IN Weighed(report) /\ report.name = n /\ Settles(s, report)
<1> DEFINE report == IF now.family = "unknown" THEN [now EXCEPT !.baud = 0] ELSE now
<1>1. Weighed(now) /\ now.name = n /\ Settles(s, now)
  BY DEF Tops
<1>2. /\ Weighed([now EXCEPT !.baud = 0]) /\ [now EXCEPT !.baud = 0].name = n
      /\ [now EXCEPT !.baud = 0].family = now.family
  BY <1>1, StaysWeighed
<1>3. Weighed(report) /\ report.name = n /\ report.family = now.family
      /\ (now.family # "unknown" => report = now)
  BY <1>1, <1>2
<1> HIDE DEF report
<1>4. ASSUME NEW j \in DOMAIN s
      PROVE  /\ s[j].verified => report = s[j] \/ Heavier(s, j)
             /\ s[j].family # "unknown" => report.family # "unknown" \/ Heavier(s, j)
  <2>1. /\ s[j].verified => now = s[j] \/ Heavier(s, j)
        /\ s[j].family # "unknown" => now.family # "unknown" \/ Heavier(s, j)
    BY <1>1 DEF Settles
  <2>2. s[j].verified => s[j].family # "unknown"
    BY DEF Weighed
  <2> QED
    BY <1>3, <2>1, <2>2
<1>5. Settles(s, report)
  BY <1>4 DEF Settles
<1> QED
  BY <1>3, <1>5 DEF report

-----------------------------------------------------------------------------
(* What discovery has found so far                                         *)

Listed(s) == s \in DiscoverSerialPorts \/ \E n \in Names : s = <<ExplicitCandidate(n)>>

AllWeighed ==
  \E R : /\ \A x \in R : Weighed(x)
         /\ probes \in [DOMAIN ports -> Seq(R)] /\ results \in Seq(R)

Surveyed ==
  /\ asks \in {"list", "open", "read", "stop", "done", "taken", "planned"}
  /\ ~(Probing \/ asks = "done") => results = <<>>
  /\ Probing \/ asks = "done" =>
       /\ Listed(ports) /\ AllWeighed
       /\ Len(results) = IF Probing THEN port - 1 ELSE Len(ports)
       /\ \A i \in DOMAIN results :
            results[i].name = ports[i] /\ Settles(probes[i], results[i])
  /\ Probing =>
       /\ port \in DOMAIN ports
       /\ \E T : heard \in Seq(T)
       /\ Tops(probes[port], ports[port], best) /\ ~Final(best)
       /\ \A i \in DOMAIN ports : i > port => probes[i] = <<>>
  /\ asks \in {"read", "stop"} => Weighed(probe) /\ probe.name = ports[port]

\* The names that are looked at.
Chosen == {n \in Names : PlatformUarts \/ n.source # "platform_uart"}

LEMMA ListedIs ==
  ASSUME NEW s, Listed(s)
  PROVE  /\ DOMAIN s = 1..Len(s) /\ Len(s) \in Nat
         /\ \A i, j \in DOMAIN s : i < j => Precedes(s[i], s[j])
<1>1. CASE s \in DiscoverSerialPorts
  <2> DEFINE S == Preferred(Chosen)
  <2>1. S \subseteq Names /\ s \in Sorted(S)
    BY <1>1 DEF DiscoverSerialPorts, Chosen, Preferred
  <2> HIDE DEF S
  <2>2. s \in Seq(S) /\ \A i, j \in DOMAIN s : i < j => Precedes(s[i], s[j])
    BY <2>1, SortedIs
  <2> QED
    BY <2>2
<1>2. CASE \E n \in Names : s = <<ExplicitCandidate(n)>>
  <2>1. PICK n : s = <<n>>
    BY <1>2
  <2>2. DOMAIN s = 1..1 /\ Len(s) = 1
    BY <2>1
  <2> QED
    BY <2>2
<1> QED
  BY <1>1, <1>2 DEF Listed

LEMMA SeqGrows ==
  ASSUME NEW S, NEW T, S \subseteq T
  PROVE  Seq(S) \subseteq Seq(T)
  OBVIOUS

LEMMA ProbeEndsSurveyed ==
  ASSUME Surveyed, Probing, NEW r, Weighed(r), r.name = ports[port], ProbeEnds(r)
  PROVE  Surveyed'
<1> DEFINE now == IF IsBetterProbeResult(r, best) THEN r ELSE best
           final == rate = Len(bauds) \/ (now.confidence = High /\ now.score >= Threshold)
           report == IF now.family = "unknown" THEN [now EXCEPT !.baud = 0] ELSE now
           n == ports[port]
           s == probes[port]
           t == Append(s, r)
<1>1. /\ Listed(ports) /\ AllWeighed /\ Len(results) = port - 1
      /\ port \in DOMAIN ports
      /\ Tops(s, n, best) /\ ~Final(best)
      /\ \A i \in DOMAIN ports : i > port => probes[i] = <<>>
      /\ \A i \in DOMAIN results : results[i].name = ports[i] /\ Settles(probes[i], results[i])
  BY DEF Surveyed, Probing
<1>2. /\ probes' = [probes EXCEPT ![port] = t] /\ ports' = ports
      /\ IF final
         THEN results' = Append(results, report) /\ AtPort(port + 1)
         ELSE /\ asks' = "open" /\ best' = now /\ heard' = <<>>
              /\ port' = port /\ results' = results
  BY DEF ProbeEnds
<1>3. DOMAIN ports = 1..Len(ports) /\ Len(ports) \in Nat
  BY <1>1, ListedIs
<1>4. PICK R : /\ \A x \in R : Weighed(x)
               /\ probes \in [DOMAIN ports -> Seq(R)] /\ results \in Seq(R)
  BY <1>1 DEF AllWeighed
<1>5. s \in Seq(R)
  BY <1>1, <1>4
<1>6. Tops(t, n, now)
  <2> HIDE DEF n, s
  <2>1. r.name = n
    BY DEF n
  <2> QED
    BY <1>1, <1>4, <1>5, <2>1, OneMoreProbe
<1> DEFINE Q == R \cup {r, report}
<1>7. t \in Seq(R \cup {r}) /\ \A x \in R \cup {r} : Weighed(x)
  BY <1>4, <1>5
<1>8. Weighed(report) /\ report.name = n /\ Settles(t, report)
  <2> HIDE DEF now, t, n
  <2> QED
    BY <1>6, <1>7, ReportSettles
<1>9. R \subseteq Q /\ R \cup {r} \subseteq Q /\ \A x \in Q : Weighed(x)
  BY <1>4, <1>8
<1> HIDE DEF report, t, Q
<1>10. t \in Seq(Q) /\ results \in Seq(Q) /\ probes \in [DOMAIN ports -> Seq(Q)]
  BY <1>4, <1>7, <1>9, SeqGrows
<1>11. probes' \in [DOMAIN ports' -> Seq(Q)] /\ probes'[port] = t
       /\ \A i \in DOMAIN ports : i # port => probes'[i] = probes[i]
  BY <1>1, <1>2, <1>10
<1>12. Len(results) \in Nat /\ DOMAIN results = 1..Len(results)
  BY <1>4
<1>13. port \in Nat /\ port # 0
  BY <1>1, <1>3
<1>14. ASSUME NEW i \in DOMAIN results
       PROVE  /\ i \in DOMAIN ports /\ i # port
              /\ results[i].name = ports'[i] /\ Settles(probes'[i], results[i])
  <2>1. i \in DOMAIN ports /\ i # port
    BY <1>1, <1>3, <1>12, <1>13
  <2> QED
    BY <1>1, <1>2, <1>11, <2>1
<1>15. report \in Q
  BY DEF Q
<1>16. CASE final
  <2>1. /\ results' = Append(results, report)
        /\ asks' = IF port + 1 > Len(ports) THEN "done" ELSE "open"
        /\ port' = port + 1 /\ heard' = <<>>
        /\ best' = IF port + 1 > Len(ports) THEN <<>> ELSE Base(ports[port + 1])
    BY <1>2, <1>16 DEF AtPort
  <2>2. results' \in Seq(Q) /\ Len(results') = port
    <3>1. Append(results, report) \in Seq(Q) /\ Len(Append(results, report)) = Len(results) + 1
      BY <1>10, <1>15
    <3> QED
      BY <1>1, <1>12, <1>13, <2>1, <3>1
  <2>3. AllWeighed'
    BY <1>9, <1>11, <2>2 DEF AllWeighed
  <2>4. ASSUME NEW i \in DOMAIN results'
        PROVE  results'[i].name = ports'[i] /\ Settles(probes'[i], results'[i])
    <3>1. CASE i \in DOMAIN results
      <4>1. results'[i] = results[i]
        BY <1>10, <1>15, <2>1, <3>1
      <4> QED
        BY <1>14, <3>1, <4>1
    <3>2. CASE i \notin DOMAIN results
      <4>1. i = port /\ results'[i] = report
        BY <1>1, <1>10, <1>12, <1>13, <1>15, <2>1, <2>2, <3>2
      <4> QED
        BY <1>2, <1>8, <1>11, <4>1 DEF n
    <3> QED
      BY <3>1, <3>2
  <2>5. CASE port + 1 > Len(ports)
    <3>1. asks' = "done" /\ Len(results') = Len(ports')
      BY <1>1, <1>2, <1>3, <1>13, <2>1, <2>2, <2>5
    <3>2. Listed(ports')
      BY <1>1, <1>2
    <3> QED
      BY <2>3, <2>4, <3>1, <3>2 DEF Surveyed, Probing
  <2>6. CASE ~(port + 1 > Len(ports))
    <3>1. asks' = "open" /\ best' = Base(ports'[port']) /\ port' = port + 1 /\ port' \in DOMAIN ports'
      BY <1>1, <1>2, <1>3, <1>13, <2>1, <2>6
    <3>2. Len(results') = port' - 1 /\ port' > port
      BY <1>13, <2>2, <3>1
    <3>3. ASSUME NEW i \in DOMAIN ports', i >= port' PROVE probes'[i] = <<>>
      <4>1. i > port /\ i # port /\ i \in DOMAIN ports
        BY <1>2, <1>3, <1>13, <3>1, <3>3
      <4> QED
        BY <1>1, <1>11, <4>1
    <3>4. probes'[port'] = <<>>
      BY <1>2, <1>3, <1>13, <3>1, <3>3
    <3>5. Tops(probes'[port'], ports'[port'], best') /\ ~Final(best')
      BY <3>1, <3>4, NothingProbed
    <3>6. heard' \in Seq({})
      BY <2>1
    <3>7. Listed(ports')
      BY <1>1, <1>2
    <3>8. \A i \in DOMAIN ports' : i > port' => probes'[i] = <<>>
      BY <1>2, <1>3, <1>13, <3>1, <3>3
    <3> QED
      BY <2>3, <2>4, <3>1, <3>2, <3>5, <3>6, <3>7, <3>8 DEF Surveyed, Probing
  <2> QED
    BY <2>5, <2>6
<1>17. CASE ~final
  <2>1. asks' = "open" /\ best' = now /\ heard' = <<>> /\ port' = port /\ results' = results
    BY <1>2, <1>17
  <2>2. AllWeighed'
    BY <1>9, <1>10, <1>11, <2>1 DEF AllWeighed
  <2>3. Tops(probes'[port'], ports'[port'], best')
    BY <1>2, <1>6, <1>11, <2>1 DEF n
  <2>4. ~Final(best')
    BY <1>17, <2>1 DEF Final
  <2>5. \A i \in DOMAIN ports' : i > port' => probes'[i] = <<>>
    BY <1>1, <1>2, <1>3, <1>11, <1>13, <2>1
  <2>6. heard' \in Seq({}) /\ Listed(ports') /\ port' \in DOMAIN ports' /\ Len(results') = port' - 1
    BY <1>1, <1>2, <2>1
  <2>7. \A i \in DOMAIN results' : results'[i].name = ports'[i] /\ Settles(probes'[i], results'[i])
    BY <1>14, <2>1
  <2> QED
    BY <2>1, <2>2, <2>3, <2>4, <2>5, <2>6, <2>7 DEF Surveyed, Probing
<1> QED
  BY <1>16, <1>17

LEMMA ReadSurveyed ==
  ASSUME Surveyed, Read
  PROVE  Surveyed'
<1>1. /\ asks = "read" /\ world' = world /\ bauds' = bauds /\ ports' = ports /\ port' = port
      /\ best' = best /\ results' = results /\ probes' = probes
  BY DEF Read
<1>2. PICK T : heard \in Seq(T)
  BY <1>1 DEF Surveyed, Probing
<1>3. PICK k \in 1 .. 2 : \E chunk \in [1 .. k -> Sends] : heard' = heard \o chunk
  BY DEF Read
<1>4. PICK chunk \in [1 .. k -> Sends] : heard' = heard \o chunk
  BY <1>3
<1> DEFINE U == T \cup Sends
<1>5. heard' \in Seq(U)
  <2>1. chunk \in Seq(Sends)
    BY <1>4
  <2>2. T \subseteq U /\ Sends \subseteq U
    OBVIOUS
  <2> HIDE DEF U
  <2>3. chunk \in Seq(U) /\ heard \in Seq(U)
    BY <1>2, <2>1, <2>2, SeqGrows
  <2> QED
    BY <1>4, <2>3, ConcatProperties
<1> HIDE DEF U
<1> DEFINE n == ports[port]
           w == world[n.device]
           weighed == Analyze(n, bauds[rate])
           r == IF "version" \in Range(heard') THEN Answered(weighed, w.model) ELSE weighed
<1>6. probe' = r /\ asks' \in {"stop", "read"}
  BY DEF Read
<1>7. Weighed(weighed) /\ weighed.name = n
  <2> HIDE DEF n
  <2> QED
    BY <1>5, AnalyzeWeighed
<1> HIDE DEF weighed
<1>8. Weighed(r) /\ r.name = n
  BY <1>7, AnsweredWeighed
<1>9. AllWeighed => AllWeighed'
  BY <1>1 DEF AllWeighed
<1> HIDE DEF r
<1> QED
  BY <1>1, <1>5, <1>6, <1>8, <1>9 DEF Surveyed, Probing, Tops

LEMMA ListSurveyed ==
  ASSUME Surveyed, List
  PROVE  Surveyed'
<1>1. /\ asks = "list" /\ results' = results /\ probes' = [i \in DOMAIN ports' |-> <<>>]
      /\ AtPort(1) /\ Listed(ports')
  BY DEF List, Listed
<1>2. DOMAIN ports' = 1..Len(ports') /\ Len(ports') \in Nat
  BY <1>1, ListedIs
<1>3. results' = <<>>
  BY <1>1 DEF Surveyed, Probing
<1>4. /\ asks' = IF 1 > Len(ports') THEN "done" ELSE "open"
      /\ port' = 1 /\ heard' = <<>>
      /\ best' = IF 1 > Len(ports') THEN <<>> ELSE Base(ports'[1])
  BY <1>1 DEF AtPort
<1>5. AllWeighed'
  <2>1. probes' \in [DOMAIN ports' -> Seq({})] /\ results' \in Seq({}) /\ \A x \in {} : Weighed(x)
    BY <1>1, <1>3
  <2> QED
    BY <2>1 DEF AllWeighed
<1>6. DOMAIN results' = {} /\ Len(results') = 0
  BY <1>3
<1>7. CASE 1 > Len(ports')
  <2>1. asks' = "done" /\ Len(ports') = 0
    BY <1>2, <1>4, <1>7
  <2> QED
    BY <1>1, <1>5, <1>6, <2>1 DEF Surveyed, Probing
<1>8. CASE ~(1 > Len(ports'))
  <2>1. asks' = "open" /\ port' \in DOMAIN ports' /\ port' = 1 /\ best' = Base(ports'[port'])
    BY <1>2, <1>4, <1>8
  <2>2. \A i \in DOMAIN ports' : probes'[i] = <<>>
    BY <1>1
  <2>3. Tops(probes'[port'], ports'[port'], best') /\ ~Final(best')
    BY <2>1, <2>2, NothingProbed
  <2>4. heard' \in Seq({})
    BY <1>4
  <2>5. Len(results') = port' - 1
    BY <1>6, <2>1
  <2> QED
    BY <1>1, <1>5, <1>6, <2>1, <2>2, <2>3, <2>4, <2>5 DEF Surveyed, Probing
<1> QED
  BY <1>7, <1>8

LEMMA OpenSurveyed ==
  ASSUME Surveyed, Open
  PROVE  Surveyed'
<1>1. /\ asks = "open" /\ asks' = "read"
      /\ ports' = ports /\ port' = port /\ heard' = heard
      /\ best' = best /\ results' = results /\ probes' = probes
      /\ probe' = [Base(ports[port]) EXCEPT !.baud = bauds[rate]]
  BY DEF Open
<1>2. Weighed(probe') /\ probe'.name = ports[port]
  BY <1>1, BaseWeighed, Zenon
<1>3. AllWeighed => AllWeighed'
  BY <1>1 DEF AllWeighed
<1> QED
  BY <1>1, <1>2, <1>3 DEF Surveyed, Probing, Tops

LEMMA DiscoversSurveyed ==
  ASSUME Surveyed, DiscoveryNext
  PROVE  Surveyed'
<1>1. CASE List
  BY <1>1, ListSurveyed
<1>2. CASE OpenFails
  <2> DEFINE r == [Base(ports[port]) EXCEPT !.baud = bauds[rate], !.reason = "failed"]
  <2>1. Probing /\ ProbeEnds(r)
    BY <1>2 DEF OpenFails, Probing
  <2>2. Weighed(r) /\ r.name = ports[port]
    <3>1. Weighed(r)
      BY BaseWeighed, Zenon
    <3>2. r.name = ports[port]
      BY DEF Base
    <3> QED
      BY <3>1, <3>2
  <2> HIDE DEF r
  <2> QED
    BY <2>1, <2>2, ProbeEndsSurveyed
<1>3. CASE Open
  BY <1>3, OpenSurveyed
<1>4. CASE Read
  BY <1>4, ReadSurveyed
<1>5. CASE ReadEnds
  <2> DEFINE r == IF heard = <<>> THEN [probe EXCEPT !.reason = "no_data"] ELSE probe
  <2>1. asks \in {"read", "stop"} /\ Probing /\ ProbeEnds(r)
    BY <1>5 DEF ReadEnds, Probing
  <2>2. Weighed(probe) /\ probe.name = ports[port]
    BY <2>1 DEF Surveyed
  <2>3. Weighed(r) /\ r.name = ports[port]
    BY <2>2, StaysWeighed
  <2> HIDE DEF r
  <2> QED
    BY <2>1, <2>3, ProbeEndsSurveyed
<1> QED
  BY <1>1, <1>2, <1>3, <1>4, <1>5 DEF DiscoveryNext

LEMMA SurveyedAlways == AutoConfigSpec => []Surveyed
<1>1. AutoConfigInit => Surveyed
  BY DEF AutoConfigInit, DiscoveryInit, Surveyed, Probing
<1>2. Surveyed /\ [AutoConfigNext]_autoVars => Surveyed'
  <2> SUFFICES ASSUME Surveyed, [AutoConfigNext]_autoVars PROVE Surveyed'
    OBVIOUS
  <2>1. CASE Discovers
    BY <2>1, DiscoversSurveyed DEF Discovers
  <2>2. CASE Takes
    <3>1. asks' = "taken" /\ results' = <<>>
      BY <2>2 DEF Takes
    <3> QED
      BY <3>1 DEF Surveyed, Probing
  <2>3. CASE PlansUndiscovered \/ PlansDiscovered
    <3>1. asks \in {"list", "taken"} /\ asks' = "planned" /\ results' = results
      BY <2>3 DEF PlansUndiscovered, PlansDiscovered, Prepares
    <3> QED
      BY <3>1 DEF Surveyed, Probing
  <2>4. CASE UNCHANGED autoVars
    <3>1. /\ asks' = asks /\ ports' = ports /\ port' = port /\ heard' = heard /\ probe' = probe
          /\ best' = best /\ results' = results /\ probes' = probes
      BY <2>4 DEF autoVars, discoveryVars
    <3>2. AllWeighed => AllWeighed'
      BY <3>1 DEF AllWeighed
    <3> QED
      BY <3>1, <3>2 DEF Surveyed, Probing, Tops
  <2> QED
    BY <2>1, <2>2, <2>3, <2>4 DEF AutoConfigNext
<1> QED
  BY <1>1, <1>2, PTL DEF AutoConfigSpec

-----------------------------------------------------------------------------
(* The order of the results, and what discovery reports                    *)

\* A receiver that is known comes before what is not known.
LEMMA KnownFirst ==
  ASSUME NEW x, Weighed(x), NEW y, Weighed(y), x.family # "unknown", y.family = "unknown"
  PROVE  x.confidence > y.confidence \/ (x.confidence = y.confidence /\ x.score > y.score)
<1>1. /\ x.confidence \in Int /\ y.confidence \in Int /\ x.score \in Int /\ y.score \in Int
      /\ x.confidence >= 1 /\ x.score >= 10 /\ (~AllowNmea => x.confidence >= 2)
      /\ y.confidence <= 1 /\ (y.confidence = 1 /\ AllowNmea => y.score <= 0)
  BY DEF Weighed
<1>2. CASE x.confidence > y.confidence
  BY <1>2
<1>3. CASE ~(x.confidence > y.confidence)
  <2>1. x.confidence = 1 /\ y.confidence = 1
    BY <1>1, <1>3
  <2>2. AllowNmea
    BY <1>1, <2>1
  <2> QED
    BY <1>1, <2>1, <2>2
<1> QED
  BY <1>2, <1>3

\* Of the results x and y at i and j: the order in which they are sorted.
InOrder(i, j, x, y) ==
  LET f(z) == IF z.family = "unknown" THEN 0 ELSE 1
  IN \/ x.confidence > y.confidence
     \/ x.confidence = y.confidence /\ x.score > y.score
     \/ x.confidence = y.confidence /\ x.score = y.score /\ f(x) > f(y)
     \/ x.confidence = y.confidence /\ x.score = y.score /\ f(x) = f(y) /\ x.bytes > y.bytes
     \/ x.confidence = y.confidence /\ x.score = y.score /\ f(x) = f(y) /\ x.bytes = y.bytes /\ i < j

LEMMA OrderIsTotal ==
  ASSUME NEW x, Weighed(x), NEW y, Weighed(y), NEW i \in Nat, NEW j \in Nat, i # j
  PROVE  InOrder(i, j, x, y) \/ InOrder(j, i, y, x)
<1>1. /\ x.confidence \in Int /\ y.confidence \in Int /\ x.score \in Int /\ y.score \in Int
      /\ x.bytes \in Int /\ y.bytes \in Int
  BY DEF Weighed
<1> QED
  BY <1>1 DEF InOrder

LEMMA OrderIsTransitive ==
  ASSUME NEW x, Weighed(x), NEW y, Weighed(y), NEW z, Weighed(z),
         NEW i \in Nat, NEW j \in Nat, NEW k \in Nat,
         InOrder(i, j, x, y), InOrder(j, k, y, z)
  PROVE  InOrder(i, k, x, z)
<1>1. /\ x.confidence \in Int /\ y.confidence \in Int /\ z.confidence \in Int
      /\ x.score \in Int /\ y.score \in Int /\ z.score \in Int
      /\ x.bytes \in Int /\ y.bytes \in Int /\ z.bytes \in Int
  BY DEF Weighed
<1> QED
  BY <1>1 DEF InOrder

LEMMA OrderSorts ==
  ASSUME NEW x, Weighed(x), NEW y, Weighed(y), NEW i, NEW j,
         i < j => Precedes(x.name, y.name), InOrder(i, j, x, y)
  PROVE  SortsBefore(x, y)
<1> DEFINE f(z) == IF z.family = "unknown" THEN 0 ELSE 1
           key(z) == <<z.confidence, z.score, f(z), z.bytes>>
<1>1. /\ key(x)[1] = x.confidence /\ key(x)[2] = x.score /\ key(x)[3] = f(x) /\ key(x)[4] = x.bytes
      /\ key(y)[1] = y.confidence /\ key(y)[2] = y.score /\ key(y)[3] = f(y) /\ key(y)[4] = y.bytes
  OBVIOUS
<1>2. SortsBefore(x, y) <=>
        \/ \E k \in 1..4 : key(x)[k] > key(y)[k] /\ \A m \in 1..(k - 1) : key(x)[m] = key(y)[m]
        \/ key(x) = key(y) /\ Precedes(x.name, y.name)
  BY DEF SortsBefore
<1>3. \/ x.confidence > y.confidence
      \/ x.confidence = y.confidence /\ x.score > y.score
      \/ x.confidence = y.confidence /\ x.score = y.score /\ f(x) > f(y)
      \/ x.confidence = y.confidence /\ x.score = y.score /\ f(x) = f(y) /\ x.bytes > y.bytes
      \/ x.confidence = y.confidence /\ x.score = y.score /\ f(x) = f(y) /\ x.bytes = y.bytes /\ i < j
  BY DEF InOrder
<1>4. CASE x.confidence > y.confidence
  <2>1. key(x)[1] > key(y)[1] /\ \A m \in 1..(1 - 1) : key(x)[m] = key(y)[m]
    BY <1>1, <1>4
  <2> QED
    BY <1>2, <2>1
<1>5. CASE x.confidence = y.confidence /\ x.score > y.score
  <2>1. key(x)[2] > key(y)[2] /\ \A m \in 1..(2 - 1) : key(x)[m] = key(y)[m]
    BY <1>1, <1>5
  <2> QED
    BY <1>2, <2>1
<1>6. CASE x.confidence = y.confidence /\ x.score = y.score /\ f(x) > f(y)
  <2>1. key(x)[3] > key(y)[3] /\ \A m \in 1..(3 - 1) : key(x)[m] = key(y)[m]
    BY <1>1, <1>6
  <2> QED
    BY <1>2, <2>1
<1>7. CASE x.confidence = y.confidence /\ x.score = y.score /\ f(x) = f(y) /\ x.bytes > y.bytes
  <2>1. key(x)[4] > key(y)[4] /\ \A m \in 1..(4 - 1) : key(x)[m] = key(y)[m]
    BY <1>1, <1>7
  <2> QED
    BY <1>2, <2>1
<1>8. CASE x.confidence = y.confidence /\ x.score = y.score /\ f(x) = f(y) /\ x.bytes = y.bytes /\ i < j
  <2>1. key(x) = key(y)
    BY <1>8
  <2> QED
    BY <1>2, <1>8, <2>1
<1> QED
  BY <1>3, <1>4, <1>5, <1>6, <1>7, <1>8

\* Results that are all weighed have a first one.
LEMMA FirstResult ==
  ASSUME NEW s, NEW n \in Nat, n # 0, \A i \in 1..n : Weighed(s[i])
  PROVE  \E i \in 1..n : \A j \in 1..n \ {i} : InOrder(i, j, s[i], s[j])
<1> DEFINE First(i, m) == \A j \in 1..m \ {i} : InOrder(i, j, s[i], s[j])
           Without == {m \in 1..n : ~ \E i \in 1..m : First(i, m)}
<1>1. Without = {}
  <2> SUFFICES ASSUME Without # {} PROVE FALSE
    OBVIOUS
  <2>1. Without \subseteq Nat
    OBVIOUS
  <2>2. PICK m \in Without : \A k \in Without : m <= k
    BY <2>1, Least
  <2>3. m # 1
    <3>1. First(1, 1)
      OBVIOUS
    <3> QED
      BY <2>2, <3>1
  <2> DEFINE l == m - 1
  <2>4. l \in 1..n /\ m = l + 1 /\ m \in 1..n /\ l \in Nat /\ l \notin Without
    <3> HIDE DEF First
    <3>1. m \in 1..n /\ m # 1 /\ m \in Nat
      BY <2>2, <2>3
    <3>2. l \in 1..n /\ m = l + 1 /\ l \in Nat /\ ~(m <= l)
      BY <3>1
    <3> QED
      BY <2>2, <3>1, <3>2
  <2>5. PICK i \in 1..l : First(i, l)
    BY <2>4
  <2> HIDE DEF l
  <2>6. /\ i \in 1..n /\ i \in 1..m /\ i # m /\ i \in Nat /\ m \in Nat /\ m \in 1..m
        /\ \A j \in 1..m : j = m \/ j \in 1..l
    BY <2>4
  <2>7. CASE InOrder(i, m, s[i], s[m])
    <3>1. First(i, m)
      BY <2>5, <2>6, <2>7
    <3> QED
      BY <2>2, <2>6, <3>1
  <2>8. CASE InOrder(m, i, s[m], s[i])
    <3>1. ASSUME NEW j \in 1..m \ {m} PROVE InOrder(m, j, s[m], s[j])
      <4>1. j \in 1..l /\ j \in 1..n /\ j \in Nat
        BY <2>4, <2>6
      <4>2. CASE j = i
        BY <2>8, <4>2
      <4>3. CASE j # i
        <5>1. InOrder(i, j, s[i], s[j])
          BY <2>5, <4>1, <4>3
        <5>2. Weighed(s[m]) /\ Weighed(s[i]) /\ Weighed(s[j])
          BY <2>4, <2>6, <4>1
        <5> QED
          BY <2>6, <2>8, <4>1, <5>1, <5>2, OrderIsTransitive
      <4> QED
        BY <4>2, <4>3
    <3>2. First(m, m)
      BY <3>1
    <3> QED
      BY <2>2, <2>6, <3>2
  <2> QED
    BY <2>4, <2>6, <2>7, <2>8, OrderIsTotal
<1>2. n \in 1..n /\ n \notin Without
  BY <1>1
<1> QED
  BY <1>2

\* What is known of any of the results.
LEMMA ResultsKnown ==
  ASSUME Surveyed, results # <<>>
  PROVE  /\ Probing \/ asks = "done"
         /\ DOMAIN results = 1..Len(results) /\ Len(results) \in Nat /\ Len(results) # 0
         /\ DOMAIN results \subseteq DOMAIN ports /\ DOMAIN probes = DOMAIN ports
         /\ \A i \in DOMAIN results :
              Weighed(results[i]) /\ results[i].name = ports[i] /\ Settles(probes[i], results[i])
<1>1. Probing \/ asks = "done"
  BY DEF Surveyed
<1>2. /\ Listed(ports) /\ AllWeighed
      /\ Len(results) = IF Probing THEN port - 1 ELSE Len(ports)
      /\ \A i \in DOMAIN results : results[i].name = ports[i] /\ Settles(probes[i], results[i])
      /\ Probing => port \in DOMAIN ports
  BY <1>1 DEF Surveyed
<1>3. PICK R : /\ \A x \in R : Weighed(x)
               /\ probes \in [DOMAIN ports -> Seq(R)] /\ results \in Seq(R)
  BY <1>2 DEF AllWeighed
<1>4. DOMAIN results = 1..Len(results) /\ Len(results) \in Nat /\ Len(results) # 0
  BY <1>3
<1>5. DOMAIN ports = 1..Len(ports) /\ Len(ports) \in Nat
  BY <1>2, ListedIs
<1>6. DOMAIN results \subseteq DOMAIN ports
  BY <1>2, <1>4, <1>5
<1>7. \A i \in DOMAIN results : Weighed(results[i])
  BY <1>3
<1> QED
  BY <1>1, <1>2, <1>3, <1>4, <1>6, <1>7

\* What answered is what is reported, and what is known comes first.
LEMMA Reports == Surveyed => DiscoveryReports
<1> SUFFICES ASSUME Surveyed PROVE DiscoveryReports
  OBVIOUS
<1>1. CASE results = <<>>
  <2>1. DOMAIN results = {}
    BY <1>1
  <2> QED
    BY <2>1 DEF DiscoveryReports
<1>2. CASE results # <<>>
  <2>1. /\ DOMAIN results = 1..Len(results) /\ Len(results) \in Nat /\ Len(results) # 0
        /\ DOMAIN results \subseteq DOMAIN ports
        /\ \A i \in DOMAIN results :
             Weighed(results[i]) /\ results[i].name = ports[i] /\ Settles(probes[i], results[i])
    BY <1>2, ResultsKnown
  <2>2. ASSUME NEW i \in DOMAIN results, NEW j \in DOMAIN probes[i]
        PROVE  /\ probes[i][j].verified => results[i] = probes[i][j] \/ Outweighed(i, j)
               /\ probes[i][j].family # "unknown" =>
                    results[i].family # "unknown" \/ Outweighed(i, j)
    BY <2>1 DEF Settles, Heavier, Outweighed
  <2>3. ASSUME NEW k \in DOMAIN results, results[k].family # "unknown"
        PROVE  \E i \in DOMAIN results : SortedFirst(i) /\ results[i].family # "unknown"
    <3> DEFINE s == results
               n == Len(results)
    <3>1. n \in Nat /\ n # 0 /\ \A i \in 1..n : Weighed(s[i])
      BY <2>1
    <3> HIDE DEF s, n
    <3>2. PICK i \in 1..n : \A j \in 1..n \ {i} : InOrder(i, j, s[i], s[j])
      BY <3>1, FirstResult
    <3>3. i \in DOMAIN results /\ \A j \in DOMAIN results \ {i} : InOrder(i, j, results[i], results[j])
      BY <2>1, <3>2 DEF s, n
    <3>4. Listed(ports)
      BY <1>2, ResultsKnown DEF Surveyed
    <3>5. ASSUME NEW j \in DOMAIN results \ {i} PROVE SortsBefore(results[i], results[j])
      <4>1. i < j => Precedes(results[i].name, results[j].name)
        BY <2>1, <3>3, <3>4, ListedIs
      <4> QED
        BY <2>1, <3>3, <4>1, OrderSorts
    <3>6. results[i].family # "unknown"
      <4> SUFFICES ASSUME results[i].family = "unknown" PROVE FALSE
        OBVIOUS
      <4>1. k # i /\ Weighed(results[i]) /\ Weighed(results[k])
        BY <2>1, <2>3, <3>3
      <4>2. InOrder(i, k, results[i], results[k])
        BY <3>3, <4>1
      <4>3. \/ results[k].confidence > results[i].confidence
            \/ results[k].confidence = results[i].confidence /\ results[k].score > results[i].score
        BY <2>3, <4>1, KnownFirst
      <4>4. /\ results[k].confidence \in Int /\ results[i].confidence \in Int
            /\ results[k].score \in Int /\ results[i].score \in Int
        BY <4>1 DEF Weighed
      <4> QED
        BY <4>2, <4>3, <4>4 DEF InOrder
    <3> QED
      BY <3>3, <3>5, <3>6 DEF SortedFirst
  <2> QED
    BY <2>2, <2>3 DEF DiscoveryReports
<1> QED
  BY <1>1, <1>2

\* Every device is probed once, under the name that stays the same.
LEMMA DevicesOnce == Surveyed => EachDeviceOnce
<1> SUFFICES ASSUME Surveyed, asks = "done", \A i \in DOMAIN ports : ports[i].source # "explicit_path",
                    NEW d \in Devices
             PROVE  LET named == {n \in Names : n.device = d /\ (PlatformUarts \/ n.source # "platform_uart")}
                        probed == {i \in DOMAIN results : results[i].name.device = d}
                    IN  /\ Cardinality(probed) = IF named = {} THEN 0 ELSE 1
                        /\ \A i \in probed :
                             (\E n \in named : n.source = "serial_by_id") =>
                               results[i].name.source = "serial_by_id"
  BY DEF EachDeviceOnce
<1> DEFINE named == {n \in Names : n.device = d /\ (PlatformUarts \/ n.source # "platform_uart")}
           probed == {i \in DOMAIN results : results[i].name.device = d}
           S == Preferred(Chosen)
<1>1. /\ Listed(ports) /\ AllWeighed /\ Len(results) = Len(ports)
      /\ \A i \in DOMAIN results : results[i].name = ports[i]
  BY DEF Surveyed, Probing
<1>2. ports \in DiscoverSerialPorts
  <2> SUFFICES ASSUME NEW n \in Names, ports = <<ExplicitCandidate(n)>> PROVE FALSE
    BY <1>1 DEF Listed
  <2>1. "source" \in DOMAIN n
    BY NamesAssumption
  <2>2. 1 \in DOMAIN ports /\ ports[1] = ExplicitCandidate(n)
    OBVIOUS
  <2>3. ports[1].source = "explicit_path"
    BY <2>1, <2>2 DEF ExplicitCandidate
  <2> QED
    BY <2>2, <2>3
<1>3. Chosen \subseteq Names /\ \A n \in Names : n \in named <=> n \in Chosen /\ n.device = d
  BY DEF Chosen
<1>4. /\ S \subseteq Chosen
      /\ \A m, n \in S : m.device = n.device => m = n
      /\ \A m \in Chosen : \E n \in S : n.device = m.device
      /\ \A m \in Chosen, n \in S :
           m.device = n.device /\ m.source = "serial_by_id" => n.source = "serial_by_id"
  BY <1>3, PreferredIs
<1>5. S \subseteq Names /\ ports \in Sorted(S)
  BY <1>2, <1>3, <1>4 DEF DiscoverSerialPorts, Chosen
<1> HIDE DEF S
<1>6. /\ ports \in Seq(S)
      /\ \A i, j \in DOMAIN ports : ports[i] = ports[j] => i = j
      /\ \A n \in S : \E i \in DOMAIN ports : ports[i] = n
  BY <1>5, SortedIs
<1>7. DOMAIN results = DOMAIN ports
  <2>1. PICK R : results \in Seq(R)
    BY <1>1 DEF AllWeighed
  <2> QED
    BY <1>1, <1>6, <2>1
<1>8. probed = {i \in DOMAIN ports : ports[i].device = d} /\ \A i \in DOMAIN ports : ports[i] \in S
  BY <1>1, <1>6, <1>7
<1>9. \A i, j \in probed : i = j
  BY <1>4, <1>6, <1>8
<1>10. probed # {} <=> named # {}
  <2>1. ASSUME NEW i \in probed PROVE ports[i] \in named
    BY <1>3, <1>4, <1>8
  <2>2. ASSUME NEW n \in named PROVE probed # {}
    <3>1. n \in Chosen /\ n.device = d
      BY <1>3
    <3>2. PICK m \in S : m.device = d
      BY <1>4, <3>1
    <3>3. PICK i \in DOMAIN ports : ports[i] = m
      BY <1>6
    <3> QED
      BY <1>8, <3>2, <3>3
  <2> QED
    BY <2>1, <2>2
<1>11. Cardinality(probed) = IF named = {} THEN 0 ELSE 1
  <2> HIDE DEF probed, named
  <2>1. CASE probed = {}
    BY <1>10, <2>1, FS_EmptySet
  <2>2. CASE probed # {}
    <3>1. PICK i : probed = {i}
      BY <1>9, <2>2
    <3> QED
      BY <1>10, <2>2, <3>1, FS_Singleton
  <2> QED
    BY <2>1, <2>2
<1>12. ASSUME NEW i \in probed, NEW n \in named, n.source = "serial_by_id"
       PROVE  results[i].name.source = "serial_by_id"
  <2>1. results[i].name = ports[i] /\ ports[i] \in S /\ ports[i].device = d
    BY <1>1, <1>7, <1>8
  <2>2. n \in Chosen /\ n.device = d
    BY <1>3
  <2> QED
    BY <1>4, <1>12, <2>1, <2>2
<1> QED
  BY <1>11, <1>12

\* Every device is looked at once, and what answered is what is reported.
THEOREM DiscoveryCompletes == AutoConfigSpec => []DiscoveryIsComplete
<1>1. Surveyed => DiscoveryIsComplete
  BY Reports, DevicesOnce DEF DiscoveryIsComplete
<1> QED
  BY <1>1, SurveyedAlways, PTL
==============================================================================
