------------------------ MODULE ReceiverSession_proofs ------------------------
(***************************************************************************)
(* Proofs about ReceiverSession: whatever the receiver sends, whenever the *)
(* protocol is recognised and however the reads cut the stream, a record   *)
(* that nothing damaged reaches is routed as soon as it was read, and by a *)
(* Unicore or NMEA session none twice.                                     *)
(*                                                                         *)
(* From the inside out: what one more byte makes of a framer; what it      *)
(* makes of a valid record, and how much of the bytes it may take if there *)
(* is none (Outcome, Fed, Closely); one turn of the loop of a session at   *)
(* an offset of the stream (Consumed, WentOn); the loop (Did); the session *)
(* over many reads (Child).                                                *)
(***************************************************************************)
EXTENDS ReceiverSession, SequenceTheorems, WellFoundedInduction, TLAPS

-----------------------------------------------------------------------------
(* Numbers.                                                                *)

LEMMA LessWellFounded == IsWellFoundedOn({p \in Nat \X Nat : p[1] < p[2]}, Nat)
BY NatLessThanWellFounded DEF OpToRel

LEMMA Least ==
  ASSUME NEW S, S \subseteq Nat, S # {}
  PROVE  \E m \in S : \A x \in S : m <= x
<1> DEFINE R == {p \in Nat \X Nat : p[1] < p[2]}
<1>1. IsWellFoundedOn(R, Nat)
  BY LessWellFounded
<1> HIDE DEF R
<1>2. PICK m \in S : \A x \in S : ~(<<x, m>> \in R)
  BY <1>1, WFMin
<1>3. ASSUME NEW x \in S PROVE m <= x
  <2>1. x \in Nat /\ m \in Nat
    OBVIOUS
  <2>2. ~(<<x, m>> \in R)
    BY <1>2
  <2> QED
    BY <2>1, <2>2 DEF R
<1> QED
  BY <1>3

LEMMA MinIsLeast ==
  ASSUME NEW S, S \subseteq Nat, S # {}
  PROVE  Min(S) \in S /\ \A x \in S : Min(S) <= x
BY Least DEF Min

LEMMA MaxOfTwo ==
  ASSUME NEW a \in Int, NEW b \in Int
  PROVE  Max({a, b}) = IF a >= b THEN a ELSE b
<1>1. CASE a >= b
  BY <1>1 DEF Max
<1>2. CASE ~(a >= b)
  BY <1>2 DEF Max
<1> QED
  BY <1>1, <1>2

\* What holds of 0 and goes on from each number to the next holds up to n.
LEMMA Climbs ==
  ASSUME NEW n \in Nat, NEW S, 0 \in S, \A i \in 1..n : i - 1 \in S => i \in S
  PROVE  \A i \in 0..n : i \in S
<1> DEFINE wrong == {i \in 0..n : i \notin S}
<1> SUFFICES ASSUME wrong # {} PROVE FALSE
  OBVIOUS
<1>0. wrong \subseteq Nat
  OBVIOUS
<1>1. \E m \in wrong : \A i \in wrong : m <= i
  <2> HIDE DEF wrong
  <2> QED
    BY <1>0, Least
<1>1a. PICK m \in wrong : \A i \in wrong : m <= i
  BY <1>1
<1>2. m \in 1..n /\ m - 1 \in 0..n /\ m - 1 \notin wrong
  BY <1>1a
<1> QED
  BY <1>1a, <1>2

\* What holds of n and goes on downwards holds down to 0.
LEMMA Descends ==
  ASSUME NEW n \in Nat, NEW S,
         \A d \in 0..n : (\A e \in (d + 1)..n : e \in S) => d \in S
  PROVE  \A d \in 0..n : d \in S
<1> DEFINE wrong == {i \in 0..n : n - i \notin S}
<1> SUFFICES ASSUME NEW d \in 0..n, d \notin S PROVE FALSE
  OBVIOUS
<1>0. n - d \in wrong /\ wrong \subseteq Nat
  OBVIOUS
<1>1. \E m \in wrong : \A i \in wrong : m <= i
  <2> HIDE DEF wrong
  <2> QED
    BY <1>0, Least
<1>2. PICK m \in wrong : \A i \in wrong : m <= i
  BY <1>1
<1>3. ASSUME NEW e \in (n - m + 1)..n PROVE e \in S
  <2>1. n - e \in 0..n /\ n - e < m /\ n - (n - e) = e
    BY <1>2
  <2> QED
    BY <1>2, <2>1
<1>4. n - m \in 0..n
  BY <1>2
<1>5. n - m \in S
  BY <1>3, <1>4
<1> QED
  BY <1>2, <1>5

-----------------------------------------------------------------------------
(* Folds.                                                                  *)

LEMMA MaxOfInterval ==
  ASSUME NEW k \in Nat, NEW T, T \subseteq 1..(k + 1), k + 1 \in T
  PROVE  Max(T) = k + 1 /\ T \ {k + 1} \subseteq 1..k
<1>1. \A y \in T : k + 1 >= y
  OBVIOUS
<1>2. ASSUME NEW x \in T, \A y \in T : x >= y PROVE x = k + 1
  BY <1>1, <1>2
<1>3. Max(T) = k + 1
  BY <1>1, <1>2 DEF Max
<1> QED
  BY <1>3

LEMMA IntervalGrows ==
  ASSUME NEW k \in Nat
  PROVE  Max(1..(k + 1)) = k + 1 /\ (1..(k + 1)) \ {k + 1} = 1..k /\ 1..(k + 1) # {}
<1>1. 1..(k + 1) \subseteq 1..(k + 1) /\ k + 1 \in 1..(k + 1)
  OBVIOUS
<1>2. Max(1..(k + 1)) = k + 1
  BY <1>1, MaxOfInterval
<1>3. (1..(k + 1)) \ {k + 1} = 1..k
  OBVIOUS
<1> QED
  BY <1>1, <1>2, <1>3

\* g folds the function step over the subsets of 1..n, from their least
\* number to their greatest.
IsFold(g, base, step, n) ==
  g = [T \in SUBSET (1..n) |->
         IF T = {} THEN base ELSE step[<<g[T \ {Max(T)}], Max(T)>>]]

\* Every step on a set of states has a fold, and it stays in the set.
LEMMA FoldExists ==
  ASSUME NEW A, NEW base \in A, NEW n \in Nat, NEW step \in [A \X (1..n) -> A]
  PROVE  \E g \in [SUBSET (1..n) -> A] : IsFold(g, base, step, n)
<1> DEFINE S == {k \in 0..n : \E g \in [SUBSET (1..k) -> A] : IsFold(g, base, step, k)}
<1>1. 0 \in S
  <2> DEFINE g == [T \in SUBSET (1..0) |-> base]
  <2>1. \A T \in SUBSET (1..0) : T = {}
    OBVIOUS
  <2>2. g \in [SUBSET (1..0) -> A]
    OBVIOUS
  <2>3. \A T \in SUBSET (1..0) :
          g[T] = IF T = {} THEN base ELSE step[<<g[T \ {Max(T)}], Max(T)>>]
    BY <2>1
  <2>4. g = [T \in SUBSET (1..0) |-> g[T]]
    OBVIOUS
  <2> HIDE DEF g
  <2>5. IsFold(g, base, step, 0)
    BY <2>3, <2>4 DEF IsFold
  <2>6. \E x \in [SUBSET (1..0) -> A] : IsFold(x, base, step, 0)
    BY <2>2, <2>5
  <2>7. 0 \in 0..n
    OBVIOUS
  <2> QED
    BY <2>6, <2>7
<1>2. ASSUME NEW i \in 1..n, i - 1 \in S
      PROVE  i \in S
  <2> DEFINE k == i - 1
  <2>0. k \in Nat /\ i = k + 1 /\ i \in 0..n
    OBVIOUS
  <2>1. PICK g \in [SUBSET (1..k) -> A] : IsFold(g, base, step, k)
    BY <1>2
  <2> HIDE DEF k
  <2> DEFINE h == [T \in SUBSET (1..i) |-> IF i \in T THEN step[<<g[T \ {i}], i>>] ELSE g[T]]
  <2>2. ASSUME NEW T \in SUBSET (1..i), i \in T
        PROVE  Max(T) = i /\ T \ {i} \in SUBSET (1..k) /\ T # {} /\ h[T \ {i}] = g[T \ {i}]
    BY <2>0, <2>2, MaxOfInterval
  <2>3. ASSUME NEW T \in SUBSET (1..i), i \notin T
        PROVE  T \in SUBSET (1..k)
    BY <2>0, <2>3
  <2>4. h \in [SUBSET (1..i) -> A]
    <3>1. ASSUME NEW T \in SUBSET (1..i) PROVE h[T] \in A
      <4>1. CASE i \in T
        <5>1. g[T \ {i}] \in A
          BY <2>2, <4>1
        <5>2. <<g[T \ {i}], i>> \in A \X (1..n)
          BY <5>1
        <5> QED
          BY <4>1, <5>2
      <4>2. CASE i \notin T
        BY <2>3, <4>2
      <4> QED
        BY <4>1, <4>2
    <3> QED
      BY <3>1
  <2>5. ASSUME NEW T \in SUBSET (1..i)
        PROVE  h[T] = IF T = {} THEN base ELSE step[<<h[T \ {Max(T)}], Max(T)>>]
    <3>1. CASE i \in T
      BY <2>2, <3>1
    <3>2. CASE i \notin T
      <4>1. T \in SUBSET (1..k) /\ h[T] = g[T]
        BY <2>3, <3>2
      <4>2. g[T] = IF T = {} THEN base ELSE step[<<g[T \ {Max(T)}], Max(T)>>]
        BY <2>1, <4>1 DEF IsFold
      <4>3. h[T \ {Max(T)}] = g[T \ {Max(T)}]
        BY <3>2
      <4> QED
        BY <4>1, <4>2, <4>3
    <3> QED
      BY <3>1, <3>2
  <2>6. IsFold(h, base, step, i)
    <3>1. h = [T \in SUBSET (1..i) |-> h[T]]
      OBVIOUS
    <3> HIDE DEF h
    <3> QED
      BY <2>5, <3>1 DEF IsFold
  <2> HIDE DEF h
  <2> QED
    BY <2>0, <2>4, <2>6
<1>3. n \in S
  <2> HIDE DEF S
  <2> QED
    BY <1>1, <1>2, Climbs
<1> QED
  BY <1>3

-----------------------------------------------------------------------------
(* The framers.                                                            *)

BinaryFramers == {Ubx, Rtcm, N4}
LineFramers == {Nmea, UnicoreAscii}
Framers == BinaryFramers \cup LineFramers

Checks == {"none", "valid", "invalid", "missing"}
Statuses == {"more", "skipped", "invalid", "overflow", "ready"}
Records == [at : Int, size : Int, check : Checks]
FramerStates == [buffer : Seq(Nat), status : Statuses, used : Nat, record : Records]

\* The bytes with which the framer begins a record, and how long it may be.
LeadsOf(f) == IF IsBinary(f) THEN {f.sync[1]} ELSE f.leads
Limit(f) == IF IsBinary(f) THEN MaxFrame ELSE MaxLine

LEMMA FramersApart ==
  /\ Ubx # Rtcm /\ Ubx # N4 /\ Ubx # Nmea /\ Ubx # UnicoreAscii
  /\ Rtcm # N4 /\ Rtcm # Nmea /\ Rtcm # UnicoreAscii
  /\ N4 # Nmea /\ N4 # UnicoreAscii
  /\ Nmea # UnicoreAscii
<1>1. /\ Ubx.protocol = "ubx" /\ Rtcm.protocol = "rtcm" /\ N4.protocol = "n4"
      /\ Nmea.protocol = "nmea" /\ UnicoreAscii.protocol = "ascii"
  BY DEF Ubx, Rtcm, N4, Nmea, UnicoreAscii
<1> QED
  BY <1>1

LEMMA BinaryOrLine ==
  /\ \A f \in BinaryFramers : IsBinary(f)
  /\ \A f \in LineFramers : ~IsBinary(f)
BY FramersApart DEF BinaryFramers, LineFramers, IsBinary

LEMMA BinaryForm ==
  ASSUME NEW f \in BinaryFramers
  PROVE  /\ f.sync \in Seq(Nat) /\ Len(f.sync) \in 1..3
         /\ HeaderSize(f) = Len(f.sync) + 1
         /\ LeadsOf(f) = {f.sync[1]} /\ Limit(f) = MaxFrame
<1>1. CASE f = Ubx
  BY <1>1, BinaryOrLine
     DEF Ubx, BinaryFramers, HeaderSize, LeadsOf, Limit, UbxSync1, UbxSync2
<1>2. CASE f = Rtcm
  BY <1>2, BinaryOrLine DEF Rtcm, BinaryFramers, HeaderSize, LeadsOf, Limit, RtcmPreamble
<1>3. CASE f = N4
  BY <1>3, BinaryOrLine
     DEF N4, BinaryFramers, HeaderSize, LeadsOf, Limit, N4Sync1, N4Sync2, N4Sync3
<1> QED
  BY <1>1, <1>2, <1>3 DEF BinaryFramers

LEMMA LineForm ==
  ASSUME NEW f \in LineFramers
  PROVE  /\ f.leads = IF f = Nmea THEN {Dollar} ELSE {Dollar, Hash}
         /\ LeadsOf(f) = f.leads /\ Limit(f) = MaxLine
BY BinaryOrLine, FramersApart DEF LineFramers, LeadsOf, Limit, Nmea, UnicoreAscii

LEMMA PushSplits ==
  ASSUME NEW f \in Framers, NEW r, NEW b
  PROVE  PushByte(f, r, b) = IF IsBinary(f) THEN PushBinary(f, r, b) ELSE PushLine(f, r, b)
BY FramersApart, BinaryOrLine
   DEF Framers, BinaryFramers, LineFramers, PushByte, PushUbx, PushRtcm, PushN4, PushNmea,
       PushUnicoreAscii

\* A frame found inside a candidate is inside it.
LEMMA EmbeddedInside ==
  ASSUME NEW f \in BinaryFramers, NEW s \in Seq(Nat), NEW o \in EmbeddedFrames(f, s)
  PROVE  /\ o \in 2..Len(s) /\ FrameSize(f, s, o) \in Nat /\ FrameSize(f, s, o) >= 1
         /\ o + FrameSize(f, s, o) - 1 <= Len(s)
<1>1. /\ o \in 2..(Len(s) - HeaderSize(f))
      /\ FrameSize(f, s, o) <= Len(s) - o + 1
  BY DEF EmbeddedFrames
<1>2. Len(f.sync) \in 1..3 /\ HeaderSize(f) = Len(f.sync) + 1
  BY BinaryForm
<1>3. o + Len(f.sync) \in 1..Len(s)
  BY <1>1, <1>2
<1>4. s[o + Len(f.sync)] \in Nat
  BY <1>3
<1>5. FrameSize(f, s, o) = Len(f.sync) + 1 + s[o + Len(f.sync)] + 1
  BY <1>2 DEF FrameSize
<1> DEFINE b == s[o + Len(f.sync)]
           k == Len(f.sync)
           n == FrameSize(f, s, o)
<1>6. b \in Nat /\ k \in 1..3 /\ n = k + 1 + b + 1
  BY <1>2, <1>4, <1>5
<1>7. Len(s) \in Nat /\ o \in 2..(Len(s) - (k + 1)) /\ n <= Len(s) - o + 1
  BY <1>1, <1>2
<1> HIDE DEF b, k, n
<1>8. o \in 2..Len(s) /\ n \in Nat /\ n >= 1 /\ o + n - 1 <= Len(s)
  BY <1>6, <1>7
<1> QED
  BY <1>8 DEF n

\* What a framer may make of one byte: it goes on with what it has or begins
\* again with this byte, or it says something; a record it returns is within
\* what it has.
Outcome(f, r, b, p) ==
  /\ p \in FramerStates
  /\ p.used = r.used + 1
  /\ p.status = "more" =>
       /\ p.record = NoRecord
       /\ p.buffer \in {Append(r.buffer, b), <<b>>}
       /\ r.buffer = <<>> \/ p.buffer = <<b>> => p.buffer = <<b>> /\ b \in LeadsOf(f)
       /\ Len(p.buffer) <= Limit(f)
  /\ p.status # "more" => p.buffer = <<>>
  /\ p.status = "ready" =>
       /\ p.record.size >= 1
       /\ p.record.at >= r.used - Len(r.buffer)
       /\ p.record.at + p.record.size <= p.used
  /\ p.status # "ready" => p.record = NoRecord

LEMMA NoRecordTyped == NoRecord \in Records
BY DEF NoRecord, Records, Checks

\* p says no more than a status and what the framer keeps.
IsVerdict(p, r, buffer, status) ==
  /\ p \in FramerStates /\ p.used = r.used + 1 /\ p.record = NoRecord
  /\ p.status = status /\ p.buffer = buffer

LEMMA VerdictTyped ==
  ASSUME NEW r \in FramerStates, NEW buffer \in Seq(Nat), NEW status \in Statuses
  PROVE  IsVerdict(Verdict(r, buffer, status), r, buffer, status)
<1>1. r.used \in Nat
  BY DEF FramerStates
<1> QED
  BY <1>1, NoRecordTyped DEF Verdict, FramerStates, IsVerdict

LEMMA VerdictOutcome ==
  ASSUME NEW f, NEW r \in FramerStates, NEW b \in Nat,
         NEW status \in {"skipped", "invalid", "overflow"}
  PROVE  Outcome(f, r, b, Verdict(r, <<>>, status))
<1> DEFINE p == Verdict(r, <<>>, status)
<1>1. <<>> \in Seq(Nat) /\ status \in Statuses /\ status # "more" /\ status # "ready"
  BY DEF Statuses
<1>2. IsVerdict(p, r, <<>>, status)
  BY <1>1, VerdictTyped
<1> HIDE DEF p
<1>3. Outcome(f, r, b, p)
  BY <1>1, <1>2 DEF Outcome, IsVerdict
<1> QED
  BY <1>3 DEF p

LEMMA GoesOnOutcome ==
  ASSUME NEW f, NEW r \in FramerStates, NEW b \in Nat, r.buffer # <<>>,
         Len(r.buffer) + 1 <= Limit(f)
  PROVE  Outcome(f, r, b, Verdict(r, Append(r.buffer, b), "more"))
<1> DEFINE s == Append(r.buffer, b)
           p == Verdict(r, s, "more")
<1>0. r.buffer \in Seq(Nat) /\ "more" \in Statuses
  BY DEF FramerStates, Statuses
<1>1. s \in Seq(Nat) /\ Len(s) = Len(r.buffer) + 1 /\ Len(r.buffer) > 0
  BY <1>0
<1>2. s # <<b>>
  <2>1. Len(<<b>>) = 1 /\ Len(s) > 1
    BY <1>1
  <2> QED
    BY <2>1
<1>3. IsVerdict(p, r, s, "more")
  <2> HIDE DEF s
  <2> QED
    BY <1>0, <1>1, VerdictTyped
<1> HIDE DEF p
<1>4. Outcome(f, r, b, p)
  BY <1>1, <1>2, <1>3 DEF Outcome, IsVerdict
<1> QED
  BY <1>4 DEF p

LEMMA BeginsOutcome ==
  ASSUME NEW f, NEW r \in FramerStates, NEW b \in LeadsOf(f), b \in Nat, Limit(f) >= 1
  PROVE  Outcome(f, r, b, Verdict(r, <<b>>, "more"))
<1>0. "more" \in Statuses
  BY DEF Statuses
<1> DEFINE p == Verdict(r, <<b>>, "more")
<1>1. <<b>> \in Seq(Nat) /\ Len(<<b>>) = 1
  OBVIOUS
<1>2. IsVerdict(p, r, <<b>>, "more")
  BY <1>0, <1>1, VerdictTyped
<1> HIDE DEF p
<1>3. Outcome(f, r, b, p)
  BY <1>1, <1>2 DEF Outcome, IsVerdict
<1> QED
  BY <1>3 DEF p

LEMMA ReadyOutcome ==
  ASSUME NEW f, NEW r \in FramerStates, NEW b \in Nat, NEW size \in Int, NEW at \in Int,
         NEW check \in Checks, size >= 1, at >= r.used - Len(r.buffer),
         at + size <= r.used + 1
  PROVE  Outcome(f, r, b, Ready(r, size, at, check))
<1> DEFINE p == Ready(r, size, at, check)
           record == [at |-> at, size |-> size, check |-> check]
<1>1. r.used \in Nat /\ <<>> \in Seq(Nat) /\ "ready" \in Statuses
  BY DEF FramerStates, Statuses
<1>2. record \in Records /\ record.at = at /\ record.size = size
  BY DEF Records
<1>3. p = [buffer |-> <<>>, status |-> "ready", used |-> r.used + 1, record |-> record]
  BY DEF Ready
<1> HIDE DEF p, record
<1>4. /\ p \in FramerStates /\ p.used = r.used + 1 /\ p.record = record
      /\ p.status = "ready" /\ p.buffer = <<>>
  BY <1>1, <1>2, <1>3 DEF FramerStates
<1>5. Outcome(f, r, b, p)
  BY <1>2, <1>4 DEF Outcome
<1> QED
  BY <1>5 DEF p

LEMMA LimitPositive ==
  ASSUME NEW f \in Framers
  PROVE  Limit(f) \in Nat /\ Limit(f) >= 1
BY FramingAssumption DEF Limit

LEMMA LeadsAreBytes == \A f \in Framers : LeadsOf(f) \subseteq Nat
<1>1. ASSUME NEW f \in BinaryFramers PROVE LeadsOf(f) \subseteq Nat
  <2>1. f.sync \in Seq(Nat) /\ Len(f.sync) \in 1..3 /\ LeadsOf(f) = {f.sync[1]}
    BY BinaryForm
  <2>2. f.sync[1] \in Nat
    BY <2>1
  <2> QED
    BY <2>1, <2>2
<1>2. ASSUME NEW f \in LineFramers PROVE LeadsOf(f) \subseteq Nat
  BY LineForm DEF Dollar, Hash
<1> QED
  BY <1>1, <1>2 DEF Framers

\* A record of n bytes at offset o of the m bytes that end with the u-th.
LEMMA RecordInside ==
  ASSUME NEW u \in Nat, NEW l \in Nat, NEW m, m = l + 1, NEW o \in 1..m, NEW n \in Nat,
         o + n - 1 <= m
  PROVE  u - m + o \in Int /\ u - m + o >= u - l /\ u - m + o + n <= u + 1
OBVIOUS

LEMMA RecordWhole ==
  ASSUME NEW u \in Nat, NEW l \in Nat, NEW m, m = l + 1
  PROVE  m \in Nat /\ m >= 1 /\ u + 1 - m \in Int /\ u + 1 - m >= u - l /\ u + 1 - m + m <= u + 1
OBVIOUS

\* What the framers make of a candidate that has the size it announced.
LEMMA RecoveredOutcome ==
  ASSUME NEW f \in BinaryFramers, NEW r \in FramerStates, NEW b \in Nat,
         NEW s \in Seq(Nat), Len(s) = Len(r.buffer) + 1
  PROVE  Outcome(f, r, b, Recovered(f, r, s, EmbeddedFrames(f, s)))
<1>1. /\ r.used \in Nat /\ r.buffer \in Seq(Nat)
      /\ s \in Seq(Nat) /\ Len(s) = Len(r.buffer) + 1 /\ Len(r.buffer) \in Nat
  BY DEF FramerStates
<1>2. "valid" \in Checks /\ "invalid" \in Checks
  BY DEF Checks
<1>3. CASE EmbeddedFrames(f, s) # {}
  <2> DEFINE o == Min(EmbeddedFrames(f, s))
             n == FrameSize(f, s, o)
             at == r.used - Len(s) + o
  <2>1. EmbeddedFrames(f, s) \subseteq Nat
    BY <1>1 DEF EmbeddedFrames
  <2>2. o \in EmbeddedFrames(f, s)
    BY <1>3, <2>1, MinIsLeast
  <2> HIDE DEF o
  <2>3. o \in 2..Len(s) /\ n \in Nat /\ n >= 1 /\ o + n - 1 <= Len(s)
    BY <1>1, <2>2, EmbeddedInside
  <2> HIDE DEF n
  <2>3a. o \in 1..Len(s)
    BY <2>3
  <2>4. at \in Int /\ at >= r.used - Len(r.buffer) /\ at + n <= r.used + 1
    <3> DEFINE u == r.used
               l == Len(r.buffer)
               m == Len(s)
    <3>1. u \in Nat /\ l \in Nat /\ m = l + 1 /\ o \in 1..m /\ n \in Nat /\ o + n - 1 <= m
      BY <1>1, <2>3, <2>3a
    <3>2. at = u - m + o
      OBVIOUS
    <3> HIDE DEF u, l, m, at
    <3>3. at \in Int /\ at >= u - l /\ at + n <= u + 1
      BY <3>1, <3>2, RecordInside
    <3> QED
      BY <3>3 DEF u, l
  <2> HIDE DEF at
  <2>5. Outcome(f, r, b, Ready(r, n, at, "valid"))
    BY <1>2, <2>3, <2>4, ReadyOutcome
  <2>6. Recovered(f, r, s, EmbeddedFrames(f, s)) = Ready(r, n, at, "valid")
    BY <1>3 DEF Recovered, o, n, at
  <2> QED
    BY <2>5, <2>6
<1>4. CASE EmbeddedFrames(f, s) = {} /\ f = N4
  <2>1. Outcome(f, r, b, Verdict(r, <<>>, "invalid"))
    BY VerdictOutcome
  <2> QED
    BY <1>4, <2>1 DEF Recovered
<1>5. CASE EmbeddedFrames(f, s) = {} /\ f # N4
  <2> DEFINE n == Len(s)
             at == r.used + 1 - Len(s)
  <2>1. n \in Nat /\ n >= 1 /\ at \in Int /\ at >= r.used - Len(r.buffer) /\ at + n <= r.used + 1
    BY <1>1, RecordWhole
  <2> HIDE DEF n, at
  <2>2. Outcome(f, r, b, Ready(r, n, at, "invalid"))
    BY <1>2, <2>1, ReadyOutcome
  <2>3. Recovered(f, r, s, EmbeddedFrames(f, s)) = Ready(r, n, at, "invalid")
    BY <1>5 DEF Recovered, n, at
  <2> QED
    BY <2>2, <2>3
<1> QED
  BY <1>3, <1>4, <1>5

LEMMA WholeOutcome ==
  ASSUME NEW f, NEW r \in FramerStates, NEW b \in Nat, NEW check \in Checks,
         NEW s \in Seq(Nat), Len(s) = Len(r.buffer) + 1
  PROVE  Outcome(f, r, b, Ready(r, Len(s), r.used + 1 - Len(s), check))
<1> DEFINE n == Len(s)
           at == r.used + 1 - Len(s)
<1>1. /\ r.used \in Nat /\ r.buffer \in Seq(Nat)
      /\ s \in Seq(Nat) /\ Len(s) = Len(r.buffer) + 1 /\ Len(r.buffer) \in Nat
  BY DEF FramerStates
<1>2. n \in Nat /\ n >= 1 /\ at \in Int /\ at >= r.used - Len(r.buffer) /\ at + n <= r.used + 1
  BY <1>1, RecordWhole
<1> HIDE DEF n, at
<1>3. Outcome(f, r, b, Ready(r, n, at, check))
  BY <1>2, ReadyOutcome
<1>4. Ready(r, Len(s), r.used + 1 - Len(s), check) = Ready(r, n, at, check)
  BY DEF n, at
<1> QED
  BY <1>3, <1>4

LEMMA CompleteOutcome ==
  ASSUME NEW f \in BinaryFramers, NEW r \in FramerStates, NEW b \in Nat,
         NEW s \in Seq(Nat), Len(s) = Len(r.buffer) + 1
  PROVE  Outcome(f, r, b, Complete(f, r, s))
<1>1. Outcome(f, r, b, Recovered(f, r, s, EmbeddedFrames(f, s)))
  BY RecoveredOutcome
<1>2. "valid" \in Checks
  BY DEF Checks
<1>3. Outcome(f, r, b, Ready(r, Len(s), r.used + 1 - Len(s), "valid"))
  BY <1>2, WholeOutcome
<1> QED
  BY <1>1, <1>3 DEF Complete

LEMMA PushBinaryOutcome ==
  ASSUME NEW f \in BinaryFramers, NEW r \in FramerStates, NEW b \in Nat
  PROVE  Outcome(f, r, b, PushBinary(f, r, b))
<1> DEFINE s == Append(r.buffer, b)
           k == Len(f.sync)
<1>1. /\ r.buffer \in Seq(Nat) /\ Len(r.buffer) \in Nat /\ Len(s) = Len(r.buffer) + 1
      /\ s \in Seq(Nat)
  BY DEF FramerStates
<1>2. /\ f.sync \in Seq(Nat) /\ k \in 1..3 /\ LeadsOf(f) = {f.sync[1]} /\ Limit(f) = MaxFrame
      /\ MaxFrame \in Nat /\ MaxFrame > 3 /\ f \in Framers
  BY BinaryForm, FramingAssumption DEF Framers
<1>3. /\ Outcome(f, r, b, Verdict(r, <<>>, "skipped"))
      /\ Outcome(f, r, b, Verdict(r, <<>>, "invalid"))
      /\ Outcome(f, r, b, Verdict(r, <<>>, "overflow"))
  BY VerdictOutcome
<1>4. b = f.sync[1] => Outcome(f, r, b, Verdict(r, <<b>>, "more"))
  BY <1>2, BeginsOutcome
<1>5. Outcome(f, r, b, Complete(f, r, s))
  <2> HIDE DEF s
  <2> QED
    BY <1>1, CompleteOutcome
<1>6. ASSUME r.buffer # <<>>, Len(s) <= MaxFrame
      PROVE  Outcome(f, r, b, Verdict(r, s, "more"))
  BY <1>1, <1>2, <1>6, GoesOnOutcome
<1>7. r.buffer = <<>> => s = <<b>> /\ Len(s) = 1
  BY DEF FramerStates
<1> DEFINE n == FrameSize(f, s, 1)
<1>7a. Len(s) > k => n \in Nat
  <2>1. ASSUME Len(s) > k PROVE 1 + k \in 1..Len(s)
    BY <1>1, <1>2, <2>1
  <2>2. ASSUME Len(s) > k PROVE s[1 + k] \in Nat
    BY <1>1, <2>1, <2>2
  <2>3. n = HeaderSize(f) + s[1 + k] + 1 /\ HeaderSize(f) = k + 1
    BY BinaryForm DEF FrameSize
  <2> HIDE DEF s, k, n
  <2> QED
    BY <1>2, <2>2, <2>3
<1> HIDE DEF n
<1>8. PushBinary(f, r, b) =
        IF r.buffer = <<>> /\ b # f.sync[1] THEN Verdict(r, <<>>, "skipped")
        ELSE IF Len(s) <= k /\ b # f.sync[Len(s)]
          THEN IF b = f.sync[1] THEN Verdict(r, <<b>>, "more") ELSE Verdict(r, <<>>, "skipped")
        ELSE IF Len(s) = k + 1 /\ ~LengthPlausible(f, b)
          THEN IF b = f.sync[1] THEN Verdict(r, <<b>>, "more") ELSE Verdict(r, <<>>, "invalid")
        ELSE IF Len(s) <= k THEN Verdict(r, s, "more")
        ELSE IF n > MaxFrame THEN Verdict(r, <<>>, "overflow")
        ELSE IF Len(s) < n THEN Verdict(r, s, "more")
        ELSE Complete(f, r, s)
  BY DEF PushBinary, n
<1>9. CASE r.buffer = <<>> /\ b # f.sync[1]
  BY <1>3, <1>8, <1>9
<1>10. CASE r.buffer = <<>> /\ b = f.sync[1]
  <2>1. PushBinary(f, r, b) = Verdict(r, s, "more")
    BY <1>2, <1>7, <1>8, <1>10
  <2> QED
    BY <1>4, <1>7, <1>10, <2>1
<1>11. CASE r.buffer # <<>>
  <2> DEFINE more == Verdict(r, s, "more")
  <2>0. Len(s) <= k => Len(s) <= MaxFrame
    <3> HIDE DEF s, k
    <3> QED
      BY <1>1, <1>2
  <2>1. Len(s) <= k => Outcome(f, r, b, more)
    BY <1>6, <1>11, <2>0
  <2>2. Len(s) > k /\ ~(n > MaxFrame) /\ Len(s) < n => Outcome(f, r, b, more)
    BY <1>1, <1>2, <1>6, <1>7a, <1>11
  <2> HIDE DEF more, s, k
  <2>3. Len(s) \in Nat /\ k \in Nat
    BY <1>1, <1>2
  <2> QED
    BY <1>3, <1>4, <1>5, <1>8, <1>11, <2>1, <2>2, <2>3 DEF more
<1> QED
  BY <1>9, <1>10, <1>11

LEMMA LineStatusIs == \A f, s : LineStatus(f, s) \in Checks
BY DEF LineStatus, Checks

LEMMA PushLineOutcome ==
  ASSUME NEW f \in LineFramers, NEW r \in FramerStates, NEW b \in Nat
  PROVE  Outcome(f, r, b, PushLine(f, r, b))
<1> DEFINE s == Append(r.buffer, b)
<1>1. /\ r.buffer \in Seq(Nat) /\ Len(r.buffer) \in Nat /\ Len(s) = Len(r.buffer) + 1
      /\ s \in Seq(Nat)
  BY DEF FramerStates
<1>2. LeadsOf(f) = f.leads /\ Limit(f) = MaxLine /\ MaxLine \in Nat /\ MaxLine >= 1
  BY LineForm, FramingAssumption
<1>3. /\ Outcome(f, r, b, Verdict(r, <<>>, "skipped"))
      /\ Outcome(f, r, b, Verdict(r, <<>>, "overflow"))
  BY VerdictOutcome
<1>4. b \in f.leads => Outcome(f, r, b, Verdict(r, <<b>>, "more"))
  BY <1>2, BeginsOutcome
<1>5. Outcome(f, r, b, Ready(r, Len(s), r.used + 1 - Len(s), LineStatus(f, s)))
  <2> HIDE DEF s
  <2> QED
    BY <1>1, LineStatusIs, WholeOutcome
<1>6. ASSUME r.buffer # <<>>, Len(s) <= MaxLine
      PROVE  Outcome(f, r, b, Verdict(r, s, "more"))
  BY <1>1, <1>2, <1>6, GoesOnOutcome
<1>7. r.buffer = <<>> => s = <<b>>
  OBVIOUS
<1>8. CASE r.buffer = <<>>
  BY <1>3, <1>4, <1>7, <1>8 DEF PushLine
<1>9. CASE r.buffer # <<>>
  <2>1. PushLine(f, r, b) =
          IF f = Nmea /\ b \in f.leads THEN Verdict(r, <<b>>, "more")
          ELSE IF Len(s) > MaxLine THEN Verdict(r, <<>>, "overflow")
          ELSE IF b # NL THEN Verdict(r, s, "more")
          ELSE Ready(r, Len(s), r.used + 1 - Len(s), LineStatus(f, s))
    BY <1>9 DEF PushLine
  <2>2. ~(Len(s) > MaxLine) => Outcome(f, r, b, Verdict(r, s, "more"))
    BY <1>1, <1>2, <1>6, <1>9
  <2> HIDE DEF s
  <2> QED
    BY <1>3, <1>4, <1>5, <2>1, <2>2
<1> QED
  BY <1>8, <1>9

LEMMA PushOutcome ==
  ASSUME NEW f \in Framers, NEW r \in FramerStates, NEW b \in Nat
  PROVE  Outcome(f, r, b, PushByte(f, r, b))
<1>1. CASE f \in BinaryFramers
  BY <1>1, PushSplits, BinaryOrLine, PushBinaryOutcome
<1>2. CASE f \in LineFramers
  BY <1>2, PushSplits, BinaryOrLine, PushLineOutcome
<1> QED
  BY <1>1, <1>2 DEF Framers

-----------------------------------------------------------------------------
(* A framer that is given a valid record.                                  *)

LEMMA NoneIsEmpty == \A s \in Seq(Nat) : s = <<>> <=> Len(s) = 0
BY EmptySeq

LEMMA TextBytes == \A b \in Data \cup {Star} : b # NL /\ b \notin {Dollar, Hash}
BY DEF Data, Star, NL, Dollar, Hash

\* p is the first k bytes of v.
IsHead(p, v, k) == p \in Seq(Nat) /\ Len(p) = k /\ \A j \in 1..k : p[j] = v[j]

LEMMA HeadIs ==
  ASSUME NEW v \in Seq(Nat), NEW k \in Nat, k <= Len(v)
  PROVE  IsHead(SubSeq(v, 1, k), v, k)
<1> DEFINE p == SubSeq(v, 1, k)
<1>1. 1 \in Int /\ k \in Int /\ \A j \in 1..k : v[j] \in Nat
  OBVIOUS
<1>2. /\ p \in Seq(Nat) /\ Len(p) = IF 1 <= k THEN k - 1 + 1 ELSE 0
      /\ \A j \in 1..(k - 1 + 1) : p[j] = v[1 + j - 1]
  BY <1>1, SubSeqProperties
<1> HIDE DEF p
<1>3. Len(p) = k /\ k - 1 + 1 = k
  BY <1>2
<1>4. ASSUME NEW j \in 1..k PROVE p[j] = v[j]
  <2>1. p[j] = v[1 + j - 1] /\ 1 + j - 1 = j
    BY <1>2, <1>3
  <2> QED
    BY <2>1
<1>5. IsHead(p, v, k)
  BY <1>2, <1>3, <1>4 DEF IsHead
<1> QED
  BY <1>5 DEF p

\* One more byte of v.
Grows(v, i) ==
  /\ Append(SubSeq(v, 1, i), v[i + 1]) = SubSeq(v, 1, i + 1) /\ v[i + 1] \in Nat
  /\ SubSeq(v, 1, i + 1) \in Seq(Nat) /\ Len(SubSeq(v, 1, i + 1)) = i + 1
  /\ \A j \in 1..(i + 1) : SubSeq(v, 1, i + 1)[j] = v[j]
  /\ SubSeq(v, 1, i) \in Seq(Nat) /\ Len(SubSeq(v, 1, i)) = i

LEMMA HeadGrows ==
  ASSUME NEW v \in Seq(Nat), NEW i \in Nat, i < Len(v)
  PROVE  Grows(v, i)
<1> DEFINE k == i + 1
           b == v[k]
           p == SubSeq(v, 1, i)
           q == SubSeq(v, 1, k)
           a == Append(p, b)
<1>1. k \in Nat /\ k <= Len(v) /\ i <= Len(v) /\ k \in 1..Len(v)
  OBVIOUS
<1>2. IsHead(p, v, i)
  BY <1>1, HeadIs
<1>3. IsHead(q, v, k)
  <2> HIDE DEF k
  <2> QED
    BY <1>1, HeadIs
<1>4. b \in Nat
  <2> HIDE DEF k
  <2> QED
    BY <1>1
<1>5. Grows(v, i) <=> /\ a = q /\ b \in Nat /\ q \in Seq(Nat) /\ Len(q) = k
                      /\ \A j \in 1..k : q[j] = v[j]
                      /\ p \in Seq(Nat) /\ Len(p) = i
  BY DEF Grows
<1> HIDE DEF p, q, b
<1>6. /\ p \in Seq(Nat) /\ Len(p) = i /\ \A j \in 1..i : p[j] = v[j]
      /\ q \in Seq(Nat) /\ Len(q) = k /\ \A j \in 1..k : q[j] = v[j]
  BY <1>2, <1>3 DEF IsHead
<1>7. /\ a \in Seq(Nat) /\ Len(a) = k /\ a[k] = b
      /\ \A j \in 1..i : a[j] = p[j]
  BY <1>4, <1>6, AppendProperties
<1> HIDE DEF a
<1>8. ASSUME NEW j \in 1..k PROVE a[j] = q[j]
  <2>1. j \in 1..i \/ j = k
    OBVIOUS
  <2>2. CASE j \in 1..i
    BY <1>6, <1>7, <2>2
  <2>3. CASE j = k
    <3>1. q[k] = b
      BY <1>1, <1>6 DEF b
    <3> QED
      BY <1>7, <2>3, <3>1
  <2> QED
    BY <2>1, <2>2, <2>3
<1> HIDE DEF k
<1>9. a = q
  BY <1>6, <1>7, <1>8, SeqEqual
<1> QED
  BY <1>4, <1>5, <1>6, <1>9

LEMMA HeadWhole ==
  ASSUME NEW v \in Seq(Nat)
  PROVE  SubSeq(v, 1, Len(v)) = v
OBVIOUS

LEMMA PrefixIs ==
  ASSUME NEW p \in Seq(Nat), NEW v \in Seq(Nat), IsPrefix(p, v)
  PROVE  Len(p) <= Len(v) /\ \A i \in 1..Len(p) : v[i] = p[i]
<1>1. Len(p) <= Len(v) /\ SubSeq(p, 1, Len(p)) = SubSeq(v, 1, Len(p))
  BY DEF IsPrefix
<1>2. ASSUME NEW i \in 1..Len(p) PROVE v[i] = p[i]
  <2>1. SubSeq(p, 1, Len(p))[i] = p[i] /\ SubSeq(v, 1, Len(p))[i] = v[i]
    BY <1>1
  <2> QED
    BY <1>1, <2>1
<1> QED
  BY <1>1, <1>2

\* The framer was given the first i bytes of v.
Fed(r, v, i) ==
  r \in FramerStates /\ r.status = "more" /\ r.used = i /\ r.buffer = SubSeq(v, 1, i)
    /\ r.record = NoRecord

\* The framer returned v.
Returned(r, v) ==
  /\ r.status = "ready" /\ r.used = Len(v)
  /\ r.record = [at |-> 0, size |-> Len(v), check |-> "valid"]

LEMMA VerdictFed ==
  ASSUME NEW v \in Seq(Nat), NEW i \in Nat, i < Len(v), NEW r, Fed(r, v, i)
  PROVE  Fed(Verdict(r, SubSeq(v, 1, i + 1), "more"), v, i + 1)
<1>1. SubSeq(v, 1, i + 1) \in Seq(Nat) /\ "more" \in Statuses
  BY DEF Statuses
<1>2. r \in FramerStates /\ r.used = i
  BY DEF Fed
<1> DEFINE s == SubSeq(v, 1, i + 1)
           p == Verdict(r, s, "more")
<1>3. IsVerdict(p, r, s, "more")
  <2> HIDE DEF s
  <2> QED
    BY <1>1, <1>2, VerdictTyped DEF s
<1> HIDE DEF p, s
<1>4. Fed(p, v, i + 1)
  BY <1>2, <1>3 DEF Fed, IsVerdict, s
<1> QED
  BY <1>4 DEF p, s

LEMMA ReadyReturned ==
  ASSUME NEW v \in Seq(Nat), NEW i \in Nat, i + 1 = Len(v), NEW r, Fed(r, v, i)
  PROVE  Returned(Ready(r, Len(v), r.used + 1 - Len(v), "valid"), v)
<1>1. r.used = i /\ r.used + 1 - Len(v) = 0 /\ r.used + 1 = Len(v)
  BY DEF Fed
<1> QED
  BY <1>1 DEF Ready, Returned

LEMMA FrameFed ==
  ASSUME NEW f \in BinaryFramers, NEW v \in Seq(Nat), IsValidFrame(f, v),
         NEW i \in Nat, i < Len(v), NEW r, Fed(r, v, i)
  PROVE  IF i + 1 < Len(v) THEN Fed(PushByte(f, r, v[i + 1]), v, i + 1)
         ELSE Returned(PushByte(f, r, v[i + 1]), v)
<1> DEFINE b == v[i + 1]
           s == Append(r.buffer, b)
           k == Len(f.sync)
           m == FrameSize(f, s, 1)
<1>1. /\ Append(SubSeq(v, 1, i), b) = SubSeq(v, 1, i + 1) /\ b \in Nat
      /\ SubSeq(v, 1, i + 1) \in Seq(Nat) /\ Len(SubSeq(v, 1, i + 1)) = i + 1
      /\ \A j \in 1..(i + 1) : SubSeq(v, 1, i + 1)[j] = v[j]
      /\ SubSeq(v, 1, i) \in Seq(Nat) /\ Len(SubSeq(v, 1, i)) = i
  <2>1. Grows(v, i)
    BY HeadGrows
  <2> QED
    BY <2>1 DEF Grows
<1>2. r.buffer = SubSeq(v, 1, i)
  BY DEF Fed
<1>2a. r.buffer = <<>> <=> i = 0
  BY <1>1, <1>2, NoneIsEmpty
<1> HIDE DEF b
<1>3. /\ s = SubSeq(v, 1, i + 1) /\ Len(s) = i + 1
      /\ \A j \in 1..(i + 1) : s[j] = v[j]
      /\ (r.buffer = <<>> <=> i = 0)
  <2>1. s = SubSeq(v, 1, i + 1)
    BY <1>1, <1>2
  <2> HIDE DEF s
  <2> QED
    BY <1>1, <1>2a, <2>1
<1>4. /\ f.sync \in Seq(Nat) /\ k \in 1..3 /\ HeaderSize(f) = k + 1
  BY BinaryForm
<1>5. /\ k + 1 < Len(v) /\ Len(v) <= MaxFrame /\ LengthPlausible(f, v[k + 1])
      /\ \A j \in 1..k : v[j] = f.sync[j]
      /\ FrameSize(f, v, 1) = Len(v) /\ ChecksumOk(f, v, 1, Len(v))
  BY <1>4, PrefixIs DEF IsValidFrame
<1>6. i + 1 <= k => b = f.sync[i + 1]
  BY <1>4, <1>5 DEF b
<1>7. r.buffer = <<>> => b = f.sync[1]
  BY <1>3, <1>4, <1>6
<1>8. i + 1 = k + 1 => LengthPlausible(f, b)
  BY <1>5 DEF b
<1>9. i + 1 > k => m = Len(v)
  <2>1. ASSUME i + 1 > k PROVE s[1 + k] = v[1 + k]
    <3>1. 1 + k \in 1..(i + 1)
      BY <1>4, <2>1
    <3> HIDE DEF s
    <3> QED
      BY <1>3, <3>1
  <2>2. m = HeaderSize(f) + s[1 + k] + 1 /\ FrameSize(f, v, 1) = HeaderSize(f) + v[1 + k] + 1
    BY DEF FrameSize
  <2> HIDE DEF s, m, k
  <2> QED
    BY <1>5, <2>1, <2>2
<1>10. PushByte(f, r, b) =
        IF r.buffer = <<>> /\ b # f.sync[1] THEN Verdict(r, <<>>, "skipped")
        ELSE IF Len(s) <= k /\ b # f.sync[Len(s)]
          THEN IF b = f.sync[1] THEN Verdict(r, <<b>>, "more") ELSE Verdict(r, <<>>, "skipped")
        ELSE IF Len(s) = k + 1 /\ ~LengthPlausible(f, b)
          THEN IF b = f.sync[1] THEN Verdict(r, <<b>>, "more") ELSE Verdict(r, <<>>, "invalid")
        ELSE IF Len(s) <= k THEN Verdict(r, s, "more")
        ELSE IF m > MaxFrame THEN Verdict(r, <<>>, "overflow")
        ELSE IF Len(s) < m THEN Verdict(r, s, "more")
        ELSE Complete(f, r, s)
  BY PushSplits, BinaryOrLine DEF PushBinary, Framers
<1>11. MaxFrame \in Nat /\ Len(v) \in Nat
  BY FramingAssumption
<1> DEFINE t == SubSeq(v, 1, i + 1)
<1>12. Fed(Verdict(r, t, "more"), v, i + 1)
  BY VerdictFed
<1> HIDE DEF b, s, k, m
<1>13. CASE i + 1 < Len(v)
  <2>1. PushByte(f, r, b) = Verdict(r, s, "more")
    BY <1>3, <1>4, <1>5, <1>6, <1>7, <1>8, <1>9, <1>10, <1>11, <1>13
  <2> QED
    BY <1>3, <1>12, <1>13, <2>1 DEF b
<1>14. CASE i + 1 = Len(v)
  <2>1. PushByte(f, r, b) = Complete(f, r, s)
    BY <1>3, <1>4, <1>5, <1>6, <1>7, <1>8, <1>9, <1>10, <1>11, <1>14
  <2>2. s = v
    BY <1>3, <1>14, HeadWhole
  <2>3. Complete(f, r, s) = Ready(r, Len(v), r.used + 1 - Len(v), "valid")
    BY <1>5, <2>2 DEF Complete
  <2>4. Returned(Ready(r, Len(v), r.used + 1 - Len(v), "valid"), v)
    BY <1>14, ReadyReturned
  <2> QED
    BY <1>14, <2>1, <2>3, <2>4 DEF b
<1> QED
  BY <1>11, <1>13, <1>14

LEMMA LineFed ==
  ASSUME NEW f \in LineFramers, NEW v \in Seq(Nat), IsValidLine(f, v), v[1] \in f.leads,
         NEW i \in Nat, i < Len(v), NEW r, Fed(r, v, i)
  PROVE  IF i + 1 < Len(v) THEN Fed(PushByte(f, r, v[i + 1]), v, i + 1)
         ELSE Returned(PushByte(f, r, v[i + 1]), v)
<1> DEFINE b == v[i + 1]
           s == Append(r.buffer, b)
<1>1. /\ Append(SubSeq(v, 1, i), b) = SubSeq(v, 1, i + 1) /\ b \in Nat
      /\ SubSeq(v, 1, i + 1) \in Seq(Nat) /\ Len(SubSeq(v, 1, i + 1)) = i + 1
      /\ \A j \in 1..(i + 1) : SubSeq(v, 1, i + 1)[j] = v[j]
      /\ SubSeq(v, 1, i) \in Seq(Nat) /\ Len(SubSeq(v, 1, i)) = i
  <2>1. Grows(v, i)
    BY HeadGrows
  <2> QED
    BY <2>1 DEF Grows
<1>2. r.buffer = SubSeq(v, 1, i)
  BY DEF Fed
<1>2a. r.buffer = <<>> <=> i = 0
  BY <1>1, <1>2, NoneIsEmpty
<1> HIDE DEF b
<1>3. s = SubSeq(v, 1, i + 1) /\ Len(s) = i + 1 /\ (r.buffer = <<>> <=> i = 0)
  <2>1. s = SubSeq(v, 1, i + 1)
    BY <1>1, <1>2
  <2> HIDE DEF s
  <2> QED
    BY <1>1, <1>2a, <2>1
<1>4. /\ 1 < Len(v) /\ Len(v) <= MaxLine /\ MaxLine \in Nat /\ Len(v) \in Nat
      /\ v[Len(v)] = NL /\ LineStatus(f, v) = "valid"
      /\ \A j \in 2..(Len(v) - 1) : v[j] \in Data \cup {Star}
  BY FramingAssumption DEF IsValidLine
<1>5. f.leads \subseteq {Dollar, Hash}
  BY LineForm
<1>6. i # 0 => b \notin f.leads
  <2>1. CASE i + 1 \in 2..(Len(v) - 1)
    <3>1. b \in Data \cup {Star}
      BY <1>4, <2>1 DEF b
    <3> QED
      BY <1>5, <3>1, TextBytes
  <2>2. CASE i + 1 = Len(v)
    <3>1. b = NL
      BY <1>4, <2>2 DEF b
    <3> QED
      BY <1>5, <3>1 DEF NL, Dollar, Hash
  <2> QED
    BY <1>4, <2>1, <2>2
<1>7. i = 0 => b \in f.leads
  BY DEF b
<1>8. b = NL <=> i + 1 = Len(v)
  <2>1. CASE i = 0
    <3>1. b # NL
      BY <1>5, <1>7, <2>1 DEF NL, Dollar, Hash
    <3> QED
      BY <1>4, <2>1, <3>1
  <2>2. CASE i + 1 \in 2..(Len(v) - 1)
    <3>1. b \in Data \cup {Star}
      BY <1>4, <2>2 DEF b
    <3>2. b # NL
      BY <3>1, TextBytes
    <3> QED
      BY <1>4, <2>2, <3>2
  <2>3. CASE i + 1 = Len(v)
    BY <1>4, <2>3 DEF b
  <2> QED
    BY <1>4, <2>1, <2>2, <2>3
<1>9. PushByte(f, r, b) =
        IF r.buffer = <<>>
          THEN IF b \in f.leads THEN Verdict(r, s, "more") ELSE Verdict(r, <<>>, "skipped")
        ELSE IF f = Nmea /\ b \in f.leads THEN Verdict(r, <<b>>, "more")
        ELSE IF Len(s) > MaxLine THEN Verdict(r, <<>>, "overflow")
        ELSE IF b # NL THEN Verdict(r, s, "more")
        ELSE Ready(r, Len(s), r.used + 1 - Len(s), LineStatus(f, s))
  BY PushSplits, BinaryOrLine DEF PushLine, Framers
<1> DEFINE t == SubSeq(v, 1, i + 1)
<1>10. Fed(Verdict(r, t, "more"), v, i + 1)
  BY VerdictFed
<1> HIDE DEF b, s
<1>11. CASE i + 1 < Len(v)
  <2>1. PushByte(f, r, b) = Verdict(r, s, "more")
    BY <1>3, <1>4, <1>6, <1>7, <1>8, <1>9, <1>11
  <2> QED
    BY <1>3, <1>10, <1>11, <2>1 DEF b
<1>12. CASE i + 1 = Len(v)
  <2>1. s = v
    BY <1>3, <1>12, HeadWhole
  <2>2. PushByte(f, r, b) = Ready(r, Len(v), r.used + 1 - Len(v), "valid")
    <3>1. r.buffer # <<>> /\ ~(Len(s) > MaxLine) /\ b = NL /\ b \notin f.leads
      BY <1>3, <1>4, <1>6, <1>8, <1>12
    <3>2. PushByte(f, r, b) = Ready(r, Len(s), r.used + 1 - Len(s), LineStatus(f, s))
      BY <1>9, <3>1
    <3> QED
      BY <1>4, <2>1, <3>2
  <2>3. Returned(Ready(r, Len(v), r.used + 1 - Len(v), "valid"), v)
    BY <1>12, ReadyReturned
  <2> QED
    BY <1>12, <2>2, <2>3 DEF b
<1> QED
  BY <1>4, <1>11, <1>12

-----------------------------------------------------------------------------
(* A fold step by step.                                                    *)

LEMMA MaxIsIn ==
  ASSUME NEW n \in Nat, NEW T \in SUBSET (1..n), T # {}
  PROVE  Max(T) \in T
<1> DEFINE S == {n - x : x \in T}
<1>1. S \subseteq Nat /\ S # {}
  <2>1. \A x \in T : x \in Int /\ n - x \in Nat
    OBVIOUS
  <2> QED
    BY <2>1
<1> HIDE DEF S
<1>2. PICK m \in S : \A x \in S : m <= x
  BY <1>1, Least
<1>3. PICK y \in T : m = n - y
  BY <1>2 DEF S
<1>4. ASSUME NEW x \in T PROVE y >= x
  <2>1. n - x \in S
    BY DEF S
  <2>2. n - y <= n - x
    BY <1>2, <1>3, <2>1
  <2> QED
    BY <1>3, <2>2
<1> QED
  BY <1>4 DEF Max

-----------------------------------------------------------------------------
(* ProbeAtOffset.                                                          *)

ProbeStep(f, r, b) == IF r.status = "more" THEN PushByte(f, r, b) ELSE r

ProbeFold(f, s, g) ==
  g = [T \in SUBSET DOMAIN s |->
         IF T = {} THEN Started ELSE ProbeStep(f, g[T \ {Max(T)}], s[Max(T)])]

LEMMA ProbeIsFold ==
  ASSUME NEW f, NEW s
  PROVE  Probe(f, s) = (CHOOSE g : ProbeFold(f, s, g))[DOMAIN s]
BY DEF Probe, FoldLeft, MapThenFoldSet, ProbeFold, ProbeStep

LEMMA StartedTyped == Started \in FramerStates
BY NoRecordTyped DEF Started, FramerStates, Statuses

LEMMA ProbeStepTyped ==
  ASSUME NEW f \in Framers, NEW r \in FramerStates, NEW b \in Nat
  PROVE  ProbeStep(f, r, b) \in FramerStates
BY PushOutcome DEF ProbeStep, Outcome

\* The states of the framer that ProbeAtOffset runs.
IsProbe(t, f, s) ==
  /\ t \in [0..Len(s) -> FramerStates]
  /\ t[0] = Started
  /\ \A i \in 1..Len(s) : t[i] = ProbeStep(f, t[i - 1], s[i])
  /\ Probe(f, s) = t[Len(s)]

ProbeSteps(f, s) ==
  [x \in FramerStates \X (1..Len(s)) |-> ProbeStep(f, x[1], s[x[2]])]

LEMMA ProbeStepsTyped ==
  ASSUME NEW f \in Framers, NEW s \in Seq(Nat)
  PROVE  ProbeSteps(f, s) \in [FramerStates \X (1..Len(s)) -> FramerStates]
<1>1. ASSUME NEW x \in FramerStates \X (1..Len(s))
      PROVE  ProbeStep(f, x[1], s[x[2]]) \in FramerStates
  <2>1. x[1] \in FramerStates /\ s[x[2]] \in Nat
    OBVIOUS
  <2> QED
    BY <2>1, ProbeStepTyped
<1> QED
  BY <1>1 DEF ProbeSteps

LEMMA ProbeStepsSame ==
  ASSUME NEW f \in Framers, NEW s \in Seq(Nat), NEW g \in [SUBSET (1..Len(s)) -> FramerStates]
  PROVE  IsFold(g, Started, ProbeSteps(f, s), Len(s)) => ProbeFold(f, s, g)
<1>1. DOMAIN s = 1..Len(s) /\ Len(s) \in Nat
  OBVIOUS
<1>2. ASSUME NEW T \in SUBSET (1..Len(s)), T # {}
      PROVE  ProbeSteps(f, s)[<<g[T \ {Max(T)}], Max(T)>>] = ProbeStep(f, g[T \ {Max(T)}], s[Max(T)])
  <2>1. Max(T) \in 1..Len(s)
    BY <1>1, <1>2, MaxIsIn
  <2>2. T \ {Max(T)} \in SUBSET (1..Len(s))
    OBVIOUS
  <2>3. g[T \ {Max(T)}] \in FramerStates
    BY <2>2
  <2>4. <<g[T \ {Max(T)}], Max(T)>> \in FramerStates \X (1..Len(s))
    BY <2>1, <2>3
  <2> QED
    BY <2>4 DEF ProbeSteps
<1> QED
  BY <1>1, <1>2 DEF IsFold, ProbeFold

LEMMA ProbeRuns ==
  ASSUME NEW f \in Framers, NEW s \in Seq(Nat)
  PROVE  \E t : IsProbe(t, f, s)
<1> DEFINE n == Len(s)
           h == CHOOSE g : ProbeFold(f, s, g)
           t == [i \in 0..n |-> h[1..i]]
<1>1. n \in Nat /\ DOMAIN s = 1..n
  OBVIOUS
<1>2. \E g \in [SUBSET (1..n) -> FramerStates] : IsFold(g, Started, ProbeSteps(f, s), n)
  <2> HIDE DEF n
  <2>1. ProbeSteps(f, s) \in [FramerStates \X (1..n) -> FramerStates]
    BY ProbeStepsTyped DEF n
  <2> QED
    BY <1>1, <2>1, StartedTyped, FoldExists
<1>3. \E g : ProbeFold(f, s, g)
  BY <1>2, ProbeStepsSame
<1>4. ProbeFold(f, s, h)
  BY <1>3
<1> HIDE DEF h
<1>5. /\ h[1..0] = Started
      /\ \A i \in 1..n : h[1..i] = ProbeStep(f, h[1..(i - 1)], s[i])
  <2>1. \A T \in SUBSET (1..n) :
          h[T] = IF T = {} THEN Started ELSE ProbeStep(f, h[T \ {Max(T)}], s[Max(T)])
    BY <1>1, <1>4 DEF ProbeFold
  <2>2. h[1..0] = Started
    <3>1. 1..0 = {} /\ 1..0 \in SUBSET (1..n)
      OBVIOUS
    <3> QED
      BY <2>1, <3>1
  <2>3. ASSUME NEW i \in 1..n
        PROVE  h[1..i] = ProbeStep(f, h[1..(i - 1)], s[i])
    <3> DEFINE k == i - 1
    <3>1. k \in Nat /\ i = k + 1 /\ 1..i \in SUBSET (1..n)
      OBVIOUS
    <3>2. Max(1..i) = i /\ (1..i) \ {i} = 1..k /\ 1..i # {}
      <4> HIDE DEF k
      <4> QED
        BY <3>1, IntervalGrows
    <3> HIDE DEF n
    <3> QED
      BY <2>1, <3>1, <3>2
  <2> QED
    BY <2>2, <2>3
<1> HIDE DEF n
<1> DEFINE S == {i \in 0..n : h[1..i] \in FramerStates}
<1>6. 0 \in S
  BY <1>1, <1>5, StartedTyped
<1>7. ASSUME NEW i \in 1..n, i - 1 \in S
      PROVE  i \in S
  <2>1. s[i] \in Nat
    BY DEF n
  <2>2. h[1..(i - 1)] \in FramerStates
    BY <1>7
  <2> QED
    BY <1>5, <2>1, <2>2, ProbeStepTyped
<1>8. \A i \in 0..n : i \in S
  <2> HIDE DEF S
  <2> QED
    BY <1>1, <1>6, <1>7, Climbs
<1>9. t \in [0..n -> FramerStates]
  BY <1>8
<1>10. t[0] = Started
  BY <1>1, <1>5
<1>11. ASSUME NEW i \in 1..n PROVE t[i] = ProbeStep(f, t[i - 1], s[i])
  <2>1. i \in 0..n /\ i - 1 \in 0..n
    BY <1>1
  <2>2. t[i] = h[1..i] /\ t[i - 1] = h[1..(i - 1)]
    BY <2>1
  <2> QED
    BY <1>5, <2>2
<1>12. Probe(f, s) = t[n]
  <2>1. Probe(f, s) = h[1..n]
    BY <1>1, ProbeIsFold DEF h
  <2> QED
    BY <1>1, <2>1
<1> HIDE DEF t
<1>13. IsProbe(t, f, s)
  BY <1>9, <1>10, <1>11, <1>12 DEF IsProbe, n
<1> QED
  BY <1>13

\* Every byte but the first, up to the u-th, follows a leader closely.
NearBy(f, s, u) ==
  \A v \in 2..u : \E w \in 1..(v - 1) : s[w] \in LeadsOf(f) /\ v - w <= Limit(f)

\* The state of the framer after i bytes of s, of which the first is a leader.
ProbedMore(r, f, s, i) ==
  /\ r.status = "more" /\ r.used = i /\ r.record = NoRecord
  /\ Len(r.buffer) \in 1..i /\ Len(r.buffer) <= Limit(f)
  /\ s[i - Len(r.buffer) + 1] \in LeadsOf(f)
  /\ NearBy(f, s, i + 1)

ProbedSaid(r, f, s, i) ==
  /\ r.status # "more" /\ r.used \in 1..i
  /\ NearBy(f, s, r.used)
  /\ r.status = "ready" =>
       r.record.at >= 0 /\ r.record.size >= 1 /\ r.record.at + r.record.size <= r.used

LEMMA FirstByte ==
  ASSUME NEW f \in Framers, NEW b \in LeadsOf(f)
  PROVE  PushByte(f, Started, b) = Verdict(Started, <<b>>, "more")
<1>1. Started.buffer = <<>> /\ Append(<<>>, b) = <<b>> /\ Len(<<b>>) = 1
  BY DEF Started
<1>2. CASE f \in BinaryFramers
  <2>1. b = f.sync[1] /\ Len(f.sync) \in 1..3
    BY <1>2, BinaryForm
  <2>2. PushBinary(f, Started, b) = Verdict(Started, <<b>>, "more")
    BY <1>1, <2>1 DEF PushBinary
  <2> QED
    BY <1>2, <2>2, PushSplits, BinaryOrLine
<1>3. CASE f \in LineFramers
  <2>1. b \in f.leads
    BY <1>3, LineForm
  <2>2. PushLine(f, Started, b) = Verdict(Started, <<b>>, "more")
    BY <1>1, <2>1 DEF PushLine
  <2> QED
    BY <1>3, <2>2, PushSplits, BinaryOrLine
<1> QED
  BY <1>2, <1>3 DEF Framers

LEMMA NearGrows ==
  ASSUME NEW f, NEW s, NEW i \in Nat, NearBy(f, s, i), Limit(f) \in Nat,
         NEW l \in 1..i, l <= Limit(f), s[i - l + 1] \in LeadsOf(f)
  PROVE  NearBy(f, s, i + 1)
<1> SUFFICES ASSUME NEW v \in 2..(i + 1)
             PROVE  \E w \in 1..(v - 1) : s[w] \in LeadsOf(f) /\ v - w <= Limit(f)
  BY DEF NearBy
<1>1. CASE v \in 2..i
  BY <1>1 DEF NearBy
<1>2. CASE v = i + 1
  <2> DEFINE w == i - l + 1
  <2>1. w \in 1..(v - 1) /\ v - w = l
    BY <1>2
  <2>2. s[w] \in LeadsOf(f) /\ v - w <= Limit(f)
    BY <2>1
  <2> HIDE DEF w
  <2> QED
    BY <2>1, <2>2
<1> QED
  BY <1>1, <1>2

LEMMA ProbedFirst ==
  ASSUME NEW f \in Framers, NEW s \in Seq(Nat), s # <<>>, s[1] \in LeadsOf(f)
  PROVE  ProbedMore(PushByte(f, Started, s[1]), f, s, 1)
<1> DEFINE p == Verdict(Started, <<s[1]>>, "more")
<1>1. s[1] \in Nat /\ <<s[1]>> \in Seq(Nat) /\ "more" \in Statuses
  BY LeadsAreBytes DEF Statuses
<1>2. IsVerdict(p, Started, <<s[1]>>, "more")
  BY <1>1, StartedTyped, VerdictTyped
<1>3. Started.used = 0
  BY DEF Started
<1> HIDE DEF p
<1>4. p.status = "more" /\ p.used = 1 /\ p.record = NoRecord /\ p.buffer = <<s[1]>>
  BY <1>2, <1>3 DEF IsVerdict
<1>5. Len(p.buffer) = 1
  BY <1>4
<1>6. Limit(f) \in Nat /\ Limit(f) >= 1
  BY LimitPositive
<1>7. NearBy(f, s, 1)
  BY DEF NearBy
<1>8. NearBy(f, s, 1 + 1)
  <2>1. s[1 - 1 + 1] \in LeadsOf(f) /\ 1 \in 1..1
    OBVIOUS
  <2> QED
    BY <1>6, <1>7, <2>1, NearGrows
<1>9. ProbedMore(p, f, s, 1)
  BY <1>4, <1>5, <1>6, <1>8 DEF ProbedMore
<1> QED
  BY <1>9, FirstByte DEF p

LEMMA ProbedNext ==
  ASSUME NEW f \in Framers, NEW s \in Seq(Nat), NEW i \in 1..(Len(s) - 1),
         NEW r \in FramerStates, ProbedMore(r, f, s, i)
  PROVE  \/ ProbedMore(PushByte(f, r, s[i + 1]), f, s, i + 1)
         \/ ProbedSaid(PushByte(f, r, s[i + 1]), f, s, i + 1)
<1> DEFINE b == s[i + 1]
           p == PushByte(f, r, b)
           L == Len(r.buffer)
           M == Len(p.buffer)
<1>1. b \in Nat /\ i + 1 \in Nat /\ i \in Nat
  OBVIOUS
<1>2. Outcome(f, r, b, p)
  BY <1>1, PushOutcome
<1> HIDE DEF p
<1>3. /\ r.used = i /\ L \in 1..i /\ L <= Limit(f) /\ s[i - L + 1] \in LeadsOf(f)
      /\ NearBy(f, s, i + 1) /\ r.buffer \in Seq(Nat)
  BY DEF ProbedMore, FramerStates
<1>4. Limit(f) \in Nat
  BY LimitPositive
<1>5. p.used = i + 1 /\ p \in FramerStates
  BY <1>2, <1>3 DEF Outcome
<1>6. ASSUME p.status = "more" PROVE ProbedMore(p, f, s, i + 1)
  <2>1. /\ p.record = NoRecord /\ p.buffer \in {Append(r.buffer, b), <<b>>}
        /\ p.buffer = <<b>> => b \in LeadsOf(f)
        /\ M <= Limit(f)
    BY <1>2, <1>6 DEF Outcome
  <2>2. M \in 1..(i + 1) /\ s[(i + 1) - M + 1] \in LeadsOf(f)
    <3>1. CASE p.buffer = Append(r.buffer, b)
      <4>1. M = L + 1
        BY <1>1, <1>3, <3>1
      <4>2. (i + 1) - M + 1 = i - L + 1
        BY <1>3, <4>1
      <4>3. M \in 1..(i + 1)
        <5> HIDE DEF M, L
        <5> QED
          BY <1>1, <1>3, <4>1
      <4> QED
        BY <1>3, <4>2, <4>3
    <3>2. CASE p.buffer = <<b>>
      <4>1. M = 1 /\ b \in LeadsOf(f)
        BY <2>1, <3>2
      <4>2. (i + 1) - M + 1 = i + 1
        BY <4>1
      <4> QED
        BY <4>1, <4>2
    <3> QED
      BY <2>1, <3>1, <3>2
  <2> HIDE DEF M, b
  <2>3. NearBy(f, s, (i + 1) + 1)
    <3> DEFINE k == i + 1
    <3>1. /\ k \in Nat /\ NearBy(f, s, k) /\ M \in 1..k /\ M <= Limit(f)
          /\ s[k - M + 1] \in LeadsOf(f)
      BY <1>1, <1>3, <2>1, <2>2
    <3> HIDE DEF k
    <3>2. NearBy(f, s, k + 1)
      BY <1>4, <3>1, NearGrows
    <3> QED
      BY <3>2 DEF k
  <2> QED
    BY <1>5, <1>6, <2>1, <2>2, <2>3 DEF ProbedMore, M
<1>7. ASSUME p.status # "more" PROVE ProbedSaid(p, f, s, i + 1)
  <2>1. p.status = "ready" =>
          /\ p.record.size >= 1 /\ p.record.at >= r.used - L
          /\ p.record.at + p.record.size <= p.used
    BY <1>2 DEF Outcome
  <2>2. p.status = "ready" => p.record.at >= 0
    <3>1. p.record.at \in Int
      BY <1>5 DEF FramerStates, Records
    <3>2. i \in Nat /\ L \in 1..i /\ r.used = i
      BY <1>1, <1>3
    <3> HIDE DEF L
    <3>3. r.used - L >= 0 /\ r.used - L \in Int
      BY <3>2
    <3> QED
      BY <2>1, <3>1, <3>3
  <2>3. p.used \in 1..(i + 1)
    <3>1. i + 1 \in 1..(i + 1)
      BY <1>1
    <3> QED
      BY <1>5, <3>1
  <2> QED
    BY <1>3, <1>5, <1>7, <2>1, <2>2, <2>3 DEF ProbedSaid
<1>8. ProbedMore(p, f, s, i + 1) \/ ProbedSaid(p, f, s, i + 1)
  BY <1>6, <1>7
<1> QED
  BY <1>8 DEF p

LEMMA ProbedAll ==
  ASSUME NEW f \in Framers, NEW s \in Seq(Nat), s # <<>>, s[1] \in LeadsOf(f)
  PROVE  /\ Probe(f, s) \in FramerStates
         /\ ProbedMore(Probe(f, s), f, s, Len(s)) \/ ProbedSaid(Probe(f, s), f, s, Len(s))
<1> DEFINE n == Len(s)
           Probed(r, i) == ProbedMore(r, f, s, i) \/ ProbedSaid(r, f, s, i)
<1>1. n \in Nat /\ n >= 1
  BY NoneIsEmpty
<1>2. PICK t : IsProbe(t, f, s)
  BY ProbeRuns
<1> DEFINE S == {i \in 0..n : i >= 1 => Probed(t[i], i)}
<1>3. 0 \in S
  BY <1>1
<1>4. ASSUME NEW i \in 1..n, i - 1 \in S
      PROVE  i \in S
  <2>1. t[i] = ProbeStep(f, t[i - 1], s[i]) /\ t[i - 1] \in FramerStates
    <3>1. t[i] = ProbeStep(f, t[i - 1], s[i])
      BY <1>2 DEF IsProbe
    <3>2. t \in [0..n -> FramerStates]
      BY <1>2 DEF IsProbe
    <3>3. i - 1 \in 0..n
      <4> HIDE DEF n
      <4> QED
        BY <1>1
    <3> HIDE DEF n
    <3> QED
      BY <3>1, <3>2, <3>3
  <2>2. CASE i = 1
    <3>1. t[1] = PushByte(f, Started, s[1])
      BY <1>2, <2>1, <2>2 DEF IsProbe, ProbeStep, Started
    <3>2. ProbedMore(t[1], f, s, 1)
      BY <3>1, ProbedFirst
    <3> QED
      BY <1>1, <2>2, <3>2
  <2>3. CASE i # 1
    <3>0. i - 1 \in 1..(n - 1) /\ i = (i - 1) + 1
      BY <1>1, <2>3
    <3>1. PICK j \in 1..(n - 1) : i = j + 1 /\ i - 1 = j
      BY <3>0
    <3>2. Probed(t[j], j)
      BY <1>4, <3>1
    <3>2a. t[i] = ProbeStep(f, t[j], s[j + 1]) /\ t[j] \in FramerStates
      BY <2>1, <3>1
    <3>3. CASE ProbedMore(t[j], f, s, j)
      <4>1. t[i] = PushByte(f, t[j], s[j + 1])
        BY <3>2a, <3>3 DEF ProbeStep, ProbedMore
      <4>2. \/ ProbedMore(PushByte(f, t[j], s[j + 1]), f, s, j + 1)
            \/ ProbedSaid(PushByte(f, t[j], s[j + 1]), f, s, j + 1)
        BY <3>2a, <3>3, ProbedNext
      <4>3. Probed(t[i], i)
        BY <3>1, <4>1, <4>2
      <4> QED
        BY <4>3
    <3>4. CASE ProbedSaid(t[j], f, s, j)
      <4>1. t[i] = t[j]
        BY <3>2a, <3>4 DEF ProbeStep, ProbedSaid
      <4>2. t[j].used \in 1..i
        BY <3>1, <3>4 DEF ProbedSaid
      <4>3. ProbedSaid(t[i], f, s, i)
        BY <3>4, <4>1, <4>2 DEF ProbedSaid
      <4> QED
        BY <4>3
    <3> QED
      BY <3>2, <3>3, <3>4
  <2> QED
    BY <2>2, <2>3
<1>5. \A i \in 0..n : i \in S
  <2> HIDE DEF S
  <2> QED
    BY <1>1, <1>3, <1>4, Climbs
<1>6. Probed(t[n], n)
  BY <1>1, <1>5
<1>7. Probe(f, s) = t[n] /\ t[n] \in FramerStates
  BY <1>1, <1>2 DEF IsProbe
<1> QED
  BY <1>6, <1>7

\* v is a valid record of the framer f.
IsRecordOf(f, v) ==
  /\ v \in Seq(Nat) /\ Len(v) >= 2 /\ v[1] \in LeadsOf(f)
  /\ \/ f \in BinaryFramers /\ IsValidFrame(f, v)
     \/ f \in LineFramers /\ IsValidLine(f, v)

LEMMA RecordFed ==
  ASSUME NEW f, NEW v, IsRecordOf(f, v), NEW i \in Nat, i < Len(v), NEW r, Fed(r, v, i)
  PROVE  IF i + 1 < Len(v) THEN Fed(PushByte(f, r, v[i + 1]), v, i + 1)
         ELSE Returned(PushByte(f, r, v[i + 1]), v)
BY FrameFed, LineFed, LineForm DEF IsRecordOf

LEMMA StartedFed == \A v \in Seq(Nat) : Fed(Started, v, 0)
<1> SUFFICES ASSUME NEW v \in Seq(Nat) PROVE Fed(Started, v, 0)
  OBVIOUS
<1>1. SubSeq(v, 1, 0) = <<>>
  OBVIOUS
<1> QED
  BY <1>1, StartedTyped DEF Fed, Started

\* ProbeAtOffset returns a valid record at the head of s, once all of it is
\* there.
LEMMA ProbeValid ==
  ASSUME NEW f, NEW v, IsRecordOf(f, v), f \in Framers, NEW s \in Seq(Nat),
         \A i \in 1..Len(s) : i <= Len(v) => s[i] = v[i]
  PROVE  IF Len(s) < Len(v) THEN Probe(f, s).status = "more" ELSE Returned(Probe(f, s), v)
<1> DEFINE n == Len(s)
           m == Len(v)
<1>1. n \in Nat /\ m \in Nat /\ m >= 2 /\ v \in Seq(Nat)
  BY DEF IsRecordOf
<1>2. PICK t : IsProbe(t, f, s)
  BY ProbeRuns
<1>3. t[0] = Started /\ (\A i \in 1..n : t[i] = ProbeStep(f, t[i - 1], s[i])) /\ Probe(f, s) = t[n]
  BY <1>2 DEF IsProbe
<1>4. \A i \in 1..n : i <= m => s[i] = v[i]
  OBVIOUS
<1> HIDE DEF n, m
<1> DEFINE S == {i \in 0..n : IF i < m THEN Fed(t[i], v, i) ELSE Returned(t[i], v)}
<1>5. 0 \in S
  BY <1>1, <1>3, StartedFed
<1>6. ASSUME NEW i \in 1..n, i - 1 \in S
      PROVE  i \in S
  <2> DEFINE j == i - 1
  <2>1. j \in Nat /\ i = j + 1 /\ i \in 0..n
    BY <1>1
  <2>2. t[i] = ProbeStep(f, t[j], s[i])
    BY <1>3
  <2>3. CASE j < m
    <3>1. Fed(t[j], v, j)
      BY <1>6, <2>3
    <3>2. s[i] = v[j + 1]
      BY <1>1, <1>4, <2>1, <2>3
    <3>3. t[i] = PushByte(f, t[j], v[j + 1])
      BY <2>2, <3>1, <3>2 DEF ProbeStep, Fed
    <3>4. IF j + 1 < m THEN Fed(PushByte(f, t[j], v[j + 1]), v, j + 1)
          ELSE Returned(PushByte(f, t[j], v[j + 1]), v)
      <4> HIDE DEF j
      <4> QED
        BY <2>1, <2>3, <3>1, RecordFed DEF m
    <3> HIDE DEF j
    <3> QED
      BY <2>1, <3>3, <3>4
  <2>4. CASE ~(j < m)
    <3>1. Returned(t[j], v)
      BY <1>6, <2>4
    <3>2. t[i] = t[j]
      BY <2>2, <3>1 DEF ProbeStep, Returned
    <3>3. ~(i < m)
      BY <1>1, <2>4
    <3> QED
      BY <2>1, <3>1, <3>2, <3>3
  <2> QED
    BY <2>3, <2>4
<1>7. \A i \in 0..n : i \in S
  <2> HIDE DEF S
  <2> QED
    BY <1>1, <1>5, <1>6, Climbs
<1>8. IF n < m THEN Fed(t[n], v, n) ELSE Returned(t[n], v)
  BY <1>1, <1>7
<1>9. IF n < m THEN Probe(f, s).status = "more" ELSE Returned(Probe(f, s), v)
  BY <1>3, <1>8 DEF Fed
<1> QED
  BY <1>9 DEF n, m

-----------------------------------------------------------------------------
(* What a session does at the head of its buffer.                          *)

Buffered == {"ublox", "unicore"}

LEMMA FramerForIs ==
  ASSUME NEW kind \in Buffered, NEW b, Leads(kind, b)
  PROVE  \E f \in Framers :
           /\ FramerFor(kind, b) = {f} /\ LeadFramer(kind, b) = f
           /\ b \in LeadsOf(f) /\ \A c \in LeadsOf(f) : Leads(kind, c)
           /\ f = UnicoreAscii => kind = "unicore"
<1>1. kind # "nmea" /\ FramerFor(kind, b) # {}
  BY DEF Buffered, Leads
<1>2. /\ LeadsOf(Ubx) = {UbxSync1} /\ LeadsOf(Rtcm) = {RtcmPreamble} /\ LeadsOf(N4) = {N4Sync1}
      /\ LeadsOf(Nmea) = {Dollar} /\ LeadsOf(UnicoreAscii) = {Dollar, Hash}
  <2>1. LeadsOf(Ubx) = {UbxSync1} /\ LeadsOf(Rtcm) = {RtcmPreamble} /\ LeadsOf(N4) = {N4Sync1}
    BY BinaryForm DEF BinaryFramers, Ubx, Rtcm, N4
  <2>2. LeadsOf(Nmea) = {Dollar} /\ LeadsOf(UnicoreAscii) = {Dollar, Hash}
    BY LineForm, FramersApart DEF LineFramers
  <2> QED
    BY <2>1, <2>2
<1>3. {Ubx, Rtcm, N4, Nmea, UnicoreAscii} \subseteq Framers
  BY DEF Framers, BinaryFramers, LineFramers
<1>4. ASSUME NEW f \in Framers, FramerFor(kind, b) = {f}, b \in LeadsOf(f),
             \A c \in LeadsOf(f) : FramerFor(kind, c) # {}, f = UnicoreAscii => kind = "unicore"
      PROVE  \E g \in Framers :
               /\ FramerFor(kind, b) = {g} /\ LeadFramer(kind, b) = g
               /\ b \in LeadsOf(g) /\ \A c \in LeadsOf(g) : Leads(kind, c)
               /\ g = UnicoreAscii => kind = "unicore"
  <2>1. LeadFramer(kind, b) = f
    BY <1>1, <1>4 DEF LeadFramer
  <2>2. \A c \in LeadsOf(f) : Leads(kind, c)
    BY <1>1, <1>4 DEF Leads
  <2> QED
    BY <1>4, <2>1, <2>2
<1>5. /\ Dollar # Hash /\ Dollar # UbxSync1 /\ Dollar # RtcmPreamble /\ Dollar # N4Sync1
      /\ Hash # N4Sync1 /\ UbxSync1 # RtcmPreamble
  BY DEF Dollar, Hash, UbxSync1, RtcmPreamble, N4Sync1
<1>6. CASE kind = "ublox"
  <2>1. /\ FramerFor(kind, Dollar) = {Nmea} /\ FramerFor(kind, UbxSync1) = {Ubx}
        /\ FramerFor(kind, RtcmPreamble) = {Rtcm}
    BY <1>5, <1>6 DEF FramerFor
  <2>2. b \in {Dollar, UbxSync1, RtcmPreamble}
    BY <1>1, <1>6 DEF FramerFor
  <2> QED
    BY <1>2, <1>3, <1>4, <2>1, <2>2, FramersApart
<1>7. CASE kind = "unicore"
  <2>1. /\ FramerFor(kind, Dollar) = {Nmea} /\ FramerFor(kind, Hash) = {UnicoreAscii}
        /\ FramerFor(kind, N4Sync1) = {N4}
    BY <1>5, <1>7 DEF FramerFor
  <2>2. b \in {Dollar, Hash, N4Sync1}
    BY <1>1, <1>7 DEF FramerFor
  <2> QED
    BY <1>2, <1>3, <1>4, <1>7, <2>1, <2>2
<1> QED
  BY <1>6, <1>7 DEF Buffered

\* Every byte of s but the first, up to the u-th, has a leader in reach.
Closely(kind, s, u) ==
  \A v \in 2..u : \E w \in 1..(v - 1) :
    Leads(kind, s[w]) /\ (v - w <= MaxFrame \/ v - w <= MaxLine)

\* The session skips a line up to where another record begins.
Resynced(kind, s, c) ==
  kind = "unicore" /\ c.next + 1 \in ResyncOffsets(s) /\ \A o \in ResyncOffsets(s) : c.next + 1 <= o

\* What can be said of a step of the session without looking into records.
Consumed(kind, s, c) ==
  /\ (c.keep = TRUE \/ c.keep = FALSE) /\ c.next \in Nat /\ c.routed \in Records
  /\ c.keep = TRUE => c.routed = NoRecord /\ Leads(kind, s[1]) /\ Closely(kind, s, Len(s))
  /\ c.keep = FALSE => c.next \in 1..Len(s) /\ (Closely(kind, s, c.next) \/ Resynced(kind, s, c))
  /\ c.keep = FALSE /\ ~Leads(kind, s[1]) => c.next = 1
  /\ c.routed # NoRecord =>
       /\ c.routed.at >= 0 /\ c.routed.size >= 1
       /\ kind = "unicore" => c.routed.at + c.routed.size <= c.next

LEMMA NearIsClose ==
  ASSUME NEW kind, NEW f, \A b \in LeadsOf(f) : Leads(kind, b), NEW s, NEW u, NearBy(f, s, u)
  PROVE  Closely(kind, s, u)
BY DEF NearBy, Closely, Limit

LEMMA NearLess ==
  ASSUME NEW f, NEW s, NEW u \in Nat, NearBy(f, s, u), NEW v \in Nat, v <= u
  PROVE  NearBy(f, s, v)
<1>1. \A x \in 2..v : x \in 2..u
  OBVIOUS
<1> QED
  BY <1>1 DEF NearBy

LEMMA NoRouteConsumed ==
  ASSUME NEW kind, NEW s \in Seq(Nat), s # <<>>
  PROVE  Consumed(kind, s, NoRoute)
<1>1. Len(s) \in Nat /\ 1 \in 1..Len(s)
  BY NoneIsEmpty
<1>2. NoRoute.next = 1 /\ NoRoute.keep = FALSE /\ NoRoute.routed = NoRecord
  BY DEF NoRoute
<1>3. Closely(kind, s, 1)
  BY DEF Closely
<1>a. (NoRoute.keep = TRUE \/ NoRoute.keep = FALSE) /\ NoRoute.next \in Nat /\ NoRoute.routed \in Records
  BY <1>2, NoRecordTyped
<1>b. NoRoute.keep # TRUE
  BY <1>2
<1>c. NoRoute.next \in 1..Len(s) /\ Closely(kind, s, NoRoute.next)
  BY <1>1, <1>2, <1>3
<1> QED
  BY <1>2, <1>a, <1>b, <1>c DEF Consumed

LEMMA AfterProbeConsumed ==
  ASSUME NEW kind \in Buffered, NEW s \in Seq(Nat), s # <<>>, Leads(kind, s[1]),
         NEW f \in Framers, s[1] \in LeadsOf(f), \A b \in LeadsOf(f) : Leads(kind, b)
  PROVE  Consumed(kind, s, AfterProbe(kind, s, Probe(f, s)))
<1> DEFINE p == Probe(f, s)
           c == AfterProbe(kind, s, p)
<1>0. Len(s) \in Nat
  OBVIOUS
<1>1. p \in FramerStates /\ (ProbedMore(p, f, s, Len(s)) \/ ProbedSaid(p, f, s, Len(s)))
  BY ProbedAll
<1> HIDE DEF p
<1>2. CASE ProbedMore(p, f, s, Len(s))
  <2>1. p.status = "more"
    BY <1>2 DEF ProbedMore
  <2>2. c = [NoRoute EXCEPT !.next = 0, !.keep = TRUE]
    BY <2>1 DEF AfterProbe
  <2>3. c.next = 0 /\ c.keep = TRUE /\ c.routed = NoRecord
    BY <2>2 DEF NoRoute
  <2>4. NearBy(f, s, Len(s))
    BY <1>0, <1>2, NearLess DEF ProbedMore
  <2>5. Closely(kind, s, Len(s))
    BY <2>4, NearIsClose
  <2> HIDE DEF c
  <2>6. Consumed(kind, s, c)
    <3>1. (c.keep = TRUE \/ c.keep = FALSE) /\ c.next \in Nat /\ c.routed \in Records
      BY <2>3, NoRecordTyped
    <3>2. c.keep # FALSE
      BY <2>3
    <3> QED
      BY <2>3, <2>5, <3>1, <3>2 DEF Consumed
  <2> QED
    BY <2>6 DEF c, p
<1>3. CASE ProbedSaid(p, f, s, Len(s)) /\ p.status = "ready"
  <2> DEFINE next == IF kind = "ublox" THEN p.record.size ELSE p.used
             routed == IF p.record.check = "valid" THEN p.record ELSE NoRecord
  <2>1. c = [next |-> next, keep |-> FALSE, routed |-> routed]
    BY <1>3 DEF AfterProbe
  <2>2. /\ p.used \in 1..Len(s) /\ NearBy(f, s, p.used)
        /\ p.record.at >= 0 /\ p.record.size >= 1 /\ p.record.at + p.record.size <= p.used
        /\ p.record.at \in Int /\ p.record.size \in Int /\ p.record \in Records
    BY <1>1, <1>3 DEF ProbedSaid, FramerStates, Records
  <2>3. next \in 1..Len(s) /\ next <= p.used
    BY <1>0, <2>2
  <2>4. NearBy(f, s, next)
    <3> HIDE DEF next, p
    <3> QED
      BY <2>2, <2>3, NearLess
  <2> HIDE DEF next
  <2>5. Closely(kind, s, next)
    BY <2>4, NearIsClose
  <2>6. routed \in Records
    BY <2>2, NoRecordTyped
  <2>7. routed # NoRecord => routed = p.record
    OBVIOUS
  <2>8. kind = "unicore" => next = p.used
    BY DEF next
  <2> HIDE DEF routed, c
  <2>9. c.next = next /\ c.keep = FALSE /\ c.routed = routed
    BY <2>1
  <2>10. Consumed(kind, s, c)
    <3>1. (c.keep = TRUE \/ c.keep = FALSE) /\ c.next \in Nat /\ c.routed \in Records
      BY <1>0, <2>3, <2>6, <2>9
    <3>2. c.keep # TRUE
      BY <2>9
    <3>3. c.next \in 1..Len(s) /\ Closely(kind, s, c.next)
      BY <2>3, <2>5, <2>9
    <3>4. c.routed # NoRecord =>
            /\ c.routed.at >= 0 /\ c.routed.size >= 1
            /\ kind = "unicore" => c.routed.at + c.routed.size <= c.next
      BY <2>2, <2>7, <2>8, <2>9
    <3> QED
      BY <3>1, <3>2, <3>3, <3>4 DEF Consumed
  <2> QED
    BY <2>10 DEF c, p
<1>4. CASE ProbedSaid(p, f, s, Len(s)) /\ p.status # "ready"
  <2>1. c = NoRoute
    BY <1>4 DEF AfterProbe, ProbedSaid
  <2> QED
    BY <2>1, NoRouteConsumed DEF p
<1> QED
  BY <1>1, <1>2, <1>3, <1>4

LEMMA ConsumeSays ==
  ASSUME NEW kind \in Buffered, NEW s \in Seq(Nat), s # <<>>
  PROVE  Consumed(kind, s, Consume(kind, s))
<1>1. CASE ~Leads(kind, s[1])
  <2>1. Consume(kind, s) = NoRoute
    BY <1>1 DEF Consume, Leads, Buffered
  <2> QED
    BY <2>1, NoRouteConsumed
<1>2. CASE Leads(kind, s[1])
  <2>1. PICK f \in Framers :
          /\ FramerFor(kind, s[1]) = {f}
          /\ s[1] \in LeadsOf(f) /\ \A c \in LeadsOf(f) : Leads(kind, c)
    BY <1>2, FramerForIs
  <2>2. Consume(kind, s) =
          IF kind = "unicore" /\ ~IsBinary(f) /\ ResyncOffsets(s) # {}
            THEN [NoRoute EXCEPT !.next = Min(ResyncOffsets(s)) - 1]
          ELSE AfterProbe(kind, s, Probe(f, s))
    BY <2>1 DEF Consume
  <2>3. CASE kind = "unicore" /\ ~IsBinary(f) /\ ResyncOffsets(s) # {}
    <3> DEFINE m == Min(ResyncOffsets(s))
               c == [NoRoute EXCEPT !.next = m - 1]
    <3>1. ResyncOffsets(s) \subseteq Nat /\ ResyncOffsets(s) \subseteq 2..Len(s)
      BY DEF ResyncOffsets
    <3>2. m \in ResyncOffsets(s) /\ \A o \in ResyncOffsets(s) : m <= o
      BY <2>3, <3>1, MinIsLeast
    <3> HIDE DEF m
    <3>3. m \in 2..Len(s) /\ Len(s) \in Nat
      BY <3>1, <3>2
    <3>4. c.next = m - 1 /\ c.keep = FALSE /\ c.routed = NoRecord
      BY DEF NoRoute
    <3> HIDE DEF c
    <3>5. c.next \in 1..Len(s) /\ c.next + 1 = m
      BY <3>3, <3>4
    <3>6. Resynced(kind, s, c)
      BY <2>3, <3>2, <3>5 DEF Resynced
    <3>7. Consumed(kind, s, c)
      <4>1. (c.keep = TRUE \/ c.keep = FALSE) /\ c.next \in Nat /\ c.routed \in Records
        BY <3>3, <3>4, <3>5, NoRecordTyped
      <4>2. c.keep # TRUE
        BY <3>4
      <4> QED
        BY <1>2, <3>4, <3>5, <3>6, <4>1, <4>2 DEF Consumed
    <3> QED
      BY <2>2, <2>3, <3>7 DEF c, m
  <2>4. CASE ~(kind = "unicore" /\ ~IsBinary(f) /\ ResyncOffsets(s) # {})
    BY <1>2, <2>1, <2>2, <2>4, AfterProbeConsumed
  <2> QED
    BY <2>3, <2>4
<1> QED
  BY <1>1, <1>2

\* The session takes the n bytes at the head as a record and routes it.
Takes1(c, n) ==
  c.keep = FALSE /\ c.next = n /\ c.routed = [at |-> 0, size |-> n, check |-> "valid"]

\* Nothing in a valid line looks like the start of another record.
LEMMA NoResync ==
  ASSUME NEW f, NEW v \in Seq(Nat), IsValidLine(f, v), NEW s \in Seq(Nat),
         \A i \in 1..Len(s) : i <= Len(v) => s[i] = v[i]
  PROVE  ResyncOffsets(s) = {}
<1> SUFFICES ASSUME NEW o \in ResyncOffsets(s) PROVE FALSE
  OBVIOUS
<1>1. /\ o \in 2..Len(s) /\ \A i \in 2..o : s[i] # NL
      /\ IsPrefix(N4.sync, SubSeq(s, o, Len(s))) \/ TextRecordStarts(s, o)
  BY DEF ResyncOffsets
<1>2. /\ Len(v) \in Nat /\ Len(v) > 1 /\ v[Len(v)] = NL
      /\ \A i \in 2..(Len(v) - 1) : v[i] \in Data \cup {Star}
  BY DEF IsValidLine
<1>3. o < Len(v)
  <2> SUFFICES ASSUME ~(o < Len(v)) PROVE FALSE
    OBVIOUS
  <2>1. Len(v) \in 2..o /\ Len(v) \in 1..Len(s)
    BY <1>1, <1>2
  <2>2. s[Len(v)] = v[Len(v)]
    <3> DEFINE m == Len(v)
    <3>1. m \in 1..Len(s) /\ m <= m /\ \A i \in 1..Len(s) : i <= m => s[i] = v[i]
      BY <1>2, <2>1
    <3> HIDE DEF m
    <3>2. s[m] = v[m]
      BY <3>1
    <3> QED
      BY <3>2 DEF m
  <2>3. s[Len(v)] # NL
    BY <1>1, <2>1
  <2> QED
    BY <1>2, <2>2, <2>3
<1>4. s[o] \in Data \cup {Star}
  <2>1. o \in 2..(Len(v) - 1) /\ o \in 1..Len(s) /\ o <= Len(v)
    BY <1>1, <1>2, <1>3
  <2> QED
    BY <1>2, <2>1
<1>5. CASE TextRecordStarts(s, o)
  BY <1>4, <1>5, TextBytes DEF TextRecordStarts
<1>6. CASE IsPrefix(N4.sync, SubSeq(s, o, Len(s)))
  <2> DEFINE t == SubSeq(s, o, Len(s))
  <2>1. t \in Seq(Nat) /\ Len(t) = Len(s) - o + 1 /\ t[1] = s[o]
    BY <1>1
  <2>2. N4.sync \in Seq(Nat) /\ Len(N4.sync) = 3 /\ N4.sync[1] = N4Sync1
    BY DEF N4, N4Sync1, N4Sync2, N4Sync3
  <2> HIDE DEF t
  <2>3. Len(N4.sync) <= Len(t) /\ \A i \in 1..Len(N4.sync) : t[i] = N4.sync[i]
    BY <1>6, <2>1, <2>2, PrefixIs DEF t
  <2>4. s[o] = N4Sync1
    BY <2>1, <2>2, <2>3
  <2> QED
    BY <1>4, <2>4 DEF N4Sync1, Data, Star
<1> QED
  BY <1>1, <1>5, <1>6

LEMMA RecordOfKind ==
  ASSUME NEW kind \in Buffered, NEW v \in Seq(Nat), IsValidRecord(kind, v)
  PROVE  /\ Leads(kind, v[1])
         /\ \E f \in Framers :
              /\ FramerFor(kind, v[1]) = {f} /\ IsRecordOf(f, v)
              /\ f \in LineFramers => IsValidLine(f, v)
              /\ Len(v) >= 2 /\ (Len(v) <= MaxFrame \/ Len(v) <= MaxLine)
<1>1. Leads(kind, v[1])
  BY DEF IsValidRecord
<1>2. PICK f \in Framers :
        FramerFor(kind, v[1]) = {f} /\ LeadFramer(kind, v[1]) = f /\ v[1] \in LeadsOf(f)
  BY <1>1, FramerForIs
<1>3. IF IsBinary(f) THEN IsValidFrame(f, v) ELSE IsValidLine(f, v)
  BY <1>2 DEF IsValidRecord
<1>4. CASE f \in BinaryFramers
  <2>1. IsBinary(f) /\ IsValidFrame(f, v) /\ f \notin LineFramers
    BY <1>3, <1>4, BinaryOrLine
  <2>2. HeaderSize(f) < Len(v) /\ Len(v) <= MaxFrame
    BY <2>1 DEF IsValidFrame
  <2>3. HeaderSize(f) = Len(f.sync) + 1 /\ Len(f.sync) \in 1..3
    BY <1>4, BinaryForm
  <2>4. Len(v) >= 2
    BY <2>2, <2>3
  <2> QED
    BY <1>1, <1>2, <1>4, <2>1, <2>2, <2>4 DEF IsRecordOf
<1>5. CASE f \in LineFramers
  <2>1. IsValidLine(f, v)
    BY <1>3, <1>5, BinaryOrLine
  <2>2. Len(v) >= 2 /\ Len(v) <= MaxLine
    BY <2>1 DEF IsValidLine
  <2> QED
    BY <1>1, <1>2, <1>5, <2>1, <2>2 DEF IsRecordOf
<1> QED
  BY <1>4, <1>5 DEF Framers

\* A session takes a valid record at the head of its buffer, once all of it
\* is there, and waits for it until then.
LEMMA ConsumeValid ==
  ASSUME NEW kind \in Buffered, NEW v \in Seq(Nat), IsValidRecord(kind, v),
         NEW s \in Seq(Nat), s # <<>>, \A i \in 1..Len(s) : i <= Len(v) => s[i] = v[i]
  PROVE  IF Len(s) < Len(v) THEN Consume(kind, s).keep = TRUE ELSE Takes1(Consume(kind, s), Len(v))
<1>1. PICK f \in Framers :
        /\ FramerFor(kind, v[1]) = {f} /\ IsRecordOf(f, v)
        /\ f \in LineFramers => IsValidLine(f, v)
        /\ Len(v) >= 2
  BY RecordOfKind
<1>2. s[1] = v[1]
  <2>1. 1 \in 1..Len(s) /\ 1 <= Len(v)
    BY <1>1, NoneIsEmpty
  <2> QED
    BY <2>1
<1>3. ~IsBinary(f) => ResyncOffsets(s) = {}
  BY <1>1, NoResync, BinaryOrLine DEF Framers
<1>4. Consume(kind, s) = AfterProbe(kind, s, Probe(f, s))
  BY <1>1, <1>2, <1>3 DEF Consume
<1>5. IF Len(s) < Len(v) THEN Probe(f, s).status = "more" ELSE Returned(Probe(f, s), v)
  BY <1>1, ProbeValid
<1> DEFINE p == Probe(f, s)
<1> HIDE DEF p
<1>6. CASE Len(s) < Len(v)
  <2>1. AfterProbe(kind, s, p) = [NoRoute EXCEPT !.next = 0, !.keep = TRUE]
    BY <1>5, <1>6 DEF AfterProbe, p
  <2>2. AfterProbe(kind, s, p).keep = TRUE
    BY <2>1 DEF NoRoute
  <2> QED
    BY <1>4, <1>6, <2>2 DEF p
<1>7. CASE ~(Len(s) < Len(v))
  <2> DEFINE record == [at |-> 0, size |-> Len(v), check |-> "valid"]
  <2>1. p.status = "ready" /\ p.used = Len(v) /\ p.record = record
    BY <1>5, <1>7 DEF Returned, p
  <2>2. record.size = Len(v) /\ record.check = "valid"
    OBVIOUS
  <2> HIDE DEF record
  <2>3. AfterProbe(kind, s, p) = [next |-> Len(v), keep |-> FALSE, routed |-> record]
    BY <2>1, <2>2 DEF AfterProbe
  <2>4. Takes1(AfterProbe(kind, s, p), Len(v))
    BY <2>3 DEF Takes1, record
  <2> QED
    BY <1>4, <1>7, <2>4 DEF p
<1> QED
  BY <1>6, <1>7

-----------------------------------------------------------------------------
(* Records in the stream, by the offset of their first byte.               *)

\* The bytes of z after the h-th up to the one at `to`.
Segment(z, h, to) == SubSeq(z, h + 1, to)

LEMMA SegmentIs ==
  ASSUME NEW z \in Seq(Nat), NEW h \in Nat, NEW to \in Nat, h <= to, to <= Len(z)
  PROVE  /\ Segment(z, h, to) \in Seq(Nat) /\ Len(Segment(z, h, to)) = to - h
         /\ \A i \in 1..(to - h) : Segment(z, h, to)[i] = z[h + i]
<1>1. \A i \in (h + 1)..to : z[i] \in Nat
  OBVIOUS
<1> DEFINE m == h + 1
           s == SubSeq(z, m, to)
<1>2. m \in Int /\ to \in Int /\ \A i \in m..to : z[i] \in Nat
  BY <1>1
<1> HIDE DEF m
<1>3. /\ s \in Seq(Nat) /\ Len(s) = IF m <= to THEN to - m + 1 ELSE 0
      /\ \A i \in 1..(to - m + 1) : s[i] = z[m + i - 1]
  BY <1>2, SubSeqProperties
<1> HIDE DEF s
<1>4. Len(s) = to - h /\ to - m + 1 = to - h
  BY <1>3 DEF m
<1>5. ASSUME NEW i \in 1..(to - h) PROVE s[i] = z[h + i]
  <2>1. s[i] = z[m + i - 1] /\ m + i - 1 = h + i
    BY <1>3, <1>4 DEF m
  <2> QED
    BY <2>1
<1> QED
  BY <1>3, <1>4, <1>5 DEF Segment, s, m

\* z has the n bytes of v from offset o on.
Holds(z, o, n, v) ==
  /\ v \in Seq(Nat) /\ Len(v) = n /\ n \in Nat /\ n >= 1 /\ o + n - 1 <= Len(z)
  /\ \A i \in 1..n : v[i] = z[o + i - 1]

LEMMA RecordAt ==
  ASSUME NEW kind, NEW z \in Seq(Nat), NEW o \in 1..Len(z), NEW n \in ValidAt(kind, z, o)
  PROVE  \E v : Holds(z, o, n, v) /\ IsValidRecord(kind, v)
<1>1. n \in 1..(Len(z) - o + 1) /\ IsValidRecord(kind, SubSeq(z, o, o + n - 1))
  BY DEF ValidAt
<1>2. PICK h \in Nat : o = h + 1
  <2>1. o - 1 \in Nat /\ o = (o - 1) + 1
    OBVIOUS
  <2> QED
    BY <2>1
<1> DEFINE to == h + n
           v == Segment(z, h, to)
<1>3. Len(z) \in Nat
  OBVIOUS
<1>4. to \in Nat /\ h <= to /\ to <= Len(z) /\ to - h = n /\ o + n - 1 = to /\ n \in Nat /\ n >= 1
  BY <1>1, <1>2, <1>3
<1>5. v = SubSeq(z, o, o + n - 1)
  BY <1>2, <1>4 DEF Segment
<1> HIDE DEF to
<1>6. v \in Seq(Nat) /\ Len(v) = n /\ \A i \in 1..n : v[i] = z[h + i]
  BY <1>4, SegmentIs
<1> HIDE DEF v
<1>7. ASSUME NEW i \in 1..n PROVE v[i] = z[o + i - 1]
  <2>1. h + i = o + i - 1
    BY <1>2
  <2> QED
    BY <1>6, <2>1
<1>8. Holds(z, o, n, v)
  BY <1>4, <1>6, <1>7 DEF Holds
<1> QED
  BY <1>1, <1>5, <1>8

LEMMA ConsumeAt ==
  ASSUME NEW kind \in Buffered, NEW z \in Seq(Nat), NEW h \in Nat, NEW to \in Nat, h < to,
         to <= Len(z), NEW n \in ValidAt(kind, z, h + 1)
  PROVE  IF to - h < n THEN Consume(kind, Segment(z, h, to)).keep = TRUE
         ELSE Takes1(Consume(kind, Segment(z, h, to)), n)
<1> DEFINE s == Segment(z, h, to)
           o == h + 1
<1>0. Len(z) \in Nat
  OBVIOUS
<1>1. o \in 1..Len(z) /\ n \in ValidAt(kind, z, o) /\ h <= to
  BY <1>0
<1>2. s \in Seq(Nat) /\ Len(s) = to - h /\ \A i \in 1..(to - h) : s[i] = z[h + i]
  BY <1>1, SegmentIs
<1>3. s # <<>>
  BY <1>2, NoneIsEmpty
<1> HIDE DEF s
<1>4. PICK v : Holds(z, o, n, v) /\ IsValidRecord(kind, v)
  <2> HIDE DEF o
  <2> QED
    BY <1>1, RecordAt
<1>5. v \in Seq(Nat) /\ Len(v) = n /\ n \in Nat /\ \A i \in 1..n : v[i] = z[o + i - 1]
  BY <1>4 DEF Holds
<1>6. ASSUME NEW i \in 1..Len(s), i <= Len(v) PROVE s[i] = v[i]
  <2>1. i \in 1..(to - h) /\ i \in 1..n
    BY <1>2, <1>5, <1>6
  <2>2. s[i] = z[h + i] /\ v[i] = z[o + i - 1]
    BY <1>2, <1>5, <2>1
  <2>3. o + i - 1 = h + i
    BY <2>1
  <2> QED
    BY <2>2, <2>3
<1>7. IF Len(s) < Len(v) THEN Consume(kind, s).keep = TRUE ELSE Takes1(Consume(kind, s), Len(v))
  BY <1>3, <1>2, <1>4, <1>5, <1>6, ConsumeValid
<1> QED
  BY <1>2, <1>5, <1>7 DEF s

LEMMA ValidUnique ==
  ASSUME NEW kind \in Buffered, NEW z \in Seq(Nat), NEW h \in Nat, h < Len(z),
         NEW n \in ValidAt(kind, z, h + 1), NEW m \in ValidAt(kind, z, h + 1)
  PROVE  n = m
<1> DEFINE to == Len(z)
           c == Consume(kind, Segment(z, h, to))
<1>1. to \in Nat /\ h < to /\ to <= Len(z)
  OBVIOUS
<1>2. n \in Nat /\ m \in Nat /\ ~(to - h < n) /\ ~(to - h < m)
  BY <1>1 DEF ValidAt
<1> HIDE DEF to
<1>3. Takes1(c, n) /\ Takes1(c, m)
  BY <1>1, <1>2, ConsumeAt
<1> QED
  BY <1>3 DEF Takes1

LEMMA ValidReaches ==
  ASSUME NEW kind \in Buffered, NEW z \in Seq(Nat), NEW i \in 1..Len(z),
         NEW n \in ValidAt(kind, z, i), NEW o \in Int, i < o, o < i + n
  PROVE  Reaches(kind, z, i, o)
<1>1. PICK v : Holds(z, i, n, v) /\ IsValidRecord(kind, v)
  BY RecordAt
<1>2. /\ v \in Seq(Nat) /\ Len(v) = n /\ n \in Nat /\ n >= 1
      /\ \A k \in 1..n : v[k] = z[i + k - 1]
  BY <1>1 DEF Holds
<1>3. Leads(kind, v[1]) /\ (n <= MaxFrame \/ n <= MaxLine)
  BY <1>1, <1>2, RecordOfKind
<1>4. v[1] = z[i]
  <2>1. 1 \in 1..n /\ i + 1 - 1 = i
    BY <1>2
  <2> QED
    BY <1>2, <2>1
<1>5. o - i <= MaxFrame \/ o - i <= MaxLine
  <2>1. i \in Int /\ n \in Int /\ MaxFrame \in Int /\ MaxLine \in Int
    BY <1>2, FramingAssumption
  <2>2. o - i <= n /\ o - i \in Int
    BY <2>1
  <2> QED
    BY <1>3, <2>1, <2>2
<1> QED
  BY <1>3, <1>4, <1>5 DEF Reaches

-----------------------------------------------------------------------------
(* What nothing damaged reaches.                                           *)

\* What begins after b, before an offset of C, and may reach it belongs to a
\* valid record that begins at an offset of C.
Fair(kind, z, b, C) ==
  \A o \in C : o > b /\ \A i \in (b + 1)..(o - 1) :
    Reaches(kind, z, i, o) => \E j \in C : WithinRecord(kind, z, i, j, o)

Clean(kind, z, b) == UNION {C \in SUBSET (1..Len(z)) : Fair(kind, z, b, C)}

LEMMA CleanIsFair ==
  ASSUME NEW kind, NEW z \in Seq(Nat), NEW b
  PROVE  Clean(kind, z, b) \subseteq 1..Len(z) /\ Fair(kind, z, b, Clean(kind, z, b))
<1>1. Clean(kind, z, b) \subseteq 1..Len(z)
  BY DEF Clean
<1>2. ASSUME NEW o \in Clean(kind, z, b)
      PROVE  o > b /\ \A i \in (b + 1)..(o - 1) :
               Reaches(kind, z, i, o) => \E j \in Clean(kind, z, b) : WithinRecord(kind, z, i, j, o)
  <2>1. PICK C \in SUBSET (1..Len(z)) : Fair(kind, z, b, C) /\ o \in C
    BY DEF Clean
  <2>2. C \subseteq Clean(kind, z, b)
    BY <2>1 DEF Clean
  <2> QED
    BY <2>1, <2>2 DEF Fair
<1> QED
  BY <1>1, <1>2 DEF Fair

\* Every record that begins undisturbed up to the h-th byte ends there too.
Settled(kind, z, b, h) ==
  \A o \in Clean(kind, z, b) : o <= h => \A n \in ValidAt(kind, z, o) : o + n - 1 <= h

\* No record that begins undisturbed after the h-th byte ends up to `to`.
NoneFollows(kind, z, b, h, to) ==
  \A o \in Clean(kind, z, b) : o > h => \A n \in ValidAt(kind, z, o) : o + n - 1 > to

\* The records that begin undisturbed after the h-th byte up to the k-th are
\* in the set R.
AllIn(kind, z, b, h, k, R) ==
  \A o \in Clean(kind, z, b) : o > h /\ o <= k =>
    \A n \in ValidAt(kind, z, o) : [at |-> o - 1, size |-> n] \in R

\* Before a record that begins undisturbed where a leader is in reach there is
\* another one.
LEMMA OneBefore ==
  ASSUME NEW kind, NEW z \in Seq(Nat), NEW b \in Nat, NEW h \in Nat, b <= h,
         Settled(kind, z, b, h),
         NEW o \in Clean(kind, z, b), NEW i \in Int, h < i, i < o, Reaches(kind, z, i, o)
  PROVE  \E j \in Clean(kind, z, b) :
           h < j /\ j <= i /\ j < o /\ \E n \in ValidAt(kind, z, j) : j + n <= o
<1>1. o \in 1..Len(z)
  BY CleanIsFair
<1>2. i \in (b + 1)..(o - 1)
  BY <1>1
<1>3. PICK j \in Clean(kind, z, b) : WithinRecord(kind, z, i, j, o)
  BY <1>2, CleanIsFair DEF Fair
<1>4. PICK n \in ValidAt(kind, z, j) : j <= i /\ i < j + n /\ j + n <= o
  BY <1>3 DEF WithinRecord
<1>5. j \in Nat /\ n \in Nat
  <2>1. j \in 1..Len(z)
    BY CleanIsFair
  <2> QED
    BY <2>1 DEF ValidAt
<1>6. h < j
  <2> SUFFICES ASSUME j <= h PROVE FALSE
    BY <1>5
  <2>1. j + n - 1 <= h
    BY DEF Settled
  <2> QED
    BY <1>4, <1>5, <2>1
<1>7. j < o
  BY <1>1, <1>4, <1>5
<1> QED
  BY <1>4, <1>6, <1>7

LEMMA LeaderInReach ==
  ASSUME NEW kind, NEW z \in Seq(Nat), NEW h \in Nat, NEW to \in Nat, h < to, to <= Len(z),
         NEW u \in Nat, u <= to - h, Closely(kind, Segment(z, h, to), u),
         NEW o \in Int, h + 1 < o, o <= h + u
  PROVE  \E i \in Int : h < i /\ i < o /\ Reaches(kind, z, i, o)
<1> DEFINE s == Segment(z, h, to)
           k == o - h
<1>1. h <= to
  OBVIOUS
<1>2. \A i \in 1..(to - h) : s[i] = z[h + i]
  BY <1>1, SegmentIs
<1> HIDE DEF s
<1>3. k \in 2..u
  OBVIOUS
<1>4. PICK w \in 1..(k - 1) : Leads(kind, s[w]) /\ (k - w <= MaxFrame \/ k - w <= MaxLine)
  <2> HIDE DEF k
  <2> QED
    BY <1>3 DEF Closely, s
<1>5. w \in 1..(to - h) /\ h + w \in Int /\ h < h + w /\ h + w < o /\ o - (h + w) = k - w
  BY <1>3, <1>4
<1>6. Leads(kind, z[h + w])
  BY <1>2, <1>4, <1>5
<1>7. Reaches(kind, z, h + w, o)
  BY <1>4, <1>5, <1>6 DEF Reaches
<1> QED
  BY <1>5, <1>7

LEMMA RecordEnds ==
  ASSUME NEW kind, NEW z \in Seq(Nat), NEW o \in Int, NEW n \in ValidAt(kind, z, o)
  PROVE  n \in Nat /\ n >= 1 /\ o + n - 1 <= Len(z)
<1>1. n \in 1..(Len(z) - o + 1)
  BY DEF ValidAt
<1>2. Len(z) \in Nat
  OBVIOUS
<1> QED
  BY <1>1, <1>2

LEMMA CleanIsOffset ==
  ASSUME NEW kind, NEW z \in Seq(Nat), NEW b, NEW o \in Clean(kind, z, b)
  PROVE  o \in Nat /\ o >= 1 /\ o \in 1..Len(z) /\ o > b
<1>1. Clean(kind, z, b) \subseteq 1..Len(z) /\ Fair(kind, z, b, Clean(kind, z, b))
  BY CleanIsFair
<1>2. o \in 1..Len(z)
  BY <1>1
<1>3. o > b
  BY <1>1 DEF Fair
<1>4. o \in Nat /\ o >= 1
  BY <1>2
<1> QED
  BY <1>2, <1>3, <1>4

\* Where a session waits for more, nothing undisturbed is complete.
LEMMA KeepsRest ==
  ASSUME NEW kind \in Buffered, NEW z \in Seq(Nat), NEW b \in Nat, NEW h \in Nat, NEW to \in Nat,
         b <= h, h < to, to <= Len(z), Settled(kind, z, b, h),
         Consume(kind, Segment(z, h, to)).keep = TRUE
  PROVE  NoneFollows(kind, z, b, h, to)
<1> DEFINE s == Segment(z, h, to)
           E == {o \in Clean(kind, z, b) : o > h /\ \E n \in ValidAt(kind, z, o) : o + n - 1 <= to}
<1>1. s \in Seq(Nat) /\ Len(s) = to - h /\ h <= to
  <2>1. h <= to
    OBVIOUS
  <2> QED
    BY <2>1, SegmentIs
<1>2. s # <<>>
  BY <1>1, NoneIsEmpty
<1>3. Consumed(kind, s, Consume(kind, s))
  <2> HIDE DEF s
  <2> QED
    BY <1>1, <1>2, ConsumeSays
<1>4. Closely(kind, s, to - h)
  <2> HIDE DEF s
  <2> QED
    BY <1>1, <1>3 DEF Consumed, s
<1> HIDE DEF s
<1>5. E = {}
  <2> SUFFICES ASSUME E # {} PROVE FALSE
    OBVIOUS
  <2>1. E \subseteq Nat
    BY CleanIsOffset
  <2>2. \E o \in E : \A x \in E : o <= x
    <3> HIDE DEF E
    <3> QED
      BY <2>1, Least
  <2>3. PICK o \in E : \A x \in E : o <= x
    BY <2>2
  <2>4. PICK n \in ValidAt(kind, z, o) : o + n - 1 <= to
    BY <2>3
  <2>5. o \in Nat /\ o > h /\ o \in Clean(kind, z, b)
    BY <2>1, <2>3
  <2>6. n \in Nat /\ n >= 1
    BY <2>5, RecordEnds
  <2>7. CASE o = h + 1
    <3>1. ~(to - h < n)
      BY <2>4, <2>6, <2>7
    <3>2. Takes1(Consume(kind, s), n)
      BY <2>4, <2>7, <3>1, ConsumeAt DEF s
    <3> QED
      BY <3>2 DEF Takes1, s
  <2>8. CASE o # h + 1
    <3>1. h + 1 < o /\ o <= h + (to - h) /\ o \in Int /\ to - h \in Nat /\ to - h <= to - h
      BY <2>4, <2>5, <2>6, <2>8
    <3>2. PICK i \in Int : h < i /\ i < o /\ Reaches(kind, z, i, o)
      <4> DEFINE u == to - h
      <4>1. u \in Nat /\ u <= to - h /\ o <= h + u /\ Closely(kind, Segment(z, h, to), u)
        BY <1>4, <3>1 DEF s
      <4> HIDE DEF u
      <4> QED
        BY <3>1, <4>1, LeaderInReach
    <3>3. PICK j \in Clean(kind, z, b) : h < j /\ j < o /\ \E m \in ValidAt(kind, z, j) : j + m <= o
      BY <2>5, <3>2, OneBefore
    <3>4. PICK m \in ValidAt(kind, z, j) : j + m <= o
      BY <3>3
    <3>5. j \in Nat /\ m \in Nat
      BY <3>3, CleanIsOffset, RecordEnds
    <3>6. j + m - 1 <= to
      BY <2>4, <2>5, <2>6, <3>4, <3>5
    <3>7. j \in E
      BY <3>3, <3>5, <3>6
    <3> QED
      BY <2>3, <2>5, <3>3, <3>5, <3>7
  <2> QED
    BY <2>7, <2>8
<1> SUFFICES ASSUME NEW o \in Clean(kind, z, b), o > h, NEW n \in ValidAt(kind, z, o)
             PROVE  o + n - 1 > to
  BY DEF NoneFollows
<1>6. o \in Nat /\ n \in Nat
  BY CleanIsOffset, RecordEnds
<1>7. ~(o + n - 1 <= to)
  BY <1>5
<1> QED
  BY <1>6, <1>7

\* What a session routes when it goes on, as a set of records.
RoutedAt(c, h) ==
  IF c.routed = NoRecord THEN {} ELSE {[at |-> h + c.routed.at, size |-> c.routed.size]}

LEMMA TakesRouted ==
  ASSUME NEW c, NEW h \in Nat, NEW n, Takes1(c, n)
  PROVE  RoutedAt(c, h) = {[at |-> h, size |-> n]}
<1> DEFINE record == [at |-> 0, size |-> n, check |-> "valid"]
<1>1. c.routed = record
  BY DEF Takes1
<1>2. record.check = "valid" /\ NoRecord.check = "none"
  BY DEF NoRecord
<1>3. record.at = 0 /\ record.size = n /\ h + 0 = h
  OBVIOUS
<1> HIDE DEF record
<1>4. record # NoRecord
  BY <1>2
<1> QED
  BY <1>1, <1>3, <1>4 DEF RoutedAt

LEMMA TailIs ==
  ASSUME NEW s \in Seq(Nat), NEW m \in 1..Len(s)
  PROVE  /\ SubSeq(s, m, Len(s)) \in Seq(Nat) /\ Len(SubSeq(s, m, Len(s))) = Len(s) - m + 1
         /\ \A i \in 1..(Len(s) - m + 1) : SubSeq(s, m, Len(s))[i] = s[m + i - 1]
<1> DEFINE l == Len(s)
<1>1. l \in Nat /\ m \in 1..l /\ \A i \in 1..l : s[i] \in Nat
  OBVIOUS
<1> HIDE DEF l
<1>2. m \in Int /\ l \in Int /\ m <= l /\ \A i \in m..l : s[i] \in Nat
  BY <1>1
<1>3. /\ SubSeq(s, m, l) \in Seq(Nat)
      /\ Len(SubSeq(s, m, l)) = IF m <= l THEN l - m + 1 ELSE 0
      /\ \A i \in 1..(l - m + 1) : SubSeq(s, m, l)[i] = s[m + i - 1]
  BY <1>2, SubSeqProperties
<1>4. /\ SubSeq(s, m, l) \in Seq(Nat) /\ Len(SubSeq(s, m, l)) = l - m + 1
      /\ \A i \in 1..(l - m + 1) : SubSeq(s, m, l)[i] = s[m + i - 1]
  BY <1>2, <1>3
<1> QED
  BY <1>4 DEF l

LEMMA PrefixWhen ==
  ASSUME NEW p \in Seq(Nat), NEW v \in Seq(Nat), Len(p) <= Len(v),
         \A i \in 1..Len(p) : v[i] = p[i]
  PROVE  IsPrefix(p, v)
<1> DEFINE k == Len(p)
           t == SubSeq(v, 1, k)
<1>1. k \in Nat /\ k <= Len(v) /\ \A i \in 1..k : v[i] \in Nat
  OBVIOUS
<1>2. \A i \in 1..k : v[i] = p[i]
  OBVIOUS
<1>3. SubSeq(p, 1, k) = p
  BY HeadWhole
<1> HIDE DEF k
<1>4. t \in Seq(Nat) /\ (Len(t) = IF 1 <= k THEN k - 1 + 1 ELSE 0) /\ \A i \in 1..(k - 1 + 1) : t[i] = v[1 + i - 1]
  BY <1>1, SubSeqProperties
<1>5. Len(t) = k /\ \A i \in 1..k : t[i] = v[i]
  BY <1>1, <1>4
<1> HIDE DEF t
<1>6. p \in Seq(Nat) /\ Len(p) = k
  BY DEF k
<1>7. Len(t) = Len(p) /\ \A i \in 1..Len(t) : t[i] = p[i]
  BY <1>2, <1>5, <1>6
<1>8. t = p
  BY <1>4, <1>6, <1>7, SeqEqual
<1> QED
  BY <1>1, <1>3, <1>8 DEF IsPrefix, k, t

\* A Unicore binary frame begins at the m-th byte.
LEMMA N4Ahead ==
  ASSUME NEW s \in Seq(Nat), NEW m \in 1..Len(s)
  PROVE  IsPrefix(N4.sync, SubSeq(s, m, Len(s))) <=>
           m + 2 <= Len(s) /\ \A i \in 1..3 : s[m + i - 1] = N4.sync[i]
<1> DEFINE t == SubSeq(s, m, Len(s))
           l == Len(s)
           p == N4.sync
<1>1. l \in Nat /\ m \in 1..l
  OBVIOUS
<1>2. t \in Seq(Nat) /\ Len(t) = l - m + 1 /\ \A i \in 1..(l - m + 1) : t[i] = s[m + i - 1]
  BY TailIs
<1>3. p \in Seq(Nat) /\ Len(p) = 3
  BY DEF N4, N4Sync1, N4Sync2, N4Sync3
<1> HIDE DEF t, l, p
<1>4. ASSUME IsPrefix(p, t)
      PROVE  m + 2 <= l /\ \A i \in 1..3 : s[m + i - 1] = p[i]
  <2>1. Len(p) <= Len(t) /\ \A i \in 1..Len(p) : t[i] = p[i]
    BY <1>2, <1>3, <1>4, PrefixIs
  <2>2. m + 2 <= l /\ \A i \in 1..3 : i \in 1..(l - m + 1)
    BY <1>1, <1>2, <1>3, <2>1
  <2> QED
    BY <1>2, <1>3, <2>1, <2>2
<1>5. ASSUME m + 2 <= l, \A i \in 1..3 : s[m + i - 1] = p[i]
      PROVE  IsPrefix(p, t)
  <2>1. Len(p) <= Len(t) /\ \A i \in 1..3 : i \in 1..(l - m + 1)
    BY <1>1, <1>2, <1>3, <1>5
  <2>2. \A i \in 1..Len(p) : t[i] = p[i]
    BY <1>2, <1>3, <1>5, <2>1
  <2> QED
    BY <1>2, <1>3, <2>1, <2>2, PrefixWhen
<1> QED
  BY <1>4, <1>5 DEF t, l, p

LEMMA LeadersAreNotText == \A b \in {N4Sync1, Dollar, Hash} : b \notin Data \cup {Star}
BY DEF Data, Star, N4Sync1, Dollar, Hash

\* A valid record that begins before the offset to which a session
\* resynchronises is one to which it would have resynchronised.
LEMMA ResyncsBefore ==
  ASSUME NEW kind \in Buffered, NEW z \in Seq(Nat), NEW h \in Nat, NEW to \in Nat, h < to, to <= Len(z),
         kind = "unicore", NEW m \in ResyncOffsets(Segment(z, h, to)),
         NEW k \in 2..(m - 1), NEW n \in ValidAt(kind, z, h + k)
  PROVE  k \in ResyncOffsets(Segment(z, h, to))
<1> DEFINE s == Segment(z, h, to)
           o == h + k
           l == to - h
<1>0. h <= to /\ Len(z) \in Nat
  OBVIOUS
<1>1. s \in Seq(Nat) /\ Len(s) = l /\ \A i \in 1..l : s[i] = z[h + i]
  BY <1>0, SegmentIs
<1>2. /\ m \in 2..Len(s) /\ \A i \in 2..m : s[i] # NL
      /\ IsPrefix(N4.sync, SubSeq(s, m, Len(s))) \/ TextRecordStarts(s, m)
  BY DEF ResyncOffsets, s
<1> HIDE DEF s
<1>3. o \in 1..Len(z) /\ o \in Nat /\ l \in Nat /\ m \in 2..l /\ k \in 2..l /\ k < m
  BY <1>0, <1>1, <1>2
<1>4. PICK v : Holds(z, o, n, v) /\ IsValidRecord(kind, v)
  <2> HIDE DEF o
  <2> QED
    BY <1>3, RecordAt DEF o
<1>5. v \in Seq(Nat) /\ Len(v) = n /\ n \in Nat /\ \A i \in 1..n : v[i] = z[o + i - 1]
  BY <1>4 DEF Holds
<1>6. PICK f \in Framers :
        /\ FramerFor(kind, v[1]) = {f} /\ IsRecordOf(f, v)
        /\ f \in LineFramers => IsValidLine(f, v)
  BY <1>4, <1>5, RecordOfKind
\* The bytes of the record that are in s.
<1>7. ASSUME NEW i \in 1..n, k + i - 1 <= l PROVE v[i] = s[k + i - 1]
  <2> DEFINE x == k + i - 1
  <2>1. x \in 1..l /\ h + x = o + i - 1
    BY <1>3, <1>7
  <2>2. s[x] = z[h + x]
    <3> HIDE DEF x, l
    <3> QED
      BY <1>1, <2>1
  <2> QED
    BY <1>5, <2>1, <2>2
<1> HIDE DEF o, l
\* What begins at m, and how much of it there is.
<1>8. m \in 1..Len(s)
  BY <1>1, <1>3
<1>9. /\ s[m] \in {N4Sync1, Dollar, Hash}
      /\ m + 1 <= l
  <2>1. CASE TextRecordStarts(s, m)
    <3>1. s[m] \in {Dollar, Hash} /\ \E e \in (m + 1)..l : TRUE
      BY <1>1, <2>1 DEF TextRecordStarts
    <3> QED
      BY <1>3, <3>1
  <2>2. CASE IsPrefix(N4.sync, SubSeq(s, m, Len(s)))
    <3>1. m + 2 <= l /\ \A i \in 1..3 : s[m + i - 1] = N4.sync[i]
      BY <1>1, <1>8, <2>2, N4Ahead
    <3>2. 1 \in 1..3 /\ m + 1 - 1 = m
      BY <1>3
    <3>3. s[m] = N4.sync[1] /\ N4.sync[1] = N4Sync1
      BY <3>1, <3>2 DEF N4
    <3> QED
      BY <1>3, <3>1, <3>3
  <2> QED
    BY <1>2, <2>1, <2>2
<1>10. k \in 2..Len(s) /\ (\A i \in 2..k : s[i] # NL) /\ k + 2 <= l
  BY <1>1, <1>2, <1>3, <1>9
<1>11. CASE f \in LineFramers
  <2>1. /\ n > 1 /\ v[n] = NL /\ \A i \in 2..(n - 1) : v[i] \in Data \cup {Star}
    BY <1>5, <1>6, <1>11 DEF IsValidLine
  <2>2. CASE k + n - 1 <= m
    <3> DEFINE x == k + n - 1
    <3>1. n \in 1..n /\ k + n - 1 <= l /\ x \in 2..m
      BY <1>3, <1>5, <2>1, <2>2
    <3>2. s[x] = NL
      BY <1>7, <2>1, <3>1
    <3> HIDE DEF x
    <3> QED
      BY <1>2, <3>1, <3>2
  <2>3. CASE ~(k + n - 1 <= m)
    <3> DEFINE i == m - k + 1
    <3>1. i \in 2..(n - 1) /\ i \in 1..n /\ k + i - 1 = m /\ k + i - 1 <= l
      <4>1. k \in Nat /\ m \in Nat /\ n \in Nat /\ l \in Nat /\ k < m /\ m <= l
        BY <1>3, <1>5
      <4> QED
        BY <2>3, <4>1
    <3> HIDE DEF i
    <3>2. v[i] = s[k + i - 1]
      BY <1>7, <3>1
    <3>3. s[m] \in Data \cup {Star}
      BY <2>1, <3>1, <3>2
    <3> QED
      BY <1>9, <3>3, LeadersAreNotText
  <2> QED
    BY <2>2, <2>3
<1>12. CASE f \in BinaryFramers
  <2>1. f = N4
    <3>1. f \in {N4, Nmea, UnicoreAscii}
      BY <1>6 DEF FramerFor
    <3> QED
      BY <1>12, <3>1, FramersApart DEF BinaryFramers
  <2>2. IsValidFrame(f, v)
    BY <1>6, <1>12, BinaryOrLine DEF IsRecordOf
  <2>3. IsPrefix(N4.sync, v)
    BY <2>1, <2>2 DEF IsValidFrame
  <2>4. N4.sync \in Seq(Nat) /\ Len(N4.sync) = 3
    BY DEF N4, N4Sync1, N4Sync2, N4Sync3
  <2>5. Len(N4.sync) <= Len(v) /\ \A i \in 1..Len(N4.sync) : v[i] = N4.sync[i]
    BY <1>5, <2>3, <2>4, PrefixIs
  <2>6. ASSUME NEW i \in 1..3 PROVE s[k + i - 1] = N4.sync[i]
    <3>1. i \in 1..n /\ k + i - 1 <= l
      <4>1. n >= 3 /\ n \in Nat
        BY <1>5, <2>4, <2>5
      <4>2. k \in Nat /\ l \in Nat /\ k + 2 <= l
        BY <1>3, <1>10
      <4> QED
        BY <4>1, <4>2
    <3>2. v[i] = N4.sync[i]
      BY <2>4, <2>5
    <3> QED
      BY <1>7, <3>1, <3>2
  <2>7. IsPrefix(N4.sync, SubSeq(s, k, Len(s)))
    <3>1. k \in 1..Len(s) /\ k + 2 <= Len(s)
      BY <1>1, <1>10
    <3> QED
      BY <1>1, <2>6, <3>1, N4Ahead
  <2> QED
    BY <1>10, <2>7 DEF ResyncOffsets, s
<1> QED
  BY <1>11, <1>12 DEF Framers

\* Where a session goes on, it has routed what began undisturbed in between,
\* and nothing that began there is left.
WentOn(kind, z, b, h, to, c) ==
  /\ c.next \in 1..(to - h)
  /\ Settled(kind, z, b, h + c.next)
  /\ AllIn(kind, z, b, h, h + c.next, RoutedAt(c, h))

LEMMA GoesOn ==
  ASSUME NEW kind \in Buffered, NEW z \in Seq(Nat), NEW b \in Nat, NEW h \in Nat, NEW to \in Nat,
         b <= h, h < to, to <= Len(z), Settled(kind, z, b, h),
         Consume(kind, Segment(z, h, to)).keep # TRUE
  PROVE  WentOn(kind, z, b, h, to, Consume(kind, Segment(z, h, to)))
<1> DEFINE s == Segment(z, h, to)
           c == Consume(kind, s)
           m == c.next
           l == to - h
           E == {o \in Clean(kind, z, b) : o > h /\ o <= h + m /\ ValidAt(kind, z, o) # {}}
<1>1. s \in Seq(Nat) /\ Len(s) = l /\ h <= to /\ l \in Nat /\ l >= 1
  <2>1. h <= to
    OBVIOUS
  <2> QED
    BY <2>1, SegmentIs
<1>2. s # <<>>
  BY <1>1, NoneIsEmpty
<1>3. Consumed(kind, s, c)
  <2> HIDE DEF s
  <2> QED
    BY <1>1, <1>2, ConsumeSays
<1>4. c.keep # TRUE
  OBVIOUS
<1>5. \A n \in ValidAt(kind, z, h + 1) : Takes1(c, n)
  <2> SUFFICES ASSUME NEW n \in ValidAt(kind, z, h + 1) PROVE Takes1(c, n)
    OBVIOUS
  <2> QED
    BY <1>4, ConsumeAt
<1> HIDE DEF c, s
<1>6. m \in 1..l /\ (Closely(kind, s, m) \/ Resynced(kind, s, c))
  BY <1>1, <1>3, <1>4 DEF Consumed
<1> HIDE DEF l, m
<1>7. m \in Nat /\ m >= 1 /\ m <= l
  BY <1>1, <1>6
<1>8. ASSUME ValidAt(kind, z, h + 1) # {}, NEW o \in E, o # h + 1
      PROVE  FALSE
  <2>1. PICK n \in ValidAt(kind, z, h + 1) : TRUE
    BY <1>8
  <2>2. m = n
    BY <1>5 DEF Takes1, m
  <2>3. o \in Nat /\ h + 1 < o /\ o < (h + 1) + n /\ o \in Clean(kind, z, b)
    <3>1. o \in Nat /\ o > h /\ o <= h + m
      BY <1>8, CleanIsOffset
    <3> QED
      BY <1>7, <1>8, <2>2, <3>1
  <2> DEFINE i == h + 1
  <2>4. i \in 1..Len(z) /\ i \in Int /\ h < i /\ i < o
    <3>1. Len(z) \in Nat
      OBVIOUS
    <3> QED
      BY <2>3, <3>1
  <2>5. n \in ValidAt(kind, z, i) /\ o < i + n
    BY <2>3
  <2> HIDE DEF i
  <2>6. Reaches(kind, z, i, o)
    BY <2>3, <2>4, <2>5, ValidReaches
  <2>7. PICK j \in Clean(kind, z, b) :
          h < j /\ j <= i /\ j < o /\ \E x \in ValidAt(kind, z, j) : j + x <= o
    BY <2>3, <2>4, <2>6, OneBefore
  <2>8. j = h + 1
    <3>1. j \in Nat
      BY CleanIsOffset
    <3> QED
      BY <2>7, <3>1 DEF i
  <2>9. PICK x \in ValidAt(kind, z, h + 1) : (h + 1) + x <= o
    BY <2>7, <2>8
  <2>10. x = n
    <3>1. h < Len(z)
      BY <1>1
    <3> QED
      BY <3>1, ValidUnique
  <2> QED
    BY <1>7, <2>2, <2>3, <2>9, <2>10
<1>9. ASSUME ValidAt(kind, z, h + 1) = {}, E # {}
      PROVE  FALSE
  <2>1. E \subseteq Nat
    BY CleanIsOffset
  <2>2. \E o \in E : \A x \in E : o <= x
    <3> HIDE DEF E
    <3> QED
      BY <1>9, <2>1, Least
  <2>3. PICK o \in E : \A x \in E : o <= x
    BY <2>2
  <2>4. o \in Nat /\ o > h /\ o <= h + m /\ o \in Clean(kind, z, b) /\ ValidAt(kind, z, o) # {}
    BY <2>1, <2>3
  <2>5. h + 1 < o
    BY <1>9, <2>4
  <2>6. CASE Closely(kind, s, m)
    <3>1. m \in Nat /\ m <= to - h /\ Closely(kind, Segment(z, h, to), m) /\ o \in Int
      BY <1>7, <2>4, <2>6 DEF l, s
    <3>2. PICK i \in Int : h < i /\ i < o /\ Reaches(kind, z, i, o)
      BY <2>4, <2>5, <3>1, LeaderInReach
    <3>3. PICK j \in Clean(kind, z, b) :
            h < j /\ j <= i /\ j < o /\ \E x \in ValidAt(kind, z, j) : j + x <= o
      BY <2>4, <3>2, OneBefore
    <3>4. j \in Nat
      BY CleanIsOffset
    <3>5. j \in E
      BY <1>7, <2>4, <3>3, <3>4
    <3> QED
      BY <2>3, <2>4, <3>3, <3>4, <3>5
  <2>7. CASE Resynced(kind, s, c)
    <3> DEFINE k == o - h
               q == m + 1
    <3>1. k \in 2..(q - 1) /\ h + k = o /\ k \in Nat
      BY <1>7, <2>4, <2>5
    <3>2. kind = "unicore" /\ q \in ResyncOffsets(s) /\ \A x \in ResyncOffsets(s) : q <= x
      BY <2>7 DEF Resynced, m
    <3>3. PICK n : n \in ValidAt(kind, z, h + k)
      BY <2>4, <3>1
    <3> HIDE DEF k, q
    <3>4. k \in ResyncOffsets(s)
      BY <3>1, <3>2, <3>3, ResyncsBefore DEF s
    <3>5. q <= k
      BY <3>2, <3>4
    <3> QED
      BY <1>7, <3>1, <3>5 DEF q
  <2> QED
    BY <1>6, <2>6, <2>7
<1>10. ASSUME NEW o \in E PROVE o = h + 1
  BY <1>8, <1>9
<1>11. ASSUME NEW o \in Clean(kind, z, b), o > h, o <= h + m, NEW n \in ValidAt(kind, z, o)
       PROVE  o = h + 1 /\ Takes1(c, n) /\ n = m
  <2>1. o \in E
    BY <1>11
  <2>2. o = h + 1
    BY <1>10, <2>1
  <2>3. Takes1(c, n)
    BY <1>5, <2>2
  <2> QED
    BY <2>2, <2>3 DEF Takes1, m
<1>12. Settled(kind, z, b, h + m)
  <2> SUFFICES ASSUME NEW o \in Clean(kind, z, b), o <= h + m, NEW n \in ValidAt(kind, z, o)
               PROVE  o + n - 1 <= h + m
    BY DEF Settled
  <2>1. o \in Nat /\ n \in Nat
    BY CleanIsOffset, RecordEnds
  <2>2. CASE o <= h
    <3>1. o + n - 1 <= h
      BY <2>2 DEF Settled
    <3> QED
      BY <1>7, <2>1, <3>1
  <2>3. CASE o > h
    BY <1>7, <1>11, <2>1, <2>3
  <2> QED
    BY <2>1, <2>2, <2>3
<1>13. AllIn(kind, z, b, h, h + m, RoutedAt(c, h))
  <2> SUFFICES ASSUME NEW o \in Clean(kind, z, b), o > h, o <= h + m, NEW n \in ValidAt(kind, z, o)
               PROVE  [at |-> o - 1, size |-> n] \in RoutedAt(c, h)
    BY DEF AllIn
  <2>1. o = h + 1 /\ Takes1(c, n)
    BY <1>11
  <2>2. RoutedAt(c, h) = {[at |-> h, size |-> n]}
    BY <2>1, TakesRouted
  <2>3. o - 1 = h
    BY <2>1
  <2> QED
    BY <2>2, <2>3
<1>14. WentOn(kind, z, b, h, to, c)
  BY <1>6, <1>12, <1>13 DEF WentOn, m, l
<1> QED
  BY <1>14 DEF c, s

-----------------------------------------------------------------------------
(* ProcessBufferedData.                                                    *)

Rest(s, d) == Segment(s, d, Len(s))

\* What is done of s after its first d bytes, when g is what is done after more.
RunBody(kind, s, g, d) ==
  LET c == Consume(kind, Rest(s, d))
  IN  IF d = Len(s) THEN [done |-> d, records |-> <<>>]
      ELSE IF c.keep THEN [done |-> d, records |-> <<>>]
      ELSE [done |-> g[d + c.next].done, records |-> Placed(c, d) \o g[d + c.next].records]

RunFrom(kind, s, g, j) == g = [d \in j..Len(s) |-> RunBody(kind, s, g, d)]

LEMMA ProcessIs ==
  ASSUME NEW kind, NEW s
  PROVE  Process(kind, s) = (CHOOSE g : RunFrom(kind, s, g, 0))[0]
BY DEF Process, RunFrom, RunBody, Rest, Segment

LEMMA ConsumeRest ==
  ASSUME NEW kind \in Buffered, NEW s \in Seq(Nat), NEW d \in 0..(Len(s) - 1)
  PROVE  /\ Consumed(kind, Rest(s, d), Consume(kind, Rest(s, d)))
         /\ Rest(s, d) \in Seq(Nat) /\ Len(Rest(s, d)) = Len(s) - d
<1>1. d \in Nat /\ Len(s) \in Nat /\ d <= Len(s) /\ Len(s) <= Len(s) /\ d < Len(s)
  OBVIOUS
<1>2. Rest(s, d) \in Seq(Nat) /\ Len(Rest(s, d)) = Len(s) - d
  BY <1>1, SegmentIs DEF Rest
<1>3. Rest(s, d) # <<>>
  BY <1>1, <1>2, NoneIsEmpty
<1> QED
  BY <1>2, <1>3, ConsumeSays

LEMMA BodyLooksAhead ==
  ASSUME NEW kind \in Buffered, NEW s \in Seq(Nat), NEW d \in 0..Len(s), NEW g, NEW h,
         \A e \in (d + 1)..Len(s) : g[e] = h[e]
  PROVE  RunBody(kind, s, g, d) = RunBody(kind, s, h, d)
<1> DEFINE n == Len(s)
           c == Consume(kind, Rest(s, d))
<1>1. CASE d = n
  BY <1>1 DEF RunBody
<1>2. CASE d # n /\ c.keep
  BY <1>2 DEF RunBody
<1>3. CASE d # n /\ ~c.keep
  <2>1. n \in Nat /\ d \in 0..(n - 1)
    BY <1>3
  <2>2. Consumed(kind, Rest(s, d), c) /\ Len(Rest(s, d)) = n - d
    BY <2>1, ConsumeRest
  <2>3. RunBody(kind, s, g, d) =
          [done |-> g[d + c.next].done, records |-> Placed(c, d) \o g[d + c.next].records]
    BY <1>3 DEF RunBody
  <2>4. RunBody(kind, s, h, d) =
          [done |-> h[d + c.next].done, records |-> Placed(c, d) \o h[d + c.next].records]
    BY <1>3 DEF RunBody
  <2>4a. ~c.keep
    BY <1>3
  <2>5. \A e \in (d + 1)..n : g[e] = h[e]
    OBVIOUS
  <2> HIDE DEF c, n
  <2>6. c.keep # TRUE
    BY <2>4a
  <2>7. c.next \in 1..(n - d)
    BY <2>2, <2>6 DEF Consumed
  <2> DEFINE e == d + c.next
  <2>8. e \in (d + 1)..n
    BY <2>1, <2>7
  <2>9. g[e] = h[e]
    <3> HIDE DEF e
    <3> QED
      BY <2>5, <2>8
  <2> QED
    BY <2>3, <2>4, <2>9
<1> QED
  BY <1>1, <1>2, <1>3

LEMMA RunExists ==
  ASSUME NEW kind \in Buffered, NEW s \in Seq(Nat)
  PROVE  \E g : RunFrom(kind, s, g, 0)
<1> DEFINE n == Len(s)
           S == {k \in 0..n : \E g : RunFrom(kind, s, g, n - k)}
<1>1. n \in Nat
  OBVIOUS
<1>2. 0 \in S
  <2> DEFINE r == [done |-> n, records |-> <<>>]
             g == [d \in n..n |-> r]
  <2>1. \A d \in n..n : RunBody(kind, s, g, d) = r
    BY <1>1 DEF RunBody
  <2>2. RunFrom(kind, s, g, n)
    BY <2>1 DEF RunFrom
  <2>3. n - 0 = n /\ 0 \in 0..n
    BY <1>1
  <2>4. RunFrom(kind, s, g, n - 0)
    BY <2>2, <2>3
  <2> QED
    BY <2>3, <2>4
<1>3. ASSUME NEW i \in 1..n, i - 1 \in S
      PROVE  i \in S
  <2>1. PICK g : RunFrom(kind, s, g, n - (i - 1))
    BY <1>3
  <2> DEFINE m == n - i
             h == [d \in m..n |-> IF d = m THEN RunBody(kind, s, g, m) ELSE g[d]]
  <2>2. n - (i - 1) = m + 1 /\ m \in 0..n /\ m \in Nat /\ i \in 0..n
    BY <1>1
  <2>3. RunFrom(kind, s, g, m + 1)
    BY <2>1, <2>2
  <2> HIDE DEF m
  <2>4. ASSUME NEW d \in m..n PROVE h[d] = RunBody(kind, s, h, d)
    <3>1. d \in 0..n
      BY <1>1, <2>2
    <3>2. ASSUME NEW e \in (d + 1)..n PROVE g[e] = h[e]
      <4>1. e \in m..n /\ e # m
        BY <1>1, <2>2
      <4> QED
        BY <4>1
    <3>3. RunBody(kind, s, g, d) = RunBody(kind, s, h, d)
      <4> HIDE DEF h
      <4> QED
        BY <3>1, <3>2, BodyLooksAhead
    <3>4. CASE d = m
      <4>1. h[d] = RunBody(kind, s, g, d)
        BY <3>4
      <4> HIDE DEF h
      <4> QED
        BY <3>3, <4>1
    <3>5. CASE d # m
      <4>1. d \in (m + 1)..n
        BY <1>1, <2>2, <3>5
      <4>2. g[d] = RunBody(kind, s, g, d)
        BY <2>3, <4>1 DEF RunFrom
      <4>3. h[d] = g[d]
        BY <3>5
      <4> QED
        BY <3>3, <4>2, <4>3
    <3> QED
      BY <3>4, <3>5
  <2>5. h = [d \in m..n |-> h[d]]
    OBVIOUS
  <2> HIDE DEF h
  <2>6. h = [d \in m..n |-> RunBody(kind, s, h, d)]
    BY <2>4, <2>5
  <2>7. RunFrom(kind, s, h, m)
    BY <2>6 DEF RunFrom
  <2>8. RunFrom(kind, s, h, n - i)
    BY <2>7 DEF m
  <2> QED
    BY <2>2, <2>8
<1>4. \A i \in 0..n : i \in S
  <2> HIDE DEF S, n
  <2> QED
    BY <1>1, <1>2, <1>3, Climbs
<1>5. n \in S /\ n - n = 0
  BY <1>1, <1>4
<1> QED
  BY <1>5

\* The results of ProcessBufferedData after each number of bytes.
IsRun(g, kind, s) ==
  /\ \A d \in 0..Len(s) : g[d] = RunBody(kind, s, g, d)
  /\ Process(kind, s) = g[0]

LEMMA ProcessRuns ==
  ASSUME NEW kind \in Buffered, NEW s \in Seq(Nat)
  PROVE  \E g : IsRun(g, kind, s)
<1> DEFINE g == CHOOSE x : RunFrom(kind, s, x, 0)
<1>1. RunFrom(kind, s, g, 0)
  BY RunExists
<1>2. Process(kind, s) = g[0]
  BY ProcessIs
<1> HIDE DEF g
<1>3. \A d \in 0..Len(s) : g[d] = RunBody(kind, s, g, d)
  BY <1>1 DEF RunFrom
<1> QED
  BY <1>2, <1>3 DEF IsRun

-----------------------------------------------------------------------------
(* Routed records.                                                         *)

Routes == [at : Int, size : Int]

\* The records, by offsets in the stream.
RoutesOf(records, by) ==
  {[at |-> records[i].at + by, size |-> records[i].size] : i \in DOMAIN records}

\* The records are one after the other, within the bytes after `from` up to
\* `to`.
Tidy(records, from, to) ==
  /\ Disjoint(records)
  /\ \A i \in DOMAIN records : from <= records[i].at /\ Ends(records[i]) <= to

LEMMA NoneRouted ==
  /\ <<>> \in Seq(Routes) /\ \A by : RoutesOf(<<>>, by) = {}
  /\ \A from, to : Tidy(<<>>, from, to)
BY DEF RoutesOf, Tidy, Disjoint

LEMMA RouteIs ==
  ASSUME NEW r \in Routes
  PROVE  r.at \in Int /\ r.size \in Int /\ Ends(r) = r.at + r.size /\ Ends(r) \in Int
BY DEF Routes, Ends

LEMMA IndexInConcat ==
  ASSUME NEW p \in Seq(Routes), NEW q \in Seq(Routes)
  PROVE  /\ p \o q \in Seq(Routes) /\ DOMAIN (p \o q) = 1..(Len(p) + Len(q))
         /\ \A i \in 1..(Len(p) + Len(q)) :
              (p \o q)[i] = IF i <= Len(p) THEN p[i] ELSE q[i - Len(p)]
         /\ DOMAIN p = 1..Len(p) /\ DOMAIN q = 1..Len(q) /\ Len(p) \in Nat /\ Len(q) \in Nat
<1>1. p \o q \in Seq(Routes) /\ Len(p \o q) = Len(p) + Len(q)
  OBVIOUS
<1>2. DOMAIN (p \o q) = 1..(Len(p) + Len(q))
  BY <1>1
<1> QED
  BY <1>1, <1>2

LEMMA RoutesOfConcat ==
  ASSUME NEW p \in Seq(Routes), NEW q \in Seq(Routes), NEW by
  PROVE  RoutesOf(p \o q, by) = RoutesOf(p, by) \cup RoutesOf(q, by)
<1> DEFINE r == p \o q
           l == Len(p)
           m == Len(q)
<1>1. /\ DOMAIN r = 1..(l + m) /\ DOMAIN p = 1..l /\ DOMAIN q = 1..m /\ l \in Nat /\ m \in Nat
      /\ \A i \in 1..(l + m) : r[i] = IF i <= l THEN p[i] ELSE q[i - l]
  BY IndexInConcat
<1> HIDE DEF r, l, m
<1>2. ASSUME NEW x \in RoutesOf(r, by) PROVE x \in RoutesOf(p, by) \cup RoutesOf(q, by)
  <2>1. PICK i \in 1..(l + m) : x = [at |-> r[i].at + by, size |-> r[i].size]
    BY <1>1 DEF RoutesOf
  <2>2. CASE i <= l
    <3>1. i \in DOMAIN p /\ r[i] = p[i]
      BY <1>1, <2>2
    <3> QED
      BY <2>1, <3>1 DEF RoutesOf
  <2>3. CASE ~(i <= l)
    <3> DEFINE j == i - l
    <3>1. j \in DOMAIN q /\ r[i] = q[j]
      BY <1>1, <2>3
    <3> HIDE DEF j
    <3> QED
      BY <2>1, <3>1 DEF RoutesOf
  <2> QED
    BY <2>2, <2>3
<1>3. ASSUME NEW x \in RoutesOf(p, by) PROVE x \in RoutesOf(r, by)
  <2>1. PICK i \in 1..l : x = [at |-> p[i].at + by, size |-> p[i].size]
    BY <1>1 DEF RoutesOf
  <2>2. i \in DOMAIN r /\ r[i] = p[i]
    BY <1>1
  <2> QED
    BY <2>1, <2>2 DEF RoutesOf
<1>4. ASSUME NEW x \in RoutesOf(q, by) PROVE x \in RoutesOf(r, by)
  <2>1. PICK i \in 1..m : x = [at |-> q[i].at + by, size |-> q[i].size]
    BY <1>1 DEF RoutesOf
  <2> DEFINE j == i + l
  <2>2. j \in DOMAIN r /\ j \in 1..(l + m) /\ ~(j <= l) /\ j - l = i
    BY <1>1
  <2> HIDE DEF j
  <2>3. r[j] = q[i]
    BY <1>1, <2>2
  <2> QED
    BY <2>1, <2>2, <2>3 DEF RoutesOf
<1>5. RoutesOf(r, by) = RoutesOf(p, by) \cup RoutesOf(q, by)
  BY <1>2, <1>3, <1>4
<1> QED
  BY <1>5 DEF r

LEMMA TidyConcat ==
  ASSUME NEW p \in Seq(Routes), NEW q \in Seq(Routes), NEW a \in Int, NEW b \in Int, NEW c \in Int,
         a <= b, b <= c, Tidy(p, a, b), Tidy(q, b, c)
  PROVE  Tidy(p \o q, a, c)
<1> DEFINE r == p \o q
           l == Len(p)
           m == Len(q)
<1>1. /\ DOMAIN r = 1..(l + m) /\ DOMAIN p = 1..l /\ DOMAIN q = 1..m /\ l \in Nat /\ m \in Nat
      /\ \A i \in 1..(l + m) : r[i] = IF i <= l THEN p[i] ELSE q[i - l]
      /\ r \in Seq(Routes)
  BY IndexInConcat
<1>0. \A i \in 1..(l + m) : r[i] \in Routes
  BY <1>1
<1> HIDE DEF r, l, m
\* Where the i-th record is.
<1>2. ASSUME NEW i \in 1..(l + m), i <= l
      PROVE  i \in DOMAIN p /\ r[i] = p[i] /\ a <= r[i].at /\ Ends(r[i]) <= b
  <2>1. i \in DOMAIN p /\ r[i] = p[i]
    BY <1>1, <1>2
  <2> QED
    BY <2>1 DEF Tidy
<1>3. ASSUME NEW i \in 1..(l + m), ~(i <= l)
      PROVE  i - l \in DOMAIN q /\ r[i] = q[i - l] /\ b <= r[i].at /\ Ends(r[i]) <= c
  <2>1. i - l \in DOMAIN q /\ r[i] = q[i - l]
    BY <1>1, <1>3
  <2> DEFINE j == i - l
  <2>2. b <= q[j].at /\ Ends(q[j]) <= c
    <3>1. j \in DOMAIN q
      BY <2>1
    <3> HIDE DEF j
    <3> QED
      BY <3>1 DEF Tidy
  <2> QED
    BY <2>1, <2>2
<1>4. ASSUME NEW i \in DOMAIN r
      PROVE  a <= r[i].at /\ Ends(r[i]) <= c
  <2>1. i \in 1..(l + m) /\ r[i].at \in Int /\ Ends(r[i]) \in Int
    BY <1>0, <1>1, RouteIs
  <2>2. CASE i <= l
    BY <1>2, <2>1, <2>2
  <2>3. CASE ~(i <= l)
    BY <1>3, <2>1, <2>3
  <2> QED
    BY <2>2, <2>3
<1>5. ASSUME NEW i \in DOMAIN r, NEW j \in DOMAIN r, i < j
      PROVE  Ends(r[i]) <= r[j].at
  <2>1. /\ i \in 1..(l + m) /\ Ends(r[i]) \in Int
        /\ j \in 1..(l + m) /\ r[j].at \in Int
    BY <1>0, <1>1, RouteIs
  <2>2. CASE j <= l
    <3>1. i <= l
      BY <1>1, <1>5, <2>1, <2>2
    <3>2. i \in DOMAIN p /\ j \in DOMAIN p /\ r[i] = p[i] /\ r[j] = p[j]
      BY <1>2, <2>1, <2>2, <3>1
    <3> QED
      BY <1>5, <3>2 DEF Tidy, Disjoint
  <2>3. CASE i <= l /\ ~(j <= l)
    BY <1>2, <1>3, <2>1, <2>3
  <2>4. CASE ~(i <= l) /\ ~(j <= l)
    <3> DEFINE x == i - l
               y == j - l
    <3>1. x \in DOMAIN q /\ y \in DOMAIN q /\ r[i] = q[x] /\ r[j] = q[y]
      BY <1>3, <2>1, <2>4
    <3>2. x < y
      <4>1. i \in Int /\ j \in Int /\ l \in Int /\ i < j
        BY <1>1, <1>5, <2>1
      <4> QED
        BY <4>1
    <3> HIDE DEF x, y
    <3> QED
      BY <3>1, <3>2 DEF Tidy, Disjoint
  <2> QED
    BY <2>2, <2>3, <2>4
<1>6. Tidy(r, a, c)
  BY <1>4, <1>5 DEF Tidy, Disjoint
<1> QED
  BY <1>6 DEF r

LEMMA ShiftedIs ==
  ASSUME NEW p \in Seq(Routes), NEW by \in Int
  PROVE  /\ Shifted(p, by) \in Seq(Routes) /\ DOMAIN Shifted(p, by) = DOMAIN p
         /\ \A i \in DOMAIN p : Shifted(p, by)[i] = [at |-> p[i].at + by, size |-> p[i].size]
<1> DEFINE r == Shifted(p, by)
<1>1. DOMAIN p = 1..Len(p) /\ Len(p) \in Nat /\ \A i \in 1..Len(p) : p[i] \in Routes
  OBVIOUS
<1>2. ASSUME NEW i \in DOMAIN p
      PROVE  r[i] = [at |-> p[i].at + by, size |-> p[i].size] /\ r[i] \in Routes
  <2>1. p[i] \in Routes
    BY <1>1
  <2>2. r[i] = [p[i] EXCEPT !.at = @ + by]
    BY DEF Shifted
  <2> QED
    BY <2>1, <2>2 DEF Routes
<1>3. r = [i \in 1..Len(p) |-> r[i]]
  BY <1>1 DEF Shifted
<1> HIDE DEF r
<1>4. r \in Seq(Routes)
  <2> DEFINE n == Len(p)
  <2>1. n \in Nat /\ r = [i \in 1..n |-> r[i]] /\ \A i \in 1..n : r[i] \in Routes
    BY <1>1, <1>2, <1>3
  <2> HIDE DEF n
  <2>2. r \in [1..n -> Routes]
    BY <2>1
  <2> QED
    BY <2>1, <2>2
<1>5. DOMAIN r = DOMAIN p
  BY <1>1, <1>3
<1> QED
  BY <1>2, <1>4, <1>5 DEF r

LEMMA RoutesOfShifted ==
  ASSUME NEW p \in Seq(Routes), NEW by \in Int
  PROVE  RoutesOf(Shifted(p, by), 0) = RoutesOf(p, by)
<1>1. DOMAIN Shifted(p, by) = DOMAIN p
  BY ShiftedIs
<1>2. ASSUME NEW i \in DOMAIN p
      PROVE  [at |-> Shifted(p, by)[i].at + 0, size |-> Shifted(p, by)[i].size]
               = [at |-> p[i].at + by, size |-> p[i].size]
  <2>1. Shifted(p, by)[i] = [at |-> p[i].at + by, size |-> p[i].size]
    BY ShiftedIs
  <2>2. p[i].at \in Int
    BY RouteIs
  <2> QED
    BY <2>1, <2>2
<1> QED
  BY <1>1, <1>2 DEF RoutesOf

LEMMA TidyShifted ==
  ASSUME NEW p \in Seq(Routes), NEW by \in Int, NEW a \in Int, NEW b \in Int, Tidy(p, a, b)
  PROVE  Tidy(Shifted(p, by), a + by, b + by)
<1> DEFINE r == Shifted(p, by)
<1>1. DOMAIN r = DOMAIN p
  BY ShiftedIs
<1>2. ASSUME NEW i \in DOMAIN p
      PROVE  r[i].at = p[i].at + by /\ Ends(r[i]) = Ends(p[i]) + by /\ p[i].at \in Int /\ Ends(p[i]) \in Int
  <2>1. r[i] = [at |-> p[i].at + by, size |-> p[i].size]
    BY ShiftedIs
  <2>2. p[i] \in Routes
    OBVIOUS
  <2>3. p[i].at \in Int /\ p[i].size \in Int /\ Ends(p[i]) = p[i].at + p[i].size
    BY <2>2, RouteIs
  <2> HIDE DEF r
  <2>4. r[i].at = p[i].at + by /\ Ends(r[i]) = p[i].at + by + p[i].size
    BY <2>1 DEF Ends
  <2> QED
    BY <2>3, <2>4
<1> HIDE DEF r
<1>3. \A i, j \in DOMAIN p : i < j => Ends(p[i]) <= p[j].at
  BY DEF Tidy, Disjoint
<1>4. \A i \in DOMAIN p : a <= p[i].at /\ Ends(p[i]) <= b
  BY DEF Tidy
<1>5. ASSUME NEW i \in DOMAIN r, NEW j \in DOMAIN r, i < j PROVE Ends(r[i]) <= r[j].at
  <2>1. i \in DOMAIN p /\ j \in DOMAIN p
    BY <1>1
  <2>2. Ends(r[i]) = Ends(p[i]) + by /\ Ends(p[i]) \in Int /\ r[j].at = p[j].at + by /\ p[j].at \in Int
    BY <1>2, <2>1
  <2>3. Ends(p[i]) <= p[j].at
    BY <1>3, <1>5, <2>1
  <2> QED
    BY <2>2, <2>3
<1>6. ASSUME NEW i \in DOMAIN r PROVE a + by <= r[i].at /\ Ends(r[i]) <= b + by
  <2>1. i \in DOMAIN p
    BY <1>1
  <2>2. /\ r[i].at = p[i].at + by /\ Ends(r[i]) = Ends(p[i]) + by
        /\ p[i].at \in Int /\ Ends(p[i]) \in Int
    BY <1>2, <2>1
  <2>3. a <= p[i].at /\ Ends(p[i]) <= b
    BY <1>4, <2>1
  <2> QED
    BY <2>2, <2>3
<1>7. Tidy(r, a + by, b + by)
  BY <1>5, <1>6 DEF Tidy, Disjoint
<1> QED
  BY <1>7 DEF r

LEMMA PlacedIs ==
  ASSUME NEW c, c.routed \in Records, NEW d \in Int, NEW by \in Int
  PROVE  Placed(c, d) \in Seq(Routes) /\ RoutesOf(Placed(c, d), by) = RoutedAt(c, d + by)
<1> DEFINE e == [at |-> d + c.routed.at, size |-> c.routed.size]
<1>1. CASE c.routed = NoRecord
  BY <1>1, NoneRouted DEF Placed, RoutedAt
<1>2. CASE c.routed # NoRecord
  <2>1. c.routed.at \in Int /\ c.routed.size \in Int
    BY DEF Records
  <2>2. e \in Routes
    BY <2>1 DEF Routes
  <2>3. Placed(c, d) = <<e>>
    BY <1>2 DEF Placed
  <2>4. e.at + by = (d + by) + c.routed.at /\ e.size = c.routed.size
    BY <2>1
  <2> HIDE DEF e
  <2>5. <<e>> \in Seq(Routes) /\ DOMAIN <<e>> = {1} /\ <<e>>[1] = e
    BY <2>2
  <2>6. RoutesOf(<<e>>, by) = {[at |-> e.at + by, size |-> e.size]}
    BY <2>5 DEF RoutesOf
  <2> QED
    BY <1>2, <2>3, <2>4, <2>5, <2>6 DEF RoutedAt
<1> QED
  BY <1>1, <1>2

LEMMA TidyPlaced ==
  ASSUME NEW s, NEW c, Consumed("unicore", s, c), NEW d \in Int
  PROVE  Tidy(Placed(c, d), d, d + c.next)
<1> DEFINE e == [at |-> d + c.routed.at, size |-> c.routed.size]
<1>1. CASE c.routed = NoRecord
  BY <1>1, NoneRouted DEF Placed
<1>2. CASE c.routed # NoRecord
  <2>1. c.routed.at \in Int /\ c.routed.size \in Int /\ c.next \in Nat
    BY DEF Consumed, Records
  <2>2. c.routed.at >= 0 /\ c.routed.at + c.routed.size <= c.next
    BY <1>2 DEF Consumed
  <2>3. Placed(c, d) = <<e>>
    BY <1>2 DEF Placed
  <2>4. d <= e.at /\ Ends(e) <= d + c.next
    BY <2>1, <2>2 DEF Ends
  <2> HIDE DEF e
  <2>5. DOMAIN <<e>> = {1} /\ <<e>>[1] = e
    OBVIOUS
  <2>6. Tidy(<<e>>, d, d + c.next)
    BY <2>4, <2>5 DEF Tidy, Disjoint
  <2> QED
    BY <2>3, <2>6
<1> QED
  BY <1>1, <1>2

-----------------------------------------------------------------------------
(* What a session makes of the bytes it is given.                          *)

\* Of the bytes after the h-th up to `to`, those up to `end` are dealt with:
\* what began undisturbed there is in R, and nothing else is complete.
Handled(kind, z, b, h, to, end, R) ==
  /\ Settled(kind, z, b, end)
  /\ AllIn(kind, z, b, h, end, R)
  /\ NoneFollows(kind, z, b, end, to)

LEMMA AllInJoins ==
  ASSUME NEW kind, NEW z \in Seq(Nat), NEW b, NEW h \in Int, NEW k \in Int, NEW l \in Int,
         NEW R, NEW Q, AllIn(kind, z, b, h, k, R), AllIn(kind, z, b, k, l, Q)
  PROVE  AllIn(kind, z, b, h, l, R \cup Q)
<1> SUFFICES ASSUME NEW o \in Clean(kind, z, b), o > h, o <= l, NEW n \in ValidAt(kind, z, o)
             PROVE  [at |-> o - 1, size |-> n] \in R \cup Q
  BY DEF AllIn
<1>1. o \in Nat
  BY CleanIsOffset
<1>2. CASE o <= k
  BY <1>2 DEF AllIn
<1>3. CASE o > k
  BY <1>3 DEF AllIn
<1> QED
  BY <1>1, <1>2, <1>3

LEMMA NothingIn ==
  ASSUME NEW kind, NEW z \in Seq(Nat), NEW b, NEW h \in Int, NEW R
  PROVE  AllIn(kind, z, b, h, h, R)
<1> SUFFICES ASSUME NEW o \in Clean(kind, z, b), o > h, o <= h PROVE FALSE
  BY DEF AllIn
<1>1. o \in Nat
  BY CleanIsOffset
<1> QED
  BY <1>1

LEMMA NothingFollows ==
  ASSUME NEW kind, NEW z \in Seq(Nat), NEW b, NEW to \in Int
  PROVE  NoneFollows(kind, z, b, to, to)
<1> SUFFICES ASSUME NEW o \in Clean(kind, z, b), o > to, NEW n \in ValidAt(kind, z, o)
             PROVE  o + n - 1 > to
  BY DEF NoneFollows
<1>1. o \in Nat
  BY CleanIsOffset
<1>2. n \in Nat /\ n >= 1
  BY <1>1, RecordEnds
<1> QED
  BY <1>1, <1>2

LEMMA RestOfSegment ==
  ASSUME NEW z \in Seq(Nat), NEW h \in Nat, NEW to \in Nat, h <= to, to <= Len(z),
         NEW d \in 0..(to - h)
  PROVE  Rest(Segment(z, h, to), d) = Segment(z, h + d, to)
<1> DEFINE s == Segment(z, h, to)
           n == to - h
           k == h + d
           p == Segment(s, d, n)
           q == Segment(z, k, to)
<1>1. s \in Seq(Nat) /\ Len(s) = n /\ \A i \in 1..n : s[i] = z[h + i]
  BY SegmentIs
<1>2. n \in Nat /\ d \in Nat /\ d <= n /\ k \in Nat /\ k <= to /\ to - k = n - d /\ n <= n
  OBVIOUS
<1> HIDE DEF s, n, k
<1>3. p \in Seq(Nat) /\ Len(p) = n - d /\ \A i \in 1..(n - d) : p[i] = s[d + i]
  BY <1>1, <1>2, SegmentIs
<1>4. q \in Seq(Nat) /\ Len(q) = to - k /\ \A i \in 1..(to - k) : q[i] = z[k + i]
  BY <1>2, SegmentIs
<1> HIDE DEF p, q
<1>5. ASSUME NEW i \in 1..(n - d) PROVE p[i] = q[i]
  <2> DEFINE j == d + i
  <2>1. j \in 1..n /\ h + j = k + i
    BY <1>2 DEF k
  <2>2. p[i] = s[j] /\ q[i] = z[k + i]
    BY <1>2, <1>3, <1>4
  <2> HIDE DEF j
  <2>3. s[j] = z[h + j]
    BY <1>1, <2>1
  <2> QED
    BY <2>1, <2>2, <2>3
<1>6. p = q
  BY <1>2, <1>3, <1>4, <1>5, SeqEqual
<1> QED
  BY <1>1, <1>6 DEF Rest, p, q, s, k

\* What the session made of the bytes after the first d of its buffer, which
\* has the bytes after the h-th up to `to`.
Did(kind, z, b, h, to, d, r) ==
  /\ r.done \in d..(to - h) /\ r.records \in Seq(Routes)
  /\ kind # "ublox" => Tidy(r.records, d, r.done)
  /\ b <= h /\ Settled(kind, z, b, h + d) =>
       Handled(kind, z, b, h + d, to, h + r.done, RoutesOf(r.records, h))

LEMMA DidStop ==
  ASSUME NEW kind, NEW z \in Seq(Nat), NEW b, NEW h \in Nat, NEW to \in Nat,
         NEW d \in 0..(to - h),
         b <= h /\ Settled(kind, z, b, h + d) => NoneFollows(kind, z, b, h + d, to)
  PROVE  Did(kind, z, b, h, to, d, [done |-> d, records |-> <<>>])
<1> DEFINE r == [done |-> d, records |-> <<>>]
<1>1. r.done = d /\ r.records = <<>>
  OBVIOUS
<1> HIDE DEF r
<1>2. d \in d..(to - h) /\ h + d \in Int
  OBVIOUS
<1>3. AllIn(kind, z, b, h + d, h + d, RoutesOf(r.records, h))
  BY <1>2, NothingIn
<1>4. Did(kind, z, b, h, to, d, r)
  BY <1>1, <1>2, <1>3, NoneRouted DEF Did, Handled
<1> QED
  BY <1>4 DEF r

LEMMA DidGoOn ==
  ASSUME NEW kind \in Buffered, NEW z \in Seq(Nat), NEW b \in Nat, NEW h \in Nat, NEW to \in Nat,
         h <= to, to <= Len(z), NEW d \in 0..(to - h - 1),
         NEW c, c = Consume(kind, Segment(z, h + d, to)), c.keep # TRUE,
         NEW r, Did(kind, z, b, h, to, d + c.next, r)
  PROVE  Did(kind, z, b, h, to, d, [done |-> r.done, records |-> Placed(c, d) \o r.records])
<1> DEFINE k == h + d
           s == Segment(z, k, to)
           p == Placed(c, d)
           q == r.records
<1>1. k \in Nat /\ k < to /\ k <= to /\ to - k = to - h - d /\ to - k >= 1 /\ d \in Nat
  OBVIOUS
<1>2. s \in Seq(Nat) /\ Len(s) = to - k
  <2> HIDE DEF k
  <2> QED
    BY <1>1, SegmentIs
<1>3. s # <<>>
  BY <1>1, <1>2, NoneIsEmpty
<1>4. Consumed(kind, s, c)
  <2> HIDE DEF s
  <2> QED
    BY <1>2, <1>3, ConsumeSays DEF s
<1>5. c.next \in 1..(to - k) /\ c.routed \in Records /\ c.next \in Nat
  <2> HIDE DEF s, k
  <2> QED
    BY <1>2, <1>4 DEF Consumed
<1>6. r.done \in (d + c.next)..(to - h) /\ q \in Seq(Routes)
  BY DEF Did
<1>7. r.done \in d..(to - h) /\ d + c.next \in Int /\ d <= d + c.next /\ r.done \in Int
      /\ d + c.next <= r.done
  <2> DEFINE e == d + c.next
  <2>1. e \in Int /\ d <= e
    BY <1>1, <1>5
  <2>2. r.done \in e..(to - h)
    BY <1>6
  <2> HIDE DEF e
  <2>3. r.done \in d..(to - h) /\ r.done \in Int /\ e <= r.done
    BY <1>1, <2>1, <2>2
  <2> QED
    BY <2>1, <2>3 DEF e
<1>8. p \in Seq(Routes) /\ RoutesOf(p, h) = RoutedAt(c, k)
  <2>1. d + h = k /\ d \in Int /\ h \in Int
    BY <1>1
  <2>2. Placed(c, d) \in Seq(Routes) /\ RoutesOf(Placed(c, d), h) = RoutedAt(c, d + h)
    BY <1>5, <2>1, PlacedIs
  <2> QED
    BY <2>1, <2>2
<1> HIDE DEF p, q
<1>9. p \o q \in Seq(Routes) /\ RoutesOf(p \o q, h) = RoutesOf(p, h) \cup RoutesOf(q, h)
  BY <1>6, <1>8, RoutesOfConcat
<1>10. ASSUME kind # "ublox" PROVE Tidy(p \o q, d, r.done)
  <2>0. Consumed("unicore", s, c)
    BY <1>4, <1>10 DEF Buffered
  <2>1. Tidy(p, d, d + c.next)
    BY <1>1, <2>0, TidyPlaced DEF p
  <2>2. Tidy(q, d + c.next, r.done)
    BY <1>10 DEF Did, q
  <2> DEFINE e == d + c.next
  <2>3. e \in Int /\ d <= e /\ e <= r.done /\ r.done \in Int /\ d \in Int /\ Tidy(p, d, e) /\ Tidy(q, e, r.done)
    BY <1>1, <1>7, <2>1, <2>2
  <2> HIDE DEF e
  <2> QED
    BY <1>6, <1>8, <2>3, TidyConcat
<1>11. ASSUME b <= h, Settled(kind, z, b, k)
       PROVE  Handled(kind, z, b, k, to, h + r.done, RoutesOf(p \o q, h))
  <2> DEFINE l == k + c.next
             e == h + r.done
  <2>1. b <= k
    BY <1>1, <1>11
  <2>2. WentOn(kind, z, b, k, to, c)
    <3>1. c = Consume(kind, Segment(z, k, to)) /\ k \in Nat /\ k < to /\ Settled(kind, z, b, k)
      BY <1>1, <1>11
    <3> HIDE DEF k
    <3>2. Consume(kind, Segment(z, k, to)).keep # TRUE
      BY <3>1
    <3>3. WentOn(kind, z, b, k, to, Consume(kind, Segment(z, k, to)))
      BY <2>1, <3>1, <3>2, GoesOn
    <3> QED
      BY <3>1, <3>3
  <2>3. Settled(kind, z, b, l) /\ AllIn(kind, z, b, k, l, RoutedAt(c, k))
    <3> HIDE DEF k
    <3> QED
      BY <2>2 DEF WentOn
  <2>4. l = h + (d + c.next)
    BY <1>1, <1>5
  <2>5. Handled(kind, z, b, l, to, e, RoutesOf(q, h))
    <3> HIDE DEF l, e
    <3> QED
      BY <1>11, <2>3, <2>4 DEF Did, q, e
  <2>6. k \in Int /\ l \in Int /\ e \in Int
    BY <1>1, <1>5, <1>7
  <2> HIDE DEF k, l, e
  <2>7. AllIn(kind, z, b, k, e, RoutesOf(p, h) \cup RoutesOf(q, h))
    BY <1>8, <2>3, <2>5, <2>6, AllInJoins DEF Handled
  <2>8. Handled(kind, z, b, k, to, e, RoutesOf(p \o q, h))
    BY <1>9, <2>5, <2>7 DEF Handled
  <2> QED
    BY <2>8 DEF e
<1> DEFINE t == [done |-> r.done, records |-> p \o q]
<1>12. t.done = r.done /\ t.records = p \o q
  OBVIOUS
<1> HIDE DEF t, k
<1>13. Did(kind, z, b, h, to, d, t)
  BY <1>7, <1>9, <1>10, <1>11, <1>12 DEF Did, k
<1> QED
  BY <1>13 DEF t, p, q

LEMMA ProcessDoes ==
  ASSUME NEW kind \in Buffered, NEW z \in Seq(Nat), NEW b \in Nat, NEW h \in Nat, NEW to \in Nat,
         h <= to, to <= Len(z)
  PROVE  Did(kind, z, b, h, to, 0, Process(kind, Segment(z, h, to)))
<1> DEFINE s == Segment(z, h, to)
           n == to - h
<1>0. n \in Nat
  OBVIOUS
<1>1. s \in Seq(Nat) /\ Len(s) = n /\ n \in Nat
  BY <1>0, SegmentIs
<1>2. PICK g : IsRun(g, kind, s)
  <2> HIDE DEF s
  <2> QED
    BY <1>1, ProcessRuns
<1> DEFINE S == {d \in 0..n : Did(kind, z, b, h, to, d, g[d])}
<1>3. ASSUME NEW d \in 0..n, \A e \in (d + 1)..n : e \in S
      PROVE  d \in S
  <2> DEFINE k == h + d
             c == Consume(kind, Segment(z, k, to))
             stop == [done |-> d, records |-> <<>>]
  <2>1. d \in 0..(to - h) /\ d \in Nat /\ k \in Nat
    OBVIOUS
  <2>2. Rest(s, d) = Segment(z, k, to)
    BY <2>1, RestOfSegment
  <2>3. g[d] = RunBody(kind, s, g, d)
    <3> HIDE DEF s
    <3> QED
      BY <1>1, <1>2 DEF IsRun
  <2>4. g[d] = IF d = n THEN stop
               ELSE IF c.keep THEN stop
               ELSE [done |-> g[d + c.next].done, records |-> Placed(c, d) \o g[d + c.next].records]
    <3> HIDE DEF s, n, k
    <3> QED
      BY <1>1, <2>2, <2>3 DEF RunBody
  <2> HIDE DEF k, c, stop
  <2>5. CASE d = n
    <3>1. k = to
      BY <2>5 DEF k
    <3>2. NoneFollows(kind, z, b, h + d, to)
      BY <3>1, NothingFollows DEF k
    <3>3. Did(kind, z, b, h, to, d, stop)
      BY <2>1, <3>2, DidStop DEF stop
    <3> QED
      BY <2>4, <2>5, <3>3
  <2>6. CASE d # n
    <3>1. d \in 0..(Len(s) - 1) /\ d \in 0..(to - h - 1) /\ k < to /\ k <= to
      BY <1>1, <2>1, <2>6 DEF k
    <3>2. Consumed(kind, Segment(z, k, to), c) /\ Len(Segment(z, k, to)) = n - d
      <4> HIDE DEF s, n
      <4> QED
        BY <1>1, <2>2, <3>1, ConsumeRest DEF c
    <3>3. CASE c.keep
      <4>1. c.keep = TRUE
        <5>1. c.keep = TRUE \/ c.keep = FALSE
          BY <3>2 DEF Consumed
        <5> QED
          BY <3>3, <5>1
      <4>2. ASSUME b <= h, Settled(kind, z, b, h + d) PROVE NoneFollows(kind, z, b, h + d, to)
        <5>1. b <= k
          BY <2>1, <4>2 DEF k
        <5>2. Settled(kind, z, b, k)
          BY <4>2 DEF k
        <5>3. NoneFollows(kind, z, b, k, to)
          BY <2>1, <3>1, <4>1, <5>1, <5>2, KeepsRest DEF c
        <5> QED
          BY <5>3 DEF k
      <4>3. Did(kind, z, b, h, to, d, stop)
        BY <2>1, <4>2, DidStop DEF stop
      <4> QED
        BY <2>4, <2>6, <3>3, <4>3
    <3>4. CASE ~c.keep
      <4>1. c.keep # TRUE
        BY <3>4
      <4>2. c.next \in 1..(n - d)
        BY <3>2, <4>1 DEF Consumed
      <4> DEFINE e == d + c.next
      <4>3. e \in (d + 1)..n
        BY <2>1, <4>2
      <4>4. Did(kind, z, b, h, to, e, g[e])
        <5> HIDE DEF e
        <5> QED
          BY <1>3, <4>3
      <4>5. Did(kind, z, b, h, to, d, [done |-> g[e].done, records |-> Placed(c, d) \o g[e].records])
        <5>1. c = Consume(kind, Segment(z, h + d, to))
          BY DEF c, k
        <5> DEFINE r == g[e]
        <5>2. Did(kind, z, b, h, to, d + c.next, r)
          BY <4>4
        <5> HIDE DEF r, c
        <5> QED
          BY <3>1, <4>1, <5>1, <5>2, DidGoOn DEF r
      <4> QED
        BY <2>4, <2>6, <3>4, <4>5
    <3> QED
      BY <3>3, <3>4
  <2> QED
    BY <2>5, <2>6
<1>4. \A d \in 0..n : d \in S
  <2> HIDE DEF S, n, s
  <2> QED
    BY <1>1, <1>3, Descends
<1>5. 0 \in S
  BY <1>1, <1>4
<1>6. Process(kind, s) = g[0]
  BY <1>2 DEF IsRun
<1> QED
  BY <1>5, <1>6

-----------------------------------------------------------------------------
(* NmeaSession.                                                            *)

NmeaStates == [framer : FramerStates, records : Seq(Routes)]

NmeaStart == [framer |-> Started, records |-> <<>>]

NmeaTakes(a, b) == NmeaStep(a, PushNmea(a.framer, b))

NmeaFold(s, g) ==
  g = [T \in SUBSET DOMAIN s |->
         IF T = {} THEN NmeaStart ELSE NmeaTakes(g[T \ {Max(T)}], s[Max(T)])]

LEMMA NmeaIsFold ==
  ASSUME NEW s
  PROVE  LET a == (CHOOSE g : NmeaFold(s, g))[DOMAIN s]
         IN  ProcessNmea(s) = [done |-> Len(s) - Len(a.framer.buffer), records |-> a.records]
BY DEF ProcessNmea, FoldLeft, MapThenFoldSet, NmeaFold, NmeaTakes, NmeaStart

LEMMA NmeaPush ==
  ASSUME NEW r, NEW b
  PROVE  PushNmea(r, b) = PushByte(Nmea, r, b) /\ PushNmea(r, b) = PushLine(Nmea, r, b)
BY PushSplits, BinaryOrLine DEF PushNmea, Framers, LineFramers

\* One more byte: the framer is as PushByte leaves it, without the record.
LEMMA NmeaTakesIs ==
  ASSUME NEW a \in NmeaStates, NEW b \in Nat
  PROVE  LET p == PushNmea(a.framer, b)
         IN  /\ NmeaTakes(a, b) \in NmeaStates
             /\ NmeaTakes(a, b).framer.buffer = p.buffer
             /\ NmeaTakes(a, b).framer.used = p.used
             /\ NmeaTakes(a, b).records =
                  IF p.record.check = "valid"
                    THEN Append(a.records, [at |-> p.record.at, size |-> p.record.size])
                  ELSE a.records
<1> DEFINE p == PushNmea(a.framer, b)
           e == [at |-> p.record.at, size |-> p.record.size]
           t == NmeaTakes(a, b)
           u == [p EXCEPT !.record = NoRecord]
<1>1. Nmea \in Framers /\ a.framer \in FramerStates /\ a.records \in Seq(Routes)
  BY DEF Framers, LineFramers, NmeaStates
<1>2. p \in FramerStates
  BY <1>1, NmeaPush, PushOutcome DEF Outcome
<1>3. /\ t.framer = u
      /\ t.records = IF p.record.check = "valid" THEN Append(a.records, e) ELSE a.records
      /\ t = [framer |-> t.framer, records |-> t.records]
  BY DEF NmeaTakes, NmeaStep
<1> HIDE DEF p, t
<1>4. p.record \in Records /\ e \in Routes
  BY <1>2 DEF FramerStates, Records, Routes
<1> HIDE DEF e
<1>5. u \in FramerStates /\ u.buffer = p.buffer /\ u.used = p.used
  BY <1>2, NoRecordTyped DEF FramerStates
<1> HIDE DEF u
<1>6. t.records \in Seq(Routes)
  BY <1>1, <1>3, <1>4
<1>7. t \in NmeaStates
  BY <1>3, <1>5, <1>6 DEF NmeaStates
<1> QED
  BY <1>3, <1>5, <1>7 DEF p, t, e

IsNmeaRun(t, s) ==
  /\ t \in [0..Len(s) -> NmeaStates]
  /\ t[0] = NmeaStart
  /\ \A i \in 1..Len(s) : t[i] = NmeaTakes(t[i - 1], s[i])
  /\ ProcessNmea(s) = [done |-> Len(s) - Len(t[Len(s)].framer.buffer),
                       records |-> t[Len(s)].records]

LEMMA NmeaStartTyped == NmeaStart \in NmeaStates
BY StartedTyped, NoneRouted DEF NmeaStart, NmeaStates

NmeaSteps(s) == [x \in NmeaStates \X (1..Len(s)) |-> NmeaTakes(x[1], s[x[2]])]

LEMMA NmeaStepsTyped ==
  ASSUME NEW s \in Seq(Nat)
  PROVE  NmeaSteps(s) \in [NmeaStates \X (1..Len(s)) -> NmeaStates]
<1>1. ASSUME NEW x \in NmeaStates \X (1..Len(s))
      PROVE  NmeaTakes(x[1], s[x[2]]) \in NmeaStates
  <2>1. x[1] \in NmeaStates /\ s[x[2]] \in Nat
    OBVIOUS
  <2> QED
    BY <2>1, NmeaTakesIs
<1> QED
  BY <1>1 DEF NmeaSteps

LEMMA NmeaStepsSame ==
  ASSUME NEW s \in Seq(Nat), NEW g \in [SUBSET (1..Len(s)) -> NmeaStates]
  PROVE  IsFold(g, NmeaStart, NmeaSteps(s), Len(s)) => NmeaFold(s, g)
<1>1. DOMAIN s = 1..Len(s) /\ Len(s) \in Nat
  OBVIOUS
<1>2. ASSUME NEW T \in SUBSET (1..Len(s)), T # {}
      PROVE  NmeaSteps(s)[<<g[T \ {Max(T)}], Max(T)>>] = NmeaTakes(g[T \ {Max(T)}], s[Max(T)])
  <2>1. Max(T) \in 1..Len(s)
    BY <1>1, <1>2, MaxIsIn
  <2>2. T \ {Max(T)} \in SUBSET (1..Len(s))
    OBVIOUS
  <2>3. g[T \ {Max(T)}] \in NmeaStates
    BY <2>2
  <2>4. <<g[T \ {Max(T)}], Max(T)>> \in NmeaStates \X (1..Len(s))
    BY <2>1, <2>3
  <2> QED
    BY <2>4 DEF NmeaSteps
<1> QED
  BY <1>1, <1>2 DEF IsFold, NmeaFold

LEMMA NmeaRuns ==
  ASSUME NEW s \in Seq(Nat)
  PROVE  \E t : IsNmeaRun(t, s)
<1> DEFINE n == Len(s)
           h == CHOOSE g : NmeaFold(s, g)
           t == [i \in 0..n |-> h[1..i]]
<1>1. n \in Nat /\ DOMAIN s = 1..n
  OBVIOUS
<1>2. \E g \in [SUBSET (1..n) -> NmeaStates] : IsFold(g, NmeaStart, NmeaSteps(s), n)
  <2> HIDE DEF n
  <2>1. NmeaSteps(s) \in [NmeaStates \X (1..n) -> NmeaStates]
    BY NmeaStepsTyped DEF n
  <2> QED
    BY <1>1, <2>1, NmeaStartTyped, FoldExists
<1>3. \E g : NmeaFold(s, g)
  BY <1>2, NmeaStepsSame
<1>4. NmeaFold(s, h)
  BY <1>3
<1>0. ProcessNmea(s) = [done |-> n - Len(h[1..n].framer.buffer), records |-> h[1..n].records]
  BY <1>1, NmeaIsFold
<1> HIDE DEF h
<1>5. /\ h[1..0] = NmeaStart
      /\ \A i \in 1..n : h[1..i] = NmeaTakes(h[1..(i - 1)], s[i])
  <2>1. \A T \in SUBSET (1..n) :
          h[T] = IF T = {} THEN NmeaStart ELSE NmeaTakes(h[T \ {Max(T)}], s[Max(T)])
    BY <1>1, <1>4 DEF NmeaFold
  <2>2. h[1..0] = NmeaStart
    <3>1. 1..0 = {} /\ 1..0 \in SUBSET (1..n)
      OBVIOUS
    <3> QED
      BY <2>1, <3>1
  <2>3. ASSUME NEW i \in 1..n
        PROVE  h[1..i] = NmeaTakes(h[1..(i - 1)], s[i])
    <3> DEFINE k == i - 1
    <3>1. k \in Nat /\ i = k + 1 /\ 1..i \in SUBSET (1..n)
      OBVIOUS
    <3>2. Max(1..i) = i /\ (1..i) \ {i} = 1..k /\ 1..i # {}
      <4> HIDE DEF k
      <4> QED
        BY <3>1, IntervalGrows
    <3> HIDE DEF n
    <3> QED
      BY <2>1, <3>1, <3>2
  <2> QED
    BY <2>2, <2>3
<1> HIDE DEF n
<1> DEFINE S == {i \in 0..n : h[1..i] \in NmeaStates}
<1>6. 0 \in S
  BY <1>1, <1>5, NmeaStartTyped
<1>7. ASSUME NEW i \in 1..n, i - 1 \in S
      PROVE  i \in S
  <2>1. s[i] \in Nat
    BY DEF n
  <2>2. h[1..(i - 1)] \in NmeaStates
    BY <1>7
  <2>3. NmeaTakes(h[1..(i - 1)], s[i]) \in NmeaStates
    BY <2>1, <2>2, NmeaTakesIs
  <2> QED
    BY <1>5, <2>3
<1>8. \A i \in 0..n : i \in S
  <2> HIDE DEF S
  <2> QED
    BY <1>1, <1>6, <1>7, Climbs
<1>9. t \in [0..n -> NmeaStates]
  BY <1>8
<1>10. t[0] = NmeaStart
  BY <1>1, <1>5
<1>11. ASSUME NEW i \in 1..n PROVE t[i] = NmeaTakes(t[i - 1], s[i])
  <2>1. i \in 0..n /\ i - 1 \in 0..n
    BY <1>1
  <2>2. t[i] = h[1..i] /\ t[i - 1] = h[1..(i - 1)]
    BY <2>1
  <2> QED
    BY <1>5, <2>2
<1>12. t[n] = h[1..n]
  BY <1>1
<1> HIDE DEF t
<1>13. IsNmeaRun(t, s)
  BY <1>0, <1>9, <1>10, <1>11, <1>12 DEF IsNmeaRun, n
<1> QED
  BY <1>13

\* One more byte of a line, and the records after it.
NmeaTook(a, b, t) ==
  LET r == a.framer
      s == Append(r.buffer, b)
      e == [at |-> r.used - Len(r.buffer), size |-> Len(r.buffer) + 1]
  IN  /\ t \in NmeaStates /\ t.framer.used = r.used + 1
      /\ b = Dollar => t.framer.buffer = <<b>> /\ t.records = a.records
      /\ b # Dollar /\ (r.buffer = <<>> \/ Len(r.buffer) + 1 > MaxLine) =>
           t.framer.buffer = <<>> /\ t.records = a.records
      /\ b # Dollar /\ r.buffer # <<>> /\ Len(r.buffer) + 1 <= MaxLine /\ b # NL =>
           t.framer.buffer = s /\ t.records = a.records
      /\ b # Dollar /\ r.buffer # <<>> /\ Len(r.buffer) + 1 <= MaxLine /\ b = NL =>
           /\ t.framer.buffer = <<>>
           /\ t.records = IF LineStatus(Nmea, s) = "valid" THEN Append(a.records, e) ELSE a.records

LEMMA NmeaTookOne ==
  ASSUME NEW a \in NmeaStates, NEW b \in Nat
  PROVE  NmeaTook(a, b, NmeaTakes(a, b))
<1> DEFINE r == a.framer
           s == Append(r.buffer, b)
           p == PushNmea(r, b)
           t == NmeaTakes(a, b)
           L == Len(r.buffer)
           e == [at |-> r.used - L, size |-> L + 1]
<1>1. r \in FramerStates /\ r.buffer \in Seq(Nat) /\ r.used \in Nat /\ L \in Nat
  BY DEF NmeaStates, FramerStates
<1>2. Len(s) = L + 1 /\ Append(<<>>, b) = <<b>>
  BY <1>1
<1>3. p = PushLine(Nmea, r, b)
  BY NmeaPush
<1>4. /\ t \in NmeaStates /\ t.framer.buffer = p.buffer /\ t.framer.used = p.used
      /\ t.records = IF p.record.check = "valid"
                       THEN Append(a.records, [at |-> p.record.at, size |-> p.record.size])
                     ELSE a.records
  BY NmeaTakesIs
<1>5. Nmea.leads = {Dollar}
  BY LineForm DEF LineFramers
<1> HIDE DEF t
<1>6. ASSUME NEW u, NEW status, p = Verdict(r, u, status)
      PROVE  t.framer.buffer = u /\ t.framer.used = r.used + 1 /\ t.records = a.records
  <2>1. p.buffer = u /\ p.used = r.used + 1 /\ p.record = NoRecord
    BY <1>6 DEF Verdict
  <2>2. p.record.check # "valid"
    BY <2>1 DEF NoRecord
  <2> HIDE DEF p
  <2> QED
    BY <1>4, <2>1, <2>2
<1>7. CASE b = Dollar
  <2>1. p = Verdict(r, <<b>>, "more")
    <3>1. r.buffer = <<>> => s = <<b>>
      BY <1>2
    <3> HIDE DEF s
    <3> QED
      BY <1>3, <1>5, <1>7, <3>1 DEF PushLine, s
  <2>2. t.framer.buffer = <<b>> /\ t.framer.used = r.used + 1 /\ t.records = a.records
    BY <1>6, <2>1
  <2> QED
    BY <1>4, <1>7, <2>2 DEF NmeaTook, t
<1>8. CASE b # Dollar /\ (r.buffer = <<>> \/ L + 1 > MaxLine)
  <2>1. p = Verdict(r, <<>>, "skipped") \/ p = Verdict(r, <<>>, "overflow")
    BY <1>2, <1>3, <1>5, <1>8 DEF PushLine
  <2>2. t.framer.buffer = <<>> /\ t.framer.used = r.used + 1 /\ t.records = a.records
    BY <1>6, <2>1
  <2> HIDE DEF L
  <2>3. ~(L + 1 <= MaxLine) \/ r.buffer = <<>>
    BY <1>1, <1>8, FramingAssumption
  <2> QED
    BY <1>4, <1>8, <2>2, <2>3 DEF NmeaTook, t, L
<1>9. CASE b # Dollar /\ ~(r.buffer = <<>> \/ L + 1 > MaxLine) /\ b # NL
  <2>1. p = Verdict(r, s, "more")
    BY <1>2, <1>3, <1>5, <1>9 DEF PushLine
  <2>2. t.framer.buffer = s /\ t.framer.used = r.used + 1 /\ t.records = a.records
    BY <1>6, <2>1
  <2> QED
    BY <1>4, <1>9, <2>2 DEF NmeaTook, t
<1>10. CASE b # Dollar /\ ~(r.buffer = <<>> \/ L + 1 > MaxLine) /\ b = NL
  <2>1. p = Ready(r, Len(s), r.used + 1 - Len(s), LineStatus(Nmea, s))
    BY <1>2, <1>3, <1>5, <1>10 DEF PushLine
  <2>2. Len(s) = L + 1 /\ r.used + 1 - Len(s) = r.used - L
    <3>1. r.used + 1 - (L + 1) = r.used - L
      <4> HIDE DEF L
      <4> QED
        BY <1>1
    <3> QED
      BY <1>2, <3>1
  <2>3. /\ p.buffer = <<>> /\ p.used = r.used + 1
        /\ p.record = [at |-> r.used - L, size |-> L + 1, check |-> LineStatus(Nmea, s)]
    BY <2>1, <2>2 DEF Ready
  <2>4. p.record.at = r.used - L /\ p.record.size = L + 1 /\ p.record.check = LineStatus(Nmea, s)
    BY <2>3
  <2> HIDE DEF p, s
  <2>5. /\ t.framer.buffer = <<>> /\ t.framer.used = r.used + 1
        /\ t.records = IF LineStatus(Nmea, s) = "valid" THEN Append(a.records, e) ELSE a.records
    BY <1>4, <2>3, <2>4
  <2> HIDE DEF e
  <2> QED
    BY <1>4, <1>10, <2>5 DEF NmeaTook, t, s, e
<1> QED
  BY <1>7, <1>8, <1>9, <1>10

\* What a valid NMEA line looks like in the stream.
LEMMA NmeaLineIs ==
  ASSUME NEW z \in Seq(Nat), NEW o \in 1..Len(z), NEW n \in ValidAt("nmea", z, o)
  PROVE  /\ n \in Nat /\ n >= 2 /\ n <= MaxLine /\ z[o] = Dollar
         /\ \A i \in (o + 1)..(o + n - 2) : z[i] # Dollar /\ z[i] # NL
         /\ z[o + n - 1] = NL
         /\ \E v : Holds(z, o, n, v) /\ LineStatus(Nmea, v) = "valid"
<1>1. PICK v : Holds(z, o, n, v) /\ IsValidRecord("nmea", v)
  BY RecordAt
<1>2. /\ v \in Seq(Nat) /\ Len(v) = n /\ n \in Nat /\ n >= 1
      /\ \A i \in 1..n : v[i] = z[o + i - 1]
  BY <1>1 DEF Holds
<1>3. LeadFramer("nmea", v[1]) = Nmea /\ v[1] = Dollar
  BY <1>1 DEF LeadFramer, IsValidRecord, Leads
<1>4. ~IsBinary(Nmea)
  BY BinaryOrLine DEF LineFramers
<1>5. IsValidLine(Nmea, v)
  BY <1>1, <1>3, <1>4 DEF IsValidRecord
<1>6. /\ n > 1 /\ n <= MaxLine /\ v[n] = NL /\ LineStatus(Nmea, v) = "valid"
      /\ \A i \in 2..(n - 1) : v[i] \in Data \cup {Star}
  BY <1>2, <1>5 DEF IsValidLine
<1>7. z[o] = Dollar
  <2>1. 1 \in 1..n /\ o + 1 - 1 = o
    BY <1>2
  <2> QED
    BY <1>2, <1>3, <2>1
<1>8. ASSUME NEW i \in (o + 1)..(o + n - 2) PROVE z[i] # Dollar /\ z[i] # NL
  <2> DEFINE j == i - o + 1
  <2>1. j \in 2..(n - 1) /\ j \in 1..n /\ o + j - 1 = i
    BY <1>2
  <2> HIDE DEF j
  <2>2. v[j] = z[i] /\ v[j] \in Data \cup {Star}
    BY <1>2, <1>6, <2>1
  <2> QED
    BY <2>2, TextBytes
<1>9. z[o + n - 1] = NL
  <2>1. n \in 1..n
    BY <1>2
  <2> QED
    BY <1>2, <1>6, <2>1
<1>10. n >= 2
  BY <1>2, <1>6
<1> QED
  BY <1>1, <1>2, <1>6, <1>7, <1>8, <1>9, <1>10

LEMMA TidyWider ==
  ASSUME NEW p \in Seq(Routes), NEW a \in Int, NEW b \in Int, NEW c \in Int, b <= c, Tidy(p, a, b)
  PROVE  Tidy(p, a, c)
<1>1. ASSUME NEW i \in DOMAIN p PROVE a <= p[i].at /\ Ends(p[i]) <= c
  <2>1. a <= p[i].at /\ Ends(p[i]) <= b
    BY DEF Tidy
  <2>2. p[i] \in Routes
    OBVIOUS
  <2>3. Ends(p[i]) \in Int
    BY <2>2, RouteIs
  <2> QED
    BY <2>1, <2>3
<1> QED
  BY <1>1 DEF Tidy

Appended(p, e, by, a, c) ==
  /\ Append(p, e) \in Seq(Routes) /\ Tidy(Append(p, e), a, c)
  /\ RoutesOf(Append(p, e), by) = RoutesOf(p, by) \cup {[at |-> e.at + by, size |-> e.size]}

LEMMA TidyAppend ==
  ASSUME NEW p \in Seq(Routes), NEW e \in Routes, NEW by \in Int, NEW a \in Int, NEW b \in Int,
         NEW c \in Int, a <= b, b <= c, Tidy(p, a, b), b <= e.at, Ends(e) <= c
  PROVE  Appended(p, e, by, a, c)
<1> DEFINE q == <<e>>
<1>1. q \in Seq(Routes) /\ DOMAIN q = {1} /\ q[1] = e /\ Append(p, e) = p \o q
  OBVIOUS
<1> HIDE DEF q
<1>2. Tidy(q, b, c)
  BY <1>1 DEF Tidy, Disjoint
<1>3. RoutesOf(q, by) = {[at |-> e.at + by, size |-> e.size]}
  BY <1>1 DEF RoutesOf
<1>4. Tidy(p \o q, a, c)
  BY <1>1, <1>2, TidyConcat
<1>5. RoutesOf(p \o q, by) = RoutesOf(p, by) \cup RoutesOf(q, by)
  BY <1>1, RoutesOfConcat
<1>6. p \o q \in Seq(Routes)
  BY <1>1
<1> QED
  BY <1>1, <1>3, <1>4, <1>5, <1>6 DEF Appended

\* A valid line at offset o of n bytes is routed, or the framer has as much of
\* it as there is: of the bytes up to the m-th, those after the q-th.
LineDone(o, n, q, m, R) ==
  \/ o + n - 1 <= q /\ [at |-> o - 1, size |-> n] \in R
  \/ o = q + 1 /\ o + n - 1 > m

LinesDone(z, h, q, m, R) ==
  \A o \in 1..Len(z) : h < o /\ o <= m => \A n \in ValidAt("nmea", z, o) : LineDone(o, n, q, m, R)

\* The framer has the bytes of z after the q-th, of those after the h-th up to
\* the m-th.
NmeaHas(z, h, q, m, a) ==
  /\ q \in h..m /\ a.framer.used = m - h
  /\ Len(a.framer.buffer) = m - q
  /\ \A x \in 1..(m - q) : a.framer.buffer[x] = z[q + x]
  /\ Tidy(a.records, 0, q - h)
  /\ LinesDone(z, h, q, m, RoutesOf(a.records, h))

\* The line that begins with the next byte, and the one the framer has part of.
LineBegins(z, m, k) == z[m + 1] = Dollar => k = m

LineEnds(z, q, m, k, Q) ==
  \A n \in ValidAt("nmea", z, q + 1) :
    q < m /\ q + n > m /\ z[m + 1] # Dollar /\ (z[m + 1] = NL <=> q + n = m + 1) =>
      LineDone(q + 1, n, k, m + 1, Q)

\* How the lines get on with one more byte.
LEMMA LinesGoOn ==
  ASSUME NEW z \in Seq(Nat), NEW h \in Nat, NEW m \in Nat, h <= m, m < Len(z), NEW q \in h..m,
         NEW R, LinesDone(z, h, q, m, R), NEW k \in Nat, NEW Q, R \subseteq Q,
         q <= k,
         LineBegins(z, m, k), LineEnds(z, q, m, k, Q)
  PROVE  LinesDone(z, h, k, m + 1, Q)
<1> SUFFICES ASSUME NEW o \in 1..Len(z), h < o, o <= m + 1, NEW n \in ValidAt("nmea", z, o)
             PROVE  LineDone(o, n, k, m + 1, Q)
  BY DEF LinesDone
<1>0. q \in Nat /\ o \in Nat /\ q <= m /\ Len(z) \in Nat
  OBVIOUS
<1>1. /\ n \in Nat /\ n >= 2 /\ z[o] = Dollar
      /\ \A i \in (o + 1)..(o + n - 2) : z[i] # Dollar /\ z[i] # NL
      /\ z[o + n - 1] = NL
  BY NmeaLineIs
<1>2. CASE o = m + 1
  <2>1. k = m
    BY <1>1, <1>2 DEF LineBegins
  <2>2. o = k + 1 /\ o + n - 1 > m + 1
    BY <1>0, <1>1, <1>2, <2>1
  <2> QED
    BY <2>2 DEF LineDone
<1>3. CASE o # m + 1
  <2>0. o <= m
    BY <1>0, <1>3
  <2>1. LineDone(o, n, q, m, R)
    BY <2>0 DEF LinesDone
  <2>2. CASE o + n - 1 <= q /\ [at |-> o - 1, size |-> n] \in R
    <3>1. o + n - 1 <= k
      BY <1>0, <1>1, <2>2
    <3> QED
      BY <2>2, <3>1 DEF LineDone
  <2>3. CASE o = q + 1 /\ o + n - 1 > m
    <3>1. q < m /\ q + n > m /\ n \in ValidAt("nmea", z, q + 1)
      BY <1>0, <1>1, <2>0, <2>3
    <3>2. q + n = m + 1 \/ m + 1 \in (o + 1)..(o + n - 2)
      BY <1>0, <1>1, <2>0, <2>3
    <3>3. q + n = o + n - 1
      BY <1>0, <1>1, <2>3
    <3>4. CASE q + n = m + 1
      <4>0. o + n - 1 = m + 1
        BY <3>3, <3>4
      <4>3. z[o + n - 1] = NL
        BY <1>1
      <4>1. z[m + 1] = NL /\ NL # Dollar
        <5>1. NL # Dollar
          BY DEF NL, Dollar
        <5> QED
          BY <4>0, <4>3, <5>1
      <4>2. LineDone(q + 1, n, k, m + 1, Q)
        BY <3>1, <3>4, <4>1 DEF LineEnds
      <4> QED
        BY <2>3, <4>2
    <3>5. CASE q + n # m + 1
      <4>1. z[m + 1] # Dollar /\ z[m + 1] # NL
        BY <1>1, <3>2, <3>5
      <4>2. LineDone(q + 1, n, k, m + 1, Q)
        BY <3>1, <3>5, <4>1 DEF LineEnds
      <4> QED
        BY <2>3, <4>2
    <3> QED
      BY <3>4, <3>5
  <2> QED
    BY <2>1, <2>2, <2>3 DEF LineDone
<1> QED
  BY <1>2, <1>3

LEMMA NmeaHasNext ==
  ASSUME NEW z \in Seq(Nat), NEW h \in Nat, NEW m \in Nat, h <= m, m < Len(z),
         NEW q, NEW a \in NmeaStates, NmeaHas(z, h, q, m, a),
         NEW t, NmeaTook(a, z[m + 1], t)
  PROVE  \E k : NmeaHas(z, h, k, m + 1, t)
<1> DEFINE r == a.framer
           u == r.buffer
           L == Len(u)
           b == z[m + 1]
           s == Append(u, b)
           R == RoutesOf(a.records, h)
           i == m - h
<1>1. /\ q \in h..m /\ r.used = i /\ L = m - q
      /\ \A x \in 1..(m - q) : u[x] = z[q + x]
      /\ Tidy(a.records, 0, q - h) /\ LinesDone(z, h, q, m, R)
  BY DEF NmeaHas
<1>2. /\ u \in Seq(Nat) /\ a.records \in Seq(Routes) /\ b \in Nat /\ q \in Nat /\ q <= m /\ h <= q
      /\ m + 1 \in Nat /\ Len(z) \in Nat /\ L \in Nat /\ MaxLine \in Nat
  <2>1. u \in Seq(Nat) /\ a.records \in Seq(Routes)
    BY DEF NmeaStates, FramerStates
  <2>2. b \in Nat /\ Len(z) \in Nat /\ m + 1 \in Nat
    OBVIOUS
  <2>3. q \in Nat /\ q <= m /\ h <= q
    BY <1>1
  <2>4. L \in Nat
    <3> HIDE DEF u
    <3> QED
      BY <2>1
  <2> QED
    BY <2>1, <2>2, <2>3, <2>4, FramingAssumption
<1>3. t.framer.used = (m + 1) - h
  <2>1. t.framer.used = i + 1
    BY <1>1 DEF NmeaTook
  <2> QED
    BY <2>1
<1>4. u = <<>> <=> q = m
  BY <1>1, <1>2, NoneIsEmpty
<1>5. \A n \in ValidAt("nmea", z, q + 1) : n \in Nat /\ n <= MaxLine
  <2>1. q < Len(z) /\ q + 1 \in 1..Len(z)
    BY <1>2
  <2> QED
    BY <2>1, NmeaLineIs
<1>9. ASSUME NEW k \in m..(m + 1) PROVE Tidy(a.records, 0, k - h) /\ k \in Nat /\ q <= k
  <2> DEFINE v == q - h
             w == k - h
  <2>1. v \in Int /\ w \in Int /\ v <= w /\ 0 \in Int /\ k \in Nat /\ q <= k
    BY <1>2
  <2>2. Tidy(a.records, 0, v)
    BY <1>1
  <2> HIDE DEF v, w
  <2>3. Tidy(a.records, 0, w)
    BY <1>2, <2>1, <2>2, TidyWider
  <2> QED
    BY <2>1, <2>3 DEF w
<1>10. m \in m..(m + 1) /\ m + 1 \in m..(m + 1)
  BY <1>2
<1>6. CASE b = Dollar
  <2>1. t.framer.buffer = <<b>> /\ t.records = a.records
    BY <1>6 DEF NmeaTook
  <2>2. Len(t.framer.buffer) = (m + 1) - m /\ t.framer.buffer[1] = z[m + 1]
    BY <1>2, <2>1
  <2>3. \A x \in 1..((m + 1) - m) : t.framer.buffer[x] = z[m + x]
    BY <1>2, <2>2
  <2>4. LinesDone(z, h, m, m + 1, R)
    <3>1. m \in Nat /\ R \subseteq R /\ q <= m /\ LineBegins(z, m, m)
      BY <1>2 DEF LineBegins
    <3>2. LineEnds(z, q, m, m, R)
      BY <1>6 DEF LineEnds
    <3> HIDE DEF R
    <3> QED
      BY <1>1, <3>1, <3>2, LinesGoOn
  <2>5. Tidy(a.records, 0, m - h)
    BY <1>9, <1>10
  <2>6. m \in h..(m + 1)
    BY <1>2
  <2>7. NmeaHas(z, h, m, m + 1, t)
    BY <1>3, <2>1, <2>2, <2>3, <2>4, <2>5, <2>6 DEF NmeaHas
  <2> QED
    BY <2>7
<1>7. CASE b # Dollar /\ (u = <<>> \/ L + 1 > MaxLine)
  <2>1. t.framer.buffer = <<>> /\ t.records = a.records
    BY <1>7 DEF NmeaTook
  <2>2. ASSUME NEW n \in ValidAt("nmea", z, q + 1), q < m, q + n = m + 1 \/ q + n > m
        PROVE  FALSE
    <3>1. L + 1 > MaxLine /\ n \in Nat /\ n <= MaxLine
      BY <1>2, <1>4, <1>5, <1>7, <2>2
    <3>2. n >= L + 1
      BY <1>1, <1>2, <2>2, <3>1
    <3> QED
      BY <1>2, <3>1, <3>2
  <2> DEFINE k == m + 1
  <2>3. LinesDone(z, h, k, m + 1, R)
    <3>1. k \in Nat /\ R \subseteq R /\ q <= k /\ LineBegins(z, m, k)
      BY <1>2, <1>7 DEF LineBegins
    <3>2. LineEnds(z, q, m, k, R)
      <4> HIDE DEF R, k
      <4> QED
        BY <2>2 DEF LineEnds
    <3> HIDE DEF R, k
    <3> QED
      BY <1>1, <3>1, <3>2, LinesGoOn
  <2>4. Tidy(a.records, 0, k - h)
    BY <1>9, <1>10
  <2>5. k \in h..(m + 1) /\ Len(t.framer.buffer) = (m + 1) - k /\ 1..((m + 1) - k) = {}
    <3>1. k \in h..(m + 1) /\ (m + 1) - k = 0 /\ 1..0 = {}
      BY <1>2
    <3>2. Len(t.framer.buffer) = 0
      BY <2>1
    <3> HIDE DEF k
    <3> QED
      BY <3>1, <3>2
  <2>6. NmeaHas(z, h, k, m + 1, t)
    <3> HIDE DEF k
    <3> QED
      BY <1>3, <2>1, <2>3, <2>4, <2>5 DEF NmeaHas
  <2> QED
    BY <2>6
<1>8. CASE b # Dollar /\ ~(u = <<>> \/ L + 1 > MaxLine)
  <2>0. s \in Seq(Nat) /\ Len(s) = L + 1 /\ s[L + 1] = b /\ \A x \in 1..L : s[x] = u[x]
    BY <1>2, AppendProperties
  <2>1. L + 1 = (m + 1) - q /\ q < m /\ L + 1 <= MaxLine /\ q \in h..(m + 1)
    <3>1. L = m - q /\ q # m /\ ~(L + 1 > MaxLine)
      BY <1>1, <1>4, <1>8
    <3>2. q \in Nat /\ q <= m /\ h <= q /\ L \in Nat /\ MaxLine \in Nat
      BY <1>2
    <3> HIDE DEF L
    <3> QED
      BY <3>1, <3>2
  <2>2. \A x \in 1..((m + 1) - q) : s[x] = z[q + x]
    <3> SUFFICES ASSUME NEW x \in 1..(L + 1) PROVE s[x] = z[q + x]
      BY <2>1
    <3>1. CASE x \in 1..L
      BY <1>1, <2>0, <3>1
    <3>2. CASE x = L + 1
      <4>1. q + x = m + 1
        BY <1>1, <1>2, <3>2
      <4> QED
        BY <2>0, <3>2, <4>1
    <3>3. x \in 1..L \/ x = L + 1
      <4> HIDE DEF L
      <4> QED
        BY <1>2
    <3> HIDE DEF L, s
    <3> QED
      BY <3>1, <3>2, <3>3
  <2>3. CASE b # NL
    <3>1. t.framer.buffer = s /\ t.records = a.records
      BY <1>8, <2>1, <2>3 DEF NmeaTook
    <3>2. ASSUME NEW n \in ValidAt("nmea", z, q + 1), q + n > m, q + n # m + 1
          PROVE  LineDone(q + 1, n, q, m + 1, R)
      <4>1. n \in Nat
        BY <1>5
      <4>2. (q + 1) + n - 1 > m + 1
        BY <1>2, <3>2, <4>1
      <4> QED
        BY <4>2 DEF LineDone
    <3>3. LinesDone(z, h, q, m + 1, R)
      <4>1. R \subseteq R /\ q <= q /\ LineBegins(z, m, q) /\ q \in Nat
        BY <1>2, <1>8 DEF LineBegins
      <4>2. LineEnds(z, q, m, q, R)
        <5> HIDE DEF R
        <5> QED
          BY <2>3, <3>2 DEF LineEnds
      <4> HIDE DEF R
      <4> QED
        BY <1>1, <4>1, <4>2, LinesGoOn
    <3> HIDE DEF s
    <3>4. NmeaHas(z, h, q, m + 1, t)
      BY <1>1, <1>3, <2>0, <2>1, <2>2, <3>1, <3>3 DEF NmeaHas
    <3> QED
      BY <3>4
  <2>4. CASE b = NL
    <3> DEFINE e == [at |-> r.used - L, size |-> L + 1]
               k == m + 1
    <3>1. /\ t.framer.buffer = <<>>
          /\ t.records = IF LineStatus(Nmea, s) = "valid" THEN Append(a.records, e) ELSE a.records
      BY <1>8, <2>1, <2>4 DEF NmeaTook
    <3>2. e.at = q - h /\ e.size = L + 1 /\ e \in Routes /\ e.at + h = q
          /\ q - h <= e.at /\ Ends(e) <= k - h /\ q - h \in Int /\ k - h \in Int /\ 0 <= q - h
      BY <1>1, <1>2, <2>1 DEF Routes, Ends
    <3> HIDE DEF e
    <3>3. /\ Append(a.records, e) \in Seq(Routes)
          /\ Tidy(Append(a.records, e), 0, k - h)
          /\ RoutesOf(Append(a.records, e), h) = R \cup {[at |-> q, size |-> L + 1]}
      <4> DEFINE v == q - h
                 w == k - h
      <4>1. v <= w /\ v \in Int /\ w \in Int /\ 0 \in Int /\ 0 <= v /\ h \in Int
        BY <1>2
      <4>2. Tidy(a.records, 0, v) /\ v <= e.at /\ Ends(e) <= w
        <5>1. Tidy(a.records, 0, q - h)
          BY <1>1
        <5> HIDE DEF k
        <5> QED
          BY <3>2, <5>1
      <4> HIDE DEF k, L, v, w
      <4>3. a.records \in Seq(Routes) /\ e \in Routes
        BY <1>2, <3>2
      <4>4. Appended(a.records, e, h, 0, w)
        BY <4>1, <4>2, <4>3, TidyAppend
      <4> QED
        BY <3>2, <4>4 DEF Appended, w
    <3>4. Tidy(t.records, 0, k - h)
      <4>1. Tidy(a.records, 0, k - h)
        BY <1>9, <1>10
      <4> HIDE DEF s, k
      <4> QED
        BY <3>1, <3>3, <4>1
    <3> DEFINE Q == RoutesOf(t.records, h)
    <3>5. R \subseteq Q /\ (LineStatus(Nmea, s) = "valid" => [at |-> q, size |-> L + 1] \in Q)
      <4> HIDE DEF s, L
      <4> QED
        BY <3>1, <3>3
    <3> HIDE DEF Q
    <3>6. ASSUME NEW n \in ValidAt("nmea", z, q + 1), q + n = m + 1
          PROVE  LineDone(q + 1, n, k, m + 1, Q)
      <4>0. n \in Nat
        BY <1>5
      <4>1. q + 1 \in 1..Len(z) /\ n = L + 1
        <5>1. n = (m + 1) - q
          BY <1>2, <3>6, <4>0
        <5>2. L + 1 = (m + 1) - q
          BY <2>1
        <5>3. q + 1 \in 1..Len(z)
          <6>1. q \in Nat /\ q < m /\ m < Len(z) /\ Len(z) \in Nat
            BY <1>2, <2>1
          <6> QED
            BY <6>1
        <5> QED
          BY <5>1, <5>2, <5>3
      <4>2. PICK v : Holds(z, q + 1, n, v) /\ LineStatus(Nmea, v) = "valid"
        BY <4>1, NmeaLineIs
      <4>3. v \in Seq(Nat) /\ Len(v) = n /\ \A x \in 1..n : v[x] = z[(q + 1) + x - 1]
        BY <4>2 DEF Holds
      <4>4. ASSUME NEW x \in 1..Len(s) PROVE s[x] = v[x]
        <5>1. x \in 1..n /\ x \in 1..((m + 1) - q) /\ (q + 1) + x - 1 = q + x
          <6>1. Len(s) = L + 1 /\ n = L + 1 /\ L + 1 = (m + 1) - q /\ q \in Nat
            BY <1>2, <2>0, <2>1, <4>1
          <6> HIDE DEF s, L
          <6>2. x \in 1..(L + 1)
            BY <6>1
          <6>3. x \in Int
            BY <1>2, <6>2
          <6> QED
            BY <6>1, <6>2, <6>3
        <5> HIDE DEF s
        <5> QED
          BY <2>2, <4>3, <5>1
      <4>5. s = v
        <5> HIDE DEF s
        <5>1. Len(s) = Len(v)
          BY <2>0, <4>1, <4>3
        <5> QED
          BY <2>0, <4>3, <4>4, <5>1, SeqEqual
      <4>6. [at |-> q, size |-> n] \in Q
        BY <3>5, <4>1, <4>2, <4>5
      <4>7. (q + 1) + n - 1 <= k /\ (q + 1) - 1 = q
        BY <1>2, <3>6, <4>0
      <4> QED
        BY <4>6, <4>7 DEF LineDone
    <3>7. LinesDone(z, h, k, m + 1, Q)
      <4>1. k \in Nat /\ q <= k /\ LineBegins(z, m, k)
        BY <1>2, <1>8 DEF LineBegins
      <4>2. LineEnds(z, q, m, k, Q)
        <5> HIDE DEF R, k
        <5> QED
          BY <2>4, <3>6 DEF LineEnds
      <4> HIDE DEF R, k
      <4> QED
        BY <1>1, <3>5, <4>1, <4>2, LinesGoOn
    <3>8. k \in h..(m + 1) /\ Len(t.framer.buffer) = (m + 1) - k /\ 1..((m + 1) - k) = {}
      BY <1>2, <3>1
    <3>9. NmeaHas(z, h, k, m + 1, t)
      <4> HIDE DEF k
      <4> QED
        BY <1>3, <3>4, <3>7, <3>8 DEF NmeaHas, Q
    <3> QED
      BY <3>9
  <2> QED
    BY <2>3, <2>4
<1> QED
  BY <1>6, <1>7, <1>8

LEMMA NmeaHasStart ==
  ASSUME NEW z \in Seq(Nat), NEW h \in Nat
  PROVE  NmeaHas(z, h, h, h, NmeaStart)
<1> DEFINE a == NmeaStart
<1>1. a.framer.used = 0 /\ a.framer.buffer = <<>> /\ a.records = <<>>
  BY DEF NmeaStart, Started
<1> HIDE DEF a
<1>2. h \in h..h /\ h - h = 0 /\ 1..0 = {} /\ Len(<<>>) = 0
  OBVIOUS
<1>3. Tidy(a.records, 0, h - h)
  BY <1>1, NoneRouted
<1>4. LinesDone(z, h, h, h, RoutesOf(a.records, h))
  <2> SUFFICES ASSUME NEW o \in 1..Len(z), h < o, o <= h PROVE FALSE
    BY DEF LinesDone
  <2> QED
    OBVIOUS
<1> QED
  BY <1>1, <1>2, <1>3, <1>4 DEF NmeaHas, a

\* The framer of a session at the end of the bytes it is given.
LEMMA NmeaHasAll ==
  ASSUME NEW z \in Seq(Nat), NEW h \in Nat, NEW to \in Nat, h <= to, to <= Len(z),
         NEW t, IsNmeaRun(t, Segment(z, h, to))
  PROVE  t[to - h] \in NmeaStates /\ \E q : NmeaHas(z, h, q, to, t[to - h])
<1> DEFINE s == Segment(z, h, to)
           n == to - h
           S == {i \in 0..n : \E q : NmeaHas(z, h, q, h + i, t[i])}
<1>1. /\ Len(s) = n /\ n \in Nat /\ Len(z) \in Nat
      /\ \A i \in 1..n : s[i] = z[h + i]
  <2>1. n \in Nat /\ Len(z) \in Nat
    OBVIOUS
  <2>2. Len(s) = n /\ \A i \in 1..n : s[i] = z[h + i]
    BY SegmentIs
  <2> QED
    BY <2>1, <2>2
<1>2. /\ t \in [0..n -> NmeaStates] /\ t[0] = NmeaStart
      /\ \A i \in 1..n : t[i] = NmeaTakes(t[i - 1], s[i])
  <2> HIDE DEF s, n
  <2> QED
    BY <1>1 DEF IsNmeaRun, s
<1> HIDE DEF s
<1>3. 0 \in S
  <2>1. 0 \in 0..n /\ h + 0 = h
    BY <1>1
  <2>2. NmeaHas(z, h, h, h + 0, t[0])
    BY <1>2, <2>1, NmeaHasStart
  <2> QED
    BY <2>1, <2>2
<1>4. ASSUME NEW i \in 1..n, i - 1 \in S PROVE i \in S
  <2> DEFINE j == i - 1
             m == h + j
             a == t[j]
  <2>1. j \in 0..n /\ m \in Nat /\ h <= m /\ m < Len(z) /\ m + 1 = h + i /\ i \in 0..n
    BY <1>1
  <2>2. PICK q : NmeaHas(z, h, q, m, a)
    BY <1>4
  <2>3. a \in NmeaStates
    BY <1>2, <2>1
  <2>4. s[i] = z[m + 1] /\ z[m + 1] \in Nat
    BY <1>1, <2>1
  <2>5. t[i] = NmeaTakes(a, z[m + 1])
    BY <1>2, <2>4
  <2> HIDE DEF j, m, a
  <2>6. NmeaTook(a, z[m + 1], t[i])
    BY <2>3, <2>4, <2>5, NmeaTookOne
  <2>7. \E k : NmeaHas(z, h, k, m + 1, t[i])
    BY <2>1, <2>2, <2>3, <2>6, NmeaHasNext
  <2> QED
    BY <2>1, <2>7
<1>5. n \in S
  <2>1. \A i \in 0..n : i \in S
    <3> HIDE DEF S, n
    <3> QED
      BY <1>1, <1>3, <1>4, Climbs
  <2>2. n \in 0..n
    BY <1>1
  <2> HIDE DEF S, n
  <2> QED
    BY <2>1, <2>2
<1>6. h + n = to /\ n \in 0..n
  BY <1>1
<1> QED
  BY <1>2, <1>5, <1>6

LEMMA NmeaDoes ==
  ASSUME NEW z \in Seq(Nat), NEW b \in Nat, NEW h \in Nat, NEW to \in Nat, h <= to, to <= Len(z)
  PROVE  Did("nmea", z, b, h, to, 0, ProcessNmea(Segment(z, h, to)))
<1> DEFINE s == Segment(z, h, to)
           n == to - h
           r == ProcessNmea(s)
<1>1. s \in Seq(Nat) /\ Len(s) = n /\ n \in Nat /\ Len(z) \in Nat
  <2>1. n \in Nat /\ Len(z) \in Nat
    OBVIOUS
  <2>2. s \in Seq(Nat) /\ Len(s) = n
    BY SegmentIs
  <2> QED
    BY <2>1, <2>2
<1>2. PICK t : IsNmeaRun(t, s)
  <2> HIDE DEF s
  <2> QED
    BY <1>1, NmeaRuns
<1> DEFINE a == t[n]
<1>3. r = [done |-> n - Len(a.framer.buffer), records |-> a.records]
  <2> HIDE DEF s, n
  <2> QED
    BY <1>1, <1>2 DEF IsNmeaRun
<1>4. a \in NmeaStates /\ \E q : NmeaHas(z, h, q, to, a)
  BY <1>2, NmeaHasAll
<1>5. PICK q : NmeaHas(z, h, q, to, a)
  BY <1>4
<1> HIDE DEF r, s, a
<1>6. /\ q \in h..to /\ Len(a.framer.buffer) = to - q
      /\ Tidy(a.records, 0, q - h) /\ LinesDone(z, h, q, to, RoutesOf(a.records, h))
  BY <1>5 DEF NmeaHas
<1>7. a.records \in Seq(Routes)
  BY <1>4 DEF NmeaStates
<1>8. r.done = q - h /\ r.records = a.records
  <2>1. r.done = (to - h) - (to - q) /\ r.records = a.records
    BY <1>3, <1>6
  <2>2. q \in Int
    BY <1>6
  <2> QED
    BY <2>1, <2>2
<1>9. /\ q - h \in 0..(to - h) /\ q \in Nat /\ h <= q /\ q <= to /\ h + (q - h) = q /\ h + 0 = h
      /\ h + r.done = q
  BY <1>6, <1>8
<1> DEFINE R == RoutesOf(r.records, h)
\* A line that begins undisturbed.
<1>10. ASSUME NEW o \in Clean("nmea", z, b), h < o, NEW m \in ValidAt("nmea", z, o)
       PROVE  /\ o \in Nat /\ m \in Nat /\ m >= 1
              /\ o <= to => LineDone(o, m, q, to, R)
  <2>1. o \in 1..Len(z) /\ o \in Nat
    BY CleanIsOffset
  <2>2. m \in Nat /\ m >= 1
    BY <2>1, RecordEnds
  <2>3. o <= to => LineDone(o, m, q, to, R)
    <3> HIDE DEF R
    <3>1. LinesDone(z, h, q, to, R)
      BY <1>6, <1>8 DEF R
    <3> QED
      BY <1>10, <2>1, <3>1 DEF LinesDone
  <2> QED
    BY <2>1, <2>2, <2>3
<1> HIDE DEF R
<1>11. ASSUME b <= h, Settled("nmea", z, b, h)
       PROVE  Handled("nmea", z, b, h, to, q, R)
  <2>1. ASSUME NEW o \in Clean("nmea", z, b), o <= q, NEW m \in ValidAt("nmea", z, o)
        PROVE  o + m - 1 <= q /\ (h < o => [at |-> o - 1, size |-> m] \in R)
    <3>1. o \in Nat
      BY CleanIsOffset
    <3>2. CASE o <= h
      <4>1. o + m - 1 <= h
        BY <1>11, <3>2 DEF Settled
      <4>2. m \in Nat
        BY <3>1, RecordEnds
      <4> QED
        BY <1>9, <3>1, <3>2, <4>1, <4>2
    <3>3. CASE o > h
      <4>1. LineDone(o, m, q, to, R) /\ m \in Nat
        BY <1>9, <1>10, <2>1, <3>1, <3>3
      <4>2. ~(o = q + 1)
        BY <1>9, <2>1, <3>1
      <4> QED
        BY <4>1, <4>2 DEF LineDone
    <3> QED
      BY <1>9, <3>1, <3>2, <3>3
  <2>2. Settled("nmea", z, b, q)
    BY <2>1 DEF Settled
  <2>3. AllIn("nmea", z, b, h, q, R)
    <3> SUFFICES ASSUME NEW o \in Clean("nmea", z, b), o > h, o <= q, NEW m \in ValidAt("nmea", z, o)
                 PROVE  [at |-> o - 1, size |-> m] \in R
      BY DEF AllIn
    <3>1. o \in Nat /\ h < o
      BY CleanIsOffset
    <3> QED
      BY <2>1, <3>1
  <2>4. NoneFollows("nmea", z, b, q, to)
    <3> SUFFICES ASSUME NEW o \in Clean("nmea", z, b), o > q, NEW m \in ValidAt("nmea", z, o)
                 PROVE  o + m - 1 > to
      BY DEF NoneFollows
    <3>0. o \in Nat
      BY CleanIsOffset
    <3>1. h < o
      BY <1>9, <3>0
    <3>2. m \in Nat /\ m >= 1 /\ (o <= to => LineDone(o, m, q, to, R))
      BY <1>10, <3>1
    <3>3. CASE o <= to
      <4>1. ~(o + m - 1 <= q)
        BY <1>9, <3>0, <3>2
      <4> QED
        BY <3>2, <3>3, <4>1 DEF LineDone
    <3>4. CASE ~(o <= to)
      BY <3>0, <3>2, <3>4
    <3> QED
      BY <3>3, <3>4
  <2> QED
    BY <2>2, <2>3, <2>4 DEF Handled
<1>12. Did("nmea", z, b, h, to, 0, r)
  <2>1. r.done \in 0..(to - h) /\ r.records \in Seq(Routes) /\ Tidy(r.records, 0, r.done)
    BY <1>6, <1>7, <1>8, <1>9
  <2>2. b <= h /\ Settled("nmea", z, b, h + 0) =>
          Handled("nmea", z, b, h + 0, to, h + r.done, RoutesOf(r.records, h))
    BY <1>9, <1>11 DEF R
  <2> QED
    BY <2>1, <2>2 DEF Did
<1> QED
  BY <1>12 DEF r, s

\* The kinds of a child session.
Children == Buffered \cup {"nmea"}

LEMMA RunDoes ==
  ASSUME NEW kind \in Children, NEW z \in Seq(Nat), NEW b \in Nat, NEW h \in Nat, NEW to \in Nat,
         h <= to, to <= Len(z)
  PROVE  Did(kind, z, b, h, to, 0, RunSession(kind, Segment(z, h, to)))
<1>1. CASE kind = "nmea"
  BY <1>1, NmeaDoes DEF RunSession
<1>2. CASE kind # "nmea"
  <2>1. kind \in Buffered
    BY <1>2 DEF Children
  <2> QED
    BY <1>2, <2>1, ProcessDoes DEF RunSession
<1> QED
  BY <1>1, <1>2

-----------------------------------------------------------------------------
(* A child session, read after read.                                       *)

\* The child session has taken the bytes up to the d-th of those up to `to`:
\* what began undisturbed after the b-th is routed or not yet complete.
Child(kind, z, b, to, d, records) ==
  /\ d \in b..to /\ records \in Seq(Routes)
  /\ Handled(kind, z, b, b, to, d, RoutesOf(records, 0))
  /\ kind # "ublox" => Tidy(records, 0, d)

LEMMA ChildStarts ==
  ASSUME NEW kind, NEW z \in Seq(Nat), NEW b \in Nat, NEW records \in Seq(Routes),
         kind # "ublox" => Tidy(records, 0, b)
  PROVE  Child(kind, z, b, b, b, records)
<1>1. Settled(kind, z, b, b)
  <2> SUFFICES ASSUME NEW o \in Clean(kind, z, b), o <= b PROVE FALSE
    BY DEF Settled
  <2>1. o \in Nat /\ o > b
    BY CleanIsOffset
  <2> QED
    BY <2>1
<1>2. b \in Int /\ b \in b..b
  OBVIOUS
<1>3. AllIn(kind, z, b, b, b, RoutesOf(records, 0)) /\ NoneFollows(kind, z, b, b, b)
  BY <1>2, NothingIn, NothingFollows
<1> QED
  BY <1>1, <1>2, <1>3 DEF Child, Handled

LEMMA ChildGoesOn ==
  ASSUME NEW kind \in Children, NEW z \in Seq(Nat), NEW b \in Nat, NEW m \in Nat, NEW to \in Nat,
         m <= to, to <= Len(z), NEW d, NEW records, Child(kind, z, b, m, d, records),
         NEW r, r = RunSession(kind, Segment(z, d, to))
  PROVE  Child(kind, z, b, to, d + r.done, records \o Shifted(r.records, d))
<1>1. d \in Nat /\ b <= d /\ d <= m /\ d <= to /\ records \in Seq(Routes) /\ Settled(kind, z, b, d)
  <2>1. d \in b..m
    BY DEF Child
  <2>2. d \in Nat /\ b <= d /\ d <= m /\ d <= to
    BY <2>1
  <2> QED
    BY <2>2 DEF Child, Handled
<1>2. Did(kind, z, b, d, to, 0, r)
  <2>1. Did(kind, z, b, d, to, 0, RunSession(kind, Segment(z, d, to)))
    BY <1>1, RunDoes
  <2> QED
    BY <2>1
<1> DEFINE e == d + r.done
           q == Shifted(r.records, d)
<1>3. r.done \in 0..(to - d) /\ r.records \in Seq(Routes) /\ d + 0 = d
  BY <1>1, <1>2 DEF Did
<1>4. e \in b..to /\ e \in Nat /\ d <= e /\ b \in Int /\ d \in Int /\ e \in Int /\ 0 <= d
  BY <1>1, <1>3
<1>5. q \in Seq(Routes) /\ RoutesOf(q, 0) = RoutesOf(r.records, d)
  <2>1. d \in Int
    BY <1>4
  <2> QED
    BY <1>3, <2>1, ShiftedIs, RoutesOfShifted
<1>6. Handled(kind, z, b, d, to, e, RoutesOf(q, 0))
  <2>1. Settled(kind, z, b, d + 0) => Handled(kind, z, b, d + 0, to, d + r.done, RoutesOf(r.records, d))
    BY <1>1, <1>2 DEF Did
  <2> HIDE DEF q
  <2> QED
    BY <1>1, <1>3, <1>5, <2>1
<1>7. ASSUME kind # "ublox" PROVE Tidy(records \o q, 0, e)
  <2>1. Tidy(records, 0, d)
    BY <1>7 DEF Child
  <2>2. Tidy(r.records, 0, r.done)
    BY <1>2, <1>7 DEF Did
  <2>3. Tidy(q, 0 + d, r.done + d)
    <3>1. 0 \in Int /\ r.done \in Int /\ d \in Int
      BY <1>3, <1>4
    <3> QED
      BY <1>3, <2>2, <3>1, TidyShifted
  <2>4. 0 + d = d /\ r.done + d = e /\ 0 \in Int
    BY <1>1, <1>3
  <2> HIDE DEF q, e
  <2>5. Tidy(q, d, e)
    BY <2>3, <2>4
  <2> QED
    BY <1>1, <1>4, <1>5, <2>1, <2>4, <2>5, TidyConcat
<1> HIDE DEF q, e
<1>8. records \o q \in Seq(Routes) /\ RoutesOf(records \o q, 0) = RoutesOf(records, 0) \cup RoutesOf(q, 0)
  BY <1>1, <1>5, RoutesOfConcat
<1>9. AllIn(kind, z, b, b, e, RoutesOf(records, 0) \cup RoutesOf(q, 0))
  <2>1. AllIn(kind, z, b, b, d, RoutesOf(records, 0))
    BY DEF Child, Handled
  <2>2. AllIn(kind, z, b, d, e, RoutesOf(q, 0))
    BY <1>6 DEF Handled
  <2> QED
    BY <1>4, <2>1, <2>2, AllInJoins
<1>10. Handled(kind, z, b, b, to, e, RoutesOf(records \o q, 0))
  BY <1>6, <1>8, <1>9 DEF Handled
<1>11. Child(kind, z, b, to, e, records \o q)
  BY <1>4, <1>7, <1>8, <1>10 DEF Child
<1> QED
  BY <1>11 DEF e, q

\* A read of nothing new leaves the child session as it is.
LEMMA RunOfNothing ==
  ASSUME NEW kind \in Children, NEW z \in Seq(Nat), NEW d \in Nat, d <= Len(z), NEW to \in Nat, to <= d
  PROVE  /\ RunSession(kind, Segment(z, d, to)).done = 0
         /\ RunSession(kind, Segment(z, d, to)).records \in Seq(Routes)
<1>1. Segment(z, d, to) = Segment(z, d, d)
  <2>1. to \in Int /\ d + 1 \in Int /\ d \in Int /\ ~(d + 1 <= to) /\ ~(d + 1 <= d)
    OBVIOUS
  <2>2. SubSeq(z, d + 1, to) = <<>> /\ SubSeq(z, d + 1, d) = <<>>
    BY <2>1
  <2> QED
    BY <2>2 DEF Segment
<1>2. Did(kind, z, d, d, d, 0, RunSession(kind, Segment(z, d, d)))
  BY RunDoes
<1> DEFINE r == RunSession(kind, Segment(z, d, d))
<1> HIDE DEF r
<1>3. r.done \in 0..(d - d) /\ r.records \in Seq(Routes)
  BY <1>2 DEF Did, r
<1>4. r.done = 0
  BY <1>3
<1> QED
  BY <1>1, <1>3, <1>4 DEF r

-----------------------------------------------------------------------------
(* RouteBufferedBytesToSelectedSession.                                    *)

ReplayStates(z) == [done : 0..Len(z), records : Seq(Routes)]

ReplayStart(from) == [done |-> from, records |-> <<>>]

ReplayTakes(kind, z, a, to) == ReplayStep(a, RunSession(kind, Segment(z, a.done, to)))

ReplayFold(kind, z, base, s, g) ==
  g = [T \in SUBSET DOMAIN s |->
         IF T = {} THEN base ELSE ReplayTakes(kind, z, g[T \ {Max(T)}], s[Max(T)])]

\* What the child session has after the bytes after `from` up to `to`.
Replayed(kind, from, to) ==
  FoldLeft(LAMBDA a, i : ReplayStep(a, RunSession(kind, Bytes(a.done, i))),
           [done |-> from, records |-> <<>>],
           [i \in 1..(to - from) |-> from + i])

LEMMA ReplayedIsFold ==
  ASSUME NEW kind, NEW from, NEW to
  PROVE  LET s == [i \in 1..(to - from) |-> from + i]
         IN  Replayed(kind, from, to)
               = (CHOOSE g : ReplayFold(kind, wire, ReplayStart(from), s, g))[DOMAIN s]
BY DEF Replayed, FoldLeft, MapThenFoldSet, ReplayFold, ReplayTakes, ReplayStart, Bytes, Segment

LEMMA ReplayTakesTyped ==
  ASSUME NEW kind \in Children, NEW z \in Seq(Nat), NEW a \in ReplayStates(z), NEW to \in 0..Len(z)
  PROVE  ReplayTakes(kind, z, a, to) \in ReplayStates(z)
<1> DEFINE d == a.done
           r == RunSession(kind, Segment(z, d, to))
           t == ReplayTakes(kind, z, a, to)
<1>1. d \in Nat /\ d <= Len(z) /\ to \in Nat /\ to <= Len(z) /\ Len(z) \in Nat /\ a.records \in Seq(Routes)
  BY DEF ReplayStates
<1>2. t = [done |-> d + r.done, records |-> a.records \o Shifted(r.records, d)]
  BY DEF ReplayTakes, ReplayStep
<1> HIDE DEF d, t
<1>3. r.records \in Seq(Routes) /\ d + r.done \in 0..Len(z)
  <2>1. CASE to <= d
    <3>1. r.records \in Seq(Routes) /\ r.done = 0
      BY <1>1, <2>1, RunOfNothing
    <3> QED
      BY <1>1, <3>1
  <2>2. CASE ~(to <= d)
    <3>1. d <= to
      BY <1>1, <2>2
    <3>2. Did(kind, z, d, d, to, 0, r)
      BY <1>1, <3>1, RunDoes
    <3>3. r.done \in 0..(to - d) /\ r.records \in Seq(Routes)
      BY <3>2 DEF Did
    <3> HIDE DEF r
    <3>4. d + r.done \in 0..Len(z)
      BY <1>1, <3>1, <3>3
    <3> QED
      BY <3>3, <3>4
  <2> QED
    BY <2>1, <2>2
<1> HIDE DEF r
<1>4. a.records \o Shifted(r.records, d) \in Seq(Routes)
  <2>0. d \in Int /\ r.records \in Seq(Routes)
    BY <1>1, <1>3
  <2>1. Shifted(r.records, d) \in Seq(Routes)
    BY <2>0, ShiftedIs
  <2> QED
    BY <1>1, <2>1
<1>5. t \in ReplayStates(z)
  BY <1>2, <1>3, <1>4 DEF ReplayStates
<1> QED
  BY <1>5 DEF t

LEMMA ReplayFolds ==
  ASSUME NEW kind \in Children, NEW z \in Seq(Nat), NEW base \in ReplayStates(z),
         NEW n \in Nat, NEW s \in [1..n -> 0..Len(z)]
  PROVE  \E g \in [SUBSET (1..n) -> ReplayStates(z)] : ReplayFold(kind, z, base, s, g)
<1> DEFINE A == ReplayStates(z)
           step == [x \in A \X (1..n) |-> ReplayTakes(kind, z, x[1], s[x[2]])]
<1>1. ASSUME NEW x \in A \X (1..n) PROVE ReplayTakes(kind, z, x[1], s[x[2]]) \in A
  <2>1. x[1] \in A /\ s[x[2]] \in 0..Len(z)
    OBVIOUS
  <2> QED
    BY <2>1, ReplayTakesTyped
<1> HIDE DEF A
<1>2. step \in [A \X (1..n) -> A]
  BY <1>1
<1>3. base \in A
  BY DEF A
<1>4. PICK g \in [SUBSET (1..n) -> A] : IsFold(g, base, step, n)
  <2> HIDE DEF step
  <2> QED
    BY <1>2, <1>3, FoldExists
<1>5. ASSUME NEW T \in SUBSET (1..n), T # {}
      PROVE  step[<<g[T \ {Max(T)}], Max(T)>>] = ReplayTakes(kind, z, g[T \ {Max(T)}], s[Max(T)])
  <2>1. Max(T) \in 1..n
    BY <1>5, MaxIsIn
  <2>2. T \ {Max(T)} \in SUBSET (1..n)
    OBVIOUS
  <2>3. g[T \ {Max(T)}] \in A
    BY <2>2
  <2>4. <<g[T \ {Max(T)}], Max(T)>> \in A \X (1..n)
    BY <2>1, <2>3
  <2> QED
    BY <2>4
<1>6. DOMAIN s = 1..n
  OBVIOUS
<1> HIDE DEF step
<1>7. ReplayFold(kind, z, base, s, g)
  BY <1>4, <1>5, <1>6 DEF IsFold, ReplayFold
<1> QED
  BY <1>7 DEF A

\* A child session that is given its first bytes one by one.
LEMMA ReplayDoes ==
  ASSUME wire \in Seq(Nat), NEW kind \in Children, NEW from \in Nat, NEW to \in Nat, from <= to,
         to <= Len(wire)
  PROVE  LET a == Replayed(kind, from, to)
         IN  a \in ReplayStates(wire) /\ Child(kind, wire, from, to, a.done, a.records)
<1> DEFINE n == to - from
           s == [i \in 1..n |-> from + i]
           base == ReplayStart(from)
           h == CHOOSE g : ReplayFold(kind, wire, base, s, g)
<1>1. n \in Nat /\ DOMAIN s = 1..n /\ Len(wire) \in Nat
  OBVIOUS
<1>2. s \in [1..n -> 0..Len(wire)] /\ \A i \in 1..n : s[i] = from + i
  BY <1>1
<1>3. base \in ReplayStates(wire) /\ base.done = from /\ base.records = <<>>
  BY <1>1, NoneRouted DEF ReplayStart, ReplayStates
<1>4. Replayed(kind, from, to) = h[1..n]
  <2>1. Replayed(kind, from, to) = h[DOMAIN s]
    BY ReplayedIsFold
  <2> HIDE DEF h, s, n
  <2> QED
    BY <1>1, <2>1
<1> HIDE DEF s, n, base
<1>5. \E g : ReplayFold(kind, wire, base, s, g)
  BY <1>1, <1>2, <1>3, ReplayFolds
<1>6. ReplayFold(kind, wire, base, s, h)
  BY <1>5
<1> HIDE DEF h
<1>7. h[1..0] = base /\ \A i \in 1..n : h[1..i] = ReplayTakes(kind, wire, h[1..(i - 1)], from + i)
  <2>1. \A T \in SUBSET (1..n) :
          h[T] = IF T = {} THEN base ELSE ReplayTakes(kind, wire, h[T \ {Max(T)}], s[Max(T)])
    BY <1>1, <1>6 DEF ReplayFold
  <2>2. h[1..0] = base
    <3>1. 1..0 = {} /\ 1..0 \in SUBSET (1..n)
      OBVIOUS
    <3> QED
      BY <2>1, <3>1
  <2>3. ASSUME NEW i \in 1..n
        PROVE  h[1..i] = ReplayTakes(kind, wire, h[1..(i - 1)], from + i)
    <3> DEFINE k == i - 1
    <3>1. k \in Nat /\ i = k + 1 /\ 1..i \in SUBSET (1..n)
      BY <1>1
    <3>2. Max(1..i) = i /\ (1..i) \ {i} = 1..k /\ 1..i # {}
      <4> HIDE DEF k
      <4> QED
        BY <3>1, IntervalGrows
    <3>3. s[i] = from + i
      BY <1>2
    <3> HIDE DEF k
    <3>4. h[1..i] = ReplayTakes(kind, wire, h[1..k], from + i)
      BY <2>1, <3>1, <3>2, <3>3
    <3> QED
      BY <3>4 DEF k
  <2> QED
    BY <2>2, <2>3
<1> DEFINE Good(i) == /\ h[1..i] \in ReplayStates(wire)
                      /\ Child(kind, wire, from, from + i, h[1..i].done, h[1..i].records)
           S == {i \in 0..n : Good(i)}
<1>8. 0 \in S
  <2>1. Child(kind, wire, from, from, from, <<>>)
    BY NoneRouted, ChildStarts
  <2>2. from + 0 = from /\ 0 \in 0..n
    BY <1>1
  <2>3. Good(0)
    BY <1>3, <1>7, <2>1, <2>2
  <2> HIDE DEF Good
  <2> QED
    BY <2>2, <2>3
<1>9. ASSUME NEW i \in 1..n, i - 1 \in S PROVE i \in S
  <2> DEFINE k == i - 1
             a == h[1..k]
             m == from + k
             x == from + i
             r == RunSession(kind, Segment(wire, a.done, x))
             t == h[1..i]
  <2>1. i \in 0..n /\ m \in Nat /\ x \in Nat /\ m <= x /\ x <= Len(wire) /\ x \in 0..Len(wire)
    BY <1>1 DEF n
  <2>2. a \in ReplayStates(wire) /\ Child(kind, wire, from, m, a.done, a.records)
    <3>1. Good(k)
      BY <1>9
    <3> QED
      BY <3>1
  <2>3. t = ReplayTakes(kind, wire, a, x)
    BY <1>7
  <2> HIDE DEF a, m, x, t, k
  <2>4. t \in ReplayStates(wire)
    BY <2>1, <2>2, <2>3, ReplayTakesTyped
  <2>5. t.done = a.done + r.done /\ t.records = a.records \o Shifted(r.records, a.done)
    <3> HIDE DEF r
    <3> QED
      BY <2>3 DEF ReplayTakes, ReplayStep, r
  <2>6. Child(kind, wire, from, x, a.done + r.done, a.records \o Shifted(r.records, a.done))
    BY <2>1, <2>2, ChildGoesOn
  <2> HIDE DEF r
  <2>7. Child(kind, wire, from, x, t.done, t.records)
    BY <2>5, <2>6
  <2>8. Good(i)
    BY <2>4, <2>7 DEF t, x
  <2> HIDE DEF Good
  <2> QED
    BY <2>1, <2>8
<1>10. Good(n)
  <2>1. \A i \in 0..n : i \in S
    <3> HIDE DEF S
    <3> QED
      BY <1>1, <1>8, <1>9, Climbs
  <2>2. n \in S
    <3> HIDE DEF S
    <3> QED
      BY <1>1, <2>1
  <2> HIDE DEF Good
  <2> QED
    BY <2>2
<1>11. from + n = to
  BY DEF n
<1> QED
  BY <1>4, <1>10, <1>11

-----------------------------------------------------------------------------
(* What nothing damaged reaches, as the property computes it.              *)

\* The offset o after those of C.
TakesOffset(kind, z, from, C, o) ==
  IF \A i \in from..(o - 1) : Reaches(kind, z, i, o) => \E j \in C : WithinRecord(kind, z, i, j, o)
    THEN C \cup {o} ELSE C

OffsetFold(kind, z, from, s, g) ==
  g = [T \in SUBSET DOMAIN s |->
         IF T = {} THEN {} ELSE TakesOffset(kind, z, from, g[T \ {Max(T)}], s[Max(T)])]

LEMMA UndisturbedIsFold ==
  ASSUME NEW kind, NEW z, NEW from, NEW to
  PROVE  LET s == [i \in 1..(to - from + 1) |-> from + i - 1]
         IN  Undisturbed(kind, z, from, to)
               = (CHOOSE g : OffsetFold(kind, z, from, s, g))[DOMAIN s]
BY DEF Undisturbed, FoldLeft, MapThenFoldSet, OffsetFold, TakesOffset

LEMMA OffsetFolds ==
  ASSUME NEW kind, NEW z \in Seq(Nat), NEW from, NEW n \in Nat, NEW s \in [1..n -> 1..Len(z)]
  PROVE  \E g \in [SUBSET (1..n) -> SUBSET (1..Len(z))] : OffsetFold(kind, z, from, s, g)
<1> DEFINE A == SUBSET (1..Len(z))
           step == [x \in A \X (1..n) |-> TakesOffset(kind, z, from, x[1], s[x[2]])]
<1>1. ASSUME NEW x \in A \X (1..n) PROVE TakesOffset(kind, z, from, x[1], s[x[2]]) \in A
  <2>1. x[1] \in A /\ s[x[2]] \in 1..Len(z)
    OBVIOUS
  <2> QED
    BY <2>1 DEF TakesOffset
<1>3. {} \in A
  OBVIOUS
<1> HIDE DEF A
<1>2. step \in [A \X (1..n) -> A]
  BY <1>1
<1>4. PICK g \in [SUBSET (1..n) -> A] : IsFold(g, {}, step, n)
  <2> HIDE DEF step
  <2> QED
    BY <1>2, <1>3, FoldExists
<1>5. ASSUME NEW T \in SUBSET (1..n), T # {}
      PROVE  step[<<g[T \ {Max(T)}], Max(T)>>] = TakesOffset(kind, z, from, g[T \ {Max(T)}], s[Max(T)])
  <2>1. Max(T) \in 1..n
    BY <1>5, MaxIsIn
  <2>2. T \ {Max(T)} \in SUBSET (1..n)
    OBVIOUS
  <2>3. g[T \ {Max(T)}] \in A
    BY <2>2
  <2>4. <<g[T \ {Max(T)}], Max(T)>> \in A \X (1..n)
    BY <2>1, <2>3
  <2> QED
    BY <2>4
<1>6. DOMAIN s = 1..n
  OBVIOUS
<1> HIDE DEF step
<1>7. OffsetFold(kind, z, from, s, g)
  BY <1>4, <1>5, <1>6 DEF IsFold, OffsetFold
<1> QED
  BY <1>7 DEF A

LEMMA TakesFair ==
  ASSUME NEW kind, NEW z, NEW b \in Nat, NEW from, from = b + 1, NEW C, NEW o \in Nat, from <= o,
         Fair(kind, z, b, C)
  PROVE  Fair(kind, z, b, TakesOffset(kind, z, from, C, o))
<1> DEFINE D == TakesOffset(kind, z, from, C, o)
<1>1. C \subseteq D
  BY DEF TakesOffset
<1>2. ASSUME NEW p \in D
      PROVE  p > b /\ \A i \in (b + 1)..(p - 1) :
               Reaches(kind, z, i, p) => \E j \in D : WithinRecord(kind, z, i, j, p)
  <2>1. CASE p \in C
    BY <1>1, <2>1 DEF Fair
  <2>2. CASE p \notin C
    <3>1. p = o /\ \A i \in from..(o - 1) : Reaches(kind, z, i, o) => \E j \in C : WithinRecord(kind, z, i, j, o)
      BY <1>2, <2>2 DEF TakesOffset
    <3>2. o > b
      OBVIOUS
    <3> HIDE DEF D
    <3> QED
      BY <1>1, <3>1, <3>2
  <2> QED
    BY <2>1, <2>2
<1> HIDE DEF D
<1>3. Fair(kind, z, b, D)
  BY <1>2 DEF Fair
<1> QED
  BY <1>3 DEF D

LEMMA UndisturbedIsClean ==
  ASSUME NEW kind, NEW z \in Seq(Nat), NEW b \in Nat, NEW to \in Nat, b <= to, to <= Len(z)
  PROVE  Undisturbed(kind, z, b + 1, to) \subseteq Clean(kind, z, b)
<1> DEFINE from == b + 1
           n == to - from + 1
           s == [i \in 1..n |-> from + i - 1]
           h == CHOOSE g : OffsetFold(kind, z, from, s, g)
<1>1. n \in Nat /\ DOMAIN s = 1..n /\ Len(z) \in Nat /\ n = to - b /\ from \in Nat
  OBVIOUS
<1>2. s \in [1..n -> 1..Len(z)] /\ \A i \in 1..n : s[i] \in Nat /\ from <= s[i]
  BY <1>1
<1>3. Undisturbed(kind, z, from, to) = h[1..n]
  <2>1. Undisturbed(kind, z, from, to) = h[DOMAIN s]
    <3> HIDE DEF from
    <3> QED
      BY UndisturbedIsFold
  <2> HIDE DEF h, s, n
  <2> QED
    BY <1>1, <2>1
<1> HIDE DEF s, n
<1>4. \E g : OffsetFold(kind, z, from, s, g)
  <2> HIDE DEF from
  <2> QED
    BY <1>1, <1>2, OffsetFolds
<1>5. OffsetFold(kind, z, from, s, h)
  BY <1>4
<1> HIDE DEF h
<1>6. \A T \in SUBSET (1..n) :
        h[T] = IF T = {} THEN {} ELSE TakesOffset(kind, z, from, h[T \ {Max(T)}], s[Max(T)])
  <2> HIDE DEF from
  <2> QED
    BY <1>1, <1>5 DEF OffsetFold
<1> DEFINE S == {i \in 0..n : h[1..i] \in SUBSET (1..Len(z)) /\ Fair(kind, z, b, h[1..i])}
<1>7. 0 \in S
  <2>1. 1..0 = {} /\ 1..0 \in SUBSET (1..n) /\ 0 \in 0..n
    BY <1>1
  <2>2. h[1..0] = {}
    BY <1>6, <2>1
  <2> QED
    BY <2>1, <2>2 DEF Fair
<1>8. ASSUME NEW i \in 1..n, i - 1 \in S PROVE i \in S
  <2> DEFINE k == i - 1
             C == h[1..k]
             o == s[i]
  <2>1. k \in Nat /\ i = k + 1 /\ 1..i \in SUBSET (1..n) /\ i \in 0..n
    BY <1>1
  <2>2. Max(1..i) = i /\ (1..i) \ {i} = 1..k /\ 1..i # {}
    <3> HIDE DEF k
    <3> QED
      BY <2>1, IntervalGrows
  <2>3. C \in SUBSET (1..Len(z)) /\ Fair(kind, z, b, C)
    BY <1>8
  <2>4. o \in Nat /\ from <= o /\ o \in 1..Len(z)
    BY <1>2
  <2>5. h[1..i] = TakesOffset(kind, z, from, C, o)
    <3> HIDE DEF k, from
    <3> QED
      BY <1>6, <2>1, <2>2
  <2> HIDE DEF C, o
  <2>6. Fair(kind, z, b, h[1..i])
    <3>1. from = b + 1
      OBVIOUS
    <3> HIDE DEF from
    <3> QED
      BY <2>3, <2>4, <2>5, <3>1, TakesFair
  <2>7. h[1..i] \in SUBSET (1..Len(z))
    <3> HIDE DEF from
    <3> QED
      BY <2>3, <2>4, <2>5 DEF TakesOffset
  <2> QED
    BY <2>1, <2>6, <2>7
<1>9. n \in S
  <2>1. \A i \in 0..n : i \in S
    <3> HIDE DEF S
    <3> QED
      BY <1>1, <1>7, <1>8, Climbs
  <2> HIDE DEF S
  <2> QED
    BY <1>1, <2>1
<1> QED
  BY <1>3, <1>9 DEF Clean

-----------------------------------------------------------------------------
(* The session.                                                            *)

SelectedKinds == {"auto", "ublox", "unicore", "nmea"}

SessionTyped ==
  /\ config \in SelectedKinds /\ selected \in SelectedKinds
  /\ wire \in Seq(Nat) /\ got \in 0..Len(wire) /\ begin \in 0..got

\* An undecided session has routed nothing; the child session of another has
\* dealt with the bytes it was given.
SessionHas ==
  IF selected = "auto" THEN done = begin /\ delivered = <<>>
  ELSE Child(selected, wire, begin, got, done, delivered)

SessionInv == SessionTyped /\ SessionHas

LEMMA ChildKinds ==
  ASSUME NEW kind \in SelectedKinds, kind # "auto"
  PROVE  kind \in Children
BY DEF SelectedKinds, Children, Buffered

LEMMA KindSelected ==
  ASSUME SessionTyped, NEW to
  PROVE  /\ KindAfter(to) \in SelectedKinds
         /\ selected # "auto" => KindAfter(to) = selected
<1>1. ASSUME NEW earliest, NEW ublox, NEW unicore
      PROVE  Recognised(earliest, ublox, unicore) \in SelectedKinds
  <2>1. CASE earliest = "ubx"
    BY <2>1 DEF Recognised, SelectedKinds
  <2>2. CASE earliest \in {"ascii", "n4"}
    BY <2>2 DEF Recognised, SelectedKinds
  <2>3. CASE earliest # "ubx" /\ earliest \notin {"ascii", "n4"}
    BY <2>3 DEF Recognised, SelectedKinds
  <2> QED
    BY <2>1, <2>2, <2>3
<1>2. ASSUME NEW s PROVE Selection(s) \in SelectedKinds
  <2> DEFINE earliest == Detect(s)
             ublox == FirstAccepted(Ubx, s, IsValid) > 0
             unicore == \/ FirstAccepted(UnicoreAscii, s, IsSupportedAscii) > 0
                        \/ FirstAccepted(N4, s, IsValid) > 0
  <2>1. Selection(s) = IF s = <<>> THEN "auto" ELSE Recognised(earliest, ublox, unicore)
    BY DEF Selection
  <2>2. "auto" \in SelectedKinds
    BY DEF SelectedKinds
  <2> HIDE DEF earliest, ublox, unicore
  <2> QED
    BY <1>1, <2>1, <2>2
<1> QED
  BY <1>2 DEF KindAfter, SessionTyped

LEMMA ShiftedByNone ==
  ASSUME NEW p \in Seq(Routes)
  PROVE  Shifted(p, 0) = p /\ RoutesOf(p, 0) = Range(p)
<1>1. ASSUME NEW i \in DOMAIN p
      PROVE  [at |-> p[i].at + 0, size |-> p[i].size] = p[i]
  <2>1. p[i] \in Routes
    OBVIOUS
  <2>2. p[i].at + 0 = p[i].at /\ p[i] = [at |-> p[i].at, size |-> p[i].size]
    BY <2>1 DEF Routes
  <2> QED
    BY <2>2
<1>2. /\ Shifted(p, 0) \in Seq(Routes) /\ DOMAIN Shifted(p, 0) = DOMAIN p
      /\ \A i \in DOMAIN p : Shifted(p, 0)[i] = p[i]
  <2>1. 0 \in Int
    OBVIOUS
  <2>2. /\ Shifted(p, 0) \in Seq(Routes) /\ DOMAIN Shifted(p, 0) = DOMAIN p
        /\ \A i \in DOMAIN p : Shifted(p, 0)[i] = [at |-> p[i].at + 0, size |-> p[i].size]
    BY <2>1, ShiftedIs
  <2> QED
    BY <1>1, <2>2
<1>3. Shifted(p, 0) = p
  <2> DEFINE q == Shifted(p, 0)
  <2>1. q = [i \in DOMAIN p |-> q[i]]
    BY DEF Shifted
  <2>2. p = [i \in DOMAIN p |-> p[i]]
    OBVIOUS
  <2> HIDE DEF q
  <2> QED
    BY <1>2, <2>1, <2>2 DEF q
<1>4. RoutesOf(p, 0) = Range(p)
  BY <1>1 DEF RoutesOf, Range
<1> QED
  BY <1>3, <1>4

LEMMA FeedKeeps ==
  ASSUME SessionInv, Feed
  PROVE  SessionInv'
<1>1. PICK n \in 1..(Len(wire) - got) : FeedBytes(got + n)
  BY DEF Feed
<1> DEFINE to == got + n
           kind == KindAfter(to)
<1>2. /\ wire \in Seq(Nat) /\ Len(wire) \in Nat /\ got \in Nat /\ begin \in Nat /\ begin <= got
      /\ got <= to /\ to <= Len(wire) /\ to \in Nat /\ to \in 0..Len(wire) /\ begin <= to
  <2>1. wire \in Seq(Nat) /\ got \in 0..Len(wire) /\ begin \in 0..got
    BY DEF SessionInv, SessionTyped
  <2> QED
    BY <2>1
<1>3. Feeds(to, kind)
  BY <1>1 DEF FeedBytes
<1>4. kind \in SelectedKinds /\ (selected # "auto" => kind = selected)
  BY KindSelected DEF SessionInv
<1> HIDE DEF to, kind
<1>5. got' = to /\ selected' = kind /\ wire' = wire /\ config' = config
  BY <1>3 DEF Feeds
<1>6. ASSUME begin' \in 0..to PROVE SessionTyped'
  BY <1>2, <1>4, <1>5, <1>6 DEF SessionInv, SessionTyped
<1>7. CASE selected # "auto"
  <2> DEFINE r == RunSession(kind, Segment(wire, done, to))
  <2>1. kind = selected /\ kind # "auto" /\ kind \in Children
    BY <1>4, <1>7, ChildKinds
  <2>2. FeedChild(kind, done, to) /\ begin' = begin
    BY <1>3, <1>7, <2>1 DEF Feeds
  <2>3. done' = done + r.done /\ delivered' = delivered \o Shifted(r.records, done)
    BY <2>2 DEF FeedChild, Takes, Bytes, Segment
  <2>4. Child(kind, wire, begin, got, done, delivered)
    BY <1>7, <2>1 DEF SessionInv, SessionHas
  <2>5. Child(kind, wire, begin, to, done + r.done, delivered \o Shifted(r.records, done))
    BY <1>2, <2>1, <2>4, ChildGoesOn
  <2> HIDE DEF r
  <2>6. Child(kind, wire, begin, to, done', delivered')
    BY <2>3, <2>5
  <2>7. SessionHas'
    BY <1>5, <2>1, <2>2, <2>6 DEF SessionHas
  <2>8. begin' \in 0..to
    BY <1>2, <2>2
  <2> QED
    BY <1>6, <2>7, <2>8 DEF SessionInv
<1>8. CASE selected = "auto" /\ kind # "auto"
  <2> DEFINE a == Replayed(kind, begin, to)
  <2>1. kind \in Children
    BY <1>4, <1>8, ChildKinds
  <2>2. Replay(kind, begin, to) /\ begin' = begin
    BY <1>3, <1>8 DEF Feeds
  <2>3. done' = 0 + a.done /\ delivered' = delivered \o Shifted(a.records, 0)
    BY <2>2 DEF Replay, Takes, Replayed
  <2>4. a \in ReplayStates(wire) /\ Child(kind, wire, begin, to, a.done, a.records)
    BY <1>2, <2>1, ReplayDoes
  <2> HIDE DEF a
  <2>5. a.done \in Nat /\ a.records \in Seq(Routes)
    BY <2>4 DEF ReplayStates
  <2>6. delivered = <<>>
    BY <1>8 DEF SessionInv, SessionHas
  <2>7. done' = a.done
    BY <2>3, <2>5
  <2>8. delivered' = a.records
    <3>1. Shifted(a.records, 0) = a.records
      BY <2>5, ShiftedByNone
    <3>2. <<>> \o a.records = a.records
      BY <2>5
    <3> QED
      BY <2>3, <2>6, <3>1, <3>2
  <2>9. SessionHas'
    BY <1>5, <1>8, <2>2, <2>4, <2>7, <2>8 DEF SessionHas
  <2>10. begin' \in 0..to
    BY <1>2, <2>2
  <2> QED
    BY <1>6, <2>9, <2>10 DEF SessionInv
<1>9. CASE selected = "auto" /\ kind = "auto"
  <2> DEFINE cut == to - MaxPending
  <2>1. begin' = Max({begin, cut}) /\ done' = begin' /\ delivered' = delivered
    BY <1>3, <1>9 DEF Feeds
  <2>2. cut \in Int /\ cut <= to /\ begin \in Int
    BY <1>2, SessionAssumption
  <2> HIDE DEF cut
  <2>3. begin' = IF begin >= cut THEN begin ELSE cut
    BY <2>1, <2>2, MaxOfTwo
  <2>4. begin' \in 0..to
    BY <1>2, <2>2, <2>3
  <2>5. delivered = <<>>
    BY <1>9 DEF SessionInv, SessionHas
  <2>6. SessionHas'
    BY <1>5, <1>9, <2>1, <2>5 DEF SessionHas
  <2> QED
    BY <1>6, <2>4, <2>6 DEF SessionInv
<1> QED
  BY <1>7, <1>8, <1>9

LEMMA FinalizeKeeps ==
  ASSUME SessionInv, Finalize
  PROVE  SessionInv'
<1> DEFINE kind == KindAfter(got)
           r == RunSession(kind, Segment(wire, begin, got))
<1>1. /\ wire \in Seq(Nat) /\ Len(wire) \in Nat /\ got \in Nat /\ begin \in Nat /\ begin <= got
      /\ got <= Len(wire)
  <2>1. wire \in Seq(Nat) /\ got \in 0..Len(wire) /\ begin \in 0..got
    BY DEF SessionInv, SessionTyped
  <2> QED
    BY <2>1
<1>2. FinalizeAs(kind)
  BY DEF Finalize
<1>3. kind \in SelectedKinds /\ (selected # "auto" => kind = selected)
  BY KindSelected DEF SessionInv
<1>4. /\ selected' = kind /\ begin' = got /\ done' = got
      /\ config' = config /\ wire' = wire /\ got' = got
      /\ delivered' = IF kind = "auto" \/ selected # "auto" THEN delivered
                      ELSE delivered \o Shifted(r.records, begin)
  <2> HIDE DEF kind
  <2> QED
    BY <1>2 DEF FinalizeAs, Bytes, Segment
<1> HIDE DEF kind, r
<1>5. SessionTyped'
  <2>1. begin' \in 0..got' /\ got' \in 0..Len(wire')
    BY <1>1, <1>4
  <2> QED
    BY <1>3, <1>4, <2>1 DEF SessionInv, SessionTyped
<1>6. ASSUME kind # "auto", delivered' \in Seq(Routes), kind # "ublox" => Tidy(delivered', 0, got)
      PROVE  SessionHas'
  <2> DEFINE p == delivered'
  <2>1. p \in Seq(Routes) /\ (kind # "ublox" => Tidy(p, 0, got))
    BY <1>6
  <2> HIDE DEF p
  <2>2. Child(kind, wire, got, got, got, p)
    BY <1>1, <2>1, ChildStarts
  <2>3. Child(kind, wire, got, got, got, delivered')
    BY <2>2 DEF p
  <2> QED
    BY <1>4, <1>6, <2>3 DEF SessionHas
<1>7. ASSUME NEW d, NEW m, NEW p, m \in Nat, m <= got, Child(kind, wire, begin, m, d, p)
      PROVE  p \in Seq(Routes) /\ (kind # "ublox" => Tidy(p, 0, got))
  <2>1. p \in Seq(Routes) /\ d \in begin..m /\ (kind # "ublox" => Tidy(p, 0, d))
    BY <1>7 DEF Child
  <2>2. d \in Int /\ d <= got /\ got \in Int /\ 0 \in Int
    BY <1>1, <1>7, <2>1
  <2> QED
    BY <2>1, <2>2, TidyWider
<1>8. CASE kind = "auto"
  <2>1. selected = "auto"
    BY <1>3, <1>8
  <2>2. delivered = <<>>
    BY <2>1 DEF SessionInv, SessionHas
  <2> QED
    BY <1>4, <1>5, <1>8, <2>2 DEF SessionInv, SessionHas
<1>9. CASE selected # "auto"
  <2>1. kind = selected /\ kind # "auto" /\ delivered' = delivered
    BY <1>3, <1>4, <1>9
  <2>2. Child(kind, wire, begin, got, done, delivered)
    BY <1>9, <2>1 DEF SessionInv, SessionHas
  <2>3. got <= got
    BY <1>1
  <2>4. delivered \in Seq(Routes) /\ (kind # "ublox" => Tidy(delivered, 0, got))
    BY <1>1, <1>7, <2>2, <2>3
  <2>5. SessionHas'
    BY <1>6, <2>1, <2>4
  <2> QED
    BY <1>5, <2>5 DEF SessionInv
<1>10. CASE selected = "auto" /\ kind # "auto"
  <2> DEFINE p == <<>> \o Shifted(r.records, begin)
  <2>1. delivered = <<>>
    BY <1>10 DEF SessionInv, SessionHas
  <2>2. delivered' = p
    BY <1>4, <1>10, <2>1
  <2>3. kind \in Children
    BY <1>3, <1>10, ChildKinds
  <2>4. Child(kind, wire, begin, begin, begin, <<>>)
    BY <1>1, NoneRouted, ChildStarts
  <2>5. Child(kind, wire, begin, got, begin + r.done, p)
    <3>1. r = RunSession(kind, Segment(wire, begin, got))
      BY DEF r
    <3> QED
      BY <1>1, <2>3, <2>4, <3>1, ChildGoesOn
  <2> HIDE DEF p
  <2>6. got <= got
    BY <1>1
  <2>7. p \in Seq(Routes) /\ (kind # "ublox" => Tidy(p, 0, got))
    BY <1>1, <1>7, <2>5, <2>6
  <2>8. SessionHas'
    BY <1>6, <1>10, <2>2, <2>7
  <2> QED
    BY <1>5, <2>8 DEF SessionInv
<1> QED
  BY <1>8, <1>9, <1>10

LEMMA ResetKeeps ==
  ASSUME SessionInv, Reset
  PROVE  SessionInv'
<1>1. wire \in Seq(Nat) /\ got \in Nat /\ got \in 0..Len(wire)
  <2>1. wire \in Seq(Nat) /\ got \in 0..Len(wire)
    BY DEF SessionInv, SessionTyped
  <2> QED
    BY <2>1
<1>2. /\ selected' = config /\ begin' = got /\ done' = got /\ delivered' = <<>>
      /\ config' = config /\ wire' = wire /\ got' = got
  BY DEF Reset
<1>3. SessionTyped'
  <2>1. begin' \in 0..got'
    BY <1>1, <1>2
  <2> QED
    BY <1>1, <1>2, <2>1 DEF SessionInv, SessionTyped
<1>4. SessionHas'
  <2>1. Child(config, wire, got, got, got, <<>>)
    BY <1>1, NoneRouted, ChildStarts
  <2> QED
    BY <1>2, <2>1 DEF SessionHas
<1> QED
  BY <1>3, <1>4 DEF SessionInv

LEMMA SessionStarts ==
  ASSUME SessionInit
  PROVE  SessionInv
<1>1. config \in SelectedKinds /\ wire \in Seq(Nat)
  BY SessionAssumption DEF SessionInit, SelectedKinds
<1>2. SessionTyped
  <2>1. got = 0 /\ begin = 0 /\ selected = config
    BY DEF SessionInit
  <2>2. Len(wire) \in Nat
    BY <1>1
  <2>3. got \in 0..Len(wire) /\ begin \in 0..got
    BY <2>1, <2>2
  <2> QED
    BY <1>1, <2>1, <2>3 DEF SessionTyped
<1>3. SessionHas
  <2>1. Child(selected, wire, 0, 0, 0, <<>>)
    BY <1>1, NoneRouted, ChildStarts
  <2> QED
    BY <2>1 DEF SessionHas, SessionInit
<1> QED
  BY <1>2, <1>3 DEF SessionInv

LEMMA SessionRoutes ==
  ASSUME SessionInv
  PROVE  RoutedOnce
<1>1. /\ wire \in Seq(Nat) /\ got \in Nat /\ begin \in Nat /\ begin <= got /\ got <= Len(wire)
      /\ selected \in SelectedKinds
  <2>1. wire \in Seq(Nat) /\ got \in 0..Len(wire) /\ begin \in 0..got /\ selected \in SelectedKinds
    BY DEF SessionInv, SessionTyped
  <2> QED
    BY <2>1
<1>2. RecordedOnce
  <2> SUFFICES ASSUME selected \in {"unicore", "nmea"} PROVE Disjoint(delivered)
    BY DEF RecordedOnce
  <2>1. selected # "auto" /\ selected # "ublox"
    OBVIOUS
  <2>2. Tidy(delivered, 0, done)
    BY <2>1 DEF SessionInv, SessionHas, Child
  <2> QED
    BY <2>2 DEF Tidy
<1>3. UndisturbedRouted
  <2> SUFFICES ASSUME selected # "auto",
                      NEW o \in Undisturbed(selected, wire, begin + 1, got),
                      NEW n \in ValidAt(selected, wire, o), o + n - 1 <= got
               PROVE  [at |-> o - 1, size |-> n] \in Range(delivered)
    BY DEF UndisturbedRouted
  <2>1. Child(selected, wire, begin, got, done, delivered)
    BY DEF SessionInv, SessionHas
  <2>2. /\ done \in begin..got /\ delivered \in Seq(Routes)
        /\ AllIn(selected, wire, begin, begin, done, RoutesOf(delivered, 0))
        /\ NoneFollows(selected, wire, begin, done, got)
    BY <2>1 DEF Child, Handled
  <2>3. o \in Clean(selected, wire, begin)
    BY <1>1, UndisturbedIsClean
  <2>4. o \in Nat /\ o > begin
    BY <1>1, <2>3, CleanIsOffset
  <2>5. n \in Nat
    BY <1>1, <2>4, RecordEnds
  <2>6. o <= done
    <3> SUFFICES ASSUME ~(o <= done) PROVE FALSE
      OBVIOUS
    <3>1. o > done
      BY <1>1, <2>2, <2>4
    <3>2. o + n - 1 > got
      BY <2>2, <2>3, <3>1 DEF NoneFollows
    <3> QED
      BY <1>1, <2>4, <2>5, <3>2
  <2>7. [at |-> o - 1, size |-> n] \in RoutesOf(delivered, 0)
    BY <2>2, <2>3, <2>4, <2>6 DEF AllIn
  <2> QED
    BY <2>2, <2>7, ShiftedByNone
<1> QED
  BY <1>2, <1>3 DEF RoutedOnce

\* However the reads cut the stream, and whenever the protocol was recognised:
\* a valid record that begins where nothing damaged or truncated reaches is
\* routed as soon as its last byte was read, and a Unicore or NMEA session
\* routes no byte as part of two records (UbxSession, UnicoreSession and
\* NmeaSession::FeedBytes under ReceiverSession::FeedBytes, Finalize and Reset).
THEOREM RecordsRoutedOnce == SessionSpec => []RoutedOnce
<1>1. SessionInit => SessionInv
  BY SessionStarts
<1>2. SessionInv /\ [SessionNext]_sessionVars => SessionInv'
  <2> SUFFICES ASSUME SessionInv, [SessionNext]_sessionVars PROVE SessionInv'
    OBVIOUS
  <2>1. CASE Feed
    BY <2>1, FeedKeeps
  <2>2. CASE Finalize
    BY <2>2, FinalizeKeeps
  <2>3. CASE Reset
    BY <2>3, ResetKeeps
  <2>4. CASE UNCHANGED sessionVars
    BY <2>4 DEF sessionVars, SessionInv, SessionTyped, SessionHas
  <2> QED
    BY <2>1, <2>2, <2>3, <2>4 DEF SessionNext
<1>3. SessionInv => RoutedOnce
  BY SessionRoutes
<1> QED
  BY <1>1, <1>2, <1>3, PTL DEF SessionSpec
====
