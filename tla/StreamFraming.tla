---------------------------- MODULE StreamFraming ----------------------------
(***************************************************************************)
(* How a stream of bytes is cut into records: the framers of               *)
(* gnss_protocols and the loops with which UbloxSession, UnicoreSession    *)
(* and NmeaSession drive them.  Everything here is an operator on finite   *)
(* sequences of bytes.                                                     *)
(*                                                                         *)
(* A byte is a number.  Header fields other than the length are left out   *)
(* and the length takes one byte; the checksum of a frame or a line is the *)
(* parity of what it covers, one byte.  What the framers do with sync      *)
(* bytes, lengths, limits, line ends and failed checksums is kept.  Of the *)
(* leaders of a line '!' behaves as '$', and '%' as a '#' line without     *)
(* checksum, so neither has a byte of its own.                             *)
(***************************************************************************)
EXTENDS Integers, Sequences, SequencesExt, FiniteSetsExt

CONSTANTS
  MaxFrame,        \* longest binary frame a framer accepts
  MaxLine          \* longest line a framer accepts

\* A frame may be longer than the bytes it begins with, and a line has a leader.
ASSUME FramingAssumption == MaxFrame \in Nat /\ MaxLine \in Nat /\ MaxFrame > 3 /\ MaxLine > 0

\* Bytes with a meaning; 0 to 9 are data, letters and digits of a name too.
NL == 10
Dollar == 11
Hash == 12
Star == 13
UbxSync1 == 21
UbxSync2 == 22
RtcmPreamble == 31
N4Sync1 == 41
N4Sync2 == 42
N4Sync3 == 43
Data == 0..9

Parity(s) == FoldLeft(+, 0, s) % 2

-----------------------------------------------------------------------------
(* The framers.                                                            *)

Ubx == [protocol |-> "ubx", sync |-> <<UbxSync1, UbxSync2>>]
Rtcm == [protocol |-> "rtcm", sync |-> <<RtcmPreamble>>]
N4 == [protocol |-> "n4", sync |-> <<N4Sync1, N4Sync2, N4Sync3>>]
Nmea == [protocol |-> "nmea", leads |-> {Dollar}]
UnicoreAscii == [protocol |-> "ascii", leads |-> {Dollar, Hash}]

IsBinary(f) == f \in {Ubx, Rtcm, N4}
HeaderSize(f) == Len(f.sync) + 1

\* The size a frame at offset o of s announces.
FrameSize(f, s, o) == HeaderSize(f) + s[o + Len(f.sync)] + 1

\* The frame of n bytes at offset o carries the checksum of its content.
ChecksumOk(f, s, o, n) == s[o + n - 1] = Parity(SubSeq(s, o + Len(f.sync), o + n - 2))

\* RTCM's length is announced in bits of which six must be zero.
LengthPlausible(f, b) == f = Rtcm => b \in Data

\* The valid frames a failed candidate contains, by their offsets in it.
EmbeddedFrames(f, s) ==
  {o \in 2..(Len(s) - HeaderSize(f)) :
     /\ SubSeq(s, o, o + Len(f.sync) - 1) = f.sync
     /\ LengthPlausible(f, s[o + Len(f.sync)])
     /\ LET n == FrameSize(f, s, o)
        IN  n <= MaxFrame /\ n <= Len(s) - o + 1 /\ ChecksumOk(f, s, o, n)}

\* A line is valid, invalid or without checksum; only '#' lines of the
\* Unicore framer carry one.
LineStatus(f, s) ==
  LET star == IF f = Nmea THEN SelectInSeq(s, LAMBDA b : b = Star)
                          ELSE SelectLastInSeq(s, LAMBDA b : b = Star)
  IN  IF f = UnicoreAscii /\ s[1] # Hash THEN "missing"
      ELSE IF star = 0 THEN "missing"
      ELSE IF star + 2 = Len(s) /\ s[star + 1] = Parity(SubSeq(s, 2, star - 1)) THEN "valid"
      ELSE "invalid"

\* A framer between two bytes: its buffer, the verdict on the last byte, the
\* bytes taken so far and, when the verdict is "ready", the record, as the
\* offset of its first byte, its size and its checksum.
NoRecord == [at |-> 0, size |-> 0, check |-> "none"]
Started == [buffer |-> <<>>, status |-> "more", used |-> 0, record |-> NoRecord]

Verdict(r, buffer, status) ==
  [buffer |-> buffer, status |-> status, used |-> r.used + 1, record |-> NoRecord]

Ready(r, size, at, check) ==
  [buffer |-> <<>>, status |-> "ready", used |-> r.used + 1,
   record |-> [at |-> at, size |-> size, check |-> check]]

\* A complete candidate that failed: the first valid frame inside it, if any.
Recovered(f, r, s, inside) ==
  IF inside # {}
    THEN Ready(r, FrameSize(f, s, Min(inside)), r.used - Len(s) + Min(inside), "valid")
  ELSE IF f = N4 THEN Verdict(r, <<>>, "invalid")
  ELSE Ready(r, Len(s), r.used + 1 - Len(s), "invalid")

\* A complete candidate.
Complete(f, r, s) ==
  IF ChecksumOk(f, s, 1, Len(s)) THEN Ready(r, Len(s), r.used + 1 - Len(s), "valid")
  ELSE Recovered(f, r, s, EmbeddedFrames(f, s))

\* One byte into UbxFrameFramer, RtcmFrameFramer or UnicoreBinaryFrameFramer.
PushBinary(f, r, b) ==
  LET s == Append(r.buffer, b)
      k == Len(f.sync)
  IN  IF r.buffer = <<>> /\ b # f.sync[1] THEN Verdict(r, <<>>, "skipped")
      ELSE IF Len(s) <= k /\ b # f.sync[Len(s)]
        THEN IF b = f.sync[1] THEN Verdict(r, <<b>>, "more") ELSE Verdict(r, <<>>, "skipped")
      ELSE IF Len(s) = k + 1 /\ ~LengthPlausible(f, b)
        THEN IF b = f.sync[1] THEN Verdict(r, <<b>>, "more") ELSE Verdict(r, <<>>, "invalid")
      ELSE IF Len(s) <= k THEN Verdict(r, s, "more")
      ELSE IF FrameSize(f, s, 1) > MaxFrame THEN Verdict(r, <<>>, "overflow")
      ELSE IF Len(s) < FrameSize(f, s, 1) THEN Verdict(r, s, "more")
      ELSE Complete(f, r, s)

\* One byte into NmeaSentenceFramer or UnicoreFrameFramer: only the first
\* starts again at a leader inside a line.
PushLine(f, r, b) ==
  LET s == Append(r.buffer, b)
  IN  IF r.buffer = <<>>
        THEN IF b \in f.leads THEN Verdict(r, s, "more") ELSE Verdict(r, <<>>, "skipped")
      ELSE IF f = Nmea /\ b \in f.leads THEN Verdict(r, <<b>>, "more")
      ELSE IF Len(s) > MaxLine THEN Verdict(r, <<>>, "overflow")
      ELSE IF b # NL THEN Verdict(r, s, "more")
      ELSE Ready(r, Len(s), r.used + 1 - Len(s), LineStatus(f, s))

\* PushByte of the five framers.
PushUbx(r, b) == PushBinary(Ubx, r, b)
PushRtcm(r, b) == PushBinary(Rtcm, r, b)
PushN4(r, b) == PushBinary(N4, r, b)
PushNmea(r, b) == PushLine(Nmea, r, b)
PushUnicoreAscii(r, b) == PushLine(UnicoreAscii, r, b)

PushByte(f, r, b) ==
  CASE f = Ubx -> PushUbx(r, b)
    [] f = Rtcm -> PushRtcm(r, b)
    [] f = N4 -> PushN4(r, b)
    [] f = Nmea -> PushNmea(r, b)
    [] OTHER -> PushUnicoreAscii(r, b)

-----------------------------------------------------------------------------
(* The session loops.                                                      *)

\* ProbeAtOffset: a fresh framer on s until it says anything but "more".
Probe(f, s) ==
  FoldLeft(LAMBDA r, b : IF r.status = "more" THEN PushByte(f, r, b) ELSE r, Started, s)

\* The first byte chooses the framer; none for any other byte.
FramerFor(kind, b) ==
  CASE kind = "ublox" /\ b = Dollar -> {Nmea}
    [] kind = "ublox" /\ b = UbxSync1 -> {Ubx}
    [] kind = "ublox" /\ b = RtcmPreamble -> {Rtcm}
    [] kind = "unicore" /\ b = Dollar -> {Nmea}
    [] kind = "unicore" /\ b = Hash -> {UnicoreAscii}
    [] kind = "unicore" /\ b = N4Sync1 -> {N4}
    [] OTHER -> {}

\* A text record seems to start at offset o: a leader, a name, a separator.
TextRecordStarts(s, o) ==
  /\ s[o] \in {Dollar, Hash}
  /\ \E e \in (o + 1)..Len(s) : s[e] = Star /\ \A i \in (o + 1)..(e - 1) : s[i] \in Data

\* FindEmbeddedMixedRecordResyncOffset: where another record starts before
\* the line at the head of s ends.
ResyncOffsets(s) ==
  {o \in 2..Len(s) :
     /\ \A i \in 2..o : s[i] # NL
     /\ IsPrefix(N4.sync, SubSeq(s, o, Len(s))) \/ TextRecordStarts(s, o)}

\* What a session does at the head of s: how far it goes on, whether it
\* waits for more, and the record it routes, if any.
NoRoute == [next |-> 1, keep |-> FALSE, routed |-> NoRecord]

\* Mutant: every session goes on by the size of the record.
AfterProbeBySize(kind, s, p) ==
  IF p.status = "ready"
    THEN [next |-> p.record.size, keep |-> FALSE,
          routed |-> IF p.record.check = "valid" THEN p.record ELSE NoRecord]
  ELSE IF p.status = "more" THEN [NoRoute EXCEPT !.next = 0, !.keep = TRUE]
  ELSE NoRoute

AfterProbe(kind, s, p) ==
  IF p.status = "ready"
    THEN [next |-> IF kind = "ublox" THEN p.record.size ELSE p.used, keep |-> FALSE,
          routed |-> IF p.record.check = "valid" THEN p.record ELSE NoRecord]
  ELSE IF p.status = "more" THEN [NoRoute EXCEPT !.next = 0, !.keep = TRUE]
  ELSE NoRoute

Consume(kind, s) ==
  LET framers == FramerFor(kind, s[1])
  IN  IF framers = {} THEN NoRoute
      ELSE LET f == CHOOSE g \in framers : TRUE
           IN  IF kind = "unicore" /\ ~IsBinary(f) /\ ResyncOffsets(s) # {}
                 THEN [NoRoute EXCEPT !.next = Min(ResyncOffsets(s)) - 1]
               ELSE AfterProbe(kind, s, Probe(f, s))

\* The record routed at offset d of the buffer, if any, placed in the buffer.
Placed(c, d) ==
  IF c.routed = NoRecord THEN <<>> ELSE <<[at |-> d + c.routed.at, size |-> c.routed.size]>>

\* ProcessBufferedData: from the head of the buffer to its end, or to the
\* record that is not complete.
Process(kind, s) ==
  LET run[d \in 0..Len(s)] ==
        IF d = Len(s) THEN [done |-> d, records |-> <<>>]
        ELSE LET c == Consume(kind, SubSeq(s, d + 1, Len(s)))
                 rest == run[d + c.next]
             IN  IF c.keep THEN [done |-> d, records |-> <<>>]
                 ELSE [done |-> rest.done, records |-> Placed(c, d) \o rest.records]
  IN  run[0]

\* NmeaSession keeps one framer for the whole stream instead of a buffer.
NmeaStep(a, p) ==
  [framer |-> [p EXCEPT !.record = NoRecord],
   records |-> IF p.record.check = "valid"
                 THEN Append(a.records, [at |-> p.record.at, size |-> p.record.size])
                 ELSE a.records]

ProcessNmea(s) ==
  LET all == FoldLeft(LAMBDA a, b : NmeaStep(a, PushNmea(a.framer, b)),
                      [framer |-> Started, records |-> <<>>], s)
  IN  [done |-> Len(s) - Len(all.framer.buffer), records |-> all.records]

\* The child session of this kind, given its buffer and the bytes after it.
RunSession(kind, s) ==
  IF kind = "nmea" THEN ProcessNmea(s) ELSE Process(kind, s)

-----------------------------------------------------------------------------
(* Detection.                                                              *)

\* What a record must be to count.
IsValid(record, raw) == record.check = "valid"
IsNmeaEvidence(record, raw) == record.check # "invalid" /\ raw[2] \in Data
IsVerifiedAscii(record, raw) == record.check = "valid" /\ raw[1] = Hash
IsSupportedAscii(record, raw) == raw[1] # Dollar /\ raw[2] \in Data

\* The position at which a framer that runs over all of s, good records or
\* not, first returns one that is accepted; none: 0.
AcceptedAt(s, r, Accept(_, _)) ==
  IF /\ r.status = "ready"
     /\ Accept(r.record, SubSeq(s, r.record.at + 1, r.record.at + r.record.size))
    THEN r.used ELSE 0

FirstAccepted(f, s, Accept(_, _)) ==
  LET after(r) == [r |-> r, found |-> AcceptedAt(s, r, Accept)]
      step(a, b) == IF a.found > 0 THEN a ELSE after(PushByte(f, a.r, b))
  IN  FoldLeft(step, [r |-> Started, found |-> 0], s).found

\* StreamDetector::Detect: the protocol whose first record ends first; at a
\* tie the framer that is asked first.
Candidates(s) ==
  << [protocol |-> "nmea", at |-> FirstAccepted(Nmea, s, IsNmeaEvidence)],
     [protocol |-> "ubx", at |-> FirstAccepted(Ubx, s, IsValid)],
     [protocol |-> "rtcm", at |-> FirstAccepted(Rtcm, s, IsValid)],
     [protocol |-> "ascii", at |-> FirstAccepted(UnicoreAscii, s, IsVerifiedAscii)],
     [protocol |-> "n4", at |-> FirstAccepted(N4, s, IsValid)] >>

Detect(s) ==
  LET earlier(best, c) == IF c.at > 0 /\ (best.at = 0 \/ c.at < best.at) THEN c ELSE best
  IN  FoldLeft(earlier, [protocol |-> "unknown", at |-> 0], Candidates(s)).protocol
=============================================================================
