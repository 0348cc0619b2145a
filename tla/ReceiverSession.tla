--------------------------- MODULE ReceiverSession ---------------------------
(***************************************************************************)
(* ReceiverSession: bytes of an unknown receiver are kept until the        *)
(* protocol is recognised, then given to the child session one by one;     *)
(* later reads go to the child at once.  The buffer of the undecided time  *)
(* is bounded and loses its oldest bytes.                                  *)
(*                                                                         *)
(* `wire` is what the receiver will ever send, `got` how much of it the    *)
(* session was fed.  The buffers of the program are segments of `wire`:    *)
(* pending_auto_detect_bytes_ is what follows `begin`, the child's buffer  *)
(* what follows `done`.                                                    *)
(***************************************************************************)
EXTENDS StreamFraming

CONSTANTS
  Kinds,           \* the configured kinds: "auto", "ublox", "unicore", "nmea"
  AllowNmea,       \* allow_generic_nmea_auto_detect
  MaxPending,      \* max_auto_detect_buffer_bytes
  Wires            \* the byte sequences a receiver may send

ASSUME SessionAssumption ==
  Kinds \subseteq {"auto", "ublox", "unicore", "nmea"} /\ MaxPending \in Nat /\ Wires \subseteq Seq(Nat)

VARIABLES
  config,          \* config_.kind
  wire,            \* what the receiver sends, from power up to silence
  got,             \* bytes fed to the session
  begin,           \* bytes before this one are gone: trimmed, finalized or reset
  selected,        \* metrics_.selected_session_kind, or "auto" when there is none
  done,            \* bytes the child session has taken out of its buffer
  delivered        \* the records the child session routed, in order

sessionVars == <<config, wire, got, begin, selected, done, delivered>>

Bytes(from, to) == SubSeq(wire, from + 1, to)

Shifted(records, by) == [i \in DOMAIN records |-> [records[i] EXCEPT !.at = @ + by]]

SessionInit ==
  /\ config \in Kinds
  /\ wire \in Wires
  /\ got = 0 /\ begin = 0 /\ done = 0
  /\ selected = config
  /\ delivered = <<>>

-----------------------------------------------------------------------------
\* TrySelectSessionFromPendingBytes: the earliest record decides unless it is
\* NMEA or RTCM, which any vendor may send; then a vendor whose framer finds a
\* record alone decides, and generic NMEA only when no vendor's does.
Recognised(earliest, ublox, unicore) ==
  CASE earliest = "ubx" -> "ublox"
    [] earliest \in {"ascii", "n4"} -> "unicore"
    [] OTHER -> IF ublox /\ ~unicore THEN "ublox"
                ELSE IF unicore /\ ~ublox THEN "unicore"
                ELSE IF AllowNmea /\ earliest = "nmea" /\ ~ublox THEN "nmea"
                ELSE "auto"

Selection(s) ==
  IF s = <<>> THEN "auto"
  ELSE Recognised(Detect(s),
                  FirstAccepted(Ubx, s, IsValid) > 0,
                  \/ FirstAccepted(UnicoreAscii, s, IsSupportedAscii) > 0
                  \/ FirstAccepted(N4, s, IsValid) > 0)

\* The kind after more bytes, those after `begin` up to `to`.
KindAfter(to) == IF selected # "auto" THEN selected ELSE Selection(Bytes(begin, to))

\* What a child session made of the bytes after `from`.
Takes(from, r) ==
  /\ done' = from + r.done
  /\ delivered' = delivered \o Shifted(r.records, from)

\* The child session takes the bytes up to `to` after those in its buffer.
FeedChild(kind, from, to) == Takes(from, RunSession(kind, Bytes(from, to)))

\* Mutant: the buffer is trimmed before it is given to the child session.
ReplayTrimmed(kind, from, to) ==
  LET first == Max({from, to - MaxPending})
  IN  Takes(first, RunSession(kind, Bytes(first, to)))

\* RouteBufferedBytesToSelectedSession: byte by byte.
ReplayStep(a, r) ==
  [done |-> a.done + r.done, records |-> a.records \o Shifted(r.records, a.done)]

Replay(kind, from, to) ==
  Takes(0, FoldLeft(LAMBDA a, i : ReplayStep(a, RunSession(kind, Bytes(a.done, i))),
                    [done |-> from, records |-> <<>>],
                    [i \in 1..(to - from) |-> from + i]))

\* FeedBytes: one read, after which the session has `to` bytes.
Feeds(to, kind) ==
  /\ got' = to
  /\ selected' = kind
  /\ UNCHANGED <<config, wire>>
  /\ \/ selected # "auto" /\ FeedChild(kind, done, to) /\ UNCHANGED begin
     \/ selected = "auto" /\ kind # "auto" /\ Replay(kind, begin, to) /\ UNCHANGED begin
     \/ /\ kind = "auto"
        /\ begin' = Max({begin, to - MaxPending})
        /\ done' = begin'
        /\ UNCHANGED delivered

FeedBytes(to) == Feeds(to, KindAfter(to))

Feed == \E n \in 1..(Len(wire) - got) : FeedBytes(got + n)

\* Finalize: a last attempt to select, then what is not a record is dropped.
FinalizeAs(kind) ==
  /\ selected' = kind
  /\ begin' = got /\ done' = got
  /\ delivered' =
       IF kind = "auto" \/ selected # "auto" THEN delivered
       ELSE delivered \o Shifted(RunSession(kind, Bytes(begin, got)).records, begin)
  /\ UNCHANGED <<config, wire, got>>

Finalize == FinalizeAs(KindAfter(got))

\* Reset: as a new session, from the bytes that come next.
Reset ==
  /\ begin' = got /\ done' = got
  /\ selected' = config
  /\ delivered' = <<>>
  /\ UNCHANGED <<config, wire, got>>

SessionNext == Feed \/ Finalize \/ Reset

SessionSpec == SessionInit /\ [][SessionNext]_sessionVars

-----------------------------------------------------------------------------
(* Properties.                                                             *)

Ends(record) == record.at + record.size

\* No byte is part of two records: each record begins where or after the one
\* before it ended.
Disjoint(records) == \A i, j \in DOMAIN records : i < j => Ends(records[i]) <= records[j].at

\* A Unicore or NMEA session routes every record once, whatever corrupt or
\* truncated records precede it, and however the reads cut the stream.
RecordedOnce == selected \in {"unicore", "nmea"} => Disjoint(delivered)

\* The same of a u-blox session; test_protocol_foundation.cpp:412 asks it of
\* the recovery: "must emit the embedded valid frame exactly once".
UbloxRecordedOnce == selected = "ublox" => Disjoint(delivered)

\* However the reads cut the stream, and whenever the protocol was recognised,
\* the child session routed what it routes when it is given the session's
\* bytes in one read, and holds the same rest.  In front of it, it may still
\* hold sync bytes of Unicore that came to nothing: after a line that
\* overflowed their framer starts again on them, whereas a session that has
\* the line and what follows resynchronises past both.
AsIfReadAtOnce ==
  LET r == RunSession(selected, Bytes(begin, got))
  IN  selected # "auto" =>
        /\ SelectSeq(delivered, LAMBDA record : record.at >= begin) = Shifted(r.records, begin)
        /\ done - begin <= r.done
        /\ Range(Bytes(done, begin + r.done)) \subseteq {N4Sync1, N4Sync2}

\* A byte with which a session of this kind begins a record.
Leads(kind, b) == IF kind = "nmea" THEN b = Dollar ELSE FramerFor(kind, b) # {}

LeadFramer(kind, b) == IF kind = "nmea" THEN Nmea ELSE CHOOSE f \in FramerFor(kind, b) : TRUE

\* r is one valid record, and nothing else; the content of a line is text.
IsValidFrame(f, r) ==
  /\ HeaderSize(f) < Len(r) /\ Len(r) <= MaxFrame
  /\ IsPrefix(f.sync, r) /\ LengthPlausible(f, r[HeaderSize(f)])
  /\ FrameSize(f, r, 1) = Len(r) /\ ChecksumOk(f, r, 1, Len(r))

IsValidLine(f, r) ==
  /\ 1 < Len(r) /\ Len(r) <= MaxLine
  /\ \A i \in 2..(Len(r) - 1) : r[i] \in Data \cup {Star}
  /\ r[Len(r)] = NL /\ LineStatus(f, r) = "valid"

IsValidRecord(kind, r) ==
  LET f == LeadFramer(kind, r[1])
  IN  Leads(kind, r[1]) /\ IF IsBinary(f) THEN IsValidFrame(f, r) ELSE IsValidLine(f, r)

\* The sizes (at most one) of a valid record that begins at offset o of z.
ValidAt(kind, z, o) ==
  {n \in 1..(Len(z) - o + 1) : IsValidRecord(kind, SubSeq(z, o, o + n - 1))}

\* What begins at offset i, a record or what looks like one, may reach o.
Reaches(kind, z, i, o) == Leads(kind, z[i]) /\ (o - i <= MaxFrame \/ o - i <= MaxLine)

\* The offset i is within a valid record that begins at j and ends before o.
WithinRecord(kind, z, i, j, o) == \E n \in ValidAt(kind, z, j) : j <= i /\ i < j + n /\ j + n <= o

\* The offsets of the bytes from..to of z that nothing damaged or truncated
\* reaches: what begins before them and may reach them belongs to a valid
\* record that nothing damaged reaches either.
Undisturbed(kind, z, from, to) ==
  LET clear(before, o) ==
        \A i \in from..(o - 1) :
          Reaches(kind, z, i, o) => \E j \in before : WithinRecord(kind, z, i, j, o)
      with(before, o) == IF clear(before, o) THEN before \cup {o} ELSE before
  IN  FoldLeft(with, {}, [i \in 1..(to - from + 1) |-> from + i - 1])

\* A valid record of the session's protocols that begins undisturbed is routed
\* as soon as its last byte was read.
UndisturbedRouted ==
  selected # "auto" =>
    \A o \in Undisturbed(selected, wire, begin + 1, got) :
      \A n \in ValidAt(selected, wire, o) :
        o + n - 1 <= got => [at |-> o - 1, size |-> n] \in Range(delivered)

\* A record that nothing damaged reaches is routed, and, by a Unicore or NMEA
\* session, none twice.
RoutedOnce == UndisturbedRouted /\ RecordedOnce
=============================================================================
