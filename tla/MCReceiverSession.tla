-------------------------- MODULE MCReceiverSession --------------------------
(* What a receiver sends: up to two records, damaged records, beginnings of *)
(* records or noise; two damaged records and a valid one; a line that never *)
(* ends, sync bytes, and a record or its beginning.                         *)
EXTENDS ReceiverSession

MCSegments ==
  { <<UbxSync1, UbxSync2, 0, 0>>, <<UbxSync1, UbxSync2, 2, Dollar, 0, 1>>,
    <<UbxSync1, UbxSync2, 5, 0>>, <<UbxSync1>>,
    <<Dollar, 1, Star, 1, NL>>, <<Dollar, 1, 1, 1, 1, 1>>, <<Dollar, 1, Star, 0, NL>>,
    <<Hash, 1, Star, 1, NL>>, <<Hash, 1>>, <<Hash, 1, NL>>,
    <<N4Sync1, N4Sync2, N4Sync3, 0, 0>>, <<N4Sync1, N4Sync2, N4Sync3, 6, 0, 1>>,
    <<RtcmPreamble, 0, 0>>, <<RtcmPreamble, 4>>, <<0>> }

\* Damaged records, and records that may follow two of them.
MCDamaged ==
  { <<UbxSync1, UbxSync2, 5, 0>>, <<Dollar, 1, 1, 1, 1, 1>>, <<Hash, 1>>,
    <<N4Sync1, N4Sync2, N4Sync3, 6, 0, 1>>, <<RtcmPreamble, 4>> }
MCRecords ==
  { <<UbxSync1, UbxSync2, 0, 0>>, <<Dollar, 1, Star, 1, NL>>, <<N4Sync1, N4Sync2, N4Sync3, 0, 0>> }

\* Longer than MaxLine, and what may follow.
MCEndless == {<<lead, 1, 1, 1, 1, 1, 1, 1, 1>> : lead \in {Dollar, Hash}}
MCFollowing ==
  MCRecords \cup { <<N4Sync1, N4Sync2, N4Sync3, 6>>, <<Hash, 1, Star, 1, NL>>, <<>> }

\* A frame that a line takes apart, with what looks like another in it, and a
\* frame that this one reaches.
MCTaken ==
  <<Dollar, 1, UbxSync1, UbxSync2, 6, NL, UbxSync1, UbxSync2, 4, 0, 0, 1,
    UbxSync1, UbxSync2, 0, 0>>

MCWires ==
  {FlattenSeq(s) : s \in BoundedSeq(MCSegments, 2)}
    \cup {a \o b \o r : a \in MCDamaged, b \in MCDamaged, r \in MCRecords}
    \cup {a \o b \o r : a \in MCEndless, b \in {<<>>, <<N4Sync1>>, <<N4Sync1, N4Sync2>>},
                       r \in MCFollowing}
    \cup {MCTaken}
=============================================================================
