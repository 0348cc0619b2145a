---------------------------- MODULE MCNtripUsers ----------------------------
(* What gnss_ntrip is used for.  A client that any caller uses, with two    *)
(* casters, one of them without a host; the node that uses it for one       *)
(* caster; and the local caster that serves frames to two clients.  A          *)
(* behaviour is about one of them.                                          *)
EXTENDS MCNtripNode, LocalRtcmCaster

CONSTANT nowhere
MCBothSources == {caster, nowhere}
MCNowhere == {nowhere}

VARIABLE user   \* who acts

userVars == <<nodeVars, user, casterVars>>

UserInit ==
  /\ NodeInit /\ CasterInit
  /\ user \in {"caller", "node", "server"}
  /\ user # "caller" => source = caster
  /\ user # "node" => expected = Publishers   \* no setting of theirs

CallerActs ==
  /\ user = "caller"
  /\ ClientNext
  /\ UNCHANGED <<stepVars, statusVars, updates, user, casterVars>>

NodeOnly == user = "node" /\ UNCHANGED <<user, casterVars>>

NodeActs == NodeOnly /\ (NodeStep \/ TimePasses)

StatusArrives == NodeOnly /\ \E p \in Publishers : OnStatusMessage(p)

PublisherUpdates == NodeOnly /\ \E p \in Publishers : Updates(p)

ServerActs ==
  user = "server" /\ CasterNext /\ UNCHANGED <<nodeVars, user>>

UserNext ==
  CallerActs \/ NodeActs \/ StatusArrives \/ PublisherUpdates \/ ServerActs

UserSpec == UserInit /\ [][UserNext]_userVars

\* The node keeps to one publisher for life, one it is configured to accept,
\* and every position it offers is news (GgaIsFresh of NtripNode,
\* docs/ros2.md:262-271).
GgaFromFreshPosition == [][user = "node" => GgaIsFresh]_userVars
==============================================================================
