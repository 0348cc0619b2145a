---------------------------- MODULE MCNtripNode -----------------------------
(* One caster.  Three receiver nodes publish: the present incarnation, a   *)
(* legacy one that names no source, and a retired incarnation, of which    *)
(* delayed messages arrive.  The node expects the present one, or any.     *)
EXTENDS NtripNode

CONSTANTS caster, live, retired, old
MCSources == {caster}
MCIncomplete == {}
MCPublishers == {live, old, retired}
MCLegacy == {old}
MCRetired == {retired}
MCSettings == {{live}, MCPublishers}
MCNoSettings == {{}}
==============================================================================
