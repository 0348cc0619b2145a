--------------------------- MODULE DescriptorLease ---------------------------
(***************************************************************************)
(* What a closable duplex transport promises to the threads that share it, *)
(* without saying how: an operation leases live descriptors, and one is    *)
(* retired only when no lease on it is left.  Descriptor numbers are       *)
(* reused by the operating system, so a retired descriptor may come back,  *)
(* as another device.                                                      *)
(***************************************************************************)
CONSTANTS
  Threads,      \* the threads that share the transport
  Descriptors   \* descriptor numbers the operating system hands out

VARIABLES
  live,         \* descriptors open in the operating system
  leases        \* pairs <<thread, descriptor>>: what an operation in progress uses

vars == <<live, leases>>

LeasesOf(t) == {l \in leases : l[1] = t}

Init ==
  /\ live = {}
  /\ leases = {}

Publish ==
  \E ds \in SUBSET (Descriptors \ live) :
    /\ live' = live \cup ds
    /\ UNCHANGED leases

\* An operation takes all it uses at once, and gives it back at once.
Acquire ==
  \E t \in Threads, ds \in SUBSET live :
    /\ LeasesOf(t) = {}
    /\ leases' = leases \cup ({t} \X ds)
    /\ UNCHANGED live

Release ==
  \E t \in Threads :
    /\ leases' = leases \ LeasesOf(t)
    /\ UNCHANGED live

\* The promise: a descriptor goes away only when nobody is using it.
Retire ==
  \E ds \in SUBSET live :
    /\ \A l \in leases : l[2] \notin ds
    /\ live' = live \ ds
    /\ UNCHANGED leases

Next == Publish \/ Acquire \/ Release \/ Retire

Spec == Init /\ [][Next]_vars
==============================================================================
