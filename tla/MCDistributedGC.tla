-------------------------- MODULE MCDistributedGC --------------------------
(***************************************************************************)
(* Two hosts with a user each.  Host a makes the object of App; either     *)
(* host may be the one that starts collections.                            *)
(***************************************************************************)
EXTENDS DistributedGC

CONSTANTS a, b, l1, l2, m1, ua, ub, x, gc

MCHome == [t \in Thread |-> IF t \in {l1, l2, ua} THEN a ELSE b]
MCOrigins == {f \in [Object -> Host] : \A o \in App : f[o] = a}
=============================================================================
