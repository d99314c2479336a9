--------------------------- MODULE MCProcessQueue ---------------------------
(***************************************************************************)
(* Values for the constants of ProcessQueue that a cfg cannot write.       *)
(***************************************************************************)
EXTENDS ProcessQueue, TLC

CONSTANTS i1, i2, i3, i4, p1, p2

\* Each process puts two objects.
ProducerOf == (i1 :> p1) @@ (i2 :> p1) @@ (i3 :> p2) @@ (i4 :> p2)

=============================================================================
