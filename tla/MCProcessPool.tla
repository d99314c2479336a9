--------------------------- MODULE MCProcessPool ----------------------------
(***************************************************************************)
(* Values for the constants of ProcessPool that a cfg cannot write.        *)
(***************************************************************************)
EXTENDS ProcessPoolInv

Unlimited == -1          \* a negative limit

=============================================================================
