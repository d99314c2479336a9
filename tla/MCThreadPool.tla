---------------------------- MODULE MCThreadPool ----------------------------
(***************************************************************************)
(* Values for the constants of ThreadPool that a cfg cannot write.         *)
(***************************************************************************)
EXTENDS ThreadPoolInv, TLC

Unlimited == -1          \* a negative limit

Symmetry == Permutations(Tasks)

=============================================================================
