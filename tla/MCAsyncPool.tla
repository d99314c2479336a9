---------------------------- MODULE MCAsyncPool -----------------------------
(***************************************************************************)
(* Values for the constants of AsyncPool that a cfg cannot write.          *)
(***************************************************************************)
EXTENDS AsyncPool

Unlimited == -1          \* a negative limit

Symmetry == Permutations(Tasks)

=============================================================================
