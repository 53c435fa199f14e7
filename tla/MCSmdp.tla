------------------------------- MODULE MCSmdp -------------------------------
(* Model-checking instances of Smdp; the .cfg files give the values. *)
EXTENDS SmdpLedger, TLC

Symmetry == Permutations(Cards) \cup Permutations(Iccids)
              \cup Permutations(Tids) \cup Permutations(Threads)

=============================================================================
