------------------------ MODULE MCAttemptLifecycle ------------------------
(* Small instances of AttemptLifecycle for TLC.                            *)
EXTENDS AttemptLifecycle, TLC

Symmetry == Permutations(AttemptId) \cup Permutations(Device)
              \cup Permutations(Request)
===========================================================================
