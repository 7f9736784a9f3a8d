-------------------------- MODULE MCBackgroundJobs --------------------------
(* BackgroundJobs on small instances.  The ids of rows and the tokens are   *)
(* interchangeable; BackoffSeconds is compared with the formula of the code. *)
EXTENDS BackgroundJobs, TLC

Power(n) == 2^n
Smaller(a, b) == IF a <= b THEN a ELSE b

ASSUME BackoffIsTheFormula ==
  \A attempt \in 0..100 :
    BackoffSeconds[1 + Smaller(attempt, 5)] = Smaller(Power(Smaller(attempt, 5)), 30)

Symmetric == Permutations(JobId) \cup Permutations(Token)
=============================================================================
