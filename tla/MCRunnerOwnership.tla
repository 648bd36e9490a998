------------------------- MODULE MCRunnerOwnership -------------------------
(* uuid4 values are interchangeable, and so are tokens.                       *)
EXTENDS RunnerOwnership, TLC

Names == Permutations(Ids) \cup Permutations(Tokens)
=============================================================================
