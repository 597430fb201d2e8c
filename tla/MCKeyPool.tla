------------------------------ MODULE MCKeyPool ------------------------------
(* Model checking of KeyPool: constants scaled so that backoff doubles, hits *)
(* its cap and is overtaken by hints and hard cooldowns within a few ticks.  *)
EXTENDS KeyPool, TLC

CallerSymmetry == Permutations(Callers)

=============================================================================
