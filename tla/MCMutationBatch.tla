-------------------------- MODULE MCMutationBatch --------------------------
(* MutationBatch for TLC: one host prepared with a tap parameter and a send, *)
(* two hosts restored from a routing and a value each, and the empty batch.  *)
EXTENDS MutationBatch, CompileHosts

MCPlans == {compile_prepare_hosts(1, 1, 1), compile_restore_hosts(2, 1, 1), <<>>}

MCMaxSteps == 5
MCCommand == {Compound} \cup ((1..MCMaxSteps) \X (1..6))
MCSideEffect == {Compound} \cup ((1..MCMaxSteps) \X {1, 3})
=============================================================================
