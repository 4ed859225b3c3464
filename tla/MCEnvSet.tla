------------------------------- MODULE MCEnvSet -------------------------------
(***************************************************************************)
(* Two invocations, two keys; the invocations are interchangeable.         *)
(***************************************************************************)
EXTENDS EnvSet, TLC

Symmetric == Permutations(Processes)
===============================================================================
