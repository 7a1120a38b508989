--------------------------- MODULE MCPhaseExecute ---------------------------
(* Small instances of PhaseExecute for TLC.                                 *)
EXTENDS PhaseExecute, TLC

CONSTANTS compiled, hosted, broken

\* an implementation that must be registered, one that require() finds, and one
\* whose module is not a table
MCModuleOf == compiled :> "none" @@ hosted :> "function" @@ broken :> "notATable"

MCPlans == {<<>>, <<hosted, compiled>>, <<hosted, broken>>}

MCNestedModuleOf == compiled :> "none" @@ hosted :> "function"
MCNestedPlans == {<<hosted, compiled>>}

Interchangeable == Permutations(Handles)
=============================================================================
