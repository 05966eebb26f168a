--------------------------- MODULE MCPatchRuntime ---------------------------
(* Instances of PatchRuntime for TLC: what the recipes of each generation  *)
(* make of each pipeline.                                                  *)
EXTENDS PatchRuntime

CONSTANTS p1  \* the first pipeline

(* One list of effects for p1 and one for the others.                      *)
Each(first, others) == [p \in Pipelines |-> IF p = p1 THEN first ELSE others]
RaceEffects == Each(<<"bound", "inapplicable">>, <<"unresolved", "plain">>)
ConvergeEffects == Each(<<"throws", "plain", "rejected">>, <<"plain", "unmodified", "plain">>)

OneHandle == [p \in Pipelines |-> CHOOSE h \in Handles : TRUE]
OwnHandle == [p \in Pipelines |-> p]
=============================================================================
