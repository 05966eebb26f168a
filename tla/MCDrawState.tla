---------------------------- MODULE MCDrawState ----------------------------
(* Instances of DrawState for TLC: one shader per stage, the replacements  *)
(* given by the .cfg with the slots each of them binds.                    *)
EXTENDS DrawState, TLC

CONSTANTS v, p, c, v1, p1, p2, c1, a

Slot(s, class, n) == [stage |-> s, cls |-> class, slot |-> n]

MCStageOf == [x \in Pipelines |-> CASE x = v -> "vertex" [] x = p -> "pixel" [] x = c -> "compute"]
MCOriginal == [r \in Replacements |-> CASE r = v1 -> v [] r \in {p1, p2} -> p [] r = c1 -> c]
MCBinds == [r \in Replacements |-> CASE r = v1 -> {}
                                     [] r = p1 -> {Slot("pixel", "srv", 0)}
                                     [] r = p2 -> {Slot("pixel", "srv", 0), Slot("pixel", "srv", 1)}
                                     [] r = c1 -> {Slot("compute", "uav", 0)}]
MCSlots == UNION {MCBinds[r] : r \in Replacements}
=============================================================================
