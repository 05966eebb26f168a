----------------------------- MODULE MCRecipeStore -----------------------------
(* An instance of RecipeStore for TLC: two recipes for one shader and one for  *)
(* another stage; the files of the first change its default or do not load.   *)
EXTENDS RecipeStore, TLC

CONSTANTS a, b, c, x, w1, w2

MCOrder == <<a, b, c>>
MCModelOf == a :> "sm6" @@ b :> "sm6" @@ c :> "sm6"
MCStageOf == a :> "all" @@ b :> "pixel" @@ c :> "vertex"

Value(type, text) == [type |-> type, text |-> text]
MCTyped == {Value("float", "2.5")}
AnyWorker == Permutations({w1, w2})

Pixel == [model |-> "sm6", stage |-> "pixel", id |-> 1]
MCShaders == {Pixel}

File(default, does, adds) ==
  [loads |-> TRUE, env |-> (x :> default), does |-> [s \in MCShaders |-> does], adds |-> adds]
Broken == [loads |-> FALSE, env |-> (x :> Null), does |-> [s \in MCShaders |-> "keeps"], adds |-> {}]

MCContents ==
  a :> {File(Value("float", "1"), "changes", {"h"}), File(Value("float", "0"), "fails", {}), Broken}
  @@ b :> {File(Null, "changes", {"h"})}
  @@ c :> {File(Null, "changes", {"h"})}
================================================================================
