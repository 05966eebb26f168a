SPECIFICATION Spec
CONSTANTS
  Ops <- MCOps
  Shaders <- MCShaders
  Recipes <- MCRecipes
  Variables <- MCVariables
  Matcher <- CollectMatches
CHECK_DEADLOCK FALSE
INVARIANT SsaKept
INVARIANT HandlesBind
INVARIANT BindingsApart
INVARIANT CBufferSound
INVARIANT PrunedOutput
PROPERTY RewriteIsReference
