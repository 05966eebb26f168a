SPECIFICATION Spec
CONSTANTS
  Parser <- ParseProgram
  Serializer <- SerializeBitcode
  Inputs <- MCInputs
  Recipes <- MCRecipes
  MaxBindPoint <- MCMaxBindPoint
  MaxTemps = 8
INVARIANTS
  RoundTrip
  DeclaredOnce
  CodeKept
  TempsApart
  ReadBack
  ContainerWellFormed
CHECK_DEADLOCK FALSE
