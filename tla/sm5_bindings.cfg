SPECIFICATION Spec
CONSTANTS
  Parser <- ParseProgram
  Serializer <- SerializeBitcode
  Inputs <- MCInputs
  Recipes <- TextureRecipes
  MaxBindPoint <- MCMaxBindPoint
  MaxTemps = 8
INVARIANT NewBindingsAreAdded
CHECK_DEADLOCK FALSE
