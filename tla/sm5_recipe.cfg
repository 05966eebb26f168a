SPECIFICATION FairSpec
CONSTANTS
  a = a
  b = b
  ret = ret
  dcl = dcl
  Opcodes = {a, b, ret, dcl}
  Returns = {ret}
  Decl = dcl
  MaxLength = 3
  Programs <- MCPrograms
  Recipes <- MCRecipes
CHECK_DEADLOCK FALSE
INVARIANT RewriteIsReference
INVARIANT KeptInOrder
INVARIANT NoRewriteLost
PROPERTY ShaderUntouched
PROPERTY Terminates
