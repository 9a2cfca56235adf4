SPECIFICATION Spec
CONSTANTS
  Constructors <- MCConstructors
  Structs <- MCStructs
  Arrays <- MCArrays
  FunctionSymbols <- MCFunctionSymbols
  Declaration <- MCDeclaration
  Methods <- MCMethods
  MaxMonoDepth = 2
  Programs <- MCPrograms
INVARIANT
  CallsGetTheirInstance
