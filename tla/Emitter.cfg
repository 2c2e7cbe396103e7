CONSTANTS
  Sigs = {s1, s2}
  MaxTypes = 2
  MaxImports = 1
  MaxDefs = 2
  MaxObjects = 1
  NoHandle = NoHandle
SPECIFICATION Spec
INVARIANT EmittedModuleMatchesSpec
