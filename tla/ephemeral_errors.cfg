SPECIFICATION Spec
CONSTANTS
  MaxGeneration = 3
  MaxItems = 3
  Limits = {0, 1, 2}
  Types = {t1, t2}
  MaxVersion = 1
  None = none
  main = main
  extra = extra
  helper = helper
  short = short
  long = long
  Class <- MCClass
  Module <- MCModule
  Package <- MCPackage
  Submodules <- MCSubmodules
  Members <- MCMembers
  Explicit <- MCExplicit
  Thread = {th1, th2}
  Secret = {s1, s2}
  NoSecret = unset
  MaxSealed = 2
  MaxRuns = 2
  Size = 4
  Width = 2
  MaxParameters = 3
  MaxArguments = 4
  Name = {m, n}
  MaxBuilt = 5
  ProjectVersions = {v1, v2}
  Scalar = {a, b}
  Label = {p, q}
  MaxLength = 2
  MaxTypes = 3
  MaxValues = 60
  MaxHints = 3
  DefaultScalar = {a}
  MaxSchemas = 2
  MaxObjects = 18
  MaxNested = 300
  SourceStates = {a, b, null}
  NullState = null
  ConfigureCall = {c1, c2, c3}
  Nobody = none
INVARIANT AddedErrorsArrive
CHECK_DEADLOCK FALSE
