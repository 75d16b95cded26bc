CONSTANTS
  Source = {"s", "h", "r"}
  Target = {"p", "g"}
  Explicit <- MCExplicit
  Includes <- MCIncludes
  Contents <- MCContents
  Flags = {x, y}
  Goal = "p"
  OptionSets <- MCOptionSets
SPECIFICATION Spec
SYMMETRY FlagSymmetry
INVARIANTS
  Fresh
  NothingTwice
  CacheHonest
