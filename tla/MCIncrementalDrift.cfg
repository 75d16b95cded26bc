CONSTANTS
  Source = {"s", "h", "r"}
  Target = {"p", "g"}
  Explicit <- MCExplicit
  Includes <- MCIncludes
  Contents <- MCContents
  Flags = {x, y}
  Goal = "p"
  OptionSets <- Stopping
SPECIFICATION Spec
SYMMETRY FlagSymmetry
INVARIANT CsigIsContent
