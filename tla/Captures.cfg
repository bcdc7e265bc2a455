SPECIFICATION Spec
CONSTANTS
  Families <- Family
  MaxGpcs = 1
  PpcsPerGpc = 1
  MissedSymbols <- Probes
  Bdfs = {"a", "b"}
  TopWords = 3
  MaskOrder <- InPrint
  SymbolOrder <- Symbols
  Scenarios <- All
  Losses = "lines"
INVARIANTS
  AcceptedIsWitnessed
  CleanAccepted
  ComparisonExact
  SelectorWitnessed
