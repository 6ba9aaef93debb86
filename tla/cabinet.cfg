\* Two documents, two functions running at once, two clicks, one upset.
SPECIFICATION CabinetSpec
CONSTANTS
  Docs = {a, b}
  NoDoc = NoDoc
  Chains <- SomeChains
  Events = 3
  Upsets = 1
SYMMETRY Symmetric
INVARIANTS HeldButtonsAreAccepted ShownIsFresh NothingLeftBusy
CHECK_DEADLOCK FALSE
