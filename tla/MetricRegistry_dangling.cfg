\* The snapshot thread reads while the HTTP thread ingests.
CONSTANTS
  Names = {1}
  MaxFinite = 1
  MaxGeneration = 2
  Readers = {snapshot}
  Writers = {http}
SPECIFICATION Spec
INVARIANTS NoUseAfterFree
