\* The HTTP thread renders pages and ingests, a scrape worker merges.
CONSTANTS
  Names = {1, 2}
  MaxFinite = 1
  MaxGeneration = 2
  Readers = {http}
  Writers = {http, worker}
SPECIFICATION Spec
INVARIANTS CounterNotNegative SeenNeverAhead
