SPECIFICATION Spec
CONSTANTS
  Keys = {1, 2, 3}
  NumTables = 3
  INDEX_ENTRY_SIZE = 2
  num_hashes = 2
  table_size = 16
  word_size = 4
  HashWidth = 3
  Hash1 <- MCHash1
  Hash2 <- MCHash2
INVARIANTS TypeOK MergeKeepsYoungest LookupsAreExact MergeAnswersAsInputs
