CONSTANTS
  MaxInstructions = 3
  MaxBatch = 2
SPECIFICATION BlockSpec
INVARIANTS HandledGeneratesMicrocode
