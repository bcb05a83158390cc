SPECIFICATION Spec
CONSTANTS
  Pipelines <- SmallPipelines
  Inputs <- SmallInputs
  MaxStages = 3
  Capacity = 2
  Chunk = 2
  MaxYes = 8
INVARIANT TypeOK
INVARIANT ResultIsWhole
INVARIANT TwiceOnlyBeforeFallBack
PROPERTY Finishes
CHECK_DEADLOCK FALSE
