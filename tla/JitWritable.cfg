SPECIFICATION Spec
CONSTANTS
  Buffers = {insns}
INVARIANTS
  WritableMeansWritable
\* An object whose creation left a mapping behind is not used any more.
CHECK_DEADLOCK FALSE
