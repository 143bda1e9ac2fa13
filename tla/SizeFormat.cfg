SPECIFICATION Spec
CONSTANTS
  Numbers = {{}, {0, 2, 6}, {21}}
INVARIANT FirstBitsAreBytes
