\* The three buffers of the code, images in two parts, five frames.
SPECIFICATION Spec
CONSTANTS
  FRAME_BUFFERS = 3
  NoBuffer = null
  Parts = {upper, lower}
  MaxFrames = 5
INVARIANTS
  TypeOK
  CopyIsWhole
\* The camera takes no more frames.
CHECK_DEADLOCK FALSE
