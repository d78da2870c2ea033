--------------------------- MODULE MCFrameExchange ---------------------------
(* FrameExchange for TLC: the values of its constants are in the .cfg file.  *)
EXTENDS FrameExchange
==============================================================================
