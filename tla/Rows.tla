--------------------------------- MODULE Rows ---------------------------------
(* What the modules of the office share: NULL, and the row that is not there.  *)
CONSTANT None
===============================================================================
