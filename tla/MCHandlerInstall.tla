-------------------------- MODULE MCHandlerInstall --------------------------
(* HandlerInstall with the threads as model values, for TLC.               *)
EXTENDS HandlerInstall, TLC
CONSTANTS t1, t2
=============================================================================
