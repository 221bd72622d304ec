----------------------------- MODULE MCEventLoop -----------------------------
(***************************************************************************)
(* EventLoop for TLC: the values of the constants are in the .cfg file.    *)
(***************************************************************************)
EXTENDS EventLoop

=============================================================================
