---------------------------- MODULE MCEventLoop -----------------------------
(* EventLoop with two calling threads; any interleaving of their calls with *)
(* the calls user code makes on the loop's own thread.                      *)
EXTENDS EventLoop
=============================================================================
