----------------------- MODULE MCEventLoopThreadPool ------------------------
(* A pool of a few threads.                                                 *)
EXTENDS EventLoopThreadPool
=============================================================================
