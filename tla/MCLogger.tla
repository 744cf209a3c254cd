------------------------------ MODULE MCLogger ------------------------------
(* Logger and AsyncLogging with buffers of three bytes: two lines of one     *)
(* byte fill one, a line of two leaves no room for another, one of three     *)
(* fits none.                                                                *)
EXTENDS Logger

CONSTANTS short, error, fatal, huge

MCLineLen == [line \in Lines |-> CASE line = error -> 2 [] line = huge -> 3 [] OTHER -> 1]
MCLevelOf == [line \in Lines |-> CASE line = error -> "ERROR" [] line = fatal -> "FATAL" [] OTHER -> "INFO"]
=============================================================================
