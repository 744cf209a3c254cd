------------------------------ MODULE MCBuffer ------------------------------
(* Buffer with a vector of a few bytes, so that every append has to choose   *)
(* between moving the contents and growing.                                  *)
EXTENDS Buffer
=============================================================================
