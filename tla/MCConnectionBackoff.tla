-------------------------- MODULE MCConnectionBackoff --------------------------
(* The constants of the code, in milliseconds and seconds.                     *)
EXTENDS ConnectionBackoff
================================================================================
