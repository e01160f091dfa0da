------------------------------ MODULE MCConnPool ------------------------------
(* Small instances of ConnPool for TLC. *)
EXTENDS ConnPool

CONSTANTS c1, c2, c3, r1
=============================================================================
