---- MODULE MCFileRollback ----
(* A folder with two names.                                                               *)
EXTENDS FileRollback

CONSTANTS r, d, f, g
====
