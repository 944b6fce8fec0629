---------------------------- MODULE MCRunSession ----------------------------
(***************************************************************************)
(* RunSession on small instances.  What a call is held back for, and what  *)
(* can be compensated, is chosen in the configurations.                    *)
(***************************************************************************)
EXTENDS RunSession

CONSTANTS send, ask, put, gh
=============================================================================
