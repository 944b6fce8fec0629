----------------------------- MODULE MCPgProxy -----------------------------
(***************************************************************************)
(* PgProxy on small instances.  The roles of the clients are chosen in the *)
(* configurations.                                                         *)
(***************************************************************************)
EXTENDS PgProxy

CONSTANTS a, b, s, u, r
=============================================================================
