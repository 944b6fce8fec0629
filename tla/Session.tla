------------------------------ MODULE Session ------------------------------
(***************************************************************************)
(* What a PostgreSQL session promises: the work of its clients becomes one *)
(* log that only grows, a unit of one client at a time, until the session  *)
(* is sealed; and the sealed log is kept as a whole or not at all, kept    *)
(* only when its summary is complete.                                      *)
(***************************************************************************)
EXTENDS Integers, Sequences

CONSTANT Clients

VARIABLES
  log,    \* the staged changes no client can take back any more
  sealed, \* "no", "complete" or "incomplete"
  fate    \* "open", "committed", "rolledback" or "lost"

sessionVars == <<log, sealed, fate>>

SessionInit == log = <<>> /\ sealed = "no" /\ fate = "open"

\* One client's transaction, batch, cycle or statement is settled.
Settle ==
  /\ sealed = "no" /\ fate = "open"
  /\ Len(log) < Len(log')
  /\ SubSeq(log', 1, Len(log)) = log
  /\ \E c \in Clients : \A i \in (Len(log) + 1)..Len(log') : log'[i].by = c
  /\ UNCHANGED <<sealed, fate>>

Seal ==
  /\ sealed = "no"
  /\ sealed' \in {"complete", "incomplete"}
  /\ sealed' = "complete" => fate = "open"
  /\ UNCHANGED <<log, fate>>

Commit == sealed = "complete" /\ fate = "open" /\ fate' = "committed" /\ UNCHANGED <<log, sealed>>

Undo == sealed # "no" /\ fate = "open" /\ fate' = "rolledback" /\ UNCHANGED <<log, sealed>>

\* The connection is gone, and PostgreSQL rolls back what it had.
Lose == fate = "open" /\ fate' = "lost" /\ UNCHANGED <<log, sealed>>

SessionNext == Settle \/ Seal \/ Commit \/ Undo \/ Lose

SessionSpec == SessionInit /\ [][SessionNext]_sessionVars
=============================================================================
