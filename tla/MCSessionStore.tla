-------------------------- MODULE MCSessionStore ---------------------------
\* Model values for SessionStore.
EXTENDS SessionStore, TLC

CONSTANTS r1, r2, s1, p1, p2

MCMeasured == Sessions
MCRuns == Permutations(Runners)

NoPruner == \A p \in Pruners : pc[p] = "start" /\ preview[p] = NoPreview
NoRestorer == \A p \in Restorers : pc[p] = "start"

\* Bound: from the begin of a second run until both have ended the byte cap is
\* zero, and beside the runs there is time that passes, or a restore and a
\* failure, or a user of prune.
MCSecondRun ==
  (\A p \in Runners : pc[p] # "start") /\ (\E p \in Runners : ~Idle(p)) =>
    /\ cap = 0
    /\ \/ NoPruner /\ NoRestorer
       \/ NoPruner /\ cutoff = 0
       \/ NoRestorer /\ cutoff = 0 /\ faults = 0
=============================================================================
