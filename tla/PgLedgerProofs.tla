--------------------------- MODULE PgLedgerProofs ---------------------------
(***************************************************************************)
(* The change summary.  The proxy counts the staged rows by difference and *)
(* stores beside every savepoint what it would have to remember after a    *)
(* rollback; the theorems say that the two never drift apart.              *)
(***************************************************************************)
EXTENDS PgNestingProofs

(***************************************************************************)
(* The mark beside the i-th savepoint of the backend.  The marks' lists of *)
(* effects only grow with the stack, and a mark taken when nothing was     *)
(* uncertain counted the rows below its savepoint exactly.                 *)
(***************************************************************************)
MarkAt(i) ==
  IF i > TxDepth THEN IF batch[queryMu] THEN batchMark[queryMu] ELSE cycleMark[queryMu]
  ELSE IF i = 1 THEN txMark[activeTransaction] ELSE saves[activeTransaction][i - 1].mark

Certain(length) == \A i \in 1..length : rows[i].risk = NoRisk

MarkInv ==
  ~fatal =>
    \A i \in DOMAIN stack :
      /\ MarkAt(i).uncertain <= Len(uncertain)
      /\ \A j \in DOMAIN stack : i <= j => MarkAt(i).uncertain <= MarkAt(j).uncertain
      /\ MarkAt(i).uncertain = 0 =>
           Certain(stack[i].len) /\ (rowLedgerErr \/ MarkAt(i).rows = stack[i].len)

InsideCycle == queryMu # None /\ pc[queryMu] = "cycle"

\* Outside of a cycle every counter has been sampled.  Inside of one the rows
\* of forwarded statements are still to be counted, and the risks of the
\* cycle are as good as noted; a cycle that has failed will be rolled back.
CountInv ==
  ~fatal =>
    /\ ~InsideCycle => rowStats = attempted
    /\ uncertain = <<>> /\ ~(InsideCycle /\ cycleRisk[queryMu] # {}) =>
         /\ Certain(Len(rows))
         /\ \/ rowLedgerErr
            \/ InsideCycle /\ cycleFailed[queryMu]
            \/ rowLedger + (attempted - rowStats) = Len(rows)

\* What Freeze looked at stays as it was.
SealInv == complete => uncertain = <<>> /\ ~rowLedgerErr

LEMMA CountTypes ==
  ASSUME TypeInv
  PROVE  /\ rowStats \in Nat /\ rowLedger \in Nat /\ attempted \in Nat /\ rowStats <= attempted
         /\ uncertain \in Seq(Risks) /\ Len(uncertain) \in Nat
         /\ (uncertain = <<>> <=> Len(uncertain) = 0)
<1>1. uncertain \in Seq(Risks)
  BY DEF TypeInv, LedgerInv, LedgerType
<1>2. Len(uncertain) \in Nat /\ (uncertain = <<>> <=> Len(uncertain) = 0)
  BY <1>1, EmptySeq
<1> QED BY <1>1, <1>2 DEF TypeInv, LedgerInv, LedgerType, BackendInv, BackendType

LEMMA MarkAtType ==
  ASSUME TypeInv, NestInv, ~fatal, NEW k \in DOMAIN stack
  PROVE  MarkAt(k) \in Mark /\ MarkAt(k).rows \in Nat /\ MarkAt(k).uncertain \in Nat
<1>1. k \in 1..Len(stack) /\ TxDepth \in Nat /\ (TxDepth = 0 <=> activeTransaction = None)
  BY StackTypes, DepthTypes
<1>2. CASE k > TxDepth
  <2>1. queryMu \in Clients
    BY <1>2, StackShape, LockTypes DEF HasUnit
  <2> QED BY <1>2, <2>1, StoredMarks DEF MarkAt, Mark
<1>3. CASE ~(k > TxDepth)
  <2>1. activeTransaction \in Clients
    BY <1>1, <1>3 DEF TypeInv, TransactionType
  <2>2. CASE k = 1
    BY <1>3, <2>1, <2>2, StoredMarks DEF MarkAt, Mark
  <2>3. CASE k # 1
    <3> DEFINE a == activeTransaction
    <3>1. TxDepth = Len(saves[a]) + 1
      BY <2>1, ClientAssumption DEF TxDepth
    <3>2. Len(saves[a]) \in Nat /\ DOMAIN saves[a] = 1..Len(saves[a])
      BY <2>1, DepthTypes
    <3>3. k - 1 \in 1..Len(saves[a])
      BY <1>1, <1>3, <2>3, <3>1, <3>2
    <3>4. saves[a][k - 1].mark \in Mark
      BY <2>1, <3>2, <3>3, StoredMarks
    <3>5. MarkAt(k) = saves[a][k - 1].mark
      BY <1>3, <2>3 DEF MarkAt
    <3> QED BY <3>4, <3>5 DEF Mark
  <2> QED BY <2>2, <2>3
<1> QED BY <1>2, <1>3

(***************************************************************************)
(* Which marks a step leaves as they are.                                  *)
(***************************************************************************)
LEMMA LowMarks ==
  ASSUME TypeInv, UNCHANGED activeTransaction, NEW i \in 1..TxDepth, i <= TxDepth',
         TxDepth' \in Nat,
         txMark'[activeTransaction] = txMark[activeTransaction],
         i # 1 => saves'[activeTransaction][i - 1] = saves[activeTransaction][i - 1]
  PROVE  MarkAt(i)' = MarkAt(i)
<1>1. ~(i > TxDepth) /\ ~(i > TxDepth')
  BY DepthTypes
<1> QED BY <1>1 DEF MarkAt

LEMMA SavedMarks ==
  ASSUME TypeInv, UNCHANGED <<activeTransaction, saves, txMark>>
  PROVE  TxDepth' = TxDepth /\ \A i \in 1..TxDepth : MarkAt(i)' = MarkAt(i)
<1>1. TxDepth' = TxDepth /\ TxDepth \in Nat
  BY DepthTypes DEF TxDepth
<1> QED BY <1>1, LowMarks

LEMMA SameMarks ==
  ASSUME UNCHANGED <<activeTransaction, saves, txMark, queryMu, batch, batchMark, cycleMark>>
  PROVE  \A i : MarkAt(i)' = MarkAt(i)
<1>1. TxDepth' = TxDepth
  BY DEF TxDepth
<1> QED BY <1>1 DEF MarkAt

(***************************************************************************)
(* How the marks survive: a step that keeps the lower part of the stack,   *)
(* one that pushes a savepoint, and one that leaves a fresh one alone.     *)
(***************************************************************************)
LEMMA MarksKept ==
  ASSUME TypeInv, MarkInv, ~fatal, NEW n \in Nat, n <= Len(stack), Len(stack') = n,
         DOMAIN stack' = 1..n,
         \A i \in 1..n : stack'[i] = stack[i] /\ MarkAt(i)' = MarkAt(i),
         \A i \in 1..n : MarkAt(i).uncertain <= Len(uncertain'),
         \A i \in 1..n : \A j \in 1..stack[i].len : rows'[j] = rows[j],
         rowLedgerErr => rowLedgerErr'
  PROVE  MarkInv'
<1>1. \A i \in 1..n : i \in DOMAIN stack
  BY StackTypes
<1>2. ASSUME NEW i \in 1..n
      PROVE  /\ MarkAt(i)'.uncertain <= Len(uncertain')
             /\ \A j \in 1..n : i <= j => MarkAt(i)'.uncertain <= MarkAt(j)'.uncertain
             /\ MarkAt(i)'.uncertain = 0 =>
                  Certain(stack[i].len)' /\ (rowLedgerErr' \/ MarkAt(i)'.rows = stack'[i].len)
  <2>1. MarkAt(i)' = MarkAt(i) /\ stack'[i] = stack[i] /\ MarkAt(i).uncertain <= Len(uncertain')
    OBVIOUS
  <2>2. \A j \in 1..n : i <= j => MarkAt(i).uncertain <= MarkAt(j).uncertain
    BY <1>1 DEF MarkInv
  <2>3. MarkAt(i).uncertain = 0 =>
          Certain(stack[i].len) /\ (rowLedgerErr \/ MarkAt(i).rows = stack[i].len)
    BY <1>1 DEF MarkInv
  <2>4. Certain(stack[i].len) => \A j \in 1..stack[i].len : rows'[j].risk = NoRisk
    BY DEF Certain
  <2>5. \A j \in 1..n : MarkAt(j)' = MarkAt(j)
    OBVIOUS
  <2> QED BY <2>1, <2>2, <2>3, <2>4, <2>5 DEF Certain
<1> QED BY <1>2 DEF MarkInv, Certain

\* The savepoint just pushed gets the mark of the moment.
LEMMA MarkPushed ==
  ASSUME TypeInv, TypeInv', MarkInv, CountInv, ~fatal, ~InsideCycle, NEW name, Pushed(name),
         \A i \in 1..Len(stack) : MarkAt(i)' = MarkAt(i),
         \A i : i = Len(stack) + 1 => MarkAt(i)' = TakeMark,
         UNCHANGED <<uncertain, rowLedger, rowLedgerErr>>
  PROVE  MarkInv'
<1> DEFINE n == Len(stack)
<1>1. n \in Nat /\ DOMAIN stack = 1..n
  BY StackTypes
<1>2. DOMAIN stack' = 1..(n + 1)
  <2>1. stack' \in Seq(Saved) /\ Len(stack') = n + 1
    BY DEF TypeInv, BackendInv, BackendType, Pushed
  <2> QED BY <2>1
<1>3. rows' = rows /\ \A i \in 1..n : stack'[i] = stack[i]
  BY <1>1 DEF Pushed
<1>4. stack'[n + 1].len = Len(rows)
  BY DEF Pushed
<1>5. \A i \in 1..n : MarkAt(i)' = MarkAt(i)
  OBVIOUS
<1>6. \A i : i = n + 1 => MarkAt(i)' = TakeMark
  OBVIOUS
<1>7. Len(uncertain) \in Nat /\ (uncertain = <<>> <=> Len(uncertain) = 0) /\ uncertain' = uncertain
  BY CountTypes
<1>8. TakeMark.uncertain = Len(uncertain) /\ TakeMark.rows = rowLedger
  BY DEF TakeMark
<1>9. Len(uncertain) = 0 => Certain(Len(rows)) /\ (rowLedgerErr \/ rowLedger = Len(rows))
  <2>1. rowStats = attempted
    BY DEF CountInv
  <2>2. rowLedger + (attempted - rowStats) = rowLedger
    BY <2>1, CountTypes
  <2> QED BY <1>7, <2>2 DEF CountInv
<1> HIDE DEF n
<1>10. ASSUME NEW i \in 1..(n + 1)
       PROVE  /\ MarkAt(i)'.uncertain <= Len(uncertain)
              /\ \A j \in 1..(n + 1) : i <= j => MarkAt(i)'.uncertain <= MarkAt(j)'.uncertain
              /\ MarkAt(i)'.uncertain = 0 =>
                   Certain(stack'[i].len) /\ (rowLedgerErr \/ MarkAt(i)'.rows = stack'[i].len)
  <2>1. CASE i = n + 1
    <3>1. \A j \in 1..(n + 1) : i <= j => j = n + 1
      BY <1>1, <2>1
    <3>2. MarkAt(i)'.uncertain = Len(uncertain) /\ MarkAt(i)'.rows = rowLedger
      BY <1>6, <1>8, <2>1
    <3> QED BY <1>4, <1>7, <1>9, <2>1, <3>1, <3>2
  <2>2. CASE i # n + 1
    <3>1. i \in 1..n /\ i \in DOMAIN stack
      BY <1>1, <2>2
    <3>2. MarkAt(i)' = MarkAt(i) /\ stack'[i] = stack[i]
      BY <1>3, <1>5, <3>1
    <3>3. /\ MarkAt(i).uncertain <= Len(uncertain)
          /\ \A j \in DOMAIN stack : i <= j => MarkAt(i).uncertain <= MarkAt(j).uncertain
          /\ MarkAt(i).uncertain = 0 =>
               Certain(stack[i].len) /\ (rowLedgerErr \/ MarkAt(i).rows = stack[i].len)
      BY <3>1 DEF MarkInv
    <3>4. ASSUME NEW j \in 1..(n + 1), i <= j PROVE MarkAt(i).uncertain <= MarkAt(j)'.uncertain
      <4>1. CASE j = n + 1
        BY <1>6, <1>8, <3>3, <4>1
      <4>2. CASE j # n + 1
        <5>1. j \in 1..n /\ j \in DOMAIN stack
          BY <1>1, <4>2
        <5>2. MarkAt(j)' = MarkAt(j)
          BY <1>5, <5>1
        <5> QED BY <3>3, <3>4, <5>1, <5>2
      <4> QED BY <4>1, <4>2
    <3> QED BY <3>2, <3>3, <3>4
  <2> QED BY <2>1, <2>2
<1> QED BY <1>2, <1>3, <1>7, <1>10 DEF MarkInv, Certain

LEMMA NothingUnseen ==
  ASSUME NEW count \in Nat, NEW sample \in Nat, NEW now, now = sample
  PROVE  count + (now - sample) = count
OBVIOUS

\* A stack of one fresh savepoint: its mark is what the ledger says now.
LEMMA MarkFresh ==
  ASSUME TypeInv', CountInv', ~fatal', ~InsideCycle', Len(stack') = 1, stack'[1].len = Len(rows'),
         \A i : i = 1 => MarkAt(i)' = [rows |-> rowLedger', uncertain |-> Len(uncertain')]
  PROVE  MarkInv'
<1>1. DOMAIN stack' = {1}
  <2>1. stack' \in Seq(Saved)
    BY DEF TypeInv, BackendInv, BackendType
  <2> QED BY <2>1
<1>2. /\ rowLedger' \in Nat /\ attempted' \in Nat
      /\ Len(uncertain') \in Nat /\ (uncertain' = <<>> <=> Len(uncertain') = 0)
  <2>1. uncertain' \in Seq(Risks)
    BY DEF TypeInv, LedgerInv, LedgerType
  <2>2. Len(uncertain') \in Nat /\ (uncertain' = <<>> <=> Len(uncertain') = 0)
    BY <2>1, EmptySeq
  <2> QED BY <2>2 DEF TypeInv, LedgerInv, LedgerType, BackendInv, BackendType
<1>3. \A i : i = 1 => MarkAt(i)'.uncertain = Len(uncertain') /\ MarkAt(i)'.rows = rowLedger'
  OBVIOUS
<1>4. Len(uncertain') = 0 => Certain(Len(rows))' /\ (rowLedgerErr' \/ rowLedger' = Len(rows'))
  <2>1. rowStats' = attempted'
    BY DEF CountInv
  <2>2. rowLedger' + (attempted' - rowStats') = rowLedger'
    BY <1>2, <2>1, NothingUnseen
  <2> QED BY <1>2, <2>2 DEF CountInv
<1> QED BY <1>1, <1>2, <1>3, <1>4 DEF MarkInv, Certain

(***************************************************************************)
(* How the count survives: a step that leaves the ledger alone, and a      *)
(* rollback to one of the marks.                                           *)
(***************************************************************************)
LEMMA CountSame ==
  ASSUME CountInv, UNCHANGED <<fatal, rows, attempted, rowStats, rowLedger, uncertain>>,
         rowLedgerErr => rowLedgerErr',
         InsideCycle => /\ InsideCycle' /\ queryMu' = queryMu
                        /\ cycleRisk'[queryMu] = cycleRisk[queryMu]
                        /\ cycleFailed[queryMu] => cycleFailed'[queryMu]
  PROVE  CountInv'
BY DEF CountInv, Certain

LEMMA KeptLength ==
  ASSUME TypeInv, NEW length \in Nat, length <= Len(uncertain)
  PROVE  Len(Keep(length)) = length
<1>1. uncertain \in Seq(Risks) /\ Len(uncertain) \in Nat
  BY CountTypes
<1>2. CASE length < Len(uncertain)
  <2>1. \A i \in 1..length : uncertain[i] \in Risks
    BY <1>1, <1>2
  <2>2. Len(SubSeq(uncertain, 1, length)) = length
    BY <2>1, SubSeqProperties
  <2> QED BY <1>2, <2>2 DEF Keep
<1>3. CASE ~(length < Len(uncertain))
  BY <1>1, <1>3 DEF Keep
<1> QED BY <1>2, <1>3

LEMMA RolledCount ==
  ASSUME TypeInv, TypeInv', NestInv, MarkInv, ~fatal, NEW k \in DOMAIN stack,
         Prefix(stack[k].len), RestoreLedger(MarkAt(k)), attempted' = attempted, ~InsideCycle'
  PROVE  CountInv' /\ Len(uncertain') = MarkAt(k).uncertain
<1>1. MarkAt(k).rows \in Nat /\ MarkAt(k).uncertain \in Nat
  BY MarkAtType
<1>2. /\ MarkAt(k).uncertain <= Len(uncertain)
      /\ MarkAt(k).uncertain = 0 =>
           Certain(stack[k].len) /\ (rowLedgerErr \/ MarkAt(k).rows = stack[k].len)
  BY DEF MarkInv
<1>3. Len(uncertain') = MarkAt(k).uncertain
  BY <1>1, <1>2, KeptLength DEF RestoreLedger
<1>4. rowStats' = attempted' /\ rowLedger' = MarkAt(k).rows /\ rowLedgerErr' = rowLedgerErr
  BY DEF RestoreLedger
<1>5. attempted' \in Nat
  BY DEF TypeInv, BackendInv, BackendType
<1>6. rowLedger' + (attempted' - rowStats') = MarkAt(k).rows
  BY <1>1, <1>4, <1>5
<1>7. Len(rows') = stack[k].len /\ (Certain(stack[k].len) => Certain(Len(rows))')
  BY DEF Prefix, Certain
<1>8. uncertain' = <<>> => MarkAt(k).uncertain = 0
  BY <1>3
<1>9. uncertain' = <<>> => Certain(Len(rows))' /\ (rowLedgerErr' \/ MarkAt(k).rows = Len(rows'))
  BY <1>2, <1>4, <1>7, <1>8
<1>10. CountInv'
  BY <1>4, <1>6, <1>9 DEF CountInv
<1> QED BY <1>3, <1>10

\* A rollback to the k-th savepoint, which may stay.
LEMMA RolledBack ==
  ASSUME TypeInv, TypeInv', NestInv, MarkInv, ~fatal, NEW k \in DOMAIN stack,
         NEW n \in {k - 1, k}, Left(n, stack[k].len), RestoreLedger(MarkAt(k)),
         attempted' = attempted, ~InsideCycle', \A i \in 1..n : MarkAt(i)' = MarkAt(i)
  PROVE  MarkInv' /\ CountInv'
<1>1. k \in 1..Len(stack) /\ Len(stack) \in Nat
  BY StackTypes
<1>2. n \in Nat /\ n <= k /\ n <= Len(stack) /\ Len(stack') = n
  BY <1>1 DEF Left
<1>3. DOMAIN stack' = 1..n
  <2>1. stack' \in Seq(Saved)
    BY DEF TypeInv, BackendInv, BackendType
  <2> QED BY <1>2, <2>1
<1>4. Prefix(stack[k].len)
  BY DEF Left, Prefix
<1>5. CountInv' /\ Len(uncertain') = MarkAt(k).uncertain
  BY <1>4, RolledCount
<1>6. ASSUME NEW i \in 1..n
      PROVE  /\ stack'[i] = stack[i] /\ MarkAt(i).uncertain <= Len(uncertain')
             /\ \A j \in 1..stack[i].len : rows'[j] = rows[j]
  <2>1. i \in 1..Len(stack) /\ i <= k
    BY <1>1, <1>2
  <2>2. i \in DOMAIN stack
    BY <2>1, StackTypes
  <2>3. MarkAt(i).uncertain <= MarkAt(k).uncertain
    BY <2>1, <2>2 DEF MarkInv
  <2>4. stack[i].len <= stack[k].len
    BY <2>1, <2>2 DEF TypeInv, BackendInv, StackOrdered
  <2>5. stack[i].len \in Nat /\ stack[k].len \in Nat
    BY <1>1, <2>1, StackTypes
  <2>6. stack'[i] = stack[i] /\ \A j \in 1..stack[k].len : rows'[j] = rows[j]
    BY DEF Left
  <2> QED BY <1>5, <2>3, <2>4, <2>5, <2>6
<1>7. rowLedgerErr => rowLedgerErr'
  BY DEF RestoreLedger
<1>8. MarkInv'
  BY <1>2, <1>3, <1>6, <1>7, MarksKept
<1> QED BY <1>5, <1>8

\* The lower part of the stack stays, and so does everything else.
LEMMA MarksCut ==
  ASSUME TypeInv, TypeInv', NestInv, MarkInv, ~fatal,
         NEW n \in Nat, n <= Len(stack), Len(stack') = n,
         \A i \in 1..n : stack'[i] = stack[i] /\ MarkAt(i)' = MarkAt(i),
         Len(uncertain) <= Len(uncertain'), \A i \in 1..Len(rows) : rows'[i] = rows[i],
         rowLedgerErr => rowLedgerErr'
  PROVE  MarkInv'
<1>1. DOMAIN stack' = 1..n
  <2>1. stack' \in Seq(Saved)
    BY DEF TypeInv, BackendInv, BackendType
  <2> QED BY <2>1
<1>2. Len(uncertain) \in Nat /\ Len(uncertain') \in Nat /\ Len(stack) \in Nat /\ Len(rows) \in Nat
  BY CountTypes, StackTypes DEF TypeInv, LedgerInv, LedgerType
<1>3. ASSUME NEW i \in 1..n
      PROVE  /\ MarkAt(i).uncertain <= Len(uncertain')
             /\ \A j \in 1..stack[i].len : rows'[j] = rows[j]
  <2>1. i \in 1..Len(stack)
    BY <1>2
  <2>2. i \in DOMAIN stack /\ stack[i].len \in Nat /\ stack[i].len <= Len(rows)
    BY <2>1, StackTypes
  <2>3. MarkAt(i).uncertain <= Len(uncertain) /\ MarkAt(i).uncertain \in Nat
    BY <2>2, MarkAtType DEF MarkInv
  <2> QED BY <1>2, <2>2, <2>3
<1> QED BY <1>1, <1>3, MarksKept

(***************************************************************************)
(* Steps that leave the stack alone.                                       *)
(***************************************************************************)
LEMMA MarksStay ==
  ASSUME TypeInv, TypeInv', NestInv, MarkInv, ~fatal,
         UNCHANGED <<stack, activeTransaction, saves, txMark>>,
         ~HasUnit \/ UNCHANGED <<queryMu, batch, batchMark, cycleMark>>,
         Len(uncertain) <= Len(uncertain'), \A i \in 1..Len(rows) : rows'[i] = rows[i],
         rowLedgerErr => rowLedgerErr'
  PROVE  MarkInv'
<1> DEFINE n == Len(stack)
<1>1. n \in Nat /\ n <= Len(stack) /\ Len(stack') = n
  BY StackTypes
<1>2. \A i \in 1..n : MarkAt(i)' = MarkAt(i)
  <2>1. CASE HasUnit
    BY <2>1, SameMarks
  <2>2. CASE ~HasUnit
    <3>1. n = TxDepth
      BY <2>2 DEF NestInv
    <3> QED BY <3>1, SavedMarks
  <2> QED BY <2>1, <2>2
<1>3. \A i \in 1..n : stack'[i] = stack[i] /\ MarkAt(i)' = MarkAt(i)
  BY <1>2
<1> HIDE DEF n
<1> QED BY <1>1, <1>3, MarksCut

\* A step that touches neither the ledger nor what it counts.
LEMMA LedgerStays ==
  ASSUME TypeInv, TypeInv', NestInv, MarkInv, CountInv, ~fatal,
         UNCHANGED <<fatal, stack, rows, attempted, activeTransaction, saves, txMark,
                     rowStats, rowLedger, uncertain>>,
         ~HasUnit \/ UNCHANGED <<queryMu, batch, batchMark, cycleMark>>,
         rowLedgerErr => rowLedgerErr',
         InsideCycle => /\ InsideCycle' /\ queryMu' = queryMu
                        /\ cycleRisk'[queryMu] = cycleRisk[queryMu]
                        /\ cycleFailed[queryMu] => cycleFailed'[queryMu]
  PROVE  MarkInv' /\ CountInv'
<1>1. Len(uncertain) <= Len(uncertain') /\ \A i \in 1..Len(rows) : rows'[i] = rows[i]
  BY CountTypes
<1>2. MarkInv'
  BY <1>1, MarksStay
<1>3. CountInv'
  BY CountSame
<1> QED BY <1>2, <1>3

LEMMA ResultInside ==
  ASSUME TypeInv, NEW c \in Clients, Holds(c), UNCHANGED queryMu, Succeed(c) \/ Fail(c)
  PROVE  /\ queryMu = c /\ (InsideCycle <=> pc[c] = "cycle") /\ (InsideCycle' <=> pc[c] = "cycle")
         /\ cycleFailed[c] => cycleFailed'[c]
         /\ pc[c] = "cycle" /\ Fail(c) => cycleFailed'[c]
<1>1. queryMu = c /\ c # None
  BY ClientAssumption DEF Holds
<1>2. pc'[c] = "cycle" <=> pc[c] = "cycle"
  <2>1. CASE Succeed(c)
    <3> DEFINE label == CASE pc[c] = "query" -> IF c \in Batchers THEN "query" ELSE "done"
                          [] pc[c] = "cycle" -> "cycle"
                          [] OTHER -> "rotate"
    <3>1. pc'[c] = label
      BY <2>1, LockTypes DEF Succeed, Goto
    <3> QED BY <3>1
  <2>2. CASE Fail(c)
    <3> DEFINE label == CASE pc[c] = "query" -> "failed"
                          [] pc[c] = "cycle" -> "cycle"
                          [] OTHER -> "rotate"
    <3>1. pc'[c] = label
      BY <2>2, LockTypes DEF Fail, Goto
    <3> QED BY <3>1
  <2> QED BY <2>1, <2>2
<1>3. DOMAIN cycleFailed = Clients
  BY DEF TypeInv, UnitType, Flags
<1>4. /\ cycleFailed[c] => cycleFailed'[c]
      /\ pc[c] = "cycle" /\ Fail(c) => cycleFailed'[c]
  BY <1>3 DEF Succeed, Fail, Set
<1> QED BY <1>1, <1>2, <1>4 DEF InsideCycle

LEMMA LocalLedger ==
  ASSUME TypeInv, TypeInv', NestInv, MarkInv, CountInv, ~fatal, NEW c \in Clients,
         \/ RefuseStatement(c) \/ RejectStatement(c) \/ Notice(c) \/ NoSuchSavepoint(c)
         \/ \E sample \in BOOLEAN : ProbeFails(c, sample)
  PROVE  MarkInv' /\ CountInv'
<1>1. /\ UNCHANGED <<fatal, stack, rows, attempted, activeTransaction, saves, txMark>>
      /\ UNCHANGED <<rowStats, rowLedger, uncertain>> /\ (rowLedgerErr => rowLedgerErr')
      /\ UNCHANGED <<queryMu, batch, batchMark, cycleMark, cycleRisk>>
  <2>1. CASE RefuseStatement(c) \/ RejectStatement(c) \/ Notice(c) \/ NoSuchSavepoint(c)
    <3>1. UNCHANGED <<backendVars, ledgerVars, activeTransaction, saves, txMark>> /\ StatementFrame
      BY <2>1 DEF RefuseStatement, RejectStatement, Notice, NoSuchSavepoint, txVars
    <3>2. UNCHANGED <<stack, rows, attempted, activeTransaction, saves, txMark>>
      BY <3>1 DEF backendVars
    <3>3. UNCHANGED <<rowStats, rowLedger, uncertain, rowLedgerErr>>
      BY <3>1 DEF ledgerVars
    <3>4. UNCHANGED <<fatal, queryMu, batch, batchMark, cycleMark, cycleRisk>>
      BY <3>1 DEF StatementFrame, batchVars
    <3> QED BY <3>2, <3>3, <3>4
  <2>2. ASSUME NEW sample \in BOOLEAN, ProbeFails(c, sample)
        PROVE  /\ UNCHANGED <<fatal, stack, rows, attempted, activeTransaction, saves, txMark>>
               /\ UNCHANGED <<rowStats, rowLedger, uncertain>>
               /\ UNCHANGED <<queryMu, batch, batchMark, cycleMark, cycleRisk>>
    BY <2>2 DEF ProbeFails, StatementFrame, txVars, batchVars
  <2>3. ASSUME NEW sample \in BOOLEAN, ProbeFails(c, sample) PROVE rowLedgerErr => rowLedgerErr'
    BY <2>3, Zenon DEF ProbeFails
  <2> QED BY <2>1, <2>2, <2>3
<1>2. Holds(c) /\ (Succeed(c) \/ Fail(c) \/ UNCHANGED <<pc, cycleFailed>>)
  BY DEF RefuseStatement, RejectStatement, Notice, NoSuchSavepoint, ProbeFails,
     AtStatement, AtControl, InCycle
<1>3. InsideCycle => /\ InsideCycle' /\ queryMu' = queryMu
                     /\ cycleRisk'[queryMu] = cycleRisk[queryMu]
                     /\ cycleFailed[queryMu] => cycleFailed'[queryMu]
  <2>1. CASE Succeed(c) \/ Fail(c)
    BY <1>1, <1>2, <2>1, ResultInside
  <2>2. CASE UNCHANGED <<pc, cycleFailed>>
    BY <1>1, <2>2 DEF InsideCycle
  <2> QED BY <1>2, <2>1, <2>2
<1> QED BY <1>1, <1>3, LedgerStays

(***************************************************************************)
(* Statements that write.                                                  *)
(***************************************************************************)
LEMMA AddedUncertain ==
  ASSUME NEW list \in Seq(Risks), NEW detail \in Risks \cup {NoRisk}
  PROVE  /\ Len(list) <= Len(AddUncertain(list, detail))
         /\ detail = NoRisk => AddUncertain(list, detail) = list
         /\ detail # NoRisk => AddUncertain(list, detail) # <<>>
<1>1. Len(list) \in Nat /\ DOMAIN list = 1..Len(list)
  OBVIOUS
<1>2. CASE detail = NoRisk \/ \E i \in DOMAIN list : list[i] = detail
  <2>1. AddUncertain(list, detail) = list
    BY <1>2 DEF AddUncertain
  <2>2. detail # NoRisk => list # <<>>
    BY <1>1, <1>2
  <2> QED BY <1>1, <2>1, <2>2
<1>3. CASE ~(detail = NoRisk \/ \E i \in DOMAIN list : list[i] = detail)
  <2>1. AddUncertain(list, detail) = Append(list, detail) /\ detail \in Risks
    BY <1>3 DEF AddUncertain
  <2>2. Len(Append(list, detail)) = Len(list) + 1 /\ Append(list, detail) \in Seq(Risks)
    BY <2>1
  <2>3. Append(list, detail) # <<>>
    <3>1. Len(Append(list, detail)) # 0
      BY <1>1, <2>2
    <3> QED BY <3>1, EmptySeq
  <2>4. Len(list) <= Len(Append(list, detail))
    BY <1>1, <2>2
  <2> QED BY <1>3, <2>1, <2>3, <2>4
<1> QED BY <1>2, <1>3

LEMMA RowAdded ==
  ASSUME TypeInv, NEW c \in Clients, NEW risk \in Risks \cup {NoRisk},
         rows' = Append(rows, [by |-> c, risk |-> risk])
  PROVE  /\ Len(rows') = Len(rows) + 1 /\ Len(rows) \in Nat
         /\ \A i \in 1..Len(rows) : rows'[i] = rows[i]
         /\ risk = NoRisk /\ Certain(Len(rows)) => Certain(Len(rows))'
<1> DEFINE row == [by |-> c, risk |-> risk]
<1>1. rows \in Seq(Row) /\ Len(rows) \in Nat
  BY StackTypes
<1>2. row.risk = risk
  OBVIOUS
<1>3. rows' = Append(rows, row)
  OBVIOUS
<1> HIDE DEF row
<1>4. /\ Len(rows') = Len(rows) + 1
      /\ \A i \in 1..Len(rows) : rows'[i] = rows[i]
      /\ rows'[Len(rows) + 1] = row
  BY <1>1, <1>3
<1>5. ASSUME risk = NoRisk, Certain(Len(rows)), NEW i \in 1..(Len(rows) + 1)
      PROVE  rows'[i].risk = NoRisk
  <2>1. CASE i = Len(rows) + 1
    BY <1>2, <1>4, <1>5, <2>1
  <2>2. CASE i # Len(rows) + 1
    <3>1. i \in 1..Len(rows)
      BY <1>1, <2>2
    <3> QED BY <1>4, <1>5, <3>1 DEF Certain
  <2> QED BY <2>1, <2>2
<1>6. risk = NoRisk /\ Certain(Len(rows)) => Certain(Len(rows))'
  BY <1>4, <1>5 DEF Certain
<1> QED BY <1>1, <1>4, <1>6

LEMMA RegularLedger ==
  ASSUME TypeInv, TypeInv', NestInv, MarkInv, CountInv, ~fatal, NEW c \in Clients,
         NEW risk \in Risks \cup {NoRisk}, Regular(c, risk)
  PROVE  MarkInv' /\ CountInv'
<1>1. /\ UNCHANGED <<stack, activeTransaction, saves, txMark, queryMu, batch, batchMark>>
      /\ UNCHANGED <<cycleMark, cycleRisk, rowLedgerErr, fatal>>
      /\ Succeed(c) /\ rows' = Append(rows, [by |-> c, risk |-> risk])
      /\ attempted' = attempted + 1 /\ uncertain' = AddUncertain(uncertain, risk)
      /\ ReconcileRowChanges(risk = NoRisk)
  BY DEF Regular, StatementFrame, txVars, batchVars, ReconcileRowChanges
<1>2. Holds(c) /\ (pc[c] = "cycle" => ~cycleFailed[c])
  BY DEF Regular, AtRegular, InCycle
<1>3. queryMu = c /\ (InsideCycle <=> pc[c] = "cycle") /\ (InsideCycle' <=> pc[c] = "cycle")
  BY <1>1, <1>2, ResultInside
<1>4. /\ Len(rows') = Len(rows) + 1 /\ Len(rows) \in Nat
      /\ \A i \in 1..Len(rows) : rows'[i] = rows[i]
      /\ risk = NoRisk /\ Certain(Len(rows)) => Certain(Len(rows))'
  BY <1>1, RowAdded
<1>5. /\ Len(uncertain) <= Len(uncertain')
      /\ risk = NoRisk => uncertain' = uncertain
      /\ risk # NoRisk => uncertain' # <<>>
  BY <1>1, AddedUncertain, CountTypes
<1>6. MarkInv'
  BY <1>1, <1>4, <1>5, MarksStay
<1>7. rowStats' = attempted'
  BY <1>1 DEF ReconcileRowChanges
<1>8. ASSUME uncertain' = <<>>, ~(InsideCycle' /\ cycleRisk'[queryMu'] # {})
      PROVE  Certain(Len(rows))' /\ (rowLedgerErr' \/ rowLedger' + (attempted' - rowStats') = Len(rows'))
  <2>1. risk = NoRisk /\ uncertain = <<>>
    BY <1>5, <1>8
  <2>2. Certain(Len(rows)) /\ (rowLedgerErr \/ rowLedger + (attempted - rowStats) = Len(rows))
    BY <1>1, <1>2, <1>3, <1>8, <2>1 DEF CountInv
  <2>3. CASE rowLedgerErr
    BY <1>1, <1>4, <2>1, <2>2, <2>3
  <2>4. CASE ~rowLedgerErr
    <3>1. rowLedger' = rowLedger + (attempted' - rowStats)
      BY <1>1, <2>1, <2>4 DEF ReconcileRowChanges
    <3>2. rowLedger \in Nat /\ attempted \in Nat /\ rowStats \in Nat
      BY CountTypes
    <3>3. rowLedger' + (attempted' - rowStats') = Len(rows')
      BY <1>1, <1>4, <1>7, <2>2, <2>4, <3>1, <3>2
    <3> QED BY <1>4, <2>1, <2>2, <3>3
  <2> QED BY <2>3, <2>4
<1>9. CountInv'
  BY <1>7, <1>8 DEF CountInv
<1> QED BY <1>6, <1>9

LEMMA RegularFailsLedger ==
  ASSUME TypeInv, TypeInv', NestInv, MarkInv, CountInv, ~fatal, NEW c \in Clients, RegularFails(c)
  PROVE  MarkInv' /\ CountInv'
<1>1. /\ UNCHANGED <<stack, activeTransaction, saves, txMark, queryMu, batch, batchMark>>
      /\ UNCHANGED <<cycleMark, cycleRisk, rowLedgerErr, fatal, rows, uncertain, rowLedger>>
      /\ Fail(c) /\ rowStats' = attempted'
  BY DEF RegularFails, StatementFrame, txVars, batchVars, ReconcileRowChanges
<1>2. Holds(c)
  BY DEF RegularFails, AtRegular, InCycle
<1>3. /\ queryMu = c /\ (InsideCycle <=> pc[c] = "cycle") /\ (InsideCycle' <=> pc[c] = "cycle")
      /\ pc[c] = "cycle" => cycleFailed'[c]
  BY <1>1, <1>2, ResultInside
<1>4. Len(uncertain) <= Len(uncertain') /\ \A i \in 1..Len(rows) : rows'[i] = rows[i]
  BY <1>1, CountTypes
<1>5. MarkInv'
  BY <1>1, <1>4, MarksStay
<1>6. rowLedger \in Nat /\ attempted \in Nat /\ attempted' \in Nat
  BY CountTypes DEF TypeInv, BackendInv, BackendType
<1>7. rowLedger' + (attempted' - rowStats') = rowLedger
  BY <1>1, <1>6, CountTypes, NothingUnseen
<1>8. ~InsideCycle => rowLedger + (attempted - rowStats) = rowLedger
  BY <1>6, CountTypes, NothingUnseen DEF CountInv
<1>9. CountInv'
  BY <1>1, <1>3, <1>7, <1>8 DEF CountInv, Certain
<1> QED BY <1>5, <1>9

(***************************************************************************)
(* Transaction control and savepoints.                                     *)
(***************************************************************************)
\* It is not part of a cycle, and its result does not make it one.
LEMMA ControlInside ==
  ASSUME TypeInv, NEW c \in Clients, AtControl(c), StatementFrame, Succeed(c)
  PROVE  /\ ~InsideCycle /\ ~InsideCycle' /\ ~HasUnit
         /\ UNCHANGED <<fatal, queryMu, batch, batchMark, cycleMark, cycleRisk>>
<1>1. Holds(c) /\ pc[c] # "cycle"
  BY DEF AtControl, AtStatement
<1>2. UNCHANGED <<fatal, queryMu, batch, batchMark, cycleMark, cycleRisk>>
  BY DEF StatementFrame, batchVars
<1> QED BY <1>1, <1>2, ControlUnit, ResultInside

LEMMA SavepointTaken ==
  ASSUME NEW name, Savepoint(name)
  PROVE  UNCHANGED <<rows, attempted>> /\ stack' = Append(stack, [name |-> name, len |-> Len(rows)])
BY DEF Savepoint

LEMMA BeginLedger ==
  ASSUME TypeInv, TypeInv', OneOpenTransaction, NestInv, MarkInv, CountInv, ~fatal,
         NEW c \in Clients, Begin(c)
  PROVE  MarkInv' /\ CountInv'
<1>1. /\ ~InsideCycle /\ ~InsideCycle' /\ ~HasUnit
      /\ UNCHANGED <<fatal, queryMu, batch, batchMark, cycleMark, cycleRisk>>
  BY ControlInside DEF Begin
<1>2. activeTransaction = None /\ c # None
  BY ClientAssumption DEF Begin, SharedLeaseHeldByOther, OneOpenTransaction
<1>3. Pushed(SavepointName(c, "t", 0))
  BY SavepointPushes DEF Begin
<1>4. Len(stack) = 0
  BY <1>1, <1>2 DEF NestInv, TxDepth
<1>5. activeTransaction' = c /\ saves'[c] = <<>> /\ txMark'[c] = TakeMark
  BY DEF Begin, Set, TypeInv, TransactionType, Marks
<1>6. TxDepth' = 1
  BY <1>2, <1>5 DEF TxDepth
<1>7. \A i : i = Len(stack) + 1 => MarkAt(i)' = TakeMark
  <2>1. \A i : i = 1 => MarkAt(i)' = txMark'[c]
    BY <1>5, <1>6 DEF MarkAt
  <2>2. Len(stack) + 1 = 1
    BY <1>4
  <2> QED BY <1>5, <2>1, <2>2
<1>8. UNCHANGED <<rows, attempted, rowStats, rowLedger, rowLedgerErr, uncertain>>
  BY SavepointTaken DEF Begin, ledgerVars
<1>9. \A i \in 1..Len(stack) : MarkAt(i)' = MarkAt(i)
  BY <1>4
<1>10. MarkInv'
  BY <1>1, <1>3, <1>7, <1>8, <1>9, MarkPushed
<1>11. CountInv'
  BY <1>1, <1>8, CountSame
<1> QED BY <1>10, <1>11

LEMMA EmptyMarks ==
  ASSUME TypeInv', Len(stack') = 0
  PROVE  MarkInv'
<1>1. DOMAIN stack' = {}
  <2>1. stack' \in Seq(Saved)
    BY DEF TypeInv, BackendInv, BackendType
  <2> QED BY <2>1
<1> QED BY <1>1 DEF MarkInv

LEMMA TransactionMark ==
  ASSUME TypeInv, OneOpenTransaction, NestInv, ~fatal, NEW c \in Clients, tx[c]
  PROVE  \A i : i = 1 => MarkAt(i) = txMark[c]
<1>1. activeTransaction = c /\ c # None
  BY ClientAssumption DEF OneOpenTransaction
<1>2. ~(1 > TxDepth)
  BY <1>1, DepthTypes
<1> QED BY <1>1, <1>2 DEF MarkAt

\* The two commands that end or roll back to a savepoint leave the counters.
LEMMA CountersKept ==
  ASSUME NEW name,
         RollbackRelease(name) \/ ReleaseSavepoint(name) \/ RollbackToSavepoint(name)
  PROVE  attempted' = attempted
BY DEF RollbackRelease, ReleaseSavepoint, RollbackToSavepoint

\* A transaction is rolled back as a whole, by ROLLBACK, COMMIT of a failed
\* one or a disconnect.
LEMMA WholeRollback ==
  ASSUME TypeInv, TypeInv', OneOpenTransaction, NestInv, MarkInv, ~fatal,
         NEW c \in Clients, tx[c],
         RollbackRelease(SavepointName(c, "t", 0)), RestoreLedger(txMark[c]), ~InsideCycle'
  PROVE  MarkInv' /\ CountInv'
<1> DEFINE name == SavepointName(c, "t", 0)
<1>1. /\ 1 \in DOMAIN stack /\ stack[1].name = name
      /\ \A k \in DOMAIN stack : stack[k].name = name => k = 1
  BY TransactionPlace
<1>2. RollbackRelease(name)
  OBVIOUS
<1>3. attempted' = attempted
  BY CountersKept
<1> HIDE DEF name
<1>4. Left(1 - 1, stack[1].len)
  BY <1>1, <1>2, RollbackLeaves
<1>5. Len(stack') = 0 /\ Prefix(stack[1].len)
  BY <1>4 DEF Left, Prefix
<1>6. MarkInv'
  BY <1>5, EmptyMarks
<1>7. PICK k \in DOMAIN stack : k = 1
  BY <1>1
<1>8. MarkAt(k) = txMark[c]
  BY <1>7, TransactionMark
<1>9. RestoreLedger(MarkAt(k))
  BY <1>8 DEF RestoreLedger
<1>10. CountInv'
  BY <1>3, <1>5, <1>7, <1>9, RolledCount
<1> QED BY <1>6, <1>10

LEMMA EndTransactionLedger ==
  ASSUME TypeInv, TypeInv', OneOpenTransaction, NestInv, MarkInv, CountInv, ~fatal,
         NEW c \in Clients, Commit(c) \/ Rollback(c)
  PROVE  MarkInv' /\ CountInv'
<1>1. /\ ~InsideCycle /\ ~InsideCycle' /\ ~HasUnit
      /\ UNCHANGED <<fatal, queryMu, batch, batchMark, cycleMark, cycleRisk>>
  BY ControlInside DEF Commit, Rollback
<1>2. tx[c]
  BY DEF Commit, Rollback
<1>3. \/ RollbackRelease(SavepointName(c, "t", 0)) /\ RestoreLedger(txMark[c])
      \/ ReleaseSavepoint(SavepointName(c, "t", 0)) /\ UNCHANGED ledgerVars
  BY DEF Commit, Rollback
<1>4. CASE RollbackRelease(SavepointName(c, "t", 0)) /\ RestoreLedger(txMark[c])
  BY <1>1, <1>2, <1>4, WholeRollback
<1>5. CASE ReleaseSavepoint(SavepointName(c, "t", 0)) /\ UNCHANGED ledgerVars
  <2>1. UNCHANGED <<rows, attempted, rowStats, rowLedger, rowLedgerErr, uncertain>>
    BY <1>5 DEF ReleaseSavepoint, ledgerVars
  <2>2. CountInv'
    BY <1>1, <2>1, CountSame
  <2> DEFINE name == SavepointName(c, "t", 0)
  <2>3. /\ 1 \in DOMAIN stack /\ \A k \in DOMAIN stack : stack[k].name = name => k = 1
    BY <1>2, TransactionPlace
  <2>4. ReleaseSavepoint(name)
    BY <1>5
  <2> HIDE DEF name
  <2>5. Left(1 - 1, Len(rows))
    BY <2>3, <2>4, ReleaseLeaves
  <2>6. Len(stack') = 0
    BY <2>5 DEF Left
  <2> QED BY <2>2, <2>6, EmptyMarks
<1> QED BY <1>3, <1>4, <1>5

LEMMA ChainLedger ==
  ASSUME TypeInv, TypeInv', OneOpenTransaction, NestInv, MarkInv, CountInv, ~fatal,
         NEW c \in Clients, NEW commit \in BOOLEAN, Chain(c, commit)
  PROVE  MarkInv' /\ CountInv'
<1> DEFINE name == SavepointName(c, "t", 0)
           keep == commit /\ ~txFailed[c]
<1>1. /\ ~InsideCycle /\ ~InsideCycle' /\ ~HasUnit
      /\ UNCHANGED <<fatal, queryMu, batch, batchMark, cycleMark, cycleRisk>>
  BY ControlInside DEF Chain
<1>2. activeTransaction = c /\ tx[c] /\ c # None
  BY ClientAssumption DEF Chain, OneOpenTransaction
<1>3. Restarted(c)
  BY ChainNest
<1>4. Len(stack') = 1 /\ stack'[1].len = Len(rows')
  BY <1>3 DEF Restarted
<1>5. activeTransaction' = c /\ saves'[c] = <<>> /\ attempted' = attempted
  BY <1>2 DEF Chain, Set, TypeInv, TransactionType
<1>6. txMark'[c] = [rows |-> rowLedger', uncertain |-> Len(uncertain')]
  BY DEF Chain, Set, TypeInv, TransactionType, Marks
<1>7. TxDepth' = 1
  BY <1>2, <1>5 DEF TxDepth
<1>8. \A i : i = 1 => MarkAt(i)' = [rows |-> rowLedger', uncertain |-> Len(uncertain')]
  <2>1. \A i : i = 1 => MarkAt(i)' = txMark'[c]
    BY <1>5, <1>7 DEF MarkAt
  <2> QED BY <1>6, <2>1
<1>9. CountInv'
  <2>1. CASE keep
    <3>1. UNCHANGED <<rows, ledgerVars>>
      BY <2>1 DEF Chain
    <3>2. UNCHANGED <<rows, attempted, rowStats, rowLedger, rowLedgerErr, uncertain>>
      BY <1>5, <3>1 DEF ledgerVars
    <3> QED BY <1>1, <3>2, CountSame
  <2>2. CASE ~keep
    <3>1. PICK at \in DOMAIN stack : Innermost(name, at) /\ rows' = SubSeq(rows, 1, stack[at].len)
      BY <2>2 DEF Chain
    <3>2. /\ 1 \in DOMAIN stack /\ stack[1].name = name
          /\ \A k \in DOMAIN stack : stack[k].name = name => k = 1
      BY <1>2, TransactionPlace
    <3>3. at = 1
      BY <3>1, <3>2 DEF Innermost
    <3>4. rows \in Seq(Row) /\ stack[at].len \in Nat /\ stack[at].len <= Len(rows) /\ Len(rows) \in Nat
      BY <3>1, StackTypes
    <3>5. Prefix(stack[at].len)
      BY <3>1, <3>4, SubSeqProperties DEF Prefix
    <3>6. RestoreLedger(txMark[c])
      BY <2>2 DEF Chain
    <3>7. MarkAt(at) = txMark[c]
      BY <1>2, <3>3, TransactionMark
    <3>8. RestoreLedger(MarkAt(at))
      BY <3>6, <3>7 DEF RestoreLedger
    <3> QED BY <1>1, <1>5, <3>5, <3>8, RolledCount
  <2> QED BY <2>1, <2>2
<1>10. MarkInv'
  BY <1>1, <1>4, <1>8, <1>9, MarkFresh
<1> QED BY <1>9, <1>10

LEMMA MakeSavepointLedger ==
  ASSUME TypeInv, TypeInv', OneOpenTransaction, NestInv, MarkInv, CountInv, ~fatal,
         NEW c \in Clients, NEW save \in SaveNames, MakeSavepoint(c, save)
  PROVE  MarkInv' /\ CountInv'
<1> DEFINE n == Len(saves[c])
           saved == [name |-> save, mark |-> TakeMark]
<1>1. /\ ~InsideCycle /\ ~InsideCycle' /\ ~HasUnit
      /\ UNCHANGED <<fatal, queryMu, batch, batchMark, cycleMark, cycleRisk>>
  BY ControlInside DEF MakeSavepoint
<1>2. activeTransaction = c /\ c # None
  BY ClientAssumption DEF MakeSavepoint, OneOpenTransaction
<1>3. Pushed(SavepointName(c, "u", n + 1))
  BY SavepointPushes DEF MakeSavepoint
<1>4. saves[c] \in Seq(ClientSavepoint) /\ n \in Nat
  BY DepthTypes
<1>5. saves' = Set(saves, c, Append(saves[c], saved)) /\ UNCHANGED <<activeTransaction, txMark>>
  BY DEF MakeSavepoint
<1>6. saved.mark = TakeMark
  OBVIOUS
<1> HIDE DEF saved
<1>7. saves'[c] = Append(saves[c], saved)
  BY <1>5 DEF Set, TypeInv, TransactionType
<1>8. /\ Len(saves'[c]) = n + 1 /\ saves'[c][n + 1] = saved
      /\ \A i \in 1..n : saves'[c][i] = saves[c][i]
  BY <1>4, <1>7
<1>9. TxDepth = n + 1 /\ TxDepth' = n + 2 /\ Len(stack) = n + 1
  <2>1. TxDepth = n + 1
    BY <1>2 DEF TxDepth
  <2>2. TxDepth' = Len(saves'[c]) + 1
    BY <1>2, <1>5 DEF TxDepth
  <2>3. Len(stack) = TxDepth
    BY <1>1 DEF NestInv
  <2> QED BY <1>4, <1>8, <2>1, <2>2, <2>3
<1> HIDE DEF n
<1>10. \A i \in 1..Len(stack) : MarkAt(i)' = MarkAt(i)
  <2> SUFFICES ASSUME NEW i \in 1..(n + 1) PROVE MarkAt(i)' = MarkAt(i)
    BY <1>9
  <2>1. i \in 1..TxDepth /\ i <= TxDepth' /\ TxDepth' \in Nat
    BY <1>4, <1>9
  <2>2. i # 1 => saves'[c][i - 1] = saves[c][i - 1]
    <3>1. i # 1 => i - 1 \in 1..n
      BY <1>4
    <3> QED BY <1>8, <3>1
  <2> QED BY <1>2, <1>5, <2>1, <2>2, LowMarks
<1>11. \A i : i = Len(stack) + 1 => MarkAt(i)' = TakeMark
  <2> SUFFICES ASSUME NEW i, i = n + 2 PROVE MarkAt(i)' = TakeMark
    BY <1>4, <1>9
  <2>1. ~(i > TxDepth') /\ i # 1 /\ i - 1 = n + 1
    BY <1>4, <1>9
  <2>2. MarkAt(i)' = saves'[c][i - 1].mark
    BY <1>2, <1>5, <2>1 DEF MarkAt
  <2> QED BY <1>6, <1>8, <2>1, <2>2
<1>12. UNCHANGED <<rows, attempted, rowStats, rowLedger, rowLedgerErr, uncertain>>
  BY SavepointTaken DEF MakeSavepoint, ledgerVars
<1>13. MarkInv'
  BY <1>1, <1>3, <1>10, <1>11, <1>12, MarkPushed
<1>14. CountInv'
  BY <1>1, <1>12, CountSame
<1> QED BY <1>13, <1>14

LEMMA KeepSavepointsLedger ==
  ASSUME TypeInv, TypeInv', OneOpenTransaction, NestInv, MarkInv, CountInv, ~fatal,
         NEW c \in Clients, NEW i \in 1..MaxSaves, RollbackTo(c, i) \/ Release(c, i)
  PROVE  MarkInv' /\ CountInv'
<1> DEFINE name == SavepointName(c, "u", i)
<1>1. /\ ~InsideCycle /\ ~InsideCycle' /\ ~HasUnit
      /\ UNCHANGED <<fatal, queryMu, batch, batchMark, cycleMark, cycleRisk>>
  BY ControlInside DEF RollbackTo, Release
<1>2. /\ activeTransaction = c /\ c # None /\ tx[c] /\ i \in DOMAIN saves[c]
      /\ UNCHANGED <<activeTransaction, txMark>>
  BY ClientAssumption DEF RollbackTo, Release, OneOpenTransaction
<1>3. /\ i + 1 \in DOMAIN stack /\ i + 1 <= TxDepth /\ stack[i + 1].name = name
      /\ \A k \in DOMAIN stack : stack[k].name = name => k = i + 1
  BY <1>2, ClientPlace
<1>4. saves[c] \in Seq(ClientSavepoint) /\ Len(saves[c]) \in Nat /\ i \in 1..Len(saves[c])
  BY <1>2, DepthTypes
<1>5. TxDepth = Len(saves[c]) + 1
  BY <1>2 DEF TxDepth
\* What the two commands leave of the client's savepoints.
<1>6. ASSUME NEW n \in 0..i, saves'[c] = SubSeq(saves[c], 1, n)
      PROVE  \A j \in 1..(n + 1) : MarkAt(j)' = MarkAt(j)
  <2>1. /\ Len(saves'[c]) = n /\ \A j \in 1..n : saves'[c][j] = saves[c][j]
    BY <1>4, <1>6, SubSeqProperties
  <2>2. TxDepth' = n + 1
    BY <1>2, <2>1 DEF TxDepth
  <2> SUFFICES ASSUME NEW j \in 1..(n + 1) PROVE MarkAt(j)' = MarkAt(j)
    OBVIOUS
  <2>3. j \in 1..TxDepth /\ j <= TxDepth' /\ TxDepth' \in Nat
    BY <1>4, <1>5, <2>2
  <2>4. j # 1 => saves'[c][j - 1] = saves[c][j - 1]
    <3>1. j # 1 => j - 1 \in 1..n
      OBVIOUS
    <3> QED BY <2>1, <3>1
  <2> QED BY <1>2, <2>3, <2>4, LowMarks
<1>7. CASE RollbackTo(c, i)
  <2>1. saves'[c] = SubSeq(saves[c], 1, i)
    BY <1>7 DEF RollbackTo, Set, TypeInv, TransactionType
  <2>2. \A j \in 1..(i + 1) : MarkAt(j)' = MarkAt(j)
    BY <1>6, <2>1
  <2>3. RollbackToSavepoint(name) /\ RestoreLedger(saves[c][i].mark)
    BY <1>7 DEF RollbackTo
  <2>4. attempted' = attempted
    BY <2>3, CountersKept
  <2> HIDE DEF name
  <2>5. Left(i + 1, stack[i + 1].len)
    BY <1>3, <2>3, RollbackToLeaves
  <2>6. PICK k \in DOMAIN stack : k = i + 1
    BY <1>3
  <2>7. MarkAt(k) = saves[c][i].mark
    <3>1. ~(k > TxDepth) /\ k # 1 /\ k - 1 = i
      BY <1>4, <1>5, <2>6
    <3> QED BY <1>2, <3>1 DEF MarkAt
  <2>8. RestoreLedger(MarkAt(k))
    BY <2>3, <2>7 DEF RestoreLedger
  <2>9. Left(k, stack[k].len) /\ \A j \in 1..k : MarkAt(j)' = MarkAt(j)
    BY <2>2, <2>5, <2>6
  <2> QED BY <1>1, <2>4, <2>8, <2>9, RolledBack
<1>8. CASE Release(c, i)
  <2>1. saves'[c] = SubSeq(saves[c], 1, i - 1)
    BY <1>8 DEF Release, Set, TypeInv, TransactionType
  <2>2. i - 1 \in 0..i /\ (i - 1) + 1 = i /\ (i + 1) - 1 = i
    BY <1>4
  <2>3. \A j \in 1..i : MarkAt(j)' = MarkAt(j)
    BY <1>6, <2>1, <2>2
  <2>4. ReleaseSavepoint(name) /\ UNCHANGED ledgerVars
    BY <1>8 DEF Release
  <2>5. UNCHANGED <<rows, attempted, rowStats, rowLedger, rowLedgerErr, uncertain>>
    BY <2>4 DEF ReleaseSavepoint, ledgerVars
  <2> HIDE DEF name
  <2>6. Left(i, Len(rows))
    BY <1>3, <2>2, <2>4, ReleaseLeaves
  <2>7. i \in Nat /\ i <= Len(stack)
    BY <1>3, <1>4, StackTypes
  <2>8. Len(stack') = i /\ \A j \in 1..i : stack'[j] = stack[j] /\ MarkAt(j)' = MarkAt(j)
    BY <2>3, <2>6 DEF Left
  <2>9. Len(uncertain) <= Len(uncertain') /\ \A j \in 1..Len(rows) : rows'[j] = rows[j]
    BY <2>5, CountTypes
  <2>10. MarkInv'
    BY <2>5, <2>7, <2>8, <2>9, MarksCut
  <2>11. CountInv'
    BY <1>1, <2>5, CountSame
  <2> QED BY <2>10, <2>11
<1> QED BY <1>7, <1>8

(***************************************************************************)
(* Batches and cycles.                                                     *)
(***************************************************************************)
UnitMark == IF batch[queryMu] THEN batchMark[queryMu] ELSE cycleMark[queryMu]

LEMMA UnitMarkAt ==
  ASSUME TypeInv, NestInv, ~fatal, HasUnit
  PROVE  \A i : i = Len(stack) => MarkAt(i) = UnitMark
<1>1. Len(stack) > TxDepth
  BY UnitPlace, DepthTypes
<1> QED BY <1>1 DEF MarkAt, UnitMark

LEMMA UnitPushed ==
  ASSUME TypeInv, TypeInv', NestInv, MarkInv, CountInv, ~fatal, ~HasUnit, ~InsideCycle,
         NEW name, Pushed(name), UnitMark' = TakeMark,
         UNCHANGED <<activeTransaction, saves, txMark, uncertain, rowLedger, rowLedgerErr>>
  PROVE  MarkInv'
<1>1. Len(stack) = TxDepth
  BY DEF NestInv
<1>2. TxDepth' = TxDepth /\ \A i \in 1..Len(stack) : MarkAt(i)' = MarkAt(i)
  BY <1>1, SavedMarks
<1>3. \A i : i = Len(stack) + 1 => MarkAt(i)' = TakeMark
  <2>1. Len(stack) + 1 > TxDepth'
    BY <1>1, <1>2, DepthTypes
  <2> QED BY <2>1 DEF MarkAt, UnitMark
<1> QED BY <1>2, <1>3, MarkPushed

LEMMA UnitRolledBack ==
  ASSUME TypeInv, TypeInv', NestInv, MarkInv, ~fatal, HasUnit, ~InsideCycle',
         RollbackRelease(UnitName), RestoreLedger(UnitMark),
         UNCHANGED <<activeTransaction, saves, txMark>>
  PROVE  MarkInv' /\ CountInv'
<1>1. /\ Len(stack) \in DOMAIN stack /\ Len(stack) = TxDepth + 1 /\ TxDepth \in Nat
      /\ \A k \in DOMAIN stack : stack[k].name = UnitName => k = Len(stack)
  BY UnitPlace, DepthTypes
<1>2. PICK k \in DOMAIN stack : k = Len(stack)
  BY <1>1
<1>3. attempted' = attempted
  BY CountersKept
<1>4. Left(k - 1, stack[k].len)
  BY <1>1, <1>2, RollbackLeaves
<1>5. MarkAt(k) = UnitMark
  BY <1>2, UnitMarkAt
<1>6. RestoreLedger(MarkAt(k))
  BY <1>5 DEF RestoreLedger
<1>7. k - 1 = TxDepth
  BY <1>1, <1>2
<1>8. \A i \in 1..(k - 1) : MarkAt(i)' = MarkAt(i)
  BY <1>7, SavedMarks
<1> QED BY <1>3, <1>4, <1>6, <1>8, RolledBack

LEMMA UnitReleased ==
  ASSUME TypeInv, TypeInv', NestInv, MarkInv, ~fatal, HasUnit,
         ReleaseSavepoint(UnitName), UNCHANGED <<activeTransaction, saves, txMark>>,
         Len(uncertain) <= Len(uncertain'), rowLedgerErr => rowLedgerErr'
  PROVE  MarkInv' /\ rows' = rows /\ attempted' = attempted
<1>1. /\ Len(stack) \in DOMAIN stack /\ Len(stack) = TxDepth + 1 /\ TxDepth \in Nat
      /\ \A k \in DOMAIN stack : stack[k].name = UnitName => k = Len(stack)
  BY UnitPlace, DepthTypes
<1>2. PICK k \in DOMAIN stack : k = Len(stack)
  BY <1>1
<1>3. Left(k - 1, Len(rows)) /\ rows' = rows
  BY <1>1, <1>2, ReleaseLeaves
<1>4. k - 1 = TxDepth /\ TxDepth <= Len(stack)
  BY <1>1, <1>2
<1>5. Len(stack') = TxDepth /\ \A i \in 1..TxDepth : stack'[i] = stack[i]
  BY <1>3, <1>4 DEF Left
<1>6. \A i \in 1..TxDepth : MarkAt(i)' = MarkAt(i)
  BY SavedMarks
<1>7. \A i \in 1..Len(rows) : rows'[i] = rows[i]
  BY <1>3
<1>8. MarkInv'
  BY <1>1, <1>4, <1>5, <1>6, <1>7, MarksCut
<1> QED BY <1>3, <1>8, CountersKept

LEMMA QueryLedger ==
  ASSUME TypeInv, TypeInv', LockInv, NestInv, MarkInv, CountInv, ~fatal, NEW c \in Clients,
         (\E wrap \in BOOLEAN : StartQuery(c, wrap)) \/ FinishQuery(c)
  PROVE  MarkInv' /\ CountInv'
<1> DEFINE name == SavepointName(c, "b", 0)
<1>1. c # None
  BY ClientAssumption
<1>2. UNCHANGED <<fatal, activeTransaction, saves, txMark, cycleMark, cycleRisk, cycleFailed>>
  BY DEF StartQuery, FinishQuery, txVars, cycleVars
<1>3. ASSUME NEW wrap \in BOOLEAN, StartQuery(c, wrap) PROVE MarkInv' /\ CountInv'
  <2>1. ~HasUnit /\ ~InsideCycle
    <3>1. queryMu = None \/ (queryMu = c /\ pc[c] = "sync")
      BY <1>3 DEF StartQuery, Holds
    <3> QED BY <3>1 DEF HasUnit, LockInv, InsideCycle
  <2>2. queryMu' = c /\ batch'[c] = wrap
    BY <1>3, LockTypes DEF StartQuery, Set
  <2>3. UNCHANGED <<rowStats, rowLedger, rowLedgerErr, uncertain>>
    BY <1>3 DEF StartQuery, ledgerVars
  <2>4. CASE wrap
    <3>1. Savepoint(name) /\ batchMark' = Set(batchMark, c, TakeMark)
      BY <1>3, <2>4 DEF StartQuery
    <3>2. batchMark'[c] = TakeMark
      BY <3>1 DEF Set, TypeInv, UnitType, Marks
    <3>3. UnitMark' = TakeMark
      BY <2>2, <2>4, <3>2 DEF UnitMark
    <3>4. Pushed(name) /\ UNCHANGED <<rows, attempted>>
      BY <3>1, SavepointPushes, SavepointTaken
    <3> HIDE DEF name
    <3>5. MarkInv'
      BY <1>2, <2>1, <2>3, <3>3, <3>4, UnitPushed
    <3>6. CountInv'
      BY <1>2, <2>1, <2>3, <3>4, CountSame
    <3> QED BY <3>5, <3>6
  <2>5. CASE ~wrap
    <3>1. UNCHANGED <<stack, rows, attempted>>
      BY <1>3, <2>5 DEF StartQuery, backendVars
    <3> QED BY <1>2, <2>1, <2>3, <3>1, LedgerStays
  <2> QED BY <2>4, <2>5
<1>4. CASE FinishQuery(c)
  <2>1. queryMu = c /\ queryMu' = None /\ pc[c] # "cycle"
    BY <1>4 DEF FinishQuery, Holds
  <2>2. (HasUnit <=> batch[c]) /\ (batch[c] => UnitName = name /\ UnitMark = batchMark[c])
    BY <1>1, <2>1 DEF HasUnit, UnitName, UnitMark
  <2>3. ~InsideCycle /\ ~InsideCycle'
    BY <2>1 DEF InsideCycle
  <2>4. CASE ~batch[c]
    <3>1. UNCHANGED <<stack, rows, attempted, rowStats, rowLedger, rowLedgerErr, uncertain>>
      BY <1>4, <2>4 DEF FinishQuery, backendVars, ledgerVars
    <3> QED BY <1>2, <2>2, <2>3, <2>4, <3>1, LedgerStays
  <2>5. CASE batch[c] /\ pc[c] = "failed"
    <3>1. RollbackRelease(UnitName) /\ RestoreLedger(UnitMark)
      BY <1>4, <2>2, <2>5 DEF FinishQuery, RestoreLedger
    <3> QED BY <1>2, <2>2, <2>3, <2>5, <3>1, UnitRolledBack
  <2>6. CASE batch[c] /\ pc[c] # "failed"
    <3>1. ReleaseSavepoint(UnitName) /\ UNCHANGED ledgerVars
      BY <1>4, <2>2, <2>6 DEF FinishQuery
    <3>2. UNCHANGED <<rowStats, rowLedger, rowLedgerErr, uncertain>>
      BY <3>1 DEF ledgerVars
    <3>3. Len(uncertain) <= Len(uncertain')
      BY <3>2, CountTypes
    <3>4. MarkInv' /\ rows' = rows /\ attempted' = attempted
      BY <1>2, <2>2, <2>6, <3>1, <3>2, <3>3, UnitReleased
    <3>5. CountInv'
      BY <1>2, <2>3, <3>2, <3>4, CountSame
    <3> QED BY <3>4, <3>5
  <2> QED BY <2>4, <2>5, <2>6
<1> QED BY <1>3, <1>4

LEMMA StatementLedger ==
  ASSUME TypeInv, TypeInv', OneOpenTransaction, LockInv, NestInv, MarkInv, CountInv,
         ~fatal, NEW c \in Clients, StatementNext(c)
  PROVE  MarkInv' /\ CountInv'
<1>1. CASE (\E wrap \in BOOLEAN : StartQuery(c, wrap)) \/ FinishQuery(c)
  BY <1>1, QueryLedger
<1>2. CASE \/ RefuseStatement(c) \/ RejectStatement(c) \/ Notice(c) \/ NoSuchSavepoint(c)
           \/ \E sample \in BOOLEAN : ProbeFails(c, sample)
  BY <1>2, LocalLedger
<1>3. CASE Begin(c) \/ Commit(c) \/ Rollback(c) \/ \E commit \in BOOLEAN : Chain(c, commit)
  BY <1>3, BeginLedger, EndTransactionLedger, ChainLedger
<1>4. CASE \/ \E name \in SaveNames : MakeSavepoint(c, name)
           \/ \E i \in 1..MaxSaves : RollbackTo(c, i) \/ Release(c, i)
  BY <1>4, MakeSavepointLedger, KeepSavepointsLedger
<1>5. CASE (\E risk \in Risks \cup {NoRisk} : Regular(c, risk)) \/ RegularFails(c)
  BY <1>5, RegularLedger, RegularFailsLedger
<1> QED BY <1>1, <1>2, <1>3, <1>4, <1>5 DEF StatementNext

(***************************************************************************)
(* The steps of a cycle.                                                   *)
(***************************************************************************)
LEMMA CycleOpens ==
  ASSUME TypeInv, TypeInv', LockInv, NestInv, MarkInv, CountInv, ~fatal, NEW c \in Clients,
         StartCycle(c) \/ RotateIn(c)
  PROVE  MarkInv' /\ CountInv'
<1> DEFINE name == CycleName(c)
<1>1. ~HasUnit /\ ~InsideCycle /\ ~batch[c] /\ batch' = batch
  <2>1. queryMu = None \/ (queryMu = c /\ pc[c] = "rotate")
    BY DEF StartCycle, RotateIn, Holds
  <2>2. pc[c] \in {"idle", "rotate"} /\ batch' = batch
    BY DEF StartCycle, RotateIn, batchVars
  <2> QED BY <2>1, <2>2 DEF HasUnit, InsideCycle, LockInv
<1>2. queryMu' = c /\ Savepoint(name) /\ cycleMark' = Set(cycleMark, c, TakeMark)
  BY DEF StartCycle, RotateIn, Holds
<1>3. /\ UNCHANGED <<fatal, activeTransaction, saves, txMark>>
      /\ UNCHANGED <<rowStats, rowLedger, rowLedgerErr, uncertain>>
  BY DEF StartCycle, RotateIn, txVars, ledgerVars
<1>4. UnitMark' = TakeMark
  <2>1. cycleMark'[c] = TakeMark
    BY <1>2 DEF Set, TypeInv, UnitType, Marks
  <2> QED BY <1>1, <1>2, <2>1 DEF UnitMark
<1>5. Pushed(name) /\ UNCHANGED <<rows, attempted>>
  BY <1>2, SavepointPushes, SavepointTaken
<1> HIDE DEF name
<1>6. MarkInv'
  BY <1>1, <1>3, <1>4, <1>5, UnitPushed
\* The cycle starts with everything counted.
<1>7. CountInv'
  BY <1>1, <1>3, <1>5, CountSame
<1> QED BY <1>6, <1>7

LEMMA ExecuteLedger ==
  ASSUME TypeInv, TypeInv', NestInv, MarkInv, CountInv, ~fatal, NEW c \in Clients,
         NEW risk \in Risks \cup {NoRisk}, Execute(c, risk)
  PROVE  MarkInv' /\ CountInv'
<1>1. /\ UNCHANGED <<stack, activeTransaction, saves, txMark, queryMu, batch, batchMark>>
      /\ UNCHANGED <<cycleMark, cycleFailed, pc, fatal>>
      /\ UNCHANGED <<rowStats, rowLedger, rowLedgerErr, uncertain>>
      /\ rows' = Append(rows, [by |-> c, risk |-> risk]) /\ attempted' = attempted + 1
      /\ cycleRisk' = Set(cycleRisk, c, cycleRisk[c] \cup ({risk} \ {NoRisk}))
  BY DEF Execute, txVars, batchVars, ledgerVars
<1>2. queryMu = c /\ c # None /\ pc[c] = "cycle" /\ ~cycleFailed[c]
  BY ClientAssumption DEF Execute, InCycle, Holds
<1>3. InsideCycle /\ InsideCycle'
  BY <1>1, <1>2 DEF InsideCycle
<1>4. /\ Len(rows') = Len(rows) + 1 /\ Len(rows) \in Nat
      /\ \A i \in 1..Len(rows) : rows'[i] = rows[i]
      /\ risk = NoRisk /\ Certain(Len(rows)) => Certain(Len(rows))'
  BY <1>1, RowAdded
<1>5. Len(uncertain) <= Len(uncertain')
  BY <1>1, CountTypes
<1>6. MarkInv'
  BY <1>1, <1>4, <1>5, MarksStay
<1>7. cycleRisk'[c] = cycleRisk[c] \cup ({risk} \ {NoRisk})
  BY <1>1 DEF Set, TypeInv, UnitType
<1>8. ASSUME uncertain' = <<>>, cycleRisk'[queryMu'] = {}
      PROVE  Certain(Len(rows))' /\ (rowLedgerErr' \/ rowLedger' + (attempted' - rowStats') = Len(rows'))
  <2>1. risk = NoRisk /\ cycleRisk[queryMu] = {} /\ uncertain = <<>>
    BY <1>1, <1>2, <1>7, <1>8
  <2>2. Certain(Len(rows)) /\ (rowLedgerErr \/ rowLedger + (attempted - rowStats) = Len(rows))
    BY <1>2, <2>1 DEF CountInv
  <2>3. rowLedger \in Nat /\ attempted \in Nat /\ rowStats \in Nat
    BY CountTypes
  <2> QED BY <1>1, <1>4, <2>1, <2>2, <2>3
<1>9. CountInv'
  BY <1>3, <1>8 DEF CountInv
<1> QED BY <1>6, <1>9

LEMMA CycleErrorLedger ==
  ASSUME TypeInv, TypeInv', NestInv, MarkInv, CountInv, ~fatal, NEW c \in Clients,
         ExecuteRead(c) \/ LocalError(c) \/ \E escape \in BOOLEAN : ExecuteFails(c, escape)
  PROVE  MarkInv' /\ CountInv'
<1>1. /\ UNCHANGED <<fatal, rows, stack, activeTransaction, saves, txMark>>
      /\ UNCHANGED <<queryMu, pc, batch, batchMark, cycleMark, cycleRisk>>
      /\ UNCHANGED <<rowStats, rowLedger, rowLedgerErr, uncertain>>
  BY DEF ExecuteRead, LocalError, ExecuteFails, CycleFrame, txVars, batchVars, ledgerVars
<1>2. queryMu = c /\ c # None /\ pc[c] = "cycle"
  BY ClientAssumption DEF ExecuteRead, LocalError, ExecuteFails, InCycle, Holds
<1>3. InsideCycle /\ InsideCycle'
  BY <1>1, <1>2 DEF InsideCycle
<1>4. CASE ExecuteRead(c) \/ LocalError(c)
  <2>1. attempted' = attempted /\ (cycleFailed[c] => cycleFailed'[c])
    BY <1>4 DEF ExecuteRead, LocalError, Set, TypeInv, UnitType, Flags
  <2> QED BY <1>1, <1>2, <1>3, <2>1, LedgerStays
<1>5. ASSUME NEW escape \in BOOLEAN, ExecuteFails(c, escape) PROVE MarkInv' /\ CountInv'
  <2>1. cycleFailed'[c]
    BY <1>5 DEF ExecuteFails, Set, TypeInv, UnitType, Flags
  <2>2. Len(uncertain) <= Len(uncertain') /\ \A i \in 1..Len(rows) : rows'[i] = rows[i]
    BY <1>1, CountTypes
  <2>3. MarkInv'
    BY <1>1, <2>2, MarksStay
  <2>4. CountInv'
    BY <1>1, <1>2, <1>3, <2>1 DEF CountInv, Certain
  <2> QED BY <2>3, <2>4
<1> QED BY <1>4, <1>5

\* The details of a cycle without risk add nothing; one with a risk that was
\* not known before leaves the list not empty.
LEMMA DetailsAdded ==
  ASSUME TypeInv, NEW c \in Clients,
         NEW details \in SetToSeqs(cycleRisk[c] \ Range(uncertain)),
         uncertain' = uncertain \o details
  PROVE  /\ Len(uncertain) <= Len(uncertain')
         /\ uncertain' = <<>> => uncertain = <<>> /\ cycleRisk[c] = {}
<1> DEFINE S == cycleRisk[c] \ Range(uncertain)
<1>1. S \in SUBSET Risks /\ uncertain \in Seq(Risks)
  BY DEF TypeInv, UnitType, LedgerInv, LedgerType
<1>2. Cardinality(S) \in Nat /\ IsFiniteSet(S)
  BY <1>1, RiskAssumption, FS_Subset, FS_CardinalityType
<1>3. details \in [1..Cardinality(S) -> S]
  BY DEF SetToSeqs
<1>4. details \in Seq(Risks)
  BY <1>1, DetailsType
<1> HIDE DEF S
<1>5. Len(details) = Cardinality(S)
  BY <1>2, <1>3, <1>4, LenProperties
<1>6. Len(uncertain') = Len(uncertain) + Len(details) /\ Len(uncertain) \in Nat
  BY <1>1, <1>4, ConcatProperties
<1>7. ASSUME uncertain' = <<>> PROVE uncertain = <<>> /\ cycleRisk[c] = {}
  <2>1. Len(uncertain') = 0
    BY <1>7
  <2>2. Len(uncertain) = 0 /\ Cardinality(S) = 0
    BY <1>2, <1>5, <1>6, <2>1
  <2>3. uncertain = <<>> /\ S = {}
    BY <1>1, <1>2, <2>2, EmptySeq, FS_EmptySet
  <2>4. Range(uncertain) = {}
    BY <2>3 DEF Range
  <2> QED BY <2>3, <2>4 DEF S
<1>8. Len(uncertain) <= Len(uncertain')
  BY <1>2, <1>5, <1>6
<1> QED BY <1>7, <1>8

LEMMA CycleEnds ==
  ASSUME TypeInv, TypeInv', LockInv, NestInv, MarkInv, CountInv, ~fatal, NEW c \in Clients,
         SyncCycle(c) \/ \E label \in {"control", "escape"} : RotateOut(c, label)
  PROVE  MarkInv' /\ CountInv'
<1> DEFINE name == CycleName(c)
<1>1. queryMu = c /\ c # None /\ pc[c] = "cycle" /\ queryMu' = c /\ ~batch[c]
  BY ClientAssumption DEF SyncCycle, RotateOut, InCycle, Holds, LockInv
<1>2. pc'[c] # "cycle"
  BY LockTypes DEF SyncCycle, RotateOut, Goto
<1>3. HasUnit /\ UnitName = name /\ UnitMark = cycleMark[c] /\ InsideCycle /\ ~InsideCycle'
  BY <1>1, <1>2 DEF HasUnit, UnitName, UnitMark, CycleName, InsideCycle
<1>4. UNCHANGED <<fatal, activeTransaction, saves, txMark>>
  BY DEF SyncCycle, RotateOut, txVars
<1>5. EndCycle(c)
  BY DEF SyncCycle, RotateOut
<1>6. CASE cycleFailed[c] \/ rollbackCycle[c]
  <2>1. RollbackRelease(UnitName) /\ RestoreLedger(UnitMark)
    BY <1>3, <1>5, <1>6 DEF EndCycle, RestoreLedger
  <2> QED BY <1>3, <1>4, <2>1, UnitRolledBack
<1>7. CASE ~(cycleFailed[c] \/ rollbackCycle[c])
  <2>1. ReleaseSavepoint(UnitName) /\ ReconcileRowChanges(cycleRisk[c] = {})
    BY <1>3, <1>5, <1>7 DEF EndCycle
  <2>2. PICK details \in SetToSeqs(cycleRisk[c] \ Range(uncertain)) :
          uncertain' = uncertain \o details
    BY <1>5, <1>7 DEF EndCycle
  <2>3. /\ Len(uncertain) <= Len(uncertain')
        /\ uncertain' = <<>> => uncertain = <<>> /\ cycleRisk[c] = {}
    BY <2>2, DetailsAdded
  <2>4. rowStats' = attempted' /\ rowLedgerErr' = rowLedgerErr
    BY <2>1 DEF ReconcileRowChanges
  <2>5. MarkInv' /\ rows' = rows /\ attempted' = attempted
    BY <1>3, <1>4, <2>1, <2>3, <2>4, UnitReleased
  <2>6. ASSUME uncertain' = <<>>
        PROVE  Certain(Len(rows))' /\ (rowLedgerErr' \/ rowLedger' + (attempted' - rowStats') = Len(rows'))
    <3>1. uncertain = <<>> /\ cycleRisk[c] = {}
      BY <2>3, <2>6
    <3>2. Certain(Len(rows)) /\ (rowLedgerErr \/ rowLedger + (attempted - rowStats) = Len(rows))
      BY <1>1, <1>7, <3>1 DEF CountInv
    <3>3. CASE rowLedgerErr
      BY <2>4, <2>5, <3>2, <3>3 DEF Certain
    <3>4. CASE ~rowLedgerErr
      <4>1. rowLedger' = rowLedger + (attempted' - rowStats)
        BY <2>1, <3>1, <3>4 DEF ReconcileRowChanges
      <4>2. rowLedger \in Nat /\ attempted \in Nat /\ rowStats \in Nat
        BY CountTypes
      <4>3. rowLedger' + (attempted' - rowStats') = rowLedger + (attempted - rowStats)
        BY <2>4, <2>5, <4>1, <4>2
      <4> QED BY <2>5, <3>2, <3>4, <4>3 DEF Certain
    <3> QED BY <3>3, <3>4
  <2>7. CountInv'
    BY <1>3, <2>4, <2>6 DEF CountInv
  <2> QED BY <2>5, <2>7
<1> QED BY <1>6, <1>7

LEMMA CycleLedger ==
  ASSUME TypeInv, TypeInv', LockInv, NestInv, MarkInv, CountInv, ~fatal, NEW c \in Clients,
         ExtendedNext(c)
  PROVE  MarkInv' /\ CountInv'
<1>1. CASE Ready(c)
  <2>1. queryMu = c /\ pc[c] = "sync" /\ queryMu' = None
    BY <1>1 DEF Ready, Holds
  <2>2. ~HasUnit /\ ~InsideCycle
    BY <2>1 DEF HasUnit, LockInv, InsideCycle
  <2>3. /\ UNCHANGED <<fatal, stack, rows, attempted, activeTransaction, saves, txMark>>
        /\ UNCHANGED <<rowStats, rowLedger, rowLedgerErr, uncertain>>
    BY <1>1 DEF Ready, backendVars, ledgerVars, txVars
  <2> QED BY <2>2, <2>3, LedgerStays
<1> QED BY <1>1, CycleOpens, ExecuteLedger, CycleErrorLedger, CycleEnds DEF ExtendedNext

(***************************************************************************)
(* Statements outside of the transaction, and the end of a handler.        *)
(***************************************************************************)
LEMMA EscapeLedger ==
  ASSUME ~EscapeInBatch, TypeInv, TypeInv', LockInv, NestInv, MarkInv, CountInv, ~fatal,
         NEW c \in Clients, EscapeNext(c)
  PROVE  MarkInv' /\ CountInv'
<1>1. EscapeFrame
  BY DEF EscapeNext, EscapeStart, Approve, Decline, EscapeLease, EscapeCheckFails,
     EscapeConnectFails, EscapeDispatch, EscapeRecord, EscapeResult, EscapeReturn
<1>2. /\ UNCHANGED <<fatal, stack, rows, attempted, activeTransaction, saves, txMark>>
      /\ UNCHANGED <<rowStats, rowLedger, rowLedgerErr, uncertain>>
      /\ UNCHANGED <<batch, batchMark, cycleMark, cycleRisk>>
  BY <1>1 DEF EscapeFrame, ledgerVars, batchVars
<1>3. CASE EscapeStart(c) \/ EscapeReturn(c)
  <2>1. CASE EscapeStart(c)
    <3>1. queryMu = c /\ ~batch[c] /\ pc[c] # "cycle"
      BY <2>1 DEF EscapeStart, Holds, LockInv
    <3> QED BY <1>2, <3>1, LedgerStays DEF HasUnit, InsideCycle
  <2>2. CASE EscapeReturn(c)
    <3>1. queryMu = None
      BY <2>2 DEF EscapeReturn
    <3> QED BY <1>2, <3>1, LedgerStays DEF HasUnit, InsideCycle
  <2> QED BY <1>3, <2>1, <2>2
<1>4. CASE \/ Approve(c) \/ Decline(c)
           \/ EscapeLease(c) \/ EscapeCheckFails(c) \/ EscapeConnectFails(c)
           \/ EscapeDispatch(c) \/ EscapeRecord(c)
           \/ \E ok \in BOOLEAN : EscapeResult(c, ok)
  <2>1. queryMu' = queryMu /\ cycleFailed' = cycleFailed /\ pc[c] \notin Locked
    BY <1>4 DEF Approve, Decline, EscapeLease, EscapeCheckFails, EscapeConnectFails,
       EscapeDispatch, EscapeRecord, EscapeResult, escapeVars, Locked
  <2>2. queryMu # c
    BY <2>1 DEF LockInv
  <2>3. \A d \in Clients : d # c => pc'[d] = pc[d]
    BY <1>4, LockTypes DEF Approve, Decline, EscapeLease, EscapeCheckFails, EscapeConnectFails,
       EscapeDispatch, EscapeRecord, EscapeResult, Refused, Goto
  <2>4. InsideCycle => InsideCycle'
    BY <2>1, <2>2, <2>3, LockTypes DEF InsideCycle
  <2> QED BY <1>2, <2>1, <2>4, LedgerStays
<1> QED BY <1>3, <1>4 DEF EscapeNext

\* A client without a transaction leaves the one that is open alone.
LEMMA OtherMarks ==
  ASSUME TypeInv, TypeInv', NEW c \in Clients, ClearClient(c), activeTransaction # c
  PROVE  TxDepth' = TxDepth /\ \A i \in 1..TxDepth : MarkAt(i)' = MarkAt(i)
<1> DEFINE a == activeTransaction
<1>1. UNCHANGED activeTransaction
  BY DEF ClearClient, ClearTransaction
<1>2. a # None => saves'[a] = saves[a]
  BY DEF ClearClient, ClearTransaction, Set, TypeInv, TransactionType
<1>3. a # None => txMark'[a] = txMark[a]
  BY DEF ClearClient, ClearTransaction, Set, TypeInv, TransactionType, Marks
<1>4. TxDepth' = TxDepth /\ TxDepth \in Nat /\ (TxDepth = 0 <=> a = None)
  BY <1>1, <1>2, DepthTypes DEF TxDepth
<1>5. CASE a = None
  BY <1>4, <1>5
<1>6. CASE a # None
  <2> HIDE DEF a
  <2> SUFFICES ASSUME NEW i \in 1..TxDepth PROVE MarkAt(i)' = MarkAt(i)
    BY <1>4
  <2>1. i <= TxDepth' /\ TxDepth' \in Nat
    BY <1>4
  <2>2. i # 1 => saves'[a][i - 1] = saves[a][i - 1]
    BY <1>2, <1>6
  <2>3. txMark'[a] = txMark[a]
    BY <1>3, <1>6
  <2> QED BY <1>1, <2>1, <2>2, <2>3, LowMarks DEF a
<1> QED BY <1>5, <1>6

LEMMA CleanupLedger ==
  ASSUME TypeInv, TypeInv', OneOpenTransaction, LockInv, NestInv, MarkInv, CountInv,
         ~fatal, NEW c \in Clients, Hangup(c) \/ Cleanup(c) \/ CleanupFatal(c)
  PROVE  MarkInv' /\ CountInv'
<1>1. CASE Hangup(c)
  <2>1. /\ UNCHANGED <<fatal, stack, rows, attempted, activeTransaction, saves, txMark>>
        /\ UNCHANGED <<rowStats, rowLedger, rowLedgerErr, uncertain>>
        /\ UNCHANGED <<queryMu, pc, batch, batchMark, cycleMark, cycleRisk, cycleFailed>>
    BY <1>1 DEF Hangup, backendVars, ledgerVars, txVars, batchVars, cycleVars
  <2> QED BY <2>1, LedgerStays DEF InsideCycle
<1>2. CASE CleanupFatal(c)
  BY <1>2 DEF CleanupFatal
<1>3. CASE Cleanup(c)
  <2>1. queryMu' = None /\ fatal' = fatal /\ ClearClient(c)
    BY <1>3 DEF Cleanup, ClearClient
  <2>2. ~InsideCycle'
    BY <2>1 DEF InsideCycle
  <2>3. \/ pc[c] = "idle" /\ queryMu = None
        \/ pc[c] = "cycle" /\ queryMu = c /\ ~batch[c]
    BY <1>3 DEF Cleanup, Holds, LockInv
  <2>4. CASE tx[c]
    <3>1. RollbackRelease(SavepointName(c, "t", 0)) /\ RestoreLedger(txMark[c])
      BY <1>3, <2>4 DEF Cleanup
    <3> QED BY <2>2, <2>4, <3>1, WholeRollback
  <2>5. CASE ~tx[c]
    <3>1. TxDepth' = TxDepth /\ \A i \in 1..TxDepth : MarkAt(i)' = MarkAt(i)
      BY <2>1, <2>5, OtherMarks DEF OneOpenTransaction
    <3>2. CASE pc[c] = "cycle" /\ queryMu = c /\ ~batch[c]
      <4>1. HasUnit /\ UnitName = CycleName(c) /\ UnitMark = cycleMark[c]
        BY <3>2, ClientAssumption DEF HasUnit, UnitName, UnitMark, CycleName
      <4>2. RollbackRelease(UnitName) /\ RestoreLedger(UnitMark)
        BY <1>3, <2>5, <3>2, <4>1 DEF Cleanup, RestoreLedger
      <4>3. /\ Len(stack) \in DOMAIN stack /\ Len(stack) = TxDepth + 1 /\ TxDepth \in Nat
            /\ \A k \in DOMAIN stack : stack[k].name = UnitName => k = Len(stack)
        BY <4>1, UnitPlace, DepthTypes
      <4>4. PICK k \in DOMAIN stack : k = Len(stack)
        BY <4>3
      <4>5. attempted' = attempted
        BY <4>2, CountersKept
      <4>6. Left(k - 1, stack[k].len)
        BY <4>1, <4>2, <4>3, <4>4, RollbackLeaves
      <4>7. MarkAt(k) = UnitMark
        BY <4>1, <4>4, UnitMarkAt
      <4>8. RestoreLedger(MarkAt(k))
        BY <4>2, <4>7 DEF RestoreLedger
      <4>9. k - 1 = TxDepth
        BY <4>3, <4>4
      <4>10. \A i \in 1..(k - 1) : MarkAt(i)' = MarkAt(i)
        BY <3>1, <4>9
      <4> QED BY <2>2, <4>5, <4>6, <4>8, <4>10, RolledBack
    <3>3. CASE pc[c] = "idle" /\ queryMu = None
      <4>1. UNCHANGED <<backendVars, ledgerVars>>
        BY <1>3, <2>5, <3>3 DEF Cleanup
      <4>2. UNCHANGED <<stack, rows, attempted>>
        BY <4>1 DEF backendVars
      <4>3. UNCHANGED <<rowStats, rowLedger, rowLedgerErr, uncertain>>
        BY <4>1 DEF ledgerVars
      <4>4. ~HasUnit /\ ~InsideCycle
        BY <3>3 DEF HasUnit, InsideCycle
      <4>5. TxDepth \in Nat /\ TxDepth <= Len(stack) /\ Len(stack') = TxDepth
        BY <4>2, <4>4, DepthTypes DEF NestInv
      <4>6. \A i \in 1..TxDepth : stack'[i] = stack[i] /\ MarkAt(i)' = MarkAt(i)
        BY <3>1, <4>2
      <4>7. Len(uncertain) <= Len(uncertain') /\ \A i \in 1..Len(rows) : rows'[i] = rows[i]
        BY <4>2, <4>3, CountTypes
      <4>8. MarkInv'
        BY <4>3, <4>5, <4>6, <4>7, MarksCut
      <4>9. CountInv'
        BY <2>1, <4>2, <4>3, <4>4, CountSame
      <4> QED BY <4>8, <4>9
    <3> QED BY <2>3, <3>2, <3>3
  <2> QED BY <2>4, <2>5
<1> QED BY <1>1, <1>2, <1>3

(***************************************************************************)
(* The inductive invariant.                                                *)
(***************************************************************************)
LEMMA ClientLedger ==
  ASSUME ~EscapeInBatch, ProxyInv, TypeInv', MarkInv, CountInv, NEW c \in Clients, ClientNext(c)
  PROVE  MarkInv' /\ CountInv'
<1>1. TypeInv /\ OneOpenTransaction /\ LockInv /\ NestInv
  BY ProxyParts
<1>2. CASE fatal
  <2>1. fatal'
    BY <1>2, ClientSession
  <2> QED BY <2>1 DEF MarkInv, CountInv
<1>3. CASE ~fatal
  BY <1>1, <1>3, StatementLedger, EscapeLedger, CycleLedger, CleanupLedger DEF ClientNext
<1> QED BY <1>2, <1>3

LEMMA SessionLedger ==
  ASSUME ProxyInv, TypeInv', MarkInv, CountInv, SessionStep
  PROVE  MarkInv' /\ CountInv'
<1>1. TypeInv /\ NestInv
  BY ProxyParts
<1>2. CASE fatal'
  BY <1>2 DEF MarkInv, CountInv
<1>3. CASE ~fatal'
  <2>1. fatal' = fatal /\ ~fatal
    <3>1. fatal' # TRUE
      BY <1>3
    <3>2. fatal' = fatal
      BY <3>1, SessionStill
    <3> QED BY <1>3, <3>2
  <2>2. UNCHANGED <<rows, stack, saves, activeTransaction, queryMu, batch, pc>>
    BY SessionStill
  <2>3. /\ UNCHANGED <<attempted, txMark, batchMark, cycleMark, cycleRisk, cycleFailed>>
        /\ UNCHANGED <<rowStats, rowLedger, rowLedgerErr, uncertain>>
           \/ \E ok \in BOOLEAN : Freeze(ok)
    <3>1. CASE MarkFatal
      BY <1>3, <3>1 DEF MarkFatal
    <3>2. CASE Stop
      BY <3>2 DEF Stop, backendVars, ledgerVars, txVars, batchVars, cycleVars
    <3>3. CASE \E ok \in BOOLEAN : Freeze(ok)
      BY <3>3 DEF Freeze, backendVars, txVars, batchVars, cycleVars
    <3>4. CASE \E decision \in {"commit", "rollback"} :
                 Finalize(decision) \/ FinalizeUnknown(decision)
      BY <3>4 DEF Finalize, FinalizeUnknown, FinalizeFrame, ledgerVars, txVars, batchVars,
         cycleVars
    <3>5. CASE UNCHANGED vars
      BY <3>5 DEF vars, backendVars, ledgerVars, txVars, batchVars, cycleVars
    <3> QED BY <3>1, <3>2, <3>3, <3>4, <3>5 DEF SessionStep
  <2>4. CASE UNCHANGED <<rowStats, rowLedger, rowLedgerErr, uncertain>>
    BY <1>1, <2>1, <2>2, <2>3, <2>4, LedgerStays DEF InsideCycle
  <2>5. ASSUME NEW ok \in BOOLEAN, Freeze(ok) PROVE MarkInv' /\ CountInv'
    <3>1. ~InsideCycle /\ ~InsideCycle'
      BY <2>5 DEF Freeze, InsideCycle
    <3>2. UNCHANGED <<rowLedgerErr, uncertain>>
      BY <2>5 DEF Freeze, ReconcileRowChanges, ledgerVars
    <3>3. Len(uncertain) <= Len(uncertain') /\ \A i \in 1..Len(rows) : rows'[i] = rows[i]
      BY <1>1, <2>2, <3>2, CountTypes
    <3>4. MarkInv'
      BY <1>1, <2>1, <2>2, <2>3, <3>2, <3>3, MarksStay
    <3>5. rowStats = attempted /\ attempted' = attempted
      BY <2>1, <2>3, <3>1 DEF CountInv
    <3>6. rowStats' = attempted' /\ rowLedger' = rowLedger
      <4>1. rowLedger + (attempted' - rowStats) = rowLedger
        BY <1>1, <3>5, CountTypes, NothingUnseen
      <4> QED BY <2>5, <3>5, <4>1 DEF Freeze, ReconcileRowChanges, ledgerVars
    <3>7. CountInv'
      BY <2>1, <2>2, <3>1, <3>2, <3>5, <3>6, CountSame
    <3> QED BY <3>4, <3>7
  <2> QED BY <2>3, <2>4, <2>5
<1> QED BY <1>2, <1>3

\* Nothing moves after the look at the ledger but the decision.
LEMMA SealStep ==
  ASSUME ProxyInv, SealInv, [Next]_vars
  PROVE  SealInv'
<1>1. EndInv
  BY ProxyParts
<1>2. ASSUME NEW c \in Clients, ClientNext(c) PROVE SealInv'
  <2>1. ~complete
    BY <1>1, <1>2, GoneIsGone DEF EndInv
  <2> QED BY <1>2, <2>1, ClientSession DEF SealInv
<1>3. ASSUME NEW ok \in BOOLEAN, Freeze(ok) PROVE SealInv'
  BY <1>3 DEF Freeze, ReconcileRowChanges, SealInv
<1>4. CASE SessionStep /\ ~\E ok \in BOOLEAN : Freeze(ok)
  <2>1. UNCHANGED <<complete, uncertain, rowLedgerErr>>
    BY <1>4 DEF SessionStep, MarkFatal, Stop, Finalize, FinalizeUnknown, FinalizeFrame, vars,
       ledgerVars, sealVars
  <2> QED BY <2>1 DEF SealInv
<1> QED BY <1>2, <1>3, <1>4, NextCases

SummaryInv == ProxyInv /\ MarkInv /\ CountInv /\ SealInv

LEMMA SummaryStep ==
  ASSUME ~EscapeInBatch, SummaryInv, [Next]_vars
  PROVE  SummaryInv'
<1>1. ProxyInv /\ MarkInv /\ CountInv /\ SealInv
  BY DEF SummaryInv
<1>2. ProxyInv'
  BY <1>1, ProxyStep
<1>3. TypeInv'
  BY <1>2 DEF ProxyInv
<1>4. MarkInv' /\ CountInv'
  BY <1>1, <1>3, ClientLedger, SessionLedger, NextCases
<1>5. SealInv'
  BY <1>1, SealStep
<1> QED BY <1>2, <1>4, <1>5 DEF SummaryInv

LEMMA InitSummary == Init => SummaryInv
<1> SUFFICES ASSUME Init PROVE SummaryInv
  OBVIOUS
<1>1. MarkInv /\ SealInv
  BY DEF Init, MarkInv, SealInv
<1>2. CountInv
  BY DEF Init, CountInv, InsideCycle, Certain
<1> QED BY <1>1, <1>2, InitProxy DEF SummaryInv

LEMMA SummaryInvariant ==
  ASSUME ~EscapeInBatch
  PROVE  Spec => []SummaryInv
<1>1. SummaryInv /\ [Next]_vars => SummaryInv'
  BY SummaryStep
<1> QED BY <1>1, InitSummary, PTL DEF Spec

(***************************************************************************)
(* The theorems, for clients that send no irreversible statement inside of *)
(* a batch.                                                                *)
(***************************************************************************)
\* What the ledger says when nobody is inside of a cycle.
LEMMA CountedRows ==
  ASSUME SummaryInv, ~fatal, ~InsideCycle, ~rowLedgerErr, uncertain = <<>>
  PROVE  rowLedger = Len(rows) /\ rowStats = attempted /\ Certain(Len(rows))
<1>1. TypeInv /\ CountInv
  BY ProxyParts DEF SummaryInv
<1>2. rowStats = attempted /\ Certain(Len(rows)) /\ rowLedger + (attempted - rowStats) = Len(rows)
  BY <1>1 DEF CountInv
<1>3. rowLedger + (attempted - rowStats) = rowLedger
  BY <1>1, <1>2, CountTypes, NothingUnseen
<1> QED BY <1>2, <1>3

\* Whenever nobody holds the backend, the ledger counts the staged rows and
\* every counter has been sampled, unless the proxy says that it cannot tell:
\* through every rollback of a savepoint, a batch, a cycle or a transaction.
THEOREM LedgerAlwaysExact ==
  ASSUME ~EscapeInBatch
  PROVE  Spec => []LedgerExact
<1>1. SummaryInv => LedgerExact
  BY CountedRows DEF LedgerExact, InsideCycle
<1> QED BY <1>1, SummaryInvariant, PTL

LEMMA SealedOutside ==
  ASSUME ProxyInv, complete
  PROVE  ~fatal /\ ~InsideCycle
<1>1. TypeInv /\ LockInv /\ EndInv
  BY ProxyParts
<1>2. ~fatal /\ \A c \in Clients : pc[c] = "gone"
  BY <1>1 DEF EndInv
<1>3. queryMu = None
  BY <1>1, <1>2, LockTypes DEF LockInv, Locked
<1> QED BY <1>2, <1>3 DEF InsideCycle

\* A summary that was sealed as complete, which is what a person approves,
\* counts every staged row and hides no effect that cannot be counted, until
\* the session has ended.
THEOREM SummaryAlwaysExact ==
  ASSUME ~EscapeInBatch
  PROVE  Spec => []SummaryExact
<1>1. ASSUME SummaryInv PROVE SummaryExact
  <2> SUFFICES ASSUME complete
               PROVE  rowLedger = Len(rows) /\ \A i \in DOMAIN rows : rows[i].risk = NoRisk
    BY DEF SummaryExact
  <2>1. ~fatal /\ ~InsideCycle /\ ~rowLedgerErr /\ uncertain = <<>>
    BY <1>1, SealedOutside DEF SummaryInv, SealInv
  <2>2. rowLedger = Len(rows) /\ Certain(Len(rows))
    BY <1>1, <2>1, CountedRows
  <2>3. DOMAIN rows = 1..Len(rows)
    BY <1>1, StackTypes, ProxyParts DEF SummaryInv
  <2> QED BY <2>2, <2>3 DEF Certain
<1> QED BY <1>1, SummaryInvariant, PTL
=============================================================================
