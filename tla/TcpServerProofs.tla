-------------------------- MODULE TcpServerProofs --------------------------
(***************************************************************************)
(* The master's bookkeeping, for any number of slaves, limit on processes, *)
(* and number of deaths and failures.                                      *)
(***************************************************************************)
EXTENDS TcpServer, TLAPS

\* ForkSlaves never starts more than are missing: what it has started and
\* what it has still to start fit between the count and the expected number.
ForksAreMissing == m_numSlaveRunning + childIds + toFork <= m_numSlaveExpected

\* Outside ForkSlaves its local variables are gone, and nothing has happened
\* before ListenAndFork.
OutsideFork ==
  /\ ~InForkSlaves => toFork = 0 /\ childIds = 0
  /\ pc = "ListenAndFork" => m_numSlaveRunning = 0

MasterInv == TypeOK /\ CountIsKept /\ ForksAreMissing /\ OutsideFork

LEMMA InitMaster == Init => MasterInv
BY DEF Init, MasterInv, TypeOK, CountIsKept, ForksAreMissing, OutsideFork, InForkSlaves

LEMMA NextMaster == MasterInv /\ [Next]_vars => MasterInv'
<1> SUFFICES ASSUME MasterInv, [Next]_vars PROVE MasterInv'
  OBVIOUS
<1> USE TcpServerAssumption
    DEF MasterInv, TypeOK, CountIsKept, ForksAreMissing, OutsideFork, InForkSlaves,
        counters, kernel
<1>1. CASE ListenFails
  BY <1>1 DEF ListenFails
<1>2. ASSUME NEW n \in NumSlaves, ListenAndFork(n) PROVE MasterInv'
  BY <1>2 DEF ListenAndFork
<1>3. CASE ForkSucceeds
  BY <1>3 DEF ForkSucceeds
<1>4. CASE ForkFails
  BY <1>4 DEF ForkFails
<1>5. CASE ForkSlavesEnd
  BY <1>5 DEF ForkSlavesEnd
<1>6. CASE MonitorSlavesLoop
  BY <1>6 DEF MonitorSlavesLoop
<1>7. CASE WaitReaps
  BY <1>7 DEF WaitReaps
<1>8. CASE WaitHasNoChild
  BY <1>8 DEF WaitHasNoChild
<1>9. CASE WaitSleeps
  BY <1>9 DEF WaitSleeps
<1>10. CASE SlaveDies
  BY <1>10 DEF SlaveDies
<1>11. CASE UNCHANGED vars
  BY <1>11 DEF vars
<1> QED
  BY <1>1, <1>2, <1>3, <1>4, <1>5, <1>6, <1>7, <1>8, <1>9, <1>10, <1>11 DEF Next, Master

LEMMA MasterInvariance == Spec => []MasterInv
BY InitMaster, NextMaster, PTL DEF Spec

\* The variables of the master keep their types: none of the counts of
\* children goes below zero.
THEOREM TypeCorrect == Spec => []TypeOK
<1>1. MasterInv => TypeOK
  BY DEF MasterInv
<1> QED  BY <1>1, MasterInvariance, PTL

\* m_numSlaveRunning is what CountIsKept says it is, and never too high.
THEOREM CountCorrect == Spec => []CountIsKept
<1>1. MasterInv => CountIsKept
  BY DEF MasterInv
<1> QED  BY <1>1, MasterInvariance, PTL

\* MonitorSlavesLoop starts no more slaves than m_numSlaveExpected, but for
\* one for each waitpid that found no child.
THEOREM LimitCorrect == Spec => []SlavesLimited
<1>1. MasterInv => SlavesLimited
  BY DEF MasterInv, TypeOK, CountIsKept, ForksAreMissing, SlavesLimited
<1> QED  BY <1>1, MasterInvariance, PTL
=============================================================================
