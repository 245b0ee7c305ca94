----------------------------- MODULE TcpServer -----------------------------
(***************************************************************************)
(* The master process of a server, net/TcpServer.cpp: ListenAndFork starts *)
(* the slaves, MonitorSlavesLoop replaces those that die.  The kernel      *)
(* keeps the children: those that run and the zombies not yet waited for.  *)
(*                                                                         *)
(* The callers (every server under example/) pass an empty list childIds,  *)
(* ignore the result of ListenAndFork and go on with MonitorSlavesLoop.    *)
(* childIds is passed by value, so ForkSlaves always starts with a copy of *)
(* that empty list.                                                        *)
(***************************************************************************)
EXTENDS Integers

CONSTANTS
  NumSlaves,    \* values of the argument numSlaves
  MaxProcess,   \* the limit on processes: fork fails when it is reached
  MaxFail,      \* bound: forks that fail for another reason
  MaxDeath,     \* bound: slaves that die
  MaxNoChild    \* bound: calls of waitpid that fail with ECHILD

ASSUME TcpServerAssumption ==
  /\ NumSlaves \subseteq Int
  /\ MaxProcess \in Nat /\ MaxFail \in Nat /\ MaxDeath \in Nat /\ MaxNoChild \in Nat

VARIABLES
  pc,                  \* where the master is
  m_numSlaveExpected,
  m_numSlaveRunning,
  toFork,              \* ForkSlaves: iterations left
  childIds,            \* ForkSlaves: size of its list
  alive,               \* kernel: children that run
  zombie,              \* kernel: children that have died
  fails, deaths,       \* history, for the bounds
  noChild              \* history: how often waitpid failed with ECHILD

counters == <<m_numSlaveExpected, m_numSlaveRunning>>
kernel == <<alive, zombie, fails, deaths, noChild>>
vars == <<pc, counters, toFork, childIds, kernel>>

\* ForkSlaves is called from ListenAndFork (pc = "ForkFirst") and from
\* MonitorSlavesLoop (pc = "ForkAgain").
InForkSlaves == pc \in {"ForkFirst", "ForkAgain"}

Init ==
  /\ pc = "ListenAndFork"
  /\ m_numSlaveExpected = 0 /\ m_numSlaveRunning = 0
  /\ toFork = 0 /\ childIds = 0
  /\ alive = 0 /\ zombie = 0
  /\ fails = 0 /\ deaths = 0 /\ noChild = 0

----------------------------------------------------------------------------

\* One of the listen() calls fails.
ListenFails ==
  /\ pc = "ListenAndFork"
  /\ pc' = "Monitor"
  /\ UNCHANGED <<counters, toFork, childIds, kernel>>

ListenAndFork(numSlaves) ==
  LET n == IF numSlaves < 1 THEN 1 ELSE numSlaves
  IN  /\ pc = "ListenAndFork"
      /\ pc' = "ForkFirst"
      /\ m_numSlaveExpected' = n
      /\ toFork' = n
      /\ UNCHANGED <<m_numSlaveRunning, childIds, kernel>>

\* An iteration of ForkSlaves, in the master.  The child never leaves
\* SlaveRun, whose event loop does not end.
ForkSucceeds ==
  /\ InForkSlaves /\ toFork > 0
  /\ alive + zombie < MaxProcess
  /\ toFork' = toFork - 1
  /\ childIds' = childIds + 1
  /\ alive' = alive + 1
  /\ UNCHANGED <<pc, counters, zombie, fails, deaths, noChild>>

\* Variant: the loop of ForkSlaves counts attempts.
ForkFails_Counted ==
  /\ InForkSlaves /\ toFork > 0
  /\ \/ fails < MaxFail /\ fails' = fails + 1
     \/ alive + zombie = MaxProcess /\ UNCHANGED fails
  /\ toFork' = toFork - 1
  /\ childIds' = childIds + 1
  /\ UNCHANGED <<pc, counters, alive, zombie, deaths, noChild>>

ForkFails ==
  /\ InForkSlaves /\ toFork > 0
  /\ \/ fails < MaxFail /\ fails' = fails + 1
     \/ alive + zombie = MaxProcess /\ UNCHANGED fails
  /\ toFork' = toFork - 1
  /\ UNCHANGED <<pc, counters, childIds, alive, zombie, deaths, noChild>>

\* Variant: the slaves started again are not added.
ForkSlavesEnd_Assigns ==
  /\ InForkSlaves /\ toFork = 0
  /\ m_numSlaveRunning' = childIds
  /\ childIds' = 0
  /\ pc' = IF pc = "ForkFirst" THEN "Monitor" ELSE "Wait"
  /\ UNCHANGED <<m_numSlaveExpected, toFork, kernel>>

ForkSlavesEnd ==
  /\ InForkSlaves /\ toFork = 0
  /\ m_numSlaveRunning' = m_numSlaveRunning + childIds
  /\ childIds' = 0
  /\ pc' = IF pc = "ForkFirst" THEN "Monitor" ELSE "Wait"
  /\ UNCHANGED <<m_numSlaveExpected, toFork, kernel>>

\* The top of MonitorSlavesLoop.
MonitorSlavesLoop ==
  LET numSlaveNeedStart == m_numSlaveExpected - m_numSlaveRunning
  IN  /\ pc = "Monitor"
      /\ IF numSlaveNeedStart > 0
         THEN pc' = "ForkAgain" /\ toFork' = numSlaveNeedStart
         ELSE pc' = "Wait" /\ UNCHANGED toFork
      /\ UNCHANGED <<counters, childIds, kernel>>

\* Variant: the death of a slave is not counted.
WaitReaps_NoCount ==
  /\ pc = "Wait" /\ zombie > 0
  /\ zombie' = zombie - 1
  /\ pc' = "Monitor"
  /\ UNCHANGED <<counters, toFork, childIds, alive, fails, deaths, noChild>>

\* waitpid(-1, 0, WNOHANG) returns the id of a child that has died.
WaitReaps ==
  /\ pc = "Wait" /\ zombie > 0
  /\ zombie' = zombie - 1
  /\ m_numSlaveRunning' = m_numSlaveRunning - 1
  /\ pc' = "Monitor"
  /\ UNCHANGED <<m_numSlaveExpected, toFork, childIds, alive, fails, deaths, noChild>>

\* It returns -1 (ECHILD) if there is no child, and -1 counts as a child.
WaitHasNoChild ==
  /\ pc = "Wait" /\ alive + zombie = 0 /\ noChild < MaxNoChild
  /\ m_numSlaveRunning' = m_numSlaveRunning - 1
  /\ noChild' = noChild + 1
  /\ pc' = "Monitor"
  /\ UNCHANGED <<m_numSlaveExpected, toFork, childIds, alive, zombie, fails, deaths>>

\* It returns 0 if all children run, and the master sleeps for a second.
WaitSleeps ==
  /\ pc = "Wait" /\ zombie = 0 /\ alive > 0
  /\ pc' = "Monitor"
  /\ UNCHANGED <<counters, toFork, childIds, kernel>>

SlaveDies ==
  /\ alive > 0 /\ deaths < MaxDeath
  /\ alive' = alive - 1
  /\ zombie' = zombie + 1
  /\ deaths' = deaths + 1
  /\ UNCHANGED <<pc, counters, toFork, childIds, fails, noChild>>

Master ==
  \/ ListenFails \/ \E n \in NumSlaves : ListenAndFork(n)
  \/ ForkSucceeds \/ ForkFails \/ ForkSlavesEnd
  \/ MonitorSlavesLoop
  \/ WaitReaps \/ WaitHasNoChild \/ WaitSleeps

Next == Master \/ SlaveDies

Spec == Init /\ [][Next]_vars

\* The master goes on, and a slave's death is no step of the master's.
FairSpec == Spec /\ WF_vars(Master)

----------------------------------------------------------------------------

TypeOK ==
  /\ pc \in {"ListenAndFork", "ForkFirst", "ForkAgain", "Monitor", "Wait"}
  /\ m_numSlaveExpected \in Nat /\ m_numSlaveRunning \in Int
  /\ toFork \in Nat /\ childIds \in Nat
  /\ alive \in Nat /\ zombie \in Nat
  /\ fails \in Nat /\ deaths \in Nat /\ noChild \in Nat

\* The master's count of slaves is the number of its children not yet waited
\* for, less one for each waitpid that found no child: the count of running
\* slaves is never too high, so a slave that dies is missed sooner or later.
CountIsKept == alive + zombie = m_numSlaveRunning + childIds + noChild

\* There are never more slaves than expected, but for one more for each
\* waitpid that found no child.
SlavesLimited == alive + zombie <= m_numSlaveExpected + noChild

\* Once slaves die and forks fail no more, the expected number runs: slaves
\* that have died are replaced.
SlavesAreReplaced ==
  m_numSlaveExpected <= MaxProcess ~> alive >= m_numSlaveExpected
=============================================================================
