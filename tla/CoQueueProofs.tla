--------------------------- MODULE CoQueueProofs ---------------------------
(***************************************************************************)
(* The queue inherits the invariants of the event loop, because each of    *)
(* its steps is a step of the loop or a stutter, and loses no wake-up.     *)
(***************************************************************************)
EXTENDS CoQueue, CoSocketProofs

USE CoSocketAssumption, CoQueueAssumption
USE DEF NoCondition, COROUTINE_RUNNING, COROUTINE_SUSPEND

\* A consumer that still waits for the condition has an empty queue.  This is
\* NoLostWakeup said of m_conditionMap, which only ConditionWait and
\* ConditionNotify change.
WaitersFindNothing ==
  \A c \in Co, q \in Queue :
    /\ deque[c] = q
    /\ \E k \in DOMAIN m_conditionMap : c \in m_conditionMap[k]
    => m_queue[q] = 0

QueueInv == LoopInv /\ QueueTypeOK /\ DequeInv /\ WaitersFindNothing

\* Every step of coroutines that use queues is one of the event loop.
LEMMA StepIsLoopStep == QueueTypeOK /\ DequeInv /\ [QueueNext]_qvars => [Next]_vars
<1> SUFFICES ASSUME QueueTypeOK, DequeInv, QueueNext PROVE [Next]_vars
  BY DEF qvars
<1>1. ASSUME NEW c \in Co, NEW q \in Queue, Construct(c, q) PROVE Next
  BY <1>1 DEF Construct, Next, CoroutineStep
<1>2. ASSUME NEW c \in Co, NEW q \in Queue, Enque(c, q) PROVE Next
  <2>1. m_condition[q] \in Conditions /\ ConditionNotify(c, m_condition[q])
    BY <1>2 DEF Enque, QueueTypeOK
  <2> QED  BY <2>1 DEF Next, CoroutineStep
<1>3. ASSUME NEW c \in Co, NEW q \in Queue, Deque(c, q) \/ DequeTakes(c, q) PROVE UNCHANGED vars
  BY <1>3 DEF Deque, DequeTakes
<1>4. ASSUME NEW c \in Co, DequeResumes(c) PROVE Next
  BY <1>4 DEF DequeResumes, Next, CoroutineResumes
<1>5. ASSUME NEW c \in Co, NEW q \in Queue, DequeWaits(c, q) PROVE Next
  <2>1. m_condition[q] \in Conditions /\ ConditionWait(c, m_condition[q])
    BY <1>5 DEF DequeWaits, QueueTypeOK, DequeInv
  <2> QED  BY <2>1 DEF Next, CoroutineLeaves
<1>6. CASE Other
  <2>1. ASSUME NEW c \in Co, NewCoroutine(c) \/ Return(c) PROVE Next
    BY <2>1 DEF Next, CoroutineStep, CoroutineLeaves
  <2>2. ASSUME NEW c \in Co, NewCoroutineInMain(c) PROVE Next
    BY <2>2 DEF Next, Environment
  <2>3. CASE PollInterrupted
    BY <2>3 DEF Next, Environment
  <2> QED  BY <1>6, <2>1, <2>2, <2>3 DEF Other
<1>7. CASE QueueLoop
  BY <1>7 DEF QueueLoop, Next
<1> QED
  BY <1>1, <1>2, <1>3, <1>4, <1>5, <1>6, <1>7 DEF QueueNext, DequeGoesOn

LEMMA InitQueue == QueueInit => QueueInv
<1> SUFFICES ASSUME QueueInit PROVE QueueInv
  OBVIOUS
<1>1. LoopInv
  BY InitLoopInv DEF QueueInit
<1>2. QueueTypeOK
  BY DEF QueueInit, QueueTypeOK
<1>3. DequeInv
  BY DEF QueueInit, Init, DequeInv
<1>4. WaitersFindNothing
  BY DEF QueueInit, WaitersFindNothing
<1> QED  BY <1>1, <1>2, <1>3, <1>4 DEF QueueInv

\* The loop and the other steps of coroutines leave the waits alone.
LEMMA OtherKeeps ==
  ASSUME Other \/ QueueLoop
  PROVE  UNCHANGED <<m_condition, m_queue, deque, wait, m_conditionMap>>
<1>1. CASE QueueLoop
  BY <1>1 DEF QueueLoop, queueVars, LoopStep, Run, RunNewCoFunc, RunWaitResumeCo, PollEvents,
              PollTimesOut, EventHandlerIn, EventHandlerOut, RunTimeoutCoBegin, RunTimeoutCo,
              RunTimeoutCoEnd, condVars
<1>2. CASE Other
  BY <1>2 DEF Other, queueVars, NewCoroutine, Return, NewCoroutineInMain, PollInterrupted, condVars
<1> QED  BY <1>1, <1>2

\* The coroutine that runs is in no set of m_conditionMap.
LEMMA RunningWaitsNot ==
  ASSUME LoopInv, NEW c \in Co, running = c, NEW k \in DOMAIN m_conditionMap
  PROVE  c \notin m_conditionMap[k]
<1>1. status[c] = COROUTINE_RUNNING
  BY DEF LoopInv, BlockedInv, OnlyRunningRuns
<1> QED  BY <1>1 DEF LoopInv, ConditionInv

\* A coroutine in a set of m_conditionMap waits for a condition with that key.
LEMMA WaiterHasKey ==
  ASSUME LoopInv, DequeInv, NEW c \in Co, NEW k \in DOMAIN m_conditionMap, c \in m_conditionMap[k]
  PROVE  deque[c] # NoQueue /\ k = Key(m_condition[deque[c]])
<1>1. InCond(c) /\ Key(wait[c].condition) = k /\ wait[c] # NoWait
  BY DEF LoopInv, ConditionInv, InCond, NoWait
<1> QED  BY <1>1 DEF DequeInv

LEMMA NextQueue == QueueInv /\ [QueueNext]_qvars => QueueInv'
<1> SUFFICES ASSUME QueueInv, [QueueNext]_qvars PROVE QueueInv'
  OBVIOUS
<1> USE DEF QueueInv
<1> DEFINE Parts == QueueTypeOK /\ DequeInv /\ WaitersFindNothing
<1>1. LoopInv'
  BY StepIsLoopStep, NextLoopInv
<1>2. ASSUME UNCHANGED <<m_condition, m_queue, deque, wait, m_conditionMap>> PROVE Parts'
  BY <1>2 DEF QueueTypeOK, DequeInv, WaitersFindNothing, InCond
<1>3. ASSUME NEW c \in Co, NEW q \in Queue, Construct(c, q) PROVE Parts'
  <2>1. /\ m_condition[q] = NoCondition
        /\ m_condition' = [m_condition EXCEPT ![q] = m_conditionCounter]
        /\ UNCHANGED <<m_queue, deque, wait, m_conditionMap>>
        /\ m_conditionCounter < MaxCondition
    BY <1>3 DEF Construct, GetCondition
  <2>2. m_conditionCounter \in Conditions /\ m_conditionCounter # NoCondition
    BY <2>1 DEF LoopInv, TypeOK, Conditions
  <2>3. QueueTypeOK'
    BY <2>1, <2>2 DEF QueueTypeOK
  <2>4. \A d \in Co : deque[d] # NoQueue => deque[d] \in Queue /\ deque[d] # q
    BY <2>1 DEF QueueTypeOK, DequeInv
  <2>5. \A d \in Co : deque[d] # NoQueue => m_condition'[deque[d]] = m_condition[deque[d]]
    BY <2>1, <2>4 DEF QueueTypeOK
  <2>6. DequeInv'
    BY <2>1, <2>5 DEF DequeInv, InCond
  <2>7. WaitersFindNothing'
    BY <2>1 DEF WaitersFindNothing
  <2> QED  BY <2>3, <2>6, <2>7
<1>4. ASSUME NEW c \in Co, NEW q \in Queue, Enque(c, q) PROVE Parts'
  <2>1. /\ m_queue[q] < MaxElements
        /\ m_queue' = [m_queue EXCEPT ![q] = @ + 1]
        /\ m_conditionMap' = [m_conditionMap EXCEPT ![Key(m_condition[q])] = {}]
        /\ UNCHANGED <<m_condition, deque, wait>>
    BY <1>4 DEF Enque, ConditionNotify
  <2>2. QueueTypeOK' /\ DequeInv'
    BY <2>1 DEF QueueTypeOK, DequeInv, InCond
  <2>3. ASSUME NEW d \in Co, NEW p \in Queue, deque'[d] = p,
               NEW k \in DOMAIN m_conditionMap', d \in m_conditionMap'[k]
        PROVE  m_queue'[p] = 0
    <3>1. k \in DOMAIN m_conditionMap /\ k # Key(m_condition[q]) /\ d \in m_conditionMap[k]
      BY <2>1, <2>3
    <3>2. deque[d] = p /\ k = Key(m_condition[p])
      BY <2>1, <2>3, <3>1, WaiterHasKey
    <3>3. p # q
      BY <3>1, <3>2
    <3>4. m_queue[p] = 0
      BY <3>1, <3>2 DEF WaitersFindNothing
    <3> QED  BY <2>1, <3>3, <3>4 DEF QueueTypeOK
  <2> QED  BY <2>2, <2>3 DEF WaitersFindNothing
<1>5. ASSUME NEW c \in Co, NEW q \in Queue, Deque(c, q) PROVE Parts'
  <2>1. /\ running = c /\ wait[c] = NoWait /\ m_condition[q] # NoCondition
        /\ deque' = [deque EXCEPT ![c] = q]
        /\ UNCHANGED <<m_condition, m_queue, wait, m_conditionMap>>
    BY <1>5 DEF Deque, Running, vars, condVars
  <2>2. QueueTypeOK' /\ DequeInv'
    BY <2>1 DEF QueueTypeOK, DequeInv, InCond
  <2>3. \A k \in DOMAIN m_conditionMap : c \notin m_conditionMap[k]
    BY <2>1, RunningWaitsNot
  <2>4. WaitersFindNothing'
    BY <2>1, <2>3 DEF WaitersFindNothing, QueueTypeOK
  <2> QED  BY <2>2, <2>4
<1>6. ASSUME NEW c \in Co, NEW q \in Queue, DequeTakes(c, q) PROVE Parts'
  <2>1. /\ running = c /\ wait[c] = NoWait /\ deque[c] = q /\ m_queue[q] > 0
        /\ m_queue' = [m_queue EXCEPT ![q] = @ - 1]
        /\ deque' = [deque EXCEPT ![c] = NoQueue]
        /\ UNCHANGED <<m_condition, wait, m_conditionMap>>
    BY <1>6 DEF DequeTakes, Running, vars, condVars
  <2>2. QueueTypeOK' /\ DequeInv'
    BY <2>1 DEF QueueTypeOK, DequeInv, InCond
  <2>3. WaitersFindNothing'
    BY <2>1 DEF WaitersFindNothing, QueueTypeOK
  <2> QED  BY <2>2, <2>3
<1>7. ASSUME NEW c \in Co, DequeResumes(c) PROVE Parts'
  <2>1. /\ wait' = [wait EXCEPT ![c] = NoWait]
        /\ UNCHANGED <<m_condition, m_queue, deque, m_conditionMap>>
    BY <1>7 DEF DequeResumes, WaitResumes, queueVars, condVars
  <2>2. \A d \in Co : wait'[d] # NoWait => wait'[d] = wait[d]
    BY <2>1 DEF LoopInv, TypeOK
  <2>3. DequeInv'
    BY <2>1, <2>2 DEF DequeInv, InCond
  <2>4. QueueTypeOK' /\ WaitersFindNothing'
    BY <2>1 DEF QueueTypeOK, WaitersFindNothing
  <2> QED  BY <2>3, <2>4
<1>8. ASSUME NEW c \in Co, NEW q \in Queue, DequeWaits(c, q) PROVE Parts'
  <2>1. /\ deque[c] = q /\ m_queue[q] = 0
        /\ m_conditionMap' = [m_conditionMap EXCEPT ![Key(m_condition[q])] = @ \cup {c}]
        /\ wait' = [wait EXCEPT ![c] = [op |-> "Condition", condition |-> m_condition[q]]]
        /\ UNCHANGED <<m_condition, m_queue, deque>>
    BY <1>8 DEF DequeWaits, ConditionWait, queueVars
  <2>2. /\ wait'[c] = [op |-> "Condition", condition |-> m_condition[q]]
        /\ \A d \in Co \ {c} : wait'[d] = wait[d]
    BY <2>1 DEF LoopInv, TypeOK
  <2>3. wait'[c].op = "Condition" /\ wait'[c].condition = m_condition[q]
    BY <2>2
  <2>4. DequeInv'
    BY <2>1, <2>2, <2>3 DEF DequeInv, InCond
  <2>5. WaitersFindNothing'
    BY <2>1 DEF WaitersFindNothing
  <2> QED  BY <2>1, <2>4, <2>5 DEF QueueTypeOK
<1>9. ASSUME Other \/ QueueLoop PROVE Parts'
  <2>1. UNCHANGED <<m_condition, m_queue, deque, wait, m_conditionMap>>
    BY <1>9, OtherKeeps
  <2> HIDE DEF Parts
  <2> QED  BY <1>2, <2>1
<1>10. ASSUME UNCHANGED qvars PROVE Parts'
  <2>1. UNCHANGED <<m_condition, m_queue, deque, wait, m_conditionMap>>
    BY <1>10 DEF qvars, vars, queueVars, condVars
  <2> HIDE DEF Parts
  <2> QED  BY <1>2, <2>1
<1>11. Parts'
  <2> HIDE DEF Parts, QueueInv
  <2> QED  BY <1>3, <1>4, <1>5, <1>6, <1>7, <1>8, <1>9, <1>10 DEF QueueNext, DequeGoesOn
<1> QED  BY <1>1, <1>11

LEMMA QueueInvariance == QueueSpec => []QueueInv
BY InitQueue, NextQueue, PTL DEF QueueSpec

\* Types, and Deque never takes an element from an empty queue, for any number
\* of queues, producers and consumers.
THEOREM QueueTypeCorrect == QueueSpec => []QueueTypeOK
<1>1. QueueInv => QueueTypeOK
  BY DEF QueueInv
<1> QED  BY <1>1, QueueInvariance, PTL

\* No consumer sleeps unnoticed beside an element, for any number of queues,
\* producers and consumers, and however few keys m_conditionMap has.
THEOREM WakeupsKept == QueueSpec => []NoLostWakeup
<1>1. QueueInv => NoLostWakeup
  <2> SUFFICES ASSUME QueueInv, NEW c \in Co, NEW q \in Queue, deque[c] = q,
                      status[c] = COROUTINE_SUSPEND, m_queue[q] > 0, ~Listed(c)
               PROVE  FALSE
    BY DEF NoLostWakeup
  <2> USE DEF QueueInv
  <2>1. wait[c] # NoWait
    BY DEF LoopInv, BlockedInv
  <2>2. InCond(c)
    BY <2>1 DEF DequeInv
  <2>3. wait[c].condition = m_condition[q] /\ m_condition[q] \in Conditions
    BY <2>1 DEF DequeInv, QueueTypeOK
  <2>4. Key(wait[c].condition) \in DOMAIN m_conditionMap
    BY <2>3, KeyType DEF LoopInv, TypeOK, Conditions
  <2>5. c \in m_conditionMap[Key(wait[c].condition)]
    BY <2>2, <2>4 DEF LoopInv, ConditionInv
  <2> QED  BY <2>4, <2>5 DEF WaitersFindNothing
<1> QED  BY <1>1, QueueInvariance, PTL

\* Coroutines that use queues are well-behaved clients of the event loop.
THEOREM QueueUsesLoop == QueueSpec => Spec
<1>1. QueueInit => Init
  BY DEF QueueInit
<1>2. QueueInv /\ [QueueNext]_qvars => [Next]_vars
  BY StepIsLoopStep DEF QueueInv
<1> QED  BY <1>1, <1>2, QueueInvariance, PTL DEF QueueSpec, Spec
=============================================================================
