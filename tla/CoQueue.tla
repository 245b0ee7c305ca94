------------------------------ MODULE CoQueue ------------------------------
(***************************************************************************)
(* The queue between coroutines, net/CoQueue.h, composed with the event    *)
(* loop: coroutines do nothing but use queues, and the loop of module      *)
(* CoSocket schedules them.  A queue is the number of its elements, since  *)
(* nothing here depends on which they are.                                 *)
(***************************************************************************)
EXTENDS CoSocket

CONSTANTS
  Queue,        \* the queues
  NoQueue,      \* none of them
  MaxElements   \* bound: elements in a queue at a time

ASSUME CoQueueAssumption == NoQueue \notin Queue /\ MaxElements \in Nat

NoCondition == -1   \* m_condition of a queue that is not constructed yet

VARIABLES
  m_condition,  \* the condition of each queue
  m_queue,      \* the number of elements of each queue
  deque         \* the queue each coroutine is inside Deque of, or NoQueue

queueVars == <<m_condition, m_queue, deque>>
qvars == <<vars, queueVars>>

QueueInit ==
  /\ Init
  /\ m_condition = [q \in Queue |-> NoCondition]
  /\ m_queue = [q \in Queue |-> 0]
  /\ deque = [c \in Co |-> NoQueue]

Free(c) == deque[c] = NoQueue

Construct(c, q) ==
  /\ Free(c) /\ m_condition[q] = NoCondition
  /\ GetCondition(c)
  /\ m_condition' = [m_condition EXCEPT ![q] = m_conditionCounter]
  /\ UNCHANGED <<m_queue, deque>>

\* Variant: no notification when the queue was empty.
Enque_TestFirst(c, q) ==
  /\ Free(c) /\ m_condition[q] # NoCondition
  /\ m_queue[q] < MaxElements
  /\ m_queue' = [m_queue EXCEPT ![q] = @ + 1]
  /\ IF m_queue[q] > 0 THEN ConditionNotify(c, m_condition[q])
     ELSE Running(c) /\ UNCHANGED vars
  /\ UNCHANGED <<m_condition, deque>>

Enque(c, q) ==
  /\ Free(c) /\ m_condition[q] # NoCondition
  /\ m_queue[q] < MaxElements
  /\ m_queue' = [m_queue EXCEPT ![q] = @ + 1]
  /\ ConditionNotify(c, m_condition[q])
  /\ UNCHANGED <<m_condition, deque>>

\* Deque is called; the test of its loop is a step of its own.
Deque(c, q) ==
  /\ Running(c) /\ Free(c) /\ m_condition[q] # NoCondition
  /\ deque' = [deque EXCEPT ![c] = q]
  /\ UNCHANGED <<vars, m_condition, m_queue>>

\* The queue is empty: Deque waits for the condition.
DequeWaits(c, q) ==
  /\ deque[c] = q /\ m_queue[q] = 0
  /\ ConditionWait(c, m_condition[q])
  /\ UNCHANGED queueVars

\* Variant: Deque has an if in place of its while.
DequeResumes_If(c) ==
  /\ WaitResumes(c)
  /\ m_queue' = [m_queue EXCEPT ![deque[c]] = @ - 1]
  /\ deque' = [deque EXCEPT ![c] = NoQueue]
  /\ UNCHANGED m_condition

\* ConditionWait returns; the loop of Deque tests the queue again.
DequeResumes(c) ==
  /\ WaitResumes(c)
  /\ UNCHANGED queueVars

\* The queue is not empty: Deque returns its first element.
DequeTakes(c, q) ==
  /\ Running(c) /\ deque[c] = q /\ m_queue[q] > 0
  /\ m_queue' = [m_queue EXCEPT ![q] = @ - 1]
  /\ deque' = [deque EXCEPT ![c] = NoQueue]
  /\ UNCHANGED <<vars, m_condition>>

\* What else coroutines and the main context do.
Other ==
  /\ \/ \E c \in Co : Free(c) /\ (NewCoroutine(c) \/ Return(c))
     \/ \E c \in Co : NewCoroutineInMain(c)
     \/ PollInterrupted
  /\ UNCHANGED queueVars

QueueLoop == LoopStep /\ UNCHANGED queueVars

\* The steps with which the running coroutine comes back from a wait, and
\* those with which it goes on inside Deque or gives up the control.
DequeGoesOn == \E c \in Co : \/ DequeResumes(c)
                             \/ \E q \in Queue : DequeWaits(c, q) \/ DequeTakes(c, q)
ReturnFree == (\E c \in Co : Free(c) /\ Return(c)) /\ UNCHANGED queueVars

QueueNext ==
  \/ \E c \in Co, q \in Queue : Construct(c, q) \/ Enque(c, q) \/ Deque(c, q)
  \/ DequeGoesOn
  \/ Other
  \/ QueueLoop

QueueSpec == QueueInit /\ [][QueueNext]_qvars

----------------------------------------------------------------------------

\* Types; in particular pop_front is never called on an empty queue.
QueueTypeOK ==
  /\ m_condition \in [Queue -> Conditions \cup {NoCondition}]
  /\ m_queue \in [Queue -> 0 .. MaxElements]
  /\ deque \in [Co -> Queue \cup {NoQueue}]

\* Between the test of Deque's loop and its wake-up no element is overlooked:
\* a consumer that is suspended while its queue holds an element is already
\* in m_waitResumeList, whoever else is waiting, whichever consumer runs
\* first and even when two queues share a key of m_conditionMap.
NoLostWakeup ==
  \A c \in Co, q \in Queue :
    deque[c] = q /\ status[c] = COROUTINE_SUSPEND /\ m_queue[q] > 0 => Listed(c)

\* A coroutine that is blocked waits for the condition of the queue it is
\* dequeuing from.
DequeInv ==
  \A c \in Co :
    /\ deque[c] # NoQueue => m_condition[deque[c]] # NoCondition
    /\ wait[c] # NoWait =>
         /\ deque[c] # NoQueue
         /\ InCond(c) /\ wait[c].condition = m_condition[deque[c]]

----------------------------------------------------------------------------
(* Progress, as in module CoSocket: the loop runs, and the coroutine that  *)
(* runs goes on with Deque and gives up the control sooner or later.       *)

QueueFairness ==
  /\ WF_qvars(QueueLoop)
  /\ WF_qvars(DequeGoesOn)
  /\ SF_qvars(ReturnFree)

QueueFairSpec == QueueSpec /\ QueueFairness

\* A consumer of a queue that holds an element gets one, or the queue is
\* emptied by others first.
ConsumerIsServed ==
  []<>(phase = "RunWaitResumeCo") =>
    \A c \in Co, q \in Queue :
      (deque[c] = q /\ m_queue[q] > 0) ~> (deque[c] = NoQueue \/ m_queue[q] = 0)
=============================================================================
