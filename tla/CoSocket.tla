------------------------------ MODULE CoSocket ------------------------------
(***************************************************************************)
(* The event loop: class CoSocket (net/CoSocket.{h,cpp}) with the Epoller  *)
(* it owns (net/Epoller.cpp) and the Timestamps of its TimeoutSet          *)
(* (base/Timestamp.cpp), on top of the coroutine scheduler (CoSched).      *)
(*                                                                         *)
(* One thread runs either the loop of CoSocket::Run (running = NoCo) or    *)
(* one coroutine (running = c).  The kernel acts between any two steps:    *)
(* descriptors become ready, time passes.  The code of a coroutine is the  *)
(* client's; here it may make any call of the API in any order, within the *)
(* two rules of use that DuplicateUse and HandClose lift.                  *)
(*                                                                         *)
(* A coroutine that is blocked inside a call has a wait record: it stands  *)
(* for the C++ frame that will go on after coroutine_yield.  Resuming the  *)
(* coroutine and the code after the yield are two steps.                   *)
(***************************************************************************)
EXTENDS CoSched, Timestamp, Sequences, FiniteSets

CONSTANTS
  Fd,                  \* descriptor numbers
  Ops,                 \* Ops[fd]: the calls clients make on descriptor fd
  FaultyFd,            \* descriptors that may report EPOLLERR or EPOLLHUP
  SharedFd,            \* descriptors shared with other processes (listeners
                       \* inherited through fork): others may take the input
  kInitEventListSize,  \* initial size of Epoller::m_events
  Timeouts,            \* values of the argument timeoutMs
  PollSlack,           \* the 10 (ms) that Run adds to the time gap
  MaxTime,             \* bound: the clock stops here
  MaxCondition,        \* bound: conditions handed out by GetCondition
  IntKeys,             \* number of int keys, 2^32 in the code: the condition is
                       \* a uint64_t but m_conditionMap is a map<int, ...>
  DuplicateUse,        \* may two coroutines block on one event of one fd?
  HandClose            \* may an fd be closed while a coroutine is blocked on it?

Op == {"Connect", "Accept", "Read", "Write"}
Event == {"EPOLLIN", "EPOLLOUT"}
EPOLLERR == "EPOLLERR"       \* EPOLLERR or EPOLLHUP
EventOf(op) == IF op \in {"Connect", "Write"} THEN "EPOLLOUT" ELSE "EPOLLIN"

ASSUME CoSocketAssumption ==
  /\ IsFiniteSet(Co) /\ IsFiniteSet(Fd)
  /\ Ops \in [Fd -> SUBSET Op]
  /\ FaultyFd \subseteq Fd /\ SharedFd \subseteq Fd
  /\ kInitEventListSize \in Nat \ {0}
  /\ Timeouts \subseteq Int
  /\ PollSlack \in Nat
  /\ MaxTime \in Nat /\ MaxCondition \in Nat
  /\ IntKeys \in Nat \ {0}
  /\ DuplicateUse \in BOOLEAN /\ HandClose \in BOOLEAN

VARIABLES
  phase,               \* where Run is
  m_coFuncList,        \* how many functions there are from the iterator of
                       \* RunNewCoFunc on
  m_waitResumeList,    \* from the iterator of RunWaitResumeCo on
  m_conditionCounter,
  m_conditionMap,      \* key -> the coroutines that wait
  m_handlingTimeout,
  m_timeoutSet,        \* TimeoutSet::m_timeoutSet
  m_timeoutPtrMap,     \* TimeoutSet::m_timeoutPtrMap, an iterator as its entry
  now,                 \* the local variable of RunTimeoutCo (time 0 outside it)
  m_coIdMap,           \* fd -> FdWatcher: event -> coroutine id or NoCo
  m_events,            \* events of this epoll_wait still to be handled
  m_eventsSize,        \* m_events.size()
  wait,                \* the call a coroutine is blocked in
  open,                \* kernel: which descriptors are open
  interest,            \* kernel: the events each fd is registered for; {}: none
  ready,               \* kernel: the events pending on each fd
  clock,               \* kernel: gettimeofday
  stale,               \* history: <<fd, e>> that m_events may report in vain, as
                       \* fd was opened again or another coroutine took e
  aborted              \* abort() was called

loopVars  == <<phase, m_events, m_eventsSize, now, m_handlingTimeout>>
listVars  == <<m_coFuncList, m_waitResumeList>>
condVars  == <<m_conditionCounter, m_conditionMap>>
timeVars  == <<m_timeoutSet, m_timeoutPtrMap>>
fdVars    == <<m_coIdMap, interest>>
kernVars  == <<open, ready, clock, stale>>
vars == <<schedVars, loopVars, listVars, condVars, timeVars, fdVars, kernVars,
          wait, aborted>>

Phase == {"main", "RunNewCoFunc", "RunWaitResumeCo", "Poll", "EventIn", "EventOut",
          "RunTimeoutCo"}

NoWait   == [op |-> "none"]
IoWait   == [op : Op, fd : Fd, timeoutMs : Timeouts, since : 0 .. MaxTime]
CondWait == [op : {"Condition"}, condition : 0 .. MaxCondition - 1]

InIo(c)  == wait[c].op \in Op
InCond(c) == wait[c].op = "Condition"

Init ==
  /\ SchedInit
  /\ phase = "main"
  /\ m_coFuncList = 0 /\ m_waitResumeList = <<>>
  /\ m_conditionCounter = 0
  /\ m_conditionMap = [k \in 0 .. IntKeys - 1 |-> {}]
  /\ m_handlingTimeout = FALSE
  /\ m_timeoutSet = {} /\ m_timeoutPtrMap = [c \in {} |-> 0]
  /\ now = TimestampAt(0)
  /\ m_coIdMap = [fd \in Fd |-> [e \in Event |-> NoCo]]
  /\ m_events = <<>> /\ m_eventsSize = kInitEventListSize
  /\ wait = [c \in Co |-> NoWait]
  /\ open \in [Fd -> BOOLEAN]
  /\ interest = [fd \in Fd |-> {}]
  /\ ready = [fd \in Fd |-> {}]
  /\ clock = 0 /\ stale = {}
  /\ aborted = FALSE

----------------------------------------------------------------------------
(* class CoSocket::TimeoutSet and SetTimeoutGuard.                         *)

TimeoutInsert(coId, timeoutMs) ==
  LET timeout == [coId |-> coId,
                  timestamp |-> AddMillisecond(TimestampAt(clock), timeoutMs)]
  IN  IF timeout \in m_timeoutSet
      THEN UNCHANGED timeVars
      ELSE /\ m_timeoutSet' = m_timeoutSet \cup {timeout}
           /\ m_timeoutPtrMap' =
                [c \in DOMAIN m_timeoutPtrMap \cup {coId} |->
                   IF c \in DOMAIN m_timeoutPtrMap THEN m_timeoutPtrMap[c] ELSE timeout]

TimeoutDelete(coId) ==
  IF coId \in DOMAIN m_timeoutPtrMap
  THEN /\ m_timeoutSet' = m_timeoutSet \ {m_timeoutPtrMap[coId]}
       /\ m_timeoutPtrMap' = [c \in DOMAIN m_timeoutPtrMap \ {coId} |-> m_timeoutPtrMap[c]]
  ELSE UNCHANGED timeVars

\* m_timeoutSet.begin() in the order of operator < on CoIdTimeout.
IsBegin(x) ==
  /\ x \in m_timeoutSet
  /\ \A y \in m_timeoutSet :
       \/ Before(x.timestamp, y.timestamp)
       \/ x.timestamp = y.timestamp /\ x.coId <= y.coId

\* x is what GetExpired(now) finds: the first entry, if it is not after now.
IsExpired(x) == IsBegin(x) /\ ~Before(now, x.timestamp)

\* Variant: only a call that timed out deletes its deadline.
GuardEnd_IfTimedOut(coId, timeoutMs) ==
  IF timeoutMs > 0 /\ m_handlingTimeout THEN TimeoutDelete(coId) ELSE UNCHANGED timeVars

\* The constructor and the destructor of SetTimeoutGuard.
GuardBegin(coId, timeoutMs) ==
  IF timeoutMs > 0 THEN TimeoutInsert(coId, timeoutMs) ELSE UNCHANGED timeVars

GuardEnd(coId, timeoutMs) ==
  IF timeoutMs > 0 THEN TimeoutDelete(coId) ELSE UNCHANGED timeVars

\* The time by which the first deadline has been missed, 0 if it has not.
GetNeareastTimeGap ==
  IF m_timeoutSet = {} THEN -1
  ELSE LET begin == CHOOSE x \in m_timeoutSet : IsBegin(x)
           gap   == Difference(TimestampAt(clock), begin.timestamp)
       IN  IF gap < 0 THEN 0 ELSE gap

----------------------------------------------------------------------------
(* class FdWatcher and class Epoller.                                      *)

HasCoroutine(fd, e) == m_coIdMap[fd][e] # NoCo

GetEvents(fd) == {e \in Event : HasCoroutine(fd, e)}

\* errno of ::epoll_ctl on a pollable descriptor (external).
EpollCtl(operation, fd) ==
  CASE ~open[fd] -> "EBADF"
    [] open[fd] /\ operation = "ADD" /\ interest[fd] # {} -> "EEXIST"
    [] open[fd] /\ operation # "ADD" /\ interest[fd] = {} -> "ENOENT"
    [] OTHER -> "OK"

\* Variant: no second attempt with EPOLL_CTL_MOD.
UpdateResult_NoMod(fd, events) ==
  LET operation == IF events = {} THEN "DEL" ELSE "ADD"
      ret == EpollCtl(operation, fd)
  IN  IF ret = "ENOENT" /\ operation = "DEL" THEN "OK" ELSE ret

\* The result of Epoller::Update.
UpdateResult(fd, events) ==
  LET operation == IF events = {} THEN "DEL" ELSE "ADD"
      ret == EpollCtl(operation, fd)
  IN  CASE ret = "ENOENT" /\ operation = "DEL" -> "OK"
        [] ret = "EEXIST" /\ operation = "ADD" -> EpollCtl("MOD", fd)
        [] OTHER -> ret

\* m_epoller->Update and the abort() of its callers when it fails.
UpdateOrAbort(fd, events) ==
  LET ok == UpdateResult(fd, events) = "OK"
  IN  /\ interest' = IF ok THEN [interest EXCEPT ![fd] = events] ELSE interest
      /\ aborted' = ~ok

\* SaveToCoIdMap with the slot free, and the epoll registration.
AddEvent(c, fd, e) ==
  /\ ~HasCoroutine(fd, e)
  /\ m_coIdMap' = [m_coIdMap EXCEPT ![fd] = [@ EXCEPT ![e] = c]]
  /\ UpdateOrAbort(fd, GetEvents(fd) \cup {e})

\* Variant: the descriptor is removed from epoll whoever else waits for it.
DeleteEvent_WholeFd(fd, e) ==
  /\ UpdateOrAbort(fd, {})
  /\ m_coIdMap' = [m_coIdMap EXCEPT ![fd] = [@ EXCEPT ![e] = NoCo]]

\* Variant: ResetInCoIdMap is forgotten.
DeleteEvent_NoReset(fd, e) ==
  /\ UpdateOrAbort(fd, GetEvents(fd) \ {e})
  /\ UNCHANGED m_coIdMap

\* Variant: the whole FdWatcher is reset.
DeleteEvent_BothSlots(fd, e) ==
  /\ UpdateOrAbort(fd, GetEvents(fd) \ {e})
  /\ m_coIdMap' = [m_coIdMap EXCEPT ![fd] = [x \in Event |-> NoCo]]

DeleteEvent(fd, e) ==
  /\ UpdateOrAbort(fd, GetEvents(fd) \ {e})
  /\ m_coIdMap' = [m_coIdMap EXCEPT ![fd] = [@ EXCEPT ![e] = NoCo]]

----------------------------------------------------------------------------
(* Calls that the running coroutine makes.                                 *)

Running(c) == running = c /\ wait[c] = NoWait /\ ~aborted

\* The main context runs, at point p of Run.
Loop(p) == running = NoCo /\ phase = p /\ ~aborted

\* The events of one epoll_wait are being handled.
Handling == phase \in {"EventIn", "EventOut"}

\* The descriptor's readiness after a system call that may use up event e.
MayConsume(fd, e) ==
  \E left \in {ready[fd], ready[fd] \ {e}} : ready' = [ready EXCEPT ![fd] = left]

\* The first system call of Connect, Accept, Read or Write succeeds, whoever is
\* blocked on the same event.  (If it fails for good the call returns -errno
\* and changes nothing: a stutter.)
CallAtOnce(c, op, fd) ==
  LET e == EventOf(op)
  IN  /\ Running(c) /\ open[fd] /\ op \in Ops[fd]
      /\ e \in ready[fd]
      /\ IF op = "Connect" THEN UNCHANGED ready ELSE MayConsume(fd, e)
      /\ stale' = IF Handling /\ HasCoroutine(fd, e) /\ e \notin ready'[fd]
                  THEN stale \cup {<<fd, e>>} ELSE stale
      /\ UNCHANGED <<schedVars, loopVars, listVars, condVars, timeVars, fdVars, wait,
                     open, clock, aborted>>

\* It fails with EAGAIN, EINPROGRESS or EINTR: the coroutine blocks.
CallBlocks(c, op, fd, timeoutMs) ==
  /\ Running(c) /\ open[fd] /\ op \in Ops[fd]
  /\ GuardBegin(c, timeoutMs)
  /\ AddEvent(c, fd, EventOf(op))
  /\ wait' = [wait EXCEPT ![c] =
                [op |-> op, fd |-> fd, timeoutMs |-> timeoutMs, since |-> clock]]
  /\ coroutine_yield
  /\ UNCHANGED <<loopVars, listVars, condVars, kernVars>>

\* It fails so while another coroutine is blocked on the same event.
\* SaveToCoIdMap fails, AddEventAndYield returns -1 without yielding, and the
\* caller, which ignores the result, goes on as if it had been resumed.  The
\* timeout it inserts is deleted again on the way out.
CallIsDuplicate(c, op, fd) ==
  /\ DuplicateUse
  /\ Running(c) /\ open[fd] /\ op \in Ops[fd]
  /\ HasCoroutine(fd, EventOf(op))
  /\ DeleteEvent(fd, EventOf(op))
  /\ IF m_handlingTimeout THEN UNCHANGED ready ELSE MayConsume(fd, EventOf(op))
  /\ UNCHANGED <<schedVars, loopVars, listVars, condVars, timeVars, wait,
                 open, clock, stale>>

\* Connect, Accept, Read or Write after the yield: the call is made again (or,
\* for Connect, SO_ERROR read) unless the loop is handling timeouts; then the
\* event is deleted and the guard's destructor deletes the timeout.
CallResumes(c) ==
  LET fd == wait[c].fd
      e  == EventOf(wait[c].op)
  IN  /\ running = c /\ InIo(c) /\ ~aborted
      /\ DeleteEvent(fd, e)
      /\ GuardEnd(c, wait[c].timeoutMs)
      /\ IF m_handlingTimeout \/ wait[c].op = "Connect"
         THEN UNCHANGED ready ELSE MayConsume(fd, e)
      /\ wait' = [wait EXCEPT ![c] = NoWait]
      /\ UNCHANGED <<schedVars, loopVars, listVars, condVars, open, clock, stale>>

\* The client opens or closes descriptors with ::socket and ::close; close
\* removes the descriptor from epoll, unless another process shares it: those
\* are never closed while somebody is blocked on them here.  A descriptor that
\* only a function in m_coFuncList still owns is closed by RunNewCoFunc when it
\* clears the list.
Close(c, fd) ==
  /\ Running(c) \/ Loop("RunNewCoFunc")
  /\ open[fd]
  /\ (HandClose /\ fd \notin SharedFd) \/ GetEvents(fd) = {}
  /\ open' = [open EXCEPT ![fd] = FALSE]
  /\ ready' = [ready EXCEPT ![fd] = {}]
  /\ interest' = [interest EXCEPT ![fd] = {}]
  /\ UNCHANGED <<schedVars, loopVars, listVars, condVars, timeVars, wait,
                 m_coIdMap, clock, stale, aborted>>

\* An error of the number's former life is still to be handled.
ErrorInBatch(fd) == \E i \in DOMAIN m_events : m_events[i].fd = fd /\ EPOLLERR \in m_events[i].events

Open(c, fd) ==
  /\ Running(c) /\ ~open[fd]
  /\ open' = [open EXCEPT ![fd] = TRUE]
  /\ stale' = IF ErrorInBatch(fd) THEN stale \cup ({fd} \X Event) ELSE stale
  /\ UNCHANGED <<schedVars, loopVars, listVars, condVars, timeVars, fdVars, wait,
                 ready, clock, aborted>>

GetCondition(c) ==
  /\ Running(c)
  /\ m_conditionCounter < MaxCondition
  /\ m_conditionCounter' = m_conditionCounter + 1
  /\ UNCHANGED <<schedVars, loopVars, listVars, timeVars, fdVars, kernVars, wait,
                 m_conditionMap, aborted>>

\* The implicit conversion of the uint64_t condition to the key type int.
Key(condition) == condition % IntKeys

ConditionWait(c, condition) ==
  /\ Running(c) /\ condition < m_conditionCounter
  /\ m_conditionMap' = [m_conditionMap EXCEPT ![Key(condition)] = @ \cup {c}]
  /\ wait' = [wait EXCEPT ![c] = [op |-> "Condition", condition |-> condition]]
  /\ coroutine_yield
  /\ UNCHANGED <<loopVars, listVars, timeVars, fdVars, kernVars,
                 m_conditionCounter, aborted>>

\* A std::set of ids in the order in which it is iterated.
InOrder(S) ==
  {s \in [1 .. Cardinality(S) -> S] :
     /\ \A x \in S : \E i \in DOMAIN s : s[i] = x
     /\ \A i, j \in DOMAIN s : i < j => s[i] < s[j]}

\* Variant: list.clear() is forgotten.
ConditionNotify_NoClear(c, condition) ==
  /\ Running(c) /\ condition < m_conditionCounter
  /\ \E list \in InOrder(m_conditionMap[Key(condition)]) :
       m_waitResumeList' = m_waitResumeList \o list
  /\ UNCHANGED <<schedVars, loopVars, timeVars, fdVars, kernVars, wait,
                 m_coFuncList, condVars, aborted>>

ConditionNotify(c, condition) ==
  /\ Running(c) /\ condition < m_conditionCounter
  /\ \E list \in InOrder(m_conditionMap[Key(condition)]) :
       m_waitResumeList' = m_waitResumeList \o list
  /\ m_conditionMap' = [m_conditionMap EXCEPT ![Key(condition)] = {}]
  /\ UNCHANGED <<schedVars, loopVars, timeVars, fdVars, kernVars, wait,
                 m_coFuncList, m_conditionCounter, aborted>>

\* ConditionWait after the yield.
WaitResumes(c) ==
  /\ running = c /\ InCond(c) /\ ~aborted
  /\ wait' = [wait EXCEPT ![c] = NoWait]
  /\ UNCHANGED <<schedVars, loopVars, listVars, condVars, timeVars, fdVars, kernVars,
                 aborted>>

\* Bound: there is an id for every function that waits to be started.
MayCreate == Cardinality({c \in Co : status[c] # COROUTINE_DEAD}) + m_coFuncList
               < Cardinality(Co)

\* NewCoroutine called by a coroutine only queues the function.
NewCoroutine(c) ==
  /\ Running(c) /\ MayCreate
  /\ m_coFuncList' = m_coFuncList + 1
  /\ UNCHANGED <<schedVars, loopVars, condVars, timeVars, fdVars, kernVars, wait,
                 m_waitResumeList, aborted>>

\* The function of the coroutine returns.
Return(c) ==
  /\ Running(c)
  /\ mainfunc_return
  /\ UNCHANGED <<loopVars, listVars, condVars, timeVars, fdVars, kernVars, wait, aborted>>

----------------------------------------------------------------------------
(* The main context: the code before Run, and Run.                         *)

\* NewCoroutine called by the main context: coroutine_new and coroutine_resume.
StartCoroutine(c) ==
  /\ status[c] = COROUTINE_DEAD
  /\ status' = [status EXCEPT ![c] = COROUTINE_RUNNING]
  /\ running' = c

NewCoroutineInMain(c) ==
  /\ Loop("main") /\ MayCreate
  /\ StartCoroutine(c)
  /\ UNCHANGED <<loopVars, listVars, condVars, timeVars, fdVars, kernVars, wait, aborted>>

Run ==
  /\ Loop("main")
  /\ phase' = "RunNewCoFunc"
  /\ UNCHANGED <<schedVars, listVars, condVars, timeVars, fdVars, kernVars, wait,
                 m_events, m_eventsSize, now, m_handlingTimeout, aborted>>

\* One iteration of RunNewCoFunc, or its end.
RunNewCoFunc ==
  /\ Loop("RunNewCoFunc")
  /\ \/ /\ m_coFuncList > 0
        /\ \E c \in Co : StartCoroutine(c)
        /\ m_coFuncList' = m_coFuncList - 1
        /\ UNCHANGED phase
     \/ /\ m_coFuncList = 0
        /\ phase' = "RunWaitResumeCo"
        /\ UNCHANGED <<schedVars, m_coFuncList>>
  /\ UNCHANGED <<condVars, timeVars, fdVars, kernVars, wait, m_waitResumeList,
                 m_events, m_eventsSize, now, m_handlingTimeout, aborted>>

\* Variant: the list is cleared after the first coroutine.
RunWaitResumeCo_FirstOnly ==
  /\ Loop("RunWaitResumeCo")
  /\ phase' = "Poll"
  /\ m_waitResumeList' = <<>>
  /\ IF m_waitResumeList # <<>>
     THEN coroutine_resume(Head(m_waitResumeList)) ELSE UNCHANGED schedVars
  /\ UNCHANGED <<condVars, timeVars, fdVars, kernVars, wait, m_coFuncList,
                 m_events, m_eventsSize, now, m_handlingTimeout, aborted>>

\* One iteration of RunWaitResumeCo, or its end.
RunWaitResumeCo ==
  /\ Loop("RunWaitResumeCo")
  /\ \/ /\ m_waitResumeList # <<>>
        /\ coroutine_resume(Head(m_waitResumeList))
        /\ m_waitResumeList' = Tail(m_waitResumeList)
        /\ UNCHANGED phase
     \/ /\ m_waitResumeList = <<>>
        /\ phase' = "Poll"
        /\ UNCHANGED <<schedVars, m_waitResumeList>>
  /\ UNCHANGED <<condVars, timeVars, fdVars, kernVars, wait, m_coFuncList,
                 m_events, m_eventsSize, now, m_handlingTimeout, aborted>>

\* The events epoll reports for fd: those asked for, and errors always.
Pending(fd) == IF interest[fd] = {} THEN {}
               ELSE ready[fd] \cap (interest[fd] \cup {EPOLLERR})

Reported == {fd \in Fd : Pending(fd) # {}}

\* Variant: a full m_events is not resized.
PollEvents_NoResize ==
  /\ Loop("Poll") /\ Reported # {}
  /\ \E n \in {IF Cardinality(Reported) <= m_eventsSize
               THEN Cardinality(Reported) ELSE m_eventsSize} :
       \E fds \in {s \in [1 .. n -> Reported] : \A i, j \in 1 .. n : s[i] = s[j] => i = j} :
         m_events' = [i \in 1 .. n |-> [fd |-> fds[i], events |-> Pending(fds[i])]]
  /\ phase' = "EventIn"
  /\ UNCHANGED <<schedVars, listVars, condVars, timeVars, fdVars, kernVars, wait,
                 m_eventsSize, now, m_handlingTimeout, aborted>>

\* epoll_wait returns events: of all reported descriptors, or of as many as
\* m_events holds, in any order.  A full m_events doubles (after the handlers
\* have run, which do not see its size).
PollEvents ==
  /\ Loop("Poll") /\ Reported # {}
  /\ \E n \in {IF Cardinality(Reported) <= m_eventsSize
               THEN Cardinality(Reported) ELSE m_eventsSize} :
       /\ \E fds \in {s \in [1 .. n -> Reported] : \A i, j \in 1 .. n : s[i] = s[j] => i = j} :
            m_events' = [i \in 1 .. n |-> [fd |-> fds[i], events |-> Pending(fds[i])]]
       /\ m_eventsSize' = IF n = m_eventsSize THEN 2 * n ELSE m_eventsSize
  /\ phase' = "EventIn"
  /\ UNCHANGED <<schedVars, listVars, condVars, timeVars, fdVars, kernVars, wait,
                 now, m_handlingTimeout, aborted>>

\* Variant: Run passes the time gap as it is.
PollTimeout_NoSlack == GetNeareastTimeGap

\* The timeout that Run gives to Poll; epoll_wait has no limit if it is negative.
PollTimeout == GetNeareastTimeGap + PollSlack

\* epoll_wait times out.
PollTimesOut ==
  /\ Loop("Poll") /\ Reported = {} /\ PollTimeout >= 0
  /\ phase' = "EventIn"
  /\ UNCHANGED <<schedVars, listVars, condVars, timeVars, fdVars, kernVars, wait,
                 m_events, m_eventsSize, now, m_handlingTimeout, aborted>>

\* epoll_wait fails with EINTR.
PollInterrupted ==
  /\ Loop("Poll")
  /\ phase' = "EventIn"
  /\ UNCHANGED <<schedVars, listVars, condVars, timeVars, fdVars, kernVars, wait,
                 m_events, m_eventsSize, now, m_handlingTimeout, aborted>>

\* Variant: any event on the descriptor resumes both its coroutines.
Concerns_AnyEvent(e) == HasCoroutine(Head(m_events).fd, e)

\* Does the event at the head of m_events concern the coroutine waiting for e?
Concerns(e) ==
  LET ev == Head(m_events)
  IN  (EPOLLERR \in ev.events \/ e \in ev.events) /\ HasCoroutine(ev.fd, e)

\* EventHandler up to the resumption of the reading coroutine.
EventHandlerIn ==
  /\ Loop("EventIn") /\ m_events # <<>>
  /\ LET fd == Head(m_events).fd
     IN  IF GetEvents(fd) = {}
         THEN /\ m_events' = Tail(m_events)
              /\ UNCHANGED <<phase, schedVars>>
         ELSE /\ phase' = "EventOut"
              /\ IF Concerns("EPOLLIN")
                 THEN coroutine_resume(m_coIdMap[fd]["EPOLLIN"]) ELSE UNCHANGED schedVars
              /\ UNCHANGED m_events
  /\ UNCHANGED <<listVars, condVars, timeVars, fdVars, kernVars, wait,
                 m_eventsSize, now, m_handlingTimeout, aborted>>

\* The rest of EventHandler: the writing coroutine.
EventHandlerOut ==
  /\ Loop("EventOut")
  /\ IF Concerns("EPOLLOUT")
     THEN coroutine_resume(m_coIdMap[Head(m_events).fd]["EPOLLOUT"])
     ELSE UNCHANGED schedVars
  /\ m_events' = Tail(m_events)
  /\ phase' = "EventIn"
  /\ UNCHANGED <<listVars, condVars, timeVars, fdVars, kernVars, wait,
                 m_eventsSize, now, m_handlingTimeout, aborted>>

\* Variant: the time is not taken anew.
RunTimeoutCoBegin_OldNow ==
  /\ Loop("EventIn") /\ m_events = <<>>
  /\ phase' = "RunTimeoutCo"
  /\ m_handlingTimeout' = TRUE
  /\ stale' = {}
  /\ UNCHANGED <<schedVars, listVars, condVars, timeVars, fdVars, wait, open, ready,
                 clock, m_events, m_eventsSize, now, aborted>>

\* Poll returns and RunTimeoutCo begins.
RunTimeoutCoBegin ==
  /\ Loop("EventIn") /\ m_events = <<>>
  /\ phase' = "RunTimeoutCo"
  /\ m_handlingTimeout' = TRUE
  /\ now' = TimestampAt(clock)
  /\ stale' = {}
  /\ UNCHANGED <<schedVars, listVars, condVars, timeVars, fdVars, wait, open, ready,
                 clock, m_events, m_eventsSize, aborted>>

\* One iteration of RunTimeoutCo.
RunTimeoutCo ==
  /\ Loop("RunTimeoutCo")
  /\ \E x \in m_timeoutSet : IsExpired(x) /\ coroutine_resume(x.coId)
  /\ UNCHANGED <<loopVars, listVars, condVars, timeVars, fdVars, kernVars, wait, aborted>>

\* Variant: m_handlingTimeout stays set.
RunTimeoutCoEnd_NoReset ==
  /\ Loop("RunTimeoutCo")
  /\ \A x \in m_timeoutSet : ~IsExpired(x)
  /\ phase' = "RunNewCoFunc"
  /\ now' = TimestampAt(0)
  /\ UNCHANGED <<schedVars, listVars, condVars, timeVars, fdVars, kernVars, wait,
                 m_events, m_eventsSize, m_handlingTimeout, aborted>>

RunTimeoutCoEnd ==
  /\ Loop("RunTimeoutCo")
  /\ \A x \in m_timeoutSet : ~IsExpired(x)
  /\ phase' = "RunNewCoFunc"
  /\ m_handlingTimeout' = FALSE
  /\ now' = TimestampAt(0)
  /\ UNCHANGED <<schedVars, listVars, condVars, timeVars, fdVars, kernVars, wait,
                 m_events, m_eventsSize, aborted>>

----------------------------------------------------------------------------
(* The kernel and the other processes.                                     *)

BecomesReady(fd, e) ==
  /\ open[fd] /\ e \notin ready[fd] /\ ~aborted
  /\ \/ \E op \in Ops[fd] : e = EventOf(op)
     \/ e = EPOLLERR /\ fd \in FaultyFd
  /\ ready' = [ready EXCEPT ![fd] = @ \cup {e}]
  /\ UNCHANGED <<schedVars, loopVars, listVars, condVars, timeVars, fdVars, wait,
                 open, clock, stale, aborted>>

\* Another process that shares the descriptor accepts the connection.
TakenByOther(fd) ==
  /\ fd \in SharedFd /\ "EPOLLIN" \in ready[fd] /\ ~aborted
  /\ ready' = [ready EXCEPT ![fd] = @ \ {"EPOLLIN"}]
  /\ UNCHANGED <<schedVars, loopVars, listVars, condVars, timeVars, fdVars, wait,
                 open, clock, stale, aborted>>

Tick ==
  /\ clock < MaxTime /\ ~aborted
  /\ clock' = clock + 1
  /\ UNCHANGED <<schedVars, loopVars, listVars, condVars, timeVars, fdVars, wait,
                 open, ready, stale, aborted>>

----------------------------------------------------------------------------

Conditions == 0 .. MaxCondition - 1

\* The running coroutine goes on without giving up the control.
CoroutineStep ==
  \E c \in Co :
    \/ \E fd \in Fd : Close(c, fd) \/ Open(c, fd)
    \/ \E fd \in Fd : \E op \in Ops[fd] : CallAtOnce(c, op, fd) \/ CallIsDuplicate(c, op, fd)
    \/ GetCondition(c)
    \/ \E condition \in Conditions : ConditionNotify(c, condition)
    \/ NewCoroutine(c)

\* The running coroutine comes back from a call it was blocked in.
CoroutineResumes == \E c \in Co : CallResumes(c) \/ WaitResumes(c)

\* The running coroutine gives up the control.
CoroutineLeaves ==
  \E c \in Co :
    \/ \E fd \in Fd : \E op \in Ops[fd], t \in Timeouts : CallBlocks(c, op, fd, t)
    \/ \E condition \in Conditions : ConditionWait(c, condition)
    \/ Return(c)

LoopStep ==
  \/ Run \/ RunNewCoFunc \/ RunWaitResumeCo
  \/ PollEvents \/ PollTimesOut
  \/ EventHandlerIn \/ EventHandlerOut
  \/ RunTimeoutCoBegin \/ RunTimeoutCo \/ RunTimeoutCoEnd

Environment ==
  \/ \E c \in Co : NewCoroutineInMain(c)
  \/ PollInterrupted
  \/ \E fd \in Fd : \E e \in Event \cup {EPOLLERR} : BecomesReady(fd, e)
  \/ \E fd \in Fd : TakenByOther(fd)
  \/ Tick

Next == CoroutineStep \/ CoroutineResumes \/ CoroutineLeaves \/ LoopStep \/ Environment

Spec == Init /\ [][Next]_vars

----------------------------------------------------------------------------
(* Type and safety.                                                        *)

TimeoutEntry == [coId : Co, timestamp : Time]

TypeOK ==
  /\ SchedTypeOK
  /\ phase \in Phase
  /\ m_coFuncList \in Nat /\ m_waitResumeList \in Seq(Co)
  /\ m_conditionCounter \in 0 .. MaxCondition
  /\ m_conditionMap \in [0 .. IntKeys - 1 -> SUBSET Co]
  /\ m_handlingTimeout \in BOOLEAN
  /\ m_timeoutSet \in SUBSET TimeoutEntry
  /\ DOMAIN m_timeoutPtrMap \subseteq Co
  /\ m_timeoutPtrMap \in [DOMAIN m_timeoutPtrMap -> TimeoutEntry]
  /\ now \in Time
  /\ m_coIdMap \in [Fd -> [Event -> Co \cup {NoCo}]]
  /\ m_events \in Seq([fd : Fd, events : SUBSET (Event \cup {EPOLLERR})])
  /\ m_eventsSize \in Nat \ {0}
  /\ wait \in [Co -> {NoWait} \cup IoWait \cup CondWait]
  /\ open \in [Fd -> BOOLEAN]
  /\ interest \in [Fd -> SUBSET Event]
  /\ ready \in [Fd -> SUBSET (Event \cup {EPOLLERR})]
  /\ clock \in 0 .. MaxTime
  /\ stale \in SUBSET (Fd \X Event)
  /\ aborted \in BOOLEAN

Slot(c) == m_coIdMap[wait[c].fd][EventOf(wait[c].op)]
Timed(c) == InIo(c) /\ wait[c].timeoutMs > 0
Deadline(c) == [coId |-> c,
                timestamp |-> AddMillisecond(TimestampAt(wait[c].since), wait[c].timeoutMs)]

\* A suspended coroutine is blocked in a call, and one that is blocked in a
\* call is suspended or has just been resumed.
BlockedInv ==
  /\ OnlyRunningRuns
  /\ \A c \in Co :
       /\ status[c] = COROUTINE_SUSPEND => wait[c] # NoWait
       /\ wait[c] # NoWait => status[c] \in {COROUTINE_SUSPEND, COROUTINE_RUNNING}

\* Whoever owns a slot of an FdWatcher is blocked on that event of that fd.
SlotsInv ==
  \A fd \in Fd, e \in Event :
    HasCoroutine(fd, e) =>
      \E c \in Co : /\ m_coIdMap[fd][e] = c
                    /\ InIo(c) /\ wait[c].fd = fd /\ EventOf(wait[c].op) = e

\* m_coIdMap, the kernel's epoll set and the blocked coroutines agree: each
\* coroutine blocked on a descriptor owns its slot of the FdWatcher and
\* nobody else owns one, and the descriptor is registered for exactly the
\* events somebody waits for (AddEventAndYield, DeleteEvent, Epoller::Update).
WatchInv ==
  /\ \A c \in Co : InIo(c) => open[wait[c].fd] /\ Slot(c) = c
  /\ SlotsInv
  /\ \A fd \in Fd : interest[fd] = GetEvents(fd)

\* The deadlines in m_timeoutSet are those of the timed calls that are blocked
\* right now, one each, and m_timeoutPtrMap finds them: a deadline never
\* outlives its call, so it cannot fire into a later call of the coroutine
\* or of another one that got the same id.
TimeoutInv ==
  /\ m_timeoutSet = {Deadline(c) : c \in {d \in Co : Timed(d)}}
  /\ DOMAIN m_timeoutPtrMap = {c \in Co : Timed(c)}
  /\ \A c \in DOMAIN m_timeoutPtrMap : m_timeoutPtrMap[c] = Deadline(c)

Listed(c) == \E i \in DOMAIN m_waitResumeList : m_waitResumeList[i] = c

\* A coroutine suspended in ConditionWait is in the set of its condition or
\* in m_waitResumeList and not in both, once, and nobody else is: a
\* notification is neither lost nor delivered twice.
ConditionInv ==
  /\ \A c \in Co, k \in DOMAIN m_conditionMap :
       c \in m_conditionMap[k] <=>
         /\ InCond(c) /\ Key(wait[c].condition) = k /\ status[c] = COROUTINE_SUSPEND
         /\ ~Listed(c)
  /\ \A c \in Co : Listed(c) => InCond(c) /\ status[c] = COROUTINE_SUSPEND
  /\ \A i, j \in DOMAIN m_waitResumeList :
       m_waitResumeList[i] = m_waitResumeList[j] => i = j

\* The loop only ever resumes a suspended coroutine: no id in the lists, the
\* timeout set or the FdWatchers is one of a finished coroutine or of one
\* that has not started, although ids are reused.
ResumesSuspended ==
  running = NoCo =>
    /\ \A i \in DOMAIN m_waitResumeList : status[m_waitResumeList[i]] = COROUTINE_SUSPEND
    /\ \A x \in m_timeoutSet : status[x.coId] = COROUTINE_SUSPEND
    /\ \A fd \in Fd : \A e \in GetEvents(fd) : status[m_coIdMap[fd][e]] = COROUTINE_SUSPEND

\* Between coroutine_resume and the end of the call the coroutine is back in.
Woken(c) == running = c /\ InIo(c)

\* A coroutine that EventHandler resumes finds its event, or an error, pending
\* on its descriptor, whatever ran earlier in the same batch of events.  Three
\* exceptions: another process took the connection from a shared listener;
\* another coroutine, which did not block, took the data; and a number that was
\* closed and opened again in the batch gets the error of its predecessor.
WakeIsGenuine ==
  \A c \in Co :
    Woken(c) /\ ~m_handlingTimeout =>
      LET fd == wait[c].fd
      IN  \/ EventOf(wait[c].op) \in ready[fd]
          \/ EPOLLERR \in ready[fd]
          \/ fd \in SharedFd \/ <<fd, EventOf(wait[c].op)>> \in stale

\* c is blocked in a call with a timeout, the whole seconds of which have passed
\* since it blocked.  Because AddMillisecond does not carry, the part below a
\* second may be cut short but no more than that.
TimeIsUp(c) ==
  Timed(c) /\ clock - wait[c].since >= Second * (wait[c].timeoutMs \div Second)

\* RunTimeoutCo resumes nobody else.
WokenInTime == \A c \in Co : Woken(c) /\ m_handlingTimeout => TimeIsUp(c)

\* The step in which a call of c returns -ETIME: after its yield, or, refused as
\* a duplicate, without one.
ReturnsETIME(c) ==
  /\ m_handlingTimeout
  /\ CallResumes(c) \/ \E fd \in Fd : \E op \in Ops[fd] : CallIsDuplicate(c, op, fd)

\* -ETIME is returned only from a call that had a timeout and whose time is up,
\* although it is a flag of the loop that decides between -ETIME and the result
\* of the system call, and coroutines that time out make other calls under it.
TimeoutIsGenuine == [][\A c \in Co : ReturnsETIME(c) => TimeIsUp(c)]_vars

\* The process does not abort() when epoll_ctl fails.
NoAbort == ~aborted

\* A coroutine that is blocked on a descriptor keeps its slot until it runs
\* itself: "fd read dumplicate in two coroutine is not allowed".
SlotReleasedByOwner ==
  [][\A c \in Co : InIo(c) /\ Slot(c) = c /\ running # c => Slot(c)' = c]_vars

----------------------------------------------------------------------------
(* Progress.  The loop runs, a coroutine that runs comes back from its call *)
(* and gives up the control sooner or later (the scheduling is cooperative),*)
(* the clock advances, and epoll_wait, interrupted or not, reports pending  *)
(* events in the end.                                                       *)

Fairness ==
  /\ WF_vars(LoopStep)
  /\ SF_vars(PollEvents)
  /\ WF_vars(CoroutineResumes)
  /\ WF_vars(CoroutineLeaves)
  /\ WF_vars(Tick)

FairSpec == Spec /\ Fairness

\* RunNewCoFunc and RunWaitResumeCo end only when their lists are empty, and
\* coroutines may go on filling them; what follows is about the runs in which
\* the loop gets round.
LoopGoesRound == []<>(phase = "Poll")

\* Poll never blocks for ever, not even with no descriptor to watch and no
\* deadline to meet: new functions and notified coroutines get their turn.
PollReturns == phase = "Poll" ~> phase # "Poll"

\* A coroutine blocked on a descriptor that is ready is resumed, also when more
\* descriptors are ready than m_events can hold, unless others take the data.
ReadyIsResumed ==
  LoopGoesRound =>
    \A c \in Co :
      LET Ready == EventOf(wait[c].op) \in ready[wait[c].fd]
      IN  (InIo(c) /\ Ready) ~> (~InIo(c) \/ ~Ready)

\* A notified coroutine is resumed, even if the coroutines resumed before it
\* keep notifying others.
NotifiedIsResumed ==
  []<>(phase = "RunWaitResumeCo") => \A c \in Co : Listed(c) ~> running = c

\* A call with a timeout ends.
TimedCallEnds ==
  LoopGoesRound =>
    \A c \in Co : (Timed(c) /\ wait[c].since + wait[c].timeoutMs <= MaxTime) ~> ~InIo(c)
=============================================================================
