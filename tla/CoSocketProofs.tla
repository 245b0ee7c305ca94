--------------------------- MODULE CoSocketProofs ---------------------------
(***************************************************************************)
(* Proofs about the event loop, for any number of coroutines, descriptors, *)
(* conditions and timeouts.                                                *)
(***************************************************************************)
EXTENDS CoSocket, FiniteSetTheorems, SequenceTheorems, TLAPS

USE CoAssumption, SecondAssumption, CoSocketAssumption

USE DEF NoCo, COROUTINE_DEAD, COROUTINE_READY, COROUTINE_RUNNING, COROUTINE_SUSPEND

----------------------------------------------------------------------------
(* Type correctness.                                                       *)

\* A deadline is a time.
LEMMA DeadlineType ==
  ASSUME NEW t \in Nat, NEW ms \in Nat
  PROVE  AddMillisecond(TimestampAt(t), ms) \in Time
<1>1. /\ t \div Second \in Nat /\ t % Second \in Nat
      /\ ms \div Second \in Nat /\ ms % Second \in Nat
  BY SMT
<1> QED  BY <1>1 DEF AddMillisecond, TimestampAt, Time

LEMMA NowType ==
  ASSUME NEW t \in Nat
  PROVE  TimestampAt(t) \in Time
<1>1. t \div Second \in Nat /\ t % Second \in Nat
  BY SMT
<1> QED  BY <1>1 DEF TimestampAt, Time

\* SetTimeoutGuard keeps the types of the TimeoutSet.
LEMMA GuardType ==
  ASSUME TypeOK, NEW c \in Co, NEW ms \in Timeouts,
         GuardBegin(c, ms) \/ GuardEnd(c, ms)
  PROVE  /\ m_timeoutSet' \in SUBSET TimeoutEntry
         /\ DOMAIN m_timeoutPtrMap' \subseteq Co
         /\ m_timeoutPtrMap' \in [DOMAIN m_timeoutPtrMap' -> TimeoutEntry]
<1> USE DEF TypeOK
<1>1. CASE GuardBegin(c, ms) /\ ms > 0
  <2>1. ms \in Nat /\ clock \in Nat
    BY <1>1
  <2> DEFINE timeout == [coId |-> c, timestamp |-> AddMillisecond(TimestampAt(clock), ms)]
  <2>2. timeout \in TimeoutEntry
    BY <2>1, DeadlineType DEF TimeoutEntry
  <2>3. TimeoutInsert(c, ms)
    BY <1>1 DEF GuardBegin
  <2> HIDE DEF timeout
  <2>4. \/ UNCHANGED timeVars
        \/ /\ m_timeoutSet' = m_timeoutSet \cup {timeout}
           /\ m_timeoutPtrMap' =
                [d \in DOMAIN m_timeoutPtrMap \cup {c} |->
                   IF d \in DOMAIN m_timeoutPtrMap THEN m_timeoutPtrMap[d] ELSE timeout]
    BY <2>3 DEF TimeoutInsert, timeout
  <2> QED  BY <2>2, <2>4 DEF timeVars
<1>2. CASE GuardEnd(c, ms) /\ ms > 0
  BY <1>2 DEF GuardEnd, TimeoutDelete, timeVars
<1>3. CASE ~(ms > 0)
  BY <1>3 DEF GuardBegin, GuardEnd, timeVars
<1> QED  BY <1>1, <1>2, <1>3

LEMMA InitType == Init => TypeOK
<1> SUFFICES ASSUME Init PROVE TypeOK
  OBVIOUS
<1>1. SchedTypeOK
  BY DEF Init, SchedInit, SchedTypeOK, Status
<1>2. now \in Time
  BY NowType DEF Init
<1>3. /\ DOMAIN m_timeoutPtrMap \subseteq Co
      /\ m_timeoutPtrMap \in [DOMAIN m_timeoutPtrMap -> TimeoutEntry]
  BY DEF Init
<1>4. open \in [Fd -> BOOLEAN]
  BY DEF Init
<1>5. wait \in [Co -> {NoWait} \cup IoWait \cup CondWait]
  BY DEF Init
<1>6. m_handlingTimeout \in BOOLEAN /\ aborted \in BOOLEAN
  BY DEF Init
<1> QED  BY <1>1, <1>2, <1>3, <1>4, <1>5, <1>6 DEF Init, TypeOK, Phase

\* The types of the variables that the scheduler's actions change.
LEMMA SchedType ==
  ASSUME SchedTypeOK,
         \/ UNCHANGED schedVars \/ coroutine_yield \/ mainfunc_return
         \/ \E c \in Co : coroutine_resume(c) \/ StartCoroutine(c)
  PROVE  SchedTypeOK'
BY DEF SchedTypeOK, schedVars, coroutine_yield, mainfunc_return, coroutine_resume,
       StartCoroutine, Status

\* Adding and deleting an event.
LEMMA EventType ==
  ASSUME TypeOK, NEW c \in Co, NEW fd \in Fd, NEW e \in Event,
         AddEvent(c, fd, e) \/ DeleteEvent(fd, e)
  PROVE  /\ m_coIdMap' \in [Fd -> [Event -> Co \cup {NoCo}]]
         /\ interest' \in [Fd -> SUBSET Event]
         /\ aborted' \in BOOLEAN
<1>1. m_coIdMap' \in [Fd -> [Event -> Co \cup {NoCo}]]
  <2>1. PICK d \in Co \cup {NoCo} :
          m_coIdMap' = [m_coIdMap EXCEPT ![fd] = [m_coIdMap[fd] EXCEPT ![e] = d]]
    BY DEF AddEvent, DeleteEvent
  <2>2. [m_coIdMap[fd] EXCEPT ![e] = d] \in [Event -> Co \cup {NoCo}]
    BY DEF TypeOK
  <2> QED  BY <2>1, <2>2 DEF TypeOK
<1>2. PICK events \in SUBSET Event : UpdateOrAbort(fd, events)
  BY DEF AddEvent, DeleteEvent, GetEvents
<1>3. interest' \in [Fd -> SUBSET Event]
  BY <1>2 DEF UpdateOrAbort, TypeOK
<1>4. aborted' \in BOOLEAN
  BY <1>2 DEF UpdateOrAbort
<1> QED  BY <1>1, <1>3, <1>4

\* What a system call leaves pending.
LEMMA ConsumeType ==
  ASSUME TypeOK, NEW fd \in Fd, NEW e \in Event, UNCHANGED ready \/ MayConsume(fd, e)
  PROVE  ready' \in [Fd -> SUBSET (Event \cup {EPOLLERR})]
<1>1. ready \in [Fd -> SUBSET (Event \cup {EPOLLERR})]
  BY DEF TypeOK
<1>2. CASE UNCHANGED ready
  BY <1>1, <1>2
<1>3. CASE MayConsume(fd, e)
  <2>1. PICK left \in {ready[fd], ready[fd] \ {e}} : ready' = [ready EXCEPT ![fd] = left]
    BY <1>3 DEF MayConsume
  <2> QED  BY <1>1, <2>1
<1> QED  BY <1>2, <1>3

\* The calls of a coroutine.
LEMMA CallType ==
  ASSUME TypeOK, NEW c \in Co, NEW fd \in Fd, NEW op \in Ops[fd],
         \/ CallAtOnce(c, op, fd) \/ CallIsDuplicate(c, op, fd)
         \/ \E ms \in Timeouts : CallBlocks(c, op, fd, ms)
  PROVE  TypeOK'
<1> USE DEF TypeOK, loopVars, listVars, condVars, timeVars, fdVars, kernVars, schedVars
<1>0. op \in Op /\ EventOf(op) \in Event
  BY DEF EventOf, Op, Event
<1>1. CASE CallAtOnce(c, op, fd)
  <2>1. SchedTypeOK'
    BY <1>1, SchedType DEF CallAtOnce
  <2>2. ready' \in [Fd -> SUBSET (Event \cup {EPOLLERR})]
    <3>1. UNCHANGED ready \/ MayConsume(fd, EventOf(op))
      BY <1>1 DEF CallAtOnce
    <3> QED  BY <1>0, <3>1, ConsumeType
  <2>3. stale' \in SUBSET (Fd \X Event)
    <3>1. stale' = stale \/ stale' = stale \cup {<<fd, EventOf(op)>>}
      BY <1>1 DEF CallAtOnce
    <3> QED  BY <1>0, <3>1
  <2>4. UNCHANGED <<loopVars, listVars, condVars, timeVars, fdVars, wait, open, clock, aborted>>
    BY <1>1 DEF CallAtOnce
  <2> QED  BY <2>1, <2>2, <2>3, <2>4
<1>2. CASE CallIsDuplicate(c, op, fd)
  <2>1. SchedTypeOK'
    BY <1>2, SchedType DEF CallIsDuplicate
  <2>2. DeleteEvent(fd, EventOf(op))
    BY <1>2 DEF CallIsDuplicate
  <2>3. /\ m_coIdMap' \in [Fd -> [Event -> Co \cup {NoCo}]]
        /\ interest' \in [Fd -> SUBSET Event]
        /\ aborted' \in BOOLEAN
    BY <2>2, <1>0, EventType
  <2>4. ready' \in [Fd -> SUBSET (Event \cup {EPOLLERR})]
    <3>1. UNCHANGED ready \/ MayConsume(fd, EventOf(op))
      BY <1>2 DEF CallIsDuplicate
    <3> QED  BY <1>0, <3>1, ConsumeType
  <2> QED  BY <1>2, <2>1, <2>3, <2>4 DEF CallIsDuplicate
<1>3. ASSUME NEW ms \in Timeouts, CallBlocks(c, op, fd, ms)
      PROVE  TypeOK'
  <2>1. SchedTypeOK'
    BY <1>3, SchedType DEF CallBlocks
  <2>2. AddEvent(c, fd, EventOf(op)) /\ GuardBegin(c, ms)
    BY <1>3 DEF CallBlocks
  <2>3. /\ m_coIdMap' \in [Fd -> [Event -> Co \cup {NoCo}]]
        /\ interest' \in [Fd -> SUBSET Event]
        /\ aborted' \in BOOLEAN
    BY <2>2, <1>0, EventType
  <2>4. /\ m_timeoutSet' \in SUBSET TimeoutEntry
        /\ DOMAIN m_timeoutPtrMap' \subseteq Co
        /\ m_timeoutPtrMap' \in [DOMAIN m_timeoutPtrMap' -> TimeoutEntry]
    BY <2>2, GuardType
  <2>5. wait' \in [Co -> {NoWait} \cup IoWait \cup CondWait]
    BY <1>0, <1>3 DEF CallBlocks, IoWait
  <2> QED  BY <1>3, <2>1, <2>3, <2>4, <2>5 DEF CallBlocks
<1> QED  BY <1>1, <1>2, <1>3

\* A coroutine blocked in a call on a descriptor has a wait record with one.
LEMMA IoWaitFields ==
  ASSUME TypeOK, NEW c \in Co, InIo(c)
  PROVE  /\ wait[c] \in IoWait
         /\ wait[c].fd \in Fd /\ wait[c].op \in Op /\ wait[c].timeoutMs \in Timeouts
         /\ EventOf(wait[c].op) \in Event
<1>1. wait[c] \in IoWait
  <2>1. wait[c] \in {NoWait} \cup IoWait \cup CondWait /\ wait[c].op \in Op
    BY DEF TypeOK, InIo
  <2>2. NoWait.op \notin Op
    BY DEF NoWait, Op
  <2>3. \A w \in CondWait : w.op \notin Op
    BY DEF CondWait, Op
  <2> QED  BY <2>1, <2>2, <2>3
<1> QED  BY <1>1 DEF IoWait, EventOf, Event

\* A coroutine leaves the call it was blocked in.
LEMMA ResumesType ==
  ASSUME TypeOK, NEW c \in Co, CallResumes(c) \/ WaitResumes(c)
  PROVE  TypeOK'
<1> USE DEF TypeOK, loopVars, listVars, condVars, timeVars, fdVars, kernVars, schedVars
<1>1. CASE CallResumes(c)
  <2>0. /\ wait[c].fd \in Fd /\ wait[c].timeoutMs \in Timeouts
        /\ EventOf(wait[c].op) \in Event
    BY <1>1, IoWaitFields DEF CallResumes
  <2>1. SchedTypeOK'
    BY <1>1, SchedType DEF CallResumes
  <2>2. /\ DeleteEvent(wait[c].fd, EventOf(wait[c].op))
        /\ GuardEnd(c, wait[c].timeoutMs)
    BY <1>1 DEF CallResumes
  <2>3. /\ m_coIdMap' \in [Fd -> [Event -> Co \cup {NoCo}]]
        /\ interest' \in [Fd -> SUBSET Event]
        /\ aborted' \in BOOLEAN
    BY <2>0, <2>2, EventType
  <2>4. /\ m_timeoutSet' \in SUBSET TimeoutEntry
        /\ DOMAIN m_timeoutPtrMap' \subseteq Co
        /\ m_timeoutPtrMap' \in [DOMAIN m_timeoutPtrMap' -> TimeoutEntry]
    BY <2>0, <2>2, GuardType
  <2>5. ready' \in [Fd -> SUBSET (Event \cup {EPOLLERR})]
    <3>1. UNCHANGED ready \/ MayConsume(wait[c].fd, EventOf(wait[c].op))
      BY <1>1 DEF CallResumes
    <3> QED  BY <2>0, <3>1, ConsumeType
  <2> QED  BY <1>1, <2>1, <2>3, <2>4, <2>5 DEF CallResumes
<1>2. CASE WaitResumes(c)
  <2>1. SchedTypeOK'
    BY <1>2, SchedType DEF WaitResumes
  <2> QED  BY <1>2, <2>1 DEF WaitResumes
<1> QED  BY <1>1, <1>2

LEMMA FunctionIsSeq ==
  ASSUME NEW S, NEW n \in Nat, NEW f \in [1 .. n -> S]
  PROVE  f \in Seq(S)
BY SeqDef

\* The order in which a std::set of ids is iterated is a sequence of ids.
LEMMA InOrderType ==
  ASSUME NEW S \in SUBSET Co, NEW list \in InOrder(S)
  PROVE  list \in Seq(Co)
<1>1. IsFiniteSet(S) /\ Cardinality(S) \in Nat
  BY FS_Subset, FS_CardinalityType
<1>2. list \in [1 .. Cardinality(S) -> Co]
  BY <1>1 DEF InOrder
<1> QED  BY <1>1, <1>2, SeqDef

LEMMA KeyType ==
  ASSUME NEW condition \in Nat
  PROVE  Key(condition) \in 0 .. IntKeys - 1
BY SMT DEF Key

\* Conditions, new coroutines and the end of a coroutine.
LEMMA ConditionType ==
  ASSUME TypeOK, NEW c \in Co, NEW condition \in Conditions,
         ConditionWait(c, condition) \/ ConditionNotify(c, condition)
  PROVE  TypeOK'
<1> USE DEF TypeOK, loopVars, listVars, condVars, timeVars, fdVars, kernVars, schedVars
<1>0. condition \in Nat /\ Key(condition) \in 0 .. IntKeys - 1
  BY KeyType DEF Conditions
<1>1. CASE ConditionWait(c, condition)
  <2>1. SchedTypeOK'
    BY <1>1, SchedType DEF ConditionWait
  <2>2. wait' \in [Co -> {NoWait} \cup IoWait \cup CondWait]
    BY <1>1 DEF ConditionWait, CondWait, Conditions
  <2>3. m_conditionMap' \in [0 .. IntKeys - 1 -> SUBSET Co]
    BY <1>0, <1>1 DEF ConditionWait
  <2> QED  BY <1>1, <2>1, <2>2, <2>3 DEF ConditionWait
<1>2. CASE ConditionNotify(c, condition)
  <2>1. SchedTypeOK'
    BY <1>2, SchedType DEF ConditionNotify
  <2>2. PICK list \in InOrder(m_conditionMap[Key(condition)]) :
          m_waitResumeList' = m_waitResumeList \o list
    BY <1>2 DEF ConditionNotify
  <2>3. m_conditionMap[Key(condition)] \in SUBSET Co
    BY <1>0
  <2>4. m_waitResumeList' \in Seq(Co)
    <3>1. list \in Seq(Co)
      BY <2>3, InOrderType
    <3> QED  BY <2>2, <3>1, ConcatProperties
  <2>5. m_conditionMap' \in [0 .. IntKeys - 1 -> SUBSET Co]
    BY <1>0, <1>2 DEF ConditionNotify
  <2> QED  BY <1>2, <2>1, <2>4, <2>5 DEF ConditionNotify
<1> QED  BY <1>1, <1>2

LEMMA CoroutineType ==
  ASSUME TypeOK, NEW c \in Co,
         \/ GetCondition(c) \/ NewCoroutine(c) \/ Return(c) \/ NewCoroutineInMain(c)
  PROVE  TypeOK'
<1> USE DEF TypeOK, loopVars, listVars, condVars, timeVars, fdVars, kernVars, schedVars
<1>1. SchedTypeOK'
  BY SchedType DEF GetCondition, NewCoroutine, Return, NewCoroutineInMain
<1>2. CASE GetCondition(c)
  <2>1. m_conditionCounter' \in 0 .. MaxCondition
    BY <1>2 DEF GetCondition
  <2> QED  BY <1>1, <1>2, <2>1 DEF GetCondition
<1>3. CASE NewCoroutine(c)
  BY <1>1, <1>3 DEF NewCoroutine
<1>4. CASE Return(c)
  BY <1>1, <1>4 DEF Return
<1>5. CASE NewCoroutineInMain(c)
  BY <1>1, <1>5 DEF NewCoroutineInMain
<1> QED  BY <1>2, <1>3, <1>4, <1>5

EventRecord == [fd : Fd, events : SUBSET (Event \cup {EPOLLERR})]

\* The first event of m_events, and the others.
LEMMA EventsType ==
  ASSUME TypeOK, m_events # <<>>
  PROVE  /\ Head(m_events) \in EventRecord
         /\ Head(m_events).fd \in Fd
         /\ Tail(m_events) \in Seq(EventRecord)
<1>1. m_events \in Seq(EventRecord)
  BY DEF TypeOK, EventRecord
<1>2. Head(m_events) \in EventRecord /\ Tail(m_events) \in Seq(EventRecord)
  BY <1>1, HeadTailProperties
<1> QED  BY <1>2 DEF EventRecord

\* EventHandler is between its two halves only while it has an event.
HandlerInv == phase = "EventOut" => m_events # <<>>

\* The ids that the loop resumes are ids.
LEMMA LoopResumes ==
  ASSUME TypeOK, HandlerInv,
         RunNewCoFunc \/ RunWaitResumeCo \/ EventHandlerIn \/ EventHandlerOut \/ RunTimeoutCo
  PROVE  \/ UNCHANGED schedVars
         \/ \E c \in Co : coroutine_resume(c) \/ StartCoroutine(c)
<1> USE DEF TypeOK
<1>1. CASE RunNewCoFunc
  BY <1>1 DEF RunNewCoFunc
<1>2. CASE RunWaitResumeCo
  BY <1>2 DEF RunWaitResumeCo
<1>3. ASSUME NEW e \in Event, m_events # <<>>, Concerns(e)
      PROVE  m_coIdMap[Head(m_events).fd][e] \in Co
  <2>1. Head(m_events).fd \in Fd
    BY <1>3, EventsType
  <2> QED  BY <1>3, <2>1 DEF Concerns, HasCoroutine
<1>4. CASE EventHandlerIn
  <2>1. m_events # <<>>
    BY <1>4 DEF EventHandlerIn
  <2>2. UNCHANGED schedVars \/ (/\ Concerns("EPOLLIN")
                                /\ coroutine_resume(m_coIdMap[Head(m_events).fd]["EPOLLIN"]))
    BY <1>4 DEF EventHandlerIn
  <2> QED  BY <1>3, <2>1, <2>2 DEF Event
<1>5. CASE EventHandlerOut
  <2>1. m_events # <<>>
    BY <1>5 DEF EventHandlerOut, Loop, HandlerInv
  <2>2. UNCHANGED schedVars \/ (/\ Concerns("EPOLLOUT")
                                /\ coroutine_resume(m_coIdMap[Head(m_events).fd]["EPOLLOUT"]))
    BY <1>5 DEF EventHandlerOut
  <2> QED  BY <1>3, <2>1, <2>2 DEF Event
<1>6. CASE RunTimeoutCo
  BY <1>6 DEF RunTimeoutCo, TimeoutEntry
<1> QED  BY <1>1, <1>2, <1>4, <1>5, <1>6

\* The steps of the loop that may resume a coroutine.
LEMMA LoopResumesType ==
  ASSUME TypeOK, HandlerInv,
         RunNewCoFunc \/ RunWaitResumeCo \/ EventHandlerIn \/ EventHandlerOut \/ RunTimeoutCo
  PROVE  TypeOK'
<1>0. SchedTypeOK'
  BY LoopResumes, SchedType DEF TypeOK
<1> USE <1>0 DEF TypeOK, loopVars, listVars, condVars, timeVars, fdVars, kernVars, Phase
<1>1. CASE RunNewCoFunc
  <2>1. m_coFuncList' \in Nat
    BY <1>1 DEF RunNewCoFunc
  <2>2. phase' \in Phase
    BY <1>1 DEF RunNewCoFunc
  <2> QED  BY <1>1, <2>1, <2>2 DEF RunNewCoFunc
<1>2. CASE RunWaitResumeCo
  <2>1. m_waitResumeList' \in Seq(Co)
    <3>1. CASE m_waitResumeList # <<>>
      <4>1. m_waitResumeList' = Tail(m_waitResumeList)
        BY <1>2, <3>1 DEF RunWaitResumeCo
      <4>2. m_waitResumeList \in Seq(Co)
        OBVIOUS
      <4> QED  BY <3>1, <4>1, <4>2, HeadTailProperties
    <3>2. CASE m_waitResumeList = <<>>
      BY <1>2, <3>2 DEF RunWaitResumeCo
    <3> QED  BY <3>1, <3>2
  <2> QED  BY <1>2, <2>1 DEF RunWaitResumeCo
<1>3. CASE EventHandlerIn
  <2>1. m_events' \in Seq([fd : Fd, events : SUBSET (Event \cup {EPOLLERR})])
    BY <1>3, EventsType DEF EventHandlerIn, EventRecord
  <2> QED  BY <1>3, <2>1 DEF EventHandlerIn
<1>4. CASE EventHandlerOut
  <2>1. m_events' \in Seq([fd : Fd, events : SUBSET (Event \cup {EPOLLERR})])
    BY <1>4, EventsType DEF EventHandlerOut, HandlerInv, Loop, EventRecord
  <2> QED  BY <1>4, <2>1 DEF EventHandlerOut
<1>5. CASE RunTimeoutCo
  BY <1>5 DEF RunTimeoutCo
<1> QED  BY <1>1, <1>2, <1>3, <1>4, <1>5

\* epoll_wait fills m_events.
LEMMA PollType ==
  ASSUME TypeOK, PollEvents
  PROVE  TypeOK'
<1> USE DEF TypeOK
<1>1. IsFiniteSet(Reported) /\ Cardinality(Reported) \in Nat
  BY FS_Subset, FS_CardinalityType DEF Reported
<1>2. PICK n \in Nat :
        /\ \E fds \in [1 .. n -> Reported] :
             m_events' = [i \in 1 .. n |-> [fd |-> fds[i], events |-> Pending(fds[i])]]
        /\ m_eventsSize' = IF n = m_eventsSize THEN 2 * n ELSE m_eventsSize
  <2> DEFINE size == IF Cardinality(Reported) <= m_eventsSize
                     THEN Cardinality(Reported) ELSE m_eventsSize
  <2>1. size \in Nat
    BY <1>1
  <2>2. PICK n \in {size} :
          /\ \E fds \in {s \in [1 .. n -> Reported] :
                         \A i, j \in 1 .. n : s[i] = s[j] => i = j} :
               m_events' = [i \in 1 .. n |-> [fd |-> fds[i], events |-> Pending(fds[i])]]
          /\ m_eventsSize' = IF n = m_eventsSize THEN 2 * n ELSE m_eventsSize
    BY DEF PollEvents
  <2> HIDE DEF size
  <2>3. PICK fds \in {s \in [1 .. n -> Reported] :
                        \A i, j \in 1 .. n : s[i] = s[j] => i = j} :
          m_events' = [i \in 1 .. n |-> [fd |-> fds[i], events |-> Pending(fds[i])]]
    BY <2>2
  <2>4. fds \in [1 .. n -> Reported] /\ n \in Nat
    BY <2>1, <2>3
  <2>5. \E f \in [1 .. n -> Reported] :
          m_events' = [i \in 1 .. n |-> [fd |-> f[i], events |-> Pending(f[i])]]
    <3> HIDE DEF TypeOK
    <3> WITNESS fds \in [1 .. n -> Reported]
    <3> QED  BY <2>3
  <2> QED  BY <2>2, <2>4, <2>5
<1>a. PICK fds \in [1 .. n -> Reported] :
        m_events' = [i \in 1 .. n |-> [fd |-> fds[i], events |-> Pending(fds[i])]]
  BY <1>2
<1>3. \A fd \in Fd : Pending(fd) \in SUBSET (Event \cup {EPOLLERR})
  BY DEF Pending
<1>4. m_events' \in [1 .. n -> EventRecord]
  BY <1>a, <1>3 DEF Reported, EventRecord
<1>5. m_events' \in Seq(EventRecord)
  BY <1>4, FunctionIsSeq
<1>6. m_eventsSize' \in Nat \ {0}
  BY <1>2
<1>7. SchedTypeOK'
  BY SchedType DEF PollEvents
<1> QED  BY <1>5, <1>6, <1>7 DEF PollEvents, loopVars, listVars, condVars, timeVars, fdVars,
                                kernVars, schedVars, Phase, EventRecord

\* The other steps of the loop and those of the kernel.
LEMMA QuietType ==
  ASSUME TypeOK,
         \/ Run \/ PollTimesOut \/ PollInterrupted \/ RunTimeoutCoBegin \/ RunTimeoutCoEnd
         \/ Tick \/ \E fd \in Fd : TakenByOther(fd)
         \/ \E fd \in Fd : \E e \in Event \cup {EPOLLERR} : BecomesReady(fd, e)
  PROVE  TypeOK'
<1>0. SchedTypeOK'
  BY SchedType DEF Run, PollTimesOut, PollInterrupted, RunTimeoutCoBegin, RunTimeoutCoEnd,
                   Tick, TakenByOther, BecomesReady, TypeOK
<1> USE <1>0 DEF TypeOK, loopVars, listVars, condVars, timeVars, fdVars, kernVars, Phase
<1>1. CASE Run \/ PollTimesOut \/ PollInterrupted
  BY <1>1 DEF Run, PollTimesOut, PollInterrupted
<1>2. CASE RunTimeoutCoBegin
  <2>1. now' \in Time
    BY <1>2, NowType DEF RunTimeoutCoBegin
  <2> QED  BY <1>2, <2>1 DEF RunTimeoutCoBegin
<1>3. CASE RunTimeoutCoEnd
  <2>1. now' \in Time
    BY <1>3, NowType DEF RunTimeoutCoEnd
  <2> QED  BY <1>3, <2>1 DEF RunTimeoutCoEnd
<1>4. CASE Tick
  BY <1>4 DEF Tick
<1>5. CASE \E fd \in Fd : TakenByOther(fd)
  BY <1>5 DEF TakenByOther
<1>6. CASE \E fd \in Fd : \E e \in Event \cup {EPOLLERR} : BecomesReady(fd, e)
  BY <1>6 DEF BecomesReady
<1> QED  BY <1>1, <1>2, <1>3, <1>4, <1>5, <1>6

LEMMA HandlerPreserved == TypeOK /\ HandlerInv /\ [Next]_vars => HandlerInv'
<1> SUFFICES ASSUME TypeOK, HandlerInv, [Next]_vars PROVE HandlerInv'
  OBVIOUS
<1> USE DEF HandlerInv, loopVars
<1>1. CASE CoroutineStep
  BY <1>1 DEF CoroutineStep, Close, Open, CallAtOnce, CallIsDuplicate, GetCondition,
              ConditionNotify, NewCoroutine
<1>2. CASE CoroutineResumes
  BY <1>2 DEF CoroutineResumes, CallResumes, WaitResumes
<1>3. CASE CoroutineLeaves
  BY <1>3 DEF CoroutineLeaves, CallBlocks, ConditionWait, Return
<1>4. CASE LoopStep
  BY <1>4 DEF LoopStep, Run, RunNewCoFunc, RunWaitResumeCo, PollEvents, PollTimesOut,
              EventHandlerIn, EventHandlerOut, RunTimeoutCoBegin, RunTimeoutCo,
              RunTimeoutCoEnd, Loop
<1>5. CASE Environment
  BY <1>5 DEF Environment, NewCoroutineInMain, PollInterrupted, BecomesReady, TakenByOther, Tick
<1>6. CASE UNCHANGED vars
  BY <1>6 DEF vars
<1> QED  BY <1>1, <1>2, <1>3, <1>4, <1>5, <1>6 DEF Next

LEMMA TypePreserved == TypeOK /\ HandlerInv /\ [Next]_vars => TypeOK'
<1> SUFFICES ASSUME TypeOK, HandlerInv, [Next]_vars PROVE TypeOK'
  OBVIOUS
<1>1. CASE CoroutineStep
  <2>1. ASSUME NEW c \in Co, NEW fd \in Fd, Close(c, fd) \/ Open(c, fd)
        PROVE  TypeOK'
    <3>1. SchedTypeOK'
      BY <2>1, SchedType DEF Close, Open, TypeOK
    <3> QED  BY <2>1, <3>1 DEF Close, Open, TypeOK, loopVars, listVars, condVars, timeVars, fdVars
  <2>2. ASSUME NEW c \in Co, NEW fd \in Fd, NEW op \in Ops[fd],
               CallAtOnce(c, op, fd) \/ CallIsDuplicate(c, op, fd)
        PROVE  TypeOK'
    BY <2>2, CallType
  <2> QED  BY <1>1, <2>1, <2>2, ConditionType, CoroutineType DEF CoroutineStep
<1>2. CASE CoroutineResumes
  BY <1>2, ResumesType DEF CoroutineResumes
<1>3. CASE CoroutineLeaves
  BY <1>3, CallType, ConditionType, CoroutineType DEF CoroutineLeaves
<1>4. CASE LoopStep
  BY <1>4, LoopResumesType, PollType, QuietType DEF LoopStep
<1>5. CASE Environment
  BY <1>5, CoroutineType, QuietType DEF Environment
<1>6. CASE UNCHANGED vars
  BY <1>6 DEF vars, TypeOK, SchedTypeOK, loopVars, listVars, condVars, timeVars, fdVars,
              kernVars, schedVars
<1> QED  BY <1>1, <1>2, <1>3, <1>4, <1>5, <1>6 DEF Next

\* Every variable of the event loop keeps its type, however coroutines use
\* the API.
THEOREM TypeCorrect == Spec => []TypeOK
<1>1. Init => TypeOK /\ HandlerInv
  BY InitType DEF HandlerInv, Init
<1> QED  BY <1>1, TypePreserved, HandlerPreserved, PTL DEF Spec

----------------------------------------------------------------------------
(* The bookkeeping.  What it says of coroutines, deadlines and conditions  *)
(* is right however the API is used.  What it says of descriptors is right *)
(* if no two coroutines block on one event of one descriptor and no        *)
(* descriptor is closed while a coroutine is blocked on it.  (The runs     *)
(* duplicate_use and hand_close show that neither hypothesis can be        *)
(* dropped there.)                                                         *)

Disciplined == ~DuplicateUse /\ ~HandClose

\* The inductive invariant, for every use.  The parts need each other: a
\* coroutine that is resumed from m_coIdMap or m_timeoutSet is blocked in a call
\* on a descriptor only because of SlotsInv and TimeoutInv, which is what keeps
\* BlockedInv and ConditionInv.
LoopInv ==
  /\ TypeOK /\ HandlerInv
  /\ BlockedInv
  /\ SlotsInv
  /\ TimeoutInv
  /\ ConditionInv

\* What holds besides if the rules of use are kept: epoll_ctl succeeds because
\* the descriptor is open.
WatchedInv == LoopInv /\ WatchInv /\ NoAbort

\* A step that keeps the rules of use, whatever the program might do: no
\* descriptor is closed that a coroutine is blocked on, and no slot is freed but
\* by the coroutine that owns it.
Orderly ==
  /\ \A fd \in Fd : open[fd] /\ ~open'[fd] => GetEvents(fd) = {}
  /\ \A fd \in Fd, e \in Event :
       HasCoroutine(fd, e) /\ m_coIdMap[fd][e] # running => m_coIdMap'[fd][e] # NoCo

----------------------------------------------------------------------------
(* Each part depends on a few variables only.                              *)

LEMMA BlockedKept ==
  ASSUME BlockedInv, UNCHANGED <<schedVars, wait>>
  PROVE  BlockedInv'
BY DEF BlockedInv, OnlyRunningRuns, schedVars

LEMMA SlotsKept ==
  ASSUME SlotsInv, UNCHANGED <<m_coIdMap, wait>>
  PROVE  SlotsInv'
BY DEF SlotsInv, InIo, HasCoroutine

LEMMA WatchKept ==
  ASSUME WatchInv, UNCHANGED <<m_coIdMap, interest, open, wait>>
  PROVE  WatchInv'
BY SlotsKept DEF WatchInv, InIo, Slot, HasCoroutine, GetEvents

LEMMA TimeoutKept ==
  ASSUME TimeoutInv, UNCHANGED <<timeVars, wait>>
  PROVE  TimeoutInv'
BY DEF TimeoutInv, timeVars, Timed, InIo, Deadline

LEMMA ConditionKept ==
  ASSUME ConditionInv, UNCHANGED <<m_conditionMap, m_waitResumeList, status, wait>>
  PROVE  ConditionInv'
BY DEF ConditionInv, Listed, InCond

----------------------------------------------------------------------------
(* epoll.                                                                  *)

\* On an open descriptor Update succeeds, whatever is registered already.
LEMMA UpdateSucceeds ==
  ASSUME TypeOK, NEW fd \in Fd, open[fd], NEW events \in SUBSET Event,
         UpdateOrAbort(fd, events)
  PROVE  interest' = [interest EXCEPT ![fd] = events] /\ aborted' = FALSE
<1>1. UpdateResult(fd, events) = "OK"
  BY DEF UpdateResult, EpollCtl
<1> QED  BY <1>1 DEF UpdateOrAbort

\* The slot is taken ...
LEMMA AddEventSlot ==
  ASSUME TypeOK, NEW c \in Co, NEW fd \in Fd, NEW e \in Event, AddEvent(c, fd, e)
  PROVE  /\ m_coIdMap' \in [Fd -> [Event -> Co \cup {NoCo}]]
         /\ m_coIdMap[fd][e] = NoCo /\ m_coIdMap'[fd][e] = c
         /\ \A f \in Fd, g \in Event : <<f, g>> # <<fd, e>> => m_coIdMap'[f][g] = m_coIdMap[f][g]
BY EventType DEF AddEvent, HasCoroutine, TypeOK

\* ... and the event registered.
LEMMA AddEventEffect ==
  ASSUME TypeOK, WatchInv, NEW c \in Co, NEW fd \in Fd, NEW e \in Event, open[fd],
         AddEvent(c, fd, e)
  PROVE  /\ \A f \in Fd : interest'[f] = GetEvents(f)'
         /\ aborted' = FALSE
<1>1. GetEvents(fd) \cup {e} \in SUBSET Event
  BY DEF GetEvents
<1>2. interest' = [interest EXCEPT ![fd] = GetEvents(fd) \cup {e}] /\ aborted' = FALSE
  BY <1>1, UpdateSucceeds DEF AddEvent
<1>3. /\ m_coIdMap'[fd][e] = c
      /\ \A f \in Fd, g \in Event : <<f, g>> # <<fd, e>> => m_coIdMap'[f][g] = m_coIdMap[f][g]
  BY AddEventSlot
<1>4. ASSUME NEW f \in Fd
      PROVE  interest'[f] = GetEvents(f)'
  <2>1. CASE f = fd
    <3>1. GetEvents(f)' = GetEvents(f) \cup {e}
      <4>1. c # NoCo
        OBVIOUS
      <4>2. \A g \in Event : HasCoroutine(f, g)' <=> g = e \/ HasCoroutine(f, g)
        BY <2>1, <4>1, <1>3 DEF HasCoroutine
      <4> QED  BY <4>2 DEF GetEvents
    <3> QED  BY <2>1, <3>1, <1>2 DEF TypeOK
  <2>2. CASE f # fd
    <3>1. GetEvents(f)' = GetEvents(f)
      BY <2>2, <1>3 DEF GetEvents, HasCoroutine
    <3> QED  BY <2>2, <3>1, <1>2 DEF TypeOK, WatchInv
  <2> QED  BY <2>1, <2>2
<1> QED  BY <1>2, <1>4

\* The slot is freed ...
LEMMA DeleteEventSlot ==
  ASSUME TypeOK, NEW fd \in Fd, NEW e \in Event, DeleteEvent(fd, e)
  PROVE  /\ m_coIdMap' \in [Fd -> [Event -> Co \cup {NoCo}]]
         /\ m_coIdMap'[fd][e] = NoCo
         /\ \A f \in Fd, g \in Event : <<f, g>> # <<fd, e>> => m_coIdMap'[f][g] = m_coIdMap[f][g]
<1>1. [m_coIdMap[fd] EXCEPT ![e] = NoCo] \in [Event -> Co \cup {NoCo}]
  BY DEF TypeOK
<1>2. m_coIdMap' \in [Fd -> [Event -> Co \cup {NoCo}]]
  BY <1>1 DEF DeleteEvent, TypeOK
<1> QED  BY <1>2 DEF DeleteEvent, TypeOK

\* ... and the event unregistered.
LEMMA DeleteEventEffect ==
  ASSUME TypeOK, WatchInv, NEW fd \in Fd, NEW e \in Event, open[fd],
         DeleteEvent(fd, e)
  PROVE  /\ \A f \in Fd : interest'[f] = GetEvents(f)'
         /\ aborted' = FALSE
<1>1. GetEvents(fd) \ {e} \in SUBSET Event
  BY DEF GetEvents
<1>2. interest' = [interest EXCEPT ![fd] = GetEvents(fd) \ {e}] /\ aborted' = FALSE
  BY <1>1, UpdateSucceeds DEF DeleteEvent
<1>3. /\ m_coIdMap'[fd][e] = NoCo
      /\ \A f \in Fd, g \in Event : <<f, g>> # <<fd, e>> => m_coIdMap'[f][g] = m_coIdMap[f][g]
  BY DeleteEventSlot
<1>4. ASSUME NEW f \in Fd
      PROVE  interest'[f] = GetEvents(f)'
  <2>1. CASE f = fd
    <3>1. GetEvents(f)' = GetEvents(f) \ {e}
      BY <2>1, <1>3 DEF GetEvents, HasCoroutine
    <3> QED  BY <2>1, <3>1, <1>2 DEF TypeOK
  <2>2. CASE f # fd
    <3>1. GetEvents(f)' = GetEvents(f)
      BY <2>2, <1>3 DEF GetEvents, HasCoroutine
    <3> QED  BY <2>2, <3>1, <1>2 DEF TypeOK, WatchInv
  <2> QED  BY <2>1, <2>2
<1> QED  BY <1>2, <1>4

----------------------------------------------------------------------------
(* A coroutine blocks in, and comes back from, a call on a descriptor.     *)

\* The guard's constructor adds the deadline of the call that blocks.
LEMMA TimeoutBegins ==
  ASSUME TypeOK, TimeoutInv, NEW c \in Co, ~InIo(c), NEW ms \in Timeouts, GuardBegin(c, ms),
         InIo(c)', wait'[c].timeoutMs = ms, wait'[c].since = clock,
         \A d \in Co \ {c} : wait'[d] = wait[d]
  PROVE  TimeoutInv'
<1>1. /\ \A d \in Co \ {c} : (Timed(d)' <=> Timed(d)) /\ Deadline(d)' = Deadline(d)
      /\ ~Timed(c)
      /\ (Timed(c)' <=> ms > 0)
      /\ Deadline(c)' = [coId |-> c,
                         timestamp |-> AddMillisecond(TimestampAt(clock), ms)]
  BY DEF Timed, InIo, Deadline
<1>2. CASE ms > 0
  <2> DEFINE timeout == Deadline(c)'
  <2>1. timeout \notin m_timeoutSet
    <3>1. \A x \in m_timeoutSet : x.coId # c
      BY <1>1 DEF TimeoutInv, Deadline
    <3>2. timeout.coId = c
      BY <1>1
    <3> QED  BY <3>1, <3>2
  <2>2. /\ m_timeoutSet' = m_timeoutSet \cup {timeout}
        /\ m_timeoutPtrMap' =
             [d \in DOMAIN m_timeoutPtrMap \cup {c} |->
                IF d \in DOMAIN m_timeoutPtrMap THEN m_timeoutPtrMap[d] ELSE timeout]
    BY <1>1, <1>2, <2>1 DEF GuardBegin, TimeoutInsert
  <2>3. {d \in Co : Timed(d)'} = {d \in Co : Timed(d)} \cup {c}
    BY <1>1, <1>2
  <2>4. m_timeoutSet' = {Deadline(d)' : d \in {d \in Co : Timed(d)'}}
    <3>1. m_timeoutSet = {Deadline(d) : d \in {d \in Co : Timed(d)}}
      BY DEF TimeoutInv
    <3>2. \A d \in {d \in Co : Timed(d)} : Deadline(d)' = Deadline(d)
      BY <1>1
    <3>3. m_timeoutSet = {Deadline(d)' : d \in {d \in Co : Timed(d)}}
      BY <3>1, <3>2
    <3> QED  BY <2>2, <2>3, <3>3
  <2>5. /\ DOMAIN m_timeoutPtrMap' = {d \in Co : Timed(d)'}
        /\ \A d \in DOMAIN m_timeoutPtrMap' : m_timeoutPtrMap'[d] = Deadline(d)'
    BY <1>1, <2>2, <2>3 DEF TimeoutInv
  <2> QED  BY <2>4, <2>5 DEF TimeoutInv
<1>3. CASE ~(ms > 0)
  <2>1. UNCHANGED timeVars
    BY <1>3 DEF GuardBegin
  <2>2. \A d \in Co : Timed(d)' <=> Timed(d)
    BY <1>1, <1>3
  <2>3. {d \in Co : Timed(d)'} = {d \in Co : Timed(d)}
    BY <2>2
  <2>4. \A d \in {d \in Co : Timed(d)} : Deadline(d)' = Deadline(d)
    BY <1>1
  <2>5. {Deadline(d)' : d \in {d \in Co : Timed(d)'}} = {Deadline(d) : d \in {d \in Co : Timed(d)}}
    BY <2>3, <2>4
  <2> QED  BY <2>1, <2>3, <2>4, <2>5 DEF TimeoutInv, timeVars
<1> QED  BY <1>2, <1>3

\* Its destructor removes it again.
LEMMA TimeoutEnds ==
  ASSUME TypeOK, TimeoutInv, NEW c \in Co, InIo(c), GuardEnd(c, wait[c].timeoutMs),
         ~InIo(c)', \A d \in Co \ {c} : wait'[d] = wait[d]
  PROVE  TimeoutInv'
<1>1. /\ \A d \in Co \ {c} : (Timed(d)' <=> Timed(d)) /\ Deadline(d)' = Deadline(d)
      /\ ~Timed(c)'
      /\ (Timed(c) <=> wait[c].timeoutMs > 0)
  BY DEF Timed, InIo, Deadline
<1>2. CASE Timed(c)
  <2>1. c \in DOMAIN m_timeoutPtrMap /\ m_timeoutPtrMap[c] = Deadline(c)
    BY <1>2 DEF TimeoutInv
  <2>2. /\ m_timeoutSet' = m_timeoutSet \ {Deadline(c)}
        /\ m_timeoutPtrMap' = [d \in DOMAIN m_timeoutPtrMap \ {c} |-> m_timeoutPtrMap[d]]
    BY <1>1, <1>2, <2>1 DEF GuardEnd, TimeoutDelete
  <2>3. {d \in Co : Timed(d)'} = {d \in Co : Timed(d)} \ {c}
    BY <1>1, <1>2
  <2>4. \A d \in Co \ {c} : Deadline(d) # Deadline(c)
    BY DEF Deadline
  <2>5. m_timeoutSet' = {Deadline(d)' : d \in {d \in Co : Timed(d)'}}
    BY <1>1, <2>2, <2>3, <2>4 DEF TimeoutInv
  <2>6. /\ DOMAIN m_timeoutPtrMap' = {d \in Co : Timed(d)'}
        /\ \A d \in DOMAIN m_timeoutPtrMap' : m_timeoutPtrMap'[d] = Deadline(d)'
    BY <1>1, <2>2, <2>3 DEF TimeoutInv
  <2> QED  BY <2>5, <2>6 DEF TimeoutInv
<1>3. CASE ~Timed(c)
  <2>1. UNCHANGED timeVars
    BY <1>1, <1>3 DEF GuardEnd
  <2>2. {d \in Co : Timed(d)'} = {d \in Co : Timed(d)}
    BY <1>1, <1>3
  <2> QED  BY <1>1, <1>3, <2>1, <2>2 DEF TimeoutInv, timeVars
<1> QED  BY <1>2, <1>3

LEMMA CallBlocksInv ==
  ASSUME LoopInv, NEW c \in Co, NEW fd \in Fd, NEW op \in Ops[fd], NEW ms \in Timeouts,
         CallBlocks(c, op, fd, ms)
  PROVE  BlockedInv' /\ SlotsInv' /\ TimeoutInv' /\ ConditionInv'
<1> DEFINE w == [op |-> op, fd |-> fd, timeoutMs |-> ms, since |-> clock]
           e == EventOf(op)
<1>0. op \in Op /\ e \in Event /\ open[fd] /\ AddEvent(c, fd, e) /\ GuardBegin(c, ms)
  BY DEF CallBlocks, EventOf, Op, Event
<1>1. wait[c] = NoWait /\ running = c /\ status[c] = COROUTINE_RUNNING
  BY DEF CallBlocks, Running, LoopInv, BlockedInv, OnlyRunningRuns
<1>2. wait' = [wait EXCEPT ![c] = w] /\ w # NoWait /\ w.op # "Condition"
  BY <1>0 DEF CallBlocks, NoWait, Op
<1>3. /\ wait'[c] = w
      /\ \A d \in Co \ {c} : wait'[d] = wait[d]
      /\ \A d \in Co \ {c} : (InIo(d)' <=> InIo(d)) /\ (InCond(d)' <=> InCond(d))
      /\ InIo(c)' /\ ~InCond(c)' /\ ~InIo(c) /\ ~InCond(c)
  BY <1>0, <1>1, <1>2 DEF LoopInv, TypeOK, InIo, InCond, NoWait, Op
<1>4. BlockedInv'
  <2>1. /\ status'[c] = COROUTINE_SUSPEND /\ running' = NoCo
        /\ \A d \in Co \ {c} : status'[d] = status[d] /\ status[d] # COROUTINE_RUNNING
    BY <1>1 DEF LoopInv, TypeOK, SchedTypeOK, BlockedInv, OnlyRunningRuns, CallBlocks,
                coroutine_yield
  <2> HIDE DEF w
  <2>2. \A d \in Co : d # NoCo
    OBVIOUS
  <2>3. OnlyRunningRuns'
    BY <2>1, <2>2 DEF OnlyRunningRuns
  <2>4. wait'[c] # NoWait /\ \A d \in Co \ {c} : wait'[d] = wait[d]
    BY <1>2, <1>3
  <2> QED  BY <2>1, <2>3, <2>4 DEF LoopInv, BlockedInv
<1>5. /\ m_coIdMap'[fd][e] = c
      /\ \A f \in Fd, g \in Event : <<f, g>> # <<fd, e>> => m_coIdMap'[f][g] = m_coIdMap[f][g]
  <2>1. TypeOK /\ e \in Event /\ AddEvent(c, fd, e)
    BY <1>0 DEF LoopInv
  <2> HIDE DEF e, w
  <2> QED  BY ONLY <2>1, c \in Co, fd \in Fd, AddEventSlot
<1>7. SlotsInv'
  <2> SUFFICES ASSUME NEW f \in Fd, NEW g \in Event, HasCoroutine(f, g)'
               PROVE  \E d \in Co : /\ m_coIdMap'[f][g] = d
                                    /\ InIo(d)' /\ wait'[d].fd = f /\ EventOf(wait'[d].op) = g
    BY DEF SlotsInv
  <2>1. CASE f = fd /\ g = e
    BY <2>1, <1>3, <1>5
  <2>2. CASE ~(f = fd /\ g = e)
    <3>1. m_coIdMap'[f][g] = m_coIdMap[f][g] /\ HasCoroutine(f, g)
      BY <2>2, <1>5 DEF HasCoroutine
    <3>2. PICK d \in Co : /\ m_coIdMap[f][g] = d
                          /\ InIo(d) /\ wait[d].fd = f /\ EventOf(wait[d].op) = g
      BY <3>1 DEF LoopInv, SlotsInv
    <3>3. d # c
      BY <3>2, <1>3
    <3> QED  BY <3>1, <3>2, <3>3, <1>3
  <2> QED  BY <2>1, <2>2
<1>8. ConditionInv'
  <2>1. UNCHANGED <<m_conditionMap, m_waitResumeList>> /\ \A d \in Co \ {c} : status'[d] = status[d]
    BY <1>1 DEF CallBlocks, condVars, listVars, coroutine_yield, LoopInv, TypeOK, SchedTypeOK
  <2>2. \A d \in Co : Listed(d)' <=> Listed(d)
    BY <2>1 DEF Listed
  <2>3. ~Listed(c) /\ \A k \in DOMAIN m_conditionMap : c \notin m_conditionMap[k]
    BY <1>3 DEF LoopInv, ConditionInv
  <2> QED  BY <2>1, <2>2, <2>3, <1>3 DEF LoopInv, ConditionInv
<1>9. TimeoutInv'
  <2>1. wait'[c].timeoutMs = ms /\ wait'[c].since = clock
    BY <1>3
  <2> QED  BY <1>0, <1>3, <2>1, TimeoutBegins DEF LoopInv
<1> QED  BY <1>4, <1>7, <1>8, <1>9

\* A slot that was free is taken: the others keep theirs.
LEMMA CallBlocksWatch ==
  ASSUME WatchedInv, NEW c \in Co, NEW fd \in Fd, NEW op \in Ops[fd], NEW ms \in Timeouts,
         CallBlocks(c, op, fd, ms)
  PROVE  WatchInv' /\ NoAbort'
<1> DEFINE e == EventOf(op)
<1>0. /\ TypeOK /\ WatchInv /\ op \in Op /\ e \in Event /\ open[fd] /\ AddEvent(c, fd, e)
      /\ UNCHANGED open
  BY DEF WatchedInv, LoopInv, CallBlocks, EventOf, Op, Event, kernVars
<1>1. /\ m_coIdMap[fd][e] = NoCo /\ m_coIdMap'[fd][e] = c
      /\ \A f \in Fd, g \in Event : <<f, g>> # <<fd, e>> => m_coIdMap'[f][g] = m_coIdMap[f][g]
      /\ \A f \in Fd : interest'[f] = GetEvents(f)'
      /\ aborted' = FALSE
  <2> HIDE DEF e
  <2>1. /\ m_coIdMap[fd][e] = NoCo /\ m_coIdMap'[fd][e] = c
        /\ \A f \in Fd, g \in Event : <<f, g>> # <<fd, e>> => m_coIdMap'[f][g] = m_coIdMap[f][g]
    BY ONLY <1>0, c \in Co, fd \in Fd, AddEventSlot
  <2>2. (\A f \in Fd : interest'[f] = GetEvents(f)') /\ aborted' = FALSE
    BY ONLY <1>0, c \in Co, fd \in Fd, AddEventEffect
  <2> QED  BY <2>1, <2>2
<1>2. /\ wait'[c].fd = fd /\ wait'[c].op = op
      /\ \A d \in Co \ {c} : wait'[d] = wait[d]
  BY <1>0 DEF CallBlocks, TypeOK
<1>3. ASSUME NEW d \in Co, InIo(d)'
      PROVE  open'[wait'[d].fd] /\ Slot(d)' = d
  <2>1. CASE d = c
    BY <2>1, <1>0, <1>1, <1>2 DEF Slot
  <2>2. CASE d # c
    <3>1. InIo(d) /\ wait'[d] = wait[d]
      BY <1>3, <2>2, <1>2 DEF InIo
    <3>2. wait[d].fd \in Fd /\ EventOf(wait[d].op) \in Event
      BY <1>0, <3>1, IoWaitFields
    <3>3. Slot(d) = d /\ open[wait[d].fd]
      BY <1>0, <3>1 DEF WatchInv
    <3>4. <<wait[d].fd, EventOf(wait[d].op)>> # <<fd, e>>
      BY <3>3, <1>1 DEF Slot
    <3> HIDE DEF e
    <3> QED  BY <3>1, <3>2, <3>3, <3>4, <1>0, <1>1 DEF Slot
  <2> QED  BY <2>1, <2>2
<1>4. SlotsInv'
  BY CallBlocksInv DEF WatchedInv
<1> QED  BY <1>1, <1>3, <1>4 DEF WatchInv, NoAbort

LEMMA CallResumesInv ==
  ASSUME LoopInv, NEW c \in Co, CallResumes(c)
  PROVE  BlockedInv' /\ SlotsInv' /\ TimeoutInv' /\ ConditionInv'
<1> DEFINE fd == wait[c].fd
           e  == EventOf(wait[c].op)
<1>0. /\ fd \in Fd /\ e \in Event /\ InIo(c) /\ running = c
      /\ DeleteEvent(fd, e) /\ GuardEnd(c, wait[c].timeoutMs)
  BY IoWaitFields DEF LoopInv, CallResumes
<1>2. /\ wait'[c] = NoWait
      /\ \A d \in Co \ {c} : wait'[d] = wait[d]
      /\ \A d \in Co \ {c} : (InIo(d)' <=> InIo(d)) /\ (InCond(d)' <=> InCond(d))
      /\ ~InIo(c)' /\ ~InCond(c)' /\ ~InCond(c)
  BY <1>0 DEF CallResumes, LoopInv, TypeOK, InIo, InCond, NoWait, Op
<1>3. /\ m_coIdMap'[fd][e] = NoCo
      /\ \A f \in Fd, g \in Event : <<f, g>> # <<fd, e>> => m_coIdMap'[f][g] = m_coIdMap[f][g]
  <2> HIDE DEF fd, e
  <2> QED  BY <1>0, DeleteEventSlot DEF LoopInv
<1>4. BlockedInv'
  <2>1. status[c] = COROUTINE_RUNNING /\ UNCHANGED <<status, running>>
    BY <1>0 DEF LoopInv, BlockedInv, OnlyRunningRuns, CallResumes, schedVars
  <2> QED  BY <2>1, <1>2 DEF LoopInv, BlockedInv, OnlyRunningRuns
<1>5. SlotsInv'
  <2> SUFFICES ASSUME NEW f \in Fd, NEW g \in Event, HasCoroutine(f, g)'
               PROVE  \E d \in Co : /\ m_coIdMap'[f][g] = d
                                    /\ InIo(d)' /\ wait'[d].fd = f /\ EventOf(wait'[d].op) = g
    BY DEF SlotsInv
  <2>1. ~(f = fd /\ g = e)
    BY <1>3 DEF HasCoroutine
  <2>2. m_coIdMap'[f][g] = m_coIdMap[f][g] /\ HasCoroutine(f, g)
    BY <2>1, <1>3 DEF HasCoroutine
  <2>3. PICK d \in Co : /\ m_coIdMap[f][g] = d
                        /\ InIo(d) /\ wait[d].fd = f /\ EventOf(wait[d].op) = g
    BY <2>2 DEF LoopInv, SlotsInv
  <2>4. d # c
    BY <2>1, <2>3
  <2> QED  BY <2>2, <2>3, <2>4, <1>2
<1>6. TimeoutInv'
  BY <1>0, <1>2, TimeoutEnds DEF LoopInv
<1>7. ConditionInv'
  <2>1. UNCHANGED <<m_conditionMap, m_waitResumeList, status>>
    BY DEF CallResumes, condVars, listVars, schedVars
  <2>2. \A d \in Co : Listed(d)' <=> Listed(d)
    BY <2>1 DEF Listed
  <2>3. ~Listed(c) /\ \A k \in DOMAIN m_conditionMap : c \notin m_conditionMap[k]
    BY <1>2 DEF LoopInv, ConditionInv
  <2> QED  BY <2>1, <2>2, <2>3, <1>2 DEF LoopInv, ConditionInv
<1> QED  BY <1>4, <1>5, <1>6, <1>7

\* The coroutine gives up its own slot: the others keep theirs.
LEMMA CallResumesWatch ==
  ASSUME WatchedInv, NEW c \in Co, CallResumes(c)
  PROVE  WatchInv' /\ NoAbort'
<1> DEFINE fd == wait[c].fd
           e  == EventOf(wait[c].op)
<1>0. /\ TypeOK /\ WatchInv /\ fd \in Fd /\ e \in Event /\ InIo(c) /\ DeleteEvent(fd, e)
      /\ UNCHANGED open
  BY IoWaitFields DEF WatchedInv, LoopInv, CallResumes
<1>1. open[fd] /\ m_coIdMap[fd][e] = c
  BY <1>0 DEF WatchInv, Slot
<1>2. /\ ~InIo(c)'
      /\ \A d \in Co \ {c} : wait'[d] = wait[d]
  BY <1>0 DEF CallResumes, TypeOK, InIo, NoWait, Op
<1>3. /\ \A f \in Fd, g \in Event : <<f, g>> # <<fd, e>> => m_coIdMap'[f][g] = m_coIdMap[f][g]
      /\ \A f \in Fd : interest'[f] = GetEvents(f)'
      /\ aborted' = FALSE
  <2> HIDE DEF fd, e
  <2> QED  BY <1>0, <1>1, DeleteEventSlot, DeleteEventEffect
<1>4. ASSUME NEW d \in Co, InIo(d)'
      PROVE  open'[wait'[d].fd] /\ Slot(d)' = d
  <2>1. d # c /\ InIo(d) /\ wait'[d] = wait[d]
    BY <1>2, <1>4 DEF InIo
  <2>2. wait[d].fd \in Fd /\ EventOf(wait[d].op) \in Event
    BY <1>0, <2>1, IoWaitFields
  <2>3. Slot(d) = d /\ open[wait[d].fd]
    BY <1>0, <2>1 DEF WatchInv
  <2>4. <<wait[d].fd, EventOf(wait[d].op)>> # <<fd, e>>
    BY <2>1, <2>3, <1>1 DEF Slot
  <2> HIDE DEF fd, e
  <2> QED  BY <2>1, <2>2, <2>3, <2>4, <1>0, <1>3 DEF Slot
<1>5. SlotsInv'
  BY CallResumesInv DEF WatchedInv
<1> QED  BY <1>3, <1>4, <1>5 DEF WatchInv, NoAbort

\* A call on an event that another coroutine waits for frees its slot.
LEMMA DuplicateInv ==
  ASSUME LoopInv, NEW c \in Co, NEW fd \in Fd, NEW op \in Ops[fd], CallIsDuplicate(c, op, fd)
  PROVE  BlockedInv' /\ SlotsInv' /\ TimeoutInv' /\ ConditionInv'
<1> DEFINE e == EventOf(op)
<1>0. /\ e \in Event /\ DeleteEvent(fd, e)
      /\ UNCHANGED <<schedVars, listVars, condVars, timeVars, wait>>
  BY DEF CallIsDuplicate, EventOf, Event
<1>1. BlockedInv' /\ TimeoutInv' /\ ConditionInv'
  BY <1>0, BlockedKept, TimeoutKept, ConditionKept DEF LoopInv, schedVars, listVars, condVars
<1>2. /\ m_coIdMap'[fd][e] = NoCo
      /\ \A f \in Fd, g \in Event : <<f, g>> # <<fd, e>> => m_coIdMap'[f][g] = m_coIdMap[f][g]
  <2> HIDE DEF e
  <2> QED  BY <1>0, DeleteEventSlot DEF LoopInv
<1>3. \A f \in Fd, g \in Event :
        HasCoroutine(f, g)' => HasCoroutine(f, g) /\ m_coIdMap'[f][g] = m_coIdMap[f][g]
  BY <1>2 DEF HasCoroutine
<1>4. SlotsInv'
  BY <1>0, <1>3 DEF LoopInv, SlotsInv, InIo
<1> QED  BY <1>1, <1>4

----------------------------------------------------------------------------
(* Conditions.                                                             *)

\* A change of the wait record from none, or to none, that does not involve a
\* descriptor leaves the watchers and the deadlines alone.
LEMMA NoIoKept ==
  ASSUME SlotsInv, TimeoutInv, NEW c \in Co, ~InIo(c), ~InIo(c)',
         \A d \in Co \ {c} : wait'[d] = wait[d],
         UNCHANGED <<m_coIdMap, timeVars>>
  PROVE  SlotsInv' /\ TimeoutInv'
<1>1. \A d \in Co : InIo(d)' <=> InIo(d)
  BY DEF InIo
<1>2. \A d \in Co : InIo(d) => wait'[d] = wait[d]
  OBVIOUS
<1>3. SlotsInv'
  <2> SUFFICES ASSUME NEW f \in Fd, NEW g \in Event, HasCoroutine(f, g)'
               PROVE  \E d \in Co : /\ m_coIdMap'[f][g] = d
                                    /\ InIo(d)' /\ wait'[d].fd = f /\ EventOf(wait'[d].op) = g
    BY DEF SlotsInv
  <2>1. PICK d \in Co : /\ m_coIdMap[f][g] = d
                        /\ InIo(d) /\ wait[d].fd = f /\ EventOf(wait[d].op) = g
    BY DEF SlotsInv, HasCoroutine
  <2>2. wait'[d] = wait[d] /\ InIo(d)'
    BY <2>1, <1>1, <1>2
  <2> QED  BY <2>1, <2>2
<1>4. {d \in Co : Timed(d)'} = {d \in Co : Timed(d)}
  BY <1>1, <1>2 DEF Timed
<1>5. \A d \in {d \in Co : Timed(d)} : Deadline(d)' = Deadline(d)
  BY <1>2 DEF Timed, Deadline
<1>6. TimeoutInv'
  BY <1>4, <1>5 DEF TimeoutInv, timeVars
<1> QED  BY <1>3, <1>6

LEMMA ConditionWaitInv ==
  ASSUME LoopInv, NEW c \in Co, NEW condition \in Conditions, ConditionWait(c, condition)
  PROVE  BlockedInv' /\ SlotsInv' /\ TimeoutInv' /\ ConditionInv'
<1> DEFINE w == [op |-> "Condition", condition |-> condition]
           key == Key(condition)
<1>0. key \in DOMAIN m_conditionMap
  BY KeyType DEF LoopInv, TypeOK, Conditions
<1>1. wait[c] = NoWait /\ running = c /\ status[c] = COROUTINE_RUNNING
  BY DEF ConditionWait, Running, LoopInv, BlockedInv, OnlyRunningRuns
<1>2. /\ wait'[c] = w /\ w # NoWait
      /\ \A d \in Co \ {c} : wait'[d] = wait[d]
      /\ \A d \in Co \ {c} : (InIo(d)' <=> InIo(d)) /\ (InCond(d)' <=> InCond(d))
      /\ ~InIo(c)' /\ InCond(c)' /\ ~InIo(c) /\ ~InCond(c)
  BY <1>1 DEF ConditionWait, LoopInv, TypeOK, InIo, InCond, NoWait, Op
<1>3. /\ status'[c] = COROUTINE_SUSPEND /\ running' = NoCo
      /\ \A d \in Co \ {c} : status'[d] = status[d] /\ status[d] # COROUTINE_RUNNING
  BY <1>1 DEF LoopInv, TypeOK, SchedTypeOK, BlockedInv, OnlyRunningRuns, ConditionWait,
              coroutine_yield
<1>4. BlockedInv'
  <2>1. \A d \in Co : d # NoCo
    OBVIOUS
  <2>2. OnlyRunningRuns'
    BY <1>3, <2>1 DEF OnlyRunningRuns
  <2> QED  BY <1>2, <1>3, <2>2 DEF LoopInv, BlockedInv
<1>5. SlotsInv' /\ TimeoutInv'
  BY <1>2, NoIoKept DEF LoopInv, ConditionWait, fdVars
<1>6. ConditionInv'
  <2>1. \A d \in Co : Listed(d)' <=> Listed(d)
    BY DEF Listed, ConditionWait, listVars
  <2>2. ~Listed(c) /\ \A k \in DOMAIN m_conditionMap : c \notin m_conditionMap[k]
    BY <1>2 DEF LoopInv, ConditionInv
  <2>3. /\ m_conditionMap' = [m_conditionMap EXCEPT ![key] = @ \cup {c}]
        /\ DOMAIN m_conditionMap' = DOMAIN m_conditionMap
        /\ \A k \in DOMAIN m_conditionMap : c \in m_conditionMap'[k] <=> k = key
        /\ \A k \in DOMAIN m_conditionMap, d \in Co \ {c} :
             d \in m_conditionMap'[k] <=> d \in m_conditionMap[k]
    BY <1>0, <2>2 DEF ConditionWait
  <2>4. InCond(c)' /\ Key(wait'[c].condition) = key
    BY <1>2
  <2>5. ASSUME NEW d \in Co, NEW k \in DOMAIN m_conditionMap'
        PROVE  d \in m_conditionMap'[k] <=>
                 /\ InCond(d)' /\ Key(wait'[d].condition) = k /\ status'[d] = COROUTINE_SUSPEND
                 /\ ~Listed(d)'
    <3> HIDE DEF key, w
    <3>1. CASE d = c
      BY <3>1, <1>3, <2>1, <2>2, <2>3, <2>4
    <3>2. CASE d # c
      BY <3>2, <1>2, <1>3, <2>1, <2>3 DEF LoopInv, ConditionInv
    <3> QED  BY <3>1, <3>2
  <2>6. \A d \in Co : Listed(d)' => InCond(d)' /\ status'[d] = COROUTINE_SUSPEND
    BY <2>1, <2>2, <1>2, <1>3 DEF LoopInv, ConditionInv
  <2>7. UNCHANGED m_waitResumeList
    BY DEF ConditionWait, listVars
  <2> QED  BY <2>5, <2>6, <2>7 DEF LoopInv, ConditionInv
<1> QED  BY <1>4, <1>5, <1>6

LEMMA WaitResumesInv ==
  ASSUME LoopInv, NEW c \in Co, WaitResumes(c)
  PROVE  BlockedInv' /\ SlotsInv' /\ TimeoutInv' /\ ConditionInv'
<1>1. running = c /\ status[c] = COROUTINE_RUNNING /\ InCond(c) /\ UNCHANGED <<status, running>>
  BY DEF WaitResumes, LoopInv, BlockedInv, OnlyRunningRuns, schedVars
<1>2. /\ wait'[c] = NoWait
      /\ \A d \in Co \ {c} : wait'[d] = wait[d]
      /\ \A d \in Co \ {c} : (InIo(d)' <=> InIo(d)) /\ (InCond(d)' <=> InCond(d))
      /\ ~InIo(c)' /\ ~InCond(c)' /\ ~InIo(c)
  BY <1>1 DEF WaitResumes, LoopInv, TypeOK, InIo, InCond, NoWait, Op
<1>3. BlockedInv'
  BY <1>1, <1>2 DEF LoopInv, BlockedInv, OnlyRunningRuns
<1>4. SlotsInv' /\ TimeoutInv'
  BY <1>2, NoIoKept DEF LoopInv, WaitResumes, fdVars
<1>5. ConditionInv'
  <2>1. UNCHANGED <<m_conditionMap, m_waitResumeList, status>>
    BY DEF WaitResumes, condVars, listVars, schedVars
  <2>2. \A d \in Co : Listed(d)' <=> Listed(d)
    BY <2>1 DEF Listed
  <2>3. ~Listed(c) /\ \A k \in DOMAIN m_conditionMap : c \notin m_conditionMap[k]
    BY <1>1 DEF LoopInv, ConditionInv
  <2> QED  BY <2>1, <2>2, <2>3, <1>2 DEF LoopInv, ConditionInv
<1> QED  BY <1>3, <1>4, <1>5

\* Neither touches a descriptor.
LEMMA ConditionWatch ==
  ASSUME WatchedInv, NEW c \in Co,
         WaitResumes(c) \/ \E condition \in Conditions : ConditionWait(c, condition)
  PROVE  WatchInv' /\ NoAbort'
<1>1. UNCHANGED <<m_coIdMap, interest, open, aborted>>
  BY DEF WaitResumes, ConditionWait, fdVars, kernVars
<1>2. ~InIo(c)' /\ \A d \in Co \ {c} : wait'[d] = wait[d]
  <2>1. PICK w : w.op \notin Op /\ wait' = [wait EXCEPT ![c] = w]
    BY DEF WaitResumes, ConditionWait, NoWait, Op
  <2> QED  BY <2>1 DEF WatchedInv, LoopInv, TypeOK, InIo
<1>3. \A d \in Co : InIo(d)' => open'[wait'[d].fd] /\ Slot(d)' = d
  BY <1>1, <1>2 DEF WatchedInv, WatchInv, InIo, Slot
<1>4. SlotsInv'
  BY ConditionWaitInv, WaitResumesInv DEF WatchedInv
<1>5. \A f \in Fd : interest'[f] = GetEvents(f)'
  BY <1>1 DEF WatchedInv, WatchInv, GetEvents, HasCoroutine
<1> QED  BY <1>1, <1>3, <1>4, <1>5 DEF WatchInv, WatchedInv, NoAbort

\* A std::set is iterated in order: each element once.
LEMMA InOrderOnce ==
  ASSUME NEW S \in SUBSET Co, NEW list \in InOrder(S)
  PROVE  /\ list \in Seq(Co)
         /\ \A x \in Co : x \in S <=> \E i \in 1 .. Len(list) : list[i] = x
         /\ \A i, j \in 1 .. Len(list) : list[i] = list[j] => i = j
<1>1. list \in Seq(Co)
  BY InOrderType
<1>2. IsFiniteSet(S) /\ Cardinality(S) \in Nat
  BY FS_Subset, FS_CardinalityType
<1>3. list \in [1 .. Cardinality(S) -> S] /\ DOMAIN list = 1 .. Cardinality(S)
  BY DEF InOrder
<1>4. Len(list) = Cardinality(S)
  BY <1>1, <1>2, <1>3, LenProperties
<1>5. \A x \in S : \E i \in 1 .. Len(list) : list[i] = x
  BY <1>3, <1>4 DEF InOrder
<1>6. \A i \in 1 .. Len(list) : list[i] \in S
  BY <1>3, <1>4
<1>7. \A i, j \in 1 .. Len(list) : list[i] = list[j] => i = j
  <2> SUFFICES ASSUME NEW i \in 1 .. Len(list), NEW j \in 1 .. Len(list), i # j
               PROVE  list[i] # list[j]
    OBVIOUS
  <2>1. \A k, l \in 1 .. Len(list) : k < l => list[k] < list[l]
    BY <1>3, <1>4 DEF InOrder
  <2>2. list[i] \in Nat /\ list[j] \in Nat /\ i \in Nat /\ j \in Nat
    <3>1. list[i] \in Co /\ list[j] \in Co
      BY <1>6
    <3>2. Co \subseteq Nat
      BY CoAssumption
    <3>3. list[i] \in Nat /\ list[j] \in Nat
      BY <3>1, <3>2
    <3>4. Len(list) \in Nat
      BY <1>2, <1>4
    <3> QED  BY <3>3, <3>4
  <2>3. i < j \/ j < i
    BY <2>2
  <2> QED  BY <2>1, <2>2, <2>3
<1> QED  BY <1>1, <1>5, <1>6, <1>7

\* The list after a notification: what was in it, then the waiters.
LEMMA NotifyInv ==
  ASSUME LoopInv, NEW c \in Co, NEW condition \in Conditions, ConditionNotify(c, condition)
  PROVE  BlockedInv' /\ SlotsInv' /\ TimeoutInv' /\ ConditionInv'
<1> DEFINE key == Key(condition)
           L == m_waitResumeList
<1>0. key \in DOMAIN m_conditionMap /\ L \in Seq(Co)
  BY KeyType DEF LoopInv, TypeOK, Conditions
<1>1. BlockedInv' /\ SlotsInv' /\ TimeoutInv'
  BY BlockedKept, SlotsKept, TimeoutKept DEF LoopInv, ConditionNotify, fdVars
<1>2. UNCHANGED <<status, wait>> /\ \A d \in Co : InCond(d)' <=> InCond(d)
  BY DEF ConditionNotify, schedVars, InCond
<1>3. PICK list \in InOrder(m_conditionMap[key]) : m_waitResumeList' = L \o list
  BY DEF ConditionNotify
<1>4. /\ list \in Seq(Co)
      /\ \A x \in Co : x \in m_conditionMap[key] <=> \E i \in 1 .. Len(list) : list[i] = x
      /\ \A i, j \in 1 .. Len(list) : list[i] = list[j] => i = j
  <2>1. m_conditionMap[key] \in SUBSET Co
    BY <1>0 DEF LoopInv, TypeOK
  <2> QED  BY <2>1, InOrderOnce
<1>5. /\ Len(L) \in Nat /\ Len(list) \in Nat
      /\ DOMAIN L = 1 .. Len(L) /\ DOMAIN m_waitResumeList' = 1 .. Len(L) + Len(list)
      /\ \A i \in 1 .. Len(L) : m_waitResumeList'[i] = L[i]
      /\ \A i \in 1 .. Len(list) : m_waitResumeList'[Len(L) + i] = list[i]
      /\ \A i \in 1 .. Len(L) + Len(list) :
           m_waitResumeList'[i] = IF i <= Len(L) THEN L[i] ELSE list[i - Len(L)]
  <2>1. Len(L) \in Nat /\ Len(list) \in Nat /\ DOMAIN L = 1 .. Len(L)
    BY <1>0, <1>4, LenProperties
  <2>2. /\ m_waitResumeList' \in Seq(Co) /\ Len(m_waitResumeList') = Len(L) + Len(list)
        /\ \A i \in 1 .. Len(L) + Len(list) :
             m_waitResumeList'[i] = IF i <= Len(L) THEN L[i] ELSE list[i - Len(L)]
    BY <1>0, <1>3, <1>4, ConcatProperties
  <2>3. DOMAIN m_waitResumeList' = 1 .. Len(L) + Len(list)
    BY <2>2, LenProperties
  <2>4. ASSUME NEW i \in 1 .. Len(L) PROVE m_waitResumeList'[i] = L[i]
    <3>1. i \in 1 .. Len(L) + Len(list) /\ i <= Len(L)
      BY <2>1
    <3> QED  BY <2>2, <3>1
  <2>5. ASSUME NEW i \in 1 .. Len(list) PROVE m_waitResumeList'[Len(L) + i] = list[i]
    <3>1. /\ Len(L) + i \in 1 .. Len(L) + Len(list)
          /\ ~(Len(L) + i <= Len(L)) /\ (Len(L) + i) - Len(L) = i
      BY <2>1
    <3> QED  BY <2>2, <3>1
  <2> QED  BY <2>1, <2>2, <2>3, <2>4, <2>5
<1>6. \A d \in Co : Listed(d)' <=> Listed(d) \/ d \in m_conditionMap[key]
  <2> SUFFICES ASSUME NEW d \in Co PROVE Listed(d)' <=> Listed(d) \/ d \in m_conditionMap[key]
    OBVIOUS
  <2>1. ASSUME Listed(d)' PROVE Listed(d) \/ d \in m_conditionMap[key]
    <3>1. PICK i \in 1 .. Len(L) + Len(list) : m_waitResumeList'[i] = d
      BY <2>1, <1>5 DEF Listed
    <3>2. CASE i <= Len(L)
      BY <3>1, <3>2, <1>5 DEF Listed
    <3>3. CASE ~(i <= Len(L))
      <4>1. i - Len(L) \in 1 .. Len(list) /\ list[i - Len(L)] = d
        BY <3>1, <3>3, <1>5
      <4> QED  BY <4>1, <1>4
    <3> QED  BY <3>2, <3>3
  <2>2. ASSUME Listed(d) PROVE Listed(d)'
    <3>1. PICK i \in 1 .. Len(L) : L[i] = d
      BY <2>2, <1>5 DEF Listed
    <3>2. i \in 1 .. Len(L) + Len(list)
      BY <1>5
    <3> QED  BY <3>1, <3>2, <1>5 DEF Listed
  <2>3. ASSUME d \in m_conditionMap[key] PROVE Listed(d)'
    <3>1. PICK i \in 1 .. Len(list) : list[i] = d
      BY <2>3, <1>4
    <3>2. Len(L) + i \in 1 .. Len(L) + Len(list)
      BY <1>5
    <3> QED  BY <3>1, <3>2, <1>5 DEF Listed
  <2> QED  BY <2>1, <2>2, <2>3
<1>7. /\ DOMAIN m_conditionMap' = DOMAIN m_conditionMap
      /\ m_conditionMap'[key] = {}
      /\ \A k \in DOMAIN m_conditionMap \ {key} : m_conditionMap'[k] = m_conditionMap[k]
  BY <1>0 DEF ConditionNotify
<1>8. ConditionInv'
  <2> HIDE DEF key, L
  <2>1. ASSUME NEW d \in Co, NEW k \in DOMAIN m_conditionMap'
        PROVE  d \in m_conditionMap'[k] <=>
                 /\ InCond(d)' /\ Key(wait'[d].condition) = k /\ status'[d] = COROUTINE_SUSPEND
                 /\ ~Listed(d)'
    <3>1. CASE k = key
      BY <3>1, <1>0, <1>2, <1>6, <1>7 DEF LoopInv, ConditionInv
    <3>2. CASE k # key
      BY <3>2, <1>0, <1>2, <1>6, <1>7 DEF LoopInv, ConditionInv
    <3> QED  BY <3>1, <3>2
  <2>2. \A d \in Co : Listed(d)' => InCond(d)' /\ status'[d] = COROUTINE_SUSPEND
    BY <1>0, <1>2, <1>6 DEF LoopInv, ConditionInv
  <2>3. ASSUME NEW i \in 1 .. Len(L) + Len(list), NEW j \in 1 .. Len(L) + Len(list),
               m_waitResumeList'[i] = m_waitResumeList'[j]
        PROVE  i = j
    <3>1. \A m, n \in 1 .. Len(L) : L[m] = L[n] => m = n
      BY <1>5 DEF LoopInv, ConditionInv, L
    <3>2. \A m \in 1 .. Len(L), n \in 1 .. Len(list) : L[m] # list[n]
      <4> SUFFICES ASSUME NEW m \in 1 .. Len(L), NEW n \in 1 .. Len(list), L[m] = list[n]
                   PROVE  FALSE
        OBVIOUS
      <4>1. L[m] \in Co /\ Listed(L[m])
        BY <1>0, <1>5, ElementOfSeq DEF Listed, L
      <4>2. L[m] \in m_conditionMap[key]
        BY <4>1, <1>4
      <4> QED  BY <4>1, <4>2, <1>0 DEF LoopInv, ConditionInv
    <3>3. CASE i <= Len(L) /\ j <= Len(L)
      BY <2>3, <3>1, <3>3, <1>5
    <3>4. CASE i <= Len(L) /\ ~(j <= Len(L))
      BY <2>3, <3>2, <3>4, <1>5
    <3>5. CASE ~(i <= Len(L)) /\ j <= Len(L)
      BY <2>3, <3>2, <3>5, <1>5
    <3>6. CASE ~(i <= Len(L)) /\ ~(j <= Len(L))
      <4>1. /\ i - Len(L) \in 1 .. Len(list) /\ j - Len(L) \in 1 .. Len(list)
            /\ list[i - Len(L)] = list[j - Len(L)]
        BY <2>3, <3>6, <1>5
      <4>2. i - Len(L) = j - Len(L)
        BY <4>1, <1>4
      <4> QED  BY <4>2, <1>5
    <3> QED  BY <3>3, <3>4, <3>5, <3>6
  <2>4. \A i, j \in DOMAIN m_waitResumeList' :
          m_waitResumeList'[i] = m_waitResumeList'[j] => i = j
    BY <2>3, <1>5
  <2> QED  BY <2>1, <2>2, <2>4 DEF ConditionInv
<1> QED  BY <1>1, <1>8

----------------------------------------------------------------------------
(* The loop resumes, starts and ends coroutines.                           *)

\* A suspended coroutine that is not in a condition, or no longer listed,
\* is resumed.
LEMMA ResumeBlocked ==
  ASSUME TypeOK, BlockedInv, NEW c \in Co, status[c] = COROUTINE_SUSPEND,
         coroutine_resume(c), UNCHANGED wait
  PROVE  /\ BlockedInv'
         /\ status'[c] = COROUTINE_RUNNING
         /\ \A d \in Co \ {c} : status'[d] = status[d]
<1>1. running = NoCo /\ running' = c /\ status' = [status EXCEPT ![c] = COROUTINE_RUNNING]
  BY DEF coroutine_resume
<1>2. /\ status'[c] = COROUTINE_RUNNING
      /\ \A d \in Co \ {c} : status'[d] = status[d]
  BY <1>1 DEF TypeOK, SchedTypeOK
<1>3. \A d \in Co : d # NoCo
  OBVIOUS
<1>4. OnlyRunningRuns'
  BY <1>1, <1>2, <1>3 DEF BlockedInv, OnlyRunningRuns
<1> QED  BY <1>2, <1>4 DEF BlockedInv

\* It is resumed for an event or a timeout: it waits for no condition.
LEMMA ResumeFromIo ==
  ASSUME TypeOK, BlockedInv, ConditionInv, NEW c \in Co, InIo(c), running = NoCo,
         coroutine_resume(c), UNCHANGED <<wait, m_conditionMap, m_waitResumeList>>
  PROVE  BlockedInv' /\ ConditionInv'
<1>1. status[c] = COROUTINE_SUSPEND
  <2>1. wait[c] # NoWait /\ running # c
    BY DEF InIo, NoWait, Op
  <2> QED  BY <2>1 DEF BlockedInv, OnlyRunningRuns
<1>2. /\ BlockedInv'
      /\ status'[c] = COROUTINE_RUNNING
      /\ \A d \in Co \ {c} : status'[d] = status[d]
  BY <1>1, ResumeBlocked
<1>3. ~InCond(c)
  BY DEF InIo, InCond, Op
<1>4. ConditionInv'
  <2>1. \A d \in Co : (InCond(d)' <=> InCond(d)) /\ (Listed(d)' <=> Listed(d))
    BY DEF InCond, Listed
  <2>2. \A d \in Co : InCond(d) => status'[d] = status[d]
    BY <1>2, <1>3
  <2>3. ASSUME NEW d \in Co, NEW k \in DOMAIN m_conditionMap
        PROVE  d \in m_conditionMap'[k] <=>
                 /\ InCond(d)' /\ Key(wait'[d].condition) = k
                 /\ status'[d] = COROUTINE_SUSPEND /\ ~Listed(d)'
    BY <2>1, <2>2 DEF ConditionInv
  <2>4. \A d \in Co : Listed(d)' => InCond(d)' /\ status'[d] = COROUTINE_SUSPEND
    BY <2>1, <2>2 DEF ConditionInv
  <2>5. \A i, j \in DOMAIN m_waitResumeList' :
          m_waitResumeList'[i] = m_waitResumeList'[j] => i = j
    BY DEF ConditionInv
  <2> QED  BY <2>3, <2>4, <2>5 DEF ConditionInv
<1> QED  BY <1>2, <1>4

\* EventHandler resumes the coroutine in a slot.
LEMMA SlotIsIo ==
  ASSUME TypeOK, SlotsInv, NEW e \in Event, m_events # <<>>, Concerns(e)
  PROVE  m_coIdMap[Head(m_events).fd][e] \in Co /\ InIo(m_coIdMap[Head(m_events).fd][e])
<1>1. Head(m_events).fd \in Fd
  BY EventsType
<1> QED  BY <1>1 DEF Concerns, SlotsInv

LEMMA HandlerKeepsInv ==
  ASSUME LoopInv, EventHandlerIn \/ EventHandlerOut
  PROVE  BlockedInv' /\ SlotsInv' /\ TimeoutInv' /\ ConditionInv'
<1>1. /\ m_events # <<>> /\ running = NoCo
      /\ UNCHANGED <<listVars, condVars, timeVars, fdVars, kernVars, wait, aborted>>
  BY DEF EventHandlerIn, EventHandlerOut, Loop, LoopInv, HandlerInv
<1>2. \/ UNCHANGED schedVars
      \/ \E e \in Event : Concerns(e) /\ coroutine_resume(m_coIdMap[Head(m_events).fd][e])
  BY DEF EventHandlerIn, EventHandlerOut, Event
<1>3. SlotsInv' /\ TimeoutInv'
  BY <1>1, SlotsKept, TimeoutKept DEF LoopInv, fdVars
<1>4. BlockedInv' /\ ConditionInv'
  <2>1. CASE UNCHANGED schedVars
    BY <1>1, <2>1, BlockedKept, ConditionKept DEF LoopInv, schedVars, condVars, listVars
  <2>2. ASSUME NEW e \in Event, Concerns(e), coroutine_resume(m_coIdMap[Head(m_events).fd][e])
        PROVE  BlockedInv' /\ ConditionInv'
    <3>1. m_coIdMap[Head(m_events).fd][e] \in Co /\ InIo(m_coIdMap[Head(m_events).fd][e])
      BY <1>1, <2>2, SlotIsIo DEF LoopInv
    <3> QED  BY <1>1, <2>2, <3>1, ResumeFromIo DEF LoopInv, condVars, listVars
  <2> QED  BY <1>2, <2>1, <2>2
<1> QED  BY <1>3, <1>4

LEMMA RunTimeoutCoInv ==
  ASSUME LoopInv, RunTimeoutCo
  PROVE  BlockedInv' /\ SlotsInv' /\ TimeoutInv' /\ ConditionInv'
<1>1. /\ running = NoCo
      /\ UNCHANGED <<listVars, condVars, timeVars, fdVars, kernVars, wait, aborted>>
  BY DEF RunTimeoutCo, Loop
<1>2. PICK x \in m_timeoutSet : coroutine_resume(x.coId)
  BY DEF RunTimeoutCo
<1>3. x.coId \in Co /\ InIo(x.coId)
  <2>1. PICK c \in Co : Timed(c) /\ x = Deadline(c)
    BY DEF LoopInv, TimeoutInv
  <2>2. x.coId = c
    BY <2>1 DEF Deadline
  <2> QED  BY <2>1, <2>2 DEF Timed
<1>4. SlotsInv' /\ TimeoutInv'
  BY <1>1, SlotsKept, TimeoutKept DEF LoopInv, fdVars
<1>5. BlockedInv' /\ ConditionInv'
  BY <1>1, <1>2, <1>3, ResumeFromIo DEF LoopInv, condVars, listVars
<1> QED  BY <1>4, <1>5

\* RunWaitResumeCo takes the first coroutine off the list.
LEMMA RunWaitResumeCoInv ==
  ASSUME LoopInv, RunWaitResumeCo
  PROVE  BlockedInv' /\ SlotsInv' /\ TimeoutInv' /\ ConditionInv'
<1> DEFINE L == m_waitResumeList
           c == Head(L)
<1>1. UNCHANGED <<condVars, timeVars, fdVars, kernVars, wait, aborted>>
  BY DEF RunWaitResumeCo
<1>2. SlotsInv' /\ TimeoutInv'
  BY <1>1, SlotsKept, TimeoutKept DEF LoopInv, fdVars
<1>3. CASE L = <<>>
  <2>1. UNCHANGED <<schedVars, m_waitResumeList>>
    BY <1>3 DEF RunWaitResumeCo
  <2> QED  BY <1>1, <1>2, <2>1, BlockedKept, ConditionKept DEF LoopInv, schedVars, condVars
<1>4. CASE L # <<>>
  <2>1. coroutine_resume(c) /\ m_waitResumeList' = Tail(L)
    BY <1>4 DEF RunWaitResumeCo
  <2>2. /\ Len(L) \in Nat \ {0} /\ DOMAIN L = 1 .. Len(L) /\ L[1] = c /\ c \in Co
        /\ DOMAIN m_waitResumeList' = 1 .. Len(L) - 1
        /\ \A i \in 1 .. Len(L) - 1 : m_waitResumeList'[i] = L[i + 1]
    <3>1. L \in Seq(Co)
      BY DEF LoopInv, TypeOK
    <3> QED  BY <1>4, <2>1, <3>1
  <2>3. Listed(c) /\ InCond(c) /\ status[c] = COROUTINE_SUSPEND
    BY <2>2 DEF LoopInv, ConditionInv, Listed
  <2>4. /\ BlockedInv'
        /\ status'[c] = COROUTINE_RUNNING
        /\ \A d \in Co \ {c} : status'[d] = status[d]
    <3> HIDE DEF c
    <3> QED  BY <1>1, <2>1, <2>2, <2>3, ResumeBlocked DEF LoopInv
  <2>5. \A i, j \in 1 .. Len(L) : L[i] = L[j] => i = j
    BY <2>2 DEF LoopInv, ConditionInv
  <2> HIDE DEF L, c
  <2>6. \A d \in Co : Listed(d)' <=> Listed(d) /\ d # c
    <3> SUFFICES ASSUME NEW d \in Co PROVE Listed(d)' <=> Listed(d) /\ d # c
      OBVIOUS
    <3>1. ASSUME Listed(d)' PROVE Listed(d) /\ d # c
      <4>1. PICK i \in 1 .. Len(L) - 1 : L[i + 1] = d
        BY <3>1, <2>2 DEF Listed
      <4>2. i + 1 \in 1 .. Len(L) /\ 1 \in 1 .. Len(L) /\ i + 1 # 1
        BY <2>2
      <4> QED  BY <4>1, <4>2, <2>2, <2>5 DEF Listed, L
    <3>2. ASSUME Listed(d), d # c PROVE Listed(d)'
      <4>1. PICK i \in 1 .. Len(L) : L[i] = d
        BY <3>2, <2>2 DEF Listed, L
      <4>2. i # 1
        BY <3>2, <4>1, <2>2
      <4>3. i - 1 \in 1 .. Len(L) - 1 /\ (i - 1) + 1 = i
        BY <4>1, <4>2, <2>2
      <4>4. m_waitResumeList'[i - 1] = d
        BY <4>1, <4>3, <2>2
      <4> QED  BY <4>3, <4>4, <2>2 DEF Listed
    <3> QED  BY <3>1, <3>2
  <2>7. \A i, j \in DOMAIN m_waitResumeList' :
          m_waitResumeList'[i] = m_waitResumeList'[j] => i = j
    <3> SUFFICES ASSUME NEW i \in 1 .. Len(L) - 1, NEW j \in 1 .. Len(L) - 1,
                        L[i + 1] = L[j + 1]
                 PROVE  i = j
      BY <2>2
    <3>1. i + 1 \in 1 .. Len(L) /\ j + 1 \in 1 .. Len(L)
      BY <2>2
    <3>2. i + 1 = j + 1
      BY <3>1, <2>5
    <3> QED  BY <3>2, <2>2
  <2>8. UNCHANGED m_conditionMap /\ \A d \in Co : InCond(d)' <=> InCond(d)
    BY <1>1 DEF condVars, InCond
  <2>9. ASSUME NEW d \in Co, NEW k \in DOMAIN m_conditionMap'
        PROVE  d \in m_conditionMap'[k] <=>
                 /\ InCond(d)' /\ Key(wait'[d].condition) = k /\ status'[d] = COROUTINE_SUSPEND
                 /\ ~Listed(d)'
    <3>1. CASE d = c
      BY <3>1, <2>3, <2>4, <2>8 DEF LoopInv, ConditionInv
    <3>2. CASE d # c
      BY <3>2, <1>1, <2>4, <2>6, <2>8 DEF LoopInv, ConditionInv
    <3> QED  BY <3>1, <3>2
  <2>10. \A d \in Co : Listed(d)' => InCond(d)' /\ status'[d] = COROUTINE_SUSPEND
    BY <2>4, <2>6, <2>8 DEF LoopInv, ConditionInv
  <2>11. ConditionInv'
    BY <2>7, <2>9, <2>10 DEF ConditionInv
  <2> QED  BY <1>2, <2>4, <2>11
<1> QED  BY <1>3, <1>4

\* A coroutine that starts, or whose function returns, is in no call.
LEMMA StartKeepsInv ==
  ASSUME LoopInv, NEW c \in Co, running = NoCo, StartCoroutine(c),
         UNCHANGED <<wait, m_conditionMap, m_waitResumeList>>
  PROVE  BlockedInv' /\ ConditionInv'
<1>1. /\ status[c] = COROUTINE_DEAD /\ status'[c] = COROUTINE_RUNNING
      /\ \A d \in Co \ {c} : status'[d] = status[d]
      /\ running' = c
  BY DEF StartCoroutine, LoopInv, TypeOK, SchedTypeOK
<1>2. \A d \in Co : d # NoCo
  OBVIOUS
<1>3. OnlyRunningRuns'
  BY <1>1, <1>2 DEF LoopInv, BlockedInv, OnlyRunningRuns
<1>4. wait[c] = NoWait /\ ~InCond(c)
  BY <1>1 DEF LoopInv, BlockedInv, InCond, NoWait
<1>5. BlockedInv'
  BY <1>1, <1>3, <1>4 DEF LoopInv, BlockedInv
<1>6. ConditionInv'
  BY <1>1, <1>4 DEF LoopInv, ConditionInv, Listed, InCond
<1> QED  BY <1>5, <1>6

LEMMA ReturnInv ==
  ASSUME LoopInv, NEW c \in Co, Return(c)
  PROVE  BlockedInv' /\ SlotsInv' /\ TimeoutInv' /\ ConditionInv'
<1>1. /\ status[c] = COROUTINE_RUNNING /\ status'[c] = COROUTINE_DEAD
      /\ \A d \in Co \ {c} : status'[d] = status[d]
      /\ running = c /\ running' = NoCo /\ wait[c] = NoWait
  BY DEF Return, Running, mainfunc_return, LoopInv, TypeOK, SchedTypeOK, BlockedInv,
         OnlyRunningRuns
<1>2. \A d \in Co : d # NoCo
  OBVIOUS
<1>3. OnlyRunningRuns'
  BY <1>1, <1>2 DEF LoopInv, BlockedInv, OnlyRunningRuns
<1>4. UNCHANGED <<listVars, condVars, timeVars, fdVars, kernVars, wait, aborted>>
  BY DEF Return
<1>5. BlockedInv'
  BY <1>1, <1>3, <1>4 DEF LoopInv, BlockedInv
<1>6. ConditionInv'
  BY <1>1, <1>4 DEF LoopInv, ConditionInv, Listed, InCond, NoWait, listVars, condVars
<1>7. SlotsInv' /\ TimeoutInv'
  BY <1>4, SlotsKept, TimeoutKept DEF LoopInv, fdVars
<1> QED  BY <1>5, <1>6, <1>7

LEMMA StartsInv ==
  ASSUME LoopInv, RunNewCoFunc \/ \E c \in Co : NewCoroutineInMain(c)
  PROVE  BlockedInv' /\ SlotsInv' /\ TimeoutInv' /\ ConditionInv'
<1>1. /\ running = NoCo
      /\ UNCHANGED <<m_waitResumeList, condVars, timeVars, fdVars, kernVars, wait, aborted>>
  BY DEF RunNewCoFunc, NewCoroutineInMain, Loop, listVars
<1>2. UNCHANGED schedVars \/ \E c \in Co : StartCoroutine(c)
  BY DEF RunNewCoFunc, NewCoroutineInMain
<1>3. SlotsInv' /\ TimeoutInv'
  BY <1>1, SlotsKept, TimeoutKept DEF LoopInv, fdVars
<1>4. CASE UNCHANGED schedVars
  BY <1>1, <1>3, <1>4, BlockedKept, ConditionKept DEF LoopInv, schedVars, condVars
<1>5. CASE \E c \in Co : StartCoroutine(c)
  BY <1>1, <1>3, <1>5, StartKeepsInv DEF condVars
<1> QED  BY <1>2, <1>4, <1>5

\* A descriptor that nobody waits for is closed, or one is opened.
LEMMA CloseOpenWatch ==
  ASSUME WatchedInv, Disciplined \/ Orderly, NEW c \in Co, NEW fd \in Fd,
         Close(c, fd) \/ Open(c, fd)
  PROVE  WatchInv' /\ NoAbort'
<1>0. TypeOK /\ WatchInv
  BY DEF WatchedInv, LoopInv
<1>2. Close(c, fd) => GetEvents(fd) = {}
  <2> SUFFICES ASSUME Close(c, fd) PROVE GetEvents(fd) = {}
    OBVIOUS
  <2>1. open[fd] /\ ~open'[fd]
    BY <1>0 DEF Close, TypeOK
  <2> QED  BY <2>1 DEF Close, Disciplined, Orderly
<1>1. UNCHANGED <<wait, aborted, m_coIdMap>>
  BY DEF Close, Open, fdVars
<1>3. \A f \in Fd : GetEvents(f)' = GetEvents(f)
  BY <1>1 DEF GetEvents, HasCoroutine
<1>4. \A f \in Fd : interest'[f] = GetEvents(f)
  <2>1. CASE Close(c, fd)
    BY <1>0, <1>2, <2>1 DEF Close, WatchInv, TypeOK
  <2>2. CASE Open(c, fd)
    BY <1>0, <2>2 DEF Open, fdVars, WatchInv
  <2> QED  BY <2>1, <2>2
<1>5. ASSUME NEW d \in Co, InIo(d)
      PROVE  open'[wait[d].fd] /\ Slot(d) = d
  <2>1. wait[d].fd \in Fd /\ EventOf(wait[d].op) \in Event /\ Slot(d) = d /\ open[wait[d].fd]
    BY <1>0, <1>5, IoWaitFields DEF WatchInv
  <2>2. GetEvents(wait[d].fd) # {}
    BY <2>1 DEF Slot, GetEvents, HasCoroutine
  <2>3. CASE Close(c, fd)
    BY <1>0, <1>2, <2>1, <2>2, <2>3 DEF Close, TypeOK
  <2>4. CASE Open(c, fd)
    BY <1>0, <2>1, <2>4 DEF Open, TypeOK
  <2> QED  BY <2>1, <2>3, <2>4
<1>6. \A d \in Co : InIo(d)' => open'[wait'[d].fd] /\ Slot(d)' = d
  BY <1>1, <1>5 DEF InIo, Slot
<1>7. SlotsInv'
  BY <1>0, <1>1, SlotsKept DEF WatchInv
<1>8. \A f \in Fd : interest'[f] = GetEvents(f)'
  BY <1>3, <1>4
<1> QED  BY <1>1, <1>6, <1>7, <1>8 DEF WatchInv, WatchedInv, NoAbort

----------------------------------------------------------------------------
(* The invariant.                                                          *)

LEMMA InitLoopInv == Init => LoopInv /\ WatchedInv
<1> SUFFICES ASSUME Init PROVE LoopInv /\ WatchedInv
  OBVIOUS
<1>1. TypeOK /\ HandlerInv
  BY InitType DEF HandlerInv, Init
<1>2. \A c \in Co : wait[c] = NoWait /\ ~InIo(c) /\ ~InCond(c) /\ ~Timed(c) /\ c # NoCo
  <2>1. \A c \in Co : wait[c] = NoWait
    BY DEF Init
  <2>2. \A c \in Co : wait[c].op = "none"
    <3>1. NoWait.op = "none"
      BY DEF NoWait
    <3> QED  BY <2>1, <3>1
  <2>3. \A c \in Co : c # NoCo
    BY CoAssumption
  <2> QED  BY <2>1, <2>2, <2>3 DEF InIo, InCond, Timed, Op
<1>3. BlockedInv
  BY <1>2 DEF BlockedInv, OnlyRunningRuns, Init, SchedInit
<1>4. SlotsInv /\ WatchInv
  BY <1>2 DEF SlotsInv, WatchInv, Init, HasCoroutine, GetEvents
<1>5. TimeoutInv
  <2>1. {c \in Co : Timed(c)} = {}
    BY <1>2
  <2>2. m_timeoutSet = {} /\ DOMAIN m_timeoutPtrMap = {}
    BY DEF Init
  <2> QED  BY <2>1, <2>2 DEF TimeoutInv
<1>6. ConditionInv
  BY <1>2 DEF ConditionInv, Listed, Init
<1> QED  BY <1>1, <1>3, <1>4, <1>5, <1>6 DEF LoopInv, WatchedInv, NoAbort, Init

\* Steps that touch none of the structures.
LEMMA QuietInv ==
  ASSUME LoopInv,
         UNCHANGED <<schedVars, m_waitResumeList, m_conditionMap, timeVars, m_coIdMap, wait>>
  PROVE  BlockedInv' /\ SlotsInv' /\ TimeoutInv' /\ ConditionInv'
BY BlockedKept, SlotsKept, TimeoutKept, ConditionKept DEF LoopInv, schedVars

LEMMA NextLoopInv == LoopInv /\ [Next]_vars => LoopInv'
<1> SUFFICES ASSUME LoopInv, [Next]_vars PROVE LoopInv'
  OBVIOUS
<1> DEFINE Parts == BlockedInv /\ SlotsInv /\ TimeoutInv /\ ConditionInv
           Quiet == UNCHANGED <<schedVars, m_waitResumeList, m_conditionMap, timeVars, m_coIdMap,
                                wait>>
<1>1. TypeOK' /\ HandlerInv'
  BY TypePreserved, HandlerPreserved DEF LoopInv
<1>2. CASE CoroutineStep
  <2>1. ASSUME NEW c \in Co, NEW fd \in Fd, Close(c, fd) \/ Open(c, fd) PROVE Parts'
    <3>1. Quiet
      BY <2>1 DEF Close, Open, listVars, condVars, fdVars
    <3> QED  BY <3>1, QuietInv
  <2>2. ASSUME NEW c \in Co, NEW fd \in Fd, NEW op \in Ops[fd], CallAtOnce(c, op, fd)
        PROVE  Parts'
    <3>1. Quiet
      BY <2>2 DEF CallAtOnce, listVars, condVars, fdVars
    <3> QED  BY <3>1, QuietInv
  <2>3. ASSUME NEW c \in Co, NEW fd \in Fd, NEW op \in Ops[fd], CallIsDuplicate(c, op, fd)
        PROVE  Parts'
    BY <2>3, DuplicateInv
  <2>4. ASSUME NEW c \in Co, GetCondition(c) \/ NewCoroutine(c) PROVE Parts'
    <3>1. Quiet
      BY <2>4 DEF GetCondition, NewCoroutine, listVars, condVars, fdVars
    <3> QED  BY <3>1, QuietInv
  <2>5. ASSUME NEW c \in Co, NEW condition \in Conditions, ConditionNotify(c, condition)
        PROVE  Parts'
    BY <2>5, NotifyInv
  <2>6. Parts'
    <3> HIDE DEF Parts, Quiet
    <3> QED  BY <1>2, <2>1, <2>2, <2>3, <2>4, <2>5 DEF CoroutineStep
  <2> QED  BY <1>1, <2>6 DEF LoopInv
<1>3. CASE CoroutineResumes
  BY <1>1, <1>3, CallResumesInv, WaitResumesInv DEF CoroutineResumes, LoopInv
<1>4. CASE CoroutineLeaves
  <2>1. ASSUME NEW c \in Co, NEW fd \in Fd, NEW op \in Ops[fd], NEW ms \in Timeouts,
               CallBlocks(c, op, fd, ms)
        PROVE  Parts'
    BY <2>1, CallBlocksInv
  <2>2. ASSUME NEW c \in Co, NEW condition \in Conditions, ConditionWait(c, condition)
        PROVE  Parts'
    BY <2>2, ConditionWaitInv
  <2>3. ASSUME NEW c \in Co, Return(c) PROVE Parts'
    BY <2>3, ReturnInv
  <2>4. Parts'
    <3> HIDE DEF Parts
    <3> QED  BY <1>4, <2>1, <2>2, <2>3 DEF CoroutineLeaves
  <2> QED  BY <1>1, <2>4 DEF LoopInv
<1>5. CASE LoopStep
  <2>1. CASE Run \/ PollEvents \/ PollTimesOut \/ RunTimeoutCoBegin \/ RunTimeoutCoEnd
    <3>1. Quiet
      BY <2>1 DEF Run, PollEvents, PollTimesOut, RunTimeoutCoBegin, RunTimeoutCoEnd, listVars,
                  condVars, fdVars
    <3> QED  BY <1>1, <3>1, QuietInv DEF LoopInv
  <2>2. CASE RunNewCoFunc
    BY <1>1, <2>2, StartsInv DEF LoopInv
  <2>3. CASE RunWaitResumeCo
    BY <1>1, <2>3, RunWaitResumeCoInv DEF LoopInv
  <2>4. CASE EventHandlerIn \/ EventHandlerOut
    BY <1>1, <2>4, HandlerKeepsInv DEF LoopInv
  <2>5. CASE RunTimeoutCo
    BY <1>1, <2>5, RunTimeoutCoInv DEF LoopInv
  <2> QED  BY <1>5, <2>1, <2>2, <2>3, <2>4, <2>5 DEF LoopStep
<1>6. CASE Environment
  <2>1. CASE \E c \in Co : NewCoroutineInMain(c)
    BY <1>1, <2>1, StartsInv DEF LoopInv
  <2>2. CASE \/ PollInterrupted \/ Tick \/ \E fd \in Fd : TakenByOther(fd)
             \/ \E fd \in Fd : \E e \in Event \cup {EPOLLERR} : BecomesReady(fd, e)
    <3>1. Quiet
      BY <2>2 DEF PollInterrupted, Tick, TakenByOther, BecomesReady, listVars, condVars, fdVars
    <3> QED  BY <1>1, <3>1, QuietInv DEF LoopInv
  <2> QED  BY <1>6, <2>1, <2>2 DEF Environment
<1>7. CASE UNCHANGED vars
  <2>1. Quiet
    BY <1>7 DEF vars, listVars, condVars, fdVars
  <2> QED  BY <1>1, <2>1, QuietInv DEF LoopInv
<1> QED  BY <1>2, <1>3, <1>4, <1>5, <1>6, <1>7 DEF Next

\* A second coroutine that blocks on an event takes the slot of the first.
LEMMA DuplicateIsDisorderly ==
  ASSUME LoopInv, NEW c \in Co, NEW fd \in Fd, NEW op \in Ops[fd], CallIsDuplicate(c, op, fd)
  PROVE  ~Disciplined /\ ~Orderly
<1>1. PICK e \in Event : e = EventOf(op)
  BY DEF EventOf, Event
<1>2. HasCoroutine(fd, e) /\ running = c /\ wait[c] = NoWait /\ DeleteEvent(fd, e)
  BY <1>1 DEF CallIsDuplicate, Running
<1>3. m_coIdMap[fd][e] # c
  BY <1>2 DEF LoopInv, SlotsInv, InIo, NoWait, Op
<1>4. m_coIdMap'[fd][e] = NoCo
  BY <1>2, DeleteEventSlot DEF LoopInv
<1> QED  BY <1>2, <1>3, <1>4 DEF CallIsDuplicate, Disciplined, Orderly

\* Only a blocking call, its end and a close can upset the watchers.
LEMMA NextWatchedInv == (Disciplined \/ Orderly) /\ WatchedInv /\ [Next]_vars => WatchedInv'
<1> SUFFICES ASSUME Disciplined \/ Orderly, WatchedInv, [Next]_vars PROVE WatchInv' /\ NoAbort'
  BY NextLoopInv DEF WatchedInv
<1> DEFINE Parts == WatchInv /\ NoAbort
           Still == UNCHANGED <<m_coIdMap, interest, open, wait, aborted>>
<1>1. ASSUME Still PROVE Parts'
  BY <1>1, WatchKept DEF WatchedInv, NoAbort
<1>2. CASE CoroutineStep
  <2>1. ASSUME NEW c \in Co, NEW fd \in Fd, Close(c, fd) \/ Open(c, fd) PROVE Parts'
    BY <2>1, CloseOpenWatch
  <2>2. ASSUME NEW c \in Co, NEW fd \in Fd, NEW op \in Ops[fd],
               CallAtOnce(c, op, fd) \/ CallIsDuplicate(c, op, fd)
        PROVE  Still
    BY <2>2, DuplicateIsDisorderly DEF CallAtOnce, fdVars, WatchedInv
  <2>3. ASSUME NEW c \in Co, \/ GetCondition(c) \/ NewCoroutine(c)
                             \/ \E condition \in Conditions : ConditionNotify(c, condition)
        PROVE  Still
    BY <2>3 DEF GetCondition, NewCoroutine, ConditionNotify, fdVars, kernVars
  <2>4. Parts'
    <3> HIDE DEF Parts, Still
    <3> QED  BY <1>1, <1>2, <2>1, <2>2, <2>3 DEF CoroutineStep
  <2> QED  BY <2>4
<1>3. CASE CoroutineResumes
  BY <1>3, CallResumesWatch, ConditionWatch DEF CoroutineResumes
<1>4. CASE CoroutineLeaves
  <2>1. ASSUME NEW c \in Co, NEW fd \in Fd, NEW op \in Ops[fd], NEW ms \in Timeouts,
               CallBlocks(c, op, fd, ms)
        PROVE  Parts'
    BY <2>1, CallBlocksWatch
  <2>2. ASSUME NEW c \in Co, \E condition \in Conditions : ConditionWait(c, condition)
        PROVE  Parts'
    BY <2>2, ConditionWatch
  <2>3. ASSUME NEW c \in Co, Return(c) PROVE Still
    BY <2>3 DEF Return, fdVars, kernVars
  <2>4. Parts'
    <3> HIDE DEF Parts, Still
    <3> QED  BY <1>1, <1>4, <2>1, <2>2, <2>3 DEF CoroutineLeaves
  <2> QED  BY <2>4
<1>5. CASE LoopStep
  <2>1. Still
    BY <1>5 DEF LoopStep, Run, RunNewCoFunc, RunWaitResumeCo, PollEvents, PollTimesOut,
                EventHandlerIn, EventHandlerOut, RunTimeoutCoBegin, RunTimeoutCo, RunTimeoutCoEnd,
                fdVars, kernVars
  <2> QED  BY <1>1, <2>1
<1>6. CASE Environment
  <2>1. Still
    BY <1>6 DEF Environment, NewCoroutineInMain, PollInterrupted, BecomesReady, TakenByOther,
                Tick, fdVars, kernVars
  <2> QED  BY <1>1, <2>1
<1>7. CASE UNCHANGED vars
  BY <1>1, <1>7 DEF vars, fdVars, kernVars
<1> QED  BY <1>2, <1>3, <1>4, <1>5, <1>6, <1>7 DEF Next

\* The whole invariant, for every size of the system and every use of it.
THEOREM LoopInvariance == Spec => []LoopInv
<1>1. Init => LoopInv
  BY InitLoopInv
<1> QED  BY <1>1, NextLoopInv, PTL DEF Spec

\* The part about descriptors, if the rules of use are kept.
THEOREM WatchInvariance == Disciplined => (Spec => []WatchedInv)
<1> SUFFICES ASSUME Disciplined PROVE Spec => []WatchedInv
  OBVIOUS
<1>1. WatchedInv /\ [Next]_vars => WatchedInv'
  BY NextWatchedInv
<1>2. Init => WatchedInv
  BY InitLoopInv
<1> QED  BY <1>1, <1>2, PTL DEF Spec

\* m_coIdMap, the epoll set and the blocked coroutines agree, for any number
\* of coroutines and descriptors.
THEOREM WatchCorrect == Disciplined => (Spec => []WatchInv)
<1>1. WatchedInv => WatchInv
  BY DEF WatchedInv
<1> QED  BY <1>1, WatchInvariance, PTL

\* The timeout set holds the deadlines of the blocked timed calls, exactly,
\* whatever coroutines do to each other's descriptors.
THEOREM TimeoutCorrect == Spec => []TimeoutInv
<1>1. LoopInv => TimeoutInv
  BY DEF LoopInv
<1> QED  BY <1>1, LoopInvariance, PTL

\* No notification is lost or duplicated, for any number of conditions and
\* map keys (also when conditions share a key).
THEOREM ConditionCorrect == Spec => []ConditionInv
<1>1. LoopInv => ConditionInv
  BY DEF LoopInv
<1> QED  BY <1>1, LoopInvariance, PTL

\* Neither AddEventAndYield nor DeleteEvent reaches its abort().
THEOREM AbortFree == Disciplined => (Spec => []NoAbort)
<1>1. WatchedInv => NoAbort
  BY DEF WatchedInv
<1> QED  BY <1>1, WatchInvariance, PTL

\* Every id the loop holds is the id of a suspended coroutine, even if
\* coroutines take each other's slots or close each other's descriptors.
THEOREM ResumesCorrect == Spec => []ResumesSuspended
<1>1. LoopInv => ResumesSuspended
  <2> SUFFICES ASSUME LoopInv, running = NoCo
               PROVE  /\ \A i \in DOMAIN m_waitResumeList :
                           status[m_waitResumeList[i]] = COROUTINE_SUSPEND
                      /\ \A x \in m_timeoutSet : status[x.coId] = COROUTINE_SUSPEND
                      /\ \A fd \in Fd : \A e \in GetEvents(fd) :
                           status[m_coIdMap[fd][e]] = COROUTINE_SUSPEND
    BY DEF ResumesSuspended
  <2>1. \A c \in Co : InIo(c) => status[c] = COROUTINE_SUSPEND
    <3> SUFFICES ASSUME NEW c \in Co, InIo(c) PROVE status[c] = COROUTINE_SUSPEND
      OBVIOUS
    <3>1. wait[c] # NoWait /\ c # NoCo
      BY DEF InIo, NoWait, Op
    <3> QED  BY <3>1 DEF LoopInv, BlockedInv, OnlyRunningRuns
  <2>2. ASSUME NEW i \in DOMAIN m_waitResumeList
        PROVE  status[m_waitResumeList[i]] = COROUTINE_SUSPEND
    <3>1. m_waitResumeList \in Seq(Co)
      BY DEF LoopInv, TypeOK
    <3>2. m_waitResumeList[i] \in Co
      BY <3>1, LenProperties, ElementOfSeq
    <3>3. Listed(m_waitResumeList[i])
      BY DEF Listed
    <3> QED  BY <3>2, <3>3 DEF LoopInv, ConditionInv
  <2>3. ASSUME NEW x \in m_timeoutSet
        PROVE  status[x.coId] = COROUTINE_SUSPEND
    <3>1. PICK c \in Co : Timed(c) /\ x = Deadline(c)
      BY DEF LoopInv, TimeoutInv
    <3>2. x.coId = c /\ InIo(c)
      BY <3>1 DEF Deadline, Timed
    <3> QED  BY <2>1, <3>2
  <2>4. ASSUME NEW fd \in Fd, NEW e \in GetEvents(fd)
        PROVE  status[m_coIdMap[fd][e]] = COROUTINE_SUSPEND
    <3>1. e \in Event /\ HasCoroutine(fd, e)
      BY DEF GetEvents
    <3>2. m_coIdMap[fd][e] \in Co /\ InIo(m_coIdMap[fd][e])
      BY <3>1 DEF LoopInv, SlotsInv
    <3> QED  BY <2>1, <3>2
  <2> QED  BY <2>2, <2>3, <2>4
<1> QED  BY <1>1, LoopInvariance, PTL

\* A coroutine enters and leaves calls only while it runs.
LEMMA OnlyRunningCalls ==
  ASSUME TypeOK, Next, NEW c \in Co, running # c
  PROVE  wait'[c] = wait[c]
<1>1. CASE CoroutineStep
  BY <1>1 DEF CoroutineStep, Close, Open, CallAtOnce, CallIsDuplicate, GetCondition,
              ConditionNotify, NewCoroutine
<1>2. CASE CoroutineResumes
  BY <1>2 DEF CoroutineResumes, CallResumes, WaitResumes, TypeOK
<1>3. CASE CoroutineLeaves
  <2>1. PICK d \in Co :
          /\ d = running
          /\ \/ UNCHANGED wait
             \/ \E w : wait' = [wait EXCEPT ![d] = w]
    BY <1>3 DEF CoroutineLeaves, CallBlocks, ConditionWait, Return, Running
  <2> QED  BY <2>1 DEF TypeOK
<1>4. CASE LoopStep
  BY <1>4 DEF LoopStep, Run, RunNewCoFunc, RunWaitResumeCo, PollEvents, PollTimesOut,
              EventHandlerIn, EventHandlerOut, RunTimeoutCoBegin, RunTimeoutCo,
              RunTimeoutCoEnd
<1>5. CASE Environment
  BY <1>5 DEF Environment, NewCoroutineInMain, PollInterrupted, BecomesReady,
              TakenByOther, Tick
<1> QED  BY <1>1, <1>2, <1>3, <1>4, <1>5 DEF Next

\* Only the coroutine itself gives up the slot it is blocked on.
THEOREM SlotCorrect == Disciplined => (Spec => SlotReleasedByOwner)
<1> SUFFICES ASSUME Disciplined PROVE Spec => SlotReleasedByOwner
  OBVIOUS
<1>1. WatchedInv /\ WatchedInv' /\ [Next]_vars =>
        [\A c \in Co : InIo(c) /\ Slot(c) = c /\ running # c => Slot(c)' = c]_vars
  <2> SUFFICES ASSUME WatchedInv, WatchedInv', Next, NEW c \in Co, InIo(c), running # c
               PROVE  Slot(c)' = c
    BY DEF vars
  <2>1. InIo(c)'
    <3>1. wait[c] # NoWait
      BY DEF InIo, NoWait, Op
    <3>2. wait'[c] = wait[c]
      BY OnlyRunningCalls DEF WatchedInv, LoopInv
    <3> QED  BY <3>2 DEF InIo
  <2> QED  BY <2>1 DEF WatchedInv, WatchInv
<1> QED  BY <1>1, WatchInvariance, PTL DEF Spec, SlotReleasedByOwner
=============================================================================
