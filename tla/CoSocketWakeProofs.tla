------------------------- MODULE CoSocketWakeProofs -------------------------
(***************************************************************************)
(* Why a coroutine is resumed.  What RunTimeoutCo resumes has missed its   *)
(* deadline, however the API is used.  What EventHandler resumes finds its *)
(* event pending, although other coroutines ran since epoll_wait reported  *)
(* it, if the rules of use are kept.                                       *)
(***************************************************************************)
EXTENDS CoSocketProofs

USE CoAssumption, SecondAssumption, CoSocketAssumption
USE DEF NoCo, COROUTINE_DEAD, COROUTINE_READY, COROUTINE_RUNNING, COROUTINE_SUSPEND

----------------------------------------------------------------------------
(* Timeouts.                                                               *)

\* m_handlingTimeout is set exactly while RunTimeoutCo runs, and the time that
\* RunTimeoutCo compares the deadlines with is one the clock has shown.
HandlingInv ==
  /\ m_handlingTimeout <=> phase = "RunTimeoutCo"
  /\ \E t \in 0 .. clock : now = TimestampAt(t)

\* A coroutine that RunTimeoutCo has resumed has missed its deadline.
ExpiredInv ==
  \A c \in Co :
    Woken(c) /\ m_handlingTimeout => Timed(c) /\ ~Before(now, Deadline(c).timestamp)

\* A time that is not before a deadline is at least the whole seconds of the
\* timeout later than the call, though AddMillisecond does not carry.
LEMMA WholeSeconds ==
  ASSUME NEW t \in Nat, NEW s \in Nat, NEW ms \in Nat,
         ~Before(TimestampAt(t), AddMillisecond(TimestampAt(s), ms))
  PROVE  t - s >= Second * (ms \div Second)
<1> DEFINE a == t \div Second   u == t % Second
           b == s \div Second   v == s % Second
           d == ms \div Second  w == ms % Second
<1>1. a \in Nat /\ b \in Nat /\ d \in Nat /\ u \in Nat /\ v \in Nat /\ w \in Nat
  BY SMT
<1>2. t = Second * a + u /\ s = Second * b + v /\ v < Second
  BY SMT
<1>3. ~(a < b + d) /\ ~(a = b + d /\ u < v + w)
  BY DEF Before, TimestampAt, AddMillisecond
<1> HIDE DEF a, b, d, u, v, w
<1>4. CASE a = b + d
  <2>1. u >= v
    BY <1>1, <1>3, <1>4
  <2>2. Second * a = Second * b + Second * d
    BY <1>1, <1>4
  <2>3. Second * a \in Nat /\ Second * b \in Nat /\ Second * d \in Nat
    BY <1>1
  <2>4. t - s >= Second * d
    BY <1>1, <1>2, <2>1, <2>2, <2>3
  <2> QED  BY <2>4 DEF d
<1>5. CASE a # b + d
  <2>1. PICK n \in Nat : a = b + d + 1 + n
    <3>1. a - (b + d + 1) \in Nat
      BY <1>1, <1>3, <1>5
    <3> QED  BY <3>1, <1>1
  <2>2. Second * a = Second * b + Second * d + Second + Second * n
    BY <1>1, <2>1
  <2>3. /\ Second * a \in Nat /\ Second * b \in Nat /\ Second * d \in Nat
        /\ Second * n \in Nat
    BY <1>1
  <2>4. t - s >= Second * d
    BY <1>1, <1>2, <2>2, <2>3
  <2> QED  BY <2>4 DEF d
<1> QED  BY <1>4, <1>5

LEMMA NextHandling == TypeOK /\ HandlingInv /\ [Next]_vars => HandlingInv'
<1> SUFFICES ASSUME TypeOK, HandlingInv, [Next]_vars PROVE HandlingInv'
  OBVIOUS
<1> DEFINE Flag == m_handlingTimeout <=> phase = "RunTimeoutCo"
           Shown == \E t \in 0 .. clock : now = TimestampAt(t)
<1>1. Flag /\ Shown /\ clock \in Nat /\ m_handlingTimeout \in BOOLEAN
  BY DEF HandlingInv, TypeOK
<1>2. ASSUME UNCHANGED <<now, clock>> PROVE Shown'
  BY <1>1, <1>2
<1>3. ASSUME UNCHANGED <<phase, m_handlingTimeout>> PROVE Flag'
  BY <1>1, <1>3
<1>4. CASE CoroutineStep \/ CoroutineResumes \/ CoroutineLeaves
  <2>1. UNCHANGED <<phase, m_handlingTimeout, now, clock>>
    BY <1>4 DEF CoroutineStep, Close, Open, CallAtOnce, CallIsDuplicate, GetCondition,
                ConditionNotify, NewCoroutine, CoroutineResumes, CallResumes, WaitResumes,
                CoroutineLeaves, CallBlocks, ConditionWait, Return, loopVars, kernVars
  <2> HIDE DEF Flag, Shown
  <2> QED  BY <2>1, <1>2, <1>3 DEF HandlingInv, Flag, Shown
<1>5. CASE LoopStep \/ PollInterrupted
  <2>1. CASE Run \/ RunNewCoFunc \/ RunWaitResumeCo \/ PollEvents \/ PollTimesOut
             \/ EventHandlerIn \/ EventHandlerOut \/ PollInterrupted
    <3>1. UNCHANGED <<m_handlingTimeout, now, clock>>
      BY <2>1 DEF Run, RunNewCoFunc, RunWaitResumeCo, PollEvents, PollTimesOut, EventHandlerIn,
                  EventHandlerOut, PollInterrupted, kernVars
    <3>2. phase # "RunTimeoutCo" /\ phase' # "RunTimeoutCo"
      BY <2>1 DEF Run, RunNewCoFunc, RunWaitResumeCo, PollEvents, PollTimesOut, EventHandlerIn,
                  EventHandlerOut, PollInterrupted, Loop
    <3> QED  BY <1>1, <1>2, <3>1, <3>2 DEF HandlingInv
  <2>2. CASE RunTimeoutCo
    BY <1>1, <2>2 DEF RunTimeoutCo, loopVars, kernVars, HandlingInv
  <2>3. CASE RunTimeoutCoBegin
    <3>1. now' = TimestampAt(clock) /\ clock' = clock /\ clock \in 0 .. clock
      BY <1>1, <2>3 DEF RunTimeoutCoBegin
    <3> QED  BY <2>3, <3>1 DEF RunTimeoutCoBegin, HandlingInv
  <2>4. CASE RunTimeoutCoEnd
    <3>1. now' = TimestampAt(0) /\ clock' = clock /\ 0 \in 0 .. clock
      BY <1>1, <2>4 DEF RunTimeoutCoEnd, kernVars
    <3> QED  BY <2>4, <3>1 DEF RunTimeoutCoEnd, HandlingInv
  <2> QED  BY <1>5, <2>1, <2>2, <2>3, <2>4 DEF LoopStep
<1>6. CASE Environment /\ ~PollInterrupted
  <2>1. UNCHANGED <<phase, m_handlingTimeout, now>> /\ (clock' = clock \/ clock' = clock + 1)
    BY <1>6 DEF Environment, NewCoroutineInMain, BecomesReady, TakenByOther, Tick, loopVars,
                kernVars
  <2>2. 0 .. clock \subseteq 0 .. clock'
    BY <1>1, <2>1
  <2> QED  BY <1>1, <2>1, <2>2 DEF HandlingInv
<1>7. CASE UNCHANGED vars
  BY <1>1, <1>7 DEF vars, loopVars, kernVars, HandlingInv
<1> QED  BY <1>4, <1>5, <1>6, <1>7 DEF Next

\* The steps that leave the running coroutine where it is.
LEMMA ExpiredKept ==
  ASSUME ExpiredInv, UNCHANGED <<running, wait, m_handlingTimeout, now>>
  PROVE  ExpiredInv'
BY DEF ExpiredInv, Woken, Timed, InIo, Deadline

LEMMA NextExpired == LoopInv /\ HandlingInv /\ ExpiredInv /\ [Next]_vars => ExpiredInv'
<1> SUFFICES ASSUME LoopInv, HandlingInv, ExpiredInv, [Next]_vars PROVE ExpiredInv'
  OBVIOUS
<1> DEFINE Still == UNCHANGED <<running, wait, m_handlingTimeout, now>>
<1>0. TypeOK /\ HandlingInv' /\ \A c \in Co : c # NoCo
  BY NextHandling DEF LoopInv
<1>1. ASSUME running' = NoCo PROVE ExpiredInv'
  BY <1>0, <1>1 DEF ExpiredInv, Woken
<1>2. ASSUME phase' # "RunTimeoutCo" PROVE ExpiredInv'
  BY <1>0, <1>2 DEF ExpiredInv, HandlingInv
<1>3. CASE CoroutineStep
  <2>1. Still
    BY <1>3 DEF CoroutineStep, Close, Open, CallAtOnce, CallIsDuplicate, GetCondition,
                ConditionNotify, NewCoroutine, loopVars, schedVars
  <2> QED  BY <2>1, ExpiredKept
<1>4. CASE CoroutineResumes
  <2>1. PICK c \in Co : running = c /\ running' = c /\ wait' = [wait EXCEPT ![c] = NoWait]
    BY <1>4 DEF CoroutineResumes, CallResumes, WaitResumes, schedVars
  <2>2. ~InIo(c)'
    BY <1>0, <2>1 DEF InIo, NoWait, Op, TypeOK
  <2> QED  BY <2>1, <2>2 DEF ExpiredInv, Woken
<1>5. CASE CoroutineLeaves
  <2>1. running' = NoCo
    BY <1>5 DEF CoroutineLeaves, CallBlocks, ConditionWait, Return, coroutine_yield,
                mainfunc_return
  <2> QED  BY <1>1, <2>1
<1>6. CASE LoopStep
  <2>1. CASE Run \/ RunNewCoFunc \/ RunWaitResumeCo \/ PollEvents \/ PollTimesOut
             \/ EventHandlerIn \/ EventHandlerOut \/ RunTimeoutCoEnd
    <3>1. phase' # "RunTimeoutCo"
      BY <2>1 DEF Run, RunNewCoFunc, RunWaitResumeCo, PollEvents, PollTimesOut, EventHandlerIn,
                  EventHandlerOut, RunTimeoutCoEnd, Loop
    <3> QED  BY <1>2, <3>1
  <2>2. CASE RunTimeoutCoBegin
    BY <1>1, <2>2 DEF RunTimeoutCoBegin, Loop, schedVars
  <2>3. CASE RunTimeoutCo
    <3>1. PICK x \in m_timeoutSet : IsExpired(x) /\ coroutine_resume(x.coId)
      BY <2>3 DEF RunTimeoutCo
    <3>2. PICK c \in Co : Timed(c) /\ x = Deadline(c)
      BY DEF LoopInv, TimeoutInv
    <3>3. x.coId = c /\ running = NoCo /\ (running' = c \/ running' = NoCo)
      BY <3>1, <3>2 DEF Deadline, coroutine_resume, schedVars
    <3>4. ~Before(now, Deadline(c).timestamp)
      BY <3>1, <3>2 DEF IsExpired
    <3>5. UNCHANGED <<wait, now>>
      BY <2>3 DEF RunTimeoutCo, loopVars
    <3>6. Timed(c)' /\ Deadline(c)' = Deadline(c)
      BY <3>2, <3>5 DEF Timed, InIo, Deadline
    <3> QED  BY <1>0, <3>3, <3>4, <3>5, <3>6 DEF ExpiredInv, Woken
  <2> QED  BY <1>6, <2>1, <2>2, <2>3 DEF LoopStep
<1>7. CASE Environment
  <2>1. CASE \E c \in Co : NewCoroutineInMain(c)
    <3>1. phase' # "RunTimeoutCo"
      BY <2>1 DEF NewCoroutineInMain, Loop, loopVars
    <3> QED  BY <1>2, <3>1
  <2>2. CASE PollInterrupted
    BY <1>1, <2>2 DEF PollInterrupted, Loop, schedVars
  <2>3. CASE \/ Tick \/ \E fd \in Fd : TakenByOther(fd)
             \/ \E fd \in Fd : \E e \in Event \cup {EPOLLERR} : BecomesReady(fd, e)
    <3>1. Still
      BY <2>3 DEF Tick, TakenByOther, BecomesReady, loopVars, schedVars
    <3> QED  BY <3>1, ExpiredKept
  <2> QED  BY <1>7, <2>1, <2>2, <2>3 DEF Environment
<1>8. CASE UNCHANGED vars
  BY <1>8, ExpiredKept DEF vars, loopVars, schedVars
<1> QED  BY <1>3, <1>4, <1>5, <1>6, <1>7, <1>8 DEF Next

LEMMA InitHandling == Init => HandlingInv /\ ExpiredInv
<1> SUFFICES ASSUME Init PROVE HandlingInv /\ ExpiredInv
  OBVIOUS
<1>1. 0 \in 0 .. clock
  BY DEF Init
<1> QED  BY <1>1 DEF Init, HandlingInv, ExpiredInv

\* A coroutine that RunTimeoutCo resumes is blocked in a call with a timeout, and
\* no more than the missing carry (less than a second) early: for any clock, any
\* timeouts, any number of coroutines, and however they use each other's
\* descriptors.
THEOREM WokenInTimeHolds == Spec => []WokenInTime
<1> DEFINE Inv == LoopInv /\ HandlingInv /\ ExpiredInv
<1>1. Init => Inv
  BY InitLoopInv, InitHandling
<1>2. Inv /\ [Next]_vars => Inv'
  BY NextLoopInv, NextHandling, NextExpired DEF LoopInv
<1>3. Inv => WokenInTime
  <2> SUFFICES ASSUME Inv, NEW c \in Co, Woken(c), m_handlingTimeout
               PROVE  /\ Timed(c)
                      /\ clock - wait[c].since >= Second * (wait[c].timeoutMs \div Second)
    BY DEF WokenInTime, TimeIsUp
  <2>1. Timed(c) /\ ~Before(now, Deadline(c).timestamp)
    BY DEF ExpiredInv
  <2>2. PICK t \in 0 .. clock : now = TimestampAt(t)
    BY DEF HandlingInv
  <2>3. clock \in Nat /\ t \in Nat /\ t <= clock
    BY <2>2 DEF LoopInv, TypeOK
  <2>4. /\ wait[c] \in IoWait /\ wait[c].timeoutMs \in Timeouts
    BY <2>1, IoWaitFields DEF LoopInv, Timed
  <2>5. wait[c].since \in Nat /\ wait[c].timeoutMs \in Nat
    <3>1. wait[c].since \in 0 .. MaxTime
      BY <2>4 DEF IoWait
    <3>2. wait[c].timeoutMs \in Int /\ wait[c].timeoutMs > 0
      BY <2>1, <2>4 DEF Timed
    <3> QED  BY <3>1, <3>2
  <2>6. t - wait[c].since >= Second * (wait[c].timeoutMs \div Second)
    <3>1. ~Before(TimestampAt(t), AddMillisecond(TimestampAt(wait[c].since), wait[c].timeoutMs))
      BY <2>1, <2>2 DEF Deadline
    <3> QED  BY <2>3, <2>5, <3>1, WholeSeconds
  <2>7. Second * (wait[c].timeoutMs \div Second) \in Int
    BY <2>5
  <2> QED  BY <2>1, <2>3, <2>5, <2>6, <2>7
<1> HIDE DEF Inv
<1> QED  BY <1>1, <1>2, <1>3, PTL DEF Spec

\* -ETIME comes only out of a call with a timeout whose time is up, if no two
\* coroutines block on the same event: a call that is refused as a duplicate
\* returns -ETIME whenever the loop is handling timeouts.  RunTimeoutCo leads the
\* way (WokenInTime); the rest is that the coroutines it resumes make other calls
\* while the flag is set, which return what the system call returned.
THEOREM TimeoutsGenuine == ~DuplicateUse => (Spec => TimeoutIsGenuine)
<1> SUFFICES ASSUME ~DuplicateUse PROVE Spec => TimeoutIsGenuine
  OBVIOUS
<1> DEFINE Genuine == \A c \in Co : ReturnsETIME(c) => TimeIsUp(c)
<1>1. WokenInTime => [Genuine]_vars
  <2> SUFFICES ASSUME WokenInTime, NEW c \in Co, ReturnsETIME(c) PROVE TimeIsUp(c)
    OBVIOUS
  <2>1. CallResumes(c) /\ m_handlingTimeout
    BY DEF ReturnsETIME, CallIsDuplicate
  <2>2. Woken(c)
    BY <2>1 DEF CallResumes, Woken
  <2> QED  BY <2>1, <2>2 DEF WokenInTime
<1>2. Spec => [][Genuine]_vars
  <2> HIDE DEF Genuine
  <2> QED  BY <1>1, WokenInTimeHolds, PTL
<1> QED  BY <1>2 DEF TimeoutIsGenuine

----------------------------------------------------------------------------
(* Events.                                                                 *)

\* The i-th entry of the batch reports event e of fd.
Reports(i, fd, e) == m_events[i].fd = fd /\ e \in m_events[i].events

\* EventHandler is past this event of the i-th descriptor of the batch.
Handled(i, e) == i = 1 /\ phase = "EventOut" /\ e = "EPOLLIN"

\* Event e of fd has a coroutine that is not the running one, and is pending
\* unless it is known to have been taken.
StillPending(fd, e) ==
  /\ HasCoroutine(fd, e) /\ m_coIdMap[fd][e] # running
  /\ e \in ready[fd] \/ fd \in SharedFd \/ <<fd, e>> \in stale

\* The error of fd is pending, or its number has been closed since.
StillInError(fd) == EPOLLERR \in ready[fd] \/ ~open[fd] \/ {fd} \X Event \subseteq stale

\* What epoll_wait reported is still true of the events not handled yet: each
\* belongs to a coroutine that is still blocked, and whoever else uses the event
\* up is remembered.
BatchInv ==
  /\ ~Handling => m_events = <<>>
  /\ \A i, j \in DOMAIN m_events : m_events[i].fd = m_events[j].fd => i = j
  /\ \A i \in DOMAIN m_events, fd \in Fd, e \in Event :
       Reports(i, fd, e) /\ ~Handled(i, e) => StillPending(fd, e)
  /\ \A i \in DOMAIN m_events, fd \in Fd :
       Reports(i, fd, EPOLLERR) => StillInError(fd)

LEMMA BatchType ==
  ASSUME TypeOK
  PROVE  /\ Len(m_events) \in Nat /\ DOMAIN m_events = 1 .. Len(m_events)
         /\ \A i \in DOMAIN m_events : m_events[i].fd \in Fd
<1>1. m_events \in Seq(EventRecord)
  BY DEF TypeOK, EventRecord
<1>2. \A i \in 1 .. Len(m_events) : m_events[i] \in EventRecord
  BY <1>1, ElementOfSeq
<1>3. Len(m_events) \in Nat /\ DOMAIN m_events = 1 .. Len(m_events)
  BY <1>1, LenProperties
<1> QED  BY <1>2, <1>3 DEF EventRecord

\* A step within a batch upholds it if every pending event stays pending.
LEMMA BatchKept ==
  ASSUME BatchInv, UNCHANGED <<m_events, phase>>,
         \A fd \in Fd, e \in Event : Handling /\ StillPending(fd, e) => StillPending(fd, e)',
         \A fd \in Fd : ErrorInBatch(fd) /\ StillInError(fd) => StillInError(fd)'
  PROVE  BatchInv'
<1>1. (~Handling' => m_events' = <<>>) /\ \A i \in DOMAIN m_events : Handling
  BY DEF BatchInv, Handling
<1>2. \A i, j \in DOMAIN m_events' : m_events'[i].fd = m_events'[j].fd => i = j
  BY DEF BatchInv
<1>3. ASSUME NEW i \in DOMAIN m_events, NEW fd \in Fd, NEW e
      PROVE  /\ Reports(i, fd, e)' <=> Reports(i, fd, e)
             /\ Handled(i, e)' <=> Handled(i, e)
  BY DEF Reports, Handled
<1>4. \A i \in DOMAIN m_events, fd \in Fd, e \in Event :
        Reports(i, fd, e)' /\ ~Handled(i, e)' => StillPending(fd, e)'
  BY <1>1, <1>3 DEF BatchInv
<1>5. \A i \in DOMAIN m_events, fd \in Fd :
        Reports(i, fd, EPOLLERR)' => StillInError(fd)'
  BY <1>3 DEF BatchInv, Reports, ErrorInBatch
<1> QED  BY <1>1, <1>2, <1>4, <1>5 DEF BatchInv

LEMMA NoBatch ==
  ASSUME m_events' = <<>>
  PROVE  BatchInv'
<1>1. DOMAIN m_events' = {}
  OBVIOUS
<1> QED  BY <1>1 DEF BatchInv

\* epoll_wait reports what is pending and asked for; each fd once.
LEMMA PollBatch ==
  ASSUME WatchedInv, PollEvents
  PROVE  BatchInv'
<1>0. TypeOK /\ WatchInv /\ running = NoCo
  BY DEF WatchedInv, LoopInv, PollEvents, Loop
<1>1. \E n : \E fds \in {s \in [1 .. n -> Reported] :
                           \A i, j \in 1 .. n : s[i] = s[j] => i = j} :
        m_events' = [i \in 1 .. n |-> [fd |-> fds[i], events |-> Pending(fds[i])]]
  BY Zenon DEF PollEvents
<1>2. PICK n, fds :
        /\ fds \in [1 .. n -> Reported]
        /\ \A i, j \in 1 .. n : fds[i] = fds[j] => i = j
        /\ m_events' = [i \in 1 .. n |-> [fd |-> fds[i], events |-> Pending(fds[i])]]
  BY <1>1
<1>3. /\ DOMAIN m_events' = 1 .. n
      /\ \A i \in 1 .. n : /\ m_events'[i].fd = fds[i] /\ fds[i] \in Fd
                           /\ m_events'[i].events = Pending(fds[i])
  BY <1>2 DEF Reported
<1>4. UNCHANGED <<m_coIdMap, ready, running>>
  BY DEF PollEvents, fdVars, kernVars, schedVars
<1>5. ASSUME NEW fd \in Fd, NEW e \in Event, e \in Pending(fd)
      PROVE  StillPending(fd, e)'
  <2>1. e \in ready[fd] /\ e \in interest[fd]
    BY <1>5 DEF Pending, EPOLLERR, Event
  <2>2. HasCoroutine(fd, e)
    BY <1>0, <2>1 DEF WatchInv, GetEvents
  <2> QED  BY <1>0, <1>4, <2>1, <2>2 DEF StillPending, HasCoroutine
<1>6. ASSUME NEW fd \in Fd, EPOLLERR \in Pending(fd)
      PROVE  StillInError(fd)'
  BY <1>4, <1>6 DEF Pending, StillInError
<1>7. Handling'
  BY DEF PollEvents, Handling
<1>8. \A i \in DOMAIN m_events', fd \in Fd, e \in Event : Reports(i, fd, e)' => StillPending(fd, e)'
  BY <1>3, <1>5 DEF Reports
<1>9. \A i \in DOMAIN m_events', fd \in Fd : Reports(i, fd, EPOLLERR)' => StillInError(fd)'
  BY <1>3, <1>6 DEF Reports
<1>10. \A i, j \in DOMAIN m_events' : m_events'[i].fd = m_events'[j].fd => i = j
  BY <1>2, <1>3
<1> QED  BY <1>7, <1>8, <1>9, <1>10 DEF BatchInv

\* Different slots have different owners.
LEMMA SlotsDiffer ==
  ASSUME SlotsInv, NEW fd \in Fd, NEW e \in Event, NEW f \in Fd, NEW g \in Event,
         HasCoroutine(fd, e), m_coIdMap[fd][e] = m_coIdMap[f][g]
  PROVE  fd = f /\ e = g
<1>1. HasCoroutine(f, g)
  BY DEF HasCoroutine
<1> QED  BY <1>1 DEF SlotsInv

\* Handing the control to the owner of one slot leaves the others pending.
LEMMA ResumeKeepsPending ==
  ASSUME LoopInv, NEW fd \in Fd, NEW e \in Event, StillPending(fd, e), running = NoCo,
         UNCHANGED <<m_coIdMap, ready, stale>>,
         \/ running' = NoCo
         \/ \E f \in Fd, g \in Event : /\ <<f, g>> # <<fd, e>>
                                       /\ running' = m_coIdMap[f][g]
  PROVE  StillPending(fd, e)'
<1>1. m_coIdMap[fd][e] # running'
  <2>1. CASE running' = NoCo
    BY <2>1 DEF StillPending, HasCoroutine
  <2>2. ASSUME NEW f \in Fd, NEW g \in Event, <<f, g>> # <<fd, e>>, running' = m_coIdMap[f][g]
        PROVE  m_coIdMap[fd][e] # running'
    BY <2>2, SlotsDiffer DEF StillPending, LoopInv
  <2> QED  BY <2>1, <2>2
<1> QED  BY <1>1 DEF StillPending, HasCoroutine

\* EventHandler resumes the reader of the first descriptor, and keeps the batch.
LEMMA HandlerInBatch ==
  ASSUME WatchedInv, BatchInv, EventHandlerIn, UNCHANGED m_events, phase' = "EventOut"
  PROVE  BatchInv'
<1>0. LoopInv /\ TypeOK /\ m_events # <<>> /\ running = NoCo /\ phase = "EventIn"
  BY DEF WatchedInv, LoopInv, EventHandlerIn, Loop
<1>1. /\ 1 \in DOMAIN m_events /\ \A i \in DOMAIN m_events : m_events[i].fd \in Fd
      /\ Head(m_events) = m_events[1]
  <2>1. m_events \in Seq(EventRecord)
    BY <1>0 DEF TypeOK, EventRecord
  <2> QED  BY <1>0, <2>1, BatchType, EmptySeq
<1>2. UNCHANGED <<m_coIdMap, ready, open, stale>>
  BY DEF EventHandlerIn, fdVars, kernVars
<1>3. running' = NoCo \/ running' = m_coIdMap[m_events[1].fd]["EPOLLIN"]
  BY <1>0, <1>1 DEF EventHandlerIn, coroutine_resume, schedVars
<1>4. ASSUME NEW i \in DOMAIN m_events, NEW fd \in Fd, NEW e \in Event, Reports(i, fd, e),
             ~Handled(i, e)'
      PROVE  StillPending(fd, e)'
  <2>1. StillPending(fd, e)
    BY <1>0, <1>4 DEF BatchInv, Handled
  <2>2. ~(i = 1 /\ e = "EPOLLIN") /\ "EPOLLIN" \in Event
    BY <1>4 DEF Handled, Event
  <2>3. <<m_events[1].fd, "EPOLLIN">> # <<fd, e>>
    BY <1>1, <1>4, <2>2 DEF BatchInv, Reports
  <2> QED  BY <1>0, <1>1, <1>2, <1>3, <2>1, <2>2, <2>3, ResumeKeepsPending
<1>5. \A fd \in Fd : StillInError(fd) => StillInError(fd)'
  BY <1>2 DEF StillInError
<1>6. \A i \in DOMAIN m_events, fd \in Fd, e \in Event \cup {EPOLLERR} :
        Reports(i, fd, e)' <=> Reports(i, fd, e)
  BY DEF Reports
<1>7. Handling' /\ \A i, j \in DOMAIN m_events' : m_events'[i].fd = m_events'[j].fd => i = j
  BY DEF BatchInv, Handling
<1>8. \A i \in DOMAIN m_events', fd \in Fd, e \in Event :
        Reports(i, fd, e)' /\ ~Handled(i, e)' => StillPending(fd, e)'
  BY <1>4, <1>6
<1>9. \A i \in DOMAIN m_events', fd \in Fd : Reports(i, fd, EPOLLERR)' => StillInError(fd)'
  BY <1>5, <1>6 DEF BatchInv
<1> QED  BY <1>7, <1>8, <1>9 DEF BatchInv

\* It is done with the first descriptor, and perhaps resumes its writer.
LEMMA HandlerOutBatch ==
  ASSUME WatchedInv, BatchInv, EventHandlerIn \/ EventHandlerOut,
         m_events' = Tail(m_events), phase' = "EventIn"
  PROVE  BatchInv'
<1>0. LoopInv /\ TypeOK /\ m_events # <<>> /\ running = NoCo
  BY DEF WatchedInv, LoopInv, HandlerInv, EventHandlerIn, EventHandlerOut, Loop
<1>1. /\ Len(m_events) \in Nat \ {0} /\ DOMAIN m_events = 1 .. Len(m_events)
      /\ \A i \in DOMAIN m_events : m_events[i].fd \in Fd
      /\ Head(m_events) = m_events[1]
      /\ DOMAIN m_events' = 1 .. Len(m_events) - 1
      /\ \A i \in 1 .. Len(m_events) - 1 : m_events'[i] = m_events[i + 1]
  <2>1. m_events \in Seq(EventRecord)
    BY <1>0 DEF TypeOK, EventRecord
  <2> QED  BY <1>0, <2>1, BatchType, EmptySeq
<1>2. UNCHANGED <<m_coIdMap, ready, open, stale>>
  BY DEF EventHandlerIn, EventHandlerOut, fdVars, kernVars
<1>3. running' = NoCo \/ running' = m_coIdMap[m_events[1].fd]["EPOLLOUT"]
  <2>1. CASE EventHandlerIn
    BY <1>0, <2>1 DEF EventHandlerIn, schedVars
  <2>2. CASE EventHandlerOut
    BY <1>0, <1>1, <2>2 DEF EventHandlerOut, coroutine_resume, schedVars
  <2> QED  BY <2>1, <2>2
<1>4. \A i \in DOMAIN m_events' :
        i \in Int /\ i + 1 \in DOMAIN m_events /\ i + 1 # 1 /\ 1 \in DOMAIN m_events
  BY <1>1
<1>5. \A i \in DOMAIN m_events', fd \in Fd, e \in Event \cup {EPOLLERR} :
        Reports(i, fd, e)' <=> Reports(i + 1, fd, e)
  BY <1>1 DEF Reports
<1>6. ASSUME NEW i \in DOMAIN m_events', NEW fd \in Fd, NEW e \in Event, Reports(i, fd, e)'
      PROVE  StillPending(fd, e)'
  <2>1. Reports(i + 1, fd, e) /\ ~Handled(i + 1, e)
    BY <1>4, <1>5, <1>6 DEF Handled
  <2>2. StillPending(fd, e)
    BY <1>4, <2>1 DEF BatchInv
  <2>3. m_events[1].fd # fd /\ "EPOLLOUT" \in Event
    BY <1>4, <2>1 DEF BatchInv, Reports, Event
  <2> QED  BY <1>0, <1>1, <1>2, <1>3, <1>4, <2>2, <2>3, ResumeKeepsPending
<1>7. \A i \in DOMAIN m_events', fd \in Fd : Reports(i, fd, EPOLLERR)' => StillInError(fd)'
  <2>1. \A fd \in Fd : StillInError(fd) => StillInError(fd)'
    BY <1>2 DEF StillInError
  <2> QED  BY <1>4, <1>5, <2>1 DEF BatchInv
<1>8. \A i, j \in DOMAIN m_events' : m_events'[i].fd = m_events'[j].fd => i = j
  <2> SUFFICES ASSUME NEW i \in DOMAIN m_events', NEW j \in DOMAIN m_events',
                      m_events'[i].fd = m_events'[j].fd
               PROVE  i = j
    OBVIOUS
  <2>1. i + 1 = j + 1
    BY <1>1, <1>4 DEF BatchInv
  <2> QED  BY <1>4, <2>1
<1>9. Handling'
  BY DEF Handling
<1> QED  BY <1>6, <1>7, <1>8, <1>9 DEF BatchInv

\* A system call that uses up one event leaves the others.
LEMMA ConsumeKeeps ==
  ASSUME TypeOK, NEW fd \in Fd, NEW e \in Event, UNCHANGED ready \/ MayConsume(fd, e),
         NEW f \in Fd, NEW g \in Event \cup {EPOLLERR}, <<f, g>> # <<fd, e>>, g \in ready[f]
  PROVE  g \in ready'[f]
<1>1. ready \in [Fd -> SUBSET (Event \cup {EPOLLERR})]
  BY DEF TypeOK
<1>2. CASE MayConsume(fd, e)
  <2>1. PICK left \in {ready[fd], ready[fd] \ {e}} : ready' = [ready EXCEPT ![fd] = left]
    BY <1>2 DEF MayConsume
  <2> QED  BY <1>1, <2>1
<1> QED  BY <1>2

\* A call that takes the event of another coroutine, which is blocked, while the
\* batch is handled is remembered.
LEMMA CallsBatch ==
  ASSUME Disciplined \/ Orderly, WatchedInv, BatchInv,
         NEW c \in Co, NEW fd \in Fd, NEW op \in Ops[fd],
         CallAtOnce(c, op, fd) \/ CallIsDuplicate(c, op, fd)
  PROVE  BatchInv'
<1>0. TypeOK /\ EventOf(op) \in Event /\ CallAtOnce(c, op, fd)
  BY DuplicateIsDisorderly DEF WatchedInv, LoopInv, EventOf, Event
<1>1. PICK ev \in Event : ev = EventOf(op)
  BY <1>0
<1>2. /\ UNCHANGED <<m_events, phase, m_coIdMap, running, open>>
      /\ UNCHANGED ready \/ MayConsume(fd, ev)
      /\ stale \subseteq stale'
      /\ Handling /\ HasCoroutine(fd, ev) => ev \in ready'[fd] \/ <<fd, ev>> \in stale'
  BY <1>0, <1>1 DEF CallAtOnce, loopVars, fdVars, schedVars
<1>3. ASSUME NEW f \in Fd, NEW g \in Event, Handling, StillPending(f, g) PROVE StillPending(f, g)'
  <2>1. g \in ready[f] => g \in ready'[f] \/ <<f, g>> \in stale'
    <3>1. CASE <<f, g>> = <<fd, ev>>
      BY <1>2, <1>3, <3>1 DEF StillPending
    <3>2. CASE <<f, g>> # <<fd, ev>>
      BY <1>0, <1>2, <3>2, ConsumeKeeps
    <3> QED  BY <3>1, <3>2
  <2> QED  BY <1>2, <1>3, <2>1 DEF StillPending, HasCoroutine
<1>4. ASSUME NEW f \in Fd, StillInError(f) PROVE StillInError(f)'
  <2>1. <<f, EPOLLERR>> # <<fd, ev>>
    BY DEF Event, EPOLLERR
  <2>2. EPOLLERR \in ready[f] => EPOLLERR \in ready'[f]
    BY <1>0, <1>2, <2>1, ConsumeKeeps
  <2>3. {f} \X Event \subseteq stale => {f} \X Event \subseteq stale'
    BY <1>2
  <2> QED  BY <1>2, <1>4, <2>2, <2>3 DEF StillInError
<1> QED  BY <1>2, <1>3, <1>4, BatchKept

LEMMA ResumesBatch ==
  ASSUME WatchedInv, BatchInv, NEW c \in Co, CallResumes(c)
  PROVE  BatchInv'
<1>0. TypeOK /\ WatchInv /\ InIo(c) /\ running = c
  BY DEF WatchedInv, LoopInv, CallResumes
<1>1. wait[c].fd \in Fd /\ EventOf(wait[c].op) \in Event
  BY <1>0, IoWaitFields
<1>2. PICK fd \in Fd, e \in Event : fd = wait[c].fd /\ e = EventOf(wait[c].op)
  BY <1>1
<1>3. /\ UNCHANGED <<m_events, phase, running, open, stale>>
      /\ UNCHANGED ready \/ MayConsume(fd, e)
      /\ DeleteEvent(fd, e)
  BY <1>2 DEF CallResumes, loopVars, schedVars
<1>4. \A f \in Fd, g \in Event : <<f, g>> # <<fd, e>> => m_coIdMap'[f][g] = m_coIdMap[f][g]
  BY <1>0, <1>3, DeleteEventSlot
<1>5. m_coIdMap[fd][e] = running
  BY <1>0, <1>2 DEF WatchInv, Slot
<1>6. ASSUME NEW f \in Fd, NEW g \in Event, StillPending(f, g) PROVE StillPending(f, g)'
  <2>1. <<f, g>> # <<fd, e>>
    BY <1>5, <1>6 DEF StillPending
  <2>2. g \in ready[f] => g \in ready'[f]
    BY <1>0, <1>3, <2>1, ConsumeKeeps
  <2> QED  BY <1>3, <1>4, <1>6, <2>1, <2>2 DEF StillPending, HasCoroutine
<1>7. ASSUME NEW f \in Fd, StillInError(f) PROVE StillInError(f)'
  <2>1. <<f, EPOLLERR>> # <<fd, e>>
    BY DEF Event, EPOLLERR
  <2>2. EPOLLERR \in ready[f] => EPOLLERR \in ready'[f]
    BY <1>0, <1>3, <2>1, ConsumeKeeps
  <2> QED  BY <1>3, <1>7, <2>2 DEF StillInError
<1> QED  BY <1>3, <1>6, <1>7, BatchKept

\* A coroutine takes a slot that was free, and no event with it.
LEMMA BlocksBatch ==
  ASSUME WatchedInv, BatchInv, NEW c \in Co, NEW fd \in Fd, NEW op \in Ops[fd],
         NEW ms \in Timeouts, CallBlocks(c, op, fd, ms)
  PROVE  BatchInv'
<1>0. TypeOK /\ EventOf(op) \in Event
  BY DEF WatchedInv, LoopInv, EventOf, Event
<1>1. PICK e \in Event : e = EventOf(op)
  BY <1>0
<1>2. /\ UNCHANGED <<m_events, phase, open, stale, ready>> /\ running' = NoCo
      /\ AddEvent(c, fd, e)
  BY <1>1 DEF CallBlocks, loopVars, kernVars, coroutine_yield
<1>3. /\ m_coIdMap[fd][e] = NoCo
      /\ \A f \in Fd, g \in Event : <<f, g>> # <<fd, e>> => m_coIdMap'[f][g] = m_coIdMap[f][g]
  BY <1>0, <1>2, AddEventSlot
<1>4. ASSUME NEW f \in Fd, NEW g \in Event, StillPending(f, g) PROVE StillPending(f, g)'
  BY <1>2, <1>3, <1>4 DEF StillPending, HasCoroutine
<1>5. \A f \in Fd : StillInError(f) => StillInError(f)'
  BY <1>2 DEF StillInError
<1> QED  BY <1>2, <1>4, <1>5, BatchKept

\* Nobody is to be resumed for a descriptor that may be closed; one that is
\* opened again is remembered.
LEMMA CloseOpenBatch ==
  ASSUME Disciplined \/ Orderly, WatchedInv, BatchInv, NEW c \in Co, NEW fd \in Fd,
         Close(c, fd) \/ Open(c, fd)
  PROVE  BatchInv'
<1>0. TypeOK
  BY DEF WatchedInv, LoopInv
<1>1. UNCHANGED <<m_events, phase, m_coIdMap, running>>
  BY DEF Close, Open, loopVars, fdVars, schedVars
<1>2. CASE Close(c, fd)
  <2>1. /\ \A g \in Event : ~HasCoroutine(fd, g)
        /\ ~open'[fd] /\ stale' = stale
        /\ \A f \in Fd \ {fd} : ready'[f] = ready[f] /\ open'[f] = open[f]
    BY <1>0, <1>2 DEF Close, Disciplined, Orderly, GetEvents, TypeOK
  <2>2. \A f \in Fd, g \in Event : StillPending(f, g) => StillPending(f, g)'
    BY <1>1, <2>1 DEF StillPending, HasCoroutine
  <2>3. \A f \in Fd : StillInError(f) => StillInError(f)'
    BY <2>1 DEF StillInError
  <2> QED  BY <1>1, <2>2, <2>3, BatchKept
<1>3. CASE Open(c, fd)
  <2>1. /\ ready' = ready
        /\ \A f \in Fd \ {fd} : open'[f] = open[f]
        /\ stale \subseteq stale' /\ (ErrorInBatch(fd) => {fd} \X Event \subseteq stale')
    BY <1>0, <1>3 DEF Open, TypeOK
  <2>2. \A f \in Fd, g \in Event : StillPending(f, g) => StillPending(f, g)'
    BY <1>1, <2>1 DEF StillPending, HasCoroutine
  <2>3. \A f \in Fd : ErrorInBatch(f) /\ StillInError(f) => StillInError(f)'
    BY <2>1 DEF StillInError
  <2> QED  BY <1>1, <2>2, <2>3, BatchKept
<1> QED  BY <1>2, <1>3

\* The kernel adds events; another process takes input only from a shared
\* listener.
LEMMA KernelKeeps ==
  ASSUME TypeOK,
         \/ Tick \/ \E fd \in Fd : TakenByOther(fd)
         \/ \E fd \in Fd : \E e \in Event \cup {EPOLLERR} : BecomesReady(fd, e)
  PROVE  \A f \in Fd, g \in Event \cup {EPOLLERR} :
           g \in ready[f] => g \in ready'[f] \/ (f \in SharedFd /\ g # EPOLLERR)
BY DEF Tick, TakenByOther, BecomesReady, TypeOK, EPOLLERR

LEMMA KernelBatch ==
  ASSUME WatchedInv, BatchInv,
         \/ Tick \/ \E fd \in Fd : TakenByOther(fd)
         \/ \E fd \in Fd : \E e \in Event \cup {EPOLLERR} : BecomesReady(fd, e)
  PROVE  BatchInv'
<1>0. TypeOK
  BY DEF WatchedInv, LoopInv
<1>1. UNCHANGED <<m_events, phase, m_coIdMap, running, open, stale>>
  BY DEF Tick, TakenByOther, BecomesReady, loopVars, fdVars, schedVars
<1>2. \A f \in Fd, g \in Event \cup {EPOLLERR} :
        g \in ready[f] => g \in ready'[f] \/ (f \in SharedFd /\ g # EPOLLERR)
  BY <1>0, KernelKeeps
<1>3. \A f \in Fd, g \in Event : StillPending(f, g) => StillPending(f, g)'
  BY <1>1, <1>2 DEF StillPending, HasCoroutine
<1>4. \A f \in Fd : StillInError(f) => StillInError(f)'
  BY <1>1, <1>2 DEF StillInError
<1> QED  BY <1>1, <1>3, <1>4, BatchKept

\* Steps that touch neither descriptors nor the batch.
LEMMA QuietBatch ==
  ASSUME BatchInv, UNCHANGED <<m_events, phase, m_coIdMap, ready, open, stale>>,
         running' = running \/ running' = NoCo
  PROVE  BatchInv'
<1>1. \A f \in Fd, g \in Event : StillPending(f, g) => StillPending(f, g)'
  BY DEF StillPending, HasCoroutine
<1>2. \A f \in Fd : StillInError(f) => StillInError(f)'
  BY DEF StillInError
<1> QED  BY <1>1, <1>2, BatchKept

LEMMA NextBatch ==
  (Disciplined \/ Orderly) /\ WatchedInv /\ BatchInv /\ [Next]_vars => BatchInv'
<1> SUFFICES ASSUME Disciplined \/ Orderly, WatchedInv, BatchInv, [Next]_vars PROVE BatchInv'
  OBVIOUS
<1>1. ASSUME NEW c \in Co, \/ GetCondition(c) \/ NewCoroutine(c) \/ WaitResumes(c) \/ Return(c)
                           \/ \E condition \in Conditions :
                                ConditionNotify(c, condition) \/ ConditionWait(c, condition)
      PROVE  BatchInv'
  <2>1. /\ UNCHANGED <<m_events, phase, m_coIdMap, ready, open, stale>>
        /\ running' = running \/ running' = NoCo
    BY <1>1 DEF GetCondition, NewCoroutine, WaitResumes, Return, ConditionNotify, ConditionWait,
                loopVars, fdVars, kernVars, schedVars, coroutine_yield, mainfunc_return
  <2> QED  BY <2>1, QuietBatch
<1>2. CASE CoroutineStep
  BY <1>1, <1>2, CallsBatch, CloseOpenBatch DEF CoroutineStep
<1>3. CASE CoroutineResumes
  BY <1>1, <1>3, ResumesBatch DEF CoroutineResumes
<1>4. CASE CoroutineLeaves
  BY <1>1, <1>4, BlocksBatch DEF CoroutineLeaves
<1>5. CASE \/ Run \/ RunNewCoFunc \/ RunWaitResumeCo \/ PollTimesOut \/ PollInterrupted
           \/ RunTimeoutCoBegin \/ RunTimeoutCo \/ RunTimeoutCoEnd
           \/ \E c \in Co : NewCoroutineInMain(c)
  <2>1. m_events = <<>> /\ UNCHANGED m_events
    BY <1>5 DEF Run, RunNewCoFunc, RunWaitResumeCo, PollTimesOut, PollInterrupted,
                RunTimeoutCoBegin, RunTimeoutCo, RunTimeoutCoEnd, NewCoroutineInMain, loopVars,
                Loop, BatchInv, Handling
  <2> QED  BY <2>1, NoBatch
<1>6. CASE EventHandlerIn \/ EventHandlerOut
  <2>1. \/ EventHandlerIn /\ UNCHANGED m_events /\ phase' = "EventOut"
        \/ m_events' = Tail(m_events) /\ phase' = "EventIn"
    BY <1>6 DEF EventHandlerIn, EventHandlerOut, Loop
  <2> QED  BY <1>6, <2>1, HandlerInBatch, HandlerOutBatch
<1>7. CASE LoopStep
  BY <1>5, <1>6, <1>7, PollBatch DEF LoopStep
<1>8. CASE Environment
  BY <1>5, <1>8, KernelBatch DEF Environment
<1>9. CASE UNCHANGED vars
  BY <1>9, QuietBatch DEF vars, loopVars, fdVars, kernVars, schedVars
<1> QED  BY <1>2, <1>3, <1>4, <1>7, <1>8, <1>9 DEF Next

\* EventHandler resumes the owner of a slot whose event, or an error, is still
\* pending.
LEMMA HandlerWakes ==
  ASSUME WatchedInv, BatchInv, EventHandlerIn \/ EventHandlerOut
  PROVE  WakeIsGenuine'
<1>0. TypeOK /\ LoopInv /\ WatchInv /\ m_events # <<>> /\ running = NoCo
  BY DEF WatchedInv, LoopInv, HandlerInv, EventHandlerIn, EventHandlerOut, Loop
<1>1. UNCHANGED <<wait, ready, stale>>
  BY DEF EventHandlerIn, EventHandlerOut, kernVars
<1> SUFFICES ASSUME NEW c \in Co, Woken(c)'
             PROVE  \/ EventOf(wait[c].op) \in ready[wait[c].fd]
                    \/ EPOLLERR \in ready[wait[c].fd]
                    \/ wait[c].fd \in SharedFd
                    \/ <<wait[c].fd, EventOf(wait[c].op)>> \in stale
  BY <1>1 DEF WakeIsGenuine
<1>2. PICK fd \in Fd : fd = Head(m_events).fd
  BY <1>0, EventsType
<1>3. 1 \in DOMAIN m_events /\ m_events[1] = Head(m_events)
  <2>1. m_events \in Seq(EventRecord)
    BY <1>0 DEF TypeOK, EventRecord
  <2> QED  BY <1>0, <2>1, EmptySeq
<1>4. PICK e \in Event : Concerns(e) /\ running' = m_coIdMap[fd][e] /\ ~Handled(1, e)
  <2>1. running' = c /\ c # NoCo
    BY DEF Woken
  <2>2. CASE EventHandlerIn
    <3>1. Concerns("EPOLLIN") /\ running' = m_coIdMap[fd]["EPOLLIN"]
      BY <1>0, <1>2, <2>1, <2>2 DEF EventHandlerIn, coroutine_resume, schedVars
    <3>2. ~Handled(1, "EPOLLIN") /\ "EPOLLIN" \in Event
      BY <2>2 DEF EventHandlerIn, Loop, Handled, Event
    <3> QED  BY <3>1, <3>2
  <2>3. CASE EventHandlerOut
    <3>1. Concerns("EPOLLOUT") /\ running' = m_coIdMap[fd]["EPOLLOUT"]
      BY <1>0, <1>2, <2>1, <2>3 DEF EventHandlerOut, coroutine_resume, schedVars
    <3>2. ~Handled(1, "EPOLLOUT") /\ "EPOLLOUT" \in Event
      BY DEF Handled, Event
    <3> QED  BY <3>1, <3>2
  <2> QED  BY <2>2, <2>3
<1>5. wait[c].fd = fd /\ EventOf(wait[c].op) = e /\ open[fd]
  <2>1. m_coIdMap[fd][e] = c /\ HasCoroutine(fd, e)
    BY <1>2, <1>4 DEF Woken, Concerns
  <2> QED  BY <1>0, <2>1 DEF WatchInv, SlotsInv
<1>6. Reports(1, fd, EPOLLERR) \/ Reports(1, fd, e)
  BY <1>2, <1>3, <1>4 DEF Concerns, Reports
<1>7. StillInError(fd) \/ StillPending(fd, e)
  BY <1>3, <1>4, <1>6 DEF BatchInv
<1> QED  BY <1>5, <1>7 DEF StillInError, StillPending

LEMMA NextWake ==
  WatchedInv /\ HandlingInv /\ BatchInv /\ WakeIsGenuine /\ [Next]_vars => WakeIsGenuine'
<1> SUFFICES ASSUME WatchedInv, HandlingInv, BatchInv, WakeIsGenuine, [Next]_vars
             PROVE  WakeIsGenuine'
  OBVIOUS
<1>0. TypeOK /\ HandlingInv' /\ \A c \in Co : c # NoCo
  BY NextHandling DEF WatchedInv, LoopInv
<1>1. ASSUME \A c \in Co : ~Woken(c)' PROVE WakeIsGenuine'
  BY <1>1 DEF WakeIsGenuine
<1>2. ASSUME running' = NoCo PROVE WakeIsGenuine'
  BY <1>0, <1>1, <1>2 DEF Woken
<1>3. CASE CoroutineStep
  <2>1. UNCHANGED <<running, wait>> /\ \A c \in Co : ~Woken(c)
    <3>1. \A c \in Co : Running(c) \/ running = NoCo => \A d \in Co : ~Woken(d)
      BY <1>0 DEF Running, Woken, InIo, NoWait, Op
    <3>2. UNCHANGED <<running, wait>>
      BY <1>3 DEF CoroutineStep, Close, Open, CallAtOnce, CallIsDuplicate, GetCondition,
                  ConditionNotify, NewCoroutine, schedVars
    <3>3. \E c \in Co : Running(c) \/ running = NoCo
      BY <1>3 DEF CoroutineStep, Close, Open, CallAtOnce, CallIsDuplicate, GetCondition,
                  ConditionNotify, NewCoroutine, Loop
    <3> QED  BY <3>1, <3>2, <3>3
  <2> QED  BY <1>1, <2>1 DEF Woken, InIo
<1>4. CASE CoroutineResumes
  <2>1. PICK c \in Co : running = c /\ running' = c /\ wait' = [wait EXCEPT ![c] = NoWait]
    BY <1>4 DEF CoroutineResumes, CallResumes, WaitResumes, schedVars
  <2>2. ~InIo(c)'
    BY <1>0, <2>1 DEF InIo, NoWait, Op, TypeOK
  <2> QED  BY <1>1, <2>1, <2>2 DEF Woken
<1>5. CASE CoroutineLeaves
  <2>1. running' = NoCo
    BY <1>5 DEF CoroutineLeaves, CallBlocks, ConditionWait, Return, coroutine_yield,
                mainfunc_return
  <2> QED  BY <1>2, <2>1
<1>6. ASSUME RunNewCoFunc \/ \E c \in Co : NewCoroutineInMain(c) PROVE WakeIsGenuine'
  <2>1. UNCHANGED wait /\ (running' = NoCo \/ \E c \in Co : StartCoroutine(c))
    BY <1>6 DEF RunNewCoFunc, NewCoroutineInMain, Loop, schedVars
  <2>2. ASSUME NEW c \in Co, StartCoroutine(c) PROVE running' = c /\ ~InIo(c)
    <3>1. status[c] = COROUTINE_DEAD /\ running' = c
      BY <2>2 DEF StartCoroutine
    <3>2. wait[c] = NoWait
      BY <3>1 DEF WatchedInv, LoopInv, BlockedInv
    <3> QED  BY <3>1, <3>2 DEF InIo, NoWait, Op
  <2> QED  BY <1>1, <1>2, <2>1, <2>2 DEF Woken, InIo
<1>7. CASE LoopStep
  <2>1. CASE Run \/ PollEvents \/ PollTimesOut \/ RunTimeoutCoBegin \/ RunTimeoutCoEnd
    <3>1. running' = NoCo
      BY <2>1 DEF Run, PollEvents, PollTimesOut, RunTimeoutCoBegin, RunTimeoutCoEnd, Loop,
                  schedVars
    <3> QED  BY <1>2, <3>1
  <2>2. CASE RunWaitResumeCo
    <3>1. UNCHANGED wait /\ running = NoCo
      BY <2>2 DEF RunWaitResumeCo, Loop
    <3>2. CASE m_waitResumeList = <<>>
      BY <1>2, <2>2, <3>1, <3>2 DEF RunWaitResumeCo, schedVars
    <3>3. CASE m_waitResumeList # <<>>
      <4>1. /\ 1 \in DOMAIN m_waitResumeList /\ m_waitResumeList[1] = Head(m_waitResumeList)
            /\ Head(m_waitResumeList) \in Co
        BY <1>0, <3>3 DEF TypeOK
      <4>2. InCond(Head(m_waitResumeList))
        BY <4>1 DEF WatchedInv, LoopInv, ConditionInv, Listed
      <4>3. running' = NoCo \/ running' = Head(m_waitResumeList)
        BY <2>2, <3>1, <3>3 DEF RunWaitResumeCo, coroutine_resume, schedVars
      <4> QED  BY <1>1, <1>2, <3>1, <4>2, <4>3 DEF Woken, InIo, InCond, Op
    <3> QED  BY <3>2, <3>3
  <2>3. CASE RunTimeoutCo
    <3>1. m_handlingTimeout'
      BY <2>3 DEF RunTimeoutCo, Loop, loopVars, HandlingInv
    <3> QED  BY <3>1 DEF WakeIsGenuine
  <2> QED  BY <1>6, <1>7, <2>1, <2>2, <2>3, HandlerWakes DEF LoopStep
<1>8. CASE Environment
  <2>1. CASE PollInterrupted
    BY <1>2, <2>1 DEF PollInterrupted, Loop, schedVars
  <2>2. CASE \/ Tick \/ \E fd \in Fd : TakenByOther(fd)
             \/ \E fd \in Fd : \E e \in Event \cup {EPOLLERR} : BecomesReady(fd, e)
    <3>1. UNCHANGED <<running, wait, m_handlingTimeout, stale>>
      BY <2>2 DEF Tick, TakenByOther, BecomesReady, schedVars, loopVars
    <3>2. \A f \in Fd, g \in Event \cup {EPOLLERR} :
            g \in ready[f] => g \in ready'[f] \/ f \in SharedFd
      BY <1>0, <2>2, KernelKeeps
    <3>3. ASSUME NEW c \in Co, Woken(c)', ~m_handlingTimeout'
          PROVE  \/ EventOf(wait'[c].op) \in ready'[wait'[c].fd]
                 \/ EPOLLERR \in ready'[wait'[c].fd]
                 \/ wait'[c].fd \in SharedFd
                 \/ <<wait'[c].fd, EventOf(wait'[c].op)>> \in stale'
      <4>1. Woken(c) /\ ~m_handlingTimeout
        BY <3>1, <3>3 DEF Woken, InIo
      <4>2. wait[c].fd \in Fd /\ EventOf(wait[c].op) \in Event
        BY <1>0, <4>1, IoWaitFields DEF Woken
      <4>3. \/ EventOf(wait[c].op) \in ready[wait[c].fd]
            \/ EPOLLERR \in ready[wait[c].fd]
            \/ wait[c].fd \in SharedFd
            \/ <<wait[c].fd, EventOf(wait[c].op)>> \in stale
        BY <4>1 DEF WakeIsGenuine
      <4> QED  BY <3>1, <3>2, <4>2, <4>3
    <3> QED  BY <3>3 DEF WakeIsGenuine
  <2> QED  BY <1>6, <1>8, <2>1, <2>2 DEF Environment
<1>9. CASE UNCHANGED vars
  BY <1>9 DEF vars, schedVars, loopVars, kernVars, WakeIsGenuine, Woken, InIo
<1> QED  BY <1>3, <1>4, <1>5, <1>7, <1>8, <1>9 DEF Next

WakeInv == WatchedInv /\ HandlingInv /\ BatchInv /\ WakeIsGenuine

LEMMA InitWake == Init => WakeInv
<1> SUFFICES ASSUME Init PROVE WakeInv
  OBVIOUS
<1>1. BatchInv
  <2>1. m_events = <<>> /\ DOMAIN m_events = {}
    BY DEF Init
  <2> QED  BY <2>1 DEF BatchInv
<1>2. WakeIsGenuine
  <2>1. running = NoCo /\ \A c \in Co : c # NoCo
    BY DEF Init, SchedInit
  <2> QED  BY <2>1 DEF WakeIsGenuine, Woken
<1> QED  BY <1>1, <1>2, InitLoopInv, InitHandling DEF WakeInv

LEMMA NextWakeInv == (Disciplined \/ Orderly) /\ WakeInv /\ [Next]_vars => WakeInv'
BY NextWatchedInv, NextHandling, NextBatch, NextWake DEF WakeInv, WatchedInv, LoopInv

\* A coroutine resumed by EventHandler finds its event or an error, whatever
\* the coroutines resumed before it in the same batch did: for any number of
\* descriptors and coroutines and any size of m_events.
THEOREM WakesGenuine == Disciplined => (Spec => []WakeIsGenuine)
<1> SUFFICES ASSUME Disciplined PROVE Spec => []WakeIsGenuine
  OBVIOUS
<1>1. WakeInv /\ [Next]_vars => WakeInv'
  BY NextWakeInv
<1>2. WakeInv => WakeIsGenuine
  BY DEF WakeInv
<1> QED  BY <1>1, <1>2, InitWake, PTL DEF Spec
=============================================================================
