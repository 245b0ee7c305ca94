---------------------------- MODULE TimerProofs ----------------------------
(***************************************************************************)
(* A Timer is a well-behaved client of the event loop, and a coroutine     *)
(* that sleeps sleeps its time, for any number of coroutines and           *)
(* descriptors, any clock and any waiting times.                           *)
(***************************************************************************)
EXTENDS Timer, CoSocketWakeProofs

USE CoAssumption, SecondAssumption, CoSocketAssumption, TimerAssumption
USE DEF NoCo, Disarmed

\* The timerfd reports input only, never an error.
TimerTypeOK ==
  /\ expiry \in Nat \cup {Disarmed}
  /\ sleep \in [Co -> {NoSleep} \cup [ms : Waits, since : 0 .. MaxTime]]
  /\ ready[TimerFd] \subseteq {"EPOLLIN"}

\* Who is blocked on the timerfd is asleep, and who is asleep and blocked is
\* blocked in the Read of the timerfd, without a timeout.
SleeperReads ==
  \A c \in Co :
    /\ InIo(c) /\ wait[c].fd = TimerFd => sleep[c] # NoSleep
    /\ sleep[c] # NoSleep /\ wait[c] # NoWait =>
         /\ InIo(c) /\ wait[c].fd = TimerFd
         /\ wait[c].op = "Read" /\ wait[c].timeoutMs = -1

Elapsed(c) == sleep[c].ms > 0 /\ clock >= sleep[c].since + sleep[c].ms

\* The timerfd is set for the sleeper there is, and not for an earlier one.
ExpiryInv ==
  \A c \in Co :
    sleep[c] # NoSleep =>
      /\ "EPOLLIN" \in ready[TimerFd] => Elapsed(c)
      /\ expiry # Disarmed => sleep[c].ms > 0 /\ expiry = sleep[c].since + sleep[c].ms

\* One coroutine at a time uses the Timer.
OneSleeper == \A c, d \in Co : sleep[c] # NoSleep /\ sleep[d] # NoSleep => c = d

\* Nothing that epoll_wait reports of the timerfd is reported in vain: nobody but
\* the sleeper reads it, and it has no errors to leave to the next Timer.
TimerfdIsSound == ~ErrorInBatch(TimerFd) /\ \A e \in Event : <<TimerFd, e>> \notin stale

TimerInv == LoopInv /\ TimerTypeOK /\ SleeperReads /\ ExpiryInv /\ OneSleeper /\ TimerfdIsSound

\* The seconds and the fraction add up.
LEMMA ItValue == ASSUME NEW ms \in Nat PROVE it_value(ms) = ms
BY SMT DEF it_value

\* A call uses up at most an event.
LEMMA ConsumeShrinks ==
  ASSUME TypeOK, NEW fd \in Fd, NEW e \in Event, UNCHANGED ready \/ MayConsume(fd, e),
         NEW f \in Fd
  PROVE  ready'[f] \subseteq ready[f]
<1>1. CASE MayConsume(fd, e)
  <2>1. PICK left \in {ready[fd], ready[fd] \ {e}} : ready' = [ready EXCEPT ![fd] = left]
    BY <1>1 DEF MayConsume
  <2> QED  BY <2>1 DEF TypeOK
<1> QED  BY <1>1

----------------------------------------------------------------------------
(* Every step of coroutines that use the Timer is one of the event loop.   *)

\* timerfd_settime takes back an expiration as a Read would; or it does
\* nothing to the loop.
LEMMA WaitIsLoopStep ==
  ASSUME TimerInv, NEW c \in Co, NEW ms \in Waits, Wait(c, ms)
  PROVE  [Next]_vars
<1>1. TypeOK /\ ready[TimerFd] \subseteq {"EPOLLIN"} /\ open[TimerFd] /\ Running(c)
  BY DEF TimerInv, LoopInv, TimerTypeOK, Wait
<1>2. ready' = [ready EXCEPT ![TimerFd] = {}]
  BY DEF Wait
<1>3. CASE ready[TimerFd] = {}
  <2>1. ready' = ready
    BY <1>1, <1>2, <1>3 DEF TypeOK
  <2> QED  BY <2>1 DEF Wait, vars, kernVars
<1>4. CASE ready[TimerFd] = {"EPOLLIN"}
  <2>1. EventOf("Read") = "EPOLLIN" /\ "EPOLLIN" \in Event /\ "Read" \in Ops[TimerFd]
    BY DEF EventOf, Event
  <2>2. ~HasCoroutine(TimerFd, "EPOLLIN")
    BY <2>1 DEF TimerInv, LoopInv, SlotsInv, SleeperReads, Wait, InUse
  <2>3. MayConsume(TimerFd, "EPOLLIN")
    BY <1>2, <1>4 DEF MayConsume
  <2>4. CallAtOnce(c, "Read", TimerFd)
    BY <1>1, <1>4, <2>1, <2>2, <2>3 DEF CallAtOnce, Wait
  <2> QED  BY <2>1, <2>4 DEF Next, CoroutineStep
<1> QED  BY <1>1, <1>3, <1>4

LEMMA TimerStepIsLoopStep == TimerInv /\ [TimerNext]_tvars => [Next]_vars
<1> SUFFICES ASSUME TimerInv, TimerNext PROVE [Next]_vars
  BY DEF tvars
<1>1. ASSUME NEW c \in Co, Destroy(c) \/ Construct(c) PROVE Next
  BY <1>1 DEF Destroy, Construct, Next, CoroutineStep
<1>2. CASE SleeperResumes
  BY <1>2 DEF SleeperResumes, WaitReturns, Next, CoroutineResumes
<1>3. CASE SleeperLeaves
  <2>1. PICK c \in Co : WaitBlocks(c) \/ WaitReads(c)
    BY <1>3 DEF SleeperLeaves
  <2>2. "Read" \in Ops[TimerFd] /\ -1 \in Timeouts
    OBVIOUS
  <2>3. CallBlocks(c, "Read", TimerFd, -1) \/ CallAtOnce(c, "Read", TimerFd)
    BY <2>1 DEF WaitBlocks, WaitReads
  <2> QED  BY <2>2, <2>3 DEF Next, CoroutineLeaves, CoroutineStep
<1>4. CASE Expires
  <2>1. BecomesReady(TimerFd, "EPOLLIN") /\ "EPOLLIN" \in Event \cup {EPOLLERR}
    BY <1>4 DEF Expires, Event
  <2> QED  BY <2>1 DEF Next, Environment
<1>5. CASE OthersResume \/ OthersLeave \/ (Awake /\ CoroutineStep /\ Elsewhere)
           \/ TimerLoop \/ (Environment /\ Elsewhere)
  BY <1>5 DEF OthersResume, OthersLeave, TimerLoop, Next
<1> QED  BY <1>1, <1>2, <1>3, <1>4, <1>5, WaitIsLoopStep DEF TimerNext

----------------------------------------------------------------------------
(* The invariant.                                                          *)

\* Sleepers other than c go on sleeping, and nothing new happens to the timerfd.
LEMMA ExpiryKept ==
  ASSUME TypeOK, TimerTypeOK, ExpiryInv,
         \A d \in Co : sleep'[d] = sleep[d] \/ sleep'[d] = NoSleep,
         ready'[TimerFd] \subseteq ready[TimerFd],
         expiry' = expiry \/ expiry' = Disarmed,
         clock' = clock \/ clock' = clock + 1
  PROVE  ExpiryInv'
<1> SUFFICES ASSUME NEW d \in Co, sleep'[d] # NoSleep
             PROVE  /\ "EPOLLIN" \in ready'[TimerFd] => Elapsed(d)'
                    /\ expiry' # Disarmed =>
                         sleep'[d].ms > 0 /\ expiry' = sleep'[d].since + sleep'[d].ms
  BY DEF ExpiryInv
<1>1. sleep'[d] = sleep[d]
  OBVIOUS
<1>2. clock \in Nat /\ sleep[d] \in [ms : Waits, since : 0 .. MaxTime]
  BY <1>1 DEF TypeOK, TimerTypeOK
<1>3. sleep[d].ms \in Nat /\ sleep[d].since \in Nat
  <2>1. sleep[d].ms \in Waits /\ sleep[d].since \in 0 .. MaxTime
    BY <1>2
  <2>2. Waits \subseteq Nat /\ 0 .. MaxTime \subseteq Nat
    OBVIOUS
  <2> QED  BY <2>1, <2>2, Zenon
<1>4. /\ "EPOLLIN" \in ready[TimerFd] => Elapsed(d)
      /\ expiry # Disarmed => sleep[d].ms > 0 /\ expiry = sleep[d].since + sleep[d].ms
  BY <1>1 DEF ExpiryInv
<1>5. Elapsed(d) => Elapsed(d)'
  BY <1>1, <1>2, <1>3 DEF Elapsed
<1> QED  BY <1>1, <1>4, <1>5

LEMMA TimerTypeKept ==
  ASSUME TypeOK, TimerTypeOK,
         sleep' = sleep \/ \E c \in Co : sleep' = [sleep EXCEPT ![c] = NoSleep],
         ready'[TimerFd] \subseteq ready[TimerFd],
         expiry' = expiry \/ expiry' = Disarmed
  PROVE  TimerTypeOK'
BY DEF TimerTypeOK

\* No wait record changes but those of coroutines that neither sleep nor block
\* on the timerfd.
LEMMA SleeperKept ==
  ASSUME SleeperReads, UNCHANGED sleep,
         \A d \in Co : \/ wait'[d] = wait[d]
                       \/ sleep[d] = NoSleep /\ ~(InIo(d)' /\ wait'[d].fd = TimerFd)
  PROVE  SleeperReads'
BY DEF SleeperReads, InIo

LEMMA WaitKeeps ==
  ASSUME TimerInv, NEW c \in Co, NEW ms \in Waits, Wait(c, ms)
  PROVE  TimerTypeOK' /\ SleeperReads' /\ ExpiryInv'
<1>0. TypeOK /\ TimerTypeOK /\ clock \in Nat /\ ms \in Nat /\ clock \in 0 .. MaxTime
  BY DEF TimerInv, LoopInv, TypeOK
<1> DEFINE s == [ms |-> ms, since |-> clock]
<1>1. /\ \A d \in Co : sleep[d] = NoSleep
      /\ sleep' = [sleep EXCEPT ![c] = s]
      /\ expiry' = IF ms = 0 THEN Disarmed ELSE clock + ms
      /\ ready'[TimerFd] = {}
      /\ UNCHANGED <<wait, clock>> /\ wait[c] = NoWait
  BY <1>0, ItValue DEF Wait, InUse, Running, TypeOK
<1>2. s \in [ms : Waits, since : 0 .. MaxTime] /\ s # NoSleep
  BY <1>0 DEF NoSleep
<1>3. sleep'[c] = s /\ \A d \in Co \ {c} : sleep'[d] = NoSleep
  BY <1>0, <1>1 DEF TimerTypeOK
<1>4. TimerTypeOK'
  <2>1. sleep' \in [Co -> {NoSleep} \cup [ms : Waits, since : 0 .. MaxTime]]
    <3> HIDE DEF s
    <3> QED  BY <1>0, <1>1, <1>2 DEF TimerTypeOK
  <2>2. expiry' \in Nat \cup {Disarmed}
    BY <1>0, <1>1
  <2> QED  BY <1>1, <2>1, <2>2 DEF TimerTypeOK
<1>5. SleeperReads'
  <2>1. ASSUME NEW d \in Co PROVE ~(InIo(d)' /\ wait'[d].fd = TimerFd)
    BY <1>1 DEF TimerInv, SleeperReads, InIo
  <2> HIDE DEF s
  <2> QED  BY <1>1, <1>3, <2>1 DEF SleeperReads
<1>6. ExpiryInv'
  <2>1. ASSUME NEW d \in Co, sleep'[d] # NoSleep, expiry' # Disarmed
        PROVE  sleep'[d].ms > 0 /\ expiry' = sleep'[d].since + sleep'[d].ms
    <3>1. d = c /\ sleep'[d].ms = ms /\ sleep'[d].since = clock
      <4>1. d = c /\ sleep'[d] = s
        BY <1>3, <2>1
      <4> QED  BY <4>1
    <3> QED  BY <1>0, <1>1, <2>1, <3>1
  <2> QED  BY <1>1, <2>1 DEF ExpiryInv
<1> QED  BY <1>4, <1>5, <1>6

\* The Read of Wait.
LEMMA SleeperKeeps ==
  ASSUME TimerInv, NEW c \in Co, WaitReads(c) \/ WaitBlocks(c) \/ WaitReturns(c)
  PROVE  TimerTypeOK' /\ SleeperReads' /\ ExpiryInv'
<1>0. TypeOK /\ TimerTypeOK /\ SleeperReads /\ ExpiryInv
  BY DEF TimerInv, LoopInv
<1>1. sleep[c] # NoSleep /\ expiry' = expiry /\ clock' = clock
  BY DEF WaitReads, WaitBlocks, WaitReturns, timerVars, CallAtOnce, CallBlocks, CallResumes,
         kernVars
<1>2. ready'[TimerFd] \subseteq ready[TimerFd]
  <2>1. CASE WaitReads(c)
    <3>1. UNCHANGED ready \/ MayConsume(TimerFd, EventOf("Read"))
      BY <2>1 DEF WaitReads, CallAtOnce
    <3>2. EventOf("Read") \in Event
      BY DEF EventOf, Event
    <3> QED  BY <1>0, <3>1, <3>2, ConsumeShrinks
  <2>2. CASE WaitBlocks(c)
    BY <2>2 DEF WaitBlocks, CallBlocks, kernVars
  <2>3. CASE WaitReturns(c)
    <3>1. InIo(c) /\ (UNCHANGED ready \/ MayConsume(wait[c].fd, EventOf(wait[c].op)))
      BY <2>3 DEF WaitReturns, CallResumes
    <3>2. wait[c].fd \in Fd /\ EventOf(wait[c].op) \in Event
      BY <1>0, <3>1, IoWaitFields
    <3> QED  BY <1>0, <3>1, <3>2, ConsumeShrinks
  <2> QED  BY <2>1, <2>2, <2>3
<1>3. sleep' = sleep \/ sleep' = [sleep EXCEPT ![c] = NoSleep]
  BY DEF WaitReads, WaitBlocks, WaitReturns, timerVars
<1>4. \A d \in Co : sleep'[d] = sleep[d] \/ sleep'[d] = NoSleep
  BY <1>0, <1>3 DEF TimerTypeOK
<1>5. TimerTypeOK' /\ ExpiryInv'
  BY <1>0, <1>1, <1>2, <1>3, <1>4, TimerTypeKept, ExpiryKept
<1>6. SleeperReads'
  <2>1. CASE WaitReads(c) \/ WaitReturns(c)
    <3>1. sleep'[c] = NoSleep /\ \A d \in Co \ {c} : sleep'[d] = sleep[d]
      BY <1>0, <2>1 DEF WaitReads, WaitReturns, TimerTypeOK
    <3>2. wait'[c] = NoWait /\ \A d \in Co \ {c} : wait'[d] = wait[d]
      BY <1>0, <2>1 DEF WaitReads, WaitReturns, CallAtOnce, Running, CallResumes, TypeOK
    <3>3. ~InIo(c)' /\ \A d \in Co \ {c} : InIo(d)' <=> InIo(d)
      BY <3>2 DEF InIo, NoWait, Op
    <3> QED  BY <1>0, <3>1, <3>2, <3>3 DEF SleeperReads
  <2>2. CASE WaitBlocks(c)
    <3>1. UNCHANGED sleep /\ \A d \in Co \ {c} : wait'[d] = wait[d]
      BY <1>0, <2>2 DEF WaitBlocks, timerVars, CallBlocks, TypeOK
    <3>2. /\ wait'[c].op = "Read" /\ wait'[c].fd = TimerFd /\ wait'[c].timeoutMs = -1
      BY <1>0, <2>2 DEF WaitBlocks, CallBlocks, TypeOK
    <3>3. InIo(c)' /\ \A d \in Co \ {c} : InIo(d)' <=> InIo(d)
      BY <3>1, <3>2 DEF InIo, Op
    <3> QED  BY <1>0, <1>1, <3>1, <3>2, <3>3 DEF SleeperReads
  <2> QED  BY <2>1, <2>2
<1> QED  BY <1>5, <1>6

\* The other coroutines, the loop and the kernel.
LEMMA OthersKeep ==
  ASSUME TimerInv,
         \/ OthersResume \/ OthersLeave \/ (Awake /\ CoroutineStep /\ Elsewhere)
         \/ TimerLoop \/ (Environment /\ Elsewhere)
  PROVE  TimerTypeOK' /\ SleeperReads' /\ ExpiryInv'
<1>0. TypeOK /\ TimerTypeOK /\ SleeperReads /\ ExpiryInv
  BY DEF TimerInv, LoopInv
<1>1. Next /\ UNCHANGED timerVars
  BY DEF OthersResume, OthersLeave, TimerLoop, Elsewhere, Next
<1>2. ready'[TimerFd] \subseteq ready[TimerFd]
  <2>1. CASE LoopStep
    BY <2>1 DEF LoopStep, Run, RunNewCoFunc, RunWaitResumeCo, PollEvents, PollTimesOut,
                EventHandlerIn, EventHandlerOut, RunTimeoutCoBegin, RunTimeoutCo,
                RunTimeoutCoEnd, kernVars
  <2>2. CASE Elsewhere
    BY <2>2 DEF Elsewhere
  <2> QED  BY <2>1, <2>2 DEF OthersResume, OthersLeave, TimerLoop
<1>3. clock' = clock \/ clock' = clock + 1
  BY <1>1 DEF Next, CoroutineStep, CoroutineResumes, CoroutineLeaves, LoopStep, Environment,
              Close, Open, CallAtOnce, CallIsDuplicate, GetCondition, ConditionNotify,
              NewCoroutine, CallResumes, WaitResumes, CallBlocks, ConditionWait, Return,
              Run, RunNewCoFunc, RunWaitResumeCo, PollEvents, PollTimesOut, EventHandlerIn,
              EventHandlerOut, RunTimeoutCoBegin, RunTimeoutCo, RunTimeoutCoEnd,
              NewCoroutineInMain, PollInterrupted, BecomesReady, TakenByOther, Tick, kernVars
<1>4. TimerTypeOK' /\ ExpiryInv'
  BY <1>0, <1>1, <1>2, <1>3, TimerTypeKept, ExpiryKept DEF timerVars
<1>5. ASSUME NEW d \in Co
      PROVE  \/ wait'[d] = wait[d]
             \/ sleep[d] = NoSleep /\ ~(InIo(d)' /\ wait'[d].fd = TimerFd)
  <2>1. CASE Awake /\ Elsewhere
    <3>1. CASE d = running
      BY <2>1, <3>1 DEF Awake, Elsewhere, InIo
    <3>2. CASE d # running
      BY <1>0, <1>1, <3>2, OnlyRunningCalls
    <3> QED  BY <3>1, <3>2
  <2>2. CASE LoopStep \/ Environment
    BY <2>2 DEF LoopStep, Run, RunNewCoFunc, RunWaitResumeCo, PollEvents, PollTimesOut,
                EventHandlerIn, EventHandlerOut, RunTimeoutCoBegin, RunTimeoutCo,
                RunTimeoutCoEnd, Environment, NewCoroutineInMain, PollInterrupted,
                BecomesReady, TakenByOther, Tick
  <2> QED  BY <2>1, <2>2 DEF OthersResume, OthersLeave, TimerLoop
<1>6. SleeperReads'
  BY <1>0, <1>1, <1>5, SleeperKept DEF timerVars
<1> QED  BY <1>4, <1>6

LEMMA TimerfdKeeps ==
  ASSUME TimerInv, Expires \/ \E c \in Co : Destroy(c) \/ Construct(c)
  PROVE  TimerTypeOK' /\ SleeperReads' /\ ExpiryInv'
<1>0. TypeOK /\ TimerTypeOK /\ SleeperReads /\ ExpiryInv
  BY DEF TimerInv, LoopInv
<1>1. UNCHANGED <<wait, sleep, clock>>
  BY DEF Expires, BecomesReady, Destroy, Construct, Close, Open, timerVars
<1>2. SleeperReads'
  BY <1>0, <1>1, SleeperKept
<1>3. CASE Expires
  <2>1. /\ expiry # Disarmed /\ clock >= expiry /\ expiry' = Disarmed
        /\ ready' = [ready EXCEPT ![TimerFd] = @ \cup {"EPOLLIN"}]
    BY <1>3 DEF Expires, BecomesReady
  <2>2. TimerTypeOK'
    BY <1>0, <1>1, <2>1 DEF TimerTypeOK, TypeOK
  <2>3. ASSUME NEW d \in Co, sleep[d] # NoSleep PROVE Elapsed(d)
    BY <1>0, <2>1, <2>3 DEF ExpiryInv, Elapsed
  <2> QED  BY <1>1, <1>2, <2>1, <2>2, <2>3 DEF ExpiryInv, Elapsed
<1>4. ASSUME NEW c \in Co, Destroy(c) \/ Construct(c)
      PROVE  TimerTypeOK' /\ ExpiryInv'
  <2>1. ready'[TimerFd] \subseteq ready[TimerFd] /\ (expiry' = expiry \/ expiry' = Disarmed)
    BY <1>0, <1>4 DEF Destroy, Construct, Close, Open, timerVars, TypeOK
  <2> QED  BY <1>0, <1>1, <2>1, TimerTypeKept, ExpiryKept
<1> QED  BY <1>2, <1>3, <1>4

\* Who sleeps changes only by Wait, which nobody calls while the Timer is in use,
\* and by the end of a sleep.
LEMMA OneSleeperKept == TimerInv /\ [TimerNext]_tvars => OneSleeper'
<1> SUFFICES ASSUME TimerInv, [TimerNext]_tvars PROVE OneSleeper'
  OBVIOUS
<1>0. OneSleeper /\ TimerTypeOK
  BY DEF TimerInv
<1>1. ASSUME \A c \in Co : sleep'[c] = sleep[c] \/ sleep'[c] = NoSleep PROVE OneSleeper'
  BY <1>0, <1>1 DEF OneSleeper
<1>2. ASSUME NEW c \in Co, NEW ms \in Waits, Wait(c, ms) PROVE OneSleeper'
  <2>1. \A d \in Co \ {c} : sleep'[d] = NoSleep
    BY <1>0, <1>2 DEF Wait, InUse, TimerTypeOK
  <2> QED  BY <2>1 DEF OneSleeper
<1>3. ASSUME NEW c \in Co, sleep' = [sleep EXCEPT ![c] = NoSleep] PROVE OneSleeper'
  BY <1>0, <1>1, <1>3 DEF TimerTypeOK
<1>4. ASSUME UNCHANGED sleep PROVE OneSleeper'
  BY <1>1, <1>4
<1> QED  BY <1>2, <1>3, <1>4
         DEF TimerNext, Destroy, Construct, SleeperResumes, SleeperLeaves, WaitBlocks, WaitReads,
             WaitReturns, Expires, OthersResume, OthersLeave, TimerLoop, Elsewhere, timerVars,
             tvars

\* What becomes stale: the events of a number that is opened again with an error
\* of its former life in the batch, and an event taken from a blocked coroutine.
LEMMA StaleGrows ==
  ASSUME [Next]_vars, NEW fd \in Fd, NEW e \in Event, <<fd, e>> \in stale', <<fd, e>> \notin stale
  PROVE  \/ ErrorInBatch(fd)
         \/ /\ HasCoroutine(fd, e) /\ e \in ready[fd] /\ e \notin ready'[fd]
            /\ UNCHANGED <<m_coIdMap, wait, open>> /\ \E c \in Co : Running(c)
<1>1. CASE \E c \in Co, f \in Fd : Open(c, f)
  BY <1>1 DEF Open
<1>2. ASSUME NEW c \in Co, NEW f \in Fd, NEW op \in Ops[f], CallAtOnce(c, op, f)
      PROVE  /\ HasCoroutine(fd, e) /\ e \in ready[fd] /\ e \notin ready'[fd]
             /\ UNCHANGED <<m_coIdMap, wait, open>> /\ Running(c)
  <2>1. f = fd /\ EventOf(op) = e
    BY <1>2 DEF CallAtOnce
  <2> QED  BY <1>2, <2>1 DEF CallAtOnce, fdVars
<1>3. CASE UNCHANGED stale \/ stale' = {}
  BY <1>3
<1> QED  BY <1>1, <1>2, <1>3
         DEF Next, CoroutineStep, CoroutineResumes, CoroutineLeaves, LoopStep, Environment,
             Close, CallIsDuplicate, GetCondition, ConditionNotify, NewCoroutine, CallResumes,
             WaitResumes, CallBlocks, ConditionWait, Return, Run, RunNewCoFunc, RunWaitResumeCo,
             PollEvents, PollTimesOut, EventHandlerIn, EventHandlerOut, RunTimeoutCoBegin,
             RunTimeoutCo, RunTimeoutCoEnd, NewCoroutineInMain, PollInterrupted, BecomesReady,
             TakenByOther, Tick, kernVars, vars

\* An error gets into the batch only by epoll_wait.
LEMMA ErrorsReported ==
  ASSUME TypeOK, [Next]_vars, NEW fd \in Fd, EPOLLERR \notin ready[fd], ~ErrorInBatch(fd)
  PROVE  ~ErrorInBatch(fd)'
<1>1. CASE PollEvents
  <2>1. \E n : \E fds \in {s \in [1 .. n -> Reported] :
                             \A i, j \in 1 .. n : s[i] = s[j] => i = j} :
          m_events' = [i \in 1 .. n |-> [fd |-> fds[i], events |-> Pending(fds[i])]]
    BY <1>1, Zenon DEF PollEvents
  <2>2. PICK n, fds :
          m_events' = [i \in 1 .. n |-> [fd |-> fds[i], events |-> Pending(fds[i])]]
    BY <2>1
  <2>3. EPOLLERR \notin Pending(fd)
    BY DEF Pending
  <2> QED  BY <2>2, <2>3 DEF ErrorInBatch
<1>2. CASE m_events # <<>> /\ m_events' = Tail(m_events)
  <2>1. m_events \in Seq(EventRecord)
    BY DEF TypeOK, EventRecord
  <2>2. \A i \in DOMAIN m_events' : i + 1 \in DOMAIN m_events /\ m_events'[i] = m_events[i + 1]
    BY <1>2, <2>1, EmptySeq
  <2> QED  BY <2>2 DEF ErrorInBatch
<1>3. CASE UNCHANGED m_events
  BY <1>3 DEF ErrorInBatch
<1>4. CASE m_events = <<>> /\ m_events' = Tail(m_events)
  <2>1. m_events' = <<>>
    BY <1>4
  <2> QED  BY <2>1 DEF ErrorInBatch
<1> QED  BY <1>1, <1>2, <1>3, <1>4
         DEF Next, CoroutineStep, CoroutineResumes, CoroutineLeaves, LoopStep, Environment,
             Close, Open, CallAtOnce, CallIsDuplicate, GetCondition, ConditionNotify,
             NewCoroutine, CallResumes, WaitResumes, CallBlocks, ConditionWait, Return, Run,
             RunNewCoFunc, RunWaitResumeCo, PollTimesOut, EventHandlerIn, EventHandlerOut,
             RunTimeoutCoBegin, RunTimeoutCo, RunTimeoutCoEnd, NewCoroutineInMain,
             PollInterrupted, BecomesReady, TakenByOther, Tick, loopVars, vars

\* Only the sleeper takes the expiration, and it is not blocked when it takes it
\* at once.
LEMMA SoundKept == TimerInv /\ [TimerNext]_tvars => TimerfdIsSound'
<1> SUFFICES ASSUME TimerInv, [TimerNext]_tvars PROVE TimerfdIsSound'
  OBVIOUS
<1>0. /\ TypeOK /\ LoopInv /\ SlotsInv /\ SleeperReads /\ OneSleeper /\ TimerfdIsSound
      /\ [Next]_vars
  BY TimerStepIsLoopStep DEF TimerInv, LoopInv
<1>1. EPOLLERR \notin ready[TimerFd]
  BY DEF TimerInv, TimerTypeOK, EPOLLERR
<1>2. ~ErrorInBatch(TimerFd)'
  BY <1>0, <1>1, ErrorsReported DEF TimerfdIsSound
<1>3. ASSUME NEW e \in Event, <<TimerFd, e>> \in stale' PROVE FALSE
  <2>1. /\ HasCoroutine(TimerFd, e) /\ e \in ready[TimerFd] /\ e \notin ready'[TimerFd]
        /\ UNCHANGED <<m_coIdMap, wait, open>> /\ \E c \in Co : Running(c)
    BY <1>0, <1>3, StaleGrows DEF TimerfdIsSound
  <2>2. PICK d \in Co : InIo(d) /\ wait[d].fd = TimerFd
    BY <1>0, <2>1 DEF SlotsInv
  <2>3. sleep[d] # NoSleep /\ wait[d] # NoWait
    BY <1>0, <2>2 DEF SleeperReads, InIo, NoWait, Op
  <2>4. ASSUME NEW c \in Co, WaitReads(c) PROVE FALSE
    <3>1. c = d /\ wait[c] = NoWait
      BY <1>0, <2>3, <2>4 DEF WaitReads, CallAtOnce, Running, OneSleeper
    <3> QED  BY <2>3, <3>1
  <2>5. ASSUME NEW c \in Co, WaitReturns(c) PROVE FALSE
    <3>1. c = d /\ wait'[c] = NoWait
      BY <1>0, <2>3, <2>5 DEF WaitReturns, CallResumes, OneSleeper, TypeOK
    <3> QED  BY <2>1, <2>3, <3>1
  <2>6. ASSUME NEW c \in Co, Destroy(c) PROVE FALSE
    BY <2>3, <2>6 DEF Destroy, InUse
  <2>7. ASSUME NEW c \in Co, NEW ms \in Waits, Wait(c, ms) PROVE FALSE
    BY <2>3, <2>7 DEF Wait, InUse
  <2>8. ASSUME LoopStep PROVE FALSE
    BY <2>1, <2>8 DEF LoopStep, Run, RunNewCoFunc, RunWaitResumeCo, PollEvents, PollTimesOut,
                EventHandlerIn, EventHandlerOut, RunTimeoutCoBegin, RunTimeoutCo,
                RunTimeoutCoEnd, kernVars
  <2>9. ASSUME NEW c \in Co, WaitBlocks(c) \/ Construct(c) PROVE UNCHANGED ready
    BY <2>9 DEF WaitBlocks, CallBlocks, Construct, Open, kernVars
  <2>10. ASSUME Expires PROVE FALSE
    BY <1>0, <2>1, <2>10 DEF Expires, BecomesReady, TypeOK
  <2> QED  BY <2>1, <2>4, <2>5, <2>6, <2>7, <2>8, <2>9, <2>10
           DEF TimerNext, SleeperResumes, SleeperLeaves, OthersResume, OthersLeave, TimerLoop,
               Elsewhere, tvars, vars, kernVars
<1> QED  BY <1>2, <1>3 DEF TimerfdIsSound

LEMMA InitTimer == TimerInit => TimerInv
<1> SUFFICES ASSUME TimerInit PROVE TimerInv
  OBVIOUS
<1>1. LoopInv
  BY InitLoopInv DEF TimerInit
<1>2. TimerTypeOK
  BY DEF TimerInit, Init, TimerTypeOK
<1>3. SleeperReads /\ ExpiryInv /\ OneSleeper
  <2>1. \A c \in Co : wait[c] = NoWait /\ sleep[c] = NoSleep
    BY DEF TimerInit, Init
  <2> QED  BY <2>1 DEF SleeperReads, ExpiryInv, OneSleeper, InIo, NoWait, Op
<1>4. TimerfdIsSound
  <2>1. stale = {} /\ m_events = <<>>
    BY DEF TimerInit, Init
  <2> QED  BY <2>1 DEF TimerfdIsSound, ErrorInBatch
<1> QED  BY <1>1, <1>2, <1>3, <1>4 DEF TimerInv

LEMMA NextTimer == TimerInv /\ [TimerNext]_tvars => TimerInv'
<1> SUFFICES ASSUME TimerInv, [TimerNext]_tvars PROVE TimerInv'
  OBVIOUS
<1>1. LoopInv' /\ OneSleeper' /\ TimerfdIsSound'
  BY TimerStepIsLoopStep, NextLoopInv, OneSleeperKept, SoundKept DEF TimerInv
<1>2. CASE TimerNext
  <2>1. TimerTypeOK' /\ SleeperReads' /\ ExpiryInv'
    BY <1>2, WaitKeeps, SleeperKeeps, OthersKeep, TimerfdKeeps
       DEF TimerNext, SleeperResumes, SleeperLeaves
  <2> QED  BY <1>1, <2>1 DEF TimerInv
<1>3. CASE UNCHANGED tvars
  <2>1. TimerTypeOK' /\ SleeperReads' /\ ExpiryInv'
    BY <1>3 DEF TimerInv, tvars, vars, kernVars, timerVars, TimerTypeOK, SleeperReads,
                ExpiryInv, InIo, Elapsed
  <2> QED  BY <1>1, <2>1 DEF TimerInv
<1> QED  BY <1>2, <1>3

----------------------------------------------------------------------------

\* Coroutines that use a Timer do to the event loop what its specification
\* allows, timerfd_settime included.
THEOREM TimerUsesLoop == TimerSpec => Spec
<1>1. TimerInit => Init
  BY DEF TimerInit
<1> QED  BY <1>1, InitTimer, NextTimer, TimerStepIsLoopStep, PTL DEF TimerSpec, Spec

\* Wait does not return before its time, though it does not look at what Read
\* returns: for any times, and whatever the other coroutines do.
THEOREM SleepersRest == Disciplined => (TimerSpec => SleepsItsTime)
<1> SUFFICES ASSUME Disciplined PROVE TimerSpec => SleepsItsTime
  OBVIOUS
<1> DEFINE Step == \A c \in Co :
             sleep[c] # NoSleep /\ sleep'[c] = NoSleep =>
               sleep[c].ms > 0 /\ clock >= sleep[c].since + sleep[c].ms
<1>1. TimerInv /\ WakeIsGenuine /\ WokenInTime /\ [TimerNext]_tvars => [Step]_tvars
  <2> SUFFICES ASSUME TimerInv, WakeIsGenuine, WokenInTime, TimerNext, NEW c \in Co,
                      sleep[c] # NoSleep, sleep'[c] = NoSleep
               PROVE  Elapsed(c)
    BY DEF Elapsed
  <2>0. TypeOK /\ TimerTypeOK
    BY DEF TimerInv, LoopInv
  <2>1. WaitReads(c) \/ WaitReturns(c)
    <3>1. ASSUME NEW d \in Co, NEW ms \in Waits, Wait(d, ms) PROVE FALSE
      BY <3>1 DEF Wait, InUse
    <3>2. ASSUME NEW d \in Co, WaitReads(d) \/ WaitReturns(d) PROVE d = c
      BY <2>0, <3>2 DEF WaitReads, WaitReturns, TimerTypeOK
    <3>3. ASSUME UNCHANGED sleep PROVE FALSE
      BY <3>3
    <3> QED  BY <3>1, <3>2, <3>3
             DEF TimerNext, Destroy, Construct, SleeperResumes, SleeperLeaves, WaitBlocks,
                 Expires, OthersResume, OthersLeave, TimerLoop, Elsewhere, timerVars
  <2>2. CASE WaitReads(c)
    <3>1. "EPOLLIN" \in ready[TimerFd]
      BY <2>2 DEF WaitReads, CallAtOnce, EventOf
    <3> QED  BY <3>1 DEF TimerInv, ExpiryInv
  <2>3. CASE WaitReturns(c)
    <3>1. Woken(c)
      BY <2>3 DEF WaitReturns, CallResumes, Woken
    <3>2. wait[c].fd = TimerFd /\ EventOf(wait[c].op) = "EPOLLIN" /\ ~Timed(c)
      <4>1. wait[c] # NoWait
        BY <3>1 DEF Woken, InIo, NoWait, Op
      <4> QED  BY <4>1 DEF TimerInv, SleeperReads, EventOf, Timed
    <3>3. ~m_handlingTimeout
      BY <3>1, <3>2 DEF WokenInTime, TimeIsUp
    <3>4. \/ "EPOLLIN" \in ready[TimerFd] \/ EPOLLERR \in ready[TimerFd]
          \/ TimerFd \in SharedFd \/ <<TimerFd, "EPOLLIN">> \in stale
      BY <3>1, <3>2, <3>3 DEF WakeIsGenuine
    <3>5. EPOLLERR \notin ready[TimerFd]
      BY <2>0 DEF TimerTypeOK, EPOLLERR
    <3> QED  BY <3>4, <3>5 DEF TimerInv, ExpiryInv, TimerfdIsSound, Event
  <2> QED  BY <2>1, <2>2, <2>3
<1>2. TimerSpec => []WakeIsGenuine /\ []WokenInTime
  BY TimerUsesLoop, WakesGenuine, WokenInTimeHolds, PTL
<1>3. TimerSpec => [][Step]_tvars
  <2> HIDE DEF Step
  <2> QED  BY <1>1, <1>2, InitTimer, NextTimer, PTL DEF TimerSpec
<1> QED  BY <1>3 DEF SleepsItsTime
=============================================================================
