------------------------------- MODULE Timer -------------------------------
(***************************************************************************)
(* class Timer: a coroutine that sleeps by reading a timerfd, composed     *)
(* with the event loop and coroutines that do anything else.  There is one *)
(* Timer, which one coroutine at a time uses.                              *)
(***************************************************************************)
EXTENDS CoSocket

CONSTANTS
  TimerFd,      \* its descriptor
  Waits         \* the arguments of Wait

\* The descriptor is made by the Timer itself, and passed to nobody.
ASSUME TimerAssumption ==
  /\ TimerFd \in Fd \ SharedFd /\ Ops[TimerFd] = {"Read"}
  /\ Waits \subseteq Nat /\ -1 \in Timeouts

Disarmed == -1
NoSleep  == [ms |-> -1, since |-> 0]

VARIABLES
  expiry,       \* kernel: when the timerfd expires, or Disarmed
  sleep         \* the call of Wait each coroutine is in, or NoSleep

timerVars == <<expiry, sleep>>
tvars == <<vars, timerVars>>

\* The Timer is constructed.
TimerInit == Init /\ open[TimerFd] /\ expiry = Disarmed /\ sleep = [c \in Co |-> NoSleep]

InUse == \E c \in Co : sleep[c] # NoSleep

\* Variant: only whole seconds.
it_value_NoFraction(ms) == Second * (ms \div Second)

\* The time given to timerfd_settime, seconds and a fraction.
it_value(ms) == Second * (ms \div Second) + (ms % Second)

\* Variant: the timer is set to a time of the clock, not to an interval.
Wait_Absolute(c, ms) ==
  /\ Running(c) /\ ~InUse /\ open[TimerFd]
  /\ expiry' = IF it_value(ms) = 0 THEN Disarmed ELSE it_value(ms)
  /\ sleep' = [sleep EXCEPT ![c] = [ms |-> ms, since |-> clock]]
  /\ ready' = [ready EXCEPT ![TimerFd] = {}]
  /\ UNCHANGED <<schedVars, loopVars, listVars, condVars, timeVars, fdVars, wait,
                 open, clock, stale, aborted>>

\* Wait: timerfd_settime; it takes back an expiration not yet read, and a time
\* of zero disarms the timer.
Wait(c, ms) ==
  /\ Running(c) /\ ~InUse /\ open[TimerFd]
  /\ expiry' = IF it_value(ms) = 0 THEN Disarmed ELSE clock + it_value(ms)
  /\ sleep' = [sleep EXCEPT ![c] = [ms |-> ms, since |-> clock]]
  /\ ready' = [ready EXCEPT ![TimerFd] = {}]
  /\ UNCHANGED <<schedVars, loopVars, listVars, condVars, timeVars, fdVars, wait,
                 open, clock, stale, aborted>>

\* Its Read returns at once, ...
WaitReads(c) ==
  /\ sleep[c] # NoSleep
  /\ CallAtOnce(c, "Read", TimerFd) /\ "EPOLLIN" \notin ready'[TimerFd]
  /\ sleep' = [sleep EXCEPT ![c] = NoSleep]
  /\ UNCHANGED expiry

\* ... or blocks, ...
WaitBlocks(c) ==
  /\ sleep[c] # NoSleep /\ "EPOLLIN" \notin ready[TimerFd]
  /\ CallBlocks(c, "Read", TimerFd, -1)
  /\ UNCHANGED timerVars

\* ... and returns when the coroutine is resumed; the result is ignored.
WaitReturns(c) ==
  /\ sleep[c] # NoSleep
  /\ CallResumes(c) /\ "EPOLLIN" \notin ready'[TimerFd]
  /\ sleep' = [sleep EXCEPT ![c] = NoSleep]
  /\ UNCHANGED expiry

\* The destructor, and the constructor of another Timer with the same number.
Destroy(c)   == ~InUse /\ Close(c, TimerFd) /\ expiry' = Disarmed /\ UNCHANGED sleep
Construct(c) == Open(c, TimerFd) /\ UNCHANGED timerVars

\* The timerfd expires.
Expires ==
  /\ expiry # Disarmed /\ clock >= expiry
  /\ BecomesReady(TimerFd, "EPOLLIN")
  /\ expiry' = Disarmed
  /\ UNCHANGED sleep

\* Steps that do not concern the timer.
Elsewhere ==
  /\ open'[TimerFd] = open[TimerFd] /\ ready'[TimerFd] = ready[TimerFd]
  /\ \A c \in Co : (wait'[c] # wait[c] /\ wait'[c].op \in Op) => wait'[c].fd # TimerFd
  /\ UNCHANGED timerVars

Awake == running # NoCo /\ sleep[running] = NoSleep

SleeperResumes == \E c \in Co : WaitReturns(c)
SleeperLeaves  == \E c \in Co : WaitBlocks(c) \/ WaitReads(c)
OthersResume   == Awake /\ CoroutineResumes /\ Elsewhere
OthersLeave    == Awake /\ CoroutineLeaves /\ Elsewhere
TimerLoop      == LoopStep /\ UNCHANGED timerVars
TimePasses     == Tick /\ UNCHANGED timerVars

TimerNext ==
  \/ \E c \in Co : (\E ms \in Waits : Wait(c, ms)) \/ Destroy(c) \/ Construct(c)
  \/ SleeperResumes \/ SleeperLeaves \/ Expires
  \/ OthersResume \/ OthersLeave
  \/ Awake /\ CoroutineStep /\ Elsewhere
  \/ TimerLoop
  \/ Environment /\ Elsewhere

TimerSpec == TimerInit /\ [][TimerNext]_tvars

\* As in module CoSocket, and the kernel's timer expires.
TimerFairSpec ==
  /\ TimerSpec
  /\ WF_tvars(TimerLoop) /\ SF_tvars(PollEvents /\ UNCHANGED timerVars)
  /\ WF_tvars(SleeperResumes \/ OthersResume) /\ WF_tvars(SleeperLeaves \/ OthersLeave)
  /\ WF_tvars(TimePasses) /\ WF_tvars(Expires)

----------------------------------------------------------------------------

\* A coroutine that waits some time wakes up, whatever the others do.  (One
\* that waits no time at all has disarmed the timer and sleeps for ever.)
SleeperWakes ==
  LoopGoesRound =>
    \A c \in Co :
      (sleep[c].ms > 0 /\ sleep[c].since + sleep[c].ms <= MaxTime) ~> sleep[c] = NoSleep

\* It does not wake up before its time, although Wait does not look at what
\* Read returns: no event of an earlier Wait or of a descriptor's former life
\* wakes it.
SleepsItsTime ==
  [][\A c \in Co :
       sleep[c] # NoSleep /\ sleep'[c] = NoSleep =>
         sleep[c].ms > 0 /\ clock >= sleep[c].since + sleep[c].ms]_tvars
=============================================================================
