------------------------------ MODULE CoSched ------------------------------
(***************************************************************************)
(* What the coroutine library (3rd/coroutine) promises to its user: a set  *)
(* of coroutine ids, the status of each, and the id of the one that runs.  *)
(* Which free id coroutine_new returns, how the table of coroutines grows  *)
(* and how stacks are saved is left open here; module Coroutine models the *)
(* C code and is shown to implement this specification.  The event loop    *)
(* (module CoSocket) is written on top of the actions defined here.        *)
(***************************************************************************)
EXTENDS Integers

CONSTANT Co     \* the coroutine ids, indices into S->co

ASSUME CoAssumption == Co \subseteq Nat

NoCo == -1      \* S->running when the main context runs

COROUTINE_DEAD    == "DEAD"
COROUTINE_READY   == "READY"
COROUTINE_RUNNING == "RUNNING"
COROUTINE_SUSPEND == "SUSPEND"

Status == {COROUTINE_DEAD, COROUTINE_READY, COROUTINE_RUNNING, COROUTINE_SUSPEND}

VARIABLES
  status,       \* coroutine_status of every id
  running       \* S->running

schedVars == <<status, running>>

SchedInit ==
  /\ status = [c \in Co |-> COROUTINE_DEAD]
  /\ running = NoCo

\* A dead id becomes a coroutine that has not started yet.
coroutine_new(c) ==
  /\ status[c] = COROUTINE_DEAD
  /\ status' = [status EXCEPT ![c] = COROUTINE_READY]
  /\ UNCHANGED running

\* Called from the main context only; a dead id is ignored.
coroutine_resume(c) ==
  /\ running = NoCo
  /\ IF status[c] = COROUTINE_DEAD
     THEN UNCHANGED schedVars
     ELSE /\ status' = [status EXCEPT ![c] = COROUTINE_RUNNING]
          /\ running' = c

\* The running coroutine gives the control back to the main context.
coroutine_yield ==
  /\ running # NoCo
  /\ status' = [status EXCEPT ![running] = COROUTINE_SUSPEND]
  /\ running' = NoCo

\* The running coroutine's function returns: its id is free again.
mainfunc_return ==
  /\ running # NoCo
  /\ status' = [status EXCEPT ![running] = COROUTINE_DEAD]
  /\ running' = NoCo

\* The schedule is destroyed with everything in it.
coroutine_close ==
  /\ running = NoCo
  /\ status' = [c \in Co |-> COROUTINE_DEAD]
  /\ UNCHANGED running

SchedNext ==
  \/ \E c \in Co : coroutine_new(c) \/ coroutine_resume(c)
  \/ coroutine_yield
  \/ mainfunc_return
  \/ coroutine_close

SchedSpec == SchedInit /\ [][SchedNext]_schedVars

----------------------------------------------------------------------------

SchedTypeOK ==
  /\ status \in [Co -> Status]
  /\ running \in Co \cup {NoCo}

\* Exactly the coroutine named by S->running has status RUNNING, so the
\* assert(0) in the switch of coroutine_resume cannot be reached and there is
\* never a second coroutine on the shared stack.
OnlyRunningRuns ==
  \A c \in Co : status[c] = COROUTINE_RUNNING <=> running = c
=============================================================================
