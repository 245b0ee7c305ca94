----------------------------- MODULE Coroutine -----------------------------
(***************************************************************************)
(* The coroutine library, 3rd/coroutine/coroutine.c: a table S->co of      *)
(* coroutines that doubles when it is full, ids that are reused, and one   *)
(* stack S->stack on which every coroutine runs.  A coroutine that yields  *)
(* has its part of that stack copied out by _save_stack and copied back by *)
(* coroutine_resume.                                                       *)
(*                                                                         *)
(* A stack image is abstracted to its size and to one value, locals, that  *)
(* stands for the local variables it holds.                                *)
(***************************************************************************)
EXTENDS Integers, FiniteSets

CONSTANTS
  DEFAULT_COROUTINE,  \* capacity of a new schedule
  STACK_SIZE,         \* size of S->stack
  Locals,             \* values of the local variables of a coroutine
  MaxCap              \* bound: the table does not grow beyond this capacity

ASSUME CoroutineAssumption ==
  /\ DEFAULT_COROUTINE \in Nat \ {0}
  /\ STACK_SIZE \in Nat \ {0}
  /\ Locals # {}
  /\ MaxCap \in Nat
  /\ DEFAULT_COROUTINE <= MaxCap

VARIABLES
  co,        \* S->co, a function on 0 .. cap - 1
  nco,       \* S->nco
  cap,       \* S->cap
  running,   \* S->running
  stack,     \* S->stack: the image that is on it now
  freed,     \* coroutine_close has freed the schedule
  frame      \* history: the image each coroutine last saw on the stack

vars == <<co, nco, cap, running, stack, freed, frame>>

NoCo == -1
Ids == 0 .. cap - 1
Image == [size : 1 .. STACK_SIZE, locals : Locals]
SomeLocals == CHOOSE v \in Locals : TRUE
FreshImage == [size |-> 1, locals |-> SomeLocals]

\* struct coroutine; a NULL entry of S->co is the record with status DEAD,
\* which is what coroutine_status answers for it.
Coroutine == [status : {"DEAD", "READY", "RUNNING", "SUSPEND"},
              cap    : 0 .. STACK_SIZE,
              size   : 0 .. STACK_SIZE,
              locals : Locals]

NULL   == [status |-> "DEAD",  cap |-> 0, size |-> 0, locals |-> SomeLocals]
co_new == [status |-> "READY", cap |-> 0, size |-> 0, locals |-> SomeLocals]

Live == {id \in Ids : co[id].status # "DEAD"}

coroutine_open ==
  /\ co = [id \in 0 .. DEFAULT_COROUTINE - 1 |-> NULL]
  /\ nco = 0
  /\ cap = DEFAULT_COROUTINE
  /\ running = NoCo
  /\ stack = FreshImage
  /\ freed = FALSE
  /\ frame = [id \in 0 .. MaxCap - 1 |-> FreshImage]

----------------------------------------------------------------------------

\* Variant that looks at the slots without wrapping around.
Slot_NoWrap(i) == i + nco

\* The i-th slot that the search for a free one looks at.
Slot(i) == (i + nco) % cap

\* nco = cap: the table doubles and the first new slot is taken.
NewByGrowing ==
  /\ nco >= cap
  /\ 2 * cap <= MaxCap
  /\ co' = [id \in 0 .. 2 * cap - 1 |->
              IF id < cap THEN co[id] ELSE IF id = cap THEN co_new ELSE NULL]
  /\ cap' = 2 * cap

\* nco < cap: the first free slot after position nco, cyclically.
NewInFreeSlot ==
  /\ nco < cap
  /\ \E i \in Ids :
       /\ Slot(i) \in Ids
       /\ co[Slot(i)].status = "DEAD"
       /\ \A j \in 0 .. i - 1 : co[Slot(j)].status # "DEAD"
       /\ co' = [co EXCEPT ![Slot(i)] = co_new]
  /\ UNCHANGED cap

coroutine_new ==
  /\ ~freed
  /\ NewByGrowing \/ NewInFreeSlot
  /\ nco' = nco + 1
  /\ UNCHANGED <<running, stack, freed, frame>>

\* Variant that forgets the memcpy of the saved image.
coroutine_resume_NoRestore(id) ==
  /\ ~freed /\ running = NoCo
  /\ co[id].status # "DEAD"
  /\ running' = id
  /\ co' = [co EXCEPT ![id].status = "RUNNING"]
  /\ frame' = IF co[id].status = "READY" THEN [frame EXCEPT ![id] = FreshImage] ELSE frame
  /\ stack' = IF co[id].status = "READY" THEN FreshImage ELSE stack
  /\ UNCHANGED <<nco, cap, freed>>

\* A coroutine that starts begins with a fresh frame; one that was suspended
\* finds the image that was saved for it.
coroutine_resume(id) ==
  /\ ~freed /\ running = NoCo
  /\ co[id].status # "DEAD"
  /\ running' = id
  /\ co' = [co EXCEPT ![id].status = "RUNNING"]
  /\ \/ /\ co[id].status = "READY"
        /\ stack' = FreshImage
        /\ frame' = [frame EXCEPT ![id] = FreshImage]
     \/ /\ co[id].status = "SUSPEND"
        /\ stack' = [size |-> co[id].size, locals |-> co[id].locals]
        /\ UNCHANGED frame
  /\ UNCHANGED <<nco, cap, freed>>

\* The coroutine calls, returns and assigns to its locals between two calls
\* of the library (external code: the function given to coroutine_new).
CoroutineWork(image) ==
  /\ running # NoCo
  /\ stack' = image
  /\ frame' = [frame EXCEPT ![running] = image]
  /\ UNCHANGED <<co, nco, cap, running, freed>>

\* Variant that only allocates the buffer once.
save_stack_NoRealloc(C) ==
  [status |-> C.status,
   cap    |-> IF C.cap = 0 THEN stack.size ELSE C.cap,
   size   |-> stack.size,
   locals |-> stack.locals]

\* The buffer is reallocated when the image has outgrown it.
save_stack(C) ==
  [status |-> C.status,
   cap    |-> IF C.cap < stack.size THEN stack.size ELSE C.cap,
   size   |-> stack.size,
   locals |-> stack.locals]

\* Variant that leaves the status RUNNING.
coroutine_yield_NoStatus ==
  /\ running # NoCo
  /\ co' = [co EXCEPT ![running] = save_stack(co[running])]
  /\ running' = NoCo
  /\ UNCHANGED <<nco, cap, stack, freed, frame>>

coroutine_yield ==
  /\ running # NoCo
  /\ co' = [co EXCEPT ![running] = [save_stack(co[running]) EXCEPT !.status = "SUSPEND"]]
  /\ running' = NoCo
  /\ UNCHANGED <<nco, cap, stack, freed, frame>>

\* Variant that does not count the coroutine down.
mainfunc_return_NoCount ==
  /\ running # NoCo
  /\ co' = [co EXCEPT ![running] = NULL]
  /\ running' = NoCo
  /\ UNCHANGED <<nco, cap, stack, freed, frame>>

\* The end of mainfunc, after C->func has returned.
mainfunc_return ==
  /\ running # NoCo
  /\ co' = [co EXCEPT ![running] = NULL]
  /\ nco' = nco - 1
  /\ running' = NoCo
  /\ UNCHANGED <<cap, stack, freed, frame>>

coroutine_close ==
  /\ ~freed /\ running = NoCo
  /\ co' = [id \in Ids |-> NULL]
  /\ nco' = 0
  /\ freed' = TRUE
  /\ UNCHANGED <<cap, running, stack, frame>>

Next ==
  \/ coroutine_new
  \/ \E id \in Ids : coroutine_resume(id)
  \/ \E image \in Image : CoroutineWork(image)
  \/ coroutine_yield
  \/ mainfunc_return
  \/ coroutine_close

Spec == coroutine_open /\ [][Next]_vars

----------------------------------------------------------------------------

TypeOK ==
  /\ cap \in 1 .. MaxCap
  /\ co \in [Ids -> Coroutine]
  /\ nco \in 0 .. cap
  /\ running \in Ids \cup {NoCo}
  /\ stack \in Image
  /\ freed \in BOOLEAN
  /\ frame \in [0 .. MaxCap - 1 -> Image]

\* The counter S->nco, which decides between searching and growing, is the
\* number of live entries of S->co after any mix of coroutine_new, returns
\* and doublings of the table.
CountIsLive == nco = Cardinality(Live)

\* The assert(0) at the end of coroutine_new is unreachable: whenever the
\* table is not full, the cyclic search that starts at nco finds a free slot.
SearchFindsSlot ==
  nco < cap => \E i \in Ids : Slot(i) \in Ids /\ co[Slot(i)].status = "DEAD"

\* A running coroutine finds on the shared stack exactly the frame it left
\* there, whatever the coroutines that ran in between wrote on it.
FramesAreIsolated == running # NoCo => stack = frame[running]

\* The memcpy of _save_stack stays inside the buffer it allocated, for a
\* coroutine that has yielded with stacks of different depths.
SavedImageFits == \A id \in Live : co[id].size <= co[id].cap

\* The library implements the abstract scheduler that CoSocket is built on.
Sched == INSTANCE CoSched WITH
  Co     <- 0 .. MaxCap - 1,
  status <- [id \in 0 .. MaxCap - 1 |-> IF id < cap THEN co[id].status ELSE "DEAD"]

ImplementsSched == Sched!SchedSpec
=============================================================================
