-------------------------- MODULE CoroutineProofs --------------------------
(***************************************************************************)
(* Proofs about the coroutine library for every initial capacity, every    *)
(* stack size and every set of values of the locals.                       *)
(***************************************************************************)
EXTENDS Coroutine, FiniteSetTheorems, TLAPS

\* The entry with status RUNNING is the one S->running names.
RunningIsMarked == \A id \in Ids : co[id].status = "RUNNING" <=> running = id

\* What _save_stack stored for a suspended coroutine is its last frame.
SavedIsFrame ==
  \A id \in Ids :
    co[id].status = "SUSPEND" => frame[id] = [size |-> co[id].size, locals |-> co[id].locals]

\* The inductive invariant: the count, the status and the saved images hold
\* each other up (nco - 1 is a natural number because the coroutine that
\* returns is one of those counted).
IInv ==
  /\ TypeOK
  /\ RunningIsMarked
  /\ CountIsLive
  /\ SavedImageFits
  /\ SavedIsFrame
  /\ FramesAreIsolated

USE CoroutineAssumption

----------------------------------------------------------------------------

\* Live entries are among the finitely many slots of the table.
LEMMA LiveFinite ==
  ASSUME TypeOK
  PROVE  IsFiniteSet(Live) /\ Cardinality(Live) \in Nat /\ Cardinality(Live) <= cap
<1>1. IsFiniteSet(Ids) /\ Cardinality(Ids) = cap
  BY FS_Interval DEF TypeOK, Ids
<1>2. Live \in SUBSET Ids
  BY DEF Live
<1> QED  BY <1>1, <1>2, FS_Subset, FS_CardinalityType

\* A table with fewer live entries than slots has a free slot.
LEMMA FreeSlotExists ==
  ASSUME TypeOK, CountIsLive, nco < cap
  PROVE  \E id \in Ids : co[id].status = "DEAD"
<1>1. IsFiniteSet(Ids) /\ Cardinality(Ids) = cap
  BY FS_Interval DEF TypeOK, Ids
<1>2. Live # Ids
  BY <1>1 DEF TypeOK, CountIsLive
<1> QED  BY <1>2 DEF Live

\* The search of coroutine_new looks at every slot: i + nco, cyclically,
\* reaches each of them.
LEMMA SlotOnto ==
  ASSUME TypeOK, NEW id \in Ids, nco < cap
  PROVE  \E i \in Ids : Slot(i) = id
<1> DEFINE i == IF id >= nco THEN id - nco ELSE id - nco + cap
<1>1. i \in Ids
  BY DEF TypeOK, Ids
<1>2. (i + nco) % cap = id
  <2>1. ASSUME NEW n \in Nat \ {0}, NEW d \in 0 .. n - 1
        PROVE  d % n = d /\ (d + n) % n = d
    BY SMT
  <2>2. cap \in Nat \ {0} /\ id \in 0 .. cap - 1 /\ nco \in Nat
    BY DEF TypeOK, Ids
  <2>3. i + nco = id \/ i + nco = id + cap
    BY <2>2
  <2> QED  BY <2>1, <2>2, <2>3
<1> QED  BY <1>1, <1>2 DEF Slot

----------------------------------------------------------------------------
(* The three facts that make IInv an invariant.                            *)

LEMMA InitIInv == coroutine_open => IInv
<1> SUFFICES ASSUME coroutine_open PROVE IInv
  OBVIOUS
<1> USE DEF coroutine_open
<1>0. SomeLocals \in Locals
  BY DEF SomeLocals
<1>1. TypeOK
  <2>1. cap \in 1 .. MaxCap /\ nco \in 0 .. cap /\ running \in Ids \cup {NoCo}
    OBVIOUS
  <2>2. NULL \in Coroutine /\ FreshImage \in Image
    BY <1>0 DEF NULL, Coroutine, FreshImage, Image
  <2>3. co \in [Ids -> Coroutine]
    BY <2>2 DEF Ids
  <2>4. stack \in Image /\ freed \in BOOLEAN /\ frame \in [0 .. MaxCap - 1 -> Image]
    BY <2>2
  <2> QED  BY <2>1, <2>3, <2>4 DEF TypeOK
<1>2. Live = {}
  BY DEF Live, Ids, NULL
<1>3. CountIsLive
  BY <1>2, FS_EmptySet DEF CountIsLive
<1>4. RunningIsMarked /\ SavedImageFits /\ SavedIsFrame /\ FramesAreIsolated
  BY <1>2 DEF RunningIsMarked, SavedImageFits, SavedIsFrame, FramesAreIsolated,
              NULL, Ids, NoCo
<1> QED  BY <1>1, <1>3, <1>4 DEF IInv

\* coroutine_new: one dead entry, of the old table or of its new half,
\* becomes READY.
LEMMA NewPreserves ==
  ASSUME IInv, coroutine_new
  PROVE  IInv'
<1> USE DEF IInv, coroutine_new
<1>0. SomeLocals \in Locals
  BY DEF SomeLocals
<1>1. PICK id \in Ids' :
        /\ id \in Ids => co[id].status = "DEAD"
        /\ Ids \subseteq Ids'
        /\ \A j \in Ids' \ {id} : IF j \in Ids THEN co'[j] = co[j] ELSE co'[j] = NULL
        /\ co'[id] = co_new
        /\ co' \in [Ids' -> Coroutine]
        /\ cap' \in 1 .. MaxCap
        /\ nco + 1 <= cap'
  <2>1. CASE NewByGrowing
    <3>1. cap \in Ids' /\ Ids \subseteq Ids' /\ cap \notin Ids
      BY <2>1 DEF NewByGrowing, Ids, TypeOK
    <3>2. co' \in [Ids' -> Coroutine]
      BY <2>1, <1>0 DEF NewByGrowing, Ids, TypeOK, co_new, NULL, Coroutine
    <3>3. co'[cap] = co_new
      BY <2>1, <3>1 DEF NewByGrowing, Ids, TypeOK
    <3>4. \A j \in Ids' \ {cap} : IF j \in Ids THEN co'[j] = co[j] ELSE co'[j] = NULL
      BY <2>1 DEF NewByGrowing, Ids, TypeOK
    <3>5. cap' \in 1 .. MaxCap /\ nco + 1 <= cap'
      BY <2>1 DEF NewByGrowing, TypeOK
    <3> QED  BY <3>1, <3>2, <3>3, <3>4, <3>5
  <2>2. CASE NewInFreeSlot
    <3>1. PICK i \in Ids : /\ Slot(i) \in Ids
                           /\ co[Slot(i)].status = "DEAD"
                           /\ co' = [co EXCEPT ![Slot(i)] = co_new]
      BY <2>2 DEF NewInFreeSlot
    <3>2. Ids' = Ids /\ cap' = cap /\ nco + 1 <= cap
      BY <2>2 DEF NewInFreeSlot, Ids, TypeOK
    <3>3. co' \in [Ids -> Coroutine]
      BY <3>1, <1>0 DEF TypeOK, co_new, Coroutine
    <3> QED  BY <3>1, <3>2, <3>3 DEF TypeOK
  <2> QED  BY <2>1, <2>2
<1>2. TypeOK'
  <2>1. nco' \in 0 .. cap' /\ running' \in (Ids \cup {NoCo})'
    BY <1>1 DEF TypeOK
  <2>2. stack' \in Image /\ freed' \in BOOLEAN /\ frame' \in [0 .. MaxCap - 1 -> Image]
    BY DEF TypeOK
  <2> QED  BY <1>1, <2>1, <2>2 DEF TypeOK
<1>3. id \notin Live /\ Live' = Live \cup {id}
  BY <1>1 DEF Live, co_new, NULL
<1>4. CountIsLive'
  BY <1>3, LiveFinite, FS_AddElement DEF CountIsLive
<1>5. running # id
  BY <1>1 DEF RunningIsMarked, TypeOK, NoCo, Ids
<1>6. RunningIsMarked'
  <2> SUFFICES ASSUME NEW j \in Ids'
               PROVE  co'[j].status = "RUNNING" <=> running = j
    BY DEF RunningIsMarked
  <2>1. CASE j = id
    BY <2>1, <1>1, <1>5 DEF co_new
  <2>2. CASE j # id /\ j \in Ids
    BY <2>2, <1>1 DEF RunningIsMarked
  <2>3. CASE j # id /\ j \notin Ids
    <3>1. co'[j].status = "DEAD"
      BY <2>3, <1>1 DEF NULL
    <3>2. running # j
      BY <2>3 DEF TypeOK, Ids, NoCo
    <3> QED  BY <3>1, <3>2
  <2> QED  BY <2>1, <2>2, <2>3
<1>7. SavedImageFits'
  BY <1>1, <1>3 DEF SavedImageFits, Live, co_new
<1>8. SavedIsFrame' /\ FramesAreIsolated'
  BY <1>1 DEF SavedIsFrame, FramesAreIsolated, co_new, NULL
<1> QED  BY <1>2, <1>4, <1>6, <1>7, <1>8

\* coroutine_resume: the fresh frame, or the saved one, is on the stack.
LEMMA ResumePreserves ==
  ASSUME IInv, NEW id \in Ids, coroutine_resume(id)
  PROVE  IInv'
<1> USE DEF IInv, coroutine_resume
<1>0. SomeLocals \in Locals
  BY DEF SomeLocals
<1>1. /\ Ids' = Ids
      /\ co' = [co EXCEPT ![id].status = "RUNNING"]
      /\ co' \in [Ids -> Coroutine]
  BY DEF Ids, TypeOK, Coroutine
<1>2. stack' \in Image /\ frame' \in [0 .. MaxCap - 1 -> Image] /\ frame'[id] = stack'
  <2>1. id \in 0 .. MaxCap - 1
    BY DEF TypeOK, Ids
  <2>2. CASE co[id].status = "READY"
    <3>1. FreshImage \in Image
      BY <1>0, CoroutineAssumption DEF Image, FreshImage
    <3>2. stack' = FreshImage /\ frame' = [frame EXCEPT ![id] = FreshImage]
      BY <2>2
    <3>3. frame \in [0 .. MaxCap - 1 -> Image]
      BY DEF TypeOK
    <3> QED  BY <2>1, <3>1, <3>2, <3>3
  <2>3. CASE co[id].status = "SUSPEND"
    BY <2>1, <2>3 DEF TypeOK, SavedIsFrame
  <2> QED  BY <2>2, <2>3
<1>3. TypeOK'
  BY <1>1, <1>2 DEF TypeOK, NoCo
<1>4. Live' = Live
  BY <1>1 DEF Live, TypeOK
<1>5. CountIsLive' /\ SavedImageFits'
  <2>1. CountIsLive'
    BY <1>4 DEF CountIsLive
  <2>2. \A i \in Ids : co'[i].size = co[i].size /\ co'[i].cap = co[i].cap
    BY <1>1 DEF TypeOK, Coroutine
  <2>3. Live \subseteq Ids
    BY DEF Live
  <2> QED  BY <1>4, <2>1, <2>2, <2>3 DEF SavedImageFits
<1>6. RunningIsMarked'
  BY <1>1 DEF RunningIsMarked, TypeOK, NoCo, Ids, Coroutine
<1>7. SavedIsFrame'
  BY <1>1, <1>2 DEF SavedIsFrame, TypeOK, Ids, Coroutine
<1>8. FramesAreIsolated'
  BY <1>2 DEF FramesAreIsolated
<1> QED  BY <1>3, <1>5, <1>6, <1>7, <1>8

\* The work of a coroutine touches only the stack and its own frame.
LEMMA WorkPreserves ==
  ASSUME IInv, NEW image \in Image, CoroutineWork(image)
  PROVE  IInv'
<1> USE DEF IInv, CoroutineWork
<1>1. Ids' = Ids /\ Live' = Live /\ running \in Ids /\ running \in 0 .. MaxCap - 1
  BY DEF Ids, Live, TypeOK, NoCo
<1>2. TypeOK'
  BY <1>1 DEF TypeOK, Ids
<1>3. RunningIsMarked' /\ CountIsLive' /\ SavedImageFits'
  BY <1>1 DEF RunningIsMarked, CountIsLive, SavedImageFits
<1>4. SavedIsFrame'
  BY <1>1 DEF SavedIsFrame, RunningIsMarked, TypeOK
<1>5. FramesAreIsolated'
  BY <1>1 DEF FramesAreIsolated, TypeOK
<1> QED  BY <1>2, <1>3, <1>4, <1>5

\* coroutine_yield: the image on the stack goes into a buffer that holds it.
LEMMA YieldPreserves ==
  ASSUME IInv, coroutine_yield
  PROVE  IInv'
<1> USE DEF IInv, coroutine_yield
<1>1. Ids' = Ids /\ running \in Ids
  BY DEF Ids, TypeOK, NoCo
<1> DEFINE saved == [save_stack(co[running]) EXCEPT !.status = "SUSPEND"]
<1>2. /\ saved \in Coroutine
      /\ saved.status = "SUSPEND" /\ saved.size <= saved.cap
      /\ saved.size = stack.size /\ saved.locals = stack.locals
  <2>1. co[running] \in Coroutine /\ stack \in Image
    BY <1>1 DEF TypeOK
  <2>2. save_stack(co[running]) \in Coroutine
    BY <2>1 DEF save_stack, Coroutine, Image
  <2> QED  BY <2>1, <2>2 DEF save_stack, Coroutine, Image
<1>3. co' = [co EXCEPT ![running] = saved]
  OBVIOUS
<1> HIDE DEF saved
<1>4. TypeOK'
  BY <1>1, <1>2, <1>3 DEF TypeOK
<1>5. Live' = Live
  BY <1>1, <1>2, <1>3 DEF Live, RunningIsMarked, TypeOK
<1>6. CountIsLive' /\ SavedImageFits'
  BY <1>1, <1>2, <1>3, <1>5 DEF CountIsLive, SavedImageFits, TypeOK, Live
<1>7. RunningIsMarked'
  BY <1>1, <1>2, <1>3 DEF RunningIsMarked, TypeOK, NoCo, Ids
<1>8. SavedIsFrame'
  BY <1>1, <1>2, <1>3 DEF SavedIsFrame, FramesAreIsolated, TypeOK, Image
<1> QED  BY <1>4, <1>6, <1>7, <1>8 DEF FramesAreIsolated

\* mainfunc returns: one live entry less.
LEMMA ReturnPreserves ==
  ASSUME IInv, mainfunc_return
  PROVE  IInv'
<1> USE DEF IInv, mainfunc_return
<1>0. SomeLocals \in Locals
  BY DEF SomeLocals
<1>1. Ids' = Ids /\ running \in Ids /\ running \in Live
  BY DEF Ids, TypeOK, NoCo, RunningIsMarked, Live
<1>2. co' \in [Ids -> Coroutine]
  BY <1>0, <1>1 DEF TypeOK, NULL, Coroutine
<1>3. Live' = Live \ {running}
  BY <1>1 DEF Live, TypeOK, NULL
<1>4. CountIsLive' /\ nco' \in 0 .. cap
  <2>1. IsFiniteSet(Live) /\ Cardinality(Live \ {running}) = Cardinality(Live) - 1
    BY <1>1, LiveFinite, FS_RemoveElement
  <2>2. Cardinality(Live \ {running}) \in Nat
    BY <2>1, FS_RemoveElement, FS_CardinalityType
  <2> QED  BY <2>1, <2>2, <1>3 DEF CountIsLive, TypeOK
<1>5. TypeOK'
  BY <1>1, <1>2, <1>4 DEF TypeOK
<1>6. RunningIsMarked'
  BY <1>1 DEF RunningIsMarked, TypeOK, NoCo, Ids, NULL
<1>7. SavedImageFits' /\ SavedIsFrame' /\ FramesAreIsolated'
  BY <1>1, <1>3 DEF SavedImageFits, SavedIsFrame, FramesAreIsolated, TypeOK, Live, NULL
<1> QED  BY <1>4, <1>5, <1>6, <1>7

\* coroutine_close leaves no live entry.
LEMMA ClosePreserves ==
  ASSUME IInv, coroutine_close
  PROVE  IInv'
<1> USE DEF IInv, coroutine_close
<1>0. SomeLocals \in Locals
  BY DEF SomeLocals
<1>1. Ids' = Ids /\ Live' = {}
  BY DEF Ids, Live, NULL
<1>2. TypeOK'
  BY <1>0, <1>1 DEF TypeOK, NULL, Coroutine
<1>3. CountIsLive'
  BY <1>1, FS_EmptySet DEF CountIsLive
<1>4. RunningIsMarked' /\ SavedImageFits' /\ SavedIsFrame' /\ FramesAreIsolated'
  BY <1>1 DEF RunningIsMarked, SavedImageFits, SavedIsFrame, FramesAreIsolated, NULL, NoCo,
              Ids, TypeOK
<1> QED  BY <1>2, <1>3, <1>4

LEMMA NextPreserves == IInv /\ [Next]_vars => IInv'
<1> SUFFICES ASSUME IInv, [Next]_vars PROVE IInv'
  OBVIOUS
<1>1. CASE UNCHANGED vars
  BY <1>1 DEF vars, IInv, TypeOK, RunningIsMarked, CountIsLive, SavedImageFits,
              SavedIsFrame, FramesAreIsolated, Live, Ids
<1>2. CASE coroutine_new
  BY <1>2, NewPreserves
<1>3. CASE \E id \in Ids : coroutine_resume(id)
  BY <1>3, ResumePreserves
<1>4. CASE \E image \in Image : CoroutineWork(image)
  BY <1>4, WorkPreserves
<1>5. CASE coroutine_yield
  BY <1>5, YieldPreserves
<1>6. CASE mainfunc_return
  BY <1>6, ReturnPreserves
<1>7. CASE coroutine_close
  BY <1>7, ClosePreserves
<1> QED  BY <1>1, <1>2, <1>3, <1>4, <1>5, <1>6, <1>7 DEF Next

\* IInv holds in every state the library reaches.
THEOREM Invariance == Spec => []IInv
BY InitIInv, NextPreserves, PTL DEF Spec

\* Type correctness of the library's state.
THEOREM TypeCorrect == Spec => []TypeOK
<1>1. IInv => TypeOK
  BY DEF IInv
<1> QED  BY <1>1, Invariance, PTL

\* S->nco is the number of live coroutines after any history of creations,
\* ends and growths, for every initial capacity.
THEOREM CountCorrect == Spec => []CountIsLive
<1>1. IInv => CountIsLive
  BY DEF IInv
<1> QED  BY <1>1, Invariance, PTL

\* coroutine_new cannot reach its assert(0): the search finds a slot.
THEOREM NewNeverFails == Spec => []SearchFindsSlot
<1>1. IInv => SearchFindsSlot
  <2> SUFFICES ASSUME IInv, nco < cap
               PROVE  \E i \in Ids : Slot(i) \in Ids /\ co[Slot(i)].status = "DEAD"
    BY DEF SearchFindsSlot
  <2>1. PICK id \in Ids : co[id].status = "DEAD"
    BY FreeSlotExists DEF IInv
  <2>2. PICK i \in Ids : Slot(i) = id
    BY SlotOnto DEF IInv
  <2> QED  BY <2>1, <2>2
<1> QED  BY <1>1, Invariance, PTL

\* A coroutine finds on the shared stack the frame it left there.
THEOREM FramesIsolated == Spec => []FramesAreIsolated
<1>1. IInv => FramesAreIsolated
  BY DEF IInv
<1> QED  BY <1>1, Invariance, PTL

\* No copy of _save_stack exceeds its buffer.
THEOREM ImagesFit == Spec => []SavedImageFits
<1>1. IInv => SavedImageFits
  BY DEF IInv
<1> QED  BY <1>1, Invariance, PTL

----------------------------------------------------------------------------
(* coroutine.c implements the scheduler of module CoSched.                 *)

\* The status function that the refinement mapping gives to CoSched.
StatusBar == [id \in 0 .. MaxCap - 1 |-> IF id < cap THEN co[id].status ELSE "DEAD"]

\* A function that agrees with the old one but for one id is its update.
LEMMA StatusUpdate ==
  ASSUME NEW id \in 0 .. MaxCap - 1, NEW s,
         StatusBar'[id] = s,
         \A j \in (0 .. MaxCap - 1) \ {id} : StatusBar'[j] = StatusBar[j]
  PROVE  StatusBar' = [StatusBar EXCEPT ![id] = s]
<1> DEFINE D == 0 .. MaxCap - 1
<1>1. StatusBar = [j \in D |-> StatusBar[j]] /\ StatusBar' = [j \in D |-> StatusBar'[j]]
  BY DEF StatusBar
<1> HIDE DEF D
<1> QED  BY <1>1 DEF D

LEMMA RefinesInit == coroutine_open => Sched!SchedInit
BY DEF coroutine_open, Sched!SchedInit, Sched!COROUTINE_DEAD, Sched!NoCo, NoCo, NULL

\* A step of coroutine_new makes one dead id READY.
LEMMA RefinesNew ==
  ASSUME IInv, coroutine_new
  PROVE  \E id \in 0 .. MaxCap - 1 : Sched!coroutine_new(id)
<1> USE DEF IInv, coroutine_new, TypeOK, Ids
<1>1. CASE NewByGrowing
  <2>1. cap \in 0 .. MaxCap - 1 /\ StatusBar[cap] = "DEAD"
    BY <1>1 DEF NewByGrowing, StatusBar
  <2>2. StatusBar' = [StatusBar EXCEPT ![cap] = "READY"]
    <3>1. StatusBar'[cap] = "READY"
      BY <1>1, <2>1 DEF NewByGrowing, StatusBar, co_new
    <3>2. ASSUME NEW j \in (0 .. MaxCap - 1) \ {cap}
          PROVE  StatusBar'[j] = StatusBar[j]
      BY <1>1 DEF NewByGrowing, StatusBar, NULL
    <3> QED  BY <2>1, <3>1, <3>2, StatusUpdate
  <2> QED  BY <2>1, <2>2 DEF StatusBar, Sched!coroutine_new, Sched!COROUTINE_DEAD,
                             Sched!COROUTINE_READY
<1>2. CASE NewInFreeSlot
  <2>1. PICK i \in Ids : /\ Slot(i) \in Ids
                         /\ co[Slot(i)].status = "DEAD"
                         /\ co' = [co EXCEPT ![Slot(i)] = co_new]
    BY <1>2 DEF NewInFreeSlot
  <2> DEFINE id == Slot(i)
  <2>2. id \in 0 .. MaxCap - 1 /\ StatusBar[id] = "DEAD" /\ cap' = cap
    BY <1>2, <2>1 DEF NewInFreeSlot, StatusBar
  <2>3. StatusBar' = [StatusBar EXCEPT ![id] = "READY"]
    <3>1. StatusBar'[id] = "READY"
      BY <2>1, <2>2 DEF StatusBar, co_new
    <3>2. ASSUME NEW j \in (0 .. MaxCap - 1) \ {id}
          PROVE  StatusBar'[j] = StatusBar[j]
      BY <2>1, <2>2 DEF StatusBar
    <3> HIDE DEF id
    <3> QED  BY <2>2, <3>1, <3>2, StatusUpdate
  <2> HIDE DEF id
  <2> QED  BY <2>2, <2>3 DEF StatusBar, Sched!coroutine_new, Sched!COROUTINE_DEAD,
                             Sched!COROUTINE_READY
<1> QED  BY <1>1, <1>2

\* Every other step sets the status of one entry, or is invisible.
LEMMA RefinesNext ==
  ASSUME IInv, [Next]_vars
  PROVE  [Sched!SchedNext]_(Sched!schedVars)
<1> USE DEF IInv, TypeOK, Ids, NoCo, Sched!NoCo
<1>1. CASE UNCHANGED vars
  BY <1>1 DEF vars, Sched!schedVars
<1>2. CASE coroutine_new
  BY <1>2, RefinesNew DEF Sched!SchedNext
<1>3. ASSUME NEW id \in Ids, coroutine_resume(id)
      PROVE  Sched!SchedNext
  <2>1. StatusBar' = [StatusBar EXCEPT ![id] = "RUNNING"]
    <3>1. id \in 0 .. MaxCap - 1 /\ StatusBar'[id] = "RUNNING"
      BY <1>3 DEF coroutine_resume, StatusBar, Coroutine
    <3>2. ASSUME NEW j \in (0 .. MaxCap - 1) \ {id}
          PROVE  StatusBar'[j] = StatusBar[j]
      BY <1>3 DEF coroutine_resume, StatusBar
    <3> QED  BY <3>1, <3>2, StatusUpdate
  <2>2. id \in 0 .. MaxCap - 1 /\ StatusBar[id] # "DEAD" /\ running = NoCo /\ running' = id
    BY <1>3 DEF coroutine_resume, StatusBar
  <2>3. Sched!coroutine_resume(id)
    BY <2>1, <2>2 DEF StatusBar, Sched!coroutine_resume, Sched!COROUTINE_DEAD,
                      Sched!COROUTINE_RUNNING
  <2> QED  BY <2>2, <2>3 DEF Sched!SchedNext
<1>4. CASE \E image \in Image : CoroutineWork(image)
  BY <1>4 DEF CoroutineWork, Sched!schedVars
<1>5. CASE coroutine_yield
  <2>1. running \in 0 .. MaxCap - 1 /\ running \in Ids /\ cap' = cap /\ running' = NoCo
    BY <1>5 DEF coroutine_yield
  <2>2. StatusBar' = [StatusBar EXCEPT ![running] = "SUSPEND"]
    <3>1. StatusBar'[running] = "SUSPEND"
      BY <1>5, <2>1 DEF coroutine_yield, StatusBar, save_stack
    <3>2. ASSUME NEW j \in (0 .. MaxCap - 1) \ {running}
          PROVE  StatusBar'[j] = StatusBar[j]
      BY <1>5, <2>1 DEF coroutine_yield, StatusBar
    <3> QED  BY <2>1, <3>1, <3>2, StatusUpdate
  <2>3. Sched!coroutine_yield
    BY <2>1, <2>2 DEF StatusBar, Sched!coroutine_yield, Sched!COROUTINE_SUSPEND
  <2> QED  BY <2>3 DEF Sched!SchedNext
<1>6. CASE mainfunc_return
  <2>1. running \in 0 .. MaxCap - 1 /\ running \in Ids /\ cap' = cap /\ running' = NoCo
    BY <1>6 DEF mainfunc_return
  <2>2. StatusBar' = [StatusBar EXCEPT ![running] = "DEAD"]
    <3>1. StatusBar'[running] = "DEAD"
      BY <1>6, <2>1 DEF mainfunc_return, StatusBar, NULL
    <3>2. ASSUME NEW j \in (0 .. MaxCap - 1) \ {running}
          PROVE  StatusBar'[j] = StatusBar[j]
      BY <1>6, <2>1 DEF mainfunc_return, StatusBar
    <3> QED  BY <2>1, <3>1, <3>2, StatusUpdate
  <2>3. Sched!mainfunc_return
    BY <2>1, <2>2 DEF StatusBar, Sched!mainfunc_return, Sched!COROUTINE_DEAD
  <2> QED  BY <2>3 DEF Sched!SchedNext
<1>7. CASE coroutine_close
  <2>1. StatusBar' = [id \in 0 .. MaxCap - 1 |-> "DEAD"]
    BY <1>7 DEF coroutine_close, StatusBar, NULL
  <2>2. Sched!coroutine_close
    BY <1>7, <2>1 DEF coroutine_close, StatusBar, Sched!coroutine_close, Sched!COROUTINE_DEAD
  <2> QED  BY <2>2 DEF Sched!SchedNext
<1> QED  BY <1>1, <1>2, <1>3, <1>4, <1>5, <1>6, <1>7 DEF Next

\* Refinement: whatever happens to the table and to the stacks, the user of
\* the library sees the scheduler that CoSocket is written against.
THEOREM Refinement == Spec => ImplementsSched
<1>1. IInv /\ [Next]_vars => [Sched!SchedNext]_(Sched!schedVars)
  BY RefinesNext
<1> QED  BY <1>1, RefinesInit, Invariance, PTL DEF Spec, ImplementsSched, Sched!SchedSpec
=============================================================================
