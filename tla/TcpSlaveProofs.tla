--------------------------- MODULE TcpSlaveProofs ---------------------------
(***************************************************************************)
(* The slave process that runs the proxy keeps the rules of use of the     *)
(* event loop and neither leaks a descriptor nor closes one too early, for *)
(* any number of listeners, connections and coroutines.                    *)
(***************************************************************************)
EXTENDS TcpSlave, CoSocketWakeProofs

USE CoAssumption, SecondAssumption, CoSocketAssumption, TcpSlaveAssumption
USE DEF NoCo, NoFd, COROUTINE_DEAD, COROUTINE_READY, COROUTINE_RUNNING, COROUTINE_SUSPEND

FdOrNone == Pool \cup {NoFd}

Pcs == {"accept", "open", "spawn", "socket", "connect", "read", "write", "return"}

TaskRecord == [func : {"DoAccept", "HandleRequest", "ReadServerCoroutine"}, pc : Pcs,
               listener : Listeners \cup {NoFd}, connector : FdOrNone, client : FdOrNone]

\* Which arguments and locals a function holds at which point of its code.
WellFormed(t) ==
  /\ t \in TaskRecord
  /\ t.connector = t.client => t.client = NoFd
  /\ t.func = "DoAccept" =>
       /\ t.pc \in {"accept", "open", "spawn"} /\ t.listener # NoFd /\ t.client = NoFd
       /\ t.connector # NoFd <=> t.pc = "spawn"
  /\ t.func # "DoAccept" =>
       /\ t.pc \notin {"accept", "open"} /\ t.listener = NoFd
       /\ t.pc # "return" => t.connector # NoFd /\ (t.client = NoFd <=> t.pc = "socket")
  /\ t.func = "ReadServerCoroutine" => t.pc \in {"read", "write", "return"}

\* m_coFuncList from the iterator of RunNewCoFunc on: the functions that wait.
IsPending(i) == i \in DOMAIN functions /\ i > Len(functions) - m_coFuncList

ShapeInv ==
  /\ task \in [Co -> TaskRecord \cup {NoTask}]
  /\ \A c \in Co : task[c] # NoTask => WellFormed(task[c])
  /\ functions \in Seq(TaskRecord) /\ m_coFuncList <= Len(functions)
  /\ \A i \in DOMAIN functions :
       IsPending(i) => WellFormed(functions[i]) /\ functions[i].func # "DoAccept"

\* The coroutines are those with a task; all but the running one are blocked in
\* the call that their task is at.
CallInv ==
  \A c \in Co :
    /\ task[c] = NoTask <=> status[c] = COROUTINE_DEAD
    /\ task[c] # NoTask => running = c \/ wait[c] # NoWait
    /\ wait[c] # NoWait =>
         /\ task[c] # NoTask /\ InIo(c)
         /\ wait[c].fd = Target(task[c]) /\ wait[c].op = OpAt(task[c].pc)

Disjoint(s, t) == {s.connector, s.client} \cap {t.connector, t.client} \subseteq {NoFd}

\* The two directions of one connection: one reads what the other writes.
Partners(h, r) ==
  /\ h.func = "HandleRequest" /\ h.pc \in {"read", "write", "return"}
  /\ r.func = "ReadServerCoroutine"
  /\ h.connector = r.client => r.client = NoFd
  /\ h.client = r.connector => r.connector = NoFd

Compatible(s, t) ==
  /\ s.listener = t.listener => t.listener = NoFd
  /\ Disjoint(s, t) \/ Partners(s, t) \/ Partners(t, s)

\* Functions that share a descriptor are the two directions of a connection,
\* whether they run already or wait in m_coFuncList.
SharingInv ==
  /\ \A c, d \in Co :
       c # d /\ task[c] # NoTask /\ task[d] # NoTask => Compatible(task[c], task[d])
  /\ \A c \in Co, i \in DOMAIN functions :
       task[c] # NoTask /\ IsPending(i) => Compatible(task[c], functions[i])
  /\ \A i, j \in DOMAIN functions :
       i # j /\ IsPending(i) /\ IsPending(j) => Compatible(functions[i], functions[j])
  /\ \A c \in Co, i \in DOMAIN functions, fd \in Pool :
       task[c] # NoTask /\ task[c].func = "DoAccept" =>
         ~(HeldByTask(c, fd) /\ HeldByFunction(i, fd))

ListenersOpen == \A fd \in Listeners : open[fd]

\* The inductive invariant.
SlaveInv ==
  /\ LoopInv
  /\ ShapeInv /\ CallInv /\ SharingInv
  /\ ListenersOpen /\ DescriptorsOwned

----------------------------------------------------------------------------
(* Functions and what they hold.                                           *)

\* The fields of a record of this shape.
LEMMA TaskFields ==
  ASSUME NEW t \in TaskRecord
  PROVE  /\ t.func \in {"DoAccept", "HandleRequest", "ReadServerCoroutine"} /\ t.pc \in Pcs
         /\ t.listener \in Listeners \cup {NoFd}
         /\ t.connector \in FdOrNone /\ t.client \in FdOrNone
         /\ t # NoTask
BY DEF TaskRecord, NoTask

LEMMA FunctionFields ==
  ASSUME NEW func \in {"DoAccept", "HandleRequest", "ReadServerCoroutine"}, NEW pc \in Pcs,
         NEW listener \in Listeners \cup {NoFd},
         NEW connector \in FdOrNone, NEW client \in FdOrNone
  PROVE  /\ Function(func, pc, listener, connector, client) \in TaskRecord
         /\ Function(func, pc, listener, connector, client).func = func
         /\ Function(func, pc, listener, connector, client).pc = pc
         /\ Function(func, pc, listener, connector, client).listener = listener
         /\ Function(func, pc, listener, connector, client).connector = connector
         /\ Function(func, pc, listener, connector, client).client = client
BY DEF Function, TaskRecord

\* Coroutine c moves on in its code.
LEMMA PcMoves ==
  ASSUME ShapeInv, NEW c \in Co, task[c] # NoTask, NEW pc \in Pcs,
         task' = [task EXCEPT ![c].pc = pc]
  PROVE  /\ task' = [task EXCEPT ![c] = [task[c] EXCEPT !.pc = pc]]
         /\ task'[c] \in TaskRecord /\ task'[c].pc = pc
         /\ task'[c].func = task[c].func /\ task'[c].listener = task[c].listener
         /\ task'[c].connector = task[c].connector /\ task'[c].client = task[c].client
         /\ \A d \in Co \ {c} : task'[d] = task[d]
BY DEF ShapeInv, TaskRecord

\* It takes or loses a descriptor.
LEMMA MemberMoves ==
  ASSUME ShapeInv, NEW c \in Co, task[c] # NoTask, NEW member \in Members, NEW fd \in FdOrNone,
         task' = [task EXCEPT ![c][member] = fd]
  PROVE  /\ task'[c] \in TaskRecord /\ task'[c].pc = task[c].pc
         /\ task'[c].func = task[c].func /\ task'[c].listener = task[c].listener
         /\ task'[c].connector = (IF member = "connector" THEN fd ELSE task[c].connector)
         /\ task'[c].client = (IF member = "client" THEN fd ELSE task[c].client)
         /\ \A d \in Co \ {c} : task'[d] = task[d]
BY DEF ShapeInv, TaskRecord, Members

\* Both at once.
LEMMA TaskMoves ==
  ASSUME ShapeInv, NEW c \in Co, task[c] # NoTask, NEW member \in Members, NEW fd \in FdOrNone,
         NEW pc \in Pcs, task' = [task EXCEPT ![c][member] = fd, ![c].pc = pc]
  PROVE  /\ task'[c] \in TaskRecord /\ task'[c].pc = pc
         /\ task'[c].func = task[c].func /\ task'[c].listener = task[c].listener
         /\ task'[c].connector = (IF member = "connector" THEN fd ELSE task[c].connector)
         /\ task'[c].client = (IF member = "client" THEN fd ELSE task[c].client)
         /\ \A d \in Co \ {c} : task'[d] = task[d]
BY DEF ShapeInv, TaskRecord, Members

LEMMA PoolFacts == /\ NoFd \notin Pool /\ NoFd \notin Listeners
                   /\ Pool \subseteq Fd /\ \A fd \in Pool : fd \notin Listeners
BY DEF Pool

\* s is what is left of t when it has gone on or given descriptors back.
Shrinks(s, t) ==
  /\ s.func = t.func /\ s.listener = t.listener
  /\ s.connector \in {t.connector, NoFd} /\ s.client \in {t.client, NoFd}
  /\ t.pc \in {"read", "write", "return"} => s.pc \in {"read", "write", "return"}

LEMMA ShrinksReflexive == ASSUME NEW t PROVE Shrinks(t, t)
BY DEF Shrinks

LEMMA CompatibleSymmetric == ASSUME NEW s, NEW t, Compatible(s, t) PROVE Compatible(t, s)
BY DEF Compatible, Disjoint

\* Two functions that share a descriptor wrongly, shared it before.
LEMMA ShrinksCompatible ==
  ASSUME NEW s, NEW t, NEW u, NEW v, Shrinks(s, u), Shrinks(t, v), Compatible(u, v)
  PROVE  Compatible(s, t)
<1>1. s.listener = t.listener => t.listener = NoFd
  BY DEF Shrinks, Compatible
<1>2. CASE Disjoint(u, v)
  BY <1>1, <1>2 DEF Shrinks, Compatible, Disjoint
<1>3. CASE Partners(u, v)
  BY <1>1, <1>3 DEF Shrinks, Compatible, Partners
<1>4. CASE Partners(v, u)
  BY <1>1, <1>4 DEF Shrinks, Compatible, Partners
<1> QED  BY <1>2, <1>3, <1>4 DEF Compatible

\* Before HandleRequest has started the other direction nobody shares with it,
\* and nobody ever shares with DoAccept.
Alone(t) == t.func = "DoAccept" \/ (t.func = "HandleRequest" /\ t.pc \notin {"read", "write", "return"})

LEMMA AloneDisjoint ==
  ASSUME NEW s, NEW t, Alone(s), Compatible(s, t) \/ Compatible(t, s)
  PROVE  Disjoint(s, t)
BY DEF Alone, Compatible, Partners, Disjoint

----------------------------------------------------------------------------
(* Which functions share descriptors.                                      *)

LEMMA SharingShrinks ==
  ASSUME SharingInv,
         \A c \in Co : task'[c] # NoTask => task[c] # NoTask /\ Shrinks(task'[c], task[c]),
         \A i \in DOMAIN functions' :
           /\ i \in DOMAIN functions
           /\ IsPending(i)' => IsPending(i) /\ functions'[i] = functions[i]
           /\ \A fd \in Pool : HeldByFunction(i, fd)' => HeldByFunction(i, fd)
  PROVE  SharingInv'
<1>1. ASSUME NEW c \in Co, NEW d \in Co, c # d, task'[c] # NoTask, task'[d] # NoTask
      PROVE  Compatible(task'[c], task'[d])
  BY <1>1, ShrinksCompatible DEF SharingInv
<1>2. ASSUME NEW c \in Co, NEW i \in DOMAIN functions', task'[c] # NoTask, IsPending(i)'
      PROVE  Compatible(task'[c], functions'[i])
  <2>1. IsPending(i) /\ functions'[i] = functions[i] /\ Compatible(task[c], functions[i])
    BY <1>2 DEF SharingInv
  <2>2. Shrinks(task'[c], task[c]) /\ Shrinks(functions[i], functions[i])
    BY <1>2, ShrinksReflexive
  <2> QED  BY <2>1, <2>2, ShrinksCompatible
<1>3. ASSUME NEW i \in DOMAIN functions', NEW j \in DOMAIN functions', i # j, IsPending(i)',
             IsPending(j)'
      PROVE  Compatible(functions'[i], functions'[j])
  BY <1>3 DEF SharingInv
<1>4. ASSUME NEW c \in Co, NEW i \in DOMAIN functions', NEW fd \in Pool, task'[c] # NoTask,
             task'[c].func = "DoAccept", HeldByTask(c, fd)', HeldByFunction(i, fd)'
      PROVE  FALSE
  <2>1. task[c] # NoTask /\ task[c].func = "DoAccept" /\ HeldByTask(c, fd)
    BY <1>4, PoolFacts DEF Shrinks, HeldByTask
  <2> QED  BY <1>4, <2>1 DEF SharingInv
<1> QED  BY <1>1, <1>2, <1>3, <1>4 DEF SharingInv

\* The kernel hands out a number that nobody holds.
LEMMA SharingGains ==
  ASSUME SharingInv, DescriptorsOwned, NEW c \in Co, task[c] # NoTask, Alone(task[c]),
         NEW fd \in Pool, ~open[fd],
         task'[c] # NoTask, task'[c].func = task[c].func, task'[c].listener = task[c].listener,
         {task'[c].connector, task'[c].client} \subseteq {task[c].connector, task[c].client, fd},
         \A d \in Co \ {c} : task'[d] = task[d],
         UNCHANGED <<functions, m_coFuncList>>
  PROVE  SharingInv'
<1>1. /\ \A d \in Co : ~HeldByTask(d, fd)
      /\ \A i \in DOMAIN functions : ~HeldByFunction(i, fd)
  BY DEF DescriptorsOwned
<1>2. ASSUME NEW t, Compatible(task[c], t), fd \notin {t.connector, t.client}
      PROVE  Compatible(task'[c], t)
  <2>1. Disjoint(task[c], t)
    BY <1>2, AloneDisjoint
  <2> QED  BY <1>2, <2>1 DEF Compatible, Disjoint
<1>3. ASSUME NEW i \in DOMAIN functions
      PROVE  (IsPending(i)' <=> IsPending(i)) /\ \A f \in Pool : HeldByFunction(i, f)' <=> HeldByFunction(i, f)
  BY <1>3 DEF IsPending, HeldByFunction
<1>4. ASSUME NEW d \in Co \ {c}, task[d] # NoTask
      PROVE  Compatible(task'[c], task[d]) /\ Compatible(task[d], task'[c])
  <2>1. Compatible(task[c], task[d]) /\ fd \notin {task[d].connector, task[d].client}
    BY <1>1, <1>4 DEF SharingInv, HeldByTask
  <2> QED  BY <1>2, <2>1, CompatibleSymmetric
<1>5. ASSUME NEW a \in Co, NEW b \in Co, a # b, task'[a] # NoTask, task'[b] # NoTask
      PROVE  Compatible(task'[a], task'[b])
  BY <1>4, <1>5 DEF SharingInv
<1>6. ASSUME NEW d \in Co, NEW i \in DOMAIN functions, task'[d] # NoTask, IsPending(i)
      PROVE  Compatible(task'[d], functions[i])
  <2>1. CASE d = c
    <3>1. Compatible(task[c], functions[i])
          /\ fd \notin {functions[i].connector, functions[i].client}
      BY <1>1, <1>6 DEF SharingInv, HeldByFunction
    <3> QED  BY <1>2, <2>1, <3>1
  <2> QED  BY <1>6, <2>1 DEF SharingInv
<1>7. ASSUME NEW d \in Co, NEW i \in DOMAIN functions, NEW f \in Pool, task'[d] # NoTask,
             task'[d].func = "DoAccept", HeldByTask(d, f)', HeldByFunction(i, f)
      PROVE  FALSE
  <2>1. CASE f = fd
    BY <1>1, <1>7, <2>1
  <2>2. CASE f # fd /\ d = c
    BY <1>7, <2>2 DEF SharingInv, HeldByTask
  <2>3. CASE d # c
    BY <1>7, <2>3 DEF SharingInv, HeldByTask
  <2> QED  BY <2>1, <2>2, <2>3
<1> QED  BY <1>3, <1>5, <1>6, <1>7 DEF SharingInv

\* A function that is alone puts one that gets its descriptors into m_coFuncList.
LEMMA SharingSpawns ==
  ASSUME ShapeInv, m_coFuncList \in Nat, SharingInv, NEW c \in Co, task[c] # NoTask, Alone(task[c]),
         task'[c] # NoTask, Shrinks(task'[c], task[c]),
         \A d \in Co \ {c} : task'[d] = task[d],
         NEW f \in TaskRecord, functions' = Append(functions, f),
         m_coFuncList' = m_coFuncList + 1,
         f.listener = NoFd,
         {f.connector, f.client} \subseteq {task[c].connector, task[c].client, NoFd},
         Compatible(task'[c], f),
         task[c].func = "DoAccept" => task'[c].connector = NoFd /\ task'[c].client = NoFd
  PROVE  SharingInv'
<1> DEFINE n == Len(functions) + 1
<1>1. /\ n \in Nat /\ DOMAIN functions = 1 .. n - 1
      /\ DOMAIN functions' = 1 .. n /\ Len(functions') = n /\ functions'[n] = f
      /\ \A i \in DOMAIN functions : functions'[i] = functions[i]
  BY DEF ShapeInv
<1>2. \A i \in DOMAIN functions : IsPending(i)' <=> IsPending(i)
  BY <1>1 DEF IsPending
<1>3. ASSUME NEW t, Compatible(task[c], t)
      PROVE  Compatible(t, f) /\ Compatible(f, t)
  <2>1. Disjoint(task[c], t)
    BY <1>3, AloneDisjoint
  <2>2. Compatible(t, f)
    BY <2>1 DEF Compatible, Disjoint
  <2> QED  BY <2>2, CompatibleSymmetric
<1>4. ASSUME NEW d \in Co, task'[d] # NoTask
      PROVE  task[d] # NoTask /\ Shrinks(task'[d], task[d])
  BY <1>4, ShrinksReflexive
<1>5. ASSUME NEW a \in Co, NEW b \in Co, a # b, task'[a] # NoTask, task'[b] # NoTask
      PROVE  Compatible(task'[a], task'[b])
  BY <1>4, <1>5, ShrinksCompatible DEF SharingInv
<1>6. ASSUME NEW d \in Co, NEW i \in DOMAIN functions', task'[d] # NoTask, IsPending(i)'
      PROVE  Compatible(task'[d], functions'[i])
  <2>1. CASE i = n /\ d = c
    BY <1>1, <2>1
  <2>2. CASE i = n /\ d # c
    <3>1. Compatible(task[c], task[d]) /\ task'[d] = task[d]
      BY <1>4, <1>6, <2>2 DEF SharingInv
    <3> QED  BY <1>1, <1>3, <2>2, <3>1
  <2>3. CASE i # n
    <3>1. i \in DOMAIN functions
      BY <1>1, <2>3
    <3>2. IsPending(i) /\ functions'[i] = functions[i] /\ Compatible(task[d], functions[i])
      BY <1>1, <1>2, <1>4, <1>6, <3>1 DEF SharingInv
    <3> QED  BY <1>4, <1>6, <3>2, ShrinksCompatible, ShrinksReflexive
  <2> QED  BY <2>1, <2>2, <2>3
<1>7. ASSUME NEW i \in DOMAIN functions, IsPending(i)
      PROVE  Compatible(functions[i], f) /\ Compatible(f, functions[i])
  BY <1>3, <1>7 DEF SharingInv
<1>8. ASSUME NEW i \in DOMAIN functions', NEW j \in DOMAIN functions', i # j, IsPending(i)',
             IsPending(j)'
      PROVE  Compatible(functions'[i], functions'[j])
  <2>1. CASE i = n
    <3>1. j \in DOMAIN functions
      BY <1>1, <1>8, <2>1
    <3> QED  BY <1>1, <1>2, <1>7, <1>8, <2>1, <3>1
  <2>2. CASE j = n
    <3>1. i \in DOMAIN functions
      BY <1>1, <1>8, <2>2
    <3> QED  BY <1>1, <1>2, <1>7, <1>8, <2>2, <3>1
  <2>3. CASE i # n /\ j # n
    <3>1. i \in DOMAIN functions /\ j \in DOMAIN functions
      BY <1>1, <2>3
    <3> QED  BY <1>1, <1>2, <1>8, <3>1 DEF SharingInv
  <2> QED  BY <2>1, <2>2, <2>3
<1>9. ASSUME NEW d \in Co, NEW i \in DOMAIN functions', NEW fd \in Pool, task'[d] # NoTask,
             task'[d].func = "DoAccept", HeldByTask(d, fd)', HeldByFunction(i, fd)'
      PROVE  FALSE
  <2>1. task[d] # NoTask /\ task[d].func = "DoAccept" /\ HeldByTask(d, fd)
    BY <1>4, <1>9, PoolFacts DEF Shrinks, HeldByTask
  <2>2. CASE i # n
    <3>1. i \in DOMAIN functions
      BY <1>1, <2>2
    <3> QED  BY <1>1, <1>9, <2>1, <3>1 DEF SharingInv, HeldByFunction
  <2>3. CASE i = n /\ d = c
    BY <1>9, <2>1, <2>3, PoolFacts DEF HeldByTask
  <2>4. CASE i = n /\ d # c
    <3>1. Compatible(task[c], task[d])
      BY <2>1, <2>4 DEF SharingInv
    <3>2. Disjoint(task[c], task[d])
      BY <3>1, AloneDisjoint
    <3>3. fd \in {task[c].connector, task[c].client}
      BY <1>1, <1>9, <2>4, PoolFacts DEF HeldByFunction
    <3> QED  BY <2>1, <3>2, <3>3, PoolFacts DEF Disjoint, HeldByTask
  <2> QED  BY <2>2, <2>3, <2>4
<1> HIDE DEF n
<1> QED  BY <1>5, <1>6, <1>8, <1>9 DEF SharingInv

\* RunNewCoFunc starts the first function that waits.
LEMMA SharingStarts ==
  ASSUME ShapeInv, m_coFuncList \in Nat, m_coFuncList > 0, SharingInv,
         NEW k \in Co, task[k] = NoTask,
         task' = [task EXCEPT ![k] = functions[Len(functions) - m_coFuncList + 1]],
         m_coFuncList' = m_coFuncList - 1, UNCHANGED functions
  PROVE  /\ SharingInv'
         /\ WellFormed(task'[k])
         /\ \A d \in Co \ {k} : task'[d] = task[d]
         /\ \A i \in DOMAIN functions : IsPending(i)' => IsPending(i)
         /\ \E i \in DOMAIN functions : task'[k] = functions[i]
<1> DEFINE n == Len(functions) - m_coFuncList + 1
<1>1. n \in DOMAIN functions /\ IsPending(n)
  BY DEF ShapeInv, IsPending
<1>2. ASSUME NEW i \in DOMAIN functions
      PROVE  IsPending(i)' <=> IsPending(i) /\ i # n
  BY <1>2 DEF ShapeInv, IsPending
<1>3. task'[k] = functions[n] /\ \A d \in Co \ {k} : task'[d] = task[d]
  BY DEF ShapeInv
<1> HIDE DEF n
<1>4. WellFormed(functions[n]) /\ functions[n].func # "DoAccept"
  BY <1>1 DEF ShapeInv
<1>5. ASSUME NEW a \in Co, NEW b \in Co, a # b, task'[a] # NoTask, task'[b] # NoTask
      PROVE  Compatible(task'[a], task'[b])
  <2>1. CASE a = k
    BY <1>1, <1>3, <1>5, <2>1, CompatibleSymmetric DEF SharingInv
  <2>2. CASE b = k
    BY <1>1, <1>3, <1>5, <2>2 DEF SharingInv
  <2> QED  BY <1>3, <1>5, <2>1, <2>2 DEF SharingInv
<1>6. ASSUME NEW d \in Co, NEW i \in DOMAIN functions, task'[d] # NoTask, IsPending(i)'
      PROVE  Compatible(task'[d], functions[i])
  BY <1>1, <1>2, <1>3, <1>6 DEF SharingInv
<1>7. ASSUME NEW d \in Co, NEW i \in DOMAIN functions, NEW fd \in Pool, task'[d] # NoTask,
             task'[d].func = "DoAccept", HeldByTask(d, fd)', HeldByFunction(i, fd)'
      PROVE  FALSE
  <2>1. d # k
    BY <1>3, <1>4, <1>7
  <2> QED  BY <1>3, <1>7, <2>1 DEF SharingInv, HeldByTask, HeldByFunction
<1>8. SharingInv'
  BY <1>2, <1>5, <1>6, <1>7 DEF SharingInv
<1> QED  BY <1>1, <1>2, <1>3, <1>4, <1>8

\* SlaveRun starts a DoAccept for a listener that has none.
LEMMA SharingRuns ==
  ASSUME ShapeInv, SharingInv, NEW k \in Co, task[k] = NoTask, NEW fd \in Listeners,
         \A d \in Co : task[d] # NoTask => task[d].listener # fd,
         task' = [task EXCEPT ![k] = Function("DoAccept", "accept", fd, NoFd, NoFd)],
         UNCHANGED <<functions, m_coFuncList>>
  PROVE  SharingInv' /\ WellFormed(task'[k]) /\ \A d \in Co \ {k} : task'[d] = task[d]
<1> DEFINE t == Function("DoAccept", "accept", fd, NoFd, NoFd)
<1>1. /\ t.func = "DoAccept" /\ t.listener = fd /\ t.connector = NoFd /\ t.client = NoFd
      /\ t.pc = "accept" /\ t \in TaskRecord
  BY DEF Function, TaskRecord, Pcs, FdOrNone
<1>2. task'[k] = t /\ \A d \in Co \ {k} : task'[d] = task[d]
  BY DEF ShapeInv
<1> HIDE DEF t
<1>3. WellFormed(t)
  BY <1>1, PoolFacts DEF WellFormed
<1>4. ASSUME NEW s, s.listener # fd
      PROVE  Compatible(t, s) /\ Compatible(s, t)
  BY <1>1, <1>4 DEF Compatible, Disjoint
<1>5. ASSUME NEW i \in DOMAIN functions, IsPending(i)
      PROVE  functions[i].listener # fd
  BY <1>5, PoolFacts DEF ShapeInv, WellFormed
<1>6. \A i \in DOMAIN functions : IsPending(i)' <=> IsPending(i)
  BY DEF IsPending
<1>7. ASSUME NEW d \in Co, NEW i \in DOMAIN functions, NEW f \in Pool, task'[d] # NoTask,
             task'[d].func = "DoAccept", HeldByTask(d, f)', HeldByFunction(i, f)'
      PROVE  FALSE
  <2>1. CASE d = k
    BY <1>1, <1>2, <1>7, <2>1, PoolFacts DEF HeldByTask
  <2>2. CASE d # k
    BY <1>2, <1>7, <2>2 DEF SharingInv, HeldByTask, HeldByFunction
  <2> QED  BY <2>1, <2>2
<1>8. ASSUME NEW a \in Co, NEW b \in Co, a # b, task'[a] # NoTask, task'[b] # NoTask
      PROVE  Compatible(task'[a], task'[b])
  BY <1>2, <1>4, <1>8 DEF SharingInv
<1>9. ASSUME NEW d \in Co, NEW i \in DOMAIN functions, task'[d] # NoTask, IsPending(i)
      PROVE  Compatible(task'[d], functions[i])
  BY <1>2, <1>4, <1>5, <1>9 DEF SharingInv
<1> QED  BY <1>2, <1>3, <1>6, <1>7, <1>8, <1>9 DEF SharingInv

----------------------------------------------------------------------------
(* Who holds a descriptor.                                                 *)

Held(fd) == \/ \E c \in Co : HeldByTask(c, fd)
            \/ \E i \in DOMAIN functions : HeldByFunction(i, fd)

\* Nothing is opened or closed and nobody takes or drops a descriptor.
LEMMA OwnedKept ==
  ASSUME DescriptorsOwned, \A fd \in Pool : open'[fd] = open[fd] /\ (Held(fd)' <=> Held(fd))
  PROVE  DescriptorsOwned'
BY DEF DescriptorsOwned, Held

\* Coroutine c opens fd.
LEMMA OwnedGains ==
  ASSUME TypeOK, DescriptorsOwned, NEW c \in Co, NEW fd \in Pool,
         open' = [open EXCEPT ![fd] = TRUE], HeldByTask(c, fd)',
         \A f \in Pool : HeldByTask(c, f) => HeldByTask(c, f)',
         \A f \in Pool \ {fd} : HeldByTask(c, f)' => HeldByTask(c, f),
         \A d \in Co \ {c} : task'[d] = task[d], UNCHANGED functions
  PROVE  DescriptorsOwned'
<1>1. \A f \in Pool : open'[f] <=> open[f] \/ f = fd
  BY PoolFacts DEF TypeOK
<1>2. \A f \in Pool, d \in Co \ {c} : HeldByTask(d, f)' <=> HeldByTask(d, f)
  BY DEF HeldByTask
<1>3. \A f \in Pool, i \in DOMAIN functions : HeldByFunction(i, f)' <=> HeldByFunction(i, f)
  BY DEF HeldByFunction
<1> QED  BY <1>1, <1>2, <1>3 DEF DescriptorsOwned

\* fd is given up by one owner, and closed if that was the last one.
LEMMA OwnedLoses ==
  ASSUME TypeOK, DescriptorsOwned, NEW fd \in Pool,
         \A f \in Pool \ {fd} : Held(f)' <=> Held(f), Held(fd)' => Held(fd),
         IF ~Held(fd)' THEN open' = [open EXCEPT ![fd] = FALSE]
                       ELSE UNCHANGED open
  PROVE  DescriptorsOwned'
<1>1. \A f \in Pool : open'[f] <=> open[f] /\ ~(f = fd /\ ~Held(fd)')
  BY PoolFacts DEF TypeOK
<1>2. \A f \in Pool : open[f] <=> Held(f)
  BY DEF DescriptorsOwned, Held
<1>3. \A f \in Pool : open'[f] <=> Held(f)'
  BY <1>1, <1>2
<1> QED  BY <1>3 DEF DescriptorsOwned, Held

----------------------------------------------------------------------------
(* Every step of the slave is one of the event loop.                       *)

\* What a function makes its call on: a listener, or a descriptor it holds.
LEMMA CallTarget ==
  ASSUME NEW t, WellFormed(t), OpAt(t.pc) # "none"
  PROVE  /\ t.pc \in {"accept", "connect", "read", "write"}
         /\ OpAt(t.pc) \in Op /\ TimeoutAt(t.pc) \in Timeouts
         /\ Target(t) \in Fd /\ OpAt(t.pc) \in Ops[Target(t)]
         /\ IF t.pc = "accept" THEN Target(t) \in Listeners /\ Target(t) = t.listener
                               ELSE Target(t) \in Pool /\ Target(t) \in {t.connector, t.client}
<1>1. /\ t.func \in {"DoAccept", "HandleRequest", "ReadServerCoroutine"} /\ t.pc \in Pcs
      /\ t.listener \in Listeners \cup {NoFd}
      /\ t.connector \in FdOrNone /\ t.client \in FdOrNone
  BY TaskFields DEF WellFormed
<1>2. t.pc \in {"accept", "connect", "read", "write"}
  BY <1>1 DEF OpAt, Pcs
<1>3. OpAt(t.pc) \in Op /\ TimeoutAt(t.pc) \in Timeouts
  BY <1>2 DEF OpAt, TimeoutAt, Op
<1>4. CASE t.pc = "accept"
  <2>1. Target(t) = t.listener /\ t.listener \in Listeners
    BY <1>1, <1>4 DEF Target, WellFormed
  <2>2. OpAt(t.pc) = "Accept"
    BY <1>4 DEF OpAt
  <2> QED  BY <1>2, <1>3, <1>4, <2>1, <2>2
<1>5. CASE t.pc # "accept"
  <2>1. t.func # "DoAccept" /\ t.connector # NoFd /\ t.client # NoFd
    BY <1>2, <1>5 DEF WellFormed
  <2>2. Target(t) \in {t.connector, t.client}
    BY <1>5 DEF Target
  <2>3. Target(t) \in Pool
    BY <1>1, <2>1, <2>2 DEF FdOrNone
  <2>4. Target(t) \in Fd /\ Target(t) \notin Listeners
    BY <2>3 DEF Pool
  <2>5. OpAt(t.pc) \in {"Connect", "Read", "Write"}
    BY <1>2, <1>5 DEF OpAt
  <2> QED  BY <1>2, <1>3, <1>5, <2>2, <2>3, <2>4, <2>5
<1> QED  BY <1>4, <1>5

LEMMA CallingTarget ==
  ASSUME ShapeInv, NEW c \in Co, Calling(c)
  PROVE  /\ WellFormed(task[c]) /\ task[c].pc \in {"accept", "connect", "read", "write"}
         /\ OpAt(task[c].pc) \in Op /\ TimeoutAt(task[c].pc) \in Timeouts
         /\ Target(task[c]) \in Fd /\ OpAt(task[c].pc) \in Ops[Target(task[c])]
         /\ IF task[c].pc = "accept"
            THEN Target(task[c]) \in Listeners /\ Target(task[c]) = task[c].listener
            ELSE Target(task[c]) \in Pool /\ HeldByTask(c, Target(task[c]))
<1>1. WellFormed(task[c]) /\ OpAt(task[c].pc) # "none" /\ task[c] # NoTask
  BY DEF ShapeInv, Calling
<1> QED  BY <1>1, CallTarget DEF HeldByTask

LEMMA CallIsLoopStep ==
  ASSUME ShapeInv, NEW c \in Co, CallSucceeds(c) \/ CallFails(c) \/ CallWaits(c) \/ CallEnds(c)
  PROVE  [Next]_vars
<1>1. Calling(c)
  BY DEF CallSucceeds, CallFails, CallWaits, CallEnds
<1>2. /\ Target(task[c]) \in Fd /\ OpAt(task[c].pc) \in Ops[Target(task[c])]
      /\ TimeoutAt(task[c].pc) \in Timeouts
  BY <1>1, CallingTarget
<1>3. CASE CallSucceeds(c)
  <2>1. CallAtOnce(c, OpAt(task[c].pc), Target(task[c]))
    BY <1>3 DEF CallSucceeds
  <2> QED  BY <1>2, <2>1 DEF Next, CoroutineStep
<1>4. CASE CallFails(c)
  BY <1>4 DEF CallFails
<1>5. CASE CallWaits(c)
  <2>1. CallBlocks(c, OpAt(task[c].pc), Target(task[c]), TimeoutAt(task[c].pc))
    BY <1>5 DEF CallWaits
  <2> QED  BY <1>2, <2>1 DEF Next, CoroutineLeaves
<1>6. CASE CallEnds(c)
  BY <1>6 DEF CallEnds, Next, CoroutineResumes
<1> QED  BY <1>3, <1>4, <1>5, <1>6

\* The destructors.
LEMMA ReleaseFacts ==
  ASSUME ShapeInv, NEW c \in Co, NEW member \in Members, Release(c, member)
  PROVE  \E fd \in Pool :
           /\ fd = task[c][member]
           /\ task[c] # NoTask /\ task[c].pc = "return" /\ Running(c)
           /\ CloseIf(c, fd, /\ \A d \in Co \ {c} : ~HeldByTask(d, fd)
                             /\ \A i \in DOMAIN functions : ~HeldByFunction(i, fd))
           /\ task' = [task EXCEPT ![c][member] = NoFd]
           /\ UNCHANGED functions
<1>1. task[c] # NoTask /\ task[c].pc = "return"
  BY DEF Release, At
<1>2. task[c][member] \in FdOrNone
  BY <1>1 DEF ShapeInv, TaskRecord, Members
<1> QED  BY <1>1, <1>2 DEF Release, FdOrNone

LEMMA ClearFacts ==
  ASSUME ShapeInv, NEW member \in Members, Clear(member)
  PROVE  \E i \in DOMAIN functions, c \in Co, fd \in Pool :
           /\ fd = functions[i][member]
           /\ Loop("RunNewCoFunc") /\ m_coFuncList = 0
           /\ functions' = [functions EXCEPT ![i][member] = NoFd]
           /\ CloseIf(c, fd, /\ \A d \in Co : ~HeldByTask(d, fd)
                             /\ \A j \in DOMAIN functions : ~HeldByFunction(j, fd)')
           /\ UNCHANGED task
<1>1. ASSUME NEW i \in DOMAIN functions
      PROVE  functions[i][member] \in FdOrNone
  <2>1. functions[i] \in TaskRecord
    BY <1>1 DEF ShapeInv
  <2> QED  BY <2>1 DEF TaskRecord, Members
<1>2. PICK i \in DOMAIN functions, c \in Co : \E fd \in {functions[i][member]} :
       /\ fd # NoFd
       /\ functions' = [functions EXCEPT ![i][member] = NoFd]
       /\ CloseIf(c, fd, /\ \A d \in Co : ~HeldByTask(d, fd)
                         /\ \A j \in DOMAIN functions : ~HeldByFunction(j, fd)')
  BY DEF Clear
<1>3. PICK fd \in {functions[i][member]} :
       /\ fd # NoFd
       /\ functions' = [functions EXCEPT ![i][member] = NoFd]
       /\ CloseIf(c, fd, /\ \A d \in Co : ~HeldByTask(d, fd)
                         /\ \A j \in DOMAIN functions : ~HeldByFunction(j, fd)')
  BY <1>2
<1>4. fd \in Pool /\ fd = functions[i][member]
  BY <1>1, <1>3 DEF FdOrNone
<1>5. Loop("RunNewCoFunc") /\ m_coFuncList = 0 /\ UNCHANGED task
  BY DEF Clear
<1> QED  BY ONLY i \in DOMAIN functions, c \in Co, <1>3, <1>4, <1>5, Zenon

LEMMA CloseIsLoopStep ==
  ASSUME ShapeInv,
         \/ \E c \in Co, member \in Members : Release(c, member)
         \/ \E member \in Members : Clear(member)
  PROVE  [Next]_vars
<1>1. ASSUME NEW c \in Co, NEW fd \in Pool, NEW last \in BOOLEAN, CloseIf(c, fd, last)
      PROVE  [Next]_vars
  BY <1>1, PoolFacts DEF CloseIf, Next, CoroutineStep
<1>2. CASE \E c \in Co, member \in Members : Release(c, member)
  <2>1. PICK c \in Co, member \in Members : Release(c, member)
    BY <1>2
  <2>2. PICK fd \in Pool :
          CloseIf(c, fd, /\ \A d \in Co \ {c} : ~HeldByTask(d, fd)
                         /\ \A i \in DOMAIN functions : ~HeldByFunction(i, fd))
    BY <2>1, ReleaseFacts
  <2> QED  BY <1>1, <2>2
<1>3. CASE \E member \in Members : Clear(member)
  <2>1. PICK c \in Co, fd \in Pool :
          CloseIf(c, fd, /\ \A d \in Co : ~HeldByTask(d, fd)
                         /\ \A j \in DOMAIN functions : ~HeldByFunction(j, fd)')
    BY <1>3, ClearFacts
  <2> QED  BY <1>1, <2>1
<1> QED  BY <1>2, <1>3

LEMMA SlaveStepIsLoopStep == ShapeInv /\ [SlaveNext]_svars => [Next]_vars
<1> SUFFICES ASSUME ShapeInv, SlaveNext PROVE [Next]_vars
  BY DEF svars
<1>1. ASSUME NEW c \in Co, SlaveRun(c) PROVE Next
  BY <1>1 DEF SlaveRun, Next, Environment
<1>2. ASSUME NEW c \in Co, CallSucceeds(c) \/ CallFails(c) \/ CallWaits(c) \/ CallEnds(c)
      PROVE  [Next]_vars
  BY <1>2, CallIsLoopStep
<1>3. CASE GoesOn
  <2>1. PICK c \in Co :
          \/ Accepted(c) \/ SpawnOnNewRequest(c) \/ Refuse(c)
          \/ NewTcpClient(c) \/ NoTcpClient(c) \/ SpawnReadServer(c)
          \/ \E member \in Members : Release(c, member)
          \/ Ends(c)
          \/ CallEnds(c)
    BY <1>3 DEF GoesOn
  <2>2. CASE Accepted(c) \/ NewTcpClient(c)
    <3>1. \E fd \in Pool : Open(c, fd)
      BY <2>2 DEF Accepted, NewTcpClient
    <3> QED  BY <3>1, PoolFacts DEF Next, CoroutineStep
  <2>3. CASE SpawnOnNewRequest(c) \/ SpawnReadServer(c)
    BY <2>3 DEF SpawnOnNewRequest, SpawnReadServer, Next, CoroutineStep
  <2>4. CASE Refuse(c)
    <3>1. WellFormed(task[c]) /\ task[c].func = "DoAccept" /\ task[c].pc = "spawn"
      BY <2>4 DEF Refuse, At, ShapeInv
    <3>2. task[c].connector # NoFd /\ task[c].connector \in FdOrNone
      BY <3>1, TaskFields DEF WellFormed
    <3>3. task[c].connector \in Fd /\ Close(c, task[c].connector)
      BY <2>4, <3>2 DEF Refuse, FdOrNone, Pool
    <3> QED  BY <3>3 DEF Next, CoroutineStep
  <2>5. CASE NoTcpClient(c)
    BY <2>5 DEF NoTcpClient
  <2>6. CASE \E member \in Members : Release(c, member)
    BY <2>6, CloseIsLoopStep
  <2>7. CASE Ends(c)
    BY <2>7 DEF Ends, Next, CoroutineLeaves
  <2> QED  BY <1>2, <2>1, <2>2, <2>3, <2>4, <2>5, <2>6, <2>7
<1>4. CASE SlaveLoop
  <2>1. CASE EnterLoop \/ StartNext \/ Cleared \/ Elsewhere
    BY <2>1 DEF EnterLoop, StartNext, Cleared, Elsewhere, Next, LoopStep
  <2>2. CASE \E member \in Members : Clear(member)
    BY <2>2, CloseIsLoopStep
  <2> QED  BY <1>4, <2>1, <2>2 DEF SlaveLoop
<1>5. CASE \/ PollInterrupted \/ Tick
           \/ \E fd \in Fd : \E e \in Event \cup {EPOLLERR} : BecomesReady(fd, e)
           \/ \E fd \in Fd : TakenByOther(fd)
  BY <1>5 DEF Next, Environment
<1> QED  BY <1>1, <1>2, <1>3, <1>4, <1>5 DEF SlaveNext

----------------------------------------------------------------------------
(* The shape of tasks and functions.                                       *)

\* The tasks of coroutines but c and the list of functions stay as they are.
LEMMA ShapeKept ==
  ASSUME ShapeInv, NEW c \in Co, task'[c] # NoTask => WellFormed(task'[c]),
         task' \in [Co -> TaskRecord \cup {NoTask}],
         \A d \in Co \ {c} : task'[d] = task[d],
         UNCHANGED <<functions, m_coFuncList>>
  PROVE  ShapeInv'
<1>1. \A i \in DOMAIN functions : IsPending(i)' <=> IsPending(i)
  BY DEF IsPending
<1> QED  BY <1>1 DEF ShapeInv

\* One more function waits.
LEMMA ShapeSpawns ==
  ASSUME ShapeInv, m_coFuncList \in Nat, NEW c \in Co, WellFormed(task'[c]),
         task' \in [Co -> TaskRecord \cup {NoTask}],
         \A d \in Co \ {c} : task'[d] = task[d],
         NEW f, WellFormed(f), f.func # "DoAccept",
         functions' = Append(functions, f), m_coFuncList' = m_coFuncList + 1
  PROVE  ShapeInv'
<1>1. f \in TaskRecord
  BY DEF WellFormed
<1>2. /\ functions' \in Seq(TaskRecord) /\ Len(functions') = Len(functions) + 1
      /\ Len(functions) \in Nat
      /\ DOMAIN functions' = 1 .. Len(functions) + 1 /\ functions'[Len(functions) + 1] = f
      /\ DOMAIN functions = 1 .. Len(functions)
      /\ \A i \in DOMAIN functions : functions'[i] = functions[i]
  BY <1>1 DEF ShapeInv
<1>3. \A i \in DOMAIN functions : IsPending(i)' <=> IsPending(i)
  BY <1>2 DEF IsPending
<1>4. \A d \in Co : task'[d] # NoTask => WellFormed(task'[d])
  BY DEF ShapeInv
<1>5. ASSUME NEW i \in DOMAIN functions', IsPending(i)'
      PROVE  WellFormed(functions'[i]) /\ functions'[i].func # "DoAccept"
  <2>1. CASE i = Len(functions) + 1
    BY <1>2, <2>1
  <2>2. CASE i # Len(functions) + 1
    <3>1. i \in DOMAIN functions
      BY <1>2, <2>2
    <3> QED  BY <1>2, <1>3, <1>5, <3>1 DEF ShapeInv
  <2> QED  BY <2>1, <2>2
<1>6. m_coFuncList' <= Len(functions')
  BY <1>2 DEF ShapeInv
<1> QED  BY <1>2, <1>4, <1>5, <1>6 DEF ShapeInv

----------------------------------------------------------------------------
(* Who is blocked, and in which call.                                      *)

\* The running coroutine goes on.
LEMMA CallGoesOn ==
  ASSUME CallInv, NEW c \in Co, running = c, UNCHANGED schedVars,
         task[c] # NoTask, task'[c] # NoTask, wait'[c] = NoWait,
         \A d \in Co \ {c} : task'[d] = task[d] /\ wait'[d] = wait[d]
  PROVE  CallInv'
<1> SUFFICES ASSUME NEW d \in Co
             PROVE  /\ task'[d] = NoTask <=> status'[d] = COROUTINE_DEAD
                    /\ task'[d] # NoTask => running' = d \/ wait'[d] # NoWait
                    /\ wait'[d] # NoWait =>
                         /\ task'[d] # NoTask /\ InIo(d)'
                         /\ wait'[d].fd = Target(task'[d]) /\ wait'[d].op = OpAt(task'[d].pc)
  BY DEF CallInv
<1>1. CASE d = c
  BY <1>1 DEF CallInv, schedVars
<1>2. CASE d # c
  BY <1>2 DEF CallInv, schedVars, InIo
<1> QED  BY <1>1, <1>2

\* The loop goes on, and may resume a coroutine.
LEMMA CallLoops ==
  ASSUME CallInv, running = NoCo, UNCHANGED <<task, wait>>,
         \A d \in Co : status'[d] = COROUTINE_DEAD <=> status[d] = COROUTINE_DEAD
  PROVE  CallInv'
<1>1. \A d \in Co : d # NoCo
  OBVIOUS
<1> QED  BY <1>1 DEF CallInv, InIo

\* The loop, or SlaveRun, starts coroutine k.
LEMMA CallStarts ==
  ASSUME CallInv, SchedTypeOK, running = NoCo, UNCHANGED wait, NEW k \in Co, StartCoroutine(k),
         task'[k] # NoTask, \A d \in Co \ {k} : task'[d] = task[d]
  PROVE  CallInv'
<1>1. \A d \in Co : d # NoCo
  OBVIOUS
<1>2. /\ status[k] = COROUTINE_DEAD /\ status'[k] # COROUTINE_DEAD /\ running' = k
      /\ \A d \in Co \ {k} : status'[d] = status[d]
  BY DEF StartCoroutine, SchedTypeOK
<1>3. wait[k] = NoWait
  BY <1>2 DEF CallInv
<1> SUFFICES ASSUME NEW d \in Co
             PROVE  /\ task'[d] = NoTask <=> status'[d] = COROUTINE_DEAD
                    /\ task'[d] # NoTask => running' = d \/ wait'[d] # NoWait
                    /\ wait'[d] # NoWait =>
                         /\ task'[d] # NoTask /\ InIo(d)'
                         /\ wait'[d].fd = Target(task'[d]) /\ wait'[d].op = OpAt(task'[d].pc)
  BY DEF CallInv
<1>4. CASE d = k
  BY <1>2, <1>3, <1>4
<1>5. CASE d # k
  BY <1>1, <1>2, <1>5 DEF CallInv, InIo
<1> QED  BY <1>4, <1>5

\* The task of the running coroutine; nobody else's code is between two calls.
LEMMA AtRuns ==
  ASSUME LoopInv, CallInv, NEW c \in Co, task[c] # NoTask, OpAt(task[c].pc) = "none"
  PROVE  running = c /\ wait[c] = NoWait
<1>1. wait[c] = NoWait
  BY DEF CallInv, InIo, Op
<1> QED  BY <1>1 DEF CallInv

----------------------------------------------------------------------------
(* The steps of coroutines.                                                *)

SlaveParts == ShapeInv /\ CallInv /\ SharingInv /\ ListenersOpen /\ DescriptorsOwned

\* Where the code goes on after a call fits what the function holds.
LEMMA AfterCall ==
  ASSUME NEW t, WellFormed(t), t.pc \in {"accept", "connect", "read", "write"},
         NEW ok \in BOOLEAN, NEW pc \in After(t.pc, ok)
  PROVE  /\ pc \in Pcs
         /\ t.pc \in {"read", "write", "return"} => pc \in {"read", "write", "return"}
         /\ WellFormed([t EXCEPT !.pc = pc])
<1>1. /\ t.pc = "accept" => pc \in {"open", "accept"}
      /\ t.pc = "connect" => pc \in {"spawn", "return"}
      /\ t.pc = "read" => pc \in {"write", "return"}
      /\ t.pc = "write" => pc \in {"read", "write", "return"}
  BY DEF After
<1>2. pc \in Pcs
  BY <1>1 DEF Pcs
<1> DEFINE s == [t EXCEPT !.pc = pc]
<1>3. /\ s \in TaskRecord /\ s.pc = pc /\ s.func = t.func /\ s.listener = t.listener
      /\ s.connector = t.connector /\ s.client = t.client
  BY <1>2 DEF WellFormed, TaskRecord
<1>4. WellFormed(s)
  <2> HIDE DEF s
  <2> QED  BY <1>1, <1>3 DEF WellFormed
<1> QED  BY <1>1, <1>2, <1>4

LEMMA CallMoves ==
  ASSUME SlaveInv, NEW c \in Co, Calling(c), running = c, UNCHANGED schedVars,
         NEW ok \in BOOLEAN, GoesTo(c, After(task[c].pc, ok)),
         wait'[c] = NoWait, \A d \in Co \ {c} : wait'[d] = wait[d],
         UNCHANGED <<functions, m_coFuncList, open>>
  PROVE  SlaveParts'
<1>1. ShapeInv /\ CallInv /\ SharingInv /\ ListenersOpen /\ DescriptorsOwned /\ task[c] # NoTask
  BY DEF SlaveInv, Calling
<1>2. WellFormed(task[c]) /\ task[c].pc \in {"accept", "connect", "read", "write"}
  BY <1>1, CallingTarget
<1>3. PICK pc \in After(task[c].pc, ok) : task' = [task EXCEPT ![c].pc = pc]
  BY DEF GoesTo
<1>4. /\ pc \in Pcs /\ WellFormed([task[c] EXCEPT !.pc = pc])
      /\ task[c].pc \in {"read", "write", "return"} => pc \in {"read", "write", "return"}
  BY <1>2, AfterCall
<1>5. /\ task' = [task EXCEPT ![c] = [task[c] EXCEPT !.pc = pc]]
      /\ task'[c] \in TaskRecord /\ task'[c].pc = pc
      /\ task'[c].func = task[c].func /\ task'[c].listener = task[c].listener
      /\ task'[c].connector = task[c].connector /\ task'[c].client = task[c].client
      /\ \A d \in Co \ {c} : task'[d] = task[d]
  BY <1>1, <1>3, <1>4, PcMoves
<1>6. task'[c] # NoTask
  BY <1>5, TaskFields
<1>7. ShapeInv'
  <2>1. task'[c] = [task[c] EXCEPT !.pc = pc] /\ task' \in [Co -> TaskRecord \cup {NoTask}]
    BY <1>1, <1>5 DEF ShapeInv
  <2> QED  BY <1>1, <1>4, <1>5, <2>1, ShapeKept
<1>8. CallInv'
  BY <1>1, <1>5, <1>6, CallGoesOn
<1>9. SharingInv'
  <2>1. Shrinks(task'[c], task[c])
    BY <1>4, <1>5 DEF Shrinks
  <2>2. \A d \in Co : task'[d] # NoTask => task[d] # NoTask /\ Shrinks(task'[d], task[d])
    BY <1>1, <1>5, <2>1, ShrinksReflexive
  <2> QED  BY <1>1, <2>2, SharingShrinks DEF IsPending, HeldByFunction
<1>10. DescriptorsOwned'
  <2>1. \A d \in Co, fd \in Pool : HeldByTask(d, fd)' <=> HeldByTask(d, fd)
    BY <1>1, <1>5, <1>6 DEF HeldByTask
  <2> QED  BY <1>1, <2>1, OwnedKept DEF Held, HeldByFunction
<1> QED  BY <1>1, <1>7, <1>8, <1>9, <1>10 DEF SlaveParts, ListenersOpen

\* The coroutine blocks in the call that its task is at.
LEMMA CallWaitsKeeps ==
  ASSUME SlaveInv, NEW c \in Co, CallWaits(c)
  PROVE  SlaveParts'
<1> DEFINE w == [op |-> OpAt(task[c].pc), fd |-> Target(task[c]),
                 timeoutMs |-> TimeoutAt(task[c].pc), since |-> clock]
<1>1. /\ ShapeInv /\ CallInv /\ SharingInv /\ ListenersOpen /\ DescriptorsOwned /\ task[c] # NoTask
      /\ TypeOK
  BY DEF SlaveInv, LoopInv, CallWaits, Calling
<1>2. /\ UNCHANGED slaveVars /\ running = c /\ UNCHANGED <<open, m_coFuncList>>
      /\ wait' = [wait EXCEPT ![c] = w] /\ coroutine_yield
  BY DEF CallWaits, CallBlocks, Running, kernVars, listVars
<1>3. OpAt(task[c].pc) \in Op
  BY <1>1, CallingTarget DEF CallWaits
<1>4. CallInv'
  <2>1. /\ wait'[c] = w /\ \A d \in Co \ {c} : wait'[d] = wait[d]
        /\ status'[c] = COROUTINE_SUSPEND /\ \A d \in Co \ {c} : status'[d] = status[d]
    BY <1>1, <1>2 DEF coroutine_yield, TypeOK, SchedTypeOK
  <2>2. w.op \in Op /\ w # NoWait /\ w.fd = Target(task[c]) /\ w.op = OpAt(task[c].pc)
    BY <1>3 DEF NoWait, Op
  <2>3. task' = task
    BY <1>2 DEF slaveVars
  <2>4. \A d \in Co \ {c} : running # d
    BY <1>2
  <2> HIDE DEF w
  <2> SUFFICES ASSUME NEW d \in Co
               PROVE  /\ task'[d] = NoTask <=> status'[d] = COROUTINE_DEAD
                      /\ task'[d] # NoTask => running' = d \/ wait'[d] # NoWait
                      /\ wait'[d] # NoWait =>
                           /\ task'[d] # NoTask /\ InIo(d)'
                           /\ wait'[d].fd = Target(task'[d]) /\ wait'[d].op = OpAt(task'[d].pc)
    BY DEF CallInv
  <2>5. CASE d = c
    BY <1>1, <2>1, <2>2, <2>3, <2>5 DEF InIo
  <2>6. CASE d # c
    BY <1>1, <2>1, <2>3, <2>4, <2>6 DEF CallInv, InIo
  <2> QED  BY <2>5, <2>6
<1>5. ShapeInv'
  BY <1>1, <1>2 DEF slaveVars, ShapeInv, IsPending
<1>6. SharingInv'
  BY <1>1, <1>2 DEF slaveVars, SharingInv, IsPending, HeldByTask, HeldByFunction
<1>7. DescriptorsOwned' /\ ListenersOpen'
  BY <1>1, <1>2 DEF slaveVars, DescriptorsOwned, ListenersOpen, HeldByTask, HeldByFunction
<1> QED  BY <1>4, <1>5, <1>6, <1>7 DEF SlaveParts

LEMMA CallsKeep ==
  ASSUME SlaveInv, NEW c \in Co, CallSucceeds(c) \/ CallFails(c) \/ CallEnds(c)
  PROVE  SlaveParts'
<1>1. TypeOK
  BY DEF SlaveInv, LoopInv
<1>2. CASE CallSucceeds(c)
  <2>1. /\ Calling(c) /\ running = c /\ UNCHANGED schedVars /\ GoesTo(c, After(task[c].pc, TRUE))
        /\ wait[c] = NoWait /\ UNCHANGED <<wait, functions, m_coFuncList, open>>
    BY <1>2 DEF CallSucceeds, CallAtOnce, Running, listVars
  <2> QED  BY <2>1, CallMoves
<1>3. CASE CallFails(c)
  <2>1. /\ Calling(c) /\ running = c /\ UNCHANGED schedVars /\ GoesTo(c, After(task[c].pc, FALSE))
        /\ wait[c] = NoWait /\ UNCHANGED <<wait, functions, m_coFuncList, open>>
    BY <1>3 DEF CallFails, Running, vars, listVars, kernVars
  <2> QED  BY <2>1, CallMoves
<1>4. CASE CallEnds(c)
  <2>1. PICK ok \in BOOLEAN : GoesTo(c, After(task[c].pc, ok))
    BY <1>4 DEF CallEnds
  <2>2. /\ Calling(c) /\ running = c /\ UNCHANGED schedVars
        /\ wait' = [wait EXCEPT ![c] = NoWait] /\ UNCHANGED <<functions, m_coFuncList, open>>
    BY <1>4 DEF CallEnds, CallResumes, listVars
  <2>3. wait'[c] = NoWait /\ \A d \in Co \ {c} : wait'[d] = wait[d]
    BY <1>1, <2>2 DEF TypeOK
  <2> QED  BY <2>1, <2>2, <2>3, CallMoves
<1> QED  BY <1>2, <1>3, <1>4

\* A descriptor is taken, by ::accept or ::socket.
LEMMA OpensKeep ==
  ASSUME SlaveInv, NEW c \in Co, Accepted(c) \/ NewTcpClient(c)
  PROVE  SlaveParts'
<1>1. /\ ShapeInv /\ CallInv /\ SharingInv /\ ListenersOpen /\ DescriptorsOwned /\ TypeOK
      /\ task[c] # NoTask /\ WellFormed(task[c])
  BY DEF SlaveInv, LoopInv, ShapeInv, Accepted, NewTcpClient, At
<1>2. PICK fd \in Pool :
        /\ Open(c, fd)
        /\ \/ /\ task[c].pc = "open"
              /\ task' = [task EXCEPT ![c].connector = fd, ![c].pc = "spawn"]
           \/ /\ task[c].pc = "socket"
              /\ task' = [task EXCEPT ![c].client = fd, ![c].pc = "connect"]
  BY DEF Accepted, NewTcpClient, At
<1>3. /\ running = c /\ wait[c] = NoWait /\ ~open[fd] /\ open' = [open EXCEPT ![fd] = TRUE]
      /\ UNCHANGED <<schedVars, wait, functions, m_coFuncList>>
  BY <1>2 DEF Open, Running, listVars, Accepted, NewTcpClient
<1>4. fd \in FdOrNone /\ fd # NoFd
  BY PoolFacts DEF FdOrNone
<1>5. PICK member \in Members, pc \in Pcs :
        /\ task' = [task EXCEPT ![c][member] = fd, ![c].pc = pc]
        /\ \/ task[c].pc = "open" /\ member = "connector" /\ pc = "spawn"
           \/ task[c].pc = "socket" /\ member = "client" /\ pc = "connect"
  BY <1>2 DEF Members, Pcs
<1>6. /\ task'[c] \in TaskRecord /\ task'[c].pc = pc
      /\ task'[c].func = task[c].func /\ task'[c].listener = task[c].listener
      /\ task'[c].connector = (IF member = "connector" THEN fd ELSE task[c].connector)
      /\ task'[c].client = (IF member = "client" THEN fd ELSE task[c].client)
      /\ \A d \in Co \ {c} : task'[d] = task[d]
  BY <1>1, <1>4, <1>5, TaskMoves
<1>7. /\ task[c].pc = "open" => /\ task[c].func = "DoAccept" /\ task[c].connector = NoFd
                                /\ task[c].client = NoFd
      /\ task[c].pc = "socket" => /\ task[c].func = "HandleRequest" /\ task[c].connector # NoFd
                                  /\ task[c].client = NoFd /\ task[c].listener = NoFd
  BY <1>1, TaskFields DEF WellFormed
<1>8. task'[c] # NoTask
  BY <1>6, TaskFields
<1>9. ~HeldByTask(c, fd) /\ fd # task[c].connector
  BY <1>1, <1>3 DEF DescriptorsOwned, HeldByTask
<1>10. WellFormed(task'[c])
  <2>1. CASE task[c].pc = "open"
    <3>1. /\ task'[c].func = "DoAccept" /\ task'[c].pc = "spawn" /\ task'[c].connector = fd
          /\ task'[c].client = NoFd /\ task'[c].listener # NoFd
      BY <1>1, <1>5, <1>6, <1>7, <2>1 DEF WellFormed
    <3> QED  BY <1>4, <1>6, <3>1 DEF WellFormed
  <2>2. CASE task[c].pc = "socket"
    <3>1. /\ task'[c].func = "HandleRequest" /\ task'[c].pc = "connect" /\ task'[c].client = fd
          /\ task'[c].connector = task[c].connector /\ task'[c].listener = NoFd
      BY <1>5, <1>6, <1>7, <2>2
    <3> QED  BY <1>4, <1>6, <1>7, <1>9, <2>2, <3>1 DEF WellFormed
  <2> QED  BY <1>5, <2>1, <2>2
<1>11. ShapeInv'
  <2>1. task' \in [Co -> TaskRecord \cup {NoTask}]
    <3>1. DOMAIN task' = Co
      BY <1>1, <1>5 DEF ShapeInv
    <3>2. task' = [d \in Co |-> task'[d]]
      BY <1>1, <1>5 DEF ShapeInv
    <3> QED  BY <1>1, <1>6, <3>1, <3>2 DEF ShapeInv
  <2> QED  BY <1>1, <1>3, <1>6, <1>10, <2>1, ShapeKept
<1>12. CallInv'
  BY <1>1, <1>3, <1>6, <1>8, CallGoesOn
<1>13. SharingInv'
  <2>1. Alone(task[c])
    BY <1>5, <1>7 DEF Alone
  <2> QED  BY <1>1, <1>3, <1>6, <1>8, <2>1, SharingGains
<1>14. DescriptorsOwned'
  <2>1. HeldByTask(c, fd)'
    BY <1>5, <1>6, <1>8 DEF HeldByTask
  <2>2. \A f \in Pool : HeldByTask(c, f) => HeldByTask(c, f)'
    BY <1>1, <1>5, <1>6, <1>7, <1>8, PoolFacts DEF HeldByTask
  <2>3. \A f \in Pool \ {fd} : HeldByTask(c, f)' => HeldByTask(c, f)
    BY <1>1, <1>6 DEF HeldByTask
  <2> QED  BY <1>1, <1>3, <1>6, <2>1, <2>2, <2>3, OwnedGains
<1>15. ListenersOpen'
  BY <1>1, <1>3, PoolFacts DEF ListenersOpen, TypeOK
<1> QED  BY <1>11, <1>12, <1>13, <1>14, <1>15 DEF SlaveParts

\* NewCoroutine called by coroutine c changes nothing but m_coFuncList.
LEMMA SpawnParts ==
  ASSUME SlaveInv, NEW c \in Co, task[c] # NoTask, task[c].pc = "spawn",
         NewCoroutine(c), NEW f \in TaskRecord, functions' = Append(functions, f),
         f.listener = NoFd, f.connector = task[c].connector,
         task'[c] \in TaskRecord,
         task'[c].func = task[c].func, task'[c].listener = task[c].listener,
         task'[c].client = task[c].client,
         \A d \in Co \ {c} : task'[d] = task[d],
         DOMAIN task' = Co, task' = [d \in Co |-> task'[d]],
         \/ /\ task[c].func = "DoAccept" /\ task'[c].pc = "accept" /\ task'[c].connector = NoFd
            /\ f.func = "HandleRequest" /\ f.pc = "socket" /\ f.client = NoFd
         \/ /\ task[c].func = "HandleRequest" /\ task'[c].pc = "read"
            /\ task'[c].connector = task[c].connector
            /\ f.func = "ReadServerCoroutine" /\ f.pc = "read" /\ f.client = task[c].client
  PROVE  SlaveParts'
<1>1. /\ ShapeInv /\ CallInv /\ SharingInv /\ ListenersOpen /\ DescriptorsOwned /\ TypeOK
      /\ task[c] # NoTask /\ WellFormed(task[c]) /\ task[c].pc = "spawn"
      /\ task[c] \in TaskRecord /\ m_coFuncList \in Nat
  BY DEF SlaveInv, LoopInv, ShapeInv, WellFormed, TypeOK
<1>2. /\ running = c /\ wait[c] = NoWait /\ m_coFuncList' = m_coFuncList + 1
      /\ UNCHANGED <<schedVars, wait, open>>
  BY DEF NewCoroutine, Running, kernVars
<1>3. /\ task[c].connector \in FdOrNone /\ task[c].client \in FdOrNone
      /\ task[c].connector # NoFd
  BY <1>1, TaskFields DEF WellFormed
<1>6. task'[c] # NoTask
  BY TaskFields
<1>7. WellFormed(f) /\ f.func # "DoAccept" /\ WellFormed(task'[c])
  BY <1>1, <1>3 DEF WellFormed
<1>8. ShapeInv'
  <2>1. task' \in [Co -> TaskRecord \cup {NoTask}]
    BY <1>1 DEF ShapeInv
  <2> QED  BY <1>1, <1>2, <1>7, <2>1, ShapeSpawns
<1>9. CallInv'
  BY <1>1, <1>2, <1>6, CallGoesOn
<1>10. SharingInv'
  <2>1. Alone(task[c])
    BY <1>1 DEF Alone
  <2>2. Shrinks(task'[c], task[c])
    BY <1>1 DEF Shrinks
  <2>3. Compatible(task'[c], f)
    <3>1. CASE task[c].func = "DoAccept"
      <4>1. task'[c].client = NoFd /\ task'[c].connector = NoFd
        BY <1>1, <3>1 DEF WellFormed
      <4> QED  BY <4>1 DEF Compatible, Disjoint
    <3>2. CASE task[c].func = "HandleRequest"
      <4>1. task'[c].connector = f.client => f.client = NoFd
        BY <1>1, <3>2 DEF WellFormed
      <4>2. task'[c].client = f.connector => f.connector = NoFd
        BY <1>1, <3>2 DEF WellFormed
      <4>3. Partners(task'[c], f)
        BY <3>2, <4>1, <4>2 DEF Partners
      <4> QED  BY <4>3 DEF Compatible
    <3> QED  BY <3>1, <3>2
  <2>4. {f.connector, f.client} \subseteq {task[c].connector, task[c].client, NoFd}
    OBVIOUS
  <2>5. task[c].func = "DoAccept" => task'[c].connector = NoFd /\ task'[c].client = NoFd
    BY <1>1 DEF WellFormed
  <2> QED  BY <1>1, <1>2, <1>6, <2>1, <2>2, <2>3, <2>4, <2>5, SharingSpawns
<1>11. DescriptorsOwned'
  <2>0. PICK n : n = Len(functions) + 1
    OBVIOUS
  <2>1. /\ DOMAIN functions' = DOMAIN functions \cup {n} /\ functions'[n] = f
        /\ \A i \in DOMAIN functions : functions'[i] = functions[i]
    BY <1>1, <2>0 DEF ShapeInv
  <2>2. ASSUME NEW fd \in Pool PROVE Held(fd)' <=> Held(fd)
    <3>1. \A d \in Co \ {c} : HeldByTask(d, fd)' <=> HeldByTask(d, fd)
      BY DEF HeldByTask
    <3>2. \A i \in DOMAIN functions : HeldByFunction(i, fd)' <=> HeldByFunction(i, fd)
      BY <2>1 DEF HeldByFunction
    <3>3. HeldByTask(c, fd) => HeldByTask(c, fd)' \/ HeldByFunction(n, fd)'
      <4>1. CASE task[c].func = "DoAccept"
        BY <1>1, <2>1, <4>1, PoolFacts DEF HeldByTask, HeldByFunction, WellFormed
      <4>2. CASE task[c].func = "HandleRequest"
        BY <1>6, <4>2 DEF HeldByTask
      <4> QED  BY <4>1, <4>2
    <3>4. HeldByTask(c, fd)' => HeldByTask(c, fd)
      BY <1>1, PoolFacts DEF HeldByTask
    <3>5. HeldByFunction(n, fd)' => HeldByTask(c, fd)
      BY <1>1, <2>1, PoolFacts DEF HeldByTask, HeldByFunction
    <3>6. ASSUME Held(fd) PROVE Held(fd)'
      BY <2>1, <3>1, <3>2, <3>3, <3>6 DEF Held
    <3>7. ASSUME Held(fd)' PROVE Held(fd)
      BY <2>1, <3>1, <3>2, <3>4, <3>5, <3>7 DEF Held
    <3> QED  BY <3>6, <3>7
  <2> QED  BY <1>1, <1>2, <2>2, OwnedKept
<1> QED  BY <1>1, <1>2, <1>8, <1>9, <1>10, <1>11 DEF SlaveParts, ListenersOpen

LEMMA SpawnsKeep ==
  ASSUME SlaveInv, NEW c \in Co, SpawnOnNewRequest(c) \/ SpawnReadServer(c)
  PROVE  SlaveParts'
<1>1. /\ ShapeInv /\ task[c] # NoTask /\ WellFormed(task[c]) /\ task[c].pc = "spawn"
      /\ NewCoroutine(c)
  BY DEF SlaveInv, ShapeInv, SpawnOnNewRequest, SpawnReadServer, At
<1>2. task[c].connector \in FdOrNone /\ task[c].client \in FdOrNone
  BY <1>1, TaskFields DEF WellFormed
<1>3. NoFd \in FdOrNone /\ NoFd \in Listeners \cup {NoFd} /\ {"socket", "read", "accept"} \subseteq Pcs
  BY DEF FdOrNone, Pcs
<1>4. CASE SpawnOnNewRequest(c)
  <2>1. PICK f : f = Function("HandleRequest", "socket", NoFd, task[c].connector, NoFd)
    OBVIOUS
  <2>2. /\ f \in TaskRecord /\ f.listener = NoFd /\ f.connector = task[c].connector
        /\ f.func = "HandleRequest" /\ f.pc = "socket" /\ f.client = NoFd
    BY <1>2, <1>3, <2>1 DEF Function, TaskRecord
  <2>3. /\ task' = [task EXCEPT ![c].connector = NoFd, ![c].pc = "accept"]
        /\ functions' = Append(functions, f) /\ task[c].func = "DoAccept"
    BY <1>4, <2>1 DEF SpawnOnNewRequest
  <2>4. /\ task'[c] \in TaskRecord /\ task'[c].pc = "accept"
        /\ task'[c].func = task[c].func /\ task'[c].listener = task[c].listener
        /\ task'[c].connector = NoFd /\ task'[c].client = task[c].client
        /\ \A d \in Co \ {c} : task'[d] = task[d]
        /\ DOMAIN task' = Co /\ task' = [d \in Co |-> task'[d]]
    BY <1>1, <1>3, <2>3 DEF ShapeInv, TaskRecord
  <2> QED  BY <1>1, <2>2, <2>3, <2>4, SpawnParts
<1>5. CASE SpawnReadServer(c)
  <2>1. PICK f : f = Function("ReadServerCoroutine", "read", NoFd, task[c].connector,
                              task[c].client)
    OBVIOUS
  <2>2. /\ f \in TaskRecord /\ f.listener = NoFd /\ f.connector = task[c].connector
        /\ f.func = "ReadServerCoroutine" /\ f.pc = "read" /\ f.client = task[c].client
    BY <1>2, <1>3, <2>1 DEF Function, TaskRecord
  <2>3. /\ task' = [task EXCEPT ![c].pc = "read"]
        /\ functions' = Append(functions, f) /\ task[c].func = "HandleRequest"
    BY <1>5, <2>1 DEF SpawnReadServer
  <2>4. /\ task'[c] \in TaskRecord /\ task'[c].pc = "read"
        /\ task'[c].func = task[c].func /\ task'[c].listener = task[c].listener
        /\ task'[c].connector = task[c].connector /\ task'[c].client = task[c].client
        /\ \A d \in Co \ {c} : task'[d] = task[d]
        /\ DOMAIN task' = Co /\ task' = [d \in Co |-> task'[d]]
    BY <1>1, <1>3, <2>3 DEF ShapeInv, TaskRecord
  <2> QED  BY <1>1, <2>2, <2>3, <2>4, SpawnParts
<1> QED  BY <1>4, <1>5

\* What coroutine c drops, it does not hold any more, and nobody else is affected.
LEMMA DropParts ==
  ASSUME SlaveInv, NEW c \in Co, task[c] # NoTask, running = c, wait[c] = NoWait,
         NEW fd \in Pool, NEW member \in Members, fd = task[c][member],
         UNCHANGED <<schedVars, wait, functions, m_coFuncList>>,
         IF /\ \A d \in Co \ {c} : ~HeldByTask(d, fd)
            /\ \A i \in DOMAIN functions : ~HeldByFunction(i, fd)
         THEN open' = [open EXCEPT ![fd] = FALSE] ELSE UNCHANGED open,
         WellFormed(task'[c]), task' \in [Co -> TaskRecord \cup {NoTask}],
         Shrinks(task'[c], task[c]),
         task'[c].connector = (IF member = "connector" THEN NoFd ELSE task[c].connector),
         task'[c].client = (IF member = "client" THEN NoFd ELSE task[c].client),
         \A d \in Co \ {c} : task'[d] = task[d]
  PROVE  SlaveParts'
<1>1. /\ ShapeInv /\ CallInv /\ SharingInv /\ ListenersOpen /\ DescriptorsOwned /\ TypeOK
      /\ WellFormed(task[c]) /\ task'[c] # NoTask
  BY TaskFields DEF SlaveInv, LoopInv, ShapeInv, WellFormed
<1>2. ShapeInv'
  BY <1>1, ShapeKept
<1>3. CallInv'
  BY <1>1, CallGoesOn
<1>4. SharingInv'
  <2>1. \A d \in Co : task'[d] # NoTask => task[d] # NoTask /\ Shrinks(task'[d], task[d])
    BY <1>1, ShrinksReflexive
  <2> QED  BY <1>1, <2>1, SharingShrinks DEF IsPending, HeldByFunction
<1>5. ListenersOpen'
  BY <1>1, PoolFacts DEF ListenersOpen, TypeOK
<1>6. DescriptorsOwned'
  <2>1. ASSUME NEW f \in Pool
        PROVE  /\ \A d \in Co \ {c} : HeldByTask(d, f)' <=> HeldByTask(d, f)
               /\ \A i \in DOMAIN functions : HeldByFunction(i, f)' <=> HeldByFunction(i, f)
    BY <2>1 DEF HeldByTask, HeldByFunction
  <2>2. ASSUME NEW f \in Pool \ {fd} PROVE HeldByTask(c, f)' <=> HeldByTask(c, f)
    <3>1. CASE member = "connector"
      BY <1>1, <2>2, <3>1, PoolFacts DEF HeldByTask
    <3>2. CASE member = "client"
      BY <1>1, <2>2, <3>2, PoolFacts DEF HeldByTask
    <3> QED  BY <3>1, <3>2 DEF Members
  <2>3. ~HeldByTask(c, fd)' /\ HeldByTask(c, fd)
    <3>1. CASE member = "connector"
      BY <1>1, <3>1, PoolFacts DEF HeldByTask, WellFormed
    <3>2. CASE member = "client"
      BY <1>1, <3>2, PoolFacts DEF HeldByTask, WellFormed
    <3> QED  BY <3>1, <3>2 DEF Members
  <2>4. ~Held(fd)' <=> /\ \A d \in Co \ {c} : ~HeldByTask(d, fd)
                       /\ \A i \in DOMAIN functions : ~HeldByFunction(i, fd)
    <3>1. ~Held(fd)' <=> /\ \A d \in Co : ~HeldByTask(d, fd)'
                         /\ \A i \in DOMAIN functions : ~HeldByFunction(i, fd)'
      BY DEF Held
    <3> QED  BY <2>1, <2>3, <3>1
  <2>5. \A f \in Pool \ {fd} : Held(f)' <=> Held(f)
    BY <2>1, <2>2 DEF Held
  <2>6. Held(fd)' => Held(fd)
    BY <2>3 DEF Held
  <2> QED  BY <1>1, <2>4, <2>5, <2>6, OwnedLoses
<1> QED  BY <1>2, <1>3, <1>4, <1>5, <1>6 DEF SlaveParts

\* Without a handler the connection is closed.
LEMMA RefuseKeeps ==
  ASSUME SlaveInv, NEW c \in Co, Refuse(c)
  PROVE  SlaveParts'
<1>1. /\ LoopInv /\ ShapeInv /\ CallInv /\ SharingInv /\ task[c] # NoTask /\ WellFormed(task[c])
      /\ task[c].pc = "spawn" /\ task[c].func = "DoAccept"
  BY DEF SlaveInv, ShapeInv, Refuse, At
<1>2. running = c /\ wait[c] = NoWait
  <2>1. OpAt(task[c].pc) = "none"
    BY <1>1 DEF OpAt
  <2> QED  BY <1>1, <2>1, AtRuns
<1>3. PICK fd \in Pool : fd = task[c].connector
  BY <1>1, TaskFields DEF WellFormed, FdOrNone
<1>4. /\ UNCHANGED <<schedVars, wait, functions, m_coFuncList>>
      /\ open' = [open EXCEPT ![fd] = FALSE]
      /\ task' = [task EXCEPT ![c].connector = NoFd, ![c].pc = "accept"]
  BY <1>3 DEF Refuse, Close, listVars
<1>5. "accept" \in Pcs /\ NoFd \in FdOrNone /\ "connector" \in Members
  BY DEF Pcs, FdOrNone, Members
<1>6. /\ task'[c] \in TaskRecord /\ task'[c].pc = "accept"
      /\ task'[c].func = task[c].func /\ task'[c].listener = task[c].listener
      /\ task'[c].connector = NoFd /\ task'[c].client = task[c].client
      /\ \A d \in Co \ {c} : task'[d] = task[d]
      /\ task' \in [Co -> TaskRecord \cup {NoTask}]
  BY <1>1, <1>4, <1>5 DEF ShapeInv, TaskRecord
<1>7. WellFormed(task'[c]) /\ Shrinks(task'[c], task[c])
  BY <1>1, <1>6 DEF WellFormed, Shrinks
<1>8. ASSUME NEW d \in Co \ {c} PROVE ~HeldByTask(d, fd)
  <2> SUFFICES ASSUME task[d] # NoTask PROVE fd \notin {task[d].connector, task[d].client}
    BY DEF HeldByTask
  <2>1. Compatible(task[c], task[d]) /\ Alone(task[c])
    BY <1>1 DEF SharingInv, Alone
  <2>2. Disjoint(task[c], task[d])
    BY <2>1, AloneDisjoint
  <2> QED  BY <1>3, <2>2, PoolFacts DEF Disjoint
<1>9. \A i \in DOMAIN functions : ~HeldByFunction(i, fd)
  BY <1>1, <1>3 DEF SharingInv, HeldByTask
<1>10. PICK member \in Members : member = "connector"
  BY <1>5
<1>11. fd = task[c][member]
  BY <1>3, <1>10
<1> QED  BY <1>1, <1>2, <1>4, <1>6, <1>7, <1>8, <1>9, <1>10, <1>11, DropParts

\* A function that returns destroys its pointers one by one.
LEMMA ReleaseKeeps ==
  ASSUME SlaveInv, NEW c \in Co, NEW member \in Members, Release(c, member)
  PROVE  SlaveParts'
<1>1. ShapeInv
  BY DEF SlaveInv
<1>2. PICK fd \in Pool :
        /\ fd = task[c][member]
        /\ task[c] # NoTask /\ task[c].pc = "return" /\ Running(c)
        /\ CloseIf(c, fd, /\ \A d \in Co \ {c} : ~HeldByTask(d, fd)
                          /\ \A i \in DOMAIN functions : ~HeldByFunction(i, fd))
        /\ task' = [task EXCEPT ![c][member] = NoFd]
        /\ UNCHANGED functions
  BY <1>1, ReleaseFacts
<1>3. running = c /\ wait[c] = NoWait
  BY <1>2 DEF Running
<1>4. /\ UNCHANGED <<schedVars, wait, functions, m_coFuncList>>
      /\ IF /\ \A d \in Co \ {c} : ~HeldByTask(d, fd)
            /\ \A i \in DOMAIN functions : ~HeldByFunction(i, fd)
         THEN open' = [open EXCEPT ![fd] = FALSE] ELSE UNCHANGED open
  BY <1>2 DEF CloseIf, Close, vars, listVars, kernVars
<1>5. NoFd \in FdOrNone
  BY DEF FdOrNone
<1>6. /\ task'[c] \in TaskRecord /\ task'[c].pc = task[c].pc
      /\ task'[c].func = task[c].func /\ task'[c].listener = task[c].listener
      /\ task'[c].connector = (IF member = "connector" THEN NoFd ELSE task[c].connector)
      /\ task'[c].client = (IF member = "client" THEN NoFd ELSE task[c].client)
      /\ \A d \in Co \ {c} : task'[d] = task[d]
  BY <1>1, <1>2, <1>5, MemberMoves
<1>7. task' \in [Co -> TaskRecord \cup {NoTask}]
  <2>1. DOMAIN task' = Co /\ task' = [d \in Co |-> task'[d]]
    BY <1>1, <1>2 DEF ShapeInv
  <2> QED  BY <1>1, <1>6, <2>1 DEF ShapeInv
<1>8. WellFormed(task'[c])
  <2>1. WellFormed(task[c]) /\ task'[c].pc = "return"
    BY <1>1, <1>2, <1>6 DEF ShapeInv
  <2> QED  BY <1>2, <1>6, <2>1 DEF WellFormed
<1>9. Shrinks(task'[c], task[c])
  BY <1>2, <1>6 DEF Shrinks
<1> QED  BY <1>2, <1>3, <1>4, <1>6, <1>7, <1>8, <1>9, DropParts

\* A function that holds nothing any more ends its coroutine.
LEMMA EndsKeeps ==
  ASSUME SlaveInv, NEW c \in Co, Ends(c)
  PROVE  SlaveParts'
<1>1. /\ ShapeInv /\ CallInv /\ SharingInv /\ ListenersOpen /\ DescriptorsOwned /\ TypeOK
      /\ task[c] # NoTask /\ task[c].connector = NoFd /\ task[c].client = NoFd
  BY DEF SlaveInv, LoopInv, Ends, At
<1>2. /\ running = c /\ wait[c] = NoWait /\ mainfunc_return
      /\ task' = [task EXCEPT ![c] = NoTask]
      /\ UNCHANGED <<wait, open, functions, m_coFuncList>>
  BY DEF Ends, Return, Running, listVars, kernVars
<1>3. /\ task' \in [Co -> TaskRecord \cup {NoTask}] /\ task'[c] = NoTask
      /\ \A d \in Co \ {c} : task'[d] = task[d]
  BY <1>1, <1>2 DEF ShapeInv
<1>4. ShapeInv'
  BY <1>1, <1>2, <1>3, ShapeKept
<1>5. CallInv'
  <2>1. status'[c] = COROUTINE_DEAD /\ \A d \in Co \ {c} : status'[d] = status[d] /\ running # d
    BY <1>1, <1>2 DEF mainfunc_return, TypeOK, SchedTypeOK
  <2> SUFFICES ASSUME NEW d \in Co
               PROVE  /\ task'[d] = NoTask <=> status'[d] = COROUTINE_DEAD
                      /\ task'[d] # NoTask => running' = d \/ wait'[d] # NoWait
                      /\ wait'[d] # NoWait =>
                           /\ task'[d] # NoTask /\ InIo(d)'
                           /\ wait'[d].fd = Target(task'[d]) /\ wait'[d].op = OpAt(task'[d].pc)
    BY DEF CallInv
  <2>2. CASE d = c
    BY <1>2, <1>3, <2>1, <2>2
  <2>3. CASE d # c
    BY <1>1, <1>2, <1>3, <2>1, <2>3 DEF CallInv, InIo
  <2> QED  BY <2>2, <2>3
<1>6. SharingInv'
  <2>1. \A d \in Co : task'[d] # NoTask => task[d] # NoTask /\ Shrinks(task'[d], task[d])
    BY <1>3, ShrinksReflexive
  <2> QED  BY <1>1, <1>2, <2>1, SharingShrinks DEF IsPending, HeldByFunction
<1>7. DescriptorsOwned'
  <2>1. \A d \in Co, fd \in Pool : HeldByTask(d, fd)' <=> HeldByTask(d, fd)
    BY <1>1, <1>3, PoolFacts DEF HeldByTask
  <2> QED  BY <1>1, <1>2, <2>1, OwnedKept DEF Held, HeldByFunction
<1> QED  BY <1>1, <1>2, <1>4, <1>5, <1>6, <1>7 DEF SlaveParts, ListenersOpen

----------------------------------------------------------------------------
(* The steps of the loop.                                                  *)

\* A coroutine starts: a DoAccept of SlaveRun, or the first function that waits.
LEMMA StartsKeep ==
  ASSUME SlaveInv, StartNext \/ \E c \in Co : SlaveRun(c)
  PROVE  SlaveParts'
<1>1. /\ ShapeInv /\ CallInv /\ SharingInv /\ ListenersOpen /\ DescriptorsOwned
      /\ TypeOK /\ SchedTypeOK /\ m_coFuncList \in Nat
  BY DEF SlaveInv, LoopInv, TypeOK
<1>2. CASE StartNext
  <2>1. PICK k \in Co : StartCoroutine(k)
    BY <1>1, <1>2 DEF StartNext, RunNewCoFunc
  <2>2. /\ m_coFuncList > 0 /\ m_coFuncList' = m_coFuncList - 1 /\ running = NoCo
        /\ UNCHANGED <<functions, wait, open>> /\ running' = k /\ status[k] = COROUTINE_DEAD
        /\ task' = [task EXCEPT ![k] = functions[Len(functions) - m_coFuncList + 1]]
    BY <1>1, <1>2, <2>1 DEF StartNext, RunNewCoFunc, StartCoroutine, Loop, kernVars
  <2>3. task[k] = NoTask
    BY <1>1, <2>2 DEF CallInv
  <2>4. /\ SharingInv' /\ WellFormed(task'[k])
        /\ \A d \in Co \ {k} : task'[d] = task[d]
        /\ \A i \in DOMAIN functions : IsPending(i)' => IsPending(i)
        /\ \E i \in DOMAIN functions : task'[k] = functions[i]
    BY <1>1, <2>2, <2>3, SharingStarts
  <2>5. task'[k] \in TaskRecord /\ task'[k] # NoTask
    BY <2>4, TaskFields DEF WellFormed
  <2>6. CallInv'
    BY <1>1, <2>1, <2>2, <2>4, <2>5, CallStarts
  <2>7. ShapeInv'
    <3>1. task' \in [Co -> TaskRecord \cup {NoTask}]
      <4>1. DOMAIN task' = Co /\ task' = [d \in Co |-> task'[d]]
        BY <1>1, <2>2 DEF ShapeInv
      <4> QED  BY <1>1, <2>4, <2>5, <4>1 DEF ShapeInv
    <3>2. \A d \in Co : task'[d] # NoTask => WellFormed(task'[d])
      BY <1>1, <2>4 DEF ShapeInv
    <3>3. functions' \in Seq(TaskRecord) /\ m_coFuncList' <= Len(functions')
      BY <1>1, <2>2 DEF ShapeInv
    <3>4. \A i \in DOMAIN functions' :
            IsPending(i)' => WellFormed(functions'[i]) /\ functions'[i].func # "DoAccept"
      BY <1>1, <2>2, <2>4 DEF ShapeInv
    <3> QED  BY <3>1, <3>2, <3>3, <3>4 DEF ShapeInv
  <2>8. DescriptorsOwned'
    <3>1. PICK i \in DOMAIN functions : task'[k] = functions[i]
      BY <2>4
    <3>2. \A fd \in Pool : HeldByTask(k, fd)' <=> HeldByFunction(i, fd)
      BY <2>5, <3>1 DEF HeldByTask, HeldByFunction
    <3>3. \A fd \in Pool : ~HeldByTask(k, fd)
      BY <2>3 DEF HeldByTask
    <3>4. \A fd \in Pool, d \in Co \ {k} : HeldByTask(d, fd)' <=> HeldByTask(d, fd)
      BY <2>4 DEF HeldByTask
    <3>5. \A fd \in Pool, j \in DOMAIN functions : HeldByFunction(j, fd)' <=> HeldByFunction(j, fd)
      BY <2>2 DEF HeldByFunction
    <3>6. \A fd \in Pool : Held(fd)' <=> Held(fd)
      BY <2>2, <3>2, <3>3, <3>4, <3>5 DEF Held
    <3> QED  BY <1>1, <2>2, <3>6, OwnedKept
  <2> QED  BY <1>1, <2>2, <2>4, <2>6, <2>7, <2>8 DEF SlaveParts, ListenersOpen
<1>3. CASE \E c \in Co : SlaveRun(c)
  <2>1. PICK k \in Co, fd \in Listeners :
          /\ \A d \in Co : task[d] # NoTask => task[d].listener # fd
          /\ NewCoroutineInMain(k)
          /\ task' = [task EXCEPT ![k] = Function("DoAccept", "accept", fd, NoFd, NoFd)]
          /\ UNCHANGED functions
    BY <1>3 DEF SlaveRun
  <2>2. /\ StartCoroutine(k) /\ running = NoCo /\ status[k] = COROUTINE_DEAD
        /\ UNCHANGED <<wait, open, m_coFuncList>>
    BY <2>1 DEF NewCoroutineInMain, StartCoroutine, Loop, kernVars, listVars
  <2>3. task[k] = NoTask
    BY <1>1, <2>2 DEF CallInv
  <2>4. SharingInv' /\ WellFormed(task'[k]) /\ \A d \in Co \ {k} : task'[d] = task[d]
    BY <1>1, <2>1, <2>2, <2>3, SharingRuns
  <2>5. task'[k] \in TaskRecord /\ task'[k] # NoTask
    BY <2>4, TaskFields DEF WellFormed
  <2>6. CallInv'
    BY <1>1, <2>2, <2>4, <2>5, CallStarts
  <2>7. ShapeInv'
    <3>1. DOMAIN task' = Co /\ task' = [d \in Co |-> task'[d]]
      BY <1>1, <2>1 DEF ShapeInv
    <3>2. task' \in [Co -> TaskRecord \cup {NoTask}]
      BY <1>1, <2>4, <2>5, <3>1 DEF ShapeInv
    <3> QED  BY <1>1, <2>1, <2>2, <2>4, <3>2, ShapeKept
  <2>8. DescriptorsOwned'
    <3>1. task'[k] = Function("DoAccept", "accept", fd, NoFd, NoFd)
      BY <1>1, <2>1 DEF ShapeInv
    <3>2. task'[k].connector = NoFd /\ task'[k].client = NoFd
      BY <3>1 DEF Function
    <3>3. \A f \in Pool : ~HeldByTask(k, f)' /\ ~HeldByTask(k, f)
      BY <2>3, <3>2, PoolFacts DEF HeldByTask
    <3>4. \A f \in Pool, d \in Co : HeldByTask(d, f)' <=> HeldByTask(d, f)
      BY <2>4, <3>3 DEF HeldByTask
    <3> QED  BY <1>1, <2>1, <2>2, <3>4, OwnedKept DEF Held, HeldByFunction
  <2> QED  BY <1>1, <2>2, <2>4, <2>6, <2>7, <2>8 DEF SlaveParts, ListenersOpen
<1> QED  BY <1>2, <1>3

\* m_coFuncList.clear() destroys what the functions are bound to ...
LEMMA ClearKeeps ==
  ASSUME SlaveInv, NEW member \in Members, Clear(member)
  PROVE  SlaveParts'
<1>1. ShapeInv /\ CallInv /\ SharingInv /\ ListenersOpen /\ DescriptorsOwned /\ TypeOK
  BY DEF SlaveInv, LoopInv
<1>2. PICK i \in DOMAIN functions, c \in Co, fd \in Pool :
        /\ fd = functions[i][member]
        /\ Loop("RunNewCoFunc") /\ m_coFuncList = 0
        /\ functions' = [functions EXCEPT ![i][member] = NoFd]
        /\ CloseIf(c, fd, /\ \A d \in Co : ~HeldByTask(d, fd)
                          /\ \A j \in DOMAIN functions : ~HeldByFunction(j, fd)')
        /\ UNCHANGED task
  BY <1>1, ClearFacts
<1>3. /\ UNCHANGED <<schedVars, wait, m_coFuncList>> /\ running = NoCo
      /\ IF /\ \A d \in Co : ~HeldByTask(d, fd)
            /\ \A j \in DOMAIN functions : ~HeldByFunction(j, fd)'
         THEN open' = [open EXCEPT ![fd] = FALSE] ELSE UNCHANGED open
  BY <1>2 DEF CloseIf, Close, vars, listVars, kernVars, Loop
<1>4. /\ functions' \in Seq(TaskRecord) /\ Len(functions') = Len(functions)
      /\ DOMAIN functions' = DOMAIN functions /\ DOMAIN functions = 1 .. Len(functions)
      /\ Len(functions) \in Nat
      /\ \A j \in DOMAIN functions \ {i} : functions'[j] = functions[j]
      /\ functions'[i].connector = (IF member = "connector" THEN NoFd ELSE functions[i].connector)
      /\ functions'[i].client = (IF member = "client" THEN NoFd ELSE functions[i].client)
  <2>1. NoFd \in FdOrNone /\ functions[i] \in TaskRecord
    BY <1>1 DEF FdOrNone, ShapeInv
  <2>2. PICK f : f = [functions[i] EXCEPT ![member] = NoFd]
    OBVIOUS
  <2>3. /\ f \in TaskRecord
        /\ f.connector = (IF member = "connector" THEN NoFd ELSE functions[i].connector)
        /\ f.client = (IF member = "client" THEN NoFd ELSE functions[i].client)
    BY <2>1, <2>2 DEF TaskRecord, Members
  <2>4. functions' = [functions EXCEPT ![i] = f]
    BY <1>2, <2>2
  <2>5. functions \in Seq(TaskRecord)
    BY <1>1 DEF ShapeInv
  <2> QED  BY <2>3, <2>4, <2>5
<1>5. \A j \in DOMAIN functions : ~IsPending(j)' /\ ~IsPending(j)
  BY <1>2, <1>3, <1>4 DEF IsPending
<1>6. ShapeInv'
  <2>1. m_coFuncList' <= Len(functions')
    BY <1>2, <1>3, <1>4
  <2>2. UNCHANGED task
    BY <1>2
  <2> QED  BY <1>1, <1>4, <1>5, <2>1, <2>2 DEF ShapeInv
<1>7. CallInv'
  BY <1>1, <1>2, <1>3, CallLoops DEF schedVars
<1>8. ASSUME NEW f \in Pool
      PROVE  /\ HeldByFunction(i, f)' => HeldByFunction(i, f)
             /\ f # fd => (HeldByFunction(i, f)' <=> HeldByFunction(i, f))
             /\ \A j \in DOMAIN functions \ {i} : HeldByFunction(j, f)' <=> HeldByFunction(j, f)
  <2>1. f # NoFd
    BY PoolFacts
  <2>2. CASE member = "connector"
    BY <1>2, <1>4, <2>1, <2>2 DEF HeldByFunction
  <2>3. CASE member = "client"
    BY <1>2, <1>4, <2>1, <2>3 DEF HeldByFunction
  <2> QED  BY <2>2, <2>3 DEF Members
<1>9. SharingInv'
  <2>1. \A d \in Co : task'[d] # NoTask => task[d] # NoTask /\ Shrinks(task'[d], task[d])
    BY <1>2, ShrinksReflexive
  <2>2. ASSUME NEW j \in DOMAIN functions'
        PROVE  /\ j \in DOMAIN functions
               /\ IsPending(j)' => IsPending(j) /\ functions'[j] = functions[j]
               /\ \A f \in Pool : HeldByFunction(j, f)' => HeldByFunction(j, f)
    BY <1>4, <1>5, <1>8
  <2> QED  BY <1>1, <2>1, <2>2, SharingShrinks
<1>10. DescriptorsOwned'
  <2>1. \A f \in Pool, d \in Co : HeldByTask(d, f)' <=> HeldByTask(d, f)
    BY <1>2 DEF HeldByTask
  <2>2. \A f \in Pool \ {fd} : Held(f)' <=> Held(f)
    BY <1>4, <1>8, <2>1 DEF Held
  <2>3. Held(fd)' => Held(fd)
    BY <1>4, <1>8, <2>1 DEF Held
  <2>4. ~Held(fd)' <=> /\ \A d \in Co : ~HeldByTask(d, fd)
                       /\ \A j \in DOMAIN functions : ~HeldByFunction(j, fd)'
    BY <1>4, <2>1 DEF Held
  <2> QED  BY <1>1, <1>3, <2>2, <2>3, <2>4, OwnedLoses
<1>11. ListenersOpen'
  BY <1>1, <1>3, PoolFacts DEF ListenersOpen, TypeOK
<1> QED  BY <1>6, <1>7, <1>9, <1>10, <1>11 DEF SlaveParts

\* ... and then the functions.
LEMMA ClearedKeeps ==
  ASSUME SlaveInv, Cleared
  PROVE  SlaveParts'
<1>1. ShapeInv /\ CallInv /\ SharingInv /\ ListenersOpen /\ DescriptorsOwned /\ TypeOK
  BY DEF SlaveInv, LoopInv
<1>2. /\ m_coFuncList = 0 /\ running = NoCo /\ functions' = <<>>
      /\ UNCHANGED <<schedVars, wait, open, task>> /\ m_coFuncList' = 0
      /\ \A i \in DOMAIN functions : functions[i].connector = NoFd /\ functions[i].client = NoFd
  BY DEF Cleared, RunNewCoFunc, Loop, kernVars
<1>3. DOMAIN functions' = {} /\ functions' \in Seq(TaskRecord) /\ Len(functions') = 0
  BY <1>2
<1>4. ShapeInv'
  BY <1>1, <1>2, <1>3 DEF ShapeInv
<1>5. CallInv'
  BY <1>1, <1>2, CallLoops DEF schedVars
<1>6. SharingInv'
  BY <1>1, <1>2, <1>3 DEF SharingInv
<1>7. DescriptorsOwned'
  <2>1. \A fd \in Pool : ~\E i \in DOMAIN functions : HeldByFunction(i, fd)
    BY <1>2, PoolFacts DEF HeldByFunction
  <2> QED  BY <1>1, <1>2, <1>3, <2>1 DEF DescriptorsOwned, HeldByTask
<1> QED  BY <1>1, <1>2, <1>4, <1>5, <1>6, <1>7 DEF SlaveParts, ListenersOpen

\* The rest of the loop, the kernel and the other processes touch no task.
LEMMA OthersKeep ==
  ASSUME SlaveInv, UNCHANGED <<task, functions, m_coFuncList, wait, open>>,
         \/ UNCHANGED schedVars
         \/ /\ running = NoCo
            /\ \A d \in Co : status'[d] = COROUTINE_DEAD <=> status[d] = COROUTINE_DEAD
  PROVE  SlaveParts'
<1>1. ShapeInv /\ CallInv /\ SharingInv /\ ListenersOpen /\ DescriptorsOwned
  BY DEF SlaveInv
<1>2. CallInv'
  <2>1. CASE UNCHANGED schedVars
    BY <1>1, <2>1 DEF CallInv, schedVars, InIo
  <2> QED  BY <1>1, <2>1, CallLoops
<1>3. ShapeInv'
  BY <1>1 DEF ShapeInv, IsPending
<1>4. SharingInv'
  BY <1>1 DEF SharingInv, IsPending, HeldByTask, HeldByFunction
<1>5. DescriptorsOwned' /\ ListenersOpen'
  BY <1>1 DEF DescriptorsOwned, ListenersOpen, HeldByTask, HeldByFunction
<1> QED  BY <1>2, <1>3, <1>4, <1>5 DEF SlaveParts

LEMMA ResumeKeepsDead ==
  ASSUME SchedTypeOK, NEW x, coroutine_resume(x) \/ UNCHANGED schedVars, NEW d \in Co
  PROVE  status'[d] = COROUTINE_DEAD <=> status[d] = COROUTINE_DEAD
BY DEF coroutine_resume, schedVars, SchedTypeOK

LEMMA ElsewhereKeeps ==
  ASSUME SlaveInv, EnterLoop \/ Elsewhere
  PROVE  SlaveParts'
<1>1. SchedTypeOK
  BY DEF SlaveInv, LoopInv, TypeOK
<1>2. UNCHANGED <<task, functions, m_coFuncList, wait, open>> /\ running = NoCo
  BY DEF EnterLoop, Elsewhere, slaveVars, Run, RunWaitResumeCo, PollEvents, PollTimesOut,
         EventHandlerIn, EventHandlerOut, RunTimeoutCoBegin, RunTimeoutCo, RunTimeoutCoEnd,
         Loop, loopVars, listVars, kernVars
<1>3. UNCHANGED schedVars \/ \E x : coroutine_resume(x)
  BY DEF EnterLoop, Elsewhere, Run, RunWaitResumeCo, PollEvents, PollTimesOut,
         EventHandlerIn, EventHandlerOut, RunTimeoutCoBegin, RunTimeoutCo, RunTimeoutCoEnd
<1>4. \A d \in Co : status'[d] = COROUTINE_DEAD <=> status[d] = COROUTINE_DEAD
  BY <1>1, <1>3, ResumeKeepsDead
<1> QED  BY <1>2, <1>4, OthersKeep

----------------------------------------------------------------------------
(* The invariant.                                                          *)

LEMMA InitSlave == SlaveInit => SlaveInv
<1> SUFFICES ASSUME SlaveInit PROVE SlaveInv
  OBVIOUS
<1>1. Init /\ LoopInv
  BY InitLoopInv DEF SlaveInit
<1>2. /\ \A c \in Co : task[c] = NoTask /\ wait[c] = NoWait /\ status[c] = COROUTINE_DEAD
      /\ task \in [Co -> TaskRecord \cup {NoTask}]
      /\ functions = <<>> /\ functions \in Seq(TaskRecord) /\ DOMAIN functions = {}
      /\ Len(functions) = 0 /\ m_coFuncList = 0
  BY <1>1 DEF SlaveInit, Init, SchedInit
<1>0. \A fd \in Fd : open[fd] <=> fd \in Listeners
  <2>1. open = [fd \in Fd |-> fd \in Listeners]
    BY DEF SlaveInit
  <2> QED  BY <2>1, Zenon
<1>3. ShapeInv
  BY <1>2 DEF ShapeInv
<1>4. CallInv
  BY <1>2 DEF CallInv
<1>5. SharingInv
  BY <1>2 DEF SharingInv
<1>6. ListenersOpen /\ DescriptorsOwned
  BY <1>0, <1>2, PoolFacts DEF ListenersOpen, DescriptorsOwned, HeldByTask
<1> QED  BY <1>1, <1>3, <1>4, <1>5, <1>6 DEF SlaveInv

LEMMA NextSlave == SlaveInv /\ [SlaveNext]_svars => SlaveInv'
<1> SUFFICES ASSUME SlaveInv, [SlaveNext]_svars PROVE SlaveInv'
  OBVIOUS
<1>1. LoopInv'
  BY SlaveStepIsLoopStep, NextLoopInv DEF SlaveInv
<1> SUFFICES SlaveParts'
  BY <1>1 DEF SlaveInv, SlaveParts
<1>2. ASSUME NEW c \in Co, CallSucceeds(c) \/ CallFails(c) \/ CallWaits(c) \/ CallEnds(c)
      PROVE  SlaveParts'
  BY <1>2, CallsKeep, CallWaitsKeeps
<1>3. CASE GoesOn
  <2>1. PICK c \in Co :
          \/ Accepted(c) \/ SpawnOnNewRequest(c) \/ Refuse(c)
          \/ NewTcpClient(c) \/ NoTcpClient(c) \/ SpawnReadServer(c)
          \/ \E member \in Members : Release(c, member)
          \/ Ends(c)
          \/ CallEnds(c)
    BY <1>3 DEF GoesOn
  <2>2. CASE NoTcpClient(c)
    <3>1. UNCHANGED <<schedVars, task, functions, m_coFuncList, wait, open>>
      BY <2>2 DEF NoTcpClient, vars, listVars, kernVars
    <3> QED  BY <3>1, OthersKeep
  <2> QED  BY <1>2, <2>1, <2>2, OpensKeep, SpawnsKeep, RefuseKeeps, ReleaseKeeps, EndsKeeps
<1>4. CASE SlaveLoop
  BY <1>4, StartsKeep, ClearKeeps, ClearedKeeps, ElsewhereKeeps DEF SlaveLoop
<1>5. CASE \E c \in Co : SlaveRun(c)
  BY <1>5, StartsKeep
<1>6. CASE /\ \/ PollInterrupted \/ Tick
              \/ \E fd \in Fd : \E e \in Event \cup {EPOLLERR} : BecomesReady(fd, e)
              \/ \E fd \in Fd : TakenByOther(fd)
           /\ UNCHANGED slaveVars
  <2>1. UNCHANGED <<schedVars, task, functions, m_coFuncList, wait, open>>
    BY <1>6 DEF PollInterrupted, Tick, BecomesReady, TakenByOther, slaveVars, listVars, kernVars
  <2> QED  BY <2>1, OthersKeep
<1>7. CASE UNCHANGED svars
  <2>1. UNCHANGED <<schedVars, task, functions, m_coFuncList, wait, open>>
    BY <1>7 DEF svars, vars, slaveVars, listVars, kernVars
  <2> QED  BY <2>1, OthersKeep
<1> QED  BY <1>2, <1>3, <1>4, <1>5, <1>6, <1>7 DEF SlaveNext

LEMMA SlaveInvariance == SlaveSpec => []SlaveInv
BY InitSlave, NextSlave, PTL DEF SlaveSpec

\* DoAccept, HandleRequest and ReadServerCoroutine, with the functions in
\* m_coFuncList, use the event loop as any program may: what is proved of the
\* loop holds of the slave.
THEOREM SlaveUsesLoop == SlaveSpec => Spec
<1>1. SlaveInit => Init
  BY DEF SlaveInit
<1>2. SlaveInv /\ [SlaveNext]_svars => [Next]_vars
  BY SlaveStepIsLoopStep DEF SlaveInv
<1> QED  BY <1>1, <1>2, SlaveInvariance, PTL DEF SlaveSpec, Spec

\* No descriptor is leaked and none is closed under its owner, for any number
\* of connections, in whatever order their coroutines end and the destructors of
\* TcpConnector and TcpClient run.
THEOREM OwnersClose == SlaveSpec => []DescriptorsOwned
<1>1. SlaveInv => DescriptorsOwned
  BY DEF SlaveInv
<1> QED  BY <1>1, SlaveInvariance, PTL

\* Two functions that are at a call of the same descriptor want different events.
LEMMA EventsDiffer ==
  ASSUME NEW s, NEW t, WellFormed(s), WellFormed(t), Compatible(s, t),
         OpAt(s.pc) # "none", OpAt(t.pc) # "none", Target(s) = Target(t)
  PROVE  EventOf(OpAt(s.pc)) # EventOf(OpAt(t.pc))
<1>1. ASSUME NEW u, WellFormed(u), OpAt(u.pc) # "none"
      PROVE  /\ u.pc \in {"accept", "connect", "read", "write"}
             /\ IF u.pc = "accept" THEN Target(u) \in Listeners /\ Target(u) = u.listener
                                   ELSE Target(u) \in Pool /\ Target(u) \in {u.connector, u.client}
  BY <1>1, CallTarget
<1>2. CASE s.pc = "accept" \/ t.pc = "accept"
  <2>1. Target(s) \in Listeners /\ s.listener = t.listener
    BY <1>1, <1>2, PoolFacts
  <2> QED  BY <1>1, <2>1, PoolFacts DEF Compatible
<1>3. CASE s.pc # "accept" /\ t.pc # "accept"
  <2>1. /\ Target(s) \in Pool /\ Target(s) \in {s.connector, s.client}
        /\ Target(s) \in {t.connector, t.client}
    BY <1>1, <1>3
  <2>2. ~Disjoint(s, t)
    BY <2>1, PoolFacts DEF Disjoint
  <2>3. ASSUME NEW h, NEW r, Partners(h, r), h.pc \in {"accept", "connect", "read", "write"},
               r.pc \in {"read", "write"}, Target(h) = Target(r), Target(h) # NoFd
        PROVE  EventOf(OpAt(h.pc)) # EventOf(OpAt(r.pc))
    <3>1. h.pc \in {"read", "write"}
      BY <2>3 DEF Partners
    <3>2. /\ Target(h) = (IF h.pc = "read" THEN h.connector ELSE h.client)
          /\ Target(r) = (IF r.pc = "read" THEN r.client ELSE r.connector)
      BY <2>3, <3>1 DEF Partners, Target
    <3>3. h.pc # r.pc
      BY <2>3, <3>1, <3>2 DEF Partners
    <3> QED  BY <2>3, <3>1, <3>3 DEF OpAt, EventOf
  <2>4. Target(s) # NoFd
    BY <2>1, PoolFacts
  <2>5. CASE Partners(s, t)
    <3>1. t.pc \in {"read", "write"}
      BY <1>1, <2>5 DEF Partners, WellFormed
    <3> QED  BY <1>1, <2>3, <2>4, <2>5, <3>1
  <2>6. CASE Partners(t, s)
    <3>1. s.pc \in {"read", "write"}
      BY <1>1, <2>6 DEF Partners, WellFormed
    <3> QED  BY <1>1, <2>3, <2>4, <2>6, <3>1
  <2> QED  BY <2>2, <2>5, <2>6 DEF Compatible
<1> QED  BY <1>2, <1>3

\* A call finds its descriptor open and its slot free: whoever shares the
\* descriptor wants the other event.
LEMMA SlotIsFree == SlaveInv => RulesKept
<1> SUFFICES ASSUME SlaveInv, NEW c \in Co, Calling(c)
             PROVE  /\ open[Target(task[c])]
                    /\ m_coIdMap[Target(task[c])][EventOf(OpAt(task[c].pc))] \in {c, NoCo}
  BY DEF RulesKept
<1>1. /\ LoopInv /\ ShapeInv /\ CallInv /\ SharingInv /\ ListenersOpen /\ DescriptorsOwned
      /\ task[c] # NoTask /\ WellFormed(task[c]) /\ OpAt(task[c].pc) # "none"
  BY DEF SlaveInv, Calling, ShapeInv
<1>2. PICK fd \in Fd : fd = Target(task[c])
  BY <1>1, CallingTarget
<1>3. open[fd]
  BY <1>1, <1>2, CallingTarget DEF ListenersOpen, DescriptorsOwned
<1>4. PICK e \in Event : e = EventOf(OpAt(task[c].pc))
  BY DEF EventOf, Event
<1>5. ASSUME m_coIdMap[fd][e] \notin {c, NoCo} PROVE FALSE
  <2>1. HasCoroutine(fd, e)
    BY <1>5 DEF HasCoroutine
  <2>2. PICK d \in Co : /\ m_coIdMap[fd][e] = d
                        /\ InIo(d) /\ wait[d].fd = fd /\ EventOf(wait[d].op) = e
    BY <1>1, <2>1 DEF LoopInv, SlotsInv
  <2>3. d # c /\ wait[d] # NoWait
    BY <1>5, <2>2 DEF InIo, NoWait, Op
  <2>4. /\ task[d] # NoTask /\ fd = Target(task[d]) /\ e = EventOf(OpAt(task[d].pc))
        /\ OpAt(task[d].pc) \in Op
    BY <1>1, <2>2, <2>3 DEF CallInv, InIo
  <2>5. WellFormed(task[d]) /\ OpAt(task[d].pc) # "none" /\ Compatible(task[c], task[d])
    BY <1>1, <2>3, <2>4 DEF ShapeInv, SharingInv, Op
  <2> QED  BY <1>1, <1>2, <1>4, <2>4, <2>5, EventsDiffer
<1> QED  BY <1>2, <1>3, <1>4, <1>5

\* The rules of use are kept, for any number of connections: what a coroutine
\* calls is open, and the slot of the FdWatcher it needs is free or its own.
\* DuplicateUse and HandClose may have any value: the proxy needs no discipline
\* from outside.
THEOREM RulesAreKept == SlaveSpec => []RulesKept
BY SlotIsFree, SlaveInvariance, PTL

----------------------------------------------------------------------------
(* The rules of use are not needed as a hypothesis: the slave keeps them.  *)

\* Nobody is blocked on a descriptor that is closed: its last owner is gone.
LEMMA ClosedIsUnused ==
  ASSUME SlaveInv, SlaveInv', NEW fd \in Fd, open[fd], ~open'[fd],
         \A d \in Co : wait[d] # NoWait => task'[d] = task[d]
  PROVE  GetEvents(fd) = {}
<1> SUFFICES ASSUME NEW e \in Event, HasCoroutine(fd, e) PROVE FALSE
  BY DEF GetEvents
<1>1. PICK d \in Co : InIo(d) /\ wait[d].fd = fd
  BY DEF SlaveInv, LoopInv, SlotsInv
<1>2. wait[d] # NoWait
  BY <1>1 DEF InIo, NoWait, Op
<1>3. task[d] # NoTask /\ fd = Target(task[d]) /\ OpAt(task[d].pc) \in Op /\ WellFormed(task[d])
  BY <1>1, <1>2 DEF SlaveInv, CallInv, InIo, ShapeInv
<1>4. fd \in Pool
  BY DEF SlaveInv, ListenersOpen, Pool
<1>5. fd \in {task[d].connector, task[d].client}
  <2>1. OpAt(task[d].pc) # "none"
    BY <1>3 DEF Op
  <2> QED  BY <1>3, <1>4, <2>1, CallTarget, PoolFacts
<1>6. HeldByTask(d, fd)'
  BY <1>2, <1>3, <1>5 DEF HeldByTask
<1> QED  BY <1>4, <1>6 DEF SlaveInv, DescriptorsOwned

LEMMA SlaveIsOrderly ==
  ASSUME SlaveInv, SlaveInv', WatchInv, SlaveNext
  PROVE  Orderly
<1>1. TypeOK /\ LoopInv /\ ShapeInv /\ CallInv
  BY DEF SlaveInv, LoopInv
<1>2. ASSUME UNCHANGED <<open, m_coIdMap>> PROVE Orderly
  BY <1>2 DEF Orderly, HasCoroutine
<1>3. ASSUME UNCHANGED m_coIdMap, \A d \in Co : wait[d] # NoWait => task'[d] = task[d]
      PROVE  Orderly
  BY <1>3, ClosedIsUnused DEF Orderly, HasCoroutine
<1>4. ASSUME NEW c \in Co, CallSucceeds(c) \/ CallFails(c) PROVE Orderly
  <2>1. UNCHANGED <<open, m_coIdMap>>
    BY <1>4 DEF CallSucceeds, CallAtOnce, CallFails, vars, fdVars, kernVars
  <2> QED  BY <1>2, <2>1
<1>5. ASSUME NEW c \in Co, CallWaits(c) PROVE Orderly
  <2>1. PICK fd \in Fd, e \in Event : AddEvent(c, fd, e)
    <3>1. Target(task[c]) \in Fd
      BY <1>1, <1>5, CallingTarget DEF CallWaits
    <3>2. EventOf(OpAt(task[c].pc)) \in Event
      BY DEF EventOf, Event
    <3> QED  BY <1>5, <3>1, <3>2 DEF CallWaits, CallBlocks
  <2>2. /\ m_coIdMap'[fd][e] = c
        /\ \A f \in Fd, g \in Event : <<f, g>> # <<fd, e>> => m_coIdMap'[f][g] = m_coIdMap[f][g]
    BY ONLY <1>1, c \in Co, <2>1, AddEventSlot
  <2>3. UNCHANGED open
    BY <1>5 DEF CallWaits, CallBlocks, kernVars
  <2>4. c # NoCo
    OBVIOUS
  <2> QED  BY <2>2, <2>3, <2>4 DEF Orderly, HasCoroutine
<1>6. ASSUME NEW c \in Co, CallEnds(c) PROVE Orderly
  <2>1. PICK fd, e : fd = wait[c].fd /\ e = EventOf(wait[c].op)
    OBVIOUS
  <2>2. running = c /\ InIo(c) /\ DeleteEvent(fd, e) /\ UNCHANGED open
    BY <1>6, <2>1 DEF CallEnds, CallResumes
  <2>3. fd \in Fd /\ e \in Event
    BY <1>1, <2>1, <2>2, IoWaitFields
  <2>4. m_coIdMap[fd][e] = running
    BY <2>1, <2>2 DEF WatchInv, Slot
  <2>5. \A f \in Fd, g \in Event : <<f, g>> # <<fd, e>> => m_coIdMap'[f][g] = m_coIdMap[f][g]
    BY <1>1, <2>2, <2>3, DeleteEventSlot
  <2> QED  BY <2>2, <2>4, <2>5 DEF Orderly, HasCoroutine
<1>7. ASSUME NEW c \in Co,
             \/ Accepted(c) \/ NewTcpClient(c) \/ Refuse(c)
             \/ \E member \in Members : Release(c, member)
      PROVE  Orderly
  <2>1. UNCHANGED m_coIdMap
    BY <1>7 DEF Accepted, NewTcpClient, Refuse, Release, Open, Close, CloseIf, vars, fdVars
  <2>2. task[c] # NoTask /\ OpAt(task[c].pc) = "none"
    BY <1>7 DEF Accepted, NewTcpClient, Refuse, Release, At, OpAt
  <2>3. wait[c] = NoWait
    BY <1>1, <2>2, AtRuns
  <2>4. \A d \in Co \ {c} : task'[d] = task[d]
    BY <1>1, <1>7 DEF Accepted, NewTcpClient, Refuse, Release, ShapeInv
  <2> QED  BY <1>3, <2>1, <2>3, <2>4
<1>8. ASSUME NEW member \in Members, Clear(member) PROVE Orderly
  <2>1. UNCHANGED <<m_coIdMap, task>>
    BY <1>8 DEF Clear, Close, CloseIf, vars, fdVars
  <2> QED  BY <1>3, <2>1
<1>9. ASSUME NEW c \in Co,
             \/ SpawnOnNewRequest(c) \/ SpawnReadServer(c) \/ NoTcpClient(c) \/ Ends(c)
             \/ SlaveRun(c)
      PROVE  Orderly
  <2>1. UNCHANGED <<open, m_coIdMap>>
    BY <1>9 DEF SpawnOnNewRequest, SpawnReadServer, NoTcpClient, Ends, SlaveRun, NewCoroutine,
                NewCoroutineInMain, Return, vars, fdVars, kernVars
  <2> QED  BY <1>2, <2>1
<1>10. ASSUME EnterLoop \/ StartNext \/ Cleared \/ Elsewhere PROVE Orderly
  <2>1. UNCHANGED <<open, m_coIdMap>>
    BY <1>10 DEF EnterLoop, StartNext, Cleared, Elsewhere, Run, RunNewCoFunc, RunWaitResumeCo,
                 PollEvents, PollTimesOut, EventHandlerIn, EventHandlerOut, RunTimeoutCoBegin,
                 RunTimeoutCo, RunTimeoutCoEnd, fdVars, kernVars
  <2> QED  BY <1>2, <2>1
<1>11. ASSUME \/ PollInterrupted \/ Tick
              \/ \E fd \in Fd : \E e \in Event \cup {EPOLLERR} : BecomesReady(fd, e)
              \/ \E fd \in Fd : TakenByOther(fd)
       PROVE  Orderly
  <2>1. UNCHANGED <<open, m_coIdMap>>
    BY <1>11 DEF PollInterrupted, Tick, BecomesReady, TakenByOther, fdVars, kernVars
  <2> QED  BY <1>2, <2>1
<1> QED  BY <1>4, <1>5, <1>6, <1>7, <1>8, <1>9, <1>10, <1>11 DEF SlaveNext, GoesOn, SlaveLoop

\* A step that uses up no event for which another coroutine is blocked.
Considerate ==
  \A fd \in Fd, e \in Event :
    HasCoroutine(fd, e) /\ m_coIdMap[fd][e] # running /\ e \in ready[fd] =>
      e \in ready'[fd] \/ fd \in SharedFd

\* A call of the slave uses up events that nobody else is blocked for.
LEMMA SlaveIsConsiderate ==
  ASSUME SlaveInv, SlaveInv', WatchInv, SlaveNext
  PROVE  Considerate
<1>0. TypeOK /\ LoopInv /\ ShapeInv /\ CallInv /\ Orderly
  BY SlaveIsOrderly DEF SlaveInv, LoopInv
<1> SUFFICES ASSUME NEW f \in Fd, NEW g \in Event, HasCoroutine(f, g), m_coIdMap[f][g] # running,
                    g \in ready[f]
             PROVE  g \in ready'[f] \/ f \in SharedFd
  BY <1>0 DEF Considerate
<1>1. ASSUME NEW fd \in Fd, NEW e \in Event, UNCHANGED ready \/ MayConsume(fd, e),
             m_coIdMap[fd][e] \in {running, NoCo}
      PROVE  g \in ready'[f]
  <2>1. <<f, g>> # <<fd, e>>
    BY <1>1 DEF HasCoroutine
  <2> QED  BY <1>0, <1>1, <2>1, ConsumeKeeps
<1>2. ASSUME NEW fd, NEW c \in Co, Close(c, fd) PROVE g \in ready'[f]
  <2>1. f # fd
    <3>1. fd = f => open[f] /\ ~open'[f]
      BY <1>0, <1>2 DEF Close, TypeOK
    <3> QED  BY <1>0, <3>1 DEF Orderly, GetEvents
  <2> QED  BY <1>0, <1>2, <2>1 DEF Close, TypeOK
<1>3. ASSUME NEW c \in Co, CallSucceeds(c) PROVE g \in ready'[f]
  <2>1. PICK fd \in Fd : fd = Target(task[c])
    BY <1>0, <1>3, CallingTarget DEF CallSucceeds
  <2>2. PICK e \in Event : e = EventOf(OpAt(task[c].pc))
    BY DEF EventOf, Event
  <2>3. m_coIdMap[fd][e] \in {running, NoCo}
    <3>1. Calling(c) /\ running = c
      BY <1>3 DEF CallSucceeds, CallAtOnce, Running
    <3> QED  BY <2>1, <2>2, <3>1, SlotIsFree DEF RulesKept
  <2>4. UNCHANGED ready \/ MayConsume(fd, e)
    BY <1>3, <2>1, <2>2 DEF CallSucceeds, CallAtOnce
  <2> QED  BY <1>1, <2>3, <2>4
<1>4. ASSUME NEW c \in Co, CallEnds(c) PROVE g \in ready'[f]
  <2>1. PICK fd, e : fd = wait[c].fd /\ e = EventOf(wait[c].op)
    OBVIOUS
  <2>2. running = c /\ InIo(c) /\ (UNCHANGED ready \/ MayConsume(fd, e))
    BY <1>4, <2>1 DEF CallEnds, CallResumes
  <2>3. fd \in Fd /\ e \in Event
    BY <1>0, <2>1, <2>2, IoWaitFields
  <2>4. m_coIdMap[fd][e] = running
    BY <2>1, <2>2 DEF WatchInv, Slot
  <2> QED  BY <1>1, <2>2, <2>3, <2>4
<1>5. ASSUME NEW c \in Co, Refuse(c) \/ \E member \in Members : Release(c, member)
      PROVE  g \in ready'[f]
  <2>1. UNCHANGED ready \/ \E fd : Close(c, fd)
    BY <1>5 DEF Refuse, Release, CloseIf, vars, kernVars
  <2> QED  BY <1>2, <2>1
<1>6. ASSUME NEW member \in Members, Clear(member) PROVE g \in ready'[f]
  <2>1. UNCHANGED ready \/ \E c \in Co : \E fd : Close(c, fd)
    BY <1>6 DEF Clear, CloseIf, vars, kernVars
  <2> QED  BY <1>2, <2>1
<1>7. ASSUME NEW c \in Co,
             \/ CallFails(c) \/ CallWaits(c) \/ Accepted(c) \/ NewTcpClient(c) \/ NoTcpClient(c)
             \/ SpawnOnNewRequest(c) \/ SpawnReadServer(c) \/ Ends(c) \/ SlaveRun(c)
      PROVE  UNCHANGED ready
  BY <1>7 DEF CallFails, CallWaits, CallBlocks, Accepted, NewTcpClient, NoTcpClient, Open,
              SpawnOnNewRequest, SpawnReadServer, NewCoroutine, Ends, Return, SlaveRun,
              NewCoroutineInMain, vars, kernVars
<1>8. ASSUME EnterLoop \/ StartNext \/ Cleared \/ Elsewhere \/ PollInterrupted
      PROVE  UNCHANGED ready
  BY <1>8 DEF EnterLoop, StartNext, Cleared, Elsewhere, Run, RunNewCoFunc, RunWaitResumeCo,
              PollEvents, PollTimesOut, EventHandlerIn, EventHandlerOut, RunTimeoutCoBegin,
              RunTimeoutCo, RunTimeoutCoEnd, PollInterrupted, kernVars
<1>9. ASSUME \/ Tick
             \/ \E fd \in Fd : \E e \in Event \cup {EPOLLERR} : BecomesReady(fd, e)
             \/ \E fd \in Fd : TakenByOther(fd)
      PROVE  g \in ready'[f] \/ f \in SharedFd
  BY <1>0, <1>9, KernelKeeps
<1> QED  BY <1>3, <1>4, <1>5, <1>6, <1>7, <1>8, <1>9 DEF SlaveNext, GoesOn, SlaveLoop

\* What the theorems about the event loop need of a step of the slave.
LEMMA SlaveKeepsRules ==
  ASSUME SlaveInv, WatchInv, [SlaveNext]_svars
  PROVE  SlaveInv' /\ [Next]_vars /\ Orderly /\ Considerate
<1>1. SlaveInv' /\ [Next]_vars
  BY NextSlave, SlaveStepIsLoopStep DEF SlaveInv
<1>2. CASE SlaveNext
  BY <1>1, <1>2, SlaveIsOrderly, SlaveIsConsiderate
<1>3. CASE UNCHANGED svars
  <2>1. UNCHANGED <<open, m_coIdMap, ready>>
    BY <1>3 DEF svars, vars, fdVars, kernVars
  <2> QED  BY <1>1, <2>1 DEF Considerate, Orderly, HasCoroutine
<1> QED  BY <1>1, <1>2, <1>3

\* In the slave m_coIdMap, the epoll set and the blocked coroutines agree and no
\* abort() is reached, although nothing but the ownership of the descriptors
\* keeps one direction of a connection from closing what the other is blocked
\* on: the rules of use, hypotheses of WatchCorrect and AbortFree, are
\* consequences here.
THEOREM SlaveNeverAborts == SlaveSpec => [](WatchInv /\ NoAbort)
<1> DEFINE Inv == SlaveInv /\ WatchedInv
<1>1. SlaveInit => Inv
  BY InitSlave, InitLoopInv DEF SlaveInit
<1>2. Inv /\ [SlaveNext]_svars => Inv'
  BY SlaveKeepsRules, NextWatchedInv DEF WatchedInv
<1>3. Inv => WatchInv /\ NoAbort
  BY DEF WatchedInv
<1> HIDE DEF Inv
<1> QED  BY <1>1, <1>2, <1>3, PTL DEF SlaveSpec

\* No coroutine of the slave takes the data another one is blocked for, so that
\* the exception WakeIsGenuine makes for it does not arise: the two directions of
\* a connection read different descriptors, and only other processes accept from
\* the listener.
THEOREM SlaveStealsNothing == SlaveSpec => [][Considerate]_svars
<1>1. SlaveInv /\ WatchInv /\ NoAbort /\ [SlaveNext]_svars => [Considerate]_svars
  BY SlaveKeepsRules
<1> QED  BY <1>1, SlaveInvariance, SlaveNeverAborts, PTL DEF SlaveSpec

\* A coroutine of the slave that EventHandler resumes finds its event or an
\* error, although the other direction of its connection may have run, and
\* descriptors may have been closed, earlier in the same batch.
THEOREM SlaveWakesGenuine == SlaveSpec => []WakeIsGenuine
<1> DEFINE Inv == SlaveInv /\ WakeInv
<1>1. SlaveInit => Inv
  BY InitSlave, InitWake DEF SlaveInit
<1>2. Inv /\ [SlaveNext]_svars => Inv'
  BY SlaveKeepsRules, NextWakeInv DEF WakeInv, WatchedInv
<1>3. Inv => WakeIsGenuine
  BY DEF WakeInv
<1> HIDE DEF Inv
<1> QED  BY <1>1, <1>2, <1>3, PTL DEF SlaveSpec
=============================================================================
