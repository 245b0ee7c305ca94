------------------------------ MODULE TcpSlave ------------------------------
(***************************************************************************)
(* A slave process of class TcpServer that runs the TCP proxy of           *)
(* example/tcp_proxy: DoAccept, a HandleRequest for each connection and    *)
(* its ReadServerCoroutine, composed with the event loop.  The last owner  *)
(* of a TcpConnector or a TcpClient closes its descriptor; owners are the  *)
(* coroutines (locals and parameters) and the functions in m_coFuncList    *)
(* (bound arguments), which live until RunNewCoFunc clears the list.       *)
(***************************************************************************)
EXTENDS CoSocket

CONSTANTS
  Listeners,    \* m_listenFd
  kTimeoutMs    \* of the proxy's calls

Pool == Fd \ Listeners     \* what ::accept and ::socket hand out
NoFd == -1

ASSUME TcpSlaveAssumption ==
  /\ Fd \subseteq Nat /\ Listeners \subseteq Fd
  /\ {-1, kTimeoutMs} \subseteq Timeouts
  /\ Ops = [fd \in Fd |-> IF fd \in Listeners THEN {"Accept"}
                          ELSE {"Connect", "Read", "Write"}]
  /\ Cardinality(Co) >= Cardinality(Fd)

VARIABLES
  task,             \* the function each coroutine is in, and where
  functions,        \* m_coFuncList, the functions already started included
  m_handleRequest,  \* is a request handler set?
  exited            \* exit(1) was called

slaveVars == <<task, functions, m_handleRequest, exited>>
svars == <<vars, slaveVars>>

\* A function with its arguments, and where its code begins.
Function(func, pc, listener, connector, client) ==
  [func |-> func, pc |-> pc, listener |-> listener, connector |-> connector, client |-> client]
NoTask == [func |-> "none"]

\* The server is bound and listens; the process was forked.
SlaveInit ==
  /\ Init /\ open = [fd \in Fd |-> fd \in Listeners]
  /\ task = [c \in Co |-> NoTask] /\ functions = <<>>
  /\ m_handleRequest \in BOOLEAN /\ exited = FALSE

----------------------------------------------------------------------------
(* The ownership of descriptors (shared_ptr).                              *)

\* Variant: HandleRequest takes its connector by reference.
HeldByTask_ByReference(c, fd) == task[c] # NoTask /\ fd = task[c].client

HeldByTask(c, fd) == task[c] # NoTask /\ fd \in {task[c].connector, task[c].client}

HeldByFunction(i, fd) == fd \in {functions[i].connector, functions[i].client}

\* The kernel hands out the lowest number that is free.
Free == {fd \in Pool : ~open[fd]}
IsLowest(fd) == fd \in Free /\ \A other \in Free : fd <= other

\* Variant: the destructors do not close.
CloseIf_Never(c, fd, last) == UNCHANGED vars

\* The destructor of TcpConnector or TcpClient, if this was the last owner.
CloseIf(c, fd, last) == IF last THEN Close(c, fd) ELSE UNCHANGED vars

At(c, pc) == task[c] # NoTask /\ task[c].pc = pc /\ ~exited

----------------------------------------------------------------------------
(* Calls on descriptors.                                                   *)

OpAt(pc) == CASE pc = "accept" -> "Accept" [] pc = "connect" -> "Connect"
              [] pc = "read" -> "Read" [] pc = "write" -> "Write" [] OTHER -> "none"

\* The client's connector is read and the server's client written, or vice versa.
Target(t) ==
  CASE t.pc = "accept"  -> t.listener
    [] t.pc = "connect" -> t.client
    [] OTHER -> IF (t.func = "HandleRequest") = (t.pc = "read") THEN t.connector ELSE t.client

TimeoutAt(pc) == IF pc = "accept" THEN -1 ELSE kTimeoutMs

Calling(c) == task[c] # NoTask /\ OpAt(task[c].pc) # "none" /\ ~exited

\* Where the code goes on after a call; WriteAll goes on writing what is left.
After(pc, ok) ==
  CASE pc = "accept"  -> {IF ok THEN "open" ELSE "accept"}
    [] pc = "connect" -> {IF ok THEN "spawn" ELSE "return"}
    [] pc = "read"    -> {IF ok THEN "write" ELSE "return"}
    [] pc = "write"   -> IF ok THEN {"read", "write"} ELSE {"return"}

GoesTo(c, pcs) == \E pc \in pcs : task' = [task EXCEPT ![c].pc = pc]

\* Without a free number ::accept fails with EMFILE, connection or not.
MayAccept(c) == task[c].pc = "accept" => Free # {}

CallSucceeds(c) ==
  /\ Calling(c) /\ MayAccept(c)
  /\ CallAtOnce(c, OpAt(task[c].pc), Target(task[c]))
  /\ GoesTo(c, After(task[c].pc, TRUE))
  /\ UNCHANGED <<functions, m_handleRequest, exited>>

CallFails(c) ==
  /\ Calling(c) /\ Running(c) /\ (task[c].pc = "accept" => Free = {})
  /\ GoesTo(c, After(task[c].pc, FALSE))
  /\ UNCHANGED <<vars, functions, m_handleRequest, exited>>

\* Variant: Accept returns at once when there is no connection.
CallWaits_NoAccept(c) ==
  /\ Calling(c) /\ task[c].pc # "accept"
  /\ CallBlocks(c, OpAt(task[c].pc), Target(task[c]), TimeoutAt(task[c].pc))
  /\ UNCHANGED slaveVars

CallWaits(c) ==
  /\ Calling(c) /\ MayAccept(c)
  /\ CallBlocks(c, OpAt(task[c].pc), Target(task[c]), TimeoutAt(task[c].pc))
  /\ UNCHANGED slaveVars

CallEnds(c) ==
  /\ Calling(c) /\ CallResumes(c)
  /\ \E ok \in BOOLEAN :
       /\ ok => /\ ~m_handlingTimeout /\ MayAccept(c)
                /\ EventOf(wait[c].op) \in ready[wait[c].fd]
       /\ GoesTo(c, After(task[c].pc, ok))
  /\ UNCHANGED <<functions, m_handleRequest, exited>>

----------------------------------------------------------------------------
(* The rest of DoAccept, HandleRequest and ReadServerCoroutine.            *)

\* The new TcpConnector with the descriptor of ::accept.
Accepted(c) ==
  /\ At(c, "open")
  /\ \E fd \in Pool :
       /\ IsLowest(fd) /\ Open(c, fd)
       /\ task' = [task EXCEPT ![c].connector = fd, ![c].pc = "spawn"]
  /\ UNCHANGED <<functions, m_handleRequest, exited>>

\* SpawnOnNewRequest; the connector of the iteration goes out of scope.
SpawnOnNewRequest(c) ==
  /\ At(c, "spawn") /\ task[c].func = "DoAccept" /\ m_handleRequest
  /\ NewCoroutine(c)
  /\ functions' = Append(functions, Function("HandleRequest", "socket", NoFd,
                                             task[c].connector, NoFd))
  /\ task' = [task EXCEPT ![c].connector = NoFd, ![c].pc = "accept"]
  /\ UNCHANGED <<m_handleRequest, exited>>

\* No handler: the descriptor is closed (twice, the second time in vain).
Refuse(c) ==
  /\ At(c, "spawn") /\ task[c].func = "DoAccept" /\ ~m_handleRequest
  /\ Close(c, task[c].connector)
  /\ task' = [task EXCEPT ![c].connector = NoFd, ![c].pc = "accept"]
  /\ UNCHANGED <<functions, m_handleRequest, exited>>

\* The constructor of TcpClient, which exits if there is no descriptor.
NewTcpClient(c) ==
  /\ At(c, "socket")
  /\ \E fd \in Pool :
       /\ IsLowest(fd) /\ Open(c, fd)
       /\ task' = [task EXCEPT ![c].client = fd, ![c].pc = "connect"]
  /\ UNCHANGED <<functions, m_handleRequest, exited>>

NoTcpClient(c) ==
  /\ At(c, "socket") /\ Running(c) /\ Free = {}
  /\ exited' = TRUE
  /\ UNCHANGED <<vars, task, functions, m_handleRequest>>

\* HandleRequest starts the coroutine for the other direction.
SpawnReadServer(c) ==
  /\ At(c, "spawn") /\ task[c].func = "HandleRequest"
  /\ NewCoroutine(c)
  /\ functions' = Append(functions, Function("ReadServerCoroutine", "read", NoFd,
                                             task[c].connector, task[c].client))
  /\ task' = [task EXCEPT ![c].pc = "read"]
  /\ UNCHANGED <<m_handleRequest, exited>>

\* A function returns: its pointers are destroyed, ...
Release(c, member) ==
  /\ At(c, "return") /\ Running(c)
  /\ \E fd \in {task[c][member]} :
       /\ fd # NoFd
       /\ CloseIf(c, fd, /\ \A d \in Co \ {c} : ~HeldByTask(d, fd)
                         /\ \A i \in DOMAIN functions : ~HeldByFunction(i, fd))
  /\ task' = [task EXCEPT ![c][member] = NoFd]
  /\ UNCHANGED <<functions, m_handleRequest, exited>>

\* ... and the coroutine ends.
Ends(c) ==
  /\ At(c, "return") /\ task[c].connector = NoFd /\ task[c].client = NoFd
  /\ Return(c)
  /\ task' = [task EXCEPT ![c] = NoTask]
  /\ UNCHANGED <<functions, m_handleRequest, exited>>

----------------------------------------------------------------------------
(* SlaveRun, RunNewCoFunc and the rest of the loop.                        *)

\* The first coroutines get the first ids.
SlaveRun(c) ==
  /\ ~exited /\ \A d \in Co : d < c => task[d] # NoTask
  /\ \E fd \in Listeners :
       /\ \A d \in Co : task[d] # NoTask => task[d].listener # fd
       /\ NewCoroutineInMain(c)
       /\ task' = [task EXCEPT ![c] = Function("DoAccept", "accept", fd, NoFd, NoFd)]
  /\ UNCHANGED <<functions, m_handleRequest, exited>>

EnterLoop ==
  /\ ~exited /\ \A fd \in Listeners : \E c \in Co : task[c] # NoTask /\ task[c].listener = fd
  /\ Run
  /\ UNCHANGED slaveVars

\* RunNewCoFunc starts the next function with copies of its arguments.
StartNext ==
  /\ ~exited /\ m_coFuncList > 0 /\ RunNewCoFunc
  /\ task' = [task EXCEPT ![running'] = functions[Len(functions) - m_coFuncList + 1]]
  /\ UNCHANGED <<functions, m_handleRequest, exited>>

\* m_coFuncList.clear() destroys the functions and what they are bound to.
Clear(member) ==
  /\ ~exited /\ Loop("RunNewCoFunc") /\ m_coFuncList = 0
  /\ \E i \in DOMAIN functions, c \in Co : \E fd \in {functions[i][member]} :
       /\ fd # NoFd
       /\ \A j \in 1 .. i - 1 : functions[j][member] = NoFd
       /\ functions' = [functions EXCEPT ![i][member] = NoFd]
       /\ CloseIf(c, fd, /\ \A d \in Co : ~HeldByTask(d, fd)
                         /\ \A j \in DOMAIN functions : ~HeldByFunction(j, fd)')
  /\ UNCHANGED <<task, m_handleRequest, exited>>

Cleared ==
  /\ ~exited /\ m_coFuncList = 0
  /\ \A i \in DOMAIN functions : functions[i].connector = NoFd /\ functions[i].client = NoFd
  /\ RunNewCoFunc
  /\ functions' = <<>>
  /\ UNCHANGED <<task, m_handleRequest, exited>>

Elsewhere ==
  /\ ~exited
  /\ \/ RunWaitResumeCo
     \/ PollEvents \/ PollTimesOut
     \/ EventHandlerIn \/ EventHandlerOut
     \/ RunTimeoutCoBegin \/ RunTimeoutCo \/ RunTimeoutCoEnd
  /\ UNCHANGED slaveVars

Members == {"connector", "client"}

SlaveLoop == EnterLoop \/ StartNext \/ (\E member \in Members : Clear(member)) \/ Cleared \/ Elsewhere

\* The running coroutine between two calls.
GoesOn ==
  \E c \in Co :
    \/ Accepted(c) \/ SpawnOnNewRequest(c) \/ Refuse(c)
    \/ NewTcpClient(c) \/ NoTcpClient(c) \/ SpawnReadServer(c)
    \/ \E member \in Members : Release(c, member)
    \/ Ends(c)
    \/ CallEnds(c)

\* Event e of fd is looked at now, by a coroutine in a call or by Poll for one
\* that is blocked; an error by Poll, whatever the coroutine waits for.  An event
\* that nobody looks at may as well happen later, and so may its end when another
\* process takes the connection.
Wanted(fd, e) ==
  \E c \in Co :
    /\ Calling(c) /\ Target(task[c]) = fd
    /\ \/ e = EventOf(OpAt(task[c].pc)) /\ running = c
       \/ e \in {EventOf(OpAt(task[c].pc)), EPOLLERR} /\ Loop("Poll")

\* The time is read now, for a deadline, for the timeout of epoll_wait or for
\* RunTimeoutCo.  Where nobody reads it, the clock may as well advance later.
TimeWanted ==
  \/ \E c \in Co : Calling(c) /\ Running(c)
  \/ Loop("Poll")
  \/ Loop("EventIn") /\ m_events = <<>>

SlaveNext ==
  \/ \E c \in Co : SlaveRun(c) \/ CallSucceeds(c) \/ CallFails(c) \/ CallWaits(c)
  \/ GoesOn
  \/ SlaveLoop
  \/ /\ ~exited
     /\ \/ PollInterrupted
        \/ TimeWanted /\ Tick
        \/ \E fd \in Fd : \E e \in Event \cup {EPOLLERR} : Wanted(fd, e) /\ BecomesReady(fd, e)
        \/ \E fd \in Fd : \E e \in Event : Wanted(fd, e) /\ TakenByOther(fd)
     /\ UNCHANGED slaveVars

SlaveSpec == SlaveInit /\ [][SlaveNext]_svars

\* As in module CoSocket: the scheduling is cooperative.
SlaveFairSpec ==
  /\ SlaveSpec
  /\ WF_svars(SlaveLoop) /\ WF_svars(GoesOn) /\ WF_svars(\E c \in Co : CallWaits(c))

----------------------------------------------------------------------------

\* The slave keeps the rules of use of the event loop: a descriptor a coroutine
\* uses is open, nobody else is blocked on the same event of it, and nobody is
\* blocked on a descriptor whose last owner is gone, whichever of HandleRequest
\* and ReadServerCoroutine ends first and whenever m_coFuncList is cleared.
RulesKept ==
  \A c \in Co :
    Calling(c) =>
      LET fd == Target(task[c]) e == EventOf(OpAt(task[c].pc))
      IN  open[fd] /\ m_coIdMap[fd][e] \in {c, NoCo}

\* No descriptor is leaked, and none is closed under its owner: one of the pool
\* is open exactly as long as a coroutine or a function holds it.
DescriptorsOwned ==
  \A fd \in Pool :
    open[fd] <=> \/ \E c \in Co : HeldByTask(c, fd)
                 \/ \E i \in DOMAIN functions : HeldByFunction(i, fd)

\* DoAccept has no descriptor left for a connection: it calls Accept again and
\* again, and no other coroutine runs to give one back.
Spinning == \E c \in Co : Running(c) /\ At(c, "accept") /\ Free = {}

\* An accepted connection, or the second half of one, has no coroutine yet.
Waiting == \E i \in DOMAIN functions :
             i > Len(functions) - m_coFuncList /\ functions[i].connector # NoFd

\* Every connection that was accepted gets its coroutine, unless the descriptors
\* run out: then DoAccept spins, or the process exits.
AcceptedIsHandled == Waiting ~> (~Waiting \/ exited \/ Spinning)
=============================================================================
