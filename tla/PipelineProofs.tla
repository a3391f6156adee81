--------------------------- MODULE PipelineProofs ---------------------------
(***************************************************************************)
(* What holds of the path of a command for every number of client threads, *)
(* workers, sessions, descriptors, connections and commands, and every     *)
(* capacity of the queues.  The session table is that of SessionProofs:    *)
(* but for DestroyAll every step is one of SessionLifecycle.               *)
(***************************************************************************)
EXTENDS Pipeline, FiniteSetTheorems, SequenceTheorems, TLAPS

Table == INSTANCE SessionProofs
           WITH stage <- [c \in Clients |-> StageOf(cpc[c])]

\* TypeOK without the session table.
Typed ==
  /\ client_queue \in Seq(Fds) /\ Len(client_queue) <= ClientCapacity
  /\ task_queue \in Seq(Tasks) /\ Len(task_queue) <= TaskCapacity
  /\ shutdown \subseteq Queues
  /\ sock \in [Fds -> 0 .. MaxConns]
  /\ accepted \in 0 .. MaxConns
  /\ main_fd \in Fds \cup {-1}
  /\ mpc \in {"accept", "join", "done"}
  /\ socket_fd \in [Ids -> Fds \cup {-1}]
  /\ heap \subseteq Buffers
  /\ response \in [Ids -> [ready : BOOLEAN, answers : Tasks \cup {NoTask},
                           data : SUBSET Buffers]]
  /\ cpc \in [Clients -> CPCs]
  /\ sid \in [Clients -> Ids \cup {NULL}]
  /\ fd \in [Clients -> Fds \cup {-1}]
  /\ conn \in [Clients -> 0 .. MaxConns]
  /\ request \in [Clients -> Tasks \cup {NoTask}]
  /\ wpc \in [Workers -> WPCs]
  /\ task \in [Workers -> Tasks \cup {NoTask}]
  /\ data \in [Workers -> SUBSET Buffers]

\* Until main frees it the session table is as SessionLifecycle has it.
TableFits ==
  /\ TableTypeOK
  /\ mpc # "done" => Table!IInv /\ (FirstLap => Table!Home)

\* How the threads stop: a queue that a thread has left empty stays empty, and
\* when main is done no session is left in the table.
StopFits ==
  /\ mpc # "accept" => main_fd = -1
  /\ mpc = "done" => /\ shutdown = Queues /\ Allocated = {}
                     /\ \A c \in Clients : cpc[c] = "exit"
                     /\ \A w \in Workers : wpc[w] = "exit"
  /\ \A c \in Clients : cpc[c] = "exit" => client_queue = <<>> /\ "client" \in shutdown
  /\ \A w \in Workers : wpc[w] = "exit" => task_queue = <<>> /\ "task" \in shutdown

\* The task a client thread has built is for its session.
RequestsFit ==
  \A c \in Clients :
    /\ cpc[c] \in {"recv", "reset", "push", "wait", "asleep", "check", "send"} => request[c] \in Tasks
    /\ request[c] # NoTask => request[c].sid = sid[c]

\* A worker has response data only between the operation and the delivery.
WorkersFit ==
  \A w \in Workers :
    /\ task[w] = NoTask <=> wpc[w] \in {"pop", "exit"}
    /\ data[w] # {} => wpc[w] \in {"read", "lookup", "set"}
    /\ data[w] \subseteq {<<"data", task[w].sid, task[w].op>>}

\* No command is queued or worked on twice.
SameCommand(t, u) == t.sid = u.sid /\ t.op = u.op
TasksApart ==
  /\ \A i, j \in DOMAIN task_queue : SameCommand(task_queue[i], task_queue[j]) => i = j
  /\ \A i \in DOMAIN task_queue, w \in Workers : ~ SameCommand(task_queue[i], task[w])
  /\ \A v, w \in Workers : task[v] # NoTask /\ SameCommand(task[v], task[w]) => v = w

\* What a worker has in hand is no later than what the client is at.
TasksOld ==
  \A w \in Workers : task[w] # NoTask =>
    /\ task[w].sid < next_session_id
    /\ \A c \in Clients : sid[c] = task[w].sid =>
         /\ task[w].op <= request[c].op
         /\ cpc[c] \in {"recv", "reset", "push"} => task[w].op < request[c].op

\* A command that is queued or worked on has a client thread that waits for
\* the answer, and there is none yet.
Unanswered ==
  {t \in Tasks : \E c \in Clients :
     /\ request[c] = t /\ cpc[c] \in {"wait", "asleep"}
     /\ ~ response[t.sid].ready /\ response[t.sid].data = {}}
TasksWaited ==
  /\ \A i \in DOMAIN task_queue : task_queue[i] \in Unanswered
  /\ \A w \in Workers : wpc[w] \in {"work", "read", "lookup", "set"} => task[w] \in Unanswered

\* Responses are reset before the push and answer what was asked.
ResponsesFit ==
  /\ \A i \in Ids : response[i].data \subseteq {<<"data", i, o>> : o \in 1 .. MaxOps}
  /\ \A i \in Ids : i >= next_session_id => response[i].data = {}
  /\ \A c \in Clients :
       /\ cpc[c] = "push" => response[sid[c]] = EmptyResponse
       /\ cpc[c] \in {"wait", "asleep"} /\ response[sid[c]].ready
            => response[sid[c]].answers = request[c]
       /\ cpc[c] \in {"check", "send"}
            => response[sid[c]].ready /\ response[sid[c]].answers = request[c]

\* An open descriptor is on its way to a session, or a session's.
Serving(c) == cpc[c] \notin {"pop", "exit"}
SocketsKept ==
  /\ \A c \in Clients : Serving(c) => fd[c] \in Fds
  /\ \A f \in Fds : sock[f] # Closed =>
       \/ f = main_fd
       \/ \E i \in DOMAIN client_queue : client_queue[i] = f
       \/ \E c \in Clients : cpc[c] = "create" /\ fd[c] = f
       \/ \E i \in Allocated : socket_fd[i] = f

\* In the first lap nobody shares a descriptor, and all of them are open.
SocketsApart ==
  FirstLap =>
    /\ main_fd # -1 => /\ sock[main_fd] # Closed
                       /\ \A c \in Clients : Serving(c) => fd[c] # main_fd
    /\ \A i \in DOMAIN client_queue :
         /\ sock[client_queue[i]] # Closed /\ client_queue[i] # main_fd
         /\ \A j \in DOMAIN client_queue : client_queue[i] = client_queue[j] => i = j
         /\ \A c \in Clients : Serving(c) => fd[c] # client_queue[i]
    /\ \A c \in Clients : Serving(c) =>
         /\ sock[fd[c]] = conn[c] /\ conn[c] # Closed
         /\ sid[c] # NULL => socket_fd[sid[c]] = fd[c]
         /\ \A d \in Clients : Serving(d) /\ fd[c] = fd[d] => c = d

\* The inductive invariant.
PInv ==
  /\ Typed /\ TableFits /\ StopFits
  /\ RequestsFit /\ WorkersFit
  /\ TasksApart /\ TasksOld /\ TasksWaited
  /\ ResponsesFit /\ BuffersOwned
  /\ SocketsKept /\ SocketsApart

-----------------------------------------------------------------------------
(* Facts *)

\* The assumptions of SessionProofs.
LEMMA TableAssumptions == Table!MaxSessionsAssumption /\ Table!ClientsAssumption
  BY MaxSessionsAssumption, ThreadsAssumption
  DEF Table!MaxSessionsAssumption, Table!ClientsAssumption, Table!IsFiniteSet, IsFiniteSet

\* The operators of the table do not depend on the threads.
LEMMA SameTable ==
  /\ Table!NULL = NULL /\ Table!Index = Index /\ Table!Ids = Ids
  /\ Table!Allocated = Allocated
  /\ Table!FirstLap <=> FirstLap
  /\ Table!TableTypeOK <=> TableTypeOK
  /\ \A id, i : Table!InsertsAt(id, i) <=> InsertsAt(id, i)
  /\ \A id, i : Table!FindsAt(id, i) <=> FindsAt(id, i)
  /\ \A id : Table!Reachable(id) <=> Reachable(id)
  /\ \A id : Table!session_get(id) <=> session_get(id)
<1>1. Table!NULL = NULL /\ Table!Index = Index /\ Table!Ids = Ids
  BY DEF Table!NULL, NULL, Table!Index, Index, Table!Ids, Ids
<1>2. Table!Allocated = Allocated
  BY <1>1 DEF Table!Allocated, Allocated
<1>3. Table!FirstLap <=> FirstLap
  BY DEF Table!FirstLap, FirstLap
<1>4. Table!TableTypeOK <=> TableTypeOK
  BY <1>1 DEF Table!TableTypeOK, TableTypeOK
<1>5. \A id, k : Table!SlotOf(id, k) = SlotOf(id, k)
  BY DEF Table!SlotOf, SlotOf
<1>6. \A id, i : Table!InsertsAt(id, i) <=> InsertsAt(id, i)
  BY <1>1, <1>5 DEF Table!InsertsAt, InsertsAt
<1>7. \A id, i : Table!FindsAt(id, i) <=> FindsAt(id, i)
  BY <1>1, <1>5 DEF Table!FindsAt, FindsAt
<1>8. \A id : Table!Reachable(id) <=> Reachable(id)
  BY <1>1, <1>7 DEF Table!Reachable, Reachable
<1>9. \A id : Table!session_get(id) <=> session_get(id)
  BY <1>8 DEF Table!session_get, session_get
<1> QED
  BY <1>1, <1>2, <1>3, <1>4, <1>6, <1>7, <1>8, <1>9

\* A task names a session and a command.
LEMMA TaskFields ==
  /\ \A t \in Tasks : /\ t.sid \in Ids /\ t.op \in 1 .. MaxOps /\ t # NoTask
                      /\ t.sid # NULL /\ TaskBuffer(t) \subseteq Buffers
  /\ NoTask.sid = NULL /\ NoTask.op = 0 /\ TaskBuffer(NoTask) = {}
<1>1. NoTask.sid = NULL /\ NoTask.op = 0 /\ TaskBuffer(NoTask) = {}
  BY DEF NoTask, TaskBuffer
<1>2. ASSUME NEW t \in Tasks
      PROVE  /\ t.sid \in Ids /\ t.op \in 1 .. MaxOps /\ t # NoTask
             /\ t.sid # NULL /\ TaskBuffer(t) \subseteq Buffers
  <2>1. t.sid \in Ids /\ t.op \in 1 .. MaxOps
    BY DEF Tasks
  <2>2. t.sid # NULL
    BY <2>1 DEF Ids, NULL
  <2> QED
    BY <1>1, <2>1, <2>2 DEF TaskBuffer, Buffers
<1> QED
  BY <1>1, <1>2

\* What SessionProofs says of the threads' sessions, in all laps and in the first.
SessionsFit ==
  /\ mpc # "done"
  /\ \A c \in Clients :
       /\ sid[c] = NULL <=> cpc[c] \in {"pop", "create", "exit"}
       /\ sid[c] # NULL => sid[c] \in Ids /\ sid[c] \in Allocated /\ sid[c] < next_session_id
       /\ cpc[c] \notin {"pop", "create", "exit", "destroy"} => sid[c] \in active
       /\ FirstLap /\ sid[c] # NULL => Reachable(sid[c])
  /\ \A c, d \in Clients : sid[c] = sid[d] /\ sid[c] # NULL => c = d
  /\ \A i \in Allocated : i \in Ids /\ i < next_session_id
  /\ next_session_id \in Nat \ {0}

\* Until main is done: who has which session, and which entries are allocated.
LEMMA SessionsKnown ==
  ASSUME Typed, TableFits, mpc # "done"
  PROVE  SessionsFit
<1> USE SameTable DEF TableFits
<1>1. /\ Table!TypeOK /\ Table!IdsHandedOut /\ Table!StageShape
      /\ Table!SessionsDistinct /\ Table!SessionsKept
  BY DEF Table!IInv
<1>2. \A p \in CPCs : /\ StageOf(p) = "none" <=> p \in {"pop", "create", "exit"}
                      /\ p \notin {"pop", "create", "exit", "destroy"} => StageOf(p) \in {"created", "open"}
  BY DEF StageOf, CPCs
<1>3. ASSUME NEW c \in Clients
      PROVE  /\ sid[c] = NULL <=> cpc[c] \in {"pop", "create", "exit"}
             /\ sid[c] # NULL => sid[c] \in Ids /\ sid[c] \in Allocated /\ sid[c] < next_session_id
             /\ cpc[c] \notin {"pop", "create", "exit", "destroy"} => sid[c] \in active
  BY <1>1, <1>2 DEF Table!StageShape, Table!SessionsKept, Table!IdsHandedOut, Typed
<1>4. ASSUME FirstLap, NEW c \in Clients, sid[c] # NULL
      PROVE  Reachable(sid[c])
  <2>1. sid[c] \in Table!Allocated
    BY <1>3, <1>4
  <2> QED
    BY <1>4, <2>1, TableAssumptions, Table!AllocatedReachable
<1>5. \A c, d \in Clients : sid[c] = sid[d] /\ sid[c] # NULL => c = d
  BY <1>1 DEF Table!SessionsDistinct
<1>6. \A i \in Allocated : i \in Ids /\ i < next_session_id
  BY <1>1 DEF Table!IdsHandedOut, Allocated, TableTypeOK
<1>7. next_session_id \in Nat \ {0}
  BY DEF TableTypeOK
<1> QED
  BY <1>3, <1>4, <1>5, <1>6, <1>7 DEF SessionsFit

-----------------------------------------------------------------------------
(* The steps *)

\* A client thread only goes on to another place.
Goes(c, from, to) ==
  /\ ClientAt(c, from, to)
  /\ UNCHANGED <<sessionvars, client_queue, task_queue, shutdown, sock, mainvars,
                 heap, response, sid, fd, conn, request, workervars>>
ClientGoes(c) ==
  \E from \in {"get", "auth", "serve", "recv", "wait", "asleep", "check", "send"},
     to \in {"auth", "serve", "reset", "wait", "asleep", "check", "send", "mark"} :
    /\ Goes(c, from, to)
    /\ to = "check" <=> from = "wait" /\ response[sid[c]].ready
    /\ to = "send" <=> from = "check"
    /\ to = "reset" <=> from = "recv"
    /\ to \in {"wait", "asleep"} => from \in {"wait", "asleep"}
    /\ from \in {"wait", "asleep"} => to \in {"wait", "asleep", "check"}
    /\ from = "get" => to = "auth" /\ session_get(sid[c])
    /\ to = "auth" => from = "get"

\* A worker only goes on to another place.
WorkerGoes(w) ==
  /\ \E from \in {"work", "read", "lookup", "count", "print"},
        to \in {"lookup", "set", "print", "free", "stuck"} :
       /\ WorkerAt(w, from, to)
       /\ to = "lookup" <=> from \in {"work", "read"}
       /\ to = "set" <=> from = "lookup"
  /\ UNCHANGED <<sessionvars, client_queue, task_queue, shutdown, sock, mainvars,
                 heap, response, clientvars, task, data>>

\* A step of main or of the signal handler while the threads run.
MainActs ==
  \/ \E f \in Fds : Accept(f)
  \/ PushConnection \/ RejectConnection
  \/ LeaveAcceptLoop
  \/ \E q \in Queues : Shutdown(q)
ClientActs(c) ==
  \/ TakeConnection(c) \/ ClientExit(c)
  \/ \E i \in Index : CreateSession(c, i)
  \/ CreateFails(c) \/ GetMisses(c)
  \/ MarkInactive(c) \/ DestroySession(c)
  \/ \E k \in Kinds : Command(c, k)
  \/ ReceiveFails(c)
  \/ ResetResponse(c) \/ PushTask(c) \/ PushRefused(c)
  \/ ClientGoes(c)
WorkerActs(w) ==
  \/ TakeTask(w) \/ WorkerExit(w)
  \/ AllocateData(w) \/ ReadFails(w) \/ DropResponse(w)
  \/ SetResponse(w) \/ FreeTask(w)
  \/ WorkerGoes(w)

\* The session of a client thread past "check" is active: none is thrown out.
LEMMA ClientGoesOn ==
  ASSUME SessionsFit, NEW c \in Clients,
         \/ GetSession(c) \/ Authenticate(c) \/ EndSession(c) \/ WaitResponse(c)
         \/ ReceiveData(c) \/ SpuriousWakeup(c) \/ CheckActive(c) \/ SendResponse(c)
  PROVE  ClientGoes(c)
<1>1. CASE GetSession(c)
  <2>1. Goes(c, "get", "auth") /\ session_get(sid[c])
    BY <1>1 DEF GetSession, Goes
  <2> QED
    BY <2>1 DEF ClientGoes
<1>2. CASE Authenticate(c)
  <2>1. Goes(c, "auth", "serve")
    BY <1>2 DEF Authenticate, Goes
  <2> QED
    BY <2>1 DEF ClientGoes
<1>3. CASE EndSession(c)
  <2>1. Goes(c, "auth", "mark") \/ Goes(c, "serve", "mark") \/ Goes(c, "send", "mark")
    BY <1>3 DEF EndSession, Goes
  <2> QED
    BY <2>1 DEF ClientGoes
<1>4. CASE WaitResponse(c)
  <2>1. CASE response[sid[c]].ready
    <3>1. Goes(c, "wait", "check")
      BY <1>4, <2>1 DEF WaitResponse, Goes
    <3> QED
      BY <2>1, <3>1 DEF ClientGoes
  <2>2. CASE ~ response[sid[c]].ready
    <3>1. Goes(c, "wait", "asleep")
      BY <1>4, <2>2 DEF WaitResponse, Goes
    <3> QED
      BY <2>2, <3>1 DEF ClientGoes
  <2> QED
    BY <2>1, <2>2
<1>5. CASE SpuriousWakeup(c)
  <2>1. Goes(c, "asleep", "wait")
    BY <1>5 DEF SpuriousWakeup, Goes
  <2> QED
    BY <2>1 DEF ClientGoes
<1>6. CASE CheckActive(c)
  <2>1. cpc[c] = "check"
    BY <1>6 DEF CheckActive, ClientAt
  <2>2. sid[c] \in active
    BY <2>1 DEF SessionsFit
  <2>3. Goes(c, "check", "send")
    BY <1>6, <2>2 DEF CheckActive, Goes
  <2> QED
    BY <2>3 DEF ClientGoes
<1>7. CASE SendResponse(c)
  <2>1. Goes(c, "send", "serve")
    BY <1>7 DEF SendResponse, Goes
  <2> QED
    BY <2>1 DEF ClientGoes
<1>8. CASE ReceiveData(c)
  <2>1. Goes(c, "recv", "reset")
    BY <1>8 DEF ReceiveData, Goes
  <2> QED
    BY <2>1 DEF ClientGoes
<1> QED
  BY <1>1, <1>2, <1>3, <1>4, <1>5, <1>6, <1>7, <1>8

\* The steps of a worker that change nothing but its place.
LEMMA WorkerGoesOn ==
  ASSUME NEW w \in Workers,
         \/ Work(w) \/ ReadFile(w)
         \/ FindSession(w) \/ CountOperation(w) \/ PrintOperations(w)
  PROVE  WorkerGoes(w)
  BY DEF Work, ReadFile, FindSession, CountOperation, PrintOperations, WorkerAt, WorkerGoes

\* Once main is done nothing happens; before, the session table is known.
LEMMA Steps ==
  ASSUME PInv, [Next]_vars
  PROVE  \/ UNCHANGED vars
         \/ /\ mpc # "done" /\ SessionsFit
            /\ \/ MainActs \/ DestroyAll
               \/ \E c \in Clients : ClientActs(c)
               \/ \E w \in Workers : WorkerActs(w)
<1>1. ASSUME NEW c \in Clients, cpc[c] # "exit"
      PROVE  mpc # "done"
  BY <1>1 DEF PInv, StopFits
<1>2. ASSUME NEW w \in Workers, wpc[w] # "exit"
      PROVE  mpc # "done"
  BY <1>2 DEF PInv, StopFits
<1>3. ASSUME mpc # "done" PROVE SessionsFit
  BY <1>3, SessionsKnown DEF PInv
<1>4. ASSUME MainActs \/ DestroyAll PROVE mpc # "done"
  <2>1. mpc = "done" => main_fd = -1 /\ shutdown = Queues
    BY DEF PInv, StopFits
  <2> QED
    BY <1>4, <2>1 DEF MainActs, DestroyAll, Accept, PushConnection, RejectConnection,
                      LeaveAcceptLoop, Shutdown
<1>5. MainStep => MainActs \/ DestroyAll
  BY DEF MainStep, MainActs
<1>6. ASSUME NEW c \in Clients,
             \/ ClientStep(c)
             \/ Authenticate(c) \/ EndSession(c) \/ SpuriousWakeup(c)
             \/ ReceiveData(c) \/ ReceiveFails(c) \/ SendResponse(c)
             \/ \E k \in Kinds : Command(c, k)
      PROVE  mpc # "done" /\ SessionsFit /\ ClientActs(c)
  <2>1. cpc[c] # "exit"
    <3>1. CASE ClientStep(c)
      BY <3>1 DEF ClientStep, TakeConnection, ClientExit, CreateSession, CreateFails, GetSession,
                GetMisses, MarkInactive, DestroySession, ResetResponse, PushTask,
                PushRefused, WaitResponse, CheckActive, ClientAt
    <3> QED
      BY <1>6, <3>1 DEF Authenticate, EndSession, SpuriousWakeup, ReceiveData, ReceiveFails,
                SendResponse, Command, ClientAt
  <2>2. mpc # "done" /\ SessionsFit
    BY <1>1, <1>3, <2>1
  <2> QED
    BY <1>6, <2>2, ClientGoesOn DEF ClientStep, ClientActs
<1>7. ASSUME NEW w \in Workers, WorkerStep(w)
      PROVE  mpc # "done" /\ SessionsFit /\ WorkerActs(w)
  <2>1. wpc[w] # "exit"
    BY <1>7 DEF WorkerStep, TakeTask, WorkerExit, Work, AllocateData, ReadFile, ReadFails,
                FindSession, DropResponse,
                SetResponse, CountOperation, PrintOperations, FreeTask, WorkerAt
  <2>2. mpc # "done" /\ SessionsFit
    BY <1>2, <1>3, <2>1
  <2> QED
    BY <1>7, <2>2, WorkerGoesOn DEF WorkerStep, WorkerActs
<1> QED
  <2>1. CASE Next
    BY <1>3, <1>4, <1>5, <1>6, <1>7, <2>1 DEF Next, Finished, MainActs
  <2> QED
    BY <2>1

\* A command gets the next task of its session.
LEMMA CommandBuilds ==
  ASSUME Typed, SessionsFit, NEW c \in Clients, NEW k \in Kinds, Command(c, k)
  PROVE  \E t \in Tasks :
           /\ t.sid = sid[c] /\ t.op = request[c].op + 1 /\ t.kind = k
           /\ request' = [request EXCEPT ![c] = t]
           /\ heap' = heap \cup TaskBuffer(t)
<1> DEFINE t == [sid |-> sid[c], op |-> request[c].op + 1, kind |-> k]
<1>1. cpc[c] = "serve" /\ request[c].op < MaxOps
  BY DEF Command, ClientAt
<1>2. request[c].op + 1 \in 1 .. MaxOps
  <2>1. request[c] \in Tasks \/ request[c] = NoTask
    BY DEF Typed
  <2>2. MaxOps \in Nat
    BY BoundsAssumption
  <2> QED
    BY <1>1, <2>1, <2>2, TaskFields
<1>3. sid[c] \in Ids
  BY <1>1 DEF SessionsFit
<1>4. t \in Tasks /\ t.sid = sid[c] /\ t.op = request[c].op + 1 /\ t.kind = k
  BY <1>2, <1>3 DEF Tasks
<1>5. request' = [request EXCEPT ![c] = t] /\ heap' = heap \cup TaskBuffer(t)
  BY DEF Command
<1> QED
  BY <1>4, <1>5

-----------------------------------------------------------------------------
(* The invariant is inductive: each part in turn *)

\* Every step keeps the types of what is not in the session table.
LEMMA TypedStep == PInv /\ [Next]_vars => Typed'
<1> SUFFICES ASSUME PInv, [Next]_vars PROVE Typed'
  OBVIOUS
<1>t. Typed
  BY DEF PInv
<1>0. /\ Closed \in 0 .. MaxConns /\ MaxConns \in Nat /\ MaxOps \in Nat
      /\ ClientCapacity \in Nat /\ TaskCapacity \in Nat
  BY BoundsAssumption DEF Closed
<1>1. ASSUME MainActs PROVE Typed'
  <2>1. CASE \E f \in Fds : Accept(f)
    BY <1>t, <1>0, <2>1 DEF Typed, Accept, sessionvars, tablevars, clientvars, workervars
  <2>2. CASE PushConnection
    BY <1>t, <1>0, <2>2, AppendProperties
    DEF Typed, PushConnection, sessionvars, tablevars, clientvars, workervars
  <2>3. CASE RejectConnection
    BY <1>t, <1>0, <2>3 DEF Typed, RejectConnection, sessionvars, tablevars, clientvars, workervars
  <2>4. CASE LeaveAcceptLoop \/ \E q \in Queues : Shutdown(q)
    BY <1>t, <2>4 DEF Typed, LeaveAcceptLoop, Shutdown, sessionvars, tablevars, mainvars,
                clientvars, workervars
  <2> QED
    BY <1>1, <2>1, <2>2, <2>3, <2>4 DEF MainActs
<1>2. ASSUME DestroyAll PROVE Typed'
  <2>1. EmptyResponse \in [ready : BOOLEAN, answers : Tasks \cup {NoTask}, data : SUBSET Buffers]
    BY DEF EmptyResponse
  <2> QED
    BY <1>t, <1>0, <1>2, <2>1 DEF Typed, DestroyAll, clientvars, workervars
<1>3. ASSUME mpc # "done", SessionsFit, NEW c \in Clients, ClientActs(c)
      PROVE  Typed'
  <2> USE DEF Typed, ClientAt, sessionvars, tablevars, mainvars, clientvars, workervars
  <2>0. cpc' \in [Clients -> CPCs]
    <3>1. ASSUME NEW to \in CPCs, cpc' = [cpc EXCEPT ![c] = to]
          PROVE  cpc' \in [Clients -> CPCs]
      BY <1>t, <3>1
    <3> QED
      BY <1>3, <3>1 DEF ClientActs, TakeConnection, ClientExit, CreateSession, CreateFails,
         GetMisses, MarkInactive, DestroySession, Command, ReceiveFails, ResetResponse, PushTask,
         PushRefused, ClientGoes, Goes, CPCs
  <2>c. ASSUME NextClient(c)
        PROVE  /\ sid' \in [Clients -> Ids \cup {NULL}]
               /\ fd' \in [Clients -> Fds \cup {-1}]
               /\ conn' \in [Clients -> 0 .. MaxConns]
               /\ request' \in [Clients -> Tasks \cup {NoTask}]
    BY <1>t, <1>0, <2>c DEF NextClient
  <2>1. CASE TakeConnection(c)
    <3>1. Len(client_queue) \in Nat /\ client_queue # <<>> /\ client_queue \in Seq(Fds)
      BY <1>t, <2>1, LenProperties DEF TakeConnection
    <3>2. /\ Head(client_queue) \in Fds /\ Tail(client_queue) \in Seq(Fds)
          /\ Len(Tail(client_queue)) = Len(client_queue) - 1
      BY <3>1, HeadTailProperties
    <3> QED
      BY <1>t, <1>0, <2>0, <2>1, <3>1, <3>2 DEF TakeConnection
  <2>2. CASE ClientExit(c) \/ MarkInactive(c) \/ ClientGoes(c)
    BY <1>t, <2>0, <2>2 DEF ClientExit, MarkInactive, session_mark_inactive, ClientGoes, Goes
  <2>3. CASE \E i \in Index : CreateSession(c, i)
    <3>1. next_session_id \in Ids
      BY <2>3, MaxSessionsAssumption DEF PInv, CreateSession, Ids, TableFits, TableTypeOK
    <3> QED
      BY <1>t, <2>0, <2>3, <3>1 DEF CreateSession, session_create
  <2>4. CASE CreateFails(c)
    <3>1. sock' \in [Fds -> 0 .. MaxConns]
      BY <1>t, <1>0, <2>4 DEF CreateFails
    <3> QED
      BY <1>t, <2>0, <2>4, <2>c, <3>1 DEF CreateFails
  <2>5. CASE GetMisses(c)
    BY <1>t, <1>0, <2>0, <2>5 DEF GetMisses
  <2>6. CASE DestroySession(c)
    <3>1. EmptyResponse \in [ready : BOOLEAN, answers : Tasks \cup {NoTask}, data : SUBSET Buffers]
      BY DEF EmptyResponse
    <3>2. /\ sock' \in [Fds -> 0 .. MaxConns]
          /\ socket_fd' \in [Ids -> Fds \cup {-1}]
          /\ heap' \subseteq Buffers
          /\ response' \in [Ids -> [ready : BOOLEAN, answers : Tasks \cup {NoTask},
                                    data : SUBSET Buffers]]
      <4>1. CASE Reachable(sid[c])
        BY <1>t, <1>0, <2>6, <3>1, <4>1 DEF DestroySession
      <4>2. CASE ~ Reachable(sid[c])
        BY <1>t, <2>6, <4>2 DEF DestroySession
      <4> QED
        BY <4>1, <4>2
    <3> QED
      BY <1>t, <2>0, <2>6, <2>c, <3>2 DEF DestroySession
  <2>7. CASE \E k \in Kinds : Command(c, k)
    <3>1. PICK k \in Kinds : Command(c, k)
      BY <2>7
    <3>2. PICK t \in Tasks : request' = [request EXCEPT ![c] = t] /\ heap' = heap \cup TaskBuffer(t)
      BY <1>t, <1>3, <3>1, CommandBuilds
    <3>3. TaskBuffer(t) \subseteq Buffers
      BY TaskFields
    <3> QED
      BY <1>t, <2>0, <3>1, <3>2, <3>3 DEF Command
  <2>8. CASE ResetResponse(c)
    <3>1. EmptyResponse \in [ready : BOOLEAN, answers : Tasks \cup {NoTask}, data : SUBSET Buffers]
      BY DEF EmptyResponse
    <3> QED
      BY <1>t, <2>0, <2>8, <3>1 DEF ResetResponse
  <2>9. CASE PushTask(c)
    <3>1. request[c] \in Tasks
      BY <2>9 DEF PInv, PushTask, RequestsFit
    <3> QED
      BY <1>t, <1>0, <2>0, <2>9, <3>1, AppendProperties DEF PushTask
  <2>10. CASE ReceiveFails(c) \/ PushRefused(c)
    BY <1>t, <2>0, <2>10 DEF ReceiveFails, PushRefused
  <2> QED
    BY <1>3, <2>1, <2>2, <2>3, <2>4, <2>5, <2>6, <2>7, <2>8, <2>9, <2>10 DEF ClientActs
<1>4. ASSUME NEW w \in Workers, WorkerActs(w)
      PROVE  Typed'
  <2> USE DEF Typed, WorkerAt, sessionvars, tablevars, mainvars, clientvars, workervars, WPCs
  <2>1. CASE TakeTask(w)
    <3>1. Len(task_queue) \in Nat /\ task_queue # <<>> /\ task_queue \in Seq(Tasks)
      BY <1>t, <2>1, LenProperties DEF TakeTask
    <3>2. /\ Head(task_queue) \in Tasks /\ Tail(task_queue) \in Seq(Tasks)
          /\ Len(Tail(task_queue)) = Len(task_queue) - 1
      BY <3>1, HeadTailProperties
    <3> QED
      BY <1>t, <1>0, <2>1, <3>1, <3>2 DEF TakeTask
  <2>2. CASE WorkerExit(w) \/ WorkerGoes(w)
    BY <1>t, <2>2 DEF WorkerExit, WorkerGoes
  <2>3. CASE AllocateData(w)
    <3>1. task[w] \in Tasks
      BY <1>t, <2>3 DEF PInv, AllocateData, WorkersFit
    <3>2. {<<"data", task[w].sid, task[w].op>>} \subseteq Buffers
      BY <3>1, TaskFields DEF Buffers
    <3>3. PICK d \in SUBSET Buffers : data' = [data EXCEPT ![w] = d] /\ heap' = heap \cup d
      BY <2>3, <3>2 DEF AllocateData
    <3> QED
      BY <1>t, <2>3, <3>3 DEF AllocateData
  <2>4. CASE ReadFails(w) \/ DropResponse(w) \/ FreeTask(w)
    BY <1>t, <2>4 DEF ReadFails, DropResponse, FreeTask
  <2>5. CASE SetResponse(w)
    <3>1. [ready |-> TRUE, answers |-> task[w], data |-> data[w]]
             \in [ready : BOOLEAN, answers : Tasks \cup {NoTask}, data : SUBSET Buffers]
      BY <1>t
    <3>2. cpc' \in [Clients -> CPCs]
      BY <1>t, <2>5 DEF SetResponse, CPCs
    <3> QED
      BY <1>t, <2>5, <3>1, <3>2 DEF SetResponse
  <2> QED
    BY <1>4, <2>1, <2>2, <2>3, <2>4, <2>5 DEF WorkerActs
<1>5. CASE UNCHANGED vars
  BY <1>t, <1>5 DEF Typed, vars, sessionvars, tablevars, mainvars, clientvars, workervars
<1> QED
  BY <1>1, <1>2, <1>3, <1>4, <1>5, Steps

\* The stages of the threads, as SessionLifecycle calls their places.
Stage == [c \in Clients |-> StageOf(cpc[c])]

\* What StageOf makes of each place.
LEMMA StageOfPlaces ==
  /\ \A p \in {"pop", "create", "exit"} : StageOf(p) = "none"
  /\ StageOf("get") = "created" /\ StageOf("destroy") = "ending"
  /\ \A p \in CPCs \ {"pop", "create", "exit", "get", "destroy"} : StageOf(p) = "open"
  BY DEF StageOf, CPCs

\* Every step of the threads is a step of SessionLifecycle or leaves it alone.
LEMMA LifeStep ==
  ASSUME Typed, SessionsFit,
         \/ MainActs
         \/ \E c \in Clients : ClientActs(c)
         \/ \E w \in Workers : WorkerActs(w)
  PROVE  [Table!Next]_(Table!lifevars)
<1>t. cpc \in [Clients -> CPCs]
  BY DEF Typed
<1>1. CASE UNCHANGED <<tablevars, sid, Stage>>
  BY <1>1 DEF tablevars, Stage, Table!lifevars
<1>2. CASE MainActs
  <2>1. UNCHANGED <<sessionvars, clientvars>>
    BY <1>2 DEF MainActs, Accept, PushConnection, RejectConnection, LeaveAcceptLoop, Shutdown
  <2> QED
    BY <1>1, <2>1 DEF sessionvars, clientvars, Stage
<1>3. ASSUME NEW w \in Workers, WorkerActs(w) PROVE [Table!Next]_(Table!lifevars)
  <2>1. CASE SetResponse(w)
    <3>1. UNCHANGED <<sessionvars, sid>>
      BY <2>1 DEF SetResponse
    <3>2. \A c \in Clients : cpc'[c] = cpc[c] \/ (cpc[c] = "asleep" /\ cpc'[c] = "wait")
      BY <2>1 DEF SetResponse
    <3>3. \A c \in Clients : StageOf(cpc'[c]) = StageOf(cpc[c])
      BY <3>2, StageOfPlaces DEF CPCs
    <3> QED
      BY <1>1, <3>1, <3>3 DEF sessionvars, Stage
  <2>2. CASE ~ SetResponse(w)
    <3>1. UNCHANGED <<sessionvars, clientvars>>
      BY <1>3, <2>2 DEF WorkerActs, TakeTask, WorkerExit, AllocateData, ReadFails, DropResponse, FreeTask, WorkerGoes
    <3> QED
      BY <1>1, <3>1 DEF sessionvars, clientvars, Stage
  <2> QED
    BY <2>1, <2>2
<1>4. ASSUME NEW c \in Clients, ClientActs(c) PROVE [Table!Next]_(Table!lifevars)
  <2>1. \A from, to : ClientAt(c, from, to) =>
          Stage[c] = StageOf(from) /\ Stage' = [Stage EXCEPT ![c] = StageOf(to)]
    BY <1>t DEF ClientAt, Stage
  <2>s. ASSUME NEW from, NEW to, ClientAt(c, from, to), StageOf(from) = StageOf(to)
        PROVE  Stage' = Stage
    BY <1>t, <2>s DEF ClientAt, Stage
  <2> USE SameTable DEF Stage
  <2>2. ASSUME NEW i \in Index, CreateSession(c, i) PROVE Table!Next
    <3>1. Stage[c] = "none" /\ Stage' = [Stage EXCEPT ![c] = "created"]
      BY <2>1, <2>2, StageOfPlaces DEF CreateSession
    <3>2. Table!session_create(i)
      BY <2>2 DEF CreateSession, session_create, Table!session_create
    <3>3. Table!Create(c, i)
      BY <2>2, <3>1, <3>2 DEF CreateSession, Table!Create
    <3> QED
      BY <3>3 DEF Table!Next
  <2>3. CASE CreateFails(c)
    <3>1. Stage[c] = "none" /\ Stage' = [Stage EXCEPT ![c] = "none"]
      BY <2>1, <2>3, StageOfPlaces DEF CreateFails
    <3>2. sid[c] = NULL
      BY <2>3 DEF CreateFails, ClientAt, SessionsFit
    <3>3. UNCHANGED <<sid, Stage>>
      BY <2>3, <3>1, <3>2 DEF CreateFails, NextClient, Typed
    <3>4. Table!CreateFails(c)
      BY <2>3, <3>1, <3>3 DEF CreateFails, session_create_fails, Table!session_create_fails, Table!CreateFails
    <3> QED
      BY <3>4 DEF Table!Next
  <2>4. CASE GetMisses(c)
    <3>1. Stage[c] = "created" /\ Stage' = [Stage EXCEPT ![c] = "ending"]
      BY <2>1, <2>4, StageOfPlaces DEF GetMisses
    <3>2. Table!GetMisses(c)
      BY <2>4, <3>1 DEF GetMisses, sessionvars, tablevars, Table!tablevars, Table!GetMisses
    <3> QED
      BY <3>2 DEF Table!Next
  <2>5. CASE MarkInactive(c)
    <3>1. Stage[c] = "open" /\ Stage' = [Stage EXCEPT ![c] = "ending"]
      BY <2>1, <2>5, StageOfPlaces DEF MarkInactive, CPCs
    <3>2. Table!MarkInactive(c)
      BY <2>5, <3>1 DEF MarkInactive, session_mark_inactive, Table!session_mark_inactive, Table!MarkInactive
    <3> QED
      BY <3>2 DEF Table!Next
  <2>6. CASE DestroySession(c)
    <3>1. Stage[c] = "ending" /\ Stage' = [Stage EXCEPT ![c] = "none"]
      BY <2>1, <2>6, StageOfPlaces DEF DestroySession
    <3>2. sid' = [sid EXCEPT ![c] = NULL] /\ session_destroy(sid[c])
      BY <2>6 DEF DestroySession, NextClient
    <3>3. Table!Destroy(c)
      BY <3>1, <3>2 DEF session_destroy, Table!session_destroy, Table!Destroy
    <3> QED
      BY <3>3 DEF Table!Next
  <2>7. CASE ClientGoes(c) /\ Goes(c, "get", "auth")
    <3>0. session_get(sid[c])
      BY <2>7 DEF ClientGoes, Goes, ClientAt
    <3>1. Stage[c] = "created" /\ Stage' = [Stage EXCEPT ![c] = "open"]
      BY <2>1, <2>7, StageOfPlaces DEF Goes, CPCs
    <3>2. Table!GetSession(c)
      BY <2>7, <3>0, <3>1 DEF Goes, sessionvars, tablevars, Table!tablevars, Table!GetSession
    <3> QED
      BY <3>2 DEF Table!Next
  <2>8. CASE TakeConnection(c) \/ ClientExit(c) \/ (\E k \in Kinds : Command(c, k))
             \/ ReceiveFails(c) \/ ResetResponse(c) \/ PushTask(c) \/ PushRefused(c)
    <3>1. UNCHANGED <<sessionvars, sid>>
      BY <2>8 DEF TakeConnection, ClientExit, Command, ReceiveFails, ResetResponse, PushTask, PushRefused
    <3>2. \/ ClientAt(c, "pop", "create") \/ ClientAt(c, "pop", "exit")
          \/ ClientAt(c, "serve", "recv") \/ ClientAt(c, "serve", "reset")
          \/ ClientAt(c, "recv", "serve") \/ ClientAt(c, "reset", "push")
          \/ ClientAt(c, "push", "wait") \/ ClientAt(c, "push", "serve")
      BY <2>8 DEF TakeConnection, ClientExit, Command, ReceiveFails, ResetResponse, PushTask, PushRefused
    <3>3. Stage' = Stage
      BY <2>s, <3>2, StageOfPlaces DEF CPCs
    <3> QED
      BY <1>1, <3>1, <3>3 DEF sessionvars
  <2>9. CASE ClientGoes(c) /\ ~ Goes(c, "get", "auth")
    <3>1. PICK from \in CPCs, to \in CPCs : Goes(c, from, to) /\ StageOf(from) = "open" /\ StageOf(to) = "open"
      BY <2>9, StageOfPlaces DEF ClientGoes, CPCs
    <3>2. Stage' = Stage
      BY <2>s, <3>1 DEF Goes
    <3> QED
      BY <1>1, <3>1, <3>2 DEF Goes, sessionvars
  <2> QED
    BY <1>4, <2>2, <2>3, <2>4, <2>5, <2>6, <2>7, <2>8, <2>9 DEF ClientActs
<1> QED
  BY <1>2, <1>3, <1>4

\* ... so the table stays as SessionProofs has it, until main frees it.
LEMMA TableStep == PInv /\ [Next]_vars => TableFits'
<1> SUFFICES ASSUME PInv, [Next]_vars PROVE TableFits'
  OBVIOUS
<1>0. Typed /\ TableFits
  BY DEF PInv
<1>1. CASE mpc # "done" /\ SessionsFit /\
           (MainActs \/ (\E c \in Clients : ClientActs(c)) \/ (\E w \in Workers : WorkerActs(w)))
  <2>1. Table!IInv /\ (Table!FirstLap => Table!Home)
    BY <1>0, <1>1, SameTable DEF TableFits
  <2>2. [Table!Next]_(Table!lifevars)
    BY <1>0, <1>1, LifeStep
  <2>3. Table!IInv'
    BY <2>1, <2>2, TableAssumptions, Table!StepPreserves
  <2>4. (Table!FirstLap => Table!Home)'
    BY <2>1, <2>2, TableAssumptions, Table!HomePreserved
  <2>5. Table!TableTypeOK'
    BY <2>3 DEF Table!IInv, Table!TypeOK
  <2>6. TableTypeOK'
    BY <2>5 DEF Table!TableTypeOK, TableTypeOK, Table!Index, Index, Table!Ids, Ids, Table!NULL, NULL
  <2>7. FirstLap' => Table!Home'
    BY <2>4 DEF FirstLap, Table!FirstLap
  <2> QED
    BY <2>3, <2>6, <2>7 DEF TableFits
<1>2. CASE DestroyAll
  <2>1. TableTypeOK'
    BY <1>0, <1>2 DEF TableFits, DestroyAll, session_manager_destroy, TableTypeOK
  <2>2. mpc' = "done"
    BY <1>2 DEF DestroyAll
  <2> QED
    BY <2>1, <2>2 DEF TableFits
<1>3. CASE UNCHANGED vars
  <2>1. UNCHANGED <<tablevars, sid, cpc, mpc>>
    BY <1>3 DEF vars, sessionvars, mainvars, clientvars
  <2>2. CASE mpc = "done"
    BY <1>0, <2>1, <2>2 DEF TableFits, TableTypeOK, tablevars
  <2>3. CASE mpc # "done"
    <3>1. Table!IInv /\ (Table!FirstLap => Table!Home)
      BY <1>0, <2>3, SameTable DEF TableFits
    <3>2. UNCHANGED Table!lifevars
      BY <2>1 DEF tablevars, Table!lifevars
    <3>3. Table!IInv' /\ (Table!FirstLap => Table!Home)'
      BY <3>1, <3>2, TableAssumptions, Table!StepPreserves, Table!HomePreserved
    <3>4. TableTypeOK'
      BY <1>0, <2>1 DEF TableFits, TableTypeOK, tablevars
    <3> QED
      BY <3>3, <3>4 DEF TableFits, FirstLap, Table!FirstLap
  <2> QED
    BY <2>2, <2>3
<1> QED
  BY <1>1, <1>2, <1>3, Steps

\* Which sessions the steps of a client thread allocate and free.
LEMMA SessionsMove ==
  ASSUME TableFits, mpc # "done", NEW c \in Clients
  PROVE  /\ UNCHANGED sessions => Allocated' = Allocated
         /\ \A i \in Index : CreateSession(c, i) =>
              /\ Allocated' = Allocated \cup {next_session_id}
              /\ next_session_id \in Ids /\ next_session_id \notin Allocated
         /\ DestroySession(c) =>
              Allocated' = IF Reachable(sid[c]) THEN Allocated \ {sid[c]} ELSE Allocated
<1>0. /\ Table!TypeOK /\ Table!IdsHandedOut /\ Table!SessionsDistinct
      /\ TableTypeOK /\ sid[c] \in Table!Ids \cup {Table!NULL}
  BY DEF TableFits, Table!IInv, Table!TypeOK
<1> USE SameTable
<1>a. Table!Allocated' = Allocated'
  BY DEF Table!Allocated, Allocated, Table!Index, Index, Table!NULL, NULL
<1>1. UNCHANGED sessions => Allocated' = Allocated
  BY DEF Allocated
<1>2. ASSUME NEW i \in Index, CreateSession(c, i)
      PROVE  /\ Allocated' = Allocated \cup {next_session_id}
             /\ next_session_id \in Ids /\ next_session_id \notin Allocated
  <2>1. next_session_id \in Ids
    BY <1>0, <1>2, MaxSessionsAssumption DEF CreateSession, Ids, TableTypeOK
  <2>2. Table!session_create(i)
    BY <1>2 DEF CreateSession, session_create, Table!session_create
  <2>3. Table!Allocated' = Table!Allocated \cup {next_session_id} /\ next_session_id \notin Table!Allocated
    BY <1>0, <1>2, <2>1, <2>2, TableAssumptions, Table!CreateAllocates
  <2> QED
    BY <1>a, <2>1, <2>3
<1>3. ASSUME DestroySession(c)
      PROVE  Allocated' = IF Reachable(sid[c]) THEN Allocated \ {sid[c]} ELSE Allocated
  <2>1. Table!session_destroy(sid[c])
    BY <1>3 DEF DestroySession, session_destroy, Table!session_destroy
  <2>2. Table!Allocated' = IF Table!Reachable(sid[c]) THEN Table!Allocated \ {sid[c]} ELSE Table!Allocated
    BY <1>0, <2>1, TableAssumptions, Table!DestroyFrees
  <2> QED
    BY <1>a, <2>2
<1> QED
  BY <1>1, <1>2, <1>3

\* How the threads stop.
LEMMA StopStep == PInv /\ [Next]_vars => StopFits'
<1> SUFFICES ASSUME PInv, [Next]_vars PROVE StopFits'
  OBVIOUS
<1>0. Typed /\ StopFits
  BY DEF PInv
<1>a. UNCHANGED sessions => Allocated' = Allocated
  BY DEF Allocated
<1>1. CASE MainActs
  BY <1>0, <1>1 DEF StopFits, MainActs, Accept, PushConnection, RejectConnection,
     LeaveAcceptLoop, Shutdown, clientvars, workervars, mainvars, Queues
<1>2. CASE DestroyAll
  <2>1. sessions' = [i \in Index |-> NULL]
    BY <1>2 DEF DestroyAll, session_manager_destroy
  <2>2. Allocated' = {}
    BY <2>1 DEF Allocated
  <2> QED
    BY <1>0, <1>2, <2>2 DEF StopFits, DestroyAll, clientvars, workervars
<1>3. ASSUME mpc # "done", NEW c \in Clients, ClientActs(c)
      PROVE  StopFits'
  <2> USE <1>0 DEF ClientAt, mainvars, workervars
  <2>1. CASE TakeConnection(c) \/ ClientExit(c)
    BY <1>3, <2>1 DEF StopFits, TakeConnection, ClientExit, Typed
  <2>2. CASE PushTask(c)
    BY <1>3, <2>2 DEF StopFits, PushTask, Typed
  <2>3. CASE ~ (TakeConnection(c) \/ ClientExit(c) \/ PushTask(c))
    <3>1. UNCHANGED <<mpc, main_fd, shutdown, wpc, client_queue, task_queue>>
      BY <1>3, <2>3 DEF ClientActs, CreateSession, CreateFails,
         GetMisses, MarkInactive, DestroySession, Command, ReceiveFails, ResetResponse,
         PushRefused, ClientGoes, Goes
    <3>2. \A d \in Clients : cpc'[d] = "exit" => cpc[d] = "exit"
      BY <1>3, <2>3 DEF ClientActs, CreateSession, CreateFails,
         GetMisses, MarkInactive, DestroySession, Command, ReceiveFails, ResetResponse,
         PushRefused, ClientGoes, Goes, Typed
    <3> QED
      BY <1>3, <3>1, <3>2 DEF StopFits
  <2> QED
    BY <2>1, <2>2, <2>3
<1>4. ASSUME mpc # "done", NEW w \in Workers, WorkerActs(w)
      PROVE  StopFits'
  <2> USE <1>0 DEF WorkerAt, mainvars, clientvars
  <2>1. CASE TakeTask(w) \/ WorkerExit(w)
    BY <1>4, <2>1 DEF StopFits, TakeTask, WorkerExit, Typed
  <2>2. CASE ~ (TakeTask(w) \/ WorkerExit(w))
    <3>1. UNCHANGED <<mpc, main_fd, shutdown, client_queue, task_queue>>
      BY <1>4, <2>2 DEF WorkerActs, AllocateData, ReadFails, DropResponse, SetResponse, FreeTask, WorkerGoes
    <3>2. \A d \in Clients : cpc'[d] = "exit" => cpc[d] = "exit"
      BY <1>4, <2>2 DEF WorkerActs, AllocateData, ReadFails, DropResponse, SetResponse, FreeTask, WorkerGoes
    <3>3. \A v \in Workers : wpc'[v] = "exit" => wpc[v] = "exit"
      BY <1>4, <2>2 DEF WorkerActs, AllocateData, ReadFails, DropResponse, SetResponse, FreeTask, WorkerGoes, Typed
    <3> QED
      BY <1>4, <3>1, <3>2, <3>3 DEF StopFits
  <2> QED
    BY <2>1, <2>2
<1>5. CASE UNCHANGED vars
  BY <1>0, <1>a, <1>5 DEF StopFits, vars, sessionvars, tablevars, mainvars, clientvars, workervars
<1> QED
  BY <1>1, <1>2, <1>3, <1>4, <1>5, Steps

\* The task a client thread has built stays for its session.
LEMMA RequestsStep == PInv /\ [Next]_vars => RequestsFit'
<1> SUFFICES ASSUME PInv, [Next]_vars PROVE RequestsFit'
  OBVIOUS
<1>0. Typed /\ RequestsFit
  BY DEF PInv
<1>1. CASE UNCHANGED clientvars
  BY <1>0, <1>1 DEF RequestsFit, clientvars
<1>2. ASSUME SessionsFit, NEW c \in Clients, ClientActs(c)
      PROVE  RequestsFit'
  <2> USE <1>0 DEF ClientAt
  <2>1. ASSUME NEW i \in Index, CreateSession(c, i) PROVE RequestsFit'
    <3>1. sid[c] = NULL
      BY <1>2, <2>1 DEF CreateSession, SessionsFit
    <3>2. request[c] = NoTask
      BY <3>1, TaskFields DEF RequestsFit, Typed
    <3> QED
      BY <2>1, <3>2 DEF RequestsFit, CreateSession, Typed
  <2>2. CASE CreateFails(c) \/ DestroySession(c)
    <3>1. NextClient(c) /\ cpc' = [cpc EXCEPT ![c] = "pop"]
      BY <2>2 DEF CreateFails, DestroySession
    <3> QED
      BY <3>1 DEF RequestsFit, NextClient, Typed
  <2>3. ASSUME NEW k \in Kinds, Command(c, k) PROVE RequestsFit'
    <3>1. PICK t \in Tasks : t.sid = sid[c] /\ request' = [request EXCEPT ![c] = t]
      BY <1>2, <2>3, CommandBuilds
    <3> QED
      BY <2>3, <3>1 DEF RequestsFit, Command, Typed
  <2>4. CASE TakeConnection(c) \/ ClientExit(c) \/ GetMisses(c) \/ MarkInactive(c)
             \/ ReceiveFails(c) \/ ResetResponse(c) \/ PushTask(c) \/ PushRefused(c)
    BY <2>4 DEF RequestsFit, TakeConnection, ClientExit, GetMisses, MarkInactive,
                ReceiveFails, ResetResponse, PushTask, PushRefused, Typed
  <2>5. CASE ClientGoes(c)
    BY <2>5 DEF RequestsFit, ClientGoes, Goes, Typed
  <2> QED
    BY <1>2, <2>1, <2>2, <2>3, <2>4, <2>5 DEF ClientActs
<1>3. ASSUME NEW w \in Workers, SetResponse(w)
      PROVE  RequestsFit'
  BY <1>0, <1>3 DEF RequestsFit, SetResponse
<1>4. CASE MainActs \/ DestroyAll
  BY <1>1, <1>4 DEF MainActs, Accept, PushConnection, RejectConnection, LeaveAcceptLoop, Shutdown, DestroyAll
<1>5. ASSUME NEW w \in Workers, WorkerActs(w), ~ SetResponse(w)
      PROVE  RequestsFit'
  BY <1>1, <1>5 DEF WorkerActs, TakeTask, WorkerExit, AllocateData, ReadFails, DropResponse, FreeTask, WorkerGoes
<1> QED
  BY <1>1, <1>2, <1>3, <1>4, <1>5, Steps DEF vars

\* A worker stays without a task, or without data, when it should be.
LEMMA WorkersStep == PInv /\ [Next]_vars => WorkersFit'
<1> SUFFICES ASSUME PInv, [Next]_vars PROVE WorkersFit'
  OBVIOUS
<1>0. Typed /\ WorkersFit
  BY DEF PInv
<1>1. CASE UNCHANGED workervars
  BY <1>0, <1>1 DEF WorkersFit, workervars
<1>2. ASSUME NEW w \in Workers, WorkerActs(w)
      PROVE  WorkersFit'
  <2> USE <1>0 DEF WorkerAt
  <2>1. CASE TakeTask(w)
    <3>1. Head(task_queue) \in Tasks
      BY <2>1, HeadTailProperties DEF TakeTask, Typed
    <3>2. Head(task_queue) # NoTask
      BY <3>1, TaskFields
    <3>3. data[w] = {}
      BY <2>1 DEF TakeTask, WorkersFit
    <3> QED
      BY <2>1, <3>2, <3>3 DEF WorkersFit, TakeTask, Typed
  <2>2. CASE AllocateData(w)
    <3>1. /\ wpc[w] = "work" /\ wpc' = [wpc EXCEPT ![w] = "read"] /\ task' = task
          /\ data' = [data EXCEPT ![w] = {<<"data", task[w].sid, task[w].op>>}]
      BY <2>2 DEF AllocateData
    <3>2. /\ wpc'[w] = "read" /\ data'[w] = {<<"data", task[w].sid, task[w].op>>}
          /\ \A v \in Workers \ {w} : wpc'[v] = wpc[v] /\ data'[v] = data[v]
      BY <3>1 DEF Typed
    <3>3. ASSUME NEW v \in Workers
          PROVE  /\ task'[v] = NoTask <=> wpc'[v] \in {"pop", "exit"}
                 /\ data'[v] # {} => wpc'[v] \in {"read", "lookup", "set"}
                 /\ data'[v] \subseteq {<<"data", task'[v].sid, task'[v].op>>}
      BY <3>1, <3>2 DEF WorkersFit
    <3> QED
      BY <3>3 DEF WorkersFit
  <2>3. CASE WorkerExit(w) \/ ReadFails(w) \/ DropResponse(w) \/ FreeTask(w)
    BY <2>3 DEF WorkersFit, WorkerExit, ReadFails, DropResponse, FreeTask, Typed
  <2>4. CASE SetResponse(w)
    BY <2>4 DEF WorkersFit, SetResponse, Typed
  <2>5. CASE WorkerGoes(w)
    <3>1. UNCHANGED <<task, data>>
      BY <2>5 DEF WorkerGoes
    <3>2. PICK from \in {"work", "read", "lookup", "count", "print"},
               to \in {"lookup", "set", "print", "free", "stuck"} :
            /\ wpc[w] = from /\ wpc' = [wpc EXCEPT ![w] = to]
            /\ from \in {"work", "read"} => to = "lookup"
            /\ from = "lookup" => to = "set"
      BY <2>5 DEF WorkerGoes
    <3>3. wpc'[w] = to /\ \A v \in Workers \ {w} : wpc'[v] = wpc[v]
      BY <3>2 DEF Typed
    <3>4. data[w] # {} => to \in {"lookup", "set"}
      BY <3>2 DEF WorkersFit
    <3>5. to \notin {"pop", "exit"} /\ task[w] # NoTask
      BY <3>2 DEF WorkersFit
    <3> QED
      BY <3>1, <3>3, <3>4, <3>5 DEF WorkersFit
  <2> QED
    BY <1>2, <2>1, <2>2, <2>3, <2>4, <2>5 DEF WorkerActs
<1>3. CASE MainActs \/ DestroyAll
  BY <1>1, <1>3 DEF MainActs, Accept, PushConnection, RejectConnection, LeaveAcceptLoop, Shutdown, DestroyAll
<1>4. ASSUME NEW c \in Clients, ClientActs(c)
      PROVE  WorkersFit'
  BY <1>1, <1>4 DEF ClientActs, TakeConnection, ClientExit, CreateSession, CreateFails,
     GetMisses, MarkInactive, DestroySession, Command, ReceiveFails, ResetResponse, PushTask,
     PushRefused, ClientGoes, Goes
<1> QED
  BY <1>1, <1>2, <1>3, <1>4, Steps DEF vars

\* The elements of a queue after a push and after a pop.
LEMMA PutLast ==
  ASSUME NEW S, NEW q \in Seq(S), NEW e \in S
  PROVE  /\ \A i \in DOMAIN q : i \in DOMAIN Append(q, e) /\ Append(q, e)[i] = q[i]
         /\ Len(q) + 1 \in DOMAIN Append(q, e) /\ Append(q, e)[Len(q) + 1] = e
         /\ \A i \in DOMAIN Append(q, e) \ {Len(q) + 1} : i \in DOMAIN q
<1>1. Append(q, e) \in Seq(S) /\ Len(Append(q, e)) = Len(q) + 1
  BY AppendProperties
<1>2. DOMAIN q = 1 .. Len(q) /\ DOMAIN Append(q, e) = 1 .. Len(q) + 1 /\ Len(q) \in Nat
  BY <1>1, LenProperties
<1>3. \A i \in 1 .. Len(q) : Append(q, e)[i] = q[i]
  BY AppendProperties
<1>4. Append(q, e)[Len(q) + 1] = e
  BY AppendProperties
<1> QED
  BY <1>2, <1>3, <1>4

\* What taking the first element leaves.
LEMMA TakeFirst ==
  ASSUME NEW S, NEW q \in Seq(S), q # <<>>
  PROVE  /\ 1 \in DOMAIN q /\ Head(q) = q[1] /\ Head(q) \in S
         /\ \A i \in DOMAIN Tail(q) : /\ i \in Nat \ {0} /\ i + 1 \in DOMAIN q
                                      /\ Tail(q)[i] = q[i + 1]
         /\ \A j \in DOMAIN q \ {1} : /\ j - 1 \in DOMAIN Tail(q) /\ Tail(q)[j - 1] = q[j]
<1>1. /\ Tail(q) \in Seq(S) /\ Len(Tail(q)) = Len(q) - 1 /\ Head(q) \in S
      /\ \A i \in 1 .. Len(Tail(q)) : Tail(q)[i] = q[i + 1]
  BY HeadTailProperties
<1>2. DOMAIN q = 1 .. Len(q) /\ DOMAIN Tail(q) = 1 .. Len(q) - 1 /\ Len(q) \in Nat
  BY <1>1, LenProperties
<1>3. Len(q) # 0 /\ Head(q) = q[1]
  BY <1>2, EmptySeq, HeadTailProperties
<1> QED
  BY <1>1, <1>2, <1>3

\* A client thread that is not waiting has nothing queued under its session, and
\* no worker has its task.
LEMMA TaskIsNew ==
  ASSUME PInv, SessionsFit, NEW c \in Clients, cpc[c] \in {"recv", "push"}
  PROVE  /\ request[c] \in Tasks
         /\ \A i \in DOMAIN task_queue : ~ SameCommand(task_queue[i], request[c])
         /\ \A w \in Workers : ~ SameCommand(task[w], request[c])
<1>1. request[c] \in Tasks /\ request[c].sid = sid[c]
  BY TaskFields DEF PInv, RequestsFit
<1>2. sid[c] # NULL /\ sid[c] \in Ids
  BY <1>1, TaskFields
<1>3. ASSUME NEW i \in DOMAIN task_queue, SameCommand(task_queue[i], request[c])
      PROVE  FALSE
  <2>1. PICK d \in Clients : request[d] = task_queue[i] /\ cpc[d] \in {"wait", "asleep"}
    BY DEF PInv, TasksWaited, Unanswered
  <2>2. request[d] \in Tasks /\ request[d].sid = sid[d]
    BY <2>1, TaskFields DEF PInv, RequestsFit
  <2>3. sid[d] = sid[c]
    BY <1>1, <1>3, <2>1, <2>2 DEF SameCommand
  <2>4. d = c
    BY <1>2, <2>3 DEF SessionsFit
  <2> QED
    BY <2>1, <2>4
<1>4. ASSUME NEW w \in Workers, SameCommand(task[w], request[c])
      PROVE  FALSE
  <2>1. task[w] # NoTask
    BY <1>1, <1>2, <1>4, TaskFields DEF SameCommand
  <2>2. task[w] \in Tasks /\ task[w].op \in Int /\ request[c].op \in Int
    BY <1>1, <2>1, TaskFields DEF PInv, Typed
  <2>3. task[w].sid = sid[c]
    BY <1>1, <1>4 DEF SameCommand
  <2>4. task[w].op < request[c].op
    BY <2>1, <2>3 DEF PInv, TasksOld
  <2> QED
    BY <1>4, <2>2, <2>4 DEF SameCommand
<1> QED
  BY <1>1, <1>3, <1>4

\* No command gets queued or worked on twice.
LEMMA ApartStep == PInv /\ [Next]_vars => TasksApart'
<1> SUFFICES ASSUME PInv, [Next]_vars PROVE TasksApart'
  OBVIOUS
<1>0. Typed /\ TasksApart /\ WorkersFit
  BY DEF PInv
<1>q. task_queue \in Seq(Tasks)
  BY <1>0 DEF Typed
<1>1. CASE UNCHANGED <<task_queue, task>>
  BY <1>0, <1>1 DEF TasksApart
<1>2. ASSUME SessionsFit, NEW c \in Clients, PushTask(c)
      PROVE  TasksApart'
  <2>1. cpc[c] = "push" /\ task_queue' = Append(task_queue, request[c]) /\ task' = task
    BY <1>2 DEF PushTask, ClientAt, workervars
  <2>2. /\ request[c] \in Tasks
        /\ \A i \in DOMAIN task_queue : ~ SameCommand(task_queue[i], request[c])
        /\ \A w \in Workers : ~ SameCommand(task[w], request[c])
    BY <1>2, <2>1, TaskIsNew
  <2>3. \A i \in DOMAIN task_queue' :
          \/ i \in DOMAIN task_queue /\ task_queue'[i] = task_queue[i]
          \/ i = Len(task_queue) + 1 /\ task_queue'[i] = request[c]
    BY <1>q, <2>1, <2>2, PutLast
  <2>4. \A i, j \in DOMAIN task_queue' : SameCommand(task_queue'[i], task_queue'[j]) => i = j
    BY <1>0, <2>2, <2>3 DEF TasksApart, SameCommand
  <2>5. \A i \in DOMAIN task_queue', w \in Workers : ~ SameCommand(task_queue'[i], task[w])
    BY <1>0, <2>2, <2>3 DEF TasksApart, SameCommand
  <2> QED
    BY <1>0, <2>1, <2>4, <2>5 DEF TasksApart
<1>3. ASSUME NEW w \in Workers, TakeTask(w)
      PROVE  TasksApart'
  <2>1. /\ task_queue # <<>> /\ task_queue' = Tail(task_queue)
        /\ wpc[w] = "pop" /\ task' = [task EXCEPT ![w] = Head(task_queue)]
    BY <1>3 DEF TakeTask, WorkerAt
  <2>2. 1 \in DOMAIN task_queue /\ task'[w] = task_queue[1]
    BY <1>0, <1>q, <2>1, TakeFirst DEF Typed
  <2>3. \A v \in Workers \ {w} : task'[v] = task[v]
    BY <1>0, <2>1 DEF Typed
  <2>4. \A i \in DOMAIN task_queue' : /\ i \in Nat \ {0} /\ i + 1 \in DOMAIN task_queue
                                      /\ task_queue'[i] = task_queue[i + 1]
    BY <1>q, <2>1, TakeFirst
  <2>5. \A i, j \in DOMAIN task_queue' : SameCommand(task_queue'[i], task_queue'[j]) => i = j
    <3> SUFFICES ASSUME NEW i \in DOMAIN task_queue', NEW j \in DOMAIN task_queue',
                        SameCommand(task_queue'[i], task_queue'[j])
                 PROVE  i = j
      OBVIOUS
    <3>1. i + 1 = j + 1
      BY <1>0, <2>4 DEF TasksApart
    <3> QED
      BY <2>4, <3>1
  <2>6. ASSUME NEW i \in DOMAIN task_queue', NEW v \in Workers
        PROVE  ~ SameCommand(task_queue'[i], task'[v])
    <3>1. i + 1 # 1
      BY <2>4
    <3> QED
      BY <1>0, <2>2, <2>3, <2>4, <3>1 DEF TasksApart
  <2>7. \A u, v \in Workers : task'[u] # NoTask /\ SameCommand(task'[u], task'[v]) => u = v
    BY <1>0, <2>2, <2>3 DEF TasksApart, SameCommand
  <2> QED
    BY <2>5, <2>6, <2>7 DEF TasksApart
<1>4. ASSUME NEW w \in Workers, FreeTask(w)
      PROVE  TasksApart'
  <2>1. task_queue' = task_queue /\ task' = [task EXCEPT ![w] = NoTask]
    BY <1>4 DEF FreeTask
  <2>2. \A i \in DOMAIN task_queue : task_queue[i] \in Tasks
    BY <1>q, ElementOfSeq, LenProperties
  <2>3. \A t \in Tasks : ~ SameCommand(t, NoTask)
    BY TaskFields DEF SameCommand
  <2> QED
    BY <1>0, <2>1, <2>2, <2>3 DEF TasksApart, Typed
<1>5. CASE MainActs \/ DestroyAll
  BY <1>1, <1>5 DEF MainActs, Accept, PushConnection, RejectConnection, LeaveAcceptLoop,
     Shutdown, DestroyAll, workervars
<1>6. ASSUME NEW c \in Clients, ClientActs(c), ~ PushTask(c)
      PROVE  TasksApart'
  BY <1>1, <1>6 DEF ClientActs, TakeConnection, ClientExit, CreateSession, CreateFails,
     GetMisses, MarkInactive, DestroySession, Command, ReceiveFails, ResetResponse,
     PushRefused, ClientGoes, Goes, workervars
<1>7. ASSUME NEW w \in Workers, WorkerActs(w), ~ TakeTask(w), ~ FreeTask(w)
      PROVE  TasksApart'
  BY <1>1, <1>7 DEF WorkerActs, WorkerExit, AllocateData, ReadFails, DropResponse, SetResponse, WorkerGoes
<1> QED
  BY <1>1, <1>2, <1>3, <1>4, <1>5, <1>6, <1>7, Steps DEF vars, workervars

\* Tasks in the workers' hands stay in the past of the client threads.
LEMMA OldStep == PInv /\ [Next]_vars => TasksOld'
<1> SUFFICES ASSUME PInv, [Next]_vars PROVE TasksOld'
  OBVIOUS
<1>0. Typed /\ TasksOld /\ RequestsFit
  BY DEF PInv
<1>a. next_session_id \in Int
  BY DEF PInv, TableFits, TableTypeOK
<1>b. ASSUME NEW w \in Workers, task[w] # NoTask
      PROVE  task[w] \in Tasks /\ task[w].op \in Int /\ task[w].sid \in Int /\ task[w].sid # NULL
  <2>1. task[w] \in Tasks
    BY <1>0, <1>b DEF Typed
  <2> QED
    BY <2>1, TaskFields DEF Ids
<1>1. ASSUME UNCHANGED <<next_session_id, task, sid, request>>,
             \A c \in Clients : cpc'[c] \in {"recv", "reset", "push"} => cpc[c] \in {"recv", "reset", "push"}
      PROVE  TasksOld'
  BY <1>0, <1>1 DEF TasksOld
<1>2. ASSUME SessionsFit, NEW c \in Clients, ClientActs(c)
      PROVE  TasksOld'
  <2>1. ASSUME NEW i \in Index, CreateSession(c, i) PROVE TasksOld'
    <3>1. /\ task' = task /\ request' = request /\ next_session_id' = next_session_id + 1
          /\ sid' = [sid EXCEPT ![c] = next_session_id]
          /\ cpc' = [cpc EXCEPT ![c] = "get"]
      BY <2>1 DEF CreateSession, session_create, ClientAt, workervars
    <3>2. \A d \in Clients \ {c} : sid'[d] = sid[d] /\ cpc'[d] = cpc[d]
      BY <1>0, <3>1 DEF Typed
    <3>3. sid'[c] = next_session_id
      BY <1>0, <3>1 DEF Typed
    <3>4. \A w \in Workers : task[w] # NoTask => task[w].sid < next_session_id'
                                                 /\ task[w].sid # sid'[c]
      BY <1>0, <1>a, <1>b, <3>1, <3>3 DEF TasksOld
    <3> QED
      BY <1>0, <3>1, <3>2, <3>4 DEF TasksOld
  <2>2. CASE CreateFails(c) \/ DestroySession(c)
    <3>1. /\ task' = task /\ next_session_id' \in {next_session_id, next_session_id + 1}
          /\ NextClient(c) /\ cpc' = [cpc EXCEPT ![c] = "pop"]
      BY <2>2 DEF CreateFails, session_create_fails, DestroySession, session_destroy,
                  ClientAt, workervars
    <3>2. \A d \in Clients \ {c} : sid'[d] = sid[d] /\ cpc'[d] = cpc[d] /\ request'[d] = request[d]
      BY <1>0, <3>1 DEF Typed, NextClient
    <3>3. sid'[c] = NULL
      BY <1>0, <3>1 DEF Typed, NextClient
    <3>4. \A w \in Workers : task[w] # NoTask => task[w].sid < next_session_id'
                                                 /\ task[w].sid # sid'[c]
      BY <1>0, <1>a, <1>b, <3>1, <3>3 DEF TasksOld
    <3> QED
      BY <1>0, <3>1, <3>2, <3>4 DEF TasksOld
  <2>3. ASSUME NEW k \in Kinds, Command(c, k) PROVE TasksOld'
    <3>1. PICK t \in Tasks : t.op = request[c].op + 1 /\ request' = [request EXCEPT ![c] = t]
      BY <1>0, <1>2, <2>3, CommandBuilds
    <3>2. /\ UNCHANGED <<task, next_session_id, sid>>
          /\ \E to \in CPCs : cpc' = [cpc EXCEPT ![c] = to]
      BY <2>3 DEF Command, ClientAt, CPCs, sessionvars, tablevars, workervars
    <3>3. \A d \in Clients \ {c} : request'[d] = request[d] /\ cpc'[d] = cpc[d]
      BY <1>0, <3>1, <3>2 DEF Typed
    <3>4. request'[c].op = request[c].op + 1
      BY <1>0, <3>1 DEF Typed
    <3>5. request[c].op \in Int
      BY <1>0, TaskFields DEF Typed
    <3>6. \A w \in Workers : task[w] # NoTask /\ sid[c] = task[w].sid
                               => task[w].op < request'[c].op /\ task[w].op <= request'[c].op
      BY <1>0, <1>b, <3>4, <3>5 DEF TasksOld
    <3> QED
      BY <1>0, <3>2, <3>3, <3>6 DEF TasksOld
  <2>4. CASE TakeConnection(c) \/ ClientExit(c) \/ GetMisses(c) \/ MarkInactive(c)
             \/ ReceiveFails(c) \/ ResetResponse(c) \/ PushTask(c) \/ PushRefused(c)
    <3>1. UNCHANGED <<next_session_id, task, sid, request>>
      BY <2>4 DEF TakeConnection, ClientExit, GetMisses, MarkInactive, session_mark_inactive,
         ReceiveFails, ResetResponse, PushTask, PushRefused, sessionvars, tablevars, workervars
    <3>2. \A d \in Clients : cpc'[d] \in {"recv", "reset", "push"} => cpc[d] \in {"recv", "reset", "push"}
      BY <1>0, <2>4 DEF TakeConnection, ClientExit, GetMisses, MarkInactive,
         ReceiveFails, ResetResponse, PushTask, PushRefused, ClientAt, Typed
    <3> QED
      BY <1>1, <3>1, <3>2
  <2>5. CASE ClientGoes(c)
    <3>1. UNCHANGED <<next_session_id, task, sid, request>>
      BY <2>5 DEF ClientGoes, Goes, sessionvars, tablevars, workervars
    <3>2. \A d \in Clients : cpc'[d] \in {"recv", "reset", "push"} => cpc[d] \in {"recv", "reset", "push"}
      BY <1>0, <2>5 DEF ClientGoes, Goes, ClientAt, Typed
    <3> QED
      BY <1>1, <3>1, <3>2
  <2> QED
    BY <1>2, <2>1, <2>2, <2>3, <2>4, <2>5 DEF ClientActs
<1>3. ASSUME SessionsFit, NEW w \in Workers, TakeTask(w)
      PROVE  TasksOld'
  <2>1. /\ task' = [task EXCEPT ![w] = Head(task_queue)]
        /\ UNCHANGED <<next_session_id, sid, request, cpc>>
        /\ task_queue # <<>> /\ task_queue \in Seq(Tasks)
    BY <1>0, <1>3 DEF TakeTask, sessionvars, tablevars, clientvars, Typed
  <2>2. 1 \in DOMAIN task_queue /\ Head(task_queue) = task_queue[1] /\ task_queue[1] \in Tasks
    BY <2>1, TakeFirst
  <2>3. PICK d \in Clients : request[d] = task_queue[1] /\ cpc[d] \in {"wait", "asleep"}
    BY <2>2 DEF PInv, TasksWaited, Unanswered
  <2>4. sid[d] = task_queue[1].sid /\ sid[d] # NULL
    BY <1>0, <2>2, <2>3, TaskFields DEF RequestsFit
  <2>5. task_queue[1].sid < next_session_id
    BY <1>3, <2>4 DEF SessionsFit
  <2>6. \A c \in Clients : sid[c] = task_queue[1].sid => c = d
    BY <1>3, <2>4 DEF SessionsFit
  <2>7. task_queue[1].op \in Int
    BY <2>2, TaskFields
  <2>8. \A v \in Workers \ {w} : task'[v] = task[v]
    BY <1>0, <2>1 DEF Typed
  <2>9. task'[w] = task_queue[1]
    BY <1>0, <2>1, <2>2 DEF Typed
  <2> QED
    BY <1>0, <2>1, <2>3, <2>5, <2>6, <2>7, <2>8, <2>9 DEF TasksOld
<1>4. ASSUME NEW w \in Workers, SetResponse(w)
      PROVE  TasksOld'
  BY <1>1, <1>4 DEF SetResponse, sessionvars, tablevars
<1>5. ASSUME NEW w \in Workers, FreeTask(w)
      PROVE  TasksOld'
  <2>1. task' = [task EXCEPT ![w] = NoTask] /\ UNCHANGED <<next_session_id, sid, request, cpc>>
    BY <1>5 DEF FreeTask, sessionvars, tablevars, clientvars
  <2> QED
    BY <1>0, <2>1 DEF TasksOld, Typed
<1>6. ASSUME NEW w \in Workers, WorkerActs(w), ~ TakeTask(w), ~ SetResponse(w), ~ FreeTask(w)
      PROVE  TasksOld'
  BY <1>1, <1>6 DEF WorkerActs, WorkerExit, AllocateData, ReadFails, DropResponse, WorkerGoes,
     sessionvars, tablevars, clientvars
<1>7. CASE MainActs \/ DestroyAll
  BY <1>1, <1>7 DEF MainActs, Accept, PushConnection, RejectConnection, LeaveAcceptLoop,
     Shutdown, DestroyAll, session_manager_destroy, sessionvars, tablevars, clientvars, workervars
<1>8. CASE UNCHANGED vars
  BY <1>1, <1>8 DEF vars, sessionvars, tablevars, clientvars, workervars
<1> QED
  BY <1>2, <1>3, <1>4, <1>5, <1>6, <1>7, <1>8, Steps

\* What one client thread does leaves alone what another one waits for, and
\* it goes on from its own wait only when the answer is there.
LEMMA ClientKeepsUnanswered ==
  ASSUME PInv, SessionsFit, NEW c \in Clients, ClientActs(c),
         NEW t \in Tasks, t \in Unanswered
  PROVE  t \in Unanswered'
<1>0. Typed /\ RequestsFit
  BY DEF PInv
<1>1. PICK d \in Clients : /\ request[d] = t /\ cpc[d] \in {"wait", "asleep"}
                           /\ ~ response[t.sid].ready /\ response[t.sid].data = {}
  BY DEF Unanswered
<1>2. t.sid = sid[d] /\ sid[d] # NULL /\ t.sid \in Ids
  BY <1>0, <1>1, TaskFields DEF RequestsFit
<1>3. CASE ClientGoes(c)
  <2>1. PICK from \in {"get", "auth", "serve", "recv", "wait", "asleep", "check", "send"},
             to \in {"auth", "serve", "reset", "wait", "asleep", "check", "send", "mark"} :
          /\ Goes(c, from, to)
          /\ to = "check" => response[sid[c]].ready
          /\ from \in {"wait", "asleep"} => to \in {"wait", "asleep", "check"}
    BY <1>3 DEF ClientGoes
  <2>2. request' = request /\ response' = response
    BY <2>1 DEF Goes
  <2>3. cpc'[d] \in {"wait", "asleep"}
    <3>1. CASE c = d
      BY <1>0, <1>1, <1>2, <2>1, <3>1 DEF Goes, ClientAt, Typed
    <3>2. CASE c # d
      BY <1>0, <1>1, <2>1, <3>2 DEF Goes, ClientAt, Typed
    <3> QED
      BY <3>1, <3>2
  <2> QED
    BY <1>1, <2>2, <2>3 DEF Unanswered
<1>4. CASE ~ ClientGoes(c)
  <2>1. cpc[c] \notin {"wait", "asleep"} /\ \E to \in CPCs : cpc' = [cpc EXCEPT ![c] = to]
    BY <1>4 DEF ClientActs, TakeConnection, ClientExit, CreateSession, CreateFails, GetMisses,
       MarkInactive, DestroySession, Command, ReceiveFails, ResetResponse, PushTask, PushRefused, ClientAt, CPCs
  <2>2. d # c /\ cpc'[d] = cpc[d] /\ sid[c] # t.sid
    BY <1>0, <1>1, <1>2, <2>1 DEF Typed, SessionsFit
  <2>3. request'[d] = request[d]
    BY <1>0, <1>4, <2>2 DEF ClientActs, TakeConnection, ClientExit, CreateSession, CreateFails,
       GetMisses, MarkInactive, DestroySession, Command, ReceiveFails, ResetResponse, PushTask, PushRefused,
       NextClient, Typed
  <2>4. response' = response \/ response' = [response EXCEPT ![sid[c]] = EmptyResponse]
    BY <1>4 DEF ClientActs, TakeConnection, ClientExit, CreateSession, CreateFails,
       GetMisses, MarkInactive, DestroySession, Command, ReceiveFails, ResetResponse, PushTask, PushRefused
  <2>5. response'[t.sid] = response[t.sid]
    BY <1>0, <1>2, <2>2, <2>4 DEF Typed
  <2> QED
    BY <1>1, <2>2, <2>3, <2>5 DEF Unanswered
<1> QED
  BY <1>3, <1>4

\* A worker's answer is for one client thread.
LEMMA AnswerKeepsUnanswered ==
  ASSUME PInv, SessionsFit, NEW w \in Workers, SetResponse(w),
         NEW t \in Tasks, t \in Unanswered, ~ SameCommand(t, task[w])
  PROVE  t \in Unanswered'
<1>0. Typed /\ RequestsFit
  BY DEF PInv
<1>1. PICK d \in Clients : /\ request[d] = t /\ cpc[d] \in {"wait", "asleep"}
                           /\ ~ response[t.sid].ready /\ response[t.sid].data = {}
  BY DEF Unanswered
<1>2. t.sid = sid[d] /\ sid[d] # NULL /\ t.sid \in Ids
  BY <1>0, <1>1, TaskFields DEF RequestsFit
<1>3. wpc[w] = "set"
  BY DEF SetResponse, WorkerAt
<1>4. PICK e \in Clients : request[e] = task[w]
  BY <1>3 DEF PInv, TasksWaited, Unanswered
<1>5. task[w] # NoTask
  BY <1>3 DEF PInv, WorkersFit
<1>6. task[w].sid = sid[e]
  BY <1>0, <1>4, <1>5 DEF RequestsFit
<1>7. t.sid # task[w].sid
  <2> SUFFICES ASSUME t.sid = task[w].sid PROVE FALSE
    OBVIOUS
  <2>1. d = e
    BY <1>2, <1>6 DEF SessionsFit
  <2> QED
    BY <1>1, <1>4, <2>1 DEF SameCommand
<1>8. response'[t.sid] = response[t.sid]
  BY <1>0, <1>2, <1>7 DEF SetResponse, Typed
<1>9. request' = request /\ cpc'[d] \in {"wait", "asleep"}
  BY <1>1 DEF SetResponse
<1> QED
  BY <1>1, <1>8, <1>9 DEF Unanswered

\* Somebody waits for every command that has not been answered.
LEMMA WaitedStep == PInv /\ [Next]_vars => TasksWaited'
<1> SUFFICES ASSUME PInv, [Next]_vars PROVE TasksWaited'
  OBVIOUS
<1>0. Typed /\ TasksWaited /\ TasksApart /\ WorkersFit
  BY DEF PInv
<1>q. task_queue \in Seq(Tasks) /\ \A i \in DOMAIN task_queue : task_queue[i] \in Tasks
  BY <1>0, ElementOfSeq, LenProperties DEF Typed
<1>w. \A w \in Workers : wpc[w] \in {"work", "read", "lookup", "set"} => task[w] \in Tasks
  BY <1>0 DEF WorkersFit, Typed
<1>1. CASE UNCHANGED <<request, cpc, response, task_queue, wpc, task>>
  BY <1>0, <1>1 DEF TasksWaited, Unanswered
<1>2. ASSUME SessionsFit, NEW c \in Clients, ClientActs(c)
      PROVE  TasksWaited'
  <2>1. \A t \in Tasks : t \in Unanswered => t \in Unanswered'
    BY <1>2, ClientKeepsUnanswered
  <2>2. wpc' = wpc /\ task' = task
    BY <1>2 DEF ClientActs, TakeConnection, ClientExit, CreateSession, CreateFails, GetMisses,
       MarkInactive, DestroySession, Command, ReceiveFails, ResetResponse, PushTask, PushRefused, ClientGoes,
       Goes, workervars
  <2>3. \A w \in Workers : wpc'[w] \in {"work", "read", "lookup", "set"} => task'[w] \in Unanswered'
    BY <1>0, <1>w, <2>1, <2>2 DEF TasksWaited
  <2>4. CASE PushTask(c)
    <3>1. /\ cpc[c] = "push" /\ cpc' = [cpc EXCEPT ![c] = "wait"]
          /\ task_queue' = Append(task_queue, request[c])
          /\ request' = request /\ response' = response
      BY <2>4 DEF PushTask, ClientAt
    <3>2. request[c] \in Tasks /\ request[c].sid = sid[c]
      BY <3>1, TaskFields DEF PInv, RequestsFit
    <3>3. response[sid[c]] = EmptyResponse
      BY <3>1 DEF PInv, ResponsesFit
    <3>4. cpc'[c] = "wait"
      BY <1>0, <3>1 DEF Typed
    <3>5. ~ response'[request[c].sid].ready /\ response'[request[c].sid].data = {}
      BY <3>1, <3>2, <3>3 DEF EmptyResponse
    <3>6. request'[c] = request[c]
      BY <3>1
    <3>7. request[c] \in Unanswered'
      BY <3>2, <3>4, <3>5, <3>6 DEF Unanswered
    <3>8. ASSUME NEW i \in DOMAIN task_queue'
          PROVE  task_queue'[i] \in Unanswered'
      <4>1. CASE i = Len(task_queue) + 1
        <5>1. task_queue'[i] = request[c]
          BY <1>q, <3>1, <3>2, <4>1, PutLast
        <5> QED
          BY <3>1, <3>7, <5>1
      <4>2. CASE i # Len(task_queue) + 1
        <5>1. i \in DOMAIN task_queue /\ task_queue'[i] = task_queue[i]
          BY <1>q, <3>1, <3>2, <4>2, PutLast
        <5>2. task_queue[i] \in Unanswered /\ task_queue[i] \in Tasks
          BY <1>0, <1>q, <5>1 DEF TasksWaited
        <5>3. task_queue[i] \in Unanswered'
          BY <1>2, <5>2, ClientKeepsUnanswered
        <5> QED
          BY <5>1, <5>3
      <4> QED
        BY <4>1, <4>2
    <3> QED
      BY <2>3, <3>8 DEF TasksWaited
  <2>5. CASE ~ PushTask(c)
    <3>1. task_queue' = task_queue
      BY <1>2, <2>5 DEF ClientActs, TakeConnection, ClientExit, CreateSession, CreateFails, GetMisses,
         MarkInactive, DestroySession, Command, ReceiveFails, ResetResponse, PushRefused, ClientGoes, Goes
    <3>2. \A i \in DOMAIN task_queue : task_queue[i] \in Unanswered'
      BY <1>0, <1>q, <2>1, <3>1 DEF TasksWaited
    <3> QED
      BY <2>3, <3>1, <3>2 DEF TasksWaited
  <2> QED
    BY <2>4, <2>5
<1>3. ASSUME SessionsFit, NEW w \in Workers, WorkerActs(w)
      PROVE  TasksWaited'
  <2>1. CASE SetResponse(w)
    <3>1. /\ wpc[w] = "set" /\ wpc' = [wpc EXCEPT ![w] = "count"]
          /\ task_queue' = task_queue /\ task' = task
      BY <2>1 DEF SetResponse, WorkerAt
    <3>2. ASSUME NEW i \in DOMAIN task_queue
          PROVE  task_queue[i] \in Unanswered'
      <4>1. task_queue[i] \in Tasks /\ task_queue[i] \in Unanswered /\ ~ SameCommand(task_queue[i], task[w])
        BY <1>0, <1>q DEF TasksWaited, TasksApart
      <4> QED
        BY <1>3, <2>1, <4>1, AnswerKeepsUnanswered
    <3>3. ASSUME NEW v \in Workers, wpc'[v] \in {"work", "read", "lookup", "set"}
          PROVE  task[v] \in Unanswered'
      <4>1. v # w /\ wpc'[v] = wpc[v]
        BY <1>0, <3>1, <3>3 DEF Typed
      <4>2. task[v] \in Tasks /\ task[v] \in Unanswered
        BY <1>0, <1>w, <3>3, <4>1 DEF TasksWaited
      <4>3. ~ SameCommand(task[v], task[w])
        BY <1>0, <4>1, <4>2, TaskFields DEF TasksApart
      <4> QED
        BY <1>3, <2>1, <4>2, <4>3, AnswerKeepsUnanswered
    <3> QED
      BY <3>1, <3>2, <3>3 DEF TasksWaited
  <2>2. CASE ~ SetResponse(w)
    <3>1. UNCHANGED <<request, cpc, response>>
      BY <1>3, <2>2 DEF WorkerActs, TakeTask, WorkerExit, AllocateData, ReadFails, DropResponse, FreeTask, WorkerGoes, clientvars
    <3>2. Unanswered' = Unanswered
      BY <3>1 DEF Unanswered
    <3>3. CASE TakeTask(w)
      <4>1. /\ task_queue # <<>> /\ task_queue' = Tail(task_queue)
            /\ task' = [task EXCEPT ![w] = Head(task_queue)]
            /\ wpc' = [wpc EXCEPT ![w] = "work"]
        BY <3>3 DEF TakeTask, WorkerAt
      <4>2. 1 \in DOMAIN task_queue /\ Head(task_queue) = task_queue[1]
        BY <1>q, <4>1, TakeFirst
      <4>3. \A i \in DOMAIN task_queue' : i + 1 \in DOMAIN task_queue /\ task_queue'[i] = task_queue[i + 1]
        BY <1>q, <4>1, TakeFirst
      <4>4. \A i \in DOMAIN task_queue' : task_queue'[i] \in Unanswered
        BY <1>0, <4>3 DEF TasksWaited
      <4>5. ASSUME NEW v \in Workers, wpc'[v] \in {"work", "read", "lookup", "set"}
            PROVE  task'[v] \in Unanswered
        <5>1. CASE v = w
          BY <1>0, <4>1, <4>2, <5>1 DEF TasksWaited, Typed
        <5>2. CASE v # w
          BY <1>0, <4>1, <4>5, <5>2 DEF TasksWaited, Typed
        <5> QED
          BY <5>1, <5>2
      <4> QED
        BY <3>2, <4>4, <4>5 DEF TasksWaited
    <3>4. CASE ~ TakeTask(w)
      <4>1. task_queue' = task_queue
        BY <1>3, <2>2, <3>4 DEF WorkerActs, WorkerExit, AllocateData, ReadFails, DropResponse, FreeTask, WorkerGoes
      <4>2. ASSUME NEW v \in Workers, wpc'[v] \in {"work", "read", "lookup", "set"}
            PROVE  task'[v] = task[v] /\ wpc[v] \in {"work", "read", "lookup", "set"}
        BY <1>0, <1>3, <2>2, <3>4, <4>2
        DEF WorkerActs, WorkerExit, AllocateData, ReadFails, DropResponse, FreeTask, WorkerGoes, WorkerAt, Typed
      <4> QED
        BY <1>0, <3>2, <4>1, <4>2 DEF TasksWaited
    <3> QED
      BY <3>3, <3>4
  <2> QED
    BY <2>1, <2>2
<1>4. CASE DestroyAll
  <2>1. /\ \A c \in Clients : cpc[c] = "exit"
        /\ \A w \in Workers : wpc[w] = "exit"
        /\ UNCHANGED <<task_queue, wpc>>
    BY <1>4 DEF DestroyAll, workervars
  <2>2. \A i \in DOMAIN task_queue : FALSE
    BY <1>0, <2>1 DEF TasksWaited, Unanswered
  <2> QED
    BY <2>1, <2>2 DEF TasksWaited
<1>5. CASE MainActs
  BY <1>1, <1>5 DEF MainActs, Accept, PushConnection, RejectConnection, LeaveAcceptLoop,
     Shutdown, clientvars, workervars
<1> QED
  BY <1>1, <1>2, <1>3, <1>4, <1>5, Steps DEF vars, clientvars, workervars

\* Responses answer what was asked.
LEMMA ResponsesStep == PInv /\ [Next]_vars => ResponsesFit'
<1> SUFFICES ASSUME PInv, [Next]_vars PROVE ResponsesFit'
  OBVIOUS
<1>0. Typed /\ ResponsesFit
  BY DEF PInv
<1>a. next_session_id \in Int
  BY DEF PInv, TableFits, TableTypeOK
<1>1. CASE UNCHANGED <<response, next_session_id, sid, cpc, request>>
  BY <1>0, <1>1 DEF ResponsesFit
<1>2. ASSUME SessionsFit, NEW c \in Clients, ClientActs(c)
      PROVE  ResponsesFit'
  <2>1. CASE ClientGoes(c)
    <3>1. UNCHANGED <<response, next_session_id, sid, request>>
      BY <2>1 DEF ClientGoes, Goes, sessionvars, tablevars
    <3>2. PICK from \in {"get", "auth", "serve", "recv", "wait", "asleep", "check", "send"},
               to \in {"auth", "serve", "reset", "wait", "asleep", "check", "send", "mark"} :
            /\ cpc[c] = from /\ cpc' = [cpc EXCEPT ![c] = to]
            /\ to = "check" => from = "wait" /\ response[sid[c]].ready
            /\ to = "send" => from = "check"
            /\ to \in {"wait", "asleep"} => from \in {"wait", "asleep"}
      BY <2>1 DEF ClientGoes, Goes, ClientAt
    <3> QED
      BY <1>0, <3>1, <3>2 DEF ResponsesFit, Typed
  <2>2. ASSUME NEW i \in Index, CreateSession(c, i) PROVE ResponsesFit'
    <3>1. /\ UNCHANGED <<response, request>> /\ next_session_id' = next_session_id + 1
          /\ sid' = [sid EXCEPT ![c] = next_session_id] /\ cpc' = [cpc EXCEPT ![c] = "get"]
      BY <2>2 DEF CreateSession, session_create, ClientAt
    <3>2. \A j \in Ids : j >= next_session_id' => j >= next_session_id
      BY <1>a, <3>1 DEF Ids
    <3>3. /\ cpc'[c] = "get"
          /\ \A d \in Clients \ {c} : cpc'[d] = cpc[d] /\ sid'[d] = sid[d]
      BY <1>0, <3>1 DEF Typed
    <3> QED
      BY <1>0, <3>1, <3>2, <3>3 DEF ResponsesFit
  <2>3. CASE CreateFails(c)
    <3>1. /\ response' = response /\ next_session_id' \in {next_session_id, next_session_id + 1}
          /\ NextClient(c) /\ cpc' = [cpc EXCEPT ![c] = "pop"]
      BY <2>3 DEF CreateFails, session_create_fails, ClientAt
    <3>2. \A j \in Ids : j >= next_session_id' => j >= next_session_id
      BY <1>a, <3>1 DEF Ids
    <3>3. /\ cpc'[c] = "pop"
          /\ \A d \in Clients \ {c} : cpc'[d] = cpc[d] /\ sid'[d] = sid[d] /\ request'[d] = request[d]
      BY <1>0, <3>1 DEF Typed, NextClient
    <3> QED
      BY <1>0, <3>1, <3>2, <3>3 DEF ResponsesFit
  <2>4. CASE DestroySession(c) \/ ResetResponse(c)
    <3>1. /\ response' = response \/ response' = [response EXCEPT ![sid[c]] = EmptyResponse]
          /\ next_session_id' = next_session_id
      BY <2>4 DEF DestroySession, session_destroy, ResetResponse, sessionvars, tablevars
    <3>2. sid[c] \in Ids /\ \A d \in Clients \ {c} : sid[d] # sid[c]
      <4>1. cpc[c] \in {"destroy", "reset"}
        BY <2>4 DEF DestroySession, ResetResponse, ClientAt
      <4> QED
        BY <1>2, <4>1 DEF SessionsFit
    <3>3. \A d \in Clients \ {c} : cpc'[d] = cpc[d] /\ sid'[d] = sid[d] /\ request'[d] = request[d]
      BY <1>0, <2>4 DEF DestroySession, NextClient, ResetResponse, ClientAt, Typed
    <3>4. \/ cpc'[c] = "pop"
          \/ cpc'[c] = "push" /\ sid'[c] = sid[c] /\ response'[sid[c]] = EmptyResponse
      BY <1>0, <2>4, <3>2 DEF DestroySession, ResetResponse, ClientAt, Typed
    <3>5. /\ \A i \in Ids : response'[i] = response[i] \/ response'[i] = EmptyResponse
          /\ \A i \in Ids \ {sid[c]} : response'[i] = response[i]
      BY <1>0, <3>1 DEF Typed
    <3>6. EmptyResponse.data = {}
      BY DEF EmptyResponse
    <3>7. \A d \in Clients \ {c} : cpc[d] \in {"push", "wait", "asleep", "check", "send"} =>
            sid[d] \in Ids /\ response'[sid[d]] = response[sid[d]]
      <4> SUFFICES ASSUME NEW d \in Clients \ {c}, cpc[d] \in {"push", "wait", "asleep", "check", "send"}
                   PROVE  sid[d] \in Ids /\ response'[sid[d]] = response[sid[d]]
        OBVIOUS
      <4>1. sid[d] \in Ids
        BY <1>2 DEF SessionsFit
      <4> QED
        BY <3>2, <3>5, <4>1
    <3>8. /\ \A i \in Ids : response'[i].data \subseteq {<<"data", i, o>> : o \in 1 .. MaxOps}
          /\ \A i \in Ids : i >= next_session_id' => response'[i].data = {}
      BY <1>0, <3>1, <3>5, <3>6 DEF ResponsesFit
    <3>9. ASSUME NEW d \in Clients
          PROVE /\ cpc'[d] = "push" => response'[sid'[d]] = EmptyResponse
                /\ cpc'[d] \in {"wait", "asleep"} /\ response'[sid'[d]].ready
                    => response'[sid'[d]].answers = request'[d]
                /\ cpc'[d] \in {"check", "send"}
                    => response'[sid'[d]].ready /\ response'[sid'[d]].answers = request'[d]
      <4>1. CASE d = c
        BY <3>4, <4>1
      <4>2. CASE d # c
        BY <1>0, <3>3, <3>7, <4>2 DEF ResponsesFit
      <4> QED
        BY <4>1, <4>2
    <3> QED
      BY <3>8, <3>9 DEF ResponsesFit
  <2>5. ASSUME NEW k \in Kinds, Command(c, k) PROVE ResponsesFit'
    <3>1. /\ UNCHANGED <<response, next_session_id, sid>>
          /\ \E to \in {"recv", "reset"} : cpc' = [cpc EXCEPT ![c] = to]
          /\ \A d \in Clients \ {c} : request'[d] = request[d]
      BY <1>0, <2>5 DEF Command, ClientAt, sessionvars, tablevars, Typed
    <3>2. cpc'[c] \in {"recv", "reset"} /\ \A d \in Clients \ {c} : cpc'[d] = cpc[d]
      BY <1>0, <3>1 DEF Typed
    <3> QED
      BY <1>0, <3>1, <3>2 DEF ResponsesFit
  <2>6. CASE PushTask(c)
    <3>1. /\ UNCHANGED <<response, next_session_id, sid, request>>
          /\ cpc[c] = "push" /\ cpc' = [cpc EXCEPT ![c] = "wait"]
      BY <2>6 DEF PushTask, ClientAt, sessionvars, tablevars
    <3>2. cpc'[c] = "wait" /\ \A d \in Clients \ {c} : cpc'[d] = cpc[d]
      BY <1>0, <3>1 DEF Typed
    <3>3. ~ response[sid[c]].ready
      BY <1>0, <3>1 DEF ResponsesFit, EmptyResponse
    <3> QED
      BY <1>0, <3>1, <3>2, <3>3 DEF ResponsesFit
  <2>7. CASE TakeConnection(c) \/ ClientExit(c) \/ GetMisses(c) \/ MarkInactive(c)
             \/ ReceiveFails(c) \/ PushRefused(c)
    <3>1. /\ UNCHANGED <<response, next_session_id, sid, request>>
          /\ \E to \in {"create", "exit", "destroy", "serve"} : cpc' = [cpc EXCEPT ![c] = to]
      BY <2>7 DEF TakeConnection, ClientExit, GetMisses, MarkInactive, session_mark_inactive,
                  ReceiveFails, PushRefused, ClientAt, sessionvars, tablevars
    <3>2. /\ cpc'[c] \in {"create", "exit", "destroy", "serve"}
          /\ \A d \in Clients \ {c} : cpc'[d] = cpc[d]
      BY <1>0, <3>1 DEF Typed
    <3> QED
      BY <1>0, <3>1, <3>2 DEF ResponsesFit
  <2> QED
    BY <1>2, <2>1, <2>2, <2>3, <2>4, <2>5, <2>6, <2>7 DEF ClientActs
<1>3. ASSUME SessionsFit, NEW w \in Workers, SetResponse(w)
      PROVE  ResponsesFit'
  <2>1. /\ wpc[w] = "set" /\ UNCHANGED <<next_session_id, sid, request>>
        /\ response' = [response EXCEPT ![task[w].sid] =
                          [ready |-> TRUE, answers |-> task[w], data |-> data[w]]]
        /\ cpc' = [c \in Clients |->
                     IF sid[c] = task[w].sid /\ cpc[c] = "asleep" THEN "wait" ELSE cpc[c]]
    BY <1>3 DEF SetResponse, WorkerAt, sessionvars, tablevars
  <2>2. PICK e \in Clients : request[e] = task[w] /\ cpc[e] \in {"wait", "asleep"}
    BY <2>1 DEF PInv, TasksWaited, Unanswered
  <2>3. task[w] # NoTask /\ task[w] \in Tasks /\ data[w] \subseteq {<<"data", task[w].sid, task[w].op>>}
    BY <1>0, <2>1 DEF PInv, WorkersFit, Typed
  <2>4. sid[e] = task[w].sid /\ sid[e] \in Ids /\ sid[e] # NULL /\ task[w].op \in 1 .. MaxOps
    BY <2>2, <2>3, TaskFields DEF PInv, RequestsFit
  <2>5. \A c \in Clients \ {e} : sid[c] # sid[e]
    BY <1>3, <2>4 DEF SessionsFit
  <2>6. sid[e] < next_session_id
    BY <1>3, <2>4 DEF SessionsFit
  <2>7. /\ \A i \in Ids \ {sid[e]} : response'[i] = response[i]
        /\ response'[sid[e]].data = data[w] /\ response'[sid[e]].answers = request[e]
    BY <1>0, <2>1, <2>2, <2>4 DEF Typed
  <2>8. cpc'[e] = "wait" \/ cpc'[e] = "asleep"
    BY <2>1, <2>2
  <2>9. \A c \in Clients \ {e} : cpc'[c] = cpc[c]
    BY <2>1, <2>4, <2>5
  <2>10. \A i \in Ids : response'[i].data \subseteq {<<"data", i, o>> : o \in 1 .. MaxOps}
    BY <1>0, <2>3, <2>4, <2>7 DEF ResponsesFit
  <2>11. \A i \in Ids : i >= next_session_id' => response'[i].data = {}
    BY <1>0, <1>a, <2>1, <2>6, <2>7 DEF ResponsesFit, Ids
  <2>12. ASSUME NEW c \in Clients
         PROVE /\ cpc'[c] = "push" => response'[sid'[c]] = EmptyResponse
               /\ cpc'[c] \in {"wait", "asleep"} /\ response'[sid'[c]].ready
                   => response'[sid'[c]].answers = request'[c]
               /\ cpc'[c] \in {"check", "send"}
                   => response'[sid'[c]].ready /\ response'[sid'[c]].answers = request'[c]
    <3>1. CASE c = e
      BY <2>1, <2>7, <2>8, <3>1
    <3>2. CASE c # e
      <4>1. cpc'[c] = cpc[c] /\ sid'[c] = sid[c] /\ request'[c] = request[c]
        BY <2>1, <2>9, <3>2
      <4>2. cpc[c] \in {"push", "wait", "asleep", "check", "send"} => sid[c] \in Ids \ {sid[e]}
        BY <1>3, <2>5, <3>2 DEF SessionsFit
      <4> QED
        BY <1>0, <2>7, <4>1, <4>2 DEF ResponsesFit
    <3> QED
      BY <3>1, <3>2
  <2> QED
    BY <2>10, <2>11, <2>12 DEF ResponsesFit
<1>4. ASSUME NEW w \in Workers, WorkerActs(w), ~ SetResponse(w)
      PROVE  ResponsesFit'
  BY <1>1, <1>4 DEF WorkerActs, TakeTask, WorkerExit, AllocateData, ReadFails, DropResponse, FreeTask, WorkerGoes,
     sessionvars, tablevars, clientvars
<1>5. CASE DestroyAll
  <2>1. /\ \A c \in Clients : cpc'[c] = "exit"
        /\ next_session_id' = next_session_id
        /\ \A i \in Ids : response'[i] = response[i] \/ response'[i] = EmptyResponse
    BY <1>5 DEF DestroyAll, session_manager_destroy, clientvars
  <2> QED
    BY <1>0, <2>1 DEF ResponsesFit, EmptyResponse
<1>6. CASE MainActs
  BY <1>1, <1>6 DEF MainActs, Accept, PushConnection, RejectConnection, LeaveAcceptLoop,
     Shutdown, sessionvars, tablevars, clientvars
<1> QED
  BY <1>1, <1>2, <1>3, <1>4, <1>5, <1>6, Steps DEF vars, sessionvars, tablevars, clientvars

\* Who answers for a buffer: the five kinds of owners.
InRequests == UNION {TaskBuffer(request[c]) : c \in {d \in Clients : cpc[d] \in {"recv", "reset", "push"}}}
InQueue == UNION {TaskBuffer(task_queue[i]) : i \in 1 .. Len(task_queue)}
InTasks == UNION {TaskBuffer(task[w]) : w \in Workers}
InData == UNION {data[w] : w \in Workers}
InResponses == UNION {response[i].data : i \in Allocated}

\* The owned buffers by kind of owner, before and after a step.
LEMMA Owners ==
  /\ OwnedBuffers = InRequests \cup InQueue \cup InTasks \cup InData \cup InResponses
  /\ OwnedBuffers' = InRequests' \cup InQueue' \cup InTasks' \cup InData' \cup InResponses'
<1>1. OwnedBuffers = InRequests \cup InQueue \cup InTasks \cup InData \cup InResponses
  BY DEF OwnedBuffers, InRequests, InQueue, InTasks, InData, InResponses
<1>2. OwnedBuffers' = InRequests' \cup InQueue' \cup InTasks' \cup InData' \cup InResponses'
  BY DEF OwnedBuffers, InRequests, InQueue, InTasks, InData, InResponses
<1> QED
  BY <1>1, <1>2

\* Tasks own the data of uploads, everybody else that of downloads.
LEMMA BufferKinds ==
  ASSUME PInv, SessionsFit
  PROVE  /\ \A t : \A b \in TaskBuffer(t) : b = <<"task", t.sid, t.op>>
         /\ \A b \in InRequests \cup InQueue \cup InTasks : b[1] = "task"
         /\ \A w \in Workers : \A b \in data[w] : b = <<"data", task[w].sid, task[w].op>>
         /\ \A i \in Ids : \A b \in response[i].data : b[1] = "data" /\ b[2] = i
         /\ \A b \in InData \cup InResponses : b[1] = "data"
<1>1. \A t : \A b \in TaskBuffer(t) : b = <<"task", t.sid, t.op>>
  BY DEF TaskBuffer
<1>2. \A b \in InRequests \cup InQueue \cup InTasks : b[1] = "task"
  BY <1>1 DEF InRequests, InQueue, InTasks
<1>3. \A w \in Workers : \A b \in data[w] : b = <<"data", task[w].sid, task[w].op>>
  BY DEF PInv, WorkersFit
<1>4. \A i \in Ids : \A b \in response[i].data : b[1] = "data" /\ b[2] = i
  BY DEF PInv, ResponsesFit
<1>5. \A b \in InData \cup InResponses : b[1] = "data"
  BY <1>3, <1>4 DEF InData, InResponses, SessionsFit
<1> QED
  BY <1>1, <1>2, <1>3, <1>4, <1>5

\* A response that nobody waits for has its data for itself.
LEMMA ResponseDataAlone ==
  ASSUME PInv, SessionsFit, NEW c \in Clients, sid[c] # NULL, cpc[c] \notin {"wait", "asleep"},
         NEW b \in response[sid[c]].data
  PROVE  /\ b \notin InRequests \cup InQueue \cup InTasks \cup InData
         /\ \A i \in Allocated \ {sid[c]} : b \notin response[i].data
<1>1. sid[c] \in Ids /\ \A i \in Allocated : i \in Ids
  BY DEF SessionsFit
<1>2. b[1] = "data" /\ b[2] = sid[c]
  BY <1>1, BufferKinds
<1>3. b \notin InRequests \cup InQueue \cup InTasks
  BY <1>2, BufferKinds
<1>4. ASSUME NEW w \in Workers, b \in data[w]
      PROVE  FALSE
  <2>1. task[w].sid = sid[c]
    BY <1>2, <1>4, BufferKinds
  <2>2. wpc[w] \in {"read", "lookup", "set"} /\ task[w] # NoTask
    BY <1>4 DEF PInv, WorkersFit
  <2>3. PICK e \in Clients : request[e] = task[w] /\ cpc[e] \in {"wait", "asleep"}
    BY <2>2 DEF PInv, TasksWaited, Unanswered
  <2>4. sid[e] = sid[c]
    BY <2>1, <2>2, <2>3 DEF PInv, RequestsFit
  <2>5. e = c
    BY <2>4 DEF SessionsFit
  <2> QED
    BY <2>3, <2>5
<1>5. \A i \in Allocated \ {sid[c]} : b \notin response[i].data
  BY <1>1, <1>2, BufferKinds
<1> QED
  BY <1>3, <1>4, <1>5 DEF InData

\* The task buffer of a command whose data does not come, or that is refused, is
\* nobody else's.
LEMMA RefusedAlone ==
  ASSUME PInv, SessionsFit, NEW c \in Clients, cpc[c] \in {"recv", "push"},
         NEW b \in TaskBuffer(request[c])
  PROVE  /\ b \notin InQueue \cup InTasks \cup InData \cup InResponses
         /\ \A d \in Clients \ {c} : cpc[d] \in {"recv", "reset", "push"} => b \notin TaskBuffer(request[d])
<1>1. /\ request[c] \in Tasks
      /\ \A i \in DOMAIN task_queue : ~ SameCommand(task_queue[i], request[c])
      /\ \A w \in Workers : ~ SameCommand(task[w], request[c])
  BY TaskIsNew
<1>2. b = <<"task", request[c].sid, request[c].op>> /\ b[1] = "task"
  BY BufferKinds
<1>3. \A t : b \in TaskBuffer(t) => SameCommand(t, request[c])
  BY <1>2, BufferKinds DEF SameCommand
<1>4. b \notin InData \cup InResponses
  BY <1>2, BufferKinds
<1>5. DOMAIN task_queue = 1 .. Len(task_queue)
  BY LenProperties DEF PInv, Typed
<1>6. b \notin InQueue \cup InTasks
  BY <1>1, <1>3, <1>5 DEF InQueue, InTasks
<1>7. ASSUME NEW d \in Clients \ {c}, cpc[d] \in {"recv", "reset", "push"}, b \in TaskBuffer(request[d])
      PROVE  FALSE
  <2>1. request[d] \in Tasks /\ request[d].sid = sid[d] /\ request[c].sid = sid[c]
    BY <1>1, <1>7, TaskFields DEF PInv, RequestsFit
  <2>2. sid[d] = sid[c] /\ sid[c] # NULL
    BY <1>3, <1>7, <2>1, TaskFields DEF SameCommand
  <2> QED
    BY <2>2 DEF SessionsFit
<1> QED
  BY <1>4, <1>6, <1>7

\* ... and so is that of a task a worker is done with.
LEMMA DoneAlone ==
  ASSUME PInv, SessionsFit, NEW w \in Workers, NEW b \in TaskBuffer(task[w])
  PROVE  /\ b \notin InRequests \cup InQueue \cup InData \cup InResponses
         /\ \A v \in Workers \ {w} : b \notin TaskBuffer(task[v])
<1>1. task[w] # NoTask /\ task[w] \in Tasks
  BY TaskFields DEF PInv, Typed
<1>2. b = <<"task", task[w].sid, task[w].op>> /\ b[1] = "task"
  BY BufferKinds
<1>3. \A t : b \in TaskBuffer(t) => SameCommand(t, task[w]) /\ SameCommand(task[w], t)
  BY <1>2, BufferKinds DEF SameCommand
<1>4. b \notin InData \cup InResponses
  BY <1>2, BufferKinds
<1>5. DOMAIN task_queue = 1 .. Len(task_queue)
  BY LenProperties DEF PInv, Typed
<1>6. b \notin InQueue /\ \A v \in Workers \ {w} : b \notin TaskBuffer(task[v])
  BY <1>1, <1>3, <1>5 DEF PInv, TasksApart, InQueue
<1>7. ASSUME NEW c \in Clients, cpc[c] \in {"recv", "reset", "push"}, b \in TaskBuffer(request[c])
      PROVE  FALSE
  <2>1. request[c] \in Tasks /\ request[c].sid = sid[c]
    BY <1>7, TaskFields DEF PInv, RequestsFit
  <2>2. sid[c] = task[w].sid /\ request[c].op = task[w].op
    BY <1>3, <1>7, <2>1 DEF SameCommand
  <2>3. task[w].op < request[c].op
    BY <1>1, <1>7, <2>2 DEF PInv, TasksOld
  <2>4. task[w].op \in Int
    BY <1>1, TaskFields
  <2> QED
    BY <2>2, <2>3, <2>4
<1> QED
  BY <1>4, <1>6, <1>7 DEF InRequests

\* The data of a response that is not delivered yet is its worker's alone.
LEMMA DataAlone ==
  ASSUME PInv, SessionsFit, NEW w \in Workers, NEW b \in data[w]
  PROVE  /\ b \notin InRequests \cup InQueue \cup InTasks \cup InResponses
         /\ \A v \in Workers \ {w} : b \notin data[v]
<1>1. b = <<"data", task[w].sid, task[w].op>> /\ b[1] = "data" /\ b[2] = task[w].sid
  BY BufferKinds
<1>2. b \notin InRequests \cup InQueue \cup InTasks
  BY <1>1, BufferKinds
<1>3. \A v \in Workers : data[v] # {} => wpc[v] \in {"read", "lookup", "set"} /\ task[v] # NoTask
  BY DEF PInv, WorkersFit
<1>4. ASSUME NEW v \in Workers \ {w}, b \in data[v]
      PROVE  FALSE
  <2>1. b = <<"data", task[v].sid, task[v].op>>
    BY <1>4, BufferKinds
  <2>2. SameCommand(task[v], task[w])
    BY <1>1, <2>1 DEF SameCommand
  <2> QED
    BY <1>3, <1>4, <2>2 DEF PInv, TasksApart
<1>5. ASSUME NEW i \in Allocated, b \in response[i].data
      PROVE  FALSE
  <2>1. i \in Ids
    BY DEF SessionsFit
  <2>2. b[2] = i
    BY <1>5, <2>1, BufferKinds
  <2>3. response[task[w].sid].data = {}
    BY <1>3 DEF PInv, TasksWaited, Unanswered
  <2> QED
    BY <1>1, <1>5, <2>2, <2>3
<1> QED
  BY <1>2, <1>4, <1>5 DEF InResponses

\* A step of a client thread keeps the buffers and their owners together.
LEMMA ClientBuffers ==
  ASSUME PInv, SessionsFit, mpc # "done", NEW c \in Clients, ClientActs(c)
  PROVE  heap' = OwnedBuffers'
<1>0. Typed /\ BuffersOwned /\ TableFits
  BY DEF PInv
<1>h. heap = InRequests \cup InQueue \cup InTasks \cup InData \cup InResponses
  BY <1>0, Owners DEF BuffersOwned
<1>w. UNCHANGED workervars /\ InTasks' = InTasks /\ InData' = InData
  <2>1. UNCHANGED workervars
    BY DEF ClientActs, TakeConnection, ClientExit, CreateSession, CreateFails, GetMisses,
       MarkInactive, DestroySession, Command, ReceiveFails, ResetResponse, PushTask, PushRefused, ClientGoes, Goes
  <2> QED
    BY <2>1 DEF workervars, InTasks, InData
<1>1. CASE /\ UNCHANGED <<heap, response, request, task_queue>> /\ Allocated' = Allocated
           /\ \A d \in Clients : cpc'[d] \in {"recv", "reset", "push"} <=> cpc[d] \in {"recv", "reset", "push"}
  <2>1. InQueue' = InQueue /\ InResponses' = InResponses
    BY <1>1 DEF InQueue, InResponses
  <2>2. {d \in Clients : cpc'[d] \in {"recv", "reset", "push"}} = {d \in Clients : cpc[d] \in {"recv", "reset", "push"}}
    BY <1>1
  <2>3. InRequests' = InRequests
    BY <1>1, <2>2 DEF InRequests
  <2> QED
    BY <1>1, <1>h, <1>w, <2>1, <2>3, Owners
<1>2. CASE TakeConnection(c) \/ ClientExit(c) \/ GetMisses(c) \/ MarkInactive(c)
  <2>1. UNCHANGED <<heap, response, request, task_queue, sessions>>
    BY <1>2 DEF TakeConnection, ClientExit, GetMisses, MarkInactive, session_mark_inactive,
                sessionvars, tablevars
  <2>2. \A d \in Clients : cpc'[d] \in {"recv", "reset", "push"} <=> cpc[d] \in {"recv", "reset", "push"}
    BY <1>0, <1>2 DEF TakeConnection, ClientExit, GetMisses, MarkInactive, ClientAt, Typed
  <2> QED
    BY <1>0, <1>1, <2>1, <2>2, SessionsMove
<1>3. CASE ClientGoes(c)
  <2>1. UNCHANGED <<heap, response, request, task_queue, sessions>>
    BY <1>3 DEF ClientGoes, Goes, sessionvars, tablevars
  <2>2. \A d \in Clients : cpc'[d] \in {"recv", "reset", "push"} <=> cpc[d] \in {"recv", "reset", "push"}
    BY <1>0, <1>3 DEF ClientGoes, Goes, ClientAt, Typed
  <2> QED
    BY <1>0, <1>1, <2>1, <2>2, SessionsMove
<1>4. ASSUME NEW i \in Index, CreateSession(c, i) PROVE heap' = OwnedBuffers'
  <2>1. /\ UNCHANGED <<heap, response, request, task_queue>>
        /\ Allocated' = Allocated \cup {next_session_id} /\ next_session_id \in Ids
    BY <1>0, <1>4, SessionsMove DEF CreateSession
  <2>2. response[next_session_id].data = {}
    BY <2>1 DEF PInv, ResponsesFit, Ids
  <2>3. InQueue' = InQueue /\ InResponses' = InResponses
    BY <2>1, <2>2 DEF InQueue, InResponses
  <2>4. {d \in Clients : cpc'[d] \in {"recv", "reset", "push"}} = {d \in Clients : cpc[d] \in {"recv", "reset", "push"}}
    BY <1>0, <1>4 DEF CreateSession, ClientAt, Typed
  <2>5. InRequests' = InRequests
    BY <2>1, <2>4 DEF InRequests
  <2> QED
    BY <1>h, <1>w, <2>1, <2>3, <2>5, Owners
<1>5. CASE CreateFails(c)
  <2>1. UNCHANGED <<heap, response, task_queue, sessions>> /\ NextClient(c)
    BY <1>5 DEF CreateFails, session_create_fails
  <2>2. InQueue' = InQueue /\ InResponses' = InResponses
    BY <1>0, <2>1, SessionsMove DEF InQueue, InResponses
  <2>3. {d \in Clients : cpc'[d] \in {"recv", "reset", "push"}} = {d \in Clients : cpc[d] \in {"recv", "reset", "push"}}
        /\ cpc[c] = "create"
    BY <1>0, <1>5 DEF CreateFails, ClientAt, Typed
  <2>4. \A d \in Clients \ {c} : request'[d] = request[d]
    BY <1>0, <2>1 DEF NextClient, Typed
  <2>5. InRequests' = InRequests
    BY <2>3, <2>4 DEF InRequests
  <2> QED
    BY <1>h, <1>w, <2>1, <2>2, <2>5, Owners
<1>6. CASE ResetResponse(c)
  <2>1. /\ UNCHANGED <<request, task_queue, sessions>> /\ cpc[c] = "reset"
        /\ heap' = heap \ response[sid[c]].data
        /\ response' = [response EXCEPT ![sid[c]] = EmptyResponse]
    BY <1>6 DEF ResetResponse, ClientAt, sessionvars, tablevars
  <2>2. sid[c] # NULL /\ sid[c] \in Ids /\ \A i \in Allocated : i \in Ids
    BY <2>1 DEF SessionsFit
  <2>3. {d \in Clients : cpc'[d] \in {"recv", "reset", "push"}} = {d \in Clients : cpc[d] \in {"recv", "reset", "push"}}
    BY <1>0, <1>6 DEF ResetResponse, ClientAt, Typed
  <2>4. InRequests' = InRequests /\ InQueue' = InQueue
    BY <2>1, <2>3 DEF InRequests, InQueue
  <2>5. Allocated' = Allocated
    BY <1>0, <2>1, SessionsMove
  <2>6. \A i \in Allocated : response'[i].data = IF i = sid[c] THEN {} ELSE response[i].data
    BY <1>0, <2>1, <2>2 DEF EmptyResponse, Typed
  <2>7. InResponses' = InResponses \ response[sid[c]].data
    BY <2>1, <2>2, <2>5, <2>6, ResponseDataAlone DEF InResponses
  <2>8. \A b \in response[sid[c]].data : b \notin InRequests \cup InQueue \cup InTasks \cup InData
    BY <2>1, <2>2, ResponseDataAlone
  <2> QED
    BY <1>h, <1>w, <2>1, <2>4, <2>7, <2>8, Owners
<1>7. CASE DestroySession(c)
  <2>1. /\ UNCHANGED task_queue /\ cpc[c] = "destroy" /\ NextClient(c)
        /\ IF Reachable(sid[c])
             THEN /\ heap' = heap \ response[sid[c]].data
                  /\ response' = [response EXCEPT ![sid[c]] = EmptyResponse]
             ELSE UNCHANGED <<heap, response>>
    BY <1>7 DEF DestroySession, ClientAt
  <2>2. sid[c] # NULL /\ sid[c] \in Ids /\ sid[c] \in Allocated /\ \A i \in Allocated : i \in Ids
    BY <2>1 DEF SessionsFit
  <2>3. {d \in Clients : cpc'[d] \in {"recv", "reset", "push"}} = {d \in Clients : cpc[d] \in {"recv", "reset", "push"}}
    BY <1>0, <1>7 DEF DestroySession, ClientAt, Typed
  <2>4. \A d \in Clients \ {c} : request'[d] = request[d]
    BY <1>0, <2>1 DEF NextClient, Typed
  <2>5. InRequests' = InRequests /\ InQueue' = InQueue
    BY <2>1, <2>3, <2>4 DEF InRequests, InQueue
  <2>6. CASE Reachable(sid[c])
    <3>1. Allocated' = Allocated \ {sid[c]}
      BY <1>0, <1>7, <2>6, SessionsMove
    <3>2. \A i \in Allocated' : response'[i].data = response[i].data
      BY <1>0, <2>1, <2>2, <2>6, <3>1 DEF Typed
    <3>3. InResponses' = InResponses \ response[sid[c]].data
      <4>1. ASSUME NEW b \in InResponses'
            PROVE  b \in InResponses \ response[sid[c]].data
        <5>1. PICK i \in Allocated' : b \in response[i].data
          BY <3>2, <4>1 DEF InResponses
        <5>2. b \notin response[sid[c]].data
          BY <2>1, <2>2, <3>1, <5>1, ResponseDataAlone
        <5> QED
          BY <3>1, <5>1, <5>2 DEF InResponses
      <4>2. ASSUME NEW b \in InResponses, b \notin response[sid[c]].data
            PROVE  b \in InResponses'
        <5>1. PICK i \in Allocated : b \in response[i].data
          BY <4>2 DEF InResponses
        <5>2. i \in Allocated'
          BY <3>1, <4>2, <5>1
        <5> QED
          BY <3>2, <5>1, <5>2 DEF InResponses
      <4> QED
        BY <4>1, <4>2
    <3>4. \A b \in response[sid[c]].data : b \notin InRequests \cup InQueue \cup InTasks \cup InData
      BY <2>1, <2>2, ResponseDataAlone
    <3> QED
      BY <1>h, <1>w, <2>1, <2>5, <2>6, <3>3, <3>4, Owners
  <2>7. CASE ~ Reachable(sid[c])
    <3>1. Allocated' = Allocated
      BY <1>0, <1>7, <2>7, SessionsMove
    <3>2. InResponses' = InResponses
      BY <2>1, <2>7, <3>1 DEF InResponses
    <3> QED
      BY <1>h, <1>w, <2>1, <2>5, <2>7, <3>2, Owners
  <2> QED
    BY <2>6, <2>7
<1>8. ASSUME NEW k \in Kinds, Command(c, k) PROVE heap' = OwnedBuffers'
  <2>1. PICK t \in Tasks : request' = [request EXCEPT ![c] = t] /\ heap' = heap \cup TaskBuffer(t)
    BY <1>0, <1>8, CommandBuilds
  <2>2. UNCHANGED <<response, task_queue, sessions>> /\ cpc[c] = "serve"
        /\ \E to \in {"recv", "reset"} : cpc' = [cpc EXCEPT ![c] = to]
    BY <1>8 DEF Command, ClientAt, sessionvars, tablevars
  <2>3. InQueue' = InQueue /\ InResponses' = InResponses
    BY <1>0, <2>2, SessionsMove DEF InQueue, InResponses
  <2>4. /\ request'[c] = t /\ cpc'[c] \in {"recv", "reset"}
        /\ \A d \in Clients \ {c} : request'[d] = request[d] /\ cpc'[d] = cpc[d]
    BY <1>0, <2>1, <2>2 DEF Typed
  <2>5. InRequests' = InRequests \cup TaskBuffer(t)
    BY <2>2, <2>4 DEF InRequests
  <2> QED
    BY <1>h, <1>w, <2>1, <2>3, <2>5, Owners
<1>9. CASE PushTask(c)
  <2>1. /\ UNCHANGED <<heap, response, request, sessions>> /\ cpc[c] = "push"
        /\ cpc' = [cpc EXCEPT ![c] = "wait"] /\ task_queue' = Append(task_queue, request[c])
    BY <1>9 DEF PushTask, ClientAt, sessionvars, tablevars
  <2>2. InResponses' = InResponses
    BY <1>0, <2>1, SessionsMove DEF InResponses
  <2>3. cpc'[c] = "wait" /\ \A d \in Clients \ {c} : cpc'[d] = cpc[d]
    BY <1>0, <2>1 DEF Typed
  <2>4. InRequests = InRequests' \cup TaskBuffer(request[c])
    BY <2>1, <2>3 DEF InRequests
  <2>5. InQueue' = InQueue \cup TaskBuffer(request[c])
    <3>1. request[c] \in Tasks /\ task_queue \in Seq(Tasks)
      BY <1>0, <2>1, TaskIsNew DEF Typed
    <3>2. /\ 1 .. Len(task_queue') = (1 .. Len(task_queue)) \cup {Len(task_queue) + 1}
          /\ task_queue'[Len(task_queue) + 1] = request[c]
          /\ \A i \in 1 .. Len(task_queue) : task_queue'[i] = task_queue[i]
      BY <2>1, <3>1, AppendProperties, LenProperties
    <3> QED
      BY <3>2 DEF InQueue
  <2> QED
    BY <1>h, <1>w, <2>1, <2>2, <2>4, <2>5, Owners
<1>10. CASE ReceiveFails(c) \/ PushRefused(c)
  <2>1. /\ UNCHANGED <<response, request, task_queue, sessions>> /\ cpc[c] \in {"recv", "push"}
        /\ cpc' = [cpc EXCEPT ![c] = "serve"] /\ heap' = heap \ TaskBuffer(request[c])
    BY <1>10 DEF ReceiveFails, PushRefused, ClientAt, sessionvars, tablevars
  <2>2. InResponses' = InResponses /\ InQueue' = InQueue
    BY <1>0, <2>1, SessionsMove DEF InResponses, InQueue
  <2>3. cpc'[c] = "serve" /\ \A d \in Clients \ {c} : cpc'[d] = cpc[d]
    BY <1>0, <2>1 DEF Typed
  <2>4. InRequests = InRequests' \cup TaskBuffer(request[c])
    BY <2>1, <2>3 DEF InRequests
  <2>5. \A b \in TaskBuffer(request[c]) : b \notin InRequests'
    <3> SUFFICES ASSUME NEW b \in TaskBuffer(request[c]), b \in InRequests' PROVE FALSE
      OBVIOUS
    <3>1. PICK d \in Clients : cpc'[d] \in {"recv", "reset", "push"} /\ b \in TaskBuffer(request[d])
      BY <2>1 DEF InRequests
    <3>2. d # c /\ cpc[d] \in {"recv", "reset", "push"}
      BY <2>3, <3>1
    <3> QED
      BY <2>1, <3>1, <3>2, RefusedAlone
  <2>6. \A b \in TaskBuffer(request[c]) : b \notin InQueue \cup InTasks \cup InData \cup InResponses
    BY <2>1, RefusedAlone
  <2> QED
    BY <1>h, <1>w, <2>1, <2>2, <2>4, <2>5, <2>6, Owners
<1> QED
  BY <1>2, <1>3, <1>4, <1>5, <1>6, <1>7, <1>8, <1>9, <1>10 DEF ClientActs

\* ... and so does a step of a worker.
LEMMA WorkerBuffers ==
  ASSUME PInv, SessionsFit, NEW w \in Workers, WorkerActs(w)
  PROVE  heap' = OwnedBuffers'
<1>0. Typed /\ BuffersOwned /\ WorkersFit
  BY DEF PInv
<1>h. heap = InRequests \cup InQueue \cup InTasks \cup InData \cup InResponses
  BY <1>0, Owners DEF BuffersOwned
<1>r. InRequests' = InRequests /\ UNCHANGED <<sessions, request>>
  <2>1. UNCHANGED <<sessions, request>>
    BY DEF WorkerActs, TakeTask, WorkerExit, AllocateData, ReadFails, DropResponse, SetResponse, FreeTask,
           WorkerGoes, clientvars, sessionvars, tablevars
  <2>2. \A c \in Clients : cpc'[c] \in {"recv", "reset", "push"} <=> cpc[c] \in {"recv", "reset", "push"}
    <3>1. CASE SetResponse(w)
      BY <3>1 DEF SetResponse
    <3>2. CASE ~ SetResponse(w)
      BY <3>2 DEF WorkerActs, TakeTask, WorkerExit, AllocateData, ReadFails, DropResponse, FreeTask,
                  WorkerGoes, clientvars
    <3> QED
      BY <3>1, <3>2
  <2>3. {c \in Clients : cpc'[c] \in {"recv", "reset", "push"}} = {c \in Clients : cpc[c] \in {"recv", "reset", "push"}}
    BY <2>2
  <2> QED
    BY <2>1, <2>3 DEF InRequests
<1>a. Allocated' = Allocated
  BY <1>r DEF Allocated
<1>1. CASE TakeTask(w)
  <2>1. /\ UNCHANGED <<heap, response, data>> /\ wpc[w] = "pop"
        /\ task_queue # <<>> /\ task_queue' = Tail(task_queue)
        /\ task' = [task EXCEPT ![w] = Head(task_queue)]
    BY <1>1 DEF TakeTask, WorkerAt
  <2>2. InData' = InData /\ InResponses' = InResponses
    BY <1>a, <2>1 DEF InData, InResponses
  <2>3. task[w] = NoTask /\ TaskBuffer(NoTask) = {}
    BY <1>0, <2>1, TaskFields DEF WorkersFit
  <2>4. task'[w] = Head(task_queue) /\ \A v \in Workers \ {w} : task'[v] = task[v]
    BY <1>0, <2>1 DEF Typed
  <2>5. InTasks' = InTasks \cup TaskBuffer(Head(task_queue))
    BY <2>3, <2>4 DEF InTasks
  <2>6. InQueue = InQueue' \cup TaskBuffer(Head(task_queue))
    <3>1. task_queue \in Seq(Tasks) /\ DOMAIN task_queue = 1 .. Len(task_queue)
      BY <1>0, LenProperties DEF Typed
    <3>2. Tail(task_queue) \in Seq(Tasks)
      BY <2>1, <3>1, HeadTailProperties
    <3>3. DOMAIN task_queue' = 1 .. Len(task_queue')
      BY <2>1, <3>2, LenProperties
    <3>4. 1 \in DOMAIN task_queue /\ Head(task_queue) = task_queue[1]
      BY <2>1, <3>1, TakeFirst
    <3>5. /\ \A i \in DOMAIN task_queue' : i + 1 \in DOMAIN task_queue /\ task_queue'[i] = task_queue[i + 1]
          /\ \A j \in DOMAIN task_queue \ {1} : j - 1 \in DOMAIN task_queue' /\ task_queue'[j - 1] = task_queue[j]
      BY <2>1, <3>1, TakeFirst
    <3>6. ASSUME NEW b \in InQueue, b \notin TaskBuffer(Head(task_queue))
          PROVE  b \in InQueue'
      <4>1. PICK j \in DOMAIN task_queue : b \in TaskBuffer(task_queue[j])
        BY <3>1, <3>6 DEF InQueue
      <4>2. j - 1 \in DOMAIN task_queue' /\ b \in TaskBuffer(task_queue'[j - 1])
        BY <3>4, <3>5, <3>6, <4>1
      <4> QED
        BY <3>3, <4>2 DEF InQueue
    <3>7. ASSUME NEW b \in InQueue'
          PROVE  b \in InQueue
      <4>1. PICK i \in DOMAIN task_queue' : b \in TaskBuffer(task_queue'[i])
        BY <3>3, <3>7 DEF InQueue
      <4>2. i + 1 \in DOMAIN task_queue /\ b \in TaskBuffer(task_queue[i + 1])
        BY <3>5, <4>1
      <4> QED
        BY <3>1, <4>2 DEF InQueue
    <3>8. TaskBuffer(Head(task_queue)) \subseteq InQueue
      BY <3>1, <3>4 DEF InQueue
    <3> QED
      BY <3>6, <3>7, <3>8
  <2> QED
    BY <1>h, <1>r, <2>1, <2>2, <2>5, <2>6, Owners
<1>2. CASE WorkerExit(w) \/ WorkerGoes(w)
  <2>1. UNCHANGED <<heap, response, data, task, task_queue>>
    BY <1>2 DEF WorkerExit, WorkerGoes
  <2>2. InData' = InData /\ InResponses' = InResponses /\ InTasks' = InTasks /\ InQueue' = InQueue
    BY <1>a, <2>1 DEF InData, InResponses, InTasks, InQueue
  <2> QED
    BY <1>h, <1>r, <2>1, <2>2, Owners
<1>3. CASE AllocateData(w)
  <2>1. UNCHANGED <<response, task, task_queue>> /\ wpc[w] = "work"
    BY <1>3 DEF AllocateData, WorkerAt
  <2>2. PICK d : data' = [data EXCEPT ![w] = d] /\ heap' = heap \cup d
    BY <1>3 DEF AllocateData
  <2>3. data[w] = {}
    BY <1>0, <2>1 DEF WorkersFit
  <2>4. data'[w] = d /\ \A v \in Workers \ {w} : data'[v] = data[v]
    BY <1>0, <2>2 DEF Typed
  <2>5. InData' = InData \cup d
    BY <2>3, <2>4 DEF InData
  <2>6. InResponses' = InResponses /\ InTasks' = InTasks /\ InQueue' = InQueue
    BY <1>a, <2>1 DEF InResponses, InTasks, InQueue
  <2> QED
    BY <1>h, <1>r, <2>2, <2>5, <2>6, Owners
<1>4. CASE ReadFails(w) \/ DropResponse(w)
  <2>1. /\ UNCHANGED <<response, task, task_queue>>
        /\ heap' = heap \ data[w] /\ data' = [data EXCEPT ![w] = {}]
    BY <1>4 DEF ReadFails, DropResponse
  <2>2. data'[w] = {} /\ \A v \in Workers \ {w} : data'[v] = data[v]
    BY <1>0, <2>1 DEF Typed
  <2>3. InData = InData' \cup data[w]
    BY <2>2 DEF InData
  <2>4. \A b \in data[w] : b \notin InData'
    BY <2>2, DataAlone DEF InData
  <2>5. InResponses' = InResponses /\ InTasks' = InTasks /\ InQueue' = InQueue
    BY <1>a, <2>1 DEF InResponses, InTasks, InQueue
  <2>6. \A b \in data[w] : b \notin InRequests \cup InQueue \cup InTasks \cup InResponses
    BY DataAlone
  <2> QED
    BY <1>h, <1>r, <2>1, <2>3, <2>4, <2>5, <2>6, Owners
<1>5. CASE SetResponse(w)
  <2>1. /\ UNCHANGED <<heap, task, task_queue>> /\ wpc[w] = "set"
        /\ response' = [response EXCEPT ![task[w].sid] =
                          [ready |-> TRUE, answers |-> task[w], data |-> data[w]]]
        /\ data' = [data EXCEPT ![w] = {}]
    BY <1>5 DEF SetResponse, WorkerAt
  <2>2. task[w] # NoTask
    BY <1>0, <2>1 DEF WorkersFit
  <2>3. PICK e \in Clients : request[e] = task[w] /\ response[task[w].sid].data = {}
    BY <2>1 DEF PInv, TasksWaited, Unanswered
  <2>4. sid[e] = task[w].sid /\ sid[e] # NULL
    BY <1>0, <2>2, <2>3, TaskFields DEF PInv, RequestsFit, Typed
  <2>5. task[w].sid \in Allocated /\ \A i \in Allocated : i \in Ids
    BY <2>4 DEF SessionsFit
  <2>6. /\ response'[task[w].sid].data = data[w]
        /\ \A i \in Allocated \ {task[w].sid} : response'[i] = response[i]
    BY <1>0, <2>1, <2>5 DEF Typed
  <2>7. InResponses' = InResponses \cup data[w]
    BY <1>a, <2>3, <2>5, <2>6 DEF InResponses
  <2>8. data'[w] = {} /\ \A v \in Workers \ {w} : data'[v] = data[v]
    BY <1>0, <2>1 DEF Typed
  <2>9. InData = InData' \cup data[w]
    BY <2>8 DEF InData
  <2>10. InTasks' = InTasks /\ InQueue' = InQueue
    BY <2>1 DEF InTasks, InQueue
  <2> QED
    BY <1>h, <1>r, <2>1, <2>7, <2>9, <2>10, Owners
<1>6. CASE FreeTask(w)
  <2>1. /\ UNCHANGED <<response, data, task_queue>>
        /\ heap' = heap \ TaskBuffer(task[w]) /\ task' = [task EXCEPT ![w] = NoTask]
    BY <1>6 DEF FreeTask
  <2>2. /\ TaskBuffer(task'[w]) = {} /\ \A v \in Workers \ {w} : task'[v] = task[v]
    BY <1>0, <2>1, TaskFields DEF Typed
  <2>3. InTasks = InTasks' \cup TaskBuffer(task[w])
    BY <2>2 DEF InTasks
  <2>4. \A b \in TaskBuffer(task[w]) : b \notin InTasks'
    <3> SUFFICES ASSUME NEW b \in TaskBuffer(task[w]), b \in InTasks' PROVE FALSE
      OBVIOUS
    <3>1. PICK v \in Workers : b \in TaskBuffer(task'[v])
      BY DEF InTasks
    <3>2. v # w /\ b \in TaskBuffer(task[v])
      BY <2>2, <3>1
    <3> QED
      BY <3>2, DoneAlone
  <2>5. InResponses' = InResponses /\ InData' = InData /\ InQueue' = InQueue
    BY <1>a, <2>1 DEF InResponses, InData, InQueue
  <2>6. \A b \in TaskBuffer(task[w]) : b \notin InRequests \cup InQueue \cup InData \cup InResponses
    BY DoneAlone
  <2> QED
    BY <1>h, <1>r, <2>1, <2>3, <2>4, <2>5, <2>6, Owners
<1> QED
  BY <1>1, <1>2, <1>3, <1>4, <1>5, <1>6 DEF WorkerActs

\* When all threads have come to their end only responses have buffers.
LEMMA ExitedOwners ==
  ASSUME Typed, WorkersFit, TasksWaited,
         \A c \in Clients : cpc[c] = "exit", \A w \in Workers : wpc[w] = "exit"
  PROVE  InRequests = {} /\ InQueue = {} /\ InTasks = {} /\ InData = {} /\ task_queue = <<>>
<1>1. InRequests = {}
  BY DEF InRequests
<1>2. InTasks = {} /\ InData = {}
  BY TaskFields DEF WorkersFit, InTasks, InData
<1>3. \A i \in DOMAIN task_queue : FALSE
  BY DEF TasksWaited, Unanswered
<1>4. DOMAIN task_queue = 1 .. Len(task_queue) /\ Len(task_queue) \in Nat /\ task_queue \in Seq(Tasks)
  BY LenProperties DEF Typed
<1>5. Len(task_queue) = 0
  <2>1. \A i \in 1 .. Len(task_queue) : FALSE
    BY <1>3, <1>4
  <2>2. Len(task_queue) # 0 => 1 \in 1 .. Len(task_queue)
    BY <1>4
  <2> QED
    BY <2>1, <2>2
<1>6. task_queue = <<>>
  BY <1>4, <1>5, EmptySeq
<1>7. InQueue = {}
  BY <1>3, <1>4 DEF InQueue
<1> QED
  BY <1>1, <1>2, <1>6, <1>7

\* Every buffer keeps its owner.
LEMMA BuffersStep == PInv /\ [Next]_vars => BuffersOwned'
<1> SUFFICES ASSUME PInv, [Next]_vars PROVE heap' = OwnedBuffers'
  BY DEF BuffersOwned
<1>h. heap = InRequests \cup InQueue \cup InTasks \cup InData \cup InResponses
  BY Owners DEF PInv, BuffersOwned
<1>1. CASE UNCHANGED <<heap, response, request, task_queue, task, data, sessions, cpc>>
  <2>1. Allocated' = Allocated
    BY <1>1 DEF Allocated
  <2> QED
    BY <1>1, <1>h, <2>1, Owners DEF InRequests, InQueue, InTasks, InData, InResponses
<1>2. CASE DestroyAll
  <2>1. /\ \A c \in Clients : cpc[c] = "exit" /\ cpc'[c] = "exit"
        /\ \A w \in Workers : wpc[w] = "exit" /\ wpc'[w] = "exit"
        /\ sessions' = [i \in Index |-> NULL]
        /\ heap' = heap \ InResponses
        /\ UNCHANGED <<task_queue, task, data, request, cpc>>
    BY <1>2 DEF DestroyAll, session_manager_destroy, clientvars, workervars, InResponses
  <2>2. InRequests = {} /\ InQueue = {} /\ InTasks = {} /\ InData = {}
    BY <2>1, ExitedOwners DEF PInv
  <2>3. InRequests' = {} /\ InQueue' = {} /\ InTasks' = {} /\ InData' = {}
    BY <2>1, <2>2 DEF InRequests, InQueue, InTasks, InData
  <2>4. Allocated' = {}
    BY <2>1 DEF Allocated
  <2>5. InResponses' = {}
    BY <2>4 DEF InResponses
  <2>6. heap' = {}
    BY <1>h, <2>1, <2>2
  <2> QED
    BY <2>3, <2>5, <2>6, Owners
<1>3. CASE MainActs
  BY <1>1, <1>3 DEF MainActs, Accept, PushConnection, RejectConnection, LeaveAcceptLoop, Shutdown,
     sessionvars, tablevars, clientvars, workervars
<1> QED
  BY <1>1, <1>2, <1>3, Steps, ClientBuffers, WorkerBuffers
  DEF vars, sessionvars, tablevars, clientvars, workervars

\* Which client threads hold a descriptor changes in a few steps only.
LEMMA QuietSockets ==
  ASSUME Typed, SessionsFit,
         \/ \E c \in Clients : ClientActs(c) /\ ~ TakeConnection(c) /\ ~ CreateFails(c)
                               /\ ~ (\E i \in Index : CreateSession(c, i))
                               /\ ~ GetMisses(c) /\ ~ DestroySession(c)
         \/ \E w \in Workers : WorkerActs(w)
  PROVE  /\ UNCHANGED <<sock, main_fd, client_queue, fd, conn, sid, socket_fd, sessions, next_session_id>>
         /\ \A c \in Clients : Serving(c)' <=> Serving(c)
         /\ \A c \in Clients : cpc'[c] = "create" <=> cpc[c] = "create"
<1>1. ASSUME NEW c \in Clients, ClientActs(c), ~ TakeConnection(c), ~ CreateFails(c),
             ~ (\E i \in Index : CreateSession(c, i)), ~ GetMisses(c), ~ DestroySession(c)
      PROVE  /\ UNCHANGED <<sock, main_fd, client_queue, fd, conn, sid, socket_fd, sessions, next_session_id>>
             /\ \A d \in Clients : Serving(d)' <=> Serving(d)
             /\ \A d \in Clients : cpc'[d] = "create" <=> cpc[d] = "create"
  <2>1. CASE ClientGoes(c)
    BY <2>1 DEF ClientGoes, Goes, ClientAt, Serving, Typed, sessionvars, tablevars, mainvars
  <2>2. CASE ClientExit(c) \/ MarkInactive(c) \/ (\E k \in Kinds : Command(c, k))
    BY <2>2 DEF ClientExit, MarkInactive, session_mark_inactive, Command, ClientAt, Serving, Typed,
                sessionvars, tablevars, mainvars
  <2>3. CASE ReceiveFails(c) \/ ResetResponse(c) \/ PushTask(c) \/ PushRefused(c)
    BY <2>3 DEF ReceiveFails, ResetResponse, PushTask, PushRefused, ClientAt, Serving, Typed,
                sessionvars, tablevars, mainvars
  <2> QED
    BY <1>1, <2>1, <2>2, <2>3 DEF ClientActs
<1>2. ASSUME NEW w \in Workers, WorkerActs(w)
      PROVE  /\ UNCHANGED <<sock, main_fd, client_queue, fd, conn, sid, socket_fd, sessions, next_session_id>>
             /\ \A d \in Clients : Serving(d)' <=> Serving(d)
             /\ \A d \in Clients : cpc'[d] = "create" <=> cpc[d] = "create"
  <2>1. CASE SetResponse(w)
    BY <2>1 DEF SetResponse, Serving, sessionvars, tablevars, mainvars
  <2>2. CASE ~ SetResponse(w)
    BY <1>2, <2>2 DEF WorkerActs, TakeTask, WorkerExit, AllocateData, ReadFails, DropResponse, FreeTask, WorkerGoes,
       Serving, sessionvars, tablevars, mainvars, clientvars
  <2> QED
    BY <2>1, <2>2
<1> QED
  BY <1>1, <1>2

\* Who an open descriptor belongs to, in all laps.
LEMMA KeptStep == PInv /\ [Next]_vars => SocketsKept'
<1> SUFFICES ASSUME PInv, [Next]_vars PROVE SocketsKept'
  OBVIOUS
<1>0. Typed /\ SocketsKept /\ StopFits /\ TableFits
  BY DEF PInv
<1>f. -1 \notin Fds
  BY FdsAssumption
<1>q. client_queue \in Seq(Fds)
  BY <1>0 DEF Typed
<1>1. CASE /\ UNCHANGED <<sock, main_fd, client_queue, fd, socket_fd, sessions>>
           /\ \A c \in Clients : Serving(c)' <=> Serving(c)
           /\ \A c \in Clients : cpc'[c] = "create" <=> cpc[c] = "create"
  <2>1. Allocated' = Allocated
    BY <1>1 DEF Allocated
  <2> QED
    BY <1>0, <1>1, <2>1 DEF SocketsKept
<1>2. CASE MainActs
  <2>1. UNCHANGED <<cpc, fd, socket_fd, sessions>> /\ Allocated' = Allocated
    BY <1>2 DEF MainActs, Accept, PushConnection, RejectConnection, LeaveAcceptLoop, Shutdown,
       sessionvars, tablevars, clientvars, Allocated
  <2>2. CASE \E f \in Fds : Accept(f)
    <3>1. PICK f \in Fds : Accept(f)
      BY <2>2
    <3>2. /\ main_fd' = f /\ main_fd = -1 /\ client_queue' = client_queue
          /\ \A g \in Fds \ {f} : sock'[g] = sock[g]
      BY <1>0, <3>1 DEF Accept, Typed
    <3>3. \A c \in Clients : Serving(c)' => fd'[c] \in Fds
      BY <1>0, <2>1 DEF SocketsKept, Serving
    <3>4. ASSUME NEW g \in Fds \ {f}, sock'[g] # Closed
          PROVE  \/ \E i \in DOMAIN client_queue' : client_queue'[i] = g
                 \/ \E c \in Clients : cpc'[c] = "create" /\ fd'[c] = g
                 \/ \E i \in Allocated' : socket_fd'[i] = g
      BY <1>0, <1>f, <2>1, <3>2, <3>4 DEF SocketsKept
    <3> QED
      BY <3>2, <3>3, <3>4 DEF SocketsKept
  <2>3. CASE PushConnection
    <3>1. /\ client_queue' = Append(client_queue, main_fd) /\ sock' = sock /\ main_fd \in Fds
      BY <1>0, <2>3 DEF PushConnection, Typed
    <3>2. /\ \A i \in DOMAIN client_queue : i \in DOMAIN client_queue' /\ client_queue'[i] = client_queue[i]
          /\ Len(client_queue) + 1 \in DOMAIN client_queue'
          /\ client_queue'[Len(client_queue) + 1] = main_fd
      BY <1>q, <3>1, PutLast
    <3> QED
      BY <1>0, <2>1, <3>1, <3>2 DEF SocketsKept, Serving
  <2>4. CASE RejectConnection
    BY <1>0, <2>1, <2>4 DEF SocketsKept, RejectConnection, Serving, Typed
  <2>5. CASE LeaveAcceptLoop \/ \E q \in Queues : Shutdown(q)
    BY <1>1, <2>1, <2>5 DEF LeaveAcceptLoop, Shutdown, Serving, mainvars
  <2> QED
    BY <1>2, <2>2, <2>3, <2>4, <2>5 DEF MainActs
<1>3. CASE DestroyAll
  <2>1. /\ \A c \in Clients : cpc'[c] = "exit"
        /\ UNCHANGED <<main_fd, client_queue>>
        /\ \A c \in Clients : cpc[c] = "exit"
        /\ \A f \in Fds : sock'[f] # Closed => sock[f] # Closed /\ \A i \in Allocated : socket_fd[i] # f
    BY <1>3 DEF DestroyAll, clientvars
  <2> QED
    BY <1>0, <2>1 DEF SocketsKept, Serving
<1>4. ASSUME SessionsFit, mpc # "done", NEW c \in Clients, ClientActs(c) PROVE SocketsKept'
  <2>1. CASE TakeConnection(c)
    <3>1. /\ client_queue # <<>> /\ client_queue' = Tail(client_queue)
          /\ fd' = [fd EXCEPT ![c] = Head(client_queue)]
          /\ cpc[c] = "pop" /\ cpc' = [cpc EXCEPT ![c] = "create"]
          /\ UNCHANGED <<sock, main_fd, socket_fd, sessions>>
      BY <2>1 DEF TakeConnection, ClientAt, sessionvars, tablevars, mainvars
    <3>2. Allocated' = Allocated
      BY <3>1 DEF Allocated
    <3>3. /\ Head(client_queue) = client_queue[1] /\ Head(client_queue) \in Fds
          /\ \A j \in DOMAIN client_queue \ {1} :
               j - 1 \in DOMAIN client_queue' /\ client_queue'[j - 1] = client_queue[j]
      BY <1>q, <3>1, TakeFirst
    <3>4. /\ fd'[c] = client_queue[1] /\ cpc'[c] = "create"
          /\ \A d \in Clients \ {c} : fd'[d] = fd[d] /\ cpc'[d] = cpc[d]
      BY <1>0, <3>1, <3>3 DEF Typed
    <3>5. \A d \in Clients : Serving(d)' => fd'[d] \in Fds
      BY <1>0, <3>3, <3>4 DEF SocketsKept, Serving
    <3>6. ASSUME NEW f \in Fds, sock'[f] # Closed
          PROVE  \/ f = main_fd'
                 \/ \E i \in DOMAIN client_queue' : client_queue'[i] = f
                 \/ \E d \in Clients : cpc'[d] = "create" /\ fd'[d] = f
                 \/ \E i \in Allocated' : socket_fd'[i] = f
      <4>1. CASE \E i \in DOMAIN client_queue : client_queue[i] = f
        BY <3>3, <3>4, <4>1
      <4>2. CASE \E d \in Clients : cpc[d] = "create" /\ fd[d] = f
        BY <3>1, <3>4, <4>2
      <4> QED
        BY <1>0, <3>1, <3>2, <3>6, <4>1, <4>2 DEF SocketsKept
    <3> QED
      BY <3>5, <3>6 DEF SocketsKept
  <2>2. ASSUME NEW i \in Index, CreateSession(c, i) PROVE SocketsKept'
    <3>1. /\ Allocated' = Allocated \cup {next_session_id}
          /\ next_session_id \in Ids /\ next_session_id \notin Allocated
      BY <1>0, <1>4, <2>2, SessionsMove
    <3>2. /\ socket_fd' = [socket_fd EXCEPT ![next_session_id] = fd[c]]
          /\ cpc[c] = "create" /\ cpc' = [cpc EXCEPT ![c] = "get"]
          /\ UNCHANGED <<sock, main_fd, client_queue, fd>>
      BY <2>2 DEF CreateSession, ClientAt, mainvars
    <3>3. /\ socket_fd'[next_session_id] = fd[c]
          /\ \A j \in Allocated : socket_fd'[j] = socket_fd[j]
      BY <1>0, <1>4, <3>1, <3>2 DEF Typed, SessionsFit
    <3>4. cpc'[c] = "get" /\ \A d \in Clients \ {c} : cpc'[d] = cpc[d]
      BY <1>0, <3>2 DEF Typed
    <3> QED
      BY <1>0, <3>1, <3>2, <3>3, <3>4 DEF SocketsKept, Serving
  <2>3. CASE CreateFails(c)
    <3>1. /\ cpc' = [cpc EXCEPT ![c] = "pop"] /\ NextClient(c) /\ cpc[c] = "create"
          /\ sock' = [sock EXCEPT ![fd[c]] = Closed]
          /\ UNCHANGED <<main_fd, client_queue, socket_fd, sessions>>
      BY <2>3 DEF CreateFails, session_create_fails, ClientAt, mainvars
    <3>2. /\ cpc'[c] = "pop" /\ \A d \in Clients \ {c} : cpc'[d] = cpc[d] /\ fd'[d] = fd[d]
      BY <1>0, <3>1 DEF NextClient, Typed
    <3>3. \A f \in Fds : sock'[f] # Closed => sock[f] # Closed /\ f # fd[c]
      BY <1>0, <3>1 DEF Typed
    <3>4. Allocated' = Allocated
      BY <3>1 DEF Allocated
    <3> QED
      BY <1>0, <3>1, <3>2, <3>3, <3>4 DEF SocketsKept, Serving
  <2>4. CASE GetMisses(c)
    <3>1. /\ cpc' = [cpc EXCEPT ![c] = "destroy"] /\ cpc[c] = "get"
          /\ sock' = [sock EXCEPT ![fd[c]] = Closed]
          /\ UNCHANGED <<main_fd, client_queue, socket_fd, sessions, fd>>
      BY <2>4 DEF GetMisses, ClientAt, mainvars, sessionvars, tablevars
    <3>2. /\ cpc'[c] = "destroy" /\ \A d \in Clients \ {c} : cpc'[d] = cpc[d]
      BY <1>0, <3>1 DEF Typed
    <3>3. \A f \in Fds : sock'[f] # Closed => sock[f] # Closed
      BY <1>0, <3>1 DEF Typed
    <3>4. Allocated' = Allocated
      BY <3>1 DEF Allocated
    <3> QED
      BY <1>0, <3>1, <3>2, <3>3, <3>4 DEF SocketsKept, Serving
  <2>5. CASE DestroySession(c)
    <3>1. /\ cpc' = [cpc EXCEPT ![c] = "pop"] /\ NextClient(c) /\ cpc[c] = "destroy"
          /\ UNCHANGED <<main_fd, client_queue>>
          /\ IF Reachable(sid[c])
               THEN /\ sock' = [sock EXCEPT ![socket_fd[sid[c]]] = Closed]
                    /\ socket_fd' = [socket_fd EXCEPT ![sid[c]] = -1]
               ELSE UNCHANGED <<sock, socket_fd>>
          /\ Allocated' = IF Reachable(sid[c]) THEN Allocated \ {sid[c]} ELSE Allocated
      BY <1>0, <1>4, <2>5, SessionsMove DEF DestroySession, ClientAt, mainvars
    <3>2. /\ cpc'[c] = "pop" /\ \A d \in Clients \ {c} : cpc'[d] = cpc[d] /\ fd'[d] = fd[d]
      BY <1>0, <3>1 DEF NextClient, Typed
    <3>3. sid[c] \in Ids /\ \A i \in Allocated : i \in Ids
      BY <1>4, <3>1 DEF SessionsFit
    <3>4. \A d \in Clients : Serving(d)' => fd'[d] \in Fds
      BY <1>0, <3>2 DEF SocketsKept, Serving
    <3>5. ASSUME NEW f \in Fds, sock'[f] # Closed
          PROVE  /\ sock[f] # Closed
                 /\ (\E i \in Allocated : socket_fd[i] = f) => \E i \in Allocated' : socket_fd'[i] = f
      <4>1. CASE Reachable(sid[c])
        <5>1. sock[f] # Closed /\ f # socket_fd[sid[c]]
          BY <1>0, <3>1, <3>5, <4>1 DEF Typed
        <5>2. \A i \in Allocated \ {sid[c]} : i \in Allocated' /\ socket_fd'[i] = socket_fd[i]
          BY <1>0, <3>1, <3>3, <4>1 DEF Typed
        <5> QED
          BY <5>1, <5>2
      <4>2. CASE ~ Reachable(sid[c])
        BY <3>1, <3>5, <4>2
      <4> QED
        BY <4>1, <4>2
    <3>6. \A d \in Clients : cpc[d] = "create" => cpc'[d] = "create" /\ fd'[d] = fd[d]
      BY <3>1, <3>2
    <3>7. ASSUME NEW f \in Fds, sock'[f] # Closed
          PROVE  \/ f = main_fd'
                 \/ \E i \in DOMAIN client_queue' : client_queue'[i] = f
                 \/ \E d \in Clients : cpc'[d] = "create" /\ fd'[d] = f
                 \/ \E i \in Allocated' : socket_fd'[i] = f
      BY <1>0, <3>1, <3>5, <3>6, <3>7 DEF SocketsKept
    <3> QED
      BY <3>4, <3>7 DEF SocketsKept
  <2> QED
    BY <1>0, <1>1, <1>4, <2>1, <2>2, <2>3, <2>4, <2>5, QuietSockets
<1>5. ASSUME SessionsFit, NEW w \in Workers, WorkerActs(w) PROVE SocketsKept'
  BY <1>0, <1>1, <1>5, QuietSockets
<1>6. CASE UNCHANGED vars
  BY <1>1, <1>6 DEF vars, sessionvars, tablevars, mainvars, clientvars, Serving
<1> QED
  BY <1>2, <1>3, <1>4, <1>5, <1>6, Steps

\* In the first lap nobody shares a descriptor.
LEMMA ApartSockets == PInv /\ [Next]_vars => SocketsApart'
<1> SUFFICES ASSUME PInv, [Next]_vars, FirstLap' PROVE SocketsApart'
  BY DEF SocketsApart
<1>n. next_session_id \in Int /\ MaxSessions \in Int
  BY MaxSessionsAssumption DEF PInv, TableFits, TableTypeOK
<1>0. Typed /\ SocketsKept /\ StopFits /\ TableFits /\ SocketsApart
  BY DEF PInv
<1>f. -1 \notin Fds /\ Closed = 0
  BY FdsAssumption DEF Closed
<1>q. client_queue \in Seq(Fds) /\ \A i \in DOMAIN client_queue : client_queue[i] \in Fds
  BY <1>0, ElementOfSeq, LenProperties DEF Typed
<1>1. CASE /\ UNCHANGED <<sock, main_fd, client_queue, fd, conn, sid, socket_fd, sessions, next_session_id>>
           /\ \A c \in Clients : Serving(c)' <=> Serving(c)
  BY <1>0, <1>1 DEF SocketsApart, FirstLap
<1>2. CASE MainActs
  <2>1. UNCHANGED <<cpc, fd, conn, sid, socket_fd, sessions, next_session_id>> /\ FirstLap
    BY <1>2 DEF MainActs, Accept, PushConnection, RejectConnection, LeaveAcceptLoop, Shutdown,
       sessionvars, tablevars, clientvars, FirstLap
  <2>s. \A c \in Clients : Serving(c)' <=> Serving(c)
    BY <2>1 DEF Serving
  <2>k. \A c \in Clients : Serving(c) => fd[c] \in Fds
    BY <1>0 DEF SocketsKept
  <2>2. ASSUME NEW f \in Fds, Accept(f) PROVE SocketsApart'
    <3>1. /\ main_fd = -1 /\ main_fd' = f /\ sock[f] = Closed /\ client_queue' = client_queue
          /\ sock' = [sock EXCEPT ![f] = accepted + 1] /\ accepted \in Nat
      BY <1>0, <2>2 DEF Accept, Typed
    <3>2. sock'[f] # Closed /\ \A g \in Fds \ {f} : sock'[g] = sock[g]
      BY <1>0, <1>f, <3>1 DEF Typed
    <3>3. \A i \in DOMAIN client_queue : client_queue[i] \in Fds \ {f}
      BY <1>0, <1>q, <2>1, <3>1 DEF SocketsApart
    <3>4. \A c \in Clients : Serving(c) => fd[c] \in Fds \ {f}
      BY <1>0, <2>1, <2>k, <3>1 DEF SocketsApart
    <3> QED
      BY <1>0, <2>1, <2>s, <3>1, <3>2, <3>3, <3>4 DEF SocketsApart
  <2>3. CASE PushConnection
    <3>1. /\ client_queue' = Append(client_queue, main_fd) /\ sock' = sock
          /\ main_fd \in Fds /\ main_fd' = -1 /\ main_fd # -1
      BY <1>0, <2>3 DEF PushConnection, Typed
    <3>2. \A i \in DOMAIN client_queue' :
            \/ i \in DOMAIN client_queue /\ client_queue'[i] = client_queue[i]
            \/ i = Len(client_queue) + 1 /\ client_queue'[i] = main_fd
      BY <1>q, <3>1, PutLast
    <3>3. \A i \in DOMAIN client_queue' : client_queue'[i] \in Fds
      BY <1>q, <3>1, <3>2
    <3>4. ASSUME NEW i \in DOMAIN client_queue'
          PROVE  /\ sock'[client_queue'[i]] # Closed /\ client_queue'[i] # main_fd'
                 /\ \A j \in DOMAIN client_queue' : client_queue'[i] = client_queue'[j] => i = j
                 /\ \A c \in Clients : Serving(c)' => fd'[c] # client_queue'[i]
      BY <1>0, <1>f, <2>1, <2>s, <3>1, <3>2, <3>3 DEF SocketsApart
    <3> QED
      BY <1>0, <2>1, <2>s, <3>1, <3>4 DEF SocketsApart
  <2>4. CASE RejectConnection
    <3>1. /\ sock' = [sock EXCEPT ![main_fd] = Closed] /\ client_queue' = client_queue
          /\ main_fd' = -1 /\ main_fd # -1 /\ main_fd \in Fds
      BY <1>0, <2>4 DEF RejectConnection, Typed
    <3>2. \A g \in Fds \ {main_fd} : sock'[g] = sock[g]
      BY <1>0, <3>1 DEF Typed
    <3>3. \A i \in DOMAIN client_queue : client_queue[i] \in Fds \ {main_fd}
      BY <1>0, <1>q, <2>1 DEF SocketsApart
    <3>4. \A c \in Clients : Serving(c) => fd[c] \in Fds \ {main_fd}
      BY <1>0, <2>1, <2>k, <3>1 DEF SocketsApart
    <3> QED
      BY <1>0, <1>f, <2>1, <2>s, <3>1, <3>2, <3>3, <3>4 DEF SocketsApart
  <2>5. CASE LeaveAcceptLoop \/ \E q \in Queues : Shutdown(q)
    BY <1>1, <2>1, <2>s, <2>5 DEF LeaveAcceptLoop, Shutdown, mainvars
  <2> QED
    BY <1>2, <2>2, <2>3, <2>4, <2>5 DEF MainActs
<1>3. CASE DestroyAll
  <2>1. /\ \A c \in Clients : cpc'[c] = "exit" /\ cpc[c] = "exit"
        /\ main_fd' = main_fd /\ client_queue' = client_queue /\ mpc = "join"
    BY <1>3 DEF DestroyAll, clientvars
  <2>2. main_fd = -1 /\ client_queue = <<>>
    BY <1>0, <2>1, ThreadsAssumption DEF StopFits
  <2>3. DOMAIN client_queue = {}
    BY <2>2
  <2> QED
    BY <2>1, <2>2, <2>3 DEF SocketsApart, Serving
<1>4. ASSUME SessionsFit, mpc # "done", NEW c \in Clients, ClientActs(c) PROVE SocketsApart'
  <2>f. FirstLap
    <3>1. next_session_id' \in {next_session_id, next_session_id + 1}
      BY <1>4 DEF ClientActs, TakeConnection, ClientExit, CreateSession, CreateFails, GetMisses,
         MarkInactive, DestroySession, Command, ReceiveFails, ResetResponse, PushTask, PushRefused, ClientGoes, Goes,
         session_create, session_create_fails, session_mark_inactive, session_destroy,
         sessionvars, tablevars
    <3> QED
      BY <1>n, <3>1 DEF FirstLap
  <2>k. \A d \in Clients : Serving(d) => fd[d] \in Fds
    BY <1>0 DEF SocketsKept
  <2>1. CASE TakeConnection(c)
    <3>1. /\ client_queue # <<>> /\ client_queue' = Tail(client_queue)
          /\ fd' = [fd EXCEPT ![c] = Head(client_queue)]
          /\ conn' = [conn EXCEPT ![c] = sock[Head(client_queue)]]
          /\ cpc[c] = "pop" /\ cpc' = [cpc EXCEPT ![c] = "create"]
          /\ UNCHANGED <<sock, main_fd, socket_fd, sid>>
      BY <2>1 DEF TakeConnection, ClientAt, sessionvars, mainvars
    <3>2. /\ 1 \in DOMAIN client_queue /\ Head(client_queue) = client_queue[1]
          /\ \A i \in DOMAIN client_queue' : /\ i \in Nat \ {0} /\ i + 1 \in DOMAIN client_queue
                                             /\ client_queue'[i] = client_queue[i + 1]
      BY <1>q, <3>1, TakeFirst
    <3>3. /\ fd'[c] = client_queue[1] /\ cpc'[c] = "create" /\ conn'[c] = sock[client_queue[1]]
          /\ \A d \in Clients \ {c} : fd'[d] = fd[d] /\ cpc'[d] = cpc[d] /\ conn'[d] = conn[d]
      BY <1>0, <3>1, <3>2 DEF Typed
    <3>4. sid[c] = NULL
      BY <1>4, <3>1 DEF SessionsFit
    <3>5. main_fd' # -1 => /\ sock'[main_fd'] # Closed
                           /\ \A d \in Clients : Serving(d)' => fd'[d] # main_fd'
      BY <1>0, <2>f, <3>1, <3>2, <3>3 DEF SocketsApart, Serving
    <3>6. ASSUME NEW i \in DOMAIN client_queue'
          PROVE  /\ sock'[client_queue'[i]] # Closed /\ client_queue'[i] # main_fd'
                 /\ \A j \in DOMAIN client_queue' : client_queue'[i] = client_queue'[j] => i = j
                 /\ \A d \in Clients : Serving(d)' => fd'[d] # client_queue'[i]
      <4>1. /\ i + 1 \in DOMAIN client_queue /\ i + 1 # 1 /\ client_queue'[i] = client_queue[i + 1]
        BY <3>2
      <4>2. sock'[client_queue'[i]] # Closed /\ client_queue'[i] # main_fd'
        BY <1>0, <2>f, <3>1, <4>1 DEF SocketsApart
      <4>3. ASSUME NEW j \in DOMAIN client_queue', client_queue'[i] = client_queue'[j]
            PROVE  i = j
        <5>1. j + 1 \in DOMAIN client_queue /\ client_queue'[j] = client_queue[j + 1] /\ j \in Nat /\ i \in Nat
          BY <3>2
        <5>2. i + 1 = j + 1
          BY <1>0, <2>f, <4>1, <4>3, <5>1 DEF SocketsApart
        <5> QED
          BY <5>1, <5>2
      <4>4. ASSUME NEW d \in Clients, Serving(d)'
            PROVE  fd'[d] # client_queue'[i]
        <5>1. CASE d = c
          BY <1>0, <2>f, <3>2, <3>3, <4>1, <5>1 DEF SocketsApart
        <5>2. CASE d # c
          BY <1>0, <2>f, <3>3, <4>1, <4>4, <5>2 DEF SocketsApart, Serving
        <5> QED
          BY <5>1, <5>2
      <4> QED
        BY <4>2, <4>3, <4>4
    <3>7. ASSUME NEW d \in Clients, Serving(d)'
          PROVE  /\ sock'[fd'[d]] = conn'[d] /\ conn'[d] # Closed
                 /\ sid'[d] # NULL => socket_fd'[sid'[d]] = fd'[d]
                 /\ \A e \in Clients : Serving(e)' /\ fd'[d] = fd'[e] => d = e
      <4>1. \A e \in Clients \ {c} : Serving(e)' => Serving(e) /\ fd[e] # client_queue[1]
        BY <1>0, <2>f, <3>2, <3>3 DEF SocketsApart, Serving
      <4>2. CASE d = c
        BY <1>0, <2>f, <3>1, <3>2, <3>3, <3>4, <4>1, <4>2 DEF SocketsApart
      <4>3. CASE d # c
        BY <1>0, <2>f, <3>1, <3>3, <3>7, <4>1, <4>3 DEF SocketsApart
      <4> QED
        BY <4>2, <4>3
    <3> QED
      BY <3>5, <3>6, <3>7 DEF SocketsApart
  <2>2. ASSUME NEW i \in Index, CreateSession(c, i) PROVE SocketsApart'
    <3>1. next_session_id \in Ids /\ next_session_id \notin Allocated
      BY <1>0, <1>4, <2>2, SessionsMove
    <3>2. /\ socket_fd' = [socket_fd EXCEPT ![next_session_id] = fd[c]]
          /\ sid' = [sid EXCEPT ![c] = next_session_id]
          /\ cpc[c] = "create" /\ cpc' = [cpc EXCEPT ![c] = "get"]
          /\ UNCHANGED <<sock, main_fd, client_queue, fd, conn>>
      BY <2>2 DEF CreateSession, ClientAt, mainvars
    <3>3. \A d \in Clients : Serving(d)' <=> Serving(d)
      BY <1>0, <3>2 DEF Serving, Typed
    <3>4. ASSUME NEW d \in Clients, Serving(d)', sid'[d] # NULL
          PROVE  socket_fd'[sid'[d]] = fd'[d]
      <4>1. CASE d = c
        BY <1>0, <3>1, <3>2, <4>1 DEF Typed
      <4>2. CASE d # c
        <5>1. sid'[d] = sid[d] /\ sid[d] \in Allocated /\ sid[d] \in Ids
          BY <1>0, <1>4, <3>2, <3>4, <4>2 DEF Typed, SessionsFit
        <5>2. socket_fd'[sid[d]] = socket_fd[sid[d]]
          BY <1>0, <3>1, <3>2, <5>1 DEF Typed
        <5> QED
          BY <1>0, <2>f, <3>2, <3>3, <3>4, <5>1, <5>2 DEF SocketsApart
      <4> QED
        BY <4>1, <4>2
    <3> QED
      BY <1>0, <2>f, <3>2, <3>3, <3>4 DEF SocketsApart
  <2>3. CASE CreateFails(c) \/ DestroySession(c)
    <3>1. cpc[c] \in {"create", "destroy"} /\ cpc' = [cpc EXCEPT ![c] = "pop"] /\ NextClient(c)
          /\ UNCHANGED <<main_fd, client_queue>>
      BY <2>3 DEF CreateFails, DestroySession, ClientAt, mainvars
    <3>2. Serving(c) /\ fd[c] \in Fds
      BY <2>k, <3>1 DEF Serving
    <3>3. /\ sock' = [sock EXCEPT ![fd[c]] = Closed]
          /\ \A i \in Ids : i # sid[c] => socket_fd'[i] = socket_fd[i]
      <4>1. CASE CreateFails(c)
        BY <4>1 DEF CreateFails
      <4>2. CASE DestroySession(c)
        <5>1. cpc[c] = "destroy"
          BY <4>2 DEF DestroySession, ClientAt
        <5>2. sid[c] # NULL /\ Reachable(sid[c])
          BY <1>4, <2>f, <5>1 DEF SessionsFit
        <5>3. socket_fd[sid[c]] = fd[c]
          BY <1>0, <2>f, <3>2, <5>2 DEF SocketsApart
        <5> QED
          BY <1>0, <4>2, <5>2, <5>3 DEF DestroySession, Typed
      <4> QED
        BY <2>3, <4>1, <4>2
    <3>4. /\ ~ Serving(c)'
          /\ \A d \in Clients \ {c} : /\ fd'[d] = fd[d] /\ conn'[d] = conn[d] /\ sid'[d] = sid[d]
                                      /\ Serving(d)' <=> Serving(d)
      BY <1>0, <3>1 DEF NextClient, Serving, Typed
    <3>5. \A g \in Fds \ {fd[c]} : sock'[g] = sock[g]
      BY <1>0, <3>3 DEF Typed
    <3>6. main_fd' # -1 => /\ sock'[main_fd'] # Closed
                           /\ \A d \in Clients : Serving(d)' => fd'[d] # main_fd'
      <4>1. main_fd # -1 => main_fd \in Fds \ {fd[c]}
        BY <1>0, <2>f, <3>2 DEF SocketsApart, Typed
      <4> QED
        BY <1>0, <2>f, <3>1, <3>4, <3>5, <4>1 DEF SocketsApart
    <3>7. ASSUME NEW i \in DOMAIN client_queue'
          PROVE  /\ sock'[client_queue'[i]] # Closed /\ client_queue'[i] # main_fd'
                 /\ \A j \in DOMAIN client_queue' : client_queue'[i] = client_queue'[j] => i = j
                 /\ \A d \in Clients : Serving(d)' => fd'[d] # client_queue'[i]
      <4>1. i \in DOMAIN client_queue /\ client_queue[i] \in Fds \ {fd[c]}
        BY <1>0, <1>q, <2>f, <3>1, <3>2 DEF SocketsApart
      <4> QED
        BY <1>0, <2>f, <3>1, <3>4, <3>5, <4>1 DEF SocketsApart
    <3>8. ASSUME NEW d \in Clients, Serving(d)'
          PROVE  /\ sock'[fd'[d]] = conn'[d] /\ conn'[d] # Closed
                 /\ sid'[d] # NULL => socket_fd'[sid'[d]] = fd'[d]
                 /\ \A e \in Clients : Serving(e)' /\ fd'[d] = fd'[e] => d = e
      <4>1. d # c /\ Serving(d)
        BY <3>4, <3>8
      <4>2. fd[d] \in Fds \ {fd[c]}
        BY <1>0, <2>f, <2>k, <3>2, <4>1 DEF SocketsApart
      <4>3. sid[d] # NULL => sid[d] \in Ids /\ sid[d] # sid[c]
        BY <1>4, <4>1 DEF SessionsFit
      <4>4. sid'[d] # NULL => socket_fd'[sid'[d]] = fd'[d]
        BY <1>0, <2>f, <3>3, <3>4, <4>1, <4>3 DEF SocketsApart
      <4> QED
        BY <1>0, <2>f, <3>4, <3>5, <4>1, <4>2, <4>4 DEF SocketsApart
    <3> QED
      BY <3>6, <3>7, <3>8 DEF SocketsApart
  <2>4. CASE GetMisses(c)
    <3>1. cpc[c] = "get" /\ ~ session_get(sid[c])
      BY <2>4 DEF GetMisses, ClientAt
    <3>2. sid[c] \in active /\ Reachable(sid[c])
      BY <1>4, <2>f, <3>1 DEF SessionsFit
    <3> QED
      BY <3>1, <3>2 DEF session_get
  <2> QED
    BY <1>0, <1>1, <1>4, <2>1, <2>2, <2>3, <2>4, QuietSockets
<1>5. ASSUME SessionsFit, NEW w \in Workers, WorkerActs(w) PROVE SocketsApart'
  BY <1>0, <1>1, <1>5, QuietSockets
<1>6. CASE UNCHANGED vars
  BY <1>1, <1>6 DEF vars, sessionvars, tablevars, mainvars, clientvars, Serving
<1> QED
  BY <1>2, <1>3, <1>4, <1>5, <1>6, Steps

\* The server as main starts it.
LEMMA InitEstablishes == Init => PInv
<1> SUFFICES ASSUME Init PROVE PInv
  OBVIOUS
<1> USE DEF Init
<1>0. /\ client_queue = <<>> /\ task_queue = <<>> /\ DOMAIN client_queue = {} /\ DOMAIN task_queue = {}
      /\ Len(client_queue) = 0 /\ Len(task_queue) = 0
      /\ client_queue \in Seq(Fds) /\ task_queue \in Seq(Tasks)
  <2>1. <<>> \in Seq(Fds) /\ <<>> \in Seq(Tasks) /\ Len(<<>>) = 0
    BY EmptySeq
  <2> QED
    BY <2>1
<1>1. Typed
  <2>1. /\ Closed \in 0 .. MaxConns /\ 0 \in 0 .. MaxConns
        /\ 0 <= ClientCapacity /\ 0 <= TaskCapacity
    BY BoundsAssumption DEF Closed
  <2>2. EmptyResponse \in [ready : BOOLEAN, answers : Tasks \cup {NoTask}, data : SUBSET Buffers]
    BY DEF EmptyResponse
  <2> QED
    BY <1>0, <2>1, <2>2 DEF Typed, CPCs, WPCs
<1>2. TableFits
  <2>1. Table!Init
    BY StageOfPlaces DEF TableInit, Table!Init, Table!TableInit, Table!Index, Index, Table!NULL, NULL
  <2>2. Table!IInv
    BY <2>1, TableAssumptions, Table!InitEstablishes
  <2>3. Table!Home
    BY <2>1 DEF Table!Init, Table!TableInit, Table!Home, Table!EveryEntryOwned
  <2>4. TableTypeOK
    BY <2>2, SameTable DEF Table!IInv, Table!TypeOK
  <2> QED
    BY <2>2, <2>3, <2>4 DEF TableFits
<1>3. StopFits /\ RequestsFit /\ WorkersFit
  BY DEF StopFits, RequestsFit, WorkersFit
<1>4. TasksApart /\ TasksOld /\ TasksWaited
  BY <1>0 DEF TasksApart, TasksOld, TasksWaited
<1>5. ResponsesFit
  BY DEF ResponsesFit, EmptyResponse
<1>6. BuffersOwned
  <2>1. Allocated = {}
    BY DEF TableInit, Allocated
  <2>2. InRequests = {} /\ InTasks = {} /\ InData = {} /\ InResponses = {}
    BY <2>1, TaskFields DEF InRequests, InTasks, InData, InResponses
  <2>3. InQueue = {}
    BY <1>0 DEF InQueue
  <2> QED
    BY <2>2, <2>3, Owners DEF BuffersOwned
<1>7. SocketsKept /\ SocketsApart
  BY <1>0 DEF SocketsKept, SocketsApart, Serving
<1> QED
  BY <1>1, <1>2, <1>3, <1>4, <1>5, <1>6, <1>7 DEF PInv

-----------------------------------------------------------------------------
(* Any number of threads, connections and commands *)

\* Every reachable state satisfies the invariant.
THEOREM Invariance == Spec => []PInv
<1>1. PInv /\ [Next]_vars => PInv'
  BY TypedStep, TableStep, StopStep, RequestsStep, WorkersStep, ApartStep, OldStep, WaitedStep,
     ResponsesStep, BuffersStep, KeptStep, ApartSockets DEF PInv
<1> QED
  BY <1>1, InitEstablishes, PTL DEF Spec

\* The variables of the threads, the queues and the table are well typed, and
\* no queue ever holds more than its capacity.
THEOREM TypeCorrect == Spec => []TypeOK
<1>1. PInv => TypeOK
  BY DEF PInv, Typed, TableFits, TypeOK
<1> QED
  BY <1>1, Invariance, PTL

\* A client thread sends the answer to its client's command, never the one
\* before it and never somebody else's.
THEOREM RightAnswers == Spec => []AnswerMatchesRequest
<1>1. PInv => AnswerMatchesRequest
  BY DEF PInv, ResponsesFit, AnswerMatchesRequest
<1> QED
  BY <1>1, Invariance, PTL

\* A worker that fills a response fills that of a session that is there, whose
\* client thread waits for it, and overwrites nothing.
THEOREM SafeDelivery == Spec => []DeliverySafe
<1>1. PInv => DeliverySafe
  <2> SUFFICES ASSUME PInv, NEW w \in Workers, wpc[w] = "set"
               PROVE  /\ task[w].sid \in Allocated
                      /\ ~ response[task[w].sid].ready /\ response[task[w].sid].data = {}
                      /\ \E c \in Clients : request[c] = task[w] /\ cpc[c] \in {"wait", "asleep"}
    BY DEF DeliverySafe
  <2>1. PICK c \in Clients : /\ request[c] = task[w] /\ cpc[c] \in {"wait", "asleep"}
                             /\ ~ response[task[w].sid].ready /\ response[task[w].sid].data = {}
    BY DEF PInv, TasksWaited, Unanswered
  <2>2. SessionsFit
    BY SessionsKnown DEF PInv, StopFits
  <2>3. sid[c] = task[w].sid /\ sid[c] # NULL
    BY <2>1, <2>2 DEF PInv, WorkersFit, RequestsFit, SessionsFit
  <2> QED
    BY <2>1, <2>2, <2>3 DEF SessionsFit
<1> QED
  BY <1>1, Invariance, PTL

\* Every malloc has its free: at every moment the buffers that are allocated
\* are those that a thread, a queued task or a session answers for.
THEOREM NothingLeaks == Spec => []BuffersOwned
<1>1. PInv => BuffersOwned
  BY DEF PInv
<1> QED
  BY <1>1, Invariance, PTL

\* In the first lap nobody closes a connection that a client thread serves.
THEOREM SocketsSafe == Spec => []SocketOwned
<1>1. PInv => SocketOwned
  BY DEF PInv, SocketsApart, SocketOwned, Serving
<1> QED
  BY <1>1, Invariance, PTL

\* In the first lap a worker that answers finds the session.
THEOREM AnswersDelivered == Spec => []NeverDropped
<1>1. PInv => NeverDropped
  <2> SUFFICES ASSUME PInv, FirstLap, NEW w \in Workers, wpc[w] = "lookup"
               PROVE  session_get(task[w].sid)
    BY DEF NeverDropped
  <2>1. PICK c \in Clients : request[c] = task[w] /\ cpc[c] \in {"wait", "asleep"}
    BY DEF PInv, TasksWaited, Unanswered
  <2>2. SessionsFit
    BY SessionsKnown DEF PInv, StopFits
  <2>3. sid[c] = task[w].sid /\ sid[c] # NULL /\ sid[c] \in active
    BY <2>1, <2>2 DEF PInv, WorkersFit, RequestsFit, SessionsFit
  <2> QED
    BY <2>2, <2>3 DEF SessionsFit, session_get
<1> QED
  BY <1>1, Invariance, PTL

\* When main is done no buffer is left, no session and no open connection, also
\* when the search has lost sessions.
THEOREM ShutdownIsClean == Spec => []CleanShutdown
<1>1. PInv => CleanShutdown
  <2> SUFFICES ASSUME PInv, mpc = "done"
               PROVE  heap = {} /\ Allocated = {} /\ \A f \in Fds : sock[f] = Closed
    BY DEF CleanShutdown
  <2>1. /\ Allocated = {} /\ main_fd = -1
        /\ \A c \in Clients : cpc[c] = "exit" /\ client_queue = <<>>
        /\ \A w \in Workers : wpc[w] = "exit"
    BY DEF PInv, StopFits
  <2>2. client_queue = <<>> /\ DOMAIN client_queue = {}
    BY <2>1, ThreadsAssumption
  <2>3. InRequests = {} /\ InQueue = {} /\ InTasks = {} /\ InData = {}
    BY <2>1, ExitedOwners DEF PInv
  <2>4. InResponses = {}
    BY <2>1 DEF InResponses
  <2>5. heap = {}
    BY <2>3, <2>4, Owners DEF PInv, BuffersOwned
  <2>6. \A f \in Fds : sock[f] = Closed
    BY <2>1, <2>2, FdsAssumption DEF PInv, SocketsKept
  <2> QED
    BY <2>1, <2>5, <2>6
<1> QED
  BY <1>1, Invariance, PTL

\* Seen from the session table the whole server follows SessionLifecycle, if no
\* more sessions are created than the table has entries.
THEOREM Lifecycle ==
  ASSUME MaxIds <= MaxSessions
  PROVE  Spec => ImplementsLifecycle
<1>1. Init => Life!Init
  BY StageOfPlaces DEF Init, TableInit, Life!Init, Life!TableInit, Life!Index, Index, Life!NULL, NULL
<1>2. PInv /\ [Next]_vars => [Life!Next]_(Life!lifevars)
  <2> SUFFICES ASSUME PInv, [Next]_vars PROVE [Life!Next]_(Life!lifevars)
    OBVIOUS
  <2>1. CASE mpc # "done" /\ SessionsFit /\
             (MainActs \/ (\E c \in Clients : ClientActs(c)) \/ (\E w \in Workers : WorkerActs(w)))
    <3>1. [Table!Next]_(Table!lifevars)
      BY <2>1, LifeStep DEF PInv
    <3> QED
      BY <3>1, Zenon
      DEF Table!Next, Table!lifevars, Table!tablevars, Table!Create,
          Table!CreateFails, Table!GetSession, Table!GetMisses, Table!MarkInactive,
          Table!Destroy, Table!Exhausted, Table!session_create,
          Table!session_create_fails, Table!session_mark_inactive,
          Table!session_destroy, Table!session_get, Table!Reachable, Table!FindsAt,
          Table!InsertsAt, Table!SlotOf, Table!Index, Table!NULL, Life!Next,
          Life!lifevars, Life!tablevars, Life!Create, Life!CreateFails,
          Life!GetSession, Life!GetMisses, Life!MarkInactive, Life!Destroy,
          Life!Exhausted, Life!session_create, Life!session_create_fails,
          Life!session_mark_inactive, Life!session_destroy, Life!session_get,
          Life!Reachable, Life!FindsAt, Life!InsertsAt, Life!SlotOf, Life!Index,
          Life!NULL
  <2>2. CASE DestroyAll
    <3>1. /\ mpc = "join" /\ \A c \in Clients : cpc[c] = "exit"
          /\ session_manager_destroy /\ UNCHANGED <<cpc, sid>>
      BY <2>2 DEF DestroyAll, clientvars
    <3>2. SessionsFit
      BY <3>1, SessionsKnown DEF PInv
    <3>3. \A c \in Clients : sid[c] = NULL
      BY <3>1, <3>2 DEF SessionsFit
    <3>4. FirstLap
      BY MaxSessionsAssumption DEF FirstLap, PInv, TableFits, TableTypeOK
    <3>5. Table!Home
      BY <3>1, <3>4 DEF PInv, TableFits
    <3>6. \A i \in Index : sessions[i] = NULL
      BY <3>3, <3>5, SameTable DEF Table!Home, Table!EveryEntryOwned
    <3>7. Allocated = {} /\ sessions = [i \in Index |-> NULL]
      BY <3>6 DEF Allocated, PInv, TableFits, TableTypeOK
    <3>8. UNCHANGED tablevars
      BY <3>1, <3>7 DEF session_manager_destroy, tablevars
    <3> QED
      BY <3>1, <3>8 DEF tablevars, Life!lifevars
  <2>3. CASE UNCHANGED vars
    BY <2>3 DEF vars, sessionvars, tablevars, clientvars, Life!lifevars
  <2> QED
    BY <2>1, <2>2, <2>3, Steps
<1> QED
  BY <1>1, <1>2, Invariance, PTL DEF Spec, ImplementsLifecycle, Life!Spec
=============================================================================
