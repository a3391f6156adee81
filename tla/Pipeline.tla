------------------------------ MODULE Pipeline ------------------------------
(***************************************************************************)
(* The path of a command through the server: the accept loop puts a        *)
(* connection in the client queue; a client thread (client_thread.c) takes *)
(* it, creates a session, and for each command queues a task and waits on  *)
(* the session's response; a worker thread (worker_thread.c) takes the     *)
(* task, does the file operation and delivers the response through the     *)
(* session table (deliver_response).                                       *)
(*                                                                         *)
(* The two queues are used as BoundedQueue shows them to behave: bounded   *)
(* first-in first-out queues that refuse pushes after the shutdown and     *)
(* still hand out what they hold.  The file operation itself is one step   *)
(* here (FileLocks looks inside).  DELETE and LIST take the way of a       *)
(* download: a LIST that succeeds has data to send as a download has, a    *)
(* DELETE has none as a download that fails has none.                      *)
(*                                                                         *)
(* A client thread's cpc:   pop -> create -> get -> auth -> serve (-> recv *)
(*   for the data of an upload) -> reset -> push -> wait (<-> asleep)      *)
(*   -> check -> send -> serve ...                                         *)
(*   and at the end of a session mark -> destroy -> pop, or exit.          *)
(* A worker's wpc: pop -> work (-> read for a download) -> lookup -> set   *)
(*   -> count -> print -> free -> pop ..., exit; stuck when it blocks on   *)
(*   memory that is not its own.                                           *)
(***************************************************************************)
EXTENDS SessionTable, Sequences

CONSTANTS
  Clients, Workers,              \* the two thread pools
  Fds,                           \* file descriptors accept can return
  ClientCapacity, TaskCapacity,  \* of the two queues
  MaxConns,                      \* bound: connections in the whole run
  MaxOps,                        \* bound: commands per connection
  Kinds,                         \* the commands: "upload", "download"
  FreedMutexBlocks               \* may a lock of a freed session block?

ASSUME ThreadsAssumption == IsFiniteSet(Clients) /\ Clients # {}
ASSUME FdsAssumption == Fds \subseteq Nat
ASSUME BoundsAssumption ==
  {ClientCapacity, TaskCapacity, MaxConns, MaxOps} \subseteq Nat

Tasks == [sid : Ids, op : 1 .. MaxOps, kind : Kinds]
NoTask == [sid |-> NULL, op |-> 0, kind |-> "none"]

\* Heap buffers: t.data_buffer of an upload, the data of a response.
Buffers == {"task", "data"} \X Ids \X (1 .. MaxOps)
Closed == 0
Queues == {"client", "task"}

VARIABLES
  client_queue,  \* the descriptors in the client queue
  task_queue,    \* the tasks in the task queue
  shutdown,      \* the queues whose shutdown flag is up
  sock,          \* which connection a descriptor is open on
  accepted,      \* connections accepted so far
  main_fd,       \* cfd of the accept loop: accepted and not yet queued
  mpc,           \* main thread: in the accept loop, joining, done
  socket_fd,     \* of each session
  heap,          \* allocated buffers
  response,      \* the Response of each session
  cpc, sid, fd,  \* client threads: place, session_id, cfd
  conn,          \* the connection a client thread took from the queue
  request,       \* the Task a client thread has built
  wpc, task,     \* workers: place, Task
  data           \* the response data a worker holds

mainvars == <<accepted, main_fd, mpc>>
sessionvars == <<tablevars, socket_fd>>
clientvars == <<cpc, sid, fd, conn, request>>
workervars == <<wpc, task, data>>
vars == <<sessionvars, client_queue, task_queue, shutdown, sock, mainvars,
          heap, response, clientvars, workervars>>

CPCs == {"pop", "create", "get", "auth", "serve", "recv", "reset", "push", "wait",
         "asleep", "check", "send", "mark", "destroy", "exit"}
WPCs == {"pop", "work", "read", "lookup", "set", "count", "print", "free", "exit", "stuck"}

\* What response_init makes of a Response, and the reset before each task.
EmptyResponse == [ready |-> FALSE, answers |-> NoTask, data |-> {}]

TypeOK ==
  /\ TableTypeOK
  /\ client_queue \in Seq(Fds) /\ Len(client_queue) <= ClientCapacity
  /\ task_queue \in Seq(Tasks) /\ Len(task_queue) <= TaskCapacity
  /\ shutdown \subseteq Queues
  /\ sock \in [Fds -> 0 .. MaxConns]
  /\ accepted \in 0 .. MaxConns
  /\ main_fd \in Fds \cup {-1}
  /\ mpc \in {"accept", "join", "done"}
  /\ socket_fd \in [Ids -> Fds \cup {-1}]
  /\ heap \subseteq Buffers
  /\ response \in [Ids -> [ready : BOOLEAN, answers : Tasks \cup {NoTask},
                           data : SUBSET Buffers]]
  /\ cpc \in [Clients -> CPCs]
  /\ sid \in [Clients -> Ids \cup {NULL}]
  /\ fd \in [Clients -> Fds \cup {-1}]
  /\ conn \in [Clients -> 0 .. MaxConns]
  /\ request \in [Clients -> Tasks \cup {NoTask}]
  /\ wpc \in [Workers -> WPCs]
  /\ task \in [Workers -> Tasks \cup {NoTask}]
  /\ data \in [Workers -> SUBSET Buffers]

Init ==
  /\ TableInit
  /\ client_queue = <<>> /\ task_queue = <<>>
  /\ shutdown = {}
  /\ sock = [f \in Fds |-> Closed]
  /\ accepted = 0
  /\ main_fd = -1
  /\ mpc = "accept"
  /\ socket_fd = [i \in Ids |-> -1]
  /\ heap = {}
  /\ response = [i \in Ids |-> EmptyResponse]
  /\ cpc = [c \in Clients |-> "pop"]
  /\ sid = [c \in Clients |-> NULL]
  /\ fd = [c \in Clients |-> -1]
  /\ conn = [c \in Clients |-> 0]
  /\ request = [c \in Clients |-> NoTask]
  /\ wpc = [w \in Workers |-> "pop"]
  /\ task = [w \in Workers |-> NoTask]
  /\ data = [w \in Workers |-> {}]

TaskBuffer(t) == IF t.kind = "upload" THEN {<<"task", t.sid, t.op>>} ELSE {}

ClientAt(c, from, to) == cpc[c] = from /\ cpc' = [cpc EXCEPT ![c] = to]
WorkerAt(w, from, to) == wpc[w] = from /\ wpc' = [wpc EXCEPT ![w] = to]

-----------------------------------------------------------------------------
(* The main thread *)

\* accept returns the lowest descriptor that is free.  Once the handler has
\* begun to signal the queues the listening socket is closed.
Accept(f) ==
  /\ mpc = "accept" /\ shutdown = {} /\ main_fd = -1
  /\ accepted < MaxConns
  /\ sock[f] = Closed /\ \A g \in Fds : g < f => sock[g] # Closed
  /\ accepted' = accepted + 1
  /\ sock' = [sock EXCEPT ![f] = accepted + 1]
  /\ main_fd' = f
  /\ UNCHANGED <<sessionvars, mpc, client_queue, task_queue, shutdown, heap, response,
                 clientvars, workervars>>

\* client_queue_push blocks while the queue is full.
PushConnection ==
  /\ main_fd # -1
  /\ "client" \notin shutdown /\ Len(client_queue) < ClientCapacity
  /\ client_queue' = Append(client_queue, main_fd)
  /\ main_fd' = -1
  /\ UNCHANGED <<sessionvars, task_queue, shutdown, sock, accepted, mpc, heap, response,
                 clientvars, workervars>>

\* ... and returns -1 after the shutdown: "Server busy", close.
RejectConnection ==
  /\ main_fd # -1
  /\ "client" \in shutdown
  /\ sock' = [sock EXCEPT ![main_fd] = Closed]
  /\ main_fd' = -1
  /\ UNCHANGED <<sessionvars, client_queue, task_queue, shutdown, accepted, mpc, heap,
                 response, clientvars, workervars>>

\* The queues are shut down one after the other (BoundedQueue looks inside).
Shutdown(q) ==
  /\ q \notin shutdown
  /\ q = "task" => "client" \in shutdown
  /\ shutdown' = shutdown \cup {q}
  /\ UNCHANGED <<sessionvars, client_queue, task_queue, sock, mainvars, heap,
                 response, clientvars, workervars>>

\* accept fails: the handler has closed the listening socket, or for a
\* reason of its own.  Main then signals the queues too.
LeaveAcceptLoop ==
  /\ mpc = "accept" /\ main_fd = -1
  /\ mpc' = "join"
  /\ UNCHANGED <<sessionvars, client_queue, task_queue, shutdown, sock, accepted,
                 main_fd, heap, response, clientvars, workervars>>

\* All threads have been joined.  session_manager_destroy frees the sessions
\* that are left and closes their descriptors; the queues free their arrays,
\* not what a descriptor or a task in them stands for.
DestroyAll ==
  /\ mpc = "join" /\ shutdown = Queues
  /\ \A c \in Clients : cpc[c] = "exit"
  /\ \A w \in Workers : wpc[w] = "exit"
  /\ mpc' = "done"
  /\ session_manager_destroy
  /\ sock' = [f \in Fds |-> IF \E i \in Allocated : socket_fd[i] = f
                              THEN Closed ELSE sock[f]]
  /\ socket_fd' = [i \in Ids |-> IF i \in Allocated THEN -1 ELSE socket_fd[i]]
  /\ heap' = heap \ UNION {response[i].data : i \in Allocated}
  /\ response' = [i \in Ids |-> IF i \in Allocated THEN EmptyResponse ELSE response[i]]
  /\ UNCHANGED <<client_queue, task_queue, shutdown, accepted, main_fd, clientvars,
                 workervars>>

-----------------------------------------------------------------------------
(* A client thread: the session *)

\* Back to the top of the loop: the variables of its body are gone.
NextClient(c) ==
  /\ sid' = [sid EXCEPT ![c] = NULL]
  /\ fd' = [fd EXCEPT ![c] = -1]
  /\ conn' = [conn EXCEPT ![c] = 0]
  /\ request' = [request EXCEPT ![c] = NoTask]

TakeConnection(c) ==
  /\ client_queue # <<>>
  /\ ClientAt(c, "pop", "create")
  /\ fd' = [fd EXCEPT ![c] = Head(client_queue)]
  /\ conn' = [conn EXCEPT ![c] = sock[Head(client_queue)]]
  /\ client_queue' = Tail(client_queue)
  /\ UNCHANGED <<sessionvars, task_queue, shutdown, sock, mainvars, heap, response,
                 sid, request, workervars>>

\* Variant: the shutdown wins over the connections in the queue.
ClientExitEarly(c) ==
  /\ "client" \in shutdown
  /\ ClientAt(c, "pop", "exit")
  /\ UNCHANGED <<sessionvars, client_queue, task_queue, shutdown, sock, mainvars,
                 heap, response, sid, fd, conn, request, workervars>>

ClientExit(c) ==
  /\ client_queue = <<>> /\ "client" \in shutdown
  /\ ClientAt(c, "pop", "exit")
  /\ UNCHANGED <<sessionvars, client_queue, task_queue, shutdown, sock, mainvars,
                 heap, response, sid, fd, conn, request, workervars>>

CreateSession(c, i) ==
  /\ ClientAt(c, "create", "get")
  /\ next_session_id <= MaxIds
  /\ session_create(i)
  /\ socket_fd' = [socket_fd EXCEPT ![next_session_id] = fd[c]]
  /\ sid' = [sid EXCEPT ![c] = next_session_id]
  /\ UNCHANGED <<client_queue, task_queue, shutdown, sock, mainvars, heap,
                 response, fd, conn, request, workervars>>

\* session_create returns 0: close the connection and take the next one.
CreateFails(c) ==
  /\ ClientAt(c, "create", "pop")
  /\ next_session_id <= MaxIds
  /\ session_create_fails
  /\ sock' = [sock EXCEPT ![fd[c]] = Closed]
  /\ NextClient(c)
  /\ UNCHANGED <<socket_fd, client_queue, task_queue, shutdown, mainvars, heap,
                 response, workervars>>

GetSession(c) ==
  /\ session_get(sid[c])
  /\ ClientAt(c, "get", "auth")
  /\ UNCHANGED <<sessionvars, client_queue, task_queue, shutdown, sock, mainvars,
                 heap, response, sid, fd, conn, request, workervars>>

\* session_get returns NULL: close the connection; session_destroy follows.
GetMisses(c) ==
  /\ ~ session_get(sid[c])
  /\ ClientAt(c, "get", "destroy")
  /\ sock' = [sock EXCEPT ![fd[c]] = Closed]
  /\ UNCHANGED <<sessionvars, client_queue, task_queue, shutdown, mainvars, heap,
                 response, sid, fd, conn, request, workervars>>

Authenticate(c) ==
  /\ ClientAt(c, "auth", "serve")
  /\ UNCHANGED <<sessionvars, client_queue, task_queue, shutdown, sock, mainvars,
                 heap, response, sid, fd, conn, request, workervars>>

\* Variant: the thread closes the connection itself, as after GetMisses.
EndSessionClosing(c) ==
  /\ \/ ClientAt(c, "auth", "mark")
     \/ ClientAt(c, "serve", "mark")
     \/ ClientAt(c, "send", "mark")
  /\ sock' = [sock EXCEPT ![fd[c]] = Closed]
  /\ UNCHANGED <<sessionvars, client_queue, task_queue, shutdown, mainvars,
                 heap, response, sid, fd, conn, request, workervars>>

\* recv has returned nothing, QUIT has come, or a send has failed.
EndSession(c) ==
  /\ \/ ClientAt(c, "auth", "mark")
     \/ ClientAt(c, "serve", "mark")
     \/ ClientAt(c, "send", "mark")
  /\ UNCHANGED <<sessionvars, client_queue, task_queue, shutdown, sock, mainvars,
                 heap, response, sid, fd, conn, request, workervars>>

MarkInactive(c) ==
  /\ ClientAt(c, "mark", "destroy")
  /\ session_mark_inactive(sid[c])
  /\ UNCHANGED <<socket_fd, client_queue, task_queue, shutdown, sock, mainvars, heap,
                 response, sid, fd, conn, request, workervars>>

\* Variant: the thread goes on without destroying the session.
DestroyNot(c) ==
  /\ ClientAt(c, "destroy", "pop")
  /\ NextClient(c)
  /\ UNCHANGED <<sessionvars, client_queue, task_queue, shutdown, sock, mainvars,
                 heap, response, workervars>>

\* session_destroy frees the response data and closes the descriptor the
\* session was created with, if the search finds the session.
DestroySession(c) ==
  /\ ClientAt(c, "destroy", "pop")
  /\ session_destroy(sid[c])
  /\ IF Reachable(sid[c])
       THEN /\ sock' = [sock EXCEPT ![socket_fd[sid[c]]] = Closed]
            /\ socket_fd' = [socket_fd EXCEPT ![sid[c]] = -1]
            /\ heap' = heap \ response[sid[c]].data
            /\ response' = [response EXCEPT ![sid[c]] = EmptyResponse]
       ELSE UNCHANGED <<sock, socket_fd, heap, response>>
  /\ NextClient(c)
  /\ UNCHANGED <<client_queue, task_queue, shutdown, mainvars, workervars>>

-----------------------------------------------------------------------------
(* A client thread: a command *)

\* A command line is read.  An upload gets its buffer and then its data; the
\* others go on to the queue.  What is answered at once (a quota exceeded, a
\* malloc that fails, an invalid command) leaves the state as it is.
Command(c, k) ==
  /\ request[c].op < MaxOps
  /\ ClientAt(c, "serve", IF k = "upload" THEN "recv" ELSE "reset")
  /\ LET t == [sid |-> sid[c], op |-> request[c].op + 1, kind |-> k]
     IN  request' = [request EXCEPT ![c] = t] /\ heap' = heap \cup TaskBuffer(t)
  /\ UNCHANGED <<sessionvars, client_queue, task_queue, shutdown, sock, mainvars,
                 response, sid, fd, conn, workervars>>

\* All of the data is there, behind the line or by recv_full.
ReceiveData(c) ==
  /\ ClientAt(c, "recv", "reset")
  /\ UNCHANGED <<sessionvars, client_queue, task_queue, shutdown, sock, mainvars,
                 heap, response, sid, fd, conn, request, workervars>>

\* recv_full fails, or ends before the data does: answer, free the buffer.
ReceiveFails(c) ==
  /\ ClientAt(c, "recv", "serve")
  /\ heap' = heap \ TaskBuffer(request[c])
  /\ UNCHANGED <<sessionvars, client_queue, task_queue, shutdown, sock, mainvars,
                 response, sid, fd, conn, request, workervars>>

\* Variant: the flag of the previous command stays up.
ResetKeepingReady(c) ==
  /\ ClientAt(c, "reset", "push")
  /\ heap' = heap \ response[sid[c]].data
  /\ response' = [response EXCEPT ![sid[c]].data = {}]
  /\ UNCHANGED <<sessionvars, client_queue, task_queue, shutdown, sock, mainvars,
                 sid, fd, conn, request, workervars>>

ResetResponse(c) ==
  /\ ClientAt(c, "reset", "push")
  /\ heap' = heap \ response[sid[c]].data
  /\ response' = [response EXCEPT ![sid[c]] = EmptyResponse]
  /\ UNCHANGED <<sessionvars, client_queue, task_queue, shutdown, sock, mainvars,
                 sid, fd, conn, request, workervars>>

\* Variant: the task goes into the ring although there is no room.
PushTaskAnyway(c) ==
  /\ "task" \notin shutdown
  /\ ClientAt(c, "push", "wait")
  /\ task_queue' = Append(task_queue, request[c])
  /\ UNCHANGED <<sessionvars, client_queue, shutdown, sock, mainvars, heap, response,
                 sid, fd, conn, request, workervars>>

PushTask(c) ==
  /\ "task" \notin shutdown /\ Len(task_queue) < TaskCapacity
  /\ ClientAt(c, "push", "wait")
  /\ task_queue' = Append(task_queue, request[c])
  /\ UNCHANGED <<sessionvars, client_queue, shutdown, sock, mainvars, heap, response,
                 sid, fd, conn, request, workervars>>

\* Variant: the buffer is forgotten.
PushRefusedLeaking(c) ==
  /\ "task" \in shutdown
  /\ ClientAt(c, "push", "serve")
  /\ UNCHANGED <<sessionvars, client_queue, task_queue, shutdown, sock, mainvars,
                 heap, response, sid, fd, conn, request, workervars>>

\* task_queue_push returns -1: answer "Server busy", free the buffer.
PushRefused(c) ==
  /\ "task" \in shutdown
  /\ ClientAt(c, "push", "serve")
  /\ heap' = heap \ TaskBuffer(request[c])
  /\ UNCHANGED <<sessionvars, client_queue, task_queue, shutdown, sock, mainvars,
                 response, sid, fd, conn, request, workervars>>

\* response_wait: leave when the answer is there, sleep otherwise.
WaitResponse(c) ==
  /\ ClientAt(c, "wait", IF response[sid[c]].ready THEN "check" ELSE "asleep")
  /\ UNCHANGED <<sessionvars, client_queue, task_queue, shutdown, sock, mainvars,
                 heap, response, sid, fd, conn, request, workervars>>

\* Variant: a wakeup is taken for an answer (if in place of while).
WakeupIsAnswer(c) ==
  /\ ClientAt(c, "asleep", "check")
  /\ UNCHANGED <<sessionvars, client_queue, task_queue, shutdown, sock, mainvars,
                 heap, response, sid, fd, conn, request, workervars>>

\* pthread_cond_wait may return without a signal; the loop tests again.
SpuriousWakeup(c) ==
  /\ ClientAt(c, "asleep", "wait")
  /\ UNCHANGED <<sessionvars, client_queue, task_queue, shutdown, sock, mainvars,
                 heap, response, sid, fd, conn, request, workervars>>

\* An inactive session would be destroyed without an answer.
CheckActive(c) ==
  /\ ClientAt(c, "check", IF sid[c] \in active THEN "send" ELSE "destroy")
  /\ UNCHANGED <<sessionvars, client_queue, task_queue, shutdown, sock, mainvars,
                 heap, response, sid, fd, conn, request, workervars>>

\* send_full comes back only when the client has read, or is gone.
SendResponse(c) ==
  /\ ClientAt(c, "send", "serve")
  /\ UNCHANGED <<sessionvars, client_queue, task_queue, shutdown, sock, mainvars,
                 heap, response, sid, fd, conn, request, workervars>>

-----------------------------------------------------------------------------
(* A worker *)

TakeTask(w) ==
  /\ task_queue # <<>>
  /\ WorkerAt(w, "pop", "work")
  /\ task' = [task EXCEPT ![w] = Head(task_queue)]
  /\ task_queue' = Tail(task_queue)
  /\ UNCHANGED <<sessionvars, client_queue, shutdown, sock, mainvars, heap, response,
                 clientvars, data>>


WorkerExit(w) ==
  /\ task_queue = <<>> /\ "task" \in shutdown
  /\ WorkerAt(w, "pop", "exit")
  /\ UNCHANGED <<sessionvars, client_queue, task_queue, shutdown, sock, mainvars,
                 heap, response, clientvars, task, data>>

\* The file operation, but for the reading of a download.
Work(w) ==
  /\ WorkerAt(w, "work", "lookup")
  /\ UNCHANGED <<sessionvars, client_queue, task_queue, shutdown, sock, mainvars,
                 heap, response, clientvars, task, data>>

\* A download that finds the file allocates a buffer of its size ...
AllocateData(w) ==
  /\ task[w].kind = "download"
  /\ WorkerAt(w, "work", "read")
  /\ LET d == {<<"data", task[w].sid, task[w].op>>}
     IN  data' = [data EXCEPT ![w] = d] /\ heap' = heap \cup d
  /\ UNCHANGED <<sessionvars, client_queue, task_queue, shutdown, sock, mainvars,
                 response, clientvars, task>>

\* ... and reads the file into it,
ReadFile(w) ==
  /\ WorkerAt(w, "read", "lookup")
  /\ UNCHANGED <<sessionvars, client_queue, task_queue, shutdown, sock, mainvars,
                 heap, response, clientvars, task, data>>

\* or fails to: free the buffer and answer with an error.
ReadFails(w) ==
  /\ WorkerAt(w, "read", "lookup")
  /\ heap' = heap \ data[w]
  /\ data' = [data EXCEPT ![w] = {}]
  /\ UNCHANGED <<sessionvars, client_queue, task_queue, shutdown, sock, mainvars,
                 response, clientvars, task>>

\* deliver_response finds the session: from here on it uses the pointer.
FindSession(w) ==
  /\ session_get(task[w].sid)
  /\ WorkerAt(w, "lookup", "set")
  /\ UNCHANGED <<sessionvars, client_queue, task_queue, shutdown, sock, mainvars,
                 heap, response, clientvars, task, data>>

\* Variant: the data is forgotten.
DropResponseLeaking(w) ==
  /\ ~ session_get(task[w].sid)
  /\ WorkerAt(w, "lookup", "free")
  /\ data' = [data EXCEPT ![w] = {}]
  /\ UNCHANGED <<sessionvars, client_queue, task_queue, shutdown, sock, mainvars,
                 heap, response, clientvars, task>>

\* deliver_response finds nothing: free the data, drop the response.
DropResponse(w) ==
  /\ ~ session_get(task[w].sid)
  /\ WorkerAt(w, "lookup", "free")
  /\ heap' = heap \ data[w]
  /\ data' = [data EXCEPT ![w] = {}]
  /\ UNCHANGED <<sessionvars, client_queue, task_queue, shutdown, sock, mainvars,
                 response, clientvars, task>>

\* Variant: nobody is signalled.
SetResponseSilently(w) ==
  /\ WorkerAt(w, "set", "count")
  /\ response' = [response EXCEPT ![task[w].sid] =
                    [ready |-> TRUE, answers |-> task[w], data |-> data[w]]]
  /\ data' = [data EXCEPT ![w] = {}]
  /\ UNCHANGED <<sessionvars, client_queue, task_queue, shutdown, sock, mainvars,
                 heap, clientvars, task>>

\* response_set: fill the response and wake the client thread that sleeps.
SetResponse(w) ==
  /\ WorkerAt(w, "set", "count")
  /\ response' = [response EXCEPT ![task[w].sid] =
                    [ready |-> TRUE, answers |-> task[w], data |-> data[w]]]
  /\ data' = [data EXCEPT ![w] = {}]
  /\ cpc' = [c \in Clients |->
               IF sid[c] = task[w].sid /\ cpc[c] = "asleep" THEN "wait" ELSE cpc[c]]
  /\ UNCHANGED <<sessionvars, client_queue, task_queue, shutdown, sock, mainvars,
                 heap, sid, fd, conn, request, task>>

\* session_increment_operations locks a mutex in the session.  If the session
\* has been freed the lock succeeds or blocks, as the bytes happen to be.
CountOperation(w) ==
  /\ \/ WorkerAt(w, "count", "print")
     \/ /\ FreedMutexBlocks /\ task[w].sid \notin Allocated
        /\ WorkerAt(w, "count", "stuck")
  /\ UNCHANGED <<sessionvars, client_queue, task_queue, shutdown, sock, mainvars,
                 heap, response, clientvars, task, data>>

\* printf of session->operations_count.
PrintOperations(w) ==
  /\ WorkerAt(w, "print", "free")
  /\ UNCHANGED <<sessionvars, client_queue, task_queue, shutdown, sock, mainvars,
                 heap, response, clientvars, task, data>>

\* The end of the case: free the data buffer of an upload.
FreeTask(w) ==
  /\ WorkerAt(w, "free", "pop")
  /\ heap' = heap \ TaskBuffer(task[w])
  /\ task' = [task EXCEPT ![w] = NoTask]
  /\ UNCHANGED <<sessionvars, client_queue, task_queue, shutdown, sock, mainvars,
                 response, clientvars, data>>

-----------------------------------------------------------------------------

\* What a client thread does without waiting for its client.
ClientStep(c) ==
  \/ TakeConnection(c) \/ ClientExit(c)
  \/ \E i \in Index : CreateSession(c, i)
  \/ CreateFails(c)
  \/ GetSession(c) \/ GetMisses(c)
  \/ MarkInactive(c) \/ DestroySession(c)
  \/ ResetResponse(c) \/ PushTask(c) \/ PushRefused(c)
  \/ WaitResponse(c) \/ CheckActive(c)

WorkerStep(w) ==
  \/ TakeTask(w) \/ WorkerExit(w)
  \/ Work(w) \/ AllocateData(w) \/ ReadFile(w) \/ ReadFails(w)
  \/ FindSession(w) \/ DropResponse(w)
  \/ SetResponse(w) \/ CountOperation(w) \/ PrintOperations(w)
  \/ FreeTask(w)

\* What main does without waiting for a client.  The handler has the listening
\* socket closed before it signals a queue.
MainStep ==
  \/ PushConnection \/ RejectConnection
  \/ shutdown # {} /\ LeaveAcceptLoop
  \/ mpc = "join" /\ \E q \in Queues : Shutdown(q)
  \/ DestroyAll

Finished ==
  /\ mpc = "done"
  /\ UNCHANGED vars

Next ==
  \/ \E f \in Fds : Accept(f)
  \/ MainStep
  \/ LeaveAcceptLoop
  \/ \E q \in Queues : Shutdown(q)  \* the handler, in any thread
  \/ \E c \in Clients :
       \/ ClientStep(c)
       \/ Authenticate(c) \/ EndSession(c) \/ SpuriousWakeup(c)
       \/ ReceiveData(c) \/ ReceiveFails(c) \/ SendResponse(c)
       \/ \E k \in Kinds : Command(c, k)
  \/ \E w \in Workers : WorkerStep(w)
  \/ Finished

Spec == Init /\ [][Next]_vars

\* The threads run.  Clients need not log in, send commands or data, read what
\* is sent to them or hang up, and nobody has to connect or to stop the server.
FairSpec ==
  /\ Spec
  /\ WF_vars(MainStep)
  /\ \A c \in Clients : WF_vars(ClientStep(c))
  /\ \A w \in Workers : WF_vars(WorkerStep(w))

-----------------------------------------------------------------------------
(* Properties *)

\* The answer a client thread is about to send is the answer to the command
\* its client sent, and not to the one before or to somebody else's.
AnswerMatchesRequest ==
  \A c \in Clients :
    cpc[c] \in {"check", "send"} => response[sid[c]].ready
                                    /\ response[sid[c]].answers = request[c]

\* When a worker fills a response the session is there, its client thread is
\* waiting for this very task, and nothing has been delivered yet: response_set
\* never overwrites data that nobody has freed.
DeliverySafe ==
  \A w \in Workers : wpc[w] = "set" =>
    /\ task[w].sid \in Allocated
    /\ ~ response[task[w].sid].ready /\ response[task[w].sid].data = {}
    /\ \E c \in Clients : request[c] = task[w] /\ cpc[c] \in {"wait", "asleep"}

\* The buffers that client threads, tasks, workers and sessions answer for.
OwnedBuffers ==
  UNION ({TaskBuffer(request[c]) : c \in {d \in Clients : cpc[d] \in {"recv", "reset", "push"}}}
         \cup {TaskBuffer(task_queue[i]) : i \in 1 .. Len(task_queue)}
         \cup {TaskBuffer(task[w]) : w \in Workers}
         \cup {data[w] : w \in Workers}
         \cup {response[i].data : i \in Allocated})

\* Every buffer has an owner that will free it, and nobody still answers for
\* a buffer that has been freed (phase2_report.md: "Every malloc has
\* corresponding free").
BuffersOwned == heap = OwnedBuffers

\* A client thread that serves a connection holds a descriptor that is open
\* on this connection: nobody has closed it under its feet.
SocketOwned ==
  FirstLap => \A c \in Clients :
    cpc[c] \notin {"pop", "exit"} => sock[fd[c]] = conn[c]

\* A worker that answers finds the session: no response is dropped, for the
\* client thread waits for it and keeps its session.
NeverDropped ==
  FirstLap => \A w \in Workers : wpc[w] = "lookup" => session_get(task[w].sid)

\* phase2_report.md: "is_active flag prevents workers from accessing
\* destroyed sessions".  A worker that uses its Session pointer uses a
\* session that has not been freed.
NoUseAfterFree ==
  \A w \in Workers :
    wpc[w] \in {"set", "count", "print"} => task[w].sid \in Allocated

\* phase2_report.md: "Each connection independent, unique routing".  In any lap
\* the descriptor of a client thread with a session is open on its own connection,
\* and where a worker does not find the session (deliver_response: "Session not
\* found or inactive - client disconnected") nobody waits for its answer.
UniqueRouting ==
  /\ \A c \in Clients :
       cpc[c] \notin {"pop", "destroy", "exit"} => sock[fd[c]] = conn[c]
  /\ \A w \in Workers : wpc[w] = "lookup" /\ ~ session_get(task[w].sid) =>
       \A c \in Clients : request[c] = task[w] => cpc[c] \notin {"wait", "asleep"}

\* Two things are known to keep a thread waiting for ever: beyond the first lap
\* a worker may not find the session of a client thread that waits and drop its
\* response, and a worker may block on the mutex of a freed session.
Hampered == ~ FirstLap \/ \E w \in Workers : wpc[w] = "stuck"

\* Short of that, no client thread waits for good for room in the task queue or
\* for a worker (client_thread.c: task_queue_push, response_wait, neither of
\* which has a timeout).  It leaves these places only with an answer or a refusal.
ResponseArrives ==
  \A c \in Clients : []<>(cpc[c] \notin {"push", "wait", "asleep"} \/ Hampered)


\* phase2_report.md: "Robust shutdown: All resources freed".  When main is done
\* no buffer is left, every connection is closed and the session table is empty,
\* also when the search has lost sessions.
CleanShutdown ==
  mpc = "done" => heap = {} /\ Allocated = {} /\ \A f \in Fds : sock[f] = Closed

\* Seen from the session table the client threads follow the lifecycle of
\* SessionLifecycle, which shows the table to be right.  (In the first lap: what
\* session_manager_destroy finds in the table later has no thread any more.)
StageOf(p) ==
  CASE p \in {"pop", "create", "exit"} -> "none"
    [] p = "get" -> "created"
    [] p = "destroy" -> "ending"
    [] OTHER -> "open"
Life == INSTANCE SessionLifecycle
          WITH stage <- [c \in Clients |-> StageOf(cpc[c])]
ImplementsLifecycle == Life!Spec
=============================================================================
