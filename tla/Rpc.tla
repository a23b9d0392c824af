-------------------------------- MODULE Rpc --------------------------------
(***************************************************************************)
(* The RPC server and its clients (rpc_server.c, rpc_client.c and what     *)
(* they share).  UCX, the transport, is external: a listener that calls    *)
(* back with connection requests while the run thread makes progress, and  *)
(* an ordered byte stream each way per endpoint, which may fail once the   *)
(* peer is gone.  Every message has RPC_BODY_MSG_MAX_CAP bytes, so that a  *)
(* receive, which waits for all of them, takes exactly one message.        *)
(*                                                                         *)
(* rpc_server_deinit joins threads that never end, so a server has no      *)
(* orderly stop to model.  Two things in the code lead to a use of freed   *)
(* memory.  The queue of a server thread is filled under rserver->lock and *)
(* emptied without it, so that it may grow while its thread takes a        *)
(* connection; and the error callback frees a connection that its thread   *)
(* goes on to use.  rpc_raced records the thread that did, and the         *)
(* behaviour ends there.                                                   *)
(***************************************************************************)
EXTENDS Integers, Sequences, FiniteSets

CONSTANTS RpcClients,      \* clients, each with one connection
          RpcThreadNum,    \* worker_num
          RpcMsgNum,       \* messages a client sends
          RpcMaxServed,    \* max_msg_cnt of a connection (1024 in the code)
          RpcQueueCap      \* capacity of a thread's queue once it has one (4 in the code)

ASSUME RpcAssumption ==
  /\ IsFiniteSet(RpcClients) /\ "none" \notin RpcClients
  /\ {RpcThreadNum, RpcMsgNum, RpcMaxServed, RpcQueueCap} \subseteq Nat \ {0}

VARIABLES rpc_run,         \* the run thread: where it is and what it dispatches
          rpc_cnt,         \* rserver->request_cnt
          rpc_dispatch,    \* rserver->dispatch_connection_queue
          rpc_magic,       \* conn->magic of each connection, 0 before it is accepted
          rpc_thread,      \* each server thread: where it is, its connection, messages served
          rpc_queue,       \* thd_request_queue and its capacity
          rpc_sem,         \* the semaphore of each thread
          rpc_cache,       \* connection_cache of each thread
          rpc_handle,      \* is a msg_handle set?
          rpc_conn,        \* each connection: alive, or freed by the error callback
          rpc_client,      \* each client: where it is, messages sent and received
          rpc_up, rpc_down,\* the streams to and from the server
          rpc_served,      \* connections in the order in which threads took them
          rpc_raced        \* threads that used freed memory

rpcVars == <<rpc_run, rpc_cnt, rpc_dispatch, rpc_magic, rpc_thread, rpc_queue, rpc_sem, rpc_cache,
             rpc_handle, rpc_conn, rpc_client, rpc_up, rpc_down, rpc_served, rpc_raced>>
clientVars == <<rpc_client, rpc_up, rpc_down>>

RpcThreads == 0..RpcThreadNum - 1
NoConn == "none"

\* rpc_server_init, rpc_server_thread_init, rpc_server_create_listener
RpcInit ==
  /\ rpc_run = [pc |-> "init", conn |-> NoConn, copy |-> <<>>]
  /\ rpc_cnt = 0 /\ rpc_dispatch = <<>>
  /\ rpc_magic = [c \in RpcClients |-> 0]
  /\ rpc_thread = [t \in RpcThreads |-> [pc |-> "sem", conn |-> NoConn, served |-> 0, gen |-> 0]]
  /\ rpc_queue = [t \in RpcThreads |-> [conns |-> <<>>, cap |-> RpcQueueCap, gen |-> 0]]
  /\ rpc_sem = [t \in RpcThreads |-> 0]
  /\ rpc_cache = [t \in RpcThreads |-> {}]
  /\ rpc_handle = FALSE
  /\ rpc_conn = [c \in RpcClients |-> "alive"]
  /\ rpc_client = [c \in RpcClients |-> [pc |-> "init", sent |-> 0, got |-> <<>>]]
  /\ rpc_up = [c \in RpcClients |-> <<>>] /\ rpc_down = [c \in RpcClients |-> <<>>]
  /\ rpc_served = <<>> /\ rpc_raced = {}

-----------------------------------------------------------------------------
(* The run thread.                                                         *)

\* rpc_server_set_msg_handle, between init and run.
SetMsgHandle ==
  /\ rpc_run.pc = "init" /\ ~rpc_handle
  /\ rpc_handle' = TRUE
  /\ UNCHANGED <<rpc_run, rpc_cnt, rpc_dispatch, rpc_magic, rpc_thread, rpc_queue, rpc_sem,
                 rpc_cache, rpc_conn, clientVars, rpc_served, rpc_raced>>

\* rpc_server_run: with nothing to dispatch the thread makes progress.
RunPoll ==
  /\ rpc_run.pc \in {"init", "loop"} /\ rpc_dispatch = <<>>
  /\ rpc_run' = [rpc_run EXCEPT !.pc = "progress"]
  /\ UNCHANGED <<rpc_cnt, rpc_dispatch, rpc_magic, rpc_thread, rpc_queue, rpc_sem, rpc_cache,
                 rpc_handle, rpc_conn, clientVars, rpc_served, rpc_raced>>

\* rpc_server_create_listener: the listener lives on the worker that the run thread
\* drives, so that connections are taken only while it makes progress.
Listening == rpc_run.pc = "progress"

\* rpc_server_accept_cb, from inside ucp_worker_progress.
AcceptCb(c) ==
  /\ Listening
  /\ rpc_client[c].pc \notin {"init", "unconnected"} /\ rpc_magic[c] = 0
  /\ rpc_cnt' = rpc_cnt + 1
  /\ rpc_magic' = [rpc_magic EXCEPT ![c] = rpc_cnt']
  /\ rpc_dispatch' = Append(rpc_dispatch, c)
  /\ UNCHANGED <<rpc_run, rpc_thread, rpc_queue, rpc_sem, rpc_cache, rpc_handle, rpc_conn,
                 clientVars, rpc_served, rpc_raced>>

\* ucp_worker_wait returns once an event has come.
RunWait ==
  /\ rpc_run.pc = "progress" /\ rpc_dispatch # <<>>
  /\ rpc_run' = [rpc_run EXCEPT !.pc = "loop"]
  /\ UNCHANGED <<rpc_cnt, rpc_dispatch, rpc_magic, rpc_thread, rpc_queue, rpc_sem, rpc_cache,
                 rpc_handle, rpc_conn, clientVars, rpc_served, rpc_raced>>

\* The thread a popped connection goes to: request_cnt has grown once when it
\* was accepted and grows again now.
DispatchTo == (rpc_cnt + 1) % RpcThreadNum

DispatchPopMutant == <<Head(rpc_dispatch), rpc_dispatch>>

\* stl_queue_del_first of the dispatch queue: what it returns and leaves.
DispatchPop == <<Head(rpc_dispatch), Tail(rpc_dispatch)>>

\* rpc_server_run: a connection popped and, the thread's queue having room,
\* handed over at once.
RunDispatch ==
  /\ rpc_run.pc = "loop" /\ rpc_dispatch # <<>>
  /\ LET q == rpc_queue[DispatchTo]
         t == DispatchTo
     IN /\ rpc_dispatch' = DispatchPop[2]
        /\ rpc_cnt' = rpc_cnt + 1
        /\ IF Len(q.conns) < q.cap - 1
           THEN /\ rpc_queue' = [rpc_queue EXCEPT ![t].conns = Append(@, DispatchPop[1])]
                /\ rpc_sem' = [rpc_sem EXCEPT ![t] = @ + 1]
                /\ UNCHANGED rpc_run
           ELSE /\ rpc_run' = [pc |-> "grow", conn |-> DispatchPop[1], copy |-> q.conns]
                /\ UNCHANGED <<rpc_queue, rpc_sem>>
  /\ UNCHANGED <<rpc_magic, rpc_thread, rpc_cache, rpc_handle, rpc_conn, clientVars, rpc_served,
                 rpc_raced>>

\* stl_queue_expand: the copy made when the queue was full replaces the queue,
\* and what the thread took since comes back.
RunGrow ==
  /\ rpc_run.pc = "grow"
  /\ LET t == rpc_cnt % RpcThreadNum
     IN /\ rpc_queue' = [rpc_queue EXCEPT ![t] =
                           [conns |-> Append(rpc_run.copy, rpc_run.conn), cap |-> @.cap * 2,
                            gen |-> @.gen + 1]]
        /\ rpc_sem' = [rpc_sem EXCEPT ![t] = @ + 1]
        /\ rpc_raced' = IF rpc_queue[t].conns # rpc_run.copy THEN rpc_raced \cup {t} ELSE rpc_raced
  /\ rpc_run' = [pc |-> "loop", conn |-> NoConn, copy |-> <<>>]
  /\ UNCHANGED <<rpc_cnt, rpc_dispatch, rpc_magic, rpc_thread, rpc_cache, rpc_handle, rpc_conn,
                 clientVars, rpc_served>>

-----------------------------------------------------------------------------
(* A server thread: rpc_server_thread_func.                                *)

\* sem_wait
ThreadSem(t) ==
  /\ rpc_thread[t].pc = "sem" /\ rpc_sem[t] > 0
  /\ rpc_sem' = [rpc_sem EXCEPT ![t] = @ - 1]
  /\ rpc_thread' = [rpc_thread EXCEPT ![t].pc = "take"]
  /\ UNCHANGED <<rpc_run, rpc_cnt, rpc_dispatch, rpc_magic, rpc_queue, rpc_cache, rpc_handle,
                 rpc_conn, clientVars, rpc_served, rpc_raced>>

\* stl_queue_del_first, which reads the queue's address and first element ...
ThreadRead(t) ==
  /\ rpc_thread[t].pc = "take" /\ rpc_queue[t].conns # <<>>
  /\ rpc_thread' = [rpc_thread EXCEPT ![t].pc = "advance", ![t].conn = Head(rpc_queue[t].conns),
                                      ![t].gen = rpc_queue[t].gen]
  /\ UNCHANGED <<rpc_run, rpc_cnt, rpc_dispatch, rpc_magic, rpc_queue, rpc_sem, rpc_cache,
                 rpc_handle, rpc_conn, clientVars, rpc_served, rpc_raced>>

\* ... and stores the next index, in the old memory when the queue has grown.
ThreadAdvance(t) ==
  /\ rpc_thread[t].pc = "advance"
  /\ LET stale == rpc_thread[t].gen # rpc_queue[t].gen
     IN /\ rpc_queue' = IF stale THEN rpc_queue ELSE [rpc_queue EXCEPT ![t].conns = Tail(@)]
        /\ rpc_raced' = IF stale THEN rpc_raced \cup {t} ELSE rpc_raced
  /\ rpc_thread' = [rpc_thread EXCEPT ![t].pc = "accept"]
  /\ rpc_served' = Append(rpc_served, rpc_thread[t].conn)
  /\ UNCHANGED <<rpc_run, rpc_cnt, rpc_dispatch, rpc_magic, rpc_sem, rpc_cache, rpc_handle,
                 rpc_conn, clientVars>>

\* rpc_init_worker, rpc_create_server_endpoint: where the thread goes with and without
\* an endpoint.
ServerEndpoint == {"recv", "sem"}

\* The connection is cached and gets a worker and an endpoint; without one the thread
\* turns to the next connection and leaves this one in the cache.
ThreadAccept(t) ==
  /\ rpc_thread[t].pc = "accept"
  /\ LET c == rpc_thread[t].conn
     IN /\ rpc_cache' = [rpc_cache EXCEPT ![t] = @ \cup {c}]
        /\ \E pc \in ServerEndpoint :
             rpc_thread' = [rpc_thread EXCEPT ![t].pc = pc, ![t].served = 0]
  /\ UNCHANGED <<rpc_run, rpc_cnt, rpc_dispatch, rpc_magic, rpc_queue, rpc_sem, rpc_handle,
                 rpc_conn, clientVars, rpc_served, rpc_raced>>

\* A thread uses its connection, freed or not.
Touch(t) ==
  rpc_raced' = IF rpc_conn[rpc_thread[t].conn] = "freed" THEN rpc_raced \cup {t} ELSE rpc_raced

\* rpc_server_tcp_err_cb, rpc_server_traverse_cache_handle, rpc_close_endpoint:
\* the endpoint is closed and the connection freed, but it stays in the cache.
ErrCb(c) == [rpc_conn EXCEPT ![c] = "freed"]

\* ucp_worker_progress in rpc_wait_complete: once the peer is gone the callback may run in
\* it, whatever becomes of the request that is waited for.
Progress(c) == rpc_conn' \in {rpc_conn} \cup (IF rpc_client[c].pc = "gone" THEN {ErrCb(c)} ELSE {})

\* tcp_server_recv, rpc_tcp_recv, rpc_wait_complete: one message has come, and with a
\* callback that ran beside it the thread goes on with a connection that is freed.
ThreadRecv(t) ==
  /\ rpc_thread[t].pc = "recv" /\ Touch(t)
  /\ LET c == rpc_thread[t].conn
     IN /\ rpc_up[c] # <<>>
        /\ Progress(c)
        /\ rpc_thread' = [rpc_thread EXCEPT ![t].pc = "send"]
  /\ UNCHANGED <<rpc_run, rpc_cnt, rpc_dispatch, rpc_magic, rpc_queue, rpc_sem, rpc_cache,
                 rpc_handle, clientVars, rpc_served>>

\* What rpc_server_do_response answers: the handler's answer, or the message.
Answer(m) == IF rpc_handle THEN <<"answer", m>> ELSE <<"echo", m>>

\* The loop of rpc_server_thread_func after a message: the next one, or the
\* next connection when this one has had its share.
AfterMessage(t) ==
  rpc_thread' = IF rpc_thread[t].served + 1 < RpcMaxServed
                THEN [rpc_thread EXCEPT ![t].pc = "recv", ![t].served = @ + 1]
                ELSE [rpc_thread EXCEPT ![t].pc = "sem", ![t].served = @ + 1]

\* rpc_server_do_response, rpc_tcp_send
ThreadSend(t) ==
  /\ rpc_thread[t].pc = "send" /\ Touch(t)
  /\ LET c == rpc_thread[t].conn
     IN /\ Progress(c)
        /\ rpc_up' = [rpc_up EXCEPT ![c] = Tail(@)]
        /\ rpc_down' = [rpc_down EXCEPT ![c] = Append(@, Answer(Head(rpc_up[c])))]
  /\ AfterMessage(t)
  /\ UNCHANGED <<rpc_run, rpc_cnt, rpc_dispatch, rpc_magic, rpc_queue, rpc_sem, rpc_cache,
                 rpc_handle, rpc_client, rpc_served>>

\* The peer is gone: a receive fails, which ends the connection, ...
ThreadRecvFails(t) ==
  /\ rpc_thread[t].pc = "recv" /\ Touch(t)
  /\ LET c == rpc_thread[t].conn
     IN /\ rpc_client[c].pc = "gone"
        /\ Progress(c)
        /\ rpc_thread' = [rpc_thread EXCEPT ![t].pc = "sem"]
  /\ UNCHANGED <<rpc_run, rpc_cnt, rpc_dispatch, rpc_magic, rpc_queue, rpc_sem, rpc_cache,
                 rpc_handle, clientVars, rpc_served>>

\* ... or a send, whose failure is not looked at: the thread goes on to receive.
ThreadSendFails(t) ==
  /\ rpc_thread[t].pc = "send" /\ Touch(t)
  /\ LET c == rpc_thread[t].conn
     IN /\ rpc_client[c].pc = "gone"
        /\ Progress(c)
        /\ rpc_up' = [rpc_up EXCEPT ![c] = Tail(@)]
  /\ AfterMessage(t)
  /\ UNCHANGED <<rpc_run, rpc_cnt, rpc_dispatch, rpc_magic, rpc_queue, rpc_sem, rpc_cache,
                 rpc_handle, rpc_client, rpc_down, rpc_served>>

-----------------------------------------------------------------------------
(* A client: rpc_client_thread_func.                                       *)

serverVars == <<rpc_run, rpc_cnt, rpc_dispatch, rpc_magic, rpc_thread, rpc_queue, rpc_sem,
                rpc_cache, rpc_handle, rpc_conn, rpc_served, rpc_raced>>

\* rpc_create_client_endpoint: where the client goes with and without an endpoint.
ClientEndpoint == {"send", "unconnected"}

\* rpc_client_init; without an endpoint the client has nothing to call on.
ClientInit(c) ==
  /\ rpc_client[c].pc = "init"
  /\ \E pc \in ClientEndpoint : rpc_client' = [rpc_client EXCEPT ![c].pc = pc]
  /\ UNCHANGED <<rpc_up, rpc_down, serverVars>>

\* rpc_client_send
ClientSend(c) ==
  /\ rpc_client[c].pc = "send" /\ rpc_client[c].sent < RpcMsgNum
  /\ rpc_client' = [rpc_client EXCEPT ![c].pc = "recv", ![c].sent = @ + 1]
  /\ rpc_up' = [rpc_up EXCEPT ![c] = Append(@, rpc_client[c].sent + 1)]
  /\ UNCHANGED <<rpc_down, serverVars>>

\* rpc_client_recv
ClientRecv(c) ==
  /\ rpc_client[c].pc = "recv" /\ rpc_down[c] # <<>>
  /\ rpc_client' = [rpc_client EXCEPT ![c].pc = "send", ![c].got = Append(@, Head(rpc_down[c]))]
  /\ rpc_down' = [rpc_down EXCEPT ![c] = Tail(@)]
  /\ UNCHANGED <<rpc_up, serverVars>>

\* rpc_client_deinit, after the last answer; a client may also die at any time.
ClientDeinit(c) ==
  /\ rpc_client[c].pc \in {"send", "recv"}
  /\ rpc_client' = [rpc_client EXCEPT ![c].pc = "gone"]
  /\ UNCHANGED <<rpc_up, rpc_down, serverVars>>

RpcNext ==
  /\ rpc_raced = {}
  /\ \/ SetMsgHandle \/ RunPoll \/ RunWait \/ RunDispatch \/ RunGrow
     \/ \E c \in RpcClients :
          AcceptCb(c) \/ ClientInit(c) \/ ClientSend(c) \/ ClientRecv(c) \/ ClientDeinit(c)
     \/ \E t \in RpcThreads :
          \/ ThreadSem(t) \/ ThreadRead(t) \/ ThreadAdvance(t) \/ ThreadAccept(t)
          \/ ThreadRecv(t) \/ ThreadSend(t) \/ ThreadRecvFails(t) \/ ThreadSendFails(t)

RpcSpec == RpcInit /\ [][RpcNext]_rpcVars

-----------------------------------------------------------------------------
\* The places where a connection that was accepted can be.
In(s, c) == {i \in DOMAIN s : s[i] = c}
InDispatch(c) == {<<"dispatch", 0, i>> : i \in In(rpc_dispatch, c)}
InServed(c) == {<<"served", 0, i>> : i \in In(rpc_served, c)}
InQueues(c) == UNION {{<<"queue", t, i>> : i \in In(rpc_queue[t].conns, c)} : t \in RpcThreads}
InHand(c) == {<<"run", 0, i>> : i \in In(<<rpc_run.conn>>, c)}
Places(c) == InDispatch(c) \cup InServed(c) \cup InQueues(c) \cup InHand(c)

\* Every connection accepted waits for dispatch, waits in one thread's queue or
\* has been taken by one thread, and is in one of these places once; a thread's
\* semaphore counts its queue.
DispatchedOnce ==
  rpc_raced = {} =>
    /\ \A c \in RpcClients : Cardinality(Places(c)) = IF rpc_magic[c] = 0 THEN 0 ELSE 1
    /\ \A t \in RpcThreads :
         Len(rpc_queue[t].conns) = rpc_sem[t] + (IF rpc_thread[t].pc \in {"take", "advance"}
                                                 THEN 1 ELSE 0)

\* A client's answers come in the order of its messages, one for each.
AnswersInOrder ==
  rpc_raced = {} =>
    \A c \in RpcClients : LET all == rpc_client[c].got \o rpc_down[c] IN
      /\ Len(all) <= rpc_client[c].sent
      /\ \A i \in DOMAIN all : all[i] = Answer(i)

\* Connections are dispatched once, to one thread, and answered in order, until a
\* thread has used freed memory: a queue that grew under it, a connection whose peer
\* went away under it.
RpcServes == DispatchedOnce /\ AnswersInOrder
=============================================================================
