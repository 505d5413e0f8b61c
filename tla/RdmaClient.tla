----------------------------- MODULE RdmaClient -----------------------------
(***************************************************************************)
(* The host's end of the RDMA connection (codes/bask/client_stub.c) and    *)
(* how ksmd drives it (codes/mm/ksm.c ksm_do_scan, codes/mm/ksm_rdma.c).   *)
(*                                                                         *)
(* One word, cb->state, carries everything: ksmd stores in it what it      *)
(* starts, the completion handler and the connection manager's handler     *)
(* store in it what has happened, and ksmd sleeps until it is at least     *)
(* some value and then looks whether it is the value it wanted.  The three *)
(* run concurrently with the adapter and the server:                       *)
(*                                                                         *)
(*   - ksmd connects, and then for each request registers memory, sends a  *)
(*     descriptor, waits for the answer and (mode "BASK") reads the result *)
(*     table, or (mode "STYX") takes the value in the answer;              *)
(*   - ksm_rdma_cq_event_handler runs once per completion event and drains *)
(*     the completion queue;                                               *)
(*   - ksm_rdma_cma_event_handler reports connection events.               *)
(*                                                                         *)
(* The adapter completes the posted work in order.  Small allocations,     *)
(* DMA mappings and the posting of work requests succeed: the queues hold  *)
(* MAX_SEND_WR requests and ksmd has at most a few outstanding.            *)
(***************************************************************************)
EXTENDS Integers, Sequences

CONSTANTS
    Modes,            \* values OFFLOAD_MODE may be given at start-up
    MaxRequests,      \* bound: requests ksmd makes
    MaxLosses,        \* bound: times the server ends (0 or 1)
    RegCount,         \* memory regions registered for the metadata
    MaxTables,        \* bound: MAX_RESULT_TABLE_ENTRIES-sized parts of a result
    MAX_HUGE_ALLOC,   \* buffers of the reserve huge_allocator
    ArmSeesPending    \* arming a queue that is not empty raises an event

ASSUME ClientAssumption ==
    /\ Modes \subseteq {"BASK", "STYX"}
    /\ MaxRequests \in Nat /\ MaxLosses \in 0..1
    /\ RegCount \in Nat \ {0}
    /\ MaxTables \in Nat /\ MAX_HUGE_ALLOC \in Nat
    /\ ArmSeesPending \in BOOLEAN

VARIABLES
    mode,                 \* OFFLOAD_MODE
    state,                \* cb->state
    pc, regs,             \* ksmd: where it is, regions left to register
    req,                  \* requests made so far; the last one is under way
    result_desc,          \* cb->result_desc: the answer received
    tbl, got,             \* parts of the table read; whose result they hold
    pool_used,            \* huge_allocator.used
    hpc, wc,              \* completion handler: where it is, its completion
    sq, rq,               \* work posted: the send queue, receives posted
    cq, armed, event,     \* completion queue, armed, event not yet handled
    qp,                   \* "up", or "dead" after a completion in error
    cm,                   \* what the connection manager is at
    srv, srv_req,         \* server: where it is, the request it has
    srv_log,              \* the request whose result table can be read
    delivered,            \* the SEND at the head of sq is with the server
    losses, handled,      \* history: server ends; last answer handled
    overtaken             \* history: an answer arrived before the completion
                          \* of the SEND it answers

ksmdVars == <<pc, regs, req, tbl, got, pool_used>>
handlerVars == <<hpc, wc, handled>>
adapterVars == <<sq, rq, cq, armed, event, qp, delivered>>
serverVars == <<srv, srv_req, srv_log, losses, overtaken, mode>>
vars == <<state, ksmdVars, result_desc, handlerVars, adapterVars, cm, serverVars>>

-----------------------------------------------------------------------------
(***************************************************************************)
(* enum ksm_rdma_state: the waits compare these numbers                    *)
(***************************************************************************)
KSM_IDLE                == 1
KSM_CONNECT_REQUEST     == 2
KSM_ADDR_RESOLVED       == 3
KSM_ROUTE_RESOLVED      == 4
KSM_CONNECTED           == 5
KSM_MEM_REG_WAIT        == 6
KSM_MEM_REG_COMPLETE    == 7
KSM_RDMA_READ_WAIT      == 8
KSM_RDMA_READ_COMPLETE  == 9
KSM_RDMA_SEND_COMPLETE  == 11
KSM_RDMA_RECV_COMPLETE  == 12
KSM_MR_INVALIDATE_WAIT  == 13
KSM_ERROR               == 15

\* Work requests: a registration, the SEND of a metadata descriptor, the SEND
\* of a single operation (not signaled), a READ of a part of the result table.
Op == {"REG", "SEND", "OP", "READ", "RECV"}
Completion == [op : Op, status : {"ok", "flush", "error"}]
Done(op) == [op |-> op, status |-> "ok"]

NoAnswer == [id |-> 0, tables |-> 0]

-----------------------------------------------------------------------------
(***************************************************************************)
(* Connecting: ksm_rdma_create_connection                                  *)
(***************************************************************************)

\* ksm_cb_setup_client and rdma_resolve_addr.
ksm_cb_setup_client ==
    /\ pc = "start"
    /\ pc' = "bind" /\ state' = KSM_IDLE /\ cm' = "addr"
    /\ UNCHANGED <<regs, req, tbl, got, pool_used, result_desc, handlerVars,
                   adapterVars, serverVars>>

\* The rest of ksm_rdma_bind_client, then ksm_cb_setup_qp, ksm_cb_setup_buffer
\* and the first receive; or the attempt is given up and made again.
ksm_rdma_bind_client ==
    /\ pc = "bind"
    /\ state >= KSM_ROUTE_RESOLVED
    /\ \/ /\ state = KSM_ROUTE_RESOLVED
          /\ pc' = "connect"
          /\ rq' = 1 /\ sq' = <<>> /\ cq' = <<>>
          /\ armed' = TRUE /\ event' = FALSE /\ qp' = "up"
       \/ /\ state # KSM_ROUTE_RESOLVED
          /\ pc' = "start"
          /\ UNCHANGED <<rq, sq, cq, armed, event, qp>>
    /\ UNCHANGED <<state, regs, req, tbl, got, pool_used, result_desc, handlerVars,
                   delivered, cm, serverVars>>

\* ksm_connect_client: rdma_connect, and only then the store to the state.
rdma_connect ==
    /\ pc = "connect"
    /\ pc' = "requested" /\ cm' = "conn"
    /\ UNCHANGED <<state, regs, req, tbl, got, pool_used, result_desc, handlerVars,
                   adapterVars, serverVars>>

StoreConnectRequest ==
    /\ pc = "requested"
    /\ pc' = "establish" /\ state' = KSM_CONNECT_REQUEST
    /\ UNCHANGED <<regs, req, tbl, got, pool_used, result_desc, handlerVars,
                   adapterVars, cm, serverVars>>

ksm_connect_client ==
    /\ pc = "establish"
    /\ state >= KSM_CONNECTED
    /\ \/ state # KSM_ERROR /\ pc' = "idle" /\ UNCHANGED <<rq, cm>>
       \/ state = KSM_ERROR /\ pc' = "start" /\ rq' = 0 /\ cm' = "none"
    /\ UNCHANGED <<state, regs, req, tbl, got, pool_used, result_desc, handlerVars,
                   sq, cq, armed, event, qp, delivered, serverVars>>

-----------------------------------------------------------------------------
(***************************************************************************)
(* ksm_rdma_cma_event_handler                                              *)
(***************************************************************************)
CmEvent(from, to, newState) ==
    /\ cm = from
    /\ cm' = to /\ state' = newState
    /\ UNCHANGED <<ksmdVars, result_desc, handlerVars, adapterVars>>

\* ADDR_RESOLVED: rdma_resolve_route is called; when it fails the handler only
\* wakes ksmd.
AddrResolved ==
    /\ \E to \in {"route", "none"} : CmEvent("addr", to, KSM_ADDR_RESOLVED)
    /\ UNCHANGED serverVars

RouteResolved == CmEvent("route", "none", KSM_ROUTE_RESOLVED) /\ UNCHANGED serverVars

\* ESTABLISHED: the server has accepted, with a receive posted.
Established ==
    /\ CmEvent("conn", "up", KSM_CONNECTED)
    /\ srv = "listening" /\ srv' = "ready"
    /\ UNCHANGED <<srv_req, srv_log, losses, overtaken, mode>>

\* ADDR_ERROR, ROUTE_ERROR, CONNECT_ERROR, UNREACHABLE, REJECTED.
ConnectError ==
    /\ \E from \in {"addr", "route", "conn"} : CmEvent(from, "none", KSM_ERROR)
    /\ UNCHANGED serverVars

\* DISCONNECTED: the server has ended.
Disconnected ==
    /\ srv = "dead"
    /\ CmEvent("up", "none", KSM_ERROR)
    /\ UNCHANGED serverVars

ksm_rdma_cma_event_handler ==
    AddrResolved \/ RouteResolved \/ Established \/ ConnectError \/ Disconnected

-----------------------------------------------------------------------------
(***************************************************************************)
(* ksmd: the offloaded branch of ksm_do_scan, or one single operation      *)
(***************************************************************************)

\* prepare_metadata (ksm_rdma_styx_memcmp, ksm_rdma_styx_hash): a request.
StartRequest ==
    /\ pc = "idle" /\ req < MaxRequests
    /\ pc' = "reg" /\ req' = req + 1
    /\ regs' = IF mode = "BASK" THEN RegCount ELSE 1
    /\ UNCHANGED <<state, tbl, got, pool_used, result_desc, handlerVars,
                   adapterVars, cm, serverVars>>

\* ksm_rdma_reg_mr posts the registration ...
ksm_rdma_reg_mr ==
    /\ pc = "reg"
    /\ pc' = "regpoll" /\ state' = KSM_MEM_REG_WAIT
    /\ sq' = Append(sq, "REG")
    /\ UNCHANGED <<regs, req, tbl, got, pool_used, result_desc, handlerVars,
                   rq, cq, armed, event, qp, delivered, cm, serverVars>>

\* ... and polls the completion queue itself, beside the handler.
RegMrReturns ==
    /\ regs' = regs - 1
    /\ pc' = IF regs > 1 THEN "reg" ELSE IF mode = "BASK" THEN "send" ELSE "op"

PollReg ==
    /\ pc = "regpoll"
    /\ \/ cq = <<>> /\ RegMrReturns /\ UNCHANGED <<state, cq>>
       \/ /\ cq # <<>>
          /\ cq' = Tail(cq)
          /\ \/ Head(cq).status = "flush" /\ UNCHANGED <<state, pc, regs>>
             \/ /\ Head(cq) = Done("REG")
                /\ state' = KSM_MEM_REG_COMPLETE /\ RegMrReturns
             \/ /\ Head(cq).status # "flush" /\ Head(cq) # Done("REG")
                /\ pc' = "stopped" /\ UNCHANGED <<state, regs>>
    /\ UNCHANGED <<req, tbl, got, pool_used, result_desc, handlerVars, sq, rq, armed,
                   event, qp, delivered, cm, serverVars>>

\* ksm_rdma_meta_send.  send_meta_desc only logs a failure.
ksm_rdma_meta_send ==
    /\ pc = "send"
    /\ pc' = "sendwait" /\ sq' = Append(sq, "SEND")
    /\ UNCHANGED <<state, regs, req, tbl, got, pool_used, result_desc, handlerVars, rq,
                   cq, armed, event, qp, delivered, cm, serverVars>>

KsmdGoesOn(from, to) ==
    /\ pc = from /\ pc' = to
    /\ UNCHANGED <<state, regs, req, tbl, got, pool_used, result_desc, handlerVars,
                   adapterVars, cm, serverVars>>

SendWait == state >= KSM_RDMA_SEND_COMPLETE /\ KsmdGoesOn("sendwait", "recvwait")
RecvWait == state >= KSM_RDMA_RECV_COMPLETE /\ KsmdGoesOn("recvwait", "recvcheck")
ReadWait == state >= KSM_RDMA_READ_COMPLETE /\ KsmdGoesOn("readwait", "readcheck")

\* ksm_rdma_result_recv returns NULL: offload_server_status becomes
\* DISCONNECTED and ksmd scans on the host from now on.
ResultFails(from) == KsmdGoesOn(from, "host")

\* ksm_rdma_result_recv, after the wait for the answer.
RecvCheck ==
    \/ /\ pc = "recvcheck" /\ state = KSM_RDMA_RECV_COMPLETE
       /\ pc' = "read" /\ tbl' = 0 /\ got' = <<>>
       /\ UNCHANGED <<state, regs, req, pool_used, result_desc, handlerVars,
                      adapterVars, cm, serverVars>>
    \/ state # KSM_RDMA_RECV_COMPLETE /\ ResultFails("recvcheck")

\* The next part of the result table, into a buffer of the reserve.
ReadInto(newState, to, n) ==
    /\ pool_used' = pool_used + 1
    /\ state' = newState /\ sq' = Append(sq, "READ")
    /\ pc' = to /\ tbl' = n
    /\ UNCHANGED <<regs, req, got, result_desc, handlerVars, rq, cq, armed, event,
                   qp, delivered, cm, serverVars>>

\* Mutant: the reserve is not asked whether it has a buffer left.
ReadTable_NoReserve ==
    /\ pc = "read" /\ tbl < result_desc.tables
    /\ ReadInto(KSM_RDMA_READ_WAIT, "readwait", tbl)

\* Mutant: the reads are posted one after another, and none is waited for.
ReadTable_NoWait ==
    /\ pc = "read" /\ tbl < result_desc.tables
    /\ pool_used < MAX_HUGE_ALLOC
    /\ ReadInto(KSM_RDMA_READ_WAIT, "read", tbl + 1)

ReadTable ==
    /\ pc = "read" /\ tbl < result_desc.tables
    /\ \/ /\ pool_used < MAX_HUGE_ALLOC
          /\ ReadInto(KSM_RDMA_READ_WAIT, "readwait", tbl)
       \/ pool_used = MAX_HUGE_ALLOC /\ ResultFails("read")

\* The part is read: the loop goes on with the next one.
PartRead ==
    /\ pc = "readcheck"
    /\ pc' = "read" /\ tbl' = tbl + 1
    /\ UNCHANGED <<state, regs, req, got, pool_used, result_desc, handlerVars,
                   adapterVars, cm, serverVars>>

ReadCheck ==
    \/ state = KSM_RDMA_READ_COMPLETE /\ PartRead
    \/ state # KSM_RDMA_READ_COMPLETE /\ ResultFails("readcheck")

\* All parts are read: result_desc is cleared and the next receive is posted.
\* Mutant: no receive is posted for an answer without a table.
AllRead_NoReceive ==
    /\ pc = "read" /\ tbl = result_desc.tables
    /\ pc' = "apply" /\ result_desc' = NoAnswer
    /\ rq' = IF result_desc.tables > 0 THEN rq + 1 ELSE rq
    /\ UNCHANGED <<state, regs, req, tbl, got, pool_used, handlerVars, sq, cq, armed,
                   event, qp, delivered, cm, serverVars>>

AllRead ==
    /\ pc = "read" /\ tbl = result_desc.tables
    /\ pc' = "apply" /\ result_desc' = NoAnswer
    /\ rq' = rq + 1
    /\ UNCHANGED <<state, regs, req, tbl, got, pool_used, handlerVars, sq, cq, armed,
                   event, qp, delivered, cm, serverVars>>

\* apply_result, free_result_table, destroy_metadata.
ApplyResult ==
    /\ pc = "apply"
    /\ pc' = "idle" /\ got' = <<>>
    /\ tbl' = 0
    /\ pool_used' = pool_used - tbl
    /\ UNCHANGED <<state, regs, req, result_desc, handlerVars, adapterVars, cm,
                   serverVars>>

\* ksm_rdma_styx_memcmp, ksm_rdma_styx_hash: the SEND, ...
StyxSend ==
    /\ pc = "op"
    /\ pc' = "opwait" /\ state' = KSM_CONNECTED /\ sq' = Append(sq, "OP")
    /\ UNCHANGED <<regs, req, tbl, got, pool_used, result_desc, handlerVars, rq, cq,
                   armed, event, qp, delivered, cm, serverVars>>

\* Mutant: the completion of the registration ends the wait as well.
StyxWait_AnyCompletion == state >= KSM_MEM_REG_COMPLETE /\ KsmdGoesOn("opwait", "opcheck")

StyxWait == state >= KSM_RDMA_RECV_COMPLETE /\ KsmdGoesOn("opwait", "opcheck")

\* ... and the value received; ksm_rdma_invalidate_mr is not signaled.
StyxTake ==
    /\ pc = "optake"
    /\ pc' = "apply" /\ got' = <<result_desc.id>>
    /\ result_desc' = NoAnswer /\ rq' = rq + 1
    /\ state' = KSM_MR_INVALIDATE_WAIT
    /\ UNCHANGED <<regs, req, tbl, pool_used, handlerVars, sq, cq, armed, event, qp,
                   delivered, cm, serverVars>>

\* Mutant: the value is used whatever ended the wait.
StyxResult_AnyState == KsmdGoesOn("opcheck", "optake")

\* debug_stop unless the answer was received.
StyxResult ==
    \/ state = KSM_RDMA_RECV_COMPLETE /\ KsmdGoesOn("opcheck", "optake")
    \/ state # KSM_RDMA_RECV_COMPLETE /\ KsmdGoesOn("opcheck", "opfailed")

ksm_rdma_result_recv ==
    RecvWait \/ RecvCheck \/ ReadTable \/ ReadWait \/ ReadCheck \/ AllRead

ksm_rdma_styx_memcmp == StyxSend \/ StyxWait \/ StyxResult \/ StyxTake

Ksmd ==
    \/ ksm_cb_setup_client \/ ksm_rdma_bind_client \/ rdma_connect
    \/ StoreConnectRequest \/ ksm_connect_client
    \/ StartRequest \/ ksm_rdma_reg_mr \/ PollReg
    \/ ksm_rdma_meta_send \/ SendWait \/ ksm_rdma_result_recv \/ ApplyResult
    \/ ksm_rdma_styx_memcmp

-----------------------------------------------------------------------------
(***************************************************************************)
(* ksm_rdma_cq_event_handler                                               *)
(***************************************************************************)

\* An event: in the ERROR state nothing is done, not even arming the queue.
\* Mutant: the handler does not ask for the next event.
HandlerEnter_NoArm ==
    /\ event /\ hpc = "idle"
    /\ event' = FALSE
    /\ hpc' = IF state = KSM_ERROR THEN "idle" ELSE "poll"
    /\ UNCHANGED <<state, ksmdVars, result_desc, wc, handled, sq, rq, cq, armed, qp,
                   delivered, cm, serverVars>>

HandlerEnter ==
    /\ event /\ hpc = "idle"
    /\ \/ state = KSM_ERROR /\ event' = FALSE /\ UNCHANGED <<hpc, armed>>
       \/ /\ state # KSM_ERROR
          /\ hpc' = "poll"
          /\ event' = (ArmSeesPending /\ cq # <<>>)
          /\ armed' = ~event'
    /\ UNCHANGED <<state, ksmdVars, result_desc, wc, handled, sq, rq, cq, qp,
                   delivered, cm, serverVars>>

\* ib_poll_cq; a flushed completion is passed over.
HandlerPoll ==
    /\ hpc = "poll"
    /\ \/ cq = <<>> /\ hpc' = "idle" /\ UNCHANGED <<wc, cq>>
       \/ /\ cq # <<>>
          /\ cq' = Tail(cq)
          /\ \/ Head(cq).status = "flush" /\ UNCHANGED <<hpc, wc>>
             \/ Head(cq).status # "flush" /\ hpc' = "apply" /\ wc' = Head(cq)
    /\ UNCHANGED <<state, ksmdVars, result_desc, handled, sq, rq, armed, event,
                   qp, delivered, cm, serverVars>>

\* The state for a completion; a registration and an error end the handler.
StateOf(c) ==
    CASE c.status = "error" -> KSM_ERROR
      [] c = Done("REG")    -> KSM_MEM_REG_COMPLETE
      [] c = Done("SEND")   -> KSM_RDMA_SEND_COMPLETE
      [] c = Done("READ")   -> KSM_RDMA_READ_COMPLETE
      [] c = Done("RECV")   -> KSM_RDMA_RECV_COMPLETE

HandlerApply ==
    /\ hpc = "apply"
    /\ state' = StateOf(wc)
    /\ hpc' = IF wc.status = "error" \/ wc = Done("REG") THEN "idle" ELSE "poll"
    /\ handled' = IF wc = Done("RECV") THEN result_desc.id ELSE handled
    /\ UNCHANGED <<ksmdVars, result_desc, wc, adapterVars, cm, serverVars>>

ksm_rdma_cq_event_handler == HandlerEnter \/ HandlerPoll \/ HandlerApply

-----------------------------------------------------------------------------
(***************************************************************************)
(* The adapter and the server                                              *)
(***************************************************************************)
Completes(c) ==
    /\ cq' = Append(cq, c)
    /\ event' = (event \/ armed)
    /\ armed' = FALSE

\* The head of the send queue completes.
SendQueueDone(op) ==
    /\ sq # <<>> /\ Head(sq) = op /\ qp = "up"
    /\ sq' = Tail(sq)
    /\ Completes(Done(op))
    /\ UNCHANGED <<state, pc, regs, req, tbl, pool_used, result_desc, handlerVars, rq,
                   qp, cm, serverVars>>

Registered == SendQueueDone("REG") /\ UNCHANGED <<got, delivered>>

Acked == delivered /\ SendQueueDone("SEND") /\ delivered' = FALSE /\ UNCHANGED got

ReadDone ==
    /\ srv \in {"serving", "answered", "ready"}
    /\ SendQueueDone("READ")
    /\ got' = Append(got, srv_log)
    /\ UNCHANGED delivered

\* The server has ended: the retries of what needs it are exhausted.
RetriesExhausted ==
    /\ qp = "up" /\ srv = "dead"
    /\ sq # <<>> /\ Head(sq) # "REG"
    /\ sq' = Tail(sq) /\ qp' = "dead" /\ delivered' = FALSE
    /\ Completes([op |-> Head(sq), status |-> "error"])
    /\ UNCHANGED <<state, ksmdVars, result_desc, handlerVars, rq, cm, serverVars>>

\* What is still posted is flushed.
Flush ==
    /\ qp = "dead"
    /\ \/ sq # <<>> /\ sq' = Tail(sq) /\ UNCHANGED rq
          /\ Completes([op |-> Head(sq), status |-> "flush"])
       \/ sq = <<>> /\ rq > 0 /\ rq' = rq - 1 /\ UNCHANGED sq
          /\ Completes([op |-> "RECV", status |-> "flush"])
    /\ UNCHANGED <<state, ksmdVars, result_desc, handlerVars, qp, delivered, cm,
                   serverVars>>

Adapter == Registered \/ Acked \/ ReadDone \/ RetriesExhausted \/ Flush

\* The server receives the request.  It drops the previous result table.
ServerRecv ==
    /\ srv = "ready" /\ qp = "up" /\ sq # <<>> /\ ~delivered
    /\ Head(sq) \in {"SEND", "OP"}
    /\ srv' = "serving" /\ srv_req' = req /\ srv_log' = 0
    /\ \/ Head(sq) = "SEND" /\ delivered' = TRUE /\ UNCHANGED sq
       \/ Head(sq) = "OP" /\ sq' = Tail(sq) /\ UNCHANGED delivered
    /\ UNCHANGED <<state, ksmdVars, result_desc, handlerVars, rq, cq, armed, event,
                   qp, cm, losses, overtaken, mode>>

\* It answers, with log_cnt events in its table, into a posted receive.  The
\* receive completes whether or not the SEND of the request has: no order is
\* given between the two.
ServerSend ==
    /\ srv = "serving" /\ qp = "up" /\ rq > 0
    /\ overtaken' = (overtaken \/ delivered)
    /\ \E n \in 0..MaxTables : result_desc' = [id |-> srv_req, tables |-> n]
    /\ srv' = "answered" /\ srv_log' = srv_req
    /\ rq' = rq - 1
    /\ Completes(Done("RECV"))
    /\ UNCHANGED <<state, ksmdVars, handlerVars, sq, qp, delivered, cm,
                   srv_req, losses, mode>>

\* The SEND of the answer has completed: the next receive is posted.
ServerPostRecv ==
    /\ srv = "answered"
    /\ srv' = "ready"
    /\ UNCHANGED <<state, ksmdVars, result_desc, handlerVars, adapterVars, cm,
                   srv_req, srv_log, losses, overtaken, mode>>

\* The server process ends.
ServerEnds ==
    /\ srv \in {"ready", "serving", "answered"} /\ losses < MaxLosses
    /\ srv' = "dead" /\ losses' = losses + 1
    /\ UNCHANGED <<state, ksmdVars, result_desc, handlerVars, adapterVars, cm,
                   srv_req, srv_log, overtaken, mode>>

Server == ServerRecv \/ ServerSend \/ ServerPostRecv

-----------------------------------------------------------------------------
Init ==
    /\ mode \in Modes
    /\ state = KSM_IDLE /\ pc = "start" /\ regs = 0 /\ req = 0
    /\ result_desc = NoAnswer /\ tbl = 0 /\ got = <<>> /\ pool_used = 0
    /\ hpc = "idle" /\ wc = Done("REG")
    /\ sq = <<>> /\ rq = 0 /\ cq = <<>> /\ armed = FALSE /\ event = FALSE
    /\ qp = "dead" /\ cm = "none" /\ delivered = FALSE
    /\ srv = "listening" /\ srv_req = 0 /\ srv_log = 0
    /\ losses = 0 /\ handled = 0 /\ overtaken = FALSE

Next ==
    \/ Ksmd \/ ksm_rdma_cma_event_handler \/ ksm_rdma_cq_event_handler
    \/ Adapter \/ Server \/ ServerEnds

Spec == Init /\ [][Next]_vars

\* Threads, handlers, the adapter and the server do not stop for ever while
\* they can go on.  Whether the server ends is left open.
FairSpec ==
    /\ Spec
    /\ WF_vars(Ksmd) /\ WF_vars(ksm_rdma_cma_event_handler)
    /\ WF_vars(ksm_rdma_cq_event_handler)
    /\ WF_vars(Adapter) /\ WF_vars(Server)

-----------------------------------------------------------------------------
(***************************************************************************)
(* Properties                                                              *)
(***************************************************************************)

\* Types; the reserve of buffers is never overdrawn.
TypeOK ==
    /\ state \in {KSM_IDLE, KSM_CONNECT_REQUEST, KSM_ADDR_RESOLVED,
                  KSM_ROUTE_RESOLVED, KSM_CONNECTED, KSM_MEM_REG_WAIT,
                  KSM_MEM_REG_COMPLETE, KSM_RDMA_READ_WAIT, KSM_RDMA_READ_COMPLETE,
                  KSM_RDMA_SEND_COMPLETE, KSM_RDMA_RECV_COMPLETE,
                  KSM_MR_INVALIDATE_WAIT, KSM_ERROR}
    /\ pc \in {"start", "bind", "connect", "requested", "establish", "idle", "reg",
               "regpoll", "send", "sendwait", "recvwait", "recvcheck", "read",
               "readwait", "readcheck", "apply", "op", "opwait", "opcheck", "optake",
               "host", "opfailed", "stopped"}
    /\ mode \in Modes
    /\ regs \in 0..RegCount /\ req \in 0..MaxRequests
    /\ result_desc \in [id : 0..MaxRequests, tables : 0..MaxTables]
    /\ tbl \in 0..MaxTables /\ got \in Seq(0..MaxRequests)
    /\ pool_used \in 0..MAX_HUGE_ALLOC
    /\ hpc \in {"idle", "poll", "apply"} /\ wc \in Completion
    /\ sq \in Seq(Op) /\ cq \in Seq(Completion) /\ rq \in 0..1
    /\ armed \in BOOLEAN /\ event \in BOOLEAN /\ delivered \in BOOLEAN
    /\ qp \in {"up", "dead"}
    /\ cm \in {"none", "addr", "route", "conn", "up"}
    /\ srv \in {"listening", "ready", "serving", "answered", "dead"}
    /\ srv_req \in 0..MaxRequests /\ srv_log \in 0..MaxRequests
    /\ losses \in 0..MaxLosses /\ handled \in 0..MaxRequests
    /\ overtaken \in BOOLEAN

\* What ksm_rdma_result_recv (or a single operation) returns belongs to the
\* request just made: every part of the table was read, and read before the
\* server dropped it.
ResultIsOfThisRequest ==
    pc = "apply" => /\ \A i \in DOMAIN got : got[i] = req
                    /\ Len(got) = IF mode = "BASK" THEN tbl ELSE 1

\* ksm_rdma_reg_mr polls a queue it shares with the handler and stops ksmd for
\* ever ("unexpected wr_id") when it meets another completion: it never does,
\* unless a SEND's completion came after the answer to it, and was still in the
\* queue when ksmd went on to the next request.
OnlyRegistrationsPolled == pc = "stopped" => overtaken

\* Why ksmd gives offloading up (recv_offload_result returns NULL; a single
\* operation stops): the server ended, the result table needs more buffers than
\* the reserve has, or an answer overtook the completion of its SEND.  No other
\* order of stores by ksmd and the two handlers makes it give up.
GivesUpForCause ==
    pc \in {"host", "opfailed"}
        => losses > 0 \/ pool_used = MAX_HUGE_ALLOC \/ overtaken

\* The client grants the server no RNR retries, so an answer that finds no
\* receive posted breaks the connection: ksmd has always posted one before the
\* server can answer.
AnswerFindsReceive == srv = "serving" /\ qp = "up" => rq = 1

\* An answer that the completion handler has seen is not forgotten while ksmd
\* waits for it: no later store hides KSM_RDMA_RECV_COMPLETE.  This is what
\* ksm_rdma_meta_send relies on when it finds the answer "already received".
AnswerNotLost ==
    pc \in {"sendwait", "recvwait", "opwait"} /\ handled = req
        => state >= KSM_RDMA_RECV_COMPLETE

\* A request is brought to an end: ksmd is back, with a result or, the
\* connection being lost, scanning on the host.  (Overtaken answers have a run
\* of their own.)
RequestEnds ==
    pc \in {"send", "op"} ~> (pc \in {"idle", "host"} \/ overtaken)

\* The same as long as the server is there: no order of completions, events and
\* waits leaves ksmd asleep on a request that is answered, except an answer that
\* overtook the completion of its SEND.
RequestEndsWhileUp ==
    pc \in {"send", "op"} ~> (pc \in {"idle", "host"} \/ losses > 0 \/ overtaken)
=============================================================================
