------------------------- MODULE RdmaClient_proofs -------------------------
(***************************************************************************)
(* The safety properties of RdmaClient, for every number of requests,      *)
(* regions, table parts and buffers: what cb->state says is never about an *)
(* earlier request, and no order of the completion handler, the adapter,   *)
(* the server and ksmd mixes up two results.                               *)
(*                                                                         *)
(* One word carries the state of everything, so no property is inductive   *)
(* by itself.  ClientInv follows one request through its life: in each     *)
(* stage it says what is still posted, which completions are on their way  *)
(* and in which order, and hence what the handler can store in cb->state.  *)
(*                                                                         *)
(* ClientInv holds until an answer overtakes the completion of the SEND it *)
(* answers: from then on the handler may store the two in the wrong order. *)
(* The invariant proved is therefore overtaken \/ ClientInv.               *)
(***************************************************************************)
EXTENDS RdmaClient, TLAPS

\* Queues: one element; registrations only; registrations and then x; and then x and y.
Only(q, x) == Len(q) = 1 /\ q[1] = x

Regs(q, r) == \A i \in 1 .. Len(q) : q[i] = r

RegsThen(q, r, x) ==
  /\ Len(q) >= 1 /\ q[Len(q)] = x
  /\ \A i \in 1 .. Len(q) - 1 : q[i] = r

RegsThen2(q, r, x, y) ==
  /\ Len(q) >= 2 /\ q[Len(q) - 1] = x /\ q[Len(q)] = y
  /\ \A i \in 1 .. Len(q) - 2 : q[i] = r

\* What the handler has in hand, if anything.
InHand(c) == hpc = "apply" => wc = c
Quiet == cq = <<>> /\ hpc # "apply"

\* Values of cb->state while the request's own completions are not applied.
Low == {KSM_CONNECTED, KSM_MEM_REG_WAIT, KSM_MEM_REG_COMPLETE, KSM_ERROR}

Connects == {"start", "bind", "connect", "requested", "establish"}
AsksBask == {"sendwait", "recvwait", "recvcheck"}
AsksStyx == {"opwait", "opcheck"}
Asks == AsksBask \cup AsksStyx
Reads == {"read", "readwait", "readcheck"}

\* The server is not at the current request, or is gone.
ServerIdle == srv \in {"ready", "answered", "dead"}

\* TypeOK in three parts.
TypeKsmd ==
  /\ state \in {KSM_IDLE, KSM_CONNECT_REQUEST, KSM_ADDR_RESOLVED,
                KSM_ROUTE_RESOLVED, KSM_CONNECTED, KSM_MEM_REG_WAIT,
                KSM_MEM_REG_COMPLETE, KSM_RDMA_READ_WAIT, KSM_RDMA_READ_COMPLETE,
                KSM_RDMA_SEND_COMPLETE, KSM_RDMA_RECV_COMPLETE,
                KSM_MR_INVALIDATE_WAIT, KSM_ERROR}
  /\ pc \in Connects \cup Asks \cup Reads \cup
            {"idle", "reg", "regpoll", "send", "apply", "op", "optake", "host", "opfailed",
             "stopped"}
  /\ mode \in Modes
  /\ regs \in 0..RegCount /\ req \in 0..MaxRequests
  /\ tbl \in 0..MaxTables /\ pool_used \in 0..MAX_HUGE_ALLOC

TypeQueues ==
  /\ result_desc \in [id : 0..MaxRequests, tables : 0..MaxTables]
  /\ got \in Seq(0..MaxRequests)
  /\ hpc \in {"idle", "poll", "apply"} /\ wc \in Completion
  /\ sq \in Seq(Op) /\ cq \in Seq(Completion) /\ rq \in 0..1
  /\ armed \in BOOLEAN /\ event \in BOOLEAN /\ delivered \in BOOLEAN
  /\ qp \in {"up", "dead"}

TypePeer ==
  /\ cm \in {"none", "addr", "route", "conn", "up"}
  /\ srv \in {"listening", "ready", "serving", "answered", "dead"}
  /\ srv_req \in 0..MaxRequests /\ srv_log \in 0..MaxRequests
  /\ losses \in 0..MaxLosses /\ handled \in 0..MaxRequests
  /\ overtaken \in BOOLEAN

-----------------------------------------------------------------------------
(* The stages of a request.                                                *)

Connecting ==
  /\ pc \in Connects
  /\ sq = <<>> /\ Quiet /\ ~delivered
  /\ req = 0 /\ handled = 0 /\ tbl = 0 /\ pool_used = 0 /\ got = <<>>
  /\ pc \in {"start", "bind"} => rq = 0
  /\ pc \in {"connect", "requested", "establish"} => rq = 1 /\ qp = "up"
  /\ pc \in {"requested", "establish"} => cm \in {"conn", "up", "none"}
  /\ srv \in {"listening", "ready", "dead"}
  /\ cm = "up" => srv \in {"ready", "dead"}
  /\ pc = "establish" => /\ state \in {KSM_CONNECT_REQUEST, KSM_CONNECTED, KSM_ERROR}
                         /\ state = KSM_CONNECTED => cm = "up"

\* Between two requests, and while memory is registered.
Registering ==
  /\ pc \in {"idle", "reg", "regpoll", "send", "op"} /\ qp = "up"
  /\ Regs(sq, "REG") /\ Regs(cq, Done("REG")) /\ InHand(Done("REG"))
  /\ rq = 1 /\ ~delivered /\ ServerIdle
  /\ tbl = 0 /\ pool_used = 0 /\ handled <= req
  /\ pc # "idle" => handled < req
  /\ pc \in {"reg", "regpoll"} => regs >= 1
  /\ pc \in {"regpoll", "send", "op"} => state \in Low
  /\ pc = "send" => mode = "BASK"
  /\ pc = "op" => mode = "STYX"

Asked ==
  /\ pc \in Asks /\ qp = "up"
  /\ pc \in AsksBask <=> mode = "BASK"
  /\ tbl = 0 /\ pool_used = 0

Answered == rq = 0 /\ ServerIdle /\ srv_log = req /\ result_desc.id = req

\* The request is posted, behind registrations; the server may have it.
Unsent ==
  /\ Asked
  /\ RegsThen(sq, "REG", IF mode = "BASK" THEN "SEND" ELSE "OP")
  /\ Regs(cq, Done("REG")) /\ InHand(Done("REG"))
  /\ state \in Low /\ rq = 1 /\ handled < req
  /\ delivered => mode = "BASK" /\ Len(sq) = 1 /\ srv \in {"serving", "dead"} /\ srv_req = req
  /\ ~delivered => ServerIdle

\* The server has it, and its SEND is done (a single operation's is not signaled).
Serving ==
  /\ Asked
  /\ sq = <<>> /\ ~delivered /\ rq = 1 /\ handled < req
  /\ srv \in {"serving", "dead"} /\ srv_req = req
  /\ \/ /\ mode = "BASK" /\ RegsThen(cq, Done("REG"), Done("SEND")) /\ InHand(Done("REG"))
        /\ state \in Low
     \/ /\ mode = "BASK" /\ cq = <<>> /\ hpc = "apply" /\ wc = Done("SEND") /\ state \in Low
     \/ /\ mode = "BASK" /\ Quiet /\ state \in {KSM_RDMA_SEND_COMPLETE, KSM_ERROR}
     \/ /\ mode = "STYX" /\ Regs(cq, Done("REG")) /\ InHand(Done("REG")) /\ state \in Low

\* The answer is in memory, its completion on the way.
Answering ==
  /\ Asked
  /\ sq = <<>> /\ ~delivered /\ handled < req /\ Answered
  /\ \/ /\ mode = "BASK" /\ RegsThen2(cq, Done("REG"), Done("SEND"), Done("RECV"))
        /\ InHand(Done("REG")) /\ state \in Low
     \/ /\ mode = "BASK" /\ Only(cq, Done("RECV")) /\ hpc = "apply" /\ wc = Done("SEND")
        /\ state \in Low
     \/ /\ mode = "BASK" /\ Only(cq, Done("RECV")) /\ hpc # "apply"
        /\ state \in {KSM_RDMA_SEND_COMPLETE, KSM_ERROR}
     \/ /\ mode = "STYX" /\ RegsThen(cq, Done("REG"), Done("RECV")) /\ InHand(Done("REG"))
        /\ state \in Low
     \/ /\ cq = <<>> /\ hpc = "apply" /\ wc = Done("RECV")
        /\ state \in Low \cup {KSM_RDMA_SEND_COMPLETE}

\* The handler has stored it.
AnswerIn ==
  /\ Asked
  /\ sq = <<>> /\ ~delivered /\ handled = req /\ Answered /\ Quiet
  /\ state \in {KSM_RDMA_RECV_COMPLETE, KSM_ERROR}

\* A part of the table is posted, completed, in the handler's hand, or read.
Part ==
  \/ /\ Only(sq, "READ") /\ Quiet /\ Len(got) = tbl
     /\ state \in {KSM_RDMA_READ_WAIT, KSM_ERROR}
  \/ /\ sq = <<>> /\ Only(cq, Done("READ")) /\ hpc # "apply" /\ Len(got) = tbl + 1
     /\ state \in {KSM_RDMA_READ_WAIT, KSM_ERROR}
  \/ /\ sq = <<>> /\ cq = <<>> /\ hpc = "apply" /\ wc = Done("READ") /\ Len(got) = tbl + 1
     /\ state \in {KSM_RDMA_READ_WAIT, KSM_ERROR}
  \/ /\ sq = <<>> /\ Quiet /\ Len(got) = tbl + 1
     /\ state \in {KSM_RDMA_READ_COMPLETE, KSM_ERROR}

Reading ==
  /\ pc \in Reads /\ qp = "up" /\ mode = "BASK"
  /\ ~delivered /\ handled <= req /\ Answered
  /\ \A i \in DOMAIN got : got[i] = req
  /\ \/ /\ pc = "read" /\ sq = <<>> /\ Quiet
        /\ Len(got) = tbl /\ pool_used = tbl /\ tbl <= result_desc.tables
     \/ /\ pc # "read" /\ Part
        /\ pool_used = tbl + 1 /\ tbl < result_desc.tables

\* A single operation's answer was found received and is about to be taken.
Taking ==
  /\ pc = "optake" /\ qp = "up" /\ mode = "STYX" /\ tbl = 0 /\ pool_used = 0
  /\ sq = <<>> /\ ~delivered /\ handled = req /\ Answered /\ Quiet

Applying ==
  /\ pc = "apply" /\ qp = "up"
  /\ sq = <<>> /\ Quiet /\ rq = 1 /\ ~delivered /\ ServerIdle
  /\ pool_used = tbl /\ handled <= req
  /\ ResultIsOfThisRequest

\* The server is gone and so is the queue pair: nothing of the request completes
\* any more, so cb->state never says that it did.
Broken ==
  /\ qp = "dead" /\ srv = "dead"
  /\ pc \in Asks \cup {"readwait", "readcheck"}
  /\ \A i \in 1 .. Len(cq) : cq[i].status = "ok" => cq[i] = Done("REG")
  /\ hpc = "apply" => (wc.status = "ok" => wc = Done("REG"))
  /\ state \in Low \cup {KSM_RDMA_READ_WAIT}
  /\ pc \in Asks => handled < req

GivenUp ==
  /\ pc \in {"host", "opfailed"}
  /\ \/ srv = "dead"
     \/ /\ srv \in {"ready", "answered"} /\ pool_used = MAX_HUGE_ALLOC
        /\ qp = "up" /\ sq = <<>> /\ Quiet

Stage ==
  \/ Connecting \/ Registering
  \/ Unsent \/ Serving \/ Answering \/ AnswerIn \/ Taking \/ Reading \/ Applying
  \/ Broken \/ GivenUp

\* In every stage: what ends a wait early is the loss of the server, and no
\* completion is one that the handler does not know.
Always ==
  /\ losses > 0 <=> srv = "dead"
  /\ pc \notin Connects => /\ cm \in {"up", "none"}
                           /\ state = KSM_ERROR => losses > 0
  /\ pc = "recvwait" => losses > 0 \/ state >= KSM_RDMA_SEND_COMPLETE
  /\ pc \in {"recvcheck", "opcheck"} => losses > 0 \/ state = KSM_RDMA_RECV_COMPLETE
  /\ pc = "readcheck" => losses > 0 \/ state = KSM_RDMA_READ_COMPLETE
  /\ \A i \in 1 .. Len(cq) : cq[i] # Done("OP")
  /\ hpc = "apply" => wc.status # "flush" /\ wc # Done("OP")

ClientInv == TypeKsmd /\ TypeQueues /\ TypePeer /\ Always /\ Stage

USE DEF KSM_IDLE, KSM_CONNECT_REQUEST, KSM_ADDR_RESOLVED, KSM_ROUTE_RESOLVED, KSM_CONNECTED,
        KSM_MEM_REG_WAIT, KSM_MEM_REG_COMPLETE, KSM_RDMA_READ_WAIT, KSM_RDMA_READ_COMPLETE,
        KSM_RDMA_SEND_COMPLETE, KSM_RDMA_RECV_COMPLETE, KSM_MR_INVALIDATE_WAIT, KSM_ERROR

-----------------------------------------------------------------------------
(* Queues.                                                                 *)

\* An empty queue.
LEMMA EmptyQueue ==
  ASSUME NEW S, NEW q \in Seq(S)
  PROVE  q = <<>> <=> Len(q) = 0
OBVIOUS

\* What Tail does to a queue.
LEMMA TailOfQueue ==
  ASSUME NEW S, NEW q \in Seq(S), q # <<>>
  PROVE  /\ Tail(q) \in Seq(S) /\ Len(Tail(q)) = Len(q) - 1 /\ Len(q) \in Nat \ {0}
         /\ Head(q) = q[1] /\ \A i \in 1 .. Len(q) - 1 : Tail(q)[i] = q[i + 1]
OBVIOUS

\* Taking from and adding to a queue of registrations.
LEMMA RegsQueue ==
  ASSUME NEW S, NEW q \in Seq(S), NEW r \in S, NEW x \in S, Regs(q, r)
  PROVE  /\ q # <<>> => Head(q) = r /\ Regs(Tail(q), r)
         /\ Regs(Append(q, r), r)
         /\ RegsThen(Append(q, x), r, x)
<1>1. q # <<>> => Head(q) = r /\ Regs(Tail(q), r)
  BY DEF Regs
<1>2. Regs(Append(q, r), r)
  BY DEF Regs
<1>3. RegsThen(Append(q, x), r, x)
  BY DEF Regs, RegsThen
<1>4. QED
  BY <1>1, <1>2, <1>3

\* The same with one more completion, ...
LEMMA RegsThenQueue ==
  ASSUME NEW S, NEW q \in Seq(S), NEW r \in S, NEW x \in S, NEW y \in S, RegsThen(q, r, x)
  PROVE  /\ q # <<>>
         /\ Len(q) = 1 => Head(q) = x /\ Tail(q) = <<>>
         /\ Len(q) # 1 => Head(q) = r /\ RegsThen(Tail(q), r, x)
         /\ RegsThen2(Append(q, y), r, x, y)
<1>1. q # <<>> /\ (Len(q) = 1 => Head(q) = x /\ Tail(q) = <<>>)
  BY DEF RegsThen
<1>2. ASSUME Len(q) # 1 PROVE Head(q) = r /\ RegsThen(Tail(q), r, x)
  <2>0. /\ Len(Tail(q)) = Len(q) - 1 /\ Len(q) \in Nat \ {0}
        /\ Head(q) = q[1] /\ \A i \in 1 .. Len(q) - 1 : Tail(q)[i] = q[i + 1]
    BY <1>1, TailOfQueue
  <2>1. Len(q) >= 2 /\ Head(q) = r
    BY <1>2, <2>0 DEF RegsThen
  <2>2. Tail(q)[Len(q) - 1] = x
    BY <2>0, <2>1 DEF RegsThen
  <2>3. \A i \in 1 .. Len(q) - 2 : Tail(q)[i] = r
    BY <2>0, <2>1 DEF RegsThen
  <2>4. QED
    BY <2>0, <2>1, <2>2, <2>3 DEF RegsThen
<1>3. RegsThen2(Append(q, y), r, x, y)
  BY DEF RegsThen, RegsThen2
<1>4. QED
  BY <1>1, <1>2, <1>3

\* ... and with two.
LEMMA RegsThen2Queue ==
  ASSUME NEW S, NEW q \in Seq(S), NEW r \in S, NEW x \in S, NEW y \in S, RegsThen2(q, r, x, y)
  PROVE  /\ q # <<>>
         /\ Len(q) = 2 => Head(q) = x /\ Only(Tail(q), y)
         /\ Len(q) # 2 => Head(q) = r /\ RegsThen2(Tail(q), r, x, y)
<1>1. q # <<>> /\ Len(q) >= 2
  BY DEF RegsThen2
<1>2. /\ Len(Tail(q)) = Len(q) - 1 /\ Len(q) \in Nat \ {0}
      /\ Head(q) = q[1] /\ \A i \in 1 .. Len(q) - 1 : Tail(q)[i] = q[i + 1]
  BY <1>1, TailOfQueue
<1>3. ASSUME Len(q) = 2 PROVE Head(q) = x /\ Only(Tail(q), y)
  BY <1>2, <1>3 DEF RegsThen2, Only
<1>4. ASSUME Len(q) # 2 PROVE Head(q) = r /\ RegsThen2(Tail(q), r, x, y)
  <2>1. Len(q) >= 3 /\ Head(q) = r
    BY <1>1, <1>2, <1>4 DEF RegsThen2
  <2>2. Tail(q)[Len(q) - 1] = y /\ Tail(q)[Len(q) - 2] = x
    BY <1>2, <2>1 DEF RegsThen2
  <2>3. \A i \in 1 .. Len(q) - 3 : Tail(q)[i] = r
    BY <1>2, <2>1 DEF RegsThen2
  <2>4. QED
    BY <1>2, <2>1, <2>2, <2>3 DEF RegsThen2
<1>5. QED
  BY <1>1, <1>3, <1>4

\* A queue of one element.
LEMMA OnlyQueue ==
  ASSUME NEW S, NEW x \in S
  PROVE  /\ \A q \in Seq(S) : Only(q, x) => q # <<>> /\ Head(q) = x /\ Tail(q) = <<>>
         /\ Only(Append(<<>>, x), x)
<1>1. ASSUME NEW q \in Seq(S), Only(q, x) PROVE q # <<>> /\ Head(q) = x /\ Tail(q) = <<>>
  <2>1. Len(q) = 1
    BY <1>1 DEF Only
  <2>2. q # <<>>
    BY <2>1
  <2>3. Head(q) = x
    BY <1>1, <2>2 DEF Only
  <2>4. Tail(q) \in Seq(S) /\ Len(Tail(q)) = 0
    BY <2>1, <2>2, TailOfQueue
  <2>5. Tail(q) = <<>>
    BY <2>4, EmptyQueue
  <2>6. QED
    BY <2>2, <2>3, <2>5
<1>2. Only(Append(<<>>, x), x)
  <2>1. <<>> \in Seq(S) /\ Len(<<>>) = 0
    OBVIOUS
  <2>2. Len(Append(<<>>, x)) = 1 /\ Append(<<>>, x)[1] = x
    BY <2>1
  <2>3. QED
    BY <2>2 DEF Only
<1>3. QED
  BY <1>1, <1>2

\* The completions that occur.
LEMMA Completions ==
  /\ \A op \in Op : Done(op) \in Completion /\ Done(op).status = "ok" /\ Done(op).op = op
  /\ \A op \in Op : [op |-> op, status |-> "error"] \in Completion
  /\ \A op \in Op : [op |-> op, status |-> "flush"] \in Completion
  /\ {"REG", "SEND", "OP", "READ", "RECV"} \subseteq Op
BY DEF Completion, Done, Op

\* Which stages a place in ksmd's code belongs to.
LEMMA StageOfPc ==
  ASSUME Stage
  PROVE  /\ pc \in Connects => Connecting
         /\ pc \in {"idle", "reg", "regpoll", "send", "op"} => Registering
         /\ pc \in Asks => Unsent \/ Serving \/ Answering \/ AnswerIn \/ Broken
         /\ pc = "read" => Reading
         /\ pc \in {"readwait", "readcheck"} => Reading \/ Broken
         /\ pc = "apply" => Applying
         /\ pc = "optake" => Taking
         /\ pc \in {"host", "opfailed"} => GivenUp
         /\ pc # "stopped"
BY DEF Stage, Connecting, Registering, Unsent, Serving, Answering, AnswerIn, Reading, Applying, Taking,
       Broken, GivenUp, Asked, Connects, Asks, AsksBask, AsksStyx, Reads

-----------------------------------------------------------------------------
(* Connecting.                                                             *)

\* ksm_cb_setup_client.
LEMMA SetupKeeps ==
  ASSUME ClientInv, ksm_cb_setup_client
  PROVE  ClientInv'
<1> USE ClientAssumption DEF ksm_cb_setup_client, ksmdVars, handlerVars, adapterVars, serverVars
<1>0. TypeKsmd /\ TypeQueues /\ TypePeer /\ Always /\ Stage
  BY DEF ClientInv
<1>ksmd. TypeKsmd'
  BY <1>0 DEF TypeKsmd, Connects, Asks, AsksBask, AsksStyx, Reads
<1>queues. TypeQueues'
  BY <1>0 DEF TypeQueues
<1>peer. TypePeer'
  BY <1>0 DEF TypePeer
<1>always. Always'
  BY <1>0 DEF TypeKsmd, Always, Connects, Asks, AsksBask, AsksStyx, Reads
<1>stage. Stage'
  BY <1>0, StageOfPc DEF Stage, Connecting, Quiet, Connects
<1>qed. QED
  BY <1>ksmd, <1>queues, <1>peer, <1>always, <1>stage DEF ClientInv

\* ksm_rdma_bind_client.
LEMMA BindKeeps ==
  ASSUME ClientInv, ksm_rdma_bind_client
  PROVE  ClientInv'
<1> USE ClientAssumption DEF ksm_rdma_bind_client, ksmdVars, handlerVars, adapterVars, serverVars
<1>0. TypeKsmd /\ TypeQueues /\ TypePeer /\ Always /\ Stage
  BY DEF ClientInv
<1>con. Connecting
  BY <1>0, StageOfPc DEF Connects
<1>ksmd. TypeKsmd'
  BY <1>0 DEF TypeKsmd, Connects, Asks, AsksBask, AsksStyx, Reads
<1>queues. TypeQueues'
  <2>1. <<>> \in Seq(Op) /\ <<>> \in Seq(Completion)
    OBVIOUS
  <2>2. sq' \in Seq(Op) /\ cq' \in Seq(Completion)
    BY <1>0, <2>1 DEF TypeQueues
  <2>3. armed' \in BOOLEAN /\ event' \in BOOLEAN
    BY <1>0 DEF TypeQueues
  <2>4. rq' \in 0..1 /\ qp' \in {"up", "dead"}
    BY <1>0 DEF TypeQueues
  <2>5. QED
    BY <1>0, <2>2, <2>3, <2>4 DEF TypeQueues
<1>peer. TypePeer'
  BY <1>0 DEF TypePeer
<1>always. Always'
  BY <1>0, <1>con DEF Always, Connecting, Quiet, Connects
<1>stage. Stage'
  BY <1>con DEF Stage, Connecting, Quiet, Connects
<1>qed. QED
  BY <1>ksmd, <1>queues, <1>peer, <1>always, <1>stage DEF ClientInv

\* rdma_connect.
LEMMA ConnectKeeps ==
  ASSUME ClientInv, rdma_connect
  PROVE  ClientInv'
<1> USE ClientAssumption DEF rdma_connect, ksmdVars, handlerVars, adapterVars, serverVars
<1>0. TypeKsmd /\ TypeQueues /\ TypePeer /\ Always /\ Stage
  BY DEF ClientInv
<1>ksmd. TypeKsmd'
  BY <1>0 DEF TypeKsmd, Connects, Asks, AsksBask, AsksStyx, Reads
<1>queues. TypeQueues'
  BY <1>0 DEF TypeQueues
<1>peer. TypePeer'
  BY <1>0 DEF TypePeer
<1>always. Always'
  BY <1>0 DEF TypeKsmd, Always, Connects, Asks, AsksBask, AsksStyx, Reads
<1>stage. Stage'
  BY <1>0, StageOfPc DEF Stage, Connecting, Quiet, Connects
<1>qed. QED
  BY <1>ksmd, <1>queues, <1>peer, <1>always, <1>stage DEF ClientInv

\* StoreConnectRequest.
LEMMA StoreKeeps ==
  ASSUME ClientInv, StoreConnectRequest
  PROVE  ClientInv'
<1> USE ClientAssumption DEF StoreConnectRequest, ksmdVars, handlerVars, adapterVars, serverVars
<1>0. TypeKsmd /\ TypeQueues /\ TypePeer /\ Always /\ Stage
  BY DEF ClientInv
<1>ksmd. TypeKsmd'
  BY <1>0 DEF TypeKsmd, Connects, Asks, AsksBask, AsksStyx, Reads
<1>queues. TypeQueues'
  BY <1>0 DEF TypeQueues
<1>peer. TypePeer'
  BY <1>0 DEF TypePeer
<1>always. Always'
  BY <1>0 DEF TypeKsmd, Always, Connects, Asks, AsksBask, AsksStyx, Reads
<1>stage. Stage'
  BY <1>0, StageOfPc DEF Stage, Connecting, Quiet, Connects
<1>qed. QED
  BY <1>ksmd, <1>queues, <1>peer, <1>always, <1>stage DEF ClientInv

\* ksm_connect_client: a connection that is up is ready for the first request.
LEMMA EstablishKeeps ==
  ASSUME ClientInv, ksm_connect_client
  PROVE  ClientInv'
<1> USE ClientAssumption DEF ksm_connect_client, ksmdVars, handlerVars, adapterVars, serverVars
<1>0. TypeKsmd /\ TypeQueues /\ TypePeer /\ Always /\ Stage
  BY DEF ClientInv
<1>con. Connecting
  BY <1>0, StageOfPc DEF Connects
<1>ksmd. TypeKsmd'
  BY <1>0 DEF TypeKsmd, Connects, Asks, AsksBask, AsksStyx, Reads
<1>queues. TypeQueues'
  BY <1>0 DEF TypeQueues
<1>peer. TypePeer'
  BY <1>0 DEF TypePeer
<1>always. Always'
  BY <1>0, <1>con DEF Always, TypeKsmd, Connecting, Quiet, Connects
<1>stage. Stage'
  <2>1. CASE pc' = "start"
    BY <1>con, <2>1 DEF Stage, Connecting, Quiet, Connects
  <2>2. CASE pc' = "idle"
    BY <1>con, <2>2 DEF Stage, Connecting, Registering, ServerIdle, Quiet, Connects, InHand, Regs
  <2>3. QED
    BY <2>1, <2>2
<1>qed. QED
  BY <1>ksmd, <1>queues, <1>peer, <1>always, <1>stage DEF ClientInv

\* The connection manager: before the connection is up it stores what ksmd
\* waits for; afterwards only the error, when the server is gone.
LEMMA CmKeeps ==
  ASSUME ClientInv, ksm_rdma_cma_event_handler
  PROVE  ClientInv'
<1> USE ClientAssumption
  DEF ksm_rdma_cma_event_handler, AddrResolved, RouteResolved, Established, ConnectError,
      Disconnected, CmEvent, ksmdVars, handlerVars, adapterVars, serverVars
<1>0. TypeKsmd /\ TypeQueues /\ TypePeer /\ Always /\ Stage
  BY DEF ClientInv
<1>ksmd. TypeKsmd'
  BY <1>0 DEF TypeKsmd, Connects, Asks, AsksBask, AsksStyx, Reads
<1>queues. TypeQueues'
  BY <1>0 DEF TypeQueues
<1>peer. TypePeer'
  BY <1>0 DEF TypePeer
<1>always. Always'
  BY <1>0 DEF TypeKsmd, Always, Connects, Asks, AsksBask, AsksStyx, Reads
<1>stage. Stage'
  <2>1. CASE pc \in Connects
    BY <1>0, <2>1, StageOfPc DEF Stage, Connecting, Quiet, Connects
  <2>2. CASE pc \notin Connects
    <3>1. state' = KSM_ERROR /\ srv = "dead" /\ srv' = srv
      BY <1>0, <2>2 DEF Always
    <3>2. QED
      BY <1>0, <2>2, <3>1
      DEF Stage, Connecting, Registering, Asked, Answered, Unsent, Serving, Answering,
         AnswerIn, Part, Reading, Applying, Taking, ResultIsOfThisRequest, Broken, GivenUp, Low,
         ServerIdle, Quiet, InHand
  <2>3. QED
    BY <2>1, <2>2
<1>qed. QED
  BY <1>ksmd, <1>queues, <1>peer, <1>always, <1>stage DEF ClientInv

-----------------------------------------------------------------------------
(* ksmd.                                                                   *)

\* StartRequest: the answer handled last is of an earlier request.
LEMMA StartRequestKeeps ==
  ASSUME ClientInv, StartRequest
  PROVE  ClientInv'
<1> USE ClientAssumption DEF StartRequest, ksmdVars, handlerVars, adapterVars, serverVars
<1>0. TypeKsmd /\ TypeQueues /\ TypePeer /\ Always /\ Stage
  BY DEF ClientInv
<1>ksmd. TypeKsmd'
  BY <1>0 DEF TypeKsmd, Connects, Asks, AsksBask, AsksStyx, Reads
<1>queues. TypeQueues'
  BY <1>0 DEF TypeQueues
<1>peer. TypePeer'
  BY <1>0 DEF TypePeer
<1>always. Always'
  BY <1>0 DEF TypeKsmd, Always, Connects, Asks, AsksBask, AsksStyx, Reads
<1>stage. Stage'
  <2>1. Registering
    BY <1>0, StageOfPc
  <2>2. Registering'
    BY <1>0, <2>1 DEF TypeKsmd, TypePeer, Registering, ServerIdle, InHand
  <2>3. QED
    BY <2>2 DEF Stage
<1>qed. QED
  BY <1>ksmd, <1>queues, <1>peer, <1>always, <1>stage DEF ClientInv

\* ksm_rdma_reg_mr.
LEMMA RegMrKeeps ==
  ASSUME ClientInv, ksm_rdma_reg_mr
  PROVE  ClientInv'
<1> USE ClientAssumption DEF ksm_rdma_reg_mr, ksmdVars, handlerVars, adapterVars, serverVars
<1>0. TypeKsmd /\ TypeQueues /\ TypePeer /\ Always /\ Stage
  BY DEF ClientInv
<1>ksmd. TypeKsmd'
  BY <1>0 DEF TypeKsmd, Connects, Asks, AsksBask, AsksStyx, Reads
<1>queues. TypeQueues'
  <2>1. Append(sq, "REG") \in Seq(Op)
    BY <1>0, Completions DEF TypeQueues
  <2>2. QED
    BY <1>0, <2>1 DEF TypeQueues
<1>peer. TypePeer'
  BY <1>0 DEF TypePeer
<1>always. Always'
  BY <1>0 DEF TypeKsmd, Always, Connects, Asks, AsksBask, AsksStyx, Reads
<1>stage. Stage'
  <2>1. Registering
    BY <1>0, StageOfPc
  <2>2. Regs(sq', "REG")
    BY <1>0, <2>1, RegsQueue, Completions DEF TypeQueues, Registering
  <2>3. Registering'
    BY <2>1, <2>2 DEF Registering, ServerIdle, InHand, Low
  <2>4. QED
    BY <2>3 DEF Stage
<1>qed. QED
  BY <1>ksmd, <1>queues, <1>peer, <1>always, <1>stage DEF ClientInv

\* PollReg: only registrations are in the queue.
LEMMA PollRegKeeps ==
  ASSUME ClientInv, PollReg
  PROVE  ClientInv'
<1> USE ClientAssumption DEF PollReg, RegMrReturns, ksmdVars, handlerVars, adapterVars, serverVars
<1>0. TypeKsmd /\ TypeQueues /\ TypePeer /\ Always /\ Stage
  BY DEF ClientInv
<1>reg. Registering
  BY <1>0, StageOfPc
<1>head. cq # <<>> => Head(cq) = Done("REG") /\ Head(cq).status = "ok" /\ Regs(Tail(cq), Done("REG"))
  BY <1>0, <1>reg, RegsQueue, Completions DEF TypeQueues, Registering
<1>ksmd. TypeKsmd'
  BY <1>0, <1>reg, <1>head DEF TypeKsmd, Registering, Connects, Asks, AsksBask, AsksStyx, Reads
<1>queues. TypeQueues'
  <2>1. cq' \in Seq(Completion)
    <3>1. CASE cq = <<>>
      BY <1>0, <3>1 DEF TypeQueues
    <3>2. CASE cq # <<>>
      <4>1. cq \in Seq(Completion)
        BY <1>0 DEF TypeQueues
      <4>2. Tail(cq) \in Seq(Completion)
        BY <3>2, <4>1, TailOfQueue
      <4>3. QED
        BY <3>2, <4>2
    <3>3. QED
      BY <3>1, <3>2
  <2>2. QED
    BY <1>0, <2>1 DEF TypeQueues
<1>peer. TypePeer'
  BY <1>0 DEF TypePeer
<1>always. Always'
  <2>1. \A i \in 1 .. Len(cq') : cq'[i] # Done("OP")
    <3>1. Regs(cq', Done("REG"))
      BY <1>0, <1>head, <1>reg DEF Registering
    <3>2. QED
      BY <3>1 DEF Regs, Done
  <2>2. QED
    BY <1>0, <1>head, <2>1 DEF TypeKsmd, Always, Connects, Asks, AsksBask, AsksStyx, Reads
<1>stage. Stage'
  <2>1. Regs(cq', Done("REG"))
    BY <1>0, <1>head, <1>reg DEF Registering
  <2>2. Registering'
    BY <1>0, <1>head, <1>reg, <2>1 DEF TypeKsmd, Registering, ServerIdle, InHand, Low
  <2>3. QED
    BY <2>2 DEF Stage
<1>qed. QED
  BY <1>ksmd, <1>queues, <1>peer, <1>always, <1>stage DEF ClientInv

\* ksm_rdma_meta_send.
LEMMA MetaSendKeeps ==
  ASSUME ClientInv, ksm_rdma_meta_send
  PROVE  ClientInv'
<1> USE ClientAssumption DEF ksm_rdma_meta_send, ksmdVars, handlerVars, adapterVars, serverVars
<1>0. TypeKsmd /\ TypeQueues /\ TypePeer /\ Always /\ Stage
  BY DEF ClientInv
<1>ksmd. TypeKsmd'
  BY <1>0 DEF TypeKsmd, Connects, Asks, AsksBask, AsksStyx, Reads
<1>queues. TypeQueues'
  <2>1. Append(sq, "SEND") \in Seq(Op)
    BY <1>0, Completions DEF TypeQueues
  <2>2. QED
    BY <1>0, <2>1 DEF TypeQueues
<1>peer. TypePeer'
  BY <1>0 DEF TypePeer
<1>always. Always'
  BY <1>0 DEF TypeKsmd, Always, Connects, Asks, AsksBask, AsksStyx, Reads
<1>stage. Stage'
  <2>1. Registering
    BY <1>0, StageOfPc
  <2>2. RegsThen(sq', "REG", "SEND")
    BY <1>0, <2>1, RegsQueue, Completions DEF TypeQueues, Registering
  <2>3. Unsent'
    BY <2>1, <2>2 DEF Registering, ServerIdle, InHand, Low, Unsent, Asked, Asks, AsksBask
  <2>4. QED
    BY <2>3 DEF Stage
<1>qed. QED
  BY <1>ksmd, <1>queues, <1>peer, <1>always, <1>stage DEF ClientInv

\* StyxSend.
LEMMA StyxSendKeeps ==
  ASSUME ClientInv, StyxSend
  PROVE  ClientInv'
<1> USE ClientAssumption DEF StyxSend, ksmdVars, handlerVars, adapterVars, serverVars
<1>0. TypeKsmd /\ TypeQueues /\ TypePeer /\ Always /\ Stage
  BY DEF ClientInv
<1>ksmd. TypeKsmd'
  BY <1>0 DEF TypeKsmd, Connects, Asks, AsksBask, AsksStyx, Reads
<1>queues. TypeQueues'
  <2>1. Append(sq, "OP") \in Seq(Op)
    BY <1>0, Completions DEF TypeQueues
  <2>2. QED
    BY <1>0, <2>1 DEF TypeQueues
<1>peer. TypePeer'
  BY <1>0 DEF TypePeer
<1>always. Always'
  BY <1>0 DEF TypeKsmd, Always, Connects, Asks, AsksBask, AsksStyx, Reads
<1>stage. Stage'
  <2>1. Registering
    BY <1>0, StageOfPc
  <2>2. RegsThen(sq', "REG", "OP")
    BY <1>0, <2>1, RegsQueue, Completions DEF TypeQueues, Registering
  <2>3. Unsent'
    BY <2>1, <2>2
    DEF Registering, ServerIdle, InHand, Low, Unsent, Asked, Asks, AsksStyx, AsksBask
  <2>4. QED
    BY <2>3 DEF Stage
<1>qed. QED
  BY <1>ksmd, <1>queues, <1>peer, <1>always, <1>stage DEF ClientInv

\* SendWait.
LEMMA SendWaitKeeps ==
  ASSUME ClientInv, SendWait
  PROVE  ClientInv'
<1> USE ClientAssumption DEF SendWait, KsmdGoesOn, ksmdVars, handlerVars, adapterVars, serverVars
<1>0. TypeKsmd /\ TypeQueues /\ TypePeer /\ Always /\ Stage
  BY DEF ClientInv
<1>ksmd. TypeKsmd'
  BY <1>0 DEF TypeKsmd, Connects, Asks, AsksBask, AsksStyx, Reads
<1>queues. TypeQueues'
  BY <1>0 DEF TypeQueues
<1>peer. TypePeer'
  BY <1>0 DEF TypePeer
<1>always. Always'
  BY <1>0 DEF TypeKsmd, Always, Connects, Asks, AsksBask, AsksStyx, Reads
<1>stage. Stage'
  <2>1. Unsent \/ Serving \/ Answering \/ AnswerIn \/ Broken
    BY <1>0, StageOfPc DEF Asks, AsksBask, AsksStyx
  <2>2. Unsent' \/ Serving' \/ Answering' \/ AnswerIn' \/ Broken'
    BY <2>1
    DEF Unsent, Serving, Answering, AnswerIn, Broken, Asked, Answered, Asks, AsksBask,
        AsksStyx, ServerIdle, InHand, Quiet, Low
  <2>3. QED
    BY <2>2 DEF Stage
<1>qed. QED
  BY <1>ksmd, <1>queues, <1>peer, <1>always, <1>stage DEF ClientInv

\* RecvWait: a state past RECV_COMPLETE is the loss of the server.
LEMMA RecvWaitKeeps ==
  ASSUME ClientInv, RecvWait
  PROVE  ClientInv'
<1> USE ClientAssumption DEF RecvWait, KsmdGoesOn, ksmdVars, handlerVars, adapterVars, serverVars
<1>0. TypeKsmd /\ TypeQueues /\ TypePeer /\ Always /\ Stage
  BY DEF ClientInv
<1>ksmd. TypeKsmd'
  BY <1>0 DEF TypeKsmd, Connects, Asks, AsksBask, AsksStyx, Reads
<1>queues. TypeQueues'
  BY <1>0 DEF TypeQueues
<1>peer. TypePeer'
  BY <1>0 DEF TypePeer
<1>always. Always'
  <2>1. Unsent \/ Serving \/ Answering \/ AnswerIn \/ Broken
    BY <1>0, StageOfPc DEF Asks, AsksBask, AsksStyx
  <2>2. state \in {KSM_RDMA_RECV_COMPLETE, KSM_ERROR}
    BY <2>1
    DEF Unsent, Serving, Answering, AnswerIn, Broken, Asked, Answered, Asks, AsksBask,
        AsksStyx, ServerIdle, InHand, Quiet, Low
  <2>3. QED
    BY <1>0, <2>2 DEF TypeKsmd, Always, Connects, Asks, AsksBask, AsksStyx, Reads
<1>stage. Stage'
  <2>1. Unsent \/ Serving \/ Answering \/ AnswerIn \/ Broken
    BY <1>0, StageOfPc DEF Asks, AsksBask, AsksStyx
  <2>2. Unsent' \/ Serving' \/ Answering' \/ AnswerIn' \/ Broken'
    BY <2>1
    DEF Unsent, Serving, Answering, AnswerIn, Broken, Asked, Answered, Asks, AsksBask,
        AsksStyx, ServerIdle, InHand, Quiet, Low
  <2>3. QED
    BY <2>2 DEF Stage
<1>qed. QED
  BY <1>ksmd, <1>queues, <1>peer, <1>always, <1>stage DEF ClientInv

\* StyxWait: likewise.
LEMMA StyxWaitKeeps ==
  ASSUME ClientInv, StyxWait
  PROVE  ClientInv'
<1> USE ClientAssumption DEF StyxWait, KsmdGoesOn, ksmdVars, handlerVars, adapterVars, serverVars
<1>0. TypeKsmd /\ TypeQueues /\ TypePeer /\ Always /\ Stage
  BY DEF ClientInv
<1>ksmd. TypeKsmd'
  BY <1>0 DEF TypeKsmd, Connects, Asks, AsksBask, AsksStyx, Reads
<1>queues. TypeQueues'
  BY <1>0 DEF TypeQueues
<1>peer. TypePeer'
  BY <1>0 DEF TypePeer
<1>always. Always'
  <2>1. Unsent \/ Serving \/ Answering \/ AnswerIn \/ Broken
    BY <1>0, StageOfPc DEF Asks, AsksBask, AsksStyx
  <2>2. state \in {KSM_RDMA_RECV_COMPLETE, KSM_ERROR}
    BY <2>1
    DEF Unsent, Serving, Answering, AnswerIn, Broken, Asked, Answered, Asks, AsksBask,
        AsksStyx, ServerIdle, InHand, Quiet, Low
  <2>3. QED
    BY <1>0, <2>2 DEF TypeKsmd, Always, Connects, Asks, AsksBask, AsksStyx, Reads
<1>stage. Stage'
  <2>1. Unsent \/ Serving \/ Answering \/ AnswerIn \/ Broken
    BY <1>0, StageOfPc DEF Asks, AsksBask, AsksStyx
  <2>2. Unsent' \/ Serving' \/ Answering' \/ AnswerIn' \/ Broken'
    BY <2>1
    DEF Unsent, Serving, Answering, AnswerIn, Broken, Asked, Answered, Asks, AsksBask,
        AsksStyx, ServerIdle, InHand, Quiet, Low
  <2>3. QED
    BY <2>2 DEF Stage
<1>qed. QED
  BY <1>ksmd, <1>queues, <1>peer, <1>always, <1>stage DEF ClientInv

\* RecvCheck: the answer is in, or the server is lost.
LEMMA RecvCheckKeeps ==
  ASSUME ClientInv, RecvCheck
  PROVE  ClientInv'
<1> USE ClientAssumption
  DEF RecvCheck, ResultFails, KsmdGoesOn, ksmdVars, handlerVars, adapterVars, serverVars
<1>0. TypeKsmd /\ TypeQueues /\ TypePeer /\ Always /\ Stage
  BY DEF ClientInv
<1>in. Unsent \/ Serving \/ Answering \/ AnswerIn \/ Broken
  BY <1>0, StageOfPc DEF Asks, AsksBask, AsksStyx
<1>two. \/ pc' = "read" /\ tbl' = 0 /\ got' = <<>>
        \/ pc' = "host" /\ tbl' = tbl /\ got' = got
  OBVIOUS
<1>same. UNCHANGED <<state, mode, regs, req, pool_used>>
  OBVIOUS
<1>ksmd. TypeKsmd'
  <2> HIDE DEF RecvCheck, ResultFails, KsmdGoesOn
  <2>1. tbl' \in 0..MaxTables
    BY <1>0, <1>two DEF TypeKsmd
  <2>2. pc' \in Reads \cup {"host"}
    BY <1>two DEF Reads
  <2>3. QED
    BY <1>0, <1>same, <2>1, <2>2 DEF TypeKsmd
<1>queues. TypeQueues'
  <2>1. got' \in Seq(0..MaxRequests)
    <3>1. <<>> \in Seq(0..MaxRequests)
      OBVIOUS
    <3>2. QED
      BY <1>0, <1>two, <3>1 DEF TypeQueues
  <2>2. QED
    BY <1>0, <2>1 DEF TypeQueues
<1>peer. TypePeer'
  BY <1>0 DEF TypePeer
<1>always. Always'
  BY <1>0 DEF TypeKsmd, Always, Connects, Asks, AsksBask, AsksStyx, Reads
<1>stage. Stage'
  <2>1. CASE state = KSM_RDMA_RECV_COMPLETE
    <3>1. AnswerIn
      BY <1>in, <2>1
      DEF Unsent, Serving, Answering, AnswerIn, Broken, Asked, Answered, Asks, AsksBask,
          AsksStyx, ServerIdle, InHand, Quiet, Low
    <3>2. got' = <<>> /\ Len(got') = 0 /\ pc' = "read" /\ tbl' = 0
      BY <2>1
    <3>3. Reading'
      BY <1>0, <3>1, <3>2, <2>1
      DEF TypeQueues, AnswerIn, Asked, Answered, Quiet, Reading, Reads, ServerIdle,
          AsksBask
    <3>4. QED
      BY <3>3 DEF Stage
  <2>2. CASE state # KSM_RDMA_RECV_COMPLETE
    <3>1. srv = "dead" /\ pc' = "host" /\ srv' = srv
      BY <1>0, <2>2 DEF Always
    <3>2. QED
      BY <3>1 DEF Stage, GivenUp
  <2>3. QED
    BY <2>1, <2>2
<1>qed. QED
  BY <1>ksmd, <1>queues, <1>peer, <1>always, <1>stage DEF ClientInv

\* ReadTable: nothing is on its way when a part is asked for, so only its own
\* completion ends the wait.
LEMMA ReadTableKeeps ==
  ASSUME ClientInv, ReadTable
  PROVE  ClientInv'
<1> USE ClientAssumption
  DEF ReadTable, ReadInto, ResultFails, KsmdGoesOn, ksmdVars, handlerVars, adapterVars,
      serverVars
<1>0. TypeKsmd /\ TypeQueues /\ TypePeer /\ Always /\ Stage
  BY DEF ClientInv
<1>read. Reading /\ sq = <<>> /\ Quiet
  BY <1>0, StageOfPc DEF Reading, Part
<1>num. /\ pool_used \in 0..MAX_HUGE_ALLOC /\ tbl \in 0..MaxTables
        /\ result_desc.tables \in 0..MaxTables
  BY <1>0 DEF TypeKsmd, TypeQueues
<1>ksmd. TypeKsmd'
  <2>1. pool_used' \in 0..MAX_HUGE_ALLOC /\ tbl' \in 0..MaxTables
    BY <1>num
  <2>2. pc' \in {"readwait", "host"} /\ state' \in {state, KSM_RDMA_READ_WAIT}
    OBVIOUS
  <2>3. QED
    BY <1>0, <2>1, <2>2 DEF TypeKsmd, Connects, Asks, AsksBask, AsksStyx, Reads
<1>queues. TypeQueues'
  <2>1. sq' \in Seq(Op)
    <3>1. Append(sq, "READ") \in Seq(Op)
      BY <1>0, Completions DEF TypeQueues
    <3>2. QED
      BY <1>0, <3>1 DEF TypeQueues
  <2>2. QED
    BY <1>0, <2>1 DEF TypeQueues
<1>peer. TypePeer'
  BY <1>0 DEF TypePeer
<1>always. Always'
  BY <1>0 DEF TypeKsmd, Always, Connects, Asks, AsksBask, AsksStyx, Reads
<1>stage. Stage'
  <2>1. CASE pc' = "readwait"
    <3>1. Only(sq', "READ")
      BY <1>read, <2>1, OnlyQueue, Completions
    <3>2. Part'
      BY <1>0, <1>read, <2>1, <3>1 DEF Part, Quiet, Reading
    <3>3. Reading'
      BY <1>0, <1>read, <1>num, <2>1, <3>2 DEF Reading, Reads, Answered, ServerIdle
    <3>4. QED
      BY <3>3 DEF Stage
  <2>2. CASE pc' = "host"
    BY <1>0, <1>read, <1>num, <2>2 DEF Stage, GivenUp, Reading, Answered, ServerIdle, Quiet
  <2>3. QED
    BY <2>1, <2>2
<1>qed. QED
  BY <1>ksmd, <1>queues, <1>peer, <1>always, <1>stage DEF ClientInv

\* ReadWait.
LEMMA ReadWaitKeeps ==
  ASSUME ClientInv, ReadWait
  PROVE  ClientInv'
<1> USE ClientAssumption DEF ReadWait, KsmdGoesOn, ksmdVars, handlerVars, adapterVars, serverVars
<1>0. TypeKsmd /\ TypeQueues /\ TypePeer /\ Always /\ Stage
  BY DEF ClientInv
<1>ksmd. TypeKsmd'
  BY <1>0 DEF TypeKsmd, Connects, Asks, AsksBask, AsksStyx, Reads
<1>queues. TypeQueues'
  BY <1>0 DEF TypeQueues
<1>peer. TypePeer'
  BY <1>0 DEF TypePeer
<1>always. Always'
  <2>1. Reading \/ Broken
    BY <1>0, StageOfPc
  <2>2. state \in {KSM_RDMA_READ_COMPLETE, KSM_ERROR}
    BY <2>1 DEF Reading, Part, Broken, Low
  <2>3. QED
    BY <1>0, <2>2 DEF TypeKsmd, Always, Connects, Asks, AsksBask, AsksStyx, Reads
<1>stage. Stage'
  <2>1. Reading \/ Broken
    BY <1>0, StageOfPc
  <2>2. Reading' \/ Broken'
    BY <2>1
    DEF Reading, Broken, Part, Answered, ServerIdle, Quiet, Reads, Asks, AsksBask,
        AsksStyx
  <2>3. QED
    BY <2>2 DEF Stage
<1>qed. QED
  BY <1>ksmd, <1>queues, <1>peer, <1>always, <1>stage DEF ClientInv

\* ReadCheck: the part is in, or the server is lost.
LEMMA ReadCheckKeeps ==
  ASSUME ClientInv, ReadCheck
  PROVE  ClientInv'
<1> USE ClientAssumption
  DEF ReadCheck, PartRead, ResultFails, KsmdGoesOn, ksmdVars, handlerVars, adapterVars,
      serverVars
<1>0. TypeKsmd /\ TypeQueues /\ TypePeer /\ Always /\ Stage
  BY DEF ClientInv
<1>num. pool_used \in Nat /\ tbl \in Nat /\ result_desc.tables \in 0..MaxTables
  BY <1>0 DEF TypeKsmd, TypeQueues
<1>read. Reading \/ Broken
  BY <1>0, StageOfPc
<1>in. state = KSM_RDMA_READ_COMPLETE =>
         /\ Reading /\ sq = <<>> /\ Quiet /\ Len(got) = tbl + 1
         /\ pool_used = tbl + 1 /\ tbl < result_desc.tables
  BY <1>read DEF Reading, Part, Broken, Low
<1>ksmd. TypeKsmd'
  <2>1. tbl' \in 0..MaxTables
    BY <1>0, <1>num, <1>in DEF TypeKsmd
  <2>2. pc' \in {"read", "host"}
    OBVIOUS
  <2>3. QED
    BY <1>0, <2>1, <2>2 DEF TypeKsmd, Connects, Asks, AsksBask, AsksStyx, Reads
<1>queues. TypeQueues'
  BY <1>0 DEF TypeQueues
<1>peer. TypePeer'
  BY <1>0 DEF TypePeer
<1>always. Always'
  BY <1>0 DEF TypeKsmd, Always, Connects, Asks, AsksBask, AsksStyx, Reads
<1>stage. Stage'
  <2>1. CASE state = KSM_RDMA_READ_COMPLETE
    <3>1. Reading'
      BY <1>in, <1>num, <2>1 DEF Reading, Reads, Answered, ServerIdle, Quiet
    <3>2. QED
      BY <3>1 DEF Stage
  <2>2. CASE state # KSM_RDMA_READ_COMPLETE
    <3>1. srv = "dead" /\ pc' = "host" /\ srv' = srv
      BY <1>0, <2>2 DEF Always
    <3>2. QED
      BY <3>1 DEF Stage, GivenUp
  <2>3. QED
    BY <2>1, <2>2
<1>qed. QED
  BY <1>ksmd, <1>queues, <1>peer, <1>always, <1>stage DEF ClientInv

\* AllRead: every part was read from the table of this request.
LEMMA AllReadKeeps ==
  ASSUME ClientInv, AllRead
  PROVE  ClientInv'
<1> USE ClientAssumption DEF AllRead, NoAnswer, ksmdVars, handlerVars, adapterVars, serverVars
<1>0. TypeKsmd /\ TypeQueues /\ TypePeer /\ Always /\ Stage
  BY DEF ClientInv
<1>read. /\ Reading /\ sq = <<>> /\ Quiet
         /\ Len(got) = tbl /\ pool_used = tbl /\ rq = 0
  BY <1>0, StageOfPc DEF Reading, Answered
<1>ksmd. TypeKsmd'
  BY <1>0 DEF TypeKsmd, Connects, Asks, AsksBask, AsksStyx, Reads
<1>queues. TypeQueues'
  <2>1. result_desc' \in [id : 0..MaxRequests, tables : 0..MaxTables]
    OBVIOUS
  <2>2. rq' \in 0..1
    BY <1>read
  <2>3. QED
    BY <1>0, <2>1, <2>2 DEF TypeQueues
<1>peer. TypePeer'
  BY <1>0 DEF TypePeer
<1>always. Always'
  BY <1>0 DEF TypeKsmd, Always, Connects, Asks, AsksBask, AsksStyx, Reads
<1>stage. Stage'
  <2>1. ResultIsOfThisRequest'
    BY <1>read DEF Reading, ResultIsOfThisRequest
  <2>2. Applying'
    BY <1>read, <2>1 DEF Reading, Applying, Answered, ServerIdle, Quiet
  <2>3. QED
    BY <2>2 DEF Stage
<1>qed. QED
  BY <1>ksmd, <1>queues, <1>peer, <1>always, <1>stage DEF ClientInv

\* ApplyResult: all buffers go back to the reserve.
LEMMA ApplyResultKeeps ==
  ASSUME ClientInv, ApplyResult
  PROVE  ClientInv'
<1> USE ClientAssumption DEF ApplyResult, ksmdVars, handlerVars, adapterVars, serverVars
<1>0. TypeKsmd /\ TypeQueues /\ TypePeer /\ Always /\ Stage
  BY DEF ClientInv
<1>app. Applying
  BY <1>0, StageOfPc
<1>num. pool_used - tbl = 0
  BY <1>0, <1>app DEF TypeKsmd, Applying
<1>ksmd. TypeKsmd'
  BY <1>0, <1>num DEF TypeKsmd, Connects, Asks, AsksBask, AsksStyx, Reads
<1>queues. TypeQueues'
  <2>1. <<>> \in Seq(0..MaxRequests)
    OBVIOUS
  <2>2. QED
    BY <1>0, <2>1 DEF TypeQueues
<1>peer. TypePeer'
  BY <1>0 DEF TypePeer
<1>always. Always'
  BY <1>0 DEF TypeKsmd, Always, Connects, Asks, AsksBask, AsksStyx, Reads
<1>stage. Stage'
  <2>1. Registering'
    BY <1>app, <1>num DEF Applying, Registering, ServerIdle, Quiet, InHand, Regs
  <2>2. QED
    BY <2>1 DEF Stage
<1>qed. QED
  BY <1>ksmd, <1>queues, <1>peer, <1>always, <1>stage DEF ClientInv

\* StyxResult: the answer is in, or the server is lost.
LEMMA StyxResultKeeps ==
  ASSUME ClientInv, StyxResult
  PROVE  ClientInv'
<1> USE ClientAssumption
  DEF StyxResult, KsmdGoesOn, ksmdVars, handlerVars, adapterVars, serverVars
<1>0. TypeKsmd /\ TypeQueues /\ TypePeer /\ Always /\ Stage
  BY DEF ClientInv
<1>asked. Unsent \/ Serving \/ Answering \/ AnswerIn \/ Broken
  BY <1>0, StageOfPc DEF Asks, AsksBask, AsksStyx
<1>in. state = KSM_RDMA_RECV_COMPLETE => AnswerIn
  BY <1>asked
  DEF Unsent, Serving, Answering, AnswerIn, Broken, Asked, Answered, Asks, AsksBask,
      AsksStyx, ServerIdle, InHand, Quiet, Low
<1>ksmd. TypeKsmd'
  BY <1>0 DEF TypeKsmd, Connects, Asks, AsksBask, AsksStyx, Reads
<1>queues. TypeQueues'
  BY <1>0 DEF TypeQueues
<1>peer. TypePeer'
  BY <1>0 DEF TypePeer
<1>always. Always'
  BY <1>0 DEF TypeKsmd, Always, Connects, Asks, AsksBask, AsksStyx, Reads
<1>stage. Stage'
  <2>1. CASE state = KSM_RDMA_RECV_COMPLETE
    <3>1. mode = "STYX"
      BY <1>0, <1>in, <2>1 DEF TypeKsmd, AnswerIn, Asked, AsksBask
    <3>2. Taking'
      BY <1>in, <2>1, <3>1 DEF AnswerIn, Asked, Answered, Taking, ServerIdle, Quiet
    <3>3. QED
      BY <3>2 DEF Stage
  <2>2. CASE state # KSM_RDMA_RECV_COMPLETE
    <3>1. srv = "dead" /\ pc' = "opfailed" /\ srv' = srv
      BY <1>0, <2>2 DEF Always
    <3>2. QED
      BY <3>1 DEF Stage, GivenUp
  <2>3. QED
    BY <2>1, <2>2
<1>qed. QED
  BY <1>ksmd, <1>queues, <1>peer, <1>always, <1>stage DEF ClientInv

\* StyxTake: the value is that of this request.
LEMMA StyxTakeKeeps ==
  ASSUME ClientInv, StyxTake
  PROVE  ClientInv'
<1> USE ClientAssumption
  DEF StyxTake, NoAnswer, ksmdVars, handlerVars, adapterVars, serverVars
<1>0. TypeKsmd /\ TypeQueues /\ TypePeer /\ Always /\ Stage
  BY DEF ClientInv
<1>in. Taking /\ rq = 0 /\ result_desc.id = req
  BY <1>0, StageOfPc DEF Taking, Answered
<1>id. result_desc.id \in 0..MaxRequests
  BY <1>0 DEF TypeQueues
<1>ksmd. TypeKsmd'
  BY <1>0 DEF TypeKsmd, Connects, Asks, AsksBask, AsksStyx, Reads
<1>queues. TypeQueues'
  <2>1. result_desc' \in [id : 0..MaxRequests, tables : 0..MaxTables]
    BY <1>0 DEF TypeQueues
  <2>2. got' \in Seq(0..MaxRequests)
    BY <1>id
  <2>3. rq' \in 0..1
    BY <1>in
  <2>4. QED
    BY <1>0, <2>1, <2>2, <2>3 DEF TypeQueues
<1>peer. TypePeer'
  BY <1>0 DEF TypePeer
<1>always. Always'
  BY <1>0 DEF TypeKsmd, Always, Connects, Asks, AsksBask, AsksStyx, Reads
<1>stage. Stage'
  <2>1. ResultIsOfThisRequest'
    BY <1>in DEF Taking, ResultIsOfThisRequest
  <2>2. Applying'
    BY <1>0, <1>in, <2>1 DEF TypeKsmd, Taking, Answered, Applying, ServerIdle, Quiet
  <2>3. QED
    BY <2>2 DEF Stage
<1>qed. QED
  BY <1>ksmd, <1>queues, <1>peer, <1>always, <1>stage DEF ClientInv

-----------------------------------------------------------------------------
(* ksm_rdma_cq_event_handler.                                              *)

\* A step of the handler that takes no completion is in the same stage.
LEMMA SameStage ==
  ASSUME Stage, hpc # "apply", hpc' # "apply",
         UNCHANGED <<state, ksmdVars, result_desc, handled, sq, rq, cq, qp, delivered, cm, serverVars>>
  PROVE  Stage'
<1> USE DEF ksmdVars, serverVars
<1>1. CASE Connecting \/ Registering
  BY <1>1 DEF Stage, Connecting, Registering, ServerIdle, Quiet, InHand
<1>2. CASE Unsent \/ Serving
  BY <1>2 DEF Stage, Unsent, Serving, Asked, ServerIdle, Quiet, InHand
<1>3. CASE Answering \/ AnswerIn
  BY <1>3 DEF Stage, Answering, AnswerIn, Asked, Answered, ServerIdle, Quiet, InHand
<1>4. CASE Reading \/ Taking \/ Applying
  BY <1>4 DEF Stage, Reading, Part, Answered, Applying, Taking, ResultIsOfThisRequest, ServerIdle, Quiet
<1>5. CASE Broken \/ GivenUp
  BY <1>5 DEF Stage, Broken, GivenUp, Quiet
<1>6. QED
  BY <1>1, <1>2, <1>3, <1>4, <1>5 DEF Stage

\* HandlerEnter.
LEMMA HandlerEnterKeeps ==
  ASSUME ClientInv, HandlerEnter
  PROVE  ClientInv'
<1> USE ClientAssumption DEF HandlerEnter, ksmdVars, handlerVars, adapterVars, serverVars
<1>0. TypeKsmd /\ TypeQueues /\ TypePeer /\ Always /\ Stage
  BY DEF ClientInv
<1>ksmd. TypeKsmd'
  BY <1>0 DEF TypeKsmd, Connects, Asks, AsksBask, AsksStyx, Reads
<1>queues. TypeQueues'
  <2>1. event' \in BOOLEAN /\ armed' \in BOOLEAN
    BY <1>0 DEF TypeQueues
  <2>2. hpc' \in {"idle", "poll", "apply"}
    OBVIOUS
  <2>3. QED
    BY <1>0, <2>1, <2>2 DEF TypeQueues
<1>peer. TypePeer'
  BY <1>0 DEF TypePeer
<1>always. Always'
  BY <1>0 DEF TypeKsmd, Always, Connects, Asks, AsksBask, AsksStyx, Reads
<1>stage. Stage'
  <2>1. hpc # "apply" /\ hpc' # "apply"
    OBVIOUS
  <2>2. QED
    BY <1>0, <2>1, SameStage
<1>qed. QED
  BY <1>ksmd, <1>queues, <1>peer, <1>always, <1>stage DEF ClientInv

\* HandlerPoll: the completion taken is the oldest one.
LEMMA HandlerPollKeeps ==
  ASSUME ClientInv, HandlerPoll
  PROVE  ClientInv'
<1> USE ClientAssumption DEF ksmdVars, handlerVars, adapterVars, serverVars
<1>0. TypeKsmd /\ TypeQueues /\ TypePeer /\ Always /\ Stage
  BY DEF ClientInv
<1>same. UNCHANGED <<state, ksmdVars, result_desc, handled, sq, rq, armed, event, qp, delivered,
                     cm, serverVars>>
  BY DEF HandlerPoll
<1>1. CASE cq = <<>>
  <2>1. hpc = "poll" /\ hpc' = "idle" /\ wc' = wc /\ cq' = cq
    BY <1>1 DEF HandlerPoll
  <2>2. TypeKsmd' /\ TypeQueues' /\ TypePeer'
    BY <1>0, <1>same, <2>1 DEF TypeKsmd, TypeQueues, TypePeer
  <2>3. Always'
    BY <1>0, <1>same, <2>1 DEF Always
  <2>4. Stage'
    BY <1>0, <1>same, <2>1, SameStage
  <2>5. QED
    BY <2>2, <2>3, <2>4 DEF ClientInv
<1>2. CASE cq # <<>>
  <2>q. cq \in Seq(Completion)
    BY <1>0 DEF TypeQueues
  <2>c. /\ Tail(cq) \in Seq(Completion) /\ Len(Tail(cq)) = Len(cq) - 1 /\ Len(cq) \in Nat \ {0}
        /\ Head(cq) = cq[1] /\ \A i \in 1 .. Len(cq) - 1 : Tail(cq)[i] = cq[i + 1]
    BY <1>2, <2>q, TailOfQueue
  <2>h. Head(cq) \in Completion
    BY <2>q, <2>c
  <2>1. /\ hpc = "poll" /\ cq' = Tail(cq)
        /\ \/ Head(cq).status = "flush" /\ hpc' = hpc /\ wc' = wc
           \/ Head(cq).status # "flush" /\ hpc' = "apply" /\ wc' = Head(cq)
    BY <1>2 DEF HandlerPoll
  <2>type. TypeKsmd' /\ TypeQueues' /\ TypePeer'
    <3>1. TypeKsmd' /\ TypePeer'
      BY <1>0, <1>same DEF TypeKsmd, TypePeer
    <3>2. cq' \in Seq(Completion) /\ wc' \in Completion /\ hpc' \in {"idle", "poll", "apply"}
      BY <1>0, <2>c, <2>h, <2>1 DEF TypeQueues
    <3>3. QED
      BY <1>0, <1>same, <3>1, <3>2 DEF TypeQueues
  <2>always. Always'
    <3>1. \A i \in 1 .. Len(cq') : cq'[i] # Done("OP")
      BY <1>0, <2>c, <2>1 DEF Always
    <3>2. hpc' = "apply" => wc'.status # "flush" /\ wc' # Done("OP")
      BY <1>0, <2>c, <2>1 DEF Always
    <3>3. QED
      BY <1>0, <1>same, <3>1, <3>2 DEF Always
  <2>ok. \A op \in Op : Head(cq) = Done(op) => hpc' = "apply" /\ wc' = Done(op)
    BY <2>1, Completions
  <2>ops. Done("REG") \in Completion /\ Done("SEND") \in Completion /\ Done("RECV") \in Completion
          /\ Done("READ") \in Completion /\ {"REG", "SEND", "OP", "READ", "RECV"} \subseteq Op
    BY Completions
  <2>stage. Stage'
    <3>1. CASE Registering \/ Unsent \/ (Serving /\ mode = "STYX")
      <4>1. Regs(cq, Done("REG"))
        BY <3>1, <1>0 DEF Registering, Unsent, Serving
      <4>2. Head(cq) = Done("REG") /\ Regs(Tail(cq), Done("REG"))
        BY <1>2, <2>q, <2>ops, <4>1, RegsQueue
      <4>3. hpc' = "apply" /\ wc' = Done("REG") /\ Regs(cq', Done("REG"))
        BY <2>ok, <2>ops, <2>1, <4>2
      <4>4. QED
        BY <1>same, <3>1, <4>3 DEF Stage, Registering, Unsent, Serving, Asked, ServerIdle, InHand
    <3>2. CASE Serving /\ mode = "BASK"
      <4>1. RegsThen(cq, Done("REG"), Done("SEND")) /\ state \in Low
        BY <1>2, <2>1, <3>2 DEF Serving, Quiet
      <4>2. /\ Len(cq) = 1 => Head(cq) = Done("SEND") /\ Tail(cq) = <<>>
            /\ Len(cq) # 1 => Head(cq) = Done("REG") /\ RegsThen(Tail(cq), Done("REG"), Done("SEND"))
        BY <2>q, <2>ops, <4>1, RegsThenQueue
      <4>3. CASE Len(cq) = 1
        <5>1. cq' = <<>> /\ hpc' = "apply" /\ wc' = Done("SEND")
          BY <2>ok, <2>ops, <2>1, <4>2, <4>3
        <5>2. QED
          BY <1>same, <3>2, <4>1, <5>1 DEF Stage, Serving, Asked
      <4>4. CASE Len(cq) # 1
        <5>1. RegsThen(cq', Done("REG"), Done("SEND")) /\ hpc' = "apply" /\ wc' = Done("REG")
          BY <2>ok, <2>ops, <2>1, <4>2, <4>4
        <5>2. QED
          BY <1>same, <3>2, <4>1, <5>1 DEF Stage, Serving, Asked, InHand
      <4>5. QED
        BY <4>3, <4>4
    <3>3. CASE Answering
      <4>1. CASE mode = "BASK" /\ RegsThen2(cq, Done("REG"), Done("SEND"), Done("RECV")) /\ state \in Low
        <5>1. /\ Len(cq) = 2 => Head(cq) = Done("SEND") /\ Only(Tail(cq), Done("RECV"))
              /\ Len(cq) # 2 => /\ Head(cq) = Done("REG")
                               /\ RegsThen2(Tail(cq), Done("REG"), Done("SEND"), Done("RECV"))
          BY <2>q, <2>ops, <4>1, RegsThen2Queue
        <5>2. CASE Len(cq) = 2
          <6>1. Only(cq', Done("RECV")) /\ hpc' = "apply" /\ wc' = Done("SEND")
            BY <2>ok, <2>ops, <2>1, <5>1, <5>2
          <6>2. QED
            BY <1>same, <3>3, <4>1, <6>1 DEF Stage, Answering, Asked, Answered, ServerIdle
        <5>3. CASE Len(cq) # 2
          <6>1. /\ RegsThen2(cq', Done("REG"), Done("SEND"), Done("RECV"))
                /\ hpc' = "apply" /\ wc' = Done("REG")
            BY <2>ok, <2>ops, <2>1, <5>1, <5>3
          <6>2. QED
            BY <1>same, <3>3, <4>1, <6>1 DEF Stage, Answering, Asked, Answered, ServerIdle, InHand
        <5>4. QED
          BY <5>2, <5>3
      <4>2. CASE Only(cq, Done("RECV")) /\ state \in {KSM_RDMA_SEND_COMPLETE, KSM_ERROR}
        <5>1. Head(cq) = Done("RECV") /\ Tail(cq) = <<>>
          BY <2>q, <2>ops, <4>2, OnlyQueue
        <5>2. cq' = <<>> /\ hpc' = "apply" /\ wc' = Done("RECV")
          BY <2>ok, <2>ops, <2>1, <5>1
        <5>3. QED
          BY <1>same, <3>3, <4>2, <5>2 DEF Stage, Answering, Asked, Answered, ServerIdle, Low
      <4>3. CASE mode = "STYX" /\ RegsThen(cq, Done("REG"), Done("RECV")) /\ state \in Low
        <5>1. /\ Len(cq) = 1 => Head(cq) = Done("RECV") /\ Tail(cq) = <<>>
              /\ Len(cq) # 1 => Head(cq) = Done("REG") /\ RegsThen(Tail(cq), Done("REG"), Done("RECV"))
          BY <2>q, <2>ops, <4>3, RegsThenQueue
        <5>2. CASE Len(cq) = 1
          <6>1. cq' = <<>> /\ hpc' = "apply" /\ wc' = Done("RECV")
            BY <2>ok, <2>ops, <2>1, <5>1, <5>2
          <6>2. QED
            BY <1>same, <3>3, <4>3, <6>1 DEF Stage, Answering, Asked, Answered, ServerIdle
        <5>3. CASE Len(cq) # 1
          <6>1. RegsThen(cq', Done("REG"), Done("RECV")) /\ hpc' = "apply" /\ wc' = Done("REG")
            BY <2>ok, <2>ops, <2>1, <5>1, <5>3
          <6>2. QED
            BY <1>same, <3>3, <4>3, <6>1 DEF Stage, Answering, Asked, Answered, ServerIdle, InHand
        <5>4. QED
          BY <5>2, <5>3
      <4>4. QED
        BY <1>2, <2>1, <3>3, <4>1, <4>2, <4>3 DEF Answering
    <3>4. CASE Reading
      <4>1. pc # "read" /\ sq = <<>> /\ Only(cq, Done("READ")) /\ Len(got) = tbl + 1
            /\ state \in {KSM_RDMA_READ_WAIT, KSM_ERROR}
        BY <1>2, <2>1, <3>4 DEF Reading, Part, Quiet
      <4>2. Head(cq) = Done("READ") /\ Tail(cq) = <<>>
        BY <2>q, <2>ops, <4>1, OnlyQueue
      <4>3. cq' = <<>> /\ hpc' = "apply" /\ wc' = Done("READ")
        BY <2>ok, <2>ops, <2>1, <4>2
      <4>4. Part'
        BY <1>same, <4>1, <4>3 DEF Part
      <4>5. QED
        BY <1>same, <3>4, <4>1, <4>4 DEF Stage, Reading, Answered, ServerIdle
    <3>5. CASE Broken
      <4>1. \A i \in 1 .. Len(cq') : cq'[i].status = "ok" => cq'[i] = Done("REG")
        BY <2>c, <2>1, <3>5 DEF Broken
      <4>2. hpc' = "apply" => (wc'.status = "ok" => wc' = Done("REG"))
        BY <2>c, <2>1, <3>5 DEF Broken
      <4>3. QED
        BY <1>same, <3>5, <4>1, <4>2 DEF Stage, Broken
    <3>6. CASE GivenUp
      BY <1>same, <1>2, <3>6 DEF Stage, GivenUp, Quiet
    <3>7. CASE Connecting \/ AnswerIn \/ Taking \/ Applying
      BY <1>2, <3>7 DEF Connecting, AnswerIn, Applying, Taking, Quiet
    <3>8. QED
      BY <1>0, <3>1, <3>2, <3>3, <3>4, <3>5, <3>6, <3>7 DEF Stage, Serving
  <2>qed. QED
    BY <2>type, <2>always, <2>stage DEF ClientInv
<1>3. QED
  BY <1>1, <1>2

\* What the handler stores for a completion.
LEMMA StateOfCompletion ==
  /\ StateOf(Done("REG")) = KSM_MEM_REG_COMPLETE
  /\ StateOf(Done("SEND")) = KSM_RDMA_SEND_COMPLETE
  /\ StateOf(Done("READ")) = KSM_RDMA_READ_COMPLETE
  /\ StateOf(Done("RECV")) = KSM_RDMA_RECV_COMPLETE
  /\ \A c \in Completion : c.status = "error" => StateOf(c) = KSM_ERROR
  /\ \A c \in Completion : c.status # "flush" /\ c # Done("OP") =>
        \/ c.status = "error"
        \/ c \in {Done("REG"), Done("SEND"), Done("READ"), Done("RECV")}
<1>1. /\ StateOf(Done("REG")) = KSM_MEM_REG_COMPLETE
      /\ StateOf(Done("SEND")) = KSM_RDMA_SEND_COMPLETE
      /\ StateOf(Done("READ")) = KSM_RDMA_READ_COMPLETE
      /\ StateOf(Done("RECV")) = KSM_RDMA_RECV_COMPLETE
  BY DEF StateOf, Done
<1>2. \A c \in Completion : c.status = "error" => StateOf(c) = KSM_ERROR
  BY DEF StateOf, Done
<1>3. \A c \in Completion : c.status # "flush" /\ c # Done("OP") =>
        \/ c.status = "error"
        \/ c \in {Done("REG"), Done("SEND"), Done("READ"), Done("RECV")}
  BY DEF Completion, Done, Op
<1>4. QED
  BY <1>1, <1>2, <1>3

\* HandlerApply: what is stored belongs to the stage the request is in.
LEMMA HandlerApplyKeeps ==
  ASSUME ClientInv, HandlerApply
  PROVE  ClientInv'
<1> USE ClientAssumption DEF ksmdVars, handlerVars, adapterVars, serverVars
<1>0. TypeKsmd /\ TypeQueues /\ TypePeer /\ Always /\ Stage
  BY DEF ClientInv
<1>act. /\ hpc = "apply" /\ state' = StateOf(wc) /\ hpc' \in {"idle", "poll"}
        /\ handled' = IF wc = Done("RECV") THEN result_desc.id ELSE handled
        /\ UNCHANGED <<ksmdVars, result_desc, wc, adapterVars, cm, serverVars>>
  BY DEF HandlerApply
<1>wc. /\ wc \in Completion /\ wc.status # "flush" /\ wc # Done("OP")
       /\ result_desc.id \in 0..MaxRequests
  BY <1>0, <1>act DEF TypeQueues, Always
<1>ne. /\ Done("REG") # Done("RECV") /\ Done("SEND") # Done("RECV") /\ Done("READ") # Done("RECV")
       /\ Done("REG").status = "ok" /\ Done("SEND").status = "ok" /\ Done("RECV").status = "ok"
       /\ Done("READ").status = "ok" /\ Done("SEND") # Done("REG") /\ Done("READ") # Done("REG")
  BY DEF Done
<1>kind. wc.status = "error" \/ wc \in {Done("REG"), Done("SEND"), Done("READ"), Done("RECV")}
  BY <1>wc, StateOfCompletion
<1>err. wc.status = "error" => state' = KSM_ERROR /\ handled' = handled
  BY <1>act, <1>wc, <1>ne, StateOfCompletion
<1>reg. wc = Done("REG") => state' = KSM_MEM_REG_COMPLETE /\ handled' = handled
  BY <1>act, <1>ne, StateOfCompletion
<1>send. wc = Done("SEND") => state' = KSM_RDMA_SEND_COMPLETE /\ handled' = handled
  BY <1>act, <1>ne, StateOfCompletion
<1>read. wc = Done("READ") => state' = KSM_RDMA_READ_COMPLETE /\ handled' = handled
  BY <1>act, <1>ne, StateOfCompletion
<1>recv. wc = Done("RECV") => state' = KSM_RDMA_RECV_COMPLETE /\ handled' = result_desc.id
  BY <1>act, StateOfCompletion
<1>type. TypeKsmd' /\ TypeQueues' /\ TypePeer'
  <2>1. state' \in {KSM_MEM_REG_COMPLETE, KSM_RDMA_SEND_COMPLETE, KSM_RDMA_READ_COMPLETE,
                    KSM_RDMA_RECV_COMPLETE, KSM_ERROR}
    BY <1>kind, <1>err, <1>reg, <1>send, <1>read, <1>recv
  <2>2. handled' \in 0..MaxRequests
    BY <1>0, <1>act, <1>wc DEF TypePeer
  <2>3. TypeKsmd'
    BY <1>0, <1>act, <2>1 DEF TypeKsmd
  <2>4. TypeQueues'
    BY <1>0, <1>act DEF TypeQueues
  <2>5. TypePeer'
    BY <1>0, <1>act, <2>2 DEF TypePeer
  <2>6. QED
    BY <2>3, <2>4, <2>5
<1>lost. srv = "dead" => losses > 0
  BY <1>0 DEF Always
<1>1. CASE Registering
  <2>1. wc = Done("REG")
    BY <1>1, <1>act DEF Registering, InHand
  <2>2. Registering'
    BY <1>1, <1>act, <1>reg, <2>1 DEF Registering, ServerIdle, InHand, Low
  <2>3. Always'
    BY <1>0, <1>1, <1>act, <1>reg, <2>1 DEF Always, Registering, Connects
  <2>4. QED
    BY <1>type, <2>2, <2>3 DEF ClientInv, Stage
<1>2. CASE Unsent
  <2>1. wc = Done("REG")
    BY <1>2, <1>act DEF Unsent, InHand
  <2>2. Unsent'
    BY <1>2, <1>act, <1>reg, <2>1 DEF Unsent, Asked, ServerIdle, InHand, Low
  <2>3. Always'
    BY <1>0, <1>2, <1>act, <1>reg, <2>1
    DEF Always, Unsent, Asked, Low, Connects, Asks, AsksBask, AsksStyx
  <2>4. QED
    BY <1>type, <2>2, <2>3 DEF ClientInv, Stage
<1>3. CASE Serving
  <2>1. state \in Low /\ (wc = Done("REG") \/ wc = Done("SEND"))
    BY <1>3, <1>act DEF Serving, InHand, Quiet
  <2>2. Serving'
    <3>1. CASE wc = Done("REG")
      BY <1>3, <1>act, <1>reg, <1>ne, <3>1 DEF Serving, Asked, InHand, Quiet, Low
    <3>2. CASE wc = Done("SEND")
      BY <1>3, <1>act, <1>send, <1>ne, <3>2 DEF Serving, Asked, InHand, Quiet, Low
    <3>3. QED
      BY <2>1, <3>1, <3>2
  <2>3. Always'
    BY <1>0, <1>3, <1>act, <1>reg, <1>send, <2>1
    DEF Always, Serving, Asked, Low, Connects, Asks, AsksBask, AsksStyx
  <2>4. QED
    BY <1>type, <2>2, <2>3 DEF ClientInv, Stage
<1>4. CASE Answering
  <2>1. \/ state \in Low /\ (wc = Done("REG") \/ wc = Done("SEND"))
        \/ state \in Low \cup {KSM_RDMA_SEND_COMPLETE} /\ cq = <<>> /\ wc = Done("RECV")
    BY <1>4, <1>act DEF Answering, InHand
  <2>2. Answering' \/ AnswerIn'
    <3>1. CASE wc = Done("REG")
      BY <1>4, <1>act, <1>reg, <1>ne, <3>1
      DEF Answering, Asked, Answered, ServerIdle, InHand, Low
    <3>2. CASE wc = Done("SEND")
      BY <1>4, <1>act, <1>send, <1>ne, <3>2
      DEF Answering, Asked, Answered, ServerIdle, InHand, Low
    <3>3. CASE wc = Done("RECV")
      BY <1>4, <1>act, <1>recv, <1>ne, <2>1, <3>3
      DEF Answering, AnswerIn, Asked, Answered, ServerIdle, Quiet
    <3>4. QED
      BY <2>1, <3>1, <3>2, <3>3
  <2>3. Always'
    BY <1>0, <1>4, <1>act, <1>reg, <1>send, <1>recv, <2>1
    DEF Always, Answering, Asked, Low, Connects, Asks, AsksBask, AsksStyx
  <2>4. QED
    BY <1>type, <2>2, <2>3 DEF ClientInv, Stage
<1>5. CASE Reading
  <2>1. /\ pc # "read" /\ sq = <<>> /\ cq = <<>> /\ wc = Done("READ") /\ Len(got) = tbl + 1
        /\ state \in {KSM_RDMA_READ_WAIT, KSM_ERROR}
    BY <1>5, <1>act DEF Reading, Part, Quiet
  <2>2. Part'
    BY <1>act, <1>read, <2>1 DEF Part, Quiet
  <2>3. Reading'
    BY <1>5, <1>act, <1>read, <2>1, <2>2 DEF Reading, Answered, ServerIdle
  <2>4. Always'
    BY <1>0, <1>5, <1>act, <1>read, <2>1 DEF Always, Reading, Connects, Reads
  <2>5. QED
    BY <1>type, <2>3, <2>4 DEF ClientInv, Stage
<1>6. CASE Broken
  <2>1. wc.status = "error" \/ wc = Done("REG")
    BY <1>6, <1>act, <1>kind, <1>ne DEF Broken
  <2>2. Broken'
    BY <1>6, <1>act, <1>err, <1>reg, <2>1 DEF Broken, Low
  <2>3. Always'
    BY <1>0, <1>6, <1>act, <1>lost DEF Always, Broken
  <2>4. QED
    BY <1>type, <2>2, <2>3 DEF ClientInv, Stage
<1>7. CASE GivenUp
  <2>1. srv = "dead"
    BY <1>7, <1>act DEF GivenUp, Quiet
  <2>2. GivenUp'
    BY <1>7, <1>act, <2>1 DEF GivenUp
  <2>3. Always'
    BY <1>0, <1>act, <1>lost, <2>1 DEF Always
  <2>4. QED
    BY <1>type, <2>2, <2>3 DEF ClientInv, Stage
<1>8. CASE Connecting \/ AnswerIn \/ Taking \/ Applying
  BY <1>8, <1>act DEF Connecting, AnswerIn, Applying, Taking, Quiet
<1>9. QED
  BY <1>0, <1>1, <1>2, <1>3, <1>4, <1>5, <1>6, <1>7, <1>8 DEF Stage

-----------------------------------------------------------------------------
(* The adapter.                                                            *)

\* A new completion is put behind the others.
LEMMA CompletesType ==
  ASSUME TypeQueues, Always, NEW c \in Completion, c # Done("OP"), Completes(c)
  PROVE  /\ cq' \in Seq(Completion) /\ event' \in BOOLEAN /\ armed' \in BOOLEAN
         /\ \A i \in 1 .. Len(cq') : cq'[i] # Done("OP")
<1>1. cq \in Seq(Completion) /\ cq' = Append(cq, c)
  BY DEF TypeQueues, Completes
<1>2. cq' \in Seq(Completion)
  BY <1>1
<1>3. event' \in BOOLEAN /\ armed' \in BOOLEAN
  BY DEF TypeQueues, Completes
<1>4. \A i \in 1 .. Len(cq') : cq'[i] # Done("OP")
  BY <1>1 DEF Always
<1>5. QED
  BY <1>2, <1>3, <1>4

\* Registered.
LEMMA RegisteredKeeps ==
  ASSUME ClientInv, Registered
  PROVE  ClientInv'
<1> USE ClientAssumption DEF ksmdVars, handlerVars, adapterVars, serverVars
<1>0. TypeKsmd /\ TypeQueues /\ TypePeer /\ Always /\ Stage
  BY DEF ClientInv
<1>ops. /\ Done("REG") \in Completion /\ Done("REG") # Done("OP")
        /\ {"REG", "SEND", "OP", "READ", "RECV"} \subseteq Op
  BY Completions DEF Done
<1>act. /\ sq # <<>> /\ Head(sq) = "REG" /\ qp = "up" /\ sq' = Tail(sq)
        /\ Completes(Done("REG"))
        /\ UNCHANGED <<state, ksmdVars, result_desc, handlerVars, rq, qp, delivered, cm, serverVars>>
  BY DEF Registered, SendQueueDone
<1>q. sq \in Seq(Op) /\ cq \in Seq(Completion) /\ cq' = Append(cq, Done("REG"))
  BY <1>0, <1>act DEF TypeQueues, Completes
<1>sq. Tail(sq) \in Seq(Op)
  BY <1>act, <1>q, TailOfQueue
<1>new. /\ cq' \in Seq(Completion) /\ event' \in BOOLEAN /\ armed' \in BOOLEAN
        /\ \A i \in 1 .. Len(cq') : cq'[i] # Done("OP")
  BY <1>0, <1>act, <1>ops, CompletesType
<1>type. TypeKsmd' /\ TypeQueues' /\ TypePeer' /\ Always'
  <2>1. TypeKsmd' /\ TypePeer'
    BY <1>0, <1>act DEF TypeKsmd, TypePeer
  <2>2. TypeQueues'
    BY <1>0, <1>act, <1>sq, <1>new DEF TypeQueues
  <2>3. Always'
    BY <1>0, <1>act, <1>new DEF Always
  <2>4. QED
    BY <2>1, <2>2, <2>3
<1>1. CASE Registering
  <2>1. Regs(sq', "REG")
    BY <1>1, <1>act, <1>q, <1>ops, RegsQueue DEF Registering
  <2>2. Regs(cq', Done("REG"))
    BY <1>1, <1>q, <1>ops, RegsQueue DEF Registering
  <2>3. Registering'
    BY <1>1, <1>act, <2>1, <2>2 DEF Registering, ServerIdle, InHand
  <2>4. QED
    BY <1>type, <2>3 DEF ClientInv, Stage
<1>2. CASE Unsent
  <2>1. PICK x \in {"SEND", "OP"} :
          x = (IF mode = "BASK" THEN "SEND" ELSE "OP") /\ RegsThen(sq, "REG", x)
    BY <1>2 DEF Unsent
  <2>2. x \in Op
    BY <1>ops
  <2>3. Len(sq) # 1 /\ RegsThen(Tail(sq), "REG", x)
    BY <1>act, <1>q, <1>ops, <2>1, <2>2, RegsThenQueue
  <2>4. Regs(cq', Done("REG"))
    BY <1>2, <1>q, <1>ops, RegsQueue DEF Unsent
  <2>5. Unsent'
    BY <1>2, <1>act, <2>1, <2>3, <2>4 DEF Unsent, Asked, ServerIdle, InHand
  <2>6. QED
    BY <1>type, <2>5 DEF ClientInv, Stage
<1>3. CASE Reading
  <2>1. Only(sq, "READ")
    BY <1>3, <1>act DEF Reading, Part
  <2>2. Head(sq) = "READ"
    BY <1>q, <1>ops, <2>1, OnlyQueue
  <2>3. QED
    BY <1>act, <2>2
<1>4. CASE GivenUp
  BY <1>4, <1>act, <1>type DEF GivenUp, ClientInv, Stage
<1>5. QED
  BY <1>0, <1>1, <1>2, <1>3, <1>4, <1>act
  DEF Stage, Connecting, Serving, Answering, AnswerIn, Applying, Taking, Broken

\* Acked: the SEND of the request is done once the server has it.
LEMMA AckedKeeps ==
  ASSUME ClientInv, Acked
  PROVE  ClientInv'
<1> USE ClientAssumption DEF ksmdVars, handlerVars, adapterVars, serverVars
<1>0. TypeKsmd /\ TypeQueues /\ TypePeer /\ Always /\ Stage
  BY DEF ClientInv
<1>ops. /\ Done("SEND") \in Completion /\ Done("SEND") # Done("OP") /\ Done("REG") \in Completion
        /\ {"REG", "SEND", "OP", "READ", "RECV"} \subseteq Op
  BY Completions DEF Done
<1>act. /\ delivered /\ ~delivered' /\ sq # <<>> /\ Head(sq) = "SEND" /\ qp = "up" /\ sq' = Tail(sq)
        /\ Completes(Done("SEND"))
        /\ UNCHANGED <<state, ksmdVars, result_desc, handlerVars, rq, qp, cm, serverVars>>
  BY DEF Acked, SendQueueDone
<1>del. delivered' \in BOOLEAN
  BY DEF Acked
<1>q. sq \in Seq(Op) /\ cq \in Seq(Completion) /\ cq' = Append(cq, Done("SEND"))
  BY <1>0, <1>act DEF TypeQueues, Completes
<1>sq. Tail(sq) \in Seq(Op)
  BY <1>act, <1>q, TailOfQueue
<1>new. /\ cq' \in Seq(Completion) /\ event' \in BOOLEAN /\ armed' \in BOOLEAN
        /\ \A i \in 1 .. Len(cq') : cq'[i] # Done("OP")
  BY <1>0, <1>act, <1>ops, CompletesType
<1>type. TypeKsmd' /\ TypeQueues' /\ TypePeer' /\ Always'
  <2>1. TypeKsmd' /\ TypePeer'
    BY <1>0, <1>act DEF TypeKsmd, TypePeer
  <2>2. TypeQueues'
    BY <1>0, <1>act, <1>del, <1>sq, <1>new DEF TypeQueues
  <2>3. Always'
    BY <1>0, <1>act, <1>new DEF Always
  <2>4. QED
    BY <2>1, <2>2, <2>3
<1>1. CASE Unsent
  <2>1. RegsThen(sq, "REG", "SEND") /\ Len(sq) = 1 /\ mode = "BASK"
    BY <1>1, <1>act DEF Unsent
  <2>2. Tail(sq) = <<>>
    BY <1>q, <1>ops, <2>1, RegsThenQueue
  <2>3. RegsThen(cq', Done("REG"), Done("SEND"))
    BY <1>1, <1>q, <1>ops, RegsQueue DEF Unsent
  <2>4. Serving'
    BY <1>1, <1>act, <2>1, <2>2, <2>3 DEF Unsent, Serving, Asked, InHand
  <2>5. QED
    BY <1>type, <2>4 DEF ClientInv, Stage
<1>2. CASE GivenUp
  BY <1>2, <1>act, <1>type DEF GivenUp, ClientInv, Stage
<1>3. QED
  BY <1>0, <1>1, <1>2, <1>act
  DEF Stage, Connecting, Registering, Serving, Answering, AnswerIn, Reading, Applying, Taking, Broken

\* ReadDone: the table read is that of the request just made.
LEMMA ReadDoneKeeps ==
  ASSUME ClientInv, ReadDone
  PROVE  ClientInv'
<1> USE ClientAssumption DEF ksmdVars, handlerVars, adapterVars, serverVars
<1>0. TypeKsmd /\ TypeQueues /\ TypePeer /\ Always /\ Stage
  BY DEF ClientInv
<1>ops. /\ Done("READ") \in Completion /\ Done("READ") # Done("OP")
        /\ {"REG", "SEND", "OP", "READ", "RECV"} \subseteq Op
  BY Completions DEF Done
<1>act. /\ sq # <<>> /\ Head(sq) = "READ" /\ qp = "up" /\ sq' = Tail(sq)
        /\ Completes(Done("READ")) /\ got' = Append(got, srv_log)
        /\ UNCHANGED <<state, pc, regs, req, tbl, pool_used, result_desc, handlerVars, rq, qp,
                       delivered, cm, serverVars>>
        /\ srv # "dead"
  BY DEF ReadDone, SendQueueDone
<1>q. sq \in Seq(Op) /\ cq \in Seq(Completion) /\ cq' = Append(cq, Done("READ"))
  BY <1>0, <1>act DEF TypeQueues, Completes
<1>sq. Tail(sq) \in Seq(Op)
  BY <1>act, <1>q, TailOfQueue
<1>got. got \in Seq(0..MaxRequests) /\ got' \in Seq(0..MaxRequests)
  BY <1>0, <1>act DEF TypeQueues, TypePeer
<1>new. /\ cq' \in Seq(Completion) /\ event' \in BOOLEAN /\ armed' \in BOOLEAN
        /\ \A i \in 1 .. Len(cq') : cq'[i] # Done("OP")
  BY <1>0, <1>act, <1>ops, CompletesType
<1>type. TypeKsmd' /\ TypeQueues' /\ TypePeer' /\ Always'
  <2>1. TypeKsmd' /\ TypePeer'
    BY <1>0, <1>act DEF TypeKsmd, TypePeer
  <2>2. TypeQueues'
    BY <1>0, <1>act, <1>got, <1>sq, <1>new DEF TypeQueues
  <2>3. Always'
    BY <1>0, <1>act, <1>new DEF Always
  <2>4. QED
    BY <2>1, <2>2, <2>3
<1>1. CASE Reading
  <2>1. /\ pc # "read" /\ Only(sq, "READ") /\ Quiet /\ Len(got) = tbl
        /\ state \in {KSM_RDMA_READ_WAIT, KSM_ERROR}
    BY <1>1, <1>act DEF Reading, Part
  <2>2. Tail(sq) = <<>>
    BY <1>q, <1>ops, <2>1, OnlyQueue
  <2>3. Only(cq', Done("READ"))
    BY <1>q, <1>ops, <2>1, OnlyQueue DEF Quiet
  <2>4. Len(got') = tbl + 1 /\ \A i \in DOMAIN got' : got'[i] = req
    BY <1>0, <1>1, <1>act, <1>got, <2>1 DEF TypeKsmd, Reading, Answered
  <2>5. Part'
    BY <1>act, <2>1, <2>2, <2>3, <2>4 DEF Part, Quiet
  <2>6. Reading'
    BY <1>1, <1>act, <2>1, <2>4, <2>5 DEF Reading, Answered, ServerIdle
  <2>7. QED
    BY <1>type, <2>6 DEF ClientInv, Stage
<1>2. CASE Registering
  BY <1>2, <1>act, <1>q, <1>ops, RegsQueue DEF Registering
<1>3. CASE Unsent
  <2>1. PICK x \in {"SEND", "OP"} : RegsThen(sq, "REG", x)
    BY <1>3 DEF Unsent
  <2>2. Head(sq) \in {"REG", x}
    BY <1>act, <1>q, <1>ops, <2>1, RegsThenQueue
  <2>3. QED
    BY <1>act, <2>2
<1>4. CASE GivenUp
  BY <1>4, <1>act DEF GivenUp
<1>5. QED
  BY <1>0, <1>1, <1>2, <1>3, <1>4, <1>act
  DEF Stage, Connecting, Serving, Answering, AnswerIn, Applying, Taking, Broken

\* RetriesExhausted: what the connection was asked to do has not completed and
\* now never will.
LEMMA RetriesKeeps ==
  ASSUME ClientInv, RetriesExhausted
  PROVE  ClientInv'
<1> USE ClientAssumption DEF ksmdVars, handlerVars, adapterVars, serverVars
<1>0. TypeKsmd /\ TypeQueues /\ TypePeer /\ Always /\ Stage
  BY DEF ClientInv
<1>ops. {"REG", "SEND", "OP", "READ", "RECV"} \subseteq Op
  BY Completions
<1>act. /\ sq # <<>> /\ Head(sq) # "REG" /\ qp = "up" /\ sq' = Tail(sq) /\ qp' = "dead"
        /\ srv = "dead" /\ delivered' = FALSE
        /\ Completes([op |-> Head(sq), status |-> "error"])
        /\ UNCHANGED <<state, ksmdVars, result_desc, handlerVars, rq, cm, serverVars>>
  BY DEF RetriesExhausted
<1>q. sq \in Seq(Op) /\ cq \in Seq(Completion)
  BY <1>0 DEF TypeQueues
<1>sq. Tail(sq) \in Seq(Op) /\ Head(sq) \in Op
  BY <1>act, <1>q, TailOfQueue
<1>c. PICK c \in Completion :
        c = [op |-> Head(sq), status |-> "error"] /\ c.status = "error" /\ c # Done("OP")
  <2>1. PICK c \in Completion : c = [op |-> Head(sq), status |-> "error"]
    BY <1>sq, Completions
  <2>2. c.status = "error"
    BY <2>1
  <2>3. c # Done("OP")
    BY <2>2, <1>ops, Completions
  <2>4. QED
    BY <2>1, <2>2, <2>3
<1>cq. cq' = Append(cq, c) /\ Completes(c)
  BY <1>act, <1>c DEF Completes
<1>new. /\ cq' \in Seq(Completion) /\ event' \in BOOLEAN /\ armed' \in BOOLEAN
        /\ \A i \in 1 .. Len(cq') : cq'[i] # Done("OP")
  BY <1>0, <1>c, <1>cq, CompletesType
<1>type. TypeKsmd' /\ TypeQueues' /\ TypePeer' /\ Always'
  <2>1. TypeKsmd' /\ TypePeer'
    BY <1>0, <1>act DEF TypeKsmd, TypePeer
  <2>2. TypeQueues'
    BY <1>0, <1>act, <1>sq, <1>new DEF TypeQueues
  <2>3. Always'
    BY <1>0, <1>act, <1>new DEF Always
  <2>4. QED
    BY <2>1, <2>2, <2>3
<1>1. CASE Unsent
  <2>1. \A i \in 1 .. Len(cq') : cq'[i].status = "ok" => cq'[i] = Done("REG")
    BY <1>1, <1>q, <1>c, <1>cq DEF Unsent, Regs
  <2>2. Broken'
    BY <1>1, <1>act, <2>1 DEF Unsent, Asked, Broken, InHand
  <2>3. QED
    BY <1>type, <2>2 DEF ClientInv, Stage
<1>2. CASE Reading
  <2>1. pc # "read" /\ Quiet /\ state \in {KSM_RDMA_READ_WAIT, KSM_ERROR}
    BY <1>2, <1>act DEF Reading, Part
  <2>2. \A i \in 1 .. Len(cq') : cq'[i].status = "ok" => cq'[i] = Done("REG")
    BY <2>1, <1>q, <1>c, <1>cq DEF Quiet
  <2>3. Broken'
    BY <1>2, <1>act, <2>1, <2>2 DEF Reading, Reads, Quiet, Broken, Low, Asks, AsksBask, AsksStyx
  <2>4. QED
    BY <1>type, <2>3 DEF ClientInv, Stage
<1>3. CASE Registering
  BY <1>3, <1>act, <1>q, <1>ops, RegsQueue DEF Registering
<1>4. CASE GivenUp
  BY <1>4, <1>act, <1>type DEF GivenUp, ClientInv, Stage
<1>5. QED
  BY <1>0, <1>1, <1>2, <1>3, <1>4, <1>act
  DEF Stage, Connecting, Serving, Answering, AnswerIn, Applying, Taking, Broken

\* Flush: only after the queue pair broke.
LEMMA FlushKeeps ==
  ASSUME ClientInv, Flush
  PROVE  ClientInv'
<1> USE ClientAssumption DEF ksmdVars, handlerVars, adapterVars, serverVars
<1>0. TypeKsmd /\ TypeQueues /\ TypePeer /\ Always /\ Stage
  BY DEF ClientInv
<1>ops. {"REG", "SEND", "OP", "READ", "RECV"} \subseteq Op
  BY Completions
<1>q. sq \in Seq(Op) /\ cq \in Seq(Completion) /\ rq \in 0..1
  BY <1>0 DEF TypeQueues
<1>same. /\ qp = "dead" /\ (sq # <<>> \/ rq > 0)
         /\ UNCHANGED <<state, ksmdVars, result_desc, handlerVars, qp, delivered, cm, serverVars>>
  BY DEF Flush
<1>c. PICK c \in Completion : c.status = "flush" /\ c # Done("OP") /\ Completes(c)
  <2>1. CASE sq # <<>>
    <3>1. Head(sq) \in Op
      BY <1>q, <2>1
    <3>2. Completes([op |-> Head(sq), status |-> "flush"])
      BY <2>1 DEF Flush
    <3>3. QED
      BY <3>1, <3>2, Completions DEF Done
  <2>2. CASE sq = <<>>
    <3>1. Completes([op |-> "RECV", status |-> "flush"])
      BY <2>2 DEF Flush
    <3>2. QED
      BY <3>1, <1>ops, Completions DEF Done
  <2>3. QED
    BY <2>1, <2>2
<1>post. sq' \in Seq(Op) /\ rq' \in 0..1
  <2>1. CASE sq # <<>>
    <3>1. Tail(sq) \in Seq(Op)
      BY <1>q, <2>1, TailOfQueue
    <3>2. QED
      BY <1>q, <2>1, <3>1 DEF Flush
  <2>2. CASE sq = <<>>
    BY <1>q, <2>2 DEF Flush
  <2>3. QED
    BY <2>1, <2>2
<1>new. /\ cq' \in Seq(Completion) /\ event' \in BOOLEAN /\ armed' \in BOOLEAN
        /\ \A i \in 1 .. Len(cq') : cq'[i] # Done("OP")
  BY <1>0, <1>c, CompletesType
<1>type. TypeKsmd' /\ TypeQueues' /\ TypePeer' /\ Always'
  <2>1. TypeKsmd' /\ TypePeer'
    BY <1>0, <1>same DEF TypeKsmd, TypePeer
  <2>2. TypeQueues'
    BY <1>0, <1>same, <1>post, <1>new DEF TypeQueues
  <2>3. Always'
    BY <1>0, <1>same, <1>new DEF Always
  <2>4. QED
    BY <2>1, <2>2, <2>3
<1>1. CASE Broken
  <2>1. cq' = Append(cq, c)
    BY <1>c DEF Completes
  <2>2. \A i \in 1 .. Len(cq') : cq'[i].status = "ok" => cq'[i] = Done("REG")
    BY <1>1, <1>q, <1>c, <2>1 DEF Broken
  <2>3. Broken'
    BY <1>1, <1>same, <2>2 DEF Broken
  <2>4. QED
    BY <1>type, <2>3 DEF ClientInv, Stage
<1>2. CASE GivenUp
  BY <1>2, <1>same, <1>type DEF GivenUp, ClientInv, Stage
<1>3. QED
  BY <1>0, <1>1, <1>2, <1>same
  DEF Stage, Connecting, Connects, Registering, Unsent, Serving, Answering, AnswerIn,
      Asked, Reading,
      Applying, Taking

-----------------------------------------------------------------------------
(* The server.                                                             *)

\* ServerRecv: the request it takes is the one ksmd made last.
LEMMA ServerRecvKeeps ==
  ASSUME ClientInv, ServerRecv
  PROVE  ClientInv'
<1> USE ClientAssumption DEF ksmdVars, handlerVars, adapterVars, serverVars
<1>0. TypeKsmd /\ TypeQueues /\ TypePeer /\ Always /\ Stage
  BY DEF ClientInv
<1>ops. {"REG", "SEND", "OP", "READ", "RECV"} \subseteq Op
  BY Completions
<1>act. /\ srv = "ready" /\ qp = "up" /\ sq # <<>> /\ ~delivered
        /\ srv' = "serving" /\ srv_req' = req /\ srv_log' = 0
        /\ \/ Head(sq) = "SEND" /\ delivered' = TRUE /\ sq' = sq
           \/ Head(sq) = "OP" /\ sq' = Tail(sq) /\ delivered' = delivered
        /\ UNCHANGED <<state, ksmdVars, result_desc, handlerVars, rq, cq, armed, event, qp, cm,
                       losses, overtaken, mode>>
  BY DEF ServerRecv
<1>q. sq \in Seq(Op)
  BY <1>0 DEF TypeQueues
<1>sq. Tail(sq) \in Seq(Op)
  BY <1>act, <1>q, TailOfQueue
<1>type. TypeKsmd' /\ TypeQueues' /\ TypePeer' /\ Always'
  <2>1. TypeKsmd'
    BY <1>0, <1>act DEF TypeKsmd
  <2>2. TypePeer'
    BY <1>0, <1>act DEF TypePeer, TypeKsmd
  <2>3. sq' \in Seq(Op) /\ delivered' \in BOOLEAN
    BY <1>0, <1>act, <1>sq DEF TypeQueues
  <2>4. TypeQueues'
    BY <1>0, <1>act, <2>3 DEF TypeQueues
  <2>5. Always'
    BY <1>0, <1>act DEF Always
  <2>6. QED
    BY <2>1, <2>2, <2>4, <2>5
<1>1. CASE Unsent
  <2>1. PICK x \in {"SEND", "OP"} :
          x = (IF mode = "BASK" THEN "SEND" ELSE "OP") /\ RegsThen(sq, "REG", x)
    BY <1>1 DEF Unsent
  <2>2. /\ Len(sq) = 1 => Head(sq) = x /\ Tail(sq) = <<>>
        /\ Len(sq) # 1 => Head(sq) = "REG"
    BY <1>q, <1>ops, <2>1, RegsThenQueue
  <2>3. Len(sq) = 1 /\ Head(sq) = x /\ Tail(sq) = <<>>
    BY <1>act, <2>2
  <2>4. CASE x = "SEND"
    BY <1>1, <1>act, <1>type, <2>1, <2>3, <2>4
    DEF Unsent, Asked, InHand, ServerIdle, ClientInv, Stage
  <2>5. CASE x = "OP"
    <3>1. mode = "STYX"
      BY <1>0, <2>1, <2>5 DEF TypeKsmd
    <3>2. Serving'
      BY <1>1, <1>act, <2>1, <2>3, <2>5, <3>1 DEF Unsent, Serving, Asked, InHand
    <3>3. QED
      BY <1>type, <3>2 DEF ClientInv, Stage
  <2>6. QED
    BY <2>4, <2>5
<1>2. CASE Reading
  <2>1. Only(sq, "READ")
    BY <1>2, <1>act DEF Reading, Part
  <2>2. QED
    BY <1>act, <1>q, <1>ops, <2>1, OnlyQueue
<1>3. CASE Registering
  BY <1>3, <1>act, <1>q, <1>ops, RegsQueue DEF Registering
<1>4. QED
  BY <1>0, <1>1, <1>2, <1>3, <1>act
  DEF Stage, Connecting, Serving, Answering, AnswerIn, Applying, Taking, Broken, GivenUp

\* ServerSend, when the SEND has completed: the answer finds a receive, and its
\* completion comes behind the SEND's.
LEMMA ServerSendKeeps ==
  ASSUME ~overtaken', ClientInv, ServerSend
  PROVE  ClientInv'
<1> USE ClientAssumption DEF ksmdVars, handlerVars, adapterVars, serverVars
<1>0. TypeKsmd /\ TypeQueues /\ TypePeer /\ Always /\ Stage
  BY DEF ClientInv
<1>ops. /\ Done("RECV") \in Completion /\ Done("RECV") # Done("OP")
        /\ Done("REG") \in Completion /\ Done("SEND") \in Completion
  BY Completions DEF Done
<1>act. /\ srv = "serving" /\ qp = "up" /\ rq > 0 /\ ~delivered
        /\ srv' = "answered" /\ srv_log' = srv_req /\ rq' = rq - 1
        /\ Completes(Done("RECV"))
        /\ UNCHANGED <<state, ksmdVars, handlerVars, sq, qp, delivered, cm, srv_req, losses, mode>>
  BY DEF ServerSend
<1>res. result_desc' \in [id : 0..MaxRequests, tables : 0..MaxTables] /\ result_desc'.id = srv_req
  BY <1>0 DEF ServerSend, TypePeer
<1>q. cq \in Seq(Completion) /\ cq' = Append(cq, Done("RECV"))
  BY <1>0, <1>act DEF TypeQueues, Completes
<1>new. /\ cq' \in Seq(Completion) /\ event' \in BOOLEAN /\ armed' \in BOOLEAN
        /\ \A i \in 1 .. Len(cq') : cq'[i] # Done("OP")
  BY <1>0, <1>act, <1>ops, CompletesType
<1>type. TypeKsmd' /\ TypeQueues' /\ TypePeer' /\ Always'
  <2>0. overtaken' \in BOOLEAN
    BY Zenon DEF ServerSend
  <2>1. TypeKsmd' /\ TypePeer'
    BY <1>0, <1>act, <2>0 DEF TypeKsmd, TypePeer
  <2>2. rq' \in 0..1
    BY <1>0, <1>act DEF TypeQueues
  <2>3. TypeQueues'
    BY <1>0, <1>act, <1>res, <1>new, <2>2 DEF TypeQueues
  <2>4. Always'
    BY <1>0, <1>act, <1>new DEF Always
  <2>5. QED
    BY <2>1, <2>3, <2>4
<1>1. CASE Serving
  <2>1. Answered'
    BY <1>0, <1>1, <1>act, <1>res DEF Serving, Answered, ServerIdle
  <2>2. CASE mode = "BASK" /\ RegsThen(cq, Done("REG"), Done("SEND")) /\ InHand(Done("REG")) /\ state \in Low
    <3>1. RegsThen2(cq', Done("REG"), Done("SEND"), Done("RECV"))
      BY <1>q, <1>ops, <2>2, RegsThenQueue
    <3>2. Answering'
      BY <1>1, <1>act, <2>1, <2>2, <3>1 DEF Serving, Answering, Asked, InHand
    <3>3. QED
      BY <1>type, <3>2 DEF ClientInv, Stage
  <2>3. CASE mode = "BASK" /\ cq = <<>> /\ hpc = "apply" /\ wc = Done("SEND") /\ state \in Low
    <3>1. Only(cq', Done("RECV"))
      BY <1>q, <1>ops, <2>3, OnlyQueue
    <3>2. Answering'
      BY <1>1, <1>act, <2>1, <2>3, <3>1 DEF Serving, Answering, Asked
    <3>3. QED
      BY <1>type, <3>2 DEF ClientInv, Stage
  <2>4. CASE mode = "BASK" /\ Quiet /\ state \in {KSM_RDMA_SEND_COMPLETE, KSM_ERROR}
    <3>1. Only(cq', Done("RECV"))
      BY <1>q, <1>ops, <2>4, OnlyQueue DEF Quiet
    <3>2. Answering'
      BY <1>1, <1>act, <2>1, <2>4, <3>1 DEF Serving, Answering, Asked, Quiet
    <3>3. QED
      BY <1>type, <3>2 DEF ClientInv, Stage
  <2>5. CASE mode = "STYX" /\ Regs(cq, Done("REG")) /\ InHand(Done("REG")) /\ state \in Low
    <3>1. RegsThen(cq', Done("REG"), Done("RECV"))
      BY <1>q, <1>ops, <2>5, RegsQueue
    <3>2. Answering'
      BY <1>1, <1>act, <2>1, <2>5, <3>1 DEF Serving, Answering, Asked, InHand
    <3>3. QED
      BY <1>type, <3>2 DEF ClientInv, Stage
  <2>6. QED
    BY <1>1, <2>2, <2>3, <2>4, <2>5 DEF Serving
<1>2. QED
  BY <1>0, <1>1, <1>act
  DEF Stage, Connecting, Registering, Unsent, Answering, AnswerIn, Answered, Reading,
      Applying, Taking, Broken,
      GivenUp, ServerIdle

\* ServerPostRecv and ServerEnds: the stage stays.
LEMMA ServerMovesKeeps ==
  ASSUME ClientInv, ServerPostRecv \/ ServerEnds
  PROVE  ClientInv'
<1> USE ClientAssumption DEF ksmdVars, handlerVars, adapterVars, serverVars
<1>0. TypeKsmd /\ TypeQueues /\ TypePeer /\ Always /\ Stage
  BY DEF ClientInv
<1>act. /\ UNCHANGED <<state, ksmdVars, result_desc, handlerVars, adapterVars, cm, srv_req, srv_log, overtaken, mode>>
        /\ \/ srv = "answered" /\ srv' = "ready" /\ losses' = losses
           \/ /\ srv \in {"ready", "serving", "answered"} /\ srv' = "dead" /\ losses < MaxLosses
              /\ losses' = losses + 1
  BY DEF ServerPostRecv, ServerEnds
<1>type. TypeKsmd' /\ TypeQueues' /\ TypePeer' /\ Always'
  <2>1. TypeKsmd' /\ TypeQueues'
    BY <1>0, <1>act DEF TypeKsmd, TypeQueues
  <2>2. TypePeer'
    BY <1>0, <1>act DEF TypePeer
  <2>3. Always'
    BY <1>0, <1>act DEF TypePeer, Always
  <2>4. QED
    BY <2>1, <2>2, <2>3
<1>1. CASE Connecting \/ Registering
  BY <1>1, <1>act, <1>type
  DEF ClientInv, Stage, Connecting, Registering, ServerIdle, Quiet, InHand
<1>2. CASE Unsent \/ Serving
  BY <1>2, <1>act, <1>type DEF ClientInv, Stage, Unsent, Serving, Asked, ServerIdle, Quiet, InHand
<1>3. CASE Answering \/ AnswerIn
  BY <1>3, <1>act, <1>type
  DEF ClientInv, Stage, Answering, AnswerIn, Asked, Answered, ServerIdle, Quiet, InHand
<1>4. CASE Reading \/ Taking \/ Applying
  BY <1>4, <1>act, <1>type
  DEF ClientInv, Stage, Reading, Part, Answered, Applying, Taking, ResultIsOfThisRequest,
      ServerIdle, Quiet
<1>5. CASE Broken \/ GivenUp
  BY <1>5, <1>act, <1>type DEF ClientInv, Stage, Broken, GivenUp, Quiet
<1>6. QED
  BY <1>0, <1>1, <1>2, <1>3, <1>4, <1>5 DEF Stage

-----------------------------------------------------------------------------
(* The inductive invariant.                                                *)

\* ksmd starts without a connection.
LEMMA ClientInit == Init => ClientInv
<1> USE ClientAssumption
<1> SUFFICES ASSUME Init PROVE ClientInv
  OBVIOUS
<1>0. overtaken \in BOOLEAN
  BY Zenon DEF Init
<1>1. TypeKsmd /\ TypePeer
  BY <1>0 DEF Init, TypeKsmd, TypePeer, Connects
<1>2. TypeQueues
  <2>1. wc \in Completion
    BY Completions DEF Init
  <2>2. sq \in Seq(Op) /\ cq \in Seq(Completion) /\ got \in Seq(0..MaxRequests)
    BY DEF Init
  <2>3. result_desc \in [id : 0..MaxRequests, tables : 0..MaxTables]
    BY DEF Init, NoAnswer
  <2>4. armed \in BOOLEAN /\ event \in BOOLEAN /\ delivered \in BOOLEAN
    BY Zenon DEF Init
  <2>5. hpc \in {"idle", "poll", "apply"} /\ rq \in 0..1 /\ qp \in {"up", "dead"}
    BY DEF Init
  <2>6. QED
    BY <2>1, <2>2, <2>3, <2>4, <2>5 DEF TypeQueues
<1>3. Always
  BY DEF Init, Always, Connects
<1>4. Connecting
  BY DEF Init, Connecting, Connects, Quiet
<1>5. QED
  BY <1>1, <1>2, <1>3, <1>4 DEF ClientInv, Stage

\* Every step keeps ClientInv, unless an answer overtakes.
LEMMA ClientStep ==
  ASSUME ClientInv, [Next]_vars, ~overtaken'
  PROVE  ClientInv'
<1>1. CASE UNCHANGED vars
  <2> USE DEF vars, ksmdVars, handlerVars, adapterVars, serverVars
  <2>1. TypeKsmd' /\ TypeQueues' /\ TypePeer' /\ Always'
    BY <1>1 DEF ClientInv, TypeKsmd, TypeQueues, TypePeer, Always
  <2>2. Stage'
    BY <1>1
    DEF ClientInv, Stage, Connecting, Registering, Asked, Answered, Unsent, Serving,
        Answering,
      AnswerIn, Part, Reading, Applying, Taking, ResultIsOfThisRequest, Broken, GivenUp,
      ServerIdle, Quiet, InHand
  <2>3. QED
    BY <2>1, <2>2 DEF ClientInv
<1>2. CASE Ksmd
  BY <1>2, SetupKeeps, BindKeeps, ConnectKeeps, StoreKeeps, EstablishKeeps, StartRequestKeeps,
     RegMrKeeps, PollRegKeeps, MetaSendKeeps, SendWaitKeeps, RecvWaitKeeps, RecvCheckKeeps,
     ReadTableKeeps, ReadWaitKeeps, ReadCheckKeeps, AllReadKeeps, ApplyResultKeeps, StyxSendKeeps,
     StyxWaitKeeps, StyxResultKeeps, StyxTakeKeeps
  DEF Ksmd, ksm_rdma_result_recv, ksm_rdma_styx_memcmp
<1>3. CASE ksm_rdma_cma_event_handler
  BY <1>3, CmKeeps
<1>4. CASE ksm_rdma_cq_event_handler
  BY <1>4, HandlerEnterKeeps, HandlerPollKeeps, HandlerApplyKeeps DEF ksm_rdma_cq_event_handler
<1>5. CASE Adapter
  BY <1>5, RegisteredKeeps, AckedKeeps, ReadDoneKeeps, RetriesKeeps, FlushKeeps DEF Adapter
<1>6. CASE Server \/ ServerEnds
  BY <1>6, ServerRecvKeeps, ServerSendKeeps, ServerMovesKeeps DEF Server
<1>7. QED
  BY <1>1, <1>2, <1>3, <1>4, <1>5, <1>6 DEF Next

\* overtaken is a history variable: it is never reset.
LEMMA OvertakenStays ==
  ASSUME overtaken, [Next]_vars
  PROVE  overtaken'
<1> USE DEF vars, serverVars
<1>1. CASE UNCHANGED vars
  BY <1>1
<1>2. CASE Ksmd
  <2> USE DEF KsmdGoesOn, ResultFails, ReadInto, PartRead
  <2>1. CASE ksm_rdma_result_recv
    BY <2>1 DEF ksm_rdma_result_recv, RecvWait, RecvCheck, ReadTable, ReadWait, ReadCheck, AllRead
  <2>2. CASE ksm_rdma_styx_memcmp
    BY <2>2 DEF ksm_rdma_styx_memcmp, StyxSend, StyxWait, StyxResult, StyxTake
  <2>3. QED
    BY <1>2, <2>1, <2>2
    DEF Ksmd, ksm_cb_setup_client, ksm_rdma_bind_client, rdma_connect, StoreConnectRequest,
        ksm_connect_client, StartRequest, ksm_rdma_reg_mr, PollReg, ksm_rdma_meta_send,
        SendWait, ApplyResult
<1>3. CASE ksm_rdma_cma_event_handler
  BY <1>3
  DEF ksm_rdma_cma_event_handler, AddrResolved, RouteResolved, Established, ConnectError,
      Disconnected
<1>4. CASE ksm_rdma_cq_event_handler
  BY <1>4 DEF ksm_rdma_cq_event_handler, HandlerEnter, HandlerPoll, HandlerApply
<1>5. CASE Adapter
  BY <1>5 DEF Adapter, Registered, Acked, ReadDone, SendQueueDone, RetriesExhausted, Flush
<1>6. CASE Server \/ ServerEnds
  BY <1>6 DEF Server, ServerRecv, ServerSend, ServerPostRecv, ServerEnds
<1>7. QED
  BY <1>1, <1>2, <1>3, <1>4, <1>5, <1>6 DEF Next

\* ClientInv holds in every reachable state of the connection before the first
\* answer that overtakes the completion of its SEND.
THEOREM ClientInvariant == Spec => [](overtaken \/ ClientInv)
<1>1. Init => (overtaken \/ ClientInv)
  BY ClientInit
<1>2. (overtaken \/ ClientInv) /\ [Next]_vars => (overtaken \/ ClientInv)'
  BY ClientStep, OvertakenStays
<1>3. QED
  BY <1>1, <1>2, PTL DEF Spec

-----------------------------------------------------------------------------
(* What follows from it.                                                   *)

LEMMA ClientInvTypes == ClientInv => TypeOK
<1> SUFFICES ASSUME ClientInv PROVE TypeOK
  OBVIOUS
<1>0. TypeKsmd /\ TypeQueues /\ TypePeer
  BY DEF ClientInv
<1>1. pc \in {"start", "bind", "connect", "requested", "establish", "idle", "reg",
              "regpoll", "send", "sendwait", "recvwait", "recvcheck", "read",
              "readwait", "readcheck", "apply", "op", "opwait", "opcheck", "optake",
              "host", "opfailed", "stopped"}
  BY <1>0 DEF TypeKsmd, Connects, Asks, AsksBask, AsksStyx, Reads
<1>2. armed \in BOOLEAN /\ event \in BOOLEAN /\ delivered \in BOOLEAN
  BY <1>0, Zenon DEF TypeQueues
<1>3. QED
  BY <1>0, <1>1, <1>2, Zenon DEF TypeOK, TypeKsmd, TypeQueues, TypePeer

LEMMA ClientInvResult == ClientInv => ResultIsOfThisRequest
<1> SUFFICES ASSUME ClientInv, pc = "apply" PROVE ResultIsOfThisRequest
  BY DEF ResultIsOfThisRequest
<1>1. Applying
  BY StageOfPc DEF ClientInv
<1>2. QED
  BY <1>1 DEF Applying

LEMMA ClientInvPolled == ClientInv => OnlyRegistrationsPolled
BY StageOfPc DEF ClientInv, OnlyRegistrationsPolled

LEMMA ClientInvReceive == ClientInv => AnswerFindsReceive
<1> SUFFICES ASSUME ClientInv, srv = "serving", qp = "up" PROVE rq = 1
  BY DEF AnswerFindsReceive
<1>1. Stage
  BY DEF ClientInv
<1>2. Unsent \/ Serving
  BY <1>1 DEF Stage, Connecting, Registering, Answering, AnswerIn, Answered, Reading, Applying, Taking,
              Broken, GivenUp, ServerIdle
<1>3. QED
  BY <1>2 DEF Unsent, Serving

LEMMA ClientInvGivesUp == ClientInv => GivesUpForCause
<1> SUFFICES ASSUME ClientInv, pc \in {"host", "opfailed"}
             PROVE  losses > 0 \/ pool_used = MAX_HUGE_ALLOC
  BY DEF GivesUpForCause
<1>1. GivenUp /\ Always
  BY StageOfPc DEF ClientInv
<1>2. QED
  BY <1>1 DEF GivenUp, Always

\* The variables of the stub keep their types: no counter of huge_allocator runs
\* below zero or beyond the reserve, and no second receive is ever posted, as
\* long as no answer overtakes the completion of its SEND.
THEOREM ClientTypes == Spec => [](overtaken \/ TypeOK)
BY ClientInvariant, ClientInvTypes, PTL

\* What ksm_rdma_result_recv, or a single operation, returns is the result of
\* the request just made: all parts of the table, none of an earlier one; again
\* before an answer overtakes.
THEOREM ResultTheorem == Spec => [](overtaken \/ ResultIsOfThisRequest)
BY ClientInvariant, ClientInvResult, PTL

\* ksm_rdma_reg_mr, polling the queue that it shares with the completion
\* handler, meets a completion that stops ksmd ("unexpected wr_id") only after
\* an answer has overtaken the completion of its SEND.
THEOREM PolledTheorem == Spec => []OnlyRegistrationsPolled
<1>1. overtaken => OnlyRegistrationsPolled
  BY DEF OnlyRegistrationsPolled
<1>2. QED
  BY <1>1, ClientInvariant, ClientInvPolled, PTL

\* The server's answer finds the receive that the previous call of
\* ksm_rdma_result_recv (or the set-up) posted, as long as no answer overtakes.
THEOREM ReceiveTheorem == Spec => [](overtaken \/ AnswerFindsReceive)
BY ClientInvariant, ClientInvReceive, PTL

\* ksmd stops offloading only when the server has ended, the reserve of buffers
\* is used up, or an answer has overtaken the completion of its SEND.
THEOREM GivesUpTheorem == Spec => []GivesUpForCause
<1>1. overtaken => GivesUpForCause
  BY DEF GivesUpForCause
<1>2. QED
  BY <1>1, ClientInvariant, ClientInvGivesUp, PTL
=============================================================================
