-------------------------------- MODULE BRAM --------------------------------
(***************************************************************************)
(* The simulator's block RAM (bram.cc, bram_wrapper.cc): a memory that     *)
(* accepts timing requests up to a queue size, queues responses, and       *)
(* handles refusals on both sides of its port.  A packet is known by a     *)
(* number; a step is one event or one call of the port.  sendTimingResp    *)
(* is a call into the requester, which may send new requests before it     *)
(* returns, so a taken response is popped in a step of its own.            *)
(***************************************************************************)
EXTENDS Integers, Sequences, FiniteSets

CONSTANTS Addrs,        \* the addresses that the packets carry
          widthBytes,   \* _widthBytes
          depth,        \* _depth
          queueSize,    \* _queueSize
          latency,      \* _latency
          MaxPackets    \* bound: packets the requesters send

ASSUME BRAMAssumption ==
    /\ Addrs \subseteq Nat
    /\ widthBytes \in Nat \ {0}
    /\ depth \in Nat
    /\ queueSize \in Nat \ {0}
    /\ latency \in Nat
    /\ MaxPackets \in Nat

VARIABLES
    outstandingReads,     \* the packets of the per-address read queues
    outstandingWrites,    \* the packets of the per-address write queues
    pendingTransactions,  \* wrapper: cycles_remaining by packet
    responseQueue,        \* packets whose response is not sent
    sendScheduled,        \* sendResponseEvent.scheduled()
    retryReq,             \* a refused requester waits for sendRetryReq
    retryResp,            \* a refused response waits for recvRespRetry
    drainState,           \* what the drain manager was told last
    failed,               \* the assertion that stopped the simulator
    sending,              \* sendTimingResp was accepted, has not returned
    issued,               \* packets sent so far
    waiting,              \* refused packets, to be sent again
    blocked,              \* a refused requester has not been called back
    owed,                 \* history: packets put into responseQueue
    answered              \* history: responses the requesters took

memory == <<outstandingReads, outstandingWrites, pendingTransactions>>
requester == <<issued, waiting, blocked>>
vars == <<memory, responseQueue, sendScheduled, retryReq, retryResp,
          drainState, failed, sending, requester, owed, answered>>

Ids == 1..MaxPackets
Packet == [id : Ids, kind : {"read", "write", "other", "cached"},
           addr : Addrs, needsResponse : BOOLEAN]

Init ==
    /\ outstandingReads = {} /\ outstandingWrites = {}
    /\ pendingTransactions = [p \in {} |-> 0]
    /\ responseQueue = <<>> /\ sendScheduled = FALSE
    /\ retryReq = FALSE /\ retryResp = FALSE
    /\ drainState = "Running" /\ failed = "none"
    /\ sending = FALSE
    /\ issued = 0 /\ waiting = {} /\ blocked = FALSE
    /\ owed = <<>> /\ answered = <<>>

nbrOutstanding ==
    Cardinality(outstandingReads) + Cardinality(outstandingWrites)
        + Len(responseQueue)

\* Deliberate errors: one request too many; the wrapper's queue alone.
can_acceptOneMore == nbrOutstanding <= queueSize
can_acceptWrapper == Cardinality(DOMAIN pendingTransactions) < queueSize
can_accept == nbrOutstanding < queueSize

-----------------------------------------------------------------------------
(* The wrapper.                                                            *)

InRange(addr) == addr \div widthBytes < depth

\* canAccept with the reason of a refusal.
canAccept(addr) ==
    IF Cardinality(DOMAIN pendingTransactions) >= queueSize THEN "queue"
    ELSE IF ~InRange(addr) THEN "range" ELSE "none"

\* The assertion on canAccept, and the transaction with its latency.
enqueue(pkt) ==
    /\ failed' = canAccept(pkt.addr)
    /\ pendingTransactions' =
           [p \in DOMAIN pendingTransactions \cup {pkt.id} |->
                IF p = pkt.id THEN latency ELSE pendingTransactions[p]]

\* One cycle; a transaction that reaches zero is erased, and nobody is told.
wrapperTick ==
    pendingTransactions' =
        [p \in {q \in DOMAIN pendingTransactions : pendingTransactions[q] > 1}
            |-> pendingTransactions[p] - 1]

-----------------------------------------------------------------------------
(* Requests.                                                               *)

\* Deliberate error: the response overtakes the queue.
accessAndRespondFront(pkt) ==
    IF pkt.needsResponse
    THEN /\ responseQueue' = <<pkt.id>> \o responseQueue
         /\ owed' = Append(owed, pkt.id)
         /\ sendScheduled' = (sendScheduled \/ ~retryResp)
    ELSE UNCHANGED <<responseQueue, owed, sendScheduled>>

accessAndRespond(pkt) ==
    IF pkt.needsResponse
    THEN /\ responseQueue' = Append(responseQueue, pkt.id)
         /\ owed' = Append(owed, pkt.id)
         /\ sendScheduled' = (sendScheduled \/ ~retryResp)
    ELSE UNCHANGED <<responseQueue, owed, sendScheduled>>

\* recvTimingReq returns true, or false: the requester keeps the packet and
\* waits for sendRetryReq.
Accepts(pkt) ==
    waiting' = waiting \ {pkt} /\ UNCHANGED blocked
Refuses(pkt) ==
    waiting' = waiting \cup {pkt} /\ blocked' = TRUE

Snooped(pkt) ==
    /\ pkt.kind = "cached"
    /\ Accepts(pkt)
    /\ UNCHANGED <<memory, responseQueue, sendScheduled, retryReq, failed, owed>>

Busy(pkt) ==
    /\ pkt.kind # "cached" /\ retryReq
    /\ Refuses(pkt)
    /\ UNCHANGED <<memory, responseQueue, sendScheduled, retryReq, failed, owed>>

Read(pkt) ==
    /\ pkt.kind = "read" /\ ~retryReq /\ can_accept
    /\ outstandingReads' = outstandingReads \cup {pkt.id}
    /\ enqueue(pkt)
    /\ Accepts(pkt)
    /\ UNCHANGED <<outstandingWrites, responseQueue, sendScheduled, retryReq, owed>>

Write(pkt) ==
    /\ pkt.kind = "write" /\ ~retryReq /\ can_accept
    /\ outstandingWrites' = outstandingWrites \cup {pkt.id}
    /\ accessAndRespond(pkt)
    /\ enqueue(pkt)
    /\ Accepts(pkt)
    /\ UNCHANGED <<outstandingReads, retryReq>>

Other(pkt) ==
    /\ pkt.kind = "other" /\ ~retryReq
    /\ accessAndRespond(pkt)
    /\ Accepts(pkt)
    /\ UNCHANGED <<memory, retryReq, failed>>

\* Deliberate error: the refusal is not remembered.
FullForgets(pkt) ==
    /\ pkt.kind \in {"read", "write"} /\ ~retryReq /\ ~can_accept
    /\ Refuses(pkt)
    /\ UNCHANGED <<memory, responseQueue, sendScheduled, retryReq, failed, owed>>

Full(pkt) ==
    /\ pkt.kind \in {"read", "write"} /\ ~retryReq /\ ~can_accept
    /\ retryReq' = TRUE
    /\ Refuses(pkt)
    /\ UNCHANGED <<memory, responseQueue, sendScheduled, failed, owed>>

recvTimingReq(pkt) ==
    /\ failed = "none"
    /\ \/ Snooped(pkt) \/ Busy(pkt) \/ Read(pkt) \/ Write(pkt)
       \/ Other(pkt) \/ Full(pkt)
    /\ UNCHANGED <<retryResp, drainState, sending, answered>>

\* A requester sends a new packet; a read always asks for a response.
Send(pkt) ==
    /\ pkt.id = issued + 1
    /\ pkt.kind = "read" => pkt.needsResponse
    /\ recvTimingReq(pkt)
    /\ issued' = pkt.id

\* A packet that was refused is sent again, unless a call back is pending.
Resend(pkt) ==
    /\ ~blocked
    /\ recvTimingReq(pkt)
    /\ UNCHANGED issued

-----------------------------------------------------------------------------
(* Responses.  The call to the requester is accepted or refused.           *)

\* sendResponse up to the call, with the event scheduled or not.
sendResponse(scheduled) ==
    IF responseQueue = <<>>
    THEN /\ failed' = "response"
         /\ UNCHANGED <<retryResp, sending, answered>>
    ELSE \/ /\ sending' = TRUE
            /\ retryResp' = FALSE
            /\ answered' = Append(answered, Head(responseQueue))
            /\ UNCHANGED failed
         \/ /\ retryResp' = TRUE
            /\ failed' = IF scheduled THEN "response" ELSE "none"
            /\ UNCHANGED <<sending, answered>>

\* The event loop: nothing failed and no call is on the stack.
Idle == failed = "none" /\ ~sending

sendResponseEvent ==
    /\ Idle /\ sendScheduled
    /\ sendScheduled' = FALSE
    /\ IF retryResp
       THEN failed' = "response" /\ UNCHANGED <<retryResp, sending, answered>>
       ELSE sendResponse(FALSE)
    /\ UNCHANGED <<memory, responseQueue, retryReq, drainState, requester, owed>>

\* Deliberate error: the retry is noted but the response is not sent.
recvRespRetryIdle ==
    /\ Idle /\ retryResp
    /\ retryResp' = FALSE
    /\ UNCHANGED <<memory, responseQueue, sendScheduled, retryReq, drainState,
                   failed, sending, requester, owed, answered>>

recvRespRetry ==
    /\ Idle /\ retryResp
    /\ sendResponse(sendScheduled)
    /\ UNCHANGED <<memory, responseQueue, sendScheduled, retryReq, drainState,
                   requester, owed>>

signalDrainDone == drainState' = IF drainState = "Draining" THEN "Drained" ELSE drainState

\* Deliberate error: the next response is not scheduled.
ResponseSentLast ==
    /\ failed = "none" /\ sending
    /\ sending' = FALSE
    /\ responseQueue' = Tail(responseQueue)
    /\ UNCHANGED <<memory, sendScheduled, retryReq, retryResp, failed, requester,
                   owed, answered>>
    /\ IF nbrOutstanding' = 0 THEN signalDrainDone ELSE UNCHANGED drainState

\* sendTimingResp returns true.
ResponseSent ==
    /\ failed = "none" /\ sending
    /\ sending' = FALSE
    /\ responseQueue' = Tail(responseQueue)
    /\ sendScheduled' = (sendScheduled \/ responseQueue' # <<>>)
    /\ UNCHANGED <<memory, retryReq, retryResp, failed, requester, owed, answered>>
    /\ IF nbrOutstanding' = 0 THEN signalDrainDone ELSE UNCHANGED drainState

-----------------------------------------------------------------------------
(* Clock, draining, statistics.                                            *)

tick ==
    /\ Idle
    /\ wrapperTick
    /\ IF retryReq /\ can_accept
       THEN retryReq' = FALSE /\ blocked' = FALSE
       ELSE UNCHANGED <<retryReq, blocked>>
    /\ UNCHANGED <<outstandingReads, outstandingWrites, responseQueue,
                   sendScheduled, retryResp, drainState, failed, sending,
                   issued, waiting, owed, answered>>

\* Deliberate error: queued responses do not count.
drainEarly ==
    /\ Idle
    /\ drainState' = IF outstandingReads \cup outstandingWrites # {}
                     THEN "Draining" ELSE "Drained"
    /\ UNCHANGED <<memory, responseQueue, sendScheduled, retryReq, retryResp,
                   failed, sending, requester, owed, answered>>

drain ==
    /\ Idle
    /\ drainState' = IF nbrOutstanding # 0 THEN "Draining" ELSE "Drained"
    /\ UNCHANGED <<memory, responseQueue, sendScheduled, retryReq, retryResp,
                   failed, sending, requester, owed, answered>>

\* The drain manager resumes a drained simulation.
drainResume ==
    /\ Idle /\ drainState = "Drained"
    /\ drainState' = "Running"
    /\ UNCHANGED <<memory, responseQueue, sendScheduled, retryReq, retryResp,
                   failed, sending, requester, owed, answered>>

resetStats ==
    /\ Idle
    /\ pendingTransactions' = [p \in {} |-> 0]
    /\ UNCHANGED <<outstandingReads, outstandingWrites, responseQueue,
                   sendScheduled, retryReq, retryResp, drainState, failed,
                   sending, requester, owed, answered>>

\* An assertion failed: the simulator has stopped.
Stopped == failed # "none" /\ UNCHANGED vars

Next ==
    \/ \E pkt \in Packet : Send(pkt)
    \/ \E pkt \in waiting : Resend(pkt)
    \/ sendResponseEvent \/ recvRespRetry \/ ResponseSent
    \/ tick \/ drain \/ drainResume \/ resetStats
    \/ Stopped

Spec == Init /\ [][Next]_vars

\* The event queue runs scheduled events, a call returns, and a requester
\* that refused a response asks for it again and takes it in the end.
FairSpec ==
    /\ Spec
    /\ WF_vars(sendResponseEvent) /\ WF_vars(ResponseSent)
    /\ WF_vars(recvRespRetry) /\ WF_vars(tick)
    /\ SF_vars(recvRespRetry /\ sending')

-----------------------------------------------------------------------------
TypeOK ==
    /\ outstandingReads \subseteq Ids /\ outstandingWrites \subseteq Ids
    /\ DOMAIN pendingTransactions \subseteq Ids
    /\ \A p \in DOMAIN pendingTransactions : pendingTransactions[p] \in 0..latency
    /\ responseQueue \in Seq(Ids) /\ owed \in Seq(Ids) /\ answered \in Seq(Ids)
    /\ sendScheduled \in BOOLEAN /\ retryReq \in BOOLEAN /\ retryResp \in BOOLEAN
    /\ drainState \in {"Running", "Draining", "Drained"}
    /\ failed \in {"none", "range", "queue", "response"}
    /\ sending \in BOOLEAN /\ blocked \in BOOLEAN
    /\ issued \in 0..MaxPackets
    /\ waiting \subseteq Packet

\* Of the assertions in recvTimingReq, enqueue and sendResponse only the range
\* test of canAccept can fail, and only when packets carry addresses beyond
\* the memory (the test takes the absolute address for an offset): the wrapper
\* never overflows, and the response event never finds an empty queue or a
\* pending retry, whatever the requesters do inside sendTimingResp.
AssertionsHold ==
    failed # "none" => failed = "range" /\ \E a \in Addrs : ~InRange(a)

\* Every response is delivered once and in the order in which the accesses
\* were made: what was taken, followed by what is queued, is what was owed;
\* a refused response is neither lost nor sent twice.
ResponsesInOrder ==
    owed = answered \o (IF sending THEN Tail(responseQueue) ELSE responseQueue)

\* A queued response always has exactly one thing that will send it: the
\* scheduled event or the retry of the requester that refused it.
ResponseHasSender ==
    (failed = "none" /\ ~sending /\ responseQueue # <<>>)
        => (sendScheduled <=> ~retryResp)

\* A requester that was refused is one that tick will call back.
RefusedIsCalledBack == blocked => retryReq

\* The capacity is spent for good: completions are not reported back, so the
\* reads and writes accepted in a whole simulation never exceed the queue size.
CapacityIsSpent ==
    Cardinality(outstandingReads \cup outstandingWrites) <= queueSize

\* The strengthening the proofs rest on: every transaction of the wrapper is
\* counted as outstanding, the accepted requests fit the queue size, and the
\* event and the retry of sendResponse exclude each other and announce a
\* response that is there, also behind the one being sent.
Inductive ==
    /\ TypeOK
    /\ DOMAIN pendingTransactions \subseteq outstandingReads \cup outstandingWrites
    /\ Cardinality(outstandingReads) + Cardinality(outstandingWrites) <= queueSize
    /\ failed = "none" =>
        /\ ~(sendScheduled /\ retryResp)
        /\ sendScheduled \/ retryResp \/ sending <=> responseQueue # <<>>
        /\ sending => ~retryResp /\ (sendScheduled => Len(responseQueue) > 1)
    /\ ResponsesInOrder
    /\ RefusedIsCalledBack
    /\ AssertionsHold

\* The drain manager hears "Drained" only when nothing is outstanding.
DrainedIsIdle ==
    [][drainState' = "Drained" /\ drainState # "Drained" => nbrOutstanding' = 0]_vars

\* Every queued response is taken in the end.
ResponsesDelivered ==
    \A p \in Ids : (\E k \in DOMAIN owed : owed[k] = p)
        ~> (failed # "none" \/ \E k \in DOMAIN answered : answered[k] = p)

\* Every accepted read is answered, as update.md shows it in the simulation's
\* output ("Transaction complete", "Attempting to send response", "Have 0
\* read, 0 write, 0 responses outstanding").
ReadsAnswered ==
    \A p \in Ids : p \in outstandingReads
        ~> (failed # "none" \/ \E k \in DOMAIN answered : answered[k] = p)
=============================================================================
