----------------------------- MODULE BRAMProofs -----------------------------
(***************************************************************************)
(* Proofs about BRAM for every queue size, latency, number of packets and  *)
(* set of addresses.                                                       *)
(***************************************************************************)
EXTENDS BRAM, FiniteSetTheorems, SequenceTheorems, TLAPS

\* What is queued is counted by the length of a sequence and the size of
\* finite sets of packets.
LEMMA Counting ==
    ASSUME NEW S \in SUBSET Ids, NEW T \in SUBSET Ids
    PROVE  /\ IsFiniteSet(S) /\ Cardinality(S) \in Nat
           /\ Cardinality(S \cup T) <= Cardinality(S) + Cardinality(T)
           /\ \A U : U \subseteq S => Cardinality(U) <= Cardinality(S)
<1>1. IsFiniteSet(Ids)
  BY FS_Interval, BRAMAssumption DEF Ids
<1>2. IsFiniteSet(S) /\ IsFiniteSet(T)
  BY <1>1, FS_Subset
<1>3. IsFiniteSet(S \cap T)
  BY <1>2, FS_Subset
<1>4. /\ Cardinality(S) \in Nat /\ Cardinality(T) \in Nat
      /\ Cardinality(S \cap T) \in Nat
  BY <1>2, <1>3, FS_CardinalityType
<1>5. Cardinality(S \cup T) = Cardinality(S) + Cardinality(T) - Cardinality(S \cap T)
  BY <1>2, FS_Union
<1>6. ASSUME NEW U, U \subseteq S
      PROVE  Cardinality(U) <= Cardinality(S)
  BY <1>2, <1>6, FS_Subset
<1> QED
  BY <1>2, <1>4, <1>5, <1>6

\* A further packet adds at most one.
LEMMA CountOneMore ==
    ASSUME NEW S \in SUBSET Ids, NEW p \in Ids
    PROVE  Cardinality(S \cup {p}) \in Nat /\ Cardinality(S \cup {p}) <= Cardinality(S) + 1
<1>1. IsFiniteSet(S) /\ Cardinality(S) \in Nat
  BY Counting
<1>2. Cardinality(S \cup {p}) = IF p \in S THEN Cardinality(S) ELSE Cardinality(S) + 1
  BY <1>1, FS_AddElement
<1> QED
  BY <1>1, <1>2

\* The operations of the order invariant under names that the provers leave
\* folded.
Then(s, q) == s \o q
Queued(q, e) == Append(q, e)
Rest(q) == Tail(q)

\* Queueing at the end extends both sides of the order invariant alike.
LEMMA QueueAtEnd ==
    ASSUME NEW S, NEW s \in Seq(S), NEW q \in Seq(S), NEW e \in S
    PROVE  Queued(Then(s, q), e) = Then(s, Queued(q, e))
<1>1. Append(s \o q, e) \in Seq(S) /\ s \o Append(q, e) \in Seq(S)
  OBVIOUS
<1>2. Len(Append(s \o q, e)) = Len(s \o Append(q, e))
  OBVIOUS
<1>3. \A i \in 1..Len(Append(s \o q, e)) : Append(s \o q, e)[i] = (s \o Append(q, e))[i]
  OBVIOUS
<1>4. Append(s \o q, e) = s \o Append(q, e)
  BY <1>1, <1>2, <1>3, SeqEqual, ZenonT(30)
<1> QED
  BY <1>4 DEF Then, Queued

\* Queueing does not disturb what is behind the head.
LEMMA QueueBehind ==
    ASSUME NEW S, NEW q \in Seq(S), NEW e \in S, q # <<>>
    PROVE  Rest(q) \in Seq(S) /\ Rest(Queued(q, e)) = Queued(Rest(q), e)
<1>1. Tail(q) \in Seq(S) /\ Tail(Append(q, e)) \in Seq(S) /\ Append(Tail(q), e) \in Seq(S)
  OBVIOUS
<1>2. Len(Tail(Append(q, e))) = Len(Append(Tail(q), e))
  OBVIOUS
<1>3. \A i \in 1..Len(Append(Tail(q), e)) : Tail(Append(q, e))[i] = Append(Tail(q), e)[i]
  OBVIOUS
<1>4. Tail(Append(q, e)) = Append(Tail(q), e)
  BY <1>1, <1>2, <1>3, SeqEqual
<1> QED
  BY <1>1, <1>4 DEF Rest, Queued

\* Taking the head moves it from one side to the other.
LEMMA TakeHead ==
    ASSUME NEW S, NEW s \in Seq(S), NEW q \in Seq(S), q # <<>>
    PROVE  Head(q) \in S /\ Then(Queued(s, Head(q)), Rest(q)) = Then(s, q)
<1>1. Head(q) \in S /\ Tail(q) \in Seq(S) /\ Len(Tail(q)) = Len(q) - 1
  OBVIOUS
<1>2. Append(s, Head(q)) \o Tail(q) \in Seq(S) /\ s \o q \in Seq(S)
  BY <1>1
<1>3. Len(Append(s, Head(q)) \o Tail(q)) = Len(s \o q)
  BY <1>1
<1>4. \A i \in 1..Len(s \o q) : (Append(s, Head(q)) \o Tail(q))[i] = (s \o q)[i]
  BY <1>1
<1>5. Append(s, Head(q)) \o Tail(q) = s \o q
  BY <1>2, <1>3, <1>4, SeqEqual
<1> QED
  BY <1>1, <1>5 DEF Then, Queued, Rest

\* The order invariant in those names.
LEMMA OrderInNames ==
    ResponsesInOrder <=> owed = Then(answered, IF sending THEN Rest(responseQueue)
                                                          ELSE responseQueue)
BY Zenon DEF ResponsesInOrder, Then, Rest

-----------------------------------------------------------------------------
\* The initial state satisfies the inductive invariant.
LEMMA InitInductive == Init => Inductive
<1> SUFFICES ASSUME Init PROVE Inductive
  OBVIOUS
<1>1. Cardinality({}) = 0
  BY FS_EmptySet
<1>2. TypeOK
  <2>1. <<>> \in Seq(Ids) /\ 0 \in 0..MaxPackets
    BY BRAMAssumption
  <2>2. DOMAIN pendingTransactions = {}
    BY DEF Init
  <2> QED
    BY <2>1, <2>2, Zenon DEF Init, TypeOK
<1>3. DOMAIN pendingTransactions \subseteq outstandingReads \cup outstandingWrites
  BY DEF Init
<1>4. Cardinality(outstandingReads) + Cardinality(outstandingWrites) <= queueSize
  BY <1>1, BRAMAssumption DEF Init
<1>5. ResponsesInOrder
  BY DEF Init, ResponsesInOrder
<1> QED
  BY <1>2, <1>3, <1>4, <1>5
  DEF Init, Inductive, RefusedIsCalledBack, AssertionsHold

\* What the counts of accepted requests say when one more is accepted: the
\* wrapper's queue is not full, so only the range test of canAccept can fail.
LEMMA AcceptedFits ==
    ASSUME Inductive, can_accept, NEW a \in Addrs
    PROVE  /\ Cardinality(outstandingReads) + Cardinality(outstandingWrites) < queueSize
           /\ canAccept(a) = IF InRange(a) THEN "none" ELSE "range"
<1> USE DEF Inductive, TypeOK
<1>1. /\ Cardinality(outstandingReads) \in Nat /\ Cardinality(outstandingWrites) \in Nat
      /\ Cardinality(outstandingReads \cup outstandingWrites)
             <= Cardinality(outstandingReads) + Cardinality(outstandingWrites)
      /\ Cardinality(outstandingReads \cup outstandingWrites) \in Nat
      /\ Cardinality(DOMAIN pendingTransactions) \in Nat
  BY Counting, Zenon
<1>2. Cardinality(DOMAIN pendingTransactions)
          <= Cardinality(outstandingReads \cup outstandingWrites)
  BY Counting, Zenon
<1>3. Len(responseQueue) \in Nat
  OBVIOUS
<1>4. Cardinality(outstandingReads) + Cardinality(outstandingWrites) < queueSize
  BY <1>1, <1>3, BRAMAssumption DEF can_accept, nbrOutstanding
<1>5. ~(Cardinality(DOMAIN pendingTransactions) >= queueSize)
  BY <1>1, <1>2, <1>4, BRAMAssumption
<1> QED
  BY <1>4, <1>5 DEF canAccept

\* Queueing a response keeps the order, the event and the retry consistent.
LEMMA RespondStep ==
    ASSUME Inductive, failed = "none", NEW pkt \in Packet, accessAndRespond(pkt),
           UNCHANGED <<retryResp, sending, answered>>
    PROVE  /\ responseQueue' \in Seq(Ids) /\ owed' \in Seq(Ids)
           /\ sendScheduled' \in BOOLEAN
           /\ ~(sendScheduled' /\ retryResp)
           /\ sendScheduled' \/ retryResp \/ sending <=> responseQueue' # <<>>
           /\ sending => ~retryResp /\ (sendScheduled' => Len(responseQueue') > 1)
           /\ ResponsesInOrder'
<1> USE DEF Inductive, TypeOK
<1>1. pkt.id \in Ids /\ pkt.needsResponse \in BOOLEAN
  BY DEF Packet
<1>2. /\ answered \in Seq(Ids) /\ responseQueue \in Seq(Ids) /\ ResponsesInOrder
      /\ sending => responseQueue # <<>>
  BY Zenon
<1>3. CASE ~pkt.needsResponse
  BY <1>3, Zenon DEF accessAndRespond, ResponsesInOrder
<1>4. CASE pkt.needsResponse
  <2>1. /\ responseQueue' = Append(responseQueue, pkt.id)
        /\ owed' = Append(owed, pkt.id)
        /\ sendScheduled' = (sendScheduled \/ ~retryResp)
    BY <1>4 DEF accessAndRespond
  <2>2. /\ responseQueue' \in Seq(Ids) /\ owed' \in Seq(Ids)
        /\ responseQueue' # <<>> /\ Len(responseQueue') = Len(responseQueue) + 1
    BY <1>1, <2>1
  <2>3. responseQueue # <<>> => Len(responseQueue) > 0
    OBVIOUS
  <2>4. ResponsesInOrder'
    <3>1. /\ responseQueue' = Queued(responseQueue, pkt.id)
          /\ owed' = Queued(owed, pkt.id)
      BY <2>1 DEF Queued
    <3> HIDE DEF Inductive, TypeOK
    <3>2. CASE sending
      <4>1. responseQueue # <<>> /\ owed = Then(answered, Rest(responseQueue))
        BY <1>2, <3>2, OrderInNames
      <4>2. Rest(responseQueue) \in Seq(Ids)
        BY <1>1, <1>2, <4>1, QueueBehind
      <4>3. owed' = Then(answered, Queued(Rest(responseQueue), pkt.id))
        BY <1>1, <1>2, <3>1, <4>2, <4>1, QueueAtEnd
      <4>4. owed' = Then(answered, Rest(responseQueue'))
        BY <1>1, <1>2, <3>1, <4>1, <4>3, QueueBehind
      <4> QED
        BY <3>2, <4>4 DEF ResponsesInOrder, Then, Rest
    <3>3. CASE ~sending
      <4>1. owed = Then(answered, responseQueue)
        BY <1>2, <3>3, OrderInNames
      <4>2. Queued(Then(answered, responseQueue), pkt.id)
                = Then(answered, Queued(responseQueue, pkt.id))
        BY <1>1, <1>2, QueueAtEnd
      <4>3. owed' = Then(answered, responseQueue')
        BY <3>1, <4>2, <4>1
      <4> QED
        BY <3>3, <4>3 DEF ResponsesInOrder, Then
    <3> QED
      BY <3>2, <3>3
  <2>5. sending => responseQueue # <<>> /\ ~retryResp
    BY Zenon
  <2>6. sending => Len(responseQueue') > 1
    BY <2>2, <2>3, <2>5
  <2>7. sendScheduled' \in BOOLEAN /\ ~(sendScheduled' /\ retryResp)
        /\ (sendScheduled' \/ retryResp)
    BY <2>1, Zenon
  <2> QED
    BY <2>2, <2>4, <2>5, <2>6, <2>7, Zenon
<1> QED
  BY <1>3, <1>4

\* An accepted request enters the wrapper with its latency.
LEMMA EnqueueStep ==
    ASSUME Inductive, can_accept, NEW pkt \in Packet, enqueue(pkt)
    PROVE  /\ DOMAIN pendingTransactions' = DOMAIN pendingTransactions \cup {pkt.id}
           /\ \A p \in DOMAIN pendingTransactions' : pendingTransactions'[p] \in 0..latency
           /\ failed' \in {"none", "range"}
           /\ AssertionsHold'
<1>1. pkt.addr \in Addrs
  BY DEF Packet
<1>2. failed' = IF InRange(pkt.addr) THEN "none" ELSE "range"
  BY <1>1, AcceptedFits DEF enqueue
<1>3. AssertionsHold'
  BY <1>1, <1>2 DEF AssertionsHold, InRange
<1>4. latency \in 0..latency
  BY BRAMAssumption
<1> QED
  BY <1>2, <1>3, <1>4 DEF enqueue, Inductive, TypeOK

\* recvTimingReq keeps the inductive invariant, for new and for resent packets.
LEMMA ReceiveStep ==
    ASSUME Inductive, NEW pkt \in Packet, recvTimingReq(pkt), issued' \in 0..MaxPackets
    PROVE  Inductive'
<1>0. /\ failed = "none" /\ pkt.id \in Ids
      /\ UNCHANGED <<retryResp, drainState, sending, answered>>
  BY DEF recvTimingReq, Packet
<1>1. CASE Snooped(pkt)
  BY <1>0, <1>1
  DEF Snooped, Accepts, memory, Inductive, TypeOK, ResponsesInOrder, RefusedIsCalledBack,
      AssertionsHold, InRange
<1>2. CASE Busy(pkt)
  BY <1>0, <1>2
  DEF Busy, Refuses, memory, Inductive, TypeOK, ResponsesInOrder, RefusedIsCalledBack,
      AssertionsHold, InRange
<1>3. CASE Full(pkt)
  BY <1>0, <1>3
  DEF Full, Refuses, memory, Inductive, TypeOK, ResponsesInOrder, RefusedIsCalledBack,
      AssertionsHold, InRange
<1>4. CASE Other(pkt)
  <2>1. /\ UNCHANGED <<memory, retryReq, failed, blocked>>
        /\ waiting' = waiting \ {pkt} /\ accessAndRespond(pkt)
    BY <1>4 DEF Other, Accepts
  <2>2. /\ responseQueue' \in Seq(Ids) /\ owed' \in Seq(Ids)
        /\ sendScheduled' \in BOOLEAN
        /\ ~(sendScheduled' /\ retryResp)
        /\ sendScheduled' \/ retryResp \/ sending <=> responseQueue' # <<>>
        /\ sending => ~retryResp /\ (sendScheduled' => Len(responseQueue') > 1)
        /\ ResponsesInOrder'
    BY <1>0, <2>1, RespondStep
  <2> QED
    BY <1>0, <2>1, <2>2
    DEF memory, Inductive, TypeOK, RefusedIsCalledBack, AssertionsHold, InRange
<1>5. CASE Read(pkt)
  <2>1. /\ can_accept /\ enqueue(pkt)
        /\ outstandingReads' = outstandingReads \cup {pkt.id}
        /\ waiting' = waiting \ {pkt}
        /\ UNCHANGED <<blocked, outstandingWrites, responseQueue, sendScheduled,
                       retryReq, owed>>
    BY <1>5 DEF Read, Accepts
  <2>2. /\ DOMAIN pendingTransactions' = DOMAIN pendingTransactions \cup {pkt.id}
        /\ \A p \in DOMAIN pendingTransactions' : pendingTransactions'[p] \in 0..latency
        /\ failed' \in {"none", "range"}
        /\ AssertionsHold'
    BY <2>1, EnqueueStep
  <2>3. Cardinality(outstandingReads)' + Cardinality(outstandingWrites)' <= queueSize
    <3>1. Cardinality(outstandingReads) + Cardinality(outstandingWrites) < queueSize
      BY <2>1, AcceptedFits DEF Packet
    <3>2. /\ outstandingReads \in SUBSET Ids /\ outstandingWrites \in SUBSET Ids
      BY DEF Inductive, TypeOK
    <3>3. /\ Cardinality(outstandingReads) \in Nat /\ Cardinality(outstandingWrites) \in Nat
          /\ Cardinality(outstandingReads \cup {pkt.id}) \in Nat
          /\ Cardinality(outstandingReads \cup {pkt.id}) <= Cardinality(outstandingReads) + 1
      BY <1>0, <3>2, Counting, CountOneMore, Zenon
    <3> QED
      BY <2>1, <3>1, <3>3, BRAMAssumption
  <2> QED
    BY <1>0, <2>1, <2>2, <2>3
    DEF Inductive, TypeOK, RefusedIsCalledBack, ResponsesInOrder
<1>6. CASE Write(pkt)
  <2>1. /\ can_accept /\ enqueue(pkt) /\ accessAndRespond(pkt)
        /\ outstandingWrites' = outstandingWrites \cup {pkt.id}
        /\ waiting' = waiting \ {pkt}
        /\ UNCHANGED <<blocked, outstandingReads, retryReq>>
    BY <1>6 DEF Write, Accepts
  <2>2. /\ DOMAIN pendingTransactions' = DOMAIN pendingTransactions \cup {pkt.id}
        /\ \A p \in DOMAIN pendingTransactions' : pendingTransactions'[p] \in 0..latency
        /\ failed' \in {"none", "range"}
        /\ AssertionsHold'
    BY <2>1, EnqueueStep, SMTT(30), Z3T(30)
  <2>3. Cardinality(outstandingReads)' + Cardinality(outstandingWrites)' <= queueSize
    <3>1. Cardinality(outstandingReads) + Cardinality(outstandingWrites) < queueSize
      BY <2>1, AcceptedFits DEF Packet
    <3>2. /\ outstandingReads \in SUBSET Ids /\ outstandingWrites \in SUBSET Ids
      BY DEF Inductive, TypeOK
    <3>3. /\ Cardinality(outstandingReads) \in Nat /\ Cardinality(outstandingWrites) \in Nat
          /\ Cardinality(outstandingWrites \cup {pkt.id}) \in Nat
          /\ Cardinality(outstandingWrites \cup {pkt.id}) <= Cardinality(outstandingWrites) + 1
      BY <1>0, <3>2, Counting, CountOneMore, Zenon
    <3> QED
      BY <2>1, <3>1, <3>3, BRAMAssumption
  <2>4. /\ responseQueue' \in Seq(Ids) /\ owed' \in Seq(Ids)
        /\ sendScheduled' \in BOOLEAN
        /\ ~(sendScheduled' /\ retryResp)
        /\ sendScheduled' \/ retryResp \/ sending <=> responseQueue' # <<>>
        /\ sending => ~retryResp /\ (sendScheduled' => Len(responseQueue') > 1)
        /\ ResponsesInOrder'
    BY <1>0, <2>1, RespondStep
  <2> QED
    BY <1>0, <2>1, <2>2, <2>3, <2>4
    DEF Inductive, TypeOK, RefusedIsCalledBack
<1> QED
  BY <1>1, <1>2, <1>3, <1>4, <1>5, <1>6 DEF recvTimingReq

\* What the invariant says between two calls of the requester.
LEMMA WhenRunning ==
    ASSUME Inductive, failed = "none"
    PROVE  /\ ~(sendScheduled /\ retryResp)
           /\ sendScheduled \/ retryResp \/ sending <=> responseQueue # <<>>
           /\ sending => ~retryResp /\ (sendScheduled => Len(responseQueue) > 1)
           /\ ResponsesInOrder /\ RefusedIsCalledBack /\ AssertionsHold
           /\ responseQueue \in Seq(Ids) /\ owed \in Seq(Ids) /\ answered \in Seq(Ids)
           /\ sendScheduled \in BOOLEAN /\ retryResp \in BOOLEAN /\ sending \in BOOLEAN
BY Zenon DEF Inductive, TypeOK

\* sendResponse keeps the order, the event and the retry consistent: the
\* response is taken, or the requester will ask for it.
LEMMA SendStep ==
    ASSUME Inductive, Idle, responseQueue # <<>>, sendResponse(FALSE),
           sendScheduled' = FALSE, UNCHANGED <<responseQueue, owed>>
    PROVE  /\ failed' = "none"
           /\ answered' \in Seq(Ids)
           /\ retryResp' \in BOOLEAN /\ sending' \in BOOLEAN
           /\ (retryResp' \/ sending') /\ ~(sending' /\ retryResp')
           /\ ResponsesInOrder'
<1>1. failed = "none" /\ ~sending
  BY DEF Idle
<1>2. /\ responseQueue \in Seq(Ids) /\ answered \in Seq(Ids)
      /\ ResponsesInOrder /\ sending \in BOOLEAN
  BY <1>1, WhenRunning, Zenon
<1>3. owed = Then(answered, responseQueue)
  BY <1>1, <1>2, OrderInNames
<1>4. Head(responseQueue) \in Ids
      /\ Then(Queued(answered, Head(responseQueue)), Rest(responseQueue))
             = Then(answered, responseQueue)
  BY <1>2, TakeHead
<1>5. CASE sending' = TRUE /\ retryResp' = FALSE /\ failed' = failed
           /\ answered' = Append(answered, Head(responseQueue))
  <2>1. answered' \in Seq(Ids)
    BY <1>2, <1>4, <1>5
  <2>2. owed' = Then(answered', Rest(responseQueue'))
    BY <1>4, <1>5, <1>3 DEF Queued
  <2> QED
    BY <1>1, <1>5, <2>1, <2>2, Zenon DEF ResponsesInOrder, Then, Rest
<1>6. CASE retryResp' = TRUE /\ failed' = "none" /\ UNCHANGED <<sending, answered>>
  BY <1>1, <1>2, <1>6 DEF ResponsesInOrder
<1> QED
  BY <1>5, <1>6, Zenon DEF sendResponse

\* The response event keeps the inductive invariant.
LEMMA EventStep ==
    ASSUME Inductive, sendResponseEvent
    PROVE  Inductive'
<1>1. /\ Idle /\ failed = "none" /\ ~sending /\ sendScheduled
      /\ sendScheduled' = FALSE
      /\ UNCHANGED <<memory, responseQueue, retryReq, drainState, requester, owed>>
  BY DEF sendResponseEvent, Idle
<1>2. responseQueue # <<>> /\ ~retryResp
  BY <1>1, WhenRunning, Zenon
<1>3. sendResponse(FALSE)
  BY <1>2, Zenon DEF sendResponseEvent
<1>4. /\ failed' = "none" /\ answered' \in Seq(Ids)
      /\ retryResp' \in BOOLEAN /\ sending' \in BOOLEAN
      /\ (retryResp' \/ sending') /\ ~(sending' /\ retryResp')
      /\ ResponsesInOrder'
  BY <1>1, <1>2, <1>3, SendStep, Zenon
<1> QED
  BY <1>1, <1>2, <1>4
 , Zenon DEF memory, requester, Inductive, TypeOK, RefusedIsCalledBack, AssertionsHold

\* The retry of the requester keeps the inductive invariant.
LEMMA RetryStep ==
    ASSUME Inductive, recvRespRetry
    PROVE  Inductive'
<1>1. /\ Idle /\ failed = "none" /\ ~sending /\ retryResp
      /\ sendResponse(sendScheduled)
      /\ UNCHANGED <<memory, responseQueue, sendScheduled, retryReq, drainState,
                     requester, owed>>
  BY DEF recvRespRetry, Idle
<1>2. responseQueue # <<>> /\ ~sendScheduled /\ sendScheduled \in BOOLEAN
  BY <1>1, WhenRunning, Zenon
<1>3. sendScheduled = FALSE
  BY <1>2
<1>4. sendResponse(FALSE) /\ sendScheduled' = FALSE
  BY <1>1, <1>3, Zenon
<1>5. /\ failed' = "none" /\ answered' \in Seq(Ids)
      /\ retryResp' \in BOOLEAN /\ sending' \in BOOLEAN
      /\ (retryResp' \/ sending') /\ ~(sending' /\ retryResp')
      /\ ResponsesInOrder'
  BY <1>1, <1>2, <1>4, SendStep, Zenon
<1> QED
  BY <1>1, <1>2, <1>4, <1>5
  DEF memory, requester, Inductive, TypeOK, RefusedIsCalledBack, AssertionsHold

\* The return of sendTimingResp keeps the inductive invariant.
LEMMA SentStep ==
    ASSUME Inductive, ResponseSent
    PROVE  Inductive'
<1>1. /\ failed = "none" /\ sending /\ sending' = FALSE
      /\ responseQueue' = Tail(responseQueue)
      /\ sendScheduled' = (sendScheduled \/ responseQueue' # <<>>)
      /\ UNCHANGED <<memory, retryReq, retryResp, failed, requester, owed, answered>>
  BY DEF ResponseSent
<1>2. /\ responseQueue # <<>> /\ ~retryResp /\ ResponsesInOrder
      /\ responseQueue \in Seq(Ids)
      /\ sendScheduled => Len(responseQueue) > 1
  BY <1>1, WhenRunning, Zenon
<1>3. /\ responseQueue' \in Seq(Ids)
      /\ Len(responseQueue) > 1 => responseQueue' # <<>>
  <2>1. /\ Tail(responseQueue) \in Seq(Ids)
        /\ Len(Tail(responseQueue)) = Len(responseQueue) - 1
    BY <1>2
  <2>2. Len(responseQueue) \in Nat
    BY <1>2
  <2>3. Len(responseQueue') = Len(responseQueue) - 1
    BY <1>1, <2>1, Zenon
  <2>4. Len(<<>>) = 0
    OBVIOUS
  <2>5. Len(responseQueue) > 1 => Len(responseQueue') # 0
    BY <2>3, <2>2
  <2>6. Len(responseQueue) > 1 => responseQueue' # <<>>
    BY <2>4, <2>5, Zenon
  <2> QED
    BY <1>1, <2>1, <2>6
<1>4. sendScheduled' \in BOOLEAN /\ (sendScheduled' <=> responseQueue' # <<>>)
  BY <1>1, <1>2, <1>3, Zenon
<1>5. ResponsesInOrder'
  BY <1>1, <1>2, SMTT(30), Z3T(30) DEF ResponsesInOrder
<1>6. drainState' \in {"Running", "Draining", "Drained"}
  BY DEF ResponseSent, signalDrainDone, Inductive, TypeOK
<1> QED
  BY <1>1, <1>2, <1>3, <1>4, <1>5, <1>6
 , Zenon DEF memory, requester, Inductive, TypeOK, RefusedIsCalledBack, AssertionsHold

\* A clock tick keeps the inductive invariant.
LEMMA TickStep ==
    ASSUME Inductive, tick
    PROVE  Inductive'
<1>1. /\ DOMAIN pendingTransactions' \subseteq DOMAIN pendingTransactions
      /\ \A p \in DOMAIN pendingTransactions' : pendingTransactions'[p] \in 0..latency
  BY BRAMAssumption DEF tick, wrapperTick, Inductive, TypeOK
<1>2. retryReq' \in BOOLEAN /\ blocked' \in BOOLEAN /\ RefusedIsCalledBack'
  BY Zenon DEF tick, Inductive, TypeOK, RefusedIsCalledBack
<1> QED
  BY <1>1, <1>2 DEF tick, Inductive, TypeOK, ResponsesInOrder, AssertionsHold

\* Every step of the memory and of its requesters keeps the inductive invariant.
LEMMA NextInductive == Inductive /\ [Next]_vars => Inductive'
<1> SUFFICES ASSUME Inductive, [Next]_vars PROVE Inductive'
  OBVIOUS
<1>1. ASSUME NEW pkt \in Packet, Send(pkt)
      PROVE  Inductive'
  <2>1. issued' \in 0..MaxPackets
    BY <1>1, BRAMAssumption DEF Send, Packet, Ids
  <2> QED
    BY <1>1, <2>1, ReceiveStep DEF Send
<1>2. ASSUME NEW pkt \in waiting, Resend(pkt)
      PROVE  Inductive'
  <2>1. issued' \in 0..MaxPackets /\ pkt \in Packet
    BY <1>2 DEF Resend, Inductive, TypeOK
  <2> QED
    BY <1>2, <2>1, ReceiveStep DEF Resend
<1>3. CASE drain
  BY <1>3
  DEF drain, memory, requester, Inductive, TypeOK, ResponsesInOrder,
      RefusedIsCalledBack, AssertionsHold
<1>4. CASE drainResume
  BY <1>4
  DEF drainResume, memory, requester, Inductive, TypeOK, ResponsesInOrder,
      RefusedIsCalledBack, AssertionsHold
<1>5. CASE resetStats
  BY <1>5
  DEF resetStats, requester, Inductive, TypeOK, ResponsesInOrder,
      RefusedIsCalledBack, AssertionsHold
<1>6. CASE UNCHANGED vars
  BY <1>6
  DEF vars, memory, requester, Inductive, TypeOK, ResponsesInOrder,
      RefusedIsCalledBack, AssertionsHold
<1>7. CASE Stopped
  BY <1>6, <1>7 DEF Stopped
<1> QED
  BY <1>1, <1>2, <1>3, <1>4, <1>5, <1>6, <1>7, EventStep, RetryStep, SentStep, TickStep
  DEF Next

-----------------------------------------------------------------------------
\* The strengthened invariant holds in every reachable state of the memory, for
\* every queue size, latency, number of packets and behaviour of the requesters.
THEOREM InductiveHolds == Spec => []Inductive
<1>1. Init => Inductive
  BY InitInductive
<1>2. Inductive /\ [Next]_vars => Inductive'
  BY NextInductive
<1> QED
  BY <1>1, <1>2, PTL DEF Spec

\* Type correctness.
THEOREM TypeCorrect == Spec => []TypeOK
<1>1. Inductive => TypeOK
  BY DEF Inductive
<1> QED
  BY <1>1, InductiveHolds, PTL

\* Of the assertions in recvTimingReq, enqueue and sendResponse only the range
\* test can fail, and only for addresses beyond the memory.
THEOREM AssertionsCorrect == Spec => []AssertionsHold
<1>1. Inductive => AssertionsHold
  BY DEF Inductive
<1> QED
  BY <1>1, InductiveHolds, PTL

\* accessAndRespond and sendResponse deliver each response once and in order.
THEOREM OrderCorrect == Spec => []ResponsesInOrder
<1>1. Inductive => ResponsesInOrder
  BY DEF Inductive
<1> QED
  BY <1>1, InductiveHolds, PTL

\* A queued response is never stranded: the event is scheduled or the requester
\* will retry, and never both.
THEOREM SenderCorrect == Spec => []ResponseHasSender
<1>1. Inductive => ResponseHasSender
  BY WhenRunning, Zenon DEF ResponseHasSender
<1> QED
  BY <1>1, InductiveHolds, PTL

\* tick owes a call back to every requester that recvTimingReq refused.
THEOREM CallBackCorrect == Spec => []RefusedIsCalledBack
<1>1. Inductive => RefusedIsCalledBack
  BY DEF Inductive
<1> QED
  BY <1>1, InductiveHolds, PTL

\* However long the simulation runs, the memory accepts at most queueSize
\* reads and writes.
THEOREM CapacityCorrect == Spec => []CapacityIsSpent
<1>1. Inductive => CapacityIsSpent
  <2> SUFFICES ASSUME Inductive PROVE CapacityIsSpent
    OBVIOUS
  <2>1. /\ outstandingReads \in SUBSET Ids /\ outstandingWrites \in SUBSET Ids
        /\ Cardinality(outstandingReads) + Cardinality(outstandingWrites) <= queueSize
    BY DEF Inductive, TypeOK
  <2>2. /\ Cardinality(outstandingReads) \in Nat /\ Cardinality(outstandingWrites) \in Nat
        /\ Cardinality(outstandingReads \cup outstandingWrites) \in Nat
        /\ Cardinality(outstandingReads \cup outstandingWrites)
               <= Cardinality(outstandingReads) + Cardinality(outstandingWrites)
    BY <2>1, Counting, Zenon
  <2> QED
    BY <2>1, <2>2, BRAMAssumption DEF CapacityIsSpent
<1> QED
  BY <1>1, InductiveHolds, PTL

\* drain and sendResponse report "Drained" only when nothing is outstanding.
THEOREM DrainCorrect == Spec => DrainedIsIdle
<1>1. ASSUME [Next]_vars
      PROVE  drainState' = "Drained" /\ drainState # "Drained" => nbrOutstanding' = 0
  <2> SUFFICES ASSUME drainState' = "Drained", drainState # "Drained"
               PROVE  nbrOutstanding' = 0
    OBVIOUS
  <2>1. CASE ResponseSent
    BY <2>1 DEF ResponseSent
  <2>2. CASE drain
    BY <2>2 DEF drain, nbrOutstanding, memory
  <2>3. UNCHANGED drainState \/ drainState' = "Running" \/ ResponseSent \/ drain
    BY <1>1
   , Zenon DEF Next, vars, Send, Resend, recvTimingReq, sendResponseEvent, recvRespRetry, tick,
        drainResume, resetStats, Stopped
  <2> QED
    BY <2>1, <2>2, <2>3
<1> QED
  BY <1>1, PTL DEF Spec, DrainedIsIdle
=============================================================================
