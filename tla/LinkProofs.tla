----------------------------- MODULE LinkProofs -----------------------------
(***************************************************************************)
(* Lemmas about the operators of Link that the proofs about both ends of   *)
(* the tunnel need: what a send, a receive and a close do to the queues of *)
(* a connection, and to the order of the data in them.                     *)
(***************************************************************************)
EXTENDS Link, SequenceTheorems, TLAPS

\* Every message that either side builds is one.
LEMMA MessageTypes ==
  /\ \A type \in {"auth", "ping", "pong", "error"} : Control(type) \in Messages
  /\ \A ok \in BOOLEAN : AuthResp(ok) \in Messages
  /\ \A id \in ID : Open(id) \in Messages
  /\ \A id \in ID \cup {NoID} : Close(id) \in Messages
  /\ \A id \in ID, ok \in BOOLEAN : OpenResp(id, ok) \in Messages
  /\ \A id \in ID, n \in Nat : Data(id, n) \in Messages
<1>1. \A type \in {"auth", "ping", "pong", "error"} : Control(type) \in Messages
  BY DEF Messages, Message, Control
<1>2. \A ok \in BOOLEAN : AuthResp(ok) \in Messages
  BY DEF Messages, Message, AuthResp
<1>3. \A id \in ID : Open(id) \in Messages
  BY DEF Messages, Message, Open
<1>4. \A id \in ID \cup {NoID} : Close(id) \in Messages
  BY DEF Messages, Message, Close
<1>5. \A id \in ID, ok \in BOOLEAN : OpenResp(id, ok) \in Messages
  BY DEF Messages, Message, OpenResp
<1>6. \A id \in ID, n \in Nat : Data(id, n) \in Messages
  BY DEF Messages, Message, Data
<1> QED  BY <1>1, <1>2, <1>3, <1>4, <1>5, <1>6

----------------------------------------------------------------------------
(* Types: the queues stay queues of messages. *)

LEMMA SendUpType ==
  ASSUME LinkTypeOK, NEW w \in Conn, NEW msg \in Messages, SendUp(w, msg)
  PROVE  up' \in [Conn -> Seq(Messages)]
<1>1. Append(up[w], msg) \in Seq(Messages)
  BY AppendProperties DEF LinkTypeOK
<1> QED  BY <1>1 DEF SendUp, LinkTypeOK

\* A send by the server.
LEMMA SendDownType ==
  ASSUME LinkTypeOK, NEW w \in Conn, NEW msg \in Messages, SendDown(w, msg)
  PROVE  down' \in [Conn -> Seq(Messages)]
<1>1. Append(down[w], msg) \in Seq(Messages)
  BY AppendProperties DEF LinkTypeOK
<1> QED  BY <1>1 DEF SendDown, LinkTypeOK

\* A receive by the agent.
LEMMA TakeDownType ==
  ASSUME LinkTypeOK, NEW w \in Conn, TakeDown(w)
  PROVE  /\ down' \in [Conn -> Seq(Messages)]
         /\ Head(down[w]) \in Messages
<1>1. down[w] \in Seq(Messages) /\ down[w] # <<>>
  BY DEF LinkTypeOK, TakeDown
<1>2. Head(down[w]) \in Messages /\ Tail(down[w]) \in Seq(Messages)
  BY <1>1, HeadTailProperties
<1> QED  BY <1>2 DEF TakeDown, LinkTypeOK

\* A receive by the server.
LEMMA TakeUpType ==
  ASSUME LinkTypeOK, NEW w \in Conn, TakeUp(w)
  PROVE  /\ up' \in [Conn -> Seq(Messages)]
         /\ Head(up[w]) \in Messages
<1>1. up[w] \in Seq(Messages) /\ up[w] # <<>>
  BY DEF LinkTypeOK, TakeUp
<1>2. Head(up[w]) \in Messages /\ Tail(up[w]) \in Seq(Messages)
  BY <1>1, HeadTailProperties
<1> QED  BY <1>2 DEF TakeUp, LinkTypeOK

\* Closing an end.
LEMMA CloseEndType ==
  ASSUME LinkTypeOK, NEW w, CloseAgentEnd(w)
  PROVE  /\ down' \in [Conn -> Seq(Messages)]
         /\ agentEnd' \in [Conn -> {"none", "open", "closed"}]
BY EmptySeq DEF LinkTypeOK, CloseAgentEnd

\* The loss of a connection.
LEMMA BreakType ==
  ASSUME LinkTypeOK, NEW w \in Conn, Break(w)
  PROVE  LinkTypeOK'
<1>1. cut' = [cut EXCEPT ![w] = TRUE]
  BY DEF Break
<1>2. cut' \in [Conn -> BOOLEAN]
  BY <1>1, Zenon DEF LinkTypeOK
<1>3. UNCHANGED <<up, down, agentEnd, serverEnd>>
  BY DEF Break
<1> QED  BY <1>2, <1>3 DEF LinkTypeOK

\* Before any dial the link is well typed.
LEMMA LinkInitType == LinkInit => LinkTypeOK
BY EmptySeq DEF LinkInit, LinkTypeOK

----------------------------------------------------------------------------
(* Contents: FIFO order, nothing invented, nothing repeated. *)

\* What has been sent up is at the end of its queue, or lost.
LEMMA SendUpContents ==
  ASSUME LinkTypeOK, NEW w \in Conn, NEW msg \in Messages, SendUp(w, msg)
  PROVE  /\ \A v \in Conn : v # w => up'[v] = up[v]
         /\ \/ up'[w] = up[w] /\ (serverEnd[w] # "open" \/ cut[w])
            \/ /\ Len(up'[w]) = Len(up[w]) + 1
               /\ \A i \in 1 .. Len(up[w]) : up'[w][i] = up[w][i]
               /\ up'[w][Len(up[w]) + 1] = msg
<1>1. up[w] \in Seq(Messages) /\ up \in [Conn -> Seq(Messages)]
  BY DEF LinkTypeOK
<1>2. CASE UNCHANGED up /\ ~(serverEnd[w] = "open" /\ ~cut[w])
  BY <1>2
<1>3. CASE up' = [up EXCEPT ![w] = Append(@, msg)]
  <2>1. up'[w] = Append(up[w], msg) /\ \A v \in Conn : v # w => up'[v] = up[v]
    BY <1>1, <1>3
  <2> QED  BY <1>1, <2>1, AppendProperties
<1> QED  BY <1>2, <1>3 DEF SendUp

\* A receive takes the first message and moves the others up.
LEMMA TakeUpContents ==
  ASSUME LinkTypeOK, NEW w \in Conn, TakeUp(w)
  PROVE  /\ \A v \in Conn : v # w => up'[v] = up[v]
         /\ Len(up'[w]) = Len(up[w]) - 1
         /\ \A i \in 1 .. Len(up'[w]) : up'[w][i] = up[w][i + 1]
         /\ 1 \in 1 .. Len(up[w]) /\ up[w][1] = Head(up[w])
<1>1. up[w] \in Seq(Messages) /\ up[w] # <<>> /\ up \in [Conn -> Seq(Messages)]
  BY DEF LinkTypeOK, TakeUp
<1>2. up'[w] = Tail(up[w]) /\ \A v \in Conn : v # w => up'[v] = up[v]
  BY <1>1 DEF TakeUp
<1>3. Len(up[w]) \in Nat \ {0}
  BY <1>1, EmptySeq, LenProperties
<1> QED  BY <1>1, <1>2, <1>3, HeadTailProperties

\* The same of the other direction.
LEMMA SendDownContents ==
  ASSUME LinkTypeOK, NEW w \in Conn, NEW msg \in Messages, SendDown(w, msg)
  PROVE  /\ \A v \in Conn : v # w => down'[v] = down[v]
         /\ \/ down'[w] = down[w] /\ (agentEnd[w] # "open" \/ cut[w])
            \/ /\ Len(down'[w]) = Len(down[w]) + 1
               /\ \A i \in 1 .. Len(down[w]) : down'[w][i] = down[w][i]
               /\ down'[w][Len(down[w]) + 1] = msg
<1>1. down[w] \in Seq(Messages) /\ down \in [Conn -> Seq(Messages)]
  BY DEF LinkTypeOK
<1>2. CASE UNCHANGED down /\ ~(agentEnd[w] = "open" /\ ~cut[w])
  BY <1>2
<1>3. CASE down' = [down EXCEPT ![w] = Append(@, msg)]
  <2>1. down'[w] = Append(down[w], msg) /\ \A v \in Conn : v # w => down'[v] = down[v]
    BY <1>1, <1>3
  <2> QED  BY <1>1, <2>1, AppendProperties
<1> QED  BY <1>2, <1>3 DEF SendDown

\* Taking from the other queue.
LEMMA TakeDownContents ==
  ASSUME LinkTypeOK, NEW w \in Conn, TakeDown(w)
  PROVE  /\ \A v \in Conn : v # w => down'[v] = down[v]
         /\ Len(down'[w]) = Len(down[w]) - 1
         /\ \A i \in 1 .. Len(down'[w]) : down'[w][i] = down[w][i + 1]
         /\ 1 \in 1 .. Len(down[w]) /\ down[w][1] = Head(down[w])
<1>1. down[w] \in Seq(Messages) /\ down[w] # <<>> /\ down \in [Conn -> Seq(Messages)]
  BY DEF LinkTypeOK, TakeDown
<1>2. down'[w] = Tail(down[w]) /\ \A v \in Conn : v # w => down'[v] = down[v]
  BY <1>1 DEF TakeDown
<1>3. Len(down[w]) \in Nat \ {0}
  BY <1>1, EmptySeq, LenProperties
<1> QED  BY <1>1, <1>2, <1>3, HeadTailProperties

----------------------------------------------------------------------------
(* The data that is under way: consecutive numbers, in order. *)

\* The data messages of a stream in a queue are numbered low + 1, low + 2, ...
\* in this order, and up to high at most ...
IsData(q, i, id) == i \in 1 .. Len(q) /\ q[i].type = "data" /\ q[i].id = id
InOrder(q, id, low, high) ==
  /\ \A i \in Nat : IsData(q, i, id) => low < q[i].n /\ q[i].n <= high
  /\ \A i, j \in Nat : (i < j /\ IsData(q, i, id) /\ IsData(q, j, id)) => q[i].n < q[j].n
  /\ \A i, k \in Nat : (IsData(q, i, id) /\ low < k /\ k < q[i].n) =>
       \E j \in Nat : j < i /\ IsData(q, j, id) /\ q[j].n = k

\* ... or up to high exactly.
Complete(q, id, low, high) ==
  \A k \in Nat : (low < k /\ k <= high) => \E j \in Nat : IsData(q, j, id) /\ q[j].n = k

\* A queue without data of the stream.
LEMMA NothingInOrder ==
  ASSUME NEW q, NEW id, NEW low, NEW high, \A i \in Nat : ~IsData(q, i, id)
  PROVE  InOrder(q, id, low, high)
BY DEF InOrder

\* The end may lie further on than the last message.
LEMMA LaterEnd ==
  ASSUME NEW q \in Seq(Messages), NEW id, NEW low \in Nat, NEW high \in Nat, NEW end \in Nat,
         high <= end, InOrder(q, id, low, high)
  PROVE  InOrder(q, id, low, end)
<1>1. ASSUME NEW i \in Nat, IsData(q, i, id)
      PROVE  low < q[i].n /\ q[i].n <= end
  <2>1. q[i] \in Messages
    BY <1>1, ElementOfSeq DEF IsData
  <2>2. low < q[i].n /\ q[i].n <= high
    BY <1>1 DEF InOrder
  <2>3. q[i].n \in Nat
    BY <2>1 DEF Messages
  <2> QED  BY <2>2, <2>3
<1> QED  BY <1>1 DEF InOrder

\* A message that is not data of the stream changes nothing about its data,
\* and the next one of the stream goes behind a complete queue.
LEMMA AppendKeepsOrder ==
  ASSUME NEW q \in Seq(Messages), NEW msg \in Messages, NEW id, NEW low \in Nat, NEW high \in Nat
  PROVE  /\ ~(msg.type = "data" /\ msg.id = id) =>
              /\ InOrder(q, id, low, high) => InOrder(Append(q, msg), id, low, high)
              /\ Complete(q, id, low, high) => Complete(Append(q, msg), id, low, high)
         /\ (/\ msg.type = "data" /\ msg.id = id /\ msg.n = high + 1 /\ low <= high
             /\ InOrder(q, id, low, high) /\ Complete(q, id, low, high)) =>
              /\ InOrder(Append(q, msg), id, low, high + 1)
              /\ Complete(Append(q, msg), id, low, high + 1)
<1> DEFINE r == Append(q, msg)
           l == Len(q) + 1
<1>1. l \in Nat /\ Len(q) \in Nat /\ Len(r) = l
  BY LenProperties, AppendProperties
<1>2. (\A k \in 1 .. Len(q) : r[k] = q[k]) /\ r[l] = msg
  BY AppendProperties
<1> HIDE DEF r
<1>3. ASSUME NEW i \in Nat
      PROVE  /\ i \in 1 .. Len(r) => (i \in 1 .. Len(q) /\ i < l) \/ i = l
             /\ i \in 1 .. Len(q) => i \in 1 .. Len(r) /\ i < l
  BY <1>1
<1>4. l \in 1 .. Len(r)
  BY <1>1
<1> HIDE DEF l
<1>5. \A i \in Nat : IsData(q, i, id) => IsData(r, i, id) /\ r[i] = q[i] /\ i < l
  BY <1>2, <1>3 DEF IsData
<1>6. \A i \in Nat : IsData(r, i, id) => (IsData(q, i, id) /\ r[i] = q[i]) \/ (r[i] = msg /\ i = l)
  BY <1>2, <1>3 DEF IsData
<1>7. IsData(r, l, id) <=> msg.type = "data" /\ msg.id = id
  BY <1>2, <1>4 DEF IsData
<1>8. \A i \in Nat : IsData(q, i, id) => q[i].n \in Nat
  <2> SUFFICES ASSUME NEW i \in Nat, IsData(q, i, id)
               PROVE  q[i].n \in Nat
    OBVIOUS
  <2>1. q[i] \in Messages
    BY ElementOfSeq DEF IsData
  <2> QED  BY <2>1 DEF Messages
<1>9. ASSUME ~(msg.type = "data" /\ msg.id = id)
      PROVE  /\ InOrder(q, id, low, high) => InOrder(r, id, low, high)
             /\ Complete(q, id, low, high) => Complete(r, id, low, high)
  <2>1. \A i \in Nat : IsData(r, i, id) <=> IsData(q, i, id)
    BY <1>5, <1>6, <1>7, <1>9
  <2>2. InOrder(q, id, low, high) => InOrder(r, id, low, high)
    BY <1>5, <2>1 DEF InOrder
  <2>3. Complete(q, id, low, high) => Complete(r, id, low, high)
    BY <1>5, <2>1 DEF Complete
  <2> QED  BY <2>2, <2>3
<1>10. ASSUME msg.type = "data", msg.id = id, msg.n = high + 1, low <= high,
              InOrder(q, id, low, high), Complete(q, id, low, high)
       PROVE  InOrder(r, id, low, high + 1) /\ Complete(r, id, low, high + 1)
  <2>1. \A i \in Nat : IsData(q, i, id) => low < q[i].n /\ q[i].n <= high
    BY <1>10 DEF InOrder
  <2>2. ASSUME NEW i \in Nat, IsData(r, i, id)
        PROVE  low < r[i].n /\ r[i].n <= high + 1
    <3>1. CASE IsData(q, i, id) /\ r[i] = q[i]
      BY <1>8, <2>1, <3>1
    <3>2. CASE r[i] = msg
      BY <1>10, <3>2
    <3> QED  BY <1>6, <2>2, <3>1, <3>2
  <2>3. ASSUME NEW i \in Nat, NEW j \in Nat, i < j, IsData(r, i, id), IsData(r, j, id)
        PROVE  r[i].n < r[j].n
    <3>1. CASE IsData(q, j, id) /\ r[j] = q[j]
      <4>1. i # l
        BY <1>1, <1>5, <2>3, <3>1
      <4>2. IsData(q, i, id) /\ r[i] = q[i]
        BY <1>6, <2>3, <4>1
      <4> QED  BY <1>10, <2>3, <3>1, <4>2 DEF InOrder
    <3>2. CASE r[j] = msg /\ j = l
      <4>1. IsData(q, i, id) /\ r[i] = q[i]
        BY <1>6, <2>3, <3>2
      <4> QED  BY <1>8, <1>10, <2>1, <3>2, <4>1
    <3> QED  BY <1>6, <2>3, <3>1, <3>2
  <2>4. ASSUME NEW i \in Nat, NEW k \in Nat, IsData(r, i, id), low < k, k < r[i].n
        PROVE  \E j \in Nat : j < i /\ IsData(r, j, id) /\ r[j].n = k
    <3>1. CASE IsData(q, i, id) /\ r[i] = q[i]
      <4>1. PICK j \in Nat : j < i /\ IsData(q, j, id) /\ q[j].n = k
        BY <1>10, <2>4, <3>1 DEF InOrder
      <4> QED  BY <1>5, <4>1
    <3>2. CASE r[i] = msg /\ i = l
      <4>1. k <= high
        BY <1>10, <2>4, <3>2
      <4>2. PICK j \in Nat : IsData(q, j, id) /\ q[j].n = k
        BY <1>10, <2>4, <4>1 DEF Complete
      <4> QED  BY <1>5, <3>2, <4>2
    <3> QED  BY <1>6, <2>4, <3>1, <3>2
  <2>5. ASSUME NEW k \in Nat, low < k, k <= high + 1
        PROVE  \E j \in Nat : IsData(r, j, id) /\ r[j].n = k
    <3>1. CASE k <= high
      <4>1. PICK j \in Nat : IsData(q, j, id) /\ q[j].n = k
        BY <1>10, <2>5, <3>1 DEF Complete
      <4> QED  BY <1>5, <4>1
    <3>2. CASE k = high + 1
      BY <1>1, <1>2, <1>7, <1>10, <3>2
    <3> QED  BY <2>5, <3>1, <3>2
  <2>6. InOrder(r, id, low, high + 1)
    BY <2>2, <2>3, <2>4 DEF InOrder
  <2>7. Complete(r, id, low, high + 1)
    BY <2>5 DEF Complete
  <2> QED  BY <2>6, <2>7
<1> QED  BY <1>9, <1>10 DEF r

\* Taking the first message moves the others up.
MovedUp(q, r, id) ==
  /\ \A i \in Nat : IsData(r, i, id) =>
       i > 0 /\ i + 1 \in Nat /\ IsData(q, i + 1, id) /\ r[i] = q[i + 1]
  /\ \A i \in Nat : (IsData(q, i, id) /\ i # 1) =>
       i - 1 \in Nat /\ IsData(r, i - 1, id) /\ r[i - 1] = q[i]
  /\ IsData(q, 1, id) <=> Head(q).type = "data" /\ Head(q).id = id
  /\ q[1] = Head(q)
LEMMA WhatIsLeft ==
  ASSUME NEW q \in Seq(Messages), q # <<>>, NEW id
  PROVE  MovedUp(q, Tail(q), id)
<1> DEFINE r == Tail(q)
<1>1. Len(q) \in Nat \ {0}
  BY EmptySeq, LenProperties
<1>2. Len(r) = Len(q) - 1 /\ Head(q) = q[1]
  BY HeadTailProperties
<1>3. \A k \in 1 .. Len(r) : r[k] = q[k + 1]
  BY HeadTailProperties
<1> HIDE DEF r
<1>4. ASSUME NEW i \in Nat
      PROVE  /\ i \in 1 .. Len(r) => i > 0 /\ i + 1 \in Nat /\ i + 1 \in 1 .. Len(q)
             /\ (i \in 1 .. Len(q) /\ i # 1) => i - 1 \in Nat /\ i - 1 \in 1 .. Len(r)
             /\ (i - 1) + 1 = i
  BY <1>1, <1>2
<1>5. 1 \in 1 .. Len(q)
  BY <1>1
<1>6. \A i \in Nat : IsData(r, i, id) =>
        i > 0 /\ i + 1 \in Nat /\ IsData(q, i + 1, id) /\ r[i] = q[i + 1]
  BY <1>3, <1>4 DEF IsData
<1>7. \A i \in Nat : (IsData(q, i, id) /\ i # 1) =>
        i - 1 \in Nat /\ IsData(r, i - 1, id) /\ r[i - 1] = q[i]
  <2> SUFFICES ASSUME NEW i \in Nat, IsData(q, i, id), i # 1
               PROVE  i - 1 \in Nat /\ IsData(r, i - 1, id) /\ r[i - 1] = q[i]
    OBVIOUS
  <2>1. i - 1 \in Nat /\ i - 1 \in 1 .. Len(r) /\ (i - 1) + 1 = i
    BY <1>4 DEF IsData
  <2>2. r[i - 1] = q[i]
    BY <1>3, <2>1
  <2> QED  BY <2>1, <2>2 DEF IsData
<1>8. IsData(q, 1, id) <=> Head(q).type = "data" /\ Head(q).id = id
  BY <1>2, <1>5 DEF IsData
<1>9. MovedUp(q, r, id)
  BY <1>2, <1>6, <1>7, <1>8 DEF MovedUp
<1> QED  BY <1>9 DEF r

\* The rest of a queue whose first message is not data of the stream.
LEMMA TakeOther ==
  ASSUME NEW q \in Seq(Messages), q # <<>>, NEW id, NEW low, NEW high,
         ~(Head(q).type = "data" /\ Head(q).id = id)
  PROVE  /\ InOrder(q, id, low, high) => InOrder(Tail(q), id, low, high)
         /\ Complete(q, id, low, high) => Complete(Tail(q), id, low, high)
<1> DEFINE r == Tail(q)
<1>0. MovedUp(q, r, id)
  BY WhatIsLeft
<1> HIDE DEF r
<1>1. \A i \in Nat : IsData(r, i, id) =>
        i > 0 /\ i + 1 \in Nat /\ IsData(q, i + 1, id) /\ r[i] = q[i + 1]
  BY <1>0 DEF MovedUp
<1>2. \A i \in Nat : IsData(q, i, id) => i - 1 \in Nat /\ IsData(r, i - 1, id) /\ r[i - 1] = q[i]
  <2>1. ~IsData(q, 1, id)
    BY <1>0 DEF MovedUp
  <2> QED  BY <1>0, <2>1 DEF MovedUp
<1>3. ASSUME InOrder(q, id, low, high)
      PROVE  InOrder(r, id, low, high)
  <2>1. ASSUME NEW i \in Nat, NEW k \in Nat, IsData(r, i, id), low < k, k < r[i].n
        PROVE  \E j \in Nat : j < i /\ IsData(r, j, id) /\ r[j].n = k
    <3>1. PICK j \in Nat : j < i + 1 /\ IsData(q, j, id) /\ q[j].n = k
      BY <1>1, <1>3, <2>1 DEF InOrder
    <3>2. j - 1 \in Nat /\ j - 1 < i /\ IsData(r, j - 1, id) /\ r[j - 1].n = k
      BY <1>2, <3>1
    <3> QED  BY <3>2
  <2>2. ASSUME NEW i \in Nat, NEW j \in Nat, i < j, IsData(r, i, id), IsData(r, j, id)
        PROVE  r[i].n < r[j].n
    <3>1. i + 1 < j + 1
      BY <2>2
    <3> QED  BY <1>1, <1>3, <2>2, <3>1 DEF InOrder
  <2>3. ASSUME NEW i \in Nat, IsData(r, i, id)
        PROVE  low < r[i].n /\ r[i].n <= high
    BY <1>1, <1>3, <2>3 DEF InOrder
  <2> QED  BY <2>1, <2>2, <2>3 DEF InOrder
<1>4. ASSUME Complete(q, id, low, high)
      PROVE  Complete(r, id, low, high)
  BY <1>2, <1>4 DEF Complete
<1> QED  BY <1>3, <1>4 DEF r

\* The first data message of the stream is the next one; the rest goes on
\* from there.
LEMMA TakeNext ==
  ASSUME NEW q \in Seq(Messages), q # <<>>, NEW id, NEW low \in Nat, NEW high \in Nat,
         Head(q).type = "data", Head(q).id = id, InOrder(q, id, low, high)
  PROVE  /\ Head(q).n = low + 1 /\ low < high
         /\ InOrder(Tail(q), id, low + 1, high)
         /\ Complete(q, id, low, high) => Complete(Tail(q), id, low + 1, high)
<1> DEFINE r == Tail(q)
<1>0. MovedUp(q, r, id)
  BY WhatIsLeft
<1> HIDE DEF r
<1>1. \A i \in Nat : IsData(r, i, id) =>
        i > 0 /\ i + 1 \in Nat /\ IsData(q, i + 1, id) /\ r[i] = q[i + 1]
  BY <1>0 DEF MovedUp
<1>2. \A i \in Nat : (IsData(q, i, id) /\ i # 1) =>
        i - 1 \in Nat /\ IsData(r, i - 1, id) /\ r[i - 1] = q[i]
  BY <1>0 DEF MovedUp
<1>3. IsData(q, 1, id) /\ q[1] = Head(q) /\ Head(q) \in Messages
  <2>1. Head(q) \in Messages
    BY HeadTailProperties
  <2> QED  BY <1>0, <2>1 DEF MovedUp
<1>4. \A i \in Nat : IsData(q, i, id) => q[i].n \in Nat /\ i > 0
  <2> SUFFICES ASSUME NEW i \in Nat, IsData(q, i, id)
               PROVE  q[i].n \in Nat /\ i > 0
    OBVIOUS
  <2>1. q[i] \in Messages /\ i \in 1 .. Len(q)
    BY ElementOfSeq DEF IsData
  <2> QED  BY <2>1 DEF Messages
<1>5. q[1].n \in Nat /\ low < q[1].n /\ q[1].n <= high
  BY <1>3, <1>4 DEF InOrder
<1>6. q[1].n = low + 1
  <2> SUFFICES ASSUME low + 1 < q[1].n
               PROVE  FALSE
    BY <1>5
  <2>1. PICK j \in Nat : j < 1 /\ IsData(q, j, id)
    BY <1>3 DEF InOrder
  <2> QED  BY <1>4, <2>1
<1>7. ASSUME NEW i \in Nat, IsData(r, i, id)
      PROVE  low + 1 < r[i].n /\ r[i].n <= high
  <2>1. i + 1 \in Nat /\ IsData(q, i + 1, id) /\ r[i] = q[i + 1] /\ i > 0
    <3>1. i \in 1 .. Len(r)
      BY <1>7 DEF IsData
    <3> QED  BY <1>1, <1>7, <3>1
  <2>2. 1 < i + 1
    BY <2>1
  <2> QED  BY <1>3, <1>6, <2>1, <2>2 DEF InOrder
<1>8. ASSUME NEW i \in Nat, NEW j \in Nat, i < j, IsData(r, i, id), IsData(r, j, id)
      PROVE  r[i].n < r[j].n
  <2>1. i + 1 < j + 1
    BY <1>8
  <2> QED  BY <1>1, <1>8, <2>1 DEF InOrder
<1>9. ASSUME NEW i \in Nat, NEW k \in Nat, IsData(r, i, id), low + 1 < k, k < r[i].n
      PROVE  \E j \in Nat : j < i /\ IsData(r, j, id) /\ r[j].n = k
  <2>1. low < k
    BY <1>9
  <2>2. PICK j \in Nat : j < i + 1 /\ IsData(q, j, id) /\ q[j].n = k
    BY <1>1, <1>9, <2>1 DEF InOrder
  <2>3. j # 1
    BY <1>6, <1>9, <2>2
  <2>4. j - 1 \in Nat /\ j - 1 < i /\ IsData(r, j - 1, id) /\ r[j - 1].n = k
    BY <1>2, <2>2, <2>3
  <2> QED  BY <2>4
<1>10. ASSUME Complete(q, id, low, high), NEW k \in Nat, low + 1 < k, k <= high
       PROVE  \E j \in Nat : IsData(r, j, id) /\ r[j].n = k
  <2>1. low < k
    BY <1>10
  <2>2. PICK j \in Nat : IsData(q, j, id) /\ q[j].n = k
    BY <1>10, <2>1 DEF Complete
  <2>3. j # 1
    BY <1>6, <1>10, <2>2
  <2> QED  BY <1>2, <2>2, <2>3
<1>11. InOrder(r, id, low + 1, high)
  BY <1>7, <1>8, <1>9 DEF InOrder
<1>12. Complete(q, id, low, high) => Complete(r, id, low + 1, high)
  BY <1>10 DEF Complete
<1> QED  BY <1>3, <1>5, <1>6, <1>11, <1>12 DEF r
=============================================================================
