------------------------- MODULE AgentSessionProofs -------------------------
(***************************************************************************)
(* Theorems about AgentSession, against any server and for any number of   *)
(* connections, streams, goroutine steps and queue capacities.  None of    *)
(* them needs fairness.                                                    *)
(***************************************************************************)
EXTENDS AgentSession, LinkProofs

\* Run's connection and a reader's are real ones while they use them, and what
\* a reader holds in its hands is about a stream.
RunInHand == runPc \in {"sendAuth", "recvAuth", "serve"} => ws \in Conn
ReaderInHand == \A g \in Conn : /\ rpc[g] = "recv" => ron[g] \in Conn
                                /\ rpc[g] \in {"push", "drop"} =>
                                     rmsg[g].id \in ID /\ rmsg[g].n \in Nat
InHand == RunInHand /\ ReaderInHand

\* An entry of s.streams belongs to a stream that is being opened or used, or
\* to one whose client has closed it after the server did.
EntryHasOwner == \A id \in streams :
                   op[id] \notin {"idle", "called", "tell", "failed", "closeTell"}

\* Until its close begins, a stream is in the map from the start of OpenStream.
OpenIsFindable == \A id \in ID :
  (op[id] \in {"registered", "sending", "waiting", "open"} /\ once[id] = "new")
     => id \in streams

\* Where a stream is in its life and whether closeCh is closed go together.
OnceFits == \A id \in ID : /\ op[id] \in {"idle", "called"} => once[id] = "new"
                           /\ op[id] = "closed" => once[id] = "done"
                           /\ once[id] = "running" => op[id] \in {"closing", "closeTell"}

\* A reader deletes an entry only after it has closed the stream; and an entry
\* whose stream is closed for good is about to be deleted, or Run is stuck.
DropIsClosed == \A g \in Conn : rpc[g] = "drop" => once[rmsg[g].id] = "done"
DoneIsDropped == \A id \in streams : once[id] = "done" =>
                    \/ Stuck
                    \/ \E g \in Conn : rpc[g] = "drop" /\ rmsg[g].id = id

\* A connection that has not been served yet has no reader.
UnservedIsUnread == /\ runPc \in {"sendAuth", "recvAuth"} => rpc[ws] = "off"
                    /\ \A w \in Conn : agentEnd[w] = "none" => rpc[w] = "off"

IInv == /\ TypeOK /\ InHand
        /\ UnservedIsUnread
        /\ PendingIsAwaited
        /\ EntryHasOwner /\ OpenIsFindable /\ OnceFits
        /\ DropIsClosed /\ DoneIsDropped

----------------------------------------------------------------------------
(* Types *)

\* Every message of the agent's environment is one.
LEMMA ServerMessageTypes == ServerMessages \subseteq Messages
<1>1. AllServerMessages \subseteq Messages
  BY MessageTypes, AgentAssumption DEF AllServerMessages
<1> QED  BY <1>1 DEF ServerMessages

\* A send by the agent, whatever comes of it.
LEMMA AgentSendType ==
  ASSUME TypeOK, NEW msg \in Messages, TrySend(msg)
  PROVE  up' \in [Conn -> Seq(Messages)]
<1>1. CASE Send(msg)
  <2>1. ws \in Conn /\ SendUp(ws, msg)
    BY <1>1 DEF Send, TypeOK, RunTypeOK
  <2> QED  BY <2>1, SendUpType DEF TypeOK
<1>2. CASE SendFails
  BY <1>2 DEF SendFails, TypeOK, LinkTypeOK
<1> QED  BY <1>1, <1>2 DEF TrySend

----------------------------------------------------------------------------
(* Each group of steps keeps TypeOK and InHand. *)

Typed == TypeOK /\ InHand

\* A part whose variables a step leaves alone stays as it was.
LEMMA Frame ==
  /\ LinkTypeOK /\ UNCHANGED linkVars => LinkTypeOK'
  /\ MapTypeOK /\ UNCHANGED mapVars => MapTypeOK'
  /\ StreamTypeOK /\ UNCHANGED streamVars => StreamTypeOK'
  /\ RunTypeOK /\ RunInHand /\ UNCHANGED runVars => RunTypeOK' /\ RunInHand'
  /\ LoopTypeOK /\ ReaderInHand /\ UNCHANGED loopVars => LoopTypeOK' /\ ReaderInHand'
<1>1. LinkTypeOK /\ UNCHANGED linkVars => LinkTypeOK'
  BY DEF LinkTypeOK, linkVars
<1>2. MapTypeOK /\ UNCHANGED mapVars => MapTypeOK'
  BY DEF MapTypeOK, mapVars
<1>3. StreamTypeOK /\ UNCHANGED streamVars => StreamTypeOK'
  BY DEF StreamTypeOK, streamVars
<1>4. RunTypeOK /\ RunInHand /\ UNCHANGED runVars => RunTypeOK' /\ RunInHand'
  BY DEF RunTypeOK, RunInHand, runVars
<1>5. LoopTypeOK /\ ReaderInHand /\ UNCHANGED loopVars => LoopTypeOK' /\ ReaderInHand'
  BY DEF LoopTypeOK, ReaderInHand, loopVars
<1> QED  BY <1>1, <1>2, <1>3, <1>4, <1>5

\* Run.
LEMMA RunTypes ==
  ASSUME Typed, RunStep \/ Cancel
  PROVE  Typed'
<1> USE DEF Typed, TypeOK, InHand
<1>1. CASE RunTop \/ DialFails \/ ServeCancelled \/ FailNonePending \/ CloseNoStreams \/ Backoff
  <2>1. RunTypeOK' /\ RunInHand'
    BY <1>1 DEF RunTop, DialFails, ServeCancelled, FailNonePending, CloseNoStreams, Backoff,
                Goto, RunTypeOK, RunInHand, RunPC
  <2> QED
    BY <1>1, <2>1, Frame DEF RunTop, DialFails, ServeCancelled, FailNonePending, CloseNoStreams,
                             Backoff
<1>2. CASE Cancel
  BY <1>2, Frame DEF Cancel, RunTypeOK, RunInHand
<1>3. ASSUME NEW w \in Conn, DialAttach(w)
      PROVE  Typed'
  <2>1. LinkTypeOK'
    BY <1>3 DEF DialAttach, DialOpens, LinkTypeOK
  <2>2. RunTypeOK' /\ RunInHand'
    BY <1>3 DEF DialAttach, Goto, RunTypeOK, RunInHand, RunPC
  <2> QED  BY <1>3, <2>1, <2>2, Frame DEF DialAttach
<1>4. CASE SendAuth
  <2>1. up' \in [Conn -> Seq(Messages)]
    BY <1>4, AgentSendType, MessageTypes DEF SendAuth, TrySend
  <2>2. LinkTypeOK'
    BY <1>4, <2>1 DEF SendAuth, LinkTypeOK
  <2>3. RunTypeOK' /\ RunInHand'
    BY <1>4 DEF SendAuth, Goto, RunTypeOK, RunInHand, RunPC
  <2> QED  BY <1>4, <2>2, <2>3, Frame DEF SendAuth
<1>5. CASE SendAuthFails
  <2>1. LinkTypeOK'
    BY <1>5, CloseEndType DEF SendAuthFails, SendFails, LinkTypeOK
  <2>2. RunTypeOK' /\ RunInHand'
    BY <1>5 DEF SendAuthFails, Goto, RunTypeOK, RunInHand, RunPC
  <2> QED  BY <1>5, <2>1, <2>2, Frame DEF SendAuthFails
<1>6. CASE RecvAuthOk
  <2>1. ws \in Conn
    BY <1>6 DEF RecvAuthOk, RunInHand
  <2>2. LinkTypeOK'
    BY <1>6, <2>1, TakeDownType DEF RecvAuthOk, LinkTypeOK
  <2>3. RunTypeOK' /\ RunInHand'
    BY <1>6, <2>1 DEF RecvAuthOk, Goto, RunTypeOK, RunInHand, RunPC
  <2>4. LoopTypeOK' /\ ReaderInHand'
    BY <1>6, <2>1 DEF RecvAuthOk, LoopTypeOK, ReaderInHand
  <2> QED  BY <1>6, <2>2, <2>3, <2>4, Frame DEF RecvAuthOk
<1>7. CASE RecvAuthRefused
  <2>1. LinkTypeOK'
    BY <1>7, CloseEndType DEF RecvAuthRefused, LinkTypeOK
  <2>2. RunTypeOK' /\ RunInHand'
    BY <1>7 DEF RecvAuthRefused, Goto, RunTypeOK, RunInHand, RunPC
  <2> QED  BY <1>7, <2>1, <2>2, Frame DEF RecvAuthRefused
<1>8. CASE ServeError
  <2>1. RunTypeOK' /\ RunInHand'
    BY <1>8 DEF ServeError, Goto, RunTypeOK, RunInHand, RunPC
  <2>2. errCh' \in [Conn -> 0 .. 1] /\ UNCHANGED <<rpc, ron, rmsg, ppc, ticks>>
    <3>1. errCh' = [errCh EXCEPT ![ws] = 0] /\ UNCHANGED <<rpc, ron, rmsg, ppc, ticks>>
      BY <1>8 DEF ServeError
    <3>2. errCh \in [Conn -> 0 .. 1] /\ 0 \in 0 .. 1
      BY DEF LoopTypeOK
    <3> QED  BY <3>1, <3>2
  <2>3. LoopTypeOK' /\ ReaderInHand'
    BY <2>2 DEF LoopTypeOK, ReaderInHand
  <2> QED  BY <1>8, <2>1, <2>3, Frame DEF ServeError
<1>9. CASE Detach
  <2>1. LinkTypeOK'
    BY <1>9, CloseEndType DEF Detach, LinkTypeOK
  <2>2. RunTypeOK' /\ RunInHand'
    BY <1>9 DEF Detach, Goto, RunTypeOK, RunInHand, RunPC
  <2> QED  BY <1>9, <2>1, <2>2, Frame DEF Detach
<1>10. CASE FailPendingStuck \/ CloseStreamsStuck
  <2>1. RunTypeOK' /\ RunInHand'
    BY <1>10 DEF FailPendingStuck, CloseStreamsStuck, Goto, RunTypeOK, RunInHand, RunPC
  <2>2. MapTypeOK'
    BY <1>10, Frame DEF FailPendingStuck, CloseStreamsStuck
  <2>3. CASE FailPendingStuck
    <3>1. StreamTypeOK'
      BY <2>3 DEF FailPendingStuck, StreamTypeOK
    <3> QED  BY <2>1, <2>3, <3>1, Frame DEF FailPendingStuck
  <2>4. CASE CloseStreamsStuck
    <3>1. StreamTypeOK'
      BY <2>4 DEF CloseStreamsStuck, StreamTypeOK
    <3> QED  BY <2>1, <2>4, <3>1, Frame DEF CloseStreamsStuck
  <2> QED  BY <1>10, <2>3, <2>4
<1> QED
  BY <1>1, <1>2, <1>3, <1>4, <1>5, <1>6, <1>7, <1>8, <1>9, <1>10 DEF RunStep

\* Where handleInbound leaves the reader, whatever it was given.
LEMMA ContinueType ==
  ASSUME LoopTypeOK, ReaderInHand, NEW g \in Conn, NEW pc, NEW msg,
         Continue(g, pc, msg), UNCHANGED <<ppc, errCh, ticks>>,
         \/ pc \in {"top", "pong"} /\ msg = NoMessage
         \/ pc \in {"push", "drop"} /\ msg \in Messages /\ msg.id \in ID
  PROVE  LoopTypeOK' /\ ReaderInHand'
<1>1. LoopTypeOK'
  BY DEF Continue, LoopTypeOK
<1>2. pc \in {"push", "drop"} => msg.id \in ID /\ msg.n \in Nat
  BY DEF Messages
<1>3. ReaderInHand'
  BY <1>2 DEF Continue, LoopTypeOK, ReaderInHand
<1> QED  BY <1>1, <1>3

\* The reader of a connection.
LEMMA ReaderTypes ==
  ASSUME Typed, NEW g \in Conn, ReaderStep(g)
  PROVE  Typed'
<1> USE DEF Typed, TypeOK, InHand
<1> DEFINE msg == Head(down[ron[g]])
<1>1. CASE ReadTop(g) \/ ReadError(g)
  <2>1. LoopTypeOK'
    BY <1>1 DEF ReadTop, ReadError, LoopTypeOK, RunTypeOK
  <2>2. ReaderInHand'
    BY <1>1 DEF ReadTop, ReadError, LoopTypeOK, RunTypeOK, ReaderInHand
  <2> QED  BY <1>1, <2>1, <2>2, Frame DEF ReadTop, ReadError
<1>2. CASE ReadMessage(g)
  <2>1. ron[g] \in Conn /\ TakeDown(ron[g])
    BY <1>2 DEF ReadMessage, ReadOpenResp, ReadData, ReadClose, ReadPing, ReadOther, Receive,
                ReaderInHand
  <2>2. down' \in [Conn -> Seq(Messages)] /\ msg \in Messages
    BY <2>1, TakeDownType
  <2>3. UNCHANGED <<up, agentEnd, serverEnd, cut, runVars, mapVars, ppc, errCh, ticks>>
    BY <1>2 DEF ReadMessage, ReadOpenResp, ReadData, ReadClose, ReadPing, ReadOther
  <2>4. LinkTypeOK'
    BY <2>2, <2>3 DEF LinkTypeOK
  <2>5. RunTypeOK' /\ RunInHand' /\ MapTypeOK'
    BY <2>3, Frame
  <2>6. msg.id \in streams => msg.id \in ID
    BY DEF MapTypeOK
  <2> HIDE DEF msg
  <2>7. LoopTypeOK' /\ ReaderInHand'
    <3>1. \/ Continue(g, "top", NoMessage) \/ Continue(g, "pong", NoMessage)
          \/ Continue(g, "push", msg) /\ msg.id \in ID
          \/ Continue(g, "drop", msg) /\ msg.id \in ID
      BY <1>2, <2>6 DEF msg, ReadMessage, ReadOpenResp, ReadData, ReadClose, ReadPing, ReadOther
    <3> QED  BY <2>2, <2>3, <3>1, ContinueType
  <2>8. StreamTypeOK'
    <3>1. CASE ReadOpenResp(g, msg)
      BY <3>1 DEF ReadOpenResp, StreamTypeOK
    <3>2. CASE ReadClose(g, msg)
      BY <3>2 DEF ReadClose, StreamTypeOK
    <3>3. CASE ReadData(g, msg) \/ ReadPing(g, msg) \/ ReadOther(g, msg)
      BY <3>3, Frame DEF ReadData, ReadPing, ReadOther
    <3> QED  BY <1>2, <3>1, <3>2, <3>3 DEF msg, ReadMessage
  <2> QED  BY <2>4, <2>5, <2>7, <2>8
<1>3. CASE PushQueue(g)
  <2>1. rmsg[g].id \in ID /\ rmsg[g].n \in Nat
    BY <1>3 DEF PushQueue, ReaderInHand
  <2> DEFINE q == inCh[rmsg[g].id]
             r == Append(q, rmsg[g].n)
  <2>2. q \in Seq(Nat) /\ Len(q) < InCap /\ inCh' = [inCh EXCEPT ![rmsg[g].id] = r]
    BY <1>3, <2>1 DEF PushQueue, StreamTypeOK
  <2>3. r \in Seq(Nat) /\ Len(r) = Len(q) + 1 /\ Len(q) \in Nat
    BY <2>1, <2>2, AppendProperties, LenProperties
  <2> HIDE DEF q, r
  <2>4. Len(r) \leq InCap
    BY <2>2, <2>3, AgentAssumption
  <2>5. inCh' \in [ID -> Seq(Nat)] /\ \A id \in ID : Len(inCh'[id]) \leq InCap
    BY <2>1, <2>2, <2>3, <2>4 DEF StreamTypeOK
  <2>6. StreamTypeOK'
    BY <1>3, <2>5 DEF PushQueue, StreamTypeOK
  <2>7. LoopTypeOK' /\ ReaderInHand'
    BY <1>3, ContinueType DEF PushQueue
  <2> QED  BY <1>3, <2>6, <2>7, Frame DEF PushQueue
<1>4. CASE PushClosed(g)
  BY <1>4, ContinueType, Frame DEF PushClosed
<1>5. CASE DropStream(g)
  <2>1. MapTypeOK'
    BY <1>5 DEF DropStream, MapTypeOK
  <2> QED  BY <1>5, <2>1, ContinueType, Frame DEF DropStream
<1>6. CASE Pong(g)
  <2>1. up' \in [Conn -> Seq(Messages)]
    BY <1>6, AgentSendType, MessageTypes DEF Pong
  <2>2. LinkTypeOK'
    BY <1>6, <2>1 DEF Pong, LinkTypeOK
  <2> QED  BY <1>6, <2>2, ContinueType, Frame DEF Pong
<1>7. CASE ReadExit(g)
  <2>1. LoopTypeOK' /\ ReaderInHand'
    BY <1>7 DEF ReadExit, LoopTypeOK, ReaderInHand
  <2> QED  BY <1>7, <2>1, Frame DEF ReadExit
<1> QED  BY <1>1, <1>2, <1>3, <1>4, <1>5, <1>6, <1>7 DEF ReaderStep

\* The pinger of a connection.
LEMMA PingerTypes ==
  ASSUME Typed, NEW g \in Conn, PingerStep(g)
  PROVE  Typed'
<1> USE DEF Typed, TypeOK, InHand
<1>1. LoopTypeOK' /\ ReaderInHand'
  BY DEF PingerStep, PingTick, PingCancelled, PingExit, LoopTypeOK, ReaderInHand
<1>2. CASE PingTick(g)
  <2>1. up' \in [Conn -> Seq(Messages)]
    BY <1>2, AgentSendType, MessageTypes DEF PingTick, TrySend
  <2>2. LinkTypeOK'
    BY <1>2, <2>1 DEF PingTick, LinkTypeOK
  <2> QED  BY <1>1, <1>2, <2>2, Frame DEF PingTick
<1>3. CASE PingCancelled(g) \/ PingExit(g)
  BY <1>1, <1>3, Frame DEF PingCancelled, PingExit
<1> QED  BY <1>2, <1>3 DEF PingerStep

\* OpenStream.
LEMMA OpenTypes ==
  ASSUME Typed, NEW id \in ID, OpenStep(id)
  PROVE  Typed'
<1> USE DEF Typed, TypeOK, InHand
<1>1. StreamTypeOK'
  <2>1. op' \in [ID -> OpPC] /\ UNCHANGED <<result, once, inCh, got, wr, sent>>
    BY DEF OpenStep, RegisterStream, RegisterPending, SendOpen, UndoPending, UndoStream,
           OpenAnswered, OpenTimesOut, ForgetStream, TellRefused, OpGoto, StreamTypeOK, OpPC
  <2> QED  BY <2>1 DEF StreamTypeOK
<1>2. MapTypeOK' /\ UNCHANGED <<runVars, loopVars>>
  BY DEF OpenStep, RegisterStream, RegisterPending, SendOpen, UndoPending, UndoStream,
         OpenAnswered, OpenTimesOut, ForgetStream, TellRefused, MapTypeOK, mapVars
<1>3. LinkTypeOK'
  <2>1. CASE SendOpen(id) \/ TellRefused(id)
    <3>1. up' \in [Conn -> Seq(Messages)]
      BY <2>1, AgentSendType, MessageTypes DEF SendOpen, TellRefused, TrySend
    <3> QED  BY <2>1, <3>1 DEF SendOpen, TellRefused, LinkTypeOK
  <2>2. CASE ~(SendOpen(id) \/ TellRefused(id))
    BY <2>2, Frame DEF OpenStep, RegisterStream, RegisterPending, UndoPending, UndoStream,
                       OpenAnswered, OpenTimesOut, ForgetStream
  <2> QED  BY <2>1, <2>2
<1> QED  BY <1>1, <1>2, <1>3, Frame

\* Read, Write and Close.
LEMMA ClientTypes ==
  ASSUME Typed, NEW id \in ID, ClientStep(id) \/ StreamStep(id)
  PROVE  Typed'
<1> USE DEF Typed, TypeOK, InHand
<1>1. CASE CallOpen(id) \/ CloseFirst(id) \/ CloseAgain(id) \/ CloseForget(id)
  <2>1. /\ op' \in [ID -> OpPC]
        /\ once' \in [ID -> {"new", "running", "done"}]
        /\ UNCHANGED <<result, inCh, got, wr, sent>>
    BY <1>1 DEF CallOpen, CloseFirst, CloseAgain, CloseForget, OpGoto, StreamTypeOK, OpPC
  <2>2. StreamTypeOK'
    BY <2>1 DEF StreamTypeOK
  <2>3. MapTypeOK'
    BY <1>1 DEF CallOpen, CloseFirst, CloseAgain, CloseForget, MapTypeOK, mapVars
  <2> QED  BY <1>1, <2>2, <2>3, Frame DEF CallOpen, CloseFirst, CloseAgain, CloseForget
<1>2. CASE Write(id)
  <2>1. StreamTypeOK'
    BY <1>2 DEF Write, StreamTypeOK
  <2> QED  BY <1>2, <2>1, Frame DEF Write
<1>3. CASE Read(id)
  <2> DEFINE r == Tail(inCh[id])
  <2>1. inCh[id] \in Seq(Nat) /\ inCh[id] # <<>> /\ Len(inCh[id]) \leq InCap
    BY <1>3 DEF Read, StreamTypeOK
  <2>2. Head(inCh[id]) \in Nat /\ r \in Seq(Nat) /\ Len(r) = Len(inCh[id]) - 1
    BY <2>1, HeadTailProperties
  <2>3. inCh' = [inCh EXCEPT ![id] = r] /\ got' = [got EXCEPT ![id] = Head(inCh[id])]
    BY <1>3 DEF Read
  <2> HIDE DEF r
  <2>4. Len(r) \leq InCap
    BY <2>1, <2>2, LenProperties, AgentAssumption
  <2>5. inCh' \in [ID -> Seq(Nat)] /\ \A i \in ID : Len(inCh'[i]) \leq InCap
    BY <2>2, <2>3, <2>4 DEF StreamTypeOK
  <2>6. StreamTypeOK'
    BY <1>3, <2>2, <2>3, <2>5 DEF Read, StreamTypeOK
  <2> QED  BY <1>3, <2>6, Frame DEF Read
<1>4. CASE WriteSend(id)
  <2>1. sent[id] + 1 \in Nat
    BY DEF StreamTypeOK
  <2>2. Data(id, sent[id] + 1) \in Messages
    BY <2>1, MessageTypes
  <2>3. up' \in [Conn -> Seq(Messages)]
    BY <1>4, <2>2, AgentSendType DEF WriteSend, TrySend
  <2>4. LinkTypeOK'
    BY <1>4, <2>3 DEF WriteSend, LinkTypeOK
  <2>5. sent' \in [ID -> Nat]
    BY <1>4, <2>1 DEF WriteSend, StreamTypeOK
  <2>6. wr' \in [ID -> {"ready", "send", "ended"}]
    BY <1>4 DEF WriteSend, StreamTypeOK
  <2>7. StreamTypeOK'
    BY <1>4, <2>5, <2>6 DEF WriteSend, StreamTypeOK
  <2> QED  BY <1>4, <2>4, <2>7, Frame DEF WriteSend
<1>5. CASE CloseTell(id)
  <2>1. up' \in [Conn -> Seq(Messages)]
    BY <1>5, AgentSendType, MessageTypes DEF CloseTell
  <2>2. LinkTypeOK'
    BY <1>5, <2>1 DEF CloseTell, LinkTypeOK
  <2>3. op' \in [ID -> OpPC] /\ once' \in [ID -> {"new", "running", "done"}]
    BY <1>5 DEF CloseTell, OpGoto, StreamTypeOK, OpPC
  <2>4. StreamTypeOK'
    BY <1>5, <2>3 DEF CloseTell, StreamTypeOK
  <2> QED  BY <1>5, <2>2, <2>4, Frame DEF CloseTell
<1> QED  BY <1>1, <1>2, <1>3, <1>4, <1>5 DEF ClientStep, StreamStep

\* The server and the network.
LEMMA EnvironmentTypes ==
  ASSUME Typed, (\E w \in Conn : ServerStep(w)) \/ NetworkStep
  PROVE  Typed'
<1> USE DEF Typed, TypeOK, InHand
<1>1. UNCHANGED <<runVars, mapVars, streamVars, loopVars>>
  BY DEF ServerStep, NetworkStep, agentVars
<1>2. ASSUME NEW w \in Conn, ServerStep(w)
      PROVE  LinkTypeOK'
  <2>1. up' \in [Conn -> Seq(Messages)]
    <3>1. TakeUp(w) \/ UNCHANGED up \/ up' = [up EXCEPT ![w] = <<>>]
      BY <1>2 DEF ServerStep
    <3>2. <<>> \in Seq(Messages)
      BY EmptySeq
    <3>3. up' = [up EXCEPT ![w] = <<>>] => up' \in [Conn -> Seq(Messages)]
      BY <3>2 DEF LinkTypeOK
    <3> QED  BY <3>1, <3>3, TakeUpType DEF LinkTypeOK
  <2>2. down' \in [Conn -> Seq(Messages)]
    BY <1>2, SendDownType, ServerMessageTypes DEF ServerStep, LinkTypeOK
  <2>3. serverEnd' \in [Conn -> {"none", "open", "leaving", "closed"}]
    BY <1>2 DEF ServerStep, LinkTypeOK
  <2> QED  BY <1>2, <2>1, <2>2, <2>3 DEF ServerStep, LinkTypeOK
<1>3. ASSUME NetworkStep
      PROVE  LinkTypeOK'
  BY <1>3, BreakType DEF NetworkStep
<1>4. LinkTypeOK'
  BY <1>2, <1>3
<1> QED  BY <1>1, <1>4, Frame

\* Any step.
LEMMA TypedStep ==
  ASSUME Typed, Next
  PROVE  Typed'
BY RunTypes, ReaderTypes, PingerTypes, OpenTypes, ClientTypes, EnvironmentTypes
   DEF Next, AgentStep

\* And the initial states.
LEMMA TypedInit ==
  ASSUME Init
  PROVE  Typed
<1>1. LinkTypeOK
  BY EmptySeq DEF Init, LinkInit, LinkTypeOK
<1>2. RunTypeOK /\ RunInHand /\ MapTypeOK
  BY DEF Init, AgentInit, RunTypeOK, RunInHand, RunPC, MapTypeOK
<1>3. StreamTypeOK
  <2>1. /\ op \in [ID -> OpPC] /\ result \in [ID -> {"none", "ok", "fail"}]
        /\ once \in [ID -> {"new", "running", "done"}]
        /\ wr \in [ID -> {"ready", "send", "ended"}]
        /\ got \in [ID -> Nat] /\ sent \in [ID -> Nat]
    BY DEF Init, AgentInit, OpPC
  <2>2. inCh \in [ID -> Seq(Nat)]
    BY EmptySeq DEF Init, AgentInit
  <2>3. \A id \in ID : Len(inCh[id]) \leq InCap
    <3>1. Len(<<>>) = 0 /\ 0 \leq InCap
      BY AgentAssumption
    <3> QED  BY <3>1 DEF Init, AgentInit
  <2> QED  BY <2>1, <2>2, <2>3 DEF StreamTypeOK
<1>4. LoopTypeOK /\ ReaderInHand
  BY DEF Init, AgentInit, LoopTypeOK, ReaderInHand
<1> QED  BY <1>1, <1>2, <1>3, <1>4 DEF Typed, TypeOK, InHand

----------------------------------------------------------------------------
(* The relation between the maps and the streams.  What it is about: who    *)
(* puts an entry in, and who takes it out.                                  *)

Related == /\ PendingIsAwaited /\ EntryHasOwner /\ OpenIsFindable /\ OnceFits
           /\ DropIsClosed /\ DoneIsDropped

\* A step that leaves maps and streams alone, and takes no reader off its way
\* to delete an entry, keeps the relation.
LEMMA RelatedFrame ==
  ASSUME Related, UNCHANGED <<mapVars, op, once>>,
         Stuck => Stuck',
         \A g \in Conn : rpc[g] = "drop" <=> rpc'[g] = "drop",
         \A g \in Conn : rpc[g] = "drop" => rmsg'[g] = rmsg[g]
  PROVE  Related'
<1> USE DEF Related, mapVars
<1>1. PendingIsAwaited' /\ EntryHasOwner' /\ OpenIsFindable' /\ OnceFits'
  BY DEF PendingIsAwaited, EntryHasOwner, OpenIsFindable, OnceFits
<1>2. DropIsClosed'
  BY DEF DropIsClosed
<1>3. DoneIsDropped'
  BY DEF DoneIsDropped
<1> QED  BY <1>1, <1>2, <1>3

\* No step makes a reader start on a connection that was never served.
LEMMA UnservedStep ==
  ASSUME Typed, UnservedIsUnread, Next
  PROVE  UnservedIsUnread'
<1> USE DEF Typed, TypeOK, InHand
<1>1. CASE RunStep \/ Cancel
  <2>1. CASE RecvAuthOk
    <3>1. ws \in Conn /\ agentEnd[ws] = "open"
      BY <2>1 DEF RecvAuthOk, RunInHand, TakeDown
    <3> QED  BY <2>1, <3>1 DEF RecvAuthOk, Goto, UnservedIsUnread, LoopTypeOK
  <2>2. ASSUME NEW w \in Conn, DialAttach(w)
        PROVE  UnservedIsUnread'
    BY <2>2 DEF DialAttach, DialOpens, Goto, UnservedIsUnread, loopVars, LinkTypeOK
  <2>3. CASE SendAuthFails \/ RecvAuthRefused \/ Detach
    BY <2>3 DEF SendAuthFails, RecvAuthRefused, Detach, CloseAgentEnd, Goto, UnservedIsUnread,
                loopVars, LinkTypeOK, RunTypeOK
  <2>4. CASE \/ RunTop \/ DialFails \/ SendAuth \/ ServeError \/ ServeCancelled \/ FailNonePending
             \/ FailPendingStuck \/ CloseNoStreams \/ CloseStreamsStuck \/ Backoff \/ Cancel
    BY <2>4 DEF RunTop, DialFails, SendAuth, ServeError, ServeCancelled, FailNonePending,
                FailPendingStuck, CloseNoStreams, CloseStreamsStuck, Backoff, Cancel,
                Goto, UnservedIsUnread, linkVars, loopVars
  <2> QED  BY <1>1, <2>1, <2>2, <2>3, <2>4 DEF RunStep
<1>2. ASSUME NEW g \in Conn, ReaderStep(g) \/ PingerStep(g)
      PROVE  UnservedIsUnread'
  <2>1. UNCHANGED <<runPc, ws, agentEnd>>
    BY <1>2 DEF ReaderStep, PingerStep, ReadTop, ReadError, ReadMessage, ReadOpenResp, ReadData,
                ReadClose, ReadPing, ReadOther, PushQueue, PushClosed, DropStream, Pong, ReadExit,
                PingTick, PingCancelled, PingExit, runVars, linkVars
  <2>2. \/ UNCHANGED rpc
        \/ rpc[g] # "off" /\ \E pc : rpc' = [rpc EXCEPT ![g] = pc]
    BY <1>2 DEF ReaderStep, PingerStep, ReadTop, ReadError, ReadMessage, ReadOpenResp, ReadData,
                ReadClose, ReadPing, ReadOther, PushQueue, PushClosed, DropStream, Pong, ReadExit,
                PingTick, PingCancelled, PingExit, Continue
  <2> QED  BY <2>1, <2>2 DEF UnservedIsUnread, LoopTypeOK, RunInHand
<1>3. ASSUME NEW id \in ID, OpenStep(id) \/ ClientStep(id) \/ StreamStep(id)
      PROVE  UnservedIsUnread'
  <2>1. UNCHANGED <<runPc, ws, agentEnd, rpc>>
    BY <1>3 DEF OpenStep, ClientStep, StreamStep, RegisterStream, RegisterPending, SendOpen,
                UndoPending, UndoStream, OpenAnswered, OpenTimesOut, ForgetStream, TellRefused,
                CallOpen, Read, Write, WriteSend, CloseFirst, CloseAgain, CloseForget, CloseTell,
                runVars, linkVars, loopVars
  <2> QED  BY <2>1 DEF UnservedIsUnread
<1>4. ASSUME (\E w \in Conn : ServerStep(w)) \/ NetworkStep
      PROVE  UnservedIsUnread'
  <2>1. UNCHANGED <<runPc, ws, agentEnd, rpc>>
    BY <1>4 DEF ServerStep, NetworkStep, Break, agentVars, runVars, loopVars
  <2> QED  BY <2>1 DEF UnservedIsUnread
<1> QED  BY <1>1, <1>2, <1>3, <1>4 DEF Next, AgentStep

\* No step loses the report of a loop that has ended.
LEMMA ReportedStep ==
  ASSUME Typed, FailureIsReported, Next
  PROVE  FailureIsReported'
<1> USE DEF Typed, TypeOK, InHand
<1>1. CASE RunStep \/ Cancel
  <2>1. CASE RecvAuthOk
    <3>1. ws \in Conn
      BY <2>1 DEF RecvAuthOk, RunInHand
    <3>2. rpc'[ws] = "top" /\ ppc'[ws] = "run" /\ UNCHANGED ws
      BY <2>1, <3>1 DEF RecvAuthOk, LoopTypeOK
    <3> QED  BY <3>2 DEF FailureIsReported
  <2>2. CASE ServeError \/ Cancel
    BY <2>2 DEF ServeError, Cancel, Goto, FailureIsReported, loopVars
  <2>3. CASE \/ RunTop \/ DialFails \/ SendAuth \/ SendAuthFails \/ RecvAuthRefused
             \/ ServeCancelled \/ Detach \/ FailNonePending \/ FailPendingStuck
             \/ CloseNoStreams \/ CloseStreamsStuck \/ Backoff \/ \E w \in Conn : DialAttach(w)
    <3>1. runPc' # "serve"
      BY <2>3 DEF RunTop, DialFails, SendAuth, SendAuthFails, RecvAuthRefused, ServeCancelled,
                  Detach, FailNonePending, FailPendingStuck, CloseNoStreams, CloseStreamsStuck,
                  Backoff, DialAttach, Goto
    <3> QED  BY <3>1 DEF FailureIsReported
  <2> QED  BY <1>1, <2>1, <2>2, <2>3 DEF RunStep
<1>2. ASSUME NEW g \in Conn, ReaderStep(g) \/ PingerStep(g)
      PROVE  FailureIsReported'
  <2>1. UNCHANGED <<runPc, ws, ctxDone>>
    BY <1>2 DEF ReaderStep, PingerStep, ReadTop, ReadError, ReadMessage, ReadOpenResp, ReadData,
                ReadClose, ReadPing, ReadOther, PushQueue, PushClosed, DropStream, Pong, ReadExit,
                PingTick, PingCancelled, PingExit, runVars
  <2>2. CASE ReadExit(g) \/ PingExit(g)
    <3>1. errCh' = [errCh EXCEPT ![g] = 1]
      BY <2>2 DEF ReadExit, PingExit
    <3>2. \A h \in Conn : h # g => rpc'[h] = rpc[h] /\ ppc'[h] = ppc[h]
      BY <2>2 DEF ReadExit, PingExit, LoopTypeOK
    <3> QED  BY <2>1, <3>1, <3>2 DEF FailureIsReported, LoopTypeOK
  <2>3. CASE PingCancelled(g)
    BY <2>1, <2>3 DEF PingCancelled, FailureIsReported
  <2>4. CASE ~(ReadExit(g) \/ PingExit(g) \/ PingCancelled(g))
    <3>1. UNCHANGED errCh
      BY <1>2, <2>4 DEF ReaderStep, PingerStep, ReadTop, ReadError, ReadMessage, ReadOpenResp,
                  ReadData, ReadClose, ReadPing, ReadOther, PushQueue, PushClosed, DropStream,
                  Pong, PingTick
    <3>2. \/ UNCHANGED rpc
          \/ \E pc : pc # "exit" /\ rpc' = [rpc EXCEPT ![g] = pc]
      BY <1>2, <2>4 DEF ReaderStep, PingerStep, ReadTop, ReadError, ReadMessage, ReadOpenResp,
                  ReadData, ReadClose, ReadPing, ReadOther, PushQueue, PushClosed, DropStream,
                  Pong, PingTick, Continue
    <3>3. UNCHANGED ppc \/ ppc' = [ppc EXCEPT ![g] = "err"]
      BY <1>2, <2>4 DEF ReaderStep, PingerStep, ReadTop, ReadError, ReadMessage, ReadOpenResp,
                  ReadData, ReadClose, ReadPing, ReadOther, PushQueue, PushClosed, DropStream,
                  Pong, PingTick
    <3>4. \A h \in Conn : /\ rpc'[h] = "exit" => rpc[h] = "exit"
                          /\ ppc'[h] = "exit" => ppc[h] = "exit"
      BY <3>2, <3>3 DEF LoopTypeOK
    <3> QED  BY <2>1, <3>1, <3>4 DEF FailureIsReported
  <2> QED  BY <2>2, <2>3, <2>4
<1>3. ASSUME NEW id \in ID, OpenStep(id) \/ ClientStep(id) \/ StreamStep(id)
      PROVE  FailureIsReported'
  <2>1. UNCHANGED <<runPc, ws, ctxDone, rpc, ppc, errCh>>
    BY <1>3 DEF OpenStep, ClientStep, StreamStep, RegisterStream, RegisterPending, SendOpen,
                UndoPending, UndoStream, OpenAnswered, OpenTimesOut, ForgetStream, TellRefused,
                CallOpen, Read, Write, WriteSend, CloseFirst, CloseAgain, CloseForget, CloseTell,
                runVars, loopVars
  <2> QED  BY <2>1 DEF FailureIsReported
<1>4. ASSUME (\E w \in Conn : ServerStep(w)) \/ NetworkStep
      PROVE  FailureIsReported'
  <2>1. UNCHANGED <<runPc, ws, ctxDone, rpc, ppc, errCh>>
    BY <1>4 DEF ServerStep, NetworkStep, agentVars, runVars, loopVars
  <2> QED  BY <2>1 DEF FailureIsReported
<1> QED  BY <1>1, <1>2, <1>3, <1>4 DEF Next, AgentStep

\* Run.
LEMMA RelatedRun ==
  ASSUME Typed, UnservedIsUnread, Related, RunStep \/ Cancel
  PROVE  Related'
<1>1. CASE CloseStreamsStuck
  <2>1. PICK id \in streams : once' = [once EXCEPT ![id] = IF @ = "new" THEN "done" ELSE @]
    BY <1>1 DEF CloseStreamsStuck
  <2>2. /\ UNCHANGED <<streams, pending, op, rpc, rmsg>>
        /\ id \in ID /\ once \in [ID -> {"new", "running", "done"}]
        /\ op[id] \notin {"idle", "called"}
    BY <1>1, <2>1 DEF CloseStreamsStuck, mapVars, loopVars, Typed, TypeOK, MapTypeOK,
                      StreamTypeOK, Related, EntryHasOwner
  <2>3. PendingIsAwaited' /\ EntryHasOwner'
    BY <2>2 DEF Related, PendingIsAwaited, EntryHasOwner
  <2>4. OpenIsFindable'
    BY <2>1, <2>2 DEF Related, OpenIsFindable
  <2>5. OnceFits'
    BY <2>1, <2>2 DEF Related, OnceFits
  <2>6. DropIsClosed'
    BY <2>1, <2>2 DEF Related, DropIsClosed, Typed, InHand, ReaderInHand
  <2>7. Stuck'
    BY <1>1 DEF CloseStreamsStuck, Goto, Stuck, StreamsFree
  <2> QED  BY <2>3, <2>4, <2>5, <2>6, <2>7 DEF Related, DoneIsDropped
<1>2. CASE ~CloseStreamsStuck
  <2>1. UNCHANGED <<mapVars, op, once, rmsg>>
    BY <1>2 DEF RunStep, RunTop, DialAttach, DialFails, SendAuth, SendAuthFails, RecvAuthOk,
                RecvAuthRefused, ServeError, ServeCancelled, Detach, FailNonePending,
                FailPendingStuck, CloseNoStreams, Backoff, Cancel, streamVars, loopVars
  <2>2. Stuck => Stuck'
    BY <1>2 DEF RunStep, RunTop, DialAttach, DialFails, SendAuth, SendAuthFails, RecvAuthOk,
                RecvAuthRefused, ServeError, ServeCancelled, Detach, FailNonePending,
                FailPendingStuck, CloseNoStreams, Backoff, Cancel, Goto, Stuck, PendingFree,
                StreamsFree
  <2>3. \/ UNCHANGED rpc
        \/ rpc[ws] = "off" /\ rpc' = [rpc EXCEPT ![ws] = "top"]
    <3>1. CASE RecvAuthOk
      BY <3>1 DEF RecvAuthOk, UnservedIsUnread
    <3>2. CASE ~RecvAuthOk
      BY <1>2, <3>2 DEF RunStep, RunTop, DialAttach, DialFails, SendAuth, SendAuthFails,
                  RecvAuthRefused, ServeError, ServeCancelled, Detach, FailNonePending,
                  FailPendingStuck, CloseNoStreams, Backoff, Cancel, loopVars
    <3> QED  BY <3>1, <3>2
  <2>4. \A g \in Conn : rpc[g] = "drop" <=> rpc'[g] = "drop"
    BY <2>3 DEF Typed, TypeOK, LoopTypeOK
  <2> QED  BY <2>1, <2>2, <2>4, RelatedFrame
<1> QED  BY <1>1, <1>2

\* The reader of a connection.
LEMMA RelatedReader ==
  ASSUME Typed, Related, NEW g \in Conn, ReaderStep(g)
  PROVE  Related'
<1> DEFINE msg == Head(down[ron[g]])
<1>0. UNCHANGED <<pending, op, runPc>>
  BY DEF ReaderStep, ReadTop, ReadError, ReadMessage, ReadOpenResp, ReadData, ReadClose, ReadPing,
         ReadOther, PushQueue, PushClosed, DropStream, Pong, ReadExit, runVars, mapVars, streamVars
<1>1. CASE rpc[g] = "recv" /\ ReadClose(g, msg) /\ msg.id \in streams
  <2>1. /\ once' = [once EXCEPT ![msg.id] = "done"] /\ UNCHANGED streams
        /\ rpc' = [rpc EXCEPT ![g] = "drop"] /\ rmsg' = [rmsg EXCEPT ![g] = msg]
    BY <1>1 DEF ReadClose, Continue, mapVars
  <2>2. /\ msg.id \in ID /\ op[msg.id] \notin {"idle", "called"}
        /\ once \in [ID -> {"new", "running", "done"}]
        /\ DOMAIN rpc = Conn /\ DOMAIN rmsg = Conn
    BY <1>1 DEF Typed, TypeOK, MapTypeOK, StreamTypeOK, LoopTypeOK, Related, EntryHasOwner
  <2> HIDE DEF msg
  <2>3. PendingIsAwaited' /\ EntryHasOwner'
    BY <1>0, <2>1 DEF Related, PendingIsAwaited, EntryHasOwner
  <2>4. OpenIsFindable' /\ OnceFits'
    BY <1>0, <2>1, <2>2 DEF Related, OpenIsFindable, OnceFits
  <2>5. DropIsClosed'
    <3>1. SUFFICES ASSUME NEW h \in Conn, rpc'[h] = "drop"  PROVE once'[rmsg'[h].id] = "done"
      BY DEF DropIsClosed
    <3>2. CASE h = g
      BY <2>1, <2>2, <3>2
    <3>3. CASE h # g
      BY <2>1, <2>2, <3>1, <3>3 DEF Related, DropIsClosed, Typed, InHand, ReaderInHand
    <3> QED  BY <3>2, <3>3
  <2>6. DoneIsDropped'
    <3>1. SUFFICES ASSUME NEW id \in streams, once'[id] = "done", ~Stuck
                   PROVE  \E h \in Conn : rpc'[h] = "drop" /\ rmsg'[h].id = id
      BY <1>0, <2>1 DEF DoneIsDropped, Stuck, PendingFree, StreamsFree
    <3>2. CASE id = msg.id
      BY <2>1, <2>2, <3>2
    <3>3. CASE id # msg.id
      <4>1. PICK h \in Conn : rpc[h] = "drop" /\ rmsg[h].id = id
        BY <2>1, <2>2, <3>1, <3>3 DEF Related, DoneIsDropped, Typed, TypeOK, MapTypeOK
      <4> QED  BY <1>1, <2>1, <2>2, <4>1
    <3> QED  BY <3>2, <3>3
  <2> QED  BY <2>3, <2>4, <2>5, <2>6 DEF Related
<1>2. CASE DropStream(g)
  <2> DEFINE gone == rmsg[g].id
  <2>1. /\ streams' = streams \ {gone} /\ UNCHANGED <<once, runPc>>
        /\ rpc[g] = "drop" /\ rpc' = [rpc EXCEPT ![g] = "top"]
        /\ rmsg' = [rmsg EXCEPT ![g] = NoMessage]
        /\ once[gone] = "done" /\ DOMAIN rpc = Conn /\ DOMAIN rmsg = Conn
    BY <1>0, <1>2 DEF DropStream, Continue, streamVars, Related, DropIsClosed, Typed, TypeOK, LoopTypeOK
  <2> HIDE DEF gone
  <2>2. PendingIsAwaited' /\ EntryHasOwner' /\ OpenIsFindable' /\ OnceFits'
    BY <1>0, <2>1 DEF Related, PendingIsAwaited, EntryHasOwner, OpenIsFindable, OnceFits
  <2>3. DropIsClosed'
    BY <2>1 DEF Related, DropIsClosed
  <2>4. DoneIsDropped'
    <3>1. SUFFICES ASSUME NEW id \in streams, id # gone, once[id] = "done", ~Stuck
                   PROVE  \E h \in Conn : rpc'[h] = "drop" /\ rmsg'[h].id = id
      BY <2>1 DEF DoneIsDropped, Stuck, PendingFree, StreamsFree
    <3>2. PICK h \in Conn : rpc[h] = "drop" /\ rmsg[h].id = id
      BY <3>1 DEF Related, DoneIsDropped
    <3>3. h # g
      BY <3>1, <3>2 DEF gone
    <3> QED  BY <2>1, <3>2, <3>3
  <2> QED  BY <2>2, <2>3, <2>4 DEF Related
<1>3. CASE ~DropStream(g) /\ ~(rpc[g] = "recv" /\ ReadClose(g, msg) /\ msg.id \in streams)
  <2>1. UNCHANGED <<mapVars, op, once>>
    BY <1>0, <1>3 DEF ReaderStep, ReadTop, ReadError, ReadMessage, ReadOpenResp, ReadData, ReadClose,
                ReadPing, ReadOther, PushQueue, PushClosed, Pong, ReadExit, mapVars, streamVars
  <2>2. /\ rpc[g] # "drop"
        /\ \E pc : pc # "drop" /\ rpc' = [rpc EXCEPT ![g] = pc]
        /\ \/ UNCHANGED rmsg
           \/ \E m : rmsg' = [rmsg EXCEPT ![g] = m]
    BY <1>3 DEF ReaderStep, ReadTop, ReadError, ReadMessage, ReadOpenResp, ReadData, ReadClose,
                ReadPing, ReadOther, PushQueue, PushClosed, Pong, ReadExit, Continue
  <2>3. Stuck => Stuck'
    BY <1>0 DEF Stuck, PendingFree, StreamsFree
  <2>4. /\ \A h \in Conn : rpc[h] = "drop" <=> rpc'[h] = "drop"
        /\ \A h \in Conn : rpc[h] = "drop" => rmsg'[h] = rmsg[h]
    BY <2>2 DEF Typed, TypeOK, LoopTypeOK
  <2> QED  BY <2>1, <2>3, <2>4, RelatedFrame
<1> QED  BY <1>1, <1>2, <1>3

\* OpenStream.
LEMMA RelatedOpen ==
  ASSUME Typed, Related, NEW id \in ID, OpenStep(id)
  PROVE  Related'
<1>1. UNCHANGED <<once, rpc, rmsg, runPc>>
  BY DEF OpenStep, RegisterStream, RegisterPending, SendOpen, UndoPending, UndoStream,
         OpenAnswered, OpenTimesOut, ForgetStream, TellRefused, runVars, loopVars
<1>2. DropIsClosed'
  BY <1>1 DEF Related, DropIsClosed
<1>3. op \in [ID -> OpPC] /\ streams \subseteq ID /\ pending \subseteq ID
  BY DEF Typed, TypeOK, StreamTypeOK, MapTypeOK
<1>4. /\ \A x \in streams' : once'[x] = "done" => x \in streams
      /\ Stuck => Stuck'
  BY <1>1 DEF OpenStep, RegisterStream, RegisterPending, SendOpen, UndoPending, UndoStream,
              OpenAnswered, OpenTimesOut, ForgetStream, TellRefused, mapVars, Related, OnceFits,
              Stuck, PendingFree, StreamsFree
<1>5. DoneIsDropped'
  BY <1>1, <1>4 DEF Related, DoneIsDropped
<1>6. CASE RegisterStream(id) \/ RegisterPending(id) \/ SendOpen(id)
  <2>1. PendingIsAwaited' /\ EntryHasOwner'
    BY <1>3, <1>6 DEF RegisterStream, RegisterPending, SendOpen, OpGoto, mapVars,
                      Related, PendingIsAwaited, EntryHasOwner
  <2>2. OpenIsFindable' /\ OnceFits'
    BY <1>1, <1>3, <1>6 DEF RegisterStream, RegisterPending, SendOpen, OpGoto, mapVars,
                            Related, OpenIsFindable, OnceFits
  <2> QED  BY <1>2, <1>5, <2>1, <2>2 DEF Related
<1>7. CASE UndoPending(id) \/ UndoStream(id) \/ OpenAnswered(id) \/ OpenTimesOut(id)
  <2>1. PendingIsAwaited' /\ EntryHasOwner'
    BY <1>3, <1>7 DEF UndoPending, UndoStream, OpenAnswered, OpenTimesOut, OpGoto,
                      Related, PendingIsAwaited, EntryHasOwner
  <2>2. OpenIsFindable' /\ OnceFits'
    BY <1>1, <1>3, <1>7 DEF UndoPending, UndoStream, OpenAnswered, OpenTimesOut, OpGoto,
                            Related, OpenIsFindable, OnceFits
  <2> QED  BY <1>2, <1>5, <2>1, <2>2 DEF Related
<1>8. CASE ForgetStream(id) \/ TellRefused(id)
  <2>1. PendingIsAwaited' /\ EntryHasOwner'
    BY <1>3, <1>8 DEF ForgetStream, TellRefused, OpGoto, mapVars,
                      Related, PendingIsAwaited, EntryHasOwner
  <2>2. OpenIsFindable' /\ OnceFits'
    BY <1>1, <1>3, <1>8 DEF ForgetStream, TellRefused, OpGoto, mapVars,
                            Related, OpenIsFindable, OnceFits
  <2> QED  BY <1>2, <1>5, <2>1, <2>2 DEF Related
<1> QED  BY <1>6, <1>7, <1>8 DEF OpenStep

\* Read, Write and Close.
LEMMA RelatedClient ==
  ASSUME Typed, Related, NEW id \in ID, ClientStep(id) \/ StreamStep(id)
  PROVE  Related'
<1>1. UNCHANGED <<rpc, rmsg, runPc, pending>>
  BY DEF ClientStep, StreamStep, CallOpen, Read, Write, WriteSend, CloseFirst, CloseAgain,
         CloseForget, CloseTell, runVars, mapVars, loopVars
<1>2. Stuck => Stuck'
  BY <1>1 DEF Stuck, PendingFree, StreamsFree
<1>3. /\ op \in [ID -> OpPC] /\ once \in [ID -> {"new", "running", "done"}]
      /\ streams \subseteq ID
  BY DEF Typed, TypeOK, StreamTypeOK, MapTypeOK
<1>4. CASE Read(id) \/ Write(id) \/ WriteSend(id)
  <2>1. UNCHANGED <<mapVars, op, once>>
    BY <1>4 DEF Read, Write, WriteSend
  <2> QED  BY <1>1, <1>2, <2>1, RelatedFrame
<1>5. CASE CallOpen(id) \/ CloseFirst(id) \/ CloseAgain(id) \/ CloseForget(id) \/ CloseTell(id)
  <2>1. PendingIsAwaited' /\ EntryHasOwner'
    BY <1>1, <1>3, <1>5 DEF CallOpen, CloseFirst, CloseAgain, CloseForget, CloseTell, OpGoto,
                            mapVars, Related, PendingIsAwaited, EntryHasOwner
  <2>2. OpenIsFindable'
    BY <1>1, <1>3, <1>5 DEF CallOpen, CloseFirst, CloseAgain, CloseForget, CloseTell, OpGoto,
                            mapVars, Related, OpenIsFindable
  <2>3. OnceFits'
    BY <1>1, <1>3, <1>5 DEF CallOpen, CloseFirst, CloseAgain, CloseForget, CloseTell, OpGoto,
                            Related, OnceFits
  <2>4. /\ streams' \subseteq streams
        /\ \A x \in ID : once[x] = "done" => once'[x] = "done"
        /\ \A x \in streams' : once'[x] = "done" => once[x] = "done"
    BY <1>3, <1>5 DEF CallOpen, CloseFirst, CloseAgain, CloseForget, CloseTell, mapVars,
                      Related, EntryHasOwner
  <2>5. DropIsClosed'
    BY <1>1, <2>4 DEF Related, DropIsClosed, Typed, InHand, ReaderInHand
  <2>6. DoneIsDropped'
    BY <1>1, <1>2, <2>4 DEF Related, DoneIsDropped
  <2> QED  BY <2>1, <2>2, <2>3, <2>5, <2>6 DEF Related
<1> QED  BY <1>4, <1>5 DEF ClientStep, StreamStep

\* Any step.
LEMMA RelatedStep ==
  ASSUME Typed, UnservedIsUnread, Related, Next
  PROVE  Related'
<1>1. ASSUME NEW g \in Conn, PingerStep(g)
      PROVE  Related'
  <2>1. UNCHANGED <<mapVars, op, once, rpc, rmsg, runPc>>
    BY <1>1 DEF PingerStep, PingTick, PingCancelled, PingExit, runVars, streamVars
  <2>2. Stuck => Stuck'
    BY <2>1 DEF Stuck, PendingFree, StreamsFree
  <2> QED  BY <2>1, <2>2, RelatedFrame
<1>2. ASSUME (\E w \in Conn : ServerStep(w)) \/ NetworkStep
      PROVE  Related'
  <2>1. UNCHANGED <<mapVars, op, once, rpc, rmsg, runPc>>
    BY <1>2 DEF ServerStep, NetworkStep, agentVars, runVars, streamVars, loopVars
  <2>2. Stuck => Stuck'
    BY <2>1 DEF Stuck, PendingFree, StreamsFree
  <2> QED  BY <2>1, <2>2, RelatedFrame
<1> QED  BY <1>1, <1>2, RelatedRun, RelatedReader, RelatedOpen, RelatedClient DEF Next, AgentStep

----------------------------------------------------------------------------
(* Theorems *)

\* The inductive invariant holds at the start ...
LEMMA InitHolds == Init => IInv
<1>1. Init => Typed
  BY TypedInit
<1>2. Init => UnservedIsUnread /\ Related
  BY DEF Init, AgentInit, UnservedIsUnread, Related, PendingIsAwaited, EntryHasOwner,
         OpenIsFindable, OnceFits, DropIsClosed, DoneIsDropped
<1> QED  BY <1>1, <1>2 DEF IInv, Typed, Related

\* ... and every step keeps it.
LEMMA InvariantStep == IInv /\ [Next]_vars => IInv'
<1> USE DEF IInv, Typed, Related
<1>1. IInv /\ Next => IInv'
  BY TypedStep, UnservedStep, RelatedStep
<1>2. IInv /\ UNCHANGED vars => IInv'
  <2>1. Typed /\ UNCHANGED vars => Typed'
    BY Frame DEF vars, agentVars, TypeOK, InHand
  <2>2. UnservedIsUnread /\ UNCHANGED vars => UnservedIsUnread'
    BY DEF vars, agentVars, linkVars, runVars, loopVars, UnservedIsUnread
  <2>3. Related /\ UNCHANGED vars => Related'
    <3>1. UNCHANGED vars => UNCHANGED <<mapVars, op, once, rpc, rmsg, runPc>>
      BY DEF vars, agentVars, runVars, streamVars, loopVars
    <3>2. UNCHANGED vars /\ Stuck => Stuck'
      BY <3>1 DEF Stuck, PendingFree, StreamsFree
    <3> QED  BY <3>1, <3>2, RelatedFrame
  <2> QED  BY <2>1, <2>2, <2>3
<1> QED  BY <1>1, <1>2

\* So it holds in every reachable state.
THEOREM Invariance == SafetySpec => []IInv
BY InitHolds, InvariantStep, PTL DEF SafetySpec

\* Type correctness of the agent's session, whatever the server sends.
THEOREM TypeCorrect == SafetySpec => []TypeOK
<1>1. IInv => TypeOK
  BY DEF IInv
<1> QED  BY <1>1, Invariance, PTL

\* An OpenStream that has returned an error (session.go 226-247) has left
\* neither a stream nor a pending open behind.
THEOREM FailureLeavesNothing == SafetySpec => []FailedIsForgotten
<1>1. IInv => FailedIsForgotten
  BY DEF IInv, FailedIsForgotten, EntryHasOwner, PendingIsAwaited
<1> QED  BY <1>1, Invariance, PTL

\* Every pending open has an OpenStream that will take it out.
THEOREM PendingHasOwner == SafetySpec => []PendingIsAwaited
<1>1. IInv => PendingIsAwaited
  BY DEF IInv
<1> QED  BY <1>1, Invariance, PTL

\* A stream whose closeCh is open and that its client holds is in s.streams.
THEOREM OpenStaysReachable == SafetySpec => []OpenIsReachable
<1>1. IInv => OpenIsReachable
  BY DEF IInv, OpenIsFindable, OpenIsReachable
<1> QED  BY <1>1, Invariance, PTL

\* A stream that is closed on both sides does not stay in s.streams.
THEOREM ClosedLeavesMap == SafetySpec => []ClosedIsForgotten
<1>1. IInv => ClosedIsForgotten
  BY DEF IInv, ClosedIsForgotten, OnceFits, DoneIsDropped
<1> QED  BY <1>1, Invariance, PTL

\* Run learns of the end of the loops of the connection it serves (session.go
\* 127-136): an error is in errCh until Run has taken it and left.
THEOREM FailureReachesRun == SafetySpec => []FailureIsReported
<1>1. Init => FailureIsReported
  BY DEF Init, AgentInit, FailureIsReported
<1>2. Typed /\ FailureIsReported /\ [Next]_vars => FailureIsReported'
  <2>1. FailureIsReported /\ UNCHANGED vars => FailureIsReported'
    BY DEF vars, agentVars, runVars, loopVars, FailureIsReported
  <2> QED  BY <2>1, ReportedStep
<1>3. IInv => Typed
  BY DEF IInv, Typed
<1> QED  BY <1>1, <1>2, <1>3, Invariance, PTL DEF SafetySpec

=============================================================================
