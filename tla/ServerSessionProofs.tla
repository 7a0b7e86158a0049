------------------------ MODULE ServerSessionProofs ------------------------
(***************************************************************************)
(* Theorems about ServerSession, against any agent that draws a fresh      *)
(* ConnID for every open and for any number of connections, targets,       *)
(* messages and queue capacities.  None of them needs fairness.            *)
(***************************************************************************)
EXTENDS ServerSession, LinkProofs

Dialling(w, id) == hpc[w] = "dial" /\ hid[w] = id
OpenAt(w, i, id) == i \in 1 .. Len(up[w]) /\ up[w][i] = Open(id)

\* An open message names its target.
OpenIsNamed == \A w \in Conn, i \in Nat :
                 (i \in 1 .. Len(up[w]) /\ up[w][i].type = "open") =>
                   \E id \in ID : up[w][i] = Open(id)

\* A ConnID is in one place until its target answers: in one open message, or
\* in the hands of one handler.
OneHandlerDials == \A v, w \in Conn, id \in ID :
                     Dialling(v, id) => /\ sock[id] = "none"
                                        /\ Dialling(w, id) => v = w
OneOpenSent == \A v, w \in Conn, id \in ID, i, j \in Nat :
                 OpenAt(v, i, id) => /\ sock[id] = "none"
                                     /\ ~Dialling(w, id)
                                     /\ OpenAt(w, j, id) => v = w /\ i = j

\* A target belongs to the session that dialled it and to no other.
TargetHasHome == \A id \in ID : IF sock[id] = "none"
                                THEN home[id] = 0 /\ pipe[id] = "off"
                                ELSE home[id] \in Conn
EntryAtHome == \A w \in Conn : \A id \in conns[w] : home[id] = w

\* What a handler has in its hands after the dial is a target of its session,
\* without a pipe while the reply is outstanding and closed before its entry
\* goes.
HandlerInHand == \A w \in Conn, id \in ID :
                   (hid[w] = id /\ hpc[w] # "dial") =>
                     /\ home[id] = w
                     /\ hpc[w] = "reply" => pipe[id] = "off" /\ id \in conns[w]
                     /\ hpc[w] \in {"failDelete", "delete"} => sock[id] = "closed"
PipeInHand == \A id \in ID : pipe[id] \in {"delete", "abortDelete"} => sock[id] = "closed"

\* A handler leaves its connection only when no entry is left.
GoneIsEmpty == \A w \in Conn : hpc[w] = "gone" => conns[w] = {}

IInv == /\ TypeOK /\ OpenIsNamed
        /\ OneHandlerDials /\ OneOpenSent
        /\ TargetHasHome /\ EntryAtHome
        /\ HandlerInHand /\ PipeInHand /\ GoneIsEmpty
        /\ SocketRegistered /\ EntryHasPipe

----------------------------------------------------------------------------
(* Types *)

SessionTypeOK == /\ hpc \in [Conn -> HandlerPC]
                 /\ hid \in [Conn -> ID \cup {NoID}]
                 /\ \A w \in Conn : hid[w] \in ID <=>
                      hpc[w] \in {"dial", "reply", "delete", "failDelete", "failTell"}
                 /\ authed \in [Conn -> BOOLEAN]
                 /\ conns \in [Conn -> SUBSET ID]
                 /\ spl \in [Conn -> {"run", "exit"}]
                 /\ sticks \in [Conn -> Nat]
TargetTypeOK == /\ home \in [ID -> Conn \cup {0}]
                /\ sock \in [ID -> {"none", "open", "closed"}]
                /\ pipe \in [ID -> PipePC]
                /\ pseq \in [ID -> Nat]
                /\ wrote \in [ID -> Nat]

\* TypeOK in its three parts, and a part whose variables a step leaves alone.
LEMMA TypeParts == /\ TypeOK <=> LinkTypeOK /\ SessionTypeOK /\ TargetTypeOK
                   /\ TypeOK' <=> LinkTypeOK' /\ SessionTypeOK' /\ TargetTypeOK'
BY DEF TypeOK, SessionTypeOK, TargetTypeOK

\* A part whose variables a step leaves alone stays as it was.
LEMMA Frame ==
  /\ LinkTypeOK /\ UNCHANGED linkVars => LinkTypeOK'
  /\ SessionTypeOK /\ UNCHANGED sessionVars => SessionTypeOK'
  /\ TargetTypeOK /\ UNCHANGED targetVars => TargetTypeOK'
<1>1. LinkTypeOK /\ UNCHANGED linkVars => LinkTypeOK'
  BY DEF LinkTypeOK, linkVars
<1>2. SessionTypeOK /\ UNCHANGED sessionVars => SessionTypeOK'
  BY DEF SessionTypeOK, sessionVars
<1>3. TargetTypeOK /\ UNCHANGED targetVars => TargetTypeOK'
  BY DEF TargetTypeOK, targetVars
<1> QED  BY <1>1, <1>2, <1>3

\* A send by the server, whatever comes of it.
LEMMA ServerSendType ==
  ASSUME LinkTypeOK, NEW w \in Conn, NEW msg \in Messages, TrySend(w, msg)
  PROVE  down' \in [Conn -> Seq(Messages)]
BY SendDownType DEF TrySend, Send, SendFails, LinkTypeOK

\* Where a handler goes next.
LEMMA GotoType ==
  ASSUME SessionTypeOK, NEW w \in Conn, NEW pc, NEW id, HandlerGoto(w, pc, id),
         UNCHANGED <<authed, spl, sticks>>,
         conns' \in [Conn -> SUBSET ID],
         \/ pc \in {"recv", "leave", "closeAll", "stuck", "gone"} /\ id = NoID
         \/ pc \in {"dial", "reply", "delete", "failDelete", "failTell"} /\ id \in ID
  PROVE  SessionTypeOK'
<1>1. pc \in HandlerPC /\ id \in ID \cup {NoID}
  BY DEF HandlerPC
<1>2. hpc' \in [Conn -> HandlerPC] /\ hid' \in [Conn -> ID \cup {NoID}]
  BY <1>1 DEF HandlerGoto, SessionTypeOK
<1>3. \A v \in Conn : hid'[v] \in ID <=>
        hpc'[v] \in {"dial", "reply", "delete", "failDelete", "failTell"}
  BY LinkAssumption DEF HandlerGoto, SessionTypeOK
<1> QED  BY <1>2, <1>3 DEF SessionTypeOK

\* The first message of a queue is about the connection or about a ConnID.
LEMMA HandleTypes ==
  ASSUME TypeOK, OpenIsNamed, NEW w \in Conn, HandleMessage(w)
  PROVE  TypeOK'
<1> DEFINE msg == Head(up[w])
<1> USE TypeParts
<1>1. TakeUp(w) /\ msg \in Messages /\ up' \in [Conn -> Seq(Messages)]
  <2>1. TakeUp(w)
    BY DEF HandleMessage, Unauthorized, AuthRefused, Authenticate, HandleOpen, HandleClose,
           HandleDataUnknown, HandleData, HandleDataFails, HandlePing, HandlePong,
           HandleUnknown, Receive
  <2> QED  BY <2>1, TakeUpType
<1>2. msg.id \in ID \cup {NoID} /\ msg.n \in Nat
  BY <1>1 DEF Messages
<1>3. CASE \/ Unauthorized(w, msg) \/ AuthRefused(w, msg)
  <2>1. down' \in [Conn -> Seq(Messages)]
    BY <1>3, ServerSendType, MessageTypes DEF Unauthorized, AuthRefused
  <2>2. SessionTypeOK'
    <3>1. HandlerGoto(w, "leave", NoID) /\ UNCHANGED <<authed, conns, spl, sticks>>
      BY <1>3 DEF Unauthorized, AuthRefused
    <3> QED  BY <3>1, GotoType DEF SessionTypeOK
  <2>3. UNCHANGED <<agentEnd, serverEnd, cut, targetVars>>
    BY <1>3 DEF Unauthorized, AuthRefused
  <2> QED  BY <1>1, <2>1, <2>2, <2>3, Frame DEF LinkTypeOK
<1>4. CASE Authenticate(w, msg)
  <2>1. down' \in [Conn -> Seq(Messages)]
    BY <1>4, ServerSendType, MessageTypes DEF Authenticate
  <2>2. authed' \in [Conn -> BOOLEAN]
    <3>1. authed' = [authed EXCEPT ![w] = TRUE]
      BY <1>4 DEF Authenticate
    <3> QED  BY <3>1, Zenon DEF SessionTypeOK
  <2>3. UNCHANGED <<agentEnd, serverEnd, cut, hpc, hid, conns, spl, sticks, targetVars>>
    BY <1>4 DEF Authenticate
  <2>4. SessionTypeOK'
    BY <2>2, <2>3 DEF SessionTypeOK
  <2> QED  BY <1>1, <2>1, <2>3, <2>4, Frame DEF LinkTypeOK
<1>5. CASE HandleOpen(w, msg)
  <2>1. HandlerGoto(w, "dial", msg.id) /\ msg.type = "open"
        /\ UNCHANGED <<down, agentEnd, serverEnd, cut, authed, conns, spl, sticks, targetVars>>
    BY <1>5 DEF HandleOpen
  <2>2. msg.id \in ID
    <3>1. 1 \in Nat /\ 1 \in 1 .. Len(up[w]) /\ up[w][1] = msg
      BY <1>1, TakeUpContents
    <3>2. PICK id \in ID : msg = Open(id)
      BY <2>1, <3>1 DEF OpenIsNamed
    <3> QED  BY <3>2 DEF Open, Message
  <2>3. SessionTypeOK'
    BY <2>1, <2>2, GotoType DEF SessionTypeOK
  <2> QED  BY <1>1, <2>1, <2>3, Frame DEF LinkTypeOK
<1>6. CASE HandleDataFails(w, msg)
  <2>1. /\ HandlerGoto(w, "failDelete", msg.id) /\ msg.id \in conns[w]
        /\ sock' = [sock EXCEPT ![msg.id] = "closed"]
        /\ UNCHANGED <<down, agentEnd, serverEnd, cut, authed, conns, spl, sticks>>
        /\ UNCHANGED <<home, pipe, pseq, wrote>>
    BY <1>6 DEF HandleDataFails
  <2>2. msg.id \in ID
    BY <2>1 DEF SessionTypeOK
  <2>3. SessionTypeOK'
    BY <2>1, <2>2, GotoType DEF SessionTypeOK
  <2> QED  BY <1>1, <2>1, <2>3 DEF LinkTypeOK, TargetTypeOK
<1>7. CASE HandleClose(w, msg)
  <2>1. UNCHANGED <<down, agentEnd, serverEnd, cut, authed, conns, spl, sticks, home, pipe, pseq, wrote>>
    BY <1>7 DEF HandleClose
  <2>2. CASE msg.id \in conns[w]
    <3>1. HandlerGoto(w, "delete", msg.id) /\ sock' = [sock EXCEPT ![msg.id] = "closed"]
      BY <1>7, <2>2 DEF HandleClose
    <3>2. msg.id \in ID
      BY <2>2 DEF SessionTypeOK
    <3>3. SessionTypeOK'
      BY <2>1, <3>1, <3>2, GotoType DEF SessionTypeOK
    <3> QED  BY <1>1, <2>1, <3>1, <3>3 DEF LinkTypeOK, TargetTypeOK
  <2>3. CASE msg.id \notin conns[w]
    <3>1. UNCHANGED <<sock, hpc, hid>>
      BY <1>7, <2>3 DEF HandleClose
    <3> QED  BY <1>1, <2>1, <3>1, Frame DEF LinkTypeOK, sessionVars, targetVars
  <2> QED  BY <2>2, <2>3
<1>8. CASE HandleData(w, msg)
  <2>1. UNCHANGED <<down, agentEnd, serverEnd, cut, sessionVars, home, sock, pipe, pseq>>
    BY <1>8 DEF HandleData
  <2>2. wrote' \in [ID -> Nat]
    BY <1>2, <1>8 DEF HandleData, TargetTypeOK
  <2> QED  BY <1>1, <2>1, <2>2, Frame DEF LinkTypeOK, TargetTypeOK
<1>9. CASE \/ HandleDataUnknown(w, msg) \/ HandlePing(w, msg)
           \/ HandlePong(w, msg) \/ HandleUnknown(w, msg)
  <2>1. down' \in [Conn -> Seq(Messages)]
    <3>1. CASE HandleDataUnknown(w, msg)
      BY <1>2, <3>1, ServerSendType, MessageTypes DEF HandleDataUnknown
    <3>2. CASE HandlePing(w, msg) \/ HandleUnknown(w, msg)
      BY <3>2, ServerSendType, MessageTypes DEF HandlePing, HandleUnknown
    <3>3. CASE HandlePong(w, msg)
      BY <3>3 DEF HandlePong, LinkTypeOK
    <3> QED  BY <1>9, <3>1, <3>2, <3>3
  <2>2. UNCHANGED <<agentEnd, serverEnd, cut, sessionVars, targetVars>>
    BY <1>9 DEF HandleDataUnknown, HandlePing, HandlePong, HandleUnknown
  <2> QED  BY <1>1, <2>1, <2>2, Frame DEF LinkTypeOK
<1> QED  BY <1>3, <1>4, <1>5, <1>6, <1>7, <1>8, <1>9 DEF HandleMessage

\* The other steps of a handler, and those of its ping loop.
LEMMA HandlerTypes ==
  ASSUME TypeOK, NEW w \in Conn,
         \/ ReceiveError(w) \/ DialFails(w) \/ DialSucceeds(w) \/ ReplyOpened(w)
         \/ FailDelete(w) \/ FailTell(w) \/ CloseDelete(w)
         \/ LeaveLoop(w) \/ CloseNone(w) \/ CloseAllStuck(w)
         \/ Tick(w) \/ PingDone(w)
  PROVE  TypeOK'
<1> USE TypeParts
<1>1. CASE ReceiveError(w)
  BY <1>1, GotoType, Frame DEF ReceiveError, SessionTypeOK
<1>2. CASE DialFails(w) \/ FailTell(w)
  <2>1. hid[w] \in ID
    BY <1>2 DEF DialFails, FailTell, SessionTypeOK
  <2>2. down' \in [Conn -> Seq(Messages)]
    BY <1>2, <2>1, ServerSendType, MessageTypes DEF DialFails, FailTell
  <2>3. SessionTypeOK'
    BY <1>2, GotoType DEF DialFails, FailTell, SessionTypeOK
  <2>4. UNCHANGED <<up, agentEnd, serverEnd, cut, targetVars>>
    BY <1>2 DEF DialFails, FailTell
  <2> QED  BY <2>2, <2>3, <2>4, Frame DEF LinkTypeOK
<1>3. CASE DialSucceeds(w)
  <2>1. hid[w] \in ID
    BY <1>3 DEF DialSucceeds, SessionTypeOK
  <2>2. SessionTypeOK'
    BY <1>3, <2>1, GotoType DEF DialSucceeds, SessionTypeOK
  <2> QED  BY <1>3, <2>1, <2>2, Frame DEF DialSucceeds, TargetTypeOK
<1>4. CASE ReplyOpened(w)
  <2>1. hid[w] \in ID
    BY <1>4 DEF ReplyOpened, SessionTypeOK
  <2>2. down' \in [Conn -> Seq(Messages)]
    BY <1>4, <2>1, ServerSendType, MessageTypes DEF ReplyOpened
  <2>3. SessionTypeOK'
    BY <1>4, GotoType DEF ReplyOpened, SessionTypeOK
  <2> QED  BY <1>4, <2>1, <2>2, <2>3 DEF ReplyOpened, LinkTypeOK, TargetTypeOK, PipePC
<1>5. CASE FailDelete(w) \/ CloseDelete(w)
  <2>1. hid[w] \in ID
    BY <1>5 DEF FailDelete, CloseDelete, SessionTypeOK
  <2>2. conns' \in [Conn -> SUBSET ID]
    BY <1>5 DEF FailDelete, CloseDelete, SessionTypeOK
  <2>3. SessionTypeOK'
    BY <1>5, <2>1, <2>2, GotoType DEF FailDelete, CloseDelete
  <2> QED  BY <1>5, <2>3, Frame DEF FailDelete, CloseDelete
<1>6. CASE LeaveLoop(w) \/ CloseNone(w)
  <2>1. SessionTypeOK'
    BY <1>6, GotoType DEF LeaveLoop, CloseNone, SessionTypeOK
  <2>2. LinkTypeOK'
    <3>1. CASE LeaveLoop(w)
      BY <3>1 DEF LeaveLoop, LinkTypeOK
    <3>2. CASE CloseNone(w)
      BY <3>2, EmptySeq DEF CloseNone, LinkTypeOK
    <3> QED  BY <1>6, <3>1, <3>2
  <2> QED  BY <1>6, <2>1, <2>2, Frame DEF LeaveLoop, CloseNone
<1>7. CASE CloseAllStuck(w)
  <2>1. SessionTypeOK'
    BY <1>7, GotoType DEF CloseAllStuck, SessionTypeOK
  <2>2. TargetTypeOK'
    BY <1>7 DEF CloseAllStuck, TargetTypeOK
  <2> QED  BY <1>7, <2>1, <2>2, Frame DEF CloseAllStuck
<1>8. CASE Tick(w)
  <2>1. down' \in [Conn -> Seq(Messages)]
    BY <1>8, ServerSendType, MessageTypes DEF Tick, TrySend
  <2>2. SessionTypeOK'
    BY <1>8 DEF Tick, SessionTypeOK
  <2> QED  BY <1>8, <2>1, <2>2, Frame DEF Tick, LinkTypeOK
<1>9. CASE PingDone(w)
  BY <1>9, Frame DEF PingDone, SessionTypeOK
<1> QED  BY <1>1, <1>2, <1>3, <1>4, <1>5, <1>6, <1>7, <1>8, <1>9

\* The pipe of a target, whose home is a connection.
LEMMA PipeTypes ==
  ASSUME TypeOK, TargetHasHome, NEW id \in ID, PipeStep(id)
  PROVE  TypeOK'
<1> USE TypeParts
<1>1. home[id] \in Conn /\ pipe[id] # "off"
  <2>1. pipe[id] # "off"
    BY DEF PipeStep, PipeRead, PipeSend, PipeEnds, PipeClose, PipeDelete, PipeTell
  <2> QED  BY <2>1 DEF TargetHasHome
<1>2. UNCHANGED <<home, wrote>>
  BY DEF PipeStep, PipeRead, PipeSend, PipeEnds, PipeClose, PipeDelete, PipeTell
<1>3. CASE PipeRead(id) \/ PipeEnds(id) \/ PipeClose(id)
  <2>1. TargetTypeOK'
    BY <1>3 DEF PipeRead, PipeEnds, PipeClose, PipeGoto, TargetTypeOK, PipePC
  <2> QED  BY <1>3, <2>1, Frame DEF PipeRead, PipeEnds, PipeClose
<1>4. CASE PipeSend(id) \/ PipeTell(id)
  <2>1. down' \in [Conn -> Seq(Messages)]
    BY <1>1, <1>4, ServerSendType, MessageTypes
       DEF PipeSend, PipeTell, TrySend, TargetTypeOK
  <2>2. TargetTypeOK'
    BY <1>4 DEF PipeSend, PipeTell, PipeGoto, TargetTypeOK, PipePC
  <2> QED  BY <1>4, <2>1, <2>2, Frame DEF PipeSend, PipeTell, LinkTypeOK
<1>5. CASE PipeDelete(id)
  <2>1. TargetTypeOK'
    BY <1>5 DEF PipeDelete, PipeGoto, TargetTypeOK, PipePC
  <2>2. SessionTypeOK'
    BY <1>5 DEF PipeDelete, SessionTypeOK
  <2> QED  BY <1>5, <2>1, <2>2, Frame DEF PipeDelete
<1> QED  BY <1>3, <1>4, <1>5 DEF PipeStep

\* Every message the agent may send is one.
LEMMA AgentMessageTypes == AgentMessages \subseteq Messages
BY MessageTypes, ServerAssumption DEF AgentMessages

\* The agents and the network.
LEMMA EnvironmentTypes ==
  ASSUME TypeOK, (\E w \in Conn : AgentStep(w)) \/ NetworkStep
  PROVE  TypeOK'
<1> USE TypeParts
<1>1. UNCHANGED <<sessionVars, targetVars>>
  BY DEF AgentStep, NetworkStep, serverVars
<1>2. ASSUME NEW w \in Conn, AgentStep(w)
      PROVE  LinkTypeOK'
  <2>1. CASE DialOpens(w) /\ UNCHANGED <<up, down, cut>>
    BY <2>1 DEF DialOpens, LinkTypeOK
  <2>2. CASE TakeDown(w) /\ UNCHANGED <<up, agentEnd, serverEnd, cut>>
    BY <2>2, TakeDownType DEF LinkTypeOK
  <2>3. ASSUME NEW msg \in AgentMessages, SendUp(w, msg),
               UNCHANGED <<down, agentEnd, serverEnd, cut>>
        PROVE  LinkTypeOK'
    BY <2>3, SendUpType, AgentMessageTypes DEF LinkTypeOK
  <2>4. CASE CloseAgentEnd(w) /\ UNCHANGED <<up, serverEnd, cut>>
    BY <2>4, CloseEndType DEF LinkTypeOK
  <2> QED  BY <1>2, <2>1, <2>2, <2>3, <2>4 DEF AgentStep
<1>3. CASE NetworkStep
  BY <1>1, <1>3, BreakType, Frame DEF NetworkStep
<1> QED  BY <1>1, <1>2, <1>3, Frame

\* And the initial states.
LEMMA TypeInit ==
  ASSUME Init
  PROVE  TypeOK
<1>1. LinkTypeOK
  BY LinkInitType DEF Init
<1>2. SessionTypeOK
  BY LinkAssumption DEF Init, ServerInit, SessionTypeOK, HandlerPC
<1>3. TargetTypeOK
  BY DEF Init, ServerInit, TargetTypeOK, PipePC
<1> QED  BY <1>1, <1>2, <1>3, TypeParts

----------------------------------------------------------------------------
(* The life of a ConnID before its target answers. *)

OneDial == OpenIsNamed /\ OneHandlerDials /\ OneOpenSent

\* The messages of a queue after the step are among those before it, in order.
NothingSent == \A v \in Conn : \E k \in {0, 1} :
                 \A i \in 1 .. Len(up'[v]) : /\ i + k \in 1 .. Len(up[v])
                                            /\ up'[v][i] = up[v][i + k]

\* A step that sends no message up, begins no dial and finishes none.
LEMMA OneDialFewer ==
  ASSUME LinkTypeOK, OneDial, NothingSent,
         \A w \in Conn, id \in ID : Dialling(w, id)' => Dialling(w, id),
         \A id \in ID : sock[id] = "none" => sock'[id] = "none"
  PROVE  OneDial'
<1>1. ASSUME NEW v \in Conn
      PROVE  \E k \in {0, 1} : \A i \in Nat : i \in 1 .. Len(up'[v]) =>
                                  i + k \in Nat /\ i + k \in 1 .. Len(up[v]) /\ up'[v][i] = up[v][i + k]
  BY DEF NothingSent
<1>2. OpenIsNamed'
  BY <1>1 DEF OneDial, OpenIsNamed
<1>3. OneHandlerDials'
  BY DEF OneDial, OneHandlerDials
<1>4. OneOpenSent'
  <2> SUFFICES ASSUME NEW v \in Conn, NEW w \in Conn, NEW id \in ID, NEW i \in Nat, NEW j \in Nat,
                      OpenAt(v, i, id)'
               PROVE  /\ sock'[id] = "none"
                      /\ ~Dialling(w, id)'
                      /\ OpenAt(w, j, id)' => v = w /\ i = j
    BY DEF OneOpenSent
  <2>1. PICK k \in {0, 1} : \A m \in Nat : m \in 1 .. Len(up'[v]) =>
                               m + k \in Nat /\ m + k \in 1 .. Len(up[v]) /\ up'[v][m] = up[v][m + k]
    BY <1>1
  <2>2. OpenAt(v, i + k, id) /\ i + k \in Nat
    BY <2>1 DEF OpenAt
  <2>3. sock[id] = "none" /\ ~Dialling(w, id)
    BY <2>2 DEF OneDial, OneOpenSent
  <2>4. ASSUME OpenAt(w, j, id)'
        PROVE  v = w /\ i = j
    <3>1. PICK l \in {0, 1} : \A m \in Nat : m \in 1 .. Len(up'[w]) =>
                                 m + l \in Nat /\ m + l \in 1 .. Len(up[w]) /\ up'[w][m] = up[w][m + l]
      BY <1>1
    <3>2. OpenAt(w, j + l, id) /\ j + l \in Nat
      BY <2>4, <3>1 DEF OpenAt
    <3>3. v = w /\ i + k = j + l
      BY <2>2, <3>2 DEF OneDial, OneOpenSent
    <3>4. OpenAt(v, j + k, id)
      BY <2>1, <2>4, <3>3 DEF OpenAt
    <3>5. i + k = j + k
      BY <2>2, <3>4 DEF OneDial, OneOpenSent
    <3> QED  BY <3>3, <3>5
  <2> QED  BY <2>3, <2>4
<1> QED  BY <1>2, <1>3, <1>4 DEF OneDial

\* Queues that are left alone, emptied or read from lose messages at most.
LEMMA FewerMessages ==
  ASSUME LinkTypeOK, NEW w \in Conn,
         UNCHANGED up \/ TakeUp(w) \/ up' = [up EXCEPT ![w] = <<>>]
  PROVE  NothingSent
<1>1. \A v \in Conn : Len(up[v]) \in Nat /\ up \in [Conn -> Seq(Messages)]
  BY LenProperties DEF LinkTypeOK
<1>2. CASE UNCHANGED up
  <2> SUFFICES ASSUME NEW v \in Conn
               PROVE  \A i \in 1 .. Len(up'[v]) : i + 0 \in 1 .. Len(up[v]) /\ up'[v][i] = up[v][i + 0]
    BY DEF NothingSent
  <2> QED  BY <1>1, <1>2
<1>3. CASE TakeUp(w)
  <2> SUFFICES ASSUME NEW v \in Conn
               PROVE  \E k \in {0, 1} : \A i \in 1 .. Len(up'[v]) :
                        i + k \in 1 .. Len(up[v]) /\ up'[v][i] = up[v][i + k]
    BY DEF NothingSent
  <2>1. CASE v = w
    <3>1. \A i \in 1 .. Len(up'[w]) : i + 1 \in 1 .. Len(up[w]) /\ up'[w][i] = up[w][i + 1]
      BY <1>1, <1>3, TakeUpContents
    <3> QED  BY <2>1, <3>1
  <2>2. CASE v # w
    <3>1. \A i \in 1 .. Len(up'[v]) : i + 0 \in 1 .. Len(up[v]) /\ up'[v][i] = up[v][i + 0]
      BY <1>1, <1>3, <2>2, TakeUpContents
    <3> QED  BY <3>1
  <2> QED  BY <2>1, <2>2
<1>4. CASE up' = [up EXCEPT ![w] = <<>>]
  <2> SUFFICES ASSUME NEW v \in Conn
               PROVE  \A i \in 1 .. Len(up'[v]) : i + 0 \in 1 .. Len(up[v]) /\ up'[v][i] = up[v][i + 0]
    BY DEF NothingSent
  <2> QED  BY <1>1, <1>4, EmptySeq
<1> QED  BY <1>2, <1>3, <1>4

\* The handler takes an open message and begins to dial.
LEMMA OneDialOpen ==
  ASSUME TypeOK, OneDial, NEW w \in Conn, HandleOpen(w, Head(up[w]))
  PROVE  OneDial'
<1> DEFINE msg == Head(up[w])
<1>1. TakeUp(w) /\ msg.type = "open" /\ HandlerGoto(w, "dial", msg.id) /\ UNCHANGED sock
  BY DEF HandleOpen, Receive, targetVars
<1>2. LinkTypeOK /\ hpc \in [Conn -> HandlerPC] /\ hid \in [Conn -> ID \cup {NoID}]
  BY DEF TypeOK
<1>3. /\ \A v \in Conn : v # w => up'[v] = up[v]
      /\ Len(up'[w]) = Len(up[w]) - 1
      /\ \A i \in 1 .. Len(up'[w]) : up'[w][i] = up[w][i + 1]
      /\ 1 \in 1 .. Len(up[w]) /\ up[w][1] = msg
  BY <1>1, <1>2, TakeUpContents
<1>4. PICK new \in ID : msg = Open(new)
  BY <1>1, <1>3 DEF OneDial, OpenIsNamed
<1>5. msg.id = new /\ OpenAt(w, 1, new)
  BY <1>3, <1>4 DEF Open, Message, OpenAt
<1>6. \A v \in Conn, id \in ID : Dialling(v, id)' <=>
        IF v = w THEN id = new ELSE Dialling(v, id)
  BY <1>1, <1>2, <1>5 DEF Dialling, HandlerGoto
<1>7. \A v \in Conn, i \in Nat, id \in ID : OpenAt(v, i, id)' =>
        \E k \in {0, 1} : OpenAt(v, i + k, id) /\ (v = w => k = 1)
  <2> SUFFICES ASSUME NEW v \in Conn, NEW i \in Nat, NEW id \in ID, OpenAt(v, i, id)'
               PROVE  \E k \in {0, 1} : OpenAt(v, i + k, id) /\ (v = w => k = 1)
    OBVIOUS
  <2>1. Len(up[w]) \in Nat
    BY <1>2, LenProperties DEF LinkTypeOK
  <2>2. CASE v = w
    <3>1. OpenAt(v, i + 1, id)
      BY <1>3, <2>1, <2>2 DEF OpenAt
    <3> QED  BY <3>1
  <2>3. CASE v # w
    <3>1. OpenAt(v, i + 0, id)
      BY <1>3, <2>3 DEF OpenAt
    <3> QED  BY <2>3, <3>1
  <2> QED  BY <2>2, <2>3
<1>8. \A v \in Conn, i \in Nat : ~OpenAt(v, i, new)'
  <2> SUFFICES ASSUME NEW v \in Conn, NEW i \in Nat, OpenAt(v, i, new)'
               PROVE  FALSE
    OBVIOUS
  <2>1. PICK k \in {0, 1} : OpenAt(v, i + k, new) /\ (v = w => k = 1)
    BY <1>7
  <2>2. v = w /\ i + k = 1
    BY <1>5, <2>1 DEF OneDial, OneOpenSent
  <2>3. i \in 1 .. Len(up'[w])
    BY <2>2 DEF OpenAt
  <2> QED  BY <2>1, <2>2, <2>3
<1>9. NothingSent
  BY <1>1, <1>2, FewerMessages
<1>10. OpenIsNamed'
  <2> SUFFICES ASSUME NEW v \in Conn, NEW i \in Nat, i \in 1 .. Len(up'[v]), up'[v][i].type = "open"
               PROVE  \E id \in ID : up'[v][i] = Open(id)
    BY DEF OpenIsNamed
  <2>1. PICK k \in {0, 1} : i + k \in 1 .. Len(up[v]) /\ up'[v][i] = up[v][i + k]
    BY <1>9 DEF NothingSent
  <2> QED  BY <2>1 DEF OneDial, OpenIsNamed
<1>11. OneHandlerDials'
  BY <1>1, <1>5, <1>6 DEF OneDial, OneHandlerDials, OneOpenSent
<1>12. OneOpenSent'
  <2> SUFFICES ASSUME NEW v \in Conn, NEW u \in Conn, NEW id \in ID, NEW i \in Nat, NEW j \in Nat,
                      OpenAt(v, i, id)'
               PROVE  /\ sock'[id] = "none"
                      /\ ~Dialling(u, id)'
                      /\ OpenAt(u, j, id)' => v = u /\ i = j
    BY DEF OneOpenSent
  <2>1. PICK k \in {0, 1} : OpenAt(v, i + k, id) /\ (v = w => k = 1)
    BY <1>7
  <2>2. id # new
    BY <1>8
  <2>3. sock[id] = "none" /\ ~Dialling(u, id)
    BY <2>1 DEF OneDial, OneOpenSent
  <2>4. ASSUME OpenAt(u, j, id)'
        PROVE  v = u /\ i = j
    <3>1. PICK l \in {0, 1} : OpenAt(u, j + l, id) /\ (u = w => l = 1)
      BY <1>7, <2>4
    <3>2. v = u /\ i + k = j + l
      BY <2>1, <3>1 DEF OneDial, OneOpenSent
    <3>3. CASE v = w
      BY <2>1, <3>1, <3>2, <3>3
    <3>4. CASE v # w
      <4>1. OpenAt(v, i, id) /\ OpenAt(v, j, id)
        BY <1>3, <2>4, <3>2, <3>4 DEF OpenAt
      <4> QED  BY <3>2, <4>1 DEF OneDial, OneOpenSent
    <3> QED  BY <3>3, <3>4
  <2> QED  BY <1>1, <1>6, <2>2, <2>3, <2>4
<1> QED  BY <1>10, <1>11, <1>12 DEF OneDial

\* The agent sends: an open only of a ConnID that is nowhere yet.
LEMMA OneDialSend ==
  ASSUME TypeOK, OneDial, NEW w \in Conn, NEW msg \in AgentMessages, SendUp(w, msg),
         UNCHANGED <<hpc, hid, sock>>
  PROVE  OneDial'
<1>1. LinkTypeOK /\ msg \in Messages
  BY AgentMessageTypes DEF TypeOK
<1>2. /\ \A v \in Conn : v # w => up'[v] = up[v]
      /\ \/ up'[w] = up[w]
         \/ /\ Len(up'[w]) = Len(up[w]) + 1
            /\ \A i \in 1 .. Len(up[w]) : up'[w][i] = up[w][i]
            /\ up'[w][Len(up[w]) + 1] = msg
  BY <1>1, SendUpContents
<1>3. \A v \in Conn : Len(up[v]) \in Nat
  BY <1>1, LenProperties DEF LinkTypeOK
<1>4. \A v \in Conn, i \in Nat : i \in 1 .. Len(up'[v]) =>
        \/ i \in 1 .. Len(up[v]) /\ up'[v][i] = up[v][i]
        \/ v = w /\ i = Len(up[w]) + 1 /\ up'[v][i] = msg
  BY <1>2, <1>3
<1>5. msg.type = "open" => \E id \in ID : msg = Open(id) /\ Fresh(id)
  BY DEF AgentMessages, Control, Open, Data, Close, Message
<1>6. OpenIsNamed'
  BY <1>4, <1>5 DEF OneDial, OpenIsNamed
<1>7. \A v \in Conn, id \in ID : Dialling(v, id)' <=> Dialling(v, id)
  BY DEF Dialling
<1>8. OneHandlerDials'
  BY <1>7 DEF OneDial, OneHandlerDials
<1>9. ASSUME NEW id \in ID, Fresh(id)
      PROVE  \A v \in Conn, i \in Nat : sock[id] = "none" /\ ~Dialling(v, id) /\ ~OpenAt(v, i, id)
  BY <1>9 DEF Fresh, Dialling, OpenAt
<1>10. \A id \in ID : msg = Open(id) => Fresh(id)
  <2> SUFFICES ASSUME NEW id \in ID, msg = Open(id)
               PROVE  Fresh(id)
    OBVIOUS
  <2>1. msg.type = "open" /\ msg.id = id
    BY DEF Open, Message
  <2>2. PICK x \in ID : msg = Open(x) /\ Fresh(x)
    BY <1>5, <2>1
  <2>3. x = id
    BY <2>1, <2>2 DEF Open, Message
  <2> QED  BY <2>2, <2>3
<1>11. OneOpenSent'
  <2> SUFFICES ASSUME NEW v \in Conn, NEW u \in Conn, NEW id \in ID, NEW i \in Nat, NEW j \in Nat,
                      OpenAt(v, i, id)'
               PROVE  /\ sock'[id] = "none"
                      /\ ~Dialling(u, id)'
                      /\ OpenAt(u, j, id)' => v = u /\ i = j
    BY DEF OneOpenSent
  <2>1. \A x \in Conn, k \in Nat : OpenAt(x, k, id)' =>
          OpenAt(x, k, id) \/ (x = w /\ k = Len(up[w]) + 1 /\ msg = Open(id))
    <3> SUFFICES ASSUME NEW x \in Conn, NEW k \in Nat, OpenAt(x, k, id)'
                 PROVE  OpenAt(x, k, id) \/ (x = w /\ k = Len(up[w]) + 1 /\ msg = Open(id))
      OBVIOUS
    <3>1. k \in 1 .. Len(up'[x]) /\ up'[x][k] = Open(id)
      BY DEF OpenAt
    <3>2. \/ k \in 1 .. Len(up[x]) /\ up'[x][k] = up[x][k]
          \/ x = w /\ k = Len(up[w]) + 1 /\ up'[x][k] = msg
      BY <1>4, <3>1
    <3> QED  BY <3>1, <3>2 DEF OpenAt
  <2>2. CASE Fresh(id)
    <3>1. v = w /\ i = Len(up[w]) + 1
      BY <1>9, <2>1, <2>2
    <3>2. OpenAt(u, j, id)' => u = w /\ j = Len(up[w]) + 1
      BY <1>9, <2>1, <2>2
    <3> QED  BY <1>7, <1>9, <2>2, <3>1, <3>2
  <2>3. CASE ~Fresh(id)
    <3>1. OpenAt(v, i, id) /\ (OpenAt(u, j, id)' => OpenAt(u, j, id))
      BY <1>10, <2>1, <2>3
    <3> QED  BY <1>7, <3>1 DEF OneDial, OneOpenSent
  <2> QED  BY <2>2, <2>3
<1> QED  BY <1>6, <1>8, <1>11 DEF OneDial

\* Every step keeps a ConnID in one place until its target answers.
LEMMA OneDialStep ==
  ASSUME TypeOK, OneDial, TargetHasHome, EntryAtHome, Next
  PROVE  OneDial'
<1>1. /\ LinkTypeOK
      /\ hpc \in [Conn -> HandlerPC] /\ hid \in [Conn -> ID \cup {NoID}]
      /\ sock \in [ID -> {"none", "open", "closed"}]
      /\ \A v \in Conn : conns[v] \subseteq ID
      /\ \A v \in Conn : \A id \in conns[v] : sock[id] # "none"
  <2>1. \A v \in Conn : conns[v] \subseteq ID
    BY DEF TypeOK
  <2>2. \A v \in Conn : \A id \in conns[v] : sock[id] # "none"
    <3> SUFFICES ASSUME NEW v \in Conn, NEW id \in conns[v]
                 PROVE  sock[id] # "none"
      OBVIOUS
    <3>1. id \in ID /\ home[id] = v /\ v # 0
      BY <2>1, LinkAssumption DEF EntryAtHome, Conn
    <3> QED  BY <3>1 DEF TargetHasHome
  <2> QED  BY <2>1, <2>2 DEF TypeOK
<1>2. ASSUME NEW w \in Conn, HandleMessage(w)
      PROVE  OneDial'
  <2> DEFINE msg == Head(up[w])
  <2>1. CASE HandleOpen(w, msg)
    BY <2>1, OneDialOpen
  <2>2. CASE ~HandleOpen(w, msg)
    <3>1. CASE \/ Unauthorized(w, msg) \/ AuthRefused(w, msg) \/ Authenticate(w, msg)
               \/ HandleDataUnknown(w, msg) \/ HandleData(w, msg)
               \/ HandlePing(w, msg) \/ HandlePong(w, msg) \/ HandleUnknown(w, msg)
      <4>1. TakeUp(w) /\ UNCHANGED sock
        BY <3>1 DEF Unauthorized, AuthRefused, Authenticate, HandleDataUnknown, HandleData,
                    HandlePing, HandlePong, HandleUnknown, Receive, targetVars
      <4>2. \/ UNCHANGED <<hpc, hid>>
            \/ HandlerGoto(w, "leave", NoID)
        BY <3>1 DEF Unauthorized, AuthRefused, Authenticate, HandleDataUnknown, HandleData,
                    HandlePing, HandlePong, HandleUnknown, sessionVars
      <4>3. \A v \in Conn, id \in ID : Dialling(v, id)' => Dialling(v, id)
        BY <1>1, <4>2 DEF Dialling, HandlerGoto
      <4>4. NothingSent
        BY <1>1, <4>1, FewerMessages
      <4> QED  BY <1>1, <4>1, <4>3, <4>4, OneDialFewer
    <3>2. CASE HandleClose(w, msg) \/ HandleDataFails(w, msg)
      <4>1. TakeUp(w)
        BY <3>2 DEF HandleClose, HandleDataFails, Receive
      <4>2. \/ UNCHANGED <<sock, hpc, hid>>
            \/ /\ msg.id \in conns[w] /\ sock' = [sock EXCEPT ![msg.id] = "closed"]
               /\ HandlerGoto(w, "delete", msg.id) \/ HandlerGoto(w, "failDelete", msg.id)
        BY <3>2 DEF HandleClose, HandleDataFails
      <4>3. \A v \in Conn, id \in ID : Dialling(v, id)' => Dialling(v, id)
        BY <1>1, <4>2 DEF Dialling, HandlerGoto
      <4>4. NothingSent
        BY <1>1, <4>1, FewerMessages
      <4>5. \A id \in ID : sock[id] = "none" => sock'[id] = "none"
        BY <1>1, <4>2
      <4> QED  BY <1>1, <4>3, <4>4, <4>5, OneDialFewer
    <3> QED  BY <1>2, <2>2, <3>1, <3>2 DEF HandleMessage
  <2> QED  BY <2>1, <2>2
<1>3. ASSUME NEW w \in Conn, ReceiveError(w) \/ FailDelete(w) \/ FailTell(w) \/ CloseDelete(w) \/ LeaveLoop(w)
      PROVE  OneDial'
  <2>1. /\ UNCHANGED <<up, sock>>
        /\ \E pc \in HandlerPC \ {"dial"}, x \in {NoID, hid[w]} : HandlerGoto(w, pc, x)
    BY <1>3 DEF ReceiveError, FailDelete, FailTell, CloseDelete, LeaveLoop, linkVars, targetVars, HandlerPC
  <2>2. \A v \in Conn, id \in ID : Dialling(v, id)' => Dialling(v, id)
    BY <1>1, <2>1 DEF Dialling, HandlerGoto
  <2> QED  BY <1>1, <2>1, <2>2, FewerMessages, OneDialFewer
<1>4. ASSUME NEW w \in Conn, DialFails(w) \/ ReplyOpened(w)
      PROVE  OneDial'
  <2>1. UNCHANGED <<up, sock>> /\ HandlerGoto(w, "recv", NoID)
    BY <1>4 DEF DialFails, ReplyOpened, targetVars
  <2>2. \A v \in Conn, id \in ID : Dialling(v, id)' => Dialling(v, id)
    BY <1>1, <2>1 DEF Dialling, HandlerGoto
  <2> QED  BY <1>1, <2>1, <2>2, FewerMessages, OneDialFewer
<1>5. ASSUME NEW w \in Conn, DialSucceeds(w)
      PROVE  OneDial'
  <2>1. UNCHANGED up /\ HandlerGoto(w, "reply", hid[w]) /\ sock' = [sock EXCEPT ![hid[w]] = "open"]
        /\ Dialling(w, hid[w]) /\ hid[w] \in ID
    BY <1>5 DEF DialSucceeds, linkVars, Dialling, TypeOK
  <2>2. \A v \in Conn, id \in ID : Dialling(v, id)' <=> Dialling(v, id) /\ v # w
    BY <1>1, <2>1 DEF Dialling, HandlerGoto
  <2>3. \A v \in Conn, i \in Nat, id \in ID : OpenAt(v, i, id)' <=> OpenAt(v, i, id)
    BY <2>1 DEF OpenAt
  <2>4. OneHandlerDials'
    <3> SUFFICES ASSUME NEW v \in Conn, NEW u \in Conn, NEW id \in ID, Dialling(v, id)'
                 PROVE  sock'[id] = "none" /\ (Dialling(u, id)' => v = u)
      BY DEF OneHandlerDials
    <3>1. Dialling(v, id) /\ v # w
      BY <2>2
    <3>2. id # hid[w]
      BY <2>1, <3>1 DEF OneDial, OneHandlerDials
    <3> QED  BY <1>1, <2>1, <2>2, <3>1, <3>2 DEF OneDial, OneHandlerDials
  <2>5. \A v \in Conn, i \in Nat : ~OpenAt(v, i, hid[w])
    BY <2>1 DEF OneDial, OneOpenSent
  <2>6. OneOpenSent'
    BY <1>1, <2>1, <2>2, <2>3, <2>5 DEF OneDial, OneOpenSent
  <2>7. OpenIsNamed'
    BY <2>1 DEF OneDial, OpenIsNamed
  <2> QED  BY <2>4, <2>6, <2>7 DEF OneDial
<1>6. ASSUME NEW w \in Conn, CloseNone(w) \/ CloseAllStuck(w)
      PROVE  OneDial'
  <2>1. \E pc \in {"gone", "stuck"} : HandlerGoto(w, pc, NoID)
    BY <1>6 DEF CloseNone, CloseAllStuck
  <2>2. \A v \in Conn, id \in ID : Dialling(v, id)' => Dialling(v, id)
    BY <1>1, <2>1 DEF Dialling, HandlerGoto
  <2>3. NothingSent
    BY <1>1, <1>6, FewerMessages DEF CloseNone, CloseAllStuck, linkVars
  <2>4. \A id \in ID : sock[id] = "none" => sock'[id] = "none"
    BY <1>1, <1>6 DEF CloseNone, CloseAllStuck, targetVars
  <2> QED  BY <1>1, <2>2, <2>3, <2>4, OneDialFewer
<1>7. ASSUME NEW w \in Conn, Tick(w) \/ PingDone(w)
      PROVE  OneDial'
  <2>1. UNCHANGED <<up, hpc, hid, sock>>
    BY <1>7 DEF Tick, PingDone, linkVars, targetVars
  <2> QED  BY <1>1, <2>1, FewerMessages, OneDialFewer DEF Dialling
<1>8. ASSUME NEW id \in ID, PipeStep(id)
      PROVE  OneDial'
  <2>1. UNCHANGED <<up, hpc, hid>>
    BY <1>8 DEF PipeStep, PipeRead, PipeSend, PipeEnds, PipeClose, PipeDelete, PipeTell,
                linkVars, sessionVars
  <2>2. pipe[id] # "off"
    BY <1>8 DEF PipeStep, PipeRead, PipeSend, PipeEnds, PipeClose, PipeDelete, PipeTell
  <2>3. UNCHANGED sock \/ sock' = [sock EXCEPT ![id] = "closed"]
    BY <1>8 DEF PipeStep, PipeRead, PipeSend, PipeEnds, PipeClose, PipeDelete, PipeTell, targetVars
  <2>4. \A x \in ID : sock[x] = "none" => sock'[x] = "none"
    BY <1>1, <2>2, <2>3 DEF TargetHasHome
  <2>5. 1 \in Conn
    BY LinkAssumption DEF Conn
  <2> QED  BY <1>1, <2>1, <2>4, <2>5, FewerMessages, OneDialFewer DEF Dialling
<1>9. ASSUME NEW w \in Conn, AgentStep(w)
      PROVE  OneDial'
  <2>1. UNCHANGED <<hpc, hid, sock>>
    BY <1>9 DEF AgentStep, serverVars, sessionVars, targetVars
  <2>2. ASSUME NEW msg \in AgentMessages, SendUp(w, msg)
        PROVE  OneDial'
    BY <2>1, <2>2, OneDialSend
  <2>3. CASE UNCHANGED up
    BY <1>1, <2>1, <2>3, FewerMessages, OneDialFewer DEF Dialling
  <2> QED  BY <1>9, <2>2, <2>3 DEF AgentStep
<1>10. CASE NetworkStep
  <2>1. UNCHANGED <<up, hpc, hid, sock>>
    BY <1>10 DEF NetworkStep, Break, serverVars, sessionVars, targetVars
  <2>2. 1 \in Conn
    BY LinkAssumption DEF Conn
  <2> QED  BY <1>1, <2>1, <2>2, FewerMessages, OneDialFewer DEF Dialling
<1> QED
  BY <1>2, <1>3, <1>4, <1>5, <1>6, <1>7, <1>8, <1>9, <1>10 DEF Next, ServerStep, HandlerStep
----------------------------------------------------------------------------
(* The life of a target: its entry, its socket, its pipe and its home. *)

AtHome == /\ TargetHasHome /\ EntryAtHome
          /\ HandlerInHand /\ PipeInHand /\ GoneIsEmpty
          /\ SocketRegistered /\ EntryHasPipe

\* A step that leaves the targets and their entries alone, and a handler too
\* unless it puts down what it has in its hands without replying.
LEMMA AtHomeFrame ==
  ASSUME TypeOK, AtHome, UNCHANGED <<conns, home, sock, pipe>>,
         \A w \in Conn : \/ hpc'[w] = hpc[w] /\ hid'[w] = hid[w]
                         \/ /\ hpc[w] # "reply"
                            /\ hpc'[w] = "dial" \/ hid'[w] \notin ID
                            /\ hpc'[w] = "gone" => conns[w] = {}
  PROVE  AtHome'
<1> USE DEF AtHome
<1>1. TargetHasHome' /\ EntryAtHome' /\ PipeInHand' /\ SocketRegistered'
  BY DEF TargetHasHome, EntryAtHome, PipeInHand, SocketRegistered
<1>2. HandlerInHand'
  BY DEF HandlerInHand
<1>3. GoneIsEmpty'
  BY DEF GoneIsEmpty
<1>4. EntryHasPipe'
  BY DEF EntryHasPipe
<1> QED  BY <1>1, <1>2, <1>3, <1>4

\* An entry is about a target that has been dialled.
LEMMA EntryIsDialled ==
  ASSUME TypeOK, TargetHasHome, EntryAtHome, NEW w \in Conn, NEW id \in conns[w]
  PROVE  id \in ID /\ home[id] = w /\ sock[id] # "none" /\ w # 0
<1>1. id \in ID /\ home[id] = w /\ w # 0
  BY LinkAssumption DEF TypeOK, EntryAtHome, Conn
<1> QED  BY <1>1 DEF TargetHasHome

\* A step of a handler.
LEMMA AtHomeHandler ==
  ASSUME TypeOK, OneDial, AtHome, NEW w \in Conn, HandlerStep(w)
  PROVE  AtHome'
<1> DEFINE msg == Head(up[w])
<1>1. /\ hpc \in [Conn -> HandlerPC] /\ hid \in [Conn -> ID \cup {NoID}]
      /\ conns \in [Conn -> SUBSET ID] /\ sock \in [ID -> {"none", "open", "closed"}]
      /\ home \in [ID -> Conn \cup {0}] /\ pipe \in [ID -> PipePC]
      /\ NoID \notin ID /\ 0 \notin Conn
      /\ \A v \in Conn : hid[v] \in ID <=>
           hpc[v] \in {"dial", "reply", "delete", "failDelete", "failTell"}
  BY LinkAssumption DEF TypeOK, Conn
<1>2. CASE \/ Unauthorized(w, msg) \/ AuthRefused(w, msg) \/ Authenticate(w, msg)
           \/ HandleOpen(w, msg) \/ HandleDataUnknown(w, msg) \/ HandleData(w, msg)
           \/ HandlePing(w, msg) \/ HandlePong(w, msg) \/ HandleUnknown(w, msg)
           \/ ReceiveError(w)
  <2>1. hpc[w] = "recv" /\ UNCHANGED <<conns, home, sock, pipe>>
    BY <1>2 DEF Unauthorized, AuthRefused, Authenticate, HandleOpen, HandleDataUnknown, HandleData,
                HandlePing, HandlePong, HandleUnknown, ReceiveError, Receive, sessionVars, targetVars
  <2>2. \/ UNCHANGED <<hpc, hid>>
        \/ HandlerGoto(w, "leave", NoID)
        \/ HandlerGoto(w, "dial", msg.id)
    BY <1>2 DEF Unauthorized, AuthRefused, Authenticate, HandleOpen, HandleDataUnknown, HandleData,
                HandlePing, HandlePong, HandleUnknown, ReceiveError, sessionVars
  <2> QED  BY <1>1, <2>1, <2>2, AtHomeFrame DEF HandlerGoto
<1>3. CASE DialFails(w) \/ FailTell(w) \/ LeaveLoop(w) \/ CloseNone(w)
  <2>1. /\ hpc[w] # "reply" /\ UNCHANGED <<conns, home, sock, pipe>>
        /\ hid' = [hid EXCEPT ![w] = NoID]
        /\ \E pc \in {"recv", "closeAll", "gone"} :
             hpc' = [hpc EXCEPT ![w] = pc] /\ (pc = "gone" => conns[w] = {})
    BY <1>3 DEF DialFails, FailTell, LeaveLoop, CloseNone, HandlerGoto, targetVars
  <2>2. \A v \in Conn : \/ hpc'[v] = hpc[v] /\ hid'[v] = hid[v]
                        \/ /\ v = w /\ hpc[v] # "reply" /\ hid'[v] = NoID
                           /\ hpc'[v] = "gone" => conns[v] = {}
    <3>1. PICK pc \in {"recv", "closeAll", "gone"} :
            hpc' = [hpc EXCEPT ![w] = pc] /\ (pc = "gone" => conns[w] = {})
      BY <2>1
    <3> QED  BY <1>1, <2>1, <3>1
  <2> QED  BY <1>1, <2>1, <2>2, AtHomeFrame
\* The handler closes the socket of an entry and goes on to delete the entry.
<1>4. CASE HandleDataFails(w, msg) \/ HandleClose(w, msg)
  <2>1. hpc[w] = "recv" /\ UNCHANGED <<conns, home, pipe>>
    BY <1>4 DEF HandleDataFails, HandleClose, Receive
  <2>2. CASE UNCHANGED <<sock, hpc, hid>>
    BY <2>1, <2>2, AtHomeFrame
  <2>3. CASE /\ msg.id \in conns[w] /\ sock' = [sock EXCEPT ![msg.id] = "closed"]
             /\ HandlerGoto(w, "delete", msg.id) \/ HandlerGoto(w, "failDelete", msg.id)
    <3>1. msg.id \in ID /\ home[msg.id] = w /\ sock[msg.id] # "none"
      BY <2>3, EntryIsDialled DEF AtHome
    <3>2. TargetHasHome' /\ EntryAtHome' /\ PipeInHand' /\ SocketRegistered'
      BY <1>1, <2>1, <2>3, <3>1
         DEF AtHome, TargetHasHome, EntryAtHome, PipeInHand, SocketRegistered
    <3>3. HandlerInHand'
      BY <1>1, <2>1, <2>3, <3>1 DEF AtHome, HandlerInHand, HandlerGoto
    <3>4. GoneIsEmpty' /\ EntryHasPipe'
      BY <1>1, <2>1, <2>3 DEF AtHome, GoneIsEmpty, EntryHasPipe, HandlerGoto
    <3> QED  BY <3>2, <3>3, <3>4 DEF AtHome
  <2> QED  BY <1>4, <2>2, <2>3 DEF HandleDataFails, HandleClose
\* The dial that succeeds: sock was "none", so nobody else knew the target.
<1>5. CASE DialSucceeds(w)
  <2> DEFINE id == hid[w]
  <2>1. /\ hpc[w] = "dial" /\ id \in ID /\ UNCHANGED pipe
        /\ sock' = [sock EXCEPT ![id] = "open"] /\ home' = [home EXCEPT ![id] = w]
        /\ conns' = [conns EXCEPT ![w] = @ \cup {id}] /\ HandlerGoto(w, "reply", id)
    BY <1>1, <1>5 DEF DialSucceeds
  <2>2. sock[id] = "none" /\ home[id] = 0 /\ pipe[id] = "off"
    BY <2>1 DEF OneDial, OneHandlerDials, Dialling, AtHome, TargetHasHome
  <2>3. \A v \in Conn : id \notin conns[v] /\ (hid[v] = id => v = w)
    <3> SUFFICES ASSUME NEW v \in Conn
                 PROVE  id \notin conns[v] /\ (hid[v] = id => v = w)
      OBVIOUS
    <3>1. id \notin conns[v]
      BY <2>2, EntryIsDialled DEF AtHome
    <3>2. CASE hid[v] = id /\ hpc[v] # "dial"
      BY <1>1, <2>1, <2>2, <3>2 DEF AtHome, HandlerInHand
    <3>3. CASE hid[v] = id /\ hpc[v] = "dial"
      BY <2>1, <3>1, <3>3 DEF OneDial, OneHandlerDials, Dialling
    <3> QED  BY <3>1, <3>2, <3>3
  <2>4. TargetHasHome' /\ PipeInHand'
    BY <1>1, <2>1, <2>2 DEF AtHome, TargetHasHome, PipeInHand
  <2>5. EntryAtHome' /\ SocketRegistered'
    BY <1>1, <2>1, <2>2, <2>3 DEF AtHome, EntryAtHome, SocketRegistered
  <2>6. HandlerInHand'
    BY <1>1, <2>1, <2>2, <2>3 DEF AtHome, HandlerInHand, HandlerGoto
  <2>7. GoneIsEmpty' /\ EntryHasPipe'
    BY <1>1, <2>1, <2>2, <2>3 DEF AtHome, GoneIsEmpty, EntryHasPipe, HandlerGoto
  <2> QED  BY <2>4, <2>5, <2>6, <2>7 DEF AtHome
\* The reply starts the pipe.
<1>6. CASE ReplyOpened(w)
  <2> DEFINE id == hid[w]
  <2>1. /\ hpc[w] = "reply" /\ id \in ID /\ UNCHANGED <<conns, home, sock>>
        /\ pipe' = [pipe EXCEPT ![id] = "read"] /\ HandlerGoto(w, "recv", NoID)
    BY <1>1, <1>6 DEF ReplyOpened
  <2>2. home[id] = w /\ pipe[id] = "off"
    BY <2>1 DEF AtHome, HandlerInHand
  <2>3. \A v \in Conn : hid[v] = id /\ hpc[v] # "dial" => v = w
    BY <2>1, <2>2 DEF AtHome, HandlerInHand
  <2>4. sock[id] # "none"
    BY <1>1, <2>1, <2>2 DEF AtHome, TargetHasHome
  <2>5. TargetHasHome' /\ EntryAtHome' /\ PipeInHand' /\ SocketRegistered'
    BY <1>1, <2>1, <2>4 DEF AtHome, TargetHasHome, EntryAtHome, PipeInHand, SocketRegistered
  <2>6. HandlerInHand'
    BY <1>1, <2>1, <2>3 DEF AtHome, HandlerInHand, HandlerGoto
  <2>7. GoneIsEmpty' /\ EntryHasPipe'
    BY <1>1, <2>1 DEF AtHome, GoneIsEmpty, EntryHasPipe, HandlerGoto
  <2> QED  BY <2>5, <2>6, <2>7 DEF AtHome
\* The handler deletes the entry of a socket that is closed.
<1>7. CASE FailDelete(w) \/ CloseDelete(w)
  <2> DEFINE id == hid[w]
  <2>1. /\ hpc[w] \in {"failDelete", "delete"} /\ id \in ID /\ UNCHANGED <<home, sock, pipe>>
        /\ conns' = [conns EXCEPT ![w] = @ \ {id}]
        /\ HandlerGoto(w, "failTell", id) \/ HandlerGoto(w, "recv", NoID)
    BY <1>1, <1>7 DEF FailDelete, CloseDelete, targetVars
  <2>2. home[id] = w /\ sock[id] = "closed"
    BY <2>1 DEF AtHome, HandlerInHand
  <2>3. TargetHasHome' /\ EntryAtHome' /\ PipeInHand' /\ SocketRegistered'
    BY <1>1, <2>1, <2>2 DEF AtHome, TargetHasHome, EntryAtHome, PipeInHand, SocketRegistered
  <2>4. HandlerInHand'
    BY <1>1, <2>1, <2>2 DEF AtHome, HandlerInHand, HandlerGoto
  <2>5. GoneIsEmpty' /\ EntryHasPipe'
    BY <1>1, <2>1 DEF AtHome, GoneIsEmpty, EntryHasPipe, HandlerGoto
  <2> QED  BY <2>3, <2>4, <2>5 DEF AtHome
<1>8. CASE CloseAllStuck(w)
  <2>1. PICK id \in conns[w] : sock' = [sock EXCEPT ![id] = "closed"]
    BY <1>8 DEF CloseAllStuck
  <2>2. hpc[w] = "closeAll" /\ HandlerGoto(w, "stuck", NoID) /\ UNCHANGED <<conns, home, pipe>>
    BY <1>8 DEF CloseAllStuck
  <2>3. id \in ID /\ sock[id] # "none"
    BY <2>1, EntryIsDialled DEF AtHome
  <2>4. TargetHasHome' /\ EntryAtHome' /\ PipeInHand' /\ SocketRegistered'
    BY <1>1, <2>1, <2>2, <2>3 DEF AtHome, TargetHasHome, EntryAtHome, PipeInHand, SocketRegistered
  <2>5. HandlerInHand' /\ GoneIsEmpty' /\ EntryHasPipe'
    BY <1>1, <2>1, <2>2, <2>3 DEF AtHome, HandlerInHand, GoneIsEmpty, EntryHasPipe, HandlerGoto
  <2> QED  BY <2>4, <2>5 DEF AtHome
<1> QED
  BY <1>2, <1>3, <1>4, <1>5, <1>6, <1>7, <1>8 DEF HandlerStep, HandleMessage

\* A step of a pipe.
LEMMA AtHomePipe ==
  ASSUME TypeOK, AtHome, NEW id \in ID, PipeStep(id)
  PROVE  AtHome'
<1>1. /\ conns \in [Conn -> SUBSET ID] /\ sock \in [ID -> {"none", "open", "closed"}]
      /\ pipe \in [ID -> PipePC] /\ 0 \notin Conn
  BY LinkAssumption DEF TypeOK, Conn
<1>2. UNCHANGED <<home, hpc, hid>> /\ pipe[id] # "off"
  BY DEF PipeStep, PipeRead, PipeSend, PipeEnds, PipeClose, PipeDelete, PipeTell, sessionVars
<1>3. home[id] \in Conn
  BY <1>2 DEF AtHome, TargetHasHome
<1>4. CASE PipeRead(id) \/ PipeSend(id) \/ PipeEnds(id) \/ PipeTell(id)
  <2>1. /\ UNCHANGED <<conns, sock>> /\ pipe[id] \in {"read", "send", "tell"}
        /\ \E pc \in {"read", "send", "close", "abort", "exit"} :
             pipe' = [pipe EXCEPT ![id] = pc] /\ (pc = "exit" => pipe[id] = "tell")
    BY <1>4 DEF PipeRead, PipeSend, PipeEnds, PipeTell, PipeGoto, sessionVars
  <2>2. TargetHasHome' /\ EntryAtHome' /\ PipeInHand' /\ SocketRegistered' /\ GoneIsEmpty'
    BY <1>1, <1>2, <2>1
       DEF AtHome, TargetHasHome, EntryAtHome, PipeInHand, SocketRegistered, GoneIsEmpty
  <2>3. HandlerInHand' /\ EntryHasPipe'
    BY <1>1, <1>2, <2>1 DEF AtHome, HandlerInHand, EntryHasPipe
  <2> QED  BY <2>2, <2>3 DEF AtHome
<1>5. CASE PipeClose(id)
  <2>1. UNCHANGED conns /\ pipe[id] \in {"close", "abort"}
    BY <1>5 DEF PipeClose, sessionVars
  <2>2. CASE id \in conns[home[id]]
    <3>1. /\ sock' = [sock EXCEPT ![id] = "closed"]
          /\ \E pc \in {"delete", "abortDelete"} : pipe' = [pipe EXCEPT ![id] = pc]
      BY <1>5, <2>2 DEF PipeClose, PipeGoto
    <3>2. TargetHasHome' /\ EntryAtHome' /\ PipeInHand' /\ SocketRegistered' /\ GoneIsEmpty'
      BY <1>1, <1>2, <1>3, <2>1, <3>1
         DEF AtHome, TargetHasHome, EntryAtHome, PipeInHand, SocketRegistered, GoneIsEmpty
    <3>3. HandlerInHand' /\ EntryHasPipe'
      BY <1>1, <1>2, <2>1, <3>1 DEF AtHome, HandlerInHand, EntryHasPipe
    <3> QED  BY <3>2, <3>3 DEF AtHome
  <2>3. CASE id \notin conns[home[id]]
    <3>1. UNCHANGED sock /\ \E pc \in {"tell", "exit"} : pipe' = [pipe EXCEPT ![id] = pc]
      BY <1>5, <2>3 DEF PipeClose, PipeGoto
    <3>2. TargetHasHome' /\ EntryAtHome' /\ PipeInHand' /\ SocketRegistered' /\ GoneIsEmpty'
      BY <1>1, <1>2, <1>3, <2>1, <3>1
         DEF AtHome, TargetHasHome, EntryAtHome, PipeInHand, SocketRegistered, GoneIsEmpty
    <3>3. \A w \in Conn : id \notin conns[w]
      BY <2>3 DEF AtHome, EntryAtHome
    <3>4. HandlerInHand' /\ EntryHasPipe'
      BY <1>1, <1>2, <2>1, <3>1, <3>3 DEF AtHome, HandlerInHand, EntryHasPipe
    <3> QED  BY <3>2, <3>4 DEF AtHome
  <2> QED  BY <2>2, <2>3
<1>6. CASE PipeDelete(id)
  <2>1. /\ UNCHANGED sock /\ pipe[id] \in {"delete", "abortDelete"}
        /\ conns' = [conns EXCEPT ![home[id]] = @ \ {id}]
        /\ \E pc \in {"tell", "exit"} : pipe' = [pipe EXCEPT ![id] = pc]
    BY <1>6 DEF PipeDelete, PipeGoto
  <2>2. sock[id] = "closed" /\ \A w \in Conn : id \notin conns'[w]
    BY <1>1, <1>3, <2>1 DEF AtHome, PipeInHand, EntryAtHome
  <2>3. TargetHasHome' /\ EntryAtHome' /\ PipeInHand' /\ SocketRegistered' /\ GoneIsEmpty'
    BY <1>1, <1>2, <1>3, <2>1, <2>2
       DEF AtHome, TargetHasHome, EntryAtHome, PipeInHand, SocketRegistered, GoneIsEmpty
  <2>4. HandlerInHand'
    <3>1. \A w \in Conn : hid[w] = id /\ hpc[w] # "dial" => hpc[w] # "reply"
      BY <2>1 DEF AtHome, HandlerInHand
    <3> QED  BY <1>1, <1>2, <1>3, <2>1, <3>1 DEF AtHome, HandlerInHand
  <2>5. EntryHasPipe'
    BY <1>1, <1>2, <1>3, <2>1, <2>2 DEF AtHome, EntryHasPipe
  <2> QED  BY <2>3, <2>4, <2>5 DEF AtHome
<1> QED  BY <1>4, <1>5, <1>6 DEF PipeStep

\* Any step.
LEMMA AtHomeStep ==
  ASSUME TypeOK, OneDial, AtHome, Next
  PROVE  AtHome'
<1>1. ASSUME NEW w \in Conn, Tick(w) \/ PingDone(w)
      PROVE  AtHome'
  BY <1>1, AtHomeFrame DEF Tick, PingDone, targetVars
<1>2. ASSUME NEW w \in Conn, AgentStep(w) \/ NetworkStep
      PROVE  AtHome'
  BY <1>2, AtHomeFrame DEF AgentStep, NetworkStep, serverVars, sessionVars, targetVars
<1>3. CASE NetworkStep
  <2>1. 1 \in Conn
    BY LinkAssumption DEF Conn
  <2> QED  BY <1>2, <1>3, <2>1
<1> QED  BY <1>1, <1>2, <1>3, AtHomeHandler, AtHomePipe DEF Next, ServerStep

----------------------------------------------------------------------------
(* Theorems *)

LEMMA TypedStep ==
  ASSUME IInv, Next
  PROVE  TypeOK'
BY HandleTypes, HandlerTypes, PipeTypes, EnvironmentTypes
   DEF IInv, Next, ServerStep, HandlerStep

\* The inductive invariant holds at the start ...
LEMMA InitHolds == Init => IInv
<1> SUFFICES ASSUME Init
             PROVE  IInv
  OBVIOUS
<1>1. \A w \in Conn : Len(up[w]) = 0
  BY EmptySeq DEF Init, LinkInit
<1>2. OpenIsNamed /\ OneOpenSent
  BY <1>1 DEF OpenIsNamed, OneOpenSent, OpenAt
<1>3. OneHandlerDials /\ TargetHasHome /\ EntryAtHome /\ HandlerInHand
  BY LinkAssumption DEF Init, ServerInit, OneHandlerDials, Dialling, TargetHasHome, EntryAtHome,
                        HandlerInHand
<1>4. PipeInHand /\ GoneIsEmpty /\ SocketRegistered /\ EntryHasPipe
  BY DEF Init, ServerInit, PipeInHand, GoneIsEmpty, SocketRegistered, EntryHasPipe
<1> QED  BY TypeInit, <1>2, <1>3, <1>4 DEF IInv

\* ... and every step keeps it.
LEMMA InvariantStep == IInv /\ [Next]_vars => IInv'
<1> SUFFICES ASSUME IInv, [Next]_vars
             PROVE  IInv'
  OBVIOUS
<1>1. TypeOK /\ OneDial /\ AtHome
  BY DEF IInv, OneDial, AtHome
<1>2. CASE Next
  <2>1. TypeOK'
    BY <1>2, TypedStep
  <2>2. OneDial'
    BY <1>1, <1>2, OneDialStep DEF AtHome
  <2>3. AtHome'
    BY <1>1, <1>2, AtHomeStep
  <2> QED  BY <2>1, <2>2, <2>3 DEF IInv, OneDial, AtHome
<1>3. CASE UNCHANGED vars
  <2>1. UNCHANGED <<linkVars, sessionVars, targetVars>>
    BY <1>3 DEF vars, serverVars
  <2>2. TypeOK'
    BY <1>1, <2>1, Frame, TypeParts
  <2>3. UNCHANGED <<up, conns, hpc, hid, home, sock, pipe>>
    BY <2>1 DEF linkVars, sessionVars, targetVars
  <2>4. OneDial'
    BY <1>1, <2>3 DEF OneDial, OpenIsNamed, OneHandlerDials, OneOpenSent, Dialling, OpenAt
  <2>5. AtHome'
    BY <1>1, <2>3, AtHomeFrame
  <2> QED  BY <2>2, <2>4, <2>5 DEF IInv, OneDial, AtHome
<1> QED  BY <1>2, <1>3

\* So it holds in every reachable state.
THEOREM Invariance == SafetySpec => []IInv
BY InitHolds, InvariantStep, PTL DEF SafetySpec

\* Type correctness of the server's session, whatever the agent sends.
THEOREM TypeCorrect == SafetySpec => []TypeOK
<1>1. IInv => TypeOK
  BY DEF IInv
<1> QED  BY <1>1, Invariance, PTL

\* An open socket to a target is in conns of the session that dialled it
\* (server.go, handleOpen): close, a failed write and closeAll find it.
THEOREM OpenSocketIsFound == SafetySpec => []SocketRegistered
<1>1. IInv => SocketRegistered
  BY DEF IInv
<1> QED  BY <1>1, Invariance, PTL

\* No entry of conns is left without a goroutine that takes it out.
THEOREM EntryIsTakenOut == SafetySpec => []EntryHasPipe
<1>1. IInv => EntryHasPipe
  BY DEF IInv
<1> QED  BY <1>1, Invariance, PTL

\* A handler that has returned (handleWS, its deferred calls) leaves no open
\* socket of its session behind.
THEOREM HandlerLeavesNothing == SafetySpec => []NothingLeftOpen
<1>1. IInv => NothingLeftOpen
  BY DEF IInv, NothingLeftOpen, GoneIsEmpty, SocketRegistered
<1> QED  BY <1>1, Invariance, PTL

\* A ConnID is dialled by one handler at most, and by none once its target has
\* answered: no second dial can replace the socket of a stream.
THEOREM DialledOnce == SafetySpec => []OneHandlerDials
<1>1. IInv => OneHandlerDials
  BY DEF IInv
<1> QED  BY <1>1, Invariance, PTL
=============================================================================
