---------------------------- MODULE TunnelProofs ----------------------------
(***************************************************************************)
(* Theorems about Tunnel: each side is the environment that the other's    *)
(* module assumes, for any number of connections, streams, messages and    *)
(* queue capacities, so that what is proved of each side by itself holds   *)
(* of the two together; where nothing is under way about a stream, the     *)
(* sides agree on it; and the two carry streams as Circuit promises, as    *)
(* long as no reader goes on with another connection.  None of them needs  *)
(* fairness.                                                               *)
(***************************************************************************)
EXTENDS Tunnel, LinkProofs

AP == INSTANCE AgentSessionProofs
        WITH Numbers <- 1 .. MaxData,
             EnvTypes <- {"auth_resp", "ping", "pong", "error", "open_resp", "data", "close"}
SP == INSTANCE ServerSessionProofs WITH AgentNumbers <- 1 .. MaxWrites

\* What stands at a place of a queue.
InUp(w, i, type, id) == i \in 1 .. Len(up[w]) /\ up[w][i].type = type /\ up[w][i].id = id
InDown(w, i, type, id) == i \in 1 .. Len(down[w]) /\ down[w][i].type = type /\ down[w][i].id = id

\* A ConnID that OpenStream has not sent is nowhere on the server's side.
Unsent == {"idle", "called", "registered", "sending", "undoPending", "undoStream"}
UnsentIsUnknown ==
  \A id \in ID : op[id] \in Unsent =>
    /\ sock[id] = "none"
    /\ \A w \in Conn : /\ hid[w] # id
                       /\ \A i \in 1 .. Len(up[w]) : up[w][i] # Open(id)

\* Data and close messages of the agent name a stream.
UpIsNamed == \A w \in Conn, i \in Nat :
               (i \in 1 .. Len(up[w]) /\ up[w][i].type \in {"data", "close"}) => up[w][i].id \in ID

\* The two ends of a connection are opened together, and where its handler is
\* says what the server's end is; the agent's end keeps nothing once closed.
EndsFit == \A w \in Conn :
  /\ agentEnd[w] = "none" <=> serverEnd[w] = "none"
  /\ agentEnd[w] = "closed" => down[w] = <<>>
  /\ ws = w => agentEnd[w] # "none"
  /\ CASE hpc[w] = "recv" -> serverEnd[w] \in {"none", "open"}
       [] hpc[w] \in {"closeAll", "stuck"} -> serverEnd[w] = "leaving"
       [] hpc[w] = "gone" -> serverEnd[w] = "closed"
       [] OTHER -> serverEnd[w] = "open"

\* The numbers of the data messages stay within the bounds of the two modules.
CountersFit == \A id \in ID : /\ wr[id] = "send" => sent[id] < MaxWrites
                              /\ pseq[id] <= MaxData
                              /\ pipe[id] = "send" => pseq[id] >= 1

Glue == UnsentIsUnknown /\ UpIsNamed /\ EndsFit /\ CountersFit
IInv == AP!IInv /\ SP!IInv /\ Glue

----------------------------------------------------------------------------
(* The instances of each side's module are the same. *)

\* The assumptions under which the lemmas about each side hold.
LEMMA SideAssumptions == /\ AP!LinkAssumption /\ AP!AgentAssumption
                         /\ SP!LinkAssumption /\ SP!ServerAssumption
BY LinkAssumption, TunnelAssumption
DEF AP!LinkAssumption, AP!AgentAssumption, SP!LinkAssumption, SP!ServerAssumption,
    A!AgentAssumption, S!ServerAssumption, AP!Conn, SP!Conn, Conn

\* The agent's module in Tunnel and in its proofs.
LEMMA SameAgent == /\ A!Next <=> AP!Next
                   /\ A!vars = AP!vars /\ A!vars' = AP!vars'
                   /\ A!Init <=> AP!Init
<1>1. A!RunStep <=> AP!RunStep
  BY SMT
  DEF A!RunStep, AP!RunStep, A!Backoff, AP!Backoff, A!loopVars, AP!loopVars, A!streamVars,
      AP!streamVars, A!mapVars, AP!mapVars, A!linkVars, AP!linkVars, A!Goto, AP!Goto,
      A!CloseStreamsStuck, AP!CloseStreamsStuck, A!CloseNoStreams, AP!CloseNoStreams,
      A!FailPendingStuck, AP!FailPendingStuck, A!FailNonePending, AP!FailNonePending, A!Detach,
      AP!Detach, A!CloseAgentEnd, AP!CloseAgentEnd, A!ServeCancelled, AP!ServeCancelled,
      A!ServeError, AP!ServeError, A!RecvAuthRefused, AP!RecvAuthRefused, A!DownBroken,
      AP!DownBroken, A!AuthResp, AP!AuthResp, A!Message, AP!Message, A!RecvAuthOk,
      AP!RecvAuthOk, A!TakeDown, AP!TakeDown, A!SendAuthFails, AP!SendAuthFails, A!SendFails,
      AP!SendFails, A!UpBroken, AP!UpBroken, A!MuFree, AP!MuFree, A!SendAuth, AP!SendAuth,
      A!Control, AP!Control, A!Send, AP!Send, A!SendUp, AP!SendUp, A!DialFails, AP!DialFails,
      A!DialAttach, AP!DialAttach, A!DialOpens, AP!DialOpens, A!Conn, AP!Conn, A!RunTop,
      AP!RunTop
<1>2. A!Cancel <=> AP!Cancel
  BY SMT
  DEF A!Cancel, AP!Cancel, A!loopVars, AP!loopVars, A!streamVars, AP!streamVars, A!mapVars,
      AP!mapVars, A!linkVars, AP!linkVars
<1>3. \A g : A!ReaderStep(g) <=> AP!ReaderStep(g)
  BY SMT
  DEF A!ReaderStep, AP!ReaderStep, A!ReadExit, AP!ReadExit, A!streamVars, AP!streamVars,
      A!mapVars, AP!mapVars, A!runVars, AP!runVars, A!linkVars, AP!linkVars, A!Pong, AP!Pong,
      A!NoMessage, AP!NoMessage, A!Control, AP!Control, A!Message, AP!Message, A!Continue,
      AP!Continue, A!TrySend, AP!TrySend, A!SendFails, AP!SendFails, A!UpBroken, AP!UpBroken,
      A!MuFree, AP!MuFree, A!Send, AP!Send, A!SendUp, AP!SendUp, A!DropStream, AP!DropStream,
      A!StreamsFree, AP!StreamsFree, A!PushClosed, AP!PushClosed, A!PushQueue, AP!PushQueue,
      A!ReadMessage, AP!ReadMessage, A!ReadOther, AP!ReadOther, A!Receive, AP!Receive,
      A!TakeDown, AP!TakeDown, A!ReadPing, AP!ReadPing, A!ReadClose, AP!ReadClose, A!ReadData,
      AP!ReadData, A!ReadOpenResp, AP!ReadOpenResp, A!PendingFree, AP!PendingFree, A!ReadError,
      AP!ReadError, A!DownBroken, AP!DownBroken, A!ReadTop, AP!ReadTop
<1>4. \A g : A!PingerStep(g) <=> AP!PingerStep(g)
  BY SMT
  DEF A!PingerStep, AP!PingerStep, A!PingExit, AP!PingExit, A!streamVars, AP!streamVars,
      A!mapVars, AP!mapVars, A!runVars, AP!runVars, A!linkVars, AP!linkVars, A!PingCancelled,
      AP!PingCancelled, A!PingTick, AP!PingTick, A!SendFails, AP!SendFails, A!UpBroken,
      AP!UpBroken, A!MuFree, AP!MuFree, A!Control, AP!Control, A!Message, AP!Message, A!Send,
      AP!Send, A!SendUp, AP!SendUp
<1>5. \A id : A!OpenStep(id) <=> AP!OpenStep(id)
  BY SMT
  DEF A!OpenStep, AP!OpenStep, A!TellRefused, AP!TellRefused, A!loopVars, AP!loopVars,
      A!mapVars, AP!mapVars, A!runVars, AP!runVars, A!OpGoto, AP!OpGoto, A!Close, AP!Close,
      A!Message, AP!Message, A!TrySend, AP!TrySend, A!SendFails, AP!SendFails, A!UpBroken,
      AP!UpBroken, A!MuFree, AP!MuFree, A!Send, AP!Send, A!SendUp, AP!SendUp, A!ForgetStream,
      AP!ForgetStream, A!linkVars, AP!linkVars, A!StreamsFree, AP!StreamsFree, A!OpenTimesOut,
      AP!OpenTimesOut, A!PendingFree, AP!PendingFree, A!OpenAnswered, AP!OpenAnswered,
      A!UndoStream, AP!UndoStream, A!UndoPending, AP!UndoPending, A!SendOpen, AP!SendOpen,
      A!Open, AP!Open, A!RegisterPending, AP!RegisterPending, A!RegisterStream,
      AP!RegisterStream
<1>6. \A id : A!ClientStep(id) <=> AP!ClientStep(id)
  BY SMT
  DEF A!ClientStep, AP!ClientStep, A!CloseAgain, AP!CloseAgain, A!loopVars, AP!loopVars,
      A!mapVars, AP!mapVars, A!runVars, AP!runVars, A!linkVars, AP!linkVars, A!OpGoto,
      AP!OpGoto, A!CloseFirst, AP!CloseFirst, A!Write, AP!Write, A!Read, AP!Read, A!CallOpen,
      AP!CallOpen
<1>7. \A id : A!StreamStep(id) <=> AP!StreamStep(id)
  BY SMT
  DEF A!StreamStep, AP!StreamStep, A!CloseTell, AP!CloseTell, A!loopVars, AP!loopVars,
      A!mapVars, AP!mapVars, A!runVars, AP!runVars, A!OpGoto, AP!OpGoto, A!Close, AP!Close,
      A!Message, AP!Message, A!TrySend, AP!TrySend, A!SendFails, AP!SendFails, A!UpBroken,
      AP!UpBroken, A!MuFree, AP!MuFree, A!Send, AP!Send, A!SendUp, AP!SendUp, A!CloseForget,
      AP!CloseForget, A!linkVars, AP!linkVars, A!StreamsFree, AP!StreamsFree, A!WriteSend,
      AP!WriteSend, A!Data, AP!Data
<1>8. \A w : A!ServerStep(w) <=> AP!ServerStep(w)
  BY SMT
  DEF A!ServerStep, AP!ServerStep, A!agentVars, AP!agentVars, A!loopVars, AP!loopVars,
      A!streamVars, AP!streamVars, A!mapVars, AP!mapVars, A!runVars, AP!runVars, A!SendDown,
      AP!SendDown, A!ServerMessages, AP!ServerMessages, A!AllServerMessages,
      AP!AllServerMessages, A!Close, AP!Close, A!Message, AP!Message, A!Data, AP!Data,
      A!OpenResp, AP!OpenResp, A!Control, AP!Control, A!AuthResp, AP!AuthResp, A!TakeUp,
      AP!TakeUp
<1>9. A!NetworkStep <=> AP!NetworkStep
  BY SMT
  DEF A!NetworkStep, AP!NetworkStep, A!agentVars, AP!agentVars, A!loopVars, AP!loopVars,
      A!streamVars, AP!streamVars, A!mapVars, AP!mapVars, A!runVars, AP!runVars, A!Break,
      AP!Break, A!Conn, AP!Conn
<1>10. A!Next <=> AP!Next
  BY <1>1, <1>2, <1>3, <1>4, <1>5, <1>6, <1>7, <1>8, <1>9
  DEF A!Next, AP!Next, A!AgentStep, AP!AgentStep, A!Conn, AP!Conn
<1>11. A!vars = AP!vars /\ A!vars' = AP!vars'
  BY DEF A!vars, A!agentVars, A!loopVars, A!streamVars, A!mapVars, A!runVars, A!linkVars, AP!vars,
      AP!agentVars, AP!loopVars, AP!streamVars, AP!mapVars, AP!runVars, AP!linkVars
<1>12. A!Init <=> AP!Init
  BY DEF A!Init, A!AgentInit, A!Conn, A!NoMessage, A!Control, A!Message, A!LinkInit, AP!Init,
      AP!AgentInit, AP!Conn, AP!NoMessage, AP!Control, AP!Message, AP!LinkInit
<1> QED  BY <1>10, <1>11, <1>12

\* The server's.
LEMMA SameServer == /\ S!Next <=> SP!Next
                    /\ S!vars = SP!vars /\ S!vars' = SP!vars'
                    /\ S!Init <=> SP!Init
<1>1. \A w : S!HandlerStep(w) <=> SP!HandlerStep(w)
  BY SMT
  DEF S!HandlerStep, SP!HandlerStep, S!CloseAllStuck, SP!CloseAllStuck, S!linkVars, SP!linkVars,
      S!HandlerGoto, SP!HandlerGoto, S!CloseNone, SP!CloseNone, S!targetVars, SP!targetVars,
      S!LeaveLoop, SP!LeaveLoop, S!CloseDelete, SP!CloseDelete, S!FailTell, SP!FailTell,
      S!Close, SP!Close, S!Message, SP!Message, S!TrySend, SP!TrySend, S!SendFails,
      SP!SendFails, S!DownSendBroken, SP!DownSendBroken, S!Send, SP!Send, S!SendDown,
      SP!SendDown, S!FailDelete, SP!FailDelete, S!ReplyOpened, SP!ReplyOpened, S!OpenResp,
      SP!OpenResp, S!DialSucceeds, SP!DialSucceeds, S!DialFails, SP!DialFails, S!ReceiveError,
      SP!ReceiveError, S!UpReadBroken, SP!UpReadBroken, S!HandleMessage, SP!HandleMessage,
      S!HandleUnknown, SP!HandleUnknown, S!sessionVars, SP!sessionVars, S!Control, SP!Control,
      S!Receive, SP!Receive, S!TakeUp, SP!TakeUp, S!HandlePong, SP!HandlePong, S!HandlePing,
      SP!HandlePing, S!HandleDataFails, SP!HandleDataFails, S!HandleData, SP!HandleData,
      S!HandleDataUnknown, SP!HandleDataUnknown, S!HandleClose, SP!HandleClose, S!HandleOpen,
      SP!HandleOpen, S!Authenticate, SP!Authenticate, S!AuthResp, SP!AuthResp, S!AuthRefused,
      SP!AuthRefused, S!Unauthorized, SP!Unauthorized
<1>2. \A w : S!Tick(w) <=> SP!Tick(w)
  BY SMT
  DEF S!Tick, SP!Tick, S!targetVars, SP!targetVars, S!SendFails, SP!SendFails, S!DownSendBroken,
      SP!DownSendBroken, S!Control, SP!Control, S!Message, SP!Message, S!Send, SP!Send,
      S!SendDown, SP!SendDown
<1>3. \A w : S!PingDone(w) <=> SP!PingDone(w)
  BY SMT
  DEF S!PingDone, SP!PingDone, S!targetVars, SP!targetVars, S!linkVars, SP!linkVars
<1>4. \A id : S!PipeStep(id) <=> SP!PipeStep(id)
  BY SMT
  DEF S!PipeStep, SP!PipeStep, S!PipeTell, SP!PipeTell, S!sessionVars, SP!sessionVars,
      S!PipeGoto, SP!PipeGoto, S!Close, SP!Close, S!Message, SP!Message, S!TrySend, SP!TrySend,
      S!SendFails, SP!SendFails, S!DownSendBroken, SP!DownSendBroken, S!Send, SP!Send,
      S!SendDown, SP!SendDown, S!PipeDelete, SP!PipeDelete, S!linkVars, SP!linkVars,
      S!ConnsFree, SP!ConnsFree, S!PipeClose, SP!PipeClose, S!PipeEnds, SP!PipeEnds, S!PipeSend,
      SP!PipeSend, S!Data, SP!Data, S!PipeRead, SP!PipeRead
<1>5. \A w : S!AgentStep(w) <=> SP!AgentStep(w)
  BY SMT
  DEF S!AgentStep, SP!AgentStep, S!CloseAgentEnd, SP!CloseAgentEnd, S!SendUp, SP!SendUp,
      S!AgentMessages, SP!AgentMessages, S!Close, SP!Close, S!Message, SP!Message, S!Data,
      SP!Data, S!Fresh, SP!Fresh, S!Open, SP!Open, S!Conn, SP!Conn, S!Control, SP!Control,
      S!TakeDown, SP!TakeDown, S!DialOpens, SP!DialOpens, S!serverVars, SP!serverVars,
      S!targetVars, SP!targetVars, S!sessionVars, SP!sessionVars
<1>6. S!NetworkStep <=> SP!NetworkStep
  BY SMT
  DEF S!NetworkStep, SP!NetworkStep, S!Break, SP!Break, S!Conn, SP!Conn, S!serverVars,
      SP!serverVars, S!targetVars, SP!targetVars, S!sessionVars, SP!sessionVars
<1>7. S!Next <=> SP!Next
  BY <1>1, <1>2, <1>3, <1>4, <1>5, <1>6
  DEF S!Next, SP!Next, S!ServerStep, SP!ServerStep, S!Conn, SP!Conn
<1>8. S!vars = SP!vars /\ S!vars' = SP!vars'
  BY DEF S!vars, S!serverVars, S!targetVars, S!sessionVars, S!linkVars, SP!vars, SP!serverVars,
      SP!targetVars, SP!sessionVars, SP!linkVars
<1>9. S!Init <=> SP!Init
  BY DEF S!Init, S!ServerInit, S!Conn, S!LinkInit, SP!Init, SP!ServerInit, SP!Conn, SP!LinkInit
<1> QED  BY <1>7, <1>8, <1>9

\* The operators of Link, as each side's module has them.
LEMMA SameMessages ==
  /\ \A type : A!Control(type) = Control(type) /\ S!Control(type) = Control(type)
  /\ \A ok : A!AuthResp(ok) = AuthResp(ok) /\ S!AuthResp(ok) = AuthResp(ok)
  /\ \A id : A!Open(id) = Open(id) /\ S!Open(id) = Open(id)
  /\ \A id, ok : A!OpenResp(id, ok) = OpenResp(id, ok) /\ S!OpenResp(id, ok) = OpenResp(id, ok)
  /\ \A id, n : A!Data(id, n) = Data(id, n) /\ S!Data(id, n) = Data(id, n)
  /\ \A id : A!Close(id) = Close(id) /\ S!Close(id) = Close(id)
BY DEF Control, AuthResp, Open, OpenResp, Data, Close, Message,
       A!Control, A!AuthResp, A!Open, A!OpenResp, A!Data, A!Close, A!Message,
       S!Control, S!AuthResp, S!Open, S!OpenResp, S!Data, S!Close, S!Message

\* And of the connections between them.
LEMMA SameLink ==
  /\ A!Conn = Conn /\ S!Conn = Conn
  /\ \A w, msg : /\ A!SendUp(w, msg) <=> SendUp(w, msg)
                 /\ A!SendDown(w, msg) <=> SendDown(w, msg)
                 /\ S!SendUp(w, msg) <=> SendUp(w, msg)
                 /\ S!SendDown(w, msg) <=> SendDown(w, msg)
  /\ \A w : /\ A!TakeUp(w) <=> TakeUp(w)
            /\ S!TakeUp(w) <=> TakeUp(w)
            /\ A!TakeDown(w) <=> TakeDown(w)
            /\ S!TakeDown(w) <=> TakeDown(w)
            /\ A!CloseAgentEnd(w) <=> CloseAgentEnd(w)
            /\ S!CloseAgentEnd(w) <=> CloseAgentEnd(w)
            /\ A!DialOpens(w) <=> DialOpens(w)
            /\ S!DialOpens(w) <=> DialOpens(w)
            /\ A!Break(w) <=> Break(w)
            /\ S!Break(w) <=> Break(w)
<1>1. A!Conn = Conn /\ S!Conn = Conn
  BY DEF Conn, A!Conn, S!Conn
<1>2. \A w, msg : /\ A!SendUp(w, msg) <=> SendUp(w, msg)
                  /\ A!SendDown(w, msg) <=> SendDown(w, msg)
                  /\ S!SendUp(w, msg) <=> SendUp(w, msg)
                  /\ S!SendDown(w, msg) <=> SendDown(w, msg)
  BY DEF SendUp, SendDown, A!SendUp, A!SendDown, S!SendUp, S!SendDown
<1>3. \A w : /\ A!TakeUp(w) <=> TakeUp(w)
             /\ S!TakeUp(w) <=> TakeUp(w)
             /\ A!TakeDown(w) <=> TakeDown(w)
             /\ S!TakeDown(w) <=> TakeDown(w)
  BY DEF TakeUp, TakeDown, A!TakeUp, A!TakeDown, S!TakeUp, S!TakeDown
<1>4. \A w : /\ A!CloseAgentEnd(w) <=> CloseAgentEnd(w)
             /\ S!CloseAgentEnd(w) <=> CloseAgentEnd(w)
             /\ A!DialOpens(w) <=> DialOpens(w)
             /\ S!DialOpens(w) <=> DialOpens(w)
             /\ A!Break(w) <=> Break(w)
             /\ S!Break(w) <=> Break(w)
  BY DEF CloseAgentEnd, DialOpens, Break, A!CloseAgentEnd, A!DialOpens, A!Break,
         S!CloseAgentEnd, S!DialOpens, S!Break
<1> QED  BY <1>1, <1>2, <1>3, <1>4

----------------------------------------------------------------------------
(* What each side's invariant says to the other. *)

LEMMA AgentFacts ==
  ASSUME AP!IInv
  PROVE  /\ LinkTypeOK
         /\ ws \in Conn \cup {0}
         /\ runPc \in {"sendAuth", "recvAuth", "serve"} => ws \in Conn
         /\ \A g \in Conn : rpc[g] = "recv" => ron[g] \in Conn
         /\ op \in [ID -> A!OpPC]
         /\ wr \in [ID -> {"ready", "send", "ended"}]
         /\ sent \in [ID -> Nat]
<1>1. LinkTypeOK
  BY DEF AP!IInv, AP!TypeOK, AP!LinkTypeOK, LinkTypeOK, AP!Conn, Conn, AP!Messages, Messages
<1>2. op \in [ID -> A!OpPC]
  BY DEF AP!IInv, AP!TypeOK, AP!StreamTypeOK, AP!OpPC, A!OpPC
<1> QED
  BY <1>1, <1>2 DEF AP!IInv, AP!TypeOK, AP!RunTypeOK, AP!StreamTypeOK, AP!InHand, AP!RunInHand,
                    AP!ReaderInHand, AP!Conn, Conn

\* And of the server's.
LEMMA ServerFacts ==
  ASSUME SP!IInv
  PROVE  /\ LinkTypeOK
         /\ hpc \in [Conn -> S!HandlerPC] /\ hid \in [Conn -> ID \cup {NoID}]
         /\ \A w \in Conn : hid[w] \in ID <=>
              hpc[w] \in {"dial", "reply", "delete", "failDelete", "failTell"}
         /\ conns \in [Conn -> SUBSET ID]
         /\ home \in [ID -> Conn \cup {0}]
         /\ sock \in [ID -> {"none", "open", "closed"}]
         /\ pipe \in [ID -> S!PipePC]
         /\ pseq \in [ID -> Nat]
         /\ \A id \in ID : sock[id] = "none" => pipe[id] = "off"
         /\ \A id \in ID : sock[id] # "none" => home[id] \in Conn
         /\ \A w \in Conn : \A id \in conns[w] : home[id] = w /\ sock[id] # "none"
         /\ \A w \in Conn, i \in Nat : (i \in 1 .. Len(up[w]) /\ up[w][i].type = "open") =>
              \E id \in ID : up[w][i] = Open(id)
<1>1. LinkTypeOK
  BY DEF SP!IInv, SP!TypeOK, SP!LinkTypeOK, LinkTypeOK, SP!Conn, Conn, SP!Messages, Messages
<1>2. /\ hpc \in [Conn -> S!HandlerPC] /\ hid \in [Conn -> ID \cup {NoID}]
      /\ \A w \in Conn : hid[w] \in ID <=>
           hpc[w] \in {"dial", "reply", "delete", "failDelete", "failTell"}
      /\ conns \in [Conn -> SUBSET ID]
      /\ home \in [ID -> Conn \cup {0}]
      /\ sock \in [ID -> {"none", "open", "closed"}]
      /\ pipe \in [ID -> S!PipePC]
      /\ pseq \in [ID -> Nat]
  BY DEF SP!IInv, SP!TypeOK, SP!Conn, Conn, SP!HandlerPC, S!HandlerPC, SP!PipePC, S!PipePC
<1>3. /\ \A id \in ID : sock[id] = "none" => pipe[id] = "off" /\ home[id] = 0
      /\ \A id \in ID : sock[id] # "none" => home[id] \in Conn
      /\ \A w \in Conn : \A id \in conns[w] : home[id] = w
  BY DEF SP!IInv, SP!TargetHasHome, SP!EntryAtHome, SP!Conn, Conn
<1>4. \A w \in Conn : \A id \in conns[w] : home[id] = w /\ sock[id] # "none"
  <2> SUFFICES ASSUME NEW w \in Conn, NEW id \in conns[w], sock[id] = "none"
               PROVE  FALSE
    BY <1>3
  <2>1. id \in ID
    BY <1>2
  <2> QED  BY <2>1, <1>3, LinkAssumption DEF Conn
<1>5. \A w \in Conn, i \in Nat : (i \in 1 .. Len(up[w]) /\ up[w][i].type = "open") =>
        \E id \in ID : up[w][i] = Open(id)
  BY DEF SP!IInv, SP!OpenIsNamed, SP!Conn, Conn, SP!Open, SP!Message, Open, Message
<1> QED  BY <1>1, <1>2, <1>3, <1>4, <1>5

----------------------------------------------------------------------------
(* What a step of the agent is to the server. *)

\* It does nothing to the connections, dials the next one, takes a message,
\* sends one, or closes the current connection.
AgentSays(msg) == \/ \E type \in {"auth", "ping", "pong"} : msg = Control(type)
                  \/ \E id \in ID : /\ msg = Open(id)
                                    /\ op[id] = "sending" /\ op'[id] = "waiting"
                  \/ \E id \in ID, n \in 1 .. MaxWrites : /\ msg = Data(id, n) /\ wr[id] = "send"
                                                         /\ n = sent[id] + 1 /\ sent'[id] = n
                  \/ \E id \in ID : msg = Close(id) /\ op'[id] \in {"failed", "closed"}
Dials    == \E w \in Conn : DialOpens(w) /\ ws' = w /\ UNCHANGED <<up, down, cut>>
TakesOne == /\ \E w \in Conn : TakeDown(w)
            /\ UNCHANGED <<up, agentEnd, serverEnd, cut, ws>>
SendsUp  == /\ ws \in Conn /\ \E msg : AgentSays(msg) /\ SendUp(ws, msg)
            /\ UNCHANGED <<down, agentEnd, serverEnd, cut, ws>>
HangsUp  == /\ ws \in Conn /\ CloseAgentEnd(ws) /\ ws' \in {0, ws}
            /\ UNCHANGED <<up, serverEnd, cut>>
AgentMove == \/ UNCHANGED linkVars /\ ws' \in {0, ws}
             \/ Dials \/ TakesOne \/ SendsUp \/ HangsUp

\* Run, one step of it.
LEMMA RunMoves ==
  ASSUME AP!IInv, A!RunStep \/ A!Cancel
  PROVE  AgentMove
<1>1. CASE \/ A!RunTop \/ A!DialFails \/ A!ServeError \/ A!ServeCancelled \/ A!FailNonePending
           \/ A!FailPendingStuck \/ A!CloseNoStreams \/ A!CloseStreamsStuck \/ A!Backoff \/ A!Cancel
  BY <1>1 DEF A!RunTop, A!DialFails, A!ServeError, A!ServeCancelled, A!FailNonePending,
              A!FailPendingStuck, A!CloseNoStreams, A!CloseStreamsStuck, A!Backoff, A!Cancel,
              A!linkVars, linkVars, AgentMove
<1>2. ASSUME NEW w \in A!Conn, A!DialAttach(w)
      PROVE  Dials
  BY <1>2, SameLink DEF A!DialAttach, Dials
<1>3. CASE A!SendAuth
  BY <1>3, AgentFacts, SameLink, SameMessages
  DEF A!SendAuth, A!Send, SendsUp, AgentSays, AgentMove
<1>4. CASE A!SendAuthFails \/ A!RecvAuthRefused
  BY <1>4, AgentFacts, SameLink
  DEF A!SendAuthFails, A!SendFails, A!RecvAuthRefused, HangsUp, AgentMove
<1>5. CASE A!RecvAuthOk
  BY <1>5, AgentFacts, SameLink DEF A!RecvAuthOk, TakesOne, AgentMove
<1>6. CASE A!Detach
  <2>1. CASE ws = 0
    BY <1>6, <2>1 DEF A!Detach, AgentMove, linkVars
  <2>2. CASE ws # 0
    BY <1>6, <2>2, AgentFacts, SameLink DEF A!Detach, HangsUp, AgentMove
  <2> QED  BY <2>1, <2>2
<1> QED  BY <1>1, <1>2, <1>3, <1>4, <1>5, <1>6 DEF A!RunStep, AgentMove

\* A send that may fail.
LEMMA TrySendMoves ==
  ASSUME AP!IInv, NEW msg, A!TrySend(msg), AgentSays(msg),
         UNCHANGED <<down, agentEnd, serverEnd, cut, ws>>
  PROVE  AgentMove
<1>1. CASE A!Send(msg)
  BY <1>1, AgentFacts, SameLink DEF A!Send, SendsUp, AgentMove
<1>2. CASE A!SendFails
  BY <1>2 DEF A!SendFails, AgentMove, linkVars
<1> QED  BY <1>1, <1>2 DEF A!TrySend

\* A reader or a pinger, one step of it.
LEMMA LoopMoves ==
  ASSUME AP!IInv, NEW g \in Conn, A!ReaderStep(g) \/ A!PingerStep(g)
  PROVE  AgentMove
<1>1. CASE \/ A!ReadTop(g) \/ A!ReadError(g) \/ A!PushQueue(g) \/ A!PushClosed(g)
           \/ A!DropStream(g) \/ A!ReadExit(g) \/ A!PingCancelled(g) \/ A!PingExit(g)
  BY <1>1 DEF A!ReadTop, A!ReadError, A!PushQueue, A!PushClosed, A!DropStream, A!ReadExit,
              A!PingCancelled, A!PingExit, A!runVars, A!linkVars, linkVars, AgentMove
<1>2. CASE A!ReadMessage(g)
  <2>1. /\ A!TakeDown(ron[g]) /\ rpc[g] = "recv"
        /\ UNCHANGED <<up, agentEnd, serverEnd, cut, ws>>
    BY <1>2 DEF A!ReadMessage, A!ReadOpenResp, A!ReadData, A!ReadClose, A!ReadPing, A!ReadOther,
                A!Receive, A!runVars
  <2> QED  BY <2>1, AgentFacts, SameLink DEF TakesOne, AgentMove
<1>3. CASE A!Pong(g)
  <2>1. A!TrySend(A!Control("pong")) /\ UNCHANGED <<down, agentEnd, serverEnd, cut, ws>>
    BY <1>3 DEF A!Pong, A!runVars
  <2>2. AgentSays(A!Control("pong"))
    BY SameMessages DEF AgentSays
  <2> QED  BY <2>1, <2>2, TrySendMoves
<1>4. CASE A!PingTick(g)
  <2>1. A!TrySend(A!Control("ping")) /\ UNCHANGED <<down, agentEnd, serverEnd, cut, ws>>
    BY <1>4 DEF A!PingTick, A!runVars, A!TrySend
  <2>2. AgentSays(A!Control("ping"))
    BY SameMessages DEF AgentSays
  <2> QED  BY <2>1, <2>2, TrySendMoves
<1> QED  BY <1>1, <1>2, <1>3, <1>4 DEF A!ReaderStep, A!PingerStep

\* OpenStream, or a client of a stream, one step of it.
LEMMA StreamMoves ==
  ASSUME AP!IInv, CountersFit, NEW id \in ID,
         A!OpenStep(id) \/ A!ClientStep(id) \/ A!StreamStep(id)
  PROVE  AgentMove
<1>1. CASE \/ A!RegisterStream(id) \/ A!RegisterPending(id) \/ A!UndoPending(id) \/ A!UndoStream(id)
           \/ A!OpenAnswered(id) \/ A!OpenTimesOut(id) \/ A!ForgetStream(id) \/ A!CallOpen(id)
           \/ A!Read(id) \/ A!Write(id) \/ A!CloseFirst(id) \/ A!CloseAgain(id) \/ A!CloseForget(id)
  BY <1>1 DEF A!RegisterStream, A!RegisterPending, A!UndoPending, A!UndoStream, A!OpenAnswered,
              A!OpenTimesOut, A!ForgetStream, A!CallOpen, A!Read, A!Write, A!CloseFirst,
              A!CloseAgain, A!CloseForget, A!runVars, A!linkVars, linkVars, AgentMove
<1>2. CASE A!SendOpen(id)
  <2>1. UNCHANGED <<down, agentEnd, serverEnd, cut, ws>> /\ op[id] = "sending"
    BY <1>2 DEF A!SendOpen, A!runVars
  <2>2. CASE A!Send(A!Open(id)) /\ A!OpGoto(id, "waiting")
    <3>1. op'[id] = "waiting"
      BY <2>2, AgentFacts DEF A!OpGoto
    <3>2. AgentSays(A!Open(id))
      BY <2>1, <3>1, SameMessages DEF AgentSays
    <3> QED  BY <2>1, <2>2, <3>2, TrySendMoves DEF A!TrySend
  <2>3. CASE A!SendFails
    BY <2>1, <2>3 DEF A!SendFails, AgentMove, linkVars
  <2> QED  BY <1>2, <2>2, <2>3 DEF A!SendOpen
<1>3. CASE A!TellRefused(id) \/ A!CloseTell(id)
  <2>1. A!TrySend(A!Close(id)) /\ UNCHANGED <<down, agentEnd, serverEnd, cut, ws>>
    BY <1>3 DEF A!TellRefused, A!CloseTell, A!runVars
  <2>2. AgentSays(A!Close(id))
    BY <1>3, AgentFacts, SameMessages DEF A!TellRefused, A!CloseTell, A!OpGoto, AgentSays
  <2> QED  BY <2>1, <2>2, TrySendMoves
<1>4. CASE A!WriteSend(id)
  <2>1. wr[id] = "send" /\ UNCHANGED <<down, agentEnd, serverEnd, cut, ws>>
    BY <1>4 DEF A!WriteSend, A!runVars
  <2>2. CASE /\ A!Send(A!Data(id, sent[id] + 1))
             /\ sent' = [sent EXCEPT ![id] = @ + 1]
    <3>1. sent'[id] = sent[id] + 1
      BY <2>2, AgentFacts
    <3>2. sent[id] + 1 \in 1 .. MaxWrites
      BY <2>1, AgentFacts, SideAssumptions DEF CountersFit, AP!AgentAssumption
    <3>3. AgentSays(A!Data(id, sent[id] + 1))
      BY <2>1, <3>1, <3>2, SameMessages DEF AgentSays
    <3> QED  BY <2>1, <2>2, <3>3, TrySendMoves DEF A!TrySend
  <2>3. CASE A!SendFails
    BY <2>1, <2>3 DEF A!SendFails, AgentMove, linkVars
  <2> QED  BY <1>4, <2>2, <2>3 DEF A!WriteSend
<1> QED  BY <1>1, <1>2, <1>3, <1>4 DEF A!OpenStep, A!ClientStep, A!StreamStep

\* Any step of the agent.
LEMMA AgentMoves ==
  ASSUME AP!IInv, CountersFit, A!AgentStep
  PROVE  AgentMove
BY RunMoves, LoopMoves, StreamMoves, SameLink DEF A!AgentStep

\* Whatever it does, an open that has been sent stays sent, and a Write that
\* has found its stream open is within the bound.
LEMMA AgentCounts ==
  ASSUME AP!IInv, CountersFit, A!AgentStep
  PROVE  /\ \A id \in ID : op'[id] \in Unsent => op[id] \in Unsent
         /\ \A id \in ID : wr'[id] = "send" => sent'[id] < MaxWrites
<1>1. CASE UNCHANGED <<op, wr, sent>>
  BY <1>1 DEF CountersFit
<1>2. ASSUME NEW id \in ID, A!OpenStep(id) \/ A!ClientStep(id) \/ A!StreamStep(id)
      PROVE  /\ \A x \in ID : op'[x] \in Unsent => op[x] \in Unsent
             /\ \A x \in ID : wr'[x] = "send" => sent'[x] < MaxWrites
  <2>1. CASE A!OpenStep(id)
    BY <1>2, <2>1, AgentFacts
    DEF A!OpenStep, A!RegisterStream, A!RegisterPending, A!SendOpen, A!UndoPending, A!UndoStream,
        A!OpenAnswered, A!OpenTimesOut, A!ForgetStream, A!TellRefused, A!OpGoto, Unsent, CountersFit
  <2>2. CASE A!CallOpen(id) \/ A!Read(id) \/ A!CloseFirst(id) \/ A!CloseAgain(id)
    BY <1>2, <2>2, AgentFacts
    DEF A!CallOpen, A!Read, A!CloseFirst, A!CloseAgain, A!OpGoto, Unsent, CountersFit
  <2>3. CASE A!Write(id)
    BY <1>2, <2>3, AgentFacts DEF A!Write, CountersFit
  <2>4. CASE A!WriteSend(id)
    BY <1>2, <2>4, AgentFacts DEF A!WriteSend, CountersFit
  <2>5. CASE A!CloseForget(id) \/ A!CloseTell(id)
    BY <1>2, <2>5, AgentFacts DEF A!CloseForget, A!CloseTell, A!OpGoto, Unsent, CountersFit
  <2> QED  BY <1>2, <2>1, <2>2, <2>3, <2>4, <2>5 DEF A!ClientStep, A!StreamStep
<1>3. ASSUME A!RunStep \/ A!Cancel
      PROVE  UNCHANGED <<op, wr, sent>>
  BY <1>3 DEF A!RunStep, A!Cancel, A!RunTop, A!DialAttach, A!DialFails, A!SendAuth,
              A!SendAuthFails, A!RecvAuthOk, A!RecvAuthRefused, A!ServeError, A!ServeCancelled,
              A!Detach, A!FailNonePending, A!FailPendingStuck, A!CloseNoStreams,
              A!CloseStreamsStuck, A!Backoff, A!streamVars
<1>4. ASSUME NEW g \in A!Conn, A!ReaderStep(g) \/ A!PingerStep(g)
      PROVE  UNCHANGED <<op, wr, sent>>
  BY <1>4 DEF A!ReaderStep, A!PingerStep, A!ReadTop, A!ReadError, A!ReadMessage, A!ReadOpenResp,
              A!ReadData, A!ReadClose, A!ReadPing, A!ReadOther, A!PushQueue, A!PushClosed,
              A!DropStream, A!Pong, A!ReadExit, A!PingTick, A!PingCancelled, A!PingExit,
              A!streamVars
<1> QED  BY <1>1, <1>2, <1>3, <1>4 DEF A!AgentStep

\* What the agent says is what the server expects of an agent.
LEMMA AgentSaysWell ==
  ASSUME AP!IInv, UnsentIsUnknown, NEW msg, AgentSays(msg)
  PROVE  /\ msg \in S!AgentMessages
         /\ msg \in Messages
         /\ msg.type \in {"data", "close"} => msg.id \in ID
         /\ \A id \in ID : op'[id] \in Unsent => msg # Open(id)
<1>1. CASE \E type \in {"auth", "ping", "pong"} : msg = Control(type)
  <2>1. PICK type \in {"auth", "ping", "pong"} : msg = Control(type)
    BY <1>1
  <2>2. msg \in S!AgentMessages
    BY <2>1, SameMessages DEF S!AgentMessages
  <2> QED  BY <2>1, <2>2, MessageTypes DEF Control, Open, Message
<1>2. CASE \E id \in ID : msg = Open(id) /\ op[id] = "sending" /\ op'[id] = "waiting"
  <2>1. PICK id \in ID : msg = Open(id) /\ op[id] = "sending" /\ op'[id] = "waiting"
    BY <1>2
  <2>2. S!Fresh(id)
    BY <2>1, SameMessages, SameLink DEF UnsentIsUnknown, Unsent, S!Fresh
  <2>3. msg \in S!AgentMessages
    BY <2>1, <2>2, SameMessages DEF S!AgentMessages
  <2>4. \A x \in ID : op'[x] \in Unsent => msg # Open(x)
    BY <2>1 DEF Unsent, Open, Message
  <2> QED  BY <2>1, <2>3, <2>4, MessageTypes DEF Open, Message
<1>3. CASE \E id \in ID, n \in 1 .. MaxWrites : msg = Data(id, n)
  <2>1. PICK id \in ID, n \in 1 .. MaxWrites : msg = Data(id, n)
    BY <1>3
  <2>2. msg \in S!AgentMessages
    BY <2>1, SameMessages DEF S!AgentMessages
  <2>3. n \in Nat
    BY <2>1
  <2> QED  BY <2>1, <2>2, <2>3, MessageTypes DEF Data, Open, Message
<1>4. CASE \E id \in ID : msg = Close(id)
  <2>1. PICK id \in ID : msg = Close(id)
    BY <1>4
  <2>2. msg \in S!AgentMessages
    BY <2>1, SameMessages DEF S!AgentMessages
  <2> QED  BY <2>1, <2>2, MessageTypes DEF Close, Open, Message
<1> QED  BY <1>1, <1>2, <1>3, <1>4 DEF AgentSays

\* So a step of the agent is one that ServerSession allows its agent, or
\* nothing that the server could see.
LEMMA AgentIsEnvironment ==
  ASSUME AP!IInv, Glue, Agent
  PROVE  S!Next \/ UNCHANGED S!vars
<1>1. AgentMove /\ UNCHANGED S!serverVars
  <2>1. UNCHANGED S!serverVars
    BY DEF Agent, serverVars, S!serverVars, S!sessionVars, S!targetVars
  <2> QED  BY <2>1, AgentMoves DEF Agent, Glue
<1>2. LinkTypeOK
  BY AgentFacts
<1>3. SUFFICES (\E w \in Conn : S!AgentStep(w)) \/ UNCHANGED linkVars
  BY <1>1, SameLink DEF S!Next, S!vars, S!linkVars, linkVars
<1>4. CASE Dials
  BY <1>1, <1>4, SameLink DEF Dials, S!AgentStep
<1>5. CASE TakesOne
  BY <1>1, <1>5, SameLink DEF TakesOne, S!AgentStep, TakeDown
<1>6. CASE SendsUp
  <2>1. PICK msg : AgentSays(msg) /\ SendUp(ws, msg)
    BY <1>6 DEF SendsUp
  <2>2. msg \in S!AgentMessages
    BY <2>1, AgentSaysWell DEF Glue
  <2>3. S!SendUp(ws, msg) /\ agentEnd[ws] = "open"
    BY <2>1, SameLink DEF SendUp
  <2>4. ws \in Conn /\ UNCHANGED <<down, agentEnd, serverEnd, cut>>
    BY <1>6 DEF SendsUp
  <2> QED  BY <1>1, <2>2, <2>3, <2>4 DEF S!AgentStep
<1>7. CASE HangsUp
  <2>1. ws \in Conn /\ CloseAgentEnd(ws) /\ UNCHANGED <<up, serverEnd, cut>>
    BY <1>7 DEF HangsUp
  <2>2. CASE agentEnd[ws] = "open"
    BY <1>1, <2>1, <2>2, SameLink DEF S!AgentStep
  <2>3. CASE agentEnd[ws] = "closed"
    <3>1. down[ws] = <<>>
      BY <2>1, <2>3 DEF Glue, EndsFit
    <3>2. agentEnd' = agentEnd
      BY <1>2, <2>1, <2>3 DEF CloseAgentEnd, LinkTypeOK
    <3>3. down' = down
      BY <1>2, <2>1, <3>1 DEF CloseAgentEnd, LinkTypeOK
    <3> QED  BY <2>1, <3>2, <3>3 DEF linkVars
  <2>4. agentEnd[ws] \in {"open", "closed"}
    BY <1>2, <2>1 DEF Glue, EndsFit, LinkTypeOK
  <2> QED  BY <2>2, <2>3, <2>4
<1> QED  BY <1>1, <1>4, <1>5, <1>6, <1>7 DEF AgentMove

\* And what the two invariants say of each other survives it.
LEMMA AgentKeepsGlue ==
  ASSUME AP!IInv, Glue, Agent
  PROVE  Glue'
<1>1. /\ AgentMove
      /\ \A id \in ID : op'[id] \in Unsent => op[id] \in Unsent
      /\ \A id \in ID : wr'[id] = "send" => sent'[id] < MaxWrites
  BY AgentMoves, AgentCounts DEF Agent, Glue
<1>2. UNCHANGED <<hpc, hid, sock, pipe, pseq>>
  BY DEF Agent, serverVars
<1>3. LinkTypeOK /\ ws \in Conn \cup {0}
  BY AgentFacts
<1>4. CountersFit'
  BY <1>1, <1>2 DEF Glue, CountersFit
<1>5. EndsFit'
  <2>1. CASE UNCHANGED linkVars /\ ws' \in {0, ws}
    BY <1>2, <2>1, LinkAssumption DEF Glue, EndsFit, linkVars, Conn
  <2>2. CASE Dials
    <3>1. PICK w \in Conn : DialOpens(w) /\ ws' = w /\ UNCHANGED <<up, down, cut>>
      BY <2>2 DEF Dials
    <3>2. /\ agentEnd[w] = "none" /\ agentEnd' = [agentEnd EXCEPT ![w] = "open"]
          /\ serverEnd' = [serverEnd EXCEPT ![w] = "open"]
      BY <3>1 DEF DialOpens
    <3>3. serverEnd[w] = "none" /\ hpc[w] = "recv"
      BY <3>2 DEF Glue, EndsFit
    <3> QED  BY <1>2, <1>3, <3>1, <3>2, <3>3 DEF Glue, EndsFit, LinkTypeOK
  <2>3. CASE TakesOne
    <3>1. PICK w \in Conn : TakeDown(w)
      BY <2>3 DEF TakesOne
    <3>2. agentEnd[w] = "open" /\ \A v \in Conn : v # w => down'[v] = down[v]
      BY <1>3, <3>1 DEF TakeDown, LinkTypeOK
    <3> QED  BY <1>2, <2>3, <3>2 DEF TakesOne, Glue, EndsFit
  <2>4. CASE SendsUp
    BY <1>2, <2>4 DEF SendsUp, Glue, EndsFit
  <2>5. CASE HangsUp
    <3>1. ws \in Conn /\ agentEnd' = [agentEnd EXCEPT ![ws] = "closed"]
          /\ down' = [down EXCEPT ![ws] = <<>>] /\ UNCHANGED serverEnd /\ ws' \in {0, ws}
      BY <2>5 DEF HangsUp, CloseAgentEnd
    <3> QED  BY <1>2, <1>3, <3>1, LinkAssumption DEF Glue, EndsFit, LinkTypeOK, Conn
  <2> QED  BY <1>1, <2>1, <2>2, <2>3, <2>4, <2>5 DEF AgentMove
<1>6. UnsentIsUnknown' /\ UpIsNamed'
  <2>1. CASE UNCHANGED up
    BY <1>1, <1>2, <2>1 DEF Glue, UnsentIsUnknown, UpIsNamed
  <2>2. CASE SendsUp
    <3>1. PICK msg : AgentSays(msg) /\ SendUp(ws, msg)
      BY <2>2 DEF SendsUp
    <3>2. /\ msg \in Messages
          /\ msg.type \in {"data", "close"} => msg.id \in ID
          /\ \A id \in ID : op'[id] \in Unsent => msg # Open(id)
      BY <3>1, AgentSaysWell DEF Glue
    <3>3. /\ \A v \in Conn : v # ws => up'[v] = up[v]
          /\ \/ up'[ws] = up[ws]
             \/ /\ Len(up'[ws]) = Len(up[ws]) + 1
                /\ \A i \in 1 .. Len(up[ws]) : up'[ws][i] = up[ws][i]
                /\ up'[ws][Len(up[ws]) + 1] = msg
      BY <1>3, <2>2, <3>1, <3>2, SendUpContents DEF SendsUp
    <3>4. \A v \in Conn, i \in Nat : i \in 1 .. Len(up'[v]) =>
            up'[v][i] = msg \/ (i \in 1 .. Len(up[v]) /\ up'[v][i] = up[v][i])
      <4> SUFFICES ASSUME NEW v \in Conn, NEW i \in Nat, i \in 1 .. Len(up'[v])
                   PROVE  up'[v][i] = msg \/ (i \in 1 .. Len(up[v]) /\ up'[v][i] = up[v][i])
        OBVIOUS
      <4>1. Len(up[v]) \in Nat
        BY <1>3, LenProperties DEF LinkTypeOK
      <4>2. i \in 1 .. Len(up[v]) \/ i = Len(up[v]) + 1 \/ up'[v] = up[v]
        BY <3>3, <4>1
      <4> QED  BY <3>3, <4>1, <4>2
    <3>5. UpIsNamed'
      BY <3>2, <3>4 DEF Glue, UpIsNamed
    <3>6. ASSUME NEW id \in ID, op'[id] \in Unsent, NEW v \in Conn, NEW i \in 1 .. Len(up'[v])
          PROVE  up'[v][i] # Open(id)
      <4>1. i \in Nat
        BY <1>3, <3>3, LenProperties DEF LinkTypeOK
      <4> QED  BY <1>1, <3>2, <3>4, <3>6, <4>1 DEF Glue, UnsentIsUnknown
    <3> QED  BY <1>1, <1>2, <3>5, <3>6 DEF Glue, UnsentIsUnknown
  <2> QED  BY <1>1, <2>1, <2>2 DEF AgentMove, Dials, TakesOne, HangsUp, linkVars
<1> QED  BY <1>4, <1>5, <1>6 DEF Glue

----------------------------------------------------------------------------
(* What a step of the server is to the agent. *)

\* It does nothing to the connections, takes a message or sends one or both,
\* leaves the loop of a handler, or closes a connection that a handler has left.
ServerSays(w, msg) ==
  \/ \E ok \in BOOLEAN : msg = AuthResp(ok)
  \/ \E type \in {"ping", "pong", "error"} : msg = Control(type)
  \/ \E id \in ID, ok \in BOOLEAN : /\ msg = OpenResp(id, ok)
                                    /\ hid[w] = id /\ (ok => hpc[w] = "reply")
  \/ \E id \in ID, n \in 1 .. MaxData : /\ msg = Data(id, n) /\ home[id] = w
                                        /\ n = pseq[id] /\ pipe[id] = "send"
                                        /\ pipe'[id] = "read"
  \/ \E id \in ID : /\ msg = Close(id)
                    /\ \/ hid[w] = id /\ hpc[w] = "failTell"
                       \/ home[id] = w /\ pipe[id] = "tell"
                       \/ id \notin conns[w] /\ InUp(w, 1, "data", id)
Talks(w)  == /\ serverEnd[w] \in {"open", "leaving"}
             /\ TakeUp(w) \/ UNCHANGED up
             /\ (\E msg : ServerSays(w, msg) /\ SendDown(w, msg)) \/ UNCHANGED down
             /\ UNCHANGED <<agentEnd, serverEnd, cut>>
Leaves(w) == /\ serverEnd[w] = "open" /\ hpc[w] = "leave"
             /\ serverEnd' = [serverEnd EXCEPT ![w] = "leaving"]
             /\ S!HandlerGoto(w, "closeAll", NoID)
             /\ UNCHANGED <<up, down, agentEnd, cut>>
Closes(w) == /\ serverEnd[w] = "leaving" /\ hpc[w] = "closeAll"
             /\ serverEnd' = [serverEnd EXCEPT ![w] = "closed"]
             /\ up' = [up EXCEPT ![w] = <<>>]
             /\ S!HandlerGoto(w, "gone", NoID)
             /\ UNCHANGED <<down, agentEnd, cut>>
ServerMove == UNCHANGED linkVars \/ \E w \in Conn : Talks(w) \/ Leaves(w) \/ Closes(w)

\* A reply or a message of a pipe, whether it can be sent or not.
LEMMA ServerSendMoves ==
  ASSUME NEW w \in Conn, NEW msg, S!TrySend(w, msg), ServerSays(w, msg),
         TakeUp(w) \/ UNCHANGED up, UNCHANGED <<agentEnd, serverEnd, cut>>
  PROVE  ServerMove
<1>1. CASE S!Send(w, msg)
  <2>1. SendDown(w, msg) /\ serverEnd[w] \in {"open", "leaving"}
    BY <1>1, SameLink DEF S!Send, SendDown
  <2> QED  BY <2>1 DEF Talks, ServerMove
<1>2. CASE S!SendFails(w)
  BY <1>2 DEF S!SendFails, Talks, ServerMove, TakeUp, linkVars
<1> QED  BY <1>1, <1>2 DEF S!TrySend

\* The message that a handler takes, and what it may be about.
LEMMA TakenMessage ==
  ASSUME SP!IInv, Glue, NEW w \in Conn, S!HandleMessage(w)
  PROVE  LET msg == Head(up[w]) IN
         /\ TakeUp(w) /\ hpc[w] = "recv" /\ serverEnd[w] = "open"
         /\ msg \in Messages
         /\ 1 \in 1 .. Len(up[w]) /\ up[w][1] = msg
         /\ msg.type \in {"data", "close"} => msg.id \in ID
         /\ msg.type = "open" => msg.id \in ID /\ msg = Open(msg.id)
<1> DEFINE m == Head(up[w])
<1>1. S!TakeUp(w) /\ hpc[w] = "recv"
  BY DEF S!HandleMessage, S!Unauthorized, S!AuthRefused, S!Authenticate, S!HandleOpen,
         S!HandleClose, S!HandleDataUnknown, S!HandleData, S!HandleDataFails, S!HandlePing,
         S!HandlePong, S!HandleUnknown, S!Receive
<1>2. TakeUp(w) /\ serverEnd[w] = "open"
  BY <1>1, SameLink DEF TakeUp
<1>3. 1 \in 1 .. Len(up[w]) /\ up[w][1] = m /\ m \in Messages /\ 1 \in Nat
  BY <1>2, ServerFacts, TakeUpContents, TakeUpType
<1>4. m.type \in {"data", "close"} => m.id \in ID
  BY <1>3 DEF Glue, UpIsNamed
<1>5. ASSUME m.type = "open"
      PROVE  m.id \in ID /\ m = Open(m.id)
  <2>1. PICK id \in ID : m = Open(id)
    BY <1>3, <1>5, ServerFacts
  <2>2. Open(id).id = id
    BY DEF Open, Message
  <2>3. m.id = id
    BY <2>1, <2>2
  <2> QED  BY <2>1, <2>3
<1> QED  BY <1>1, <1>2, <1>3, <1>4, <1>5

\* Taking a message, one step.
LEMMA HandleMoves ==
  ASSUME SP!IInv, Glue, NEW w \in Conn, S!HandleMessage(w)
  PROVE  ServerMove
<1> DEFINE msg == Head(up[w])
<1>1. TakeUp(w) /\ serverEnd[w] = "open" /\ UNCHANGED <<agentEnd, serverEnd, cut>>
  <2>1. UNCHANGED <<agentEnd, serverEnd, cut>>
    BY DEF S!HandleMessage, S!Unauthorized, S!AuthRefused, S!Authenticate, S!HandleOpen,
           S!HandleClose, S!HandleDataUnknown, S!HandleData, S!HandleDataFails, S!HandlePing,
           S!HandlePong, S!HandleUnknown
  <2> QED  BY <2>1, TakenMessage
<1>2. ASSUME NEW m, S!TrySend(w, m), ServerSays(w, m)
      PROVE  ServerMove
  BY <1>1, <1>2, ServerSendMoves
<1>3. CASE S!Unauthorized(w, msg) \/ S!HandleUnknown(w, msg)
  <2>1. ServerSays(w, S!Control("error"))
    BY SameMessages DEF ServerSays
  <2> QED  BY <1>2, <1>3, <2>1 DEF S!Unauthorized, S!HandleUnknown
<1>4. CASE S!AuthRefused(w, msg) \/ S!Authenticate(w, msg)
  <2>1. ServerSays(w, S!AuthResp(TRUE)) /\ ServerSays(w, S!AuthResp(FALSE))
    BY SameMessages DEF ServerSays
  <2> QED  BY <1>2, <1>4, <2>1 DEF S!AuthRefused, S!Authenticate
<1>5. CASE \/ S!HandleOpen(w, msg) \/ S!HandleClose(w, msg) \/ S!HandleData(w, msg)
           \/ S!HandleDataFails(w, msg) \/ S!HandlePong(w, msg)
  <2>1. UNCHANGED down
    BY <1>5 DEF S!HandleOpen, S!HandleClose, S!HandleData, S!HandleDataFails, S!HandlePong
  <2> QED  BY <1>1, <2>1 DEF Talks, ServerMove
<1>6. CASE S!HandleDataUnknown(w, msg)
  <2>1. msg.id \in ID /\ msg.id \notin conns[w] /\ InUp(w, 1, "data", msg.id)
    BY <1>6, TakenMessage DEF S!HandleDataUnknown, InUp
  <2>2. ServerSays(w, S!Close(msg.id))
    BY <2>1, SameMessages DEF ServerSays
  <2> QED  BY <1>2, <1>6, <2>2 DEF S!HandleDataUnknown
<1>7. CASE S!HandlePing(w, msg)
  <2>1. ServerSays(w, S!Control("pong"))
    BY SameMessages DEF ServerSays
  <2> QED  BY <1>2, <1>7, <2>1 DEF S!HandlePing
<1> QED  BY <1>3, <1>4, <1>5, <1>6, <1>7 DEF S!HandleMessage

\* Any step of a handler.
LEMMA HandlerMoves ==
  ASSUME SP!IInv, Glue, NEW w \in Conn,
         S!HandlerStep(w) \/ S!Tick(w) \/ S!PingDone(w)
  PROVE  ServerMove
<1>1. CASE S!HandleMessage(w)
  BY <1>1, HandleMoves
<1>2. CASE \/ S!ReceiveError(w) \/ S!DialSucceeds(w) \/ S!FailDelete(w) \/ S!CloseDelete(w)
           \/ S!CloseAllStuck(w) \/ S!PingDone(w)
  BY <1>2 DEF S!ReceiveError, S!DialSucceeds, S!FailDelete, S!CloseDelete, S!CloseAllStuck,
              S!PingDone, S!linkVars, linkVars, ServerMove
<1>3. CASE S!DialFails(w) \/ S!ReplyOpened(w) \/ S!FailTell(w)
  <2>1. hid[w] \in ID /\ UNCHANGED <<up, agentEnd, serverEnd, cut>>
    BY <1>3, ServerFacts DEF S!DialFails, S!ReplyOpened, S!FailTell
  <2>2. /\ ServerSays(w, S!OpenResp(hid[w], FALSE))
        /\ hpc[w] = "reply" => ServerSays(w, S!OpenResp(hid[w], TRUE))
        /\ hpc[w] = "failTell" => ServerSays(w, S!Close(hid[w]))
    BY <2>1, SameMessages DEF ServerSays
  <2> QED  BY <1>3, <2>1, <2>2, ServerSendMoves DEF S!DialFails, S!ReplyOpened, S!FailTell
<1>4. CASE S!LeaveLoop(w)
  <2>1. serverEnd[w] = "open"
    BY <1>4 DEF S!LeaveLoop, Glue, EndsFit
  <2> QED  BY <1>4, <2>1 DEF S!LeaveLoop, Leaves, ServerMove
<1>5. CASE S!CloseNone(w)
  <2>1. serverEnd[w] = "leaving"
    BY <1>5 DEF S!CloseNone, Glue, EndsFit
  <2> QED  BY <1>5, <2>1 DEF S!CloseNone, Closes, ServerMove
<1>6. CASE S!Tick(w)
  <2>1. S!TrySend(w, S!Control("ping")) /\ UNCHANGED <<up, agentEnd, serverEnd, cut>>
    BY <1>6 DEF S!Tick, S!TrySend
  <2>2. ServerSays(w, S!Control("ping"))
    BY SameMessages DEF ServerSays
  <2> QED  BY <2>1, <2>2, ServerSendMoves
<1> QED  BY <1>1, <1>2, <1>3, <1>4, <1>5, <1>6 DEF S!HandlerStep

\* A step of a pipe.
LEMMA PipeMoves ==
  ASSUME SP!IInv, Glue, NEW id \in ID, S!PipeStep(id)
  PROVE  ServerMove
<1>1. CASE S!PipeRead(id) \/ S!PipeEnds(id) \/ S!PipeClose(id) \/ S!PipeDelete(id)
  BY <1>1 DEF S!PipeRead, S!PipeEnds, S!PipeClose, S!PipeDelete, S!linkVars, linkVars, ServerMove
<1>2. ASSUME pipe[id] \in {"send", "tell"}
      PROVE  home[id] \in Conn
  BY <1>2, ServerFacts
<1>3. CASE S!PipeSend(id)
  <2>1. /\ pipe[id] = "send" /\ home[id] \in Conn
        /\ UNCHANGED <<up, agentEnd, serverEnd, cut>>
    BY <1>2, <1>3 DEF S!PipeSend
  <2>2. CASE S!Send(home[id], S!Data(id, pseq[id])) /\ S!PipeGoto(id, "read")
    <3>1. pipe'[id] = "read"
      BY <2>2, ServerFacts DEF S!PipeGoto
    <3>2. pseq[id] \in 1 .. MaxData
      BY <2>1, ServerFacts DEF Glue, CountersFit
    <3>3. ServerSays(home[id], S!Data(id, pseq[id]))
      BY <2>1, <3>1, <3>2, SameMessages DEF ServerSays
    <3> QED  BY <2>1, <2>2, <3>3, ServerSendMoves DEF S!TrySend
  <2>3. CASE S!SendFails(home[id])
    BY <2>1, <2>3 DEF S!SendFails, linkVars, ServerMove
  <2> QED  BY <1>3, <2>2, <2>3 DEF S!PipeSend
<1>4. CASE S!PipeTell(id)
  <2>1. ServerSays(home[id], S!Close(id))
    BY <1>4, SameMessages DEF S!PipeTell, ServerSays
  <2>2. /\ S!TrySend(home[id], S!Close(id)) /\ home[id] \in Conn
        /\ UNCHANGED <<up, agentEnd, serverEnd, cut>>
    BY <1>2, <1>4 DEF S!PipeTell
  <2> QED  BY <2>1, <2>2, ServerSendMoves
<1> QED  BY <1>1, <1>3, <1>4 DEF S!PipeStep

\* Any step of the server.
LEMMA ServerMoves ==
  ASSUME SP!IInv, Glue, S!ServerStep
  PROVE  ServerMove
BY HandlerMoves, PipeMoves, SameLink DEF S!ServerStep

\* What the server says is what the agent may hear.
LEMMA ServerSaysWell ==
  ASSUME NEW w, NEW msg, ServerSays(w, msg)
  PROVE  msg \in A!ServerMessages
<1>1. msg \in A!AllServerMessages
  BY SameMessages DEF ServerSays, A!AllServerMessages
<1>2. msg.type \in {"auth_resp", "ping", "pong", "error", "open_resp", "data", "close"}
  BY DEF ServerSays, AuthResp, Control, OpenResp, Data, Close, Message
<1> QED  BY <1>1, <1>2 DEF A!ServerMessages

\* So a step of the server is one that AgentSession allows its environment.
LEMMA ServerIsEnvironment ==
  ASSUME SP!IInv, Glue, Server
  PROVE  A!Next \/ UNCHANGED A!vars
<1>1. ServerMove /\ UNCHANGED A!agentVars
  <2>1. UNCHANGED A!agentVars
    BY DEF Server, agentVars, A!agentVars, A!runVars, A!mapVars, A!streamVars, A!loopVars
  <2> QED  BY <2>1, ServerMoves DEF Server
<1>2. SUFFICES (\E w \in Conn : A!ServerStep(w)) \/ UNCHANGED linkVars
  BY <1>1, SameLink DEF A!Next, A!vars, A!linkVars, linkVars
<1>3. ASSUME NEW w \in Conn, Talks(w)
      PROVE  A!ServerStep(w)
  <2>1. (\E msg \in A!ServerMessages : A!SendDown(w, msg)) \/ UNCHANGED down
    BY <1>3, ServerSaysWell, SameLink DEF Talks
  <2>2. A!TakeUp(w) \/ UNCHANGED up
    BY <1>3, SameLink DEF Talks
  <2> QED  BY <1>1, <1>3, <2>1, <2>2 DEF Talks, A!ServerStep
<1>4. ASSUME NEW w \in Conn, Leaves(w)
      PROVE  A!ServerStep(w)
  BY <1>1, <1>4 DEF Leaves, A!ServerStep
<1>5. ASSUME NEW w \in Conn, Closes(w)
      PROVE  A!ServerStep(w)
  BY <1>1, <1>5 DEF Closes, A!ServerStep
<1> QED  BY <1>1, <1>3, <1>4, <1>5 DEF ServerMove

\* A handler moves on without its connection, unless it leaves or closes it.
HandlerFits(w) ==
  \/ Leaves(w) \/ Closes(w)
  \/ /\ UNCHANGED serverEnd
     /\ \A v \in Conn \ {w} : hpc'[v] = hpc[v]
     /\ \/ hpc'[w] = hpc[w]
        \/ hpc[w] = "closeAll" /\ hpc'[w] = "stuck"
        \/ serverEnd[w] = "open" /\ hpc'[w] \notin {"closeAll", "stuck", "gone"}

\* A step of a handler keeps the end of its connection and its place in step.
LEMMA HandlerGoes ==
  ASSUME SP!IInv, Glue, NEW w \in Conn,
         S!HandlerStep(w) \/ S!Tick(w) \/ S!PingDone(w)
  PROVE  HandlerFits(w)
<1>1. hpc \in [Conn -> S!HandlerPC]
  BY ServerFacts
<1>2. ASSUME NEW pc, NEW id, S!HandlerGoto(w, pc, id)
      PROVE  hpc'[w] = pc /\ \A v \in Conn \ {w} : hpc'[v] = hpc[v]
  BY <1>1, <1>2 DEF S!HandlerGoto
<1>3. CASE S!HandleMessage(w)
  <2> DEFINE msg == Head(up[w])
  <2>1. serverEnd[w] = "open" /\ hpc[w] = "recv" /\ UNCHANGED serverEnd
    <3>1. UNCHANGED serverEnd
      BY <1>3 DEF S!HandleMessage, S!Unauthorized, S!AuthRefused, S!Authenticate, S!HandleOpen,
           S!HandleClose, S!HandleDataUnknown, S!HandleData, S!HandleDataFails, S!HandlePing,
           S!HandlePong, S!HandleUnknown
    <3> QED  BY <1>3, <3>1, TakenMessage
  <2>2. CASE UNCHANGED hpc
    BY <2>1, <2>2 DEF HandlerFits
  <2>3. ASSUME NEW pc \in {"leave", "dial", "failDelete", "delete"}, NEW id, S!HandlerGoto(w, pc, id)
        PROVE  HandlerFits(w)
    BY <1>2, <2>1, <2>3 DEF HandlerFits
  <2>4. \/ UNCHANGED hpc
        \/ S!HandlerGoto(w, "leave", NoID) \/ S!HandlerGoto(w, "dial", msg.id)
        \/ S!HandlerGoto(w, "failDelete", msg.id) \/ S!HandlerGoto(w, "delete", msg.id)
    BY <1>3 DEF S!HandleMessage, S!Unauthorized, S!AuthRefused, S!Authenticate, S!HandleOpen,
           S!HandleClose, S!HandleDataUnknown, S!HandleData, S!HandleDataFails, S!HandlePing,
           S!HandlePong, S!HandleUnknown, S!sessionVars
  <2> QED  BY <2>2, <2>3, <2>4
<1>4. ASSUME NEW pc \in {"leave", "recv", "reply", "failTell"}, NEW id, S!HandlerGoto(w, pc, id),
             hpc[w] \in {"recv", "dial", "reply", "failDelete", "failTell", "delete"},
             serverEnd[w] # "none", UNCHANGED serverEnd
      PROVE  HandlerFits(w)
  <2>1. serverEnd[w] = "open"
    BY <1>4 DEF Glue, EndsFit
  <2> QED  BY <1>2, <1>4, <2>1 DEF HandlerFits
<1>5. CASE S!ReceiveError(w)
  BY <1>4, <1>5 DEF S!ReceiveError, S!linkVars
<1>6. CASE \/ S!DialFails(w) \/ S!DialSucceeds(w) \/ S!ReplyOpened(w) \/ S!FailDelete(w)
           \/ S!FailTell(w) \/ S!CloseDelete(w)
  <2>1. /\ hpc[w] \in {"dial", "reply", "failDelete", "failTell", "delete"}
        /\ UNCHANGED serverEnd
    BY <1>6 DEF S!DialFails, S!DialSucceeds, S!ReplyOpened, S!FailDelete, S!FailTell,
                S!CloseDelete, S!linkVars
  <2>2. serverEnd[w] # "none"
    BY <2>1 DEF Glue, EndsFit
  <2>3. \/ S!HandlerGoto(w, "recv", NoID) \/ S!HandlerGoto(w, "reply", hid[w])
        \/ S!HandlerGoto(w, "failTell", hid[w])
    BY <1>6 DEF S!DialFails, S!DialSucceeds, S!ReplyOpened, S!FailDelete, S!FailTell,
                S!CloseDelete
  <2> QED  BY <1>4, <2>1, <2>2, <2>3
<1>7. CASE S!LeaveLoop(w)
  BY <1>7 DEF S!LeaveLoop, Leaves, HandlerFits, Glue, EndsFit
<1>8. CASE S!CloseNone(w)
  BY <1>8 DEF S!CloseNone, Closes, HandlerFits, Glue, EndsFit
<1>9. CASE S!CloseAllStuck(w)
  BY <1>2, <1>9 DEF S!CloseAllStuck, HandlerFits, S!linkVars
<1>10. CASE S!Tick(w) \/ S!PingDone(w)
  BY <1>10 DEF S!Tick, S!PingDone, HandlerFits, S!linkVars
<1> QED  BY <1>3, <1>5, <1>6, <1>7, <1>8, <1>9, <1>10 DEF S!HandlerStep

\* A ConnID that the server has heard of has been sent by OpenStream.
LEMMA KnownIsSent ==
  ASSUME SP!IInv, Glue, NEW w \in Conn, NEW id \in ID,
         \/ hid[w] = id \/ id \in conns[w]
         \/ 1 \in 1 .. Len(up[w]) /\ up[w][1] = Open(id)
  PROVE  op[id] \notin Unsent
BY ServerFacts DEF Glue, UnsentIsUnknown

\* The server learns of no ConnID before that, and its numbers stay in bounds.
LEMMA HandlerLearns ==
  ASSUME SP!IInv, Glue, NEW w \in Conn,
         S!HandlerStep(w) \/ S!Tick(w) \/ S!PingDone(w)
  PROVE  /\ \A id \in ID : op[id] \in Unsent =>
              sock'[id] = sock[id] /\ \A v \in Conn : hid'[v] # id
         /\ UNCHANGED pseq
         /\ \A id \in ID : pipe'[id] = "send" => pipe[id] = "send"
<1>1. /\ hid \in [Conn -> ID \cup {NoID}] /\ conns \in [Conn -> SUBSET ID]
      /\ sock \in [ID -> {"none", "open", "closed"}] /\ pipe \in [ID -> S!PipePC]
  BY ServerFacts
<1>2. \A id \in ID, v \in Conn : op[id] \in Unsent => hid[v] # id
  BY DEF Glue, UnsentIsUnknown
<1>3. ASSUME NEW pc, NEW id \in ID \cup {NoID}, S!HandlerGoto(w, pc, id),
             id \in ID => op[id] \notin Unsent
      PROVE  \A x \in ID : op[x] \in Unsent => \A v \in Conn : hid'[v] # x
  BY <1>1, <1>2, <1>3, LinkAssumption DEF S!HandlerGoto
<1>4. ASSUME NEW id \in ID, op[id] \notin Unsent, NEW st, sock' = [sock EXCEPT ![id] = st]
      PROVE  \A x \in ID : op[x] \in Unsent => sock'[x] = sock[x]
  BY <1>1, <1>4
<1>5. CASE S!HandleMessage(w)
  <2> DEFINE msg == Head(up[w])
  <2>1. UNCHANGED <<pipe, pseq>>
    BY <1>5 DEF S!HandleMessage, S!Unauthorized, S!AuthRefused, S!Authenticate, S!HandleOpen,
           S!HandleClose, S!HandleDataUnknown, S!HandleData, S!HandleDataFails, S!HandlePing,
           S!HandlePong, S!HandleUnknown, S!targetVars
  <2>2. CASE \/ S!Unauthorized(w, msg) \/ S!AuthRefused(w, msg)
    BY <1>3, <2>1, <2>2, LinkAssumption DEF S!Unauthorized, S!AuthRefused, S!targetVars
  <2>3. CASE \/ S!Authenticate(w, msg) \/ S!HandleDataUnknown(w, msg) \/ S!HandleData(w, msg)
             \/ S!HandlePing(w, msg) \/ S!HandlePong(w, msg) \/ S!HandleUnknown(w, msg)
    BY <1>2, <2>1, <2>3 DEF S!Authenticate, S!HandleDataUnknown, S!HandleData, S!HandlePing,
       S!HandlePong, S!HandleUnknown, S!sessionVars, S!targetVars
  <2>4. CASE S!HandleOpen(w, msg)
    <3>1. msg.id \in ID /\ op[msg.id] \notin Unsent
      BY <1>5, <2>4, TakenMessage, KnownIsSent DEF S!HandleOpen
    <3> QED  BY <1>3, <2>1, <2>4, <3>1 DEF S!HandleOpen, S!targetVars
  <2>5. CASE S!HandleDataFails(w, msg)
    <3>1. msg.id \in ID /\ op[msg.id] \notin Unsent
      BY <1>1, <2>5, KnownIsSent DEF S!HandleDataFails
    <3>2. S!HandlerGoto(w, "failDelete", msg.id) /\ sock' = [sock EXCEPT ![msg.id] = "closed"]
      BY <2>5 DEF S!HandleDataFails
    <3> QED  BY <1>3, <1>4, <2>1, <3>1, <3>2
  <2>6. CASE S!HandleClose(w, msg) /\ msg.id \in conns[w]
    <3>1. msg.id \in ID /\ op[msg.id] \notin Unsent
      BY <1>1, <2>6, KnownIsSent
    <3>2. S!HandlerGoto(w, "delete", msg.id) /\ sock' = [sock EXCEPT ![msg.id] = "closed"]
      BY <2>6 DEF S!HandleClose
    <3> QED  BY <1>3, <1>4, <2>1, <3>1, <3>2
  <2>7. CASE S!HandleClose(w, msg) /\ msg.id \notin conns[w]
    BY <1>2, <2>1, <2>7 DEF S!HandleClose
  <2> QED  BY <1>5, <2>2, <2>3, <2>4, <2>5, <2>6, <2>7 DEF S!HandleMessage
<1>6. CASE S!ReceiveError(w) \/ S!LeaveLoop(w) \/ S!CloseNone(w)
  BY <1>3, <1>6, LinkAssumption DEF S!ReceiveError, S!LeaveLoop, S!CloseNone, S!targetVars
<1>7. CASE S!DialFails(w) \/ S!FailDelete(w) \/ S!FailTell(w) \/ S!CloseDelete(w)
  <2>1. hid[w] \in ID /\ op[hid[w]] \notin Unsent
    BY <1>7, ServerFacts, KnownIsSent DEF S!DialFails, S!FailDelete, S!FailTell, S!CloseDelete
  <2>2. UNCHANGED <<sock, pipe, pseq>>
    BY <1>7 DEF S!DialFails, S!FailDelete, S!FailTell, S!CloseDelete, S!targetVars
  <2> QED
    BY <1>3, <1>7, <2>1, <2>2, LinkAssumption
    DEF S!DialFails, S!FailDelete, S!FailTell, S!CloseDelete
<1>8. CASE S!DialSucceeds(w) \/ S!ReplyOpened(w)
  <2>1. hid[w] \in ID /\ op[hid[w]] \notin Unsent
    BY <1>8, ServerFacts, KnownIsSent DEF S!DialSucceeds, S!ReplyOpened
  <2>2. CASE S!DialSucceeds(w)
    BY <1>3, <1>4, <2>1, <2>2 DEF S!DialSucceeds
  <2>3. CASE S!ReplyOpened(w)
    <3>1. \A id \in ID : pipe'[id] = "send" => pipe[id] = "send"
      BY <1>1, <2>1, <2>3 DEF S!ReplyOpened
    <3> QED  BY <1>3, <2>3, <3>1, LinkAssumption DEF S!ReplyOpened
  <2> QED  BY <1>8, <2>2, <2>3
<1>9. CASE S!CloseAllStuck(w)
  <2>1. PICK id \in conns[w] : sock' = [sock EXCEPT ![id] = "closed"]
    BY <1>9 DEF S!CloseAllStuck
  <2>2. id \in ID /\ op[id] \notin Unsent
    BY <1>1, <2>1, KnownIsSent
  <2> QED  BY <1>3, <1>4, <1>9, <2>1, <2>2, LinkAssumption DEF S!CloseAllStuck
<1>10. CASE S!Tick(w) \/ S!PingDone(w)
  BY <1>2, <1>10 DEF S!Tick, S!PingDone, S!targetVars
<1> QED  BY <1>5, <1>6, <1>7, <1>8, <1>9, <1>10 DEF S!HandlerStep

\* A pipe does nothing for a ConnID that was never sent.
LEMMA PipeLearns ==
  ASSUME SP!IInv, Glue, NEW x \in ID, S!PipeStep(x)
  PROVE  /\ \A id \in ID : op[id] \in Unsent =>
              sock'[id] = sock[id] /\ \A v \in Conn : hid'[v] # id
         /\ UNCHANGED <<hpc, serverEnd>>
         /\ \A id \in ID : /\ pseq'[id] <= MaxData
                           /\ pipe'[id] = "send" => pseq'[id] >= 1
<1>1. /\ sock \in [ID -> {"none", "open", "closed"}] /\ pipe \in [ID -> S!PipePC]
      /\ pseq \in [ID -> Nat]
  BY ServerFacts
<1>2. op[x] \notin Unsent
  <2>1. pipe[x] # "off"
    BY DEF S!PipeStep, S!PipeRead, S!PipeSend, S!PipeEnds, S!PipeClose, S!PipeDelete, S!PipeTell
  <2> QED  BY <2>1, ServerFacts DEF Glue, UnsentIsUnknown
<1>3. UNCHANGED <<hpc, hid, serverEnd>>
  BY DEF S!PipeStep, S!PipeRead, S!PipeSend, S!PipeEnds, S!PipeClose, S!PipeDelete, S!PipeTell,
         S!linkVars, S!sessionVars
<1>4. \A id \in ID : op[id] \in Unsent => sock'[id] = sock[id]
  BY <1>1, <1>2
  DEF S!PipeStep, S!PipeRead, S!PipeSend, S!PipeEnds, S!PipeClose, S!PipeDelete, S!PipeTell
<1>5. \A id \in ID : pseq[id] <= MaxData /\ (pipe[id] = "send" => pseq[id] >= 1)
  BY DEF Glue, CountersFit
<1>6. CASE S!PipeRead(x)
  <2>1. /\ pseq[x] < MaxData /\ pseq' = [pseq EXCEPT ![x] = pseq[x] + 1]
        /\ pipe' = [pipe EXCEPT ![x] = "send"]
    BY <1>6 DEF S!PipeRead, S!PipeGoto
  <2>2. MaxData \in Nat
    BY SideAssumptions DEF SP!ServerAssumption
  <2>3. ASSUME NEW id \in ID
        PROVE  pseq'[id] <= MaxData /\ (pipe'[id] = "send" => pseq'[id] >= 1)
    <3>1. CASE id = x
      BY <1>1, <2>1, <2>2, <3>1
    <3>2. CASE id # x
      BY <1>1, <1>5, <2>1, <3>2
    <3> QED  BY <3>1, <3>2
  <2> QED  BY <1>3, <1>4, <2>3, <1>2 DEF Glue, UnsentIsUnknown
<1>7. CASE ~S!PipeRead(x)
  <2>1. UNCHANGED pseq /\ \A id \in ID : pipe'[id] = "send" => pipe[id] = "send"
    BY <1>1, <1>7
    DEF S!PipeStep, S!PipeSend, S!PipeEnds, S!PipeClose, S!PipeDelete, S!PipeTell, S!PipeGoto
  <2> QED  BY <1>3, <1>4, <1>5, <2>1 DEF Glue, UnsentIsUnknown
<1> QED  BY <1>6, <1>7

\* What the two invariants say of each other survives a step of the server.
LEMMA ServerKeepsGlue ==
  ASSUME SP!IInv, Glue, Server
  PROVE  Glue'
<1>1. ServerMove /\ LinkTypeOK /\ UNCHANGED <<ws, op, wr, sent>>
  BY ServerMoves, ServerFacts DEF Server, agentVars
<1>2. \A id \in ID : op[id] \in Unsent => sock'[id] = sock[id] /\ \A v \in Conn : hid'[v] # id
  BY HandlerLearns, PipeLearns, SameLink DEF Server, S!ServerStep
<1>3. CountersFit'
  <2>1. \A id \in ID : pseq'[id] <= MaxData /\ (pipe'[id] = "send" => pseq'[id] >= 1)
    <3>1. ASSUME NEW w \in Conn, S!HandlerStep(w) \/ S!Tick(w) \/ S!PingDone(w)
          PROVE  \A id \in ID : pseq'[id] <= MaxData /\ (pipe'[id] = "send" => pseq'[id] >= 1)
      BY <3>1, HandlerLearns DEF Glue, CountersFit
    <3> QED  BY <3>1, PipeLearns, SameLink DEF Server, S!ServerStep
  <2> QED  BY <1>1, <2>1 DEF Glue, CountersFit
\* A handler takes messages away; nothing else becomes of the queues to it.
<1>4. \A v \in Conn, i \in Nat : i \in 1 .. Len(up'[v]) =>
        \E j \in Nat : j \in 1 .. Len(up[v]) /\ up'[v][i] = up[v][j]
  <2> SUFFICES ASSUME NEW v \in Conn, NEW i \in Nat, i \in 1 .. Len(up'[v])
               PROVE  \E j \in Nat : j \in 1 .. Len(up[v]) /\ up'[v][i] = up[v][j]
    OBVIOUS
  <2>1. CASE UNCHANGED up
    BY <2>1
  <2>2. ASSUME NEW w \in Conn, TakeUp(w)
        PROVE  \E j \in Nat : j \in 1 .. Len(up[v]) /\ up'[v][i] = up[v][j]
    <3>1. CASE v # w
      BY <1>1, <2>2, <3>1, TakeUpContents
    <3>2. CASE v = w
      <4>1. Len(up'[v]) = Len(up[v]) - 1 /\ up'[v][i] = up[v][i + 1]
        BY <1>1, <2>2, <3>2, TakeUpContents
      <4>2. Len(up[v]) \in Nat
        BY <1>1, LenProperties DEF LinkTypeOK
      <4> QED  BY <4>1, <4>2
    <3> QED  BY <3>1, <3>2
  <2>3. ASSUME NEW w \in Conn, Closes(w)
        PROVE  \E j \in Nat : j \in 1 .. Len(up[v]) /\ up'[v][i] = up[v][j]
    <3>1. up' = [up EXCEPT ![w] = <<>>]
      BY <2>3 DEF Closes
    <3>2. v # w
      BY <1>1, <3>1, EmptySeq DEF LinkTypeOK
    <3> QED  BY <1>1, <3>1, <3>2 DEF LinkTypeOK
  <2> QED  BY <1>1, <2>1, <2>2, <2>3 DEF ServerMove, Talks, Leaves, linkVars
<1>5. UpIsNamed'
  BY <1>4 DEF Glue, UpIsNamed
<1>6. UnsentIsUnknown'
  <2>1. ASSUME NEW id \in ID, op'[id] \in Unsent
        PROVE  /\ op[id] \in Unsent /\ sock'[id] = "none"
               /\ \A w \in Conn : hid'[w] # id
    BY <1>1, <1>2, <2>1 DEF Glue, UnsentIsUnknown
  <2>2. ASSUME NEW id \in ID, op[id] \in Unsent, NEW w \in Conn, NEW i \in 1 .. Len(up'[w]),
               up'[w][i] = Open(id)
        PROVE  FALSE
    <3>1. i \in Nat
      OBVIOUS
    <3>2. PICK j \in Nat : j \in 1 .. Len(up[w]) /\ up'[w][i] = up[w][j]
      BY <1>4, <3>1
    <3>3. \A k \in 1 .. Len(up[w]) : up[w][k] # Open(id)
      BY <2>2 DEF Glue, UnsentIsUnknown
    <3> QED  BY <2>2, <3>2, <3>3
  <2> QED  BY <2>1, <2>2 DEF UnsentIsUnknown
<1>7. EndsFit'
  <2>1. ASSUME NEW v \in Conn
        PROVE  /\ (agentEnd'[v] = "none") <=> (serverEnd'[v] = "none")
               /\ agentEnd'[v] = "closed" => down'[v] = <<>>
               /\ ws' = v => agentEnd'[v] # "none"
    <3>1. UNCHANGED agentEnd
      BY <1>1 DEF ServerMove, Talks, Leaves, Closes, linkVars
    <3>2. (serverEnd'[v] = "none") <=> (serverEnd[v] = "none")
      BY <1>1 DEF ServerMove, Talks, Leaves, Closes, linkVars, LinkTypeOK
    <3>3. agentEnd[v] = "closed" => down'[v] = down[v]
      BY <1>1 DEF ServerMove, Talks, Leaves, Closes, linkVars, SendDown, LinkTypeOK
    <3> QED  BY <1>1, <3>1, <3>2, <3>3 DEF Glue, EndsFit
  <2>2. ASSUME NEW v \in Conn
        PROVE  CASE hpc'[v] = "recv" -> serverEnd'[v] \in {"none", "open"}
                 [] hpc'[v] \in {"closeAll", "stuck"} -> serverEnd'[v] = "leaving"
                 [] hpc'[v] = "gone" -> serverEnd'[v] = "closed"
                 [] OTHER -> serverEnd'[v] = "open"
    <3>1. CASE UNCHANGED <<hpc, serverEnd>>
      BY <3>1 DEF Glue, EndsFit
    <3>2. ASSUME NEW w \in Conn, HandlerFits(w)
          PROVE  CASE hpc'[v] = "recv" -> serverEnd'[v] \in {"none", "open"}
                   [] hpc'[v] \in {"closeAll", "stuck"} -> serverEnd'[v] = "leaving"
                   [] hpc'[v] = "gone" -> serverEnd'[v] = "closed"
                   [] OTHER -> serverEnd'[v] = "open"
      <4>1. CASE Leaves(w) \/ Closes(w)
        <5>1. CASE v = w
          BY <1>1, <4>1, <5>1, ServerFacts DEF Leaves, Closes, S!HandlerGoto, LinkTypeOK
        <5>2. CASE v # w
          <6>1. hpc'[v] = hpc[v] /\ serverEnd'[v] = serverEnd[v]
            BY <1>1, <4>1, <5>2, ServerFacts DEF Leaves, Closes, S!HandlerGoto, LinkTypeOK
          <6> QED  BY <6>1 DEF Glue, EndsFit
        <5> QED  BY <5>1, <5>2
      <4>2. CASE ~(Leaves(w) \/ Closes(w))
        <5>1. CASE v = w
          BY <3>2, <4>2, <5>1 DEF HandlerFits, Glue, EndsFit
        <5>2. CASE v # w
          BY <3>2, <4>2, <5>2 DEF HandlerFits, Glue, EndsFit
        <5> QED  BY <5>1, <5>2
      <4> QED  BY <4>1, <4>2
    <3> QED  BY <3>1, <3>2, HandlerGoes, PipeLearns, SameLink DEF Server, S!ServerStep
  <2> QED  BY <2>1, <2>2 DEF EndsFit
<1> QED  BY <1>3, <1>5, <1>6, <1>7 DEF Glue

----------------------------------------------------------------------------
(* Both sides and the network together. *)

LEMMA NetworkIsEnvironment ==
  ASSUME Glue, Network
  PROVE  A!Next /\ S!Next /\ Glue'
<1>1. PICK w \in Conn : Break(w)
  BY DEF Network
<1>2. UNCHANGED <<up, down, agentEnd, serverEnd, agentVars, serverVars>>
  BY <1>1 DEF Network, Break
<1>3. A!Next
  BY <1>1, <1>2, SameLink
  DEF A!Next, A!NetworkStep, A!agentVars, A!runVars, A!mapVars, A!streamVars, A!loopVars, agentVars
<1>4. S!Next
  BY <1>1, <1>2, SameLink
  DEF S!Next, S!NetworkStep, S!serverVars, S!sessionVars, S!targetVars, serverVars
<1>5. Glue'
  BY <1>2 DEF Glue, UnsentIsUnknown, UpIsNamed, EndsFit, CountersFit, agentVars, serverVars
<1> QED  BY <1>3, <1>4, <1>5

\* Both sides start as their own modules say.
LEMMA InitHolds == Init => A!Init /\ S!Init /\ IInv
<1> SUFFICES ASSUME Init PROVE A!Init /\ S!Init /\ IInv
  OBVIOUS
<1>1. A!Init /\ S!Init
  BY DEF Init, LinkInit, Conn, A!Init, A!LinkInit, A!Conn, S!Init, S!LinkInit, S!Conn
<1>2. AP!IInv /\ SP!IInv
  BY <1>1, AP!InitHolds, SP!InitHolds, SideAssumptions, SameAgent, SameServer
<1>3. Glue
  <2>1. \A w \in Conn : up[w] = <<>> /\ down[w] = <<>> /\ agentEnd[w] = "none" /\ serverEnd[w] = "none"
    BY DEF Init, LinkInit
  <2>2. ws = 0 /\ \A id \in ID : sock[id] = "none" /\ pseq[id] = 0 /\ pipe[id] = "off" /\ wr[id] = "ready"
    BY DEF Init, A!AgentInit, S!ServerInit
  <2>3. \A w \in Conn : hpc[w] = "recv" /\ hid[w] = NoID
    BY <1>1 DEF S!Init, S!ServerInit, S!Conn, Conn
  <2>4. Len(<<>>) = 0
    BY EmptySeq
  <2>5. MaxData \in Nat
    BY SideAssumptions DEF SP!ServerAssumption
  <2>6. UnsentIsUnknown /\ UpIsNamed
    BY <2>1, <2>2, <2>3, <2>4, LinkAssumption DEF UnsentIsUnknown, UpIsNamed
  <2>7. EndsFit
    BY <2>1, <2>2, <2>3, LinkAssumption DEF EndsFit, Conn
  <2>8. CountersFit
    <3> SUFFICES ASSUME NEW id \in ID
                 PROVE  /\ wr[id] = "send" => sent[id] < MaxWrites
                        /\ pseq[id] <= MaxData
                        /\ pipe[id] = "send" => pseq[id] >= 1
      BY DEF CountersFit
    <3>1. wr[id] = "ready" /\ pseq[id] = 0 /\ pipe[id] = "off"
      BY <2>2
    <3>2. 0 <= MaxData
      BY <2>5
    <3> QED  BY <3>1, <3>2
  <2> QED  BY <2>6, <2>7, <2>8 DEF Glue
<1> QED  BY <1>1, <1>2, <1>3 DEF IInv

\* A step of the two together is one of each that its own module allows.
LEMMA SideSteps == IInv /\ [Next]_vars => [A!Next]_(A!vars) /\ [S!Next]_(S!vars) /\ Glue'
<1> SUFFICES ASSUME IInv, [Next]_vars
             PROVE  [A!Next]_(A!vars) /\ [S!Next]_(S!vars) /\ Glue'
  OBVIOUS
<1>1. AP!IInv /\ SP!IInv /\ Glue
  BY DEF IInv
<1>2. CASE Agent
  <2>1. A!Next
    BY <1>2 DEF Agent, A!Next
  <2> QED  BY <1>1, <1>2, <2>1, AgentIsEnvironment, AgentKeepsGlue
<1>3. CASE Server
  <2>1. S!Next
    BY <1>3 DEF Server, S!Next
  <2> QED  BY <1>1, <1>3, <2>1, ServerIsEnvironment, ServerKeepsGlue
<1>4. CASE Network
  BY <1>1, <1>4, NetworkIsEnvironment
<1>5. CASE UNCHANGED vars
  <2>1. UNCHANGED A!vars /\ UNCHANGED S!vars
    BY <1>5 DEF vars, linkVars, agentVars, serverVars, A!vars, A!linkVars, A!agentVars, A!runVars,
                A!mapVars, A!streamVars, A!loopVars, S!vars, S!linkVars, S!serverVars,
                S!sessionVars, S!targetVars
  <2>2. Glue'
    BY <1>1, <1>5 DEF Glue, UnsentIsUnknown, UpIsNamed, EndsFit, CountersFit, vars, linkVars,
                      agentVars, serverVars
  <2> QED  BY <2>1, <2>2
<1> QED  BY <1>2, <1>3, <1>4, <1>5 DEF Next

\* Whoever takes the step, the invariant holds after it.
LEMMA InvariantStep == IInv /\ [Next]_vars => IInv'
<1> SUFFICES ASSUME IInv, [Next]_vars PROVE IInv'
  OBVIOUS
<1>1. [A!Next]_(A!vars) /\ [S!Next]_(S!vars) /\ Glue'
  BY SideSteps
<1>2. [AP!Next]_(AP!vars) /\ [SP!Next]_(SP!vars)
  BY <1>1, SameAgent, SameServer
<1>3. AP!IInv' /\ SP!IInv'
  BY <1>2, AP!InvariantStep, SP!InvariantStep, SideAssumptions DEF IInv
<1> QED  BY <1>1, <1>3 DEF IInv

----------------------------------------------------------------------------
(* Theorems *)

\* Both sides' invariants, and what they say of each other, hold of the two
\* joined by their connections, whatever the network does.
THEOREM Invariance == SafetySpec => []IInv
BY InitHolds, InvariantStep, PTL DEF SafetySpec

\* The server behaves as AgentSession assumes of its environment: what is
\* proved of the agent by itself (session.go, stream.go) holds behind the
\* server of server.go.
THEOREM AgentFits == SafetySpec => AgentSpec
<1>1. IInv /\ [Next]_vars => [A!Next]_(A!vars)
  BY SideSteps
<1>2. Init => A!Init
  BY InitHolds
<1> QED  BY <1>1, <1>2, Invariance, PTL DEF SafetySpec, AgentSpec, A!SafetySpec

\* The agent behaves as ServerSession assumes of its agents: in particular it
\* sends no open for a ConnID that the server has heard of.
THEOREM ServerFits == SafetySpec => ServerSpec
<1>1. IInv /\ [Next]_vars => [S!Next]_(S!vars)
  BY SideSteps
<1>2. Init => S!Init
  BY InitHolds
<1> QED  BY <1>1, <1>2, Invariance, PTL DEF SafetySpec, ServerSpec, S!SafetySpec

----------------------------------------------------------------------------
(* What becomes of a stream: how both sides come to agree on it. *)

Dialling(w, id) == hpc[w] = "dial" /\ hid[w] = id
OpenAt(w, i, id) == i \in 1 .. Len(up[w]) /\ up[w][i] = Open(id)

\* A connection that is, or will be, of no use to one of its ends.
Dead(w) == agentEnd[w] = "closed" \/ serverEnd[w] \in {"leaving", "closed"} \/ cut[w]

\* Nothing was ever said or dialled over a connection that is not open yet, and
\* nothing is dialled for an agent that has not said who it is.
Undialled == \A w \in Conn : agentEnd[w] = "none" =>
               up[w] = <<>> /\ down[w] = <<>> /\ \A id \in ID : home[id] # w
AuthedFits == \A w \in Conn :
                (hpc[w] = "dial" \/ \E id \in ID : home[id] = w) => authed[w]

\* The agent has one connection at a time, and no open waits on an earlier one.
Attached == {"sendAuth", "recvAuth", "serve", "detach"}
RunFits == /\ \A w \in Conn : agentEnd[w] = "open" => ws = w
           /\ ws # 0 => runPc \in Attached
           /\ \A id \in ID : op[id] \in {"sending", "waiting"} => id \in pending
           /\ \A id \in ID : op[id] = "waiting" =>
                runPc \in Attached \cup {"failPending", "stuckPending"}

\* A stream that its client has got, has a target.
Used == {"open", "closing", "closeTell", "closed"}
UsedIsDialled ==
  /\ \A id \in ID : /\ op[id] \in Used \/ result[id] = "ok" => sock[id] # "none"
                    /\ wr[id] = "send" => op[id] \in Used
  /\ \A id \in ID, w \in Conn, i \in Nat :
       InDown(w, i, "open_resp", id) /\ down[w][i].ok => sock[id] # "none"

\* Data is sent on streams that are in use, over the connection they were
\* opened on as long as it lives; and a close is the last word of the client.
UpFits == \A id \in ID, w \in Conn, i \in Nat :
  /\ InUp(w, i, "data", id) => op[id] \in Used /\ (home[id] = w \/ Dead(home[id]))
  /\ InUp(w, i, "close", id) => op[id] \in {"failed", "closed"}
LateFits == \A w \in Conn, id \in ID : hid[w] = id =>
  /\ hpc[w] \in {"failDelete", "failTell"} => op[id] \in Used /\ sock[id] = "closed"
  /\ hpc[w] = "delete" => op[id] \in {"failed", "closed"}

\* There is no target for the ConnID that its agent could still hear from, and
\* there will be none.
Held(w, id) == (home[id] = w /\ sock[id] = "open") \/ Dialling(w, id)
Over(id) == /\ op[id] \notin Unsent
            /\ \A w \in Conn : ~Dead(w) => ~Held(w, id) /\ \A i \in Nat : ~OpenAt(w, i, id)

\* So it is when the server says close, and when the agent has heard that.
CloseMeansOver == \A id \in ID, w \in Conn, i \in Nat : InDown(w, i, "close", id) => Over(id)
DoneMeansOver == \A id \in ID :
  once[id] = "done" => Over(id) \/ op[id] = "closed" \/ ~A!StreamsFree

\* A target whose client is gone has a close on the way to it.
CloseBehind(w, i, id) == \E j \in Nat : j > i /\ InUp(w, j, "close", id)
ReleaseUnderWay == \A id \in ID, w \in Conn :
  (op[id] \in {"failed", "closed"} /\ ~Dead(w)) =>
    /\ \A i \in Nat : OpenAt(w, i, id) => CloseBehind(w, i, id)
    /\ Held(w, id) => CloseBehind(w, 0, id)

\* A client whose target is gone has a close on the way to it, or coming.
AbortMeansDead == \A id \in ID : pipe[id] \in {"abort", "abortDelete"} => Dead(home[id])
LossUnderWay == \A id \in ID :
  (/\ sock[id] = "closed" /\ ~Dead(home[id])
   /\ op[id] \in {"waiting", "open"} /\ once[id] = "new") =>
     \/ \E i \in Nat : InDown(home[id], i, "close", id)
     \/ hid[home[id]] = id /\ hpc[home[id]] \in {"failDelete", "failTell"}
     \/ pipe[id] \in {"delete", "tell"}

\* NoLostOpen, for proofs.
Awaited(id) == op[id] = "waiting" /\ result[id] = "none" /\ ws # 0 /\ Serving(ws)
Located(id) == \/ \E i \in Nat : OpenAt(ws, i, id)
               \/ hid[ws] = id
               \/ \E i \in Nat : InDown(ws, i, "open_resp", id)
AwaitedIsLocated == \A id \in ID : Awaited(id) => Located(id)

Agreed == /\ Undialled /\ AuthedFits /\ RunFits
          /\ UsedIsDialled /\ UpFits /\ LateFits
          /\ CloseMeansOver /\ DoneMeansOver
          /\ ReleaseUnderWay /\ AbortMeansDead /\ LossUnderWay
          /\ AwaitedIsLocated

----------------------------------------------------------------------------
(* More of what each side's invariant says. *)

LEMMA StreamFacts ==
  ASSUME AP!IInv
  PROVE  /\ streams \in SUBSET ID /\ pending \in SUBSET ID
         /\ result \in [ID -> {"none", "ok", "fail"}]
         /\ once \in [ID -> {"new", "running", "done"}]
         /\ \A id \in ID : (op[id] \in {"waiting", "open"} /\ once[id] = "new") => id \in streams
BY DEF AP!IInv, AP!TypeOK, AP!MapTypeOK, AP!StreamTypeOK, AP!OpenIsFindable

\* A ConnID is in one place: in one open, at one handler, or at its target.
LEMMA TargetFacts ==
  ASSUME SP!IInv
  PROVE  /\ authed \in [Conn -> BOOLEAN]
         /\ \A v, w \in Conn, id \in ID :
              Dialling(v, id) => sock[id] = "none" /\ (Dialling(w, id) => v = w)
         /\ \A v, w \in Conn, id \in ID, i \in Nat :
              OpenAt(v, i, id) => sock[id] = "none" /\ ~Dialling(w, id)
         /\ \A v, w \in Conn, id \in ID, i, j \in Nat :
              OpenAt(v, i, id) /\ OpenAt(w, j, id) => v = w /\ i = j
         /\ \A id \in ID : sock[id] = "open" => home[id] \in Conn /\ id \in conns[home[id]]
         /\ \A id \in ID : pipe[id] \in {"delete", "abortDelete"} => sock[id] = "closed"
         /\ \A id \in ID : pipe[id] = "tell" => sock[id] = "closed"
         /\ \A w \in Conn, id \in ID : (hid[w] = id /\ hpc[w] # "dial") =>
              /\ home[id] = w
              /\ hpc[w] \in {"failDelete", "delete"} => sock[id] = "closed"
<1>1. authed \in [Conn -> BOOLEAN]
  BY DEF SP!IInv, SP!TypeOK, SP!Conn, Conn
<1>2. \A v, w \in Conn, id \in ID :
        Dialling(v, id) => sock[id] = "none" /\ (Dialling(w, id) => v = w)
  BY DEF SP!IInv, SP!OneHandlerDials, SP!Dialling, Dialling, SP!Conn, Conn
<1>3. \A v, w \in Conn, id \in ID, i, j \in Nat :
        OpenAt(v, i, id) =>
          /\ sock[id] = "none" /\ ~Dialling(w, id)
          /\ OpenAt(w, j, id) => v = w /\ i = j
  BY DEF SP!IInv, SP!OneOpenSent, SP!OpenAt, SP!Dialling, OpenAt, Dialling, SP!Conn, Conn,
         SP!Open, SP!Message, Open, Message
<1>4. \A id \in ID : sock[id] = "open" => home[id] \in Conn /\ id \in conns[home[id]]
  BY ServerFacts DEF SP!IInv, SP!SocketRegistered
<1>5. \A id \in ID : pipe[id] \in {"delete", "abortDelete"} => sock[id] = "closed"
  BY DEF SP!IInv, SP!PipeInHand
<1>6. \A id \in ID : pipe[id] = "tell" => sock[id] = "closed"
  <2> SUFFICES ASSUME NEW id \in ID, pipe[id] = "tell", sock[id] # "closed"
               PROVE  FALSE
    OBVIOUS
  <2>1. sock[id] = "open"
    BY ServerFacts
  <2>2. home[id] \in Conn /\ id \in conns[home[id]]
    BY <2>1, <1>4
  <2> QED  BY <2>2 DEF SP!IInv, SP!EntryHasPipe, SP!Conn, Conn
<1>7. \A w \in Conn, id \in ID : (hid[w] = id /\ hpc[w] # "dial") =>
        /\ home[id] = w
        /\ hpc[w] \in {"failDelete", "delete"} => sock[id] = "closed"
  BY DEF SP!IInv, SP!HandlerInHand, SP!Conn, Conn
<1> QED  BY <1>1, <1>2, <1>3, <1>4, <1>5, <1>6, <1>7

\* A connection over which something is under way, and that is not dead, is the
\* agent's current one.
LEMMA LiveIsCurrent ==
  ASSUME SP!IInv, AP!IInv, EndsFit, Undialled, RunFits, NEW w \in Conn, ~Dead(w),
         \/ up[w] # <<>> \/ hpc[w] # "recv" \/ \E id \in ID : home[id] = w
  PROVE  w = ws /\ Alive(w)
<1>1. LinkTypeOK /\ hpc \in [Conn -> S!HandlerPC]
  BY ServerFacts
<1>2. agentEnd[w] # "none"
  BY <1>1 DEF EndsFit, Undialled, LinkTypeOK, S!HandlerPC
<1>3. agentEnd[w] = "open" /\ serverEnd[w] = "open" /\ ~cut[w]
  BY <1>1, <1>2 DEF Dead, EndsFit, LinkTypeOK
<1> QED  BY <1>3 DEF RunFits, Alive

----------------------------------------------------------------------------
(* What a step does to the queues. *)

\* The agent appends to the queue of its connection.
LEMMA AgentUp ==
  ASSUME AP!IInv, UnsentIsUnknown, AgentMove, NEW v \in Conn, NEW i \in Nat
  PROVE  /\ i \in 1 .. Len(up'[v]) =>
              \/ i \in 1 .. Len(up[v]) /\ up'[v][i] = up[v][i]
              \/ v = ws /\ AgentSays(up'[v][i])
         /\ i \in 1 .. Len(up[v]) => i \in 1 .. Len(up'[v]) /\ up'[v][i] = up[v][i]
<1>1. LinkTypeOK
  BY AgentFacts
<1>2. CASE UNCHANGED up
  BY <1>2
<1>3. CASE SendsUp
  <2>1. PICK msg : AgentSays(msg) /\ SendUp(ws, msg)
    BY <1>3 DEF SendsUp
  <2>2. ws \in Conn /\ msg \in Messages
    BY <1>3, <2>1, AgentSaysWell DEF SendsUp
  <2>3. /\ \A u \in Conn : u # ws => up'[u] = up[u]
        /\ \/ up'[ws] = up[ws]
           \/ /\ Len(up'[ws]) = Len(up[ws]) + 1
              /\ \A k \in 1 .. Len(up[ws]) : up'[ws][k] = up[ws][k]
              /\ up'[ws][Len(up[ws]) + 1] = msg
    BY <1>1, <2>1, <2>2, SendUpContents
  <2>4. Len(up[v]) \in Nat
    BY <1>1, LenProperties DEF LinkTypeOK
  <2>5. CASE up'[v] = up[v]
    BY <2>5
  <2>6. CASE v = ws /\ up'[v] # up[v]
    <3>1. /\ Len(up'[v]) = Len(up[v]) + 1
          /\ \A k \in 1 .. Len(up[v]) : up'[v][k] = up[v][k]
          /\ up'[v][Len(up[v]) + 1] = msg
      BY <2>3, <2>6
    <3>2. i \in 1 .. Len(up[v]) => i \in 1 .. Len(up'[v]) /\ up'[v][i] = up[v][i]
      BY <2>4, <3>1
    <3>3. i \in 1 .. Len(up'[v]) => i \in 1 .. Len(up[v]) \/ i = Len(up[v]) + 1
      BY <2>4, <3>1
    <3> QED  BY <2>1, <2>6, <3>1, <3>2, <3>3
  <2> QED  BY <2>3, <2>5, <2>6
<1> QED  BY <1>2, <1>3 DEF AgentMove, Dials, TakesOne, HangsUp, linkVars

\* What it says on a connection that is alive arrives in the queue.
LEMMA AgentSent ==
  ASSUME AP!IInv, UnsentIsUnknown, NEW msg, AgentSays(msg), A!TrySend(msg),
         ws \in Conn, Alive(ws)
  PROVE  /\ Len(up'[ws]) = Len(up[ws]) + 1 /\ Len(up[ws]) \in Nat
         /\ up'[ws][Len(up[ws]) + 1] = msg
<1>1. LinkTypeOK /\ ws # 0
  BY AgentFacts, LinkAssumption DEF Conn
<1>2. ~A!SendFails
  BY <1>1 DEF A!SendFails, A!UpBroken, Alive
<1>3. SendUp(ws, msg)
  BY <1>2, SameLink DEF A!TrySend, A!Send
<1>4. msg \in Messages
  BY AgentSaysWell
<1>5. Len(up[ws]) \in Nat
  BY <1>1, LenProperties DEF LinkTypeOK
<1> QED  BY <1>1, <1>3, <1>4, <1>5, SendUpContents DEF Alive

\* What it leaves in the queues to it was there; it takes the first message, or
\* gives the connection up.
LEMMA AgentDown ==
  ASSUME AP!IInv, AgentMove, NEW v \in Conn, NEW i \in Nat
  PROVE  /\ i \in 1 .. Len(down'[v]) =>
              \E j \in Nat : j \in 1 .. Len(down[v]) /\ down'[v][i] = down[v][j]
         /\ i \in 1 .. Len(down[v]) =>
              \/ \E j \in Nat : j \in 1 .. Len(down'[v]) /\ down'[v][j] = down[v][i]
              \/ TakeDown(v) /\ UNCHANGED agentEnd /\ down[v][i] = Head(down[v])
              \/ agentEnd'[v] = "closed"
<1>1. LinkTypeOK
  BY AgentFacts
<1>2. CASE UNCHANGED down
  BY <1>2
<1>3. CASE TakesOne
  <2>1. PICK w \in Conn : TakeDown(w)
    BY <1>3 DEF TakesOne
  <2>2. CASE v # w
    BY <1>1, <2>1, <2>2, TakeDownContents
  <2>3. CASE v = w
    <3>1. /\ Len(down'[v]) = Len(down[v]) - 1
          /\ \A k \in 1 .. Len(down'[v]) : down'[v][k] = down[v][k + 1]
          /\ 1 \in 1 .. Len(down[v]) /\ down[v][1] = Head(down[v])
      BY <1>1, <2>1, <2>3, TakeDownContents
    <3>2. Len(down[v]) \in Nat
      BY <1>1, LenProperties DEF LinkTypeOK
    <3>3. ASSUME i \in 1 .. Len(down'[v])
          PROVE  i + 1 \in Nat /\ i + 1 \in 1 .. Len(down[v]) /\ down'[v][i] = down[v][i + 1]
      BY <3>1, <3>2, <3>3
    <3>4. ASSUME i \in 1 .. Len(down[v]), i # 1
          PROVE  i - 1 \in Nat /\ i - 1 \in 1 .. Len(down'[v]) /\ down'[v][i - 1] = down[v][i]
      <4>1. i - 1 \in Nat /\ i - 1 \in 1 .. Len(down'[v]) /\ (i - 1) + 1 = i
        BY <3>1, <3>2, <3>4
      <4> QED  BY <3>1, <4>1
    <3> QED  BY <1>3, <2>1, <2>3, <3>1, <3>3, <3>4 DEF TakesOne
  <2> QED  BY <2>2, <2>3
<1>4. CASE HangsUp
  <2>1. ws \in Conn /\ down' = [down EXCEPT ![ws] = <<>>]
        /\ agentEnd' = [agentEnd EXCEPT ![ws] = "closed"]
    BY <1>4 DEF HangsUp, CloseAgentEnd
  <2>2. CASE v = ws
    <3>1. Len(down'[v]) = 0 /\ agentEnd'[v] = "closed"
      BY <1>1, <2>1, <2>2, EmptySeq DEF LinkTypeOK
    <3> QED  BY <3>1
  <2>3. CASE v # ws
    BY <1>1, <2>1, <2>3 DEF LinkTypeOK
  <2> QED  BY <2>2, <2>3
<1> QED  BY <1>2, <1>3, <1>4 DEF AgentMove, Dials, SendsUp, linkVars

\* A handler takes the first message, or closes the connection.
LEMMA ServerUp ==
  ASSUME SP!IInv, ServerMove, NEW v \in Conn, NEW i \in Nat
  PROVE  /\ i \in 1 .. Len(up'[v]) =>
              \/ i \in 1 .. Len(up[v]) /\ up'[v][i] = up[v][i] /\ ~TakeUp(v)
              \/ TakeUp(v) /\ i + 1 \in 1 .. Len(up[v]) /\ up'[v][i] = up[v][i + 1]
         /\ i \in 1 .. Len(up[v]) =>
              \/ i \in 1 .. Len(up'[v]) /\ up'[v][i] = up[v][i] /\ ~TakeUp(v)
              \/ /\ TakeUp(v) /\ i > 1
                 /\ i - 1 \in 1 .. Len(up'[v]) /\ up'[v][i - 1] = up[v][i]
              \/ TakeUp(v) /\ i = 1 /\ up[v][i] = Head(up[v])
              \/ serverEnd'[v] = "closed"
<1>1. LinkTypeOK
  BY ServerFacts
<1>2. CASE up'[v] = up[v]
  <2>1. ~TakeUp(v)
    <3> SUFFICES ASSUME TakeUp(v) PROVE FALSE
      OBVIOUS
    <3>1. Len(up'[v]) = Len(up[v]) - 1
      BY <1>1, TakeUpContents
    <3>2. Len(up[v]) \in Nat
      BY <1>1, LenProperties DEF LinkTypeOK
    <3> QED  BY <1>2, <3>1, <3>2
  <2> QED  BY <1>2, <2>1
<1>3. CASE TakeUp(v)
  <2>1. /\ Len(up'[v]) = Len(up[v]) - 1
        /\ \A k \in 1 .. Len(up'[v]) : up'[v][k] = up[v][k + 1]
        /\ up[v][1] = Head(up[v])
    BY <1>1, <1>3, TakeUpContents
  <2>2. Len(up[v]) \in Nat
    BY <1>1, LenProperties DEF LinkTypeOK
  <2>3. ASSUME i \in 1 .. Len(up'[v])
        PROVE  i + 1 \in 1 .. Len(up[v]) /\ up'[v][i] = up[v][i + 1]
    BY <2>1, <2>2, <2>3
  <2>4. ASSUME i \in 1 .. Len(up[v]), i # 1
        PROVE  i > 1 /\ i - 1 \in 1 .. Len(up'[v]) /\ up'[v][i - 1] = up[v][i]
    <3>1. i > 1 /\ i - 1 \in 1 .. Len(up'[v]) /\ (i - 1) + 1 = i
      BY <2>1, <2>2, <2>4
    <3> QED  BY <2>1, <3>1
  <2> QED  BY <1>3, <2>1, <2>3, <2>4
<1>4. ASSUME NEW w \in Conn, TakeUp(w), v # w
      PROVE  up'[v] = up[v]
  BY <1>1, <1>4, TakeUpContents
<1>5. ASSUME NEW w \in Conn, Closes(w), v # w
      PROVE  up'[v] = up[v]
  BY <1>1, <1>5 DEF Closes, LinkTypeOK
<1>6. CASE Closes(v)
  <2>1. Len(up'[v]) = 0 /\ serverEnd'[v] = "closed"
    BY <1>1, <1>6, EmptySeq DEF Closes, LinkTypeOK
  <2> QED  BY <2>1
<1> QED  BY <1>2, <1>3, <1>4, <1>5, <1>6 DEF ServerMove, Talks, Leaves, linkVars

\* The server appends to the queues to the agent.
LEMMA ServerDown ==
  ASSUME SP!IInv, ServerMove, NEW v \in Conn, NEW i \in Nat
  PROVE  /\ i \in 1 .. Len(down'[v]) =>
              \/ i \in 1 .. Len(down[v]) /\ down'[v][i] = down[v][i]
              \/ ServerSays(v, down'[v][i]) /\ serverEnd[v] # "none"
         /\ i \in 1 .. Len(down[v]) => i \in 1 .. Len(down'[v]) /\ down'[v][i] = down[v][i]
<1>1. LinkTypeOK
  BY ServerFacts
<1>2. CASE UNCHANGED down
  BY <1>2
<1>3. ASSUME NEW w \in Conn, NEW msg, ServerSays(w, msg), SendDown(w, msg)
      PROVE  /\ i \in 1 .. Len(down'[v]) =>
                  \/ i \in 1 .. Len(down[v]) /\ down'[v][i] = down[v][i]
                  \/ ServerSays(v, down'[v][i]) /\ serverEnd[v] # "none"
             /\ i \in 1 .. Len(down[v]) => i \in 1 .. Len(down'[v]) /\ down'[v][i] = down[v][i]
  <2>1. msg \in Messages
    <3>1. \A n \in 1 .. MaxData : n \in Nat
      OBVIOUS
    <3> QED  BY <1>3, <3>1, MessageTypes DEF ServerSays
  <2>2. /\ \A u \in Conn : u # w => down'[u] = down[u]
        /\ \/ down'[w] = down[w]
           \/ /\ Len(down'[w]) = Len(down[w]) + 1
              /\ \A k \in 1 .. Len(down[w]) : down'[w][k] = down[w][k]
              /\ down'[w][Len(down[w]) + 1] = msg
    BY <1>1, <1>3, <2>1, SendDownContents
  <2>3. Len(down[v]) \in Nat
    BY <1>1, LenProperties DEF LinkTypeOK
  <2>4. CASE down'[v] = down[v]
    BY <2>4
  <2>5. CASE v = w /\ down'[v] # down[v]
    <3>1. /\ Len(down'[v]) = Len(down[v]) + 1
          /\ \A k \in 1 .. Len(down[v]) : down'[v][k] = down[v][k]
          /\ down'[v][Len(down[v]) + 1] = msg
      BY <2>2, <2>5
    <3>2. i \in 1 .. Len(down[v]) => i \in 1 .. Len(down'[v]) /\ down'[v][i] = down[v][i]
      BY <2>3, <3>1
    <3>3. i \in 1 .. Len(down'[v]) => i \in 1 .. Len(down[v]) \/ i = Len(down[v]) + 1
      BY <2>3, <3>1
    <3>4. serverEnd[v] # "none"
      BY <1>3, <2>5 DEF SendDown
    <3> QED  BY <1>3, <2>5, <3>1, <3>2, <3>3, <3>4
  <2> QED  BY <2>2, <2>4, <2>5
<1> QED  BY <1>2, <1>3 DEF ServerMove, Talks, Leaves, Closes, linkVars

\* What a goroutine of the server says to a live connection arrives.
LEMMA ServerSent ==
  ASSUME SP!IInv, NEW w \in Conn, NEW msg \in Messages, S!TrySend(w, msg), Alive(w)
  PROVE  /\ Len(down'[w]) = Len(down[w]) + 1 /\ Len(down[w]) \in Nat
         /\ down'[w][Len(down[w]) + 1] = msg
<1>1. LinkTypeOK
  BY ServerFacts
<1>2. SendDown(w, msg)
  BY SameLink DEF S!TrySend, S!Send, S!SendFails, S!DownSendBroken, Alive
<1>3. Len(down[w]) \in Nat
  BY <1>1, LenProperties DEF LinkTypeOK
<1> QED  BY <1>1, <1>2, <1>3, SendDownContents DEF Alive

----------------------------------------------------------------------------
(* What a step of the agent does to its streams. *)

Hears(type, id) == \E w \in Conn : InDown(w, 1, type, id)
HearsYes(id) == \E w \in Conn : InDown(w, 1, "open_resp", id) /\ down[w][1].ok

OpMoves(id) ==
  \/ op'[id] = op[id]
  \/ op[id] \in Unsent /\ op'[id] \in Unsent \cup {"failed"}
  \/ op[id] = "sending" /\ op'[id] = "waiting" /\ A!Send(A!Open(id))
  \/ op[id] = "waiting" /\ op'[id] = "open" /\ result[id] = "ok"
  \/ op[id] = "waiting" /\ op'[id] = "forget"
  \/ op[id] = "forget" /\ op'[id] = "tell"
  \/ op[id] = "tell" /\ op'[id] = "failed" /\ A!TrySend(A!Close(id))
  \/ op[id] = "open" /\ op'[id] = "closing"
  \/ op[id] = "open" /\ op'[id] = "closed" /\ once[id] = "done"
  \/ op[id] = "closing" /\ op'[id] = "closeTell"
  \/ op[id] = "closeTell" /\ op'[id] = "closed" /\ A!TrySend(A!Close(id))
OnceMoves(id) ==
  \/ once'[id] = once[id]
  \/ once[id] = "new" /\ once'[id] = "running"
  \/ once'[id] = "done" /\ (op'[id] = "closed" \/ ~A!StreamsFree' \/ Hears("close", id))
ResultMoves(id) ==
  \/ result'[id] = result[id]
  \/ result[id] = "none" /\ result'[id] = "fail"
  \/ result[id] = "none" /\ result'[id] = "ok" /\ HearsYes(id)
WriterMoves(id) == wr'[id] = "send" => wr[id] = "send" \/ op[id] = "open"
StreamPath == \A id \in ID : OpMoves(id) /\ OnceMoves(id) /\ ResultMoves(id) /\ WriterMoves(id)

\* Run, one step of it.
LEMMA RunPath ==
  ASSUME AP!IInv, A!RunStep \/ A!Cancel
  PROVE  StreamPath
<1>1. CASE A!FailPendingStuck
  <2>1. PICK id \in pending : result' = [result EXCEPT ![id] = IF @ = "none" THEN "fail" ELSE @]
    BY <1>1 DEF A!FailPendingStuck
  <2>2. UNCHANGED <<op, once, wr>>
    BY <1>1 DEF A!FailPendingStuck
  <2> QED
    BY <2>1, <2>2, StreamFacts DEF StreamPath, OpMoves, OnceMoves, ResultMoves, WriterMoves
<1>2. CASE A!CloseStreamsStuck
  <2>1. PICK id \in streams : once' = [once EXCEPT ![id] = IF @ = "new" THEN "done" ELSE @]
    BY <1>2 DEF A!CloseStreamsStuck
  <2>2. UNCHANGED <<op, result, wr>>
    BY <1>2 DEF A!CloseStreamsStuck
  <2>3. ~A!StreamsFree'
    BY <1>2 DEF A!CloseStreamsStuck, A!Goto, A!StreamsFree
  <2>4. \A x \in ID : once'[x] = once[x] \/ once'[x] = "done"
    BY <2>1, StreamFacts
  <2>5. \A x \in ID : OnceMoves(x)
    BY <2>3, <2>4 DEF OnceMoves
  <2> QED  BY <2>2, <2>5 DEF StreamPath, OpMoves, ResultMoves, WriterMoves
<1>3. CASE UNCHANGED <<op, once, result, wr>>
  BY <1>3 DEF StreamPath, OpMoves, OnceMoves, ResultMoves, WriterMoves
<1> QED
  BY <1>1, <1>2, <1>3
  DEF A!RunStep, A!Cancel, A!RunTop, A!DialAttach, A!DialFails, A!SendAuth, A!SendAuthFails,
      A!RecvAuthOk, A!RecvAuthRefused, A!ServeError, A!ServeCancelled, A!Detach,
      A!FailNonePending, A!CloseNoStreams, A!Backoff, A!streamVars

\* The message that a reader takes is the first of its connection.
LEMMA HeardMessage ==
  ASSUME AP!IInv, NEW g \in Conn, A!ReadMessage(g)
  PROVE  LET msg == Head(down[ron[g]]) IN
         /\ ron[g] \in Conn /\ TakeDown(ron[g])
         /\ InDown(ron[g], 1, msg.type, msg.id) /\ down[ron[g]][1] = msg
<1>1. A!TakeDown(ron[g]) /\ rpc[g] = "recv"
  BY DEF A!ReadMessage, A!ReadOpenResp, A!ReadData, A!ReadClose, A!ReadPing, A!ReadOther, A!Receive
<1>2. ron[g] \in Conn /\ TakeDown(ron[g])
  BY <1>1, AgentFacts, SameLink
<1> QED  BY <1>2, AgentFacts, TakeDownContents DEF InDown

\* A reader or a pinger, one step of it.
LEMMA LoopPath ==
  ASSUME AP!IInv, NEW g \in Conn, A!ReaderStep(g) \/ A!PingerStep(g)
  PROVE  StreamPath
<1>1. CASE UNCHANGED <<op, once, result, wr>>
  BY <1>1 DEF StreamPath, OpMoves, OnceMoves, ResultMoves, WriterMoves
<1>2. CASE A!ReadMessage(g)
  <2> DEFINE m == Head(down[ron[g]])
  <2>1. ron[g] \in Conn /\ InDown(ron[g], 1, m.type, m.id) /\ down[ron[g]][1] = m
    BY <1>2, HeardMessage
  <2>2. CASE A!ReadOpenResp(g, m)
    <3>1. m.type = "open_resp" /\ UNCHANGED <<op, once, wr>>
      BY <2>2 DEF A!ReadOpenResp
    <3>2. CASE UNCHANGED result
      BY <1>1, <3>1, <3>2
    <3>3. CASE /\ m.id \in pending /\ result[m.id] = "none"
               /\ result' = [result EXCEPT ![m.id] = IF m.ok THEN "ok" ELSE "fail"]
      <4>1. m.ok => HearsYes(m.id)
        BY <2>1, <3>1 DEF HearsYes
      <4>2. \A id \in ID : id # m.id => result'[id] = result[id]
        BY <3>3, StreamFacts
      <4>3. m.id \in ID /\ result'[m.id] = (IF m.ok THEN "ok" ELSE "fail")
        BY <3>3, StreamFacts
      <4>4. ResultMoves(m.id)
        BY <3>3, <4>1, <4>3 DEF ResultMoves
      <4>5. \A id \in ID : ResultMoves(id)
        BY <4>2, <4>4 DEF ResultMoves
      <4> QED  BY <3>1, <4>5 DEF StreamPath, OpMoves, OnceMoves, WriterMoves
    <3> QED  BY <2>2, <3>2, <3>3 DEF A!ReadOpenResp
  <2>3. CASE A!ReadClose(g, m)
    <3>1. m.type = "close" /\ UNCHANGED <<op, result, wr>>
      BY <2>3 DEF A!ReadClose
    <3>2. CASE UNCHANGED once
      BY <1>1, <3>1, <3>2
    <3>3. CASE once' = [once EXCEPT ![m.id] = "done"]
      <4>1. Hears("close", m.id)
        BY <2>1, <3>1 DEF Hears
      <4>2. \A id \in ID : OnceMoves(id)
        BY <3>3, <4>1, StreamFacts DEF OnceMoves
      <4> QED  BY <3>1, <4>2 DEF StreamPath, OpMoves, ResultMoves, WriterMoves
    <3> QED  BY <2>3, <3>2, <3>3 DEF A!ReadClose
  <2>4. CASE A!ReadData(g, m) \/ A!ReadPing(g, m) \/ A!ReadOther(g, m)
    BY <1>1, <2>4 DEF A!ReadData, A!ReadPing, A!ReadOther, A!streamVars
  <2> QED  BY <1>2, <2>2, <2>3, <2>4 DEF A!ReadMessage
<1> QED
  BY <1>1, <1>2
  DEF A!ReaderStep, A!PingerStep, A!ReadTop, A!ReadError, A!PushQueue, A!PushClosed,
      A!DropStream, A!Pong, A!ReadExit, A!PingTick, A!PingCancelled, A!PingExit, A!streamVars

\* OpenStream, or a client of a stream, one step of it.
LEMMA ClientPath ==
  ASSUME AP!IInv, NEW x \in ID, A!OpenStep(x) \/ A!ClientStep(x) \/ A!StreamStep(x)
  PROVE  StreamPath
<1>1. op \in [ID -> A!OpPC] /\ once \in [ID -> {"new", "running", "done"}]
      /\ wr \in [ID -> {"ready", "send", "ended"}]
  BY AgentFacts, StreamFacts
<1>2. \A id \in ID \ {x} : op'[id] = op[id] /\ once'[id] = once[id] /\ wr'[id] = wr[id]
  <2>1. CASE A!OpenStep(x)
    BY <1>1, <2>1
    DEF A!OpenStep, A!RegisterStream, A!RegisterPending, A!SendOpen, A!UndoPending, A!UndoStream,
        A!OpenAnswered, A!OpenTimesOut, A!ForgetStream, A!TellRefused, A!OpGoto
  <2>2. CASE A!ClientStep(x) \/ A!StreamStep(x)
    BY <1>1, <2>2
    DEF A!ClientStep, A!StreamStep, A!CallOpen, A!Read, A!Write, A!CloseFirst, A!CloseAgain,
        A!WriteSend, A!CloseForget, A!CloseTell, A!OpGoto
  <2> QED  BY <2>1, <2>2
<1>3. UNCHANGED result
  BY DEF A!OpenStep, A!RegisterStream, A!RegisterPending, A!SendOpen, A!UndoPending, A!UndoStream,
         A!OpenAnswered, A!OpenTimesOut, A!ForgetStream, A!TellRefused, A!ClientStep, A!StreamStep,
         A!CallOpen, A!Read, A!Write, A!CloseFirst, A!CloseAgain, A!WriteSend, A!CloseForget,
         A!CloseTell
<1>4. OpMoves(x)
  <2>1. CASE A!OpenStep(x)
    BY <1>1, <2>1
    DEF A!OpenStep, A!RegisterStream, A!RegisterPending, A!SendOpen, A!UndoPending, A!UndoStream,
        A!OpenAnswered, A!OpenTimesOut, A!ForgetStream, A!TellRefused, A!OpGoto, OpMoves, Unsent
  <2>2. CASE A!ClientStep(x) \/ A!StreamStep(x)
    BY <1>1, <2>2
    DEF A!ClientStep, A!StreamStep, A!CallOpen, A!Read, A!Write, A!CloseFirst, A!CloseAgain,
        A!WriteSend, A!CloseForget, A!CloseTell, A!OpGoto, OpMoves, Unsent
  <2> QED  BY <2>1, <2>2
<1>5. OnceMoves(x) /\ WriterMoves(x)
  <2>1. CASE A!OpenStep(x)
    BY <2>1
    DEF A!OpenStep, A!RegisterStream, A!RegisterPending, A!SendOpen, A!UndoPending, A!UndoStream,
        A!OpenAnswered, A!OpenTimesOut, A!ForgetStream, A!TellRefused, OnceMoves, WriterMoves
  <2>2. CASE A!ClientStep(x) \/ A!StreamStep(x)
    BY <1>1, <2>2
    DEF A!ClientStep, A!StreamStep, A!CallOpen, A!Read, A!Write, A!CloseFirst, A!CloseAgain,
        A!WriteSend, A!CloseForget, A!CloseTell, A!OpGoto, OnceMoves, WriterMoves
  <2> QED  BY <2>1, <2>2
<1>6. ASSUME NEW id \in ID, id # x
      PROVE  OpMoves(id) /\ OnceMoves(id) /\ WriterMoves(id)
  <2>1. op'[id] = op[id] /\ once'[id] = once[id] /\ wr'[id] = wr[id]
    BY <1>2, <1>6
  <2> QED  BY <2>1 DEF OpMoves, OnceMoves, WriterMoves
<1>7. \A id \in ID : ResultMoves(id)
  BY <1>3 DEF ResultMoves
<1> QED  BY <1>4, <1>5, <1>6, <1>7 DEF StreamPath

\* Any step of the agent.
LEMMA AgentPath ==
  ASSUME AP!IInv, A!AgentStep
  PROVE  StreamPath
BY RunPath, LoopPath, ClientPath, SameLink DEF A!AgentStep

\* A close or an answer that is taken from a connection has its effect.
LEMMA HeardActs ==
  ASSUME AP!IInv, A!AgentStep, NEW w \in Conn, TakeDown(w), UNCHANGED agentEnd
  PROVE  LET msg == Head(down[w]) IN
         /\ (msg.type = "close" /\ msg.id \in streams) => once'[msg.id] = "done"
         /\ (msg.type = "open_resp" /\ msg.id \in pending) => result'[msg.id] # "none"
<1>1. LinkTypeOK /\ down'[w] # down[w] /\ agentEnd[w] = "open"
  <2>1. Len(down'[w]) = Len(down[w]) - 1
    BY AgentFacts, TakeDownContents
  <2>2. Len(down[w]) \in Nat
    BY AgentFacts, LenProperties DEF LinkTypeOK
  <2>3. down'[w] # down[w]
    BY <2>1, <2>2
  <2> QED  BY <2>3, AgentFacts DEF TakeDown
<1>2. ASSUME NEW v, CloseAgentEnd(v)
      PROVE  FALSE
  BY <1>1, <1>2 DEF CloseAgentEnd, LinkTypeOK
<1>3. ASSUME NEW g \in Conn, A!ReadMessage(g)
      PROVE  LET msg == Head(down[w]) IN
             /\ (msg.type = "close" /\ msg.id \in streams) => once'[msg.id] = "done"
             /\ (msg.type = "open_resp" /\ msg.id \in pending) => result'[msg.id] # "none"
  <2> DEFINE m == Head(down[ron[g]])
  <2>1. ron[g] = w
    <3>1. ron[g] \in Conn /\ TakeDown(ron[g])
      BY <1>3, HeardMessage
    <3> QED  BY <1>1, <3>1, TakeDownContents
  <2>2. CASE A!ReadOpenResp(g, m)
    BY <2>1, <2>2, StreamFacts DEF A!ReadOpenResp
  <2>3. CASE A!ReadClose(g, m)
    BY <2>1, <2>3, StreamFacts DEF A!ReadClose
  <2>4. CASE A!ReadData(g, m) \/ A!ReadPing(g, m) \/ A!ReadOther(g, m)
    BY <2>1, <2>4 DEF A!ReadData, A!ReadPing, A!ReadOther
  <2> QED  BY <1>3, <2>2, <2>3, <2>4 DEF A!ReadMessage
<1>4. CASE A!RunStep \/ A!Cancel
  <2>1. CASE A!RecvAuthOk
    <3>1. ws \in Conn /\ TakeDown(ws) /\ Head(down[ws]) = AuthResp(TRUE)
      BY <2>1, AgentFacts, SameLink, SameMessages DEF A!RecvAuthOk
    <3>2. ws = w
      BY <1>1, <3>1, TakeDownContents
    <3> QED  BY <3>1, <3>2 DEF AuthResp, Message
  <2>2. CASE UNCHANGED down
    BY <1>1, <2>2
  <2>3. A!RecvAuthOk \/ UNCHANGED down \/ A!CloseAgentEnd(ws)
    BY <1>4
    DEF A!RunStep, A!Cancel, A!RunTop, A!DialAttach, A!DialFails, A!SendAuth, A!SendAuthFails,
        A!RecvAuthRefused, A!ServeError, A!ServeCancelled, A!Detach, A!FailNonePending,
        A!FailPendingStuck, A!CloseNoStreams, A!CloseStreamsStuck, A!Backoff, A!linkVars
  <2> QED  BY <1>2, <2>1, <2>2, <2>3, SameLink
<1>5. ASSUME NEW g \in Conn, A!ReaderStep(g) \/ A!PingerStep(g)
      PROVE  A!ReadMessage(g) \/ UNCHANGED down
  BY <1>5
  DEF A!ReaderStep, A!PingerStep, A!ReadTop, A!ReadError, A!PushQueue, A!PushClosed, A!DropStream,
      A!Pong, A!ReadExit, A!PingTick, A!PingCancelled, A!PingExit, A!linkVars
<1>6. ASSUME NEW id \in ID, A!OpenStep(id) \/ A!ClientStep(id) \/ A!StreamStep(id)
      PROVE  UNCHANGED down
  BY <1>6
  DEF A!OpenStep, A!RegisterStream, A!RegisterPending, A!SendOpen, A!UndoPending, A!UndoStream,
      A!OpenAnswered, A!OpenTimesOut, A!ForgetStream, A!TellRefused, A!ClientStep, A!StreamStep,
      A!CallOpen, A!Read, A!Write, A!CloseFirst, A!CloseAgain, A!WriteSend, A!CloseForget,
      A!CloseTell, A!linkVars
<1> QED  BY <1>1, <1>3, <1>4, <1>5, <1>6, SameLink DEF A!AgentStep
----------------------------------------------------------------------------
(* What a step of the server does to its handlers and targets. *)

HandlerTurn(w) ==
  \/ hpc'[w] = hpc[w] /\ hid'[w] = hid[w]
  \/ hpc[w] = "dial" /\ hpc'[w] = "reply" /\ hid'[w] = hid[w]
  \/ /\ hpc[w] \in {"dial", "reply"} /\ hpc'[w] = "recv" /\ hid'[w] = NoID
     /\ \E ok \in BOOLEAN : S!TrySend(w, OpenResp(hid[w], ok))
  \/ hpc[w] = "failDelete" /\ hpc'[w] = "failTell" /\ hid'[w] = hid[w]
  \/ /\ hpc[w] = "failTell" /\ hpc'[w] = "recv" /\ hid'[w] = NoID
     /\ S!TrySend(w, Close(hid[w]))
  \/ hpc[w] = "delete" /\ hpc'[w] = "recv" /\ hid'[w] = NoID
  \/ /\ hpc[w] = "recv" /\ authed[w] /\ hid'[w] \in ID
     /\ \/ hpc'[w] = "dial" /\ OpenAt(w, 1, hid'[w])
        \/ hpc'[w] = "failDelete" /\ InUp(w, 1, "data", hid'[w]) /\ sock'[hid'[w]] = "closed"
        \/ hpc'[w] = "delete" /\ InUp(w, 1, "close", hid'[w]) /\ sock'[hid'[w]] = "closed"
  \/ /\ hpc[w] \in {"recv", "leave", "closeAll"}
     /\ hpc'[w] \in {"leave", "closeAll", "stuck", "gone"} /\ hid'[w] = NoID
SockTurn(id) ==
  \/ sock'[id] = sock[id] /\ home'[id] = home[id]
  \/ sock'[id] = "open" /\ \E w \in Conn : Dialling(w, id) /\ home'[id] = w
  \/ /\ sock'[id] = "closed" /\ sock[id] # "none" /\ home'[id] = home[id]
     /\ \/ \E w \in Conn : InUp(w, 1, "close", id)
        \/ hid'[home[id]] = id /\ hpc'[home[id]] = "failDelete"
        \/ hpc[home[id]] = "closeAll"
        \/ pipe'[id] = "delete"
        \/ pipe[id] = "abort"
PipeTurn(id) ==
  \/ pipe'[id] = pipe[id]
  \/ pipe[id] \notin {"delete", "tell"} /\ pipe'[id] \notin {"abort", "abortDelete"}
  \/ pipe[id] = "delete" /\ pipe'[id] = "tell"
  \/ pipe[id] = "tell" /\ pipe'[id] = "exit" /\ S!TrySend(home[id], Close(id))
  \/ pipe[id] = "send" /\ pipe'[id] = "abort" /\ S!DownSendBroken(home[id])
  \/ pipe[id] = "abort" /\ pipe'[id] = "abortDelete"
ServerPath == /\ \A w \in Conn : HandlerTurn(w) /\ (authed[w] => authed'[w])
              /\ \A id \in ID : SockTurn(id) /\ PipeTurn(id)

\* Where one handler goes leaves the others where they are.
LEMMA GotoTurn ==
  ASSUME SP!IInv, NEW w \in Conn, NEW pc, NEW id, S!HandlerGoto(w, pc, id)
  PROVE  /\ hpc'[w] = pc /\ hid'[w] = id
         /\ \A v \in Conn \ {w} : hpc'[v] = hpc[v] /\ hid'[v] = hid[v]
BY ServerFacts DEF S!HandlerGoto

\* Taking a message, one step.
LEMMA MessagePath ==
  ASSUME SP!IInv, Glue, NEW w \in Conn, S!HandleMessage(w)
  PROVE  ServerPath
<1> DEFINE m == Head(up[w])
<1>1. /\ hpc[w] = "recv" /\ m \in Messages
      /\ 1 \in 1 .. Len(up[w]) /\ up[w][1] = m
      /\ m.type \in {"data", "close"} => m.id \in ID
      /\ m.type = "open" => m.id \in ID /\ m = Open(m.id)
  BY TakenMessage
<1>2. UNCHANGED <<home, pipe>>
  BY DEF S!HandleMessage, S!Unauthorized, S!AuthRefused, S!Authenticate, S!HandleOpen,
         S!HandleClose, S!HandleDataUnknown, S!HandleData, S!HandleDataFails, S!HandlePing,
         S!HandlePong, S!HandleUnknown, S!targetVars
<1>3. \A id \in ID : PipeTurn(id)
  BY <1>2 DEF PipeTurn
<1>4. \A v \in Conn : authed[v] => authed'[v]
  <2>1. authed' = authed \/ authed' = [authed EXCEPT ![w] = TRUE]
    BY DEF S!HandleMessage, S!Unauthorized, S!AuthRefused, S!Authenticate, S!HandleOpen,
           S!HandleClose, S!HandleDataUnknown, S!HandleData, S!HandleDataFails, S!HandlePing,
           S!HandlePong, S!HandleUnknown, S!sessionVars
  <2> QED  BY <2>1, TargetFacts
<1>5. ASSUME NEW pc, NEW id, S!HandlerGoto(w, pc, id), HandlerTurn(w)
      PROVE  \A v \in Conn : HandlerTurn(v)
  BY <1>5, GotoTurn DEF HandlerTurn
<1>6. CASE UNCHANGED <<hpc, hid, sock>>
  <2>1. \A v \in Conn : HandlerTurn(v)
    BY <1>6 DEF HandlerTurn
  <2>2. \A id \in ID : SockTurn(id)
    BY <1>2, <1>6 DEF SockTurn
  <2> QED  BY <1>3, <1>4, <2>1, <2>2 DEF ServerPath
<1>7. CASE S!Unauthorized(w, m) \/ S!AuthRefused(w, m)
  <2>1. S!HandlerGoto(w, "leave", NoID) /\ UNCHANGED sock
    BY <1>7 DEF S!Unauthorized, S!AuthRefused, S!targetVars
  <2>2. HandlerTurn(w)
    BY <1>1, <2>1, GotoTurn DEF HandlerTurn
  <2>3. \A id \in ID : SockTurn(id)
    BY <1>2, <2>1 DEF SockTurn
  <2> QED  BY <1>3, <1>4, <1>5, <2>1, <2>2, <2>3 DEF ServerPath
<1>8. CASE S!HandleOpen(w, m)
  <2>1. S!HandlerGoto(w, "dial", m.id) /\ UNCHANGED sock /\ authed[w] /\ m.type = "open"
    BY <1>8 DEF S!HandleOpen, S!targetVars
  <2>2. hpc'[w] = "dial" /\ hid'[w] = m.id
    BY <2>1, GotoTurn
  <2>3. OpenAt(w, 1, m.id) /\ m.id \in ID
    BY <1>1, <2>1 DEF OpenAt
  <2>4. HandlerTurn(w)
    BY <1>1, <2>1, <2>2, <2>3 DEF HandlerTurn
  <2>5. \A id \in ID : SockTurn(id)
    BY <1>2, <2>1 DEF SockTurn
  <2> QED  BY <1>3, <1>4, <1>5, <2>1, <2>4, <2>5 DEF ServerPath
<1>9. CASE S!HandleDataFails(w, m) \/ (S!HandleClose(w, m) /\ m.id \in conns[w])
  <2>1. PICK pc \in {"failDelete", "delete"} :
          /\ S!HandlerGoto(w, pc, m.id) /\ authed[w] /\ m.id \in conns[w]
          /\ pc = "failDelete" => m.type = "data"
          /\ pc = "delete" => m.type = "close"
          /\ sock' = [sock EXCEPT ![m.id] = "closed"]
    BY <1>9 DEF S!HandleDataFails, S!HandleClose
  <2>2. hpc'[w] = pc /\ hid'[w] = m.id /\ m.id \in ID
    BY <1>1, <2>1, GotoTurn
  <2>3. home[m.id] = w /\ sock[m.id] # "none" /\ sock'[m.id] = "closed"
    BY <2>1, <2>2, ServerFacts
  <2>4. InUp(w, 1, m.type, m.id)
    BY <1>1 DEF InUp
  <2>5. HandlerTurn(w)
    BY <1>1, <2>1, <2>2, <2>3, <2>4 DEF HandlerTurn
  <2>6. SockTurn(m.id)
    BY <1>2, <2>1, <2>2, <2>3, <2>4 DEF SockTurn
  <2>7. ASSUME NEW id \in ID, id # m.id
        PROVE  SockTurn(id)
    <3>1. sock'[id] = sock[id]
      BY <2>1, <2>7, ServerFacts
    <3> QED  BY <1>2, <3>1 DEF SockTurn
  <2> QED  BY <1>3, <1>4, <1>5, <2>1, <2>5, <2>6, <2>7 DEF ServerPath
<1> QED
  BY <1>6, <1>7, <1>8, <1>9
  DEF S!HandleMessage, S!Authenticate, S!HandleClose, S!HandleDataUnknown, S!HandleData,
      S!HandlePing, S!HandlePong, S!HandleUnknown, S!sessionVars, S!targetVars

\* Any step of a handler.
LEMMA HandlerPath ==
  ASSUME SP!IInv, Glue, NEW w \in Conn,
         S!HandlerStep(w) \/ S!Tick(w) \/ S!PingDone(w)
  PROVE  ServerPath
<1>1. CASE S!HandleMessage(w)
  BY <1>1, MessagePath
<1>2. ASSUME NEW pc, NEW id, S!HandlerGoto(w, pc, id), HandlerTurn(w)
      PROVE  \A v \in Conn : HandlerTurn(v)
  BY <1>2, GotoTurn DEF HandlerTurn
<1>3. ASSUME UNCHANGED <<sock, home>>
      PROVE  \A id \in ID : SockTurn(id)
  BY <1>3 DEF SockTurn
<1>4. ASSUME UNCHANGED pipe
      PROVE  \A id \in ID : PipeTurn(id)
  BY <1>4 DEF PipeTurn
<1>5. CASE \/ S!ReceiveError(w) \/ S!FailDelete(w) \/ S!CloseDelete(w)
           \/ S!LeaveLoop(w) \/ S!CloseNone(w)
  <2>1. UNCHANGED <<authed, sock, home, pipe>>
    BY <1>5 DEF S!ReceiveError, S!FailDelete, S!CloseDelete, S!LeaveLoop, S!CloseNone, S!targetVars
  <2>2. PICK pc, id :
          /\ S!HandlerGoto(w, pc, id)
          /\ \/ hpc[w] \in {"recv", "leave", "closeAll"} /\ pc \in {"leave", "closeAll", "gone"} /\ id = NoID
             \/ hpc[w] = "failDelete" /\ pc = "failTell" /\ id = hid[w]
             \/ hpc[w] = "delete" /\ pc = "recv" /\ id = NoID
    BY <1>5 DEF S!ReceiveError, S!FailDelete, S!CloseDelete, S!LeaveLoop, S!CloseNone
  <2>3. HandlerTurn(w)
    BY <2>2, GotoTurn DEF HandlerTurn
  <2> QED  BY <1>2, <1>3, <1>4, <2>1, <2>2, <2>3 DEF ServerPath
<1>6. CASE S!DialFails(w) \/ S!FailTell(w)
  <2>1. UNCHANGED <<authed, sock, home, pipe>> /\ S!HandlerGoto(w, "recv", NoID)
    BY <1>6 DEF S!DialFails, S!FailTell, S!targetVars
  <2>2. \/ hpc[w] = "dial" /\ S!TrySend(w, OpenResp(hid[w], FALSE))
        \/ hpc[w] = "failTell" /\ S!TrySend(w, Close(hid[w]))
    BY <1>6, SameMessages DEF S!DialFails, S!FailTell
  <2>3. HandlerTurn(w)
    BY <2>1, <2>2, GotoTurn DEF HandlerTurn
  <2> QED  BY <1>2, <1>3, <1>4, <2>1, <2>3 DEF ServerPath
<1>7. CASE S!DialSucceeds(w)
  <2>1. /\ UNCHANGED <<authed, pipe>> /\ S!HandlerGoto(w, "reply", hid[w]) /\ hpc[w] = "dial"
        /\ sock' = [sock EXCEPT ![hid[w]] = "open"] /\ home' = [home EXCEPT ![hid[w]] = w]
    BY <1>7 DEF S!DialSucceeds
  <2>2. HandlerTurn(w)
    BY <2>1, GotoTurn DEF HandlerTurn
  <2>3. ASSUME NEW id \in ID
        PROVE  SockTurn(id)
    <3>1. CASE id = hid[w]
      BY <2>1, <3>1, ServerFacts DEF SockTurn, Dialling
    <3>2. CASE id # hid[w]
      <4>1. sock'[id] = sock[id] /\ home'[id] = home[id]
        BY <2>1, <3>2, ServerFacts
      <4> QED  BY <4>1 DEF SockTurn
    <3> QED  BY <3>1, <3>2
  <2> QED  BY <1>2, <1>4, <2>1, <2>2, <2>3 DEF ServerPath
<1>8. CASE S!ReplyOpened(w)
  <2>1. /\ UNCHANGED <<authed, sock, home>> /\ S!HandlerGoto(w, "recv", NoID) /\ hpc[w] = "reply"
        /\ S!TrySend(w, OpenResp(hid[w], TRUE)) /\ pipe' = [pipe EXCEPT ![hid[w]] = "read"]
    BY <1>8, SameMessages DEF S!ReplyOpened
  <2>2. HandlerTurn(w)
    BY <2>1, GotoTurn DEF HandlerTurn
  <2>3. pipe[hid[w]] = "off" /\ hid[w] \in ID
    <3>1. hid[w] \in ID
      BY <2>1, ServerFacts
    <3> QED  BY <2>1, <3>1 DEF SP!IInv, SP!HandlerInHand, SP!Conn, Conn
  <2>4. ASSUME NEW id \in ID
        PROVE  PipeTurn(id)
    <3>1. pipe'[id] = IF id = hid[w] THEN "read" ELSE pipe[id]
      BY <2>1, ServerFacts
    <3> QED  BY <2>3, <3>1 DEF PipeTurn
  <2> QED  BY <1>2, <1>3, <2>1, <2>2, <2>4 DEF ServerPath
<1>9. CASE S!CloseAllStuck(w)
  <2>1. PICK x \in conns[w] : sock' = [sock EXCEPT ![x] = "closed"]
    BY <1>9 DEF S!CloseAllStuck
  <2>2. UNCHANGED <<authed, home, pipe>> /\ S!HandlerGoto(w, "stuck", NoID) /\ hpc[w] = "closeAll"
    BY <1>9 DEF S!CloseAllStuck
  <2>3. HandlerTurn(w)
    BY <2>2, GotoTurn DEF HandlerTurn
  <2>4. x \in ID /\ home[x] = w /\ sock[x] # "none"
    BY <2>1, ServerFacts
  <2>5. ASSUME NEW id \in ID
        PROVE  SockTurn(id)
    <3>1. sock'[id] = IF id = x THEN "closed" ELSE sock[id]
      BY <2>1, ServerFacts
    <3> QED  BY <2>2, <2>4, <3>1 DEF SockTurn
  <2> QED  BY <1>2, <1>4, <2>2, <2>3, <2>5 DEF ServerPath
<1>10. CASE S!Tick(w) \/ S!PingDone(w)
  <2>1. UNCHANGED <<hpc, hid, authed, sock, home, pipe>>
    BY <1>10 DEF S!Tick, S!PingDone, S!targetVars
  <2>2. \A v \in Conn : HandlerTurn(v)
    BY <2>1 DEF HandlerTurn
  <2> QED  BY <1>3, <1>4, <2>1, <2>2 DEF ServerPath
<1> QED  BY <1>1, <1>5, <1>6, <1>7, <1>8, <1>9, <1>10 DEF S!HandlerStep

\* A step of a pipe.
LEMMA PipePath ==
  ASSUME SP!IInv, NEW x \in ID, S!PipeStep(x)
  PROVE  ServerPath
<1>1. UNCHANGED <<hpc, hid, authed, home>>
  BY DEF S!PipeStep, S!PipeRead, S!PipeSend, S!PipeEnds, S!PipeClose, S!PipeDelete, S!PipeTell,
         S!sessionVars
<1>2. \A w \in Conn : HandlerTurn(w) /\ (authed[w] => authed'[w])
  BY <1>1 DEF HandlerTurn
<1>3. pipe[x] # "off" /\ sock[x] # "none"
  <2>1. pipe[x] # "off"
    BY DEF S!PipeStep, S!PipeRead, S!PipeSend, S!PipeEnds, S!PipeClose, S!PipeDelete, S!PipeTell
  <2> QED  BY <2>1, ServerFacts
<1>4. /\ PipeTurn(x) /\ \A id \in ID \ {x} : pipe'[id] = pipe[id]
      /\ \/ UNCHANGED sock
         \/ /\ sock' = [sock EXCEPT ![x] = "closed"]
            /\ pipe'[x] = "delete" \/ pipe[x] = "abort"
  BY ServerFacts, SameMessages
  DEF S!PipeStep, S!PipeRead, S!PipeSend, S!PipeEnds, S!PipeClose, S!PipeDelete, S!PipeTell,
      S!PipeGoto, S!SendFails, PipeTurn
<1>5. ASSUME NEW id \in ID
      PROVE  SockTurn(id)
  <2>1. CASE sock'[id] = sock[id]
    BY <1>1, <2>1 DEF SockTurn
  <2>2. CASE sock'[id] # sock[id]
    <3>1. id = x /\ sock'[x] = "closed" /\ (pipe'[x] = "delete" \/ pipe[x] = "abort")
      BY <1>4, <2>2, ServerFacts
    <3> QED  BY <1>1, <1>3, <3>1 DEF SockTurn
  <2> QED  BY <2>1, <2>2
<1>6. \A id \in ID : PipeTurn(id)
  BY <1>4 DEF PipeTurn
<1> QED  BY <1>2, <1>5, <1>6 DEF ServerPath

\* Any step of the server.
LEMMA ServerWay ==
  ASSUME SP!IInv, Glue, S!ServerStep
  PROVE  ServerPath
BY HandlerPath, PipePath, SameLink DEF S!ServerStep

\* The message that is taken from a connection is handled.
LEMMA TakeIsHandled ==
  ASSUME SP!IInv, Glue, S!ServerStep, NEW v \in Conn, TakeUp(v)
  PROVE  S!HandleMessage(v)
<1>1. LinkTypeOK /\ serverEnd[v] = "open" /\ up'[v] # up[v]
  <2>1. Len(up'[v]) = Len(up[v]) - 1
    BY ServerFacts, TakeUpContents
  <2>2. Len(up[v]) \in Nat
    BY ServerFacts, LenProperties DEF LinkTypeOK
  <2>3. up'[v] # up[v]
    BY <2>1, <2>2
  <2> QED  BY <2>3, ServerFacts DEF TakeUp
<1>2. ASSUME NEW w \in Conn, S!HandleMessage(w)
      PROVE  w = v
  BY <1>1, <1>2, TakenMessage, TakeUpContents
<1>3. ASSUME NEW w \in Conn, S!CloseNone(w)
      PROVE  FALSE
  <2>1. hpc[w] = "closeAll" /\ up' = [up EXCEPT ![w] = <<>>]
    BY <1>3 DEF S!CloseNone
  <2>2. serverEnd[w] = "leaving"
    BY <2>1 DEF Glue, EndsFit
  <2> QED  BY <1>1, <2>1, <2>2 DEF LinkTypeOK
<1>4. ASSUME NEW w \in Conn, S!HandlerStep(w) \/ S!Tick(w) \/ S!PingDone(w)
      PROVE  S!HandleMessage(w) \/ S!CloseNone(w) \/ UNCHANGED up
  BY <1>4 DEF S!HandlerStep, S!ReceiveError, S!DialFails, S!DialSucceeds, S!ReplyOpened,
              S!FailDelete, S!FailTell, S!CloseDelete, S!LeaveLoop, S!CloseAllStuck, S!Tick,
              S!PingDone, S!linkVars
<1>5. ASSUME NEW x \in ID, S!PipeStep(x)
      PROVE  UNCHANGED up
  BY <1>5 DEF S!PipeStep, S!PipeRead, S!PipeSend, S!PipeEnds, S!PipeClose, S!PipeDelete,
              S!PipeTell, S!linkVars
<1> QED  BY <1>1, <1>2, <1>3, <1>4, <1>5, SameLink DEF S!ServerStep

\* An open or a close that is taken from a connection has its effect.
LEMMA TakeActs ==
  ASSUME SP!IInv, Glue, S!ServerStep, NEW w \in Conn, TakeUp(w), NEW id \in ID
  PROVE  /\ OpenAt(w, 1, id) => hid'[w] = id \/ hpc'[w] = "leave"
         /\ (InUp(w, 1, "close", id) /\ authed[w] /\ id \in conns[w]) =>
              sock'[id] = "closed" /\ hpc'[w] = "delete"
<1> DEFINE m == Head(up[w])
<1>1. S!HandleMessage(w) /\ up[w][1] = m
  BY TakeIsHandled, TakenMessage
<1>2. ASSUME OpenAt(w, 1, id)
      PROVE  hid'[w] = id \/ hpc'[w] = "leave"
  <2>1. m.type = "open" /\ m.id = id
    BY <1>1, <1>2 DEF OpenAt, Open, Message
  <2>2. S!Unauthorized(w, m) \/ S!HandleOpen(w, m)
    BY <1>1, <2>1
    DEF S!HandleMessage, S!AuthRefused, S!Authenticate, S!HandleClose, S!HandleDataUnknown,
        S!HandleData, S!HandleDataFails, S!HandlePing, S!HandlePong, S!HandleUnknown
  <2>3. S!HandlerGoto(w, "leave", NoID) \/ S!HandlerGoto(w, "dial", m.id)
    BY <2>2 DEF S!Unauthorized, S!HandleOpen
  <2> QED  BY <2>1, <2>3, GotoTurn
<1>3. ASSUME InUp(w, 1, "close", id), authed[w], id \in conns[w]
      PROVE  sock'[id] = "closed" /\ hpc'[w] = "delete"
  <2>1. m.type = "close" /\ m.id = id
    BY <1>1, <1>3 DEF InUp
  <2>2. S!HandleClose(w, m)
    BY <1>1, <1>3, <2>1
    DEF S!HandleMessage, S!Unauthorized, S!AuthRefused, S!Authenticate, S!HandleOpen,
        S!HandleDataUnknown, S!HandleData, S!HandleDataFails, S!HandlePing, S!HandlePong,
        S!HandleUnknown
  <2>3. S!HandlerGoto(w, "delete", m.id) /\ sock' = [sock EXCEPT ![m.id] = "closed"]
    BY <1>3, <2>1, <2>2 DEF S!HandleClose
  <2> QED  BY <2>1, <2>3, GotoTurn, ServerFacts
<1> QED  BY <1>2, <1>3
----------------------------------------------------------------------------
(* What a step of the agent does to its connection and its pending opens. *)

RunGoes == \/ runPc' = runPc
           \/ runPc \in Attached \cup {"dial"} /\ runPc' \in Attached
           \/ runPc = "failPending" /\ (pending = {} \/ runPc' = "stuckPending")
           \/ /\ runPc \notin Attached \cup {"failPending", "stuckPending"} /\ A!StreamsFree
              /\ runPc' \notin Attached
RunTurn ==
  \/ UNCHANGED <<ws, agentEnd>> /\ RunGoes
  \/ UNCHANGED ws /\ CloseAgentEnd(ws) /\ runPc \in Attached /\ runPc' = "detach"
  \/ /\ runPc = "detach" /\ runPc' = "failPending" /\ ws' = 0
     /\ IF ws = 0 THEN UNCHANGED agentEnd ELSE CloseAgentEnd(ws)
  \/ /\ runPc = "dial" /\ runPc' = "sendAuth"
     /\ \E w \in Conn : DialOpens(w) /\ ws' = w

\* Only Run dials, and only Run leaves a connection.
LEMMA RunTurns ==
  ASSUME AP!IInv, A!AgentStep
  PROVE  RunTurn
<1>1. CASE \/ A!RunTop \/ A!DialFails \/ A!SendAuth \/ A!RecvAuthOk \/ A!ServeError
           \/ A!ServeCancelled \/ A!FailNonePending \/ A!FailPendingStuck \/ A!CloseNoStreams
           \/ A!CloseStreamsStuck \/ A!Backoff
  <2>1. UNCHANGED <<ws, agentEnd>>
    BY <1>1
    DEF A!RunTop, A!DialFails, A!SendAuth, A!RecvAuthOk, A!ServeError, A!ServeCancelled,
        A!FailNonePending, A!FailPendingStuck, A!CloseNoStreams, A!CloseStreamsStuck, A!Backoff,
        A!linkVars
  <2>2. RunGoes
    BY <1>1
    DEF A!RunTop, A!DialFails, A!SendAuth, A!RecvAuthOk, A!ServeError, A!ServeCancelled,
        A!FailNonePending, A!FailPendingStuck, A!CloseNoStreams, A!CloseStreamsStuck, A!Backoff,
        A!Goto, RunGoes, Attached, A!StreamsFree
  <2> QED  BY <2>1, <2>2 DEF RunTurn
<1>2. CASE A!SendAuthFails \/ A!RecvAuthRefused \/ A!Detach
  BY <1>2, SameLink DEF A!SendAuthFails, A!RecvAuthRefused, A!Detach, A!Goto, RunTurn, Attached
<1>3. ASSUME NEW w \in Conn, A!DialAttach(w)
      PROVE  RunTurn
  BY <1>3, SameLink DEF A!DialAttach, A!Goto, RunTurn
<1>4. CASE UNCHANGED <<runPc, ws, agentEnd>>
  BY <1>4 DEF RunTurn, RunGoes
<1>5. ASSUME NEW g \in Conn, A!ReaderStep(g) \/ A!PingerStep(g)
      PROVE  UNCHANGED <<runPc, ws, agentEnd>>
  BY <1>5
  DEF A!ReaderStep, A!PingerStep, A!ReadTop, A!ReadError, A!ReadMessage, A!ReadOpenResp,
      A!ReadData, A!ReadClose, A!ReadPing, A!ReadOther, A!PushQueue, A!PushClosed, A!DropStream,
      A!Pong, A!ReadExit, A!PingTick, A!PingCancelled, A!PingExit, A!linkVars, A!runVars
<1>6. ASSUME NEW id \in ID, A!OpenStep(id) \/ A!ClientStep(id) \/ A!StreamStep(id)
      PROVE  UNCHANGED <<runPc, ws, agentEnd>>
  BY <1>6
  DEF A!OpenStep, A!RegisterStream, A!RegisterPending, A!SendOpen, A!UndoPending, A!UndoStream,
      A!OpenAnswered, A!OpenTimesOut, A!ForgetStream, A!TellRefused, A!ClientStep, A!StreamStep,
      A!CallOpen, A!Read, A!Write, A!CloseFirst, A!CloseAgain, A!WriteSend, A!CloseForget,
      A!CloseTell, A!linkVars, A!runVars
<1>7. A!Cancel => UNCHANGED <<runPc, ws, agentEnd>>
  BY DEF A!Cancel, A!linkVars
<1> QED  BY <1>1, <1>2, <1>3, <1>4, <1>5, <1>6, <1>7, SameLink DEF A!AgentStep, A!RunStep

\* An open stays pending until it is answered, times out or Run gives up.
LEMMA PendingKept ==
  ASSUME AP!IInv, RunFits, A!AgentStep
  PROVE  \A id \in ID : op'[id] \in {"sending", "waiting"} => id \in pending'
<1>1. CASE UNCHANGED <<op, pending>>
  BY <1>1 DEF RunFits
<1>2. ASSUME NEW g \in Conn, A!ReaderStep(g) \/ A!PingerStep(g)
      PROVE  UNCHANGED <<op, pending>>
  BY <1>2
  DEF A!ReaderStep, A!PingerStep, A!ReadTop, A!ReadError, A!ReadMessage, A!ReadOpenResp,
      A!ReadData, A!ReadClose, A!ReadPing, A!ReadOther, A!PushQueue, A!PushClosed, A!DropStream,
      A!Pong, A!ReadExit, A!PingTick, A!PingCancelled, A!PingExit, A!streamVars, A!mapVars
<1>3. A!RunStep \/ A!Cancel => UNCHANGED <<op, pending>>
  BY DEF A!RunStep, A!Cancel, A!RunTop, A!DialAttach, A!DialFails, A!SendAuth, A!SendAuthFails,
         A!RecvAuthOk, A!RecvAuthRefused, A!ServeError, A!ServeCancelled, A!Detach,
         A!FailNonePending, A!FailPendingStuck, A!CloseNoStreams, A!CloseStreamsStuck, A!Backoff,
         A!streamVars, A!mapVars
<1>4. ASSUME NEW x \in ID, A!OpenStep(x) \/ A!ClientStep(x) \/ A!StreamStep(x)
      PROVE  \A id \in ID : op'[id] \in {"sending", "waiting"} => id \in pending'
  <2>1. CASE \/ A!UndoPending(x) \/ A!OpenAnswered(x) \/ A!OpenTimesOut(x)
    <3>1. pending' = pending \ {x} /\ \E pc \in {"undoStream", "open", "forget"} : A!OpGoto(x, pc)
      BY <2>1 DEF A!UndoPending, A!OpenAnswered, A!OpenTimesOut
    <3> QED  BY <3>1, AgentFacts DEF A!OpGoto, RunFits
  <2>2. CASE A!RegisterPending(x)
    BY <2>2, AgentFacts DEF A!RegisterPending, A!OpGoto, RunFits
  <2>3. CASE A!SendOpen(x)
    BY <2>3, AgentFacts DEF A!SendOpen, A!OpGoto, RunFits, A!mapVars
  <2>4. CASE \/ A!CallOpen(x) \/ A!RegisterStream(x) \/ A!UndoStream(x) \/ A!ForgetStream(x)
             \/ A!TellRefused(x) \/ A!CloseFirst(x) \/ A!CloseAgain(x) \/ A!CloseForget(x)
             \/ A!CloseTell(x)
    <3>1. /\ UNCHANGED pending
          /\ \E pc \in {"called", "registered", "failed", "tell", "closing", "closed", "closeTell"} :
               A!OpGoto(x, pc)
      BY <2>4
      DEF A!CallOpen, A!RegisterStream, A!UndoStream, A!ForgetStream, A!TellRefused, A!CloseFirst,
          A!CloseAgain, A!CloseForget, A!CloseTell, A!mapVars
    <3> QED  BY <3>1, AgentFacts DEF A!OpGoto, RunFits
  <2>5. CASE A!Read(x) \/ A!Write(x) \/ A!WriteSend(x)
    BY <1>1, <2>5 DEF A!Read, A!Write, A!WriteSend, A!mapVars
  <2> QED
    BY <1>4, <2>1, <2>2, <2>3, <2>4, <2>5 DEF A!OpenStep, A!ClientStep, A!StreamStep
<1> QED  BY <1>1, <1>2, <1>3, <1>4, SameLink DEF A!AgentStep

\* What is said, by its type.
LEMMA SaidWhat ==
  /\ \A msg, id : AgentSays(msg) /\ msg = Open(id) => op[id] = "sending" /\ op'[id] = "waiting"
  /\ \A msg : AgentSays(msg) /\ msg.type = "data" => wr[msg.id] = "send"
  /\ \A msg : AgentSays(msg) /\ msg.type = "close" => op'[msg.id] \in {"failed", "closed"}
  /\ \A w, msg : ServerSays(w, msg) /\ msg.type = "open_resp" /\ msg.ok =>
       hid[w] = msg.id /\ hpc[w] = "reply"
  /\ \A w, msg : ServerSays(w, msg) /\ msg.type = "close" =>
       \/ hid[w] = msg.id /\ hpc[w] = "failTell"
       \/ home[msg.id] = w /\ pipe[msg.id] = "tell"
       \/ msg.id \notin conns[w] /\ InUp(w, 1, "data", msg.id)
BY DEF AgentSays, ServerSays, AuthResp, Control, Open, OpenResp, Data, Close, Message

----------------------------------------------------------------------------
(* What stays as it is. *)

\* The ends of a connection are opened once and closed once.
LEMMA DeadStays ==
  ASSUME IInv, Agent \/ Server \/ Network, NEW w \in Conn
  PROVE  /\ Dead(w) => Dead(w)'
         /\ (agentEnd[w])' = "none" => agentEnd[w] = "none"
<1>1. LinkTypeOK /\ EndsFit
  BY AgentFacts DEF IInv, Glue
<1>2. CASE Agent
  <2>1. AgentMove
    BY <1>2, AgentMoves DEF Agent, IInv, Glue
  <2>2. ASSUME NEW v \in Conn, DialOpens(v), UNCHANGED cut
        PROVE  /\ Dead(w) => Dead(w)'
               /\ agentEnd'[w] = "none" => agentEnd[w] = "none"
    <3>1. /\ agentEnd'[w] = IF w = v THEN "open" ELSE agentEnd[w]
          /\ serverEnd'[w] = IF w = v THEN "open" ELSE serverEnd[w]
          /\ agentEnd[v] = "none" /\ serverEnd[v] = "none"
      BY <1>1, <2>2 DEF DialOpens, LinkTypeOK, EndsFit
    <3> QED  BY <2>2, <3>1 DEF Dead
  <2>3. ASSUME CloseAgentEnd(ws), UNCHANGED <<serverEnd, cut>>
        PROVE  /\ Dead(w) => Dead(w)'
               /\ agentEnd'[w] = "none" => agentEnd[w] = "none"
    <3>1. agentEnd'[w] = IF w = ws THEN "closed" ELSE agentEnd[w]
      BY <1>1, <2>3 DEF CloseAgentEnd, LinkTypeOK
    <3> QED  BY <2>3, <3>1 DEF Dead
  <2>4. CASE UNCHANGED <<agentEnd, serverEnd, cut>>
    BY <2>4 DEF Dead
  <2> QED
    BY <2>1, <2>2, <2>3, <2>4 DEF AgentMove, Dials, TakesOne, SendsUp, HangsUp, linkVars
<1>3. CASE Server
  <2>1. ServerMove
    BY <1>3, ServerMoves DEF Server, IInv
  <2>2. ASSUME NEW v \in Conn, Leaves(v) \/ Closes(v)
        PROVE  /\ Dead(w) => Dead(w)'
               /\ agentEnd'[w] = "none" => agentEnd[w] = "none"
    <3>1. /\ w = v => serverEnd'[w] \in {"leaving", "closed"}
          /\ w # v => serverEnd'[w] = serverEnd[w]
          /\ UNCHANGED <<agentEnd, cut>>
      BY <1>1, <2>2 DEF Leaves, Closes, LinkTypeOK
    <3> QED  BY <3>1 DEF Dead
  <2>3. CASE UNCHANGED <<agentEnd, serverEnd, cut>>
    BY <2>3 DEF Dead
  <2> QED  BY <2>1, <2>2, <2>3 DEF ServerMove, Talks, linkVars
<1>4. CASE Network
  <2>1. PICK v \in Conn : Break(v)
    BY <1>4 DEF Network
  <2>2. cut[w] => cut'[w]
    BY <1>1, <2>1 DEF Break, LinkTypeOK
  <2>3. UNCHANGED <<agentEnd, serverEnd>>
    BY <2>1 DEF Break
  <2> QED  BY <2>2, <2>3 DEF Dead
<1> QED  BY <1>2, <1>3, <1>4

\* What is over stays over.
LEMMA OverStays ==
  ASSUME IInv, Agent \/ Server \/ Network, NEW id \in ID, Over(id)
  PROVE  Over(id)'
<1>1. AP!IInv /\ SP!IInv /\ Glue /\ UnsentIsUnknown
  BY DEF IInv, Glue
<1>2. \A w \in Conn : Dead(w) => Dead(w)'
  BY DeadStays
<1>3. CASE Agent
  <2>1. AgentMove /\ A!AgentStep /\ UNCHANGED <<hpc, hid, home, sock>>
    BY <1>1, <1>3, AgentMoves DEF Agent, serverVars, Glue
  <2>2. op'[id] \notin Unsent
    BY <1>1, <2>1, AgentCounts DEF Over, Glue
  <2>3. ASSUME NEW w \in Conn, NEW i \in Nat, OpenAt(w, i, id)'
        PROVE  OpenAt(w, i, id)
    <3>1. i \in 1 .. Len(up'[w]) /\ up'[w][i] = Open(id)
      BY <2>3 DEF OpenAt, Open, Message
    <3>2. op[id] # "sending"
      BY DEF Over, Unsent
    <3> QED  BY <1>1, <2>1, <3>1, <3>2, AgentUp, SaidWhat DEF OpenAt
  <2>4. \A w \in Conn : Held(w, id)' <=> Held(w, id)
    BY <2>1 DEF Held, Dialling
  <2> QED  BY <1>2, <2>2, <2>3, <2>4 DEF Over
<1>4. CASE Server
  <2>1. ServerMove /\ ServerPath /\ UNCHANGED op
    BY <1>1, <1>4, ServerMoves, ServerWay DEF Server, agentVars
  <2>2. ASSUME NEW w \in Conn, ~Dead(w)'
        PROVE  ~Held(w, id)' /\ \A i \in Nat : ~OpenAt(w, i, id)'
    <3>1. ~Held(w, id) /\ \A i \in Nat : ~OpenAt(w, i, id)
      BY <1>2, <2>2 DEF Over
    <3>2. ASSUME NEW i \in Nat, OpenAt(w, i, id)'
          PROVE  FALSE
      <4>1. i \in 1 .. Len(up'[w]) /\ up'[w][i] = Open(id)
        BY <3>2 DEF OpenAt, Open, Message
      <4>2. i + 1 \in Nat
        OBVIOUS
      <4> QED  BY <1>1, <2>1, <3>1, <4>1, <4>2, ServerUp DEF OpenAt
    <3>3. ~Dialling(w, id)'
      BY <2>1, <3>1 DEF ServerPath, HandlerTurn, Dialling, Held
    <3>4. ~(home'[id] = w /\ sock'[id] = "open")
      BY <2>1, <3>1 DEF ServerPath, SockTurn, Held
    <3> QED  BY <3>2, <3>3, <3>4 DEF Held
  <2> QED  BY <2>1, <2>2 DEF Over
<1>5. CASE Network
  <2>1. UNCHANGED <<up, op, hpc, hid, home, sock>>
    BY <1>5 DEF Network, Break, agentVars, serverVars
  <2> QED  BY <1>2, <2>1 DEF Over, Held, Dialling, OpenAt
<1> QED  BY <1>3, <1>4, <1>5
----------------------------------------------------------------------------
(* A step of the agent keeps the two sides agreed. *)

\* Where a message of a queue to the server, or to the agent, has come from.
LEMMA AgentSide ==
  ASSUME IInv, Agreed, Agent
  PROVE  /\ AP!IInv /\ SP!IInv /\ UnsentIsUnknown /\ EndsFit /\ LinkTypeOK
         /\ A!AgentStep /\ AgentMove /\ StreamPath /\ RunTurn
         /\ UNCHANGED <<hpc, hid, authed, conns, home, sock, pipe>>
         /\ \A w \in Conn : Dead(w) => Dead(w)'
         /\ \A id \in ID : Over(id) => Over(id)'
         /\ \A w \in Conn, id \in ID : Held(w, id)' <=> Held(w, id)
         /\ \A w \in Conn, id \in ID :
              (~Dead(w) /\ (Held(w, id) \/ \E i \in Nat : OpenAt(w, i, id))) => w = ws /\ Alive(w)
<1>1. AP!IInv /\ SP!IInv /\ UnsentIsUnknown /\ EndsFit /\ LinkTypeOK /\ A!AgentStep
  BY AgentFacts DEF IInv, Glue, Agent
<1>2. AgentMove /\ StreamPath /\ RunTurn
  BY <1>1, AgentMoves, AgentPath, RunTurns DEF IInv, Glue
<1>3. UNCHANGED <<hpc, hid, authed, conns, home, sock, pipe>>
  BY DEF Agent, serverVars
<1>4. /\ \A w \in Conn : Dead(w) => Dead(w)'
      /\ \A id \in ID : Over(id) => Over(id)'
  BY DeadStays, OverStays
<1>5. \A w \in Conn, id \in ID : Held(w, id)' <=> Held(w, id)
  BY <1>3 DEF Held, Dialling
<1>6. ASSUME NEW w \in Conn, NEW id \in ID, ~Dead(w),
             Held(w, id) \/ \E i \in Nat : OpenAt(w, i, id)
      PROVE  w = ws /\ Alive(w)
  <2>1. \/ up[w] # <<>> \/ hpc[w] # "recv" \/ \E x \in ID : home[x] = w
    BY <1>6, EmptySeq DEF Held, Dialling, OpenAt
  <2> QED  BY <1>1, <1>6, <2>1, LiveIsCurrent DEF Agreed
<1> QED  BY <1>1, <1>2, <1>3, <1>4, <1>5, <1>6

\* Which connection is in use, and what has not been used.
LEMMA AgentKeepsEnds ==
  ASSUME IInv, Agreed, Agent
  PROVE  Undialled' /\ AuthedFits' /\ RunFits'
<1>1. /\ AP!IInv /\ UnsentIsUnknown /\ EndsFit /\ LinkTypeOK /\ A!AgentStep
      /\ AgentMove /\ StreamPath /\ RunTurn
      /\ UNCHANGED <<hpc, hid, authed, home>>
  BY AgentSide
<1>2. Undialled'
  <2> SUFFICES ASSUME NEW w \in Conn, agentEnd'[w] = "none"
               PROVE  up'[w] = <<>> /\ down'[w] = <<>> /\ \A id \in ID : home'[id] # w
    BY DEF Undialled
  <2>1. agentEnd[w] = "none"
    BY DeadStays
  <2>2. up[w] = <<>> /\ down[w] = <<>> /\ \A id \in ID : home'[id] # w
    BY <1>1, <2>1 DEF Agreed, Undialled
  <2>3. CASE TakesOne
    <3>1. PICK v \in Conn : TakeDown(v)
      BY <2>3 DEF TakesOne
    <3>2. v # w
      BY <2>1, <3>1 DEF TakeDown
    <3>3. down'[w] = down[w] /\ UNCHANGED up
      BY <1>1, <2>3, <3>1, <3>2, TakeDownContents DEF TakesOne
    <3> QED  BY <2>2, <3>3
  <2>4. CASE SendsUp
    <3>1. PICK msg : AgentSays(msg) /\ SendUp(ws, msg)
      BY <2>4 DEF SendsUp
    <3>2. ws # w /\ ws \in Conn /\ msg \in Messages
      BY <1>1, <2>1, <2>4, <3>1, AgentSaysWell DEF SendUp, SendsUp
    <3>3. up'[w] = up[w] /\ UNCHANGED down
      BY <1>1, <2>4, <3>1, <3>2, SendUpContents DEF SendsUp
    <3> QED  BY <2>2, <3>3
  <2>5. CASE HangsUp
    BY <1>1, <2>1, <2>2, <2>5 DEF HangsUp, CloseAgentEnd, LinkTypeOK
  <2> QED  BY <1>1, <2>2, <2>3, <2>4, <2>5 DEF AgentMove, Dials, linkVars
<1>3. AuthedFits'
  BY <1>1 DEF Agreed, AuthedFits
<1>4. RunFits'
  <2>1. RunFits /\ 0 \notin Conn
    BY LinkAssumption DEF Agreed, Conn
  <2>2. ASSUME NEW w \in Conn, agentEnd'[w] = "open"
        PROVE  ws' = w
    <3>1. CASE UNCHANGED <<ws, agentEnd>>
      BY <2>1, <2>2, <3>1 DEF RunFits
    <3>2. CASE CloseAgentEnd(ws)
      <4>1. w # ws /\ agentEnd[w] = "open"
        BY <1>1, <2>2, <3>2 DEF CloseAgentEnd, LinkTypeOK
      <4> QED  BY <2>1, <4>1 DEF RunFits
    <3>3. CASE ws = 0 /\ UNCHANGED agentEnd
      BY <2>1, <2>2, <3>3 DEF RunFits
    <3>4. ASSUME NEW v \in Conn, runPc = "dial", DialOpens(v), ws' = v
          PROVE  ws' = w
      <4>1. ws = 0
        BY <2>1, <3>4 DEF RunFits, Attached
      <4>2. agentEnd[w] # "open"
        BY <2>1, <4>1 DEF RunFits
      <4>3. w = v
        BY <1>1, <2>2, <3>4, <4>2 DEF DialOpens, LinkTypeOK
      <4> QED  BY <3>4, <4>3
    <3> QED  BY <1>1, <3>1, <3>2, <3>3, <3>4 DEF RunTurn
  <2>3. ws' # 0 => runPc' \in Attached
    BY <1>1, <2>1 DEF RunFits, RunTurn, RunGoes, Attached
  <2>4. \A id \in ID : op'[id] \in {"sending", "waiting"} => id \in pending'
    BY <1>1, <2>1, PendingKept
  <2>5. ASSUME NEW id \in ID, op'[id] = "waiting"
        PROVE  runPc' \in Attached \cup {"failPending", "stuckPending"}
    <3>1. CASE op[id] = "waiting"
      <4>1. id \in pending /\ runPc \in Attached \cup {"failPending", "stuckPending"}
        BY <2>1, <3>1 DEF RunFits
      <4> QED  BY <1>1, <4>1 DEF RunTurn, RunGoes, Attached
    <3>2. CASE op[id] # "waiting"
      <4>1. A!Send(A!Open(id))
        BY <1>1, <2>5, <3>2 DEF StreamPath, OpMoves, Unsent
      <4>2. runPc \in Attached
        BY <2>1, <4>1 DEF A!Send, RunFits
      <4> QED  BY <1>1, <4>2 DEF RunTurn, RunGoes, Attached
    <3> QED  BY <3>1, <3>2
  <2> QED  BY <2>2, <2>3, <2>4, <2>5 DEF RunFits
<1> QED  BY <1>2, <1>3, <1>4

\* What is sent belongs to a stream that was dialled.
LEMMA AgentKeepsUse ==
  ASSUME IInv, Agreed, Agent
  PROVE  UsedIsDialled' /\ UpFits' /\ LateFits'
<1>1. /\ AP!IInv /\ SP!IInv /\ UnsentIsUnknown /\ EndsFit /\ LinkTypeOK
      /\ AgentMove /\ StreamPath
      /\ UNCHANGED <<hpc, hid, home, sock>>
      /\ \A w \in Conn : Dead(w) => Dead(w)'
      /\ UsedIsDialled /\ UpFits /\ LateFits
  BY AgentSide DEF Agreed
<1>2. /\ \A id \in ID : op[id] \in Used => op'[id] \in Used
      /\ \A id \in ID : op[id] \in {"failed", "closed"} => op'[id] \in {"failed", "closed"}
  BY <1>1 DEF StreamPath, OpMoves, Used, Unsent
<1>3. UsedIsDialled'
  <2>1. ASSUME NEW id \in ID, NEW w \in Conn, NEW i \in Nat,
               InDown(w, i, "open_resp", id)', down'[w][i].ok
        PROVE  sock'[id] # "none"
    <3>1. i \in 1 .. Len(down'[w]) /\ down'[w][i].type = "open_resp" /\ down'[w][i].id = id
      BY <2>1 DEF InDown
    <3>2. PICK j \in Nat : j \in 1 .. Len(down[w]) /\ down'[w][i] = down[w][j]
      BY <1>1, <3>1, AgentDown
    <3>3. InDown(w, j, "open_resp", id) /\ down[w][j].ok
      BY <2>1, <3>1, <3>2 DEF InDown
    <3> QED  BY <1>1, <3>3 DEF UsedIsDialled
  <2>2. ASSUME NEW id \in ID
        PROVE  /\ op'[id] \in Used \/ result'[id] = "ok" => sock'[id] # "none"
               /\ wr'[id] = "send" => op'[id] \in Used
    <3>1. CASE result'[id] = "ok"
      <4>1. result[id] = "ok" \/ HearsYes(id)
        BY <1>1, <3>1 DEF StreamPath, ResultMoves
      <4>2. sock[id] # "none"
        BY <1>1, <4>1 DEF UsedIsDialled, HearsYes
      <4>3. wr'[id] = "send" => op[id] \in Used
        BY <1>1 DEF StreamPath, WriterMoves, UsedIsDialled, Used
      <4> QED  BY <1>1, <1>2, <4>2, <4>3
    <3>2. CASE op'[id] \in Used
      <4>1. op[id] \in Used \/ result[id] = "ok"
        BY <1>1, <3>2 DEF StreamPath, OpMoves, Used, Unsent
      <4> QED  BY <1>1, <3>2, <4>1 DEF UsedIsDialled
    <3>3. wr'[id] = "send" => op[id] \in Used
      BY <1>1 DEF StreamPath, WriterMoves, UsedIsDialled, Used
    <3> QED  BY <1>2, <3>1, <3>2, <3>3
  <2> QED  BY <2>1, <2>2 DEF UsedIsDialled
<1>4. UpFits'
  <2> SUFFICES ASSUME NEW id \in ID, NEW w \in Conn, NEW i \in Nat
               PROVE  /\ InUp(w, i, "data", id)' =>
                           op'[id] \in Used /\ (home'[id] = w \/ Dead(home[id])')
                      /\ InUp(w, i, "close", id)' => op'[id] \in {"failed", "closed"}
    BY DEF UpFits
  <2>1. i \in 1 .. Len(up'[w]) =>
          \/ i \in 1 .. Len(up[w]) /\ up'[w][i] = up[w][i]
          \/ w = ws /\ AgentSays(up'[w][i])
    BY <1>1, AgentUp
  <2>2. ASSUME InUp(w, i, "data", id)'
        PROVE  op'[id] \in Used /\ (home'[id] = w \/ Dead(home[id])')
    <3>1. i \in 1 .. Len(up'[w]) /\ up'[w][i].type = "data" /\ up'[w][i].id = id
      BY <2>2 DEF InUp
    <3>2. InUp(w, i, "data", id) \/ (w = ws /\ wr[id] = "send")
      BY <2>1, <3>1, SaidWhat DEF InUp
    <3>3. op[id] \in Used
      BY <1>1, <3>2 DEF UpFits, UsedIsDialled
    <3>4. home[id] \in Conn
      BY <1>1, <3>3, ServerFacts DEF UsedIsDialled
    <3>5. home[id] = w \/ Dead(home[id])
      <4>1. CASE InUp(w, i, "data", id)
        BY <1>1, <4>1 DEF UpFits
      <4>2. CASE w = ws /\ ~Dead(home[id])
        BY <1>1, <3>4, <4>2, LiveIsCurrent DEF Agreed
      <4> QED  BY <3>2, <4>1, <4>2
    <3>6. Dead(home[id]) => Dead(home[id])'
      <4>1. ASSUME NEW v \in Conn, home[id] = v, home'[id] = v, Dead(home[id])
            PROVE  Dead(home[id])'
        BY <1>1, <4>1 DEF Dead
      <4> QED  BY <1>1, <3>4, <4>1
    <3> QED  BY <1>1, <1>2, <3>3, <3>5, <3>6
  <2>3. ASSUME InUp(w, i, "close", id)'
        PROVE  op'[id] \in {"failed", "closed"}
    <3>1. i \in 1 .. Len(up'[w]) /\ up'[w][i].type = "close" /\ up'[w][i].id = id
      BY <2>3 DEF InUp
    <3>2. InUp(w, i, "close", id) \/ op'[id] \in {"failed", "closed"}
      BY <2>1, <3>1, SaidWhat DEF InUp
    <3> QED  BY <1>1, <1>2, <3>2 DEF UpFits
  <2> QED  BY <2>2, <2>3
<1>5. LateFits'
  BY <1>1, <1>2 DEF LateFits
<1> QED  BY <1>3, <1>4, <1>5

\* What the agent hears closed is over.
LEMMA AgentKeepsOver ==
  ASSUME IInv, Agreed, Agent
  PROVE  CloseMeansOver' /\ DoneMeansOver'
<1>1. /\ AP!IInv /\ AgentMove /\ StreamPath /\ RunTurn
      /\ \A id \in ID : Over(id) => Over(id)'
      /\ CloseMeansOver /\ DoneMeansOver
  BY AgentSide DEF Agreed
<1>2. CloseMeansOver'
  <2> SUFFICES ASSUME NEW id \in ID, NEW w \in Conn, NEW i \in Nat, InDown(w, i, "close", id)'
               PROVE  Over(id)'
    BY DEF CloseMeansOver
  <2>1. i \in 1 .. Len(down'[w]) /\ down'[w][i].type = "close" /\ down'[w][i].id = id
    BY DEF InDown
  <2>2. PICK j \in Nat : j \in 1 .. Len(down[w]) /\ down'[w][i] = down[w][j]
    BY <1>1, <2>1, AgentDown
  <2>3. InDown(w, j, "close", id)
    BY <2>1, <2>2 DEF InDown
  <2> QED  BY <1>1, <2>3 DEF CloseMeansOver
<1>3. DoneMeansOver'
  <2> SUFFICES ASSUME NEW id \in ID, once'[id] = "done"
               PROVE  Over(id)' \/ op'[id] = "closed" \/ ~A!StreamsFree'
    BY DEF DoneMeansOver
  <2>1. op[id] = "closed" => op'[id] = "closed"
    BY <1>1 DEF StreamPath, OpMoves, Unsent
  <2>2. ~A!StreamsFree => ~A!StreamsFree'
    BY <1>1 DEF RunTurn, RunGoes, A!StreamsFree, Attached
  <2>3. Hears("close", id) => Over(id)
    BY <1>1 DEF Hears, CloseMeansOver
  <2>4. once[id] = "done" \/ op'[id] = "closed" \/ ~A!StreamsFree' \/ Hears("close", id)
    BY <1>1 DEF StreamPath, OnceMoves
  <2> QED  BY <1>1, <2>1, <2>2, <2>3, <2>4 DEF DoneMeansOver
<1> QED  BY <1>2, <1>3

\* A client that goes away leaves a close on the way to its target.
LEMMA AgentKeepsRelease ==
  ASSUME IInv, Agreed, Agent
  PROVE  ReleaseUnderWay'
<1>1. /\ AP!IInv /\ SP!IInv /\ UnsentIsUnknown /\ LinkTypeOK
      /\ AgentMove /\ StreamPath
      /\ UNCHANGED <<hpc, hid, home, sock>>
      /\ \A w \in Conn : Dead(w) => Dead(w)'
      /\ \A w \in Conn, id \in ID : Held(w, id)' <=> Held(w, id)
      /\ \A w \in Conn, id \in ID :
           (~Dead(w) /\ (Held(w, id) \/ \E i \in Nat : OpenAt(w, i, id))) => w = ws /\ Alive(w)
  BY AgentSide
<1>2. SUFFICES ASSUME NEW id \in ID, NEW w \in Conn, op'[id] \in {"failed", "closed"}, ~Dead(w)'
               PROVE  /\ \A i \in Nat : OpenAt(w, i, id)' => CloseBehind(w, i, id)'
                      /\ Held(w, id)' => CloseBehind(w, 0, id)'
  BY DEF ReleaseUnderWay
<1>3. ~Dead(w)
  BY <1>1, <1>2
<1>4. ASSUME NEW i \in Nat, OpenAt(w, i, id)'
      PROVE  OpenAt(w, i, id)
  <2>1. i \in 1 .. Len(up'[w]) /\ up'[w][i] = Open(id)
    BY <1>4 DEF OpenAt, Open, Message
  <2>2. ~AgentSays(Open(id))
    BY <1>2, SaidWhat
  <2> QED  BY <1>1, <2>1, <2>2, AgentUp DEF OpenAt
<1>5. ASSUME NEW i \in Nat, CloseBehind(w, i, id)
      PROVE  CloseBehind(w, i, id)'
  <2>1. PICK j \in Nat : j > i /\ InUp(w, j, "close", id)
    BY <1>5 DEF CloseBehind
  <2>2. j \in 1 .. Len(up'[w]) /\ up'[w][j] = up[w][j]
    BY <1>1, <2>1, AgentUp DEF InUp
  <2>3. InUp(w, j, "close", id)'
    BY <2>1, <2>2 DEF InUp
  <2> QED  BY <2>1, <2>3 DEF CloseBehind
<1>6. CASE op[id] \in {"failed", "closed"}
  <2>1. /\ \A i \in Nat : OpenAt(w, i, id) => CloseBehind(w, i, id)
        /\ Held(w, id) => CloseBehind(w, 0, id)
    BY <1>3, <1>6 DEF Agreed, ReleaseUnderWay
  <2> QED  BY <1>1, <1>4, <1>5, <2>1
<1>7. CASE op[id] \in Unsent
  <2>1. sock[id] = "none" /\ hid[w] # id /\ \A i \in 1 .. Len(up[w]) : up[w][i] # Open(id)
    BY <1>1, <1>7 DEF UnsentIsUnknown
  <2> QED  BY <1>1, <1>4, <2>1 DEF Held, Dialling, OpenAt
<1>8. CASE A!TrySend(A!Close(id))
  <2>1. AgentSays(Close(id)) /\ A!TrySend(Close(id))
    BY <1>2, <1>8, SameMessages DEF AgentSays
  <2>2. ASSUME NEW i \in Nat, w = ws, Alive(w), i = 0 \/ i \in 1 .. Len(up[w])
        PROVE  CloseBehind(w, i, id)'
    <3>1. /\ Len(up'[w]) = Len(up[w]) + 1 /\ Len(up[w]) \in Nat
          /\ up'[w][Len(up[w]) + 1] = Close(id)
      BY <1>1, <2>1, <2>2, AgentSent
    <3> DEFINE j == Len(up'[w])
    <3>2. j \in Nat /\ j > i /\ j \in 1 .. Len(up'[w])
      BY <2>2, <3>1
    <3>3. up'[w][j].type = "close" /\ up'[w][j].id = id
      BY <3>1 DEF Close, Message
    <3>4. \E k \in Nat : k > i /\ k \in 1 .. Len(up'[w]) /\ up'[w][k].type = "close" /\ up'[w][k].id = id
      BY <3>2, <3>3
    <3> QED  BY <3>4 DEF CloseBehind, InUp
  <2> QED  BY <1>1, <1>3, <1>4, <2>2 DEF OpenAt
<1>9. CASE op[id] = "open" /\ once[id] = "done"
  <2>1. Over(id) \/ ~A!StreamsFree
    BY <1>9 DEF Agreed, DoneMeansOver
  <2>2. A!StreamsFree \/ ws = 0
    BY DEF Agreed, RunFits, Attached, A!StreamsFree
  <2>3. ws # w => ~Held(w, id) /\ \A i \in Nat : ~OpenAt(w, i, id)
    BY <1>1, <1>3
  <2>4. 0 # w
    BY LinkAssumption DEF Conn
  <2>5. ~Held(w, id) /\ \A i \in Nat : ~OpenAt(w, i, id)
    BY <1>3, <2>1, <2>2, <2>3, <2>4 DEF Over
  <2> QED  BY <1>1, <1>4, <2>5
<1> QED  BY <1>1, <1>2, <1>6, <1>7, <1>8, <1>9 DEF StreamPath, OpMoves, Unsent

\* A close for a client is not lost before it is read.
LEMMA AgentKeepsLoss ==
  ASSUME IInv, Agreed, Agent
  PROVE  AbortMeansDead' /\ LossUnderWay'
<1>1. /\ AP!IInv /\ SP!IInv /\ UnsentIsUnknown /\ LinkTypeOK
      /\ A!AgentStep /\ AgentMove /\ StreamPath
      /\ UNCHANGED <<hpc, hid, home, sock, pipe>>
      /\ \A w \in Conn : Dead(w) => Dead(w)'
      /\ AbortMeansDead /\ LossUnderWay
  BY AgentSide DEF Agreed
<1>2. ASSUME NEW id \in ID, sock[id] # "none"
      PROVE  home[id] \in Conn /\ home'[id] = home[id] /\ (Dead(home[id]) => Dead(home[id])')
  <2>1. home[id] \in Conn /\ home'[id] = home[id]
    BY <1>1, <1>2, ServerFacts
  <2>2. ASSUME NEW v \in Conn, home[id] = v, home'[id] = v, Dead(home[id])
        PROVE  Dead(home[id])'
    BY <1>1, <2>2 DEF Dead
  <2> QED  BY <2>1, <2>2
<1>3. AbortMeansDead'
  <2> SUFFICES ASSUME NEW id \in ID, pipe[id] \in {"abort", "abortDelete"}
               PROVE  Dead(home[id])'
    BY <1>1 DEF AbortMeansDead
  <2>1. sock[id] # "none"
    BY <1>1, ServerFacts
  <2> QED  BY <1>1, <1>2, <2>1 DEF AbortMeansDead
<1>4. LossUnderWay'
  <2> SUFFICES ASSUME NEW id \in ID, sock'[id] = "closed", ~Dead(home[id])',
                      op'[id] \in {"waiting", "open"}, once'[id] = "new"
               PROVE  \/ \E i \in Nat : InDown(home[id], i, "close", id)'
                      \/ hid'[home'[id]] = id /\ hpc'[home'[id]] \in {"failDelete", "failTell"}
                      \/ pipe'[id] \in {"delete", "tell"}
    BY DEF LossUnderWay
  <2>1. sock[id] = "closed" /\ home[id] \in Conn /\ home'[id] = home[id] /\ ~Dead(home[id])
    BY <1>1, <1>2
  <2>2. op[id] \notin Unsent
    BY <1>1, <2>1 DEF UnsentIsUnknown
  <2>3. op[id] \in {"waiting", "open"} /\ once[id] = "new"
    BY <1>1, <2>2 DEF StreamPath, OpMoves, OnceMoves, Unsent
  <2>4. CASE \/ hid[home[id]] = id /\ hpc[home[id]] \in {"failDelete", "failTell"}
             \/ pipe[id] \in {"delete", "tell"}
    BY <1>1, <2>4
  <2>5. CASE \E i \in Nat : InDown(home[id], i, "close", id)
    <3>1. PICK i \in Nat : InDown(home[id], i, "close", id)
      BY <2>5
    <3>2. PICK w \in Conn : w = home[id] /\ w = home'[id]
      BY <2>1
    <3>3. i \in 1 .. Len(down[w]) /\ down[w][i].type = "close" /\ down[w][i].id = id
      BY <3>1, <3>2 DEF InDown
    <3>4. agentEnd'[w] # "closed"
      BY <3>2 DEF Dead
    <3>5. ~(TakeDown(w) /\ UNCHANGED agentEnd /\ down[w][i] = Head(down[w]))
      <4>1. id \in streams
        BY <1>1, <2>3, StreamFacts
      <4> QED  BY <1>1, <3>3, <4>1, HeardActs
    <3>6. PICK j \in Nat : j \in 1 .. Len(down'[w]) /\ down'[w][j] = down[w][i]
      BY <1>1, <3>3, <3>4, <3>5, AgentDown
    <3>7. \E k \in Nat : k \in 1 .. Len(down'[w]) /\ down'[w][k].type = "close" /\ down'[w][k].id = id
      BY <3>3, <3>6
    <3> QED  BY <3>2, <3>7 DEF InDown
  <2> QED  BY <1>1, <2>1, <2>3, <2>4, <2>5 DEF LossUnderWay
<1> QED  BY <1>3, <1>4

\* An open that is awaited has been sent, on the connection in use.
LEMMA AgentKeepsOpens ==
  ASSUME IInv, Agreed, Agent
  PROVE  AwaitedIsLocated'
<1>1. /\ AP!IInv /\ SP!IInv /\ UnsentIsUnknown /\ EndsFit /\ LinkTypeOK
      /\ A!AgentStep /\ AgentMove /\ StreamPath /\ RunTurn
      /\ UNCHANGED <<hpc, hid>>
      /\ \A w \in Conn : Dead(w) => Dead(w)'
      /\ AwaitedIsLocated /\ RunFits
  BY AgentSide DEF Agreed
<1>2. SUFFICES ASSUME NEW id \in ID, Awaited(id)' PROVE Located(id)'
  BY DEF AwaitedIsLocated
<1>3. op'[id] = "waiting" /\ result'[id] = "none" /\ ws' # 0 /\ Serving(ws)'
  BY <1>2 DEF Awaited
<1>4. result[id] = "none"
  BY <1>1, <1>3 DEF StreamPath, ResultMoves
<1>5. (op[id] = "sending" /\ A!Send(A!Open(id))) \/ op[id] = "waiting"
  BY <1>1, <1>3 DEF StreamPath, OpMoves, Unsent
<1>6. ws' = ws
  <2>1. runPc # "dial"
    BY <1>1, <1>5 DEF RunFits, Attached, A!Send
  <2> QED  BY <1>1, <1>3, <2>1 DEF RunTurn
<1>7. ws \in Conn /\ ws # 0
  BY <1>1, <1>3, <1>6, AgentFacts
<1>8. PICK w \in Conn : w = ws /\ w = ws'
  BY <1>6, <1>7
<1>9. agentEnd'[w] = "open" /\ ~Dead(w) /\ Serving(w)
  <2>1. Alive(w)' /\ hpc'[w] \notin {"leave", "closeAll", "stuck", "gone"}
    BY <1>3, <1>8 DEF Serving, Alive
  <2>2. ~Dead(w)' /\ agentEnd'[w] = "open"
    BY <2>1 DEF Dead, Alive
  <2>3. ~Dead(w) /\ agentEnd[w] # "none"
    BY <1>1, <1>8, <2>2 DEF EndsFit
  <2>4. Alive(w)
    BY <1>1, <2>3 DEF EndsFit, Dead, Alive, LinkTypeOK
  <2> QED  BY <1>1, <2>1, <2>2, <2>3, <2>4 DEF Serving
<1>10. CASE op[id] = "waiting"
  <2>1. Located(id)
    BY <1>1, <1>4, <1>7, <1>8, <1>9, <1>10 DEF AwaitedIsLocated, Awaited
  <2>2. CASE \E i \in Nat : OpenAt(w, i, id)
    <3>1. PICK i \in Nat : i \in 1 .. Len(up[w]) /\ up[w][i] = Open(id)
      BY <2>2 DEF OpenAt
    <3>2. i \in 1 .. Len(up'[w]) /\ up'[w][i] = Open(id)
      BY <1>1, <3>1, AgentUp
    <3> QED  BY <1>8, <3>2 DEF Located, OpenAt, Open, Message
  <2>3. CASE hid[w] = id
    BY <1>1, <1>8, <2>3 DEF Located
  <2>4. CASE \E i \in Nat : InDown(w, i, "open_resp", id)
    <3>1. PICK i \in Nat : i \in 1 .. Len(down[w]) /\ down[w][i].type = "open_resp" /\ down[w][i].id = id
      BY <2>4 DEF InDown
    <3>2. ~(TakeDown(w) /\ UNCHANGED agentEnd /\ down[w][i] = Head(down[w]))
      <4>1. id \in pending
        BY <1>1, <1>10 DEF RunFits
      <4> QED  BY <1>1, <1>3, <3>1, <4>1, HeardActs
    <3>3. PICK j \in Nat : j \in 1 .. Len(down'[w]) /\ down'[w][j] = down[w][i]
      BY <1>1, <1>9, <3>1, <3>2, AgentDown
    <3>4. \E k \in Nat : k \in 1 .. Len(down'[w]) /\ down'[w][k].type = "open_resp" /\ down'[w][k].id = id
      BY <3>1, <3>3
    <3> QED  BY <1>8, <3>4 DEF Located, InDown
  <2> QED  BY <1>8, <2>1, <2>2, <2>3, <2>4 DEF Located
<1>11. CASE op[id] = "sending" /\ A!Send(A!Open(id))
  <2>1. AgentSays(Open(id)) /\ A!TrySend(Open(id)) /\ Alive(ws)
    BY <1>3, <1>8, <1>9, <1>11, SameMessages DEF AgentSays, A!TrySend, Serving
  <2>2. /\ Len(up'[w]) = Len(up[w]) + 1 /\ Len(up[w]) \in Nat
        /\ up'[w][Len(up[w]) + 1] = Open(id)
    BY <1>1, <1>8, <2>1, AgentSent
  <2>3. \E k \in Nat : k \in 1 .. Len(up'[w]) /\ up'[w][k] = Open(id)
    BY <2>2
  <2> QED  BY <1>8, <2>3 DEF Located, OpenAt, Open, Message
<1> QED  BY <1>5, <1>10, <1>11

\* So a step of the agent keeps the agreement.
LEMMA AgentAgrees ==
  ASSUME IInv, Agreed, Agent
  PROVE  Agreed'
BY AgentKeepsEnds, AgentKeepsUse, AgentKeepsOver, AgentKeepsRelease, AgentKeepsLoss, AgentKeepsOpens
DEF Agreed

----------------------------------------------------------------------------
(* So does a step of the server. *)

LEMMA ServerSide ==
  ASSUME IInv, Agreed, Server
  PROVE  /\ AP!IInv /\ SP!IInv /\ Glue /\ UnsentIsUnknown /\ EndsFit /\ LinkTypeOK
         /\ S!ServerStep /\ ServerMove /\ ServerPath
         /\ UNCHANGED <<op, once, result, wr, ws, runPc, pending, agentEnd, cut>>
         /\ \A w \in Conn : Dead(w) => Dead(w)'
         /\ \A id \in ID : Over(id) => Over(id)'
         /\ \A id \in ID : sock[id] # "none" =>
              home[id] \in Conn /\ home'[id] = home[id] /\ sock'[id] # "none"
         /\ \A id \in ID : sock[id] = "closed" => sock'[id] = "closed"
<1>1. AP!IInv /\ SP!IInv /\ Glue /\ UnsentIsUnknown /\ EndsFit /\ LinkTypeOK /\ S!ServerStep
  BY ServerFacts DEF IInv, Glue, Server
<1>2. ServerMove /\ ServerPath
  BY <1>1, ServerMoves, ServerWay
<1>3. UNCHANGED <<op, once, result, wr, ws, runPc, pending, agentEnd, cut>>
  BY <1>2 DEF Server, agentVars, ServerMove, Talks, Leaves, Closes, linkVars
<1>4. /\ \A w \in Conn : Dead(w) => Dead(w)'
      /\ \A id \in ID : Over(id) => Over(id)'
  BY DeadStays, OverStays
<1>5. \A id \in ID : sock[id] # "none" =>
        /\ home[id] \in Conn /\ home'[id] = home[id] /\ sock'[id] # "none"
        /\ sock[id] = "closed" => sock'[id] = "closed"
  BY <1>1, <1>2, ServerFacts, TargetFacts DEF ServerPath, SockTurn
<1> QED  BY <1>1, <1>2, <1>3, <1>4, <1>5

\* Which connection is authenticated, and what has not been used.
LEMMA ServerKeepsEnds ==
  ASSUME IInv, Agreed, Server
  PROVE  Undialled' /\ AuthedFits' /\ RunFits'
<1>1. /\ SP!IInv /\ EndsFit /\ LinkTypeOK /\ ServerMove /\ ServerPath
      /\ UNCHANGED <<op, ws, runPc, pending, agentEnd>>
  BY ServerSide
<1>2. Undialled'
  <2> SUFFICES ASSUME NEW w \in Conn, agentEnd'[w] = "none"
               PROVE  up'[w] = <<>> /\ down'[w] = <<>> /\ \A id \in ID : home'[id] # w
    BY DEF Undialled
  <2>1. /\ agentEnd[w] = "none" /\ serverEnd[w] = "none"
        /\ up[w] = <<>> /\ down[w] = <<>> /\ \A id \in ID : home[id] # w
    BY <1>1 DEF Agreed, Undialled, EndsFit
  <2>2. hpc[w] # "dial"
    BY <1>1, <2>1 DEF EndsFit
  <2>3. \A id \in ID : home'[id] # w
    BY <1>1, <2>1, <2>2 DEF ServerPath, SockTurn, Dialling
  <2>4. ASSUME NEW i \in Nat
        PROVE  i \notin 1 .. Len(up'[w]) /\ i \notin 1 .. Len(down'[w])
    <3>1. i \notin 1 .. Len(up[w]) /\ ~TakeUp(w) /\ i \notin 1 .. Len(down[w])
      BY <2>1, EmptySeq DEF TakeUp
    <3> QED  BY <1>1, <2>1, <3>1, ServerUp, ServerDown
  <2>5. up'[w] \in Seq(Messages) /\ down'[w] \in Seq(Messages)
    <3>1. IInv'
      BY InvariantStep DEF Next
    <3> QED
      BY <3>1
      DEF IInv, AP!IInv, AP!TypeOK, AP!LinkTypeOK, AP!Conn, Conn, AP!Messages, Messages
  <2>6. Len(up'[w]) \in Nat /\ Len(down'[w]) \in Nat
    BY <2>5, LenProperties
  <2>7. 1 \notin 1 .. Len(up'[w]) /\ 1 \notin 1 .. Len(down'[w])
    BY <2>4
  <2>8. Len(up'[w]) = 0 /\ Len(down'[w]) = 0
    BY <2>6, <2>7
  <2> QED  BY <2>3, <2>5, <2>8, EmptySeq
<1>3. AuthedFits'
  <2>1. \A w \in Conn : hpc'[w] = "dial" => authed'[w]
    BY <1>1 DEF Agreed, AuthedFits, ServerPath, HandlerTurn
  <2>2. \A w \in Conn, id \in ID : home'[id] = w => authed'[w]
    BY <1>1 DEF Agreed, AuthedFits, ServerPath, SockTurn, Dialling
  <2> QED  BY <2>1, <2>2 DEF AuthedFits
<1>4. RunFits'
  BY <1>1 DEF Agreed, RunFits
<1> QED  BY <1>2, <1>3, <1>4

\* A message of the agent that is still there has been there before.
LEMMA StillUp ==
  ASSUME IInv, Agreed, Server, NEW w \in Conn, NEW i \in Nat, NEW type, NEW id
  PROVE  /\ InUp(w, i, type, id)' =>
              \/ InUp(w, i, type, id) /\ ~TakeUp(w)
              \/ InUp(w, i + 1, type, id) /\ TakeUp(w)
         /\ OpenAt(w, i, id)' =>
              \/ OpenAt(w, i, id) /\ ~TakeUp(w)
              \/ OpenAt(w, i + 1, id) /\ TakeUp(w)
<1>1. /\ i \in 1 .. Len(up'[w]) =>
           \/ i \in 1 .. Len(up[w]) /\ up'[w][i] = up[w][i] /\ ~TakeUp(w)
           \/ TakeUp(w) /\ i + 1 \in 1 .. Len(up[w]) /\ up'[w][i] = up[w][i + 1]
  BY ServerSide, ServerUp
<1>2. /\ InUp(w, i, type, id)' <=>
           i \in 1 .. Len(up'[w]) /\ up'[w][i].type = type /\ up'[w][i].id = id
      /\ OpenAt(w, i, id)' <=> i \in 1 .. Len(up'[w]) /\ up'[w][i] = Open(id)
  BY DEF InUp, OpenAt, Open, Message
<1> QED  BY <1>1, <1>2 DEF InUp, OpenAt

\* What has been said to the agent stays said.
LEMMA StaysSaid ==
  ASSUME IInv, Agreed, Server, NEW w \in Conn, NEW i \in Nat, NEW type, NEW id,
         InDown(w, i, type, id)
  PROVE  InDown(w, i, type, id)'
<1>1. i \in 1 .. Len(down'[w]) /\ down'[w][i] = down[w][i]
  BY ServerSide, ServerDown DEF InDown
<1> QED  BY <1>1 DEF InDown

\* What is said now to a connection that is not dead arrives.
LEMMA NowSaid ==
  ASSUME IInv, Agreed, Server, NEW w \in Conn, NEW msg \in Messages, S!TrySend(w, msg), Alive(w)
  PROVE  \E i \in Nat : InDown(w, i, msg.type, msg.id)'
<1>1. /\ Len(down'[w]) = Len(down[w]) + 1 /\ Len(down[w]) \in Nat
      /\ down'[w][Len(down[w]) + 1] = msg
  BY ServerSide, ServerSent
<1>2. \E i \in Nat : i \in 1 .. Len(down'[w]) /\ down'[w][i] = msg
  BY <1>1
<1> QED  BY <1>2 DEF InDown

\* A handler at work has a stream of its agent in hand.
LEMMA ServerKeepsUse ==
  ASSUME IInv, Agreed, Server
  PROVE  UsedIsDialled' /\ UpFits' /\ LateFits'
<1>1. /\ SP!IInv /\ ServerMove /\ ServerPath /\ UNCHANGED <<op, result, wr>>
      /\ \A w \in Conn : Dead(w) => Dead(w)'
      /\ \A id \in ID : sock[id] # "none" =>
           home[id] \in Conn /\ home'[id] = home[id] /\ sock'[id] # "none"
      /\ \A id \in ID : sock[id] = "closed" => sock'[id] = "closed"
      /\ UsedIsDialled /\ UpFits /\ LateFits
  BY ServerSide DEF Agreed
<1>2. UsedIsDialled'
  <2>1. ASSUME NEW id \in ID, NEW w \in Conn, NEW i \in Nat,
               InDown(w, i, "open_resp", id)', down'[w][i].ok
        PROVE  sock'[id] # "none"
    <3>1. i \in 1 .. Len(down'[w]) /\ down'[w][i].type = "open_resp" /\ down'[w][i].id = id
      BY <2>1 DEF InDown
    <3>2. \/ InDown(w, i, "open_resp", id) /\ down[w][i].ok
          \/ hid[w] = id /\ hpc[w] = "reply"
      BY <1>1, <2>1, <3>1, ServerDown, SaidWhat DEF InDown
    <3>3. sock[id] # "none"
      <4>1. CASE hid[w] = id /\ hpc[w] = "reply"
        <5>1. home[id] = w
          BY <1>1, <4>1, TargetFacts
        <5>2. sock[id] = "none" => home[id] = 0
          BY <1>1 DEF SP!IInv, SP!TargetHasHome
        <5> QED  BY <5>1, <5>2, LinkAssumption DEF Conn
      <4> QED  BY <1>1, <3>2, <4>1 DEF UsedIsDialled
    <3> QED  BY <1>1, <3>3
  <2> QED  BY <1>1, <2>1 DEF UsedIsDialled
<1>3. UpFits'
  <2> SUFFICES ASSUME NEW id \in ID, NEW w \in Conn, NEW i \in Nat
               PROVE  /\ InUp(w, i, "data", id)' =>
                           op'[id] \in Used /\ (home'[id] = w \/ Dead(home[id])')
                      /\ InUp(w, i, "close", id)' => op'[id] \in {"failed", "closed"}
    BY DEF UpFits
  <2>1. i + 1 \in Nat
    OBVIOUS
  <2>2. InUp(w, i, "close", id)' => op'[id] \in {"failed", "closed"}
    BY <1>1, <2>1, StillUp DEF UpFits
  <2>3. ASSUME InUp(w, i, "data", id)'
        PROVE  op'[id] \in Used /\ (home'[id] = w \/ Dead(home[id])')
    <3>1. op[id] \in Used /\ (home[id] = w \/ Dead(home[id]))
      BY <1>1, <2>1, <2>3, StillUp DEF UpFits
    <3>2. home[id] \in Conn /\ home'[id] = home[id]
      BY <1>1, <3>1 DEF UsedIsDialled
    <3>3. ASSUME NEW v \in Conn, home[id] = v, home'[id] = v, Dead(home[id])
          PROVE  Dead(home[id])'
      BY <1>1, <3>3 DEF Dead
    <3> QED  BY <1>1, <3>1, <3>2, <3>3
  <2> QED  BY <2>2, <2>3
<1>4. LateFits'
  <2> SUFFICES ASSUME NEW id \in ID, NEW w \in Conn, hid'[w] = id
               PROVE  /\ hpc'[w] \in {"failDelete", "failTell"} => op[id] \in Used /\ sock'[id] = "closed"
                      /\ hpc'[w] = "delete" => op[id] \in {"failed", "closed"}
    BY <1>1 DEF LateFits
  <2>1. id # NoID
    BY LinkAssumption
  <2>2. HandlerTurn(w)
    BY <1>1 DEF ServerPath
  <2>3. CASE hid[w] = id /\ (hpc'[w] = hpc[w] \/ (hpc[w] = "failDelete" /\ hpc'[w] = "failTell"))
    BY <1>1, <2>3 DEF LateFits
  <2>4. CASE InUp(w, 1, "data", id) /\ sock'[id] = "closed" /\ hpc'[w] = "failDelete"
    BY <1>1, <2>4 DEF UpFits
  <2>5. CASE InUp(w, 1, "close", id) /\ hpc'[w] = "delete"
    BY <1>1, <2>5 DEF UpFits
  <2> QED  BY <2>1, <2>2, <2>3, <2>4, <2>5 DEF HandlerTurn
<1> QED  BY <1>2, <1>3, <1>4

\* A target that is closed, or whose connection is dead, is over.
LEMMA ClosedIsOver ==
  ASSUME SP!IInv, UnsentIsUnknown, NEW id \in ID, sock[id] # "none",
         sock[id] = "closed" \/ Dead(home[id])
  PROVE  Over(id)
<1>1. op[id] \notin Unsent
  BY DEF UnsentIsUnknown
<1>2. ASSUME NEW w \in Conn, ~Dead(w)
      PROVE  ~Held(w, id) /\ \A i \in Nat : ~OpenAt(w, i, id)
  BY <1>2, TargetFacts DEF Held
<1> QED  BY <1>1, <1>2 DEF Over

\* The server says close only of what is over.
LEMMA ServerKeepsOver ==
  ASSUME IInv, Agreed, Server
  PROVE  CloseMeansOver' /\ DoneMeansOver'
<1>1. /\ SP!IInv /\ UnsentIsUnknown /\ ServerMove
      /\ UNCHANGED <<op, once, runPc>>
      /\ \A id \in ID : Over(id) => Over(id)'
      /\ CloseMeansOver /\ DoneMeansOver
  BY ServerSide DEF Agreed
<1>2. CloseMeansOver'
  <2> SUFFICES ASSUME NEW id \in ID, NEW w \in Conn, NEW i \in Nat, InDown(w, i, "close", id)'
               PROVE  Over(id)'
    BY DEF CloseMeansOver
  <2>1. i \in 1 .. Len(down'[w]) /\ down'[w][i].type = "close" /\ down'[w][i].id = id
    BY DEF InDown
  <2>2. CASE InDown(w, i, "close", id)
    BY <1>1, <2>2 DEF CloseMeansOver
  <2>3. CASE ServerSays(w, down'[w][i])
    <3>1. CASE hid[w] = id /\ hpc[w] = "failTell"
      <4>1. sock[id] = "closed"
        BY <3>1 DEF Agreed, LateFits
      <4> QED  BY <1>1, <4>1, ClosedIsOver
    <3>2. CASE home[id] = w /\ pipe[id] = "tell"
      <4>1. sock[id] = "closed"
        BY <1>1, <3>2, TargetFacts
      <4> QED  BY <1>1, <4>1, ClosedIsOver
    <3>3. CASE id \notin conns[w] /\ InUp(w, 1, "data", id)
      <4>1. op[id] \in Used /\ (home[id] = w \/ Dead(home[id]))
        BY <3>3 DEF Agreed, UpFits
      <4>2. sock[id] # "none"
        BY <4>1 DEF Agreed, UsedIsDialled
      <4>3. sock[id] = "open" => home[id] # w
        BY <1>1, <3>3, TargetFacts
      <4>4. sock[id] \in {"open", "closed"}
        BY <1>1, <4>2, ServerFacts
      <4> QED  BY <1>1, <4>1, <4>2, <4>3, <4>4, ClosedIsOver
    <3> QED  BY <2>1, <2>3, <3>1, <3>2, <3>3, SaidWhat
  <2> QED  BY <1>1, <2>1, <2>2, <2>3, ServerDown DEF InDown
<1>3. DoneMeansOver'
  BY <1>1 DEF DoneMeansOver, A!StreamsFree
<1> QED  BY <1>2, <1>3

\* A close is taken only after the open it follows, and closes its target.
LEMMA ServerKeepsRelease ==
  ASSUME IInv, Agreed, Server
  PROVE  ReleaseUnderWay'
<1>1. /\ SP!IInv /\ Glue /\ S!ServerStep /\ ServerMove /\ ServerPath /\ UNCHANGED op
      /\ \A w \in Conn : Dead(w) => Dead(w)'
      /\ \A id \in ID : sock[id] # "none" =>
           home[id] \in Conn /\ home'[id] = home[id] /\ sock'[id] # "none"
  BY ServerSide
<1>2. SUFFICES ASSUME NEW id \in ID, NEW w \in Conn, op[id] \in {"failed", "closed"}, ~Dead(w)'
               PROVE  /\ \A i \in Nat : OpenAt(w, i, id)' => CloseBehind(w, i, id)'
                      /\ Held(w, id)' => CloseBehind(w, 0, id)'
  BY <1>1 DEF ReleaseUnderWay
<1>3. /\ ~Dead(w)
      /\ \A i \in Nat : OpenAt(w, i, id) => CloseBehind(w, i, id)
      /\ Held(w, id) => CloseBehind(w, 0, id)
  BY <1>1, <1>2 DEF Agreed, ReleaseUnderWay
<1>4. ASSUME NEW i \in Nat, NEW j \in Nat, j > i, InUp(w, j, "close", id),
             ~TakeUp(w) \/ j > i + 1
      PROVE  /\ ~TakeUp(w) => CloseBehind(w, i, id)'
             /\ TakeUp(w) => CloseBehind(w, i, id)'
  <2>1. serverEnd'[w] # "closed"
    BY <1>2 DEF Dead
  <2>2. \/ j \in 1 .. Len(up'[w]) /\ up'[w][j] = up[w][j] /\ ~TakeUp(w)
        \/ TakeUp(w) /\ j - 1 \in 1 .. Len(up'[w]) /\ up'[w][j - 1] = up[w][j]
    <3>1. j \in 1 .. Len(up[w]) /\ (TakeUp(w) => j # 1)
      BY <1>4 DEF InUp
    <3>2. \/ j \in 1 .. Len(up'[w]) /\ up'[w][j] = up[w][j] /\ ~TakeUp(w)
          \/ TakeUp(w) /\ j - 1 \in 1 .. Len(up'[w]) /\ up'[w][j - 1] = up[w][j]
          \/ TakeUp(w) /\ j = 1
      BY <1>1, <2>1, <3>1, ServerUp
    <3> QED  BY <3>1, <3>2
  <2>3. CASE j \in 1 .. Len(up'[w]) /\ up'[w][j] = up[w][j]
    <3>1. InUp(w, j, "close", id)'
      BY <1>4, <2>3 DEF InUp
    <3> QED  BY <1>4, <3>1 DEF CloseBehind
  <2>4. CASE TakeUp(w) /\ j - 1 \in 1 .. Len(up'[w]) /\ up'[w][j - 1] = up[w][j]
    <3>1. InUp(w, j - 1, "close", id)'
      BY <1>4, <2>4 DEF InUp
    <3>2. j - 1 \in Nat /\ j - 1 > i
      BY <1>4, <2>4
    <3> QED  BY <3>1, <3>2 DEF CloseBehind
  <2> QED  BY <2>2, <2>3, <2>4
<1>5. ASSUME NEW i \in Nat, OpenAt(w, i, id)'
      PROVE  CloseBehind(w, i, id)'
  <2>1. CASE OpenAt(w, i, id) /\ ~TakeUp(w)
    <3>1. PICK j \in Nat : j > i /\ InUp(w, j, "close", id)
      BY <1>3, <2>1 DEF CloseBehind
    <3> QED  BY <1>4, <2>1, <3>1
  <2>2. CASE OpenAt(w, i + 1, id) /\ TakeUp(w)
    <3>1. PICK j \in Nat : j > i + 1 /\ InUp(w, j, "close", id)
      BY <1>3, <2>2 DEF CloseBehind
    <3>2. j > i
      BY <3>1
    <3> QED  BY <1>4, <2>2, <3>1, <3>2
  <2> QED  BY <1>5, <2>1, <2>2, StillUp
<1>6. ASSUME Held(w, id)'
      PROVE  CloseBehind(w, 0, id)'
  <2>1. CASE Held(w, id)
    <3>1. PICK j \in Nat : j > 0 /\ InUp(w, j, "close", id)
      BY <1>3, <2>1 DEF CloseBehind
    <3>2. CASE ~TakeUp(w) \/ j > 1
      BY <1>4, <3>1, <3>2
    <3>3. CASE TakeUp(w) /\ j = 1
      <4>1. hpc[w] = "recv"
        BY <1>1, <3>3, TakeIsHandled, TakenMessage
      <4>2. home[id] = w /\ sock[id] = "open"
        BY <2>1, <4>1 DEF Held, Dialling
      <4>3. authed[w] /\ id \in conns[w]
        BY <1>1, <4>2, TargetFacts DEF Agreed, AuthedFits
      <4>4. sock'[id] = "closed" /\ hpc'[w] = "delete"
        BY <1>1, <3>1, <3>3, <4>3, TakeActs
      <4> QED  BY <1>6, <4>4 DEF Held, Dialling
    <3> QED  BY <3>1, <3>2, <3>3
  <2>2. CASE ~Held(w, id)
    <3>1. Dialling(w, id)'
      BY <1>1, <1>6, <2>2 DEF Held, ServerPath, SockTurn
    <3>2. hpc[w] = "recv" /\ OpenAt(w, 1, id)
      BY <1>1, <2>2, <3>1 DEF ServerPath, HandlerTurn, Dialling, Held
    <3>3. PICK j \in Nat : j > 1 /\ InUp(w, j, "close", id)
      BY <1>3, <3>2 DEF CloseBehind
    <3> QED  BY <1>4, <3>3
  <2> QED  BY <2>1, <2>2
<1> QED  BY <1>5, <1>6

\* A target that goes away leaves a close on the way to its client, or coming.
LEMMA ServerKeepsLoss ==
  ASSUME IInv, Agreed, Server
  PROVE  AbortMeansDead' /\ LossUnderWay'
<1>1. /\ AP!IInv /\ SP!IInv /\ EndsFit /\ LinkTypeOK /\ ServerPath
      /\ UNCHANGED <<op, once, agentEnd, cut>>
      /\ \A w \in Conn : Dead(w) => Dead(w)'
      /\ \A id \in ID : sock[id] # "none" =>
           home[id] \in Conn /\ home'[id] = home[id] /\ sock'[id] # "none"
      /\ AbortMeansDead /\ LossUnderWay
  BY ServerSide DEF Agreed
<1>2. ASSUME NEW id \in ID, sock[id] # "none"
      PROVE  home[id] \in Conn /\ home'[id] = home[id] /\ (Dead(home[id]) => Dead(home[id])')
  <2>1. home[id] \in Conn /\ home'[id] = home[id]
    BY <1>1, <1>2
  <2>2. ASSUME NEW v \in Conn, home[id] = v, home'[id] = v, Dead(home[id])
        PROVE  Dead(home[id])'
    BY <1>1, <2>2 DEF Dead
  <2> QED  BY <2>1, <2>2
<1>3. AbortMeansDead'
  <2> SUFFICES ASSUME NEW id \in ID, pipe'[id] \in {"abort", "abortDelete"}
               PROVE  Dead(home[id])'
    BY DEF AbortMeansDead
  <2>1. \/ pipe'[id] = pipe[id] \/ pipe[id] = "abort"
        \/ pipe[id] = "send" /\ S!DownSendBroken(home[id])
    BY <1>1 DEF ServerPath, PipeTurn
  <2>2. sock[id] # "none"
    BY <1>1, <2>1, ServerFacts
  <2>3. Dead(home[id])
    BY <1>1, <2>1 DEF AbortMeansDead, S!DownSendBroken, Dead
  <2> QED  BY <1>2, <2>2, <2>3
<1>4. LossUnderWay'
  <2> SUFFICES ASSUME NEW id \in ID, sock'[id] = "closed", ~Dead(home[id])',
                      op[id] \in {"waiting", "open"}, once[id] = "new"
               PROVE  \/ \E i \in Nat : InDown(home[id], i, "close", id)'
                      \/ hid'[home'[id]] = id /\ hpc'[home'[id]] \in {"failDelete", "failTell"}
                      \/ pipe'[id] \in {"delete", "tell"}
    BY <1>1 DEF LossUnderWay
  <2>1. sock[id] # "none"
    BY <1>1 DEF ServerPath, SockTurn
  <2>2. home[id] \in Conn /\ home'[id] = home[id] /\ ~Dead(home[id])
    BY <1>2, <2>1
  <2>3. PICK w \in Conn : w = home[id] /\ w = home'[id] /\ ~Dead(w)
    BY <2>2
  <2>4. w = ws /\ Alive(w)
    BY <1>1, <2>3, LiveIsCurrent DEF Agreed
  <2>5. ASSUME S!TrySend(w, Close(id))
        PROVE  \E i \in Nat : InDown(home[id], i, "close", id)'
    <3>1. Close(id) \in Messages /\ Close(id).type = "close" /\ Close(id).id = id
      BY MessageTypes DEF Close, Message
    <3>2. \E i \in Nat : InDown(w, i, Close(id).type, Close(id).id)'
      BY <2>4, <2>5, <3>1, NowSaid
    <3> QED  BY <2>3, <3>1, <3>2 DEF InDown, Close, Message
  <2>6. CASE sock[id] = "closed"
    <3>1. CASE \E i \in Nat : InDown(w, i, "close", id)
      <4>1. \E i \in Nat : InDown(w, i, "close", id)'
        BY <3>1, StaysSaid
      <4> QED  BY <2>3, <4>1 DEF InDown
    <3>2. CASE hid[w] = id /\ hpc[w] \in {"failDelete", "failTell"}
      BY <1>1, <2>3, <2>5, <3>2 DEF ServerPath, HandlerTurn
    <3>3. CASE pipe[id] \in {"delete", "tell"}
      BY <1>1, <2>3, <2>5, <3>3 DEF ServerPath, PipeTurn
    <3> QED  BY <1>1, <2>3, <2>6, <3>1, <3>2, <3>3 DEF LossUnderWay
  <2>7. CASE sock[id] # "closed"
    <3>1. \/ \E v \in Conn : InUp(v, 1, "close", id)
          \/ hid'[w] = id /\ hpc'[w] = "failDelete"
          \/ hpc[w] = "closeAll"
          \/ pipe'[id] = "delete"
          \/ pipe[id] = "abort"
      BY <1>1, <2>3, <2>7 DEF ServerPath, SockTurn
    <3>2. ~\E v \in Conn : InUp(v, 1, "close", id)
      BY DEF Agreed, UpFits
    <3>3. hpc[w] # "closeAll"
      BY <1>1, <2>3 DEF EndsFit, Dead
    <3>4. pipe[id] # "abort"
      BY <1>1, <2>3 DEF AbortMeansDead
    <3> QED  BY <2>3, <3>1, <3>2, <3>3, <3>4
  <2> QED  BY <2>6, <2>7
<1> QED  BY <1>3, <1>4

\* An open that is taken is dialled, and answered.
LEMMA ServerKeepsOpens ==
  ASSUME IInv, Agreed, Server
  PROVE  AwaitedIsLocated'
<1>1. /\ AP!IInv /\ SP!IInv /\ Glue /\ EndsFit /\ LinkTypeOK
      /\ S!ServerStep /\ ServerMove /\ ServerPath
      /\ UNCHANGED <<op, result, ws, agentEnd>>
      /\ \A w \in Conn : Dead(w) => Dead(w)'
      /\ AwaitedIsLocated
  BY ServerSide DEF Agreed
<1>2. SUFFICES ASSUME NEW id \in ID, Awaited(id)' PROVE Located(id)'
  BY DEF AwaitedIsLocated
<1>3. op[id] = "waiting" /\ result[id] = "none" /\ ws # 0 /\ Serving(ws)'
  BY <1>1, <1>2 DEF Awaited
<1>4. PICK w \in Conn : w = ws /\ w = ws'
  BY <1>1, <1>3, AgentFacts
<1>5. serverEnd'[w] # "closed" /\ ~Dead(w) /\ Alive(w) /\ Serving(w) /\ hpc'[w] # "leave"
  <2>1. Alive(w)' /\ hpc'[w] \notin {"leave", "closeAll", "stuck", "gone"}
    BY <1>3, <1>4 DEF Serving, Alive
  <2>2. ~Dead(w)' /\ agentEnd[w] = "open" /\ serverEnd'[w] # "closed"
    BY <1>1, <2>1 DEF Dead, Alive
  <2>3. ~Dead(w)
    BY <1>1, <2>2
  <2>4. Alive(w)
    BY <1>1, <2>2, <2>3 DEF EndsFit, Dead, Alive, LinkTypeOK
  <2>5. hpc[w] \notin {"leave", "closeAll", "stuck", "gone"}
    BY <1>1, <2>1 DEF ServerPath, HandlerTurn
  <2> QED  BY <2>1, <2>2, <2>3, <2>4, <2>5 DEF Serving
<1>6. Located(id)
  BY <1>1, <1>3, <1>4, <1>5 DEF AwaitedIsLocated, Awaited
<1>7. CASE \E i \in Nat : OpenAt(w, i, id)
  <2>1. PICK i \in Nat : i \in 1 .. Len(up[w]) /\ up[w][i] = Open(id)
    BY <1>7 DEF OpenAt
  <2>2. CASE ~TakeUp(w) \/ i > 1
    <3>1. \E k \in Nat : k \in 1 .. Len(up'[w]) /\ up'[w][k] = Open(id)
      <4>1. \/ i \in 1 .. Len(up'[w]) /\ up'[w][i] = up[w][i]
            \/ i - 1 \in 1 .. Len(up'[w]) /\ up'[w][i - 1] = up[w][i]
        BY <1>1, <1>5, <2>1, <2>2, ServerUp
      <4>2. i - 1 \in 1 .. Len(up'[w]) => i - 1 \in Nat
        OBVIOUS
      <4> QED  BY <2>1, <4>1, <4>2
    <3> QED  BY <1>4, <3>1 DEF Located, OpenAt, Open, Message
  <2>3. CASE TakeUp(w) /\ i = 1
    <3>1. hid'[w] = id
      BY <1>1, <1>5, <2>1, <2>3, TakeActs DEF OpenAt
    <3> QED  BY <1>4, <3>1 DEF Located
  <2> QED  BY <2>1, <2>2, <2>3
<1>8. CASE hid[w] = id
  <2>1. hpc[w] \in {"dial", "reply"}
    <3>1. hpc[w] \in {"dial", "reply", "delete", "failDelete", "failTell"}
      BY <1>1, <1>8, ServerFacts
    <3>2. hpc[w] \notin {"delete", "failDelete", "failTell"}
      BY <1>3, <1>8 DEF Agreed, LateFits, Used
    <3> QED  BY <3>1, <3>2
  <2>2. CASE hid'[w] = id
    BY <1>4, <2>2 DEF Located
  <2>3. ASSUME NEW ok \in BOOLEAN, S!TrySend(w, OpenResp(id, ok))
        PROVE  Located(id)'
    <3>1. OpenResp(id, ok) \in Messages /\ OpenResp(id, ok).type = "open_resp" /\ OpenResp(id, ok).id = id
      BY MessageTypes DEF OpenResp, Message
    <3>2. \E i \in Nat : InDown(w, i, OpenResp(id, ok).type, OpenResp(id, ok).id)'
      BY <1>5, <2>3, <3>1, NowSaid
    <3> QED  BY <1>4, <3>1, <3>2 DEF Located, InDown, OpenResp, Message
  <2> QED  BY <1>1, <1>8, <2>1, <2>2, <2>3 DEF ServerPath, HandlerTurn
<1>9. CASE \E i \in Nat : InDown(w, i, "open_resp", id)
  <2>1. \E i \in Nat : InDown(w, i, "open_resp", id)'
    BY <1>9, StaysSaid
  <2> QED  BY <1>4, <2>1 DEF Located, InDown
<1> QED  BY <1>4, <1>6, <1>7, <1>8, <1>9 DEF Located

\* So a step of the server keeps the agreement.
LEMMA ServerAgrees ==
  ASSUME IInv, Agreed, Server
  PROVE  Agreed'
BY ServerKeepsEnds, ServerKeepsUse, ServerKeepsOver, ServerKeepsRelease, ServerKeepsLoss,
   ServerKeepsOpens
DEF Agreed

----------------------------------------------------------------------------
(* And the network: it only makes connections dead. *)

\* And a step of the network.
LEMMA NetworkAgrees ==
  ASSUME IInv, Agreed, Network
  PROVE  Agreed'
<1>1. UNCHANGED <<up, down, agentEnd, serverEnd, agentVars, serverVars>>
  BY DEF Network, Break
<1>2. /\ \A w \in Conn : Dead(w) => Dead(w)'
      /\ \A id \in ID : Over(id) => Over(id)'
  BY DeadStays, OverStays
<1>3. ASSUME NEW id \in ID, sock[id] # "none"
      PROVE  home[id] \in Conn /\ home'[id] = home[id] /\ (Dead(home[id]) => Dead(home[id])')
  <2>1. home[id] \in Conn /\ home'[id] = home[id]
    BY <1>1, <1>3, ServerFacts DEF IInv, serverVars
  <2>2. ASSUME NEW v \in Conn, home[id] = v, home'[id] = v, Dead(home[id])
        PROVE  Dead(home[id])'
    BY <1>2, <2>2 DEF Dead
  <2> QED  BY <2>1, <2>2
<1>4. /\ \A w \in Conn, i \in Nat : \A type, id : InUp(w, i, type, id)' <=> InUp(w, i, type, id)
      /\ \A w \in Conn, i \in Nat : \A type, id : InDown(w, i, type, id)' <=> InDown(w, i, type, id)
      /\ \A w \in Conn, i \in Nat : \A id : OpenAt(w, i, id)' <=> OpenAt(w, i, id)
      /\ \A w \in Conn : \A id : Held(w, id)' <=> Held(w, id)
  BY <1>1 DEF InUp, InDown, OpenAt, Open, Message, Held, Dialling, serverVars
<1>5. Undialled' /\ AuthedFits' /\ RunFits' /\ LateFits'
  BY <1>1 DEF Agreed, Undialled, AuthedFits, RunFits, LateFits, agentVars, serverVars
<1>6. UsedIsDialled'
  BY <1>1, <1>4 DEF Agreed, UsedIsDialled, agentVars, serverVars
<1>7. UpFits'
  <2> SUFFICES ASSUME NEW id \in ID, NEW w \in Conn, NEW i \in Nat
               PROVE  /\ InUp(w, i, "data", id)' =>
                           op'[id] \in Used /\ (home'[id] = w \/ Dead(home[id])')
                      /\ InUp(w, i, "close", id)' => op'[id] \in {"failed", "closed"}
    BY DEF UpFits
  <2>1. /\ InUp(w, i, "data", id) => op[id] \in Used /\ (home[id] = w \/ Dead(home[id]))
        /\ InUp(w, i, "close", id) => op[id] \in {"failed", "closed"}
    BY DEF Agreed, UpFits
  <2>2. op[id] \in Used => sock[id] # "none"
    BY DEF Agreed, UsedIsDialled
  <2> QED  BY <1>1, <1>3, <1>4, <2>1, <2>2 DEF agentVars
<1>8. CloseMeansOver' /\ DoneMeansOver'
  BY <1>1, <1>2, <1>4 DEF Agreed, CloseMeansOver, DoneMeansOver, A!StreamsFree, agentVars
<1>9. ReleaseUnderWay'
  BY <1>1, <1>2, <1>4 DEF Agreed, ReleaseUnderWay, CloseBehind, agentVars
<1>10. AbortMeansDead'
  <2> SUFFICES ASSUME NEW id \in ID, pipe[id] \in {"abort", "abortDelete"}
               PROVE  Dead(home[id])'
    BY <1>1 DEF AbortMeansDead, serverVars
  <2>1. sock[id] # "none"
    BY ServerFacts DEF IInv
  <2> QED  BY <1>3, <2>1 DEF Agreed, AbortMeansDead
<1>11. LossUnderWay'
  <2> SUFFICES ASSUME NEW id \in ID, sock'[id] = "closed", ~Dead(home[id])',
                      op'[id] \in {"waiting", "open"}, once'[id] = "new"
               PROVE  \/ \E i \in Nat : InDown(home[id], i, "close", id)'
                      \/ hid'[home'[id]] = id /\ hpc'[home'[id]] \in {"failDelete", "failTell"}
                      \/ pipe'[id] \in {"delete", "tell"}
    BY DEF LossUnderWay
  <2>1. /\ sock[id] = "closed" /\ op[id] \in {"waiting", "open"} /\ once[id] = "new"
        /\ UNCHANGED <<down, hid, hpc, pipe>>
    BY <1>1 DEF agentVars, serverVars
  <2>2. ~Dead(home[id]) /\ home'[id] = home[id]
    BY <1>3, <2>1
  <2> QED  BY <2>1, <2>2 DEF Agreed, LossUnderWay, InDown
<1>12. AwaitedIsLocated'
  <2> SUFFICES ASSUME NEW id \in ID, Awaited(id)' PROVE Located(id)'
    BY DEF AwaitedIsLocated
  <2>1. UNCHANGED <<up, down, hid, hpc, op, result, ws, agentEnd, serverEnd>>
    BY <1>1 DEF agentVars, serverVars
  <2>2. \A w \in Conn : cut[w] => cut'[w]
    BY ServerFacts DEF Network, Break, IInv, LinkTypeOK
  <2>3. Awaited(id)
    BY <2>1, <2>2, AgentFacts DEF Awaited, Serving, Alive, IInv
  <2>4. Located(id)
    BY <2>3 DEF Agreed, AwaitedIsLocated
  <2> QED  BY <2>1, <2>4 DEF Located, OpenAt, InDown, Open, Message
<1> QED  BY <1>5, <1>6, <1>7, <1>8, <1>9, <1>10, <1>11, <1>12 DEF Agreed

----------------------------------------------------------------------------
(* Theorems about streams *)

\* Nothing is known of any stream at first.
LEMMA AgreedAtFirst == Init => Agreed
<1> SUFFICES ASSUME Init PROVE Agreed
  OBVIOUS
<1>1. \A w \in Conn : up[w] = <<>> /\ down[w] = <<>> /\ agentEnd[w] = "none"
  BY DEF Init, LinkInit
<1>2. /\ ws = 0 /\ runPc = "top"
      /\ \A id \in ID : /\ op[id] = "idle" /\ result[id] = "none" /\ once[id] = "new" /\ wr[id] = "ready"
                        /\ home[id] = 0 /\ sock[id] = "none" /\ pipe[id] = "off"
  BY DEF Init, A!AgentInit, S!ServerInit
<1>3. \A w \in Conn : hpc[w] = "recv" /\ hid[w] = NoID
  BY DEF Init, S!ServerInit, S!Conn, Conn
<1>4. 0 \notin Conn /\ NoID \notin ID
  BY LinkAssumption DEF Conn
<1>5. /\ \A w \in Conn, i \in Nat : \A type, id : ~InUp(w, i, type, id) /\ ~InDown(w, i, type, id)
      /\ \A w \in Conn, i \in Nat : \A id : ~OpenAt(w, i, id)
  <2>1. \A i \in Nat : i \notin 1 .. Len(<<>>)
    BY EmptySeq
  <2> QED  BY <1>1, <2>1 DEF InUp, InDown, OpenAt
<1>6. Undialled /\ AuthedFits /\ RunFits
  BY <1>1, <1>2, <1>3, <1>4 DEF Undialled, AuthedFits, RunFits
<1>7. UsedIsDialled /\ UpFits /\ LateFits
  BY <1>2, <1>3, <1>4, <1>5 DEF UsedIsDialled, UpFits, LateFits, Used
<1>8. CloseMeansOver /\ DoneMeansOver
  BY <1>2, <1>5 DEF CloseMeansOver, DoneMeansOver
<1>9. ReleaseUnderWay /\ AbortMeansDead /\ LossUnderWay /\ AwaitedIsLocated
  BY <1>2 DEF ReleaseUnderWay, AbortMeansDead, LossUnderWay, AwaitedIsLocated, Awaited
<1> QED  BY <1>6, <1>7, <1>8, <1>9 DEF Agreed

\* Whoever takes the step, the sides agree after it.
LEMMA AgreedStep == IInv /\ Agreed /\ [Next]_vars => Agreed'
<1> SUFFICES ASSUME IInv, Agreed, [Next]_vars PROVE Agreed'
  OBVIOUS
<1>1. CASE Next
  BY <1>1, AgentAgrees, ServerAgrees, NetworkAgrees DEF Next
<1>2. CASE UNCHANGED vars
  BY <1>2
  DEF vars, linkVars, agentVars, serverVars, Agreed, Undialled, AuthedFits, RunFits, UsedIsDialled,
      UpFits, LateFits, CloseMeansOver, DoneMeansOver, ReleaseUnderWay, AbortMeansDead,
      LossUnderWay, AwaitedIsLocated, Dead, Held, Over, OpenAt, Dialling, InUp, InDown,
      CloseBehind, Awaited, Located, Serving, Alive, Open, Message, A!StreamsFree
<1> QED  BY <1>1, <1>2

\* What both sides know of a stream, and what is under way about it.
THEOREM Agreement == SafetySpec => [](IInv /\ Agreed)
BY InitHolds, AgreedAtFirst, InvariantStep, AgreedStep, PTL DEF SafetySpec

\* With nothing under way, no close is missing on either side.
LEMMA AgreedIsQuiet == IInv /\ Agreed => QuietAgreement
<1> SUFFICES ASSUME IInv, Agreed, NEW id \in ID,
                    home[id] # 0, Alive(home[id]),
                    ~InFlight(id), ~AgentAtWork(id), ~ServerAtWork(id)
             PROVE  (op[id] = "open" /\ once[id] = "new") <=> (sock[id] = "open")
  BY DEF QuietAgreement
<1>1. /\ home[id] \in Conn /\ sock[id] \in {"none", "open", "closed"}
      /\ once[id] \in {"new", "running", "done"}
  BY ServerFacts, StreamFacts DEF IInv
<1>2. PICK w \in Conn : w = home[id] /\ ~Dead(w)
  BY <1>1 DEF Alive, Dead
<1>3. \A i \in Nat : \A type : ~InUp(w, i, type, id) /\ ~InDown(w, i, type, id)
  BY DEF InFlight, InUp, InDown
<1>4. ASSUME op[id] = "open", once[id] = "new"
      PROVE  sock[id] = "open"
  <2>1. sock[id] # "none"
    BY <1>4 DEF Agreed, UsedIsDialled, Used
  <2>2. sock[id] # "closed"
    BY <1>2, <1>3, <1>4 DEF Agreed, LossUnderWay, ServerAtWork
  <2> QED  BY <1>1, <2>1, <2>2
<1>5. ASSUME sock[id] = "open"
      PROVE  op[id] = "open" /\ once[id] = "new"
  <2>1. Held(w, id)
    BY <1>2, <1>5 DEF Held
  <2>2. op[id] \notin {"failed", "closed"}
    BY <1>2, <1>3, <2>1 DEF Agreed, ReleaseUnderWay, CloseBehind
  <2>3. op[id] = "open"
    BY <1>5, <2>2 DEF AgentAtWork, IInv, Glue, UnsentIsUnknown, Unsent
  <2>4. once[id] # "running"
    BY <2>3 DEF IInv, AP!IInv, AP!OnceFits
  <2>5. once[id] # "done"
    <3>1. Over(id) => FALSE
      BY <1>2, <2>1 DEF Over
    <3>2. w = ws
      BY <1>2, LiveIsCurrent DEF Agreed, IInv, Glue
    <3>3. A!StreamsFree
      BY <3>2, LinkAssumption DEF Agreed, RunFits, Attached, A!StreamsFree, Conn
    <3> QED  BY <2>3, <3>1, <3>3 DEF Agreed, DoneMeansOver
  <2> QED  BY <1>1, <2>3, <2>4, <2>5
<1> QED  BY <1>4, <1>5

\* Where no message, handler or pipe of a stream is under way, the two sides
\* agree on it: in a local connection, and its target a connection, or neither.
THEOREM SidesAgree == SafetySpec => []QuietAgreement
BY Agreement, AgreedIsQuiet, PTL

\* An open that its caller waits for has a place, by definition.
LEMMA AgreedIsLocated == IInv /\ Agreed => NoLostOpen
<1> SUFFICES ASSUME IInv, Agreed, NEW id \in ID,
                    op[id] = "waiting", result[id] = "none", ws # 0, Serving(ws)
             PROVE  \/ \E i \in 1 .. Len(up[ws]) : up[ws][i] = Open(id)
                    \/ hid[ws] = id
                    \/ \E i \in 1 .. Len(down[ws]) :
                         down[ws][i].type = "open_resp" /\ down[ws][i].id = id
  BY DEF NoLostOpen
<1>1. Located(id)
  BY DEF Agreed, AwaitedIsLocated, Awaited
<1> QED  BY <1>1 DEF Located, OpenAt, InDown

\* OpenStream never waits for an answer that nothing on a connection in service
\* will give: its open is on the way, being dialled, or answered.
THEOREM OpenIsNotLost == SafetySpec => []NoLostOpen
BY Agreement, AgreedIsLocated, PTL

----------------------------------------------------------------------------
(* Where the data of a stream is, as long as every reader receives only      *)
(* from the connection that it was started for.                             *)

OwnConnection == \A g \in Conn : ron[g] \in {0, g}

\* Before a stream has a target, it has no data.
NothingYet == \A id \in ID : sock[id] = "none" =>
   sent[id] = 0 /\ wrote[id] = 0 /\ pseq[id] = 0 /\ got[id] = 0 /\ inCh[id] = <<>>

\* Data from a target, and a close from the server that the agent could still
\* act upon, are on the connection over which the target was dialled.
HomeOrGone(g, id) == home[id] \in Conn /\ (home[id] = g \/ agentEnd[home[id]] = "closed")
Holds(g, id) == rpc[g] = "push" /\ rmsg[g].id = id
AtHome == \A g \in Conn, id \in ID :
  /\ \A i \in Nat : InUp(g, i, "data", id) => HomeOrGone(g, id)
  /\ \A i \in Nat : InDown(g, i, "close", id) => HomeOrGone(g, id)
  /\ \A i \in Nat : InDown(g, i, "data", id) => home[id] = g
  /\ (rpc[g] = "drop" /\ rmsg[g].id = id) => HomeOrGone(g, id)
  /\ Holds(g, id) => home[id] = g

\* What has been written to the target, and what is on the way to it.
UpFlow(w, id) == /\ InOrder(up[w], id, wrote[id], sent[id])
                 /\ ~Dead(w) => Complete(up[w], id, wrote[id], sent[id])
UpFlows == \A id \in ID :
  /\ wrote[id] <= sent[id]
  /\ \A w \in Conn : (home[id] = w /\ sock[id] = "open") => UpFlow(w, id)

\* What the client has read is followed by what is queued for it, what its
\* reader has in its hands, and what is on the way, up to what the pipe has said.
Queued(id) == got[id] + Len(inCh[id])
Reached(w, id) == IF Holds(w, id) THEN Queued(id) + 1 ELSE Queued(id)
Said(id) == IF pipe[id] = "send" THEN pseq[id] - 1 ELSE pseq[id]
QueueFlows == \A id \in ID : \A i \in 1 .. Len(inCh[id]) : inCh[id][i] = got[id] + i
DownFlow(w, id) ==
  /\ Holds(w, id) => rmsg[w].n = Queued(id) + 1
  /\ Reached(w, id) <= Said(id)
  /\ (id \in streams /\ agentEnd[w] = "open") =>
       /\ InOrder(down[w], id, Reached(w, id), Said(id))
       /\ (~cut[w] /\ pipe[id] \in {"off", "read", "send"}) =>
            Complete(down[w], id, Reached(w, id), Said(id))
DownFlows == \A id \in ID, w \in Conn : home[id] = w => DownFlow(w, id)

Flows == NothingYet /\ AtHome /\ UpFlows /\ QueueFlows /\ DownFlows

\* Types, and what else each side's invariant says of the counters.
LEMMA DataFacts ==
  ASSUME IInv
  PROVE  /\ LinkTypeOK /\ 0 \notin Conn
         /\ inCh \in [ID -> Seq(Nat)] /\ got \in [ID -> Nat] /\ sent \in [ID -> Nat]
         /\ wrote \in [ID -> Nat] /\ pseq \in [ID -> Nat]
         /\ rpc \in [Conn -> {"off", "top", "recv", "push", "drop", "pong", "err", "exit"}]
         /\ \E R : rmsg \in [Conn -> R]
         /\ \A g \in Conn : rpc[g] \in {"push", "drop"} => rmsg[g].id \in ID /\ rmsg[g].n \in Nat
         /\ \A id \in ID : sock[id] = "none" => home[id] = 0 /\ pipe[id] = "off"
         /\ \A id \in ID : sock[id] # "none" => home[id] \in Conn
         /\ \A id \in ID : Len(inCh[id]) \in Nat /\ Queued(id) \in Nat /\ Said(id) \in Nat
         /\ \A w \in Conn, id \in ID : Reached(w, id) \in Nat
<1>1. LinkTypeOK /\ sent \in [ID -> Nat]
  BY AgentFacts DEF IInv
<1>2. 0 \notin Conn
  BY LinkAssumption DEF Conn
<1>3. /\ inCh \in [ID -> Seq(Nat)] /\ got \in [ID -> Nat]
      /\ rpc \in [Conn -> {"off", "top", "recv", "push", "drop", "pong", "err", "exit"}]
      /\ \E R : rmsg \in [Conn -> R]
      /\ \A g \in Conn : rpc[g] \in {"push", "drop"} => rmsg[g].id \in ID /\ rmsg[g].n \in Nat
  <2>1. AP!TypeOK /\ AP!ReaderInHand /\ AP!Conn = Conn
    BY DEF IInv, AP!IInv, AP!InHand, AP!Conn, Conn
  <2> QED  BY <2>1 DEF AP!TypeOK, AP!StreamTypeOK, AP!LoopTypeOK, AP!ReaderInHand
<1>4. wrote \in [ID -> Nat] /\ pseq \in [ID -> Nat]
  BY DEF IInv, SP!IInv, SP!TypeOK
<1>5. /\ \A id \in ID : sock[id] = "none" => home[id] = 0 /\ pipe[id] = "off"
      /\ \A id \in ID : sock[id] # "none" => home[id] \in Conn
  BY DEF IInv, SP!IInv, SP!TargetHasHome, SP!Conn, Conn
<1>6. \A id \in ID : Len(inCh[id]) \in Nat /\ Queued(id) \in Nat
  <2> SUFFICES ASSUME NEW id \in ID
               PROVE  Len(inCh[id]) \in Nat /\ Queued(id) \in Nat
    OBVIOUS
  <2>1. Len(inCh[id]) \in Nat
    BY <1>3, LenProperties
  <2> QED  BY <1>3, <2>1 DEF Queued
<1>7. \A id \in ID : Said(id) \in Nat
  <2>1. \A id \in ID : pipe[id] = "send" => pseq[id] >= 1
    BY DEF IInv, Glue, CountersFit
  <2> SUFFICES ASSUME NEW id \in ID
               PROVE  Said(id) \in Nat
    OBVIOUS
  <2>2. pseq[id] \in Nat /\ (pipe[id] = "send" => pseq[id] >= 1)
    BY <1>4, <2>1
  <2> QED  BY <2>2 DEF Said
<1>8. \A w \in Conn, id \in ID : Reached(w, id) \in Nat
  <2> SUFFICES ASSUME NEW w \in Conn, NEW id \in ID
               PROVE  Reached(w, id) \in Nat
    OBVIOUS
  <2>1. Queued(id) \in Nat
    BY <1>6
  <2>2. Queued(id) + 1 \in Nat
    BY <2>1
  <2> QED  BY <2>1, <2>2 DEF Reached
<1> QED  BY <1>1, <1>2, <1>3, <1>4, <1>5, <1>6, <1>7, <1>8

\* An end that the agent has closed stays closed.
LEMMA ClosedStays ==
  ASSUME IInv, Agent \/ Server \/ Network, NEW w \in Conn
  PROVE  agentEnd[w] = "closed" => agentEnd'[w] = "closed"
<1>1. LinkTypeOK
  BY DataFacts
<1>2. CASE Agent
  <2>1. AgentMove
    BY <1>2, AgentMoves DEF Agent, IInv, Glue
  <2>2. \A v \in Conn : (DialOpens(v) /\ agentEnd[w] = "closed") => agentEnd'[w] = "closed"
    BY <1>1 DEF DialOpens, LinkTypeOK
  <2>3. (CloseAgentEnd(ws) /\ agentEnd[w] = "closed") => agentEnd'[w] = "closed"
    BY <1>1 DEF CloseAgentEnd, LinkTypeOK
  <2> QED  BY <2>1, <2>2, <2>3 DEF AgentMove, Dials, TakesOne, SendsUp, HangsUp, linkVars
<1>3. CASE Server
  <2>1. ServerMove
    BY <1>3, ServerMoves DEF Server, IInv
  <2> QED  BY <2>1 DEF ServerMove, Talks, Leaves, Closes, linkVars
<1>4. CASE Network
  BY <1>4 DEF Network, Break
<1> QED  BY <1>2, <1>3, <1>4

----------------------------------------------------------------------------
(* What a step of the agent does to the data on its way to a client. *)

\* A reader's hands hold what they held.
HandsKept == \A g \in Conn : /\ rpc'[g] = "push" <=> rpc[g] = "push"
                             /\ rpc[g] = "push" => rmsg'[g] = rmsg[g]
OtherHandsKept(g) == \A h \in Conn \ {g} : rpc'[h] = rpc[h] /\ rmsg'[h] = rmsg[h]

\* Nothing; a message is taken that is not data of a stream in the map, or one
\* that is; it is queued, or let go of; the client reads.
Quiet     == /\ HandsKept /\ UNCHANGED <<inCh, got>>
             /\ UNCHANGED down \/ (ws \in Conn /\ CloseAgentEnd(ws))
Passes(g) == /\ TakeDown(g)
             /\ Head(down[g]).type = "data" => Head(down[g]).id \notin streams
             /\ HandsKept /\ UNCHANGED <<inCh, got, agentEnd>>
Grasps(g) == /\ TakeDown(g) /\ Head(down[g]).type = "data" /\ Head(down[g]).id \in streams
             /\ rpc[g] # "push" /\ rpc'[g] = "push" /\ rmsg'[g] = Head(down[g])
             /\ OtherHandsKept(g) /\ UNCHANGED <<inCh, got, agentEnd>>
Queues(g) == /\ rpc[g] = "push" /\ rpc'[g] = "top"
             /\ inCh' = [inCh EXCEPT ![rmsg[g].id] = Append(@, rmsg[g].n)]
             /\ OtherHandsKept(g) /\ UNCHANGED <<got, down, agentEnd>>
LetsGo(g) == /\ rpc[g] = "push" /\ rpc'[g] = "top" /\ once[rmsg[g].id] = "done"
             /\ OtherHandsKept(g) /\ UNCHANGED <<inCh, got, down, agentEnd>>
Reads(id) == /\ op[id] \in Used /\ inCh[id] # <<>>
             /\ got' = [got EXCEPT ![id] = Head(inCh[id])]
             /\ inCh' = [inCh EXCEPT ![id] = Tail(@)]
             /\ HandsKept /\ UNCHANGED <<down, agentEnd>>
DataMoves == \/ Quiet
             \/ \E g \in Conn : Passes(g) \/ Grasps(g) \/ Queues(g) \/ LetsGo(g)
             \/ \E id \in ID : Reads(id)

\* An entry is made for a stream that has not been asked for yet, and taken out
\* by a reader that has heard a close.
MapMoves == /\ \A id \in ID : id \in streams' => id \in streams \/ op[id] = "called"
            /\ \A g \in Conn : rpc'[g] = "drop" =>
                 \/ rpc[g] = "drop" /\ rmsg'[g] = rmsg[g]
                 \/ InDown(g, 1, "close", rmsg'[g].id)

\* Run, one step of it.
LEMMA RunFlow ==
  ASSUME IInv, A!RunStep \/ A!Cancel
  PROVE  DataMoves /\ MapMoves
<1>1. AP!IInv
  BY DEF IInv
<1>2. CASE A!RecvAuthOk
  <2>1. /\ ws \in Conn /\ TakeDown(ws) /\ Head(down[ws]) = AuthResp(TRUE)
        /\ rpc' = [rpc EXCEPT ![ws] = "top"]
        /\ UNCHANGED <<inCh, got, agentEnd, rmsg, streams>>
    BY <1>1, <1>2, AgentFacts, SameLink, SameMessages DEF A!RecvAuthOk, A!mapVars, A!streamVars
  <2>2. rpc[ws] = "off"
    BY <1>1, <1>2 DEF AP!IInv, AP!UnservedIsUnread, A!RecvAuthOk
  <2>3. /\ \A g \in Conn : rpc'[g] = rpc[g] \/ (rpc[g] = "off" /\ rpc'[g] = "top")
    BY <2>1, <2>2, DataFacts
  <2>4. HandsKept
    BY <2>1, <2>3 DEF HandsKept
  <2>5. MapMoves
    BY <2>1, <2>3 DEF MapMoves
  <2>6. Head(down[ws]).type # "data"
    BY <2>1 DEF AuthResp, Message
  <2> QED  BY <2>1, <2>4, <2>5, <2>6 DEF DataMoves, Passes
<1>3. CASE /\ UNCHANGED <<inCh, got, rpc, rmsg, streams>>
           /\ UNCHANGED down \/ (ws \in Conn /\ CloseAgentEnd(ws))
  BY <1>3 DEF DataMoves, MapMoves, Quiet, HandsKept
<1>4. \/ A!RecvAuthOk
      \/ /\ UNCHANGED <<inCh, got, rpc, rmsg, streams>>
         /\ UNCHANGED down \/ CloseAgentEnd(ws)
  BY SameLink
  DEF A!RunStep, A!Cancel, A!RunTop, A!DialAttach, A!DialFails, A!SendAuth, A!SendAuthFails,
      A!RecvAuthRefused, A!ServeError, A!ServeCancelled, A!Detach, A!FailNonePending,
      A!FailPendingStuck, A!CloseNoStreams, A!CloseStreamsStuck, A!Backoff, A!linkVars,
      A!mapVars, A!streamVars, A!loopVars
<1>5. ASSUME CloseAgentEnd(ws)
      PROVE  UNCHANGED down \/ ws \in Conn
  <2>1. ws \in Conn \cup {0}
    BY <1>1, AgentFacts
  <2>2. CASE ws \notin Conn
    BY <1>5, <2>2, DataFacts DEF CloseAgentEnd, LinkTypeOK
  <2> QED  BY <2>1, <2>2
<1> QED  BY <1>2, <1>3, <1>4, <1>5

\* A reader or a ping loop.
LEMMA LoopFlow ==
  ASSUME IInv, OwnConnection, NEW g \in Conn, A!ReaderStep(g) \/ A!PingerStep(g)
  PROVE  DataMoves /\ MapMoves
<1>1. AP!IInv
  BY DEF IInv
<1>2. /\ rpc \in [Conn -> {"off", "top", "recv", "push", "drop", "pong", "err", "exit"}]
      /\ \E R : rmsg \in [Conn -> R]
  BY DataFacts
<1>3. ASSUME A!ReadMessage(g)
      PROVE  DataMoves /\ MapMoves
  <2> DEFINE m == Head(down[g])
  <2>1. ron[g] = g /\ rpc[g] = "recv"
    <3>1. rpc[g] = "recv"
      BY <1>3 DEF A!ReadMessage
    <3>2. ron[g] \in Conn
      BY <1>1, <3>1, AgentFacts
    <3> QED  BY <3>1, <3>2, DataFacts DEF OwnConnection
  <2>2. TakeDown(g) /\ InDown(g, 1, m.type, m.id)
    <3>1. TakeDown(g)
      BY <1>1, <1>3, <2>1, HeardMessage
    <3>2. 1 \in 1 .. Len(down[g]) /\ down[g][1] = m
      BY <3>1, DataFacts, TakeDownContents
    <3> QED  BY <3>1, <3>2 DEF InDown
  <2>3. ASSUME NEW pc \in {"top", "pong", "drop", "push"}, NEW msg, A!Continue(g, pc, msg)
        PROVE  rpc'[g] = pc /\ rmsg'[g] = msg /\ OtherHandsKept(g)
    BY <1>2, <2>3 DEF A!Continue, OtherHandsKept
  <2>4. CASE A!ReadData(g, m) /\ m.id \in streams
    <3>1. /\ rpc'[g] = "push" /\ rmsg'[g] = m /\ OtherHandsKept(g) /\ m.type = "data"
          /\ UNCHANGED <<inCh, got, agentEnd, streams>>
      BY <2>3, <2>4 DEF A!ReadData, A!streamVars, A!mapVars
    <3>2. DataMoves
      BY <2>1, <2>2, <2>4, <3>1 DEF DataMoves, Grasps
    <3>3. MapMoves
      BY <3>1 DEF MapMoves, OtherHandsKept
    <3> QED  BY <3>2, <3>3
  <2>5. CASE \/ A!ReadData(g, m) /\ m.id \notin streams
             \/ A!ReadOpenResp(g, m) \/ A!ReadClose(g, m) \/ A!ReadPing(g, m) \/ A!ReadOther(g, m)
    <3>1. /\ m.type = "data" => m.id \notin streams
          /\ UNCHANGED <<inCh, got, agentEnd, streams>>
          /\ \/ A!Continue(g, "top", A!NoMessage) \/ A!Continue(g, "pong", A!NoMessage)
             \/ A!Continue(g, "drop", m) /\ m.type = "close"
      BY <2>5
      DEF A!ReadData, A!ReadOpenResp, A!ReadClose, A!ReadPing, A!ReadOther, A!streamVars, A!mapVars
    <3>2. /\ OtherHandsKept(g) /\ rpc'[g] # "push"
          /\ rpc'[g] = "drop" => rmsg'[g] = m /\ m.type = "close"
      BY <2>3, <3>1
    <3>3. DataMoves
      BY <2>1, <2>2, <3>1, <3>2 DEF DataMoves, Passes, HandsKept, OtherHandsKept
    <3>4. MapMoves
      BY <2>2, <3>1, <3>2 DEF MapMoves, OtherHandsKept
    <3> QED  BY <3>3, <3>4
  <2> QED  BY <1>3, <2>1, <2>4, <2>5 DEF A!ReadMessage
<1>4. ASSUME A!PushQueue(g) \/ A!PushClosed(g)
      PROVE  DataMoves /\ MapMoves
  <2>1. /\ rpc[g] = "push" /\ A!Continue(g, "top", A!NoMessage)
        /\ UNCHANGED <<got, down, agentEnd, streams>>
        /\ \/ inCh' = [inCh EXCEPT ![rmsg[g].id] = Append(@, rmsg[g].n)]
           \/ once[rmsg[g].id] = "done" /\ UNCHANGED inCh
    BY <1>4 DEF A!PushQueue, A!PushClosed, A!linkVars, A!mapVars, A!streamVars
  <2>2. rpc'[g] = "top" /\ OtherHandsKept(g)
    BY <1>2, <2>1 DEF A!Continue, OtherHandsKept
  <2>3. DataMoves
    BY <2>1, <2>2 DEF DataMoves, Queues, LetsGo
  <2>4. MapMoves
    BY <2>1, <2>2 DEF MapMoves, OtherHandsKept
  <2> QED  BY <2>3, <2>4
<1>5. ASSUME A!ReadTop(g) \/ A!ReadError(g) \/ A!DropStream(g) \/ A!Pong(g) \/ A!ReadExit(g)
      PROVE  DataMoves /\ MapMoves
  <2>1. /\ rpc[g] \in {"top", "recv", "drop", "pong", "err"}
        /\ \E pc \in {"top", "recv", "err", "exit"} : rpc' = [rpc EXCEPT ![g] = pc]
        /\ UNCHANGED rmsg \/ \E msg : rmsg' = [rmsg EXCEPT ![g] = msg]
        /\ UNCHANGED <<down, inCh, got>> /\ streams' \in SUBSET streams
    BY <1>1, <1>5, StreamFacts
    DEF A!ReadTop, A!ReadError, A!DropStream, A!Pong, A!ReadExit, A!Continue, A!linkVars,
        A!mapVars, A!streamVars
  <2>2. /\ \A h \in Conn \ {g} : rpc'[h] = rpc[h] /\ rmsg'[h] = rmsg[h]
        /\ rpc'[g] \notin {"push", "drop"}
    BY <1>2, <2>1
  <2>3. DataMoves
    BY <2>1, <2>2 DEF DataMoves, Quiet, HandsKept
  <2>4. MapMoves
    BY <2>1, <2>2 DEF MapMoves
  <2> QED  BY <2>3, <2>4
<1>6. ASSUME A!PingerStep(g)
      PROVE  DataMoves /\ MapMoves
  <2>1. UNCHANGED <<down, inCh, got, rpc, rmsg, streams>>
    BY <1>6 DEF A!PingerStep, A!PingTick, A!PingCancelled, A!PingExit, A!linkVars, A!streamVars,
                A!mapVars
  <2> QED  BY <2>1 DEF DataMoves, Quiet, HandsKept, MapMoves
<1> QED  BY <1>3, <1>4, <1>5, <1>6 DEF A!ReaderStep

\* A client, in OpenStream or with its stream.
LEMMA ClientFlow ==
  ASSUME IInv, NEW x \in ID, A!OpenStep(x) \/ A!ClientStep(x) \/ A!StreamStep(x)
  PROVE  DataMoves /\ MapMoves
<1>1. AP!IInv /\ streams \in SUBSET ID
  BY StreamFacts DEF IInv
<1>2. UNCHANGED <<rpc, rmsg, down, agentEnd>>
  BY DEF A!OpenStep, A!RegisterStream, A!RegisterPending, A!SendOpen, A!UndoPending, A!UndoStream,
         A!OpenAnswered, A!OpenTimesOut, A!ForgetStream, A!TellRefused, A!ClientStep, A!StreamStep,
         A!CallOpen, A!Read, A!Write, A!CloseFirst, A!CloseAgain, A!WriteSend, A!CloseForget,
         A!CloseTell, A!linkVars, A!loopVars
<1>3. HandsKept
  BY <1>2 DEF HandsKept
<1>4. streams' \in SUBSET streams \/ (op[x] = "called" /\ streams' = streams \cup {x})
  BY <1>1
  DEF A!OpenStep, A!RegisterStream, A!RegisterPending, A!SendOpen, A!UndoPending, A!UndoStream,
      A!OpenAnswered, A!OpenTimesOut, A!ForgetStream, A!TellRefused, A!ClientStep, A!StreamStep,
      A!CallOpen, A!Read, A!Write, A!CloseFirst, A!CloseAgain, A!WriteSend, A!CloseForget,
      A!CloseTell, A!mapVars
<1>5. MapMoves
  BY <1>2, <1>4 DEF MapMoves
<1>6. CASE A!Read(x)
  BY <1>2, <1>3, <1>5, <1>6 DEF A!Read, DataMoves, Reads, Used
<1>7. CASE UNCHANGED <<inCh, got>>
  BY <1>2, <1>3, <1>5, <1>7 DEF DataMoves, Quiet
<1>8. A!Read(x) \/ UNCHANGED <<inCh, got>>
  BY DEF A!OpenStep, A!RegisterStream, A!RegisterPending, A!SendOpen, A!UndoPending, A!UndoStream,
         A!OpenAnswered, A!OpenTimesOut, A!ForgetStream, A!TellRefused, A!ClientStep, A!StreamStep,
         A!CallOpen, A!Write, A!CloseFirst, A!CloseAgain, A!WriteSend, A!CloseForget, A!CloseTell
<1> QED  BY <1>5, <1>6, <1>7, <1>8

\* Any step of the agent.
LEMMA AgentFlow ==
  ASSUME IInv, OwnConnection, A!AgentStep
  PROVE  DataMoves /\ MapMoves
BY RunFlow, LoopFlow, ClientFlow, SameLink DEF A!AgentStep

----------------------------------------------------------------------------
(* One step changes one of what Circuit tells of a stream. *)

Opening == {"called", "registered", "sending", "waiting", "undoPending", "undoStream",
            "forget", "tell"}
Goes(id, from, to) == op[id] \in from /\ \E pc \in to : op' = [op EXCEPT ![id] = pc]
OpGoes(id) == \/ Goes(id, {"idle"}, {"called"})
              \/ Goes(id, Opening, Opening)
              \/ Goes(id, Opening, {"open"}) /\ result[id] = "ok"
              \/ Goes(id, Opening, {"failed"})
              \/ Goes(id, {"open"}, {"closing", "closed"})
              \/ Goes(id, {"closing", "closeTell"}, {"closeTell", "closed"})
ClientMoves == \/ UNCHANGED <<op, sent, got>>
               \/ \E id \in ID :
                    \/ OpGoes(id) /\ UNCHANGED <<sent, got>>
                    \/ /\ wr[id] = "send" /\ A!Send(Data(id, sent[id] + 1))
                       /\ sent' = [sent EXCEPT ![id] = @ + 1] /\ UNCHANGED <<op, got>>
                    \/ Reads(id) /\ UNCHANGED <<op, sent>>

\* On the agent's side.
LEMMA AgentOnce ==
  ASSUME IInv, A!AgentStep
  PROVE  ClientMoves
<1>1. ASSUME A!RunStep \/ A!Cancel
      PROVE  UNCHANGED <<op, sent, got>>
  BY <1>1 DEF A!RunStep, A!Cancel, A!RunTop, A!DialAttach, A!DialFails, A!SendAuth,
              A!SendAuthFails, A!RecvAuthOk, A!RecvAuthRefused, A!ServeError, A!ServeCancelled,
              A!Detach, A!FailNonePending, A!FailPendingStuck, A!CloseNoStreams,
              A!CloseStreamsStuck, A!Backoff, A!streamVars
<1>2. ASSUME NEW g \in A!Conn, A!ReaderStep(g) \/ A!PingerStep(g)
      PROVE  UNCHANGED <<op, sent, got>>
  BY <1>2 DEF A!ReaderStep, A!PingerStep, A!ReadTop, A!ReadError, A!ReadMessage, A!ReadOpenResp,
              A!ReadData, A!ReadClose, A!ReadPing, A!ReadOther, A!PushQueue, A!PushClosed,
              A!DropStream, A!Pong, A!ReadExit, A!PingTick, A!PingCancelled, A!PingExit,
              A!streamVars
<1>3. ASSUME NEW id \in ID, A!OpenStep(id) \/ A!ClientStep(id) \/ A!StreamStep(id)
      PROVE  ClientMoves
  <2>1. CASE A!OpenStep(id)
    <3>1. UNCHANGED <<sent, got>> /\ OpGoes(id)
      BY <2>1
      DEF A!OpenStep, A!RegisterStream, A!RegisterPending, A!SendOpen, A!UndoPending, A!UndoStream,
          A!OpenAnswered, A!OpenTimesOut, A!ForgetStream, A!TellRefused, A!OpGoto, OpGoes, Goes,
          Opening
    <3> QED  BY <3>1 DEF ClientMoves
  <2>2. CASE A!CallOpen(id) \/ A!CloseFirst(id) \/ A!CloseAgain(id) \/ A!CloseForget(id) \/ A!CloseTell(id)
    <3>1. UNCHANGED <<sent, got>> /\ OpGoes(id)
      BY <2>2 DEF A!CallOpen, A!CloseFirst, A!CloseAgain, A!CloseForget, A!CloseTell, A!OpGoto,
                  OpGoes, Goes
    <3> QED  BY <3>1 DEF ClientMoves
  <2>3. CASE A!Read(id)
    <3>1. Reads(id) /\ UNCHANGED <<op, sent>>
      BY <2>3 DEF A!Read, A!loopVars, A!linkVars, Reads, Used, HandsKept
    <3> QED  BY <3>1 DEF ClientMoves
  <2>4. CASE A!Write(id)
    BY <2>4 DEF A!Write, ClientMoves
  <2>5. CASE A!WriteSend(id)
    BY <2>5, SameMessages DEF A!WriteSend, ClientMoves
  <2> QED  BY <1>3, <2>1, <2>2, <2>3, <2>4, <2>5 DEF A!ClientStep, A!StreamStep
<1> QED  BY <1>1, <1>2, <1>3 DEF A!AgentStep, ClientMoves

\* What a handler writes to a target is the data it has just taken.
Writes(w, id) == /\ TakeUp(w) /\ Head(up[w]).type = "data" /\ Head(up[w]).id = id
                 /\ id \in conns[w] /\ sock[id] = "open"
                 /\ wrote' = [wrote EXCEPT ![id] = Head(up[w]).n]
TargetMoves ==
  \/ UNCHANGED <<sock, wrote, pseq>>
  \/ \E id \in ID :
       \/ /\ sock[id] = "none" /\ sock' = [sock EXCEPT ![id] = "open"]
          /\ (\E w \in Conn : Dialling(w, id)) /\ UNCHANGED <<wrote, pseq>>
       \/ /\ sock[id] # "none" /\ sock' = [sock EXCEPT ![id] = "closed"]
          /\ UNCHANGED <<wrote, pseq>>
       \/ (\E w \in Conn : Writes(w, id)) /\ UNCHANGED <<sock, pseq>>
       \/ /\ sock[id] = "open" /\ pseq' = [pseq EXCEPT ![id] = @ + 1]
          /\ UNCHANGED <<sock, wrote>>

\* What the pipe of a target says.
SaidTurn(id) ==
  \/ /\ Said(id)' = Said(id) /\ ~(pipe[id] = "send" /\ pipe'[id] = "read")
     /\ pipe'[id] \in {"off", "read", "send"} => pipe[id] \in {"off", "read", "send"}
  \/ /\ pipe[id] = "send" /\ pipe'[id] = "read" /\ UNCHANGED pseq
     /\ S!Send(home[id], Data(id, pseq[id]))
  \/ pipe[id] = "send" /\ pipe'[id] = "abort" /\ UNCHANGED <<pseq, down>>

\* A handler, one step of it.
LEMMA HandlerOnce ==
  ASSUME IInv, NEW w \in Conn, S!HandlerStep(w) \/ S!Tick(w) \/ S!PingDone(w)
  PROVE  TargetMoves /\ \A id \in ID : SaidTurn(id)
<1>1. SP!IInv /\ Glue
  BY DEF IInv
<1>2. UNCHANGED pseq
  BY DEF S!HandlerStep, S!Tick, S!PingDone, S!HandleMessage, S!Unauthorized, S!AuthRefused,
         S!Authenticate, S!HandleOpen, S!HandleClose, S!HandleDataUnknown, S!HandleData,
         S!HandleDataFails, S!HandlePing, S!HandlePong, S!HandleUnknown, S!ReceiveError,
         S!DialFails, S!DialSucceeds, S!ReplyOpened, S!FailDelete, S!FailTell, S!CloseDelete,
         S!LeaveLoop, S!CloseNone, S!CloseAllStuck, S!targetVars
<1>3. UNCHANGED pipe \/ S!ReplyOpened(w)
  BY DEF S!HandlerStep, S!Tick, S!PingDone, S!HandleMessage, S!Unauthorized, S!AuthRefused,
         S!Authenticate, S!HandleOpen, S!HandleClose, S!HandleDataUnknown, S!HandleData,
         S!HandleDataFails, S!HandlePing, S!HandlePong, S!HandleUnknown, S!ReceiveError,
         S!DialFails, S!DialSucceeds, S!FailDelete, S!FailTell, S!CloseDelete,
         S!LeaveLoop, S!CloseNone, S!CloseAllStuck, S!targetVars
<1>4. ASSUME NEW id \in ID
      PROVE  SaidTurn(id)
  <2>1. CASE UNCHANGED pipe
    BY <1>2, <2>1 DEF SaidTurn, Said
  <2>2. CASE S!ReplyOpened(w)
    <3>1. hid[w] \in ID /\ pipe[hid[w]] = "off" /\ pipe' = [pipe EXCEPT ![hid[w]] = "read"]
      <4>1. hpc[w] = "reply" /\ hid[w] \in ID
        BY <1>1, <2>2, ServerFacts DEF S!ReplyOpened
      <4>2. pipe[hid[w]] = "off"
        BY <1>1, <4>1 DEF SP!IInv, SP!HandlerInHand, SP!Conn, Conn
      <4> QED  BY <2>2, <4>1, <4>2 DEF S!ReplyOpened
    <3>2. pipe'[id] = pipe[id] \/ (pipe[id] = "off" /\ pipe'[id] = "read")
      BY <1>1, <3>1, ServerFacts
    <3> QED  BY <1>2, <3>2 DEF SaidTurn, Said
  <2> QED  BY <1>3, <2>1, <2>2
<1>5. CASE S!HandleMessage(w)
  <2> DEFINE m == Head(up[w])
  <2>1. CASE S!HandleData(w, m)
    <3>1. TakeUp(w) /\ m.type = "data" /\ m.id \in ID
      BY <1>1, <1>5, <2>1, TakenMessage DEF S!HandleData
    <3>2. Writes(w, m.id) /\ UNCHANGED <<sock, pseq>>
      BY <2>1, <3>1, <1>2 DEF S!HandleData, Writes
    <3> QED  BY <1>4, <3>1, <3>2 DEF TargetMoves
  <2>2. CASE (S!HandleClose(w, m) /\ m.id \in conns[w]) \/ S!HandleDataFails(w, m)
    <3>1. /\ m.id \in ID /\ m.id \in conns[w]
          /\ sock' = [sock EXCEPT ![m.id] = "closed"] /\ UNCHANGED <<wrote, pseq>>
      BY <1>1, <1>2, <1>5, <2>2, TakenMessage DEF S!HandleClose, S!HandleDataFails
    <3>2. sock[m.id] # "none"
      BY <1>1, <3>1, ServerFacts
    <3> QED  BY <1>4, <3>1, <3>2 DEF TargetMoves
  <2>3. CASE UNCHANGED <<sock, wrote>>
    BY <1>2, <1>4, <2>3 DEF TargetMoves
  <2> QED
    BY <1>5, <2>1, <2>2, <2>3
    DEF S!HandleMessage, S!Unauthorized, S!AuthRefused, S!Authenticate, S!HandleOpen,
        S!HandleClose, S!HandleDataUnknown, S!HandlePing, S!HandlePong, S!HandleUnknown,
        S!targetVars
<1>6. CASE S!DialSucceeds(w)
  <2>1. /\ hid[w] \in ID /\ Dialling(w, hid[w])
        /\ sock' = [sock EXCEPT ![hid[w]] = "open"] /\ UNCHANGED <<wrote, pseq>>
    BY <1>1, <1>6, ServerFacts DEF S!DialSucceeds, Dialling
  <2>2. sock[hid[w]] = "none"
    BY <1>1, <2>1, TargetFacts
  <2> QED  BY <1>4, <2>1, <2>2 DEF TargetMoves
<1>7. CASE S!CloseAllStuck(w)
  <2>1. PICK id \in conns[w] : sock' = [sock EXCEPT ![id] = "closed"]
    BY <1>7 DEF S!CloseAllStuck
  <2>2. id \in ID /\ sock[id] # "none"
    BY <1>1, ServerFacts
  <2>3. UNCHANGED <<wrote, pseq>>
    BY <1>7 DEF S!CloseAllStuck
  <2> QED  BY <1>4, <2>1, <2>2, <2>3 DEF TargetMoves
<1>8. CASE UNCHANGED <<sock, wrote>>
  BY <1>2, <1>4, <1>8 DEF TargetMoves
<1> QED
  BY <1>5, <1>6, <1>7, <1>8
  DEF S!HandlerStep, S!Tick, S!PingDone, S!ReceiveError, S!DialFails, S!ReplyOpened, S!FailDelete,
      S!FailTell, S!CloseDelete, S!LeaveLoop, S!CloseNone, S!targetVars

\* A pipe.
LEMMA PipeOnce ==
  ASSUME IInv, NEW x \in ID, S!PipeStep(x)
  PROVE  TargetMoves /\ \A id \in ID : SaidTurn(id)
<1>1. SP!IInv /\ pipe \in [ID -> S!PipePC] /\ sock \in [ID -> {"none", "open", "closed"}]
  BY ServerFacts DEF IInv
<1>2. pipe[x] # "off" /\ sock[x] # "none"
  <2>1. pipe[x] # "off"
    BY DEF S!PipeStep, S!PipeRead, S!PipeSend, S!PipeEnds, S!PipeClose, S!PipeDelete, S!PipeTell
  <2> QED  BY <1>1, <2>1, ServerFacts
<1>3. ASSUME NEW id \in ID, id # x
      PROVE  pipe'[id] = pipe[id] /\ pseq'[id] = pseq[id]
  BY <1>1, <1>3, DataFacts
  DEF S!PipeStep, S!PipeRead, S!PipeSend, S!PipeEnds, S!PipeClose, S!PipeDelete, S!PipeTell,
      S!PipeGoto
<1>4. ASSUME SaidTurn(x)
      PROVE  \A id \in ID : SaidTurn(id)
  BY <1>3, <1>4 DEF SaidTurn, Said
<1>5. CASE S!PipeRead(x)
  <2>1. /\ pipe[x] = "read" /\ pipe'[x] = "send" /\ sock[x] = "open"
        /\ pseq' = [pseq EXCEPT ![x] = @ + 1] /\ UNCHANGED <<sock, wrote>>
    BY <1>1, <1>5 DEF S!PipeRead, S!PipeGoto
  <2>2. pseq'[x] - 1 = pseq[x]
    BY <2>1, DataFacts
  <2>3. SaidTurn(x)
    BY <2>1, <2>2 DEF SaidTurn, Said
  <2> QED  BY <1>4, <2>1, <2>3 DEF TargetMoves
<1>6. CASE S!PipeSend(x)
  <2>1. /\ pipe[x] = "send" /\ UNCHANGED <<sock, wrote, pseq>>
        /\ \/ S!Send(home[x], Data(x, pseq[x])) /\ pipe'[x] = "read"
           \/ UNCHANGED down /\ pipe'[x] = "abort"
    BY <1>1, <1>6, SameMessages DEF S!PipeSend, S!PipeGoto, S!SendFails
  <2>2. SaidTurn(x)
    BY <2>1 DEF SaidTurn
  <2> QED  BY <1>4, <2>1, <2>2 DEF TargetMoves
<1>7. CASE S!PipeEnds(x) \/ S!PipeClose(x) \/ S!PipeDelete(x) \/ S!PipeTell(x)
  <2>1. /\ pipe[x] # "send" /\ pipe'[x] \in {"close", "delete", "abortDelete", "tell", "exit"}
        /\ UNCHANGED <<wrote, pseq>>
        /\ UNCHANGED sock \/ sock' = [sock EXCEPT ![x] = "closed"]
    BY <1>1, <1>7 DEF S!PipeEnds, S!PipeClose, S!PipeDelete, S!PipeTell, S!PipeGoto
  <2>2. SaidTurn(x)
    BY <2>1 DEF SaidTurn, Said
  <2> QED  BY <1>2, <1>4, <2>1, <2>2 DEF TargetMoves
<1> QED  BY <1>5, <1>6, <1>7 DEF S!PipeStep

\* Any step of the server.
LEMMA ServerOnce ==
  ASSUME IInv, S!ServerStep
  PROVE  TargetMoves /\ \A id \in ID : SaidTurn(id)
BY HandlerOnce, PipeOnce, SameLink DEF S!ServerStep

----------------------------------------------------------------------------
(* A step of the agent keeps the data in order. *)

\* The home of a stream is where it was dialled.
LEMMA HomeStays ==
  ASSUME IInv, Agent \/ Server \/ Network, NEW id \in ID
  PROVE  /\ home[id] \in Conn => home'[id] = home[id]
         /\ \A g \in Conn : HomeOrGone(g, id) => HomeOrGone(g, id)'
<1>1. home[id] \in Conn => home'[id] = home[id]
  <2>1. CASE Server
    <3>1. SP!IInv /\ SockTurn(id)
      BY <2>1, ServerWay DEF Server, IInv, ServerPath
    <3>2. \A w \in Conn : Dialling(w, id) => home[id] \notin Conn
      BY <3>1, TargetFacts, DataFacts
    <3> QED  BY <3>1, <3>2 DEF SockTurn
  <2>2. CASE Agent \/ Network
    BY <2>2 DEF Agent, Network, serverVars
  <2> QED  BY <2>1, <2>2
<1>2. ASSUME NEW g \in Conn, HomeOrGone(g, id)
      PROVE  HomeOrGone(g, id)'
  <2>1. agentEnd[home[id]] = "closed" => agentEnd'[home[id]] = "closed"
    BY <1>2, ClosedStays DEF HomeOrGone
  <2> QED  BY <1>1, <1>2, <2>1 DEF HomeOrGone
<1> QED  BY <1>1, <1>2

\* What the lemmas about a step of the agent need.
LEMMA AgentGround ==
  ASSUME IInv, Agreed, Flows, OwnConnection, Agent
  PROVE  /\ AP!IInv /\ SP!IInv /\ UnsentIsUnknown /\ EndsFit /\ LinkTypeOK
         /\ AgentMove /\ DataMoves /\ MapMoves /\ ClientMoves
         /\ UNCHANGED <<home, sock, pipe, pseq, wrote, cut>>
         /\ \A w \in Conn : Dead(w) => Dead(w)'
         /\ \A g \in Conn, id \in ID : HomeOrGone(g, id) => HomeOrGone(g, id)'
         /\ \A id \in ID : op[id] \in Used \/ wr[id] = "send" => home[id] \in Conn
         /\ \A id \in ID : op[id] = "called" => home[id] = 0
         /\ \A id \in ID : home[id] \in Conn =>
              /\ agentEnd[home[id]] = "open" => ws = home[id]
              /\ agentEnd'[home[id]] = "open" => agentEnd[home[id]] = "open"
<1>1. AP!IInv /\ SP!IInv /\ UnsentIsUnknown /\ EndsFit /\ LinkTypeOK /\ A!AgentStep /\ CountersFit
  BY AgentFacts DEF IInv, Glue, Agent
<1>2. AgentMove /\ DataMoves /\ MapMoves /\ ClientMoves
  BY <1>1, AgentMoves, AgentFlow, AgentOnce
<1>3. UNCHANGED <<home, sock, pipe, pseq, wrote>>
  BY DEF Agent, serverVars
<1>4. UNCHANGED cut
  BY <1>2 DEF AgentMove, Dials, TakesOne, SendsUp, HangsUp, linkVars
<1>5. /\ \A w \in Conn : Dead(w) => Dead(w)'
      /\ \A g \in Conn, id \in ID : HomeOrGone(g, id) => HomeOrGone(g, id)'
  BY DeadStays, HomeStays
<1>6. \A id \in ID : op[id] \in Used \/ wr[id] = "send" => home[id] \in Conn
  BY DataFacts DEF Agreed, UsedIsDialled
<1>7. \A id \in ID : op[id] = "called" => home[id] = 0
  BY <1>1, DataFacts DEF UnsentIsUnknown, Unsent
<1>8. ASSUME NEW id \in ID, NEW w \in Conn, home[id] = w
      PROVE  /\ agentEnd[w] = "open" => ws = w
             /\ agentEnd'[w] = "open" => agentEnd[w] = "open"
  <2>1. agentEnd[w] \in {"open", "closed"}
    BY <1>1, <1>8 DEF LinkTypeOK, Agreed, Undialled
  <2>2. agentEnd[w] = "closed" => agentEnd'[w] = "closed"
    BY ClosedStays
  <2> QED  BY <2>1, <2>2 DEF Agreed, RunFits
<1> QED  BY <1>1, <1>2, <1>3, <1>4, <1>5, <1>6, <1>7, <1>8

LEMMA AgentKeepsNothing ==
  ASSUME IInv, Agreed, Flows, OwnConnection, Agent
  PROVE  NothingYet'
<1> SUFFICES ASSUME NEW id \in ID, sock'[id] = "none"
             PROVE  /\ sent'[id] = 0 /\ wrote'[id] = 0 /\ pseq'[id] = 0
                    /\ got'[id] = 0 /\ inCh'[id] = <<>>
  BY DEF NothingYet
<1>1. DataMoves /\ ClientMoves /\ UNCHANGED <<home, sock, pseq, wrote>>
  BY AgentGround
<1>2. /\ sent[id] = 0 /\ wrote[id] = 0 /\ pseq[id] = 0 /\ got[id] = 0 /\ inCh[id] = <<>>
      /\ home[id] \notin Conn
  BY <1>1, DataFacts DEF Flows, NothingYet
<1>3. op[id] \notin Used /\ wr[id] # "send"
  BY <1>2, AgentGround
<1>4. sent'[id] = sent[id]
  BY <1>1, <1>3, DataFacts DEF ClientMoves, Reads
<1>5. UNCHANGED <<got, inCh>> \/ (\E g \in Conn : Queues(g)) \/ (\E x \in ID : Reads(x))
  BY <1>1 DEF DataMoves, Quiet, Passes, Grasps, LetsGo
<1>6. ASSUME NEW g \in Conn, Queues(g)
      PROVE  UNCHANGED got /\ inCh'[id] = inCh[id]
  <2>1. rmsg[g].id \in ID /\ rpc[g] = "push"
    BY <1>6, DataFacts DEF Queues
  <2>2. rmsg[g].id # id
    BY <1>2, <2>1 DEF Flows, AtHome, Holds
  <2> QED  BY <1>6, <2>2, DataFacts DEF Queues
<1>7. ASSUME NEW x \in ID, Reads(x)
      PROVE  got'[id] = got[id] /\ inCh'[id] = inCh[id]
  BY <1>3, <1>7, DataFacts DEF Reads
<1> QED  BY <1>1, <1>2, <1>4, <1>5, <1>6, <1>7

LEMMA AgentKeepsHome ==
  ASSUME IInv, Agreed, Flows, OwnConnection, Agent
  PROVE  AtHome'
<1>1. /\ AP!IInv /\ UnsentIsUnknown /\ AgentMove /\ DataMoves /\ MapMoves /\ UNCHANGED home
      /\ \A g \in Conn, id \in ID : HomeOrGone(g, id) => HomeOrGone(g, id)'
  BY AgentGround
<1>2. ASSUME NEW g \in Conn, NEW id \in ID, NEW i \in Nat, InUp(g, i, "data", id)'
      PROVE  HomeOrGone(g, id)'
  <2>1. i \in 1 .. Len(up'[g]) /\ up'[g][i].type = "data" /\ up'[g][i].id = id
    BY <1>2 DEF InUp
  <2>2. CASE i \in 1 .. Len(up[g]) /\ up'[g][i] = up[g][i]
    BY <1>1, <2>1, <2>2 DEF Flows, AtHome, InUp
  <2>3. CASE g = ws /\ AgentSays(up'[g][i])
    <3>1. wr[id] = "send"
      BY <2>1, <2>3, SaidWhat
    <3>2. home[id] \in Conn
      BY <3>1, AgentGround
    <3>3. agentEnd[home[id]] \in {"open", "closed"}
      BY <3>2, AgentFacts DEF IInv, LinkTypeOK, Agreed, Undialled
    <3>4. HomeOrGone(g, id)
      BY <2>3, <3>2, <3>3, AgentGround DEF HomeOrGone
    <3> QED  BY <1>1, <3>4
  <2> QED  BY <1>1, <2>1, <2>2, <2>3, AgentUp
<1>3. ASSUME NEW g \in Conn, NEW id \in ID, NEW i \in Nat, NEW type, InDown(g, i, type, id)'
      PROVE  \E j \in Nat : InDown(g, j, type, id)
  BY <1>1, <1>3, AgentDown DEF InDown
<1>4. ASSUME NEW g \in Conn, NEW id \in ID, rpc'[g] = "drop", rmsg'[g].id = id
      PROVE  HomeOrGone(g, id)'
  <2>1. (rpc[g] = "drop" /\ rmsg[g].id = id) \/ InDown(g, 1, "close", id)
    BY <1>1, <1>4 DEF MapMoves
  <2> QED  BY <1>1, <2>1 DEF Flows, AtHome
<1>5. ASSUME NEW g \in Conn, NEW id \in ID, rpc'[g] = "push", rmsg'[g].id = id
      PROVE  home[id] = g
  <2>1. CASE rpc[g] = "push" /\ rmsg'[g] = rmsg[g]
    BY <1>5, <2>1 DEF Flows, AtHome, Holds
  <2>2. CASE Grasps(g)
    <3>1. 1 \in 1 .. Len(down[g]) /\ down[g][1] = Head(down[g])
      BY <2>2, DataFacts, TakeDownContents DEF Grasps
    <3>2. InDown(g, 1, "data", id)
      BY <1>5, <2>2, <3>1 DEF Grasps, InDown
    <3> QED  BY <3>2 DEF Flows, AtHome
  <2>3. (rpc[g] = "push" /\ rmsg'[g] = rmsg[g]) \/ Grasps(g)
    BY <1>1, <1>5
    DEF DataMoves, Quiet, Passes, Grasps, Queues, LetsGo, Reads, HandsKept, OtherHandsKept
  <2> QED  BY <2>1, <2>2, <2>3
<1>6. ASSUME NEW g \in Conn, NEW id \in ID
      PROVE  /\ \A i \in Nat : InDown(g, i, "close", id)' => HomeOrGone(g, id)'
             /\ \A i \in Nat : InDown(g, i, "data", id)' => home[id] = g
  BY <1>1, <1>3 DEF Flows, AtHome
<1> QED  BY <1>1, <1>2, <1>4, <1>5, <1>6 DEF AtHome, Holds

\* What the agent sends on a live connection is at the end of its queue.
LEMMA AgentAppends ==
  ASSUME IInv, AgentMove, NEW v \in Conn
  PROVE  \/ up'[v] = up[v]
         \/ \E msg \in Messages : AgentSays(msg) /\ up'[v] = Append(up[v], msg)
<1>1. LinkTypeOK /\ AP!IInv /\ UnsentIsUnknown
  BY AgentFacts DEF IInv, Glue
<1>2. CASE SendsUp
  <2>1. PICK msg : AgentSays(msg) /\ SendUp(ws, msg)
    BY <1>2 DEF SendsUp
  <2>2. msg \in Messages
    BY <1>1, <2>1, AgentSaysWell
  <2>3. up'[v] = up[v] \/ up'[v] = Append(up[v], msg)
    BY <1>1, <2>1 DEF SendUp, LinkTypeOK
  <2> QED  BY <2>1, <2>2, <2>3
<1> QED  BY <1>2 DEF AgentMove, Dials, TakesOne, HangsUp, linkVars

LEMMA AgentKeepsUp ==
  ASSUME IInv, Agreed, Flows, OwnConnection, Agent
  PROVE  UpFlows'
<1> SUFFICES ASSUME NEW id \in ID
             PROVE  /\ wrote[id] <= sent'[id]
                    /\ \A w \in Conn : (home[id] = w /\ sock[id] = "open") => UpFlow(w, id)'
  BY AgentGround DEF UpFlows
<1>1. /\ AP!IInv /\ SP!IInv /\ EndsFit /\ LinkTypeOK /\ AgentMove /\ ClientMoves /\ UNCHANGED wrote
      /\ \A w \in Conn : Dead(w) => Dead(w)'
  BY AgentGround
<1>2. wrote[id] \in Nat /\ sent[id] \in Nat /\ wrote[id] <= sent[id]
  BY DataFacts DEF Flows, UpFlows
<1>3. \/ sent'[id] = sent[id]
      \/ sent'[id] = sent[id] + 1 /\ A!Send(Data(id, sent[id] + 1))
  BY <1>1, DataFacts DEF ClientMoves
<1>4. ASSUME NEW w \in Conn, home[id] = w, sock[id] = "open"
      PROVE  UpFlow(w, id)'
  <2>1. /\ InOrder(up[w], id, wrote[id], sent[id]) /\ up[w] \in Seq(Messages)
        /\ ~Dead(w) => Complete(up[w], id, wrote[id], sent[id])
    BY <1>1, <1>4 DEF Flows, UpFlows, UpFlow, LinkTypeOK
  <2>2. SUFFICES /\ InOrder(up'[w], id, wrote[id], sent'[id])
                 /\ ~Dead(w) => Complete(up'[w], id, wrote[id], sent'[id])
    BY <1>1, <2>2 DEF UpFlow
  <2>3. CASE sent'[id] = sent[id] /\ up'[w] = up[w]
    BY <2>1, <2>3
  <2>4. CASE sent'[id] = sent[id] /\ up'[w] # up[w]
    <3>1. PICK msg \in Messages : AgentSays(msg) /\ up'[w] = Append(up[w], msg)
      BY <1>1, <2>4, AgentAppends
    <3>2. sent[id] + 1 # sent[id]
      BY <1>2
    <3>3. ~(msg.type = "data" /\ msg.id = id)
      BY <2>4, <3>1, <3>2 DEF AgentSays, Control, Open, Data, Close, Message
    <3> QED  BY <1>2, <2>1, <2>4, <3>1, <3>3, AppendKeepsOrder
  <2>5. CASE sent'[id] = sent[id] + 1 /\ SendUp(ws, Data(id, sent[id] + 1)) /\ ws # 0
    <3>1. Data(id, sent[id] + 1) \in Messages /\ sent[id] + 1 \in Nat
      BY <1>2, MessageTypes
    <3>2. CASE Dead(w)
      <4>1. up'[w] = up[w]
        BY <1>1, <2>5, <3>2 DEF SendUp, Dead, LinkTypeOK
      <4> QED  BY <1>2, <2>1, <2>5, <3>1, <3>2, <4>1, LaterEnd
    <3>3. CASE ~Dead(w)
      <4>1. w = ws /\ Alive(w)
        BY <1>1, <1>4, <3>3, LiveIsCurrent DEF Agreed
      <4>2. up'[w] = Append(up[w], Data(id, sent[id] + 1))
        BY <1>1, <2>5, <4>1 DEF SendUp, Alive, LinkTypeOK
      <4>3. Data(id, sent[id] + 1).type = "data" /\ Data(id, sent[id] + 1).id = id
            /\ Data(id, sent[id] + 1).n = sent[id] + 1
        BY DEF Data, Message
      <4> QED  BY <1>2, <2>1, <2>5, <3>1, <3>3, <4>2, <4>3, AppendKeepsOrder
    <3> QED  BY <3>2, <3>3
  <2> QED  BY <1>3, <2>3, <2>4, <2>5, SameLink DEF A!Send
<1>5. wrote[id] <= sent'[id]
  BY <1>2, <1>3
<1> QED  BY <1>4, <1>5

LEMMA AgentKeepsQueue ==
  ASSUME IInv, Agreed, Flows, OwnConnection, Agent
  PROVE  QueueFlows'
<1> SUFFICES ASSUME NEW id \in ID, NEW i \in 1 .. Len(inCh'[id])
             PROVE  inCh'[id][i] = got'[id] + i
  BY DEF QueueFlows
<1>1. /\ \A k \in 1 .. Len(inCh[id]) : inCh[id][k] = got[id] + k
      /\ inCh[id] \in Seq(Nat) /\ Len(inCh[id]) \in Nat /\ got[id] \in Nat
  BY DataFacts DEF Flows, QueueFlows
<1>2. DataMoves
  BY AgentGround
<1>3. CASE inCh'[id] = inCh[id] /\ got'[id] = got[id]
  BY <1>1, <1>3
<1>4. ASSUME NEW g \in Conn, Queues(g), rmsg[g].id = id
      PROVE  inCh'[id][i] = got'[id] + i
  <2>1. rmsg[g].n \in Nat /\ rmsg[g].n = Queued(id) + 1 /\ got'[id] = got[id]
    <3>1. Holds(g, id) /\ home[id] = g
      BY <1>4 DEF Flows, AtHome, Holds, Queues
    <3>2. rmsg[g].n = Queued(id) + 1
      BY <3>1 DEF Flows, DownFlows, DownFlow
    <3> QED  BY <1>4, <3>1, <3>2, DataFacts DEF Queues
  <2>2. inCh'[id] = Append(inCh[id], rmsg[g].n)
    BY <1>4, DataFacts DEF Queues
  <2>3. /\ Len(inCh'[id]) = Len(inCh[id]) + 1
        /\ \A k \in 1 .. Len(inCh[id]) : inCh'[id][k] = inCh[id][k]
        /\ inCh'[id][Len(inCh[id]) + 1] = rmsg[g].n
    BY <1>1, <2>1, <2>2, AppendProperties
  <2>4. i \in 1 .. Len(inCh[id]) \/ i = Len(inCh[id]) + 1
    BY <1>1, <2>3
  <2>5. Queued(id) + 1 = got[id] + (Len(inCh[id]) + 1)
    BY <1>1 DEF Queued
  <2> QED  BY <1>1, <2>1, <2>3, <2>4, <2>5
<1>5. CASE Reads(id)
  <2>1. got'[id] = Head(inCh[id]) /\ inCh'[id] = Tail(inCh[id]) /\ inCh[id] # <<>>
    BY <1>5, DataFacts DEF Reads
  <2>2. /\ Head(inCh[id]) = inCh[id][1] /\ Len(inCh'[id]) = Len(inCh[id]) - 1
        /\ \A k \in 1 .. Len(inCh'[id]) : inCh'[id][k] = inCh[id][k + 1]
    BY <1>1, <2>1, HeadTailProperties
  <2>3. Len(inCh[id]) # 0
    BY <1>1, <2>1, EmptySeq
  <2>4. 1 \in 1 .. Len(inCh[id]) /\ i + 1 \in 1 .. Len(inCh[id])
    BY <1>1, <2>2, <2>3
  <2>5. inCh'[id][i] = got[id] + (i + 1) /\ got'[id] = got[id] + 1
    BY <1>1, <2>1, <2>2, <2>4
  <2> QED  BY <1>1, <2>5
<1>6. \/ inCh'[id] = inCh[id] /\ got'[id] = got[id]
      \/ \E g \in Conn : Queues(g) /\ rmsg[g].id = id
      \/ Reads(id)
  BY <1>2, DataFacts DEF DataMoves, Quiet, Passes, Grasps, Queues, LetsGo, Reads
<1> QED  BY <1>3, <1>4, <1>5, <1>6

\* A reader that lets go of data finds its stream closed for good.
LEMMA LetGoIsOver ==
  ASSUME IInv, Agreed, Flows, NEW w \in Conn, LetsGo(w), rmsg[w].id \in streams
  PROVE  agentEnd[w] # "open"
<1> DEFINE id == rmsg[w].id
<1>1. AP!IInv /\ id \in ID /\ home[id] = w /\ once[id] = "done" /\ rpc[w] = "push"
  BY DataFacts DEF IInv, LetsGo, Flows, AtHome, Holds
<1>2. AP!Stuck \/ \E g \in Conn : rpc[g] = "drop" /\ rmsg[g].id = id
  BY <1>1 DEF AP!IInv, AP!DoneIsDropped, AP!Conn, Conn
<1>3. AP!Stuck => ws = 0
  BY DEF AP!Stuck, AP!PendingFree, AP!StreamsFree, Agreed, RunFits, Attached
<1>4. ASSUME NEW g \in Conn, rpc[g] = "drop", rmsg[g].id = id
      PROVE  agentEnd[w] = "closed"
  <2>1. HomeOrGone(g, id)
    BY <1>1, <1>4 DEF Flows, AtHome
  <2> QED  BY <1>1, <1>4, <2>1 DEF HomeOrGone
<1> QED  BY <1>1, <1>2, <1>3, <1>4, DataFacts DEF Agreed, RunFits

\* Where neither the hands nor the queues of a stream have changed.
LEMMA SameDown ==
  ASSUME NEW w \in Conn, NEW id \in ID, DownFlow(w, id),
         Holds(w, id)' <=> Holds(w, id), Holds(w, id) => rmsg'[w] = rmsg[w],
         UNCHANGED <<inCh[id], got[id], pipe[id], pseq[id]>>,
         cut[w] => cut'[w],
         id \in streams' /\ agentEnd'[w] = "open" =>
           id \in streams /\ agentEnd[w] = "open" /\ down'[w] = down[w]
  PROVE  DownFlow(w, id)'
<1>1. /\ Queued(id)' = Queued(id) /\ Said(id)' = Said(id) /\ Reached(w, id)' = Reached(w, id)
  BY DEF Queued, Said, Reached
<1> QED  BY <1>1 DEF DownFlow

LEMMA AgentKeepsDown ==
  ASSUME IInv, Agreed, Flows, OwnConnection, Agent
  PROVE  DownFlows'
<1>1. /\ LinkTypeOK /\ DataMoves /\ MapMoves /\ UNCHANGED <<home, pipe, pseq, cut>>
  BY AgentGround
<1> SUFFICES ASSUME NEW id \in ID, NEW w \in Conn, home[id] = w
             PROVE  DownFlow(w, id)'
  BY <1>1 DEF DownFlows
<1>2. /\ id \in streams' => id \in streams
      /\ agentEnd'[w] = "open" => agentEnd[w] = "open"
  BY <1>1, AgentGround, DataFacts DEF MapMoves
<1>3. /\ DownFlow(w, id) /\ down[w] \in Seq(Messages)
      /\ Queued(id) \in Nat /\ Said(id) \in Nat /\ Reached(w, id) \in Nat
      /\ Said(id)' = Said(id)
  BY <1>1, DataFacts DEF Flows, DownFlows, LinkTypeOK, Said
<1>4. CASE Quiet
  <2>1. down'[w] = down[w] \/ agentEnd'[w] = "closed"
    BY <1>1, <1>4 DEF Quiet, CloseAgentEnd, LinkTypeOK
  <2> QED  BY <1>1, <1>2, <1>3, <1>4, <2>1, SameDown DEF Quiet, HandsKept, Holds
<1>5. ASSUME NEW g \in Conn, Passes(g)
      PROVE  DownFlow(w, id)'
  <2>1. Holds(w, id)' <=> Holds(w, id)
    BY <1>5 DEF Passes, HandsKept, Holds
  <2>2. CASE g # w
    <3>1. down'[w] = down[w]
      BY <1>1, <1>5, <2>2 DEF Passes, TakeDown, LinkTypeOK
    <3> QED  BY <1>1, <1>2, <1>3, <1>5, <2>1, <3>1, SameDown DEF Passes, HandsKept, Holds
  <2>3. CASE g = w
    <3>1. down'[w] = Tail(down[w]) /\ down[w] # <<>>
      BY <1>1, <1>5, <2>3 DEF Passes, TakeDown, LinkTypeOK
    <3>2. Queued(id)' = Queued(id) /\ Reached(w, id)' = Reached(w, id)
      BY <1>5, <2>1 DEF Passes, Queued, Reached
    <3>3. Holds(w, id) => rmsg'[w] = rmsg[w]
      BY <1>5 DEF Passes, HandsKept, Holds
    <3>4. ASSUME id \in streams
          PROVE  /\ InOrder(down[w], id, Reached(w, id), Said(id)) =>
                      InOrder(down'[w], id, Reached(w, id), Said(id))
                 /\ Complete(down[w], id, Reached(w, id), Said(id)) =>
                      Complete(down'[w], id, Reached(w, id), Said(id))
      <4>1. ~(Head(down[w]).type = "data" /\ Head(down[w]).id = id)
        BY <1>5, <2>3, <3>4 DEF Passes
      <4> QED  BY <1>3, <3>1, <4>1, TakeOther
    <3> QED  BY <1>1, <1>2, <1>3, <2>1, <3>2, <3>3, <3>4 DEF DownFlow
  <2> QED  BY <2>2, <2>3
<1>6. ASSUME NEW g \in Conn, Grasps(g)
      PROVE  DownFlow(w, id)'
  <2>1. CASE g # w
    <3>1. down'[w] = down[w]
      BY <1>1, <1>6, <2>1 DEF Grasps, TakeDown, LinkTypeOK
    <3> QED  BY <1>1, <1>2, <1>3, <1>6, <2>1, <3>1, SameDown DEF Grasps, OtherHandsKept, Holds
  <2>2. CASE g = w
    <3>1. /\ down'[w] = Tail(down[w]) /\ down[w] # <<>> /\ agentEnd[w] = "open"
          /\ rpc[w] # "push" /\ rpc'[w] = "push" /\ rmsg'[w] = Head(down[w])
          /\ Head(down[w]).type = "data" /\ Head(down[w]).id \in streams
          /\ UNCHANGED <<inCh, got>>
      BY <1>1, <1>6, <2>2 DEF Grasps, TakeDown, LinkTypeOK
    <3>2. ~Holds(w, id) /\ Reached(w, id) = Queued(id) /\ Queued(id)' = Queued(id)
      BY <3>1 DEF Holds, Reached, Queued
    <3>3. CASE Head(down[w]).id = id
      <4>1. Holds(w, id)' /\ Reached(w, id)' = Queued(id) + 1
        BY <3>1, <3>2, <3>3 DEF Holds, Reached
      <4>2. InOrder(down[w], id, Queued(id), Said(id))
        BY <1>3, <3>1, <3>2, <3>3 DEF DownFlow
      <4>3. /\ Head(down[w]).n = Queued(id) + 1 /\ Queued(id) < Said(id)
            /\ InOrder(Tail(down[w]), id, Queued(id) + 1, Said(id))
            /\ Complete(down[w], id, Queued(id), Said(id)) =>
                 Complete(Tail(down[w]), id, Queued(id) + 1, Said(id))
        BY <1>3, <3>1, <3>3, <4>2, TakeNext
      <4>4. Queued(id) + 1 <= Said(id)
        BY <1>3, <4>3
      <4> QED  BY <1>1, <1>2, <1>3, <3>1, <3>2, <4>1, <4>3, <4>4 DEF DownFlow
    <3>4. CASE Head(down[w]).id # id
      <4>1. ~Holds(w, id)' /\ Reached(w, id)' = Reached(w, id)
        BY <3>1, <3>2, <3>4 DEF Holds, Reached
      <4>2. /\ InOrder(down[w], id, Reached(w, id), Said(id)) =>
                 InOrder(down'[w], id, Reached(w, id), Said(id))
            /\ Complete(down[w], id, Reached(w, id), Said(id)) =>
                 Complete(down'[w], id, Reached(w, id), Said(id))
        BY <1>3, <3>1, <3>4, TakeOther
      <4> QED  BY <1>1, <1>2, <1>3, <3>2, <4>1, <4>2 DEF DownFlow
    <3> QED  BY <3>3, <3>4
  <2> QED  BY <2>1, <2>2
<1>7. ASSUME NEW g \in Conn, Queues(g) \/ LetsGo(g)
      PROVE  DownFlow(w, id)'
  <2>1. /\ rmsg[g].id \in ID /\ home[rmsg[g].id] = g /\ rpc[g] = "push" /\ rpc'[g] = "top"
        /\ OtherHandsKept(g) /\ UNCHANGED <<got, down, agentEnd>>
    BY <1>7, DataFacts DEF Queues, LetsGo, Flows, AtHome, Holds
  <2>2. CASE rmsg[g].id # id
    <3>1. inCh'[id] = inCh[id]
      BY <1>7, <2>1, <2>2, DataFacts DEF Queues, LetsGo
    <3>2. (Holds(w, id)' <=> Holds(w, id)) /\ (Holds(w, id) => rmsg'[w] = rmsg[w])
      BY <2>1, <2>2 DEF Holds, OtherHandsKept
    <3> QED  BY <1>1, <1>2, <1>3, <2>1, <3>1, <3>2, SameDown
  <2>3. CASE rmsg[g].id = id
    <3>1. g = w /\ Holds(w, id) /\ ~Holds(w, id)' /\ Reached(w, id)' = Queued(id)'
      BY <2>1, <2>3 DEF Holds, Reached
    <3>2. Reached(w, id) = Queued(id) + 1 /\ rmsg[w].n = Queued(id) + 1
      BY <1>3, <3>1 DEF Reached, DownFlow
    <3>3. CASE Queues(g)
      <4>1. inCh'[id] = Append(inCh[id], rmsg[w].n) /\ inCh[id] \in Seq(Nat) /\ rmsg[w].n \in Nat
        BY <2>1, <2>3, <3>1, <3>3, DataFacts DEF Queues
      <4>2. Len(inCh'[id]) = Len(inCh[id]) + 1
        BY <4>1, AppendProperties
      <4>3. Queued(id)' = Queued(id) + 1
        BY <2>1, <4>2, DataFacts DEF Queued
      <4> QED  BY <1>1, <1>2, <1>3, <2>1, <3>1, <3>2, <4>3 DEF DownFlow
    <3>4. CASE LetsGo(g)
      <4>1. Queued(id)' = Queued(id)
        BY <2>1, <3>4 DEF Queued, LetsGo
      <4>2. Queued(id) <= Said(id)
        BY <1>3, <3>2 DEF DownFlow
      <4>3. ~(id \in streams /\ agentEnd[w] = "open")
        BY <2>3, <3>1, <3>4, LetGoIsOver
      <4> QED  BY <1>2, <1>3, <2>1, <3>1, <4>1, <4>2, <4>3 DEF DownFlow
    <3> QED  BY <1>7, <3>3, <3>4
  <2> QED  BY <2>2, <2>3
<1>8. ASSUME NEW x \in ID, Reads(x)
      PROVE  DownFlow(w, id)'
  <2>1. /\ (Holds(w, id)' <=> Holds(w, id)) /\ (Holds(w, id) => rmsg'[w] = rmsg[w])
        /\ UNCHANGED <<down, agentEnd>>
    BY <1>8 DEF Reads, HandsKept, Holds
  <2>2. CASE x # id
    <3>1. inCh'[id] = inCh[id] /\ got'[id] = got[id]
      BY <1>8, <2>2, DataFacts DEF Reads
    <3> QED  BY <1>1, <1>2, <1>3, <2>1, <3>1, SameDown
  <2>3. CASE x = id
    <3>1. /\ inCh[id] # <<>> /\ inCh[id] \in Seq(Nat) /\ Len(inCh[id]) \in Nat /\ got[id] \in Nat
          /\ got'[id] = Head(inCh[id]) /\ inCh'[id] = Tail(inCh[id])
      BY <1>8, <2>3, DataFacts DEF Reads
    <3>2. Head(inCh[id]) = inCh[id][1] /\ Len(inCh'[id]) = Len(inCh[id]) - 1 /\ Len(inCh[id]) # 0
      BY <3>1, HeadTailProperties, EmptySeq
    <3>3. 1 \in 1 .. Len(inCh[id])
      BY <3>1, <3>2
    <3>4. inCh[id][1] = got[id] + 1
      BY <3>3 DEF Flows, QueueFlows
    <3>5. Queued(id)' = Queued(id)
      BY <3>1, <3>2, <3>4 DEF Queued
    <3>6. Reached(w, id)' = Reached(w, id)
      BY <2>1, <3>5 DEF Reached
    <3> QED  BY <1>1, <1>2, <1>3, <2>1, <3>5, <3>6 DEF DownFlow
  <2> QED  BY <2>2, <2>3
<1> QED  BY <1>1, <1>4, <1>5, <1>6, <1>7, <1>8 DEF DataMoves

----------------------------------------------------------------------------
(* So does a step of the server, and of the network. *)

\* What the lemmas about a step of the server need.
LEMMA ServerGround ==
  ASSUME IInv, Server
  PROVE  /\ AP!IInv /\ SP!IInv /\ Glue /\ LinkTypeOK /\ S!ServerStep
         /\ ServerMove /\ ServerPath /\ TargetMoves /\ \A id \in ID : SaidTurn(id)
         /\ UNCHANGED <<streams, op, inCh, got, sent, rpc, rmsg, agentEnd, cut>>
         /\ \A w \in Conn : Dead(w) => Dead(w)'
         /\ \A g \in Conn, id \in ID : HomeOrGone(g, id) => HomeOrGone(g, id)'
         /\ \A id \in ID : home[id] \in Conn => home'[id] = home[id]
<1>1. AP!IInv /\ SP!IInv /\ Glue /\ LinkTypeOK /\ S!ServerStep
  BY AgentFacts DEF IInv, Server
<1>2. /\ ServerMove /\ ServerPath /\ TargetMoves /\ \A id \in ID : SaidTurn(id)
  BY <1>1, ServerMoves, ServerWay, ServerOnce
<1>3. UNCHANGED <<streams, op, inCh, got, sent, rpc, rmsg>>
  BY DEF Server, agentVars
<1>4. UNCHANGED <<agentEnd, cut>>
  BY <1>2 DEF ServerMove, Talks, Leaves, Closes, linkVars
<1> QED  BY <1>1, <1>2, <1>3, <1>4, DeadStays, HomeStays

\* The data of the server is what a pipe has just read.
LEMMA DataSaid ==
  ASSUME NEW w, NEW msg, ServerSays(w, msg), msg.type = "data"
  PROVE  home[msg.id] = w /\ pipe[msg.id] = "send" /\ pipe'[msg.id] = "read"
BY DEF ServerSays, AuthResp, Control, OpenResp, Data, Close, Message

LEMMA ServerKeepsNothing ==
  ASSUME IInv, Flows, Server
  PROVE  NothingYet'
<1> SUFFICES ASSUME NEW id \in ID, sock'[id] = "none"
             PROVE  sock[id] = "none" /\ wrote'[id] = wrote[id] /\ pseq'[id] = pseq[id]
  BY ServerGround DEF NothingYet, Flows
<1>1. TargetMoves /\ sock \in [ID -> {"none", "open", "closed"}]
  BY ServerGround, ServerFacts
<1>2. sock[id] = "none"
  BY <1>1 DEF TargetMoves
<1>3. wrote'[id] = wrote[id] /\ pseq'[id] = pseq[id]
  BY <1>1, <1>2, DataFacts DEF TargetMoves, Writes
<1> QED  BY <1>2, <1>3

LEMMA ServerKeepsHome ==
  ASSUME IInv, Flows, Server
  PROVE  AtHome'
<1>1. /\ SP!IInv /\ ServerMove /\ UNCHANGED <<rpc, rmsg>>
      /\ \A g \in Conn, id \in ID : HomeOrGone(g, id) => HomeOrGone(g, id)'
      /\ \A id \in ID : home[id] \in Conn => home'[id] = home[id]
  BY ServerGround
<1>2. ASSUME NEW g \in Conn, NEW id \in ID, NEW i \in Nat, InUp(g, i, "data", id)'
      PROVE  HomeOrGone(g, id)'
  <2>1. i + 1 \in Nat
    OBVIOUS
  <2>2. \E j \in Nat : InUp(g, j, "data", id)
    BY <1>1, <1>2, <2>1, ServerUp DEF InUp
  <2> QED  BY <1>1, <2>2 DEF Flows, AtHome
<1>3. ASSUME NEW g \in Conn, NEW id \in ID, NEW i \in Nat, InDown(g, i, "close", id)'
      PROVE  HomeOrGone(g, id)'
  <2>1. i \in 1 .. Len(down'[g]) /\ down'[g][i].type = "close" /\ down'[g][i].id = id
    BY <1>3 DEF InDown
  <2>2. CASE i \in 1 .. Len(down[g]) /\ down'[g][i] = down[g][i]
    BY <1>1, <2>1, <2>2 DEF Flows, AtHome, InDown
  <2>3. CASE ServerSays(g, down'[g][i])
    <3>1. \/ hid[g] = id /\ hpc[g] = "failTell"
          \/ home[id] = g
          \/ InUp(g, 1, "data", id)
      BY <2>1, <2>3, SaidWhat
    <3>2. HomeOrGone(g, id)
      BY <1>1, <3>1, TargetFacts DEF HomeOrGone, Flows, AtHome
    <3> QED  BY <1>1, <3>2
  <2> QED  BY <1>1, <2>1, <2>2, <2>3, ServerDown
<1>4. ASSUME NEW g \in Conn, NEW id \in ID, NEW i \in Nat, InDown(g, i, "data", id)'
      PROVE  home'[id] = g
  <2>1. i \in 1 .. Len(down'[g]) /\ down'[g][i].type = "data" /\ down'[g][i].id = id
    BY <1>4 DEF InDown
  <2>2. CASE i \in 1 .. Len(down[g]) /\ down'[g][i] = down[g][i]
    BY <1>1, <2>1, <2>2 DEF Flows, AtHome, InDown
  <2>3. CASE ServerSays(g, down'[g][i])
    BY <1>1, <2>1, <2>3, DataSaid
  <2> QED  BY <1>1, <2>1, <2>2, <2>3, ServerDown
<1>5. ASSUME NEW g \in Conn, NEW id \in ID
      PROVE  /\ (rpc'[g] = "drop" /\ rmsg'[g].id = id) => HomeOrGone(g, id)'
             /\ (rpc'[g] = "push" /\ rmsg'[g].id = id) => home'[id] = g
  BY <1>1 DEF Flows, AtHome, Holds
<1> QED  BY <1>2, <1>3, <1>4, <1>5 DEF AtHome, Holds

\* A handler takes the first message, or nothing, or closes the connection.
LEMMA ServerTakes ==
  ASSUME IInv, ServerMove, NEW v \in Conn, ~TakeUp(v)
  PROVE  up'[v] = up[v] \/ (up'[v] = <<>> /\ serverEnd'[v] = "closed")
<1>1. LinkTypeOK
  BY DataFacts
<1>2. ASSUME NEW w \in Conn, w # v, TakeUp(w)
      PROVE  up'[v] = up[v]
  BY <1>1, <1>2 DEF TakeUp, LinkTypeOK
<1>3. ASSUME NEW w \in Conn, Closes(w)
      PROVE  up'[v] = up[v] \/ (up'[v] = <<>> /\ serverEnd'[v] = "closed")
  BY <1>1, <1>3 DEF Closes, LinkTypeOK
<1> QED  BY <1>2, <1>3 DEF ServerMove, Talks, Leaves, linkVars

\* Data for an open target is written to it when it is taken.
LEMMA TakenIsWritten ==
  ASSUME IInv, Agreed, Server, NEW w \in Conn, TakeUp(w), NEW id \in ID,
         Head(up[w]).type = "data", Head(up[w]).id = id,
         home[id] = w, sock[id] = "open", sock'[id] = "open"
  PROVE  wrote'[id] = Head(up[w]).n
<1> DEFINE m == Head(up[w])
<1>1. SP!IInv /\ S!HandleMessage(w)
  BY ServerGround, TakeIsHandled
<1>2. authed[w] /\ id \in conns[w]
  BY <1>1, TargetFacts DEF Agreed, AuthedFits
<1>3. S!HandleData(w, m) \/ S!HandleDataFails(w, m)
  BY <1>1, <1>2
  DEF S!HandleMessage, S!Unauthorized, S!AuthRefused, S!Authenticate, S!HandleOpen, S!HandleClose,
      S!HandleDataUnknown, S!HandlePing, S!HandlePong, S!HandleUnknown
<1>4. ~S!HandleDataFails(w, m)
  BY <1>1, ServerFacts DEF S!HandleDataFails
<1> QED  BY <1>3, <1>4, DataFacts DEF S!HandleData

LEMMA ServerKeepsUp ==
  ASSUME IInv, Agreed, Flows, Server
  PROVE  UpFlows'
<1>1. /\ SP!IInv /\ LinkTypeOK /\ ServerMove /\ TargetMoves /\ UNCHANGED sent
      /\ \A w \in Conn : Dead(w) => Dead(w)'
      /\ \A id \in ID : home[id] \in Conn => home'[id] = home[id]
  BY ServerGround
<1>2. SUFFICES ASSUME NEW id \in ID
               PROVE  /\ wrote'[id] <= sent[id]
                      /\ \A w \in Conn : (home'[id] = w /\ sock'[id] = "open") => UpFlow(w, id)'
  BY <1>1 DEF UpFlows
<1>3. wrote[id] \in Nat /\ sent[id] \in Nat /\ wrote[id] <= sent[id]
  BY DataFacts DEF Flows, UpFlows
<1>4. wrote'[id] = wrote[id] \/ \E v \in Conn : Writes(v, id)
  BY <1>1, DataFacts DEF TargetMoves, Writes
<1>5. ASSUME NEW v \in Conn, Writes(v, id)
      PROVE  home[id] = v /\ TakeUp(v) /\ sock[id] = "open" /\ wrote'[id] = Head(up[v]).n
  BY <1>1, <1>5, ServerFacts, DataFacts DEF Writes
<1>6. ASSUME NEW w \in Conn, home[id] = w, sock[id] = "open"
      PROVE  /\ InOrder(up[w], id, wrote[id], sent[id]) /\ up[w] \in Seq(Messages)
             /\ ~Dead(w) => Complete(up[w], id, wrote[id], sent[id])
  BY <1>1, <1>6 DEF Flows, UpFlows, UpFlow, LinkTypeOK
<1>7. ASSUME NEW w \in Conn, home[id] = w, sock[id] = "open", TakeUp(w),
             Head(up[w]).type = "data", Head(up[w]).id = id
      PROVE  /\ Head(up[w]).n = wrote[id] + 1 /\ wrote[id] < sent[id]
             /\ InOrder(up'[w], id, wrote[id] + 1, sent[id])
             /\ ~Dead(w) => Complete(up'[w], id, wrote[id] + 1, sent[id])
  <2>1. up'[w] = Tail(up[w]) /\ up[w] # <<>>
    BY <1>1, <1>7 DEF TakeUp, LinkTypeOK
  <2> QED  BY <1>3, <1>6, <1>7, <2>1, TakeNext
<1>8. wrote'[id] <= sent[id]
  <2>1. ASSUME NEW v \in Conn, Writes(v, id)
        PROVE  wrote'[id] <= sent[id]
    <3>1. Head(up[v]).n = wrote[id] + 1 /\ wrote[id] < sent[id]
      BY <1>5, <1>7, <2>1 DEF Writes
    <3> QED  BY <1>3, <1>5, <2>1, <3>1
  <2> QED  BY <1>3, <1>4, <2>1
<1>9. ASSUME NEW w \in Conn, home'[id] = w, sock'[id] = "open"
      PROVE  UpFlow(w, id)'
  <2>1. SUFFICES /\ InOrder(up'[w], id, wrote'[id], sent[id])
                 /\ ~Dead(w)' => Complete(up'[w], id, wrote'[id], sent[id])
    BY <1>1 DEF UpFlow
  <2>2. CASE sock[id] = "open"
    <3>1. home[id] = w
      BY <1>1, <1>9, <2>2, DataFacts
    <3>2. CASE TakeUp(w) /\ Head(up[w]).type = "data" /\ Head(up[w]).id = id
      <4>1. wrote'[id] = wrote[id] + 1
        BY <1>7, <1>9, <2>2, <3>1, <3>2, TakenIsWritten
      <4> QED  BY <1>1, <1>7, <2>2, <3>1, <3>2, <4>1
    <3>3. CASE ~(TakeUp(w) /\ Head(up[w]).type = "data" /\ Head(up[w]).id = id)
      <4>1. wrote'[id] = wrote[id]
        BY <1>4, <1>5, <3>1, <3>3 DEF Writes
      <4>2. CASE TakeUp(w)
        <5>1. up'[w] = Tail(up[w]) /\ up[w] # <<>>
          BY <1>1, <4>2 DEF TakeUp, LinkTypeOK
        <5> QED  BY <1>1, <1>6, <2>2, <3>1, <3>3, <4>1, <4>2, <5>1, TakeOther
      <4>3. CASE up'[w] = up[w]
        BY <1>1, <1>6, <2>2, <3>1, <4>1, <4>3
      <4>4. CASE up'[w] = <<>> /\ serverEnd'[w] = "closed"
        <5>1. \A i \in Nat : ~IsData(up'[w], i, id)
          BY <4>4, EmptySeq DEF IsData
        <5>2. Dead(w)'
          BY <4>4 DEF Dead
        <5> QED  BY <5>1, <5>2, NothingInOrder
      <4> QED  BY <1>1, <4>2, <4>3, <4>4, ServerTakes
    <3> QED  BY <3>2, <3>3
  <2>3. CASE sock[id] # "open"
    <3>1. sock[id] = "none"
      BY <1>1, <1>9, <2>3, ServerFacts DEF TargetMoves
    <3>2. sent[id] = 0 /\ wrote'[id] = 0 /\ home[id] \notin Conn
      BY <1>4, <1>5, <2>3, <3>1, DataFacts DEF Flows, NothingYet
    <3>3. ASSUME NEW i \in Nat, IsData(up'[w], i, id)
          PROVE  FALSE
      <4>1. i + 1 \in Nat
        OBVIOUS
      <4>2. \E j \in Nat : InUp(w, j, "data", id)
        BY <1>1, <3>3, <4>1, ServerUp DEF InUp, IsData
      <4> QED  BY <3>2, <4>2 DEF Flows, AtHome, HomeOrGone
    <3>4. InOrder(up'[w], id, wrote'[id], sent[id])
      BY <3>3, NothingInOrder
    <3>5. Complete(up'[w], id, wrote'[id], sent[id])
      BY <3>2 DEF Complete
    <3> QED  BY <3>4, <3>5
  <2> QED  BY <2>2, <2>3
<1> QED  BY <1>8, <1>9

\* What the server sends on a live connection is at the end of its queue.
LEMMA ServerAppends ==
  ASSUME IInv, ServerMove, NEW v \in Conn
  PROVE  \/ down'[v] = down[v]
         \/ \E msg \in Messages : ServerSays(v, msg) /\ down'[v] = Append(down[v], msg)
<1>1. LinkTypeOK
  BY DataFacts
<1>2. ASSUME NEW w \in Conn, NEW msg, ServerSays(w, msg), SendDown(w, msg)
      PROVE  \/ down'[v] = down[v]
             \/ \E m \in Messages : ServerSays(v, m) /\ down'[v] = Append(down[v], m)
  <2>1. msg \in Messages
    <3>1. \A n \in 1 .. MaxData : n \in Nat
      OBVIOUS
    <3> QED  BY <1>2, <3>1, MessageTypes DEF ServerSays
  <2>2. down'[v] = down[v] \/ (v = w /\ down'[v] = Append(down[v], msg))
    BY <1>1, <1>2 DEF SendDown, LinkTypeOK
  <2> QED  BY <1>2, <2>1, <2>2
<1> QED  BY <1>2 DEF ServerMove, Talks, Leaves, Closes, linkVars

LEMMA ServerKeepsQueue ==
  ASSUME IInv, Flows, Server
  PROVE  QueueFlows'
BY ServerGround DEF Flows, QueueFlows

\* The first data of a target is said after it has been dialled.
LEMMA NewTarget ==
  ASSUME IInv, Flows, Server, NEW id \in ID, NEW w \in Conn, home[id] \notin Conn
  PROVE  DownFlow(w, id)'
<1>1. /\ SP!IInv /\ ServerMove /\ UNCHANGED <<inCh, got, rpc, rmsg>> /\ SaidTurn(id)
  BY ServerGround
<1>2. sock[id] = "none" /\ pipe[id] = "off"
  BY DataFacts
<1>3. pseq[id] = 0 /\ got[id] = 0 /\ inCh[id] = <<>>
  BY <1>2 DEF Flows, NothingYet
<1>4. Said(id)' = 0
  BY <1>1, <1>2, <1>3 DEF SaidTurn, Said
<1>5. ~Holds(w, id)'
  BY <1>1 DEF Flows, AtHome, Holds
<1>6. Reached(w, id)' = 0
  <2>1. Len(inCh[id]) = 0
    BY <1>3, EmptySeq
  <2> QED  BY <1>1, <1>3, <1>5, <2>1 DEF Reached, Queued
<1>7. ASSUME NEW i \in Nat, IsData(down'[w], i, id)
      PROVE  FALSE
  <2>1. \/ InDown(w, i, "data", id)
        \/ ServerSays(w, down'[w][i])
    BY <1>1, <1>7, ServerDown DEF IsData, InDown
  <2>2. home[id] = w
    BY <1>7, <2>1, DataSaid DEF IsData, Flows, AtHome
  <2> QED  BY <2>2
<1>8. InOrder(down'[w], id, 0, 0)
  BY <1>7, NothingInOrder
<1>9. Complete(down'[w], id, 0, 0)
  BY DEF Complete
<1> QED  BY <1>4, <1>5, <1>6, <1>8, <1>9 DEF DownFlow

LEMMA ServerKeepsDown ==
  ASSUME IInv, Flows, Server
  PROVE  DownFlows'
<1>1. /\ LinkTypeOK /\ ServerMove /\ UNCHANGED <<streams, inCh, got, rpc, rmsg, agentEnd, cut>>
      /\ \A id \in ID : SaidTurn(id)
      /\ \A id \in ID : home[id] \in Conn => home'[id] = home[id]
  BY ServerGround
<1> SUFFICES ASSUME NEW id \in ID, NEW w \in Conn, home'[id] = w
             PROVE  DownFlow(w, id)'
  BY DEF DownFlows
<1>2. CASE home[id] \notin Conn
  BY <1>2, NewTarget
<1>3. CASE home[id] \in Conn
  <2>1. home[id] = w
    BY <1>1, <1>3
  <2>2. /\ DownFlow(w, id) /\ down[w] \in Seq(Messages)
        /\ Said(id) \in Nat /\ Reached(w, id) \in Nat
    BY <1>1, <2>1, DataFacts DEF Flows, DownFlows, LinkTypeOK
  <2>3. /\ Holds(w, id)' <=> Holds(w, id)
        /\ Reached(w, id)' = Reached(w, id) /\ Queued(id)' = Queued(id)
    BY <1>1 DEF Holds, Reached, Queued
  <2>4. /\ Holds(w, id) => rmsg[w].n = Queued(id) + 1
        /\ Reached(w, id) <= Said(id)
    BY <2>2 DEF DownFlow
  <2>5. ASSUME id \in streams, agentEnd[w] = "open"
        PROVE  /\ InOrder(down[w], id, Reached(w, id), Said(id))
               /\ (~cut[w] /\ pipe[id] \in {"off", "read", "send"}) =>
                    Complete(down[w], id, Reached(w, id), Said(id))
    BY <2>2, <2>5 DEF DownFlow
  <2>6. CASE /\ Said(id)' = Said(id) /\ ~(pipe[id] = "send" /\ pipe'[id] = "read")
             /\ pipe'[id] \in {"off", "read", "send"} => pipe[id] \in {"off", "read", "send"}
    <3>1. ASSUME id \in streams, agentEnd[w] = "open"
          PROVE  /\ InOrder(down'[w], id, Reached(w, id), Said(id))
                 /\ (~cut[w] /\ pipe[id] \in {"off", "read", "send"}) =>
                      Complete(down'[w], id, Reached(w, id), Said(id))
      <4>1. CASE down'[w] = down[w]
        BY <2>5, <3>1, <4>1
      <4>2. ASSUME NEW msg \in Messages, ServerSays(w, msg), down'[w] = Append(down[w], msg)
            PROVE  /\ InOrder(down'[w], id, Reached(w, id), Said(id))
                   /\ (~cut[w] /\ pipe[id] \in {"off", "read", "send"}) =>
                        Complete(down'[w], id, Reached(w, id), Said(id))
        <5>1. ~(msg.type = "data" /\ msg.id = id)
          BY <2>6, <4>2, DataSaid
        <5> QED  BY <2>2, <2>5, <3>1, <4>2, <5>1, AppendKeepsOrder
      <4> QED  BY <1>1, <4>1, <4>2, ServerAppends
    <3> QED  BY <1>1, <2>3, <2>4, <2>6, <3>1 DEF DownFlow
  <2>7. ASSUME pipe[id] = "send", UNCHANGED pseq, pipe'[id] \in {"read", "abort"}
        PROVE  /\ pseq[id] = Said(id) + 1 /\ Said(id)' = Said(id) + 1
               /\ Reached(w, id) <= Said(id) + 1 /\ Said(id) <= Said(id) + 1 /\ Said(id) + 1 \in Nat
    BY <2>2, <2>4, <2>7, DataFacts DEF Said
  <2>8. CASE /\ pipe[id] = "send" /\ pipe'[id] = "read" /\ UNCHANGED pseq
             /\ S!Send(home[id], Data(id, pseq[id]))
    <3>1. SendDown(w, Data(id, Said(id) + 1))
      BY <2>1, <2>7, <2>8, SameLink DEF S!Send
    <3>2. /\ Data(id, Said(id) + 1) \in Messages
          /\ Data(id, Said(id) + 1).type = "data" /\ Data(id, Said(id) + 1).id = id
          /\ Data(id, Said(id) + 1).n = Said(id) + 1
      BY <2>7, <2>8, MessageTypes DEF Data, Message
    <3>3. ASSUME id \in streams, agentEnd[w] = "open"
          PROVE  /\ InOrder(down'[w], id, Reached(w, id), Said(id) + 1)
                 /\ ~cut[w] => Complete(down'[w], id, Reached(w, id), Said(id) + 1)
      <4>1. CASE cut[w]
        <5>1. down'[w] = down[w]
          BY <3>1, <4>1 DEF SendDown
        <5> QED  BY <2>2, <2>5, <2>7, <2>8, <3>3, <4>1, <5>1, LaterEnd
      <4>2. CASE ~cut[w]
        <5>1. down'[w] = Append(down[w], Data(id, Said(id) + 1))
          BY <1>1, <3>1, <3>3, <4>2 DEF SendDown, LinkTypeOK
        <5> QED  BY <2>2, <2>4, <2>5, <2>8, <3>2, <3>3, <4>2, <5>1, AppendKeepsOrder
      <4> QED  BY <4>1, <4>2
    <3> QED  BY <1>1, <2>3, <2>4, <2>7, <2>8, <3>3 DEF DownFlow
  <2>9. CASE pipe[id] = "send" /\ pipe'[id] = "abort" /\ UNCHANGED <<pseq, down>>
    <3>1. ASSUME id \in streams, agentEnd[w] = "open"
          PROVE  InOrder(down[w], id, Reached(w, id), Said(id) + 1)
      BY <2>2, <2>5, <2>7, <2>9, <3>1, LaterEnd
    <3> QED  BY <1>1, <2>3, <2>4, <2>7, <2>9, <3>1 DEF DownFlow
  <2> QED  BY <1>1, <2>6, <2>8, <2>9 DEF SaidTurn
<1> QED  BY <1>2, <1>3

\* The network only makes connections dead.
LEMMA NetworkKeepsFlows ==
  ASSUME IInv, Flows, Network
  PROVE  Flows'
<1>1. /\ UNCHANGED <<up, down, agentEnd, serverEnd, agentVars, serverVars>>
      /\ \A w \in Conn : cut[w] => cut'[w]
      /\ \A w \in Conn : Dead(w) => Dead(w)'
  BY DataFacts, DeadStays DEF Network, Break, LinkTypeOK
<1>2. UNCHANGED <<streams, op, inCh, got, sent, rpc, rmsg, home, sock, pipe, pseq, wrote>>
  BY <1>1 DEF agentVars, serverVars
<1>3. NothingYet' /\ QueueFlows'
  BY <1>2 DEF Flows, NothingYet, QueueFlows
<1>4. AtHome'
  BY <1>1, <1>2 DEF Flows, AtHome, HomeOrGone, Holds, InUp, InDown
<1>5. UpFlows'
  BY <1>1, <1>2 DEF Flows, UpFlows, UpFlow
<1>6. DownFlows'
  <2> SUFFICES ASSUME NEW id \in ID, NEW w \in Conn, home[id] = w
               PROVE  DownFlow(w, id)'
    BY <1>2 DEF DownFlows
  <2>1. DownFlow(w, id) /\ (Holds(w, id)' <=> Holds(w, id))
    BY <1>2 DEF Flows, DownFlows, Holds
  <2> QED  BY <1>1, <1>2, <2>1, SameDown
<1> QED  BY <1>3, <1>4, <1>5, <1>6 DEF Flows

----------------------------------------------------------------------------
(* So the data stays in order. *)

LEMMA FlowsAtFirst == Init => Flows
<1> SUFFICES ASSUME Init PROVE Flows
  OBVIOUS
<1>1. /\ \A w \in Conn : up[w] = <<>> /\ down[w] = <<>> /\ rpc[w] = "off"
      /\ \A id \in ID : /\ sent[id] = 0 /\ wrote[id] = 0 /\ pseq[id] = 0 /\ got[id] = 0
                        /\ inCh[id] = <<>> /\ home[id] = 0
  BY DEF Init, LinkInit, A!AgentInit, A!Conn, Conn, S!ServerInit
<1>2. 0 \notin Conn
  BY LinkAssumption DEF Conn
<1>3. \A i \in Nat : i \notin 1 .. Len(<<>>)
  BY EmptySeq
<1>4. NothingYet /\ UpFlows /\ DownFlows
  BY <1>1, <1>2 DEF NothingYet, UpFlows, DownFlows
<1>5. AtHome
  BY <1>1, <1>3 DEF AtHome, Holds, InUp, InDown
<1>6. QueueFlows
  <2>1. \A i \in 1 .. Len(<<>>) : i \in Nat
    OBVIOUS
  <2> QED  BY <1>1, <1>3, <2>1 DEF QueueFlows
<1> QED  BY <1>4, <1>5, <1>6 DEF Flows

LEMMA FlowsStep == IInv /\ Agreed /\ OwnConnection /\ Flows /\ [Next]_vars => Flows'
<1> SUFFICES ASSUME IInv, Agreed, OwnConnection, Flows, [Next]_vars PROVE Flows'
  OBVIOUS
<1>1. CASE Agent
  BY <1>1, AgentKeepsNothing, AgentKeepsHome, AgentKeepsUp, AgentKeepsQueue, AgentKeepsDown
  DEF Flows
<1>2. CASE Server
  BY <1>2, ServerKeepsNothing, ServerKeepsHome, ServerKeepsUp, ServerKeepsQueue, ServerKeepsDown
  DEF Flows
<1>3. CASE Network
  BY <1>3, NetworkKeepsFlows
<1>4. CASE UNCHANGED vars
  BY <1>4
  DEF vars, linkVars, agentVars, serverVars, Flows, NothingYet, AtHome, HomeOrGone, Holds, InUp,
      InDown, UpFlows, UpFlow, Dead, QueueFlows, DownFlows, DownFlow, Queued, Reached, Said
<1> QED  BY <1>1, <1>2, <1>3, <1>4 DEF Next

----------------------------------------------------------------------------
(* Every step is one of Circuit, or changes nothing that Circuit tells of. *)

\* What a client has been told, by where its operation is.
ViewOf(pc) == CASE pc = "idle" -> "none"
                [] pc = "open" -> "open"
                [] pc = "failed" -> "failed"
                [] pc \in {"closing", "closeTell", "closed"} -> "closed"
                [] OTHER -> "opening"
LEMMA ViewFacts ==
  /\ ViewOf("idle") = "none" /\ ViewOf("open") = "open" /\ ViewOf("failed") = "failed"
  /\ \A pc \in {"closing", "closeTell", "closed"} : ViewOf(pc) = "closed"
  /\ \A pc \in Opening : ViewOf(pc) = "opening"
  /\ \A pc \in Used : ViewOf(pc) \in {"open", "closed"}
  /\ \A id \in ID : ClientView[id] = ViewOf(op[id])
BY DEF ViewOf, Opening, Used, ClientView

LEMMA ViewChanges ==
  ASSUME op \in [ID -> A!OpPC], NEW id \in ID, NEW pc, op' = [op EXCEPT ![id] = pc]
  PROVE  /\ ClientView' = [ClientView EXCEPT ![id] = ViewOf(pc)]
         /\ ViewOf(pc) = ClientView[id] => ClientView' = ClientView
<1>1. ClientView = [x \in ID |-> ViewOf(op[x])] /\ ClientView' = [x \in ID |-> ViewOf(op'[x])]
  BY DEF ClientView, ViewOf
<1>2. \A x \in ID : ViewOf(op'[x]) = IF x = id THEN ViewOf(pc) ELSE ViewOf(op[x])
  OBVIOUS
<1> QED  BY <1>1, <1>2

\* A client takes the next message of its target.
LEMMA TakesNext ==
  ASSUME IInv, Agreed, Flows, NEW id \in ID, Reads(id)
  PROVE  Head(inCh[id]) = got[id] + 1 /\ got[id] < pseq[id]
<1>1. /\ inCh[id] # <<>> /\ inCh[id] \in Seq(Nat) /\ Len(inCh[id]) \in Nat
      /\ got[id] \in Nat /\ pseq[id] \in Nat
  BY DataFacts DEF Reads
<1>2. Head(inCh[id]) = inCh[id][1] /\ Len(inCh[id]) # 0
  BY <1>1, HeadTailProperties, EmptySeq
<1>3. 1 \in 1 .. Len(inCh[id])
  BY <1>1, <1>2
<1>4. Head(inCh[id]) = got[id] + 1
  BY <1>2, <1>3 DEF Flows, QueueFlows
<1>5. sock[id] # "none"
  BY DEF Reads, Agreed, UsedIsDialled
<1>6. home[id] \in Conn
  BY <1>5, DataFacts
<1>7. Reached(home[id], id) <= Said(id)
  BY <1>6 DEF Flows, DownFlows, DownFlow
<1>8. Queued(id) \in Nat /\ Said(id) \in Nat
  BY DataFacts
<1>9. Queued(id) <= Said(id)
  BY <1>7, <1>8 DEF Reached
<1>10. Said(id) <= pseq[id]
  BY <1>1 DEF Said
<1>11. got[id] < Queued(id)
  BY <1>1, <1>2 DEF Queued
<1> QED  BY <1>1, <1>4, <1>8, <1>9, <1>10, <1>11

LEMMA AgentRefines ==
  ASSUME IInv, Agreed, Flows, OwnConnection, Agent
  PROVE  [C!CNext]_(C!cvars)
<1>1. ClientMoves /\ UNCHANGED <<sock, pseq, wrote>> /\ op \in [ID -> A!OpPC]
  BY AgentGround, AgentFacts
<1>2. CASE UNCHANGED <<op, sent, got>>
  BY <1>1, <1>2 DEF C!cvars, ClientView
<1>3. ASSUME NEW id \in ID, OpGoes(id), UNCHANGED <<sent, got>>
      PROVE  [C!CNext]_(C!cvars)
  <2>1. ASSUME NEW from, NEW to, Goes(id, from, to)
        PROVE  /\ op[id] \in from
               /\ \E pc \in to : /\ ClientView' = [ClientView EXCEPT ![id] = ViewOf(pc)]
                                 /\ ViewOf(pc) = ClientView[id] => ClientView' = ClientView
    BY <1>1, <2>1, ViewChanges DEF Goes
  <2>2. CASE Goes(id, {"idle"}, {"called"})
    <3>1. ClientView[id] = "none" /\ ClientView' = [ClientView EXCEPT ![id] = "opening"]
      BY <2>1, <2>2, ViewFacts DEF Opening
    <3>2. C!Ask(id)
      BY <1>1, <1>3, <3>1 DEF C!Ask, C!Client
    <3> QED  BY <3>2 DEF C!CNext
  <2>3. CASE Goes(id, Opening, Opening)
    <3>1. ClientView' = ClientView
      BY <2>1, <2>3, ViewFacts
    <3> QED  BY <1>1, <1>3, <3>1 DEF C!cvars
  <2>4. CASE Goes(id, Opening, {"open"}) /\ result[id] = "ok"
    <3>1. ClientView[id] = "opening" /\ ClientView' = [ClientView EXCEPT ![id] = "open"]
      BY <2>1, <2>4, ViewFacts
    <3>2. sock[id] # "none"
      BY <2>4 DEF Agreed, UsedIsDialled
    <3>3. C!Grant(id)
      BY <1>1, <1>3, <3>1, <3>2 DEF C!Grant, C!Client
    <3> QED  BY <3>3 DEF C!CNext
  <2>5. CASE Goes(id, Opening, {"failed"})
    <3>1. ClientView[id] = "opening" /\ ClientView' = [ClientView EXCEPT ![id] = "failed"]
      BY <2>1, <2>5, ViewFacts
    <3>2. C!Deny(id)
      BY <1>1, <1>3, <3>1 DEF C!Deny, C!Client
    <3> QED  BY <3>2 DEF C!CNext
  <2>6. CASE Goes(id, {"open"}, {"closing", "closed"})
    <3>1. ClientView[id] = "open" /\ ClientView' = [ClientView EXCEPT ![id] = "closed"]
      BY <2>1, <2>6, ViewFacts
    <3>2. C!Finish(id)
      BY <1>1, <1>3, <3>1 DEF C!Finish, C!Client
    <3> QED  BY <3>2 DEF C!CNext
  <2>7. CASE Goes(id, {"closing", "closeTell"}, {"closeTell", "closed"})
    <3>1. ClientView' = ClientView
      BY <2>1, <2>7, ViewFacts
    <3> QED  BY <1>1, <1>3, <3>1 DEF C!cvars
  <2> QED  BY <1>3, <2>2, <2>3, <2>4, <2>5, <2>6, <2>7 DEF OpGoes
<1>4. ASSUME NEW id \in ID, wr[id] = "send", sent' = [sent EXCEPT ![id] = @ + 1],
             UNCHANGED <<op, got>>
      PROVE  [C!CNext]_(C!cvars)
  <2>1. op[id] \in Used
    BY <1>4 DEF Agreed, UsedIsDialled
  <2>2. ClientView[id] \in {"open", "closed"} /\ ClientView' = ClientView
    BY <1>4, <2>1, ViewFacts DEF ClientView
  <2>3. C!Put(id)
    BY <1>1, <1>4, <2>2 DEF C!Put
  <2> QED  BY <2>3 DEF C!CNext
<1>5. ASSUME NEW id \in ID, Reads(id), UNCHANGED <<op, sent>>
      PROVE  [C!CNext]_(C!cvars)
  <2>1. got' = [got EXCEPT ![id] = got[id] + 1] /\ got[id] < pseq[id] /\ op[id] \in Used
    BY <1>5, TakesNext DEF Reads
  <2>2. ClientView[id] \in {"open", "closed"} /\ ClientView' = ClientView
    BY <1>5, <2>1, ViewFacts DEF ClientView
  <2>3. C!Take(id)
    BY <1>1, <1>5, <2>1, <2>2 DEF C!Take
  <2> QED  BY <2>3 DEF C!CNext
<1> QED  BY <1>1, <1>2, <1>3, <1>4, <1>5 DEF ClientMoves

LEMMA ServerRefines ==
  ASSUME IInv, Agreed, Flows, Server
  PROVE  [C!CNext]_(C!cvars)
<1>1. /\ SP!IInv /\ LinkTypeOK /\ UnsentIsUnknown /\ TargetMoves /\ UNCHANGED <<op, sent, got>>
      /\ op \in [ID -> A!OpPC]
  BY ServerGround, AgentFacts DEF Glue
<1>2. ClientView' = ClientView
  BY <1>1 DEF ClientView
<1>3. CASE UNCHANGED <<sock, wrote, pseq>>
  BY <1>1, <1>2, <1>3 DEF C!cvars
<1>4. ASSUME NEW id \in ID, NEW w \in Conn, Dialling(w, id), sock[id] = "none",
             sock' = [sock EXCEPT ![id] = "open"], UNCHANGED <<wrote, pseq>>
      PROVE  [C!CNext]_(C!cvars)
  <2>1. op[id] \notin Unsent /\ op[id] \notin Used
    BY <1>1, <1>4 DEF UnsentIsUnknown, Dialling, Agreed, UsedIsDialled
  <2>2. op[id] \in Opening \/ op[id] = "failed"
    BY <1>1, <2>1 DEF A!OpPC, Unsent, Used, Opening
  <2>3. ClientView[id] \in {"opening", "failed"}
    BY <2>2, ViewFacts
  <2>4. C!Connect(id)
    BY <1>1, <1>2, <1>4, <2>3 DEF C!Connect, C!Target
  <2> QED  BY <2>4 DEF C!CNext
<1>5. ASSUME NEW id \in ID, sock[id] # "none", sock' = [sock EXCEPT ![id] = "closed"],
             UNCHANGED <<wrote, pseq>>
      PROVE  [C!CNext]_(C!cvars)
  <2>1. CASE sock[id] = "open"
    <3>1. C!Disconnect(id)
      BY <1>1, <1>2, <1>5, <2>1 DEF C!Disconnect, C!Target
    <3> QED  BY <3>1 DEF C!CNext
  <2>2. CASE sock[id] = "closed"
    <3>1. sock' = sock
      BY <1>1, <1>5, <2>2, ServerFacts
    <3> QED  BY <1>1, <1>2, <1>5, <3>1 DEF C!cvars
  <2> QED  BY <1>1, <1>5, <2>1, <2>2, ServerFacts
<1>6. ASSUME NEW id \in ID, NEW w \in Conn, Writes(w, id), UNCHANGED <<sock, pseq>>
      PROVE  [C!CNext]_(C!cvars)
  <2>1. home[id] = w /\ sock[id] = "open" /\ up[w] \in Seq(Messages) /\ up[w] # <<>>
    BY <1>1, <1>6, ServerFacts DEF Writes, TakeUp, LinkTypeOK
  <2>2. InOrder(up[w], id, wrote[id], sent[id]) /\ wrote[id] \in Nat /\ sent[id] \in Nat
    BY <2>1, DataFacts DEF Flows, UpFlows, UpFlow
  <2>3. Head(up[w]).n = wrote[id] + 1 /\ wrote[id] < sent[id]
    BY <1>6, <2>1, <2>2, TakeNext DEF Writes
  <2>4. C!Arrive(id)
    BY <1>1, <1>2, <1>6, <2>1, <2>3 DEF C!Arrive, Writes
  <2> QED  BY <2>4 DEF C!CNext
<1>7. ASSUME NEW id \in ID, sock[id] = "open", pseq' = [pseq EXCEPT ![id] = @ + 1],
             UNCHANGED <<sock, wrote>>
      PROVE  [C!CNext]_(C!cvars)
  <2>1. C!Produce(id)
    BY <1>1, <1>2, <1>7 DEF C!Produce
  <2> QED  BY <2>1 DEF C!CNext
<1> QED  BY <1>1, <1>3, <1>4, <1>5, <1>6, <1>7 DEF TargetMoves

LEMMA FlowsRefine ==
  IInv /\ Agreed /\ OwnConnection /\ Flows /\ [Next]_vars => [C!CNext]_(C!cvars)
<1> SUFFICES ASSUME IInv, Agreed, OwnConnection, Flows, [Next]_vars
             PROVE  [C!CNext]_(C!cvars)
  OBVIOUS
<1>1. CASE Network \/ UNCHANGED vars
  BY <1>1 DEF Network, vars, agentVars, serverVars, C!cvars, ClientView
<1> QED  BY <1>1, AgentRefines, ServerRefines DEF Next

LEMMA StartsEmpty == Init => C!CInit
<1> SUFFICES ASSUME Init PROVE C!CInit
  OBVIOUS
<1>1. /\ op = [id \in ID |-> "idle"] /\ sent = [id \in ID |-> 0] /\ got = [id \in ID |-> 0]
      /\ sock = [id \in ID |-> "none"] /\ wrote = [id \in ID |-> 0] /\ pseq = [id \in ID |-> 0]
  BY DEF Init, A!AgentInit, S!ServerInit
<1>2. ClientView = [id \in ID |-> "none"]
  BY <1>1 DEF ClientView
<1> QED  BY <1>1, <1>2 DEF C!CInit

\* As long as no reader goes on with a connection other than the one it was
\* started for, each direction of a stream carries a prefix of what was put in,
\* in order, with nothing missing or repeated, over any number of connections;
\* and "open" is never said of a target that was not reached.  What the readers
\* do in readLoop, where they ask for the session's connection again before
\* each receive, is all that can break it.
THEOREM OrderedStreams == SafetySpec /\ []OwnConnection => CircuitSpec
<1>1. SafetySpec => [](IInv /\ Agreed)
  BY Agreement
<1>2. SafetySpec /\ []OwnConnection => []Flows
  BY <1>1, FlowsAtFirst, FlowsStep, PTL DEF SafetySpec
<1> QED
  BY <1>1, <1>2, StartsEmpty, FlowsRefine, PTL DEF SafetySpec, CircuitSpec, C!CSpec

\* Over one connection there is no other to go on with: there the tunnel
\* carries streams as Circuit promises, for any number of streams and messages
\* and any capacity of the queues.
THEOREM OneConnection ==
  ASSUME MaxConn = 1
  PROVE  SafetySpec => CircuitSpec
<1>1. IInv => OwnConnection
  <2> SUFFICES ASSUME IInv PROVE OwnConnection
    OBVIOUS
  <2>1. ron \in [Conn -> Conn \cup {0}]
    BY DEF IInv, AP!IInv, AP!TypeOK, AP!LoopTypeOK, AP!Conn, Conn
  <2>2. \A g, h \in Conn : g = h
    BY DEF Conn
  <2> QED  BY <2>1, <2>2 DEF OwnConnection
<1>2. SafetySpec => []OwnConnection
  BY <1>1, Agreement, PTL
<1> QED  BY <1>2, OrderedStreams, PTL
=============================================================================
