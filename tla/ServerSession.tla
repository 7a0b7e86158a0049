--------------------------- MODULE ServerSession ---------------------------
(***************************************************************************)
(* The server's end of the tunnel (internal/server/server.go): for every   *)
(* websocket connection a handler (handleWS) and a pingLoop, and for every *)
(* target connection a goroutine in pipeRemoteToAgent.  The agent is the   *)
(* environment.                                                            *)
(*                                                                         *)
(* As in AgentSession, a message is taken from the connection in the step  *)
(* that begins to handle it.  A handler that only replies does so in the   *)
(* same step: nothing the reply depends on can change before it is sent.   *)
(*                                                                         *)
(* A ConnID is opened at most once, since the agent draws uuids, and the   *)
(* agent always sends the fields that handleOpen asks for and well-formed  *)
(* envelopes: the replies "duplicate conn_id", "invalid open request" and  *)
(* "invalid protobuf payload" do not occur.                                *)
(***************************************************************************)
EXTENDS Link, FiniteSets

CONSTANTS MaxData,     \* bound: data messages a target sends
          MaxSrvTicks, \* bound: ticks of the ping loop of a connection
          AgentNumbers \* bound: data numbers the environment uses

ASSUME ServerAssumption == /\ MaxData \in Nat
                           /\ MaxSrvTicks \in Nat
                           /\ AgentNumbers \subseteq Nat

VARIABLES
  hpc,     \* where the handler of each connection is
  hid,     \* the ConnID it is handling, or NoID
  authed,  \* its session.authed
  conns,   \* keys of its session.conns
  spl,     \* its pingLoop: "run" or "exit"
  sticks,  \* ticks of that loop so far
  home,    \* the connection whose session dialled each target, 0 if none
  sock,    \* the TCP socket to the target: "none", "open", "closed"
  pipe,    \* where the goroutine of each target is
  pseq,    \* its seq: data messages read from the target
  wrote    \* number of the last data message written to the target

sessionVars == <<hpc, hid, authed, conns, spl, sticks>>
targetVars  == <<home, sock, pipe, pseq, wrote>>
serverVars  == <<sessionVars, targetVars>>
vars        == <<linkVars, serverVars>>

HandlerPC == {"recv", "dial", "reply", "delete", "failDelete", "failTell",
              "leave", "closeAll", "stuck", "gone"}
PipePC == {"off", "read", "send", "close", "delete", "tell", "abort", "abortDelete", "exit"}

TypeOK == /\ LinkTypeOK
          /\ hpc \in [Conn -> HandlerPC]
          /\ hid \in [Conn -> ID \cup {NoID}]
          /\ \A w \in Conn : hid[w] \in ID <=>
               hpc[w] \in {"dial", "reply", "delete", "failDelete", "failTell"}
          /\ authed \in [Conn -> BOOLEAN]
          /\ conns \in [Conn -> SUBSET ID]
          /\ spl \in [Conn -> {"run", "exit"}]
          /\ sticks \in [Conn -> Nat]
          /\ home \in [ID -> Conn \cup {0}]
          /\ sock \in [ID -> {"none", "open", "closed"}]
          /\ pipe \in [ID -> PipePC]
          /\ pseq \in [ID -> Nat]
          /\ wrote \in [ID -> Nat]

ServerInit == /\ hpc = [w \in Conn |-> "recv"]
              /\ hid = [w \in Conn |-> NoID]
              /\ authed = [w \in Conn |-> FALSE]
              /\ conns = [w \in Conn |-> {}]
              /\ spl = [w \in Conn |-> "run"]
              /\ sticks = [w \in Conn |-> 0]
              /\ home = [id \in ID |-> 0]
              /\ sock = [id \in ID |-> "none"]
              /\ pipe = [id \in ID |-> "off"]
              /\ pseq = [id \in ID |-> 0]
              /\ wrote = [id \in ID |-> 0]

Init == LinkInit /\ ServerInit

\* closeAll ranges over a non-empty conns with a callback that deletes from
\* it, and never lets go of its lock (SafeMap.tla, SelfBlockIsForever).
ConnsFree(w) == hpc[w] # "stuck"

\* wsSession.send, when it returns nil, when it returns an error, and when the
\* caller does not look.
Send(w, msg)    == SendDown(w, msg)
SendFails(w)    == DownSendBroken(w) /\ UNCHANGED down
TrySend(w, msg) == Send(w, msg) \/ SendFails(w)

----------------------------------------------------------------------------
(* handleWS *)

HandlerGoto(w, pc, id) == /\ hpc' = [hpc EXCEPT ![w] = pc]
                          /\ hid' = [hid EXCEPT ![w] = id]

\* Receive returns msg to the handler.
Receive(w, msg) == /\ hpc[w] = "recv"
                   /\ TakeUp(w)
                   /\ msg = Head(up[w])

\* Mutant: a receive error is logged and the loop goes on.
ReceiveErrorIgnored(w) == /\ hpc[w] = "recv" /\ serverEnd[w] = "open"
                          /\ UpReadBroken(w)
                          /\ UNCHANGED vars

ReceiveError(w) == /\ hpc[w] = "recv" /\ serverEnd[w] = "open"
                   /\ UpReadBroken(w)
                   /\ HandlerGoto(w, "leave", NoID)
                   /\ UNCHANGED <<linkVars, authed, conns, spl, sticks, targetVars>>

\* The first message has to be auth ...
Unauthorized(w, msg) == /\ ~authed[w] /\ Receive(w, msg) /\ msg.type # "auth"
                        /\ TrySend(w, Control("error"))
                        /\ HandlerGoto(w, "leave", NoID)
                        /\ UNCHANGED <<agentEnd, serverEnd, cut, authed, conns, spl, sticks, targetVars>>

\* ... with a token that is valid now ...
AuthRefused(w, msg) == /\ ~authed[w] /\ Receive(w, msg) /\ msg.type = "auth"
                       /\ TrySend(w, AuthResp(FALSE))
                       /\ HandlerGoto(w, "leave", NoID)
                       /\ UNCHANGED <<agentEnd, serverEnd, cut, authed, conns, spl, sticks, targetVars>>

\* ... and then the session is open for everything else.
Authenticate(w, msg) == /\ ~authed[w] /\ Receive(w, msg) /\ msg.type = "auth"
                        /\ authed' = [authed EXCEPT ![w] = TRUE]
                        /\ TrySend(w, AuthResp(TRUE))
                        /\ UNCHANGED <<agentEnd, serverEnd, cut, hpc, hid, conns, spl, sticks, targetVars>>

\* Mutant: the ConnID is lost.
HandleOpenNoID(w, msg) ==
  /\ authed[w] /\ Receive(w, msg) /\ msg.type = "open"
  /\ HandlerGoto(w, "dial", NoID)
  /\ UNCHANGED <<down, agentEnd, serverEnd, cut, authed, conns, spl, sticks, targetVars>>

\* handleOpen resolves and dials; until it is done no message is read.
HandleOpen(w, msg) == /\ authed[w] /\ Receive(w, msg) /\ msg.type = "open"
                      /\ HandlerGoto(w, "dial", msg.id)
                      /\ UNCHANGED <<down, agentEnd, serverEnd, cut, authed, conns, spl, sticks, targetVars>>

\* Mutant: a failed dial is not answered.
DialFailsSilently(w) == /\ hpc[w] = "dial"
                        /\ HandlerGoto(w, "recv", NoID)
                        /\ UNCHANGED <<linkVars, authed, conns, spl, sticks, targetVars>>

\* The target is not allowed or does not answer within the dial timeout.
DialFails(w) == /\ hpc[w] = "dial"
                /\ TrySend(w, OpenResp(hid[w], FALSE))
                /\ HandlerGoto(w, "recv", NoID)
                /\ UNCHANGED <<up, agentEnd, serverEnd, cut, authed, conns, spl, sticks, targetVars>>

\* The target answers, and its socket is registered ...
DialSucceeds(w) == /\ hpc[w] = "dial"
                   /\ sock' = [sock EXCEPT ![hid[w]] = "open"]
                   /\ home' = [home EXCEPT ![hid[w]] = w]
                   /\ conns' = [conns EXCEPT ![w] = @ \cup {hid[w]}]
                   /\ HandlerGoto(w, "reply", hid[w])
                   /\ UNCHANGED <<linkVars, authed, spl, sticks, pipe, pseq, wrote>>

\* ... before the agent is told, and the pipe starts after that.
ReplyOpened(w) == /\ hpc[w] = "reply"
                  /\ TrySend(w, OpenResp(hid[w], TRUE))
                  /\ pipe' = [pipe EXCEPT ![hid[w]] = "read"]
                  /\ HandlerGoto(w, "recv", NoID)
                  /\ UNCHANGED <<up, agentEnd, serverEnd, cut, authed, conns, spl, sticks,
                                 home, sock, pseq, wrote>>

HandleDataUnknown(w, msg) == /\ authed[w] /\ Receive(w, msg) /\ msg.type = "data"
                             /\ msg.id \notin conns[w]
                             /\ TrySend(w, Close(msg.id))
                             /\ UNCHANGED <<agentEnd, serverEnd, cut, sessionVars, targetVars>>

HandleData(w, msg) == /\ authed[w] /\ Receive(w, msg) /\ msg.type = "data"
                      /\ msg.id \in conns[w] /\ sock[msg.id] = "open"
                      /\ wrote' = [wrote EXCEPT ![msg.id] = msg.n]
                      /\ UNCHANGED <<down, agentEnd, serverEnd, cut, sessionVars,
                                     home, sock, pipe, pseq>>

\* The write fails (the pipe closed the socket, the target reset it or did not
\* take the bytes in time): closeConn, of which this is Get and Close.
HandleDataFails(w, msg) == /\ authed[w] /\ Receive(w, msg) /\ msg.type = "data"
                           /\ msg.id \in conns[w]
                           /\ sock' = [sock EXCEPT ![msg.id] = "closed"]
                           /\ HandlerGoto(w, "failDelete", msg.id)
                           /\ UNCHANGED <<down, agentEnd, serverEnd, cut, authed, conns, spl, sticks,
                                          home, pipe, pseq, wrote>>

FailDelete(w) == /\ hpc[w] = "failDelete"
                 /\ conns' = [conns EXCEPT ![w] = @ \ {hid[w]}]
                 /\ HandlerGoto(w, "failTell", hid[w])
                 /\ UNCHANGED <<linkVars, authed, spl, sticks, targetVars>>

\* Mutant: the agent is not told of a failed write.
FailTellNobody(w) == /\ hpc[w] = "failTell"
                     /\ HandlerGoto(w, "recv", NoID)
                     /\ UNCHANGED <<linkVars, authed, conns, spl, sticks, targetVars>>

FailTell(w) == /\ hpc[w] = "failTell"
               /\ TrySend(w, Close(hid[w]))
               /\ HandlerGoto(w, "recv", NoID)
               /\ UNCHANGED <<up, agentEnd, serverEnd, cut, authed, conns, spl, sticks, targetVars>>

\* handleClose is closeConn: Get and Close, then Delete.
HandleClose(w, msg) == /\ authed[w] /\ Receive(w, msg) /\ msg.type = "close"
                       /\ IF msg.id \in conns[w]
                          THEN /\ sock' = [sock EXCEPT ![msg.id] = "closed"]
                               /\ HandlerGoto(w, "delete", msg.id)
                          ELSE UNCHANGED <<sock, hpc, hid>>
                       /\ UNCHANGED <<down, agentEnd, serverEnd, cut, authed, conns, spl, sticks,
                                      home, pipe, pseq, wrote>>

CloseDelete(w) == /\ hpc[w] = "delete"
                  /\ conns' = [conns EXCEPT ![w] = @ \ {hid[w]}]
                  /\ HandlerGoto(w, "recv", NoID)
                  /\ UNCHANGED <<linkVars, authed, spl, sticks, targetVars>>

HandlePing(w, msg) == /\ authed[w] /\ Receive(w, msg) /\ msg.type = "ping"
                      /\ TrySend(w, Control("pong"))
                      /\ UNCHANGED <<agentEnd, serverEnd, cut, sessionVars, targetVars>>

HandlePong(w, msg) == /\ authed[w] /\ Receive(w, msg) /\ msg.type = "pong"
                      /\ UNCHANGED <<down, agentEnd, serverEnd, cut, sessionVars, targetVars>>

\* "unknown message type": an auth that comes again, for instance.
HandleUnknown(w, msg) == /\ authed[w] /\ Receive(w, msg)
                         /\ msg.type \notin {"open", "data", "close", "ping", "pong"}
                         /\ TrySend(w, Control("error"))
                         /\ UNCHANGED <<agentEnd, serverEnd, cut, sessionVars, targetVars>>

HandleMessage(w) ==
  /\ up[w] # <<>>
  /\ LET msg == Head(up[w]) IN
       \/ Unauthorized(w, msg) \/ AuthRefused(w, msg) \/ Authenticate(w, msg)
       \/ HandleOpen(w, msg) \/ HandleClose(w, msg)
       \/ HandleDataUnknown(w, msg) \/ HandleData(w, msg) \/ HandleDataFails(w, msg)
       \/ HandlePing(w, msg) \/ HandlePong(w, msg) \/ HandleUnknown(w, msg)

\* The deferred calls of handleWS, last one first: close(pingDone) ...
LeaveLoop(w) == /\ hpc[w] = "leave"
                /\ serverEnd' = [serverEnd EXCEPT ![w] = "leaving"]
                /\ HandlerGoto(w, "closeAll", NoID)
                /\ UNCHANGED <<up, down, agentEnd, cut, authed, conns, spl, sticks, targetVars>>

\* Mutant: handleWS returns without closeAll.
CloseNothing(w) == /\ hpc[w] = "closeAll"
                   /\ serverEnd' = [serverEnd EXCEPT ![w] = "closed"]
                   /\ up' = [up EXCEPT ![w] = <<>>]
                   /\ HandlerGoto(w, "gone", NoID)
                   /\ UNCHANGED <<down, agentEnd, cut, authed, conns, spl, sticks, targetVars>>

\* ... closeAll, which finds no target connection, and ws.Close ...
CloseNone(w) == /\ hpc[w] = "closeAll" /\ conns[w] = {}
                /\ serverEnd' = [serverEnd EXCEPT ![w] = "closed"]
                /\ up' = [up EXCEPT ![w] = <<>>]
                /\ HandlerGoto(w, "gone", NoID)
                /\ UNCHANGED <<down, agentEnd, cut, authed, conns, spl, sticks, targetVars>>

\* ... or closeAll closes one socket and waits for its own Range.
CloseAllStuck(w) == /\ hpc[w] = "closeAll"
                    /\ \E id \in conns[w] : sock' = [sock EXCEPT ![id] = "closed"]
                    /\ HandlerGoto(w, "stuck", NoID)
                    /\ UNCHANGED <<linkVars, authed, conns, spl, sticks, home, pipe, pseq, wrote>>

HandlerStep(w) == \/ HandleMessage(w) \/ ReceiveError(w)
                  \/ DialFails(w) \/ DialSucceeds(w) \/ ReplyOpened(w)
                  \/ FailDelete(w) \/ FailTell(w) \/ CloseDelete(w)
                  \/ LeaveLoop(w) \/ CloseNone(w) \/ CloseAllStuck(w)

----------------------------------------------------------------------------
(* pingLoop, which runs before the agent has authenticated, too *)

Tick(w) == /\ spl[w] = "run" /\ serverEnd[w] # "none"
           /\ sticks[w] < MaxSrvTicks
           /\ sticks' = [sticks EXCEPT ![w] = @ + 1]
           /\ \/ Send(w, Control("ping")) /\ UNCHANGED spl
              \/ SendFails(w) /\ spl' = [spl EXCEPT ![w] = "exit"]
           /\ UNCHANGED <<up, agentEnd, serverEnd, cut, hpc, hid, authed, conns, targetVars>>

\* case <-done
PingDone(w) == /\ spl[w] = "run" /\ serverEnd[w] \in {"leaving", "closed"}
               /\ spl' = [spl EXCEPT ![w] = "exit"]
               /\ UNCHANGED <<linkVars, hpc, hid, authed, conns, sticks, targetVars>>

----------------------------------------------------------------------------
(* pipeRemoteToAgent *)

PipeGoto(id, pc) == pipe' = [pipe EXCEPT ![id] = pc]

\* Bytes from the target: the next data message of the stream.
PipeRead(id) == /\ pipe[id] = "read" /\ sock[id] = "open"
                /\ pseq[id] < MaxData
                /\ pseq' = [pseq EXCEPT ![id] = @ + 1]
                /\ PipeGoto(id, "send")
                /\ UNCHANGED <<linkVars, sessionVars, home, sock, wrote>>

\* Mutant: seq is incremented after the message is built.
PipeSendLateSeq(id) ==
  /\ pipe[id] = "send"
  /\ \/ Send(home[id], Data(id, pseq[id] - 1)) /\ PipeGoto(id, "read")
     \/ SendFails(home[id]) /\ PipeGoto(id, "abort")
  /\ UNCHANGED <<up, agentEnd, serverEnd, cut, sessionVars, home, sock, pseq, wrote>>

\* The socket may have been closed by then, and the agent told so.
PipeSend(id) == /\ pipe[id] = "send"
                /\ \/ Send(home[id], Data(id, pseq[id])) /\ PipeGoto(id, "read")
                   \/ SendFails(home[id]) /\ PipeGoto(id, "abort")
                /\ UNCHANGED <<up, agentEnd, serverEnd, cut, sessionVars, home, sock, pseq, wrote>>

\* Read fails: the target closed, was silent for the idle timeout, or its
\* socket was closed by closeConn.
PipeEnds(id) == /\ pipe[id] = "read"
                /\ PipeGoto(id, "close")
                /\ UNCHANGED <<linkVars, sessionVars, home, sock, pseq, wrote>>

\* Mutant: closeConn forgets the socket.
PipeCloseNoSocket(id) ==
  /\ pipe[id] \in {"close", "abort"} /\ ConnsFree(home[id])
  /\ conns' = [conns EXCEPT ![home[id]] = @ \ {id}]
  /\ PipeGoto(id, IF pipe[id] = "close" THEN "tell" ELSE "exit")
  /\ UNCHANGED <<linkVars, hpc, hid, authed, spl, sticks, home, sock, pseq, wrote>>

\* closeConn: Get and Close.  An entry that is gone was closed by another.
PipeClose(id) ==
  /\ pipe[id] \in {"close", "abort"} /\ ConnsFree(home[id])
  /\ IF id \in conns[home[id]]
     THEN /\ sock' = [sock EXCEPT ![id] = "closed"]
          /\ PipeGoto(id, IF pipe[id] = "close" THEN "delete" ELSE "abortDelete")
     ELSE /\ PipeGoto(id, IF pipe[id] = "close" THEN "tell" ELSE "exit")
          /\ UNCHANGED sock
  /\ UNCHANGED <<linkVars, sessionVars, home, pseq, wrote>>

\* Mutant: a pipe that could not send leaves its entry behind.
PipeDeleteNotAborted(id) ==
  /\ pipe[id] \in {"delete", "abortDelete"} /\ ConnsFree(home[id])
  /\ conns' = IF pipe[id] = "delete" THEN [conns EXCEPT ![home[id]] = @ \ {id}] ELSE conns
  /\ PipeGoto(id, IF pipe[id] = "delete" THEN "tell" ELSE "exit")
  /\ UNCHANGED <<linkVars, hpc, hid, authed, spl, sticks, home, sock, pseq, wrote>>

\* closeConn: Delete.
PipeDelete(id) ==
  /\ pipe[id] \in {"delete", "abortDelete"} /\ ConnsFree(home[id])
  /\ conns' = [conns EXCEPT ![home[id]] = @ \ {id}]
  /\ PipeGoto(id, IF pipe[id] = "delete" THEN "tell" ELSE "exit")
  /\ UNCHANGED <<linkVars, hpc, hid, authed, spl, sticks, home, sock, pseq, wrote>>

\* Mutant: the end of a target is not told.
PipeEndsSilently(id) == /\ pipe[id] = "tell"
                        /\ PipeGoto(id, "exit")
                        /\ UNCHANGED <<linkVars, sessionVars, home, sock, pseq, wrote>>

\* "remote closed": after everything the pipe has sent.
PipeTell(id) == /\ pipe[id] = "tell"
                /\ TrySend(home[id], Close(id))
                /\ PipeGoto(id, "exit")
                /\ UNCHANGED <<up, agentEnd, serverEnd, cut, sessionVars, home, sock, pseq, wrote>>

PipeStep(id) == \/ PipeRead(id) \/ PipeSend(id) \/ PipeEnds(id)
                \/ PipeClose(id) \/ PipeDelete(id) \/ PipeTell(id)

----------------------------------------------------------------------------

ServerStep == \/ \E w \in Conn : HandlerStep(w) \/ Tick(w) \/ PingDone(w)
              \/ \E id \in ID : PipeStep(id)

\* The agent, as far as a server can tell: it dials, takes and sends any
\* messages and closes.  It draws a fresh id for every open.
Fresh(id) == /\ sock[id] = "none"
             /\ \A w \in Conn : /\ hid[w] # id
                                /\ \A i \in 1 .. Len(up[w]) : up[w][i] # Open(id)

AgentMessages == {Control(type) : type \in {"auth", "ping", "pong"}}
                 \cup {Open(id) : id \in {x \in ID : Fresh(x)}}
                 \cup {Data(id, n) : id \in ID, n \in AgentNumbers}
                 \cup {Close(id) : id \in ID}

AgentStep(w) ==
  /\ UNCHANGED <<serverVars, cut>>
  /\ \/ /\ DialOpens(w)
        /\ UNCHANGED <<up, down>>
     \/ /\ agentEnd[w] = "open"
        /\ TakeDown(w)
        /\ UNCHANGED <<up, agentEnd, serverEnd>>
     \/ /\ agentEnd[w] = "open"
        /\ \E msg \in AgentMessages : SendUp(w, msg)
        /\ UNCHANGED <<down, agentEnd, serverEnd>>
     \/ /\ agentEnd[w] = "open"
        /\ CloseAgentEnd(w)
        /\ UNCHANGED <<up, serverEnd>>

NetworkStep == /\ UNCHANGED serverVars
               /\ \E w \in Conn : Break(w)

Next == NetworkStep \/ (\E w \in Conn : AgentStep(w)) \/ ServerStep

\* What a pipe does without its target: a read ends when the socket is closed.
PipeWork(id) == \/ PipeSend(id) \/ PipeClose(id) \/ PipeDelete(id) \/ PipeTell(id)
                \/ sock[id] = "closed" /\ PipeEnds(id)

SafetySpec == Init /\ [][Next]_vars

----------------------------------------------------------------------------
(* Properties *)

\* An open socket to a target is registered with the session that dialled it,
\* so a close message, a failed write and closeAll can find it.
SocketRegistered == \A id \in ID : sock[id] = "open" =>
                                     home[id] # 0 /\ id \in conns[home[id]]

\* An entry of conns has a goroutine that will take it out: the pipe that ends
\* removes its entry, and the pipe of a new entry is about to be started.
EntryHasPipe == \A w \in Conn : \A id \in conns[w] :
                  \/ pipe[id] \notin {"off", "exit", "tell"}
                  \/ pipe[id] = "off" /\ hpc[w] = "reply" /\ hid[w] = id

\* A handler that has returned leaves no socket of its session open.
NothingLeftOpen == \A w \in Conn : hpc[w] = "gone" =>
                     \A id \in ID : home[id] = w => sock[id] # "open"

=============================================================================
