---------------------------- MODULE AgentSession ----------------------------
(***************************************************************************)
(* The agent's tunnel session (internal/agent/session.go) and its streams  *)
(* (internal/agent/stream.go): one goroutine in Run that dials, serves and *)
(* cleans up; a readLoop and a pingLoop for every connection served; and   *)
(* the goroutines of the local clients, which open, read, write and close  *)
(* streams.  The server is the environment: it reads and sends anything.   *)
(*                                                                         *)
(* Two merges are used throughout.  A message is taken from a connection   *)
(* in the step that begins to handle it, because between Receive and the   *)
(* first shared access nobody can see it.  And currentConn() and the       *)
(* Message.Send that follows are one step: what a send reports is what it  *)
(* would report at some instant between the two.                           *)
(***************************************************************************)
EXTENDS Link, FiniteSets

CONSTANTS InCap,     \* capacity of a stream's inCh (512 in the code)
          MaxTicks,  \* bound: ticks of all ping loops together
          MaxWrites, \* bound: successful writes per stream
          MayCancel, \* bound: whether the agent is ever stopped
          Numbers,   \* bound: data numbers the environment uses
          EnvTypes   \* bound: types of the messages the environment sends

ASSUME AgentAssumption == /\ InCap \in Nat \ {0}
                          /\ MaxTicks \in Nat
                          /\ MaxWrites \in Nat
                          /\ MayCancel \in BOOLEAN
                          /\ Numbers \subseteq Nat

VARIABLES
  runPc,    \* where Run is
  ws,       \* s.ws: the attached connection, 0 for nil
  ctxDone,  \* the context given to Run is cancelled
  streams,  \* keys of s.streams
  pending,  \* keys of s.pendingOpens
  op,       \* where the goroutine that opened a stream is
  result,   \* content of its resultCh (capacity 1), "none" when empty
  once,     \* its once: "new", "running" in Close, "done"; closeCh is closed
            \* unless it is "new"
  inCh,     \* its inCh
  got,      \* number of the last data message its Read returned
  wr,       \* its writer: "ready" between Writes, "send" in one, "ended" by
            \* an error, after which io.Copy makes no further Write
  sent,     \* number of data messages its Write has sent
  rpc,      \* where the readLoop of each connection is
  ron,      \* the connection this readLoop is receiving from
  rmsg,     \* the message it is handling
  ppc,      \* where the pingLoop of each connection is
  errCh,    \* errors buffered in the errCh of each connection (capacity 1)
  ticks     \* ping ticks so far

runVars    == <<runPc, ws, ctxDone>>
mapVars    == <<streams, pending>>
streamVars == <<op, result, once, inCh, got, wr, sent>>
loopVars   == <<rpc, ron, rmsg, ppc, errCh, ticks>>
agentVars  == <<runVars, mapVars, streamVars, loopVars>>
vars       == <<linkVars, agentVars>>

NoMessage == Control("none")

RunPC == {"top", "dial", "sendAuth", "recvAuth", "serve", "detach",
          "failPending", "closeStreams", "backoff",
          "shutPending", "shutStreams", "done",
          "stuckPending", "stuckStreams", "shutStuckPending", "shutStuckStreams"}

OpPC == {"idle", "called", "registered", "sending", "waiting",
         "undoPending", "undoStream", "forget", "tell", "failed",
         "open", "closing", "closeTell", "closed"}

RunTypeOK == /\ runPc \in RunPC
             /\ ws \in Conn \cup {0}
             /\ ctxDone \in BOOLEAN

MapTypeOK == /\ streams \in SUBSET ID
             /\ pending \in SUBSET ID

StreamTypeOK == /\ op \in [ID -> OpPC]
                /\ result \in [ID -> {"none", "ok", "fail"}]
                /\ once \in [ID -> {"new", "running", "done"}]
                /\ inCh \in [ID -> Seq(Nat)]
                /\ \A id \in ID : Len(inCh[id]) \leq InCap
                /\ got \in [ID -> Nat]
                /\ wr \in [ID -> {"ready", "send", "ended"}]
                /\ sent \in [ID -> Nat]

LoopTypeOK == /\ rpc \in [Conn -> {"off", "top", "recv", "push", "drop", "pong", "err", "exit"}]
              /\ ron \in [Conn -> Conn \cup {0}]
              /\ rmsg \in [Conn -> Messages \cup {NoMessage}]
              /\ ppc \in [Conn -> {"off", "run", "err", "exit"}]
              /\ errCh \in [Conn -> 0 .. 1]
              /\ ticks \in Nat

TypeOK == LinkTypeOK /\ RunTypeOK /\ MapTypeOK /\ StreamTypeOK /\ LoopTypeOK

AgentInit == /\ runPc = "top" /\ ws = 0 /\ ctxDone = FALSE
             /\ streams = {} /\ pending = {}
             /\ op = [id \in ID |-> "idle"]
             /\ result = [id \in ID |-> "none"]
             /\ once = [id \in ID |-> "new"]
             /\ inCh = [id \in ID |-> <<>>]
             /\ got = [id \in ID |-> 0]
             /\ wr = [id \in ID |-> "ready"]
             /\ sent = [id \in ID |-> 0]
             /\ rpc = [w \in Conn |-> "off"]
             /\ ron = [w \in Conn |-> 0]
             /\ rmsg = [w \in Conn |-> NoMessage]
             /\ ppc = [w \in Conn |-> "off"]
             /\ errCh = [w \in Conn |-> 0]
             /\ ticks = 0

Init == LinkInit /\ AgentInit

----------------------------------------------------------------------------
(* Locks.  Run ranges over a non-empty map with a callback that deletes     *)
(* from it: SafeMap.tla shows that it then holds the map's lock for ever    *)
(* (SelfBlockIsForever), and shutdownAll does so with s.mu held.            *)

PendingFree == runPc \notin {"stuckPending", "shutStuckPending"}
StreamsFree == runPc \notin {"stuckStreams", "shutStuckStreams"}
MuFree      == runPc \notin {"shutPending", "shutStreams",
                             "shutStuckPending", "shutStuckStreams"}

Stuck == ~(PendingFree /\ StreamsFree)

\* Session.send, when it returns nil and when it returns an error.
Send(msg) == MuFree /\ ws # 0 /\ SendUp(ws, msg)
SendFails == /\ MuFree
             /\ ws # 0 => UpBroken(ws)
             /\ UNCHANGED up

\* The caller ignores what send returns.
TrySend(msg) == Send(msg) \/ SendFails

----------------------------------------------------------------------------
(* Run and connectAndServe *)

Goto(pc) == runPc' = pc

\* The select at the head of Run's loop; shutdownAll takes s.mu and keeps it.
\* (s.ws is nil here, and no attach can come after s.closed is set.)
RunTop == /\ runPc = "top"
          /\ Goto(IF ctxDone THEN "shutPending" ELSE "dial")
          /\ UNCHANGED <<linkVars, ws, ctxDone, mapVars, streamVars, loopVars>>

\* DialConfig succeeds and attach makes the connection the current one, for
\* every sender, before anything was sent on it.
DialAttach(w) == /\ runPc = "dial"
                 /\ DialOpens(w)
                 /\ ws' = w
                 /\ Goto("sendAuth")
                 /\ UNCHANGED <<up, down, cut, ctxDone, mapVars, streamVars, loopVars>>

DialFails == /\ runPc = "dial"
             /\ Goto("detach")
             /\ UNCHANGED <<linkVars, ws, ctxDone, mapVars, streamVars, loopVars>>

SendAuth == /\ runPc = "sendAuth"
            /\ Send(Control("auth"))
            /\ Goto("recvAuth")
            /\ UNCHANGED <<down, agentEnd, serverEnd, cut, ws, ctxDone,
                           mapVars, streamVars, loopVars>>

SendAuthFails == /\ runPc = "sendAuth"
                 /\ SendFails
                 /\ CloseAgentEnd(ws)
                 /\ Goto("detach")
                 /\ UNCHANGED <<serverEnd, cut, ws, ctxDone, mapVars, streamVars, loopVars>>

\* The first message on the connection admits the agent: both loops start.
RecvAuthOk == /\ runPc = "recvAuth"
              /\ TakeDown(ws)
              /\ Head(down[ws]) = AuthResp(TRUE)
              /\ rpc' = [rpc EXCEPT ![ws] = "top"]
              /\ ppc' = [ppc EXCEPT ![ws] = "run"]
              /\ Goto("serve")
              /\ UNCHANGED <<up, agentEnd, serverEnd, cut, ws, ctxDone, mapVars,
                             streamVars, ron, rmsg, errCh, ticks>>

\* Any other first message, a receive error or the 15 s deadline drops it.
RecvAuthRefused == /\ runPc = "recvAuth"
                   /\ down[ws] # <<>> => Head(down[ws]) # AuthResp(TRUE) \/ DownBroken(ws)
                   /\ CloseAgentEnd(ws)
                   /\ Goto("detach")
                   /\ UNCHANGED <<up, serverEnd, cut, ws, ctxDone, mapVars,
                                  streamVars, loopVars>>

\* connectAndServe returns on the first loop error or on cancellation.
ServeError == /\ runPc = "serve" /\ errCh[ws] = 1
              /\ errCh' = [errCh EXCEPT ![ws] = 0]
              /\ Goto("detach")
              /\ UNCHANGED <<linkVars, ws, ctxDone, mapVars, streamVars,
                             rpc, ron, rmsg, ppc, ticks>>

ServeCancelled == /\ runPc = "serve" /\ ctxDone
                  /\ Goto("detach")
                  /\ UNCHANGED <<linkVars, ws, ctxDone, mapVars, streamVars, loopVars>>

Detach == /\ runPc = "detach"
          /\ IF ws = 0 THEN UNCHANGED <<down, agentEnd>> ELSE CloseAgentEnd(ws)
          /\ ws' = 0
          /\ Goto("failPending")
          /\ UNCHANGED <<up, serverEnd, cut, ctxDone, mapVars, streamVars, loopVars>>

\* failAllPending finds nothing to fail.
FailNonePending == /\ runPc \in {"failPending", "shutPending"} /\ pending = {}
                   /\ Goto(IF runPc = "failPending" THEN "closeStreams" ELSE "shutStreams")
                   /\ UNCHANGED <<linkVars, ws, ctxDone, mapVars, streamVars, loopVars>>

\* failAllPending answers one open, then Delete waits for the Range around it.
FailPendingStuck ==
  /\ runPc \in {"failPending", "shutPending"}
  /\ \E id \in pending :
       result' = [result EXCEPT ![id] = IF @ = "none" THEN "fail" ELSE @]
  /\ Goto(IF runPc = "failPending" THEN "stuckPending" ELSE "shutStuckPending")
  /\ UNCHANGED <<linkVars, ws, ctxDone, mapVars, op, once, inCh, got, wr, sent, loopVars>>

CloseNoStreams == /\ runPc \in {"closeStreams", "shutStreams"} /\ streams = {}
                  /\ Goto(IF runPc = "closeStreams" THEN "backoff" ELSE "done")
                  /\ UNCHANGED <<linkVars, ws, ctxDone, mapVars, streamVars, loopVars>>

\* closeAllStreams: closeRemote on one stream, then Delete waits for the Range
\* (or closeRemote itself waits for a Close that waits for the same lock).
CloseStreamsStuck ==
  /\ runPc \in {"closeStreams", "shutStreams"}
  /\ \E id \in streams :
       once' = [once EXCEPT ![id] = IF @ = "new" THEN "done" ELSE @]
  /\ Goto(IF runPc = "closeStreams" THEN "stuckStreams" ELSE "shutStuckStreams")
  /\ UNCHANGED <<linkVars, ws, ctxDone, mapVars, op, result, inCh, got, wr, sent, loopVars>>

Backoff == /\ runPc = "backoff"
           /\ \/ ctxDone /\ Goto("done")
              \/ Goto("top")
           /\ UNCHANGED <<linkVars, ws, ctxDone, mapVars, streamVars, loopVars>>

RunStep == \/ RunTop \/ (\E w \in Conn : DialAttach(w)) \/ DialFails
           \/ SendAuth \/ SendAuthFails \/ RecvAuthOk \/ RecvAuthRefused
           \/ ServeError \/ ServeCancelled \/ Detach
           \/ FailNonePending \/ FailPendingStuck
           \/ CloseNoStreams \/ CloseStreamsStuck \/ Backoff

\* The owner of the context gives up (StopAgent, a signal).
Cancel == /\ MayCancel /\ ~ctxDone /\ ctxDone' = TRUE
          /\ UNCHANGED <<linkVars, runPc, ws, mapVars, streamVars, loopVars>>

----------------------------------------------------------------------------
(* readLoop.  It asks for the current connection anew for every message, so *)
(* a loop that lives on after its connection may receive from the next one. *)

ReadTop(g) == /\ rpc[g] = "top" /\ MuFree
              /\ rpc' = [rpc EXCEPT ![g] = IF ws = 0 THEN "err" ELSE "recv"]
              /\ ron' = [ron EXCEPT ![g] = ws]
              /\ UNCHANGED <<linkVars, runVars, mapVars, streamVars, rmsg, ppc, errCh, ticks>>

ReadError(g) == /\ rpc[g] = "recv" /\ DownBroken(ron[g])
                /\ rpc' = [rpc EXCEPT ![g] = "err"]
                /\ UNCHANGED <<linkVars, runVars, mapVars, streamVars, ron, rmsg,
                               ppc, errCh, ticks>>

\* Receive returns msg, and handleInbound starts on it.
Receive(g, msg) == /\ TakeDown(ron[g])
                   /\ msg = Head(down[ron[g]])

Continue(g, pc, msg) == /\ rpc' = [rpc EXCEPT ![g] = pc]
                        /\ rmsg' = [rmsg EXCEPT ![g] = msg]
                        /\ ron' = [ron EXCEPT ![g] = 0]

\* open_resp: the answer goes into the resultCh, unless that is full or gone.
ReadOpenResp(g, msg) ==
  /\ Receive(g, msg) /\ msg.type = "open_resp"
  /\ PendingFree
  /\ result' = IF msg.id \in pending /\ result[msg.id] = "none"
               THEN [result EXCEPT ![msg.id] = IF msg.ok THEN "ok" ELSE "fail"]
               ELSE result
  /\ Continue(g, "top", NoMessage)
  /\ UNCHANGED <<up, agentEnd, serverEnd, cut, runVars, mapVars,
                 op, once, inCh, got, wr, sent, ppc, errCh, ticks>>

\* data: looked up, then pushed in a step of its own, which may have to wait.
ReadData(g, msg) ==
  /\ Receive(g, msg) /\ msg.type = "data"
  /\ StreamsFree
  /\ IF msg.id \in streams THEN Continue(g, "push", msg)
                           ELSE Continue(g, "top", NoMessage)
  /\ UNCHANGED <<up, agentEnd, serverEnd, cut, runVars, mapVars, streamVars,
                 ppc, errCh, ticks>>

\* Mutant: the entry is deleted, closeRemote is forgotten.
ReadCloseQuiet(g, msg) ==
  /\ Receive(g, msg) /\ msg.type = "close"
  /\ StreamsFree
  /\ streams' = streams \ {msg.id}
  /\ Continue(g, "top", NoMessage)
  /\ UNCHANGED <<up, agentEnd, serverEnd, cut, runVars, pending, streamVars,
                 ppc, errCh, ticks>>

\* close: closeRemote (which waits for a Close in progress), then Delete.
ReadClose(g, msg) ==
  /\ Receive(g, msg) /\ msg.type = "close"
  /\ StreamsFree
  /\ IF msg.id \in streams
     THEN /\ once[msg.id] # "running"
          /\ once' = [once EXCEPT ![msg.id] = "done"]
          /\ Continue(g, "drop", msg)
     ELSE /\ Continue(g, "top", NoMessage)
          /\ UNCHANGED once
  /\ UNCHANGED <<up, agentEnd, serverEnd, cut, runVars, mapVars,
                 op, result, inCh, got, wr, sent, ppc, errCh, ticks>>

ReadPing(g, msg) ==
  /\ Receive(g, msg) /\ msg.type = "ping"
  /\ Continue(g, "pong", NoMessage)
  /\ UNCHANGED <<up, agentEnd, serverEnd, cut, runVars, mapVars, streamVars,
                 ppc, errCh, ticks>>

\* pong, error, and what the agent does not know.
ReadOther(g, msg) ==
  /\ Receive(g, msg)
  /\ msg.type \notin {"open_resp", "data", "close", "ping"}
  /\ Continue(g, "top", NoMessage)
  /\ UNCHANGED <<up, agentEnd, serverEnd, cut, runVars, mapVars, streamVars,
                 ppc, errCh, ticks>>

ReadMessage(g) ==
  /\ rpc[g] = "recv" /\ down[ron[g]] # <<>>
  /\ LET msg == Head(down[ron[g]]) IN
       \/ ReadOpenResp(g, msg) \/ ReadData(g, msg)
       \/ ReadClose(g, msg) \/ ReadPing(g, msg) \/ ReadOther(g, msg)

\* Mutant: push does not wait for room.
PushUnbounded(g) == /\ rpc[g] = "push"
                    /\ inCh' = [inCh EXCEPT ![rmsg[g].id] = Append(@, rmsg[g].n)]
                    /\ Continue(g, "top", NoMessage)
                    /\ UNCHANGED <<linkVars, runVars, mapVars, op, result, once, got, wr, sent,
                                   ppc, errCh, ticks>>

\* push: the payload is queued, waiting for room while the stream is open ...
PushQueue(g) == /\ rpc[g] = "push"
                /\ LET id == rmsg[g].id IN
                     /\ Len(inCh[id]) < InCap
                     /\ inCh' = [inCh EXCEPT ![id] = Append(@, rmsg[g].n)]
                /\ Continue(g, "top", NoMessage)
                /\ UNCHANGED <<linkVars, runVars, mapVars, op, result, once, got, wr, sent,
                               ppc, errCh, ticks>>

\* Mutant: data that comes before OpenStream has returned is dropped, too.
PushOnceOpen(g) == /\ rpc[g] = "push"
                   /\ once[rmsg[g].id] = "done" \/ op[rmsg[g].id] = "waiting"
                   /\ Continue(g, "top", NoMessage)
                   /\ UNCHANGED <<linkVars, runVars, mapVars, streamVars, ppc, errCh, ticks>>

\* ... or dropped once closeCh is closed; the Close that handleInbound then
\* calls waits for the one in progress and does nothing.
PushClosed(g) == /\ rpc[g] = "push"
                 /\ once[rmsg[g].id] = "done"
                 /\ Continue(g, "top", NoMessage)
                 /\ UNCHANGED <<linkVars, runVars, mapVars, streamVars, ppc, errCh, ticks>>

DropStream(g) == /\ rpc[g] = "drop" /\ StreamsFree
                 /\ streams' = streams \ {rmsg[g].id}
                 /\ Continue(g, "top", NoMessage)
                 /\ UNCHANGED <<linkVars, runVars, pending, streamVars, ppc, errCh, ticks>>

Pong(g) == /\ rpc[g] = "pong"
           /\ TrySend(Control("pong"))
           /\ Continue(g, "top", NoMessage)
           /\ UNCHANGED <<down, agentEnd, serverEnd, cut, runVars, mapVars,
                          streamVars, ppc, errCh, ticks>>

\* Mutant: readLoop leaves the report to pingLoop.
ReadExitSilently(g) == /\ rpc[g] = "err"
                       /\ rpc' = [rpc EXCEPT ![g] = "exit"]
                       /\ UNCHANGED <<linkVars, runVars, mapVars, streamVars, ron, rmsg, ppc, errCh, ticks>>

\* errCh <- err
ReadExit(g) == /\ rpc[g] = "err" /\ errCh[g] = 0
               /\ errCh' = [errCh EXCEPT ![g] = 1]
               /\ rpc' = [rpc EXCEPT ![g] = "exit"]
               /\ UNCHANGED <<linkVars, runVars, mapVars, streamVars, ron, rmsg, ppc, ticks>>

ReaderStep(g) == \/ ReadTop(g) \/ ReadError(g) \/ ReadMessage(g)
                 \/ PushQueue(g) \/ PushClosed(g) \/ DropStream(g) \/ Pong(g)
                 \/ ReadExit(g)

----------------------------------------------------------------------------
(* pingLoop.  It, too, sends on whatever connection is current.             *)

PingTick(g) == /\ ppc[g] = "run" /\ ticks < MaxTicks
               /\ ticks' = ticks + 1
               /\ \/ Send(Control("ping")) /\ UNCHANGED ppc
                  \/ SendFails /\ ppc' = [ppc EXCEPT ![g] = "err"]
               /\ UNCHANGED <<down, agentEnd, serverEnd, cut, runVars, mapVars,
                              streamVars, rpc, ron, rmsg, errCh>>

PingCancelled(g) == /\ ppc[g] = "run" /\ ctxDone
                    /\ ppc' = [ppc EXCEPT ![g] = "exit"]
                    /\ UNCHANGED <<linkVars, runVars, mapVars, streamVars,
                                   rpc, ron, rmsg, errCh, ticks>>

PingExit(g) == /\ ppc[g] = "err" /\ errCh[g] = 0
               /\ errCh' = [errCh EXCEPT ![g] = 1]
               /\ ppc' = [ppc EXCEPT ![g] = "exit"]
               /\ UNCHANGED <<linkVars, runVars, mapVars, streamVars, rpc, ron, rmsg, ticks>>

PingerStep(g) == PingTick(g) \/ PingCancelled(g) \/ PingExit(g)

----------------------------------------------------------------------------
(* OpenStream, in the goroutine of a local client *)

OpGoto(id, pc) == op' = [op EXCEPT ![id] = pc]

\* A client asks for a stream; uuid.NewString draws a fresh id.
CallOpen(id) == /\ op[id] = "idle"
                /\ OpGoto(id, "called")
                /\ UNCHANGED <<linkVars, runVars, mapVars, result, once, inCh, got, wr, sent, loopVars>>

RegisterStream(id) == /\ op[id] = "called" /\ StreamsFree
                      /\ streams' = streams \cup {id}
                      /\ OpGoto(id, "registered")
                      /\ UNCHANGED <<linkVars, runVars, pending, result, once, inCh, got, wr, sent, loopVars>>

RegisterPending(id) == /\ op[id] = "registered" /\ PendingFree
                       /\ pending' = pending \cup {id}
                       /\ OpGoto(id, "sending")
                       /\ UNCHANGED <<linkVars, runVars, streams, result, once, inCh, got, wr, sent, loopVars>>

\* Mutants: the error return skips the clean-up; a sent open is sent again.
SendOpenNoUndo(id) == /\ op[id] = "sending"
                      /\ \/ Send(Open(id)) /\ OpGoto(id, "waiting")
                         \/ SendFails /\ OpGoto(id, "failed")
                      /\ UNCHANGED <<down, agentEnd, serverEnd, cut, runVars, mapVars,
                                     result, once, inCh, got, wr, sent, loopVars>>
SendOpenRetry(id) == /\ op[id] = "sending"
                     /\ \/ Send(Open(id)) /\ OpGoto(id, "waiting")
                        \/ Send(Open(id)) /\ UNCHANGED op
                        \/ SendFails /\ OpGoto(id, "undoPending")
                     /\ UNCHANGED <<down, agentEnd, serverEnd, cut, runVars, mapVars,
                                    result, once, inCh, got, wr, sent, loopVars>>

SendOpen(id) == /\ op[id] = "sending"
                /\ \/ Send(Open(id)) /\ OpGoto(id, "waiting")
                   \/ SendFails /\ OpGoto(id, "undoPending")
                /\ UNCHANGED <<down, agentEnd, serverEnd, cut, runVars, mapVars,
                               result, once, inCh, got, wr, sent, loopVars>>

UndoPending(id) == /\ op[id] = "undoPending" /\ PendingFree
                   /\ pending' = pending \ {id}
                   /\ OpGoto(id, "undoStream")
                   /\ UNCHANGED <<linkVars, runVars, streams, result, once, inCh, got, wr, sent, loopVars>>

UndoStream(id) == /\ op[id] = "undoStream" /\ StreamsFree
                  /\ streams' = streams \ {id}
                  /\ OpGoto(id, "failed")
                  /\ UNCHANGED <<linkVars, runVars, pending, result, once, inCh, got, wr, sent, loopVars>>

\* Mutant: the answered open stays pending.
OpenStaysPending(id) == /\ op[id] = "waiting" /\ result[id] # "none"
                        /\ OpGoto(id, IF result[id] = "ok" THEN "open" ELSE "forget")
                        /\ UNCHANGED <<linkVars, runVars, mapVars, result, once, inCh, got, wr, sent, loopVars>>

\* The select takes the result, and pendingOpens.Delete follows.
OpenAnswered(id) == /\ op[id] = "waiting" /\ result[id] # "none" /\ PendingFree
                    /\ pending' = pending \ {id}
                    /\ OpGoto(id, IF result[id] = "ok" THEN "open" ELSE "forget")
                    /\ UNCHANGED <<linkVars, runVars, streams, result, once, inCh, got, wr, sent, loopVars>>

\* The select takes ctx.Done: 10 s have passed, or the agent is stopped.
OpenTimesOut(id) == /\ op[id] = "waiting" /\ PendingFree
                    /\ pending' = pending \ {id}
                    /\ OpGoto(id, "forget")
                    /\ UNCHANGED <<linkVars, runVars, streams, result, once, inCh, got, wr, sent, loopVars>>

\* Refused or timed out: streams.Delete, then a close message.
ForgetStream(id) == /\ op[id] = "forget" /\ StreamsFree
                    /\ streams' = streams \ {id}
                    /\ OpGoto(id, "tell")
                    /\ UNCHANGED <<linkVars, runVars, pending, result, once, inCh, got, wr, sent, loopVars>>

\* Mutants: the close is sent again until it goes through; the server is not
\* told that the open was given up.
TellInsists(id) == /\ op[id] = "tell"
                   /\ Send(Close(id))
                   /\ OpGoto(id, "failed")
                   /\ UNCHANGED <<down, agentEnd, serverEnd, cut, runVars, mapVars,
                                  result, once, inCh, got, wr, sent, loopVars>>
TellNobody(id) == /\ op[id] = "tell"
                  /\ OpGoto(id, "failed")
                  /\ UNCHANGED <<linkVars, runVars, mapVars, result, once, inCh, got, wr, sent, loopVars>>

TellRefused(id) == /\ op[id] = "tell"
                   /\ TrySend(Close(id))
                   /\ OpGoto(id, "failed")
                   /\ UNCHANGED <<down, agentEnd, serverEnd, cut, runVars, mapVars,
                                  result, once, inCh, got, wr, sent, loopVars>>

OpenStep(id) == \/ RegisterStream(id) \/ RegisterPending(id) \/ SendOpen(id)
                \/ UndoPending(id) \/ UndoStream(id)
                \/ OpenAnswered(id) \/ OpenTimesOut(id)
                \/ ForgetStream(id) \/ TellRefused(id)

----------------------------------------------------------------------------
(* The stream in the hands of its client *)

\* Read returns the oldest queued message, also after the stream is closed.
Read(id) == /\ op[id] \in {"open", "closing", "closeTell", "closed"}
            /\ inCh[id] # <<>>
            /\ got' = [got EXCEPT ![id] = Head(inCh[id])]
            /\ inCh' = [inCh EXCEPT ![id] = Tail(@)]
            /\ UNCHANGED <<linkVars, runVars, mapVars, op, result, once, wr, sent, loopVars>>

\* Write finds closeCh open ...
Write(id) == /\ op[id] = "open" /\ once[id] = "new"
             /\ wr[id] = "ready" /\ sent[id] < MaxWrites
             /\ wr' = [wr EXCEPT ![id] = "send"]
             /\ UNCHANGED <<linkVars, runVars, mapVars,
                            op, result, once, inCh, got, sent, loopVars>>

\* ... and sends; the stream may be closed by then.
WriteSend(id) == /\ wr[id] = "send"
                 /\ \/ /\ Send(Data(id, sent[id] + 1))
                       /\ sent' = [sent EXCEPT ![id] = @ + 1]
                       /\ wr' = [wr EXCEPT ![id] = "ready"]
                    \/ /\ SendFails
                       /\ wr' = [wr EXCEPT ![id] = "ended"]
                       /\ UNCHANGED sent
                 /\ UNCHANGED <<down, agentEnd, serverEnd, cut, runVars, mapVars,
                                op, result, once, inCh, got, loopVars>>

\* Mutant: Close does not take the stream out of the map.
CloseKeepsEntry(id) == /\ op[id] = "open" /\ once[id] = "new"
                       /\ once' = [once EXCEPT ![id] = "running"]
                       /\ OpGoto(id, "closeTell")
                       /\ UNCHANGED <<linkVars, runVars, mapVars, result, inCh, got, wr, sent, loopVars>>

\* Close by its client: the first to come closes closeCh and does the rest.
CloseFirst(id) == /\ op[id] = "open" /\ once[id] = "new"
                  /\ once' = [once EXCEPT ![id] = "running"]
                  /\ OpGoto(id, "closing")
                  /\ UNCHANGED <<linkVars, runVars, mapVars, result, inCh, got, wr, sent, loopVars>>

CloseAgain(id) == /\ op[id] = "open" /\ once[id] = "done"
                  /\ OpGoto(id, "closed")
                  /\ UNCHANGED <<linkVars, runVars, mapVars, result, once, inCh, got, wr, sent, loopVars>>

\* onLocalClose
CloseForget(id) == /\ op[id] = "closing" /\ StreamsFree
                   /\ streams' = streams \ {id}
                   /\ OpGoto(id, "closeTell")
                   /\ UNCHANGED <<linkVars, runVars, pending, result, once, inCh, got, wr, sent, loopVars>>

\* Mutant: Close does not tell the server.
CloseSilently(id) == /\ op[id] = "closeTell"
                     /\ once' = [once EXCEPT ![id] = "done"]
                     /\ OpGoto(id, "closed")
                     /\ UNCHANGED <<linkVars, runVars, mapVars, result, inCh, got, wr, sent, loopVars>>

CloseTell(id) == /\ op[id] = "closeTell"
                 /\ TrySend(Close(id))
                 /\ once' = [once EXCEPT ![id] = "done"]
                 /\ OpGoto(id, "closed")
                 /\ UNCHANGED <<down, agentEnd, serverEnd, cut, runVars, mapVars,
                                result, inCh, got, wr, sent, loopVars>>

StreamStep(id) == WriteSend(id) \/ CloseForget(id) \/ CloseTell(id)

ClientStep(id) == CallOpen(id) \/ Read(id) \/ Write(id) \/ CloseFirst(id) \/ CloseAgain(id)

----------------------------------------------------------------------------

AgentStep == \/ RunStep \/ Cancel
             \/ \E g \in Conn : ReaderStep(g) \/ PingerStep(g)
             \/ \E id \in ID : OpenStep(id) \/ ClientStep(id) \/ StreamStep(id)

\* The server, as far as an agent can tell: it takes messages, sends any
\* messages, leaves its loop and closes, all at moments of its choosing.
AllServerMessages == {AuthResp(ok) : ok \in BOOLEAN}
                  \cup {Control(type) : type \in {"ping", "pong", "error"}}
                  \cup {OpenResp(id, ok) : id \in ID, ok \in BOOLEAN}
                  \cup {Data(id, n) : id \in ID, n \in Numbers}
                  \cup {Close(id) : id \in ID}
ServerMessages == {msg \in AllServerMessages : msg.type \in EnvTypes}

ServerStep(w) ==
  /\ serverEnd[w] \in {"open", "leaving"}
  /\ \/ /\ TakeUp(w) \/ UNCHANGED up
        /\ (\E msg \in ServerMessages : SendDown(w, msg)) \/ UNCHANGED down
        /\ UNCHANGED serverEnd
     \/ /\ serverEnd[w] = "open"
        /\ serverEnd' = [serverEnd EXCEPT ![w] = "leaving"]
        /\ UNCHANGED <<up, down>>
     \/ /\ serverEnd' = [serverEnd EXCEPT ![w] = "closed"]
        /\ up' = [up EXCEPT ![w] = <<>>]
        /\ UNCHANGED down
  /\ UNCHANGED <<agentEnd, cut, agentVars>>

NetworkStep == /\ \E w \in Conn : Break(w)
               /\ UNCHANGED agentVars

Next == AgentStep \/ (\E w \in Conn : ServerStep(w)) \/ NetworkStep

SafetySpec == Init /\ [][Next]_vars

----------------------------------------------------------------------------
(* Properties *)

\* OpenStream's three failure paths (send error, refusal, timeout) leave
\* neither a stream nor a pending open behind.
FailedIsForgotten == \A id \in ID : op[id] = "failed" => id \notin streams \cup pending

\* What waits in pendingOpens is an OpenStream that will still take it out.
PendingIsAwaited == \A id \in ID : id \in pending =>
                                     op[id] \in {"sending", "waiting", "undoPending"}

\* A stream its client may still use is one that the reader and the clean-up
\* can find: closeCh is closed before, never after, an entry goes away.
OpenIsReachable == \A id \in ID : (op[id] = "open" /\ once[id] = "new") => id \in streams

\* A stream that both its client and the protocol are done with is in the map
\* only while a reader is on its way to delete it, or Run is stuck.
ClosedIsForgotten ==
  \A id \in ID : (op[id] = "closed" /\ id \in streams) =>
                    \/ Stuck
                    \/ \E g \in Conn : rpc[g] = "drop" /\ rmsg[g].id = id

\* While Run serves a connection, the error of a loop that has ended waits for
\* it in errCh: none is lost, although errCh has room for only one, and a dead
\* connection is not served for ever.  Only a cancelled context ends a loop
\* without an error, and Run sees that itself.
FailureIsReported ==
  \A g \in Conn : (/\ runPc = "serve" /\ ws = g /\ ~ctxDone
                    /\ "exit" \in {rpc[g], ppc[g]}) => errCh[g] = 1

=============================================================================
