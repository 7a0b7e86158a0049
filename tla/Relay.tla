------------------------------- MODULE Relay -------------------------------
(***************************************************************************)
(* One connection of the SOCKS5 front end: the handler of a local program  *)
(* (SocksServer.handleConn, socks5.go), its two copy goroutines, and the   *)
(* stream (stream.go) between it and the session.                          *)
(*                                                                         *)
(* The program and the target are the environment: they send, end and      *)
(* leave as they like.  The session, which AgentSession.tla describes, is  *)
(* reduced to what a stream sees of it: it opens the stream or does not,   *)
(* pushes the target's data, ends the stream when the target has ended,    *)
(* takes what is sent until its link is lost, and may then be stuck.       *)
(***************************************************************************)
EXTENDS Naturals, Sequences

CONSTANTS InCap,    \* capacity of the stream's inCh (512 in the code)
          SockCap,  \* bound: messages a local socket buffer holds
          MaxSaid,  \* bound: chunks the program sends
          MaxPushed \* bound: chunks the target sends

ASSUME RelayAssumption == /\ InCap \in Nat \ {0} /\ SockCap \in Nat \ {0}
                          /\ MaxSaid \in Nat /\ MaxPushed \in Nat

VARIABLES
  prog,     \* the program's end: "open", "shut" (it will send no more), "gone"
  conn,     \* the agent's end: "open", "closed"
  toAgent,  \* what the program has sent and the agent has not read
  toProg,   \* the other direction
  stage,    \* what the program says next: "greeting", "request", "data"
  said,     \* chunks the program has sent
  heard,    \* number of the last chunk it has received
  answer,   \* the reply it has received
  pc,       \* where handleConn is
  up,       \* where the goroutine is that copies from the program ...
  upChunk,  \* ... and the chunk it holds
  dn,       \* the goroutine that copies to the program
  dnChunk,
  stream,   \* "none", "open", "closing" (a Close has begun), "closed"; closeCh
            \* is closed in the last two
  inCh,     \* its queue
  carried,  \* chunks that were sent on it
  pushed,   \* chunks the session has put into it
  ended,    \* the session ended it because the target had ended
  link      \* the session: "up", "down", "stuck" with its map locked for ever

progVars   == <<prog, stage, said, heard, answer>>
sockVars   == <<conn, toAgent, toProg>>
copyVars   == <<pc, up, upChunk, dn, dnChunk>>
streamVars == <<stream, inCh, carried, pushed, ended, link>>
vars       == <<progVars, sockVars, copyVars, streamVars>>

Item(kind, n) == [kind |-> kind, n |-> n]
Items(kinds)  == [kind : kinds, n : Nat]

TypeOK == /\ prog \in {"open", "shut", "gone"} /\ conn \in {"open", "closed"}
          /\ toAgent \in Seq(Items({"greeting", "request", "junk", "data"}))
          /\ toProg \in Seq(Items({"method", "granted", "refused", "data"}))
          /\ Len(toAgent) <= SockCap /\ Len(toProg) <= SockCap
          /\ stage \in {"greeting", "request", "data"}
          /\ {said, heard, upChunk, dnChunk, carried, pushed} \subseteq Nat
          /\ answer \in {"none", "granted", "refused"}
          /\ pc \in {"greet", "request", "open", "refuse", "grant", "relay",
                     "close", "forget", "hangUp", "done"}
          /\ up \in {"off", "read", "write", "send", "close", "forget", "done"}
          /\ dn \in {"off", "read", "write", "close", "done"}
          /\ stream \in {"none", "open", "closing", "closed"}
          /\ inCh \in Seq(Nat) /\ Len(inCh) <= InCap
          /\ ended \in BOOLEAN /\ link \in {"up", "down", "stuck"}

\* The listener has accepted a connection.
Init == /\ prog = "open" /\ stage = "greeting" /\ said = 0 /\ heard = 0 /\ answer = "none"
        /\ conn = "open" /\ toAgent = <<>> /\ toProg = <<>>
        /\ pc = "greet" /\ up = "off" /\ upChunk = 0 /\ dn = "off" /\ dnChunk = 0
        /\ stream = "none" /\ inCh = <<>> /\ carried = 0 /\ pushed = 0
        /\ ended = FALSE /\ link = "up"

----------------------------------------------------------------------------
(* The local TCP connection *)

\* The agent reads the next item: it is there, or will never be.
Takes(kind) == /\ conn = "open" /\ toAgent # <<>> /\ Head(toAgent).kind = kind
               /\ toAgent' = Tail(toAgent)
NoMore      == conn = "closed" \/ prog = "gone" \/ (prog = "shut" /\ toAgent = <<>>)

\* The agent writes; it waits while the program does not read.  What is written
\* to a program that has left is accepted or refused.
Put(kind, n) == /\ conn = "open" /\ Len(toProg) < SockCap
                /\ toProg' = IF prog = "gone" THEN toProg ELSE Append(toProg, Item(kind, n))
PutFails     == conn = "closed" \/ prog = "gone"

ProgramSays ==
  /\ prog = "open" /\ Len(toAgent) < SockCap
  /\ \/ /\ stage = "greeting" /\ stage' = "request" /\ UNCHANGED said
        /\ \E kind \in {"greeting", "junk"} : toAgent' = Append(toAgent, Item(kind, 0))
     \/ /\ stage = "request" /\ stage' = "data" /\ UNCHANGED said
        /\ \E kind \in {"request", "junk"} : toAgent' = Append(toAgent, Item(kind, 0))
     \/ /\ stage = "data" /\ said < MaxSaid /\ said' = said + 1 /\ UNCHANGED stage
        /\ toAgent' = Append(toAgent, Item("data", said'))
  /\ UNCHANGED <<prog, heard, answer, conn, toProg, copyVars, streamVars>>

ProgramHears ==
  /\ prog # "gone" /\ toProg # <<>>
  /\ toProg' = Tail(toProg)
  /\ LET item == Head(toProg) IN
       /\ heard' = IF item.kind = "data" THEN item.n ELSE heard
       /\ answer' = IF item.kind \in {"granted", "refused"} THEN item.kind ELSE answer
  /\ UNCHANGED <<prog, stage, said, conn, toAgent, copyVars, streamVars>>

\* shutdown(2) of its sending side.
ProgramShuts == /\ prog = "open" /\ prog' = "shut"
                /\ UNCHANGED <<stage, said, heard, answer, sockVars, copyVars, streamVars>>

\* It closes the connection or dies; what it has not read is gone, and what the
\* agent has not read may be.
ProgramLeaves == /\ prog # "gone" /\ prog' = "gone"
                 /\ toProg' = <<>> /\ toAgent' \in {toAgent, <<>>}
                 /\ UNCHANGED <<stage, said, heard, answer, conn, copyVars, streamVars>>

\* Closed with something unread, or sent to later, the agent's end resets the
\* connection: the program loses what it has not received yet.
Reset == /\ conn = "closed" /\ toAgent # <<>> /\ prog # "gone"
         /\ prog' = "gone" /\ toAgent' = <<>> /\ toProg' = <<>>
         /\ UNCHANGED <<stage, said, heard, answer, conn, copyVars, streamVars>>

Program == ProgramSays \/ ProgramHears \/ ProgramShuts \/ ProgramLeaves \/ Reset

----------------------------------------------------------------------------
(* The session and its stream *)

\* Mutant: it does not wait.
PushAtOnce == /\ stream \in {"open", "closing"} /\ pushed < MaxPushed /\ link = "up"
              /\ inCh' = Append(inCh, pushed + 1) /\ pushed' = pushed + 1
              /\ UNCHANGED <<progVars, sockVars, copyVars, stream, carried, ended, link>>

\* handleInbound pushes into a stream that it finds, which may be on its way out
\* of the map; it waits for room.  The select of push may queue though closeCh is
\* closed.  (What it queues when the Close is over could as well have been queued
\* just before: the same is read of it.)
Push == /\ stream \in {"open", "closing"} /\ Len(inCh) < InCap /\ pushed < MaxPushed /\ link = "up"
        /\ inCh' = Append(inCh, pushed + 1) /\ pushed' = pushed + 1
        /\ UNCHANGED <<progVars, sockVars, copyVars, stream, carried, ended, link>>

\* The server's close message: closeRemote, after the last push.
TargetEnds == /\ stream = "open" /\ link = "up"
              /\ stream' = "closed" /\ ended' = TRUE
              /\ UNCHANGED <<progVars, sockVars, copyVars, inCh, carried, pushed, link>>

\* The tunnel's connection is lost.  If there are streams then, Run closes one
\* of them, this or another, and is stuck (SafeMap.tla); otherwise it dials.
LinkLost == /\ link = "up" /\ link' = "down"
            /\ UNCHANGED <<progVars, sockVars, copyVars, stream, inCh, carried, pushed, ended>>

RunStuck == /\ link = "down" /\ link' = "stuck"
            /\ stream' \in {stream, IF stream = "open" THEN "closed" ELSE stream}
            /\ UNCHANGED <<progVars, sockVars, copyVars, inCh, carried, pushed, ended>>

LinkBack == /\ link = "down" /\ stream \in {"none", "closed"} /\ link' = "up"
            /\ UNCHANGED <<progVars, sockVars, copyVars, stream, inCh, carried, pushed, ended>>

Session == Push \/ TargetEnds \/ LinkLost \/ RunStuck \/ LinkBack

\* wsStream.Close closes closeCh and then takes the stream out of the map; a
\* second Close waits for the first.
BeginClose == stream = "open" /\ stream' = "closing"
EndClose   == link # "stuck" /\ stream' = "closed"

----------------------------------------------------------------------------
(* handleConn *)

Handler(from, to) == pc = from /\ pc' = to /\ UNCHANGED <<up, upChunk, dn, dnChunk>>

\* handshake
Greet == /\ Handler("greet", "request")
         /\ Takes("greeting") /\ Put("method", 0)
         /\ UNCHANGED <<progVars, conn, streamVars>>

GreetFails == /\ Handler("greet", "hangUp")
              /\ \/ NoMore /\ UNCHANGED toAgent
                 \/ Takes("junk")
                 \/ Takes("greeting") /\ PutFails
              /\ UNCHANGED <<progVars, conn, toProg, streamVars>>

\* Mutant: the program is told that it is connected as soon as it has asked.
ReadRequestGrants == /\ Handler("request", "open") /\ Takes("request") /\ Put("granted", 0)
                     /\ UNCHANGED <<progVars, conn, streamVars>>

\* readConnectRequest
ReadRequest == /\ Handler("request", "open") /\ Takes("request")
               /\ UNCHANGED <<progVars, conn, toProg, streamVars>>

RequestFails == /\ Handler("request", "refuse")
                /\ \/ NoMore /\ UNCHANGED toAgent
                   \/ Takes("junk")
                /\ UNCHANGED <<progVars, conn, toProg, streamVars>>

\* OpenStream
Opens == /\ Handler("open", "grant")
         /\ link = "up" /\ stream' = "open"
         /\ UNCHANGED <<progVars, sockVars, inCh, carried, pushed, ended, link>>

OpenFails == /\ Handler("open", "refuse") /\ link # "stuck"
             /\ UNCHANGED <<progVars, sockVars, streamVars>>

\* writeSocksReply with 0x00, and the two copies start.
GrantIt == /\ pc = "grant" /\ Put("granted", 0)
           /\ pc' = "relay" /\ up' = "read" /\ dn' = "read"
           /\ UNCHANGED <<progVars, conn, toAgent, upChunk, dnChunk, streamVars>>

\* Mutant: the stream is not yet to be closed when the reply fails.
GrantFailsNoClose == /\ Handler("grant", "hangUp") /\ PutFails
                     /\ UNCHANGED <<progVars, sockVars, streamVars>>

GrantFails == /\ Handler("grant", "close") /\ PutFails
              /\ UNCHANGED <<progVars, sockVars, streamVars>>

\* writeSocksReply with 0x01 or 0x05; whether it fails does not matter.
RefuseIt == /\ Handler("refuse", "hangUp")
            /\ Put("refused", 0) \/ (PutFails /\ UNCHANGED toProg)
            /\ UNCHANGED <<progVars, conn, toAgent, streamVars>>

\* The first copy that is done ends the connection.
CopyDone == /\ Handler("relay", "close") /\ "done" \in {up, dn}
            /\ UNCHANGED <<progVars, sockVars, streamVars>>

\* The deferred calls: stream.Close, then c.Close.
CloseStream == /\ \/ Handler("close", "forget") /\ BeginClose
                  \/ Handler("forget", "hangUp") /\ EndClose
                  \/ Handler("close", "hangUp") /\ stream = "closed" /\ UNCHANGED stream
               /\ UNCHANGED <<progVars, sockVars, inCh, carried, pushed, ended, link>>

HangUp == /\ Handler("hangUp", "done") /\ conn' = "closed"
          /\ UNCHANGED <<progVars, toAgent, toProg, streamVars>>

HandlerStep == \/ Greet \/ GreetFails \/ ReadRequest \/ RequestFails
               \/ Opens \/ OpenFails \/ GrantIt \/ GrantFails \/ RefuseIt
               \/ CopyDone \/ CloseStream \/ HangUp

----------------------------------------------------------------------------
(* io.Copy(stream, c), then stream.Close *)

Up(from, to)   == up = from /\ up' = to /\ UNCHANGED <<pc, dn, dnChunk>>
Down(from, to) == dn = from /\ dn' = to /\ UNCHANGED <<pc, up, upChunk>>

UpRead == /\ Up("read", "write") /\ Takes("data")
          /\ upChunk' = Head(toAgent).n
          /\ UNCHANGED <<progVars, conn, toProg, streamVars>>

UpEnds == /\ Up("read", "close") /\ NoMore
          /\ UNCHANGED <<progVars, sockVars, upChunk, streamVars>>

\* Write finds closeCh open; when it sends, the stream may be closed.
UpWrite == /\ Up("write", "send") /\ stream = "open"
           /\ UNCHANGED <<progVars, sockVars, upChunk, streamVars>>

UpSend == /\ Up("send", "read") /\ link = "up"
          /\ carried' = upChunk
          /\ UNCHANGED <<progVars, sockVars, upChunk, stream, inCh, pushed, ended, link>>

UpWriteFails == /\ \/ Up("write", "close") /\ stream # "open"
                   \/ Up("send", "close") /\ link # "up"
                /\ UNCHANGED <<progVars, sockVars, upChunk, streamVars>>

UpClose == /\ \/ Up("close", "forget") /\ BeginClose
              \/ Up("forget", "done") /\ EndClose
              \/ Up("close", "done") /\ stream = "closed" /\ UNCHANGED stream
           /\ UNCHANGED <<progVars, sockVars, upChunk, inCh, carried, pushed, ended, link>>

UpStep == UpRead \/ UpEnds \/ UpWrite \/ UpSend \/ UpWriteFails \/ UpClose

(* io.Copy(c, stream), then c.Close *)

\* Read takes what is queued, also when closeCh is closed ...
DownRead == /\ Down("read", "write") /\ inCh # <<>>
            /\ dnChunk' = Head(inCh) /\ inCh' = Tail(inCh)
            /\ UNCHANGED <<progVars, sockVars, stream, carried, pushed, ended, link>>

\* Mutant: Read returns EOF as soon as closeCh is closed.
DownEndsAtOnce == /\ Down("read", "close") /\ stream \in {"closing", "closed"}
                  /\ UNCHANGED <<progVars, sockVars, dnChunk, streamVars>>

\* ... and only then returns EOF.
DownEnds == /\ Down("read", "close")
            /\ inCh = <<>> /\ stream \in {"closing", "closed"}
            /\ UNCHANGED <<progVars, sockVars, dnChunk, streamVars>>

DownWrite == /\ Down("write", "read") /\ Put("data", dnChunk)
             /\ UNCHANGED <<progVars, conn, toAgent, dnChunk, streamVars>>

DownWriteFails == /\ Down("write", "close") /\ PutFails
                  /\ UNCHANGED <<progVars, sockVars, dnChunk, streamVars>>

DownClose == /\ Down("close", "done") /\ conn' = "closed"
             /\ UNCHANGED <<progVars, toAgent, toProg, dnChunk, streamVars>>

DownStep == DownRead \/ DownEnds \/ DownWrite \/ DownWriteFails \/ DownClose

----------------------------------------------------------------------------

Next == Program \/ Session \/ HandlerStep \/ UpStep \/ DownStep

\* Goroutines that can go on do; nobody else has to do anything.
Fairness == WF_vars(HandlerStep) /\ WF_vars(UpStep) /\ WF_vars(DownStep)

Spec == Init /\ [][Next]_vars /\ Fairness

----------------------------------------------------------------------------
(* Properties *)

\* The front end keeps the promise of TcpRelay.tla.
T == INSTANCE TcpRelay WITH stream <- IF stream = "none" THEN "none" ELSE
                                      IF stream = "open" THEN "open" ELSE "closed"
RelaySpec == T!RSpec

\* The copies are over and the program is still there: it has, or has in its
\* socket buffer, all that the target sent before it ended.  This needs that
\* all the program said went out: one that half-closes, or is still sending
\* when the target ends, may lose the end of the answer.
AnswerIsWhole ==
  (ended /\ dn = "done" /\ prog = "open" /\ carried = said)
     => pushed = IF toProg # <<>> /\ toProg[Len(toProg)].kind = "data"
                 THEN toProg[Len(toProg)].n ELSE heard

\* Nothing of the connection is left.
Over == /\ pc = "done" /\ up \in {"off", "done"} /\ dn \in {"off", "done"}
        /\ conn = "closed" /\ stream \in {"none", "closed"}

\* The writer waits for a program that is there and does not read.
HeldUp == Len(toProg) = SockCap /\ prog # "gone"

\* When the program has left, or will send no more, or the stream has ended,
\* the handler and both copies come to their end and leave nothing open,
\* unless the session is stuck or the program does not read what it is sent.
AllEnd == (prog # "open" \/ stream = "closed") ~> (Over \/ link = "stuck" \/ HeldUp)

=============================================================================
