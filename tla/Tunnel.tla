------------------------------- MODULE Tunnel -------------------------------
(***************************************************************************)
(* The agent's session and the server's session joined by their websocket  *)
(* connections: what each module left to its environment is now done by    *)
(* the other.  Both modules are instantiated over the same variables, so   *)
(* their own specifications are properties of this one.                    *)
(***************************************************************************)
EXTENDS Link, FiniteSets

CONSTANTS InCap, MaxTicks, MaxWrites, MayCancel,  \* of AgentSession
          MaxData, MaxSrvTicks                    \* of ServerSession

VARIABLES runPc, ws, ctxDone, streams, pending, op, result, once, inCh, got,
          wr, sent, rpc, ron, rmsg, ppc, errCh, ticks,
          hpc, hid, authed, conns, spl, sticks, home, sock, pipe, pseq, wrote

A == INSTANCE AgentSession
       WITH Numbers <- 1 .. MaxData,
            EnvTypes <- {"auth_resp", "ping", "pong", "error", "open_resp", "data", "close"}
S == INSTANCE ServerSession WITH AgentNumbers <- 1 .. MaxWrites

ASSUME TunnelAssumption == A!AgentAssumption /\ S!ServerAssumption

agentVars  == <<runPc, ws, ctxDone, streams, pending, op, result, once, inCh,
                got, wr, sent, rpc, ron, rmsg, ppc, errCh, ticks>>
serverVars == <<hpc, hid, authed, conns, spl, sticks, home, sock, pipe, pseq, wrote>>
vars       == <<linkVars, agentVars, serverVars>>

Init == LinkInit /\ A!AgentInit /\ S!ServerInit

Agent   == A!AgentStep /\ UNCHANGED serverVars
Server  == S!ServerStep /\ UNCHANGED agentVars
Network == (\E w \in Conn : Break(w)) /\ UNCHANGED <<agentVars, serverVars>>

Next == Agent \/ Server \/ Network

\* Mutant: a write has no deadline.
NoDeadline(w) == FALSE

\* The write deadline of both sides: a direction that stays full while somebody
\* has a message for it, the ping loop at the latest, breaks the connection.
WriteDeadline(w) ==
  /\ \/ /\ Len(down[w]) = MaxInFlight
        /\ spl[w] = "run" \/ \E id \in ID : home[id] = w /\ pipe[id] \in {"send", "tell"}
     \/ /\ Len(up[w]) = MaxInFlight
        /\ ws = w /\ \E g \in Conn : ppc[g] = "run"
  /\ Break(w) /\ UNCHANGED <<agentVars, serverVars>>

\* Every goroutine that can go on does.  Weak fairness is enough: what a sender
\* or a reader waits for stays there until it gets its turn.  Nothing obliges a
\* client, a target or the network, but that a blocked write fails in the end.
Fairness ==
  /\ WF_vars(UNCHANGED serverVars /\ A!RunStep)
  /\ \A g \in Conn : /\ WF_vars(UNCHANGED serverVars /\ A!ReaderStep(g))
                     /\ WF_vars(UNCHANGED serverVars /\ A!PingerStep(g))
                     /\ WF_vars(UNCHANGED agentVars /\ S!HandlerStep(g))
                     /\ WF_vars(WriteDeadline(g))
  /\ \A id \in ID : /\ WF_vars(UNCHANGED serverVars /\ A!OpenStep(id))
                    /\ WF_vars(UNCHANGED serverVars /\ A!StreamStep(id))
                    /\ WF_vars(UNCHANGED agentVars /\ S!PipeWork(id))

SafetySpec == Init /\ [][Next]_vars
Spec == SafetySpec /\ Fairness

----------------------------------------------------------------------------
(* Properties *)

\* The two sides implement what each assumes of the other: the server behaves
\* as the environment of AgentSession, the agent as that of ServerSession.
AgentSpec  == A!SafetySpec
ServerSpec == S!SafetySpec

\* Together they carry streams as Circuit promises: in order, without gaps, and
\* "open" is never said of a target that was not reached.
ClientView == [id \in ID |->
                 CASE op[id] = "idle" -> "none"
                   [] op[id] = "open" -> "open"
                   [] op[id] = "failed" -> "failed"
                   [] op[id] \in {"closing", "closeTell", "closed"} -> "closed"
                   [] OTHER -> "opening"]

C == INSTANCE Circuit WITH client <- ClientView, target <- sock,
                           written <- sent, arrived <- wrote,
                           produced <- pseq, taken <- got
CircuitSpec == C!CSpec

\* Work in progress about a stream: messages under way, a goroutine of either
\* side in the middle of an operation on it.
InFlight(id) == \E w \in Conn : \/ \E i \in 1 .. Len(up[w]) : up[w][i].id = id
                                \/ \E i \in 1 .. Len(down[w]) : down[w][i].id = id
AgentAtWork(id) == \/ op[id] \notin {"idle", "open", "failed", "closed"}
                   \/ \E g \in Conn : rmsg[g].id = id
ServerAtWork(id) == \/ \E w \in Conn : hid[w] = id
                    \/ pipe[id] \notin {"off", "read", "exit"}

\* Whenever nothing is going on about a stream and the link it was opened on is
\* up, both sides agree on it: the agent has it open exactly if the server has
\* a socket for it.  No close is lost, no open forgotten on either side.
QuietAgreement ==
  \A id \in ID :
    (/\ home[id] # 0 /\ Alive(home[id])
     /\ ~InFlight(id) /\ ~AgentAtWork(id) /\ ~ServerAtWork(id)) =>
        ((op[id] = "open" /\ once[id] = "new") <=> (sock[id] = "open"))

\* A handler that has not decided to end the connection.
Serving(w) == Alive(w) /\ hpc[w] \notin {"leave", "closeAll", "stuck", "gone"}

\* While the connection is served, OpenStream never waits for nothing: its open
\* is on the way, being dialled, or its answer is on the way back.
NoLostOpen ==
  \A id \in ID :
    (op[id] = "waiting" /\ result[id] = "none" /\ ws # 0 /\ Serving(ws)) =>
      \/ \E i \in 1 .. Len(up[ws]) : up[ws][i] = Open(id)
      \/ hid[ws] = id
      \/ \E i \in 1 .. Len(down[ws]) : down[ws][i].type = "open_resp" /\ down[ws][i].id = id

\* The link over which the stream was opened works.
LinkUp(id) == home[id] # 0 /\ Alive(home[id])

\* A target whose client is gone is let go of, as long as the link works.
TargetReleased ==
  \A id \in ID : (op[id] \in {"failed", "closed"} /\ sock[id] = "open")
                   ~> (sock[id] = "closed" \/ ~LinkUp(id))

\* The reader is held up by a stream whose client does not read.
HeadOfLine == \E g \in Conn : /\ rpc[g] = "push"
                              /\ Len(inCh[rmsg[g].id]) = InCap
                              /\ once[rmsg[g].id] = "new"

\* A client learns that its target is gone, as long as the link works and no
\* client holds up the reader.
ClientLearns ==
  \A id \in ID : (op[id] = "open" /\ sock[id] = "closed")
                   ~> (op[id] # "open" \/ once[id] # "new" \/ HeadOfLine \/ ~LinkUp(id))

\* OpenStream returns: answered, refused or timed out, unless Run is stuck.
OpenReturns == \A id \in ID : (op[id] = "called") ~> (op[id] \in {"open", "failed"} \/ A!Stuck)

\* A pipe whose target is gone, or that cannot reach the agent, ends, also when
\* the link is full because a client does not read; only a handler stuck in
\* closeAll can hold it up.
PipeFinishes == \A id \in ID : (pipe[id] \in {"close", "abort"})
                                 ~> (pipe[id] = "exit" \/ \E w \in Conn : w = home[id] /\ hpc[w] = "stuck")

\* A handler whose agent is gone ends, or is stuck in closeAll.
HandlerFinishes == \A w \in Conn : (serverEnd[w] = "open" /\ agentEnd[w] = "closed")
                                     ~> (hpc[w] \in {"gone", "stuck"})

\* After a connection is lost, Run gets back to dialling.
Reconnects == (runPc = "detach") ~> (runPc \in {"dial", "done"})

\* The first thing a session says is auth.
AuthComesFirst == \A w \in Conn :
                    (hpc[w] = "recv" /\ ~authed[w] /\ up[w] # <<>>) => Head(up[w]).type = "auth"

=============================================================================
