-------------------------------- MODULE Link --------------------------------
(***************************************************************************)
(* The websocket connections between the agent and the server, as the      *)
(* program uses them: golang.org/x/net/websocket over TCP is not part of   *)
(* the repository, and what is said of it here is what session.go and      *)
(* server.go rely on.                                                      *)
(*                                                                         *)
(* The agent dials one connection after another; connection w is its w-th. *)
(* Each direction of a connection is a FIFO queue of protocol envelopes    *)
(* (internal/protocol/envelope.go, type Envelope), reduced to the fields   *)
(* the two sides branch on:                                                *)
(*   type  TypeAuth, TypeOpen, ... of envelope.go                          *)
(*   id    ConnID, or NoID for a message about the connection itself       *)
(*   ok    Ok of auth_resp and open_resp, and of auth: a valid token       *)
(*   n     for data: which message of its stream and direction it is        *)
(*         (Seq from the server; the agent sends none, so n is a ghost)     *)
(***************************************************************************)
EXTENDS Naturals, Sequences

CONSTANTS ID,           \* connection identifiers (uuids drawn by OpenStream)
          NoID,         \* the empty ConnID
          MaxConn,      \* bound: connections the agent dials
          MaxInFlight,  \* bound: messages the buffers of one direction hold
          Fragile       \* connections that the network may cut

Conn == 1 .. MaxConn

ASSUME LinkAssumption == /\ NoID \notin ID
                         /\ MaxConn \in Nat \ {0}
                         /\ MaxInFlight \in Nat \ {0}
                         /\ Fragile \subseteq Conn

VARIABLES up,         \* messages from the agent to the server, per connection
          down,       \* messages from the server to the agent
          agentEnd,   \* "none" before the dial, "open", "closed"
          serverEnd,  \* the same; "leaving" once the handler has left its loop
          cut         \* the network no longer carries anything

linkVars == <<up, down, agentEnd, serverEnd, cut>>

Message(type, id, ok, n) == [type |-> type, id |-> id, ok |-> ok, n |-> n]
Control(type)            == Message(type, NoID, TRUE, 0)
AuthResp(ok)             == Message("auth_resp", NoID, ok, 0)
Open(id)                 == Message("open", id, TRUE, 0)
OpenResp(id, ok)         == Message("open_resp", id, ok, 0)
Data(id, n)              == Message("data", id, TRUE, n)
Close(id)                == Message("close", id, TRUE, 0)

Messages == [type : {"auth", "auth_resp", "open", "open_resp", "data",
                     "close", "ping", "pong", "error"},
             id : ID \cup {NoID}, ok : BOOLEAN, n : Nat]

LinkTypeOK == /\ up \in [Conn -> Seq(Messages)]
              /\ down \in [Conn -> Seq(Messages)]
              /\ agentEnd \in [Conn -> {"none", "open", "closed"}]
              /\ serverEnd \in [Conn -> {"none", "open", "leaving", "closed"}]
              /\ cut \in [Conn -> BOOLEAN]

LinkInit == /\ up = [w \in Conn |-> <<>>]
            /\ down = [w \in Conn |-> <<>>]
            /\ agentEnd = [w \in Conn |-> "none"]
            /\ serverEnd = [w \in Conn |-> "none"]
            /\ cut = [w \in Conn |-> FALSE]

----------------------------------------------------------------------------
(* Message.Send.  What is sent to a peer that has stopped reading, or over  *)
(* a cut network, is accepted by the local socket buffer and lost.  A       *)
(* sender whose buffers are full waits (or times out, see Break).           *)

SendUp(w, msg) ==
  /\ agentEnd[w] = "open"
  /\ IF serverEnd[w] = "open" /\ ~cut[w]
     THEN /\ Len(up[w]) < MaxInFlight
          /\ up' = [up EXCEPT ![w] = Append(@, msg)]
     ELSE UNCHANGED up

SendDown(w, msg) ==
  /\ serverEnd[w] \in {"open", "leaving"}
  /\ IF agentEnd[w] = "open" /\ ~cut[w]
     THEN /\ Len(down[w]) < MaxInFlight
          /\ down' = [down EXCEPT ![w] = Append(@, msg)]
     ELSE UNCHANGED down

\* When Message.Send may report an error.
UpBroken(w) == agentEnd[w] = "closed" \/ serverEnd[w] = "closed" \/ cut[w]
DownSendBroken(w) == serverEnd[w] = "closed" \/ agentEnd[w] = "closed" \/ cut[w]

\* Message.Receive takes the oldest message.
TakeDown(w) == /\ agentEnd[w] = "open" /\ down[w] # <<>>
               /\ down' = [down EXCEPT ![w] = Tail(@)]
TakeUp(w) == /\ serverEnd[w] = "open" /\ up[w] # <<>>
             /\ up' = [up EXCEPT ![w] = Tail(@)]

\* When Message.Receive may report an error.  A closing peer may reset the
\* connection, so that what is still queued is never read.  The read deadlines
\* of both sides are longer than the peer's ping interval, so they expire only
\* when the peer's ping loop is gone or the network is cut.
DownBroken(w) == \/ agentEnd[w] = "closed" \/ serverEnd[w] = "closed" \/ cut[w]
                 \/ serverEnd[w] = "leaving" /\ down[w] = <<>>
UpReadBroken(w) == serverEnd[w] = "closed" \/ agentEnd[w] = "closed" \/ cut[w]

\* A dial that succeeds: the HTTP upgrade also starts the server's handler.
DialOpens(w) == /\ agentEnd[w] = "none"
                /\ \A v \in 1 .. (w - 1) : agentEnd[v] # "none"
                /\ agentEnd' = [agentEnd EXCEPT ![w] = "open"]
                /\ serverEnd' = [serverEnd EXCEPT ![w] = "open"]

\* The agent closes its end; what it has not read is gone.
CloseAgentEnd(w) == /\ agentEnd' = [agentEnd EXCEPT ![w] = "closed"]
                    /\ down' = [down EXCEPT ![w] = <<>>]

\* The network stops carrying anything, or a sender's write deadline expires
\* with the buffers full: the websocket writer stays broken after either.
Break(w) == /\ agentEnd[w] = "open" /\ ~cut[w]
            /\ \/ w \in Fragile
               \/ Len(up[w]) = MaxInFlight
               \/ Len(down[w]) = MaxInFlight
            /\ cut' = [cut EXCEPT ![w] = TRUE]
            /\ UNCHANGED <<up, down, agentEnd, serverEnd>>

\* A link on which both sides hear each other.
Alive(w) == agentEnd[w] = "open" /\ serverEnd[w] = "open" /\ ~cut[w]
=============================================================================
