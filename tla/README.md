# http-tunnel in TLA+

Specifications of http-tunnel: an agent on a user's machine and a server in a private network that
carry TCP connections over one websocket. A program on the user's machine connects to the agent's
SOCKS5 port (directly, or through a TUN device and tun2socks); the agent opens a stream to the
server, which dials the target and copies bytes both ways. `src/go` is the reference for every
definition; where its comments or the README say otherwise, the model follows the code and the
difference is a finding (section 7).

## 1. The system

| component | code | state it keeps | operations | what makes it correct |
|---|---|---|---|---|
| SafeMap | `internal/shared/errgroup.go` | a map under a `sync.RWMutex` | Get, Set, Delete, Range with a callback | atomic; every call returns |
| websocket link | `golang.org/x/net/websocket`, `internal/protocol/envelope.go` | messages under way, each end open or closed | send, receive, dial, close | (external) FIFO until it breaks |
| agent session | `internal/agent/session.go` | current connection, streams, pendingOpens, errCh | Run, readLoop, pingLoop, OpenStream, local close, clean-up | the maps fit the life of each stream; OpenStream returns; a dead connection is left and another dialled |
| stream | `internal/agent/stream.go` | inCh (512 messages), closeCh, once, rbuf | Read, Write, Close, closeRemote, push | data in order, no gap; one close |
| server session | `internal/server/server.go` | authed, conns, seq; a socket and a goroutine per target | handleWS, handleOpen/Data/Close, pingLoop, pipeRemoteToAgent, closeConn, closeAll | no socket without an owner; no entry without a pipe; everything ends with the connection |
| SOCKS5 front end | `internal/agent/socks5.go` | the listener; two copy goroutines per client | Run, handleConn, handshake, readConnectRequest | one true answer; both directions in order; the target's answer arrives whole; nothing is left behind |
| agent service | `internal/agent/agent.go`, `cmd/htunnel-agent` | the context, a session, a listener | Service.Run, main | what is started is stopped |
| TUN runner | `internal/agent/tun_runner.go`, `routes.go` | tun2socks, routes in the OS table | Start, set-up and clean-up of routes | routes set are removed, once, after set-up, and by nobody else before |
| desktop UI | `cmd/htunnel-ui` | running, cancel under App.mu; the configuration file and the key that seals its password | Connect, AutoConnect, StartAgent, StopAgent | at most one run, which can be stopped; no setting is lost; the password can be read again; the agent runs with what is stored |
| login and tokens | `internal/server/auth_api.go`, `jwt.go` | users, secret | login, token check | a token is given to, and accepted from, who may |
| configuration, server start-up, privilege check | `config.go`, `cmd/htunnel-server`, `privilege_*.go` | none after start | read, default, listen | - |

How they interact. The SOCKS5 front end *calls* `OpenStream` and then Read/Write/Close on the
stream, from goroutines of its own. The session's goroutines *share* SafeMaps, `s.mu`, `s.writeMu`
and each stream's channels with them. The two sessions exchange *messages* over the link. Service.Run
*starts* the session, the TUN runner and the listener under one context; the command line and the UI
*call* Service.Run and cancel that context.

What is hard here (`hazards` in PROJECT.json has each at its line):

- *Files without locks.* The UI's calls read, complete and write the same two files, each write in two
  steps, and the process may end between any two.
- *Concurrency without joins.* Nobody waits for readLoop, pingLoop, pipes or the clean-up of routes
  to end. Loops of a lost connection ask for the current one at every turn and may go on with the next.
- *Several hands on one entry.* A stream is ended by its client, by the server's close message and by
  Run's clean-up; a target by a close message, a failed write, its own end, and closeAll. Each path is
  several steps (Get, close, Delete).
- *Locks held across callbacks.* `SafeMap.Range` holds the read lock while its callback deletes from
  the same map.
- *Crossing messages.* Timeout against late answer, close against close, data after close, open before
  auth, answer against first data.
- *Queues at their limit.* inCh is bounded and read by the client, but filled by the loop that serves
  every stream; errCh has room for one of two errors.
- *Partial failure.* OpenStream's three error paths; Service.Run's four; a route command that fails.

## 2. Modules

| module | extends / instantiates | what it is |
|---|---|---|
| `AtomicMap` | - | abstract: a map whose operations happen at one instant |
| `SafeMap` | INSTANCE AtomicMap | the RWMutex and the four operations, at the steps at which they can block |
| `Link` | - | the connections; operators used by both sessions (external) |
| `AgentSession` | EXTENDS Link | session and streams; the server is an environment that sends anything |
| `ServerSession` | EXTENDS Link | handlers, pipes, targets; the agent is an environment that sends anything |
| `Circuit` | - | abstract: ordered streams between a client and a target |
| `Tunnel` | EXTENDS Link, INSTANCE AgentSession, ServerSession, Circuit | both sides on one set of connections |
| `TcpRelay` | - | abstract: what a program that connects to the SOCKS5 port is promised |
| `Relay` | INSTANCE TcpRelay | one SOCKS5 connection: handleConn, its two copies, its stream |
| `Desktop` | - | Connect and AutoConnect over the configuration and key files, with crashes |
| `Lifecycle` | - | Service.Run with what it starts, and the two programs that call it |
| `LinkProofs` | EXTENDS Link | lemmas about the queues of a connection, for both sides |
| `SafeMapProofs`, `RelayProofs`, `DesktopProofs`, `LifecycleProofs` | the module, TLAPS | theorems |
| `AgentSessionProofs`, `ServerSessionProofs` | the module, LinkProofs | theorems about each side by itself |
| `TunnelProofs` | EXTENDS Tunnel, INSTANCE AgentSessionProofs, ServerSessionProofs | theorems about the two together |
| `MC...` | the module | symmetry sets and small constants for TLC |

The operators described as mutants in the component modules are plausible errors (a dropped undo, an
entry kept, a lock taken too early) that no behaviour specification uses. Each property of a passing
run is violated when one of them takes the place of the right definition, which shows that the
property can fail and that the bounds of its run are large enough to see it.

### SafeMap

`pc[p]` is where goroutine p is inside `Lock`/`RLock`. `Lock` is two steps, as in Go's `sync.RWMutex`:
it announces itself, which stops new readers, and then waits for those inside to leave. `Unlock` lets
the queued readers in. `RangeVisit` is the callback: every Range in this program calls Delete on the
same map. A Range is therefore the case in which p is in `readers` and waits for `readers` to be empty.
Len has no caller and is left out.

### Link

Each direction of connection w is a FIFO queue of envelopes reduced to the fields handlers branch on.
A send to a peer that has stopped reading is accepted and lost, as with a TCP socket buffer; a send to
a full queue waits until there is room or the write deadline breaks the connection. `Break` cuts a
connection of `Fragile`. A close does not promise that what is queued is read.

### AgentSession

| code | model |
|---|---|
| `Session.ws`, `streams`, `pendingOpens` | `ws` (0 for nil), `streams`, `pending` (keys only) |
| `wsStream.inCh`, `once`/`closeCh`, `resultCh` | `inCh`, `once`, `result` |
| where OpenStream / the client's goroutine is | `op`; its writer is `wr` |
| Run / connectAndServe | `runPc`: top, dial, sendAuth, recvAuth, serve, detach, failPending, closeStreams, backoff, ... |
| readLoop and pingLoop of the connection dialled w-th | `rpc[w]`, `ron[w]` (the connection it receives from now), `rmsg[w]`, `ppc[w]` |
| `errCh` of connectAndServe | `errCh[w]` in 0..1 |

`failAllPending` and `closeAllStreams` are one step when the map is empty. Otherwise Run enters a
`stuck` state that keeps the map's lock, because SafeMap shows (`SelfBlockIsForever`) that it does so
for ever; `shutdownAll` keeps `s.mu` as well. Every action that needs a lock has it as a guard
(`PendingFree`, `StreamsFree`, `MuFree`), so the goroutines that hang behind Run in the code do so here.

### ServerSession

`hpc[w]` is where the handler of connection w is, `hid[w]` the stream it is busy with; `pipe[id]` is
where `pipeRemoteToAgent` is, `sock[id]` the target's socket, `home[id]` the session that dialled it.
`closeConn` is Get+Close and Delete in two steps, because the handler, the pipe and closeAll meet
there. `closeAll` on a non-empty map is stuck, for the same reason as above.

### Tunnel and Circuit

Tunnel has no actions of its own: a step is one of AgentSession's, one of ServerSession's, or a cut.
`WriteDeadline` names the cut that a full link and a waiting sender lead to, for the sake of fairness (section 5).
`C == INSTANCE Circuit` maps the agent's `op` to the client's view (`ClientView`), `sock` to the target,
and the four message counters. Data messages carry their number, a ghost from the agent to the server
(the code sends no sequence number that way); the server's `Seq` is real. `got` and `wrote` are the
number of the last message delivered, so a gap, a repeat or a swap is a step that Circuit does not have.

This refinement is checked for one connection, and it is false for two: see section 7, number 4. For any number of
connections TunnelProofs shows that it holds as long as no reader goes on with another connection (section 6).

### TcpRelay and Relay

`pc` is where handleConn is, `up` and `dn` where the two `io.Copy` goroutines are, with the chunk each
holds. `prog`, `conn`, `toAgent` and `toProg` are the local TCP connection: its program may speak, half-close
(`shut`), leave, or send something that is no greeting or no request; a connection closed with unread input is reset and
loses what was under way (`Reset`). `stream` is the close channel and the map entry of wsStream in one:
"closing" is closeCh closed and onLocalClose not yet done, because a second Close waits for the first
(`sync.Once`). The session is what AgentSession shows of it to a stream: it opens or refuses, pushes,
ends the stream, loses its link and then is `stuck` or comes back. A push may still queue a chunk while the stream
is being closed; one that it queues after that is read, or not, as if it had been queued just before.

`T == INSTANCE TcpRelay` maps the stream to none, open or closed; the counters are the same. `AnswerIsWhole` says under
which condition the end of the target's answer arrives: the program is still there and all that it said went out.
Without that condition it fails, since the first copy to end closes both directions: a program that half-closes
after its request, as `nc -N` does, may lose the end of the answer.

### Desktop

`pc[c]` is where call c of the page is in `Connect` or `AutoConnect`, `mine[c]` its copy of the
configuration. `file`, `config` and `keyFile` are the two files: `os.WriteFile` is an emptying and
a writing step, and two writers may leave a file that does not parse ("mixed"). A login stands for all
that comes with one (user, password, token, networks), and is a number, as is a key. `routes` is the login that the route
commands were made for, or `ByHand`: `LocalDefaults` makes them anew in every Connect and AutoConnect, as `applyLocalDefaults`
does (section 7, number 5). `custom` stands for the settings that neither a
login nor `applyLocalDefaults` sets, which the user has put into the file. `booted`, `shown` and `poll` are the page's: AutoConnect
once, Connect as long as it does not show a running agent, and the status that is polled every 3 s, whose answer may be late
(`AskStatus`, `ShowStatus`; one late answer at a time). `Restart` is the process ending at any point and being started again.
`alone` and `misread` are ghosts that say which race has happened; the properties say what holds without one and, where
something still does, with one.

### Lifecycle

A run is one call of Service.Run. `svc[r]` follows it through the login, the checks, the TUN runner, the
route commands, the listener and the accept loop; every step may fail, with the error return the
code has there. `tun`, `setup`, `cleanup`, `cleaned` are the TUN runner; `owner[i]` is which run's
command put route i into the table, whoever deletes it. `before[r]` is a ghost: whether all other clean-ups were over
when r started tun2socks, which `RoutesInPlace` needs because the code does not wait for them. `running`, `cancel`, `runCount` are the App's. The two systems differ
in whether deleting an absent route fails, and with it the rest of the clean-up.

## 3. Merged steps

A step of the model is a critical section of the code, with these exceptions:

- A message is taken from a connection in the step that begins to handle it. Between `Receive` and the
  first shared access only its own goroutine can see it.
- `currentConn()` and the `Message.Send` after it are one step. A send that uses a connection detached
  in between sends to a closed end, which is the failing branch of the same step.
- A handler that only replies does so when it takes the message.
- In Lifecycle, everything inside one lock or one external command is one step; a session is on or off.

## 4. Runs

| run | module / cfg | bounds | distinct states | shows |
|---|---|---|---|---|
| safemap | MCSafeMap / SafeMap.cfg | 3 goroutines, 1 key, 1 value | 71 k | type, exclusion; the locked map implements AtomicMap; every call returns unless a Range blocks on its own Delete; such a Range is blocked for ever |
| agent | MCAgentSession / AgentSession.cfg | 1 stream, 1 connection, queues of 1, 1 write, 1 tick, may be cancelled | 2.3 M | what the two maps hold fits the life of the stream, and no loop's error is lost, against a server that may send anything at any time |
| server | MCServerSession / ServerSession.cfg | 2 streams, 1 connection, 1 in flight, 1 message from a target, 1 tick | 605 k | no socket out of reach, no entry without a pipe, nothing left open |
| tunnel | MCTunnel / Tunnel.cfg | 1 stream, 1 connection, 3 in flight, 2 messages each way | 814 k | implements Circuit over its one connection; the agent is one that `server` allows for; agreement when quiet |
| tunnel_redial | / TunnelRedial.cfg | 2 connections, the first fragile, no data | 2.4 M | the same agreement when loops of the first connection meet the second; no open is lost |
| tunnel_live | / TunnelLive.cfg | 1 connection, 1 in flight, queues of 1, 3 messages from the target | 130 k | the server is one that `agent` allows for; targets are released, clients learn, OpenStream returns, pipes and handlers end, also when a client that does not read has filled the link |
| relay | MCRelay / Relay.cfg | queues of 2, 2 chunks from the program, 3 from the target | 105 k | implements TcpRelay; the answer arrives whole; everything ends |
| desktop | MCDesktop / Desktop.cfg | 2 calls, 2 ends of the process | 102 k | the password can be read, the user's settings stay, the agent runs with what is stored |
| lifecycle | MCLifecycle / Lifecycle.cfg | 2 runs, 2 routes | 496 k | at most one run, known to the UI and stoppable; a stopped run lets go of everything; a finished clean-up is complete, and takes no routes from the next run unless it was late |
| no_reconnect | MCTunnel / NoReconnect.cfg | 1 connection, not fragile | violated | finding 1 |
| unauthorized | MCTunnel / Unauthorized.cfg | 1 connection | violated | finding 2 |
| routes_left | MCLifecycle / RoutesLeft.cfg | 1 run, 1 route | violated | finding 3 |

Why the bounds are enough.

- *One stream.* Streams share nothing but the reader, the connection and the maps' locks, and each of
  these is represented by its effect on one stream: the environment of `agent` keeps the reader busy
  with messages that are not of this stream, a full link keeps it waiting, and a stuck clean-up keeps the lock.
  What a second stream adds is that its client may hold up the reader; `ClientLearns` names that
  case (`HeadOfLine`), with the one stream in both roles: its own queue is full, its reader holds the next message and the
  rest, its close included, waits behind it. On the server, where closing one target
  and closing all meet, the run has two.
- *Queues of 1 to 3.* A queue of 1 is full as soon as anything is in it, so every "wait for room" is
  taken. Order between an answer, data and a close needs three messages, which `tunnel` has.
- *Three messages from the target* in `tunnel_live`: one in the client's queue, one in the reader's hands, one that fills
  the link, so that the pipe's close has no room left. The client sends none there, as every message of its own would more than
  treble the states; `tunnel` has them.
- *Two messages each way* in `tunnel` are the fewest that can be swapped, lost in the middle or repeated.
- *Two connections* are the fewest with a lost one and a current one; a third would be a second current one.
- *Two chunks and three* in `relay`: one more from the target than the queues hold while one is in the hands of a copy.
- *Two calls and two ends of the process*: calls that overlap, or the second finds what the first has left, with an end of the
  process in each. The properties also hold for three calls without an end (7.8 M states); `DesktopProofs` depends on neither bound.
- *One tick* is enough for a ping to meet every other step, in `agent` and `server`. The runs of `Tunnel` have none; that
  the pings of each side are ones the other allows for is proved for any number of them (`AgentFits`, `ServerFits`).
- *Two runs and two routes*: one run ending while the next begins, and a route command that fails
  with one route already set. `LifecycleProofs` does not depend on either bound.

Deadlock is not checked (CHECK_DEADLOCK FALSE): in `SafeMap` because finding 1 is a
deadlock that `SelfBlockIsForever` names, in the others because a bounded system comes to its end
(all streams closed, the process gone).

## 5. Fairness

- A goroutine that can go on does go on: weak fairness for each, stated in `Tunnel`, `Relay`,
  `Lifecycle`, and for Step in `SafeMap`. `AgentSession`, `ServerSession` and `Desktop` state none: liveness of
  the sessions is a question about both, and `Tunnel` asks it.
- Strong fairness only for `Announce` in `SafeMap`: a writer queues for the RWMutex's inner mutex,
  which others take and release in between, and Go's mutexes hand over to a waiter that has waited
  long enough.
- A blocked write fails in the end: `WF_vars(WriteDeadline(w))` in `Tunnel`. Both sides set a write deadline before
  each message (server.go:265, session.go:268), and a message that has not gone out by then leaves the connection broken. Its
  guard is a direction that stays full while somebody waits to send into it: a pipe, or a ping loop.
- Nothing else obliges the environment: a client need not read, write or close, the server need not answer
  in time, the agent need not send, a program need not read what it is sent (`HeldUp`), a target may speak, stay silent or end
  (`PipeWork` leaves PipeRead and the end of an open socket out: one that speaks now and then never times out), the network may
  or may not be cut, the user may or may not stop a run, and in Lifecycle a session may never end
  (finding 1).

## 6. Proofs

Checked by TLAPS for all values of the constants that satisfy the modules' named assumptions
(`NoneAssumption`, `LinkAssumption`, `AgentAssumption`, `ServerAssumption`, `TunnelAssumption`, `RelayAssumption`,
`DesktopAssumption`, `LifecycleAssumption`: that bounds are numbers, that a queue has room for one, and
that the values for "nothing" are not values of anything else). So they hold for any number of goroutines, streams,
connections, messages, calls and crashes, where the runs have one, two or three.

**SafeMapProofs.** `IInv` is TypeOK and that (Placed) what each goroutine holds and what it calls fits its `pc`,
(Holders) the read lock is held by exactly the goroutines that `pc` and a pending Range callback say, and a
writer is the one announced, and
(Fresh) what a Get has read is still what the map holds, until it lets go of the lock. The types
alone say nothing of who holds what, so Exclusion is not inductive. From IInv:
`MutualExclusion`; `RangeNeverReturns` (no step lets a self-blocked Range go: an action property);
`Linearizable` (each Set and Delete maps to its write, each Get to its return, everything else stutters).

**AgentSessionProofs.** The safety invariants of the session rest on each other and on facts
about readers, so one invariant carries them: TypeOK, `RunInHand` and `ReaderInHand` (what Run and a reader
are busy with is of a connection and a stream that exist), `EntryHasOwner` (in which places a stream may be while it has an
entry), `OpenIsFindable` (until its close begins it has one), `OnceFits` (a Close is under way exactly where `op` says so), `DropIsClosed` (a reader deletes only a stream it has
closed), `DoneIsDropped` (a stream that is closed on both sides is out of the map, or about to be),
`UnservedIsUnread` (a connection that is not yet served has no reader). The proof takes the groups of
actions one by one (Run, reader, opener, client, environment); `Frame` and `RelatedFrame` deal with all steps
that leave the maps alone. `FailureIsReported` is inductive with the types (`ReportedStep`): errCh is
emptied only by Run as it stops serving, so the one error it has room for is enough.

**LinkProofs.** What a send, a receive, a close and a cut do to the queues: their types, and which message
stands where afterwards. Both sides' proofs cite these instead of taking the queues apart. `InOrder` and `Complete` say that
the data of one stream in a queue is numbered without gaps from one number, up to another at most or exactly; the lemmas
after them say what an append and a receive do to that.

**ServerSessionProofs.** Even TypeOK is not inductive: an open that carries no ConnID would be dialled, so `OpenIsNamed`
says what the agent of the environment sends. `SocketRegistered` fails if two handlers dial for one ConnID, or if an entry
goes while its socket is open. `OneHandlerDials` and `OneOpenSent` say that a ConnID is in one place until
its target answers; they rest on the agent drawing a fresh uuid for every open, which is a guard of the
environment here and a theorem about the agent in TunnelProofs. `HandlerInHand` and `PipeInHand` say that each of the
paths that end a target has closed its socket before it deletes the entry. With `TargetHasHome` and `EntryAtHome` (no session
sees another's targets) and `GoneIsEmpty` these give `SocketRegistered`, `EntryHasPipe`, `NothingLeftOpen` and `DialledOnce`.

**RelayProofs.** `AnswerIsWhole` and the refinement of TcpRelay count. `NothingSkipped` adds up
headers and data read against those sent, for as long as somebody reads; `SaidInOrder` and `UpFits` give the number of each
chunk on its way up. On the way down `PushedInOrder`, `HeardInOrder` and `Delivered` number the chunks through the stream's
queue, the hands of the copy and the socket. `AnsweredOnce`, `DataLast` and `DataGranted` are why
the one answer is true and comes before data. `EndsWhole` has the reason for AnswerIsWhole: a copy that ends before the target's
data is out has lost a send of its own (`LostASend`), and neither happens to a program that is there and lost none.
`RelayRefines` maps each step to one of TcpRelay or to none.

**DesktopProofs.** The invariant is about the one call that is on, as long as no two have been (`alone`).
`KeyInHand`: the key that it seals with is the one in the file. `SettingsInHand`: what it is going to save has the
user's settings in it, unless an emptied file was read. `RoutesInHand`: from the login on, the routes it has are those of its
login. `EmptyForAWhile`: until the process first ends, a file is empty only while its writer is on, so `misread` cannot come about
and the settings are on disk. `StartsFromFile`: what it starts the agent with is what it stored.
`PageShape` says that a step of the page shows what is true, or makes `poll` late. `KeysInOrder` numbers the keys, so that "at most one key was drawn" is a fact about the files.

**TunnelProofs.** The two sides were proved against environments that may do more than the other side does. Here
each is shown to be such an environment: `ServerFits` (the agent's messages, and a fresh ConnID for each open) and
`AgentFits` (the server's). Each needs the other's invariant, so one `IInv` has both and the `Glue`: what
OpenStream has not sent is unknown to the server (`UnsentIsUnknown`), an agent's data and close name a stream
(`UpIsNamed`), the ends of a connection are opened together and fit the place of its handler (`EndsFit`), counters stay in
the ranges that the environments assume (`CountersFit`). With these two theorems, what AgentSessionProofs and
ServerSessionProofs show of a side alone holds of it in the tunnel.

`Agreed` is about both sides of a stream. The agent has one connection open at a time, and no open waits on an earlier one
(`RunFits`); nothing is dialled or said before a connection is open and authenticated (`Undialled`, `AuthedFits`);
what a client has got was dialled (`UsedIsDialled`); data goes over the connection of its stream while that lives, and a
close is the client's last word (`UpFits`, `LateFits`). From these:

- when the server says close, and when the agent has heard it, the stream is over: no connection
  that is alive has a target, a dial or an open for it (`CloseMeansOver`, `DoneMeansOver`);
- a target whose client is gone has a close on the way to it, *behind* its open (`ReleaseUnderWay`);
- a client whose target is gone has a close on the way or coming, or its connection is dead (`LossUnderWay`, `AbortMeansDead`);
- an awaited open is under way, being dialled or answered (`AwaitedIsLocated`).

The third and the second give `SidesAgree` (QuietAgreement): when nothing is in flight and nobody is at work, neither close can be missing. The
fourth is `OpenIsNotLost` (NoLostOpen). Both hold for any number of connections lost and dialled again, and
although readers of a lost connection go on with the next.

The refinement of Circuit needs, beyond `Agreed`, where the data of each stream is. `Flows` says so for as long as
`OwnConnection` holds, that is, each reader receives only from the connection that it was started for. A stream that was not
dialled has no data (`NothingYet`); its data and the server's closes stay on the connection it was dialled over, or that
connection is closed (`AtHome`). On the way up, what is written to the target is followed by what is in the queue, without gaps as long as the
connection lives (`UpFlows`). On the way down the chain is longer: what the client has read, then `inCh` (`QueueFlows`), then what its
reader has in its hands, then the queue, up to what the pipe has said (`DownFlows`). `AgentOnce` and `ServerOnce` say that a
step changes one thing that Circuit tells of, so each step is one of Circuit's or a stutter. This gives

- `OrderedStreams`: SafetySpec and []OwnConnection imply CircuitSpec, for any number of connections;
- `OneConnection`: with one connection OwnConnection cannot fail, so SafetySpec implies CircuitSpec.

OwnConnection is not an assumption that the code justifies: readLoop breaks it (section 7, number 4). The theorem says that
this is the only way in which it loses the order of data.

**LifecycleProofs.** `AppInv` is inductive with the types. `RoutesRemoved` is not: that a finished
clean-up has left nothing needs where every route lies between the commands done and those to come. `RouteInv` says so:
routes not yet set are not owned (`NotStartedYet`), the clean-up does not begin before the set-up
has ended (`NotTooEarly`), what a run owns lies between `cleaned` and `setup` (`OwnedBetween`), and the
first run owns all of that as long as no other has started (`FirstOwnsAll`), which is what keeps a delete
from failing on a system where deleting an absent route does. `RoutesInPlace` rests on `ClearIsAlone`:
as long as a run is on that began in the clear, no other run has a clean-up to come, since none but
the one that is on (`OneRunAtATime`) starts tun2socks.

Every conjunct of these invariants was model-checked on the bounds of its module's runs before it was proved; `Flows` also with
two connections, on the states that TLC reached within half an hour under OwnConnection.

Only model-checked: all liveness properties (fairness and ENABLED are outside the prover). Every safety property that a passing run
checks is stated by a theorem: of CircuitSpec, which is false in general, the two cases above.

## 7. Findings

1. *no_reconnect.* `failAllPending` and `closeAllStreams` (session.go:298-314) delete from the map they
   range over. Delete waits for the read lock of its own goroutine, so after a connection is lost with
   anything in either map, Run neither returns nor dials again. `closeAll` (server.go:277) does the same, so the
   handler never closes its end. The properties of the passing runs name this case (`Stuck`, `"stuck"`) rather than assume it away.
2. *unauthorized.* A connection is made current before `auth` is sent (session.go:89-95); an OpenStream
   that comes in between sends `open` first, and the server ends the session as unauthorized.
3. *routes_left.* The command line exits when the listener is closed and does not wait for the goroutine
   that removes the routes, which README.md:289 promises.

4. *Data of one stream can be swapped* (no run: no document speaks of the order of data). With two connections and two data
   messages, TLC finds Circuit violated in Tunnel after 39 states. A reader of a lost connection asks for the current
   one at every turn (session.go:141), so it goes on beside the reader of that connection. Each takes a message; the one that
   took the second may push it first (session.go:193), and the client reads them in that order. It needs a connection
   lost while its reader is between two messages, and dialled again before that reader sees an error. Run `tunnel` has one
   connection for this reason, and `OrderedStreams` (section 6) shows that nothing else can swap them. With `MaxConn = 2`, `MaxTicks = 1`, `MaxWrites = 0` and `Fragile <- FirstConn` in its configuration, TLC
   gives the trace in seven minutes: `rpc = <<"push", "push">>` with one message of the stream in the hands of each.

5. *Route commands written by hand are replaced* (no run: it is one assignment). README.md:288-289 says how to set
   `tun.enabled` and recommends to write `auto_route_cleanup_commands` beside the route commands. `applyLocalDefaults`
   (app.go:437-439), which every Connect and AutoConnect of the desktop UI calls before it saves, sets the first to true and clears the
   commands, which are then made from the login's networks. `LocalDefaults` in Desktop models it (`ByHand` is lost), and
   `SettingsKept` speaks only of the other settings.

## 8. Not modelled, and why

- Contents: bytes, addresses, JSON, YAML, command lines, log texts. `rbuf` (a message read in pieces) is below the message.
- Functions without state: the encoding of envelopes, the normalisation of networks and URLs, the making of route
  commands, hashing and signing of logins and tokens. What they decide (refused, expired, cannot be
  made) is a step that may be taken in the module that calls them.
- Time: deadlines, intervals and the backoff are steps that may happen; the link says when a read deadline may expire.
  That the backoff is never reset, and that a refused token is sent again for ever, makes waits longer and changes no step.
- The handshake of the SOCKS5 port has no deadline; a program that says nothing is waited for without end
  and `AllEnd` does not speak of it.
- The session of a run whose Service.Run failed goes on, its context live and unreachable (`RunEnds`): the
  code does so and no document says otherwise, so no property speaks of it.
- Routes of one network with different masks, which Windows deletes together (routes.go:153).
- The duplicate-id, malformed-envelope and missing-field replies of the server: the agent draws uuids and sends complete envelopes.
- `server.Service.Run`, the system call of the privilege check: wiring.

## 9. Plan

Written so far, in this order: SafeMap (what a lock does), AgentSession, ServerSession, Tunnel with
Circuit, Lifecycle, the proofs of SafeMap, AgentSession and Lifecycle, then Relay with TcpRelay, and Desktop;
then the proofs of ServerSession, Relay with its refinement, Desktop, and of the two sessions
together, with the order of data that makes them a Circuit. Every safety property that a run checks is now a theorem. Next:

1. The codec and the normalisation of networks as recursive functions, each checked against a
   reference definition over bounded inputs.

Each run asks a question of its own; what was asked of the sessions one by one for liveness is
asked of both together in `tunnel_live`.
