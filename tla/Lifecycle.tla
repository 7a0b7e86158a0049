----------------------------- MODULE Lifecycle -----------------------------
(***************************************************************************)
(* How the agent is started and stopped: Service.Run (agent.go) with what  *)
(* it starts (the session, tun2socks with its routes, the SOCKS5 listener) *)
(* and the two programs that call it.  The command line calls it once and  *)
(* exits when it returns (cmd/htunnel-agent/main.go); the desktop UI calls *)
(* it again and again under App.mu (cmd/htunnel-ui/app.go).                *)
(*                                                                         *)
(* A run is one call of Service.Run with its context and its goroutines.   *)
(* The session is on or off here; AgentSession.tla says what it does.      *)
(* Processes, the routing table and ports belong to the operating system.  *)
(***************************************************************************)
EXTENDS Integers

CONSTANTS MaxRuns,   \* bound: calls of StartAgent that start a run
          MaxRoutes  \* bound: routes, and commands to set and remove them

ASSUME LifecycleAssumption == /\ MaxRuns \in Nat \ {0}
                              /\ MaxRoutes \in Nat

Run   == 1 .. MaxRuns
Route == 1 .. MaxRoutes

VARIABLES
  front,     \* the program: "cli" or "ui"
  os,        \* "darwin" or "windows": route commands are made for these two
  alive,     \* its process has not exited
  running,   \* App.running
  cancel,    \* the run that App.cancel ends, 0 when it is nil
  runCount,  \* App.runCount, 1 for the command line
  ctx,       \* the context of each run
  svc,       \* where its Service.Run is, and StartAgent before it
  session,   \* its Session.Run goroutine
  tun,       \* its tun2socks process
  setup,     \* route commands done so far
  cleanup,   \* its cleanupOnce: "no", "busy", "done"
  cleaned,   \* clean-up commands done so far
  listener,  \* its SOCKS5 listener
  owner,     \* the run that installed each route last, 0 when it is absent
  before     \* ghost: whether the clean-ups of other runs were over when it
             \* started tun2socks, "clear", or not, "pending"

appVars  == <<running, cancel, runCount>>
progVars == <<front, os, alive>>
tunVars  == <<tun, setup, cleanup, cleaned, owner, before>>
vars     == <<progVars, appVars, ctx, svc, session, tunVars, listener>>

ServicePC == {"off", "config", "login", "check", "tun", "routes", "listen", "accept",
              "returned", "failed", "over"}

TypeOK == /\ front \in {"cli", "ui"}
          /\ os \in {"darwin", "windows"}
          /\ alive \in BOOLEAN
          /\ running \in BOOLEAN
          /\ cancel \in Run \cup {0}
          /\ runCount \in 0 .. MaxRuns
          /\ ctx \in [Run -> {"none", "live", "cancelled"}]
          /\ svc \in [Run -> ServicePC]
          /\ session \in [Run -> {"off", "on", "ended"}]
          /\ tun \in [Run -> {"off", "up", "gone"}]
          /\ setup \in [Run -> 0 .. MaxRoutes]
          /\ cleanup \in [Run -> {"no", "busy", "done"}]
          /\ cleaned \in [Run -> 0 .. MaxRoutes]
          /\ listener \in [Run -> {"none", "open", "closed"}]
          /\ owner \in [Route -> Run \cup {0}]
          /\ before \in [Run -> {"none", "clear", "pending"}]

\* The command line has read its configuration and calls Service.Run; the UI
\* waits for a call.
Init == /\ front \in {"cli", "ui"}
        /\ os \in {"darwin", "windows"}
        /\ alive = TRUE
        /\ running = FALSE
        /\ cancel = 0
        /\ runCount = IF front = "cli" THEN 1 ELSE 0
        /\ ctx = [r \in Run |-> IF front = "cli" /\ r = 1 THEN "live" ELSE "none"]
        /\ svc = [r \in Run |-> IF front = "cli" /\ r = 1 THEN "login" ELSE "off"]
        /\ session = [r \in Run |-> "off"]
        /\ tun = [r \in Run |-> "off"]
        /\ setup = [r \in Run |-> 0]
        /\ cleanup = [r \in Run |-> "no"]
        /\ cleaned = [r \in Run |-> 0]
        /\ listener = [r \in Run |-> "none"]
        /\ owner = [i \in Route |-> 0]
        /\ before = [r \in Run |-> "none"]

\* Goroutines exist as long as their process; tun2socks has one of its own.
At(r, pc)   == alive /\ svc[r] = pc
Goto(r, pc) == svc' = [svc EXCEPT ![r] = pc]

----------------------------------------------------------------------------
(* App *)

\* Mutants: App.cancel is not set; running is looked at before the lock is taken.
StartAgentNoCancel(r) ==
  /\ alive /\ front = "ui" /\ ~running
  /\ r = runCount + 1
  /\ running' = TRUE
  /\ runCount' = r
  /\ ctx' = [ctx EXCEPT ![r] = "live"]
  /\ Goto(r, "config")
  /\ UNCHANGED <<progVars, cancel, session, tunVars, listener>>
StartAgentUnlocked(r) ==
  /\ alive /\ front = "ui" /\ (running => svc[runCount] = "config")
  /\ r = runCount + 1
  /\ running' = TRUE
  /\ cancel' = r
  /\ runCount' = r
  /\ ctx' = [ctx EXCEPT ![r] = "live"]
  /\ Goto(r, "config")
  /\ UNCHANGED <<progVars, session, tunVars, listener>>

\* StartAgent, first critical section.  When a run is on it does nothing.
StartAgent(r) == /\ alive /\ front = "ui" /\ ~running
                 /\ r = runCount + 1
                 /\ running' = TRUE
                 /\ cancel' = r
                 /\ runCount' = r
                 /\ ctx' = [ctx EXCEPT ![r] = "live"]
                 /\ Goto(r, "config")
                 /\ UNCHANGED <<progVars, session, tunVars, listener>>

\* readConfig fails: second critical section, and cancel().
ConfigFails(r) == /\ At(r, "config")
                  /\ running' = FALSE
                  /\ cancel' = 0
                  /\ ctx' = [ctx EXCEPT ![r] = "cancelled"]
                  /\ Goto(r, "over")
                  /\ UNCHANGED <<progVars, runCount, session, tunVars, listener>>

\* StartAgent returns, and the run goroutine calls Service.Run.
ConfigRead(r) == /\ At(r, "config")
                 /\ Goto(r, "login")
                 /\ UNCHANGED <<progVars, appVars, ctx, session, tunVars, listener>>

\* StopAgent cancels and returns; running stays until the run is over.
StopAgent == /\ alive /\ front = "ui" /\ running /\ cancel # 0
             /\ ctx' = [ctx EXCEPT ![cancel] = "cancelled"]
             /\ UNCHANGED <<progVars, appVars, svc, session, tunVars, listener>>

\* The run goroutine, when Service.Run has returned.  It does not cancel.
RunEnds(r) == /\ alive /\ front = "ui" /\ svc[r] \in {"returned", "failed"}
              /\ running' = FALSE
              /\ cancel' = 0
              /\ Goto(r, "over")
              /\ UNCHANGED <<progVars, runCount, ctx, session, tunVars, listener>>

\* The window is closed: wails.Run returns and so does main.
Quit == /\ alive /\ front = "ui"
        /\ alive' = FALSE
        /\ UNCHANGED <<front, os, appVars, ctx, svc, session, tunVars, listener>>

----------------------------------------------------------------------------
(* cmd/htunnel-agent *)

\* SIGINT or SIGTERM ends the context of signal.NotifyContext.
Signal == /\ alive /\ front = "cli"
          /\ ctx' = [ctx EXCEPT ![1] = "cancelled"]
          /\ UNCHANGED <<progVars, appVars, svc, session, tunVars, listener>>

\* main returns, or log.Fatalf: nobody waits for the other goroutines.
Exit == /\ alive /\ front = "cli" /\ svc[1] \in {"returned", "failed"}
        /\ alive' = FALSE
        /\ UNCHANGED <<front, os, appVars, ctx, svc, session, tunVars, listener>>

----------------------------------------------------------------------------
(* Service.Run *)

\* No server is given, or it refuses the user and password.
LoginFails(r) == /\ At(r, "login")
                 /\ Goto(r, "failed")
                 /\ UNCHANGED <<progVars, appVars, ctx, session, tunVars, listener>>

\* There is a token, or the server gives one.  The request does not know of the
\* context: a run that has been stopped meanwhile goes on.
LogIn(r) == /\ At(r, "login")
            /\ Goto(r, "check")
            /\ UNCHANGED <<progVars, appVars, ctx, session, tunVars, listener>>

\* tun.enabled without the privilege it takes; no TAP adapter on Windows; a
\* network that cannot be parsed.
PrivilegeMissing(r) == At(r, "check") /\ Goto(r, "failed")
AdapterMissing(r)   == At(r, "check") /\ os = "windows" /\ Goto(r, "failed")
RoutesInvalid(r)    == At(r, "check") /\ Goto(r, "failed")

CheckFails(r) == /\ PrivilegeMissing(r) \/ AdapterMissing(r) \/ RoutesInvalid(r)
                 /\ UNCHANGED <<progVars, appVars, ctx, session, tunVars, listener>>

\* go session.Run(ctx), then the TUN device if tun.enabled.
CheckSucceeds(r) == /\ At(r, "check")
                    /\ session' = [session EXCEPT ![r] = "on"]
                    /\ \/ Goto(r, "tun")
                       \/ Goto(r, "listen")
                    /\ UNCHANGED <<progVars, appVars, ctx, tunVars, listener>>

\* TunRunner.Start: there is no tun2socks in any of the usual places ...
BinaryMissing(r) == At(r, "tun") /\ Goto(r, "failed")

\* ... or it does not start.  exec starts nothing under a context that is done.
StartFails(r) == At(r, "tun") /\ Goto(r, "failed")

TunFails(r) == /\ BinaryMissing(r) \/ StartFails(r)
               /\ UNCHANGED <<progVars, appVars, ctx, session, tunVars, listener>>

TunStarts(r) == /\ At(r, "tun") /\ ctx[r] = "live"
                /\ tun' = [tun EXCEPT ![r] = "up"]
                /\ Goto(r, "routes")
                /\ before' = [before EXCEPT ![r] = IF \A q \in Run : tun[q] = "off" \/ cleanup[q] = "done"
                                                  THEN "clear" ELSE "pending"]
                /\ UNCHANGED <<progVars, appVars, ctx, session, setup, cleanup, cleaned,
                               owner, listener>>

\* Mutant: one command too many.
AddRouteTooMany(r) == /\ At(r, "routes") /\ setup[r] <= MaxRoutes
                      /\ setup' = [setup EXCEPT ![r] = @ + 1]
                      /\ UNCHANGED <<progVars, appVars, ctx, svc, session, tun, cleanup, cleaned,
                                     owner, before, listener>>

\* A route command deletes the route and adds it.
AddRoute(r) == /\ At(r, "routes") /\ setup[r] < MaxRoutes
               /\ setup' = [setup EXCEPT ![r] = @ + 1]
               /\ owner' = [owner EXCEPT ![setup[r] + 1] = r]
               /\ UNCHANGED <<progVars, appVars, ctx, svc, session, tun, cleanup, cleaned, before,
                              listener>>

\* One fails, before or after the delete; the rest is left out, the error is
\* logged and Start goes on.
AddRouteFails(r) == /\ At(r, "routes") /\ setup[r] < MaxRoutes
                    /\ \/ UNCHANGED owner
                       \/ owner' = [owner EXCEPT ![setup[r] + 1] = 0]
                    /\ Goto(r, "listen")
                    /\ UNCHANGED <<progVars, appVars, ctx, session, tun, setup, cleanup, cleaned, before,
                                   listener>>

RoutesDone(r) == /\ At(r, "routes") /\ setup[r] = MaxRoutes
                 /\ Goto(r, "listen")
                 /\ UNCHANGED <<progVars, appVars, ctx, session, tunVars, listener>>

\* SocksServer.Run: the port is taken, by another run or another program ...
ListenFails(r) == /\ At(r, "listen")
                  /\ Goto(r, "failed")
                  /\ UNCHANGED <<progVars, appVars, ctx, session, tunVars, listener>>

\* ... or it is free.
Listen(r) == /\ At(r, "listen")
             /\ \A q \in Run : listener[q] # "open"
             /\ listener' = [listener EXCEPT ![r] = "open"]
             /\ Goto(r, "accept")
             /\ UNCHANGED <<progVars, appVars, ctx, session, tunVars>>

\* Accept fails and the context is done: Service.Run returns nil.
AcceptEnds(r) == /\ At(r, "accept") /\ listener[r] = "closed" /\ ctx[r] = "cancelled"
                 /\ Goto(r, "returned")
                 /\ UNCHANGED <<progVars, appVars, ctx, session, tunVars, listener>>

ServiceStep(r) == \/ LoginFails(r) \/ LogIn(r)
                  \/ CheckFails(r) \/ CheckSucceeds(r)
                  \/ TunFails(r) \/ TunStarts(r)
                  \/ AddRoute(r) \/ AddRouteFails(r) \/ RoutesDone(r)
                  \/ ListenFails(r) \/ Listen(r) \/ AcceptEnds(r)

----------------------------------------------------------------------------
(* Goroutines and processes a run leaves behind *)

\* Mutant: the listener is not closed with the context.
CloseListenerNever(r) == alive /\ ctx[r] = "cancelled" /\ listener[r] = "open" /\ UNCHANGED vars

CloseListener(r) == /\ alive /\ ctx[r] = "cancelled" /\ listener[r] = "open"
                    /\ listener' = [listener EXCEPT ![r] = "closed"]
                    /\ UNCHANGED <<progVars, appVars, ctx, svc, session, tunVars>>

SessionEnds(r) == /\ alive /\ ctx[r] = "cancelled" /\ session[r] = "on"
                  /\ session' = [session EXCEPT ![r] = "ended"]
                  /\ UNCHANGED <<progVars, appVars, ctx, svc, tunVars, listener>>

\* With tun2socks its interface may go, and the routes through it, except on
\* Windows, where the adapter stays.
TunGone(r) == /\ tun[r] = "up"
              /\ tun' = [tun EXCEPT ![r] = "gone"]
              /\ \/ UNCHANGED owner
                 \/ /\ os = "darwin"
                    /\ owner' = [i \in Route |-> IF owner[i] = r THEN 0 ELSE owner[i]]
              /\ UNCHANGED <<progVars, appVars, ctx, svc, session, setup, cleanup, cleaned, before, listener>>

\* exec.CommandContext kills tun2socks; it may also exit by itself.
KillTun(r) == alive /\ ctx[r] = "cancelled" /\ TunGone(r)

\* The goroutines that clean up are started when the routes have been set.
WatchersStarted(r) == tun[r] # "off" /\ svc[r] # "routes"

\* Mutants: each of them cleans up, cleanupOnce forgotten; they are started before.
CleanupBeginsAgain(r) ==
  /\ alive /\ WatchersStarted(r) /\ cleanup[r] # "busy"
  /\ ctx[r] = "cancelled" \/ tun[r] = "gone"
  /\ cleanup' = [cleanup EXCEPT ![r] = "busy"]
  /\ cleaned' = [cleaned EXCEPT ![r] = 0]
  /\ UNCHANGED <<progVars, appVars, ctx, svc, session, tun, setup, owner, before, listener>>
CleanupBeginsEarly(r) ==
  /\ alive /\ tun[r] # "off" /\ cleanup[r] = "no"
  /\ ctx[r] = "cancelled" \/ tun[r] = "gone"
  /\ cleanup' = [cleanup EXCEPT ![r] = "busy"]
  /\ UNCHANGED <<progVars, appVars, ctx, svc, session, tun, setup, cleaned, owner, before, listener>>

\* The context is done or tun2socks has exited: the first to see it cleans up.
CleanupBegins(r) ==
  /\ alive /\ WatchersStarted(r) /\ cleanup[r] = "no"
  /\ ctx[r] = "cancelled" \/ tun[r] = "gone"
  /\ cleanup' = [cleanup EXCEPT ![r] = "busy"]
  /\ UNCHANGED <<progVars, appVars, ctx, svc, session, tun, setup, cleaned, owner, before, listener>>

\* A delete of a route that is absent succeeds on darwin ("|| true") and fails
\* on Windows, and then the rest is left out.
DeleteRoute(r) ==
  /\ alive /\ cleanup[r] = "busy" /\ cleaned[r] < MaxRoutes
  /\ os = "darwin" \/ owner[cleaned[r] + 1] # 0
  /\ cleaned' = [cleaned EXCEPT ![r] = @ + 1]
  /\ owner' = [owner EXCEPT ![cleaned[r] + 1] = 0]
  /\ UNCHANGED <<progVars, appVars, ctx, svc, session, tun, setup, cleanup, before, listener>>

DeleteRouteFails(r) ==
  /\ alive /\ cleanup[r] = "busy" /\ cleaned[r] < MaxRoutes
  /\ os = "windows" /\ owner[cleaned[r] + 1] = 0
  /\ cleanup' = [cleanup EXCEPT ![r] = "done"]
  /\ UNCHANGED <<progVars, appVars, ctx, svc, session, tun, setup, cleaned, owner, before, listener>>

CleanupEnds(r) ==
  /\ alive /\ cleanup[r] = "busy" /\ cleaned[r] = MaxRoutes
  /\ cleanup' = [cleanup EXCEPT ![r] = "done"]
  /\ UNCHANGED <<progVars, appVars, ctx, svc, session, tun, setup, cleaned, owner, before, listener>>

CleanupStep(r) == \/ CleanupBegins(r) \/ DeleteRoute(r)
                  \/ DeleteRouteFails(r) \/ CleanupEnds(r)

RunStep(r) == \/ ConfigFails(r) \/ ConfigRead(r) \/ ServiceStep(r) \/ RunEnds(r)

----------------------------------------------------------------------------

Next == \/ \E r \in Run : \/ StartAgent(r) \/ RunStep(r)
                           \/ CloseListener(r) \/ SessionEnds(r)
                           \/ TunGone(r) \/ CleanupStep(r)
        \/ StopAgent \/ Quit \/ Signal \/ Exit

\* Goroutines that can go on do.  Nobody has to call, signal or quit, and the
\* session may never end (AgentSession.tla).
Fairness == /\ WF_vars(Exit)
            /\ \A r \in Run :
                 /\ WF_vars(RunStep(r))
                 /\ WF_vars(CloseListener(r))
                 /\ WF_vars(KillTun(r))
                 /\ WF_vars(CleanupStep(r))

SafetySpec == Init /\ [][Next]_vars
Spec == SafetySpec /\ Fairness

----------------------------------------------------------------------------
(* Properties *)

\* A call of StartAgent or Service.Run that has not come to its end.
Active(r) == svc[r] \notin {"off", "over"}

\* The UI's running is true exactly while such a call is on ...
RunningIsTrue == (front = "ui") => (running <=> \E r \in Run : Active(r))

\* ... and there is never more than one: two sessions, two tun2socks and two
\* listeners on one port cannot come from clicking fast.
OneRunAtATime == \A q, r \in Run : Active(q) /\ Active(r) => q = r
OneKnownRun   == RunningIsTrue /\ OneRunAtATime

\* The run that is on can be stopped: StopAgent finds its context.
StopReachesRun == (front = "ui") =>
                    \A r \in Run : Active(r) /\ ctx[r] = "live" => cancel = r

\* A run whose clean-up is over has left no route: none was set after its
\* clean-up began, and the clean-up did not stop before its last one.  Where a
\* delete of an absent route fails, a later run may be what makes it stop.
RoutesRemoved == \A r \in Run :
                   (cleanup[r] = "done" /\ (os = "darwin" \/ runCount = 1))
                      => \A i \in Route : owner[i] # r

\* The run that is on has the routes it has set, as long as its tun2socks is
\* there: no other run takes them away.  This needs that those before it had
\* finished their clean-ups when it began; nobody waits for them, and one that
\* is late does remove the routes of the next run.
RoutesInPlace == \A r \in Run :
                   (Active(r) /\ before[r] = "clear" /\ tun[r] = "up" /\ cleanup[r] = "no")
                      => \A i \in Route : i <= setup[r] => owner[i] = r

\* A run whose context is done lets go of its port and of tun2socks and cleans
\* up, if its program lives long enough, and the UI can start the next one.
StopReleasesAll ==
  \A r \in Run : (ctx[r] = "cancelled") ~>
    (~alive \/ /\ svc[r] = "over" /\ tun[r] # "up" /\ listener[r] # "open"
               /\ tun[r] = "gone" => cleanup[r] = "done")

\* An agent that exits as it should has removed its routes.
ExitCleansUp == (front = "cli" /\ ~alive /\ svc[1] = "returned") =>
                   \A i \in Route : owner[i] = 0

=============================================================================
