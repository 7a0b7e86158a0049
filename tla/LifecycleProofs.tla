-------------------------- MODULE LifecycleProofs --------------------------
(* Theorems about Lifecycle, for any number of runs and of routes.          *)
EXTENDS Lifecycle, TLAPS

\* A run that has not been started has done nothing.
Untouched(r) == /\ svc[r] = "off" /\ tun[r] = "off" /\ setup[r] = 0
                /\ cleaned[r] = 0 /\ cleanup[r] = "no"
NotStartedYet == \A r \in Run : r > runCount => Untouched(r)

\* tun2socks is started once all is well, and nothing is cleaned up before the
\* routes have been set.
NotTooEarly == \A r \in Run :
  /\ svc[r] \in {"off", "config", "login", "check", "tun"} => tun[r] = "off"
  /\ tun[r] = "off" => cleanup[r] = "no"
  /\ svc[r] = "routes" => cleanup[r] = "no"
  /\ cleanup[r] = "no" => cleaned[r] = 0

\* The routes a run owns are those it has set and not yet removed ...
OwnedBetween == \A r \in Run : \A i \in Route :
                  owner[i] = r => i > cleaned[r] /\ i <= setup[r]

\* ... and on Windows the first run owns all of them until a second one comes.
FirstOwnsAll == (os = "windows" /\ runCount = 1) =>
                  \A i \in Route : (i > cleaned[1] /\ i <= setup[1]) => owner[i] = 1

\* A run sets routes once it has tun2socks; and while one is on that began in
\* the clear, no other has a clean-up to come.
TunFirst     == \A r \in Run :
                  /\ tun[r] = "off" => setup[r] = 0 /\ before[r] = "none"
                  /\ svc[r] = "routes" => tun[r] # "off"
ClearIsAlone == \A r, q \in Run : (Active(r) /\ before[r] = "clear" /\ q # r)
                                    => tun[q] = "off" \/ cleanup[q] = "done"

AppInv   == RunningIsTrue /\ OneRunAtATime /\ StopReachesRun
RouteInv == /\ NotStartedYet /\ NotTooEarly /\ OwnedBetween /\ FirstOwnsAll
            /\ RoutesRemoved
PlaceInv == TunFirst /\ ClearIsAlone /\ RoutesInPlace
IInv     == TypeOK /\ AppInv /\ RouteInv /\ PlaceInv

\* The steps of a run that leave the App and the operating system alone.
Quiet(r) == \/ LoginFails(r) \/ LogIn(r) \/ CheckFails(r) \/ TunFails(r) \/ RoutesDone(r) \/ ListenFails(r)
            \/ Listen(r) \/ AcceptEnds(r) \/ ConfigRead(r) \/ CheckSucceeds(r)

----------------------------------------------------------------------------

\* The first run, which the command line is in from the beginning.
LEMMA FirstRun == 1 \in Run /\ 0 \notin Run /\ Run \subseteq Nat
BY LifecycleAssumption DEF Run

\* At first nothing runs.
LEMMA InitHolds == Init => IInv
<1> SUFFICES ASSUME Init PROVE IInv
  OBVIOUS
<1> USE DEF Init
<1>1. TypeOK
  <2>1. runCount \in 0 .. MaxRuns
    BY LifecycleAssumption
  <2>2. svc \in [Run -> ServicePC] /\ ctx \in [Run -> {"none", "live", "cancelled"}]
    BY DEF ServicePC
  <2>3. /\ setup \in [Run -> 0 .. MaxRoutes] /\ cleaned \in [Run -> 0 .. MaxRoutes]
        /\ owner \in [Route -> Run \cup {0}]
    BY LifecycleAssumption
  <2> QED  BY <2>1, <2>2, <2>3 DEF TypeOK
<1>2. AppInv
  <2>1. RunningIsTrue
    BY DEF RunningIsTrue, Active
  <2>2. OneRunAtATime
    BY FirstRun DEF OneRunAtATime, Active
  <2>3. StopReachesRun
    BY DEF StopReachesRun, Active
  <2> QED  BY <2>1, <2>2, <2>3 DEF AppInv
<1>3. RouteInv
  <2>1. NotStartedYet
    BY DEF NotStartedYet, Untouched, Run
  <2>2. NotTooEarly
    BY DEF NotTooEarly
  <2>3. OwnedBetween /\ RoutesRemoved
    BY FirstRun DEF OwnedBetween, RoutesRemoved
  <2>4. FirstOwnsAll
    BY LifecycleAssumption DEF FirstOwnsAll, Run, Route
  <2> QED  BY <2>1, <2>2, <2>3, <2>4 DEF RouteInv
<1>4. PlaceInv
  BY DEF PlaceInv, TunFirst, ClearIsAlone, RoutesInPlace
<1> QED  BY <1>1, <1>2, <1>3, <1>4 DEF IInv

\* Types are kept by every step.
LEMMA TypeStep ==
  ASSUME TypeOK, [Next]_vars
  PROVE  TypeOK'
<1> USE LifecycleAssumption, FirstRun DEF TypeOK, At, Goto, ServicePC, progVars, appVars, tunVars
<1>1. CASE UNCHANGED vars
  BY <1>1 DEF vars
<1>2. ASSUME NEW r \in Run, StartAgent(r) PROVE TypeOK'
  <2>1. runCount' \in 0 .. MaxRuns
    BY <1>2 DEF StartAgent, Run
  <2> QED  BY <1>2, <2>1 DEF StartAgent
<1>3. ASSUME NEW r \in Run, ConfigFails(r) PROVE TypeOK'
  BY <1>3 DEF ConfigFails
<1>4. ASSUME NEW r \in Run, Quiet(r) PROVE TypeOK'
  BY <1>4 DEF Quiet, LoginFails, LogIn, CheckFails, PrivilegeMissing,
      AdapterMissing, RoutesInvalid, TunFails, BinaryMissing, StartFails, RoutesDone, ListenFails, Listen, AcceptEnds,
              ConfigRead, CheckSucceeds
<1>5. ASSUME NEW r \in Run, TunStarts(r) PROVE TypeOK'
  BY <1>5 DEF TunStarts
<1>6. ASSUME NEW r \in Run, AddRoute(r) PROVE TypeOK'
  <2>1. setup[r] + 1 \in 0 .. MaxRoutes
    BY <1>6 DEF AddRoute
  <2>2. setup' \in [Run -> 0 .. MaxRoutes]
    BY <1>6, <2>1 DEF AddRoute
  <2>3. owner' \in [Route -> Run \cup {0}]
    BY <1>6 DEF AddRoute
  <2> QED  BY <1>6, <2>2, <2>3 DEF AddRoute
<1>7. ASSUME NEW r \in Run, AddRouteFails(r) PROVE TypeOK'
  BY <1>7 DEF AddRouteFails
<1>8. ASSUME NEW r \in Run, RunEnds(r) PROVE TypeOK'
  BY <1>8 DEF RunEnds
<1>9. ASSUME NEW r \in Run, CloseListener(r) \/ SessionEnds(r) PROVE TypeOK'
  BY <1>9 DEF CloseListener, SessionEnds
<1>10. ASSUME NEW r \in Run, TunGone(r) PROVE TypeOK'
  BY <1>10 DEF TunGone
<1>11. ASSUME NEW r \in Run, DeleteRoute(r) PROVE TypeOK'
  <2>1. cleaned[r] + 1 \in 0 .. MaxRoutes
    BY <1>11 DEF DeleteRoute
  <2>2. cleaned' \in [Run -> 0 .. MaxRoutes]
    BY <1>11, <2>1 DEF DeleteRoute
  <2>3. owner' \in [Route -> Run \cup {0}]
    BY <1>11 DEF DeleteRoute
  <2> QED  BY <1>11, <2>2, <2>3 DEF DeleteRoute
<1>12. ASSUME NEW r \in Run, CleanupBegins(r) \/ DeleteRouteFails(r) \/ CleanupEnds(r)
       PROVE  TypeOK'
  BY <1>12 DEF CleanupBegins, DeleteRouteFails, CleanupEnds
<1>13. ASSUME StopAgent \/ Signal PROVE TypeOK'
  BY <1>13 DEF StopAgent, Signal
<1>14. ASSUME Quit \/ Exit PROVE TypeOK'
  <2>1. /\ alive' = FALSE
        /\ UNCHANGED <<front, os, running, cancel, runCount, ctx, svc, session, tun, setup,
                       cleanup, cleaned, owner, before, listener>>
    BY <1>14 DEF Quit, Exit
  <2> QED  BY <2>1
<1> QED
  BY <1>1, <1>2, <1>3, <1>4, <1>5, <1>6, <1>7, <1>8, <1>9, <1>10, <1>11, <1>12, <1>13, <1>14
  DEF Next, RunStep, ServiceStep, CleanupStep, Quiet

----------------------------------------------------------------------------
(* What the App knows *)

\* Apart from the steps of the App, a step ends no call and starts none, and
\* makes no context live.
LEMMA ServiceKeepsApp ==
  ASSUME TypeOK, AppInv, UNCHANGED <<front, appVars>>,
         \A r \in Run : /\ Active(r)' <=> Active(r)
                        /\ ctx'[r] = "live" => ctx[r] = "live"
  PROVE  AppInv'
<1>1. RunningIsTrue'
  BY DEF AppInv, RunningIsTrue, appVars
<1>2. OneRunAtATime'
  BY DEF AppInv, OneRunAtATime
<1>3. StopReachesRun'
  BY DEF AppInv, StopReachesRun, appVars
<1> QED  BY <1>1, <1>2, <1>3 DEF AppInv

\* When the one call that is on ends, none is left.
LEMMA LastCallEnds ==
  ASSUME TypeOK, AppInv, NEW r \in Run, Active(r), UNCHANGED front,
         running' = FALSE, Goto(r, "over")
  PROVE  AppInv'
<1>1. \A q \in Run : ~Active(q)'
  BY DEF TypeOK, AppInv, OneRunAtATime, Active, Goto
<1> QED  BY <1>1 DEF AppInv, RunningIsTrue, OneRunAtATime, StopReachesRun

\* The app and its calls.
LEMMA AppStep ==
  ASSUME TypeOK, AppInv, [Next]_vars
  PROVE  AppInv'
<1> USE DEF TypeOK, At, Goto, progVars, appVars
<1>1. CASE UNCHANGED vars
  BY <1>1, ServiceKeepsApp DEF vars, Active
<1>2. ASSUME NEW r \in Run, StartAgent(r) PROVE AppInv'
  <2>1. \A q \in Run : ~Active(q)
    BY <1>2 DEF StartAgent, AppInv, RunningIsTrue
  <2>2. \A q \in Run : Active(q)' <=> q = r
    BY <1>2, <2>1 DEF StartAgent, Active
  <2>3. running' /\ cancel' = r
    BY <1>2 DEF StartAgent
  <2> QED  BY <2>2, <2>3 DEF AppInv, RunningIsTrue, OneRunAtATime, StopReachesRun
<1>3. ASSUME NEW r \in Run, ConfigFails(r) \/ RunEnds(r) PROVE AppInv'
  BY <1>3, LastCallEnds DEF ConfigFails, RunEnds, Active
<1>4. ASSUME NEW r \in Run, Quiet(r) \/ TunStarts(r) \/ AddRoute(r) \/ AddRouteFails(r)
      PROVE  AppInv'
  BY <1>4, ServiceKeepsApp
  DEF Quiet, LoginFails, LogIn, CheckFails, PrivilegeMissing,
      AdapterMissing, RoutesInvalid, TunFails, BinaryMissing, StartFails, RoutesDone, ListenFails, Listen, AcceptEnds,
      ConfigRead, CheckSucceeds, TunStarts, AddRoute, AddRouteFails, Active
<1>5. ASSUME NEW r \in Run, CloseListener(r) \/ SessionEnds(r) \/ TunGone(r) \/ CleanupStep(r)
      PROVE  AppInv'
  BY <1>5, ServiceKeepsApp
  DEF CloseListener, SessionEnds, TunGone, CleanupStep, CleanupBegins, DeleteRoute,
      DeleteRouteFails, CleanupEnds, Active
<1>6. ASSUME StopAgent \/ Quit \/ Signal \/ Exit PROVE AppInv'
  BY <1>6, ServiceKeepsApp, FirstRun DEF StopAgent, Quit, Signal, Exit, Active
<1> QED
  BY <1>1, <1>2, <1>3, <1>4, <1>5, <1>6 DEF Next, RunStep, ServiceStep, Quiet

----------------------------------------------------------------------------
(* What the runs do to the routes *)

\* Steps that set no route, remove none and start no run.
LEMMA OthersKeepRoutes ==
  ASSUME TypeOK, RouteInv, UNCHANGED <<os, runCount, setup, cleaned, owner, cleanup, tun>>,
         \A r \in Run : /\ svc'[r] = "off" <=> svc[r] = "off"
                        /\ svc'[r] \in {"off", "config", "login", "check", "tun"}
                             => svc[r] \in {"off", "config", "login", "check", "tun"}
                        /\ svc'[r] = "routes" => svc[r] = "routes"
  PROVE  RouteInv'
<1>1. NotStartedYet'
  BY DEF RouteInv, NotStartedYet, Untouched
<1>2. NotTooEarly'
  BY DEF RouteInv, NotTooEarly
<1>3. (OwnedBetween /\ FirstOwnsAll /\ RoutesRemoved)'
  BY DEF RouteInv, OwnedBetween, FirstOwnsAll, RoutesRemoved
<1> QED  BY <1>1, <1>2, <1>3 DEF RouteInv

\* The routes and the adapter.
LEMMA RouteStep ==
  ASSUME TypeOK, RouteInv, [Next]_vars
  PROVE  RouteInv'
<1> USE LifecycleAssumption, FirstRun DEF TypeOK, At, Goto, progVars, appVars, tunVars
<1>1. CASE UNCHANGED vars
  BY <1>1, OthersKeepRoutes DEF vars
<1>2. ASSUME NEW r \in Run, StartAgent(r) PROVE RouteInv'
  <2>1. Untouched(r) /\ r = runCount + 1 /\ runCount' = r /\ runCount \in Nat
    BY <1>2 DEF StartAgent, RouteInv, NotStartedYet, Run
  <2>2. NotStartedYet'
    BY <1>2, <2>1 DEF StartAgent, RouteInv, NotStartedYet, Untouched, Run
  <2>3. NotTooEarly'
    BY <1>2, <2>1 DEF StartAgent, RouteInv, NotTooEarly, Untouched
  <2>4. OwnedBetween'
    BY <1>2 DEF StartAgent, RouteInv, OwnedBetween
  <2>5. FirstOwnsAll'
    BY <1>2, <2>1 DEF StartAgent, Untouched, FirstOwnsAll, Route
  <2>6. RoutesRemoved'
    BY <1>2, <2>1 DEF StartAgent, RouteInv, RoutesRemoved, NotStartedYet, Untouched, Run
  <2> QED  BY <2>2, <2>3, <2>4, <2>5, <2>6 DEF RouteInv
<1>3. ASSUME NEW r \in Run, ConfigFails(r) \/ RunEnds(r) \/ Quiet(r) PROVE RouteInv'
  BY <1>3, OthersKeepRoutes
  DEF ConfigFails, RunEnds, Quiet, LoginFails, LogIn, CheckFails, PrivilegeMissing,
      AdapterMissing, RoutesInvalid, TunFails, BinaryMissing, StartFails, RoutesDone, ListenFails, Listen,
      AcceptEnds, ConfigRead, CheckSucceeds, ServicePC
<1>4. ASSUME NEW r \in Run, TunStarts(r) PROVE RouteInv'
  <2>1. NotStartedYet'
    BY <1>4 DEF TunStarts, RouteInv, NotStartedYet, Untouched
  <2>2. NotTooEarly'
    BY <1>4 DEF TunStarts, RouteInv, NotTooEarly
  <2>3. (OwnedBetween /\ FirstOwnsAll /\ RoutesRemoved)'
    BY <1>4 DEF TunStarts, RouteInv, OwnedBetween, FirstOwnsAll, RoutesRemoved
  <2> QED  BY <2>1, <2>2, <2>3 DEF RouteInv
<1>5. ASSUME NEW r \in Run, AddRoute(r) PROVE RouteInv'
  <2>1. cleanup[r] = "no" /\ cleaned[r] = 0
    BY <1>5 DEF AddRoute, RouteInv, NotTooEarly
  <2>2. NotStartedYet'
    BY <1>5 DEF AddRoute, RouteInv, NotStartedYet, Untouched
  <2>3. NotTooEarly'
    BY <1>5 DEF AddRoute, RouteInv, NotTooEarly
  <2>4. OwnedBetween'
    BY <1>5, <2>1 DEF AddRoute, RouteInv, OwnedBetween, Route
  <2>5. FirstOwnsAll'
    <3>1. CASE r = 1
      BY <1>5, <3>1 DEF AddRoute, RouteInv, FirstOwnsAll, Route
    <3>2. CASE r # 1
      <4>1. runCount # 1
        BY <1>5, <3>2 DEF AddRoute, RouteInv, NotStartedYet, Untouched, Run
      <4> QED  BY <1>5, <4>1 DEF AddRoute, FirstOwnsAll
    <3> QED  BY <3>1, <3>2
  <2>6. RoutesRemoved'
    BY <1>5, <2>1 DEF AddRoute, RouteInv, RoutesRemoved
  <2> QED  BY <2>2, <2>3, <2>4, <2>5, <2>6 DEF RouteInv
<1>6. ASSUME NEW r \in Run, AddRouteFails(r) PROVE RouteInv'
  <2>1. NotStartedYet'
    BY <1>6 DEF AddRouteFails, RouteInv, NotStartedYet, Untouched
  <2>2. NotTooEarly'
    BY <1>6 DEF AddRouteFails, RouteInv, NotTooEarly
  <2>3. (OwnedBetween /\ RoutesRemoved)'
    BY <1>6 DEF AddRouteFails, RouteInv, OwnedBetween, RoutesRemoved
  <2>4. FirstOwnsAll'
    <3>1. CASE r = 1
      BY <1>6, <3>1 DEF AddRouteFails, RouteInv, FirstOwnsAll, Route
    <3>2. CASE r # 1
      <4>1. runCount # 1
        BY <1>6, <3>2 DEF AddRouteFails, RouteInv, NotStartedYet, Untouched, Run
      <4> QED  BY <1>6, <4>1 DEF AddRouteFails, FirstOwnsAll
    <3> QED  BY <3>1, <3>2
  <2> QED  BY <2>1, <2>2, <2>3, <2>4 DEF RouteInv
<1>7. ASSUME NEW r \in Run, CloseListener(r) \/ SessionEnds(r) PROVE RouteInv'
  BY <1>7, OthersKeepRoutes DEF CloseListener, SessionEnds
<1>8. ASSUME NEW r \in Run, TunGone(r) PROVE RouteInv'
  <2>1. NotStartedYet'
    BY <1>8 DEF TunGone, RouteInv, NotStartedYet, Untouched
  <2>2. NotTooEarly'
    BY <1>8 DEF TunGone, RouteInv, NotTooEarly
  <2>3. (OwnedBetween /\ RoutesRemoved)'
    BY <1>8 DEF TunGone, RouteInv, OwnedBetween, RoutesRemoved
  <2>4. FirstOwnsAll'
    BY <1>8 DEF TunGone, RouteInv, FirstOwnsAll
  <2> QED  BY <2>1, <2>2, <2>3, <2>4 DEF RouteInv
<1>9. ASSUME NEW r \in Run, CleanupBegins(r) PROVE RouteInv'
  <2>1. NotStartedYet'
    BY <1>9 DEF CleanupBegins, WatchersStarted, RouteInv, NotStartedYet, Untouched
  <2>2. NotTooEarly'
    BY <1>9 DEF CleanupBegins, WatchersStarted, RouteInv, NotTooEarly
  <2>3. (OwnedBetween /\ FirstOwnsAll /\ RoutesRemoved)'
    BY <1>9 DEF CleanupBegins, RouteInv, OwnedBetween, FirstOwnsAll, RoutesRemoved
  <2> QED  BY <2>1, <2>2, <2>3 DEF RouteInv
<1>10. ASSUME NEW r \in Run, DeleteRoute(r) PROVE RouteInv'
  <2>1. NotStartedYet'
    BY <1>10 DEF DeleteRoute, RouteInv, NotStartedYet, Untouched
  <2>2. NotTooEarly'
    BY <1>10 DEF DeleteRoute, RouteInv, NotTooEarly
  <2>3. OwnedBetween' /\ RoutesRemoved'
    <3>1. OwnedBetween'
      BY <1>10 DEF DeleteRoute, RouteInv, OwnedBetween, Route
    <3>2. RoutesRemoved'
      BY <1>10 DEF DeleteRoute, RouteInv, RoutesRemoved
    <3> QED  BY <3>1, <3>2
  <2>4. FirstOwnsAll'
    <3>1. CASE r = 1
      BY <1>10, <3>1 DEF DeleteRoute, RouteInv, FirstOwnsAll, Route
    <3>2. CASE r # 1
      <4>1. runCount # 1
        BY <1>10, <3>2 DEF DeleteRoute, RouteInv, NotStartedYet, Untouched, Run
      <4> QED  BY <1>10, <4>1 DEF DeleteRoute, FirstOwnsAll
    <3> QED  BY <3>1, <3>2
  <2> QED  BY <2>1, <2>2, <2>3, <2>4 DEF RouteInv
<1>11. ASSUME NEW r \in Run, DeleteRouteFails(r) \/ CleanupEnds(r) PROVE RouteInv'
  <2>1. /\ cleanup[r] = "busy"
        /\ cleanup' = [cleanup EXCEPT ![r] = "done"]
        /\ UNCHANGED <<os, runCount, svc, tun, setup, cleaned, owner>>
    BY <1>11 DEF DeleteRouteFails, CleanupEnds
  <2>2. NotStartedYet'
    BY <2>1 DEF RouteInv, NotStartedYet, Untouched
  <2>3. NotTooEarly'
    BY <2>1 DEF RouteInv, NotTooEarly
  <2>4. (OwnedBetween /\ FirstOwnsAll)'
    BY <2>1 DEF RouteInv, OwnedBetween, FirstOwnsAll
  <2>5. ASSUME os = "darwin" \/ runCount = 1, NEW i \in Route, owner[i] = r
        PROVE  FALSE
    <3>1. i > cleaned[r] /\ i <= setup[r] /\ i \in 1 .. MaxRoutes
      BY <2>5 DEF RouteInv, OwnedBetween, Route
    <3>2. CASE CleanupEnds(r)
      BY <3>1, <3>2 DEF CleanupEnds
    <3>3. CASE DeleteRouteFails(r)
      <4>1. /\ os = "windows" /\ runCount = 1 /\ cleaned[r] < MaxRoutes
            /\ owner[cleaned[r] + 1] = 0
        BY <2>5, <3>3 DEF DeleteRouteFails
      <4>2. r = 1
        BY <2>1, <4>1 DEF RouteInv, NotStartedYet, Untouched, Run
      <4>3. cleaned[1] + 1 \in Route /\ cleaned[1] + 1 <= setup[1]
        BY <3>1, <4>1, <4>2 DEF Route
      <4> QED  BY <4>1, <4>2, <4>3 DEF RouteInv, FirstOwnsAll
    <3> QED  BY <1>11, <3>2, <3>3
  <2>6. RoutesRemoved'
    BY <2>1, <2>5 DEF RouteInv, RoutesRemoved
  <2> QED  BY <2>2, <2>3, <2>4, <2>6 DEF RouteInv
<1>12. ASSUME StopAgent \/ Quit \/ Signal \/ Exit PROVE RouteInv'
  BY <1>12, OthersKeepRoutes DEF StopAgent, Quit, Signal, Exit
<1> QED
  BY <1>1, <1>2, <1>3, <1>4, <1>5, <1>6, <1>7, <1>8, <1>9, <1>10, <1>11, <1>12
  DEF Next, RunStep, ServiceStep, CleanupStep, Quiet

----------------------------------------------------------------------------
(* What one run does to the routes of another *)

\* Steps that concern neither tun2socks nor routes, and start no run.
LEMMA OthersKeepPlaces ==
  ASSUME PlaceInv, UNCHANGED <<tun, setup, cleanup, owner, before>>,
         \A r \in Run : /\ Active(r)' => Active(r)
                        /\ svc'[r] = "routes" => svc[r] = "routes"
  PROVE  PlaceInv'
<1>1. TunFirst'
  BY DEF PlaceInv, TunFirst
<1>2. ClearIsAlone'
  BY DEF PlaceInv, ClearIsAlone
<1>3. RoutesInPlace'
  BY DEF PlaceInv, RoutesInPlace
<1> QED  BY <1>1, <1>2, <1>3 DEF PlaceInv

\* Where each one at work stands.
LEMMA PlaceStep ==
  ASSUME TypeOK, AppInv, RouteInv, PlaceInv, [Next]_vars
  PROVE  PlaceInv'
<1> USE LifecycleAssumption, FirstRun DEF TypeOK, At, Goto, progVars, appVars, tunVars
<1>1. CASE UNCHANGED vars
  BY <1>1, OthersKeepPlaces DEF vars, Active
<1>2. ASSUME NEW r \in Run, StartAgent(r) PROVE PlaceInv'
  <2>1. tun[r] = "off" /\ before[r] = "none"
    BY <1>2 DEF StartAgent, RouteInv, NotStartedYet, Untouched, PlaceInv, TunFirst, Run
  <2>2. \A q \in Run : q # r => (Active(q)' <=> Active(q))
    BY <1>2 DEF StartAgent, Active
  <2>3. TunFirst'
    BY <1>2 DEF StartAgent, PlaceInv, TunFirst
  <2>4. ClearIsAlone'
    BY <1>2, <2>1, <2>2 DEF StartAgent, PlaceInv, ClearIsAlone
  <2>5. RoutesInPlace'
    BY <1>2, <2>1, <2>2 DEF StartAgent, PlaceInv, RoutesInPlace
  <2> QED  BY <2>3, <2>4, <2>5 DEF PlaceInv
<1>3. ASSUME NEW r \in Run, ConfigFails(r) \/ RunEnds(r) \/ Quiet(r) PROVE PlaceInv'
  BY <1>3, OthersKeepPlaces
  DEF ConfigFails, RunEnds, Quiet, LoginFails, LogIn, CheckFails, PrivilegeMissing,
      AdapterMissing, RoutesInvalid, TunFails, BinaryMissing, StartFails, RoutesDone, ListenFails, Listen,
      AcceptEnds, ConfigRead, CheckSucceeds, Active
<1>4. ASSUME NEW r \in Run, TunStarts(r) PROVE PlaceInv'
  <2>1. \A q \in Run : Active(q)' => q = r
    BY <1>4 DEF TunStarts, Active, AppInv, OneRunAtATime
  <2>2. setup[r] = 0 /\ setup' = setup
    BY <1>4 DEF TunStarts, RouteInv, NotTooEarly, PlaceInv, TunFirst
  <2>3. TunFirst'
    BY <1>4 DEF TunStarts, PlaceInv, TunFirst
  <2>4. ClearIsAlone'
    BY <1>4, <2>1 DEF TunStarts, ClearIsAlone
  <2>5. RoutesInPlace'
    BY <2>1, <2>2 DEF RoutesInPlace, Route
  <2> QED  BY <2>3, <2>4, <2>5 DEF PlaceInv
<1>5. ASSUME NEW r \in Run, AddRoute(r) \/ AddRouteFails(r) PROVE PlaceInv'
  <2>1. /\ svc[r] = "routes" /\ setup[r] < MaxRoutes
        /\ setup' \in {setup, [setup EXCEPT ![r] = @ + 1]}
        /\ UNCHANGED <<tun, cleanup, before>>
    BY <1>5 DEF AddRoute, AddRouteFails
  <2>2. \A q \in Run : (Active(q)' => q = r) /\ (Active(q) => q = r)
    BY <1>5, <2>1 DEF AddRoute, AddRouteFails, Active, AppInv, OneRunAtATime
  <2>3. Active(r)
    BY <2>1 DEF Active
  <2>4. TunFirst'
    BY <2>1, <1>5 DEF AddRoute, AddRouteFails, PlaceInv, TunFirst
  <2>5. ClearIsAlone'
    <3> SUFFICES ASSUME NEW p \in Run, NEW q \in Run,
                        Active(p)', before'[p] = "clear", q # p
                 PROVE  tun'[q] = "off" \/ cleanup'[q] = "done"
      BY DEF ClearIsAlone
    <3>1. p = r /\ before[p] = "clear"
      BY <2>1, <2>2
    <3> QED  BY <2>1, <2>3, <3>1 DEF PlaceInv, ClearIsAlone
  <2>6. RoutesInPlace'
    <3>1. CASE AddRoute(r)
      BY <3>1, <2>2, <2>3 DEF AddRoute, PlaceInv, RoutesInPlace, Route
    <3>2. CASE AddRouteFails(r)
      BY <3>2, <2>2, <2>3 DEF AddRouteFails, PlaceInv, RoutesInPlace, Route
    <3> QED  BY <1>5, <3>1, <3>2
  <2> QED  BY <2>4, <2>5, <2>6 DEF PlaceInv
<1>6. ASSUME NEW r \in Run, CloseListener(r) \/ SessionEnds(r) PROVE PlaceInv'
  BY <1>6, OthersKeepPlaces DEF CloseListener, SessionEnds, Active
<1>7. ASSUME NEW r \in Run, TunGone(r) PROVE PlaceInv'
  <2>1. TunFirst'
    BY <1>7 DEF TunGone, PlaceInv, TunFirst
  <2>2. ClearIsAlone'
    BY <1>7 DEF TunGone, PlaceInv, ClearIsAlone, Active
  <2>3. RoutesInPlace'
    BY <1>7 DEF TunGone, PlaceInv, RoutesInPlace, Active
  <2> QED  BY <2>1, <2>2, <2>3 DEF PlaceInv
<1>8. ASSUME NEW r \in Run, CleanupBegins(r) PROVE PlaceInv'
  <2>1. tun[r] # "off" /\ cleanup[r] = "no"
    BY <1>8 DEF CleanupBegins, WatchersStarted
  <2>2. TunFirst'
    BY <1>8 DEF CleanupBegins, PlaceInv, TunFirst
  <2>3. ClearIsAlone'
    BY <1>8, <2>1 DEF CleanupBegins, PlaceInv, ClearIsAlone, Active
  <2>4. RoutesInPlace'
    BY <1>8 DEF CleanupBegins, PlaceInv, RoutesInPlace, Active
  <2> QED  BY <2>2, <2>3, <2>4 DEF PlaceInv
<1>9. ASSUME NEW r \in Run, DeleteRoute(r) PROVE PlaceInv'
  <2>1. cleanup[r] = "busy" /\ tun[r] # "off"
    BY <1>9 DEF DeleteRoute, RouteInv, NotTooEarly
  <2>2. TunFirst'
    BY <1>9 DEF DeleteRoute, PlaceInv, TunFirst
  <2>3. ClearIsAlone'
    BY <1>9 DEF DeleteRoute, PlaceInv, ClearIsAlone, Active
  <2>4. ASSUME NEW q \in Run, Active(q), before[q] = "clear", cleanup[q] = "no"
        PROVE  FALSE
    BY <2>1, <2>4 DEF PlaceInv, ClearIsAlone
  <2>5. RoutesInPlace'
    BY <1>9, <2>4 DEF DeleteRoute, RoutesInPlace, Active
  <2> QED  BY <2>2, <2>3, <2>5 DEF PlaceInv
<1>10. ASSUME NEW r \in Run, DeleteRouteFails(r) \/ CleanupEnds(r) PROVE PlaceInv'
  <2>1. /\ cleanup' = [cleanup EXCEPT ![r] = "done"]
        /\ UNCHANGED <<svc, tun, setup, owner, before>>
    BY <1>10 DEF DeleteRouteFails, CleanupEnds
  <2>2. (TunFirst /\ ClearIsAlone /\ RoutesInPlace)'
    BY <2>1 DEF PlaceInv, TunFirst, ClearIsAlone, RoutesInPlace, Active
  <2> QED  BY <2>2 DEF PlaceInv
<1>11. ASSUME StopAgent \/ Quit \/ Signal \/ Exit PROVE PlaceInv'
  BY <1>11, OthersKeepPlaces DEF StopAgent, Quit, Signal, Exit, Active
<1> QED
  BY <1>1, <1>2, <1>3, <1>4, <1>5, <1>6, <1>7, <1>8, <1>9, <1>10, <1>11
  DEF Next, RunStep, ServiceStep, CleanupStep, Quiet

----------------------------------------------------------------------------

\* The inductive invariant: types, what the App knows of its run, between which
\* two commands each route of a run lies, and who may still remove routes.
THEOREM Invariance == SafetySpec => []IInv
<1>1. IInv /\ [Next]_vars => IInv'
  BY TypeStep, AppStep, RouteStep, PlaceStep DEF IInv
<1> QED  BY InitHolds, <1>1, PTL DEF SafetySpec

\* The state is well typed (all of Lifecycle's variables).
THEOREM TypeCorrect == SafetySpec => []TypeOK
<1>1. IInv => TypeOK
  BY DEF IInv
<1> QED  BY <1>1, Invariance, PTL

\* App.running is true exactly while a run is on, and two never are (App.mu,
\* app.go).
THEOREM RunIsKnown == SafetySpec => []OneKnownRun
<1>1. IInv => OneKnownRun
  BY DEF IInv, AppInv, OneKnownRun
<1> QED  BY <1>1, Invariance, PTL

\* StopAgent finds the context of the run that is on (app.go).
THEOREM RunCanBeStopped == SafetySpec => []StopReachesRun
<1>1. IInv => StopReachesRun
  BY DEF IInv, AppInv
<1> QED  BY <1>1, Invariance, PTL

\* The clean-up of a run leaves none of its routes (runRouteCleanup,
\* tun_runner.go), however far setting them came.
THEOREM CleanupIsComplete == SafetySpec => []RoutesRemoved
<1>1. IInv => RoutesRemoved
  BY DEF IInv, RouteInv
<1> QED  BY <1>1, Invariance, PTL

\* The routes of the run that is on stay, when it began after the clean-ups of
\* the others (TunRunner.Start, tun_runner.go).
THEOREM RoutesStay == SafetySpec => []RoutesInPlace
<1>1. IInv => RoutesInPlace
  BY DEF IInv, PlaceInv
<1> QED  BY <1>1, Invariance, PTL

=============================================================================
