------------------------------ MODULE Desktop ------------------------------
(***************************************************************************)
(* The desktop UI (cmd/htunnel-ui/app.go) and its two files: the           *)
(* configuration, with the login the server gave and the sealed password,  *)
(* and the key that seals it.  Every call of the page (app.js) runs in a   *)
(* goroutine of its own, nothing locks the files, and os.WriteFile empties *)
(* a file before it writes it.  The process may end at any moment and be   *)
(* started again; the files stay.                                          *)
(*                                                                         *)
(* A login stands for all that comes with one: user, password, token and   *)
(* networks.  Logins and keys are numbered in the order they are made.     *)
(***************************************************************************)
EXTENDS Integers, FiniteSets

CONSTANTS MaxCalls,  \* bound: calls of Connect and AutoConnect
          MaxCrashes \* bound: times the process ends

ASSUME DesktopAssumption == MaxCalls \in Nat /\ MaxCrashes \in Nat

Call   == 1 .. MaxCalls
Absent == 0  \* no key file; a configuration without sealed password
Empty  == -1 \* a key file that was emptied and not written
ByHand == -1 \* route commands that the user has written

VARIABLES
  file,    \* the configuration file: "full", "empty", "mixed" (two writers)
  config,  \* what it holds, or held before it was emptied
  keyFile, \* the key file: Absent, Empty, or the number of its key
  logins,  \* logins the server has given
  keys,    \* keys drawn
  booted,  \* the page has tried AutoConnect
  shown,   \* the page shows that the agent runs
  poll,    \* a status the page has asked for and not shown: "none", "runs",
           \* "stopped"; "late" once it has shown one that was outdated
  running, \* App.running
  used,    \* the login the running agent was started with
  crashes, \* times the process has ended
  pc,      \* where each call is
  kind,    \* "connect" or "auto"
  mine,    \* its copy of the configuration
  alone,   \* ghost: no call has begun while another was on
  misread  \* ghost: an emptied file was read as a configuration

fileVars == <<file, config, keyFile>>
pageVars == <<booted, shown, poll, crashes>>
callVars == <<pc, kind, mine, alone>>
vars     == <<fileVars, logins, keys, pageVars, running, used, callVars, misread>>

\* A configuration: whether it has the settings the user once put there by
\* hand, as far as neither a login nor applyLocalDefaults sets them; its login
\* (0 for none); the login its route commands were made for; and the key its
\* password is sealed with.
Config   == [custom : BOOLEAN, login : Nat, routes : Nat \cup {ByHand}, key : Nat]
Defaults == [custom |-> FALSE, login |-> 0, routes |-> 0, key |-> Absent]

CallPC == {"idle", "read", "unseal", "login", "findKey", "makeKey", "writeKey",
           "empty", "write", "start", "reread", "reunseal", "over"}

TypeOK == /\ file \in {"full", "empty", "mixed"} /\ config \in Config
          /\ keyFile \in Nat \cup {Empty}
          /\ {logins, keys, used, crashes} \subseteq Nat
          /\ {booted, shown, running, alone, misread} \subseteq BOOLEAN
          /\ poll \in {"none", "runs", "stopped", "late"}
          /\ pc \in [Call -> CallPC] /\ kind \in [Call -> {"connect", "auto"}]
          /\ mine \in [Call -> Config]

\* The first start, with a configuration that has no login or one that was put
\* there by hand, or a later start.
Init == /\ \E n \in {0, 1}, k \in {0, 1} :
             /\ k <= n
             /\ config = [custom |-> TRUE, login |-> n, routes |-> ByHand, key |-> k]
             /\ keyFile = k /\ logins = n /\ keys = k
        /\ file = "full" /\ booted = FALSE /\ shown = FALSE /\ poll = "none"
        /\ running = FALSE /\ used = 0 /\ crashes = 0
        /\ pc = [c \in Call |-> "idle"] /\ kind = [c \in Call |-> "connect"]
        /\ mine = [c \in Call |-> Defaults]
        /\ alone = TRUE /\ misread = FALSE

On(c)         == pc[c] \notin {"idle", "over"}
At(c, at)     == pc[c] = at
Goto(c, to)   == pc' = [pc EXCEPT ![c] = to] /\ UNCHANGED <<kind, alone>>
Copy(c, conf) == mine' = [mine EXCEPT ![c] = conf]

\* The call is over, and the page shows the status it returns.
Return(c) == Goto(c, "over") /\ shown' = running'
             /\ UNCHANGED <<fileVars, logins, keys, booted, poll, crashes, mine>>

----------------------------------------------------------------------------
(* The page *)

Begin(c, what) ==
  /\ At(c, "idle") /\ \A b \in 1 .. (c - 1) : ~At(b, "idle")
  /\ pc' = [pc EXCEPT ![c] = "read"] /\ kind' = [kind EXCEPT ![c] = what]
  /\ alone' = (alone /\ \A b \in Call : ~On(b))
  /\ UNCHANGED <<fileVars, logins, keys, shown, poll, crashes, running, used, mine, misread>>

\* Mutant: the button offers to connect whatever the page shows.
ConnectAnyTime(c) == Begin(c, "connect") /\ UNCHANGED booted

Connect(c) == ~shown /\ Begin(c, "connect") /\ UNCHANGED booted

AutoConnect(c) == ~booted /\ ~shown /\ Begin(c, "auto") /\ booted' = TRUE

\* The status is polled, and asked for after StopAgent.
Refresh == /\ shown # running /\ shown' = running
           /\ UNCHANGED <<fileVars, logins, keys, booted, poll, crashes, running, used,
                          callVars, misread>>

\* A poll whose answer takes its time, and may come after that of a call.
AskStatus == /\ poll = "none" /\ poll' = IF running THEN "runs" ELSE "stopped"
             /\ UNCHANGED <<fileVars, logins, keys, booted, shown, crashes, running, used,
                            callVars, misread>>

ShowStatus == /\ poll \in {"runs", "stopped"} /\ shown' = (poll = "runs")
              /\ poll' = IF shown' = running THEN "none" ELSE "late"
              /\ UNCHANGED <<fileVars, logins, keys, booted, crashes, running, used,
                             callVars, misread>>

\* The run ends, by itself or because of StopAgent.
RunEnds == /\ running /\ \A c \in Call : pc[c] \notin {"reread", "reunseal"}
           /\ running' = FALSE
           /\ UNCHANGED <<fileVars, logins, keys, pageVars, used, callVars, misread>>

\* The process ends, its window closed or killed, and is started again.
Restart == /\ crashes < MaxCrashes /\ crashes' = crashes + 1
           /\ pc' = [c \in Call |-> IF On(c) THEN "over" ELSE pc[c]]
           /\ running' = FALSE /\ shown' = FALSE /\ poll' = "none" /\ booted' = FALSE
           /\ UNCHANGED <<fileVars, logins, keys, used, kind, mine, alone, misread>>

----------------------------------------------------------------------------
(* readConfig, once in the call itself and once in StartAgent *)

Reading(c)   == pc[c] \in {"read", "reread"}
Unsealing(c) == pc[c] \in {"unseal", "reunseal"}
Started(c)   == pc[c] \in {"reread", "reunseal"}

\* What follows a configuration that was read: the login, or agent.New.
ReadDone(c, conf) == /\ Goto(c, IF Started(c) THEN "over" ELSE "login")
                     /\ used' = IF Started(c) THEN conf.login ELSE used
                     /\ shown' = IF Started(c) THEN running ELSE shown

\* LoadYAML, over the defaults; an empty file is a valid one.
ReadConfig(c) ==
  /\ Reading(c) /\ file # "mixed"
  /\ LET conf == IF file = "full" THEN config ELSE Defaults IN
       /\ Copy(c, conf)
       /\ IF conf.key # Absent
          THEN Goto(c, IF Started(c) THEN "reunseal" ELSE "unseal") /\ UNCHANGED <<used, shown>>
          ELSE ReadDone(c, conf)
  /\ misread' = (misread \/ file = "empty")
  /\ UNCHANGED <<fileVars, logins, keys, booted, poll, crashes, running>>

\* hydratePassword.  (It never finds that there is no key: a key is there
\* before anything is sealed with it, and stays.)
Unseal(c) == /\ Unsealing(c) /\ keyFile = mine[c].key
             /\ ReadDone(c, mine[c])
             /\ UNCHANGED <<fileVars, logins, keys, booted, poll, crashes, running, mine, misread>>

\* The file does not parse, or its password cannot be decrypted.
ReadFails(c) == /\ \/ Reading(c) /\ file = "mixed"
                   \/ Unsealing(c) /\ keyFile # mine[c].key
                /\ running' = (running /\ ~Started(c))
                /\ Return(c)
                /\ UNCHANGED <<used, misread>>

----------------------------------------------------------------------------
(* Connect and AutoConnect, from what was read to what is saved *)

\* The server's login API: user and password are right, a new login is given.
IssueLogin == logins' = logins + 1

\* applyLocalDefaults makes the TUN device enabled and its route commands anew,
\* from the networks of the login; what else is filled in stays.
LocalDefaults(conf) == [conf EXCEPT !.routes = conf.login]

\* Mutant: what is saved is made anew from the defaults.
LogInAfresh(c) == /\ At(c, "login") /\ kind[c] = "connect"
                  /\ IssueLogin
                  /\ Copy(c, LocalDefaults([Defaults EXCEPT !.login = logins']))
                  /\ Goto(c, "findKey")
                  /\ UNCHANGED <<fileVars, keys, pageVars, running, used, misread>>

\* Connect always asks for a new login; token, agent, URL and networks are taken over.
LogIn(c) == /\ At(c, "login") /\ kind[c] = "connect"
            /\ IssueLogin
            /\ Copy(c, LocalDefaults([mine[c] EXCEPT !.login = logins']))
            /\ Goto(c, "findKey")
            /\ UNCHANGED <<fileVars, keys, pageVars, running, used, misread>>

\* AutoConnect goes on with a token that is valid for another 30 s.
TokenValid(c) == /\ At(c, "login") /\ kind[c] = "auto" /\ mine[c].login # 0
                 /\ Copy(c, LocalDefaults(mine[c]))
                 /\ Goto(c, "findKey")
                 /\ UNCHANGED <<fileVars, logins, keys, pageVars, running, used, misread>>

\* Something is not filled in, the server refuses or is not there, the token is
\* missing or expired, or the routes cannot be made.
GivesUp(c) == /\ At(c, "login")
              /\ UNCHANGED <<running, used, misread>> /\ Return(c)

\* Mutants: the size of the key is not checked; a key of the wrong size is
\* replaced in memory only.
FindKeyUnchecked(c) == /\ At(c, "findKey") /\ keyFile # Absent
                       /\ Copy(c, [mine[c] EXCEPT !.key = keyFile])
                       /\ Goto(c, "empty")
                       /\ UNCHANGED <<fileVars, logins, keys, pageVars, running, used, misread>>
FindKeyDraws(c) == /\ At(c, "findKey") /\ keyFile # Absent
                   /\ keys' = IF keyFile = Empty THEN keys + 1 ELSE keys
                   /\ Copy(c, [mine[c] EXCEPT !.key = IF keyFile = Empty THEN keys' ELSE keyFile])
                   /\ Goto(c, "empty")
                   /\ UNCHANGED <<fileVars, logins, pageVars, running, used, misread>>

\* sealPassword: AutoConnect may have found a token without a password ...
NothingToSeal(c) == /\ At(c, "findKey") /\ kind[c] = "auto" /\ mine[c].key = Absent
                    /\ Goto(c, "empty")
                    /\ UNCHANGED <<fileVars, logins, keys, pageVars, running, used, mine, misread>>

\* ... or it is sealed, with what loadOrCreateAuthKey returns: there is a key ...
FindKey(c) == /\ At(c, "findKey") /\ keyFile \notin {Absent, Empty}
              /\ Copy(c, [mine[c] EXCEPT !.key = keyFile])
              /\ Goto(c, "empty")
              /\ UNCHANGED <<fileVars, logins, keys, pageVars, running, used, misread>>

\* ... or one of the wrong size ...
KeyInvalid(c) == /\ At(c, "findKey") /\ keyFile = Empty
                 /\ UNCHANGED <<running, used, misread>> /\ Return(c)

\* ... or none: one is drawn and written, in two steps like any file.
FindNoKey(c) == /\ At(c, "findKey") /\ keyFile = Absent
                /\ Goto(c, "makeKey")
                /\ UNCHANGED <<fileVars, logins, keys, pageVars, running, used, mine, misread>>

MakeKey(c) == /\ At(c, "makeKey")
              /\ keyFile' = Empty
              /\ Goto(c, "writeKey")
              /\ UNCHANGED <<file, config, logins, keys, pageVars, running, used, mine, misread>>

WriteKey(c) == /\ At(c, "writeKey")
               /\ keys' = keys + 1 /\ keyFile' = keys'
               /\ Copy(c, [mine[c] EXCEPT !.key = keys'])
               /\ Goto(c, "empty")
               /\ UNCHANGED <<file, config, logins, pageVars, running, used, misread>>

\* saveConfig: os.WriteFile.
EmptyConfig(c) == /\ At(c, "empty") /\ file' = "empty"
                  /\ Goto(c, "write")
                  /\ UNCHANGED <<config, keyFile, logins, keys, pageVars, running, used, mine, misread>>

\* Over what another call has written since, it may leave the end of that.
WriteConfig(c) == /\ At(c, "write")
                  /\ config' = mine[c]
                  /\ file' \in IF file = "empty" THEN {"full"} ELSE {"full", "mixed"}
                  /\ Goto(c, "start")
                  /\ UNCHANGED <<keyFile, logins, keys, pageVars, running, used, mine, misread>>

\* StartAgent: nothing to do, or the run begins with what is read from the file.
AlreadyRuns(c) == /\ At(c, "start") /\ running
                  /\ UNCHANGED <<running, used, misread>> /\ Return(c)

StartAgent(c) == /\ At(c, "start") /\ ~running
                 /\ running' = TRUE
                 /\ Goto(c, "reread")
                 /\ UNCHANGED <<fileVars, logins, keys, pageVars, used, mine, misread>>

CallStep(c) == \/ ReadConfig(c) \/ Unseal(c) \/ ReadFails(c)
               \/ LogIn(c) \/ TokenValid(c) \/ GivesUp(c)
               \/ NothingToSeal(c) \/ FindKey(c) \/ KeyInvalid(c) \/ FindNoKey(c)
               \/ MakeKey(c) \/ WriteKey(c)
               \/ EmptyConfig(c) \/ WriteConfig(c) \/ AlreadyRuns(c) \/ StartAgent(c)

Next == \/ \E c \in Call : Connect(c) \/ AutoConnect(c) \/ CallStep(c)
        \/ Refresh \/ AskStatus \/ ShowStatus \/ RunEnds \/ Restart

Spec == Init /\ [][Next]_vars

----------------------------------------------------------------------------
(* Properties *)

\* A saved password can be decrypted, also after a crash: its key is on disk
\* first and is not replaced.  Otherwise readConfig fails in every call, and
\* no Connect can ever repair it.  It takes two calls that both find no key:
\* overlapping calls do no harm once a key is there.
SealedIsReadable == (alone \/ (keys <= 1 /\ keyFile # Empty)) =>
                      (config.key # Absent => keyFile = config.key)

\* The settings of the user that neither a login nor applyLocalDefaults sets are
\* in the file whenever no call writes it, as long as the page never had two
\* calls on at a time and the process has not ended.  After that, too, a file
\* that can be read has them, unless a call has read it while it was empty,
\* between the two steps of a write, and has saved the defaults.
SettingsKept ==
  /\ (alone /\ crashes = 0) =>
       (file = "full" /\ config.custom) \/ \E c \in Call : At(c, "write")
  /\ (file = "full" /\ ~misread) => config.custom

\* An agent that runs when no call is on uses the login that is stored, and
\* routes made for it, as long as the page never had two calls on at a time and
\* never showed a status that was outdated.
RunIsCurrent == (alone /\ poll # "late" /\ running /\ \A c \in Call : ~On(c)) =>
                  used = config.login /\ config.routes = used

=============================================================================
