--------------------------- MODULE DesktopProofs ---------------------------
(***************************************************************************)
(* Theorems about Desktop: for any number of calls and of restarts, what   *)
(* the files of the desktop UI keep, and when the running agent uses the   *)
(* stored login.                                                           *)
(***************************************************************************)
EXTENDS Desktop, TLAPS

NobodyOn == \A c \in Call : ~On(c)
OneAtATime == alone => \A b, c \in Call : On(b) /\ On(c) => b = c

\* Keys are numbered as they are drawn, and a key file that is not there never was.
KeysInOrder == /\ keyFile <= keys /\ config.key <= keys
               /\ \A c \in Call : mine[c].key <= keys
               /\ keyFile = Absent => keys = 0

\* A call that is the only one finds the key file as it left it.
KeyInHand == alone =>
  /\ config.key # Absent => keyFile = config.key
  /\ \A c \in Call : /\ At(c, "makeKey") => keyFile = Absent
                     /\ At(c, "writeKey") => keyFile = Empty /\ keys = 0
                     /\ pc[c] \in {"empty", "write"} => mine[c].key \in {Absent, keyFile}

\* What a call is going to save still has the settings it found.
SettingsInHand ==
  ~misread => /\ config.custom
              /\ \A c \in Call :
                   pc[c] \in {"unseal", "login", "findKey", "makeKey", "writeKey", "empty", "write"}
                     => mine[c].custom

\* As long as the process has not ended, the file is empty exactly while the one
\* call that is on is about to write it.
EmptyForAWhile ==
  (alone /\ crashes = 0) =>
     ~misread /\ file = IF \E c \in Call : At(c, "write") THEN "empty" ELSE "full"

\* What a call is going to save, what it has saved, and what the agent runs with
\* has route commands made for its login.
RoutesInHand ==
  /\ \A c \in Call :
       /\ pc[c] \in {"findKey", "makeKey", "writeKey", "empty", "write"}
            => mine[c].routes = mine[c].login
       /\ Started(c) \/ At(c, "start") => config.routes = config.login
  /\ running => config.routes = config.login

\* The page starts a call only when nothing runs, and the run it starts reads
\* what the call has stored.
StartsFromFile == (alone /\ poll # "late") =>
  /\ running /\ NobodyOn => shown /\ used = config.login
  /\ \A c \in Call : /\ On(c) /\ ~Started(c) => ~running
                     /\ Started(c) \/ At(c, "start") => file # "empty"
                     /\ At(c, "reunseal") => mine[c] = config

IInv == /\ TypeOK /\ OneAtATime /\ KeysInOrder /\ KeyInHand
        /\ SettingsInHand /\ EmptyForAWhile /\ RoutesInHand /\ StartsFromFile

----------------------------------------------------------------------------
(* What a step of a call touches *)

\* The conjuncts of TypeOK that the provers need by themselves.
LEMMA TypeParts ==
  TypeOK => /\ file \in {"full", "empty", "mixed"} /\ config \in Config
            /\ keyFile \in Nat \cup {Empty} /\ keyFile \in Int
            /\ logins \in Nat /\ keys \in Nat /\ used \in Nat /\ crashes \in Nat
            /\ pc \in [Call -> CallPC] /\ kind \in [Call -> {"connect", "auto"}]
            /\ mine \in [Call -> Config]
            /\ Call \subseteq Int
BY DEF TypeOK, Empty, Call

\* A configuration's login and key are numbers; so are those of one that a call
\* has changed.
LEMMA ConfigParts ==
  /\ Defaults \in Config
  /\ Defaults.custom = FALSE /\ Defaults.login = 0 /\ Defaults.key = Absent
  /\ \A conf \in Config :
       /\ conf.custom \in BOOLEAN /\ conf.login \in Nat /\ conf.key \in Nat
       /\ \A n \in Nat :
            /\ [conf EXCEPT !.login = n] \in Config /\ [conf EXCEPT !.key = n] \in Config
            /\ [conf EXCEPT !.login = n].custom = conf.custom
            /\ [conf EXCEPT !.login = n].key = conf.key
            /\ [conf EXCEPT !.key = n].custom = conf.custom
            /\ [conf EXCEPT !.key = n].key = n
BY DEF Config, Defaults, Absent

\* What applyLocalDefaults leaves alone, and the routes it makes.
LEMMA RoutesParts ==
  \A conf \in Config :
    /\ LocalDefaults(conf) \in Config
    /\ LocalDefaults(conf).custom = conf.custom /\ LocalDefaults(conf).key = conf.key
    /\ LocalDefaults(conf).login = conf.login /\ LocalDefaults(conf).routes = conf.login
BY DEF Config, LocalDefaults

\* Where a call may be after a step of it.
Destinations == {"unseal", "login", "findKey", "makeKey", "writeKey", "empty", "write",
                 "start", "reread", "reunseal", "over"}

\* A call's step moves that call and changes no other call's copy; if it is the
\* only one, the others are off before and after.
LEMMA StepShape ==
  ASSUME TypeOK, OneAtATime, NEW c \in Call, CallStep(c)
  PROVE  /\ On(c) /\ UNCHANGED <<kind, alone, booted, crashes>>
         /\ pc' \in [Call -> CallPC] /\ pc'[c] \in Destinations
         /\ \A b \in Call : b # c => pc'[b] = pc[b] /\ mine'[b] = mine[b]
         /\ poll' = poll
         /\ alone => \A b \in Call : b # c => ~On(b) /\ ~On(b)'
<1> USE TypeParts
<1>1. \E to \in Destinations : pc' = [pc EXCEPT ![c] = to] /\ UNCHANGED <<kind, alone>>
  <2>1. CASE ReadConfig(c)
    BY <2>1 DEF ReadConfig, ReadDone, Goto, Destinations
  <2>2. CASE Unseal(c)
    BY <2>2 DEF Unseal, ReadDone, Goto, Destinations
  <2>3. CASE ReadFails(c)
    BY <2>3 DEF ReadFails, Return, Goto, Destinations
  <2>4. CASE LogIn(c) \/ TokenValid(c) \/ GivesUp(c)
    BY <2>4 DEF LogIn, TokenValid, GivesUp, Return, Goto, Destinations
  <2>5. CASE NothingToSeal(c) \/ FindKey(c) \/ KeyInvalid(c) \/ FindNoKey(c) \/ MakeKey(c)
               \/ WriteKey(c)
    BY <2>5 DEF NothingToSeal, FindKey, KeyInvalid, FindNoKey, MakeKey, WriteKey, Return, Goto, Destinations
  <2>6. CASE EmptyConfig(c) \/ WriteConfig(c) \/ AlreadyRuns(c) \/ StartAgent(c)
    BY <2>6 DEF EmptyConfig, WriteConfig, AlreadyRuns, StartAgent, Return, Goto, Destinations
  <2> QED  BY <2>1, <2>2, <2>3, <2>4, <2>5, <2>6 DEF CallStep
<1>2. On(c) /\ UNCHANGED <<booted, poll, crashes>>
  BY DEF CallStep, ReadConfig, Unseal, ReadFails, LogIn, TokenValid, GivesUp, NothingToSeal, FindKey,
         KeyInvalid, FindNoKey, MakeKey, WriteKey, EmptyConfig, WriteConfig, AlreadyRuns, StartAgent,
         Return, ReadDone, Reading, Unsealing, At, On, pageVars
<1>3. \A b \in Call : b # c => mine'[b] = mine[b]
  BY DEF CallStep, ReadConfig, Unseal, ReadFails, LogIn, TokenValid, GivesUp, NothingToSeal, FindKey,
         KeyInvalid, FindNoKey, MakeKey, WriteKey, EmptyConfig, WriteConfig, AlreadyRuns, StartAgent,
         Return, ReadDone, Copy
<1>4. PICK to \in Destinations : pc' = [pc EXCEPT ![c] = to] /\ UNCHANGED <<kind, alone>>
  BY <1>1
<1>5. to \in CallPC
  BY <1>4 DEF Destinations, CallPC
<1>6. /\ pc' \in [Call -> CallPC] /\ pc'[c] = to
      /\ \A b \in Call : b # c => pc'[b] = pc[b]
  BY <1>4, <1>5
<1>7. alone => \A b \in Call : b # c => ~On(b) /\ ~On(b)'
  BY <1>2, <1>6 DEF OneAtATime, On
<1> QED  BY <1>2, <1>3, <1>4, <1>6, <1>7

\* A call begins: it was idle, nothing but its place, its kind, alone and booted
\* changes, and alone stays only if no call was on.
LEMMA BeginShape ==
  ASSUME TypeOK, NEW c \in Call, Connect(c) \/ AutoConnect(c)
  PROVE  /\ ~shown /\ pc[c] = "idle"
         /\ pc' = [pc EXCEPT ![c] = "read"] /\ pc' \in [Call -> CallPC]
         /\ kind' \in [Call -> {"connect", "auto"}]
         /\ pc'[c] = "read" /\ \A b \in Call : b # c => pc'[b] = pc[b]
         /\ alone' <=> alone /\ NobodyOn
         /\ alone' \in BOOLEAN /\ booted' \in BOOLEAN
         /\ UNCHANGED <<fileVars, logins, keys, shown, poll, crashes, running, used, mine, misread>>
<1>1. PICK what \in {"connect", "auto"} : Begin(c, what) /\ ~shown /\ booted' \in {booted, TRUE}
  BY DEF Connect, AutoConnect
<1>2. /\ pc[c] = "idle" /\ pc' = [pc EXCEPT ![c] = "read"] /\ kind' = [kind EXCEPT ![c] = what]
      /\ UNCHANGED <<fileVars, logins, keys, shown, poll, crashes, running, used, mine, misread>>
  BY <1>1 DEF Begin, At
<1>3. alone' = (alone /\ NobodyOn)
  BY <1>1, Zenon DEF Begin, NobodyOn
<1>4. booted' \in BOOLEAN
  BY <1>1, Zenon DEF TypeOK
<1>5. "read" \in CallPC
  BY DEF CallPC
<1>6. alone' \in BOOLEAN
  BY <1>3, Zenon
<1> QED  BY <1>1, <1>2, <1>3, <1>4, <1>5, <1>6, TypeParts

\* The process ends: every call that was on is over.
LEMMA RestartShape ==
  ASSUME TypeOK, Restart
  PROVE  /\ pc' \in [Call -> CallPC] /\ crashes' = crashes + 1 /\ crashes' # 0
         /\ \A c \in Call : pc'[c] \in {pc[c], "over"} /\ ~On(c)'
         /\ running' = FALSE /\ shown' = FALSE /\ poll' = "none" /\ booted' = FALSE
         /\ UNCHANGED <<fileVars, logins, keys, used, kind, mine, alone, misread>>
<1>1. /\ pc' = [c \in Call |-> IF On(c) THEN "over" ELSE pc[c]]
      /\ crashes' = crashes + 1 /\ running' = FALSE /\ shown' = FALSE /\ poll' = "none"
      /\ booted' = FALSE
      /\ UNCHANGED <<fileVars, logins, keys, used, kind, mine, alone, misread>>
  BY DEF Restart
<1>2. \A c \in Call : /\ pc'[c] \in {pc[c], "over"} /\ pc'[c] \in CallPC
                      /\ pc'[c] \in {"idle", "over"}
  BY <1>1, TypeParts DEF On, CallPC
<1>3. pc' \in [Call -> CallPC]
  BY <1>1, <1>2
<1> QED  BY <1>1, <1>2, <1>3, TypeParts DEF On

\* The page shows a status, the run ends, or nothing happens: calls and files are
\* as they were.  Only a status that is outdated makes the poll "late".
PageStep == Refresh \/ AskStatus \/ ShowStatus \/ RunEnds \/ UNCHANGED vars

LEMMA PageShape ==
  ASSUME TypeOK, PageStep
  PROVE  /\ UNCHANGED <<file, config, keyFile, logins, keys, booted, crashes, used, misread>>
         /\ UNCHANGED <<pc, kind, mine, alone>>
         /\ running' = running \/ (running' = FALSE /\ shown' = shown)
         /\ shown' \in {shown, running, TRUE, FALSE}
         /\ poll' \in {"none", "runs", "stopped", "late"}
         /\ poll' # "late" => poll # "late" /\ (shown' = shown \/ shown' = running)
<1>1. poll \in {"none", "runs", "stopped", "late"}
  BY DEF TypeOK
<1>2. CASE Refresh
  BY <1>1, <1>2 DEF Refresh, fileVars, callVars
<1>3. CASE AskStatus
  BY <1>1, <1>3 DEF AskStatus, fileVars, callVars
<1>4. CASE ShowStatus
  BY <1>1, <1>4 DEF ShowStatus, fileVars, callVars
<1>5. CASE RunEnds \/ UNCHANGED vars
  BY <1>1, <1>5 DEF RunEnds, vars, fileVars, pageVars, callVars
<1> QED  BY <1>2, <1>3, <1>4, <1>5 DEF PageStep

\* TypeOK in three parts.
FileTypes == /\ file \in {"full", "empty", "mixed"} /\ config \in Config
             /\ keyFile \in Nat \cup {Empty}
             /\ logins \in Nat /\ keys \in Nat /\ used \in Nat /\ crashes \in Nat
FlagTypes == /\ booted \in BOOLEAN /\ shown \in BOOLEAN /\ running \in BOOLEAN
             /\ alone \in BOOLEAN /\ misread \in BOOLEAN
             /\ poll \in {"none", "runs", "stopped", "late"}
CallTypes == /\ pc \in [Call -> CallPC] /\ kind \in [Call -> {"connect", "auto"}]
             /\ mine \in [Call -> Config]

\* The parts are all of TypeOK, before and after a step.
LEMMA TypeSplit == /\ TypeOK <=> FileTypes /\ FlagTypes /\ CallTypes
                   /\ TypeOK' <=> FileTypes' /\ FlagTypes' /\ CallTypes'
<1>1. /\ {logins, keys, used, crashes} \subseteq Nat
           <=> logins \in Nat /\ keys \in Nat /\ used \in Nat /\ crashes \in Nat
      /\ {logins', keys', used', crashes'} \subseteq Nat
           <=> logins' \in Nat /\ keys' \in Nat /\ used' \in Nat /\ crashes' \in Nat
  OBVIOUS
<1>2. /\ {booted, shown, running, alone, misread} \subseteq BOOLEAN
           <=> /\ booted \in BOOLEAN /\ shown \in BOOLEAN /\ running \in BOOLEAN
               /\ alone \in BOOLEAN /\ misread \in BOOLEAN
      /\ {booted', shown', running', alone', misread'} \subseteq BOOLEAN
           <=> /\ booted' \in BOOLEAN /\ shown' \in BOOLEAN /\ running' \in BOOLEAN
               /\ alone' \in BOOLEAN /\ misread' \in BOOLEAN
  BY Zenon
<1>3. (TypeOK <=> FileTypes /\ FlagTypes /\ CallTypes)
  BY <1>1, <1>2, Zenon DEF TypeOK, FileTypes, FlagTypes, CallTypes
<1>4. (TypeOK' <=> FileTypes' /\ FlagTypes' /\ CallTypes')
  BY <1>1, <1>2, Zenon DEF TypeOK, FileTypes, FlagTypes, CallTypes
<1> QED  BY <1>3, <1>4

\* The files, the numbers and the copies keep their types in a call's step.
LEMMA CallKeepsFiles ==
  ASSUME TypeOK, NEW c \in Call, CallStep(c)
  PROVE  FileTypes' /\ mine' \in [Call -> Config]
<1> USE TypeParts, ConfigParts
<1>0. mine[c] \in Config
  OBVIOUS
<1>1. CASE ReadConfig(c)
  <2>1. PICK conf \in Config : /\ mine' = [mine EXCEPT ![c] = conf]
                               /\ used' = used \/ used' = conf.login
                               /\ UNCHANGED <<fileVars, logins, keys, crashes>>
    <3> DEFINE conf == IF file = "full" THEN config ELSE Defaults
    <3>1. conf \in Config
      OBVIOUS
    <3>2. /\ mine' = [mine EXCEPT ![c] = conf]
          /\ used' = used \/ used' = conf.login
          /\ UNCHANGED <<fileVars, logins, keys, crashes>>
      BY <1>1 DEF ReadConfig, ReadDone, Copy
    <3> QED  BY <3>1, <3>2
  <2> QED  BY <2>1 DEF FileTypes, fileVars
<1>2. CASE Unseal(c)
  BY <1>0, <1>2 DEF Unseal, ReadDone, FileTypes, fileVars
<1>3. CASE LogIn(c) \/ TokenValid(c)
  <2>1. logins' \in Nat
    BY <1>3 DEF LogIn, TokenValid, IssueLogin
  <2>2. [mine[c] EXCEPT !.login = logins'] \in Config
    BY <1>0, <2>1
  <2>3. PICK conf \in Config : mine' = [mine EXCEPT ![c] = conf]
    BY <1>0, <1>3, <2>2, RoutesParts DEF LogIn, TokenValid, Copy
  <2> QED  BY <1>3, <2>1, <2>3 DEF LogIn, TokenValid, FileTypes, fileVars, pageVars
<1>4. CASE FindKey(c)
  BY <1>0, <1>4 DEF FindKey, Copy, FileTypes, fileVars, pageVars, Empty
<1>5. CASE WriteKey(c)
  <2>1. keys' \in Nat /\ keyFile' \in Nat
    BY <1>5 DEF WriteKey
  <2> QED  BY <1>0, <1>5, <2>1 DEF WriteKey, Copy, FileTypes, pageVars
<1>6. CASE MakeKey(c) \/ EmptyConfig(c) \/ WriteConfig(c)
  BY <1>0, <1>6 DEF MakeKey, EmptyConfig, WriteConfig, FileTypes, pageVars
<1>7. CASE ReadFails(c) \/ GivesUp(c) \/ NothingToSeal(c) \/ KeyInvalid(c) \/ FindNoKey(c)
             \/ AlreadyRuns(c) \/ StartAgent(c)
  BY <1>7 DEF ReadFails, GivesUp, NothingToSeal, KeyInvalid, FindNoKey, AlreadyRuns, StartAgent,
              Return, FileTypes, fileVars, pageVars
<1> QED  BY <1>1, <1>2, <1>3, <1>4, <1>5, <1>6, <1>7 DEF CallStep

\* So do the flags.
LEMMA CallKeepsFlags ==
  ASSUME TypeOK, OneAtATime, NEW c \in Call, CallStep(c)
  PROVE  FlagTypes'
<1>0. FlagTypes
  BY TypeSplit
<1>1. UNCHANGED <<alone, booted, poll>>
  BY StepShape
<1>2. running' \in {running, TRUE} \/ running' = (running /\ ~Started(c))
  BY DEF CallStep, ReadConfig, Unseal, ReadFails, LogIn, TokenValid, GivesUp, NothingToSeal, FindKey,
         KeyInvalid, FindNoKey, MakeKey, WriteKey, EmptyConfig, WriteConfig, AlreadyRuns, StartAgent
<1>3. shown' = shown \/ shown' = running \/ shown' = running'
  BY DEF CallStep, ReadConfig, Unseal, ReadFails, LogIn, TokenValid, GivesUp, NothingToSeal, FindKey,
         KeyInvalid, FindNoKey, MakeKey, WriteKey, EmptyConfig, WriteConfig, AlreadyRuns, StartAgent,
         ReadDone, Return, pageVars
<1>4. misread' = misread \/ misread' = (misread \/ file = "empty")
  BY DEF CallStep, ReadConfig, Unseal, ReadFails, LogIn, TokenValid, GivesUp, NothingToSeal, FindKey,
         KeyInvalid, FindNoKey, MakeKey, WriteKey, EmptyConfig, WriteConfig, AlreadyRuns, StartAgent
<1>5. running' \in BOOLEAN
  BY <1>0, <1>2, Zenon DEF FlagTypes
<1>6. shown' \in BOOLEAN
  BY <1>0, <1>3, <1>5, Zenon DEF FlagTypes
<1>7. misread' \in BOOLEAN
  BY <1>0, <1>4, Zenon DEF FlagTypes
<1> QED  BY <1>0, <1>1, <1>5, <1>6, <1>7 DEF FlagTypes

\* Every step keeps the types, and of two calls one has begun while the other was on.
LEMMA TypeStep == TypeOK /\ OneAtATime /\ [Next]_vars => TypeOK' /\ OneAtATime'
<1> SUFFICES ASSUME TypeOK, OneAtATime, [Next]_vars PROVE TypeOK' /\ OneAtATime'
  OBVIOUS
<1>0. FileTypes /\ FlagTypes /\ CallTypes
  BY TypeSplit
<1>1. ASSUME NEW c \in Call, CallStep(c) PROVE TypeOK' /\ OneAtATime'
  <2>1. FileTypes' /\ FlagTypes' /\ CallTypes'
    BY <1>0, <1>1, StepShape, CallKeepsFiles, CallKeepsFlags DEF CallTypes
  <2>2. OneAtATime'
    BY <1>1, StepShape DEF OneAtATime
  <2> QED  BY <2>1, <2>2, TypeSplit
<1>2. ASSUME NEW c \in Call, Connect(c) \/ AutoConnect(c) PROVE TypeOK' /\ OneAtATime'
  <2>1. FileTypes' /\ FlagTypes' /\ CallTypes'
    BY <1>0, <1>2, BeginShape DEF FileTypes, FlagTypes, CallTypes, fileVars
  <2>2. OneAtATime'
    BY <1>2, BeginShape DEF OneAtATime, NobodyOn, On
  <2> QED  BY <2>1, <2>2, TypeSplit
<1>3. CASE Restart
  <2>1. FileTypes' /\ FlagTypes' /\ CallTypes'
    BY <1>0, <1>3, RestartShape DEF FileTypes, FlagTypes, CallTypes, fileVars
  <2>2. OneAtATime'
    BY <1>3, RestartShape DEF OneAtATime
  <2> QED  BY <2>1, <2>2, TypeSplit
<1>4. CASE PageStep
  <2>1. running' \in BOOLEAN
    BY <1>0, <1>4, PageShape DEF FlagTypes
  <2>2. shown' \in BOOLEAN
    <3>1. shown' \in {shown, running, TRUE, FALSE}
      BY <1>4, PageShape
    <3> QED  BY <1>0, <3>1, Zenon DEF FlagTypes
  <2>3. FileTypes' /\ FlagTypes' /\ CallTypes'
    BY <1>0, <1>4, <2>1, <2>2, PageShape DEF FileTypes, FlagTypes, CallTypes
  <2>4. OneAtATime'
    BY <1>4, PageShape DEF OneAtATime, On
  <2> QED  BY <2>3, <2>4, TypeSplit
<1> QED  BY <1>1, <1>2, <1>3, <1>4 DEF Next, PageStep

\* A login and a valid token change a call's copy in what they say and in the
\* routes made for it, and in nothing else.
LEMMA SavesItsSettings ==
  ASSUME TypeOK, NEW c \in Call, LogIn(c) \/ TokenValid(c)
  PROVE  /\ mine'[c].custom = mine[c].custom /\ mine'[c].key = mine[c].key
         /\ mine'[c].routes = mine'[c].login
<1>0. mine[c] \in Config /\ mine \in [Call -> Config] /\ logins \in Nat
  BY TypeParts
<1>1. CASE LogIn(c)
  <2>1. /\ mine' = [mine EXCEPT ![c] = LocalDefaults([mine[c] EXCEPT !.login = logins'])]
        /\ logins' \in Nat
    BY <1>0, <1>1 DEF LogIn, IssueLogin, Copy
  <2>2. PICK conf \in Config :
          /\ conf = [mine[c] EXCEPT !.login = logins']
          /\ conf.custom = mine[c].custom /\ conf.key = mine[c].key
    BY <1>0, <2>1, ConfigParts
  <2>3. mine'[c] = LocalDefaults(conf)
    BY <1>0, <2>1, <2>2
  <2>4. /\ LocalDefaults(conf).custom = conf.custom /\ LocalDefaults(conf).key = conf.key
        /\ LocalDefaults(conf).routes = LocalDefaults(conf).login
    BY RoutesParts
  <2>5. conf.custom = mine[c].custom /\ conf.key = mine[c].key
    BY <2>2
  <2> QED  BY <2>3, <2>4, <2>5
<1>2. CASE TokenValid(c)
  <2>1. mine'[c] = LocalDefaults(mine[c])
    BY <1>0, <1>2 DEF TokenValid, Copy
  <2> QED  BY <1>0, <2>1, RoutesParts
<1> QED  BY <1>1, <1>2

\* The key a call has found or made is all it changes in its copy.
LEMMA KeepsItsSettings ==
  ASSUME TypeOK, NEW c \in Call, FindKey(c) \/ WriteKey(c)
  PROVE  /\ mine'[c].custom = mine[c].custom
         /\ mine'[c].login = mine[c].login /\ mine'[c].routes = mine[c].routes
<1>1. mine[c] \in Config /\ mine \in [Call -> Config]
  BY TypeParts
<1>2. mine'[c] = [mine[c] EXCEPT !.key = keyFile] \/ mine'[c] = [mine[c] EXCEPT !.key = keys']
  BY <1>1 DEF FindKey, WriteKey, Copy
<1> QED  BY <1>1, <1>2 DEF Config

----------------------------------------------------------------------------
(* The key *)

\* Every step keeps the keys in order; WriteKey draws the next.
LEMMA KeysInOrderStep == TypeOK /\ OneAtATime /\ KeysInOrder /\ [Next]_vars => KeysInOrder'
<1> SUFFICES ASSUME TypeOK, OneAtATime, KeysInOrder, [Next]_vars PROVE KeysInOrder'
  OBVIOUS
<1> USE TypeParts, ConfigParts
<1>1. ASSUME NEW c \in Call, CallStep(c) PROVE KeysInOrder'
  <2>0. mine[c] \in Config /\ mine[c].key <= keys /\ \A b \in Call : b # c => mine'[b] = mine[b]
    BY <1>1, StepShape DEF KeysInOrder
  <2>1. CASE ReadConfig(c)
    <3>1. /\ mine' \in [Call -> Config] /\ mine'[c] = IF file = "full" THEN config ELSE Defaults
          /\ UNCHANGED <<fileVars, keys>>
      BY <2>1 DEF ReadConfig, Copy
    <3>2. mine'[c].key <= keys
      BY <3>1 DEF KeysInOrder, Absent
    <3> QED  BY <2>0, <3>1, <3>2 DEF KeysInOrder, fileVars
  <2>2. CASE LogIn(c) \/ TokenValid(c)
    <3>1. mine'[c].key = mine[c].key
      BY <2>0, <2>2, SavesItsSettings
    <3> QED  BY <2>0, <2>2, <3>1 DEF LogIn, TokenValid, KeysInOrder, fileVars
  <2>3. CASE FindKey(c)
    <3>1. mine'[c].key = keyFile
      BY <2>0, <2>3 DEF FindKey, Copy, Empty
    <3> QED  BY <2>0, <2>3, <3>1 DEF FindKey, KeysInOrder, fileVars
  <2>4. CASE WriteKey(c)
    <3>1. mine'[c].key = keys + 1 /\ keys' = keys + 1 /\ keyFile' = keys + 1 /\ config' = config
      BY <2>0, <2>4 DEF WriteKey, Copy
    <3>2. \A b \in Call : mine'[b].key <= keys + 1
      BY <2>0, <3>1 DEF KeysInOrder
    <3> QED  BY <3>1, <3>2 DEF KeysInOrder, Absent
  <2>5. CASE MakeKey(c) \/ EmptyConfig(c) \/ WriteConfig(c)
    BY <2>0, <2>5 DEF MakeKey, EmptyConfig, WriteConfig, KeysInOrder, Empty, Absent
  <2>6. CASE Unseal(c) \/ ReadFails(c) \/ GivesUp(c) \/ NothingToSeal(c) \/ KeyInvalid(c)
               \/ FindNoKey(c) \/ AlreadyRuns(c) \/ StartAgent(c)
    BY <2>0, <2>6 DEF Unseal, ReadFails, GivesUp, NothingToSeal, KeyInvalid, FindNoKey, AlreadyRuns,
                      StartAgent, Return, fileVars, KeysInOrder
  <2> QED  BY <1>1, <2>1, <2>2, <2>3, <2>4, <2>5, <2>6 DEF CallStep
<1>2. ASSUME NEW c \in Call, Connect(c) \/ AutoConnect(c) PROVE KeysInOrder'
  BY <1>2, BeginShape DEF KeysInOrder, fileVars
<1>3. CASE Restart
  BY <1>3, RestartShape DEF KeysInOrder, fileVars
<1>4. CASE PageStep
  BY <1>4, PageShape DEF KeysInOrder
<1> QED  BY <1>1, <1>2, <1>3, <1>4 DEF Next, PageStep

\* Every step keeps the key file and what is sealed with its key together: the
\* call that makes a key does it when nothing has been sealed yet.
LEMMA KeyInHandStep ==
  TypeOK /\ OneAtATime /\ KeysInOrder /\ KeyInHand /\ [Next]_vars => KeyInHand'
<1> SUFFICES ASSUME TypeOK, OneAtATime, KeysInOrder, KeyInHand, [Next]_vars, alone'
             PROVE  /\ config'.key # Absent => keyFile' = config'.key
                    /\ \A c \in Call : /\ pc'[c] = "makeKey" => keyFile' = Absent
                                       /\ pc'[c] = "writeKey" => keyFile' = Empty /\ keys' = 0
                                       /\ pc'[c] \in {"empty", "write"} => mine'[c].key \in {Absent, keyFile'}
  BY DEF KeyInHand, At
<1> USE TypeParts, ConfigParts
<1>1. ASSUME NEW c \in Call, CallStep(c)
      PROVE  /\ config'.key # Absent => keyFile' = config'.key
             /\ \A b \in Call : /\ pc'[b] = "makeKey" => keyFile' = Absent
                                /\ pc'[b] = "writeKey" => keyFile' = Empty /\ keys' = 0
                                /\ pc'[b] \in {"empty", "write"} => mine'[b].key \in {Absent, keyFile'}
  <2>1. /\ alone
        /\ config.key # Absent => keyFile = config.key
        /\ pc[c] = "makeKey" => keyFile = Absent
        /\ pc[c] = "writeKey" => keyFile = Empty /\ keys = 0
        /\ pc[c] \in {"empty", "write"} => mine[c].key \in {Absent, keyFile}
    BY <1>1, StepShape DEF KeyInHand, At
  <2>2. \A b \in Call : b # c => pc'[b] \in {"idle", "over"}
    BY <1>1, <2>1, StepShape DEF On
  <2>3. mine[c] \in Config
    OBVIOUS
  <2> SUFFICES /\ config'.key # Absent => keyFile' = config'.key
               /\ pc'[c] = "makeKey" => keyFile' = Absent
               /\ pc'[c] = "writeKey" => keyFile' = Empty /\ keys' = 0
               /\ pc'[c] \in {"empty", "write"} => mine'[c].key \in {Absent, keyFile'}
    BY <2>2
  <2>4. CASE ReadConfig(c) \/ Unseal(c) \/ ReadFails(c)
    <3>1. UNCHANGED fileVars /\ pc'[c] \in {"unseal", "reunseal", "login", "over"}
      BY <2>4 DEF ReadConfig, Unseal, ReadFails, Return, ReadDone, Goto
    <3> QED  BY <2>1, <3>1 DEF fileVars
  <2>5. CASE LogIn(c) \/ TokenValid(c) \/ GivesUp(c) \/ KeyInvalid(c) \/ AlreadyRuns(c) \/ StartAgent(c)
    <3>1. UNCHANGED fileVars /\ pc'[c] \in {"findKey", "reread", "over"}
      BY <2>5 DEF LogIn, TokenValid, GivesUp, KeyInvalid, AlreadyRuns, StartAgent, Return, Goto
    <3> QED  BY <2>1, <3>1 DEF fileVars
  <2>6. CASE FindKey(c)
    <3>1. UNCHANGED fileVars /\ pc'[c] = "empty" /\ mine'[c].key = keyFile
      BY <2>3, <2>6 DEF FindKey, Goto, Copy, Empty
    <3> QED  BY <2>1, <3>1 DEF fileVars
  <2>7. CASE FindNoKey(c)
    <3>1. UNCHANGED fileVars /\ pc'[c] = "makeKey" /\ keyFile = Absent
      BY <2>7 DEF FindNoKey, Goto
    <3> QED  BY <2>1, <3>1 DEF fileVars
  <2>8. CASE MakeKey(c)
    <3>1. /\ keyFile = Absent /\ config' = config /\ keys' = keys /\ keyFile' = Empty
          /\ pc'[c] = "writeKey"
      BY <2>1, <2>8 DEF MakeKey, Goto, At
    <3>2. config.key = Absent /\ keys = 0
      BY <3>1 DEF KeysInOrder, Absent
    <3> QED  BY <3>1, <3>2
  <2>9. CASE WriteKey(c)
    <3>1. /\ keys = 0 /\ config' = config /\ pc'[c] = "empty"
          /\ mine'[c].key = keyFile'
      BY <2>1, <2>3, <2>9 DEF WriteKey, Goto, Copy, At
    <3>2. config.key = Absent
      BY <3>1 DEF KeysInOrder, Absent
    <3> QED  BY <3>1, <3>2
  <2>10. CASE EmptyConfig(c)
    <3>1. UNCHANGED <<config, keyFile, mine>> /\ pc[c] = "empty" /\ pc'[c] = "write"
      BY <2>10 DEF EmptyConfig, Goto, At
    <3> QED  BY <2>1, <3>1
  <2>11. CASE WriteConfig(c)
    <3>1. config' = mine[c] /\ keyFile' = keyFile /\ pc[c] = "write" /\ pc'[c] = "start"
      BY <2>11 DEF WriteConfig, Goto, At
    <3> QED  BY <2>1, <3>1
  <2>12. CASE NothingToSeal(c)
    <3>1. UNCHANGED fileVars /\ pc'[c] = "empty" /\ mine'[c].key = Absent
      BY <2>12 DEF NothingToSeal, Goto
    <3> QED  BY <2>1, <3>1 DEF fileVars
  <2> QED  BY <1>1, <2>4, <2>5, <2>6, <2>7, <2>8, <2>9, <2>10, <2>11, <2>12 DEF CallStep
<1>2. ASSUME NEW c \in Call, Connect(c) \/ AutoConnect(c)
      PROVE  /\ config'.key # Absent => keyFile' = config'.key
             /\ \A b \in Call : /\ pc'[b] = "makeKey" => keyFile' = Absent
                                /\ pc'[b] = "writeKey" => keyFile' = Empty /\ keys' = 0
                                /\ pc'[b] \in {"empty", "write"} => mine'[b].key \in {Absent, keyFile'}
  BY <1>2, BeginShape DEF KeyInHand, At, fileVars
<1>3. CASE Restart
  BY <1>3, RestartShape DEF KeyInHand, At, fileVars, On
<1>4. CASE PageStep
  BY <1>4, PageShape DEF KeyInHand, At
<1> QED  BY <1>1, <1>2, <1>3, <1>4 DEF Next, PageStep

----------------------------------------------------------------------------
(* The settings and the run *)

\* Every step keeps the settings in the file and in the hands of those who write it.
LEMMA SettingsInHandStep ==
  TypeOK /\ OneAtATime /\ SettingsInHand /\ [Next]_vars => SettingsInHand'
<1> DEFINE Holding == {"unseal", "login", "findKey", "makeKey", "writeKey", "empty", "write"}
<1> SUFFICES ASSUME TypeOK, OneAtATime, SettingsInHand, [Next]_vars, ~misread'
             PROVE  config'.custom /\ \A c \in Call : (pc'[c] \in Holding => mine'[c].custom)
  BY DEF SettingsInHand
<1> USE TypeParts, ConfigParts
<1>1. ASSUME NEW c \in Call, CallStep(c)
      PROVE  config'.custom /\ \A b \in Call : (pc'[b] \in Holding => mine'[b].custom)
  <2>1. ~misread
    BY <1>1 DEF CallStep, ReadConfig, Unseal, ReadFails, LogIn, TokenValid, GivesUp,
                NothingToSeal, FindKey, KeyInvalid, FindNoKey, MakeKey, WriteKey, EmptyConfig, WriteConfig, AlreadyRuns,
                StartAgent
  <2>2. /\ config.custom
        /\ pc[c] \in Holding => mine[c].custom
        /\ \A b \in Call : b # c => (pc'[b] \in Holding => mine'[b].custom)
    BY <1>1, <2>1, StepShape DEF SettingsInHand
  <2>3. mine[c] \in Config
    OBVIOUS
  <2> SUFFICES config'.custom /\ (pc'[c] \in Holding => mine'[c].custom)
    BY <2>2
  <2>4. CASE ReadConfig(c)
    BY <2>2, <2>4 DEF ReadConfig, Copy, fileVars
  <2>5. CASE Unseal(c)
    BY <2>2, <2>5 DEF Unseal, Unsealing, ReadDone, Goto, Started, fileVars
  <2>6. CASE ReadFails(c) \/ GivesUp(c) \/ KeyInvalid(c) \/ AlreadyRuns(c) \/ StartAgent(c)
    BY <2>2, <2>6 DEF ReadFails, GivesUp, KeyInvalid, AlreadyRuns, StartAgent, Return, Goto, fileVars
  <2>7. CASE LogIn(c) \/ TokenValid(c)
    <3>1. config' = config /\ pc[c] \in Holding
      BY <2>7 DEF LogIn, TokenValid, fileVars, At
    <3> QED  BY <2>2, <2>7, <3>1, SavesItsSettings
  <2>8. CASE FindKey(c) \/ WriteKey(c)
    <3>1. config' = config /\ pc[c] \in Holding
      BY <2>8 DEF FindKey, WriteKey, fileVars, At
    <3> QED  BY <2>2, <2>8, <3>1, KeepsItsSettings
  <2>10. CASE NothingToSeal(c) \/ FindNoKey(c) \/ MakeKey(c) \/ EmptyConfig(c)
    BY <2>2, <2>10 DEF NothingToSeal, FindNoKey, MakeKey, EmptyConfig, At, fileVars
  <2>9. CASE WriteConfig(c)
    BY <2>2, <2>9 DEF WriteConfig, At, Goto
  <2> QED  BY <1>1, <2>4, <2>5, <2>6, <2>7, <2>8, <2>9, <2>10 DEF CallStep
<1>2. ASSUME NEW c \in Call, Connect(c) \/ AutoConnect(c)
      PROVE  config'.custom /\ \A b \in Call : (pc'[b] \in Holding => mine'[b].custom)
  BY <1>2, BeginShape DEF SettingsInHand, fileVars
<1>3. CASE Restart
  BY <1>3, RestartShape DEF SettingsInHand, fileVars
<1>4. CASE PageStep
  BY <1>4, PageShape DEF SettingsInHand
<1> QED  BY <1>1, <1>2, <1>3, <1>4 DEF Next, PageStep

\* Every step keeps the empty file in the hands of one call, while there is one
\* at a time and the process has not ended.
LEMMA EmptyForAWhileStep ==
  TypeOK /\ OneAtATime /\ EmptyForAWhile /\ [Next]_vars => EmptyForAWhile'
<1> DEFINE Writing == \E b \in Call : pc[b] = "write"
<1> SUFFICES ASSUME TypeOK, OneAtATime, EmptyForAWhile, [Next]_vars, alone', crashes' = 0
             PROVE  /\ ~misread'
                    /\ Writing' => file' = "empty"
                    /\ ~Writing' => file' = "full"
  BY DEF EmptyForAWhile, At
<1> USE TypeParts
<1>1. ASSUME NEW c \in Call, CallStep(c)
      PROVE  /\ ~misread'
             /\ Writing' => file' = "empty"
             /\ ~Writing' => file' = "full"
  <2>1. /\ alone /\ crashes = 0
        /\ \A b \in Call : b # c => pc[b] # "write" /\ pc'[b] # "write"
    BY <1>1, StepShape DEF On
  <2>2. /\ ~misread
        /\ pc[c] = "write" => file = "empty"
        /\ pc[c] # "write" => file = "full"
    BY <2>1 DEF EmptyForAWhile, At
  <2> SUFFICES /\ ~misread'
               /\ pc'[c] = "write" => file' = "empty"
               /\ pc'[c] # "write" => file' = "full"
    BY <2>1
  <2>3. CASE ReadConfig(c) \/ ReadFails(c) \/ Unseal(c)
    <3>1. /\ pc[c] # "write" /\ pc'[c] # "write" /\ file' = file
          /\ misread' = misread \/ misread' = (misread \/ file = "empty")
      BY <2>3 DEF ReadConfig, ReadDone, ReadFails, Return, Unseal, Reading, Unsealing, Goto, fileVars
    <3>2. file = "full"
      BY <2>2, <3>1
    <3>3. file # "empty"
      BY <3>2
    <3>4. ~misread'
      BY <2>2, <3>1, <3>3, Zenon
    <3> QED  BY <3>1, <3>2, <3>4
  <2>4. CASE LogIn(c) \/ TokenValid(c) \/ GivesUp(c) \/ NothingToSeal(c) \/ FindKey(c) \/ KeyInvalid(c)
               \/ FindNoKey(c) \/ MakeKey(c) \/ WriteKey(c) \/ AlreadyRuns(c) \/ StartAgent(c)
    <3>1. pc[c] # "write" /\ pc'[c] # "write" /\ file' = file /\ misread' = misread
      BY <2>4 DEF LogIn, TokenValid, GivesUp, NothingToSeal, FindKey, KeyInvalid, FindNoKey, MakeKey,
                  WriteKey, AlreadyRuns, StartAgent, Return, At, Goto, fileVars
    <3> QED  BY <2>2, <3>1
  <2>5. CASE EmptyConfig(c)
    <3>1. pc'[c] = "write" /\ file' = "empty" /\ misread' = misread
      BY <2>5 DEF EmptyConfig, Goto
    <3> QED  BY <2>2, <3>1
  <2>6. CASE WriteConfig(c)
    <3>1. pc[c] = "write" /\ pc'[c] = "start" /\ misread' = misread
      BY <2>6 DEF WriteConfig, At, Goto
    <3>2. file' = "full"
      BY <2>2, <2>6, <3>1 DEF WriteConfig
    <3> QED  BY <2>2, <3>1, <3>2
  <2> QED  BY <1>1, <2>3, <2>4, <2>5, <2>6 DEF CallStep
<1>2. ASSUME NEW c \in Call, Connect(c) \/ AutoConnect(c)
      PROVE  /\ ~misread'
             /\ Writing' => file' = "empty"
             /\ ~Writing' => file' = "full"
  <2>1. alone /\ crashes = 0 /\ NobodyOn /\ UNCHANGED <<file, misread>>
    BY <1>2, BeginShape DEF fileVars
  <2>2. ~Writing /\ ~Writing'
    BY <1>2, <2>1, BeginShape DEF NobodyOn, On
  <2> QED  BY <2>1, <2>2 DEF EmptyForAWhile, At
<1>3. ~Restart
  BY RestartShape
<1>4. CASE PageStep
  <2>1. /\ UNCHANGED <<file, pc, alone, crashes>> /\ misread' = misread
    BY <1>4, PageShape
  <2>2. ~misread /\ (Writing => file = "empty") /\ (~Writing => file = "full")
    <3>1. alone /\ crashes = 0
      BY <2>1
    <3> QED  BY <3>1 DEF EmptyForAWhile, At
  <2> QED  BY <2>1, <2>2
<1> QED  BY <1>1, <1>2, <1>3, <1>4 DEF Next, PageStep

\* Every step keeps the route commands those of the login they are stored with:
\* whatever is saved went through applyLocalDefaults.
LEMMA RoutesInHandStep ==
  TypeOK /\ OneAtATime /\ RoutesInHand /\ [Next]_vars => RoutesInHand'
<1> DEFINE Holding == {"findKey", "makeKey", "writeKey", "empty", "write"}
           Saved == {"start", "reread", "reunseal"}
           Kept(b) == /\ pc'[b] \in Holding => mine'[b].routes = mine'[b].login
                      /\ pc'[b] \in Saved => config'.routes = config'.login
<1> SUFFICES ASSUME TypeOK, OneAtATime, RoutesInHand, [Next]_vars
             PROVE  (\A c \in Call : Kept(c)) /\ (running' => config'.routes = config'.login)
  BY DEF RoutesInHand, Started, At
<1> USE TypeParts
<1>0. /\ \A b \in Call :
           /\ pc[b] \in Holding => mine[b].routes = mine[b].login
           /\ pc[b] \in Saved => config.routes = config.login
      /\ running => config.routes = config.login
  BY DEF RoutesInHand, Started, At
<1>1. ASSUME NEW c \in Call, CallStep(c)
      PROVE  (\A b \in Call : Kept(b)) /\ (running' => config'.routes = config'.login)
  <2>1. \A b \in Call : b # c => pc'[b] = pc[b] /\ mine'[b] = mine[b]
    BY <1>1, StepShape
  <2>2. running' => running \/ pc[c] = "start"
    <3>1. running' = running \/ running' = (running /\ ~Started(c)) \/ pc[c] = "start"
      BY <1>1 DEF CallStep, ReadConfig, Unseal, ReadFails, LogIn, TokenValid, GivesUp, NothingToSeal,
                  FindKey, KeyInvalid, FindNoKey, MakeKey, WriteKey, EmptyConfig, WriteConfig,
                  AlreadyRuns, StartAgent, At
    <3> QED  BY <3>1, Zenon
  <2>3. CASE WriteConfig(c)
    <3>1. /\ config' = mine[c] /\ mine' = mine
          /\ pc[c] = "write" /\ pc'[c] = "start"
      BY <2>3 DEF WriteConfig, At, Goto
    <3>2. config'.routes = config'.login
      BY <1>0, <3>1
    <3> QED  BY <1>0, <2>1, <3>1, <3>2
  <2>4. CASE ~WriteConfig(c)
    <3>1. config' = config
      BY <1>1, <2>4
      DEF CallStep, ReadConfig, Unseal, ReadFails, LogIn, TokenValid, GivesUp, NothingToSeal, FindKey,
          KeyInvalid, FindNoKey, MakeKey, WriteKey, EmptyConfig, AlreadyRuns, StartAgent, Return, fileVars
    <3>2. pc'[c] \in Saved => pc[c] \in Saved
      BY <1>1, <2>4
      DEF CallStep, ReadConfig, Unseal, ReadFails, LogIn, TokenValid, GivesUp, NothingToSeal, FindKey,
          KeyInvalid, FindNoKey, MakeKey, WriteKey, EmptyConfig, AlreadyRuns, StartAgent, Return,
          ReadDone, Reading, Unsealing, Started, Goto, At
    <3>3. pc'[c] \in Holding => mine'[c].routes = mine'[c].login
      <4>1. CASE LogIn(c) \/ TokenValid(c)
        BY <4>1, SavesItsSettings
      <4>2. CASE FindKey(c) \/ WriteKey(c)
        <5>1. pc[c] \in Holding
          BY <4>2 DEF FindKey, WriteKey, At
        <5> QED  BY <1>0, <4>2, <5>1, KeepsItsSettings
      <4>3. CASE NothingToSeal(c) \/ FindNoKey(c) \/ MakeKey(c) \/ EmptyConfig(c)
        <5>1. mine' = mine /\ pc[c] \in Holding
          BY <4>3 DEF NothingToSeal, FindNoKey, MakeKey, EmptyConfig, At
        <5> QED  BY <1>0, <5>1
      <4>4. CASE ReadConfig(c) \/ Unseal(c) \/ ReadFails(c) \/ GivesUp(c) \/ KeyInvalid(c)
                   \/ AlreadyRuns(c) \/ StartAgent(c)
        BY <4>4 DEF ReadConfig, Unseal, ReadFails, GivesUp, KeyInvalid, AlreadyRuns, StartAgent,
                    Return, ReadDone, Goto
      <4> QED  BY <1>1, <2>4, <4>1, <4>2, <4>3, <4>4 DEF CallStep
    <3>4. running' => config'.routes = config'.login
      BY <1>0, <2>2, <3>1
    <3> QED  BY <1>0, <2>1, <3>1, <3>2, <3>3, <3>4
  <2> QED  BY <2>3, <2>4
<1>2. ASSUME NEW c \in Call, Connect(c) \/ AutoConnect(c)
      PROVE  (\A b \in Call : Kept(b)) /\ (running' => config'.routes = config'.login)
  <2>1. /\ pc'[c] = "read" /\ \A b \in Call : b # c => pc'[b] = pc[b]
        /\ config' = config /\ mine' = mine /\ running' = running
    BY <1>2, BeginShape DEF fileVars
  <2>2. running' => running
    BY <2>1, Zenon
  <2> QED  BY <1>0, <2>1, <2>2
<1>3. CASE Restart
  <2>1. /\ \A c \in Call : pc'[c] \in {pc[c], "over"}
        /\ config' = config /\ mine' = mine /\ ~running'
    BY <1>3, RestartShape DEF fileVars
  <2> QED  BY <1>0, <2>1
<1>4. CASE PageStep
  <2>1. /\ config' = config /\ mine' = mine /\ pc' = pc
        /\ running' = running \/ running' = FALSE
    BY <1>4, PageShape
  <2>2. running' => running
    BY <2>1, Zenon
  <2> QED  BY <1>0, <2>1, <2>2
<1> QED  BY <1>1, <1>2, <1>3, <1>4 DEF Next, PageStep

\* Every step keeps the page and the run together: a call begins when nothing
\* runs, and what it starts reads what it has stored.
LEMMA StartsFromFileStep ==
  TypeOK /\ OneAtATime /\ StartsFromFile /\ [Next]_vars => StartsFromFile'
<1> SUFFICES ASSUME TypeOK, OneAtATime, StartsFromFile, [Next]_vars, alone', poll' # "late"
             PROVE  /\ running' /\ NobodyOn' => shown' /\ used' = config'.login
                    /\ \A c \in Call :
                         /\ On(c)' /\ ~Started(c)' => ~running'
                         /\ Started(c)' \/ pc'[c] = "start" => file' # "empty"
                         /\ pc'[c] = "reunseal" => mine'[c] = config'
  BY DEF StartsFromFile, At
<1> USE TypeParts
<1>1. ASSUME NEW c \in Call, CallStep(c)
      PROVE  /\ running' /\ NobodyOn' => shown' /\ used' = config'.login
             /\ \A b \in Call :
                  /\ On(b)' /\ ~Started(b)' => ~running'
                  /\ Started(b)' \/ pc'[b] = "start" => file' # "empty"
                  /\ pc'[b] = "reunseal" => mine'[b] = config'
  <2>1. /\ alone /\ On(c)
        /\ pc[c] \notin {"reread", "reunseal"} => ~running
        /\ pc[c] \in {"start", "reread", "reunseal"} => file # "empty"
        /\ pc[c] = "reunseal" => mine[c] = config
    BY <1>1, StepShape DEF StartsFromFile, Started, At
  <2>2. \A b \in Call : b # c => pc'[b] \in {"idle", "over"}
    BY <1>1, <2>1, StepShape DEF On
  <2> SUFFICES /\ running' /\ pc'[c] \in {"idle", "over"} => shown' /\ used' = config'.login
               /\ pc'[c] \notin {"idle", "over", "reread", "reunseal"} => ~running'
               /\ pc'[c] \in {"start", "reread", "reunseal"} => file' # "empty"
               /\ pc'[c] = "reunseal" => mine'[c] = config'
    BY <2>2 DEF NobodyOn, On, Started
  <2>3. CASE ReadConfig(c)
    <3>1. CASE pc[c] = "read"
      <4>1. running' = running /\ pc'[c] \in {"unseal", "login"}
        BY <2>3, <3>1 DEF ReadConfig, ReadDone, Started, Goto
      <4> QED  BY <2>1, <3>1, <4>1
    <3>2. CASE pc[c] = "reread"
      <4>1. file = "full"
        BY <2>1, <2>3, <3>2 DEF ReadConfig
      <4>2. /\ running' = running /\ UNCHANGED fileVars /\ mine'[c] = config
            /\ \/ pc'[c] = "reunseal"
               \/ pc'[c] = "over" /\ used' = config.login /\ shown' = running
        BY <2>3, <3>2, <4>1 DEF ReadConfig, ReadDone, Started, Goto, Copy
      <4> QED  BY <4>1, <4>2 DEF fileVars
    <3> QED  BY <2>3, <3>1, <3>2 DEF ReadConfig, Reading
  <2>4. CASE Unseal(c)
    <3>1. CASE pc[c] = "unseal"
      <4>1. running' = running /\ pc'[c] = "login"
        BY <2>4, <3>1 DEF Unseal, ReadDone, Started, Goto
      <4> QED  BY <2>1, <3>1, <4>1
    <3>2. CASE pc[c] = "reunseal"
      <4>1. /\ running' = running /\ UNCHANGED fileVars
            /\ pc'[c] = "over" /\ used' = mine[c].login /\ shown' = running
        BY <2>4, <3>2 DEF Unseal, ReadDone, Started, Goto
      <4> QED  BY <2>1, <3>2, <4>1 DEF fileVars
    <3> QED  BY <2>4, <3>1, <3>2 DEF Unseal, Unsealing
  <2>5. CASE ReadFails(c)
    <3>1. pc'[c] = "over" /\ running' = (running /\ ~Started(c))
      BY <2>5 DEF ReadFails, Return, Goto
    <3>2. ~running'
      BY <2>1, <3>1, Zenon DEF Started
    <3> QED  BY <3>1, <3>2
  <2>6. CASE LogIn(c) \/ TokenValid(c) \/ NothingToSeal(c) \/ FindKey(c) \/ FindNoKey(c)
               \/ MakeKey(c) \/ WriteKey(c) \/ EmptyConfig(c)
    <3>1. /\ running' = running /\ pc[c] \notin {"reread", "reunseal"}
          /\ pc'[c] \in {"findKey", "empty", "makeKey", "writeKey", "write"}
      BY <2>6 DEF LogIn, TokenValid, NothingToSeal, FindKey, FindNoKey, MakeKey, WriteKey, EmptyConfig, At, Goto
    <3> QED  BY <2>1, <3>1
  <2>7. CASE GivesUp(c) \/ KeyInvalid(c) \/ AlreadyRuns(c)
    <3>1. /\ running' = running /\ pc[c] \notin {"reread", "reunseal"} /\ pc'[c] = "over"
      BY <2>7 DEF GivesUp, KeyInvalid, AlreadyRuns, At, Return, Goto
    <3> QED  BY <2>1, <3>1
  <2>8. CASE WriteConfig(c)
    <3>1. /\ running' = running /\ pc[c] = "write" /\ pc'[c] = "start"
          /\ file' \in {"full", "mixed"}
      BY <2>8 DEF WriteConfig, At, Goto
    <3> QED  BY <2>1, <3>1
  <2>9. CASE StartAgent(c)
    <3>1. UNCHANGED fileVars /\ pc[c] = "start" /\ pc'[c] = "reread"
      BY <2>9 DEF StartAgent, At, Goto
    <3> QED  BY <2>1, <3>1 DEF fileVars
  <2> QED  BY <1>1, <2>3, <2>4, <2>5, <2>6, <2>7, <2>8, <2>9 DEF CallStep
<1>2. ASSUME NEW c \in Call, Connect(c) \/ AutoConnect(c)
      PROVE  /\ running' /\ NobodyOn' => shown' /\ used' = config'.login
             /\ \A b \in Call :
                  /\ On(b)' /\ ~Started(b)' => ~running'
                  /\ Started(b)' \/ pc'[b] = "start" => file' # "empty"
                  /\ pc'[b] = "reunseal" => mine'[b] = config'
  <2>1. /\ alone /\ NobodyOn /\ ~shown /\ pc'[c] = "read"
        /\ \A b \in Call : b # c => pc'[b] = pc[b]
        /\ poll # "late" /\ UNCHANGED <<fileVars, running, mine>>
    BY <1>2, BeginShape
  <2>2. ~running
    BY <2>1 DEF StartsFromFile
  <2>3. \A b \in Call : b # c => pc'[b] \in {"idle", "over"}
    BY <2>1 DEF NobodyOn, On
  <2> QED  BY <2>1, <2>2, <2>3 DEF On, Started, NobodyOn
<1>3. CASE Restart
  <2>1. ~running' /\ \A c \in Call : pc'[c] \in {"idle", "over"}
    BY <1>3, RestartShape DEF On
  <2> QED  BY <2>1 DEF On, Started
<1>4. CASE PageStep
  <2>1. /\ UNCHANGED <<file, config, used, pc, mine>> /\ alone /\ poll # "late"
        /\ running' = running \/ (running' = FALSE /\ shown' = shown)
        /\ shown' = shown \/ shown' = running
    BY <1>4, PageShape
  <2>2. running' => running
    BY <2>1, Zenon
  <2>3. running /\ NobodyOn => shown /\ used = config.login
    BY <2>1 DEF StartsFromFile
  <2>4. running' /\ NobodyOn => shown'
    <3>1. shown' = shown \/ shown' = running
      BY <2>1
    <3> QED  BY <2>2, <2>3, <3>1, Zenon
  <2>5. \A c \in Call :
          /\ On(c) /\ ~Started(c) => ~running
          /\ Started(c) \/ pc[c] = "start" => file # "empty"
          /\ pc[c] = "reunseal" => mine[c] = config
    BY <2>1 DEF StartsFromFile, At
  <2>6. NobodyOn' <=> NobodyOn
    BY <2>1 DEF NobodyOn, On
  <2> QED  BY <2>1, <2>2, <2>3, <2>4, <2>5, <2>6 DEF On, Started
<1> QED  BY <1>1, <1>2, <1>3, <1>4 DEF Next, PageStep

----------------------------------------------------------------------------
(* The theorems *)

\* The invariant that carries the others: what the one call that is on, if the
\* page keeps to one, has in hand of the key, the file and the run.
THEOREM Invariance == Spec => []IInv
<1>1. Init => IInv
  <2> SUFFICES ASSUME Init PROVE IInv
    OBVIOUS
  <2>1. PICK n \in {0, 1}, k \in {0, 1} :
          /\ config = [custom |-> TRUE, login |-> n, routes |-> ByHand, key |-> k]
          /\ keyFile = k /\ logins = n /\ keys = k
    BY DEF Init
  <2>2. /\ config \in Config /\ config.key = k /\ config.custom = TRUE
    BY <2>1 DEF Config
  <2>3. /\ \A c \in Call : pc[c] = "idle" /\ mine[c] = Defaults
        /\ pc \in [Call -> CallPC] /\ kind \in [Call -> {"connect", "auto"}]
        /\ mine \in [Call -> Config]
    BY ConfigParts DEF Init, CallPC
  <2>4. /\ file = "full" /\ booted = FALSE /\ shown = FALSE /\ running = FALSE /\ used = 0
        /\ crashes = 0 /\ alone = TRUE /\ misread = FALSE /\ poll = "none"
    BY DEF Init
  <2>5. FlagTypes
    BY <2>4, Zenon DEF FlagTypes
  <2>6. TypeOK
    BY <2>1, <2>2, <2>3, <2>4, <2>5, TypeSplit DEF FileTypes, CallTypes
  <2>7. OneAtATime /\ EmptyForAWhile
    BY <2>3, <2>4 DEF OneAtATime, EmptyForAWhile, On, At
  <2>8. KeysInOrder
    BY <2>1, <2>2, <2>3, ConfigParts DEF KeysInOrder, Absent
  <2>9. KeyInHand
    BY <2>1, <2>2, <2>3 DEF KeyInHand, At
  <2>10. SettingsInHand
    BY <2>2, <2>3 DEF SettingsInHand
  <2>11. StartsFromFile
    BY <2>3, <2>4 DEF StartsFromFile, On, Started, At
  <2>12. RoutesInHand
    BY <2>3, <2>4 DEF RoutesInHand, Started, At
  <2> QED  BY <2>6, <2>7, <2>8, <2>9, <2>10, <2>11, <2>12 DEF IInv
<1>2. IInv /\ [Next]_vars => IInv'
  BY TypeStep, KeysInOrderStep, KeyInHandStep, SettingsInHandStep, EmptyForAWhileStep,
     RoutesInHandStep, StartsFromFileStep DEF IInv
<1> QED  BY <1>1, <1>2, PTL DEF Spec

\* The files, the page and the calls have the values they should.
THEOREM TypeCorrect == Spec => []TypeOK
<1>1. IInv => TypeOK
  BY DEF IInv
<1> QED  BY <1>1, Invariance, PTL

\* The password in the configuration can be decrypted with the key on disk, if
\* calls never overlapped or at most one key was drawn and written.
THEOREM PasswordReadable == Spec => []SealedIsReadable
<1>1. IInv => SealedIsReadable
  <2> SUFFICES ASSUME IInv, alone \/ (keys <= 1 /\ keyFile # Empty), config.key # Absent
               PROVE  keyFile = config.key
    BY DEF SealedIsReadable
  <2>1. CASE alone
    BY <2>1 DEF IInv, KeyInHand
  <2>2. CASE keys <= 1 /\ keyFile # Empty
    <3>1. keyFile \in Nat /\ keys \in Nat /\ config.key \in Nat /\ config.key # 0
      BY <2>2, TypeParts, ConfigParts DEF IInv, Absent
    <3>2. keyFile <= keys /\ config.key <= keys /\ (keyFile = 0 => keys = 0)
      BY DEF IInv, KeysInOrder, Absent
    <3> QED  BY <2>2, <3>1, <3>2
  <2> QED  BY <2>1, <2>2
<1> QED  BY <1>1, Invariance, PTL

\* The settings that the user has put into the file, and that neither a login nor
\* applyLocalDefaults sets, are there whenever no call writes it, with one call at
\* a time and no end of the process; and in every file that can be read, as long
\* as no call has read an emptied one.
THEOREM SettingsSurvive == Spec => []SettingsKept
<1>1. IInv => SettingsKept
  <2> SUFFICES ASSUME IInv PROVE SettingsKept
    OBVIOUS
  <2>1. ~misread => config.custom
    BY DEF IInv, SettingsInHand
  <2>2. (alone /\ crashes = 0) => ~misread /\ (file = "full" \/ \E c \in Call : At(c, "write"))
    BY DEF IInv, EmptyForAWhile
  <2> QED  BY <2>1, <2>2 DEF SettingsKept
<1> QED  BY <1>1, Invariance, PTL

\* When the page is at rest, never had two calls on and never showed an outdated
\* status, an agent that runs uses the login that is stored, and its routes.
THEOREM RunUsesStored == Spec => []RunIsCurrent
<1>1. IInv => RunIsCurrent
  BY DEF IInv, StartsFromFile, RoutesInHand, RunIsCurrent, NobodyOn
<1> QED  BY <1>1, Invariance, PTL
====
