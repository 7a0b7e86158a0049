------------------------------ MODULE SafeMap ------------------------------
(***************************************************************************)
(* shared.SafeMap (internal/shared/errgroup.go): a Go map behind a         *)
(* sync.RWMutex.  The lock is modelled at the level at which it can block: *)
(* Lock first takes the writers' mutex and announces itself, which stops   *)
(* new readers, then waits for the readers inside to leave; Unlock lets    *)
(* the readers that queued up meanwhile in before the next writer.         *)
(*                                                                         *)
(* Every Range of this program (session.go failAllPending, closeAllStreams *)
(* and server.go closeAll) calls Delete on the same map from its callback, *)
(* so a Range here does that for each entry it visits.                     *)
(***************************************************************************)
EXTENDS FiniteSets

CONSTANTS Proc,   \* the goroutines that share the map
          Key,    \* the keys
          Val,    \* the values
          None    \* no value, no writer, no call

VARIABLES m,          \* the map: the value under each key, or None
          readers,    \* goroutines that hold the read lock
          announced,  \* the goroutine inside Lock .. Unlock, or None
          pc,         \* where each goroutine is
          call,       \* the operation it executes, or None
          todo,       \* keys its Range has still to visit
          inner,      \* the key its Range callback deletes, or None
          value,      \* the v that its Get has read from the map
          answer      \* what its last Get returned

vars == <<m, readers, announced, pc, call, todo, inner, value, answer>>

Operation == [op : {"Get", "Delete"}, key : Key] \cup
             [op : {"Set"}, key : Key, val : Val] \cup
             [op : {"Range"}]

ASSUME NoneAssumption == None \notin Val \cup Proc \cup Key \cup Operation

PC == {"idle", "rlock", "rwait", "read", "got", "lock", "announced", "write"}

TypeOK == /\ m \in [Key -> Val \cup {None}]
          /\ readers \in SUBSET Proc
          /\ announced \in Proc \cup {None}
          /\ pc \in [Proc -> PC]
          /\ call \in [Proc -> Operation \cup {None}]
          /\ todo \in [Proc -> SUBSET Key]
          /\ inner \in [Proc -> Key \cup {None}]
          /\ value \in [Proc -> Val \cup {None}]
          /\ answer \in [Proc -> Val \cup {None}]

Init == /\ m = [k \in Key |-> None]
        /\ readers = {}
        /\ announced = None
        /\ pc = [p \in Proc |-> "idle"]
        /\ call = [p \in Proc |-> None]
        /\ todo = [p \in Proc |-> {}]
        /\ inner = [p \in Proc |-> None]
        /\ value = [p \in Proc |-> None]
        /\ answer = [p \in Proc |-> None]

Present == {k \in Key : m[k] # None}

----------------------------------------------------------------------------
(* Calls.  Get and Range take the read lock, Set and Delete the write lock. *)

Call(p, o) == /\ pc[p] = "idle"
              /\ call' = [call EXCEPT ![p] = o]
              /\ pc' = [pc EXCEPT ![p] = IF o.op \in {"Get", "Range"}
                                         THEN "rlock" ELSE "lock"]
              /\ UNCHANGED <<m, readers, announced, todo, inner, value, answer>>

\* RLock finds no writer announced.  A Range copies nothing: `todo` is the
\* set of entries its iteration has not yet reached.
RLock(p) == /\ pc[p] = "rlock"
            /\ announced = None
            /\ readers' = readers \cup {p}
            /\ pc' = [pc EXCEPT ![p] = "read"]
            /\ todo' = [todo EXCEPT ![p] = Present]
            /\ UNCHANGED <<m, announced, call, inner, value, answer>>

\* RLock finds a writer announced and queues behind it.
RLockWait(p) == /\ pc[p] = "rlock"
                /\ announced # None
                /\ pc' = [pc EXCEPT ![p] = "rwait"]
                /\ UNCHANGED <<m, readers, announced, call, todo, inner, value, answer>>

\* The body of Get, then its deferred RUnlock.
GetRead(p) == /\ pc[p] = "read" /\ call[p].op = "Get"
              /\ value' = [value EXCEPT ![p] = m[call[p].key]]
              /\ pc' = [pc EXCEPT ![p] = "got"]
              /\ UNCHANGED <<m, readers, announced, call, todo, inner, answer>>

GetReturn(p) == /\ pc[p] = "got"
                /\ answer' = [answer EXCEPT ![p] = value[p]]
                /\ value' = [value EXCEPT ![p] = None]
                /\ readers' = readers \ {p}
                /\ pc' = [pc EXCEPT ![p] = "idle"]
                /\ call' = [call EXCEPT ![p] = None]
                /\ UNCHANGED <<m, announced, todo, inner>>

\* Range hands an entry to its callback, which calls Delete: the read lock
\* stays held while the goroutine goes for the write lock.
RangeVisit(p) == /\ pc[p] = "read" /\ call[p].op = "Range"
                 /\ \E k \in todo[p] :
                      /\ inner' = [inner EXCEPT ![p] = k]
                      /\ todo' = [todo EXCEPT ![p] = @ \ {k}]
                 /\ pc' = [pc EXCEPT ![p] = "lock"]
                 /\ UNCHANGED <<m, readers, announced, call, value, answer>>

RangeReturn(p) == /\ pc[p] = "read" /\ call[p].op = "Range"
                  /\ todo[p] = {}
                  /\ readers' = readers \ {p}
                  /\ pc' = [pc EXCEPT ![p] = "idle"]
                  /\ call' = [call EXCEPT ![p] = None]
                  /\ UNCHANGED <<m, announced, todo, inner, value, answer>>

\* Lock: the writers' mutex is taken and new readers are turned away.
Announce(p) == /\ pc[p] = "lock"
               /\ announced = None
               /\ announced' = p
               /\ pc' = [pc EXCEPT ![p] = "announced"]
               /\ UNCHANGED <<m, readers, call, todo, inner, value, answer>>

\* Mutant: Lock does not wait for the readers inside.
LockTooEarly(p) == /\ pc[p] = "announced"
                   /\ pc' = [pc EXCEPT ![p] = "write"]
                   /\ UNCHANGED <<m, readers, announced, call, todo, inner, value, answer>>

\* Mutant: a lock that a reader may upgrade.
LockUpgrade(p) == /\ pc[p] = "announced"
                  /\ readers \subseteq {p}
                  /\ pc' = [pc EXCEPT ![p] = "write"]
                  /\ UNCHANGED <<m, readers, announced, call, todo, inner, value, answer>>

\* Lock returns once the readers that were inside have left.
Lock(p) == /\ pc[p] = "announced"
           /\ readers = {}
           /\ pc' = [pc EXCEPT ![p] = "write"]
           /\ UNCHANGED <<m, readers, announced, call, todo, inner, value, answer>>

Waiting == {q \in Proc : pc[q] = "rwait"}

\* Mutant: Unlock forgets the readers that queued up.
UnlockNoWakeup(p, next) == /\ announced' = None
                           /\ pc' = [pc EXCEPT ![p] = next]
                           /\ UNCHANGED <<readers, todo>>

\* Unlock lets the queued readers in; p goes on at `next`.
Unlock(p, next) ==
  /\ announced' = None
  /\ readers' = readers \cup Waiting
  /\ pc' = [q \in Proc |-> IF q = p THEN next
                           ELSE IF q \in Waiting THEN "read" ELSE pc[q]]
  /\ todo' = [q \in Proc |-> IF q \in Waiting
                             THEN {k \in Key : m'[k] # None} ELSE todo[q]]

\* Mutant: key and value swapped.
SetSwapped(p) == /\ pc[p] = "write" /\ call[p].op = "Set"
                 /\ m' = [m EXCEPT ![call[p].key] = call[p].key]
                 /\ Unlock(p, "idle")
                 /\ call' = [call EXCEPT ![p] = None]
                 /\ UNCHANGED <<inner, value, answer>>

SetReturn(p) == /\ pc[p] = "write" /\ call[p].op = "Set"
                /\ m' = [m EXCEPT ![call[p].key] = call[p].val]
                /\ Unlock(p, "idle")
                /\ call' = [call EXCEPT ![p] = None]
                /\ UNCHANGED <<inner, value, answer>>

\* Delete returns to its caller, or to the Range whose callback it is.
DeleteReturn(p) ==
  /\ pc[p] = "write" /\ call[p].op \in {"Delete", "Range"}
  /\ m' = [m EXCEPT ![IF inner[p] # None THEN inner[p] ELSE call[p].key] = None]
  /\ Unlock(p, IF inner[p] # None THEN "read" ELSE "idle")
  /\ call' = [call EXCEPT ![p] = IF inner[p] # None THEN @ ELSE None]
  /\ inner' = [inner EXCEPT ![p] = None]
  /\ UNCHANGED <<value, answer>>

----------------------------------------------------------------------------

Step(p) == \/ RLock(p) \/ RLockWait(p)
           \/ GetRead(p) \/ GetReturn(p) \/ RangeVisit(p) \/ RangeReturn(p)
           \/ Announce(p) \/ Lock(p)
           \/ SetReturn(p) \/ DeleteReturn(p)

Next == \E p \in Proc : (\E o \in Operation : Call(p, o)) \/ Step(p)

\* A goroutine inside an operation is scheduled; it need not make calls.  The
\* writers' mutex is a sync.Mutex, whose starvation mode lets no waiter wait
\* for ever, hence the strong fairness of Announce.
Fairness == \A p \in Proc : WF_vars(Step(p)) /\ SF_vars(Announce(p))

Spec == Init /\ [][Next]_vars /\ Fairness

----------------------------------------------------------------------------
(* Properties *)

\* RWMutex as the map uses it: while one goroutine writes the map no goroutine
\* reads it, not even one that queued for the read lock in the meantime, and
\* no second one writes.
Exclusion == \A p \in Proc :
               pc[p] = "write" =>
                 /\ readers = {}
                 /\ \A q \in Proc \ {p} : pc[q] \notin {"write", "announced", "read", "got"}

\* A goroutine that is in the callback's Delete with its Range's read lock held.
SelfBlocked(p) == p \in readers /\ pc[p] \in {"lock", "announced"}

\* Range calling Delete on its own map never comes back (session.go 297-315,
\* server.go 277-282): once inside, no step of any goroutine releases it.
SelfBlockIsForever ==
  [][\A p \in Proc : SelfBlocked(p) => SelfBlocked(p)']_vars

\* Every call returns, unless some goroutine ranges over the map and deletes:
\* that is the only way in which this map blocks its callers for ever.
CallsReturn ==
  \A p \in Proc : (pc[p] # "idle") ~> (pc[p] = "idle" \/ \E q \in Proc : SelfBlocked(q))

\* The locking implements the atomic map.
Atomic == INSTANCE AtomicMap WITH store <- m
AtomicSpec == Atomic!ASpec
=============================================================================
