----------------------------- MODULE AtomicMap -----------------------------
(***************************************************************************)
(* What shared.SafeMap promises its callers: a map whose Get, Set and      *)
(* Delete each take effect at one instant between the call and the return, *)
(* and whose Range works on its entries one at a time before it returns.   *)
(* Nothing is said here of locks; SafeMap.tla is shown to implement this.  *)
(***************************************************************************)
CONSTANTS Proc,   \* the goroutines that share the map
          Key,    \* the keys, connection identifiers in this program
          Val,    \* the values stored under them
          None    \* no value, no call: different from every value and operation

VARIABLES store,  \* the value under each key, or None
          call,   \* the call each goroutine is in, or None
          answer  \* what each goroutine's last Get returned

avars == <<store, call, answer>>

Operation == [op : {"Get", "Delete"}, key : Key] \cup
             [op : {"Set"}, key : Key, val : Val] \cup
             [op : {"Range"}]

AInit == /\ store = [k \in Key |-> None]
         /\ call = [p \in Proc |-> None]
         /\ answer = [p \in Proc |-> None]

Invoke(p, o) == /\ call[p] = None
                /\ call' = [call EXCEPT ![p] = o]
                /\ UNCHANGED <<store, answer>>

\* A call that takes effect returns in the same instant: between the two no
\* caller can tell the difference.
Return(p) == call' = [call EXCEPT ![p] = None]

AtomicGet(p) == /\ call[p] # None /\ call[p].op = "Get"
                /\ answer' = [answer EXCEPT ![p] = store[call[p].key]]
                /\ UNCHANGED store
                /\ Return(p)

AtomicSet(p) == /\ call[p] # None /\ call[p].op = "Set"
                /\ store' = [store EXCEPT ![call[p].key] = call[p].val]
                /\ UNCHANGED answer
                /\ Return(p)

AtomicDelete(p) == /\ call[p] # None /\ call[p].op = "Delete"
                   /\ store' = [store EXCEPT ![call[p].key] = None]
                   /\ UNCHANGED answer
                   /\ Return(p)

\* A Range whose callback deletes the entry it is given removes entries one
\* by one, and returns at a moment at which it has none left to visit.
AtomicRemove(p) == /\ call[p] # None /\ call[p].op = "Range"
                   /\ \E k \in Key : store' = [store EXCEPT ![k] = None]
                   /\ UNCHANGED <<call, answer>>

AtomicRangeEnd(p) == /\ call[p] # None /\ call[p].op = "Range"
                     /\ UNCHANGED <<store, answer>>
                     /\ Return(p)

ANext == \E p \in Proc :
           \/ \E o \in Operation : Invoke(p, o)
           \/ AtomicGet(p)
           \/ AtomicSet(p)
           \/ AtomicDelete(p)
           \/ AtomicRemove(p)
           \/ AtomicRangeEnd(p)

ASpec == AInit /\ [][ANext]_avars
=============================================================================
