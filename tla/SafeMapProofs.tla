--------------------------- MODULE SafeMapProofs ---------------------------
(* Theorems about SafeMap, for any number of goroutines, keys and values.   *)
EXTENDS SafeMap, TLAPS

\* Which operation a goroutine at each place is in, and who holds the lock:
\* a reader is at "read" or "got", or on its way through the Delete of its own
\* Range; the goroutine announced is the one past Announce.
Placed(p) ==
  /\ call[p] = None <=> pc[p] = "idle"
  /\ pc[p] \in {"rlock", "rwait", "read"} => call[p].op \in {"Get", "Range"}
  /\ pc[p] = "got" => call[p].op = "Get"
  /\ (pc[p] \in {"lock", "announced", "write"} /\ inner[p] = None)
       => call[p].op \in {"Set", "Delete"}
  /\ inner[p] # None => /\ call[p].op = "Range"
                        /\ pc[p] \in {"lock", "announced", "write"}

Holders == \A p \in Proc :
  /\ p \in readers <=> \/ pc[p] \in {"read", "got"}
                       \/ inner[p] # None
  /\ p = announced <=> pc[p] \in {"announced", "write"}
  /\ pc[p] = "write" => readers = {}

\* What a Get has read is still in the map when it returns.
Fresh == \A p \in Proc : pc[p] = "got" => value[p] = m[call[p].key]

IInv == /\ TypeOK
        /\ \A p \in Proc : Placed(p)
        /\ Holders
        /\ Fresh

----------------------------------------------------------------------------

\* The fields an operation has depend on its name, and None is no operation.
LEMMA OperationFields ==
  /\ None \notin Operation
  /\ \A o \in Operation :
       /\ o.op \in {"Get", "Set", "Delete", "Range"}
       /\ o.op \in {"Get", "Set", "Delete"} => o.key \in Key
       /\ o.op = "Set" => o.val \in Val
<1>1. None \notin Operation
  BY NoneAssumption
<1>2. \A o \in Operation :
        /\ o.op \in {"Get", "Set", "Delete", "Range"}
        /\ o.op \in {"Get", "Set", "Delete"} => o.key \in Key
        /\ o.op = "Set" => o.val \in Val
  BY DEF Operation
<1> QED  BY <1>1, <1>2

\* Types are kept by every step, given which operation a goroutine is in.
LEMMA TypeStep ==
  ASSUME TypeOK, \A p \in Proc : Placed(p), [Next]_vars
  PROVE  TypeOK'
<1> USE DEF TypeOK
<1>1. CASE UNCHANGED vars
  BY <1>1 DEF vars
<1>2. ASSUME NEW p \in Proc, NEW o \in Operation, Call(p, o)
      PROVE  TypeOK'
  BY <1>2 DEF Call, PC
<1>3. ASSUME NEW p \in Proc, RLock(p)  PROVE TypeOK'
  BY <1>3 DEF RLock, PC, Present
<1>4. ASSUME NEW p \in Proc, RLockWait(p)  PROVE TypeOK'
  BY <1>4 DEF RLockWait, PC
<1>5. ASSUME NEW p \in Proc, GetRead(p)  PROVE TypeOK'
  <2>1. call[p] \in Operation /\ call[p].key \in Key
    BY <1>5, OperationFields DEF GetRead, Placed
  <2> QED  BY <1>5, <2>1 DEF GetRead, PC
<1>6. ASSUME NEW p \in Proc, GetReturn(p)  PROVE TypeOK'
  BY <1>6 DEF GetReturn, PC
<1>7. ASSUME NEW p \in Proc, RangeVisit(p)  PROVE TypeOK'
  BY <1>7 DEF RangeVisit, PC
<1>8. ASSUME NEW p \in Proc, RangeReturn(p)  PROVE TypeOK'
  BY <1>8 DEF RangeReturn, PC
<1>9. ASSUME NEW p \in Proc, Announce(p)  PROVE TypeOK'
  BY <1>9 DEF Announce, PC
<1>10. ASSUME NEW p \in Proc, Lock(p)  PROVE TypeOK'
  BY <1>10 DEF Lock, PC
<1>11. ASSUME NEW p \in Proc, SetReturn(p)  PROVE TypeOK'
  <2>1. call[p] \in Operation /\ call[p].key \in Key /\ call[p].val \in Val
    BY <1>11, OperationFields DEF SetReturn, Placed
  <2>2. m' \in [Key -> Val \cup {None}]
    BY <1>11, <2>1 DEF SetReturn
  <2> QED  BY <1>11, <2>2 DEF SetReturn, Unlock, Waiting, PC
<1>12. ASSUME NEW p \in Proc, DeleteReturn(p)  PROVE TypeOK'
  <2>1. m' \in [Key -> Val \cup {None}]
    BY <1>12 DEF DeleteReturn
  <2> QED  BY <1>12, <2>1 DEF DeleteReturn, Unlock, Waiting, PC
<1> QED
  BY <1>1, <1>2, <1>3, <1>4, <1>5, <1>6, <1>7, <1>8, <1>9, <1>10, <1>11, <1>12
  DEF Next, Step

\* So is the place of every goroutine.
LEMMA PlacedStep ==
  ASSUME TypeOK, Holders, \A p \in Proc : Placed(p), [Next]_vars
  PROVE  \A q \in Proc : Placed(q)'
<1> SUFFICES ASSUME NEW q \in Proc
             PROVE  Placed(q)'
  OBVIOUS
<1> USE OperationFields DEF TypeOK, Placed
<1>1. CASE UNCHANGED vars
  BY <1>1 DEF vars
<1>2. ASSUME NEW p \in Proc, NEW o \in Operation, Call(p, o)
      PROVE  Placed(q)'
  <2>1. CASE p = q
    BY <1>2, <2>1 DEF Call
  <2>2. CASE p # q
    BY <1>2, <2>2 DEF Call
  <2> QED  BY <2>1, <2>2
<1>3. ASSUME NEW p \in Proc,
             RLock(p) \/ RLockWait(p) \/ GetRead(p) \/ Announce(p) \/ Lock(p)
      PROVE  Placed(q)'
  BY <1>3 DEF RLock, RLockWait, GetRead, Announce, Lock
<1>4. ASSUME NEW p \in Proc, GetReturn(p)  PROVE Placed(q)'
  BY <1>4 DEF GetReturn
<1>5. ASSUME NEW p \in Proc, RangeVisit(p)  PROVE Placed(q)'
  BY <1>5, NoneAssumption DEF RangeVisit
<1>6. ASSUME NEW p \in Proc, RangeReturn(p)  PROVE Placed(q)'
  BY <1>6 DEF RangeReturn
<1>7. ASSUME NEW p \in Proc, SetReturn(p)  PROVE Placed(q)'
  BY <1>7 DEF SetReturn, Unlock, Waiting
<1>8. ASSUME NEW p \in Proc, DeleteReturn(p)  PROVE Placed(q)'
  BY <1>8 DEF DeleteReturn, Unlock, Waiting
<1> QED
  BY <1>1, <1>2, <1>3, <1>4, <1>5, <1>6, <1>7, <1>8 DEF Next, Step

\* So is who holds the lock.
LEMMA HoldersStep ==
  ASSUME TypeOK, Holders, \A p \in Proc : Placed(p), [Next]_vars
  PROVE  Holders'
<1> SUFFICES ASSUME NEW q \in Proc
             PROVE  /\ q \in readers' <=> \/ pc'[q] \in {"read", "got"}
                                          \/ inner'[q] # None
                    /\ q = announced' <=> pc'[q] \in {"announced", "write"}
                    /\ pc'[q] = "write" => readers' = {}
  BY DEF Holders
<1> USE NoneAssumption DEF TypeOK, Holders, Placed
<1>1. CASE UNCHANGED vars
  BY <1>1 DEF vars
<1>2. ASSUME NEW p \in Proc, NEW o \in Operation, Call(p, o)
      PROVE  Holders'
  BY <1>2 DEF Call
<1>3. ASSUME NEW p \in Proc, RLock(p)  PROVE Holders'
  BY <1>3 DEF RLock
<1>4. ASSUME NEW p \in Proc, RLockWait(p) \/ GetRead(p)  PROVE Holders'
  BY <1>4 DEF RLockWait, GetRead
<1>5. ASSUME NEW p \in Proc, GetReturn(p)  PROVE Holders'
  BY <1>5 DEF GetReturn
<1>6. ASSUME NEW p \in Proc, RangeVisit(p)  PROVE Holders'
  BY <1>6 DEF RangeVisit
<1>7. ASSUME NEW p \in Proc, RangeReturn(p)  PROVE Holders'
  BY <1>7 DEF RangeReturn
<1>8. ASSUME NEW p \in Proc, Announce(p)  PROVE Holders'
  BY <1>8 DEF Announce
<1>9. ASSUME NEW p \in Proc, Lock(p)  PROVE Holders'
  BY <1>9 DEF Lock
<1>10. ASSUME NEW p \in Proc, SetReturn(p)  PROVE Holders'
  BY <1>10 DEF SetReturn, Unlock, Waiting
<1>11. ASSUME NEW p \in Proc, DeleteReturn(p)  PROVE Holders'
  <2>1. inner[p] = None
    BY <1>11 DEF DeleteReturn
  <2> QED  BY <1>11, <2>1 DEF DeleteReturn, Unlock, Waiting
<1> QED
  BY <1>1, <1>2, <1>3, <1>4, <1>5, <1>6, <1>7, <1>8, <1>9, <1>10, <1>11
  DEF Next, Step

\* While a Get holds the read lock nobody writes, so what it read stays true.
LEMMA FreshStep ==
  ASSUME TypeOK, Holders, \A p \in Proc : Placed(p), Fresh, [Next]_vars
  PROVE  Fresh'
<1> SUFFICES ASSUME NEW q \in Proc, pc'[q] = "got"
             PROVE  value'[q] = m'[call'[q].key]
  BY DEF Fresh
<1> USE DEF TypeOK, Fresh
<1>1. CASE UNCHANGED vars
  BY <1>1 DEF vars
<1>2. ASSUME NEW p \in Proc, NEW o \in Operation, Call(p, o)
      PROVE  value'[q] = m'[call'[q].key]
  BY <1>2 DEF Call
<1>3. ASSUME NEW p \in Proc,
             \/ RLock(p) \/ RLockWait(p) \/ GetReturn(p) \/ RangeVisit(p)
             \/ RangeReturn(p) \/ Announce(p) \/ Lock(p)
      PROVE  value'[q] = m'[call'[q].key]
  BY <1>3 DEF RLock, RLockWait, GetReturn, RangeVisit, RangeReturn, Announce, Lock
<1>4. ASSUME NEW p \in Proc, GetRead(p)
      PROVE  value'[q] = m'[call'[q].key]
  BY <1>4 DEF GetRead
<1>5. ASSUME NEW p \in Proc, SetReturn(p) \/ DeleteReturn(p)
      PROVE  FALSE
  <2>1. pc[p] = "write" /\ pc[q] = "got"
    BY <1>5 DEF SetReturn, DeleteReturn, Unlock, Waiting
  <2>2. readers = {} /\ q \in readers
    BY <2>1 DEF Holders
  <2> QED  BY <2>2
<1> QED
  BY <1>1, <1>2, <1>3, <1>4, <1>5 DEF Next, Step

\* The inductive invariant holds in every reachable state.
THEOREM Invariance == Spec => []IInv
<1>1. Init => IInv
  BY NoneAssumption DEF Init, IInv, TypeOK, PC, Placed, Holders, Fresh
<1>2. IInv /\ [Next]_vars => IInv'
  BY TypeStep, PlacedStep, HoldersStep, FreshStep DEF IInv
<1> QED  BY <1>1, <1>2, PTL DEF Spec

\* Every variable keeps its type, whatever the goroutines do.
THEOREM TypeCorrect == Spec => []TypeOK
<1>1. IInv => TypeOK
  BY DEF IInv
<1> QED  BY <1>1, Invariance, PTL

\* The lock excludes readers while the map is written.
THEOREM MutualExclusion == Spec => []Exclusion
<1>1. IInv => Exclusion
  <2> SUFFICES ASSUME IInv, NEW p \in Proc, pc[p] = "write"
               PROVE  /\ readers = {}
                      /\ \A q \in Proc \ {p} :
                           pc[q] \notin {"write", "announced", "read", "got"}
    BY DEF Exclusion
  <2>1. readers = {} /\ p = announced
    BY DEF IInv, Holders
  <2>2. ASSUME NEW q \in Proc \ {p}
        PROVE  pc[q] \notin {"write", "announced", "read", "got"}
    BY <2>1, <2>2 DEF IInv, Holders
  <2> QED  BY <2>1, <2>2
<1> QED  BY <1>1, Invariance, PTL

\* A Range whose callback calls Delete on its own map never returns: once a
\* goroutine wants the write lock with its own read lock held, no step of any
\* goroutine changes that.
THEOREM RangeNeverReturns == Spec => SelfBlockIsForever
<1>1. ASSUME IInv, [Next]_vars, NEW p \in Proc, SelfBlocked(p)
      PROVE  SelfBlocked(p)'
  <2> USE <1>1 DEF IInv, TypeOK, SelfBlocked
  <2>1. readers # {} /\ pc[p] \notin {"idle", "rlock", "rwait", "read", "got", "write"}
    BY DEF Holders
  <2>2. CASE UNCHANGED vars
    BY <2>2 DEF vars
  <2>3. ASSUME NEW r \in Proc, NEW o \in Operation, Call(r, o)
        PROVE  SelfBlocked(p)'
    BY <2>1, <2>3 DEF Call
  <2>4. ASSUME NEW r \in Proc,
               \/ RLock(r) \/ RLockWait(r) \/ GetRead(r) \/ GetReturn(r)
               \/ RangeVisit(r) \/ RangeReturn(r) \/ Announce(r) \/ Lock(r)
        PROVE  SelfBlocked(p)'
    BY <2>1, <2>4 DEF RLock, RLockWait, GetRead, GetReturn, RangeVisit,
                      RangeReturn, Announce, Lock
  <2>5. ASSUME NEW r \in Proc, SetReturn(r) \/ DeleteReturn(r)
        PROVE  FALSE
    BY <2>1, <2>5 DEF Holders, SetReturn, DeleteReturn
  <2> QED  BY <2>2, <2>3, <2>4, <2>5, <1>1 DEF Next, Step
<1>2. IInv /\ [Next]_vars =>
        [\A p \in Proc : SelfBlocked(p) => SelfBlocked(p)']_vars
  BY <1>1
<1> QED  BY <1>2, Invariance, PTL DEF Spec, SelfBlockIsForever

\* The locked map implements the atomic one: a Get, Set or Delete takes effect
\* at one instant, that of its return, and nobody sees the map in between.
THEOREM Linearizable == Spec => AtomicSpec
<1> USE DEF Atomic!avars
<1>1. Init => Atomic!AInit
  BY DEF Init, Atomic!AInit
<1>2. IInv /\ [Next]_vars => [Atomic!ANext]_(Atomic!avars)
  <2> SUFFICES ASSUME IInv, [Next]_vars
               PROVE  Atomic!ANext \/ UNCHANGED Atomic!avars
    OBVIOUS
  <2> USE DEF IInv, TypeOK
  <2>1. CASE UNCHANGED vars
    BY <2>1 DEF vars
  <2>2. ASSUME NEW p \in Proc, NEW o \in Operation, Call(p, o)
        PROVE  Atomic!ANext
    <3>1. Atomic!Invoke(p, o)
      BY <2>2 DEF Call, Placed, Atomic!Invoke
    <3> QED  BY <3>1 DEF Atomic!ANext, Operation, Atomic!Operation
  <2>3. ASSUME NEW p \in Proc,
               \/ RLock(p) \/ RLockWait(p) \/ GetRead(p)
               \/ RangeVisit(p) \/ Announce(p) \/ Lock(p)
        PROVE  UNCHANGED Atomic!avars
    BY <2>3 DEF RLock, RLockWait, GetRead, RangeVisit, Announce, Lock
  <2>4. ASSUME NEW p \in Proc, GetReturn(p)
        PROVE  Atomic!ANext
    <3>1. call[p] # None /\ call[p].op = "Get"
      BY <2>4 DEF GetReturn, Placed
    <3>2. value[p] = m[call[p].key]
      BY <2>4 DEF GetReturn, Fresh
    <3>3. Atomic!AtomicGet(p)
      BY <2>4, <3>1, <3>2 DEF GetReturn, Atomic!AtomicGet, Atomic!Return
    <3> QED  BY <3>3 DEF Atomic!ANext
  <2>5. ASSUME NEW p \in Proc, RangeReturn(p)
        PROVE  Atomic!ANext
    <3>1. Atomic!AtomicRangeEnd(p)
      BY <2>5 DEF RangeReturn, Placed, Atomic!AtomicRangeEnd, Atomic!Return
    <3> QED  BY <3>1 DEF Atomic!ANext
  <2>6. ASSUME NEW p \in Proc, SetReturn(p)
        PROVE  Atomic!ANext
    <3>1. Atomic!AtomicSet(p)
      BY <2>6 DEF SetReturn, Placed, Atomic!AtomicSet, Atomic!Return
    <3> QED  BY <3>1 DEF Atomic!ANext
  <2>7. ASSUME NEW p \in Proc, DeleteReturn(p)
        PROVE  Atomic!ANext
    <3>1. readers = {} /\ inner[p] = None /\ call[p].op = "Delete"
      BY <2>7 DEF DeleteReturn, Holders, Placed
    <3>2. Atomic!AtomicDelete(p)
      BY <2>7, <3>1 DEF DeleteReturn, Placed, Atomic!AtomicDelete, Atomic!Return
    <3> QED  BY <3>2 DEF Atomic!ANext
  <2> QED
    BY <2>1, <2>2, <2>3, <2>4, <2>5, <2>6, <2>7 DEF Next, Step
<1> QED  BY <1>1, <1>2, Invariance, PTL DEF Spec, AtomicSpec, Atomic!ASpec

=============================================================================
