---------------------------- MODULE RelayProofs ----------------------------
(***************************************************************************)
(* Theorems about Relay: for any capacities of the queues and any number   *)
(* of chunks, a SOCKS5 connection keeps the promise of TcpRelay, and the   *)
(* target's answer arrives whole.  None of them needs fairness.            *)
(***************************************************************************)
EXTENDS Relay, SequenceTheorems, TLAPS

\* Where the handler is says whether there is a stream and whether the copies
\* run; a Close that is half done has closed closeCh.
Asking   == {"greet", "request", "open", "refuse"}
Finishing == {"close", "forget", "hangUp", "done"}
CopyEnded == {"close", "forget", "done"}

HandlerFits ==
  /\ up = "off" <=> dn = "off"
  /\ pc \in Asking => stream = "none"
  /\ pc \in Asking \cup {"grant"} => up = "off"
  /\ pc \in {"grant", "close", "forget"} => stream # "none"
  /\ up # "off" => stream # "none" /\ pc \in {"relay"} \cup Finishing
  /\ (pc \in Finishing /\ up # "off") => "done" \in {up, dn}
  /\ pc = "relay" => up # "off"
  /\ "forget" \in {pc, up} => stream \in {"closing", "closed"}
  /\ stream = "none" => pushed = 0

\* What the program has sent and what of it has been read add up: headers come
\* before data, and data has consecutive numbers that end with the last said.
Sent        == IF stage = "greeting" THEN 0 ELSE IF stage = "request" THEN 1 ELSE 2
HeadersRead == IF pc = "greet" THEN 0 ELSE IF pc = "request" THEN 1 ELSE 2
DataRead    == IF up \in {"write", "send"} THEN carried + 1 ELSE carried
Reading     == pc \in {"greet", "request", "open", "grant"} \/ up \in {"read", "write", "send"}

NothingSkipped ==
  (Reading /\ (prog = "open" \/ toAgent # <<>>)) =>
     /\ HeadersRead <= Sent
     /\ Len(toAgent) + HeadersRead + DataRead = Sent + said
     /\ \A i \in 1 .. Len(toAgent) :
          toAgent[i].kind = "data" <=> i + HeadersRead > Sent
SaidInOrder == \A i \in 1 .. Len(toAgent) :
                 toAgent[i].kind = "data" => toAgent[i].n + Len(toAgent) = said + i
HeadersFirst == stage # "data" => /\ said = 0
                                  /\ \A i \in 1 .. Len(toAgent) : toAgent[i].kind # "data"
UpFits == /\ up = "off" => carried = 0
          /\ carried <= said
          /\ up \in {"write", "send"} => upChunk = carried + 1 /\ upChunk <= said

\* The answer comes before the target's data, once, and it is true.
IsAnswer(i) == i \in 1 .. Len(toProg) /\ toProg[i].kind \in {"granted", "refused"}
IsData(i)   == i \in 1 .. Len(toProg) /\ toProg[i].kind = "data"
Granted     == answer = "granted" \/ \E i \in 1 .. Len(toProg) : toProg[i].kind = "granted"

AnsweredOnce == \A i \in 1 .. Len(toProg) : IsAnswer(i) =>
                  /\ answer = "none"
                  /\ \A j \in 1 .. Len(toProg) : j < i => toProg[j].kind = "method"
                  /\ \A j \in 1 .. Len(toProg) : j > i => toProg[j].kind = "data"
                  /\ toProg[i].kind = "refused" <=> stream = "none"
DataLast     == \A i, j \in 1 .. Len(toProg) : IsData(i) /\ i < j => IsData(j)
DataGranted  == /\ \A i \in 1 .. Len(toProg) :
                     IsData(i) => \/ answer = "granted"
                                  \/ \E j \in 1 .. Len(toProg) : j < i /\ toProg[j].kind = "granted"
                /\ (dn # "off" /\ prog # "gone") => Granted
NotYetAnswered == pc \in Asking \cup {"grant"} =>
                    /\ answer = "none" /\ heard = 0
                    /\ \A i \in 1 .. Len(toProg) : toProg[i].kind = "method"

\* The target's data is numbered through the three places it passes.
Delivered == IF toProg # <<>> /\ toProg[Len(toProg)].kind = "data"
             THEN toProg[Len(toProg)].n ELSE heard
HeardInOrder == \A i \in 1 .. Len(toProg) : IsData(i) =>
                  /\ toProg[i].n <= pushed
                  /\ IF i # 1 /\ IsData(i - 1) THEN toProg[i].n = toProg[i - 1].n + 1
                                               ELSE toProg[i].n = heard + 1
PushedInOrder == \A i \in 1 .. Len(inCh) : inCh[i] + Len(inCh) = pushed + i
DownFits == /\ prog = "gone" => toProg = <<>>
            /\ Len(inCh) <= pushed
            /\ dn = "write" => dnChunk + Len(inCh) = pushed
            /\ (dn \in {"off", "read"} /\ prog # "gone") => Delivered + Len(inCh) = pushed
            /\ (dn = "write" /\ prog # "gone") => Delivered + 1 = dnChunk

\* While the program is there, the copy to it ends with nothing left, or else a
\* chunk of the program's has been lost before.  (Only an end that the target
\* made comes after all it sent; one of the front end's may come before more of it.)
LostASend == up \in CopyEnded /\ carried < said
EndsWhole ==
  prog = "open" =>
    /\ (dn \in {"read", "write"} /\ (conn = "closed" \/ up \in CopyEnded)) => LostASend
    /\ dn \in {"close", "done"} =>
         \/ LostASend
         \/ stream \in {"closing", "closed"} /\ (ended => Delivered = pushed)
    /\ ended => stream = "closed"

IInv == /\ TypeOK /\ HandlerFits
        /\ NothingSkipped /\ SaidInOrder /\ HeadersFirst /\ UpFits
        /\ AnsweredOnce /\ DataLast /\ DataGranted /\ NotYetAnswered
        /\ HeardInOrder /\ PushedInOrder /\ DownFits
        /\ EndsWhole

----------------------------------------------------------------------------
(* Queues *)

\* What is left of a queue when its oldest item is taken.
LEMMA TailContents ==
  ASSUME NEW S, NEW q \in Seq(S), q # <<>>
  PROVE  /\ Len(q) \in Nat /\ Len(q) >= 1 /\ Head(q) = q[1] /\ q[1] \in S
         /\ Tail(q) \in Seq(S) /\ Len(Tail(q)) = Len(q) - 1
         /\ \A i \in 1 .. Len(Tail(q)) : Tail(q)[i] = q[i + 1]
<1>1. Len(q) \in Nat /\ Len(q) >= 1
  BY EmptySeq
<1>2. Head(q) = q[1] /\ q[1] \in S
  BY <1>1, HeadTailProperties, ElementOfSeq
<1>3. /\ Tail(q) \in Seq(S) /\ Len(Tail(q)) = Len(q) - 1
      /\ \A i \in 1 .. Len(Tail(q)) : Tail(q)[i] = q[i + 1]
  BY HeadTailProperties
<1> QED  BY <1>1, <1>2, <1>3

\* A queue with a new last item.
LEMMA AppendContents ==
  ASSUME NEW S, NEW q \in Seq(S), NEW e \in S
  PROVE  /\ Len(q) \in Nat /\ Append(q, e) \in Seq(S) /\ Append(q, e) # <<>>
         /\ Len(Append(q, e)) = Len(q) + 1 /\ Append(q, e)[Len(q) + 1] = e
         /\ \A i \in 1 .. Len(q) : Append(q, e)[i] = q[i]
BY AppendProperties, EmptySeq

----------------------------------------------------------------------------
(* Types *)

ToAgentItems == Items({"greeting", "request", "junk", "data"})
ToProgItems  == Items({"method", "granted", "refused", "data"})

\* The parts of TypeOK that the provers need by themselves.
LEMMA TypeParts ==
  ASSUME TypeOK
  PROVE  /\ said \in Nat /\ heard \in Nat /\ upChunk \in Nat
         /\ dnChunk \in Nat /\ carried \in Nat /\ pushed \in Nat
         /\ toAgent \in Seq(ToAgentItems) /\ toProg \in Seq(ToProgItems)
         /\ inCh \in Seq(Nat)
         /\ Len(toAgent) \in Nat /\ Len(toProg) \in Nat /\ Len(inCh) \in Nat
         /\ \A i \in 1 .. Len(toAgent) : toAgent[i] \in ToAgentItems
         /\ \A i \in 1 .. Len(toProg) : toProg[i] \in ToProgItems
         /\ \A i \in 1 .. Len(inCh) : inCh[i] \in Nat
<1>1. /\ said \in Nat /\ heard \in Nat /\ upChunk \in Nat
      /\ dnChunk \in Nat /\ carried \in Nat /\ pushed \in Nat
  BY DEF TypeOK
<1>2. /\ toAgent \in Seq(ToAgentItems) /\ toProg \in Seq(ToProgItems)
      /\ inCh \in Seq(Nat)
  BY DEF TypeOK, ToAgentItems, ToProgItems
<1>3. Len(toAgent) \in Nat /\ Len(toProg) \in Nat /\ Len(inCh) \in Nat
  BY <1>2, LenProperties
<1>4. \A i \in 1 .. Len(toAgent) : toAgent[i] \in ToAgentItems
  BY <1>2, ElementOfSeq
<1>5. \A i \in 1 .. Len(toProg) : toProg[i] \in ToProgItems
  BY <1>2, ElementOfSeq
<1>6. \A i \in 1 .. Len(inCh) : inCh[i] \in Nat
  BY <1>2, ElementOfSeq
<1> QED  BY <1>1, <1>2, <1>3, <1>4, <1>5, <1>6

\* The items a step may add.
LEMMA ItemTypes ==
  /\ \A n \in Nat : /\ \A kind \in {"greeting", "request", "junk", "data"} :
                          Item(kind, n) \in ToAgentItems
                    /\ \A kind \in {"method", "granted", "refused", "data"} :
                          Item(kind, n) \in ToProgItems
  /\ \A e \in ToAgentItems : e.n \in Nat
  /\ \A e \in ToProgItems : e.n \in Nat
BY DEF Item, Items, ToAgentItems, ToProgItems

\* The agent takes an item.
LEMMA TakesType ==
  ASSUME TypeOK, NEW kind, Takes(kind)
  PROVE  /\ toAgent' \in Seq(ToAgentItems) /\ Len(toAgent') <= SockCap
         /\ toAgent[1].kind = kind /\ toAgent[1].n \in Nat /\ Head(toAgent) = toAgent[1]
         /\ Len(toAgent) >= 1 /\ Len(toAgent') = Len(toAgent) - 1
         /\ \A i \in 1 .. Len(toAgent') : toAgent'[i] = toAgent[i + 1]
<1>1. /\ toAgent \in Seq(ToAgentItems) /\ toAgent # <<>> /\ toAgent' = Tail(toAgent)
      /\ Head(toAgent).kind = kind /\ Len(toAgent) <= SockCap
  BY TypeParts DEF Takes, TypeOK
<1>2. /\ Len(toAgent) \in Nat /\ Len(toAgent) >= 1 /\ Head(toAgent) = toAgent[1]
      /\ toAgent[1] \in ToAgentItems
      /\ Tail(toAgent) \in Seq(ToAgentItems) /\ Len(Tail(toAgent)) = Len(toAgent) - 1
      /\ \A i \in 1 .. Len(Tail(toAgent)) : Tail(toAgent)[i] = toAgent[i + 1]
  BY <1>1, TailContents
<1> QED  BY <1>1, <1>2, ItemTypes, RelayAssumption

\* The agent writes an item, which the program gets if it is still there.
LEMMA PutType ==
  ASSUME TypeOK, NEW kind \in {"method", "granted", "refused", "data"}, NEW n \in Nat,
         Put(kind, n)
  PROVE  /\ conn = "open"
         /\ toProg' \in Seq(ToProgItems) /\ Len(toProg') <= SockCap
         /\ prog = "gone" => toProg' = toProg
         /\ prog # "gone" => /\ toProg' # <<>> /\ Len(toProg') = Len(toProg) + 1
                             /\ toProg'[Len(toProg) + 1].kind = kind
                             /\ toProg'[Len(toProg) + 1].n = n
                             /\ \A i \in 1 .. Len(toProg) : toProg'[i] = toProg[i]
<1>1. /\ toProg \in Seq(ToProgItems) /\ Item(kind, n) \in ToProgItems
      /\ Len(toProg) < SockCap /\ Len(toProg) \in Nat /\ conn = "open"
  BY TypeParts, ItemTypes DEF Put
<1>2. /\ Append(toProg, Item(kind, n)) \in Seq(ToProgItems)
      /\ Append(toProg, Item(kind, n)) # <<>>
      /\ Len(Append(toProg, Item(kind, n))) = Len(toProg) + 1
      /\ Append(toProg, Item(kind, n))[Len(toProg) + 1] = Item(kind, n)
      /\ \A i \in 1 .. Len(toProg) : Append(toProg, Item(kind, n))[i] = toProg[i]
  BY <1>1, AppendContents
<1>3. CASE prog = "gone"
  BY <1>1, <1>3, RelayAssumption DEF Put
<1>4. CASE prog # "gone"
  <2>1. toProg' = Append(toProg, Item(kind, n))
    BY <1>4 DEF Put
  <2> QED  BY <1>1, <1>2, <1>4, <2>1, RelayAssumption DEF Item
<1> QED  BY <1>3, <1>4

\* The program sends an item.
LEMMA SaysType ==
  ASSUME TypeOK, ProgramSays
  PROVE  /\ toAgent' \in Seq(ToAgentItems) /\ Len(toAgent') <= SockCap
         /\ said' \in Nat /\ stage' \in {"greeting", "request", "data"}
         /\ Len(toAgent') = Len(toAgent) + 1
         /\ \A i \in 1 .. Len(toAgent) : toAgent'[i] = toAgent[i]
         /\ \/ /\ stage = "data" /\ stage' = "data" /\ said' = said + 1
               /\ toAgent'[Len(toAgent) + 1] = [kind |-> "data", n |-> said']
            \/ /\ stage = "greeting" /\ stage' = "request" /\ said' = said
               /\ toAgent'[Len(toAgent) + 1].kind \in {"greeting", "junk"}
            \/ /\ stage = "request" /\ stage' = "data" /\ said' = said
               /\ toAgent'[Len(toAgent) + 1].kind \in {"request", "junk"}
<1>1. /\ toAgent \in Seq(ToAgentItems) /\ Len(toAgent) < SockCap /\ Len(toAgent) \in Nat
      /\ said \in Nat
  BY TypeParts DEF ProgramSays
<1>2. \E e \in ToAgentItems :
        /\ toAgent' = Append(toAgent, e)
        /\ \/ /\ stage = "data" /\ stage' = "data" /\ said' = said + 1
              /\ e = [kind |-> "data", n |-> said']
           \/ /\ stage = "greeting" /\ stage' = "request" /\ said' = said
              /\ e.kind \in {"greeting", "junk"}
           \/ /\ stage = "request" /\ stage' = "data" /\ said' = said
              /\ e.kind \in {"request", "junk"}
  BY <1>1 DEF ProgramSays, Item, Items, ToAgentItems
<1>3. PICK e \in ToAgentItems :
        /\ toAgent' = Append(toAgent, e)
        /\ \/ /\ stage = "data" /\ stage' = "data" /\ said' = said + 1
              /\ e = [kind |-> "data", n |-> said']
           \/ /\ stage = "greeting" /\ stage' = "request" /\ said' = said
              /\ e.kind \in {"greeting", "junk"}
           \/ /\ stage = "request" /\ stage' = "data" /\ said' = said
              /\ e.kind \in {"request", "junk"}
  BY <1>2
<1>4. /\ Append(toAgent, e) \in Seq(ToAgentItems)
      /\ Len(Append(toAgent, e)) = Len(toAgent) + 1
      /\ Append(toAgent, e)[Len(toAgent) + 1] = e
      /\ \A i \in 1 .. Len(toAgent) : Append(toAgent, e)[i] = toAgent[i]
  BY <1>1, AppendContents
<1> QED  BY <1>1, <1>3, <1>4, RelayAssumption

\* TypeOK in the variables of the five parts.
ProgType == /\ prog \in {"open", "shut", "gone"} /\ stage \in {"greeting", "request", "data"}
            /\ said \in Nat /\ heard \in Nat /\ answer \in {"none", "granted", "refused"}
SockType == /\ conn \in {"open", "closed"}
            /\ toAgent \in Seq(ToAgentItems) /\ Len(toAgent) <= SockCap
            /\ toProg \in Seq(ToProgItems) /\ Len(toProg) <= SockCap
CopyType == /\ pc \in {"greet", "request", "open", "refuse", "grant", "relay",
                       "close", "forget", "hangUp", "done"}
            /\ up \in {"off", "read", "write", "send", "close", "forget", "done"}
            /\ dn \in {"off", "read", "write", "close", "done"}
            /\ upChunk \in Nat /\ dnChunk \in Nat
StreamType == /\ stream \in {"none", "open", "closing", "closed"}
              /\ inCh \in Seq(Nat) /\ Len(inCh) <= InCap
              /\ carried \in Nat /\ pushed \in Nat
              /\ ended \in BOOLEAN /\ link \in {"up", "down", "stuck"}

\* TypeOK, in four parts: the program, its connection, the copies, the stream.
LEMMA TypeSplit ==
  /\ TypeOK <=> ProgType /\ SockType /\ CopyType /\ StreamType
  /\ TypeOK' <=> ProgType' /\ SockType' /\ CopyType' /\ StreamType'
<1>1. {said, heard, upChunk, dnChunk, carried, pushed} \subseteq Nat
        <=> /\ said \in Nat /\ heard \in Nat /\ upChunk \in Nat
            /\ dnChunk \in Nat /\ carried \in Nat /\ pushed \in Nat
  OBVIOUS
<1>2. {said', heard', upChunk', dnChunk', carried', pushed'} \subseteq Nat
        <=> /\ said' \in Nat /\ heard' \in Nat /\ upChunk' \in Nat
            /\ dnChunk' \in Nat /\ carried' \in Nat /\ pushed' \in Nat
  OBVIOUS
<1> QED
  BY <1>1, <1>2 DEF TypeOK, ProgType, SockType, CopyType, StreamType, ToAgentItems, ToProgItems

\* A step that leaves the variables of a part alone keeps its types.
LEMMA TypeFrame ==
  /\ ProgType /\ UNCHANGED progVars => ProgType'
  /\ SockType /\ UNCHANGED sockVars => SockType'
  /\ CopyType /\ UNCHANGED copyVars => CopyType'
  /\ StreamType /\ UNCHANGED streamVars => StreamType'
BY DEF ProgType, SockType, CopyType, StreamType, progVars, sockVars, copyVars, streamVars

\* A step of the program keeps the types.
LEMMA ProgramTypes == TypeOK /\ Program => TypeOK'
<1> SUFFICES ASSUME TypeOK, Program PROVE TypeOK'
  OBVIOUS
<1> USE TypeSplit, RelayAssumption
<1>0. CopyType' /\ StreamType'
  BY TypeFrame DEF Program, ProgramSays, ProgramHears, ProgramShuts, ProgramLeaves, Reset
<1>e. <<>> \in Seq(ToAgentItems) /\ <<>> \in Seq(ToProgItems) /\ Len(<<>>) = 0
  BY EmptySeq
<1>1. CASE ProgramSays
  BY <1>0, <1>1, SaysType DEF ProgramSays, ProgType, SockType
<1>2. CASE ProgramHears
  <2>1. /\ toProg' = Tail(toProg) /\ Head(toProg) = toProg[1] /\ toProg[1] \in ToProgItems
        /\ Len(toProg) \in Nat /\ toProg' \in Seq(ToProgItems) /\ Len(toProg') = Len(toProg) - 1
    BY <1>2, TailContents, TypeParts DEF ProgramHears
  <2>2. heard' \in Nat
    BY <1>2, <2>1, TypeParts, ItemTypes DEF ProgramHears
  <2>3. answer' \in {"none", "granted", "refused"}
    BY <1>2 DEF ProgramHears, ProgType
  <2> QED  BY <1>0, <1>2, <2>1, <2>2, <2>3 DEF ProgramHears, ProgType, SockType
<1>3. CASE ProgramShuts
  BY <1>0, <1>3 DEF ProgramShuts, ProgType, SockType, sockVars
<1>4. CASE ProgramLeaves
  <2>1. ProgType'
    BY <1>4 DEF ProgramLeaves, ProgType
  <2>2. SockType'
    <3>1. toProg' = <<>> /\ conn' = conn /\ (toAgent' = toAgent \/ toAgent' = <<>>)
      BY <1>4 DEF ProgramLeaves
    <3>2. toAgent' \in Seq(ToAgentItems) /\ Len(toAgent') <= SockCap
      <4>1. CASE toAgent' = toAgent
        BY <4>1 DEF SockType
      <4>2. CASE toAgent' = <<>>
        BY <4>2, <1>e
      <4> QED  BY <3>1, <4>1, <4>2
    <3>3. toProg' \in Seq(ToProgItems) /\ Len(toProg') <= SockCap
      BY <3>1, <1>e
    <3> QED  BY <3>1, <3>2, <3>3 DEF SockType
  <2> QED  BY <1>0, <2>1, <2>2
<1>5. CASE Reset
  BY <1>0, <1>5, <1>e DEF Reset, ProgType, SockType
<1> QED  BY <1>1, <1>2, <1>3, <1>4, <1>5 DEF Program

\* So does one of the session ...
LEMMA SessionTypes == TypeOK /\ Session => TypeOK'
<1> SUFFICES ASSUME TypeOK, Session PROVE TypeOK'
  OBVIOUS
<1> USE TypeSplit, RelayAssumption
<1>0. ProgType' /\ SockType' /\ CopyType'
  BY TypeFrame DEF Session, Push, TargetEnds, LinkLost, RunStuck, LinkBack
<1>1. CASE Push
  <2>1. /\ Len(inCh) \in Nat /\ inCh' \in Seq(Nat) /\ Len(inCh') = Len(inCh) + 1
    BY <1>1, AppendContents, TypeParts DEF Push
  <2> QED  BY <1>0, <1>1, <2>1 DEF Push, StreamType
<1>2. CASE TargetEnds \/ LinkLost \/ RunStuck \/ LinkBack
  BY <1>0, <1>2 DEF TargetEnds, LinkLost, RunStuck, LinkBack, StreamType
<1> QED  BY <1>1, <1>2 DEF Session

\* ... one of handleConn ...
LEMMA HandlerTypes == TypeOK /\ HandlerStep => TypeOK'
<1> SUFFICES ASSUME TypeOK, HandlerStep PROVE TypeOK'
  OBVIOUS
<1> USE TypeSplit, RelayAssumption
<1>0. ProgType'
  BY TypeFrame DEF HandlerStep, Greet, GreetFails, ReadRequest, RequestFails, Opens, OpenFails,
     GrantIt, GrantFails, RefuseIt, CopyDone, CloseStream, HangUp
<1>1. CopyType'
  BY DEF HandlerStep, Greet, GreetFails, ReadRequest, RequestFails, Opens, OpenFails,
     GrantIt, GrantFails, RefuseIt, CopyDone, CloseStream, HangUp, Handler, CopyType
<1>2. StreamType'
  BY DEF HandlerStep, Greet, GreetFails, ReadRequest, RequestFails, Opens, OpenFails,
     GrantIt, GrantFails, RefuseIt, CopyDone, CloseStream, HangUp, BeginClose, EndClose,
     StreamType, streamVars
<1>3. SockType'
  <2>1. CASE Greet
    BY <2>1, TakesType, PutType DEF Greet, SockType
  <2>2. CASE GreetFails
    BY <2>2, TakesType DEF GreetFails, SockType
  <2>3. CASE ReadRequest
    BY <2>3, TakesType DEF ReadRequest, SockType
  <2>4. CASE RequestFails
    BY <2>4, TakesType DEF RequestFails, SockType
  <2>5. CASE GrantIt
    BY <2>5, PutType DEF GrantIt, SockType
  <2>6. CASE RefuseIt
    BY <2>6, PutType DEF RefuseIt, SockType
  <2>7. CASE Opens \/ OpenFails \/ GrantFails \/ CopyDone \/ CloseStream \/ HangUp
    BY <2>7 DEF Opens, OpenFails, GrantFails, CopyDone, CloseStream, HangUp, SockType, sockVars
  <2> QED  BY <2>1, <2>2, <2>3, <2>4, <2>5, <2>6, <2>7 DEF HandlerStep
<1> QED  BY <1>0, <1>1, <1>2, <1>3

\* ... one of the copy from the program ...
LEMMA UpTypes == TypeOK /\ UpStep => TypeOK'
<1> SUFFICES ASSUME TypeOK, UpStep PROVE TypeOK'
  OBVIOUS
<1> USE TypeSplit, RelayAssumption
<1>0. ProgType'
  BY TypeFrame DEF UpStep, UpRead, UpEnds, UpWrite, UpSend, UpWriteFails, UpClose
<1>1. CASE UpRead
  BY <1>0, <1>1, TakesType DEF UpRead, Up, SockType, CopyType, StreamType, streamVars
<1>2. CASE UpEnds \/ UpWrite \/ UpSend \/ UpWriteFails \/ UpClose
  <2>1. SockType'
    BY <1>2, TypeFrame DEF UpEnds, UpWrite, UpSend, UpWriteFails, UpClose
  <2>2. CopyType'
    BY <1>2 DEF UpEnds, UpWrite, UpSend, UpWriteFails, UpClose, Up, CopyType
  <2>3. StreamType'
    BY <1>2 DEF UpEnds, UpWrite, UpSend, UpWriteFails, UpClose, BeginClose, EndClose, CopyType,
                StreamType, streamVars
  <2> QED  BY <1>0, <2>1, <2>2, <2>3
<1> QED  BY <1>1, <1>2 DEF UpStep

\* ... and one of the copy to it.
LEMMA DownTypes == TypeOK /\ DownStep => TypeOK'
<1> SUFFICES ASSUME TypeOK, DownStep PROVE TypeOK'
  OBVIOUS
<1> USE TypeSplit, RelayAssumption
<1>0. ProgType'
  BY TypeFrame DEF DownStep, DownRead, DownEnds, DownWrite, DownWriteFails, DownClose
<1>1. CASE DownRead
  <2>1. /\ Head(inCh) \in Nat /\ Len(inCh) \in Nat
        /\ inCh' \in Seq(Nat) /\ Len(inCh') = Len(inCh) - 1
    BY <1>1, TailContents, TypeParts DEF DownRead
  <2> QED  BY <1>0, <1>1, <2>1 DEF DownRead, Down, SockType, sockVars, CopyType, StreamType
<1>2. CASE DownWrite
  BY <1>0, <1>2, PutType DEF DownWrite, Down, SockType, CopyType, StreamType, streamVars
<1>3. CASE DownEnds \/ DownWriteFails \/ DownClose
  BY <1>0, <1>3 DEF DownEnds, DownWriteFails, DownClose, Down, SockType, sockVars, CopyType,
                   StreamType, streamVars
<1> QED  BY <1>1, <1>2, <1>3 DEF DownStep

\* Every step keeps the types.
LEMMA TypeStep == TypeOK /\ [Next]_vars => TypeOK'
<1>1. TypeOK /\ UNCHANGED vars => TypeOK'
  BY TypeSplit, TypeFrame DEF vars
<1> QED
  BY <1>1, ProgramTypes, SessionTypes, HandlerTypes, UpTypes, DownTypes DEF Next

----------------------------------------------------------------------------
(* The handler, the copies and the stream *)

\* The copies run only while the handler relays, and the stream is there from
\* CreateStream on.
LEMMA HandlerFitsStep == TypeOK /\ HandlerFits /\ [Next]_vars => HandlerFits'
<1> SUFFICES ASSUME TypeOK, HandlerFits, [Next]_vars PROVE HandlerFits'
  OBVIOUS
<1> USE DEF HandlerFits, Asking, Finishing
<1>1. CASE Program \/ UNCHANGED vars
  BY <1>1 DEF Program, ProgramSays, ProgramHears, ProgramShuts, ProgramLeaves, Reset,
              copyVars, streamVars, vars
<1>2. CASE Session
  BY <1>2 DEF Session, Push, TargetEnds, LinkLost, RunStuck, LinkBack, copyVars
<1>3. CASE HandlerStep
  <2>1. CASE Greet \/ GreetFails \/ ReadRequest \/ RequestFails \/ OpenFails
    BY <2>1 DEF Greet, GreetFails, ReadRequest, RequestFails, OpenFails, Handler, streamVars
  <2>2. CASE Opens \/ GrantFails \/ RefuseIt \/ CopyDone \/ HangUp
    BY <2>2 DEF Opens, GrantFails, RefuseIt, CopyDone, HangUp, Handler, streamVars
  <2>3. CASE GrantIt
    BY <2>3 DEF GrantIt, streamVars
  <2>4. CASE CloseStream
    BY <2>4 DEF CloseStream, Handler, BeginClose, EndClose
  <2> QED  BY <1>3, <2>1, <2>2, <2>3, <2>4 DEF HandlerStep
<1>4. CASE UpStep
  <2>1. CASE UpRead \/ UpEnds \/ UpWrite \/ UpSend \/ UpWriteFails
    BY <2>1 DEF UpRead, UpEnds, UpWrite, UpSend, UpWriteFails, Up, streamVars
  <2>2. CASE UpClose
    BY <2>2 DEF UpClose, Up, BeginClose, EndClose
  <2> QED  BY <1>4, <2>1, <2>2 DEF UpStep
<1>5. CASE DownStep
  BY <1>5 DEF DownStep, DownRead, DownEnds, DownWrite, DownWriteFails, DownClose, Down, streamVars
<1> QED  BY <1>1, <1>2, <1>3, <1>4, <1>5 DEF Next

----------------------------------------------------------------------------
(* From the program to the stream *)

UpInv == NothingSkipped /\ SaidInOrder /\ HeadersFirst /\ UpFits

\* A step that neither sends nor takes, and begins to read nothing.
LEMMA UpFrame ==
  ASSUME TypeOK, HandlerFits, UpInv,
         UNCHANGED <<stage, said, toAgent, upChunk, carried>>,
         prog' = "open" => prog = "open",
         \/ UNCHANGED <<pc, up>>
         \/ up' = up /\ ~(pc' \in {"greet", "request", "open", "grant"})
         \/ up' = up /\ pc' \in {"open", "grant"} /\ pc \in {"open", "grant"}
         \/ pc' = pc /\ up' \in CopyEnded /\ up # "off"
         \/ pc' = pc /\ up = "write" /\ up' = "send"
         \/ pc = "grant" /\ pc' = "relay" /\ up' = "read"
  PROVE  UpInv'
<1>1. NothingSkipped'
  <2> SUFFICES ASSUME Reading', prog' = "open" \/ toAgent' # <<>>
               PROVE  /\ HeadersRead' <= Sent'
                      /\ Len(toAgent') + HeadersRead' + DataRead' = Sent' + said'
                      /\ \A i \in 1 .. Len(toAgent') :
                           toAgent'[i].kind = "data" <=> i + HeadersRead' > Sent'
    BY DEF NothingSkipped
  <2>1. Reading /\ (prog = "open" \/ toAgent # <<>>)
    BY DEF Reading, CopyEnded
  <2>2. HeadersRead' = HeadersRead /\ DataRead' = DataRead /\ Sent' = Sent
    BY DEF Reading, HeadersRead, DataRead, Sent, HandlerFits, Asking, Finishing, CopyEnded
  <2> QED  BY <2>1, <2>2 DEF UpInv, NothingSkipped
<1>2. SaidInOrder' /\ HeadersFirst'
  BY DEF UpInv, SaidInOrder, HeadersFirst
<1>3. UpFits'
  BY DEF UpInv, UpFits, HandlerFits, Asking, Finishing, CopyEnded
<1> QED  BY <1>1, <1>2, <1>3 DEF UpInv

\* What the program has sent is lost as it leaves.
LEMMA UpCleared ==
  ASSUME UpInv, prog' = "gone", toAgent' = <<>>,
         UNCHANGED <<stage, said, upChunk, carried, pc, up>>
  PROVE  UpInv'
BY EmptySeq DEF UpInv, NothingSkipped, SaidInOrder, HeadersFirst, UpFits

\* The program sends the item that is due.
LEMMA UpSays ==
  ASSUME TypeOK, HandlerFits, UpInv, ProgramSays
  PROVE  UpInv'
<1> DEFINE k == Len(toAgent)
<1>1. /\ prog = "open" /\ prog' = "open"
      /\ UNCHANGED <<pc, up, upChunk, carried>>
      /\ k \in Nat /\ said \in Nat /\ carried \in Nat /\ upChunk \in Nat
      /\ Len(toAgent') = k + 1
      /\ \A i \in 1 .. k : toAgent'[i] = toAgent[i] /\ toAgent[i].n \in Nat
  BY SaysType, TypeParts, ItemTypes DEF ProgramSays, copyVars, streamVars
<1>2. \/ /\ stage = "data" /\ stage' = "data" /\ said' = said + 1
         /\ toAgent'[k + 1].kind = "data" /\ toAgent'[k + 1].n = said'
      \/ /\ stage # "data" /\ Sent' = Sent + 1 /\ said' = said /\ Sent \in 0 .. 1
         /\ toAgent'[k + 1].kind # "data"
  BY SaysType DEF Sent
<1>3. Sent \in 0 .. 2 /\ (stage = "data" <=> Sent = 2)
  BY DEF Sent, TypeOK
<1>3p. stage' = "data" => Sent' = 2
  BY DEF Sent
<1>4. NothingSkipped'
  <2>1. SUFFICES ASSUME Reading
                 PROVE  /\ HeadersRead <= Sent'
                        /\ (k + 1) + HeadersRead + DataRead = Sent' + said'
                        /\ \A i \in 1 .. (k + 1) :
                             toAgent'[i].kind = "data" <=> i + HeadersRead > Sent'
    BY <1>1, <2>1 DEF NothingSkipped, Reading, HeadersRead, DataRead
  <2>2. /\ HeadersRead <= Sent /\ k + HeadersRead + DataRead = Sent + said
        /\ \A i \in 1 .. k : toAgent[i].kind = "data" <=> i + HeadersRead > Sent
    BY <1>1, <2>1 DEF UpInv, NothingSkipped
  <2>3. HeadersRead \in 0 .. 2 /\ DataRead \in Nat
    BY <1>1 DEF HeadersRead, DataRead
  <2>4. CASE stage = "data"
    <3>1. DataRead <= said
      BY <1>1 DEF DataRead, UpInv, UpFits
    <3>2. \A i \in 1 .. k : toAgent'[i].kind = "data" <=> i + HeadersRead > 2
      BY <1>1, <1>3, <2>2, <2>4
    <3>3. toAgent'[k + 1].kind = "data" /\ (k + 1) + HeadersRead > 2
      BY <1>1, <1>2, <1>3, <2>2, <2>3, <2>4, <3>1
    <3> QED  BY <1>1, <1>2, <1>3, <1>3p, <2>2, <2>3, <2>4, <3>2, <3>3
  <2>5. CASE stage # "data"
    <3>1. said = 0 /\ \A i \in 1 .. k : toAgent[i].kind # "data"
      BY <2>5 DEF UpInv, HeadersFirst
    <3> QED  BY <1>1, <1>2, <1>3, <2>2, <2>3, <2>5, <3>1
  <2> QED  BY <2>4, <2>5
<1>5. SaidInOrder'
  <2>1. CASE stage = "data"
    <3>1. \A i \in 1 .. k : toAgent[i].kind = "data" => toAgent[i].n + k = said + i
      BY DEF UpInv, SaidInOrder
    <3>2. \A i \in 1 .. (k + 1) : toAgent'[i].kind = "data" =>
                                  toAgent'[i].n + (k + 1) = (said + 1) + i
      <4> TAKE i \in 1 .. (k + 1)
      <4>1. CASE i \in 1 .. k
        <5>1. toAgent'[i] = toAgent[i] /\ toAgent[i].n \in Nat /\ i \in Nat
          BY <1>1, <4>1
        <5>2. toAgent[i].kind = "data" => toAgent[i].n + k = said + i
          BY <3>1, <4>1
        <5>3. k \in Nat /\ said \in Nat
          BY <1>1
        <5> QED  BY <5>1, <5>2, <5>3
      <4>2. CASE i = k + 1
        BY <1>1, <1>2, <2>1, <4>2
      <4> QED  BY <1>1, <4>1, <4>2
    <3> QED  BY <1>1, <1>2, <2>1, <3>2 DEF SaidInOrder
  <2>2. CASE stage # "data"
    BY <1>1, <1>2, <2>2 DEF UpInv, SaidInOrder, HeadersFirst
  <2> QED  BY <2>1, <2>2
<1>6. HeadersFirst'
  BY <1>1, <1>2 DEF UpInv, HeadersFirst
<1>7. UpFits'
  BY <1>1, <1>2 DEF UpInv, UpFits
<1> QED  BY <1>4, <1>5, <1>6, <1>7 DEF UpInv

\* The agent takes the item that is due: a header, or the next chunk.
LEMMA UpTakes ==
  ASSUME TypeOK, HandlerFits, UpInv, NEW kind, Takes(kind),
         UNCHANGED <<prog, stage, said, carried>>,
         \/ kind # "data" /\ UNCHANGED <<up, upChunk>> /\ pc = "greet" /\ pc' = "request"
         \/ kind # "data" /\ UNCHANGED <<up, upChunk>> /\ pc = "request" /\ pc' = "open"
         \/ kind # "data" /\ UNCHANGED <<up, upChunk>> /\ pc' \in {"refuse", "hangUp"}
              /\ pc \in Asking
         \/ /\ kind = "data" /\ up = "read" /\ up' = "write" /\ pc' = pc
            /\ upChunk' = Head(toAgent).n
  PROVE  UpInv'
<1> DEFINE k == Len(toAgent)
<1>1. /\ k \in Nat /\ k >= 1 /\ said \in Nat /\ carried \in Nat
      /\ toAgent[1].kind = kind /\ Head(toAgent) = toAgent[1] /\ toAgent # <<>>
      /\ Len(toAgent') = k - 1
      /\ \A i \in 1 .. (k - 1) : toAgent'[i] = toAgent[i + 1]
      /\ \A i \in 1 .. k : toAgent[i].n \in Nat
  BY TakesType, TypeParts, ItemTypes DEF Takes
<1>2. Sent \in 0 .. 2 /\ Sent' = Sent
  BY DEF Sent
<1>3. SaidInOrder' /\ HeadersFirst'
  <2>1. \A i \in 1 .. k : toAgent[i].kind = "data" => toAgent[i].n + k = said + i
    BY DEF UpInv, SaidInOrder
  <2>2. \A i \in 1 .. (k - 1) : toAgent'[i].kind = "data" => toAgent'[i].n + (k - 1) = said + i
    <3> TAKE i \in 1 .. (k - 1)
    <3>1. i + 1 \in 1 .. k /\ toAgent'[i] = toAgent[i + 1]
      BY <1>1
    <3>2. /\ toAgent[i + 1].n \in Nat
          /\ toAgent[i + 1].kind = "data" => toAgent[i + 1].n + k = said + (i + 1)
      BY <1>1, <2>1, <3>1
    <3>3. k \in Nat /\ said \in Nat /\ i \in Nat
      BY <1>1
    <3> QED  BY <3>1, <3>2, <3>3
  <2>3. HeadersFirst'
    BY <1>1 DEF UpInv, HeadersFirst
  <2> QED  BY <1>1, <2>2, <2>3 DEF SaidInOrder
<1>4. CASE kind # "data"
  <2>1. up = "off" /\ up' = "off"
    BY <1>4 DEF HandlerFits, Asking
  <2>2. UpFits'
    BY <1>4, <2>1 DEF UpInv, UpFits
  <2>3. CASE pc \in {"greet", "request"} /\ pc' \in {"request", "open"}
    <3>1. /\ Reading /\ HeadersRead' = HeadersRead + 1 /\ HeadersRead \in 0 .. 1
          /\ DataRead = carried /\ DataRead' = carried
      BY <1>4, <2>1, <2>3 DEF Reading, HeadersRead, DataRead
    <3>2. /\ k + HeadersRead + DataRead = Sent + said
          /\ \A i \in 1 .. k : toAgent[i].kind = "data" <=> i + HeadersRead > Sent
      BY <1>1, <3>1 DEF UpInv, NothingSkipped
    <3>3. HeadersRead + 1 <= Sent
      BY <1>1, <1>2, <1>4, <3>1, <3>2
    <3>4. \A i \in 1 .. (k - 1) : toAgent'[i].kind = "data" <=> i + (HeadersRead + 1) > Sent
      BY <1>1, <1>2, <3>1, <3>2
    <3>5. Len(toAgent') + HeadersRead' + DataRead' = Sent' + said'
      <4>1. /\ k \in Nat /\ said \in Nat /\ carried \in Nat /\ Len(toAgent') = k - 1
            /\ said' = said
        BY <1>1
      <4>2. k + HeadersRead + carried = Sent + said
        BY <3>1, <3>2
      <4> QED  BY <1>2, <3>1, <4>1, <4>2
    <3>6. NothingSkipped'
      BY <1>1, <1>2, <3>1, <3>3, <3>4, <3>5 DEF NothingSkipped
    <3> QED  BY <1>3, <2>2, <3>6 DEF UpInv
  <2>4. CASE pc' \in {"refuse", "hangUp"}
    BY <1>3, <2>1, <2>2, <2>4 DEF UpInv, NothingSkipped, Reading
  <2> QED  BY <1>4, <2>3, <2>4
<1>5. CASE kind = "data"
  <2>1. /\ Reading /\ HeadersRead = 2 /\ HeadersRead' = 2
        /\ DataRead = carried /\ DataRead' = carried + 1
    BY <1>5 DEF Reading, HeadersRead, DataRead, HandlerFits, Asking, Finishing
  <2>2. /\ 2 <= Sent /\ k + 2 + carried = Sent + said
        /\ \A i \in 1 .. k : toAgent[i].kind = "data" <=> i + 2 > Sent
    BY <1>1, <2>1 DEF UpInv, NothingSkipped
  <2>3. upChunk' = carried + 1 /\ upChunk' <= said
    BY <1>1, <1>2, <1>5, <2>2 DEF UpInv, SaidInOrder
  <2>4. NothingSkipped'
    BY <1>1, <1>2, <2>1, <2>2 DEF NothingSkipped
  <2>5. UpFits'
    BY <1>5, <2>3 DEF UpInv, UpFits
  <2> QED  BY <1>3, <2>4, <2>5 DEF UpInv
<1> QED  BY <1>4, <1>5

\* A chunk goes out: it was read before, and counts as carried from now on.
LEMMA UpSends ==
  ASSUME TypeOK, HandlerFits, UpInv, UpSend
  PROVE  UpInv'
<1>1. /\ up = "send" /\ up' = "read" /\ carried' = upChunk
      /\ UNCHANGED <<prog, stage, said, toAgent, pc, upChunk>>
  BY DEF UpSend, Up, progVars, sockVars
<1>2. upChunk = carried + 1 /\ upChunk <= said
  BY <1>1 DEF UpInv, UpFits
<1>3. UpFits'
  BY <1>1, <1>2 DEF UpFits
<1>4. NothingSkipped'
  <2>1. Reading /\ Reading' /\ HeadersRead' = HeadersRead /\ Sent' = Sent /\ DataRead' = DataRead
    BY <1>1, <1>2 DEF Reading, HeadersRead, Sent, DataRead
  <2> QED  BY <1>1, <2>1 DEF UpInv, NothingSkipped
<1> QED  BY <1>1, <1>3, <1>4 DEF UpInv, SaidInOrder, HeadersFirst

\* Every step keeps what is on its way from the program to the session.
LEMMA UpInvStep == TypeOK /\ HandlerFits /\ UpInv /\ [Next]_vars => UpInv'
<1> SUFFICES ASSUME TypeOK, HandlerFits, UpInv, [Next]_vars PROVE UpInv'
  OBVIOUS
<1>1. CASE ProgramHears \/ ProgramShuts \/ Session \/ DownStep \/ UNCHANGED vars
  BY <1>1, UpFrame
  DEF ProgramHears, ProgramShuts, Session, Push, TargetEnds, LinkLost, RunStuck, LinkBack,
      DownStep, DownRead, DownEnds, DownWrite, DownWriteFails, DownClose, Down,
      vars, progVars, sockVars, copyVars, streamVars
<1>2. CASE ProgramSays
  BY <1>2, UpSays
<1>3. CASE ProgramLeaves \/ Reset
  <2>1. CASE toAgent' = <<>>
    BY <1>3, <2>1, UpCleared DEF ProgramLeaves, Reset, copyVars, streamVars
  <2>2. CASE toAgent' = toAgent
    BY <1>3, <2>2, UpFrame DEF ProgramLeaves, Reset, copyVars, streamVars
  <2> QED  BY <1>3, <2>1, <2>2 DEF ProgramLeaves, Reset
<1>4. CASE Greet
  BY <1>4, UpTakes DEF Greet, Handler, progVars, streamVars
<1>5. CASE ReadRequest
  BY <1>5, UpTakes DEF ReadRequest, Handler, progVars, streamVars
<1>6. CASE GreetFails \/ RequestFails
  <2>1. CASE UNCHANGED toAgent
    BY <1>6, <2>1, UpFrame DEF GreetFails, RequestFails, Handler, progVars, streamVars
  <2>2. CASE \E kind \in {"greeting", "junk"} : Takes(kind)
    BY <1>6, <2>2, UpTakes DEF GreetFails, RequestFails, Handler, progVars, streamVars, Asking
  <2> QED  BY <1>6, <2>1, <2>2 DEF GreetFails, RequestFails
<1>7. CASE Opens \/ OpenFails \/ GrantFails \/ RefuseIt \/ CopyDone \/ CloseStream \/ HangUp
  BY <1>7, UpFrame
  DEF Opens, OpenFails, GrantFails, RefuseIt, CopyDone, CloseStream, HangUp, Handler,
      progVars, sockVars, streamVars
<1>8. CASE GrantIt
  BY <1>8, UpFrame DEF GrantIt, progVars, streamVars
<1>9. CASE UpRead
  BY <1>9, UpTakes DEF UpRead, Up, progVars, streamVars
<1>10. CASE UpSend
  BY <1>10, UpSends
<1>11. CASE UpEnds \/ UpWrite \/ UpWriteFails \/ UpClose
  BY <1>11, UpFrame
  DEF UpEnds, UpWrite, UpWriteFails, UpClose, Up, CopyEnded, progVars, sockVars, streamVars
<1> QED
  BY <1>1, <1>2, <1>3, <1>4, <1>5, <1>6, <1>7, <1>8, <1>9, <1>10, <1>11
  DEF Next, Program, HandlerStep, UpStep

----------------------------------------------------------------------------
(* From the stream to the program *)

DownInv == /\ AnsweredOnce /\ DataLast /\ DataGranted /\ NotYetAnswered
           /\ HeardInOrder /\ PushedInOrder /\ DownFits

\* A step that neither writes to the program nor takes from the stream.
LEMMA DownFrame ==
  ASSUME TypeOK, HandlerFits, DownInv,
         UNCHANGED <<prog, answer, heard, toProg, inCh, pushed>>,
         pc' \in Asking \cup {"grant"} => pc \in Asking \cup {"grant"},
         \/ stream' = "none" <=> stream = "none"
         \/ pc = "open",
         \/ UNCHANGED <<dn, dnChunk>>
         \/ dn # "off" /\ dn' \in {"close", "done"}
  PROVE  DownInv'
<1>1. AnsweredOnce'
  BY DEF DownInv, AnsweredOnce, NotYetAnswered, IsAnswer, Asking
<1>2. DataLast' /\ NotYetAnswered' /\ HeardInOrder' /\ PushedInOrder'
  BY DEF DownInv, DataLast, NotYetAnswered, HeardInOrder, PushedInOrder, IsData
<1>3. DataGranted'
  BY DEF DownInv, DataGranted, Granted, IsData
<1>4. DownFits'
  BY DEF DownInv, DownFits, Delivered
<1> QED  BY <1>1, <1>2, <1>3, <1>4 DEF DownInv

\* What the program has not received is lost as it leaves.
LEMMA DownCleared ==
  ASSUME DownInv, prog' = "gone", toProg' = <<>>,
         UNCHANGED <<answer, heard, inCh, pushed, pc, stream, dn, dnChunk>>
  PROVE  DownInv'
BY EmptySeq DEF DownInv, AnsweredOnce, DataLast, DataGranted, NotYetAnswered, HeardInOrder,
                PushedInOrder, DownFits, IsAnswer, IsData

\* Nothing is written to a program that has left.
LEMMA DownToNobody ==
  ASSUME TypeOK, DownInv, prog = "gone", prog' = "gone", toProg' = toProg,
         UNCHANGED <<answer, heard, inCh, pushed, stream>>,
         pc' \in Asking \cup {"grant"} => pc \in Asking \cup {"grant"},
         dn' = "write" => dn = "write" /\ dnChunk' = dnChunk
  PROVE  DownInv'
<1>1. AnsweredOnce' /\ DataLast' /\ NotYetAnswered' /\ HeardInOrder' /\ PushedInOrder'
  BY DEF DownInv, AnsweredOnce, DataLast, NotYetAnswered, HeardInOrder, PushedInOrder,
         IsAnswer, IsData
<1>2. DataGranted'
  BY DEF DownInv, DataGranted, IsData
<1>3. DownFits'
  BY DEF DownInv, DownFits
<1> QED  BY <1>1, <1>2, <1>3 DEF DownInv

\* The handler writes its reply to the greeting or to the request.
LEMMA DownReplies ==
  ASSUME TypeOK, HandlerFits, DownInv, prog # "gone",
         NEW kind \in {"method", "granted", "refused"}, Put(kind, 0),
         UNCHANGED <<prog, answer, heard, inCh, pushed, stream>>,
         \/ kind = "method" /\ pc = "greet" /\ pc' = "request" /\ dn' = dn
         \/ kind = "granted" /\ pc = "grant" /\ pc' = "relay" /\ dn' = "read"
         \/ kind = "refused" /\ pc = "refuse" /\ pc' = "hangUp" /\ dn' = dn
  PROVE  DownInv'
<1>k. PICK k \in Nat : k = Len(toProg)
  BY TypeParts
<1> USE <1>k
<1>1. /\ Len(toProg') = k + 1 /\ toProg' # <<>>
      /\ toProg'[k + 1].kind = kind
      /\ \A i \in 1 .. k : toProg'[i] = toProg[i]
  <2>1. kind \in {"method", "granted", "refused", "data"} /\ 0 \in Nat
    OBVIOUS
  <2> QED  BY <2>1, PutType
<1>2. /\ answer = "none" /\ heard = 0 /\ answer' = "none" /\ heard' = 0
      /\ \A i \in 1 .. k : toProg'[i].kind = "method"
  BY <1>1 DEF DownInv, NotYetAnswered, Asking
<1>3. \A i \in 1 .. (k + 1) : ~IsData(i)' /\ (i <= k => ~IsAnswer(i)')
  BY <1>1, <1>2 DEF IsData, IsAnswer
<1>4. AnsweredOnce'
  <2>1. ASSUME NEW i \in 1 .. (k + 1), IsAnswer(i)'
        PROVE  i = k + 1 /\ kind # "method"
    BY <1>1, <1>3, <2>1 DEF IsAnswer
  <2>2. kind # "method" => (kind = "refused" <=> stream' = "none")
    BY DEF HandlerFits, Asking
  <2> QED  BY <1>1, <1>2, <2>1, <2>2 DEF AnsweredOnce
<1>5. DataLast' /\ HeardInOrder'
  BY <1>1, <1>3 DEF DataLast, HeardInOrder
<1>6. DataGranted'
  <2>1. (kind = "granted") => Granted'
    BY <1>1 DEF Granted
  <2>2. kind # "granted" => dn' = "off"
    BY DEF HandlerFits, Asking
  <2> QED  BY <1>1, <1>3, <2>1, <2>2 DEF DataGranted
<1>7. NotYetAnswered'
  BY <1>1, <1>2 DEF NotYetAnswered, Asking
<1>8. DownFits'
  <2>1. dn = "off" /\ dn' \in {"off", "read"}
    BY DEF HandlerFits, Asking
  <2>2. Delivered = 0 /\ Delivered' = 0
    BY <1>1, <1>2 DEF Delivered
  <2> QED  BY <2>1, <2>2 DEF DownInv, DownFits
<1>9. PushedInOrder'
  BY DEF DownInv, PushedInOrder
<1> QED  BY <1>4, <1>5, <1>6, <1>7, <1>8, <1>9 DEF DownInv

\* The copy writes a chunk.
LEMMA DownWrites ==
  ASSUME TypeOK, HandlerFits, DownInv, prog # "gone", DownWrite
  PROVE  DownInv'
<1>k. PICK k \in Nat : k = Len(toProg)
  BY TypeParts
<1> USE <1>k
<1>0. /\ dn = "write" /\ dn' = "read" /\ Put("data", dnChunk) /\ dnChunk \in Nat
      /\ UNCHANGED <<prog, answer, heard, inCh, pushed, stream, pc, dnChunk>>
      /\ pushed \in Nat /\ heard \in Nat /\ Len(inCh) \in Nat
  BY TypeParts DEF DownWrite, Down, progVars, streamVars
<1>1. /\ Len(toProg') = k + 1 /\ toProg' # <<>>
      /\ toProg'[k + 1].kind = "data" /\ toProg'[k + 1].n = dnChunk
      /\ \A i \in 1 .. k : toProg'[i] = toProg[i]
  BY <1>0, PutType
<1>2. /\ dnChunk + Len(inCh) = pushed /\ Delivered + 1 = dnChunk /\ Granted
  BY <1>0 DEF DownInv, DownFits, DataGranted
<1>4. AnsweredOnce'
  <2> SUFFICES ASSUME NEW i \in 1 .. k, IsAnswer(i)
               PROVE  /\ answer = "none"
                      /\ \A j \in 1 .. (k + 1) : j < i => toProg'[j].kind = "method"
                      /\ \A j \in 1 .. (k + 1) : j > i => toProg'[j].kind = "data"
                      /\ toProg'[i].kind = "refused" <=> stream = "none"
    BY <1>0, <1>1 DEF AnsweredOnce, IsAnswer
  <2>1. /\ answer = "none"
        /\ \A j \in 1 .. k : j < i => toProg[j].kind = "method"
        /\ \A j \in 1 .. k : j > i => toProg[j].kind = "data"
        /\ toProg[i].kind = "refused" <=> stream = "none"
    BY DEF DownInv, AnsweredOnce
  <2> QED  BY <1>1, <2>1
<1>5. DataLast'
  <2>1. \A i, j \in 1 .. k : (toProg[i].kind = "data" /\ i < j) => toProg[j].kind = "data"
    BY DEF DownInv, DataLast, IsData
  <2>2. \A i, j \in 1 .. (k + 1) : (toProg'[i].kind = "data" /\ i < j) => toProg'[j].kind = "data"
    <3> TAKE i, j \in 1 .. (k + 1)
    <3>1. CASE j = k + 1
      BY <1>1, <3>1
    <3>2. CASE j # k + 1 /\ i < j
      <4>1. i \in 1 .. k /\ j \in 1 .. k
        BY <3>2
      <4> QED  BY <1>1, <2>1, <4>1
    <3> QED  BY <3>1, <3>2
  <2> QED  BY <1>1, <2>2 DEF DataLast, IsData
<1>6. DataGranted'
  <2>1. Granted'
    BY <1>0, <1>1, <1>2 DEF Granted
  <2>2. \A i \in 1 .. (k + 1) : toProg'[i].kind = "data" =>
          (answer = "granted" \/ \E j \in 1 .. (k + 1) : j < i /\ toProg'[j].kind = "granted")
    <3>1. CASE answer = "granted"
      BY <3>1
    <3>2. CASE answer # "granted"
      <4>1. PICK j \in 1 .. k : toProg[j].kind = "granted"
        BY <1>2, <3>2 DEF Granted
      <4>2. \A i \in 1 .. k : toProg[i].kind = "data" => j < i
        <5> TAKE i \in 1 .. k
        <5>1. IsAnswer(j)
          BY <4>1 DEF IsAnswer
        <5>2. i < j => toProg[i].kind = "method"
          BY <5>1 DEF DownInv, AnsweredOnce
        <5> QED  BY <4>1, <5>2
      <4>3. j \in 1 .. (k + 1) /\ j < k + 1 /\ toProg'[j].kind = "granted"
        BY <1>1, <4>1
      <4>4. \A i \in 1 .. (k + 1) : toProg'[i].kind = "data" => j < i
        BY <1>1, <4>2, <4>3
      <4> QED  BY <4>3, <4>4
    <3> QED  BY <3>1, <3>2
  <2> QED  BY <1>0, <1>1, <2>1, <2>2 DEF DataGranted, IsData
<1>7. NotYetAnswered'
  BY <1>0 DEF NotYetAnswered, HandlerFits, Asking
<1>t. dnChunk <= pushed
  BY <1>0, <1>2
<1>h. \A i \in 1 .. k : toProg'[i].kind = "data" =>
        /\ toProg'[i].n <= pushed
        /\ IF i # 1 /\ toProg'[i - 1].kind = "data" THEN toProg'[i].n = toProg'[i - 1].n + 1
                                                    ELSE toProg'[i].n = heard + 1
  <2> TAKE i \in 1 .. k
  <2>1. toProg[i].kind = "data" =>
        /\ toProg[i].n <= pushed
        /\ IF i # 1 /\ toProg[i - 1].kind = "data" THEN toProg[i].n = toProg[i - 1].n + 1
                                                    ELSE toProg[i].n = heard + 1
    BY DEF DownInv, HeardInOrder, IsData
  <2>2. i # 1 => i - 1 \in 1 .. k /\ toProg'[i - 1] = toProg[i - 1]
    BY <1>1
  <2> QED  BY <1>1, <2>1, <2>2
<1>8. HeardInOrder'
  <2>1. CASE k >= 1 /\ toProg[k].kind = "data"
    <3>1. Delivered = toProg[k].n
      BY <2>1, TypeParts, EmptySeq DEF Delivered
    <3> QED  BY <1>0, <1>1, <1>2, <1>t, <2>1, <3>1, <1>h DEF HeardInOrder, IsData
  <2>2. CASE ~(k >= 1 /\ toProg[k].kind = "data")
    <3>1. Delivered = heard
      BY <2>2, TypeParts, EmptySeq DEF Delivered
    <3>2. /\ toProg'[k + 1].n <= pushed /\ toProg'[k + 1].n = heard + 1
          /\ ~(k + 1 # 1 /\ toProg'[k].kind = "data")
      BY <1>0, <1>1, <1>2, <1>t, <2>2, <3>1
    <3>3. (k + 1) - 1 = k
      OBVIOUS
    <3> QED  BY <1>0, <1>1, <3>2, <3>3, <1>h DEF HeardInOrder, IsData
  <2> QED  BY <2>1, <2>2
<1>9. PushedInOrder' /\ DownFits'
  <2>1. Delivered' = dnChunk
    BY <1>1 DEF Delivered
  <2> QED  BY <1>0, <1>2, <2>1 DEF DownInv, PushedInOrder, DownFits
<1> QED  BY <1>4, <1>5, <1>6, <1>7, <1>8, <1>9 DEF DownInv

\* The last chunk that was written stays that, heard or not.
LEMMA HearsDelivered ==
  ASSUME TypeOK, DataLast, ProgramHears
  PROVE  Delivered' = Delivered
<1>k. PICK k \in Nat : k = Len(toProg)
  BY TypeParts
<1> USE <1>k
<1>1. /\ k >= 1 /\ Len(toProg') = k - 1 /\ toProg # <<>>
      /\ \A i \in 1 .. (k - 1) : toProg'[i] = toProg[i + 1]
      /\ toProg' \in Seq(ToProgItems)
      /\ heard' = IF toProg[1].kind = "data" THEN toProg[1].n ELSE heard
  BY TailContents, TypeParts DEF ProgramHears
<1>2. CASE k = 1
  <2>1. toProg' = <<>>
    BY <1>1, <1>2, EmptySeq
  <2> QED  BY <1>1, <1>2, <2>1 DEF Delivered
<1>3. CASE k > 1
  <2>1. toProg' # <<>> /\ k - 1 \in 1 .. (k - 1) /\ (k - 1) + 1 = k
    BY <1>1, <1>3, EmptySeq
  <2>2. toProg'[k - 1] = toProg[k]
    BY <1>1, <2>1
  <2>3. toProg[1].kind = "data" => toProg[k].kind = "data"
    BY <1>3 DEF DataLast, IsData
  <2> QED  BY <1>1, <2>1, <2>2, <2>3 DEF Delivered
<1> QED  BY <1>1, <1>2, <1>3

\* The program receives the oldest item.
LEMMA DownHears ==
  ASSUME TypeOK, DownInv, ProgramHears
  PROVE  DownInv'
<1>k. PICK k \in Nat : k = Len(toProg)
  BY TypeParts
<1> USE <1>k
<1>0. /\ prog # "gone" /\ UNCHANGED <<prog, pc, stream, dn, dnChunk, inCh, pushed>>
      /\ heard \in Nat
  BY TypeParts DEF ProgramHears, copyVars, streamVars
<1>1. /\ k >= 1 /\ Head(toProg) = toProg[1] /\ Len(toProg') = k - 1
      /\ \A i \in 1 .. (k - 1) : toProg'[i] = toProg[i + 1]
      /\ toProg' \in Seq(ToProgItems)
  BY TailContents, TypeParts DEF ProgramHears
<1>2. /\ heard' = IF toProg[1].kind = "data" THEN toProg[1].n ELSE heard
      /\ answer' = IF toProg[1].kind \in {"granted", "refused"} THEN toProg[1].kind ELSE answer
  BY <1>1 DEF ProgramHears
<1>3. \A i \in 1 .. (k - 1) : i \in 1 .. k /\ i + 1 \in 1 .. k /\ i + 1 > 1 /\ (i + 1) - 1 = i
  OBVIOUS
<1>a. \A i \in 1 .. k : toProg[i].kind \in {"granted", "refused"} =>
        /\ answer = "none"
        /\ \A j \in 1 .. k : j < i => toProg[j].kind = "method"
        /\ \A j \in 1 .. k : j > i => toProg[j].kind = "data"
        /\ toProg[i].kind = "refused" <=> stream = "none"
  BY DEF DownInv, AnsweredOnce, IsAnswer
<1>d. \A i, j \in 1 .. k : (toProg[i].kind = "data" /\ i < j) => toProg[j].kind = "data"
  BY DEF DownInv, DataLast, IsData
<1>4. AnsweredOnce'
  <2> SUFFICES ASSUME NEW i \in 1 .. (k - 1), toProg'[i].kind \in {"granted", "refused"}
               PROVE  /\ answer' = "none"
                      /\ \A j \in 1 .. (k - 1) : j < i => toProg'[j].kind = "method"
                      /\ \A j \in 1 .. (k - 1) : j > i => toProg'[j].kind = "data"
                      /\ toProg'[i].kind = "refused" <=> stream = "none"
    BY <1>0, <1>1 DEF AnsweredOnce, IsAnswer
  <2>1. /\ answer = "none"
        /\ \A j \in 1 .. k : j < i + 1 => toProg[j].kind = "method"
        /\ \A j \in 1 .. k : j > i + 1 => toProg[j].kind = "data"
        /\ toProg[i + 1].kind = "refused" <=> stream = "none"
    BY <1>1, <1>3, <1>a
  <2>2. answer' = "none"
    BY <1>1, <1>2, <1>3, <2>1
  <2>3. \A j \in 1 .. (k - 1) : j < i => toProg'[j].kind = "method"
    BY <1>1, <1>3, <2>1
  <2>4. \A j \in 1 .. (k - 1) : j > i => toProg'[j].kind = "data"
    BY <1>1, <1>3, <2>1
  <2> QED  BY <1>1, <2>1, <2>2, <2>3, <2>4
<1>5. DataLast'
  <2>1. \A i, j \in 1 .. (k - 1) : (toProg'[i].kind = "data" /\ i < j) => toProg'[j].kind = "data"
    BY <1>1, <1>3, <1>d
  <2> QED  BY <1>1, <2>1 DEF DataLast, IsData
<1>6. NotYetAnswered'
  BY <1>0, <1>1, <1>2, <1>3 DEF DownInv, NotYetAnswered
<1>7. DataGranted'
  <2>1. answer = "granted" => answer' = "granted"
    BY <1>1, <1>2, <1>a
  <2>2. \A j \in 1 .. k : toProg[j].kind = "granted" =>
          answer' = "granted" \/ (j - 1 \in 1 .. (k - 1) /\ toProg'[j - 1].kind = "granted")
    <3> TAKE j \in 1 .. k
    <3>1. CASE j = 1
      BY <1>2, <3>1
    <3>2. CASE j # 1
      <4>1. j - 1 \in 1 .. (k - 1) /\ (j - 1) + 1 = j
        BY <3>2
      <4> QED  BY <1>1, <4>1
    <3> QED  BY <3>1, <3>2
  <2>3. \A i \in 1 .. (k - 1) : toProg'[i].kind = "data" =>
          (answer' = "granted" \/ \E j \in 1 .. (k - 1) : j < i /\ toProg'[j].kind = "granted")
    <3> SUFFICES ASSUME NEW i \in 1 .. (k - 1), toProg'[i].kind = "data", answer' # "granted"
                 PROVE  \E j \in 1 .. (k - 1) : j < i /\ toProg'[j].kind = "granted"
      OBVIOUS
    <3>1. i + 1 \in 1 .. k /\ toProg[i + 1].kind = "data"
      BY <1>1, <1>3
    <3>2. answer = "granted" \/ \E j \in 1 .. k : j < i + 1 /\ toProg[j].kind = "granted"
      BY <3>1 DEF DownInv, DataGranted, IsData
    <3>3. PICK j \in 1 .. k : j < i + 1 /\ toProg[j].kind = "granted"
      BY <2>1, <3>2
    <3>4. j - 1 \in 1 .. (k - 1) /\ toProg'[j - 1].kind = "granted" /\ j - 1 < i
      BY <2>2, <3>3
    <3> QED  BY <3>4
  <2>4. Granted => Granted'
    BY <1>1, <2>1, <2>2 DEF Granted
  <2> QED  BY <1>0, <1>1, <2>3, <2>4 DEF DownInv, DataGranted, IsData
<1>h. \A i \in 1 .. k : toProg[i].kind = "data" =>
        /\ toProg[i].n <= pushed
        /\ IF i # 1 /\ toProg[i - 1].kind = "data" THEN toProg[i].n = toProg[i - 1].n + 1
                                                   ELSE toProg[i].n = heard + 1
  BY <1>1 DEF DownInv, HeardInOrder, IsData
<1>8. HeardInOrder'
  <2>1. \A i \in 1 .. (k - 1) : toProg'[i].kind = "data" =>
          /\ toProg'[i].n <= pushed
          /\ IF i # 1 /\ toProg'[i - 1].kind = "data" THEN toProg'[i].n = toProg'[i - 1].n + 1
                                                      ELSE toProg'[i].n = heard' + 1
    <3> SUFFICES ASSUME NEW i \in 1 .. (k - 1), toProg'[i].kind = "data"
                 PROVE  /\ toProg'[i].n <= pushed
                        /\ IF i # 1 /\ toProg'[i - 1].kind = "data"
                           THEN toProg'[i].n = toProg'[i - 1].n + 1
                           ELSE toProg'[i].n = heard' + 1
      OBVIOUS
    <3>1. /\ i + 1 \in 1 .. k /\ (i + 1) - 1 = i /\ i + 1 # 1 /\ toProg'[i] = toProg[i + 1]
      BY <1>1, <1>3
    <3>2. /\ toProg'[i].n <= pushed
          /\ IF toProg[i].kind = "data" THEN toProg'[i].n = toProg[i].n + 1
                                        ELSE toProg'[i].n = heard + 1
      BY <1>h, <3>1
    <3>3. CASE i = 1
      BY <1>2, <3>2, <3>3
    <3>4. CASE i # 1
      <4>1. i - 1 \in 1 .. (k - 1) /\ (i - 1) + 1 = i
        BY <3>4
      <4>2. toProg'[i - 1] = toProg[i]
        BY <1>1, <4>1
      <4>3. toProg[1].kind = "data" => toProg[i].kind = "data"
        BY <1>1, <1>d, <3>4
      <4> QED  BY <1>2, <3>2, <3>4, <4>2, <4>3
    <3> QED  BY <3>3, <3>4
  <2> QED  BY <1>0, <1>1, <2>1 DEF HeardInOrder, IsData
<1>9. Delivered' = Delivered
  BY HearsDelivered DEF DownInv
<1>10. PushedInOrder' /\ DownFits'
  BY <1>0, <1>9 DEF DownInv, PushedInOrder, DownFits
<1> QED  BY <1>4, <1>5, <1>6, <1>7, <1>8, <1>10 DEF DownInv

\* The session puts the next chunk into the stream.
LEMMA DownPushes ==
  ASSUME TypeOK, HandlerFits, DownInv, Push
  PROVE  DownInv'
<1>0. /\ UNCHANGED <<prog, answer, heard, toProg, pc, stream, dn, dnChunk>>
      /\ pushed \in Nat /\ pushed' = pushed + 1 /\ Len(inCh) \in Nat
      /\ heard \in Nat
  BY TypeParts DEF Push, progVars, sockVars, copyVars
<1>1. /\ Len(inCh') = Len(inCh) + 1 /\ inCh'[Len(inCh) + 1] = pushed + 1
      /\ \A i \in 1 .. Len(inCh) : inCh'[i] = inCh[i] /\ inCh[i] \in Nat
  BY <1>0, AppendContents, TypeParts DEF Push
<1>2. PushedInOrder'
  <2>1. \A i \in 1 .. Len(inCh) : inCh[i] + Len(inCh) = pushed + i
    BY DEF DownInv, PushedInOrder
  <2>2. \A i \in 1 .. (Len(inCh) + 1) : inCh'[i] + (Len(inCh) + 1) = (pushed + 1) + i
    <3> TAKE i \in 1 .. (Len(inCh) + 1)
    <3>1. CASE i = Len(inCh) + 1
      BY <1>0, <1>1, <3>1
    <3>2. CASE i # Len(inCh) + 1
      <4>1. i \in 1 .. Len(inCh)
        BY <1>0, <3>2
      <4>2. inCh'[i] = inCh[i] /\ inCh[i] \in Nat /\ inCh[i] + Len(inCh) = pushed + i
        BY <1>1, <2>1, <4>1
      <4> QED  BY <1>0, <4>1, <4>2
    <3> QED  BY <3>1, <3>2
  <2> QED  BY <1>0, <1>1, <2>2 DEF PushedInOrder
<1>3. HeardInOrder'
  <2>1. \A i \in 1 .. Len(toProg) : toProg[i].n \in Nat
    BY TypeParts, ItemTypes
  <2>2. HeardInOrder
    BY DEF DownInv
  <2>3. \A n \in Nat : n <= pushed => n <= pushed'
    BY <1>0
  <2> QED  BY <1>0, <2>1, <2>2, <2>3 DEF HeardInOrder, IsData
<1>4. DownFits'
  <2>1. Delivered' = Delivered /\ Delivered \in Nat
    BY <1>0, TypeParts, ItemTypes, EmptySeq DEF Delivered
  <2>2. dnChunk \in Nat
    BY TypeParts
  <2>3. DownFits
    BY DEF DownInv
  <2> QED  BY <1>0, <1>1, <2>1, <2>2, <2>3 DEF DownFits
<1>5. AnsweredOnce' /\ DataLast' /\ DataGranted' /\ NotYetAnswered'
  BY <1>0 DEF DownInv, AnsweredOnce, DataLast, DataGranted, Granted, NotYetAnswered, IsAnswer, IsData
<1> QED  BY <1>2, <1>3, <1>4, <1>5 DEF DownInv

\* The copy takes the oldest chunk from the stream.
LEMMA DownTakes ==
  ASSUME TypeOK, HandlerFits, DownInv, DownRead
  PROVE  DownInv'
<1>0. /\ UNCHANGED <<prog, answer, heard, toProg, pc, stream, pushed>>
      /\ dn = "read" /\ dn' = "write"
      /\ pushed \in Nat /\ Len(inCh) \in Nat
  BY TypeParts DEF DownRead, Down, progVars, sockVars
<1>1. /\ Len(inCh) >= 1 /\ Len(inCh') = Len(inCh) - 1 /\ dnChunk' = inCh[1] /\ inCh[1] \in Nat
      /\ \A i \in 1 .. (Len(inCh) - 1) : inCh'[i] = inCh[i + 1]
  BY TailContents, TypeParts DEF DownRead
<1>2. \A i \in 1 .. Len(inCh) : inCh[i] + Len(inCh) = pushed + i /\ inCh[i] \in Nat
  BY TypeParts DEF DownInv, PushedInOrder
<1>3. PushedInOrder'
  <2>1. \A i \in 1 .. (Len(inCh) - 1) : inCh'[i] + (Len(inCh) - 1) = pushed + i
    <3> TAKE i \in 1 .. (Len(inCh) - 1)
    <3>1. i + 1 \in 1 .. Len(inCh) /\ inCh'[i] = inCh[i + 1]
      BY <1>0, <1>1
    <3>2. inCh[i + 1] + Len(inCh) = pushed + (i + 1) /\ inCh[i + 1] \in Nat
      BY <1>2, <3>1
    <3> QED  BY <1>0, <3>1, <3>2
  <2> QED  BY <1>0, <1>1, <2>1 DEF PushedInOrder
<1>4. DownFits'
  <2>1. Delivered' = Delivered /\ Delivered \in Nat
    BY <1>0, TypeParts, ItemTypes, EmptySeq DEF Delivered
  <2>2. inCh[1] + Len(inCh) = pushed + 1
    BY <1>0, <1>1, <1>2
  <2>3. dnChunk' + Len(inCh') = pushed' /\ Len(inCh') <= pushed'
    <3>1. Len(inCh) <= pushed
      BY DEF DownInv, DownFits
    <3>2. /\ pushed' = pushed /\ Len(inCh') = Len(inCh) - 1 /\ dnChunk' = inCh[1]
          /\ inCh[1] \in Nat /\ Len(inCh) \in Nat /\ pushed \in Nat
      BY <1>0, <1>1
    <3> QED  BY <2>2, <3>1, <3>2
  <2>4. prog # "gone" => Delivered' + 1 = dnChunk'
    <3>1. prog # "gone" => Delivered + Len(inCh) = pushed
      BY <1>0 DEF DownInv, DownFits
    <3> QED  BY <1>0, <1>1, <2>1, <2>2, <3>1
  <2> QED  BY <1>0, <2>3, <2>4 DEF DownInv, DownFits
<1>5. AnsweredOnce' /\ DataLast' /\ NotYetAnswered' /\ HeardInOrder'
  BY <1>0 DEF DownInv, AnsweredOnce, DataLast, NotYetAnswered, HeardInOrder, IsAnswer, IsData
<1>6. DataGranted'
  BY <1>0 DEF DownInv, DataGranted, Granted, IsData
<1> QED  BY <1>3, <1>4, <1>5, <1>6 DEF DownInv

\* Every step keeps what is on its way from the session to the program.
LEMMA DownInvStep == TypeOK /\ HandlerFits /\ DownInv /\ [Next]_vars => DownInv'
<1> SUFFICES ASSUME TypeOK, HandlerFits, DownInv, [Next]_vars PROVE DownInv'
  OBVIOUS
<1>1. CASE ProgramSays \/ ProgramShuts \/ UNCHANGED vars
  <2>1. CASE ProgramShuts
    <3>1. AnsweredOnce' /\ DataLast' /\ NotYetAnswered' /\ HeardInOrder' /\ PushedInOrder'
      BY <2>1 DEF ProgramShuts, sockVars, copyVars, streamVars, DownInv, AnsweredOnce, DataLast,
                  NotYetAnswered, HeardInOrder, PushedInOrder, IsAnswer, IsData
    <3>2. DataGranted' /\ DownFits'
      BY <2>1 DEF ProgramShuts, sockVars, copyVars, streamVars, DownInv, DataGranted, Granted,
                  IsData, DownFits, Delivered
    <3> QED  BY <3>1, <3>2 DEF DownInv
  <2>2. CASE ProgramSays \/ UNCHANGED vars
    BY <2>2, DownFrame DEF ProgramSays, vars, progVars, sockVars, copyVars, streamVars
  <2> QED  BY <1>1, <2>1, <2>2
<1>2. CASE ProgramHears
  BY <1>2, DownHears
<1>3. CASE ProgramLeaves \/ Reset
  BY <1>3, DownCleared DEF ProgramLeaves, Reset, copyVars, streamVars
<1>4. CASE Push
  BY <1>4, DownPushes
<1>5. CASE TargetEnds \/ LinkLost \/ RunStuck \/ LinkBack
  BY <1>5, DownFrame DEF TargetEnds, LinkLost, RunStuck, LinkBack, progVars, sockVars, copyVars
<1>6. ASSUME NEW kind \in {"method", "granted", "refused"}, Put(kind, 0),
             UNCHANGED <<prog, answer, heard, inCh, pushed, stream, dnChunk>>,
             \/ kind = "method" /\ pc = "greet" /\ pc' = "request" /\ dn' = dn
             \/ kind = "granted" /\ pc = "grant" /\ pc' = "relay" /\ dn' = "read"
             \/ kind = "refused" /\ pc = "refuse" /\ pc' = "hangUp" /\ dn' = dn
      PROVE  DownInv'
  <2>1. CASE prog # "gone"
    BY <1>6, <2>1, DownReplies
  <2>2. CASE prog = "gone"
    <3>1. toProg' = toProg
      BY <1>6, <2>2 DEF Put
    <3> QED  BY <1>6, <2>2, <3>1, DownToNobody DEF Asking
  <2> QED  BY <2>1, <2>2
<1>7. CASE Greet
  BY <1>6, <1>7 DEF Greet, Handler, progVars, streamVars
<1>8. CASE GrantIt
  BY <1>6, <1>8 DEF GrantIt, progVars, streamVars
<1>9. CASE RefuseIt
  <2>1. CASE Put("refused", 0)
    BY <1>6, <1>9, <2>1 DEF RefuseIt, Handler, progVars, streamVars
  <2>2. CASE UNCHANGED toProg
    BY <1>9, <2>2, DownFrame DEF RefuseIt, Handler, progVars, streamVars, Asking
  <2> QED  BY <1>9, <2>1, <2>2 DEF RefuseIt
<1>10. CASE GreetFails \/ ReadRequest \/ RequestFails \/ OpenFails \/ GrantFails \/ CopyDone \/ HangUp
  BY <1>10, DownFrame
  DEF GreetFails, ReadRequest, RequestFails, OpenFails, GrantFails, CopyDone, HangUp, Handler,
      progVars, sockVars, streamVars, Asking
<1>11. CASE Opens
  BY <1>11, DownFrame DEF Opens, Handler, progVars, sockVars, Asking
<1>12. CASE CloseStream
  <2>1. stream # "none" /\ stream' # "none"
    BY <1>12 DEF CloseStream, Handler, BeginClose, EndClose, HandlerFits
  <2> QED  BY <1>12, <2>1, DownFrame DEF CloseStream, Handler, progVars, sockVars, Asking
<1>13. CASE UpRead \/ UpEnds \/ UpWrite \/ UpSend \/ UpWriteFails
  BY <1>13, DownFrame
  DEF UpRead, UpEnds, UpWrite, UpSend, UpWriteFails, Up, progVars, sockVars, streamVars
<1>14. CASE UpClose
  <2>1. stream # "none" /\ stream' # "none"
    BY <1>14 DEF UpClose, Up, BeginClose, EndClose, HandlerFits
  <2> QED  BY <1>14, <2>1, DownFrame DEF UpClose, Up, progVars, sockVars
<1>15. CASE DownRead
  BY <1>15, DownTakes
<1>16. CASE DownWrite
  <2>1. CASE prog # "gone"
    BY <1>16, <2>1, DownWrites
  <2>2. CASE prog = "gone"
    <3>1. toProg' = toProg
      BY <1>16, <2>2 DEF DownWrite, Put
    <3> QED  BY <1>16, <2>2, <3>1, DownToNobody DEF DownWrite, Down, progVars, streamVars
  <2> QED  BY <2>1, <2>2
<1>17. CASE DownEnds \/ DownWriteFails \/ DownClose
  BY <1>17, DownFrame
  DEF DownEnds, DownWriteFails, DownClose, Down, progVars, sockVars, streamVars
<1> QED
  BY <1>1, <1>2, <1>3, <1>4, <1>5, <1>7, <1>8, <1>9, <1>10, <1>11, <1>12, <1>13, <1>14,
     <1>15, <1>16, <1>17
  DEF Next, Program, Session, HandlerStep, UpStep, DownStep

----------------------------------------------------------------------------
(* The end of the answer *)

\* What has been delivered stays delivered, whatever the program then hears.
LEMMA EndsWholeStep ==
  TypeOK /\ HandlerFits /\ UpInv /\ DownInv /\ EndsWhole /\ [Next]_vars => EndsWhole'
<1> SUFFICES ASSUME TypeOK, HandlerFits, UpInv, DownInv, EndsWhole, [Next]_vars,
                    prog' = "open"
             PROVE  EndsWhole'
  BY DEF EndsWhole
<1>0. said \in Nat /\ carried \in Nat /\ pushed \in Nat /\ Len(inCh) \in Nat
  BY TypeParts
<1>1. CASE UNCHANGED vars
  BY <1>1 DEF vars, progVars, sockVars, copyVars, streamVars, EndsWhole, LostASend, Delivered
<1>2. CASE ProgramSays
  <2>1. LostASend => LostASend'
    BY <1>0, <1>2 DEF ProgramSays, copyVars, streamVars, LostASend
  <2> QED  BY <1>2, <2>1 DEF ProgramSays, copyVars, streamVars, EndsWhole, Delivered
<1>3. CASE ProgramHears
  BY <1>3, HearsDelivered
  DEF ProgramHears, copyVars, streamVars, EndsWhole, LostASend, DownInv
<1>4. CASE ProgramShuts \/ ProgramLeaves \/ Reset
  BY <1>4 DEF ProgramShuts, ProgramLeaves, Reset
<1>5. CASE Session
  BY <1>5 DEF Session, Push, TargetEnds, LinkLost, RunStuck, LinkBack, progVars, sockVars,
              copyVars, EndsWhole, LostASend, Delivered
<1>6. CASE Greet \/ GreetFails \/ ReadRequest \/ RequestFails \/ Opens \/ OpenFails \/ GrantFails
           \/ RefuseIt
  <2>1. dn = "off" /\ dn' = "off"
    BY <1>6 DEF Greet, GreetFails, ReadRequest, RequestFails, Opens, OpenFails, GrantFails, RefuseIt,
                Handler, HandlerFits, Asking
  <2>2. /\ ended' = ended /\ prog = "open"
        /\ stream' = stream \/ stream = "none"
    BY <1>6 DEF Greet, GreetFails, ReadRequest, RequestFails, Opens, OpenFails, GrantFails, RefuseIt,
                Handler, HandlerFits, Asking, streamVars, progVars
  <2> QED  BY <2>1, <2>2 DEF EndsWhole
<1>7. CASE GrantIt
  BY <1>7, PutType DEF GrantIt, EndsWhole, CopyEnded, Put, progVars, streamVars
<1>8. CASE CopyDone \/ CloseStream
  BY <1>8 DEF CopyDone, CloseStream, Handler, BeginClose, EndClose, progVars, sockVars, streamVars,
              EndsWhole, LostASend, Delivered
<1>9. CASE HangUp
  <2>1. dn \in {"read", "write"} => up = "done"
    BY <1>9 DEF HangUp, Handler, HandlerFits, Finishing
  <2> QED  BY <1>9, <2>1 DEF HangUp, Handler, progVars, streamVars, EndsWhole, LostASend,
                              Delivered, CopyEnded
<1>10. CASE UpRead \/ UpWrite \/ UpSend
  BY <1>10 DEF UpRead, UpWrite, UpSend, Up, progVars, sockVars, streamVars, EndsWhole, LostASend,
               Delivered, CopyEnded
<1>11. CASE UpEnds
  <2>1. conn = "closed" /\ prog = "open"
    BY <1>11 DEF UpEnds, NoMore, progVars
  <2> QED  BY <1>11, <2>1 DEF UpEnds, Up, progVars, sockVars, streamVars, EndsWhole, LostASend,
                               Delivered, CopyEnded
<1>12. CASE UpWriteFails
  <2>1. up' = "close" /\ carried < said /\ UNCHANGED <<said, carried>>
    BY <1>0, <1>12 DEF UpWriteFails, Up, progVars, streamVars, UpInv, UpFits
  <2>2. LostASend'
    BY <2>1 DEF LostASend, CopyEnded
  <2>3. prog' = prog /\ ended' = ended /\ stream' = stream
    BY <1>12 DEF UpWriteFails, Up, progVars, streamVars
  <2> QED  BY <2>2, <2>3 DEF EndsWhole
<1>13. CASE UpClose
  BY <1>13 DEF UpClose, Up, BeginClose, EndClose, progVars, sockVars, EndsWhole, LostASend,
               Delivered, CopyEnded
<1>14. CASE DownRead
  BY <1>14 DEF DownRead, Down, progVars, sockVars, EndsWhole, LostASend
<1>15. CASE DownWrite
  BY <1>15 DEF DownWrite, Down, Put, progVars, streamVars, EndsWhole, LostASend
<1>16. CASE DownEnds
  <2>1. Delivered = pushed
    <3>1. /\ prog = "open" /\ Delivered + Len(inCh) = pushed /\ Len(inCh) = 0
      BY <1>16, EmptySeq DEF DownEnds, Down, progVars, DownInv, DownFits
    <3>2. Delivered \in Nat
      BY TypeParts, ItemTypes, EmptySeq DEF Delivered
    <3> QED  BY <3>1, <3>2
  <2> QED  BY <1>16, <2>1 DEF DownEnds, Down, progVars, sockVars, streamVars, EndsWhole, Delivered
<1>17. CASE DownWriteFails
  BY <1>17 DEF DownWriteFails, Down, PutFails, progVars, sockVars, streamVars, EndsWhole, LostASend
<1>18. CASE DownClose
  BY <1>18 DEF DownClose, Down, progVars, streamVars, EndsWhole, LostASend, Delivered
<1> QED
  BY <1>1, <1>2, <1>3, <1>4, <1>5, <1>6, <1>7, <1>8, <1>9, <1>10, <1>11, <1>12, <1>13, <1>14,
     <1>15, <1>16, <1>17, <1>18
  DEF Next, Program, HandlerStep, UpStep, DownStep

----------------------------------------------------------------------------
(* The theorems *)

\* The conjuncts of IInv, by direction.
LEMMA IInvParts == IInv <=> /\ TypeOK /\ HandlerFits /\ UpInv /\ DownInv /\ EndsWhole
BY DEF IInv, UpInv, DownInv

\* The invariant that carries all the others: TypeOK and, along each of the two
\* directions, what every place on the way holds: which headers and which
\* numbers are in each queue and in the hands of each copy, and that the answer
\* is between the stream's opening and the first data.
THEOREM Invariance == Spec => []IInv
<1>1. Init => IInv
  <2> SUFFICES ASSUME Init PROVE IInv
    OBVIOUS
  <2>1. TypeOK
    <3>1. /\ toAgent \in Seq(ToAgentItems) /\ toProg \in Seq(ToProgItems) /\ inCh \in Seq(Nat)
          /\ Len(toAgent) = 0 /\ Len(toProg) = 0 /\ Len(inCh) = 0
      BY EmptySeq DEF Init
    <3>2. ProgType /\ CopyType
      BY DEF Init, ProgType, CopyType
    <3>3. 0 <= SockCap /\ 0 <= InCap
      BY RelayAssumption
    <3>4. conn = "open" /\ stream = "none" /\ ended = FALSE /\ link = "up" /\ carried = 0 /\ pushed = 0
      BY DEF Init
    <3>5. SockType
      BY <3>1, <3>3, <3>4 DEF SockType
    <3>6. ended \in BOOLEAN
      BY <3>4, Zenon
    <3>7. StreamType
      BY <3>1, <3>3, <3>4, <3>6 DEF StreamType
    <3> QED  BY <3>2, <3>5, <3>7, TypeSplit
  <2>2. HandlerFits
    BY DEF Init, HandlerFits, Asking, Finishing
  <2>3. UpInv
    BY EmptySeq DEF Init, UpInv, NothingSkipped, SaidInOrder, HeadersFirst, UpFits, Sent,
                    HeadersRead, DataRead
  <2>4. DownInv
    BY EmptySeq DEF Init, DownInv, AnsweredOnce, DataLast, DataGranted, NotYetAnswered,
                    HeardInOrder, PushedInOrder, DownFits, Delivered, IsAnswer, IsData
  <2>5. EndsWhole
    BY DEF Init, EndsWhole
  <2> QED  BY <2>1, <2>2, <2>3, <2>4, <2>5, IInvParts
<1>2. IInv /\ [Next]_vars => IInv'
  <2> SUFFICES ASSUME IInv, [Next]_vars PROVE IInv'
    OBVIOUS
  <2>1. TypeOK' /\ HandlerFits' /\ UpInv' /\ DownInv' /\ EndsWhole'
    BY IInvParts, TypeStep, HandlerFitsStep, UpInvStep, DownInvStep, EndsWholeStep
  <2> QED  BY <2>1 DEF IInv, UpInv, DownInv
<1> QED  BY <1>1, <1>2, PTL DEF Spec

\* The two sockets' buffers, the stream's queue and the goroutines stay within
\* their types and capacities.
THEOREM TypeCorrect == Spec => []TypeOK
<1>1. IInv => TypeOK
  BY DEF IInv
<1> QED  BY <1>1, Invariance, PTL

\* The first copy to end closes both directions, and yet nothing of the target's
\* answer is lost while all that the program said has gone out.
THEOREM AnswerArrivesWhole == Spec => []AnswerIsWhole
<1>1. IInv => AnswerIsWhole
  <2> SUFFICES ASSUME IInv, ended, dn = "done", prog = "open", carried = said
               PROVE  pushed = Delivered
    BY DEF AnswerIsWhole, Delivered
  <2>1. ~LostASend
    BY IInvParts, TypeParts DEF LostASend
  <2> QED  BY <2>1, IInvParts DEF EndsWhole
<1> QED  BY <1>1, Invariance, PTL

\* Every step of the front end is one that TcpRelay allows, or changes nothing
\* of what the program and the target can see.
THEOREM RelayRefines == Spec => RelaySpec
<1>1. Init => T!RInit
  BY DEF Init, T!RInit
<1>2. IInv /\ [Next]_vars => [T!RNext]_(T!rvars)
  <2> DEFINE shown == IF stream = "none" THEN "none" ELSE
                      IF stream = "open" THEN "open" ELSE "closed"
             Same == UNCHANGED <<answer, stream, said, carried, pushed, heard>>
  <2> SUFFICES ASSUME IInv, [Next]_vars PROVE T!RNext \/ UNCHANGED T!rvars
    OBVIOUS
  <2>i. TypeOK /\ HandlerFits /\ UpInv /\ DownInv
    BY IInvParts
  <2>n. said \in Nat /\ heard \in Nat /\ carried \in Nat /\ pushed \in Nat
    BY <2>i, TypeParts
  <2>s. Same => UNCHANGED T!rvars
    BY DEF T!rvars
  <2>1. CASE ProgramShuts \/ ProgramLeaves \/ Reset \/ UNCHANGED vars \/ LinkLost \/ LinkBack
    BY <2>1, <2>s DEF ProgramShuts, ProgramLeaves, Reset, LinkLost, LinkBack, vars, progVars,
                      sockVars, copyVars, streamVars
  <2>2. CASE ProgramSays
    BY <2>2 DEF ProgramSays, copyVars, streamVars, T!RNext, T!Say, T!rvars
  <2>3. CASE ProgramHears
    <3>1. /\ UNCHANGED <<stream, said, carried, pushed>>
          /\ toProg # <<>> /\ Len(toProg) >= 1 /\ Head(toProg) = toProg[1]
      BY <2>3, <2>i, TailContents, TypeParts DEF ProgramHears, copyVars, streamVars
    <3>2. /\ heard' = IF toProg[1].kind = "data" THEN toProg[1].n ELSE heard
          /\ answer' = IF toProg[1].kind \in {"granted", "refused"} THEN toProg[1].kind ELSE answer
      BY <2>3, <3>1 DEF ProgramHears
    <3>3. CASE toProg[1].kind = "data"
      <4>1. toProg[1].n <= pushed /\ toProg[1].n = heard + 1
        BY <2>i, <3>1, <3>3, TypeParts DEF DownInv, HeardInOrder, IsData
      <4>2. answer = "granted"
        BY <2>i, <3>1, <3>3, TypeParts DEF DownInv, DataGranted, IsData
      <4> QED  BY <2>n, <3>1, <3>2, <3>3, <4>1, <4>2 DEF T!RNext, T!Hear
    <3>4. CASE toProg[1].kind \in {"granted", "refused"}
      <4>1. answer = "none" /\ (toProg[1].kind = "refused" <=> stream = "none")
        BY <2>i, <3>1, <3>4, TypeParts DEF DownInv, AnsweredOnce, IsAnswer
      <4> QED  BY <3>1, <3>2, <3>4, <4>1 DEF T!RNext, T!Grant, T!Refuse
    <3>5. CASE toProg[1].kind \notin {"granted", "refused", "data"}
      BY <3>1, <3>2, <3>5, <2>s
    <3> QED  BY <3>3, <3>4, <3>5
  <2>4. CASE Push
    BY <2>4 DEF Push, progVars, sockVars, copyVars, T!RNext, T!Push
  <2>5. ASSUME stream' # "none", stream # "none", stream # "open" => stream' # "open",
               UNCHANGED <<answer, said, carried, pushed, heard>>
        PROVE  T!RNext \/ UNCHANGED T!rvars
    BY <2>5 DEF T!RNext, T!CloseStream, T!rvars
  <2>6. CASE TargetEnds
    BY <2>5, <2>6 DEF TargetEnds, progVars, sockVars, copyVars
  <2>7. CASE RunStuck
    BY <2>5, <2>7, <2>s DEF RunStuck, progVars, sockVars, copyVars
  <2>8. CASE Greet \/ GreetFails \/ ReadRequest \/ RequestFails \/ OpenFails \/ GrantIt \/ GrantFails
             \/ RefuseIt \/ CopyDone \/ HangUp
    BY <2>8, <2>s DEF Greet, GreetFails, ReadRequest, RequestFails, OpenFails, GrantIt, GrantFails,
                      RefuseIt, CopyDone, HangUp, progVars, streamVars
  <2>9. CASE Opens
    <3>1. stream = "none" /\ answer = "none"
      BY <2>9, <2>i DEF Opens, Handler, HandlerFits, DownInv, NotYetAnswered, Asking
    <3> QED  BY <2>9, <3>1 DEF Opens, progVars, T!RNext, T!OpenStream
  <2>10. CASE CloseStream
    BY <2>5, <2>10, <2>i DEF CloseStream, Handler, BeginClose, EndClose, HandlerFits, progVars
  <2>11. CASE UpRead \/ UpEnds \/ UpWrite \/ UpWriteFails
    BY <2>11, <2>s DEF UpRead, UpEnds, UpWrite, UpWriteFails, progVars, streamVars
  <2>12. CASE UpSend
    <3>1. stream # "none" /\ upChunk = carried + 1 /\ upChunk <= said
      BY <2>12, <2>i DEF UpSend, Up, HandlerFits, UpInv, UpFits
    <3> QED  BY <2>12, <2>n, <3>1 DEF UpSend, progVars, T!RNext, T!Carry
  <2>13. CASE UpClose
    BY <2>5, <2>13, <2>i DEF UpClose, Up, BeginClose, EndClose, HandlerFits, progVars
  <2>14. CASE DownStep
    BY <2>14, <2>s DEF DownStep, DownRead, DownEnds, DownWrite, DownWriteFails, DownClose,
                       progVars, streamVars
  <2> QED
    BY <2>1, <2>2, <2>3, <2>4, <2>6, <2>7, <2>8, <2>9, <2>10, <2>11, <2>12, <2>13, <2>14
    DEF Next, Program, Session, HandlerStep, UpStep
<1> QED  BY <1>1, <1>2, Invariance, PTL DEF Spec, RelaySpec, T!RSpec
====
