------------------------------ MODULE Circuit ------------------------------
(***************************************************************************)
(* What the tunnel promises a local client, without a word on how: for     *)
(* every stream the client asks for there is at most one TCP connection to *)
(* the target, the client is told "open" only once that connection exists, *)
(* and each direction carries a prefix of what was put in, in order and    *)
(* without gaps.  Delivery may stop early; it never skips or repeats.      *)
(***************************************************************************)
EXTENDS Naturals

CONSTANT ID  \* streams that clients may ask for

VARIABLES client,   \* "none", "opening", "open", "failed", "closed"
          target,   \* the connection to the target: "none", "open", "closed"
          written,  \* messages the client has written
          arrived,  \* of these, how many have reached the target
          produced, \* messages the target has sent
          taken     \* of these, how many the client has read

cvars == <<client, target, written, arrived, produced, taken>>

CInit == /\ client = [id \in ID |-> "none"]
         /\ target = [id \in ID |-> "none"]
         /\ written = [id \in ID |-> 0]
         /\ arrived = [id \in ID |-> 0]
         /\ produced = [id \in ID |-> 0]
         /\ taken = [id \in ID |-> 0]

Client(id, from, to) == /\ client[id] \in from
                        /\ client' = [client EXCEPT ![id] = to]
                        /\ UNCHANGED <<target, written, arrived, produced, taken>>

Target(id, from, to) == /\ target[id] = from
                        /\ target' = [target EXCEPT ![id] = to]
                        /\ UNCHANGED <<client, written, arrived, produced, taken>>

Ask(id)    == Client(id, {"none"}, "opening")
Grant(id)  == target[id] # "none" /\ Client(id, {"opening"}, "open")
Deny(id)   == Client(id, {"opening"}, "failed")
Finish(id) == Client(id, {"open"}, "closed")

\* The target may answer after the client has been told that it does not.
Connect(id)    == client[id] \in {"opening", "failed"} /\ Target(id, "none", "open")
Disconnect(id) == Target(id, "open", "closed")

\* A message that was being written when the client closed may still go out.
Put(id) == /\ client[id] \in {"open", "closed"}
           /\ written' = [written EXCEPT ![id] = @ + 1]
           /\ UNCHANGED <<client, target, arrived, produced, taken>>

Arrive(id) == /\ target[id] = "open" /\ arrived[id] < written[id]
              /\ arrived' = [arrived EXCEPT ![id] = @ + 1]
              /\ UNCHANGED <<client, target, written, produced, taken>>

Produce(id) == /\ target[id] = "open"
               /\ produced' = [produced EXCEPT ![id] = @ + 1]
               /\ UNCHANGED <<client, target, written, arrived, taken>>

Take(id) == /\ client[id] \in {"open", "closed"} /\ taken[id] < produced[id]
            /\ taken' = [taken EXCEPT ![id] = @ + 1]
            /\ UNCHANGED <<client, target, written, arrived, produced>>

CNext == \E id \in ID : \/ Ask(id) \/ Grant(id) \/ Deny(id) \/ Finish(id)
                        \/ Connect(id) \/ Disconnect(id)
                        \/ Put(id) \/ Arrive(id) \/ Produce(id) \/ Take(id)

CSpec == CInit /\ [][CNext]_cvars
=============================================================================
