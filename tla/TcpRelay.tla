------------------------------ MODULE TcpRelay ------------------------------
(***************************************************************************)
(* What the SOCKS5 front end promises a program that connects to it: one   *)
(* answer at most, "granted" exactly when a stream to the target was       *)
(* opened for it, nothing of the target's before that, and each direction  *)
(* a prefix of what was put in, in order and without gaps.                 *)
(***************************************************************************)
EXTENDS Naturals

VARIABLES answer,  \* what the program has been told: "none", "granted", "refused"
          stream,  \* "none", "open", "closed"
          said,    \* data chunks the program has sent
          carried, \* of these, how many went out on the stream
          pushed,  \* chunks of the target that arrived on the stream
          heard    \* of these, how many the program has received

rvars == <<answer, stream, said, carried, pushed, heard>>

RInit == /\ answer = "none" /\ stream = "none"
         /\ said = 0 /\ carried = 0 /\ pushed = 0 /\ heard = 0

OpenStream  == stream = "none" /\ answer = "none" /\ stream' = "open"
               /\ UNCHANGED <<answer, said, carried, pushed, heard>>
CloseStream == stream = "open" /\ stream' = "closed"
               /\ UNCHANGED <<answer, said, carried, pushed, heard>>
Grant       == stream # "none" /\ answer = "none" /\ answer' = "granted"
               /\ UNCHANGED <<stream, said, carried, pushed, heard>>
Refuse      == stream = "none" /\ answer = "none" /\ answer' = "refused"
               /\ UNCHANGED <<stream, said, carried, pushed, heard>>
Say         == said' = said + 1
               /\ UNCHANGED <<answer, stream, carried, pushed, heard>>
Carry       == stream # "none" /\ carried < said /\ carried' = carried + 1
               /\ UNCHANGED <<answer, stream, said, pushed, heard>>
Push        == stream # "none" /\ pushed' = pushed + 1
               /\ UNCHANGED <<answer, stream, said, carried, heard>>
Hear        == answer = "granted" /\ heard < pushed /\ heard' = heard + 1
               /\ UNCHANGED <<answer, stream, said, carried, pushed>>

RNext == OpenStream \/ CloseStream \/ Grant \/ Refuse \/ Say \/ Carry \/ Push \/ Hear

RSpec == RInit /\ [][RNext]_rvars
=============================================================================
