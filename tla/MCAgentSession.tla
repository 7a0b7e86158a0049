-------------------------- MODULE MCAgentSession --------------------------
EXTENDS AgentSession, TLC
Symmetry == Permutations(ID)
NoNumbers == {0}
NoConn == {}
AllConn == Conn
=============================================================================
