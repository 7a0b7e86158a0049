-------------------------- MODULE MCServerSession --------------------------
EXTENDS ServerSession, TLC
Symmetry == Permutations(ID)
NoNumbers == {0}
NoConn == {}
AllConn == Conn
=============================================================================
