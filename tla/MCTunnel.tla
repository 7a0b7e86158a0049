------------------------------ MODULE MCTunnel ------------------------------
EXTENDS Tunnel, TLC
Symmetry == Permutations(ID)
NoConn == {}
AllConn == Conn
FirstConn == {1}
=============================================================================
