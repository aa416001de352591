--------------------------- MODULE MCPairingRelay ---------------------------
EXTENDS PairingRelay, TLC

\* Attempts are interchangeable: no definition chooses among them.
Symmetric == Permutations(Requests)
=============================================================================
