--------------------------- MODULE MCBootstrapCache ---------------------------
EXTENDS BootstrapCache

CONSTANTS n1, n2, n3

ThreeNodes == {n1, n2, n3}

=============================================================================
