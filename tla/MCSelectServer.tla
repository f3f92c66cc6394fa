--------------------------- MODULE MCSelectServer ---------------------------
(* TLC instances of SelectServer: descriptors 3 (listener), 4 and 5.       *)
EXTENDS SelectServer, TLC

CONSTANTS c1, c2, c3

MCBytes == {36, 94, 255}    \* '$', '^' and the byte whose increment wraps
MCClients1 == {c1}
MCClients2 == {c1, c2}
MCClients3 == {c1, c2, c3}
MCSymmetry2 == Permutations(MCClients2)
MCSymmetry3 == Permutations(MCClients3)
=============================================================================
