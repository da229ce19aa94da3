---- MODULE MC_SdioDriver ----
\* Instance of SdioDriver: two firmware images (with and without troot and configuration)
\* and a peer stream of three datagrams, the first with a payload byte that looks like a tail.
EXTENDS SdioDriver

MCImages == {[header |-> 3, troot |-> 0, sig |-> 0, spl |-> 9, cfg |-> 0],
             [header |-> 1, troot |-> 5, sig |-> 2, spl |-> 11, cfg |-> 4]}
P(d, i, n) == [d |-> d, i |-> i, n |-> n, tail |-> i = n]
MCPieces == <<P(1, 1, 3), [P(1, 2, 3) EXCEPT !.tail = TRUE], P(1, 3, 3), P(2, 1, 1), P(3, 1, 2), P(3, 2, 2)>>
MCLoads == {<<2, 0, 0>>, <<1, 1, 1>>, <<0, 2, 2>>, <<0, 3, 0>>}
====
