---------------------------- MODULE MCConnection -----------------------------
EXTENDS Connection
CONSTANTS r1, r2, r3
MCRequests == <<r1, r2, r3>>
\* An empty envelope, one whose byte looks like a header's, and one of two.
MCPayloadOf == [r \in {r1, r2, r3} |->
    CASE r = r1 -> <<0>> [] r = r2 -> <<>> [] r = r3 -> <<7, 0>>]
=============================================================================
