--------------------------- MODULE MCClientSession ---------------------------
EXTENDS ClientSession, TLC

CONSTANTS t1, t2, f1, f2, f3, s1, s2, s3, s4, g1, g2

\* Two calls in the first tab and one in the second.
InTab == [f \in Fetches |-> IF f = f3 THEN t2 ELSE t1]

\* The first tab is opened with a link, the second with nothing.
Address == [t \in Tabs |-> IF t = t1 THEN g1 ELSE NoGrant]

\* A link's session with its successors, and a trial's.
UnderGrant == [s \in Sessions |-> IF s = s4 THEN g2 ELSE g1]

\* The two calls of the first tab are alike.
Symmetric == Permutations({f1, f2})
=============================================================================
