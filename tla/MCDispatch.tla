----------------------------- MODULE MCDispatch -----------------------------
EXTENDS Dispatch
CONSTANTS i1, i2, c1, s1, s2, a, ad

\* Interest ad asks for Data a by its full name.  The NDT looks at more
\* components than a has, so that the two lead to different entries.
FullName == [n \in Name |-> a]
ByFullName == [n \in Name |-> IF n = ad THEN 1 ELSE 0]
Sockets == [t \in Input \cup Crypto |-> IF t = i2 THEN s2 ELSE s1]
=============================================================================
