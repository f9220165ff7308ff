------------------------------ MODULE MCBoard ------------------------------
EXTENDS Board

L(a, b, w) == [a |-> a, b |-> b, weight |-> w]

\* A reply as asked for; one that names ideas twice, in one cluster and in two,
\* and links a pair in both directions; one that invents ids; an empty one.
SomeReplies ==
    {[clusters |-> <<<<1, 2>>, <<3>>>>, links |-> <<L(1, 2, "weak")>>],
     [clusters |-> <<<<2, 2>>, <<1, 2, 1>>>>, links |-> <<L(1, 2, "weak"), L(2, 1, "strong"), L(1, 1, "weak")>>],
     [clusters |-> <<<<9>>, <<9, 2>>>>, links |-> <<L(9, 1, "weak"), L(3, 1, "weak")>>],
     [clusters |-> <<>>, links |-> <<>>]}
=============================================================================
