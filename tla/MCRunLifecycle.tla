--------------------------- MODULE MCRunLifecycle ---------------------------
EXTENDS RunLifecycle

\* Bounds the behaviours to those where one request begins at most: a stream, a
\* team draft and a prototype share nothing but the server.
OneRequest == Cardinality({j \in Http : pc[j] # "idle"}) <= 1
=============================================================================
