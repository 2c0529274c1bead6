-------------------------- MODULE MCPoolSessions --------------------------
EXTENDS PoolSessions, TLC

CONSTANTS n1, n2, s1, s2, k1, k2, p1, v1

\* "host:80" is a prefix of "host:8080".
LongerAddress == n1 :> {n2} @@ n2 :> {}
OneAddress    == n1 :> {}

TwoSigners == k1 :> s1 @@ k2 :> s2
OneSigner  == k1 :> s1 @@ k2 :> s1
===========================================================================
