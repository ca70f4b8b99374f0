----------------------------- MODULE MCResolver -----------------------------
(***************************************************************************)
(* Instances of Resolver for TLC: five candidates, four in the index and   *)
(* one installed (or five in the index).                                   *)
(***************************************************************************)
EXTENDS Resolver

CONSTANTS A, B, C, V \* packages and a virtual package

Versions == 1 .. 2

Any(n)      == [name |-> n, versions |-> Versions]
Exactly(n, v) == [name |-> n, versions |-> {v}]
Plain(n, v) == [name |-> n, version |-> v, depends |-> {}, conflicts |-> {},
                provides |-> {}, recommends |-> <<>>]

\* Two versions of A, one of B and C.  The relations that vary decide whether
\* the newest A can be had, which installed package it costs, whether C is
\* the mail-server kind of package that provides and conflicts with one
\* virtual name, and what is pulled in or dropped.
NewA == {[Plain(A, 2) EXCEPT !.depends = d, !.conflicts = c, !.recommends = r] :
            d \in {{}, {<<Any(B)>>}, {<<Exactly(B, 2), Any(V)>>}},
            c \in {{}, {Any(C)}},
            r \in {<<>>, << <<Any(B)>>, <<Any(V)>> >>}}
SomeB == {[Plain(B, 1) EXCEPT !.conflicts = c, !.provides = p] :
            c \in {{}, {Any(V)}, {Exactly(A, 2)}}, p \in {{}, {V}}}
SomeC == {[Plain(C, 1) EXCEPT !.provides = {V}, !.conflicts = c, !.depends = d] :
            c \in {{}, {Any(V)}}, d \in {{}, {<<Exactly(A, 1)>>}}}

SessionsOf(requests, installed, doubtful) ==
    {[packages |-> <<Plain(A, 1), a, b, c>>, installed |-> i, requests |-> r,
      doubtful |-> doubtful] :
        a \in NewA, b \in SomeB, c \in SomeC, i \in installed, r \in requests}

Has(n, v) == [name |-> n, version |-> v]

PlainSessions == SessionsOf({<<A>>, <<V>>, <<C, A>>},
                            {<<Has(A, 1)>>, <<Has(B, 1)>>, <<Has(C, 1)>>}, FALSE)

\* Sessions with every kind of Recommends, for the loop that starts over, and
\* a solver that may answer unsat falsely.
DoubtfulSessions ==
    {s \in SessionsOf({<<A>>, <<C>>}, {<<Has(B, 1)>>, <<Has(A, 2)>>}, TRUE) :
        s.packages[2].recommends # <<>>}
      \cup SessionsOf({<<V>>}, {<<Has(C, 1)>>}, TRUE)
AllSessions == PlainSessions \cup DoubtfulSessions
=============================================================================
