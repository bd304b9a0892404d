------------------------------- MODULE Pruning -------------------------------
(* Removing entries from an ordered collection: the list comprehensions and    *)
(* dict deletions by which the session server, the agent's world model and the *)
(* console's incident store drop clients, sensors and incidents and keep the   *)
(* order of the rest.  The filter is stated by the place of each kept index,   *)
(* without recursion.                                                          *)
EXTENDS Naturals, Sequences, FiniteSets

\* The indices of s whose entries stay.
KeptIndices(s, gone) == {i \in DOMAIN s : s[i] \notin gone}

\* The number of members of K up to i: the new index of i if i is kept.
Place(K, i) == Cardinality({j \in K : j <= i})

\* [x for x in s if x not in gone].
Without(s, gone) ==
    LET K == KeptIndices(s, gone) IN
    [n \in 1..Cardinality(K) |-> s[CHOOSE i \in K : Place(K, i) = n]]

\* No entry occurs twice: s lists the keys of a dict.
Distinct(s) == \A i, j \in DOMAIN s : i # j => s[i] # s[j]

\* k is an entry of s.
Listed(k, s) == \E i \in DOMAIN s : s[i] = k
=============================================================================
