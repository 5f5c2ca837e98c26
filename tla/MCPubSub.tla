------------------------------ MODULE MCPubSub ------------------------------
(* A name, a wildcard that matches it, and a number without a name.        *)
EXTENDS PubSub, UriMatch, Containers

A == <<"/", "a">>
Star == <<"/", "*">>
Slash == <<"/">>

AllUris == {A, Star, Slash}
Valid == {u \in AllUris : zhe_urivalid(u)}
Matches == {<<u, v>> \in AllUris \X AllUris : zhe_urimatch(u, v)}
Named == {<<1, A>>, <<2, Star>>}

Res(rid, uri) == [kind |-> "DRESOURCE", rid |-> rid, uri |-> uri]
Sub(rid) == [kind |-> "DSUB", rid |-> rid, mode |-> "PUSH"]
Pull(rid) == [kind |-> "DSUB", rid |-> rid, mode |-> "PULL"]
Commit == [kind |-> "DCOMMIT", rid |-> 0]
Tentative(decls) == [decls |-> decls, C |-> FALSE]
Committed(decls) == [decls |-> decls, C |-> TRUE]

\* Transactions of one packet and of several, and declarations of the past.
Usual ==
    <<{Tentative(<<Sub(1)>>), Tentative(<<Res(1, A), Sub(2)>>), Tentative(<<Commit>>),
       Committed(<<Sub(3), Sub(2)>>)},
      {Committed(<<Sub(2)>>), Tentative(<<Sub(1), Pull(2)>>), Tentative(<<Commit>>)}>>

\* Resources of a peer, declared with its subscriptions.
OwnResources ==
    <<{Tentative(<<Res(1, A)>>), Tentative(<<Commit>>), Committed(<<Res(2, Star)>>),
       Committed(<<Sub(1)>>), Tentative(<<Res(1, Slash)>>)}>>

OneConduit == [k \in 1 .. MAX_SUBSCRIPTIONS |-> 0]
Increasing == [k \in 1 .. MAX_SUBSCRIPTIONS |-> k]

-----------------------------------------------------------------------------
(* The algorithms that the tables rest on, for all small inputs.  These are *)
(* constant formulas, which TLC evaluates once, put as action properties,   *)
(* which it reports on.                                                     *)

MatchAlgorithm == MatchesCommonString(Strings({"a", "/", "*", "?"}, 3), {"a", "/"}, 5)
SetAlgorithms == SimpleSetIsSet(1 .. 6, 4)
BitAlgorithms == BitsetIsSet(9)

\* Names match exactly when some string is described by both, whatever the order
\* of wildcards and slashes.
NamesMatch == [][MatchAlgorithm]_vars

\* zhe-simpleset and zhe-bitset are sets: after any insertion or deletion a search
\* finds what is in the set, also in the last byte and at the end of the array.
SetsAreSets == [][SetAlgorithms /\ BitAlgorithms]_vars
=============================================================================
