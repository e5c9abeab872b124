----------------------------- MODULE MCNTFacade -----------------------------
(***************************************************************************)
(* Small instances of NTFacade for TLC.                                    *)
(***************************************************************************)
EXTENDS NTFacade

CONSTANTS c1

SameBase == [c \in Client |-> "robot"]

OneTopic  == {<<"a">>}
TwoTopics == {<<"a">>, <<"b">>}

SubsOfOne == {[topics |-> {n}, prefix |-> FALSE, topicsonly |-> FALSE] : n \in Regular}

\* The order of the names in the map: any injection will do.
NameSeq == FoldSet(LAMBDA n, s : Append(s, n), <<>>, Name)
MCRank(n) == CHOOSE i \in DOMAIN NameSeq : NameSeq[i] = n
=============================================================================
