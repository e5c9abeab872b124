----------------------------- MODULE MCNTServer -----------------------------
(***************************************************************************)
(* Small instances of NTServer for TLC.                                    *)
(***************************************************************************)
EXTENDS NTServer

CONSTANTS c1, c2

\* Clients that ask for the same name.
SameBase == [c \in Client |-> "robot"]

OneTopic == {<<"a">>}

Sub(names, prefix, topicsonly) ==
  [topics |-> names, prefix |-> prefix, topicsonly |-> topicsonly]

AandClients == Sub({<<"a">>, <<"$", "clients">>}, FALSE, FALSE)
AllTopics   == Sub({<<>>}, TRUE, FALSE)
AllNames    == Sub({<<>>}, TRUE, TRUE)

\* Values of a topic and of who is connected, or the announcements of all ordinary
\* topics and no values.
SubsValuesOrNot == {AandClients, AllNames}
SubsAll == {AllTopics}

\* The order of the names in the map: any injection will do.
NameSeq == FoldSet(LAMBDA n, s : Append(s, n), <<>>, Name)
MCRank(n) == CHOOSE i \in DOMAIN NameSeq : NameSeq[i] = n

Symmetry == Permutations(Client)
=============================================================================
