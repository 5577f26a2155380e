----------------------------- MODULE MCUpgrades -----------------------------
(***************************************************************************)
(* Small instances of Upgrades for TLC: two digits, a letter (2) and the   *)
(* hyphen (-1).                                                            *)
(***************************************************************************)
EXTENDS Upgrades

One == <<1>>
Zero == <<0>>

Release(major, minor) == [core |-> <<major, minor, Zero>>, pre |-> <<>>]
Pre(ids) == [core |-> <<One, Zero, Zero>>, pre |-> ids]

Identifiers == {<<0>>, <<1>>, <<1, 1>>, <<1, 0, 2>>, <<2>>, <<-1>>, <<0, 1>>}

\* Identifiers of digits around the largest number, which is 4.
Wide == {<<1, 0, 0>>, <<1, 0, 1>>, <<1, 1, 0, 0>>, <<0, 1, 1, 1>>}

\* Releases around 1.0.0, its prereleases of one and two identifiers, and texts
\* that are no version.
MCOffers ==
    {Release(One, Zero), Release(<<1, 0>>, Zero), Release(One, One),
     Release(<<0, 1>>, Zero), [core |-> <<One, Zero>>, pre |-> <<>>]}
    \cup {Pre(<<id>>) : id \in Identifiers \cup Wide \cup {<<>>}}
    \cup {Pre(<<<<2>>, id>>) : id \in {<<1>>, <<1, 0>>, <<2>>}}

=============================================================================
