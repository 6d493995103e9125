------------------------------ MODULE MCHangar ------------------------------
(* Instances of Hangar for TLC. *)
EXTENDS Hangar, TLC

CONSTANTS c1, c2, a1, a2, n1, n2

MCClients == {c1, c2}
MCAccounts == {a1, a2}
MCAccountOf == c1 :> a1 @@ c2 :> a2
MCOneClient == {c1}
MCOneAccountOf == c1 :> a1
MCNames == {n1, n2}
\* An account may have all the ships of this crew, one or none.
MCCrews == {{n1, n2}}
MCChanges == {n2, "nothing"}

\* One account has two ships and a fleet of both, the other nothing; or both
\* have one of the same name.
MCFirstTables ==
  {[ship |-> <<Row(a1, n1, {}), Row(a1, n2, {})>>, fleet |-> <<Row(a1, n1, {1, 2})>>],
   [ship |-> <<Row(a1, n1, {}), Row(a2, n1, {})>>, fleet |-> <<>>]}
=============================================================================
