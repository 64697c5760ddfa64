---------------------------- MODULE MCMemoryStore ----------------------------
(* Constants of MemoryStore for TLC. *)
EXTENDS MemoryStore, TLC

\* A user, a business of theirs and two clients; a chat about neither client,
\* and one about each.
CONSTANTS u, b, k1, k2, general, first, second

For(business, client) == [user |-> u, business |-> business, client |-> client]

OneScopePerChat ==
    general :> {For(None, None)} @@ first :> {For(b, k1)} @@ second :> {For(None, k2)}

\* The first chat changes to the second client, too.
ScopesMeet == [OneScopePerChat EXCEPT ![first] = {For(b, k1), For(None, k2)}]

OneOfEach == [kind \in Kinds |-> 1]

Symmetry == Permutations(Turns) \cup Permutations(Topics)
=============================================================================
