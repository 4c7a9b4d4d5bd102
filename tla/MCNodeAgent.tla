----------------------------- MODULE MCNodeAgent -----------------------------
(* An Ubuntu server and a Flatcar agent. *)
EXTENDS NodeAgent, TLC

MCHosts == {<<"ubuntu", "server">>, <<"flatcar", "agent">>}
Symmetry == Permutations(Agents)
=============================================================================
