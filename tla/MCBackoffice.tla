----------------------------- MODULE MCBackoffice -----------------------------
(* Small instances of Backoffice for TLC. *)
EXTENDS Backoffice, TLC

\* One module each, to be seen or to be edited.
MCGrid == {g \in [Module -> Level \cup {"none"}] : Cardinality({k \in Module : g[k] # "none"}) = 1}
Symmetry == Permutations(Request) \cup Permutations(Module)
=============================================================================
