----------------------------- MODULE MCTopology -----------------------------
EXTENDS Topology, TLC

Symmetry == Permutations(Procs)

\* manager.go's default and the value of .env.example.
CodeDefault == <<"event", "#">>
EnvExample  == <<"event", "*">>
MCPatterns  == {CodeDefault, EnvExample}

\* The key of publishEvents and one more; events do not influence each other.
MCEvents == {<<"event", "user", "created">>, <<"event", "order">>}
=============================================================================
