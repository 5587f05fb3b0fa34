------------------------- MODULE MCPrefixLifecycle -------------------------
\* PrefixLifecycle on small instances.
EXTENDS PrefixLifecycle, TLC

\* Directories, launches, workers and machines are told apart by nothing but their names.
SomeSymmetry ==
    Permutations(Dirs) \cup Permutations(Arches)
        \cup Permutations(Launches) \cup Permutations(Workers)
=============================================================================
