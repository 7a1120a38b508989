---------------------------- MODULE MCMluiBench ----------------------------
EXTENDS MluiBench

\* One pair, two pairs, and four pairs of interactive nodes, which is one more
\* than the identities of the instance allow; no warmup, an odd
\* and an even one, so that a rebuild may have no round at all.
MCArguments ==
    {[mode |-> m, node_count |-> n, loops |-> l, warmup |-> w, samples |-> s] :
        m \in {"RUN_LOADED", "RUN_REBUILD"}, n \in Sizes, l \in {0, 3}, w \in {0, 1, 2}, s \in {1, 2}}

=============================================================================
