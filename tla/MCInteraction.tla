---------------------------- MODULE MCInteraction ----------------------------
EXTENDS InteractionSystem, TLC

Symmetry ==
    Permutations(Events) \cup Permutations(Callbacks)
        \cup Permutations(Resumers) \cup Permutations(Gateways)
=============================================================================
