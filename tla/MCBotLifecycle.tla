--------------------------- MODULE MCBotLifecycle ---------------------------
(* Instances of BotLifecycle for TLC. *)
EXTENDS BotLifecycle, TLC

CONSTANTS p1, p2, p3, r1, r2, noconf, envconf, conf1

MCConfigs == {noconf, envconf, conf1}
MCReady == {envconf, conf1}

\* For liveness: one usable configuration, which the environment holds too.
MCSmallConfigs == {noconf, conf1}
MCSmallReady == {conf1}

\* Neither set is told apart by the specification.
Symmetry == Permutations(Pollers) \cup Permutations(Requests)
=============================================================================
