--------------------------- MODULE MCEdgePipeline ---------------------------
(* Small instances of EdgePipeline for TLC. *)
EXTENDS EdgePipeline

CONSTANTS c1, c2, s1, s2, k1, k2, p1, p2, t1, t2

OneCall == {c1}
TwoCalls == {c1, c2}
File(stem, ext) == [stem |-> stem, ext |-> ext]

\* Two USD scenes.
TwoStages == {File(s1, ".usd"), File(s2, ".usda")}

\* Every branch of the routing: a mesh with a USDZ beside it, spelled in either
\* case, one without, a splat, a stage, a file of another kind.
AllKinds == {File(s1, ".glb"), File(s1, ".usdz"), File(s2, ".gltf"), File(s2, ".ply"),
             File(s2, ".usdc"), File(s2, ".txt")}
UpperCase == {File(s1, ".GLB"), File(s1, ".usdz")}

=============================================================================
