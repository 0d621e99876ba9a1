\* A mesh with a USDZ beside it, which the Core gets in its place, a stage and
\* two analyses that may overlap.
SPECIFICATION FairSpec
CONSTANTS
    mesh = mesh  stage = stage  orig = orig
    None = None
    Meshes = {mesh}
    Paired = {mesh}
    Stages = {stage}
    MaxAnalyses = 2
    Comparison = {orig}
CHECK_DEADLOCK FALSE
INVARIANTS TextureOfMesh ShownMeshIsReported PreviewReachable
PROPERTY ButtonComesBack
