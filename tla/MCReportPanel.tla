--------------------------- MODULE MCReportPanel ---------------------------
(***************************************************************************)
(* Instance of ReportPanel: two analyses, stages of up to three textures.  *)
(***************************************************************************)
EXTENDS ReportPanel

MCBitrates == {5, 8}

Missing == [outcome |-> "missing", size |-> 1]
Broken  == [outcome |-> "failed", size |-> 1]
Loose(n) == [outcome |-> "compressed", size |-> n]

MCStages ==
    {<<>>, <<Missing, Missing>>, <<Missing, Broken>>, <<Missing, Broken, Loose(1)>>,
     <<Loose(1), Loose(2)>>}
=============================================================================
