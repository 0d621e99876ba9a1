----------------------------- MODULE NtcReport -----------------------------
(***************************************************************************)
(* What an analysis says of the textures of a stage, from both ends: how   *)
(* nequ3d-core/process_usd_file.py compresses them and sums that up, and   *)
(* what nequ3d-app/frontend/src/main.ts reads off the list of assets.      *)
(*                                                                         *)
(* The two ends share nothing but the JSON: each decides for itself        *)
(* whether there is a texture to compare.  A field that is missing is the  *)
(* empty string, or Absent where a number is expected.                     *)
(*                                                                         *)
(* Sizes are in a unit of which Grain make a hundredth of a megabyte, so   *)
(* small that a texture of size n takes bpp * n of them when compressed to *)
(* bpp bits per pixel.  The Core rounds each figure of an entry, sizes to  *)
(* hundredths of a megabyte and the reduction to tenths of a percent; the  *)
(* window sums what was rounded.                                           *)
(***************************************************************************)
EXTENDS Integers, Sequences, FiniteSets, Functions

CONSTANT Grain          \* units in a hundredth of a megabyte

ASSUME GrainAssumption == Grain \in Nat \ {0}

RawBits == 32           \* bits per pixel of a texture in video memory
Absent == -1            \* NaN: a number that could not be parsed

(***************************************************************************)
(* A texture the stage refers to: no file is found for it, ntc-cli fails   *)
(* on it, or it is compressed and has this size.                           *)
(***************************************************************************)
Textures == [outcome : {"missing", "failed", "compressed"}, size : Nat]

Entry(status, reconstructed, error) ==
    [status |-> status, original_path |-> "path", reconstructed_path |-> reconstructed,
     error |-> error, raw_vram_mb |-> 0, ntc_vram_mb |-> 0, vram_saved_mb |-> 0,
     vram_reduction |-> Absent]

\* The whole number nearest to x / g, the even one of two: Python's round.
Rounded(x, g) ==
    LET whole == x \div g
        twice == 2 * (x % g)
    IN IF twice > g \/ (twice = g /\ whole % 2 = 1) THEN whole + 1 ELSE whole

\* The reduction is of 100 - 100 * bpp / RawBits percent, in tenths.
Compressed(size, bpp) ==
    [status |-> "Compressed", original_path |-> "path", reconstructed_path |-> "path",
     error |-> "", raw_vram_mb |-> Rounded(RawBits * size, Grain),
     ntc_vram_mb |-> Rounded(bpp * size, Grain),
     vram_saved_mb |-> Rounded((RawBits - bpp) * size, Grain),
     vram_reduction |-> Rounded(4000 - 125 * bpp, 4)]

\* The entry of one texture.
Asset(texture, bpp) ==
    CASE texture.outcome = "missing" -> Entry("Skipped", "", "")
      [] texture.outcome = "failed" -> Entry("Failed", "", "Compression failed")
      [] texture.outcome = "compressed" -> Compressed(texture.size, bpp)

\* The loop adds one entry for each texture, in their order.
run_ntc_compression(textures, bpp) ==
    [i \in DOMAIN textures |-> Asset(textures[i], bpp)]

Skipped(assets) == {i \in DOMAIN assets : assets[i].status = "Skipped"}
Failed(assets) ==
    {i \in DOMAIN assets : assets[i].status = "Failed" \/ assets[i].error # ""}

\* "A quality tab is valid only when an actual loose texture was compressed."
has_valid_ntc_quality(assets) ==
    \E i \in DOMAIN assets :
        /\ assets[i].status \notin {"Skipped", "Failed"}
        /\ assets[i].original_path # "" /\ assets[i].reconstructed_path # ""

\* Faulty variant of texture_processing_status: any missing texture explains it.
texture_processing_status_any(textures, assets) ==
    CASE has_valid_ntc_quality(assets) -> "compressed"
      [] textures = <<>> -> "bypassed_no_external_textures"
      [] Skipped(assets) # {} -> "bypassed_embedded_or_missing_textures"
      [] OTHER -> "compression_failed"

\* summarize_ntc_state: why there is nothing to compare, if there is nothing.
texture_processing_status(textures, assets) ==
    IF has_valid_ntc_quality(assets) THEN "compressed"
    ELSE IF textures = <<>> THEN "bypassed_no_external_textures"
    ELSE IF Cardinality(Skipped(assets)) = Len(textures)
         THEN "bypassed_embedded_or_missing_textures"
    ELSE IF Failed(assets) # {} THEN "compression_failed"
    ELSE "bypassed_unknown"

\* The part of the telemetry that is about textures.
Telemetry(textures, bpp) ==
    LET assets == run_ntc_compression(textures, bpp) IN
    [ntc_compressed_files |-> assets,
     ntc_bypassed |-> ~has_valid_ntc_quality(assets),
     texture_processing_status |-> texture_processing_status(textures, assets)]

----------------------------------------------------------------------------
(***************************************************************************)
(* The window.                                                             *)
(***************************************************************************)

\* Faulty variant of IsCandidate: a texture that was skipped will do.
IsCandidateSkipped(asset) == asset.original_path # "" /\ asset.error = ""

IsCandidate(asset) ==
    asset.original_path # "" /\ asset.error = "" /\ asset.status # "Skipped"

\* findQualityAsset and hydrateQualityViewer: the first candidate decides.
OffersComparison(assets) ==
    \E i \in DOMAIN assets :
        /\ IsCandidate(assets[i])
        /\ \A j \in DOMAIN assets : j < i => ~IsCandidate(assets[j])
        /\ assets[i].reconstructed_path # ""

Parsed(assets) == {i \in DOMAIN assets : assets[i].vram_reduction # Absent}

\* Faulty variant of Average: every entry counts.
AverageOfAll(assets) ==
    LET reduction == [i \in Parsed(assets) |-> assets[i].vram_reduction] IN
    IF assets = <<>> THEN 0 ELSE SumFunction(reduction) \div Len(assets)

\* The mean of the reductions that are numbers.
Average(assets) ==
    LET reduction == [i \in Parsed(assets) |-> assets[i].vram_reduction] IN
    IF Parsed(assets) = {} THEN 0 ELSE SumFunction(reduction) \div Cardinality(Parsed(assets))

Saved(assets) == SumFunction([i \in DOMAIN assets |-> assets[i].vram_saved_mb])
Raw(assets)   == SumFunction([i \in DOMAIN assets |-> assets[i].raw_vram_mb])
Ntc(assets)   == SumFunction([i \in DOMAIN assets |-> assets[i].ntc_vram_mb])

\* The two segments of the doughnut.
Segments(assets) ==
    LET rawVram == Raw(assets)
        ntcVram == Ntc(assets)
    IN <<IF rawVram > ntcVram THEN rawVram - ntcVram ELSE 0, ntcVram>>
=============================================================================
