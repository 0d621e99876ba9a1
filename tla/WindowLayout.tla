---------------------------- MODULE WindowLayout ----------------------------
(***************************************************************************)
(* The layout of the window in nequ3d-app/frontend/src/main.ts: the panels *)
(* and their gutters (initResizablePanels), the divider of the comparison, *)
(* the tabs, the theme and the text scale.                                 *)
(*                                                                         *)
(* A drag is a closure: pointerdown measures everything once, and every    *)
(* pointermove of the window computes with that.  The listeners are the    *)
(* window's, so they hear all pointers, and nothing listens to             *)
(* pointercancel.  The theme is computed at the click and applied later,   *)
(* when the view transition gets to it.                                    *)
(***************************************************************************)
EXTENDS Integers, Sequences

CONSTANTS
    MIN_LEFT_PANEL, MIN_RIGHT_PANEL, MIN_CENTER_PANEL,
    Gap,                        \* what the clamp leaves for the gutters
    DefaultLeft, DefaultRight,  \* --left-panel-width and --right-panel-width
    Widths,                     \* the widths of the window
    Pointers,                   \* where a pointer can be
    Full,                       \* the width of the comparison
    MaxDrags,                   \* bound: drags at a time
    MaxTransitions              \* bound: view transitions at a time

ASSUME LayoutAssumption ==
    /\ MIN_LEFT_PANEL \in Nat /\ MIN_RIGHT_PANEL \in Nat /\ MIN_CENTER_PANEL \in Nat
    /\ Gap \in Nat /\ DefaultLeft \in Nat /\ DefaultRight \in Nat
    /\ Widths # {} /\ Widths \subseteq Nat /\ Pointers \subseteq Int
    /\ Full \in Nat \ {0} /\ MaxDrags \in Nat /\ MaxTransitions \in Nat

VARIABLES
    width,                  \* the width of the window
    left, right,            \* the widths of the panels
    drags,                  \* the drags whose listeners are registered
    activeMode, qualityAvailable,
    split,                  \* comparisonState.split
    isDraggingDivider,
    shown,                  \* where the divider and the clip path are
    theme, savedTheme,      \* document.body.dataset.theme, localStorage "nequ3d.theme"
    transitions,            \* the view transitions whose update has not run
    activeTextScale, savedScale,
    disturbed,              \* history: a second drag, or a resize, during a drag
    wanted                  \* history: the theme the last click asked for

panelVars == <<width, left, right, drags, disturbed>>
splitVars == <<activeMode, qualityAvailable, split, isDraggingDivider, shown>>
themeVars == <<theme, savedTheme, transitions, wanted>>
scaleVars == <<activeTextScale, savedScale>>
vars == <<panelVars, splitVars, themeVars, scaleVars>>

NaN == -1

Larger(a, b) == IF a >= b THEN a ELSE b
Smaller(a, b) == IF a <= b THEN a ELSE b
clamp(value, min, max) == Smaller(Larger(value, min), max)

----------------------------------------------------------------------------
(***************************************************************************)
(* The panels.                                                             *)
(***************************************************************************)

\* pointerdown on the gutter of a side: a drag with what is measured then.
Drag(side, x) ==
    [side |-> side, startX |-> x, startLeft |-> left, startRight |-> right,
     workspaceWidth |-> width]

Gutter(side) == IF side = "left" THEN left ELSE width - right

Down(side) ==
    /\ Len(drags) < MaxDrags
    /\ drags' = Append(drags, Drag(side, Gutter(side)))
    /\ disturbed' = (disturbed \/ drags # <<>>)
    /\ UNCHANGED <<width, left, right, splitVars, themeVars, scaleVars>>

\* Faulty variant of NextLeft: the centre is forgotten.
NextLeftUnbounded(drag, x) ==
    Larger(MIN_LEFT_PANEL, drag.startLeft + x - drag.startX)

NextLeft(drag, x) ==
    clamp(drag.startLeft + (x - drag.startX), MIN_LEFT_PANEL,
          Larger(MIN_LEFT_PANEL,
                 drag.workspaceWidth - drag.startRight - MIN_CENTER_PANEL - Gap))

NextRight(drag, x) ==
    clamp(drag.startRight - (x - drag.startX), MIN_RIGHT_PANEL,
          Larger(MIN_RIGHT_PANEL,
                 drag.workspaceWidth - drag.startLeft - MIN_CENTER_PANEL - Gap))

\* Every registered onMove runs, in the order of registration: of the drags of a
\* side, the last one decides.
Last(side) ==
    {i \in DOMAIN drags : drags[i].side = side /\ \A j \in DOMAIN drags :
                              j > i => drags[j].side # side}

Move(x) ==
    /\ drags # <<>>
    /\ left' \in IF Last("left") = {} THEN {left}
                 ELSE {NextLeft(drags[i], x) : i \in Last("left")}
    /\ right' \in IF Last("right") = {} THEN {right}
                  ELSE {NextRight(drags[i], x) : i \in Last("right")}
    /\ UNCHANGED <<width, drags, disturbed, splitVars, themeVars, scaleVars>>

\* syncComparisonLayout.  A browser ignores a length that is not a number.
Shown(value) == IF value = NaN THEN shown ELSE clamp(value, 0, Full)

\* pointerup: every registered onUp runs.  After a pointercancel the drags stay.
Up ==
    /\ drags # <<>>
    /\ drags' = <<>> /\ disturbed' = FALSE
    /\ shown' = Shown(split)
    /\ UNCHANGED <<width, left, right, activeMode, qualityAvailable, split, isDraggingDivider,
                   themeVars, scaleVars>>

Resize(w) ==
    /\ w # width /\ width' = w
    /\ disturbed' = (disturbed \/ drags # <<>>)
    /\ UNCHANGED <<left, right, drags, splitVars, themeVars, scaleVars>>

----------------------------------------------------------------------------
(***************************************************************************)
(* The comparison and its divider.                                         *)
(***************************************************************************)

\* A pointerdown can only hit a divider that is displayed.
DividerDown ==
    /\ activeMode = "quality" /\ ~isDraggingDivider
    /\ isDraggingDivider' = TRUE
    /\ UNCHANGED <<activeMode, qualityAvailable, split, shown, panelVars, themeVars, scaleVars>>

\* The pointer stays captured when the comparison is hidden during the drag.  Its
\* rectangle is all zeros then: x / 0 is Infinity, 0 / 0 is NaN.
SplitAt(x) ==
    IF activeMode = "quality" THEN clamp(x, 0, Full)
    ELSE IF x = 0 THEN NaN ELSE IF x < 0 THEN 0 ELSE Full

DividerMove(x) ==
    /\ isDraggingDivider
    /\ split' = SplitAt(x) /\ shown' = Shown(split')
    /\ UNCHANGED <<activeMode, qualityAvailable, isDraggingDivider, panelVars, themeVars, scaleVars>>

DividerUp ==
    /\ isDraggingDivider
    /\ isDraggingDivider' = FALSE
    /\ UNCHANGED <<activeMode, qualityAvailable, split, shown, panelVars, themeVars, scaleVars>>

\* switchTab, by a click.  The tab of the comparison is hidden without one.
switchTab(mode) ==
    /\ mode = "quality" => qualityAvailable
    /\ activeMode' = mode
    /\ shown' = IF mode = "quality" THEN Shown(split) ELSE shown
    /\ UNCHANGED <<qualityAvailable, split, isDraggingDivider, panelVars, themeVars, scaleVars>>

\* runAnalysis begins, routeSelectedAsset takes an asset, or an answer has
\* nothing to compare: setQualityAvailability switches the tab.
NoComparison ==
    /\ activeMode' = "mesh" /\ qualityAvailable' = FALSE
    /\ UNCHANGED <<split, isDraggingDivider, shown, panelVars, themeVars, scaleVars>>

\* Faulty variant of Synced: the layout is left to the next drag.
NotSynced == UNCHANGED shown

\* setQualityTextures ends with syncComparisonLayout.
Synced == shown' = Shown(split')

\* hydrateViewers: a new comparison starts in the middle.
Hydrate ==
    /\ qualityAvailable' = TRUE
    /\ split' = Full \div 2
    /\ Synced
    /\ UNCHANGED <<activeMode, isDraggingDivider, panelVars, themeVars, scaleVars>>

----------------------------------------------------------------------------
(***************************************************************************)
(* The theme and the text scale.                                           *)
(***************************************************************************)

\* Faulty variant of applyTheme: the theme is not saved.
applyThemeUnsaved(next) == theme' = next /\ UNCHANGED savedTheme

applyTheme(next) == theme' = next /\ savedTheme' = next

Opposite(t) == IF t = "light" THEN "dark" ELSE "light"

\* toggleTheme.  A browser without view transitions applies the theme at once.
ToggleAtOnce ==
    /\ transitions = <<>>
    /\ applyTheme(Opposite(theme)) /\ wanted' = Opposite(theme)
    /\ UNCHANGED <<transitions, panelVars, splitVars, scaleVars>>

Toggle ==
    /\ Len(transitions) < MaxTransitions
    /\ transitions' = Append(transitions, Opposite(theme)) /\ wanted' = Opposite(theme)
    /\ UNCHANGED <<theme, savedTheme, panelVars, splitVars, scaleVars>>

\* The updates run in the order of the clicks; a transition that is skipped for
\* the next one runs its update all the same.
Transition ==
    /\ transitions # <<>>
    /\ applyTheme(Head(transitions)) /\ transitions' = Tail(transitions)
    /\ UNCHANGED <<wanted, panelVars, splitVars, scaleVars>>

setTextScale(scale) ==
    /\ activeTextScale' = scale /\ savedScale' = scale
    /\ UNCHANGED <<panelVars, splitVars, themeVars>>

----------------------------------------------------------------------------
(***************************************************************************)
(* initUI: the theme and the scale are those that were saved, the rest is  *)
(* not kept.                                                               *)
(***************************************************************************)
Scales == {"sm", "md", "lg"}
Theme(saved) == IF saved = "light" THEN "light" ELSE "dark"
Scale(saved) == IF saved \in Scales THEN saved ELSE "md"

Init ==
    /\ width \in Widths /\ left = DefaultLeft /\ right = DefaultRight
    /\ drags = <<>> /\ disturbed = FALSE
    /\ activeMode = "mesh" /\ qualityAvailable = FALSE
    /\ split = Full \div 2 /\ shown = Full \div 2 /\ isDraggingDivider = FALSE
    /\ theme \in {"light", "dark"} /\ savedTheme = theme /\ wanted = theme
    /\ transitions = <<>>
    /\ activeTextScale \in Scales /\ savedScale = activeTextScale

Restart ==
    /\ width' \in Widths /\ left' = DefaultLeft /\ right' = DefaultRight
    /\ drags' = <<>> /\ disturbed' = FALSE
    /\ activeMode' = "mesh" /\ qualityAvailable' = FALSE
    /\ split' = Full \div 2 /\ shown' = Full \div 2 /\ isDraggingDivider' = FALSE
    /\ theme' = Theme(savedTheme) /\ savedTheme' = theme' /\ wanted' = theme'
    /\ transitions' = <<>>
    /\ activeTextScale' = Scale(savedScale) /\ savedScale' = activeTextScale'

Next ==
    \/ \E side \in {"left", "right"} : Down(side)
    \/ \E x \in Pointers : Move(x)
    \/ Up
    \/ \E w \in Widths : Resize(w)
    \/ DividerDown \/ DividerUp
    \/ \E x \in Pointers : DividerMove(x)
    \/ \E mode \in {"mesh", "quality"} : switchTab(mode)
    \/ NoComparison \/ Hydrate
    \/ ToggleAtOnce \/ Toggle \/ Transition
    \/ \E scale \in Scales : setTextScale(scale)
    \/ Restart

Spec == Init /\ [][Next]_vars

----------------------------------------------------------------------------
(***************************************************************************)
(* Properties.                                                             *)
(***************************************************************************)

\* A panel that a drag moves is at its own minimum, or leaves the centre its.
CentreFits ==
    LET fits == left' + MIN_CENTER_PANEL + Gap + right' <= width IN
    /\ left' # left => left' = MIN_LEFT_PANEL \/ fits
    /\ right' # right => right' = MIN_RIGHT_PANEL \/ fits

\* A drag never takes the centre below its minimum.  It computes with what was
\* measured at pointerdown, so this is promised only while nothing else moved:
\* two drags at a time, or a resize of the window during a drag, do break it.
CentreKept == [][drags # <<>> /\ drags' = drags /\ ~disturbed => CentreFits]_vars

\* The divider and the clip path are inside the comparison, and where
\* comparisonState says, whatever was dragged, hidden or loaded in between; not
\* a number is what a drag over a hidden comparison can leave there instead.
SplitShown ==
    /\ shown \in 0..Full
    /\ split # NaN => shown = split

\* A restart brings back the theme and the scale the user chose last: what the
\* last click asked for, unless its transition had not been run.
PreferencesSurvive ==
    [][Restart => /\ theme' = IF transitions = <<>> THEN wanted ELSE theme
                  /\ activeTextScale' = activeTextScale]_vars
=============================================================================
