------------------------- MODULE WindowLayoutProofs -------------------------
(***************************************************************************)
(* Proofs about WindowLayout for every window, every minimum of the panels *)
(* and every movement of the pointers.                                     *)
(***************************************************************************)
EXTENDS WindowLayout, SequenceTheorems, TLAPS

Drags == [side : {"left", "right"}, startX : Int, startLeft : Int, startRight : Int,
          workspaceWidth : Int]

PanelTypes ==
    /\ width \in Int /\ left \in Int /\ right \in Int
    /\ drags \in Seq(Drags)

\* As long as nothing else moved there is one drag at most, and what it measured
\* of the window and of the other panel still holds.
DragCurrent ==
    ~disturbed /\ drags # <<>> =>
        /\ Len(drags) = 1
        /\ drags[1].workspaceWidth = width
        /\ drags[1].side = "left" => drags[1].startRight = right
        /\ drags[1].side = "right" => drags[1].startLeft = left

PanelInv == PanelTypes /\ DragCurrent

\* The operators of the clamp are whole numbers, within their bounds.
LEMMA ClampBounds ==
    ASSUME NEW v \in Int, NEW low \in Int, NEW high \in Int, low <= high
    PROVE  /\ clamp(v, low, high) \in Int
           /\ low <= clamp(v, low, high) /\ clamp(v, low, high) <= high
  BY DEF clamp, Larger, Smaller

\* A drag of the left gutter leaves the centre its minimum, measured with the
\* right panel and the window as they were at its pointerdown.
LEMMA NextLeftFits ==
    ASSUME NEW drag \in Drags, NEW x \in Int
    PROVE  /\ NextLeft(drag, x) \in Int
           /\ \/ NextLeft(drag, x) = MIN_LEFT_PANEL
              \/ NextLeft(drag, x) + MIN_CENTER_PANEL + Gap + drag.startRight
                    <= drag.workspaceWidth
<1> DEFINE room == drag.workspaceWidth - drag.startRight - MIN_CENTER_PANEL - Gap
           high == Larger(MIN_LEFT_PANEL, room)
           v    == drag.startLeft + (x - drag.startX)
<1>1. /\ drag.workspaceWidth \in Int /\ drag.startRight \in Int /\ drag.startLeft \in Int
      /\ drag.startX \in Int
  BY DEF Drags
<1>2. MIN_LEFT_PANEL \in Int /\ MIN_CENTER_PANEL \in Int /\ Gap \in Int
  BY LayoutAssumption
<1>3. room \in Int /\ v \in Int
  BY <1>1, <1>2
<1>4. high \in Int /\ MIN_LEFT_PANEL <= high /\ (high = MIN_LEFT_PANEL \/ high = room)
  BY <1>2, <1>3 DEF Larger
<1> HIDE DEF high, v
<1>5. /\ clamp(v, MIN_LEFT_PANEL, high) \in Int
      /\ MIN_LEFT_PANEL <= clamp(v, MIN_LEFT_PANEL, high)
      /\ clamp(v, MIN_LEFT_PANEL, high) <= high
  BY <1>2, <1>3, <1>4, ClampBounds
<1> DEFINE next == clamp(v, MIN_LEFT_PANEL, high)
<1>6. NextLeft(drag, x) = next
  BY DEF NextLeft, high, v
<1> HIDE DEF next
<1>7. next = MIN_LEFT_PANEL \/ next <= room
  BY <1>2, <1>3, <1>4, <1>5 DEF next
<1>8. next <= room => next + MIN_CENTER_PANEL + Gap + drag.startRight <= drag.workspaceWidth
  BY <1>1, <1>2, <1>5 DEF next
<1>9. QED
  BY <1>1, <1>2, <1>5, <1>6, <1>7, <1>8 DEF next

\* The same for the right gutter.
LEMMA NextRightFits ==
    ASSUME NEW drag \in Drags, NEW x \in Int
    PROVE  /\ NextRight(drag, x) \in Int
           /\ \/ NextRight(drag, x) = MIN_RIGHT_PANEL
              \/ drag.startLeft + MIN_CENTER_PANEL + Gap + NextRight(drag, x)
                    <= drag.workspaceWidth
<1> DEFINE room == drag.workspaceWidth - drag.startLeft - MIN_CENTER_PANEL - Gap
           high == Larger(MIN_RIGHT_PANEL, room)
           v    == drag.startRight - (x - drag.startX)
<1>1. /\ drag.workspaceWidth \in Int /\ drag.startRight \in Int /\ drag.startLeft \in Int
      /\ drag.startX \in Int
  BY DEF Drags
<1>2. MIN_RIGHT_PANEL \in Int /\ MIN_CENTER_PANEL \in Int /\ Gap \in Int
  BY LayoutAssumption
<1>3. room \in Int /\ v \in Int
  BY <1>1, <1>2
<1>4. high \in Int /\ MIN_RIGHT_PANEL <= high /\ (high = MIN_RIGHT_PANEL \/ high = room)
  BY <1>2, <1>3 DEF Larger
<1> HIDE DEF high, v
<1>5. /\ clamp(v, MIN_RIGHT_PANEL, high) \in Int
      /\ MIN_RIGHT_PANEL <= clamp(v, MIN_RIGHT_PANEL, high)
      /\ clamp(v, MIN_RIGHT_PANEL, high) <= high
  BY <1>2, <1>3, <1>4, ClampBounds
<1> DEFINE next == clamp(v, MIN_RIGHT_PANEL, high)
<1>6. NextRight(drag, x) = next
  BY DEF NextRight, high, v
<1> HIDE DEF next
<1>7. next = MIN_RIGHT_PANEL \/ next <= room
  BY <1>2, <1>3, <1>4, <1>5 DEF next
<1>8. next <= room => next + MIN_CENTER_PANEL + Gap + drag.startLeft <= drag.workspaceWidth
  BY <1>1, <1>2, <1>5 DEF next
<1>9. QED
  BY <1>1, <1>2, <1>5, <1>6, <1>7, <1>8 DEF next

\* A movement leaves each panel where it was, or where one of the registered
\* drags of its side takes it.
LEMMA MoveTargets ==
    ASSUME NEW x \in Int, Move(x)
    PROVE  /\ left' = left \/ \E i \in DOMAIN drags :
                                 drags[i].side = "left" /\ left' = NextLeft(drags[i], x)
           /\ right' = right \/ \E i \in DOMAIN drags :
                                   drags[i].side = "right" /\ right' = NextRight(drags[i], x)
<1>1. left' = left \/ \E i \in Last("left") : left' = NextLeft(drags[i], x)
  BY DEF Move
<1>2. right' = right \/ \E i \in Last("right") : right' = NextRight(drags[i], x)
  BY DEF Move
<1>3. QED
  BY <1>1, <1>2 DEF Last

LEMMA MoveTypes ==
    ASSUME PanelTypes, NEW x \in Int, Move(x)
    PROVE  left' \in Int /\ right' \in Int
<1>1. \A i \in DOMAIN drags : drags[i] \in Drags
  BY DEF PanelTypes
<1>2. \A i \in DOMAIN drags : NextLeft(drags[i], x) \in Int /\ NextRight(drags[i], x) \in Int
  BY <1>1, NextLeftFits, NextRightFits
<1>3. QED
  BY <1>2, MoveTargets DEF PanelTypes

LEMMA InitPanels == Init => PanelInv
<1> SUFFICES ASSUME Init PROVE PanelInv
  OBVIOUS
<1>1. width \in Int /\ left \in Int /\ right \in Int
  BY LayoutAssumption DEF Init
<1>2. drags = <<>> /\ drags \in Seq(Drags)
  BY DEF Init
<1>3. QED
  BY <1>1, <1>2 DEF PanelInv, PanelTypes, DragCurrent

\* What a pointerdown measures is current.
LEMMA DownPanels ==
    ASSUME PanelInv, NEW side \in {"left", "right"}, Down(side)
    PROVE  PanelInv'
<1> DEFINE drag == Drag(side, Gutter(side))
<1>1. drag \in Drags
  BY DEF drag, Drag, Drags, Gutter, PanelInv, PanelTypes
<1>2. /\ drag.side = side /\ drag.startRight = right /\ drag.startLeft = left
      /\ drag.workspaceWidth = width
  BY DEF drag, Drag
<1>3. /\ drags' = Append(drags, drag) /\ drags \in Seq(Drags)
      /\ disturbed' = (disturbed \/ drags # <<>>)
      /\ width' = width /\ left' = left /\ right' = right
  BY DEF Down, PanelInv, PanelTypes
<1> HIDE DEF drag
<1>4. drags' \in Seq(Drags)
  BY <1>1, <1>3, AppendProperties
<1>5. PanelTypes'
  BY <1>3, <1>4 DEF PanelInv, PanelTypes
<1>6. CASE drags = <<>>
  <2>1. drags' = <<drag>>
    BY <1>3, <1>6
  <2>2. Len(drags') = 1 /\ drags'[1] = drag
    BY <2>1
  <2>3. DragCurrent'
    BY <1>2, <1>3, <2>2 DEF DragCurrent
  <2>4. QED
    BY <1>5, <2>3 DEF PanelInv
<1>7. CASE drags # <<>>
  <2>1. disturbed'
    BY <1>3, <1>7
  <2>2. QED
    BY <1>5, <2>1 DEF PanelInv, DragCurrent
<1>8. QED
  BY <1>6, <1>7

\* The one undisturbed drag moves the panel of its own side only.
LEMMA MovePanels ==
    ASSUME PanelInv, NEW x \in Int, Move(x)
    PROVE  PanelInv'
<1>1. left' \in Int /\ right' \in Int
  BY MoveTypes DEF PanelInv
<1>2. width' = width /\ drags' = drags /\ disturbed' = disturbed
  BY DEF Move
<1>3. PanelTypes'
  BY <1>1, <1>2 DEF PanelInv, PanelTypes
<1>4. ASSUME ~disturbed, drags # <<>>
      PROVE  /\ drags[1].side = "left" => right' = right
             /\ drags[1].side = "right" => left' = left
  <2>1. DOMAIN drags = {1}
    BY <1>4 DEF PanelInv, PanelTypes, DragCurrent
  <2>2. QED
    BY <2>1, MoveTargets
<1>5. DragCurrent'
  BY <1>2, <1>4 DEF PanelInv, DragCurrent
<1>6. QED
  BY <1>3, <1>5 DEF PanelInv

LEMMA StepPanels == PanelInv /\ [Next]_vars => PanelInv'
<1> SUFFICES ASSUME PanelInv, [Next]_vars PROVE PanelInv'
  OBVIOUS
<1>1. ASSUME NEW side \in {"left", "right"}, Down(side) PROVE PanelInv'
  BY <1>1, DownPanels
<1>2. ASSUME NEW x \in Pointers, Move(x) PROVE PanelInv'
  BY <1>2, MovePanels, LayoutAssumption
<1>3. CASE Up
  BY <1>3 DEF Up, PanelInv, PanelTypes, DragCurrent
<1>4. ASSUME NEW w \in Widths, Resize(w) PROVE PanelInv'
  <2>1. /\ width' \in Int /\ left' = left /\ right' = right /\ drags' = drags
        /\ disturbed' = (disturbed \/ drags # <<>>)
    BY <1>4, LayoutAssumption DEF Resize
  <2>2. PanelTypes'
    BY <2>1 DEF PanelInv, PanelTypes
  <2>3. disturbed' \/ drags' = <<>>
    BY <2>1
  <2>4. QED
    BY <2>2, <2>3 DEF PanelInv, DragCurrent
<1>5. CASE Restart
  BY <1>5, LayoutAssumption DEF Restart, PanelInv, PanelTypes, DragCurrent
<1>6. CASE UNCHANGED panelVars
  BY <1>6 DEF panelVars, PanelInv, PanelTypes, DragCurrent
<1>7. CASE DividerDown \/ DividerUp \/ NoComparison \/ Hydrate
  BY <1>6, <1>7 DEF DividerDown, DividerUp, NoComparison, Hydrate
<1>8. ASSUME NEW x \in Pointers, DividerMove(x) PROVE PanelInv'
  BY <1>6, <1>8 DEF DividerMove
<1>9. ASSUME NEW mode \in {"mesh", "quality"}, switchTab(mode) PROVE PanelInv'
  BY <1>6, <1>9 DEF switchTab
<1>10. CASE ToggleAtOnce \/ Toggle \/ Transition
  BY <1>6, <1>10 DEF ToggleAtOnce, Toggle, Transition
<1>11. ASSUME NEW scale \in Scales, setTextScale(scale) PROVE PanelInv'
  BY <1>6, <1>11 DEF setTextScale
<1>12. CASE UNCHANGED vars
  BY <1>6, <1>12 DEF vars
<1>13. QED
  BY <1>1, <1>2, <1>3, <1>4, <1>5, <1>7, <1>8, <1>9, <1>10, <1>11, <1>12 DEF Next

\* An undisturbed movement leaves the centre its minimum, or the panel at its own.
LEMMA MoveFits ==
    ASSUME PanelInv, NEW x \in Int, Move(x), drags # <<>>, ~disturbed
    PROVE  CentreFits
<1> DEFINE drag == drags[1]
<1>1. DOMAIN drags = {1} /\ drag \in Drags
  BY DEF PanelInv, PanelTypes, DragCurrent
<1>2. /\ left' = left \/ (drag.side = "left" /\ left' = NextLeft(drag, x))
      /\ right' = right \/ (drag.side = "right" /\ right' = NextRight(drag, x))
  BY <1>1, MoveTargets
<1>3. /\ drag.workspaceWidth = width
      /\ drag.side = "left" => drag.startRight = right
      /\ drag.side = "right" => drag.startLeft = left
  BY DEF PanelInv, DragCurrent
<1> HIDE DEF drag
<1>4. ASSUME left' # left PROVE CentreFits
  <2>1. drag.side = "left" /\ left' = NextLeft(drag, x) /\ drag.startRight = right
    BY <1>2, <1>3, <1>4
  <2>2. right' = right
    BY <1>2, <2>1
  <2>3. left' = MIN_LEFT_PANEL \/ left' + MIN_CENTER_PANEL + Gap + right' <= width
    BY <1>1, <1>3, <2>1, <2>2, NextLeftFits
  <2>4. QED
    BY <2>2, <2>3 DEF CentreFits
<1>5. ASSUME right' # right PROVE CentreFits
  <2>1. drag.side = "right" /\ right' = NextRight(drag, x) /\ drag.startLeft = left
    BY <1>2, <1>3, <1>5
  <2>2. left' = left
    BY <1>2, <2>1
  <2>3. right' = MIN_RIGHT_PANEL \/ left' + MIN_CENTER_PANEL + Gap + right' <= width
    BY <1>1, <1>3, <2>1, <2>2, NextRightFits
  <2>4. QED
    BY <2>2, <2>3 DEF CentreFits
<1>6. QED
  BY <1>4, <1>5 DEF CentreFits

\* Nothing but a movement moves a panel while the drags stay registered.
LEMMA OnlyMovesDuringDrags ==
    ASSUME PanelInv, [Next]_vars, drags # <<>>, drags' = drags
    PROVE  (left' = left /\ right' = right) \/ \E x \in Pointers : Move(x)
<1>1. ASSUME NEW side \in {"left", "right"}, Down(side) PROVE FALSE
  <2>1. drags' = Append(drags, Drag(side, Gutter(side))) /\ drags \in Seq(Drags)
    BY <1>1 DEF Down, PanelInv, PanelTypes
  <2>2. Len(drags') = Len(drags) + 1 /\ Len(drags) \in Nat
    BY <2>1
  <2>3. QED
    BY <2>2
<1>2. ASSUME NEW w \in Widths, Resize(w) PROVE left' = left /\ right' = right
  BY <1>2 DEF Resize
<1>3. ~Up /\ ~Restart
  BY DEF Up, Restart
<1>4. CASE UNCHANGED panelVars
  BY <1>4 DEF panelVars
<1>5. CASE DividerDown \/ DividerUp \/ NoComparison \/ Hydrate
  BY <1>4, <1>5 DEF DividerDown, DividerUp, NoComparison, Hydrate
<1>6. ASSUME NEW x \in Pointers, DividerMove(x) PROVE UNCHANGED panelVars
  BY <1>6 DEF DividerMove
<1>7. ASSUME NEW mode \in {"mesh", "quality"}, switchTab(mode) PROVE UNCHANGED panelVars
  BY <1>7 DEF switchTab
<1>8. CASE ToggleAtOnce \/ Toggle \/ Transition
  BY <1>4, <1>8 DEF ToggleAtOnce, Toggle, Transition
<1>9. ASSUME NEW scale \in Scales, setTextScale(scale) PROVE UNCHANGED panelVars
  BY <1>9 DEF setTextScale
<1>10. CASE UNCHANGED vars
  BY <1>4, <1>10 DEF vars
<1>11. QED
  BY <1>1, <1>2, <1>3, <1>4, <1>5, <1>6, <1>7, <1>8, <1>9, <1>10 DEF Next

\* The panels keep their types, and an undisturbed drag knows the layout it is
\* part of.
THEOREM PanelsCorrect == Spec => []PanelInv
<1>1. Init => PanelInv
  BY InitPanels
<1>2. PanelInv /\ [Next]_vars => PanelInv'
  BY StepPanels
<1>3. QED
  BY <1>1, <1>2, PTL DEF Spec

\* No undisturbed drag takes the centre below its minimum, in any window.
THEOREM CentreCorrect == Spec => CentreKept
<1>1. PanelInv /\ [Next]_vars => [drags # <<>> /\ drags' = drags /\ ~disturbed => CentreFits]_vars
  <2> SUFFICES ASSUME PanelInv, [Next]_vars, drags # <<>>, drags' = drags, ~disturbed
               PROVE  CentreFits
    OBVIOUS
  <2>1. CASE left' = left /\ right' = right
    BY <2>1 DEF CentreFits
  <2>2. ASSUME NEW x \in Pointers, Move(x) PROVE CentreFits
    BY <2>2, MoveFits, LayoutAssumption
  <2>3. QED
    BY <2>1, <2>2, OnlyMovesDuringDrags
<1>2. Spec => []PanelInv
  BY PanelsCorrect
<1>3. QED
  BY <1>1, <1>2, PTL DEF Spec, CentreKept

----------------------------------------------------------------------------
(***************************************************************************)
(* The comparison.                                                         *)
(***************************************************************************)
SplitInv == split \in (0..Full) \cup {NaN} /\ SplitShown

LEMMA SyncedShown ==
    ASSUME SplitInv, split' \in (0..Full) \cup {NaN}, shown' = Shown(split')
    PROVE  SplitInv'
  BY LayoutAssumption DEF SplitInv, SplitShown, Shown, clamp, Larger, Smaller, NaN

LEMMA SplitRange ==
    ASSUME NEW x \in Int
    PROVE  SplitAt(x) \in (0..Full) \cup {NaN} /\ Full \div 2 \in 0..Full
  BY LayoutAssumption DEF SplitAt, clamp, Larger, Smaller

LEMMA StepSplit == SplitInv /\ [Next]_vars => SplitInv'
<1> SUFFICES ASSUME SplitInv, [Next]_vars PROVE SplitInv'
  OBVIOUS
<1>1. CASE UNCHANGED <<split, shown>>
  BY <1>1 DEF SplitInv, SplitShown
<1>2. ASSUME NEW side \in {"left", "right"}, Down(side) PROVE SplitInv'
  BY <1>1, <1>2 DEF Down, splitVars
<1>3. ASSUME NEW x \in Pointers, Move(x) PROVE SplitInv'
  BY <1>1, <1>3 DEF Move, splitVars
<1>4. CASE Up
  BY <1>4, SyncedShown DEF Up, SplitInv
<1>5. ASSUME NEW w \in Widths, Resize(w) PROVE SplitInv'
  BY <1>1, <1>5 DEF Resize, splitVars
<1>6. CASE DividerDown \/ DividerUp \/ NoComparison
  BY <1>1, <1>6 DEF DividerDown, DividerUp, NoComparison
<1>7. ASSUME NEW x \in Pointers, DividerMove(x) PROVE SplitInv'
  BY <1>7, SyncedShown, SplitRange, LayoutAssumption DEF DividerMove
<1>8. ASSUME NEW mode \in {"mesh", "quality"}, switchTab(mode) PROVE SplitInv'
  BY <1>1, <1>8, SyncedShown DEF switchTab, SplitInv
<1>9. CASE Hydrate
  BY <1>9, SyncedShown, SplitRange DEF Hydrate, Synced
<1>10. CASE ToggleAtOnce \/ Toggle \/ Transition
  BY <1>1, <1>10 DEF ToggleAtOnce, Toggle, Transition, splitVars
<1>11. ASSUME NEW scale \in Scales, setTextScale(scale) PROVE SplitInv'
  BY <1>1, <1>11 DEF setTextScale, splitVars
<1>12. CASE Restart
  BY <1>12, SplitRange DEF Restart, SplitInv, SplitShown
<1>13. CASE UNCHANGED vars
  BY <1>1, <1>13 DEF vars, splitVars
<1>14. QED
  BY <1>2, <1>3, <1>4, <1>5, <1>6, <1>7, <1>8, <1>9, <1>10, <1>11, <1>12, <1>13 DEF Next

\* The divider is drawn inside the comparison and where comparisonState says,
\* for every width and every order of drags, tabs and new comparisons.
THEOREM SplitCorrect == Spec => []SplitShown
<1>1. Init => SplitInv
  BY SplitRange DEF Init, SplitInv, SplitShown
<1>2. SplitInv /\ [Next]_vars => SplitInv'
  BY StepSplit
<1>3. SplitInv => SplitShown
  BY DEF SplitInv
<1>4. QED
  BY <1>1, <1>2, <1>3, PTL DEF Spec

----------------------------------------------------------------------------
(***************************************************************************)
(* The theme and the scale.                                                *)
(***************************************************************************)
Themes == {"light", "dark"}

\* What is shown is saved, and the last transition to come, or else the theme, is
\* what the last click asked for.
PreferenceInv ==
    /\ theme \in Themes /\ savedTheme = theme
    /\ transitions \in Seq(Themes)
    /\ wanted = IF transitions = <<>> THEN theme ELSE transitions[Len(transitions)]
    /\ activeTextScale \in Scales /\ savedScale = activeTextScale

LEMMA ToggleStep == PreferenceInv /\ Toggle => PreferenceInv'
<1> SUFFICES ASSUME PreferenceInv, Toggle PROVE PreferenceInv'
  OBVIOUS
<1>1. Opposite(theme) \in Themes
  BY DEF Opposite, Themes
<1>2. transitions \in Seq(Themes) /\ transitions' = Append(transitions, Opposite(theme))
  BY DEF PreferenceInv, Toggle
<1>3. /\ transitions' \in Seq(Themes) /\ transitions' # <<>>
      /\ transitions'[Len(transitions')] = Opposite(theme)
  BY <1>1, <1>2, AppendProperties
<1>4. QED
  BY <1>3 DEF PreferenceInv, Toggle, scaleVars

LEMMA TransitionStep == PreferenceInv /\ Transition => PreferenceInv'
<1> SUFFICES ASSUME PreferenceInv, Transition PROVE PreferenceInv'
  OBVIOUS
<1>1. transitions \in Seq(Themes) /\ transitions # <<>> /\ transitions' = Tail(transitions)
  BY DEF PreferenceInv, Transition
<1>2. transitions' \in Seq(Themes) /\ Head(transitions) \in Themes
  BY <1>1
<1>3. theme' = Head(transitions) /\ savedTheme' = theme' /\ wanted' = wanted
  BY DEF Transition, applyTheme
<1>4. wanted = transitions[Len(transitions)]
  BY <1>1 DEF PreferenceInv
<1>5. CASE transitions' = <<>>
  <2>1. Len(transitions) = 1
    <3>1. Len(transitions') = Len(transitions) - 1
      BY <1>1
    <3>2. Len(transitions') = 0
      BY <1>5
    <3>3. QED
      BY <1>1, <3>1, <3>2
  <2>2. Head(transitions) = transitions[Len(transitions)]
    BY <1>1, <2>1
  <2>3. QED
    BY <1>2, <1>3, <1>4, <1>5, <2>2 DEF PreferenceInv, Transition, scaleVars
<1>6. CASE transitions' # <<>>
  <2>1. /\ Len(transitions') = Len(transitions) - 1 /\ Len(transitions') >= 1
        /\ transitions'[Len(transitions')] = transitions[Len(transitions)]
    BY <1>1, <1>2, <1>6
  <2>2. QED
    BY <1>2, <1>3, <1>4, <1>6, <2>1 DEF PreferenceInv, Transition, scaleVars
<1>7. QED
  BY <1>5, <1>6

LEMMA StepPreferences == PreferenceInv /\ [Next]_vars => PreferenceInv'
<1> SUFFICES ASSUME PreferenceInv, [Next]_vars PROVE PreferenceInv'
  OBVIOUS
<1>1. CASE UNCHANGED <<themeVars, scaleVars>>
  BY <1>1 DEF PreferenceInv, themeVars, scaleVars
<1>2. ASSUME NEW side \in {"left", "right"}, Down(side) PROVE PreferenceInv'
  BY <1>1, <1>2 DEF Down
<1>3. ASSUME NEW x \in Pointers, Move(x) PROVE PreferenceInv'
  BY <1>1, <1>3 DEF Move
<1>4. CASE Up
  BY <1>1, <1>4 DEF Up
<1>5. ASSUME NEW w \in Widths, Resize(w) PROVE PreferenceInv'
  BY <1>1, <1>5 DEF Resize
<1>6. CASE DividerDown \/ DividerUp \/ NoComparison \/ Hydrate
  BY <1>1, <1>6 DEF DividerDown, DividerUp, NoComparison, Hydrate
<1>7. ASSUME NEW x \in Pointers, DividerMove(x) PROVE PreferenceInv'
  BY <1>1, <1>7 DEF DividerMove
<1>8. ASSUME NEW mode \in {"mesh", "quality"}, switchTab(mode) PROVE PreferenceInv'
  BY <1>1, <1>8 DEF switchTab
<1>9. CASE ToggleAtOnce
  BY <1>9 DEF ToggleAtOnce, applyTheme, Opposite, Themes, PreferenceInv, scaleVars
<1>10. CASE Toggle
  BY <1>10, ToggleStep
<1>11. CASE Transition
  BY <1>11, TransitionStep
<1>12. ASSUME NEW scale \in Scales, setTextScale(scale) PROVE PreferenceInv'
  BY <1>12 DEF setTextScale, PreferenceInv, themeVars
<1>13. CASE Restart
  BY <1>13 DEF Restart, PreferenceInv, Theme, Scale, Themes, Scales
<1>14. CASE UNCHANGED vars
  BY <1>1, <1>14 DEF vars
<1>15. QED
  BY <1>2, <1>3, <1>4, <1>5, <1>6, <1>7, <1>8, <1>9, <1>10, <1>11, <1>12, <1>13, <1>14 DEF Next

\* A restart keeps the theme last asked for and the text scale, however many
\* transitions were under way.
THEOREM PreferencesCorrect == Spec => PreferencesSurvive
<1>1. Init => PreferenceInv
  BY DEF Init, PreferenceInv, Themes
<1>2. PreferenceInv /\ [Next]_vars => PreferenceInv'
  BY StepPreferences
<1>3. PreferenceInv /\ [Next]_vars =>
        [Restart => /\ theme' = IF transitions = <<>> THEN wanted ELSE theme
                    /\ activeTextScale' = activeTextScale]_vars
  BY DEF Restart, PreferenceInv, Theme, Scale, Themes, Scales
<1>4. QED
  BY <1>1, <1>2, <1>3, PTL DEF Spec, PreferencesSurvive
=============================================================================
