------------------------------- MODULE LogView --------------------------------
(***************************************************************************)
(* The pane of the terminal UI that shows a target of the store: its keys  *)
(* in internal/tui/model.go and logLines.  Entries may come between a key  *)
(* and the frame that is drawn after it, and between two frames.           *)
(***************************************************************************)
EXTENDS Store, SequencesExt

CONSTANTS
  Matches(_, _),       \* a text contains a filter, in any case
  Height,              \* rows of the pane
  Page,                \* rows PgUp and PgDn move by
  MaxOffset            \* bound: of keys that scroll back before a frame is drawn

ASSUME ViewAssumption == {Height, Page, MaxOffset} \subseteq Nat \ {0}

VARIABLES
  target,              \* the selected service, and whether its logs or events are shown
  logFilter,
  offset, logEnd,      \* rows below the frame, 0 at the tail; anchor of a paused frame
  frame,               \* the rows drawn last
  since                \* history: what has moved the pane since then

viewVars == <<target, logFilter, offset, logEnd, frame, since>>

NoFilter == <<>>

ViewInit ==
  /\ target \in Targets /\ logFilter = NoFilter
  /\ offset = 0 /\ logEnd = 0
  /\ frame = <<>> /\ since = "other"

\* Another target or filter: back to the tail, though not yet without the anchor.
Turn(t, f) ==
  /\ target' = t /\ logFilter' = f /\ offset' = 0
  /\ UNCHANGED <<logEnd, frame>>

\* By a key.
Look(t, f) == Turn(t, f) /\ since' = "other"

\* By a snapshot.
LookAlong(t) ==
  Turn(t, logFilter) /\ since' = IF since \in {"none", "snapshot"} THEN "snapshot" ELSE "other"

\* Arrows by one, PgUp and PgDn by a page; back in time is positive.
Scroll(delta) ==
  /\ offset' = Min({MaxOffset, Max({0, offset + delta})}) /\ logEnd' = 0
  /\ since' = IF delta > 0 /\ since \in {"none", "up"} THEN "up" ELSE "other"
  /\ UNCHANGED <<target, logFilter, frame>>

\* The elements of s at these positions, in order; the k-th is the one of rank k.
Rank(positions, i) == Cardinality({j \in positions : j <= i})
Picked(s, positions) ==
  [k \in 1..Cardinality(positions) |-> s[CHOOSE i \in positions : Rank(positions, i) = k]]

Shown(e) == Matches(e.text, logFilter)

Rows == Picked(kept[target], {i \in DOMAIN kept[target] : Shown(kept[target][i])})

\* Mutant: the frame's distance from the tail is kept, not its anchor.
EndAtOffset(rows, back, anchor) == Len(rows) - back

\* The last row to draw: where the anchor is, or was before it was dropped.
EndRow(rows, back, anchor) ==
  IF back > 0 /\ anchor # 0
    THEN Max({1} \cup {i \in DOMAIN rows : rows[i].seq <= anchor})
    ELSE Len(rows) - back

\* logLines
Draw ==
  LET rows   == Rows
      anchor == IF offset = 0 THEN 0 ELSE logEnd
      end    == EndRow(rows, Min({offset, Max({0, Len(rows) - 1})}), anchor)
  IN  /\ offset' = Len(rows) - end
      /\ logEnd' = IF end < Len(rows) THEN rows[end].seq ELSE anchor
      /\ frame' = SubSeq(rows, Max({0, end - Height}) + 1, end)
      /\ since' = "none"
      /\ UNCHANGED <<target, logFilter>>

-----------------------------------------------------------------------------
(* Properties *)

ViewTypeOK ==
  /\ target \in Targets
  /\ offset \in Nat /\ logEnd \in 0..seq
  /\ since \in {"none", "up", "snapshot", "other"}

Retained(e) == e \in Range(kept[target])

\* A paused frame at which no key was pressed.
Unpressed == since = "none" /\ since' \in {"none", "snapshot"} /\ offset > 0

\* It ends at the entry it ended at, whatever is logged, and the pane stands at that entry;
\* when the store has dropped that, at the oldest there is.
PauseKept ==
  LET end == IF Retained(Last(frame)) THEN Last(frame) ELSE Rows[1]
  IN  \/ UNCHANGED viewVars
      \/ frame' # <<>> /\ Last(frame') = end /\ Rows[Len(Rows) - offset'] = end

\* A frame shows entries of its target that match, in order, and leaves out none of those
\* between the first and the last it shows.
ShownInOrder ==
  since = "none" =>
    /\ \A e \in Range(frame) : e \in Range(logged[target]) /\ Shown(e)
    /\ \A i, j \in DOMAIN frame : i < j => frame[i].seq < frame[j].seq
    /\ \A e \in Range(logged[target]) :
         Shown(e) /\ (\E i, j \in DOMAIN frame : frame[i].seq <= e.seq /\ e.seq <= frame[j].seq)
           => e \in Range(frame)

\* Scrolling back never shows a later entry ("Arrows / Tab: Select or scroll",
\* README.md:637).
UpGoesBack ==
  [][ since = "up" /\ since' = "none" /\ frame # <<>> /\ Retained(Last(frame)) =>
        Last(frame').seq <= Last(frame).seq ]_<<storeVars, viewVars>>

=============================================================================
