----------------------------- MODULE ZoneEditor -----------------------------
(***************************************************************************)
(* draw_zones.py: the operator draws zones and counting lines on a frame   *)
(* of a camera and saves them as a JSON file.  The mouse callback and the  *)
(* keys are handled in turn by one thread, so each event is one action.    *)
(*                                                                         *)
(* A shape is [name, drawing, points], its points counted and not placed,  *)
(* so that dragging one in EDIT mode changes nothing here; a name is a     *)
(* number, the n-th shape of a list being named n by default.              *)
(* Bounds: MaxDrawings shapes drawn in all, MaxPoints points in a zone.    *)
(***************************************************************************)
EXTENDS Integers, SequencesExt

CONSTANTS Names, MaxDrawings, MaxPoints, NoFile

VARIABLES
  zonesDrawn, linesDrawn,    \* self.zones, self.lines
  clicked,                   \* the number of points of the shape in progress
  lineMode, mode,
  file,                      \* the JSON file: [zones, lines], or NoFile
  drawings                   \* the number of shapes drawn so far

shapes     == <<zonesDrawn, linesDrawn>>
editorVars == <<shapes, clicked, lineMode, mode, file, drawings>>

EditorInit ==
  /\ zonesDrawn = <<>> /\ linesDrawn = <<>> /\ clicked = 0
  /\ lineMode = FALSE /\ mode = "DRAW"
  /\ file = NoFile /\ drawings = 0

ListOf(kind) == IF kind = "zone" THEN zonesDrawn ELSE linesDrawn

(* A new shape, under the name offered or one the operator types. *)
Finished(list, points, drawn) ==
  /\ drawings < MaxDrawings /\ drawings' = drawings + 1
  /\ \E name \in Names \cup {Len(list) + 1} :
       drawn = Append(list, [name |-> name, drawing |-> drawings, points |-> points])

(* Left button in DRAW mode: a point; the third of a line is its IN side and
   finishes it. *)
Click ==
  /\ mode = "DRAW" /\ clicked < MaxPoints
  /\ IF lineMode /\ clicked = 2
     THEN clicked' = 0 /\ Finished(linesDrawn, 2, linesDrawn')
     ELSE clicked' = clicked + 1 /\ UNCHANGED <<linesDrawn, drawings>>
  /\ UNCHANGED <<zonesDrawn, lineMode, mode, file>>

(* Right button, or the key f. *)
FinishZone ==
  /\ mode = "DRAW" /\ ~lineMode /\ clicked >= 3
  /\ Finished(zonesDrawn, clicked, zonesDrawn')
  /\ clicked' = 0
  /\ UNCHANGED <<linesDrawn, lineMode, mode, file>>

Undo ==
  /\ clicked > 0 /\ clicked' = clicked - 1
  /\ UNCHANGED <<shapes, lineMode, mode, file, drawings>>

RemoveShape(kind, i) ==
  /\ mode = "REMOVE"
  /\ IF kind = "zone"
     THEN zonesDrawn' = RemoveAt(zonesDrawn, i) /\ UNCHANGED linesDrawn
     ELSE linesDrawn' = RemoveAt(linesDrawn, i) /\ UNCHANGED zonesDrawn
  /\ UNCHANGED <<clicked, lineMode, mode, file, drawings>>

RenameShape(kind, i) ==
  /\ mode = "RENAME"
  /\ \E name \in Names :
       IF kind = "zone"
       THEN zonesDrawn' = [zonesDrawn EXCEPT ![i].name = name] /\ UNCHANGED linesDrawn
       ELSE linesDrawn' = [linesDrawn EXCEPT ![i].name = name] /\ UNCHANGED zonesDrawn
  /\ UNCHANGED <<clicked, lineMode, mode, file, drawings>>

ToggleLine ==
  /\ lineMode' = ~lineMode /\ clicked' = 0
  /\ UNCHANGED <<shapes, mode, file, drawings>>

Toggle(m) ==
  /\ mode' = (IF mode = m THEN "DRAW" ELSE m) /\ clicked' = 0
  /\ UNCHANGED <<shapes, lineMode, file, drawings>>

Save ==
  /\ file' = [zones |-> zonesDrawn, lines |-> linesDrawn]
  /\ UNCHANGED <<shapes, clicked, lineMode, mode, drawings>>

(* The editor ends, and starts again on an empty drawing. *)
Quit ==
  /\ zonesDrawn' = <<>> /\ linesDrawn' = <<>> /\ clicked' = 0
  /\ lineMode' = FALSE /\ mode' = "DRAW"
  /\ UNCHANGED <<file, drawings>>

EditorNext ==
  \/ Click \/ FinishZone \/ Undo
  \/ \E kind \in {"zone", "line"} : \E i \in DOMAIN ListOf(kind) : RemoveShape(kind, i) \/ RenameShape(kind, i)
  \/ ToggleLine
  \/ \E m \in {"EDIT", "REMOVE", "RENAME"} : Toggle(m)
  \/ Save \/ Quit
==============================================================================
