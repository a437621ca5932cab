------------------------------ MODULE ZoneFiles ------------------------------
(***************************************************************************)
(* The tools that carry a drawn file into the database: ingest_drawn.py,   *)
(* register_zones.py, update_zones.py, and prune_unassigned_zones.py that  *)
(* takes out the zones that belong to no space.  One camera: the one the   *)
(* name of the file resolves to.  MaxRows bounds the rows of the database. *)
(***************************************************************************)
EXTENDS ZoneEditor, FiniteSetsExt, Functions

CONSTANT MaxRows

VARIABLE rows    \* zones and lines of the camera: id -> [kind, name, drawing, spaced]

FilesInit == rows = [id \in {} |-> 0]

KeyOf(row) == <<row.kind, row.name>>

(* The shapes of the file, zones before lines. *)
Shapes ==
  LET typed(kind, s) == [kind |-> kind, name |-> s.name, drawing |-> s.drawing]
      zs == [i \in DOMAIN file.zones |-> typed("zone", file.zones[i])]
      ls == [i \in DOMAIN file.lines |-> typed("line", file.lines[i])]
  IN  zs \o ls

HighestId == IF DOMAIN rows = {} THEN 0 ELSE Max(DOMAIN rows)

(* New rows for the shapes of the file at some places, in the order of the file;
   dt_space_id is what the operator gave at the prompt, none included. *)
Inserted(chosen) ==
  LET idOf(i)     == HighestId + Cardinality({j \in chosen : j <= i})
      shapeOf(id) == Shapes[CHOOSE i \in chosen : idOf(i) = id]
  IN  /\ HighestId + Cardinality(chosen) <= MaxRows
      /\ \E spaced \in BOOLEAN :
           rows' = [id \in DOMAIN rows \cup {idOf(i) : i \in chosen} |->
                      IF id \in DOMAIN rows THEN rows[id]
                      ELSE [kind |-> shapeOf(id).kind, name |-> shapeOf(id).name,
                            drawing |-> shapeOf(id).drawing, spaced |-> spaced]]

New_SeenBefore(list, i) == KeyOf(list[i]) \notin {KeyOf(rows[id]) : id \in DOMAIN rows}

(* Neither in the table nor earlier in the file: seen_zones, seen_lines. *)
New(list, i) ==
  /\ KeyOf(list[i]) \notin {KeyOf(rows[id]) : id \in DOMAIN rows}
  /\ \A j \in 1 .. i - 1 : KeyOf(list[j]) # KeyOf(list[i])

(* One transaction: a failure leaves nothing. *)
IngestDrawn ==
  /\ file # NoFile
  /\ Inserted({i \in DOMAIN Shapes : New(Shapes, i)})
  /\ UNCHANGED editorVars

(* One POST per shape; the operator skips some, and some requests fail. *)
RegisterZones ==
  /\ file # NoFile
  /\ \E posted \in SUBSET DOMAIN Shapes : Inserted(posted)
  /\ UNCHANGED editorVars

ZoneRows == {id \in DOMAIN rows : rows[id].kind = "zone"}

Named(name) == {id \in ZoneRows : rows[id].name = name}

(* The zone the PATCH goes to: the last of that name in the listing, or the
   camera's only zone. *)
Target(name) ==
  IF Named(name) # {} THEN {Max(Named(name))}
  ELSE IF Cardinality(ZoneRows) = 1 THEN ZoneRows ELSE {}

(* The first zone of the file, and only its polygon. *)
UpdateZones ==
  /\ file # NoFile /\ file.zones # <<>>
  /\ \E id \in Target(Head(file.zones).name) :
       rows' = [rows EXCEPT ![id].drawing = Head(file.zones).drawing]
  /\ UNCHANGED editorVars

Unassigned == {id \in ZoneRows : ~rows[id].spaced}

(* The rows are deleted once their drawings are in the backup file; when that
   write fails the transaction is rolled back. *)
PruneUnassigned ==
  /\ Unassigned # {}
  /\ rows' = Restrict(rows, DOMAIN rows \ Unassigned)
  /\ UNCHANGED editorVars

FilesNext == IngestDrawn \/ RegisterZones \/ UpdateZones \/ PruneUnassigned

DrawingInit == EditorInit /\ FilesInit
DrawingNext == (EditorNext /\ UNCHANGED rows) \/ FilesNext
drawingVars == <<editorVars, rows>>
DrawingSpec == DrawingInit /\ [][DrawingNext]_drawingVars

------------------------------------------------------------------------------
(* A file the editor wrote can be loaded, whatever the keys pressed half way through
   a shape: a zone has three points or more, and no drawing is there twice. *)
Complete ==
  /\ \A i \in DOMAIN file.zones : file.zones[i].points >= 3
  /\ \A i, j \in DOMAIN Shapes : Shapes[i].drawing = Shapes[j].drawing => i = j

KeysOf(table) == {KeyOf(table[id]) : id \in DOMAIN table}

(* "Re-running is safe" (ingest_drawn.py:17-18): an ingest reads complete shapes and
   gives every key of the file that the table has not, one row, also when two
   shapes of the file have the same name, as the default names of the editor make
   them after a removal; and an update (update_zones.py) leaves each row's name
   and space, and moves no row of another name while one of that name is there. *)
ImportsOnce ==
  [][/\ IngestDrawn =>
          /\ Complete
          /\ \A id \in DOMAIN rows : rows'[id] = rows[id]
          /\ KeysOf(rows') = KeysOf(rows) \cup {KeyOf(Shapes[i]) : i \in DOMAIN Shapes}
          /\ \A a, b \in DOMAIN rows' \ DOMAIN rows : KeyOf(rows'[a]) = KeyOf(rows'[b]) => a = b
     /\ UpdateZones =>
          \A id \in DOMAIN rows : rows'[id] # rows[id] =>
            /\ KeyOf(rows'[id]) = KeyOf(rows[id])
            /\ Named(Head(file.zones).name) # {} => rows[id].name = Head(file.zones).name
    ]_drawingVars
==============================================================================
