---------------------------- MODULE AuditpolCsv ----------------------------
(***************************************************************************)
(* parse_auditpol_csv (sigmascope/parse/auditpol_csv.py): headers are      *)
(* localized, so the parser finds the columns by what the cells look like. *)
(* A row is a sequence of cells; a cell is a GUID, for which the name of   *)
(* its subcategory stands, a digit, empty or another text. What determinacy *)
(* the result has, which only words an explanation, is left out.           *)
(***************************************************************************)
EXTENDS Integers, Sequences, FiniteSetsExt

CONSTANT Guids   \* the GUIDs a table may have

_STATES == [one |-> "success", two |-> "failure", three |-> "both", empty |-> "unknown"]

\* Mutant: an empty cell anchors the setting column.
Settings_Empty == {"zero"} \cup DOMAIN _STATES

_SETTING_VALUES == {"zero"} \cup (DOMAIN _STATES \ {"empty"})

GuidCells(row)    == {i \in DOMAIN row : row[i] \in Guids}
guid_index(row)   == Min(GuidCells(row))
SettingCells(row) == {i \in DOMAIN row \ {guid_index(row)} : row[i] \in _SETTING_VALUES}
setting_index(row) == Max(SettingCells(row))

GuidRows(rows)   == {n \in DOMAIN rows : GuidCells(rows[n]) # {}}
AnchorRows(rows) == {n \in GuidRows(rows) : SettingCells(rows[n]) # {}}

\* The first row with both cells gives the columns, the first with a GUID begins the data.
DataRows(rows) == {n \in DOMAIN rows : n >= Min(GuidRows(rows))}

Columns(rows) ==
  LET anchor == rows[Min(AnchorRows(rows))]
  IN [guid |-> guid_index(anchor), setting |-> setting_index(anchor)]

Short(row, columns) == Max({columns.guid, columns.setting}) > Len(row)

Gate(row, columns) == ~Short(row, columns) /\ row[columns.guid] \in Guids

StateOf(cell) == IF cell \in DOMAIN _STATES THEN _STATES[cell] ELSE "unknown"

\* evaluate/windows_gates.py takes the first gate of a subcategory.
StateIn(rows, columns, s) ==
  LET found == {n \in DataRows(rows) : Gate(rows[n], columns) /\ rows[n][columns.guid] = s}
  IN IF found = {} THEN "absent" ELSE StateOf(rows[Min(found)][columns.setting])

Diagnosed(row, columns) ==
  Short(row, columns) \/ (Gate(row, columns) /\ row[columns.setting] \notin DOMAIN _STATES)

parse_auditpol_csv(rows) ==
  IF AnchorRows(rows) = {} THEN [states |-> [s \in Guids |-> "absent"], diagnosed |-> TRUE]
  ELSE LET columns == Columns(rows)
       IN [states |-> [s \in Guids |-> StateIn(rows, columns, s)],
           diagnosed |-> \E n \in DataRows(rows) : Diagnosed(rows[n], columns)]
=============================================================================
