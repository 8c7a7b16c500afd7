----------------------------- MODULE Translation -----------------------------
(***************************************************************************)
(* How core/src/database/Database.c resolves the names of a query, and how *)
(* its conditions are evaluated (core/src/database/cursor/CursorWhere.c).  *)
(* Column and table numbers count from 0, as in the code.                  *)
(***************************************************************************)
EXTENDS Rows, Query, TLC

-----------------------------------------------------------------------------
(***************************************************************************)
(* Names                                                                   *)
(***************************************************************************)
With(map, key, value) == (key :> value) @@ map

\* Of two columns of one name the second.
table_scheme_mapping(scheme) ==
    FoldLeft(LAMBDA map, i : With(map, scheme.columns[i].name, i - 1),
             <<>>, [i \in DOMAIN scheme.columns |-> i])

Joinable(schemes, columns_maps, condition) ==
    /\ condition.left.table_name \in DOMAIN columns_maps
    /\ condition.left.column_name \in DOMAIN columns_maps[condition.left.table_name]
    /\ condition.right.table_name \notin DOMAIN columns_maps
    /\ condition.right.table_name \in DOMAIN schemes
    /\ condition.right.column_name
          \in DOMAIN table_scheme_mapping(schemes[condition.right.table_name])

\* The indexed_maps of a query, without tables when there are none.
NoMaps == [columns_maps |-> <<>>, table_maps |-> <<>>]
query_mapping(schemes, query) ==
    FoldLeft(LAMBDA maps, j :
                LET condition == query.joins[j]
                    name == condition.right.table_name
                IN  IF maps # NoMaps /\ Joinable(schemes, maps.columns_maps, condition)
                    THEN [columns_maps |-> With(maps.columns_maps, name,
                                                table_scheme_mapping(schemes[name])),
                          table_maps |-> With(maps.table_maps, name, j)]
                    ELSE NoMaps,
             IF query.table \notin DOMAIN schemes THEN NoMaps
             ELSE [columns_maps |-> With(<<>>, query.table,
                                         table_scheme_mapping(schemes[query.table])),
                   table_maps |-> With(<<>>, query.table, 0)],
             [j \in DOMAIN query.joins |-> j])

\* Whether indexed_maps_translate returns, and what.
Translates(maps, description) ==
    /\ description.table_name \in DOMAIN maps.table_maps
    /\ description.column_name \in DOMAIN maps.columns_maps[description.table_name]
indexed_maps_translate(maps, description) ==
    [table_idx |-> maps.table_maps[description.table_name],
     column_idx |-> maps.columns_maps[description.table_name][description.column_name]]

OperandTranslates(maps, op) == op.type = "COLUMN" => Translates(maps, op.column)
column_operand_translate(maps, op) ==
    IF op.type = "LITERAL" THEN op
    ELSE [type |-> "COLUMN", column |-> indexed_maps_translate(maps, op.column)]

RECURSIVE WhereTranslates(_, _)
WhereTranslates(maps, condition) ==
    CASE condition.type = "NULL" -> TRUE
      [] condition.type = "NOT" -> WhereTranslates(maps, condition.first)
      [] condition.type \in {"AND", "OR"} ->
           WhereTranslates(maps, condition.first) /\ WhereTranslates(maps, condition.second)
      [] condition.type = "COMPARE" ->
           OperandTranslates(maps, condition.first) /\ OperandTranslates(maps, condition.second)

RECURSIVE where_condition_translate(_, _)
where_condition_translate(maps, condition) ==
    CASE condition.type = "NULL" -> condition
      [] condition.type = "NOT" ->
           where_condition_not(where_condition_translate(maps, condition.first))
      [] condition.type \in {"AND", "OR"} ->
           [condition EXCEPT !.first = where_condition_translate(maps, @),
                             !.second = where_condition_translate(maps, @)]
      [] condition.type = "COMPARE" ->
           [condition EXCEPT !.first = column_operand_translate(maps, @),
                             !.second = column_operand_translate(maps, @)]

\* updater_builder_translate, by the columns of the query's table.
UpdaterTranslates(map, updater) == \A i \in DOMAIN updater : updater[i].target \in DOMAIN map
updater_builder_translate(map, updater) ==
    LET Updater(old) == [target |-> map[old.target], new_value |-> old.new_value]
    IN  Mapped(Updater, updater)

\* The types are not looked at.
updater_builder_update(updater, row) ==
    FoldLeft(LAMBDA copy, upd : [copy EXCEPT ![upd.target + 1] = upd.new_value], row, updater)

-----------------------------------------------------------------------------
(***************************************************************************)
(* Conditions, on the rows the cursors are at.  A verdict is "yes", "no",  *)
(* "raise" (of a translation exception) or "abort": an assert fails, or a  *)
(* string that is missing is copied.                                       *)
(***************************************************************************)
Verdict(b) == IF b THEN "yes" ELSE "no"
Missing(column) == column.type = "STRING" /\ column.value = NoString

compare_columns(op, first, second) ==
    CASE op = "EQ" -> Verdict(ColumnEquals(first, second))
      [] op = "NE" -> Verdict(~ ColumnEquals(first, second))
      [] first.type \notin {"INT32", "FLOAT32"} -> "abort"
      [] op = "GT" -> Verdict(first.value > second.value)
      [] op = "LT" -> Verdict(first.value < second.value)
      [] op = "GE" -> Verdict(first.value > second.value \/ ColumnEquals(first, second))
      [] op = "LE" -> Verdict(first.value < second.value \/ ColumnEquals(first, second))

\* CursorGetColumn.
ColumnAt(rows, index) == rows[index.table_idx][index.column_idx + 1]
operand_extract_column(op, rows) ==
    IF op.type = "LITERAL" THEN op.literal ELSE ColumnAt(rows, op.column)

where_condition_check_compare(condition, rows) ==
    LET first == operand_extract_column(condition.first, rows)
        second == operand_extract_column(condition.second, rows)
    IN  IF Missing(first) \/ Missing(second) THEN "abort"
        ELSE IF first.type # second.type THEN "raise"
        ELSE compare_columns(condition.op, first, second)

\* AND and OR do not ask their second operand when the first one decides.
RECURSIVE where_condition_check(_, _)
where_condition_check(condition, rows) ==
    LET first == where_condition_check(condition.first, rows)
    IN  CASE condition.type = "NULL" -> "yes"
          [] condition.type = "COMPARE" -> where_condition_check_compare(condition, rows)
          [] condition.type = "NOT" ->
               (CASE first = "yes" -> "no" [] first = "no" -> "yes" [] OTHER -> first)
          [] condition.type = "AND" ->
               IF first = "yes" THEN where_condition_check(condition.second, rows) ELSE first
          [] condition.type = "OR" ->
               IF first = "no" THEN where_condition_check(condition.second, rows) ELSE first

\* Mutant: the last column is not looked at.
RowIsValidButLast(row, scheme) ==
    LET Fits(size) == \A i \in 1 .. size - 1 : row[i].type = scheme.columns[i].type
    IN  IF Len(row) <= Len(scheme.columns) THEN {Fits(Len(row))}
        ELSE IF Fits(Len(scheme.columns)) THEN BOOLEAN ELSE {FALSE}

\* Only the columns the row has are looked at.  Behind the last column of the scheme
\* is whatever the heap has there.
RowIsValid(row, scheme) ==
    LET Fits(size) == \A i \in 1 .. size : row[i].type = scheme.columns[i].type
    IN  IF Len(row) <= Len(scheme.columns) THEN {Fits(Len(row))}
        ELSE IF Fits(Len(scheme.columns)) THEN BOOLEAN ELSE {FALSE}
===============================================================================
