------------------------------- MODULE Cursors -------------------------------
(***************************************************************************)
(* One statement, from its syntax tree to its answer: the functions of     *)
(* core/src/database/Database.c for SELECT, DELETE, UPDATE and INSERT over *)
(* the nested cursors of core/src/database/cursor.  FROM walks the rows of *)
(* a table, JOIN pairs the rows of the cursor on its left with those of    *)
(* the table on its right, WHERE filters.  The cursors are built from the  *)
(* inside out, and each one goes to its first row while it is built.       *)
(*                                                                         *)
(* Rows are the ones that earlier INSERTs wrote, in the order the pool     *)
(* walks them; the change of a row in the file is in Table.tla, and the    *)
(* cursors do not see it before the flush.                                 *)
(***************************************************************************)
EXTENDS Translation

CONSTANTS
    Creates,        \* the trees of the CREATE TABLE statements of the tables
    Contents,       \* by table: the values lists its rows may come from
    MaxRows,        \* bound: rows in a table
    Statements,     \* the trees of the statements in use
    Faults          \* whether a page may fail to be mapped

ASSUME CursorsAssumption == MaxRows \in Nat /\ Faults \in BOOLEAN

VARIABLES
    stmt,           \* the statement
    query, maps,    \* the query of its request, and the maps of the query's names
    rows,           \* by table: its rows, and the values lists they come from
    pos,            \* the row every FROM is at; one beyond the last when empty
    top,            \* the outermost JOIN built so far
    level,          \* the cursor whose next() runs
    phase,          \* what catches an exception, see Raised
    pc,             \* where the statement is
    faulted,        \* whether a page has failed to be mapped
    got             \* what was sent, deleted or written, in order
vars == <<stmt, query, maps, rows, pos, top, level, phase, pc, faulted, got>>
input == <<stmt, query, maps, rows>>

\* The schemes as they are after a restart of the server.
SchemeOf(tree) ==
    table_scheme_deserialize([table_scheme_serialize(
        TableSchemeFromMsg(CreateTableRequestFromTree(tree).scheme)) EXCEPT !.rcur = 0])
schemes == FoldLeft(LAMBDA map, tree : With(map, tree.table, SchemeOf(tree)), <<>>, Creates)

QueryOf(tree) == QueryFromMsg(RequestFromTree(tree))
MappingOf(q) == IF q.kind = "INSERT" THEN NoMaps ELSE query_mapping(schemes, q)
Queries == Mapped(QueryOf, Statements)
Mappings == Mapped(MappingOf, Queries)
kind == query.kind

joins == IF kind = "INSERT" THEN 0 ELSE Len(query.joins)
Tables == 0 .. joins
TableAt(k) == IF k = 0 THEN query.table ELSE query.joins[k].right.table_name
Size(k) == Len(rows[TableAt(k)])
Ended == {"ok", "invalid", "unknown", "corrupted", "error", "exit", "abort"}

\* cursor_get_row_from: the row of the file, by the scheme.
Written(values) == RowSerialize(RowFromMsg(MsgRowFromTree(values)))
Stored ==
    FoldLeft(LAMBDA map, tree :
                LET StoredRow(values) ==
                       [values |-> Items(values),
                        row |-> row_deserialize(schemes[tree.table], Written(values))]
                IN  With(map, tree.table, Mapped(StoredRow, Contents[tree.table])),
             <<>>, Creates)
\* The rows the tables may have.
Fillings ==
    FoldLeft(LAMBDA S, tree : {With(filling, tree.table, table) :
                                 filling \in S, table \in BoundedSeq(Range(Stored[tree.table]), MaxRows)},
             {<<>>}, Creates)
RowsOf(t) == [k \in DOMAIN t |-> rows[TableAt(k)][t[k]].row]
RowsAt == RowsOf(pos)
RowAt(k) == RowsAt[k]

Init ==
    /\ stmt \in DOMAIN Statements
    /\ query = Queries[stmt] /\ maps = Mappings[stmt]
    /\ rows \in Fillings
    \* A table that is not asked has no rows, which nothing sees.
    /\ \A name \in DOMAIN rows :
          (\A k \in Tables : TableAt(k) # name) => rows[name] = <<>>
    /\ pos = [k \in Tables |-> 1] /\ top = 0 /\ level = 0
    /\ phase = "query" /\ pc = IF kind = "INSERT" THEN "insert" ELSE "mapping"
    /\ faulted = FALSE /\ got = <<>>

\* CursorIsEmpty of the cursor of JOIN k; of the first FROM when k is 0.
Empty(k) == \E t \in 0 .. k : pos[t] > Size(t)

\* The JOINs are built within a TRY that frees the maps and raises again: they are
\* freed twice then.  The TRY of the statement ends where SELECT sends rows.
Raised(result) ==
    pc' \in CASE phase = "joins" -> {result, "abort"}
              [] phase = "query" -> {result}
              [] phase = "sending" -> {"exit"}
Stopped(verdict) == IF verdict = "abort" THEN pc' = "abort" ELSE Raised("invalid")

-----------------------------------------------------------------------------
(***************************************************************************)
(* CursorNext on a JOIN, and building one                                  *)
(***************************************************************************)
join_condition_check(k, at) ==
    LET Side(description) == ColumnAt(at, indexed_maps_translate(maps, description))
        right == Side(query.joins[k].right)
        left == Side(query.joins[k].left)
    IN  IF Missing(right) \/ Missing(left) THEN "abort"
        ELSE IF right.type # left.type THEN "raise"
        ELSE Verdict(ColumnEquals(right, left))

\* query_mapping, and the cursor of the first table.  table_scheme_mapping returns
\* from within a TRY when a table is unknown: what the handler of DELETE or UPDATE
\* raises then goes to a frame that is no more.
Mapping ==
    /\ pc = "mapping"
    /\ IF maps # NoMaps THEN pc' = "built" /\ phase' = "joins"
       ELSE /\ pc' \in IF kind = "SELECT" THEN {"invalid"} ELSE {"invalid", "abort"}
            /\ UNCHANGED phase
    /\ UNCHANGED <<input, pos, top, level, faulted, got>>

BuildJoin ==                    \* CursorNew_JOIN
    /\ pc = "built" /\ top < joins
    /\ top' = top + 1 /\ level' = top + 1
    /\ IF Empty(top + 1) THEN pc' = "built"
       ELSE LET verdict == join_condition_check(top + 1, RowsAt)
            IN  CASE verdict = "yes" -> pc' = "built"
                  [] verdict = "no" -> pc' = "next"
                  [] OTHER -> Stopped(verdict)
    /\ UNCHANGED <<input, pos, phase, faulted, got>>

\* Mutant: the table on the right stays where it is.
AfterKeeps(k, moved) ==
    /\ pos' = moved
    /\ IF k = top THEN level' = level /\ pc' = IF phase = "joins" THEN "built" ELSE "where"
       ELSE level' = k + 1 /\ pc' = "test"

\* next() of JOIN k is over: on with its caller, JOIN k + 1, which restarts its
\* own table, or the query.
After(k, moved) ==
    IF k = top
    THEN /\ pos' = moved /\ level' = level
         /\ pc' = IF phase = "joins" THEN "built" ELSE "where"
    ELSE /\ pos' = [moved EXCEPT ![k + 1] = 1] /\ level' = k + 1
         /\ pc' = "test"

\* Mutant: a table that has come to its end is restarted, its left one stays.
NextStays ==
    /\ pc = "next"
    /\ LET moved == [pos EXCEPT ![level] = @ + 1]
       IN  IF level = 0 THEN After(0, moved)
           ELSE /\ pos' = [moved EXCEPT ![level] = IF @ > Size(level) THEN 1 ELSE @]
                /\ pc' = "test" /\ UNCHANGED level
    /\ UNCHANGED <<input, top, phase, faulted, got>>

NextRow ==
    /\ pc = "next"
    /\ LET moved == [pos EXCEPT ![level] = @ + 1]
       IN  IF level = 0 THEN After(0, moved)
           ELSE /\ pos' = moved
                /\ IF moved[level] > Size(level)
                   THEN pc' = "next" /\ level' = level - 1
                   ELSE pc' = "test" /\ UNCHANGED level
    /\ UNCHANGED <<input, top, phase, faulted, got>>

Test ==
    /\ pc = "test"
    /\ IF Empty(level) THEN After(level, pos)
       ELSE LET verdict == join_condition_check(level, RowsAt)
            IN  CASE verdict = "yes" -> After(level, pos)
                  [] verdict = "no" -> pc' = "next" /\ UNCHANGED <<pos, level>>
                  [] OTHER -> Stopped(verdict) /\ UNCHANGED <<pos, level>>
    /\ UNCHANGED <<input, top, phase, faulted, got>>

-----------------------------------------------------------------------------
(***************************************************************************)
(* WHERE, and the statements                                               *)
(***************************************************************************)
JoinsBuilt ==                   \* where_condition_translate
    /\ pc = "built" /\ top = joins
    /\ phase' = "query"
    /\ pc' = IF WhereTranslates(maps, query.where) THEN "where" ELSE "invalid"
    /\ UNCHANGED <<input, pos, top, level, faulted, got>>

\* Once the first row is found: what SELECT and UPDATE do before their loops.
Arrived ==
    pc' = CASE kind = "DELETE" \/ phase = "sending" \/ got # <<>> -> "row"
            [] kind = "SELECT" /\ phase = "query" ->
                 IF \A i \in DOMAIN query.selector : Translates(maps, query.selector[i])
                 THEN "first" ELSE "invalid"
            [] kind = "UPDATE" /\ got = <<>> ->
                 IF UpdaterTranslates(maps.columns_maps[query.table], query.updater)
                 THEN "row" ELSE "invalid"

where_check(at) ==
    where_condition_check(where_condition_translate(maps, query.where), at)

\* The loop of CursorNew_WHERE and CursorNext_WHERE.
Where ==
    /\ pc = "where"
    /\ level' = joins
    /\ IF Empty(joins) THEN Arrived
       ELSE LET verdict == where_check(RowsAt)
            IN  CASE verdict = "yes" -> Arrived
                  [] verdict = "no" -> pc' = "next"
                  [] OTHER -> Stopped(verdict)
    /\ UNCHANGED <<input, pos, top, phase, faulted, got>>

\* ResultViewGetRow.
View ==
    [i \in DOMAIN query.selector |->
        ColumnAt(RowsAt, indexed_maps_translate(maps, query.selector[i]))]
HasMissing(row) == \E i \in DOMAIN row : Missing(row[i])

\* DatabaseSelectQuery reads the first row to provoke type errors.
\* CursorGetColumn asserts that there is one.  The TRY of the statement ends here.
FirstRow ==
    /\ pc = "first"
    /\ IF Empty(joins) THEN pc' = "abort" /\ UNCHANGED phase
       ELSE IF HasMissing(View) THEN pc' = "abort" /\ UNCHANGED phase
       ELSE pc' = "row" /\ phase' = "sending"
    /\ UNCHANGED <<input, pos, top, level, faulted, got>>

\* What the loop body does with a row: RowToMsg and send, or the row it writes.
Updated ==
    updater_builder_update(
        updater_builder_translate(maps.columns_maps[query.table], query.updater), RowAt(0))
Done ==
    CASE kind = "SELECT" -> RowToMsg(View)
      [] kind = "DELETE" -> <<>>
      [] kind = "UPDATE" -> Updated

Row ==
    /\ pc = "row" /\ ~ Empty(joins)
    /\ IF \/ kind = "SELECT" /\ HasMissing(View)
          \/ kind = "UPDATE" /\ HasMissing(RowAt(0))
       THEN pc' = "abort" /\ UNCHANGED <<level, got>>
       ELSE /\ got' = Append(got, [at |-> pos, row |-> Done])
            /\ pc' = "next" /\ level' = joins
    /\ UNCHANGED <<input, pos, top, phase, faulted>>

LastRow ==
    /\ pc = "row" /\ Empty(joins)
    /\ pc' = IF kind = "SELECT" THEN "ok" ELSE "flush"
    /\ UNCHANGED <<input, pos, top, level, phase, faulted, got>>

\* DatabaseInsertQuery up to the flush of the pool.
Insert ==
    /\ pc = "insert"
    /\ IF query.table \notin DOMAIN schemes THEN pc' = "unknown" /\ UNCHANGED got
       ELSE \E valid \in RowIsValid(query.batch[1], schemes[query.table]) :
               IF ~ valid THEN pc' = "corrupted" /\ UNCHANGED got
               ELSE /\ pc' = "flush"
                    /\ got' = <<[at |-> pos, row |-> query.batch[1]]>>
    /\ UNCHANGED <<input, pos, top, level, phase, faulted>>

Flush ==                        \* CursorFlush, pool_flush
    /\ pc = "flush"
    /\ pc' = "ok"
    /\ UNCHANGED <<input, pos, top, level, phase, faulted, got>>

-----------------------------------------------------------------------------
(***************************************************************************)
(* A page cannot be mapped                                                 *)
(***************************************************************************)

\* No cursor for a table: NULL is a cursor to the functions that build on it, and
\* only names that cannot be resolved are found before one of them asserts.
NoCursor ==
    /\ \/ pc = "mapping" /\ maps # NoMaps
       \/ pc = "built" /\ top < joins
    /\ pc' = IF joins = 0
                /\ \/ ~ WhereTranslates(maps, query.where)
                   \/ /\ kind = "SELECT" /\ query.where = NoCondition
                      /\ \E i \in DOMAIN query.selector : ~ Translates(maps, query.selector[i])
                   \/ /\ kind = "UPDATE" /\ query.where = NoCondition
                      /\ ~ UpdaterTranslates(maps.columns_maps[query.table], query.updater)
             THEN "invalid" ELSE "abort"

\* CursorRestart_FROM is left without an iterator, which is looked at when the left
\* side has a row.
NoIterator ==
    /\ pc = "test" /\ pos[level] = 1 /\ ~ Empty(level - 1)
    /\ pc' = "abort"

\* The iterator, the change of a row or a flush fails.
NoPage ==
    /\ \/ pc \in {"next", "flush"}
       \/ pc = "row" /\ kind # "SELECT" /\ ~ Empty(joins)
    /\ IF kind = "INSERT" THEN pc' = "error" ELSE Raised("error")

\* DatabaseFindTable, or pool_append.
NoTable ==
    /\ pc = "insert" /\ query.table \in DOMAIN schemes
    /\ \/ pc' = "unknown"
       \/ TRUE \in RowIsValid(query.batch[1], schemes[query.table]) /\ pc' = "error"

Fails ==
    /\ Faults
    /\ NoCursor \/ NoIterator \/ NoPage \/ NoTable
    /\ faulted' = TRUE
    /\ UNCHANGED <<input, pos, top, level, phase, got>>

Next ==
    \/ Mapping \/ BuildJoin \/ NextRow \/ Test \/ JoinsBuilt \/ Where
    \/ FirstRow \/ Row \/ LastRow \/ Insert \/ Flush \/ Fails

Spec == Init /\ [][Next]_vars
\* The thread runs on; a client that reads its rows is taken for granted.
FairSpec == Spec /\ WF_vars(Next)

-----------------------------------------------------------------------------
(***************************************************************************)
(* What a statement means, by the names in its tree and the values lists   *)
(* of the INSERTs: tables, columns and values are looked up by name.       *)
(***************************************************************************)
Create(table) == Creates[CHOOSE i \in DOMAIN Creates : Creates[i].table = table]
Decls(table) == Items(Create(table).columns)
KnownTable(table) == \E i \in DOMAIN Creates : Creates[i].table = table
KnownColumn(table, column) ==
    /\ KnownTable(table)
    /\ \E i \in DOMAIN Decls(table) : Decls(table)[i].column = column
\* Of two columns of one name the last one counts.
Place(table, column) ==
    CHOOSE i \in DOMAIN Decls(table) :
       /\ Decls(table)[i].column = column
       /\ \A j \in DOMAIN Decls(table) : Decls(table)[j].column = column => j <= i
NodeType == [TYPE_INT32 |-> "N_INT", TYPE_FLOAT32 |-> "N_FLOAT",
             TYPE_TEXT |-> "N_STRING", TYPE_BOOL |-> "N_BOOL"]
TypeIn(table, column) == NodeType[Decls(table)[Place(table, column)].datatype]

JoinsOf(tree) == IF tree.type = "N_SELECT_QUERY" THEN Items(tree.join) ELSE <<>>
JoinedIn(tree, k) == IF k = 0 THEN tree.table ELSE JoinsOf(tree)[k].right.table
WhereOf(tree) == IF tree.type = "N_INSERT_QUERY" THEN NoNode ELSE tree.where

RECURSIVE Compares(_)
Compares(tree) ==
    IF tree = NoNode THEN <<>>
    ELSE IF tree.op = "COND_CMP" THEN <<tree.first>>
    ELSE Compares(tree.first) \o Compares(tree.second)

IsColumn(node) == node.type = "N_COLUMN_REFERENCE"
NamedIn(tree, node) ==
    /\ KnownColumn(node.table, node.column)
    /\ \E k \in 0 .. Len(JoinsOf(tree)) : JoinedIn(tree, k) = node.table
NodeTypeOf(node) == IF IsColumn(node) THEN TypeIn(node.table, node.column) ELSE node.type

JoinNamed(tree, k) ==
    LET left == JoinsOf(tree)[k].left
        right == JoinsOf(tree)[k].right
    IN  /\ KnownColumn(left.table, left.column)
        /\ KnownColumn(right.table, right.column)
        /\ \E h \in 0 .. k - 1 : JoinedIn(tree, h) = left.table
        /\ \A h \in 0 .. k - 1 : JoinedIn(tree, h) # right.table
AllNamed(tree) ==
    /\ KnownTable(tree.table)
    /\ \A k \in DOMAIN JoinsOf(tree) : JoinNamed(tree, k)
    /\ \A i \in DOMAIN Compares(WhereOf(tree)) :
          LET compare == Compares(WhereOf(tree))[i] IN
          /\ IsColumn(compare.left) => NamedIn(tree, compare.left)
          /\ IsColumn(compare.right) => NamedIn(tree, compare.right)
    /\ tree.type = "N_SELECT_QUERY" =>
          \A i \in DOMAIN Items(tree.selector) : NamedIn(tree, Items(tree.selector)[i])
    /\ tree.type = "N_UPDATE_QUERY" =>
          \A i \in DOMAIN Items(tree.updateList) :
             KnownColumn(tree.table, Items(tree.updateList)[i].column)

JoinTypes(tree) ==
    \A k \in DOMAIN JoinsOf(tree) :
       NodeTypeOf(JoinsOf(tree)[k].left) = NodeTypeOf(JoinsOf(tree)[k].right)
WhereTypes(tree) ==
    \A i \in DOMAIN Compares(WhereOf(tree)) :
       LET compare == Compares(WhereOf(tree))[i]
       IN  NodeTypeOf(compare.left) = NodeTypeOf(compare.right)
WhereOrders(tree) ==
    \A i \in DOMAIN Compares(WhereOf(tree)) :
       LET compare == Compares(WhereOf(tree))[i]
       IN  compare.op \notin {"CMP_EQ", "CMP_NQ"} =>
              NodeTypeOf(compare.left) \in {"N_INT", "N_FLOAT"}

Facts(tree) ==
    [named |-> AllNamed(tree),
     joinTypes |-> AllNamed(tree) => JoinTypes(tree),
     whereTypes |-> AllNamed(tree) => WhereTypes(tree),
     whereOrders |-> AllNamed(tree) => WhereOrders(tree)]
StatementFacts == Mapped(Facts, Statements)

Tree == Statements[stmt]
JoinItems == JoinsOf(Tree)
WhereTree == WhereOf(Tree)
Joined(k) == IF k = 0 THEN Tree.table ELSE JoinItems[k].right.table
WellNamed == StatementFacts[stmt].named
JoinsTyped == StatementFacts[stmt].joinTypes
WhereTyped == StatementFacts[stmt].whereTypes
WhereOrdered == StatementFacts[stmt].whereOrders

\* A values list may be shorter than the table; a number or a truth value that is
\* missing is 0.
ValuesAt(table, i) == rows[table][i].values
Complete ==
    \A k \in Tables : KnownTable(Joined(k)) => \A i \in DOMAIN rows[Joined(k)] :
       Len(ValuesAt(Joined(k), i)) = Len(Decls(Joined(k)))
ValueAt(t, node) ==
    IF ~ IsColumn(node) THEN node.value
    ELSE LET k == CHOOSE j \in Tables : Joined(j) = node.table
             values == ValuesAt(node.table, t[k])
             place == Place(node.table, node.column)
         IN  IF place <= Len(values) THEN values[place].value ELSE 0

Compared(op, a, b) ==
    CASE op = "CMP_LE" -> a <= b [] op = "CMP_GE" -> a >= b
      [] op = "CMP_LS" -> a < b  [] op = "CMP_GR" -> a > b
      [] op = "CMP_EQ" -> a = b  [] op = "CMP_NQ" -> a # b

RECURSIVE Holds(_, _)
Holds(tree, t) ==
    IF tree = NoNode THEN TRUE
    ELSE CASE tree.op = "COND_CMP" -> Compared(tree.first.op, ValueAt(t, tree.first.left),
                                               ValueAt(t, tree.first.right))
           [] tree.op = "COND_NOT" -> ~ Holds(tree.first, t)
           [] tree.op = "COND_AND" -> Holds(tree.first, t) /\ Holds(tree.second, t)
           [] tree.op = "COND_OR" -> Holds(tree.first, t) \/ Holds(tree.second, t)

Tuples == {t \in [Tables -> 1 .. MaxRows] : \A k \in Tables : t[k] <= Len(rows[Joined(k)])}
InView(t) ==
    /\ \A k \in DOMAIN JoinItems : ValueAt(t, JoinItems[k].left) = ValueAt(t, JoinItems[k].right)
    /\ Holds(WhereTree, t)

\* What the statement does with the row: the values sent, or the row afterwards.
Sent(t) ==
    [i \in DOMAIN Items(Tree.selector) |->
        LET node == Items(Tree.selector)[i]
        IN  [value_case |-> ValueCase[NodeTypeOf(node)], value |-> ValueAt(t, node)]]
LastSet(column, i) ==
    /\ Items(Tree.updateList)[i].column = column
    /\ \A j \in DOMAIN Items(Tree.updateList) : Items(Tree.updateList)[j].column = column => j <= i
SetValue(t, column) ==
    IF \E i \in DOMAIN Items(Tree.updateList) : LastSet(column, i)
    THEN Items(Tree.updateList)[CHOOSE i \in DOMAIN Items(Tree.updateList) :
                                   LastSet(column, i)].value.value
    ELSE ValueAt(t, NewColumnReferenceAstNode(Tree.table, column))
SetsTyped ==
    \A i \in DOMAIN Items(Tree.updateList) :
       LET item == Items(Tree.updateList)[i]
       IN  item.value.type = TypeIn(Tree.table, item.column)
FirstTyped ==
    \A i \in DOMAIN Items(Tree.values) : i <= Len(Decls(Tree.table)) =>
       Items(Tree.values)[i].type = NodeType[Decls(Tree.table)[i].datatype]
InsertTyped == FirstTyped /\ Len(Items(Tree.values)) <= Len(Decls(Tree.table))
\* A row that is written is read back by the scheme.
ReadBack(row) == row_deserialize(schemes[query.table], RowSerialize(row))
HasValue(row, i, value) == ReadBack(row)[i].value = value

DoneRight(g) ==
    CASE Tree.type = "N_SELECT_QUERY" -> g.row = Sent(g.at)
      [] Tree.type = "N_DELETE_QUERY" -> TRUE
      [] Tree.type = "N_UPDATE_QUERY" ->
           SetsTyped => \A i \in DOMAIN Decls(Tree.table) :
              LET column == Decls(Tree.table)[i].column
              IN  i = Place(Tree.table, column) => HasValue(g.row, i, SetValue(g.at, column))
      [] Tree.type = "N_INSERT_QUERY" ->
           InsertTyped => \A i \in DOMAIN Items(Tree.values) :
                             HasValue(g.row, i, Items(Tree.values)[i].value)

-----------------------------------------------------------------------------
(***************************************************************************)
(* What Loops sees of this: the positions a condition takes are those it   *)
(* would say yes to.                                                       *)
(***************************************************************************)
PositionsTo(k) == {t \in [0 .. k -> 1 .. MaxRows] : \A h \in 0 .. k : t[h] <= Size(h)}
CheckAt(k, at) == IF k <= joins THEN join_condition_check(k, at) ELSE where_check(at)
PassesOf(k) ==
    IF maps = NoMaps \/ (k > joins /\ ~ WhereTranslates(maps, query.where)) THEN {}
    ELSE {t \in PositionsTo(IF k <= joins THEN k ELSE joins) : CheckAt(k, RowsOf(t)) = "yes"}
StepOf ==
    CASE kind = "INSERT" -> "rest"
      [] pc \in {"mapping", "built", "where"} -> "rest"
      [] pc = "first" -> "row"
      [] pc \in {"flush", "ok"} -> "done"
      [] pc \in {"next", "test", "row"} -> pc
      [] OTHER -> "stopped"
L == INSTANCE Loops WITH
        size <- [k \in Tables |-> IF maps = NoMaps THEN 0 ELSE Size(k)],
        passes <- [k \in 1 .. joins + 1 |-> PassesOf(k)],
        step <- StepOf,
        got <- IF kind = "INSERT" THEN <<>> ELSE [i \in DOMAIN got |-> got[i].at]

-----------------------------------------------------------------------------
(***************************************************************************)
(* Properties                                                              *)
(***************************************************************************)
Before(s, t) ==
    \E i \in Tables : s[i] < t[i] /\ \A h \in 0 .. i - 1 : s[h] = t[h]
Passed(t) == Before(t, pos) \/ pc \in {"ok", "flush"}

\* From the text of a statement over its request, the maps of its names, the bytes
\* of rows and schemes and the nested cursors, however they are nested and whatever
\* tables are empty: a statement whose names and types are right sends, deletes or
\* updates the rows its text means, each once and in the order of nested loops, and
\* with the values its text means.
RowsExact ==
    WellNamed /\ JoinsTyped /\ WhereTyped /\ WhereOrdered /\ Complete =>
       /\ \A i, j \in DOMAIN got : i < j => Before(got[i].at, got[j].at)
       /\ \A i \in DOMAIN got : DoneRight(got[i])
       /\ kind # "INSERT" /\ pc \in {"row", "flush", "ok"} =>
             \A t \in Tuples :
                Passed(t) => (InView(t) <=> \E i \in DOMAIN got : got[i].at = t)

\* When no page fails, each answer has its reason in the statement and the rows.  The
\* only statement that is refused after it has changed a row is a DELETE or UPDATE
\* whose WHERE compares values of two types, which some rows do not get to; one that
\* comes to a row shorter than its table may abort after it has.
AnswersRight ==
    faulted \/
    /\ pc = "ok" => /\ WellNamed
                    /\ JoinsTyped \/ got = <<>>
                    /\ kind = "INSERT" => FirstTyped
    /\ pc = "unknown" <=> kind = "INSERT" /\ ~ WellNamed /\ pc # "insert"
    /\ pc = "corrupted" => kind = "INSERT" /\ WellNamed /\ ~ InsertTyped
    /\ pc = "invalid" => /\ kind # "INSERT"
                         /\ ~ (WellNamed /\ JoinsTyped /\ WhereTyped)
                         /\ got # <<>> => kind # "SELECT" /\ ~ WhereTyped
    /\ pc = "exit" => kind = "SELECT" /\ (~ WhereTyped \/ ~ JoinsTyped)
    /\ pc = "abort" => \/ ~ Complete \/ ~ WhereOrdered
                       \/ kind = "SELECT" /\ (Empty(joins) \/ ~ JoinsTyped)
                       \/ kind # "SELECT" /\ ~ KnownTable(Tree.table)
    /\ pc # "error"

\* The cursors of a statement, with the conditions on the rows at hand, the
\* statement's own reading of the first row and every way to fail, walk as Loops does:
\* what comes out of any walk, and in which order, is then what WalkExact says.
IsWalk == L!Walk

\* However the loops are nested, whatever WHERE says and wherever a page fails, the
\* statement comes to an end.
StatementEnds == <>(pc \in Ended)

\* A column is only read from a cursor that is at a row.
GetOnRow == pc = "first" => ~ Empty(joins)
=============================================================================
