-------------------------------- MODULE Query --------------------------------
(***************************************************************************)
(* The way of a statement from the parser to the database: the syntax tree *)
(* (parser/src/ast.c), the request the client makes of it                  *)
(* (client/src/mapping.c), and the query objects the server makes of the   *)
(* request (server/src/Connection.c, core/src/query).  Protobuf carries a  *)
(* request unchanged.  Names and strings are sequences of bytes.           *)
(***************************************************************************)
EXTENDS Integers, Sequences, SequencesExt

-----------------------------------------------------------------------------
(***************************************************************************)
(* ast.c                                                                   *)
(***************************************************************************)
NoNode == [type |-> "NULL"]

NewIntAstNode(value) == [type |-> "N_INT", value |-> value]
NewFloatAstNode(value) == [type |-> "N_FLOAT", value |-> value]
NewBoolAstNode(value) == [type |-> "N_BOOL", value |-> value]
NewStringAstNode(value) == [type |-> "N_STRING", value |-> value]
NewColumnReferenceAstNode(table, column) ==
    [type |-> "N_COLUMN_REFERENCE", table |-> table, column |-> column]
NewCompareAstNode(op, left, right) ==
    [type |-> "N_COMPARE", op |-> op, left |-> left, right |-> right]
NewConditionAstNode(op, first, second) ==
    [type |-> "N_CONDITION", op |-> op, first |-> first, second |-> second]
NewJoinAstNode(table, left, right) ==
    [type |-> "N_JOIN", table |-> table, left |-> left, right |-> right]
NewSelectQueryAstNode(selector, table, join, where) ==
    [type |-> "N_SELECT_QUERY", selector |-> selector, table |-> table,
     join |-> join, where |-> where]
NewDeleteQueryAstNode(table, where) ==
    [type |-> "N_DELETE_QUERY", table |-> table, where |-> where]
NewInsertQueryAstNode(table, values) ==
    [type |-> "N_INSERT_QUERY", table |-> table, values |-> values]
NewUpdateListItemAstNode(column, value) ==
    [type |-> "N_UPDATE_LIST_ITEM", column |-> column, value |-> value]
NewUpdateQueryAstNode(table, updateList, where) ==
    [type |-> "N_UPDATE_QUERY", table |-> table, updateList |-> updateList, where |-> where]
NewCreateTableQueryAstNode(table, columns) ==
    [type |-> "N_CREATE_TABLE_QUERY", table |-> table, columns |-> columns]
NewColumnDeclarationAstNode(column, datatype) ==
    [type |-> "N_COLUMN_DECL", column |-> column, datatype |-> datatype]
NewListAstNode(item, next) == [type |-> "N_LIST", value |-> item, next |-> next]

\* The items of a list, as AstListLength counts them.
RECURSIVE Items(_)
Items(list) == IF list = NoNode THEN <<>> ELSE <<list.value>> \o Items(list.next)

Mapped(f(_), seq) == FoldLeft(LAMBDA s, x : Append(s, f(x)), <<>>, seq)

-----------------------------------------------------------------------------
(***************************************************************************)
(* mapping.c: from the tree to the request                                 *)
(***************************************************************************)
ValueCase == [N_INT |-> "I", N_FLOAT |-> "F", N_STRING |-> "S", N_BOOL |-> "B"]
MsgColumnDataFromTree(tree) ==
    [value_case |-> ValueCase[tree.type], value |-> tree.value]

MsgColumnReferenceFromTree(node) == [table |-> node.table, column |-> node.column]

MsgPredicateOperandFromTree(tree) ==
    IF tree.type = "N_COLUMN_REFERENCE"
    THEN [content_case |-> "COLUMN", column |-> MsgColumnReferenceFromTree(tree)]
    ELSE [content_case |-> "LITERAL", literal |-> MsgColumnDataFromTree(tree)]

NoPredicate == [content_case |-> "NULL"]

MsgPredicateCompareFromTree(tree) ==
    [content_case |-> "COMPARE", type |-> tree.first.op,
     left |-> MsgPredicateOperandFromTree(tree.first.left),
     right |-> MsgPredicateOperandFromTree(tree.first.right)]

RECURSIVE MsgPredicateFromTree(_)
MsgPredicateFromTree(tree) ==
    IF tree = NoNode THEN NoPredicate
    ELSE CASE tree.op = "COND_CMP" -> MsgPredicateCompareFromTree(tree)
           [] tree.op = "COND_NOT" ->
                [content_case |-> "NOT", first |-> MsgPredicateFromTree(tree.first)]
           [] tree.op = "COND_AND" ->
                [content_case |-> "AND", first |-> MsgPredicateFromTree(tree.first),
                 second |-> MsgPredicateFromTree(tree.second)]
           [] tree.op = "COND_OR" ->
                [content_case |-> "OR", first |-> MsgPredicateFromTree(tree.first),
                 second |-> MsgPredicateFromTree(tree.second)]

MsgSelectorFromTree(list) == Mapped(MsgColumnReferenceFromTree, Items(list))
JoinConditionFromTree(tree) ==
    [left |-> MsgColumnReferenceFromTree(tree.left),
     right |-> MsgColumnReferenceFromTree(tree.right)]
MsgRowFromTree(list) == Mapped(MsgColumnDataFromTree, Items(list))

SelectQueryRequestFromTree(tree) ==
    [content_case |-> "SELECT", table |-> tree.table,
     selector |-> MsgSelectorFromTree(tree.selector),
     where |-> MsgPredicateFromTree(tree.where),
     joins |-> Mapped(JoinConditionFromTree, Items(tree.join))]

\* One row to a request.
InsertQueryRequestFromTree(tree) ==
    [content_case |-> "INSERT", table |-> tree.table,
     values |-> <<MsgRowFromTree(tree.values)>>]

DeleteQueryRequestFromTree(tree) ==
    [content_case |-> "DELETE", table |-> tree.table,
     where |-> MsgPredicateFromTree(tree.where)]

SetItemFromTree(tree, table) ==
    [column |-> [table |-> table, column |-> tree.column],
     value |-> MsgColumnDataFromTree(tree.value)]

UpdateQueryRequestFromTree(tree) ==
    [content_case |-> "UPDATE", table |-> tree.table,
     where |-> MsgPredicateFromTree(tree.where),
     sets |-> LET Set(item) == SetItemFromTree(item, tree.table)
              IN  Mapped(Set, Items(tree.updateList))]

MsgColumnTypeFromTree ==
    [TYPE_INT32 |-> "INT32", TYPE_FLOAT32 |-> "FLOAT32",
     TYPE_TEXT |-> "STRING", TYPE_BOOL |-> "BOOL"]
MsgColumnSchemeFromTree(tree) ==
    [name |-> tree.column, type |-> MsgColumnTypeFromTree[tree.datatype]]

CreateTableRequestFromTree(tree) ==
    [content_case |-> "CREATE_TABLE",
     scheme |-> [name |-> tree.table,
                 columns |-> Mapped(MsgColumnSchemeFromTree, Items(tree.columns))]]

\* requestQuery of the client.
RequestFromTree(tree) ==
    CASE tree.type = "N_SELECT_QUERY" -> SelectQueryRequestFromTree(tree)
      [] tree.type = "N_INSERT_QUERY" -> InsertQueryRequestFromTree(tree)
      [] tree.type = "N_DELETE_QUERY" -> DeleteQueryRequestFromTree(tree)
      [] tree.type = "N_UPDATE_QUERY" -> UpdateQueryRequestFromTree(tree)
      [] tree.type = "N_CREATE_TABLE_QUERY" -> CreateTableRequestFromTree(tree)

-----------------------------------------------------------------------------
(***************************************************************************)
(* Connection.c and core/src/query: from the request to the query          *)
(***************************************************************************)
ColumnType == [I |-> "INT32", F |-> "FLOAT32", S |-> "STRING", B |-> "BOOL"]
ColumnFromMsg(mcolumn) ==
    [type |-> ColumnType[mcolumn.value_case], value |-> mcolumn.value]

\* A column_description by names.
table_column_of(ref) == [table_name |-> ref.table, column_name |-> ref.column]

PredicateOperandFromMsg(moperand) ==
    IF moperand.content_case = "LITERAL"
    THEN [type |-> "LITERAL", literal |-> ColumnFromMsg(moperand.literal)]
    ELSE [type |-> "COLUMN", column |-> table_column_of(moperand.column)]

\* Mutant: the strict comparison and the other one are confused.
CompareTypeSwapped ==
    [CMP_LE |-> "LT", CMP_GE |-> "GE", CMP_LS |-> "LE", CMP_GR |-> "GT",
     CMP_EQ |-> "EQ", CMP_NQ |-> "NE"]

CompareTypeFromMsg ==
    [CMP_LE |-> "LE", CMP_GE |-> "GE", CMP_LS |-> "LT", CMP_GR |-> "GT",
     CMP_EQ |-> "EQ", CMP_NQ |-> "NE"]

NoCondition == [type |-> "NULL"]
where_condition_compare(op, first, second) ==
    [type |-> "COMPARE", op |-> op, first |-> first, second |-> second]
where_condition_and(first, second) == [type |-> "AND", first |-> first, second |-> second]
where_condition_or(first, second) == [type |-> "OR", first |-> first, second |-> second]
where_condition_not(first) == [type |-> "NOT", first |-> first]

RECURSIVE WhereFromMsg(_)
WhereFromMsg(predicate) ==
    CASE predicate.content_case = "NULL" -> NoCondition
      [] predicate.content_case = "COMPARE" ->
           where_condition_compare(CompareTypeFromMsg[predicate.type],
                                   PredicateOperandFromMsg(predicate.left),
                                   PredicateOperandFromMsg(predicate.right))
      [] predicate.content_case = "AND" ->
           where_condition_and(WhereFromMsg(predicate.first), WhereFromMsg(predicate.second))
      [] predicate.content_case = "OR" ->
           where_condition_or(WhereFromMsg(predicate.first), WhereFromMsg(predicate.second))
      [] predicate.content_case = "NOT" ->
           where_condition_not(WhereFromMsg(predicate.first))

\* The builders of core/src/query append to a list.
SelectorFromMsg(selector) == Mapped(table_column_of, selector)
JoinFromMsg(joins) ==
    LET Condition(join) == [left |-> table_column_of(join.left),
                            right |-> table_column_of(join.right)]
    IN  Mapped(Condition, joins)
\* The table a SET names is left out: a column_updater has a column's name.
UpdaterFromMsg(sets) ==
    LET Updater(set) == [target |-> set.column.column, new_value |-> ColumnFromMsg(set.value)]
    IN  Mapped(Updater, sets)
RowFromMsg(mrow) == Mapped(ColumnFromMsg, mrow)

ColumnTypeFromMsg ==
    [INT32 |-> "INT32", FLOAT32 |-> "FLOAT32", STRING |-> "STRING", BOOL |-> "BOOL"]
\* TableSchemeFromMsg and SchemeBuilderBuild.
TableSchemeFromMsg(scheme) ==
    LET Column(column) == [name |-> column.name, type |-> ColumnTypeFromMsg[column.type]]
    IN  [name |-> scheme.name, pool_offset |-> 0, columns |-> Mapped(Column, scheme.columns)]

\* What a handler of Connection.c passes on to Database.c.
QueryFromMsg(request) ==
    CASE request.content_case = "SELECT" ->
           [kind |-> "SELECT", table |-> request.table, where |-> WhereFromMsg(request.where),
            joins |-> JoinFromMsg(request.joins), selector |-> SelectorFromMsg(request.selector)]
      [] request.content_case = "DELETE" ->
           [kind |-> "DELETE", table |-> request.table, where |-> WhereFromMsg(request.where),
            joins |-> <<>>]
      [] request.content_case = "UPDATE" ->
           [kind |-> "UPDATE", table |-> request.table, where |-> WhereFromMsg(request.where),
            joins |-> <<>>, updater |-> UpdaterFromMsg(request.sets)]
      [] request.content_case = "INSERT" ->
           [kind |-> "INSERT", table |-> request.table,
            batch |-> Mapped(RowFromMsg, request.values)]

\* The answer: protobuf sends any b8 but 0 as true.
ColumnToMsg(column) ==
    [value_case |-> CHOOSE c \in DOMAIN ColumnType : ColumnType[c] = column.type,
     value |-> IF column.type = "BOOL" /\ column.value # 0 THEN 1 ELSE column.value]
RowToMsg(row) == Mapped(ColumnToMsg, row)
===============================================================================
