------------------------------ MODULE MCCursors -------------------------------
EXTENDS Cursors, TLC

\* Names and strings; a is in two tables, and d twice in one.
T == <<116>>    U == <<117>>    V == <<118>>
A == <<97>>     B == <<98>>     C == <<99>>     D == <<100>>
X == <<120>>    None == <<>>

RECURSIVE ListOf(_)
ListOf(items) ==
    IF items = <<>> THEN NoNode ELSE NewListAstNode(Head(items), ListOf(Tail(items)))

Col(t, c) == NewColumnReferenceAstNode(t, c)
IntOf(i) == NewIntAstNode(i)
Bool(b) == NewBoolAstNode(b)
Text(s) == NewStringAstNode(s)
Cmp(l, op, r) == NewConditionAstNode("COND_CMP", NewCompareAstNode(op, l, r), NoNode)
And(c, d) == NewConditionAstNode("COND_AND", c, d)
Or(c, d) == NewConditionAstNode("COND_OR", c, d)
Not(c) == NewConditionAstNode("COND_NOT", c, NoNode)
Join(l, r) == NewJoinAstNode(r.table, l, r)
Select(cols, t, js, w) == NewSelectQueryAstNode(ListOf(cols), t, ListOf(js), w)
Delete(t, w) == NewDeleteQueryAstNode(t, w)
Set(c, v) == NewUpdateListItemAstNode(c, v)
Update(t, sets, w) == NewUpdateQueryAstNode(t, ListOf(sets), w)
InsertInto(t, vals) == NewInsertQueryAstNode(t, ListOf(vals))
Decl(c, type) == NewColumnDeclarationAstNode(c, type)

MCCreates == <<
    NewCreateTableQueryAstNode(T, ListOf(<<Decl(A, "TYPE_INT32"), Decl(B, "TYPE_TEXT")>>)),
    NewCreateTableQueryAstNode(U, ListOf(<<Decl(A, "TYPE_INT32"), Decl(C, "TYPE_BOOL")>>)),
    NewCreateTableQueryAstNode(V, ListOf(<<Decl(D, "TYPE_BOOL"), Decl(D, "TYPE_INT32"),
                                           Decl(B, "TYPE_TEXT")>>)) >>

\* The last row of t is one column short.
MCContents == (
    T :> << ListOf(<<IntOf(1), Text(X)>>), ListOf(<<IntOf(-300), Text(None)>>), ListOf(<<IntOf(1)>>) >> @@
    U :> << ListOf(<<IntOf(1), Bool(1)>>), ListOf(<<IntOf(-300), Bool(0)>>) >> @@
    V :> << ListOf(<<Bool(1), IntOf(1), Text(X)>>), ListOf(<<Bool(0), IntOf(2), Text(None)>>) >>)

On == Join(Col(T, A), Col(U, A))
On2 == Join(Col(U, A), Col(V, D))
MCStatements == <<
    Select(<<Col(T, B), Col(T, A)>>, T, <<>>, NoNode),
    Select(<<Col(T, A)>>, T, <<>>, Cmp(Col(T, A), "CMP_LE", IntOf(1))),
    Select(<<Col(T, A)>>, T, <<>>, Cmp(IntOf(1), "CMP_GR", Col(T, A))),
    Select(<<Col(T, A)>>, T, <<>>, Not(Or(Cmp(Col(T, A), "CMP_LS", IntOf(0)),
                                          Cmp(Col(T, B), "CMP_EQ", Text(None))))),
    Select(<<Col(T, A)>>, T, <<>>, And(Cmp(Col(T, A), "CMP_GE", IntOf(0)),
                                       Cmp(Col(T, B), "CMP_NQ", IntOf(1)))),
    Select(<<Col(T, A)>>, T, <<>>, Cmp(Col(T, B), "CMP_GE", Text(X))),
    Select(<<Col(T, C)>>, T, <<>>, NoNode),
    Select(<<Col(T, A)>>, T, <<>>, Cmp(Col(U, A), "CMP_EQ", IntOf(1))),
    Select(<<Col(D, A)>>, D, <<>>, NoNode),
    Select(<<Col(U, C), Col(T, B)>>, T, <<On>>, NoNode),
    Select(<<Col(U, C)>>, T, <<On>>, Cmp(Col(T, B), "CMP_EQ", Text(X))),
    Select(<<Col(V, B), Col(T, A)>>, T, <<On, On2>>, NoNode),
    Select(<<Col(V, D)>>, T, <<On, Join(Col(T, B), Col(V, B))>>,
           Or(Cmp(Col(U, C), "CMP_EQ", Bool(1)), Cmp(Col(V, D), "CMP_LS", Col(T, A)))),
    Select(<<Col(T, A)>>, T, <<Join(Col(T, B), Col(U, A))>>, NoNode),
    Select(<<Col(T, A)>>, T, <<On, Join(Col(U, A), Col(T, A))>>, NoNode),
    Select(<<Col(T, A)>>, T, <<Join(Col(U, A), Col(T, A))>>, NoNode),
    Delete(T, NoNode),
    Delete(T, Cmp(Col(T, B), "CMP_EQ", Text(X))),
    Delete(T, Or(Cmp(Col(T, A), "CMP_EQ", IntOf(1)), Cmp(Col(T, B), "CMP_EQ", IntOf(1)))),
    Delete(D, NoNode),
    Update(T, <<Set(B, Text(<<120, 121>>)), Set(A, IntOf(5)), Set(A, IntOf(70000))>>,
           Not(Cmp(Col(T, A), "CMP_EQ", IntOf(1)))),
    Update(T, <<Set(A, Text(X))>>, NoNode),
    Update(T, <<Set(C, IntOf(1))>>, NoNode),
    Update(V, <<Set(D, IntOf(7))>>, Cmp(Col(V, D), "CMP_GE", IntOf(2))),
    InsertInto(T, <<IntOf(-7), Text(<<120, 120>>)>>),
    InsertInto(T, <<IntOf(7)>>),
    InsertInto(T, <<IntOf(7), IntOf(8)>>),
    InsertInto(T, <<IntOf(7), Text(X), IntOf(8)>>),
    InsertInto(T, <<Text(X)>>),
    InsertInto(D, <<IntOf(1)>>) >>

MCEmpty == << Select(<<Col(T, A)>>, T, <<>>, NoNode) >>
=============================================================================
