--------------------------------- MODULE List ---------------------------------
(***************************************************************************)
(* The doubly linked list (util/list/List.c) as its nodes are, and as what *)
(* an iterator from the head sees.  An address is a number; node maps the  *)
(* addresses malloc has given and free has not got back.                   *)
(***************************************************************************)
EXTENDS Sequences, FiniteSets, Naturals

NULL == 0

ListNew == [head |-> NULL, tail |-> NULL, size |-> 0, node |-> <<>>]

\* malloc: any address that is free; the first will do.
Fresh(list) ==
    CHOOSE n \in 1 .. Cardinality(DOMAIN list.node) + 1 : n \notin DOMAIN list.node

ListAppendTail(list, value) ==
    LET n == Fresh(list) IN
    [head |-> IF list.head = NULL THEN n ELSE list.head,
     tail |-> n,
     size |-> list.size + 1,
     node |-> [m \in DOMAIN list.node \cup {n} |->
                 IF m = n THEN [value |-> value, next |-> NULL, prev |-> list.tail]
                 ELSE [list.node[m] EXCEPT !.next = IF m = list.tail THEN n ELSE @]]]

\* Mutant: the node after the deleted one keeps its prev.
DeleteNodeForward(list, n) ==
    LET prev == list.node[n].prev
        next == list.node[n].next IN
    [head |-> IF prev = NULL THEN next ELSE list.head,
     tail |-> IF next = NULL THEN prev ELSE list.tail,
     size |-> list.size - 1,
     node |-> [m \in DOMAIN list.node \ {n} |->
                 [list.node[m] EXCEPT !.next = IF m = prev THEN next ELSE @]]]

ListIteratorDeleteNode(list, n) ==
    LET prev == list.node[n].prev
        next == list.node[n].next IN
    [head |-> IF prev = NULL THEN next ELSE list.head,
     tail |-> IF next = NULL THEN prev ELSE list.tail,
     size |-> list.size - 1,
     node |-> [m \in DOMAIN list.node \ {n} |->
                 [list.node[m] EXCEPT !.next = IF m = prev THEN next ELSE @,
                                      !.prev = IF m = next THEN prev ELSE @]]]

\* FOR_LIST: the nodes from the head, one after the other.
Iterated(list) ==
    LET at[i \in 1 .. Cardinality(DOMAIN list.node)] ==
           IF i = 1 THEN list.head
           ELSE IF at[i - 1] = NULL THEN NULL ELSE list.node[at[i - 1]].next
    IN  [i \in 1 .. Cardinality({j \in DOMAIN at : at[j] # NULL}) |-> at[i]]

ListValues(list) ==
    LET n == Iterated(list) IN [i \in DOMAIN n |-> list.node[n[i]].value]

\* What every caller counts on: the same nodes both ways, and none besides.
WellLinked(list) ==
    LET n == Iterated(list) IN
    /\ list.size = Len(n) /\ Len(n) = Cardinality(DOMAIN list.node)
    /\ list.head = IF n = <<>> THEN NULL ELSE n[1]
    /\ list.tail = IF n = <<>> THEN NULL ELSE n[Len(n)]
    /\ \A i \in DOMAIN n :
          /\ list.node[n[i]].prev = IF i = 1 THEN NULL ELSE n[i - 1]
          /\ list.node[n[i]].next = IF i = Len(n) THEN NULL ELSE n[i + 1]
===============================================================================
