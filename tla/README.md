# Verification of single-file-database

TLA+ models of the relational database in this repository, from the syntax tree
in the client down to the pages of the file, the TLC configurations that check
them on small instances, and TLAPS proofs. Paths are relative to the
repository.

1. [The system](#1-the-system) - 2. [Modules](#2-modules) -
3. [Runs](#3-runs) - 4. [Bounds](#4-bounds) - 5. [Fairness](#5-fairness) -
6. [Proofs](#6-proofs) - 7. [What was found](#7-what-was-found) -
8. [Not modelled](#8-not-modelled) - 9. [Plan](#9-plan)

## 1. The system

A server holds one database in one file, mapped into memory block by block, and
answers the requests of its clients, one thread for each connection and one
mutex for the database. Requests become queries, queries run over cursors,
cursors over pools of heaps, heaps over lists of pages, and pages come from an
allocator with a free list in the file. There is no log and no undo: what has
been stored in the mapping is in the file, whatever happens to the process.

| Component | Source | State it keeps | Operations |
|---|---|---|---|
| File allocator | `core/src/allocator` | in the file: `file_h` with the count and head of the free pages, a link in each; in memory: mapped blocks with use counters | init (exist, create, clear), free, reserve_pages, get_page, return_page, map, copy, unmap |
| List of pages | `core/src/heap/private/pagelist.c` | `list_h`, `prev` and `next` in every page | extend, delete a node, clear, iterate |
| Heap | `core/src/heap/private/heap.c` | `heap_h` (end, append_begin, has_deleted), records with two flags | append, scan, mark deleted, flush, clear |
| Pool | `core/src/pool` | 57 heaps by record size, headers in one page | append, iterate, mark deleted, flush |
| Database | `core/src/database/Database.c` | pool of table schemes, map of the tables in memory | open, CREATE, DROP, INSERT, SELECT, UPDATE, DELETE |
| Cursors | `core/src/database/cursor` | position in every table of a query | next, restart, get, delete, update, flush |
| Exceptions | `util/exceptions` | one global pointer to a `jmp_buf` | TRY, CATCH, FINALLY, RAISE |
| Server | `server/src` | list of connections, two mutexes, threads | accept, serve, disconnect, stop |
| Process | `server/src/main.c`, `DatabaseWrapper.c` | the open database and its mutex | open, stop |
| Protocol | `network/src` | a stream | send and receive a message with its length |
| Conversions | `server/src/Connection.c`, `client/src/mapping.c`, `core/src/query` | none | tree to request, request to query, row to message |
| Rows and schemes | `core/src/database/table`, `util/buffer` | none | serialize, deserialize, compare |
| Client | `client/src/main.c` | prompt, stream | ask, show the answer |
| Parser | `parser/src` | a syntax tree | |
| Map, list | `util/map`, `util/list` | buckets of doubly linked cells | put, get, remove, resize, iterate; append, delete, iterate |
| Vector, strings, client's table of text | `util/vector`, `client/src/Table.c` | | |

How they interact: a client sends one request at a time and waits for its
answer. All calls below a connection's handler are synchronous and run under
`wrapper->lock`, sends included; the only concurrency is between clients and the
threads of the server. Errors travel
as return codes up to the cursors, as exceptions from there to
`Database...Query`, and as `DB_...` results to the handler. State is shared
between layers in one place that matters: the first word of a page is
`page_list_node_h.next` while the page is in a list and `free_page_h.next` while
it is free.

What is hard here, and what makes each part correct:

| Component | Hard | Correct when |
|---|---|---|
| Allocator | kills between any two stores; system calls failing half-way; 32-bit products; blocks shared by pages | a page has one user at a time; the free list on disk is sound at every store; no live page is unmapped |
| List of pages | the same, over several pages | both directions tell the same list; read forward it is sound at every store |
| Heap | records that straddle pages, two offsets for the edge of a page, moving records while iterating | marks take effect in a flush and nowhere else; a scan sees what was committed; cuts lose as little as the order of stores allows |
| Pool, statements | partly applied statements, retries, flush heap by heap, scanning what one appends to | a table is what the statements say; each failure loses one row at most and the next success settles the rest |
| Database, map of tables | the scheme of a table is in the file and in a hash map, changed one after the other; failures in between; restarts | map and file agree about what no failure touched; what failures leave is bounded by their number |
| Cursors, queries | nested loops over empty and unmatched tables; names, types and bytes on their way through five representations; errors in the middle of a scan | a statement does to the rows its text means what its text means, each once; every answer has its reason |
| Exceptions | nesting in every kind of block, leaving a block by return | RAISE finds the innermost live block, FINALLY always runs |
| Server | connections that end while others come, while their requests wait and while main stops everything | list and threads agree; no use after free (there is one read, see 7); requests are answered; a stop ends |
| Protocol, client | messages in pieces, answers without a number, clients that die while rows are sent under the mutex | an answer is shown for the request it belongs to; requests are handled once, in order; nobody waits for ever |

## 2. Modules

Each component has a module; `MC...` modules only add model values and
symmetry. Abstract specifications (what a component promises) are
`PageStore`, `PageSeq`, `RecordStore` and `Loops`.

```
PageStore  <-- Allocator  <-- AllocatorProofs       a <-- b: b implements, or proves about, a
PageSeq    <-- PageList   <-- PageListProofs   ( on the promise of PageStore )
RecordStore<-- Heap       <-- HeapProofs       ( on the promise of PageSeq )
               Table      <-- TableProofs   ( on the promise of RecordStore, one for every heap )
List, HashMap, Catalog    <-- CatalogProofs   ( on the promise of RecordStore; each extends the one before )
Rows, Query, Translation       Rows <-- CatalogProofs   ( the bytes of a scheme, and of a row )
Loops      <-- Cursors        Loops <-- TableProofs
                          ( over tables that do not change while scanned, as ScanComplete has it )
               Exceptions <-- ExceptionsProofs
               Server     <-- ServerProofs  ( a request is one step under the mutex )
               Protocol   <-- ProtocolProofs  ( client, stream and thread; a request is one step )
```

Layers are composed through these promises and not by one large product: the
module above uses what the run or proof below has shown. The page list treats
getting a page as `PageStore` does (any page nobody has; it may fail), the heap
uses extending and deleting as `PageSeq` does, `Table` treats a heap as
`RecordStore` does. `PageSeq` and `RecordStore` promise nothing after a call has
been cut short; what holds then is stated for each layer (`ForwardSafe`,
`LossBounded`, `KeysKept`).

**Allocator** (`allocator.c`, POSIX branch). `pages`, `count`, `head`, `word`
are the file's length, `free_pages_count`, `free_pages_next` and the first word
of every page; `pc`, `call`, `cur`, `todo` are the call in progress; `refs` is
`block_list_node.used`. Every store into the mapping is an action, named for
what it stores: `LinkNext`, `LinkHead`, `LinkCount` are `return_page`, `GetPage`,
`TakeMap`, `TakeCount`, `TakeNext` are `get_page`, `Extend` and `GrowPage`
`reserve_pages`. `Kill` may come between any two. A system call may fail at
every place one is made; `Abort` is the early return. `NewCount` has the 32-bit
product. A linked list and a hash map hold the blocks in the code; both map an
offset to its counter, and that is what the model has.

**PageList** (`pagelist.c`, and the shrinking loop of `heap.c`). `head`, `tail`,
`next`, `prev` are the stored links, `own` the pages got. One action for each
store of `page_list_append` and `page_list_delete_node`; `it` is the iterator
of the loops over it.

**Heap** (`heap.c`). A position is the number of a record and, where a record
ends at the end of a page, which of its two file offsets is meant: the code
compares offsets, so the difference matters. `mem` holds the records with
their flags, `Junk` being bytes nobody wrote. `heap_append`, the iterator and
the two loops of `heap_flush` are one action per round or store.
`seen`, `due`, `owed`, `cuts` are history.

**Table** (`Database.c` INSERT, UPDATE, DELETE; `pool.c`). `rows` are the records of
all heaps with their marks; a statement is a scan or a batch, row by row, and a
flush, heap by heap. `Cut` is both DB_ERR and a kill, which leave the same file.
A cut inside of a flush may also lose the row that `heap_record_fill` is moving (`Moving`): the end of
the heap is before it and its copy is not yet made. As the order of the rows in a heap is left out, that is any of its
rows. `last` and `written` are history: what the statements asked for.

**List**, **HashMap** (`util/list`, `util/map`). Operators on one list or map: the cells
of a list are a function from addresses, and `Iterated` is what FOR_LIST visits.
The map has chains of cells in buckets; a lookup takes the last cell of its key in the chain, as
the loop of `map_get` does, a removal the first. `WellLinked` and `WellHashed` say what callers
count on; `Catalog` carries them as its invariant `MapSound`.

**Catalog** (`Database.c` opening, CREATE and DROP; `pool.c`). `tablesPool` are the
records of the pool of schemes, heap by heap, with their marks, `tables` is the hash map in
memory. `PoolCreate`, `PoolAppend`, the rounds of the flush and `Put` are the steps of a statement.
`Fail` is DB_ERR, `Kill` ends the process, both at any step and also between
the halves of `heap_record_fill` (`Left`); `Open` and `OpenClear` are `DatabaseNew`.
`fate`, `tainted` and `cuts` are history.

**Rows** (`table.c`, `Row.c`, `Column.c`, `Buffer.c`). Rows and schemes as the bytes
`RowSerialize` and `table_scheme_serialize` write, and what is read back; a buffer that is too
short gives zeros and no strings.

**Query** (`ast.c`, `mapping.c`, `Connection.c`, `core/src/query`). The syntax tree, the request made
of it, and the query made of that, one operator per function.

**Translation** (`query_mapping`, `indexed_maps_translate`, the translate functions of the
builders, the checks and updates of rows). Names become indexes of tables and columns. Of two columns of
one name the last one counts; the table named after JOIN is not looked at, the one of
the right column is.

**Cursors** (`CursorFrom.c`, `CursorJoin.c`, `CursorWhere.c`, `query_cursor`, the four
`Database...Query` functions). One statement, from its tree to its answer.
`pos` is where every FROM is. The recursion of `CursorNext` over nested JOINs is
`level`, the cursor whose `next` runs: `NextRow` steps its own table and, at its
end, turns to the left cursor; `Test` is the loop condition; `After` is the return to
the cursor above, which restarts its table. `BuildJoin` is `CursorNew_JOIN`. `phase` says what
catches an exception: the TRY of a JOIN, that of the statement, or, once SELECT sends
rows, nothing. `got` is what was sent or written. The section "What a statement means" defines the result
by names and values alone, without requests, maps, indexes or bytes; `RowsExact` compares the two.

**Loops** (the same cursors by positions alone). A condition is the set of positions it takes,
any set; evaluating it may `Stop` the walk at every step, as may a page. What is left is the nesting, the order and
the restarts, for any number of tables of any sizes: `WalkExact` says what comes out. `Cursors` implements it
(`IsWalk`): its conditions are what `join_condition_check` and `where_condition_check` would say at each position.

**Exceptions** (`exceptions.h`). `stack` has a frame for every TRY statement in
execution, `raise_env` is the global. A function call shows only through the
TRY statements in it. `left` remembers that a TRY block was left by return; the address of its frame is free for the next
TRY, which then saves its own address as that of the block around it. `Jump` is `longjmp` with what the macros do where it
lands, in a statement that is in FINALLY too; landing in a frame that is gone is the state "undefined".

**Server** (`Server.c`, `Connection.c`). `at` is where each thread is, `db` and
`srv` who holds the two mutexes. `Die` is deferred cancellation taking effect at
accept, recv, send, close or logging, with no mutex released. `misuse` tells
how freed memory was used. The accepting thread reads `connection->sockfd`
once more after starting its thread (`ReturnSocket`, `Server.c:108`): if the
connection has been freed, `misuse` is "read" and what it reads is a choice. Any
other use makes it "used", and nothing is said after that.

**Protocol** (`client/src/main.c`, `network.c`, `handle` of `Connection.c`). `mode` is
where a client is, `pc` where its thread is, `up` and `down` are the streams, in cells: cell 0 of
a message is its size, the others are its bytes, which come in `Cells` pieces. A `recv` takes what
has come; less than asked for is an error to the code, which the server answers by closing the
connection and the client by going on with the next request, out of step with the stream (`torn`).
`Handle` is what the database does, with one of three results; `Exit` is a WHERE that raises while
rows are sent and ends the process.

## 3. Runs

| Run | Shows |
|---|---|
| `allocator` | The free list on disk is sound after every store, kill and failing call (`FreeListSound`), with every variable in its type (`TypeOK`, a part of it), nothing leaks without faults (`NoPageLost`), `get_page` finds a page although the extension is computed in 32 bits (`GetFindsPage`), the use counter of a block is exact (`UseCountsExact`). It implements `PageStore`: no page has two users, and nobody else changes it (`HandsOutPagesOnce`). |
| `page_list` | After every call both directions agree and have every page (`Linked`); after a kill at any store the list read forward is sound (`ForwardSafe`); no store goes to a page that is not the list's (`StoresInOwnPages`). Up to the first cut it implements `PageSeq` (`IsPageSeq`); calls return. |
| `heap` | Two cuts at any point lose at most a record each and duplicate none (`LossBounded`); the heap ends in its last page and appends have room (`RoomReserved`, with the exceptions it names); a scan gets each committed record once while its query changes the heap (`ScanComplete`); up to the first cut it implements `RecordStore` (`IsRecordStore`); calls return. |
| `heap_aligned` | Violation: see 7. |
| `table` | Without failures the table is exactly what the statements say (`TableExact`), wherever versions move; UPDATE does not chase its own appends (`StatementReturns`). Two failures or kills, anywhere in a flush too, lose at most one key each (`KeysKept`); versions of a key at most double with each (`Doubled`); the next DB_OK leaves nothing pending (`OkSettles`). |
| `catalog` | The hash map is sound through collisions, resizes and removals (`MapSound`). It agrees with the file about every name that no cut has touched (`MapAgrees`). Cuts leave at most one more scheme of a name each (`Copies`), lose at most one table each (`SchemesKept`) and at most one pool each, besides those of dropped tables (`PoolsAccounted`). A DB_OK settles what was pending (`OkSettles`). |
| `cursors` | 30 statements, right and wrong in names and types, over all tables of up to two rows: a statement whose names and types are right sends, deletes, updates or inserts what its text means, each row once, in order (`RowsExact`); every answer, and every way to fail, has its reason (`AnswersRight`); the cursors walk as `Loops` does (`IsWalk`); statements end, whatever fails (`StatementEnds`). |
| `cursors_empty` | Violation: see 7. |
| `exceptions` | `raise_env` is the innermost block; after a return inside TRY it is that, or dead, or a statement in FINALLY that uses the dead frame, but never an outer block in place of the innermost (`KnowsInnermost`). FINALLY runs (`FinallyRuns`), what is in flight is not dropped (`NothingSwallowed`). |
| `exceptions_return` | Violation: see 7. |
| `server` | While it serves, the list is the live connections and nothing freed is used, but for the read at `Server.c:108` (`ListExact`). Received requests are served (`Served`); a stop ends if nobody is busy (`StopEnds`). |
| `protocol` | What a client shows of a request is what was done with that one, until a message has come to it in pieces (`InStep`). Requests are handled once, in order and one at a time, also when they come in pieces and clients die or are out of step (`HandledInOrder`). Requests are answered (`Answered`), and no thread outlives its client (`Released`). |

Every property of a passing run has a mutant, a changed definition beside the
one it changes ("Mutant:" in the comment), that breaks it.

What the properties leave open on purpose: `ForwardSafe` exempts a kill between
making the first page the head and zeroing its node, `RoomReserved` an append
after the first append was cut short, `ListExact` the loop's read of a connection that may be freed, `FreeListSound` a file killed in
CLEAR mode between truncation and the new header (`Torn`), `RowsExact` rows that are shorter than
their table and statements whose types disagree, `InStep` a client that has got a message in pieces.
The code leaves these windows open; the comments at the properties say why.

`StopEnds` is weak where the code is: if a request is in progress or a client
leaves when main stops the server, main may wait for ever for the mutex of a
thread cancelled in `send`, or memory may be used after it was freed. The
property says that this is the only way a stop goes wrong.

## 4. Bounds

| Module | Bound | Why it is enough |
|---|---|---|
| Allocator | 4 pages, 3 handles, blocks of 2 pages, extension by 2, products that wrap at 3 pages | header and three pages: an extension, a list of three, a wrap-around, pages sharing a block with each other and with the header. Users who hold three handles ask for no more (`HandlesLeft`), which does not bound what a call that has begun hands out: a page handed out twice is a state the run would see. The proofs have no bound. |
| PageList | 3 pages, extensions by 2 | head, tail and a middle page, or two and one to add; delete at each place. The proofs have no bound. |
| Heap | 3 records of 3 bytes on pages of 4, and of 1 on pages of 2 (`heap_aligned`); 2 cuts | records that begin, end and lie across pages, and ones that tile them; one cut met by another before it is repaired. The proofs have no bound. |
| Table | 2 heaps; 2 keys and 5 versions of each; 2 cuts | versions move ahead of and behind the scan; one failure doubles the versions of a key, the bound `Doubled` gives for it; both cuts may fall while a row is moved. The proofs have no bound. |
| Catalog | 3 names, 2 heaps, 3 tables created, 2 cuts, a map that begins with 2 buckets | the names collide before the map resizes and two of them after; schemes of one name in two heaps; a cut and a repeated statement that is cut again. The proofs have no bound. |
| Cursors | 3 tables of up to 2 rows, 2 JOINs, 30 statements | left-nested JOIN over a JOIN; empty, unmatched, first and last pairs; a column name in two tables and twice in one, a row too short, every kind of condition; numbers of two bytes and negative ones. The proofs about `Loops` have no bound. |
| Exceptions | 2 codes, 3 TRY statements deep, 4 addresses (a dead pointer may take one, or share it) | statements nested in each of TRY, CATCH and FINALLY of another, in a frame that was used before or in a new one. The proofs have no bound. |
| Server | 2 connections with 2 requests each | one served while the other waits, arrives, leaves or is stopped. The proofs have no bound. |
| Protocol | 2 clients, see `MCProtocol`; messages in 2 pieces, streams to a client of 2 cells, 1 row | a message that is split, and a sender that waits; a client out of step whose next answers are taken for others; one client waiting for the rows of the other. The proofs have no bound. |

`Wrap` stands for 2^32 / PAGE_SIZE; the only thing used of the real values is
that 10 new pages are not a multiple of it (`GrowthAssumption`).

Deadlock checking is off in runs whose system may stop: a statement that
ended, a bound reached, a process gone. Where something must happen a
liveness property says so.

## 5. Fairness

- `PageList`, `Heap`, `Table`, `Cursors`: the thread inside a call is
  scheduled and nothing in the call blocks, so weak fairness of the steps of the
  call (not of the user who calls, nor of kills and failures).
  `Cursors` takes for granted that a client reads its rows: SELECT sends from
  inside the loop.
- `Server`: weak fairness of each running thread and of main once it stops.
  Clients have none: they need not connect, ask or leave. POSIX mutexes are not
  fair, and with weak fairness a waiting request could starve behind a client
  that never pauses; requests are bounded here, so `Served` shows that no request
  is forgotten or blocked for ever, not that the mutex is fair.
- `Protocol`: weak fairness of each client program and each thread, none of clients dying or the
  process ending. A client reads its answer without being asked to, so the program alone would do, but for one
  thing: a client out of step is at its prompt while rows for it are still on their way, its thread has the
  mutex meanwhile, and everybody waits until its user goes on. Users are therefore taken to
  go on, by asking or quitting. Streams to the server have room for the requests of a client: with less
  an out-of-step client that sends and a thread that sends rows wait for each other for ever.

## 6. Proofs

The proofs of a module are in a module of its own; the inductive invariant is `IInv` in each.

`AllocatorProofs` proves for every file length, block size, growth, wrap-around, set
of faults and open modes, from the assumptions named in `Allocator`
(`SizesAssumption`, `GrowthAssumption`):

| Theorem | Says |
|---|---|
| `TypeCorrect` | `Spec => []TypeOK` |
| `PageFound` | `Spec => []GetFindsPage` |
| `FreeListCorrect` | `Spec => []FreeListSound` |
| `Implementation` | `Spec => HandsOutPagesOnce`: the allocator implements `PageStore`, which promises nothing of a file that a kill in CLEAR mode has torn, until it is cleared again |

`FreeListSound` is not inductive: in the middle of `return_page` a page is on
the list and not yet counted, in `get_page` it is uncounted and still there, and
`reserve_pages` holds a run of new pages that must not be on the list already.
`IInv` therefore has, besides the types, `CallInv` (what each value of `pc` says
about the other variables) and `Lists`, which gives the free list as a function
`s` of length `n`, counts the page in flight, and keeps `s` clear of `Unlinked`,
the pages a call has still to link. The step lemmas follow the actions:
`SameList` for those that touch neither list nor users, `LinkStep` for the
stores that put a page in front, `TakeStep` for those that take it,
`UserStep` for the calls that begin, `TornStep` for CLEAR mode.
`Implementation` maps pages with a user to pages handed out; a step is the
abstract get or return where `users` changes, a user's write, or a stutter.

Two more theorems are about everything the allocator has:

| Theorem | Says |
|---|---|
| `NoneLost` | `Spec => []NoPageLost` |
| `UsesCounted` | `Spec => []UseCountsExact` |

Both compare cardinalities. `NoneLost` counts the pages in the numbering `s` of `Lists`; `UsesCounted`
shows that the fold which adds up the uses of a block is the number of handles into it, and then
follows handle by handle what each step maps and unmaps.

`ExceptionsProofs` proves, for all exception codes, addresses and depths of nesting:

| Theorem | Says |
|---|---|
| `InnermostKnown` | `Spec => []KnowsInnermost` |
| `FinallyAlways` | `Spec => FinallyRuns` |
| `InFlightKept` | `Spec => NothingSwallowed` |

`KnowsInnermost` is about the top of the stack only, and leaving a block puts an `old` pointer
back. `IInv` therefore says the same of every saved pointer (`Chain`): the one saved by frame `i`
is the innermost block of the frames below `i`, or, once a block has been left by return, an
address that at most frames in FINALLY have. `Below`, `Changed`, `ToFinally` and `ToCatch` carry `Chain`
over a stack cut off or changed at its end; `Landing` shows that a jump finds its frame.

`ServerProofs` proves, for all sets of connections, numbers of requests and faults, `ListCorrect`:
`Spec => []ListExact`. `IInv` is the types, `Places` (where in its code each thread may be,
and when it has a connection in hand), `Fresh` (a connection not accepted yet is in no list, nor is the one about to be
appended) and `Serving`, which ties list and live threads together as long as main serves,
and says that no freed memory is used meanwhile, but for the read of `ReturnSocket`. `Appended` and `Removed` are
about lists without repetition; removal is proved for `RemoveFirst`, of which the server
needs that it takes out exactly one cell.

`TableProofs` proves, for all sets of keys, heaps, versions and cuts:

| Theorem | Says |
|---|---|
| `TableCorrect` | `Spec => []TableExact` |
| `OneLostPerCut` | `Spec => []KeysKept` |
| `Settled` | `Spec => OkSettles` |
| `DoublesAtMost` | `Spec => []Doubled` |

`KeysKept` is not inductive: UPDATE marks the old version while the new one is appended, and
had the row at hand been the only one, its mark would lose the key. `Gone` are the keys without a version that is neither
marked nor about to be marked by UPDATE (`Live`), and `Kept` says that there are no more of them than cuts: a cut adds the key
of the row it loses, no other step adds any (`KeptStays`). `Flushing` says which heaps the flush has settled, `Exact` that up to
the first cut there is one version of each key and that marks are met only behind the scan.
`Counted` is what bounds the versions within a statement: those there are and those its scan is still to come
to (`Ahead`) are together at most twice the power of two of the cuts, those that will be left when it has ended
(`Future`) at most that power; a cut turns the first bound into the new second one. Powers of two
are a recursive function, which is shown to exist by the least number where it would not.

The last sections of `TableProofs` are about `Loops`, and have no bound on JOINs, rows or conditions:

| Theorem | Says |
|---|---|
| `WalkIsExact` | `Walk => []WalkExact` |

The rows that came out are in the order of the loops, each once, and each taken by all conditions; and no row of that
kind is missing before the place where the walk is, or at all when it is done. `WalkInv` divides the positions into those behind the walk
and those ahead of it (`Past`): while a `next` is due at some level, the tables up to that level decide, and the row at
hand counts as passed; where a condition is to be evaluated it does not. `BeforeNext` (one step further on in a table),
`BeforeRestarted` (a table set back to its first row) and `NotTaken` (a row a condition does not take) show that no
step but `Found` changes that division for a row in view; a table that is exhausted has no row left for the positions
at hand on its left. `Restarted` says that tables not reached yet are at their first row and that an inner table is beyond its last row
only if it has none: this is why an empty table ends the walk, and rightly. `Filtered` says which conditions the row at
hand has met. With `IsWalk` this carries over to the statements of the run `cursors`.

`PageListProofs` proves, for all sets of pages, extensions and faults:

| Theorem | Says |
|---|---|
| `BothDirections` | `Spec => []Linked` |
| `SafeForward` | `Spec => []ForwardSafe` |
| `OwnPagesOnly` | `Spec => StoresInOwnPages` |
| `KeepsTheSequence` | `Spec => IsPageSeq` |

`IInv` has a part for each value of `harm`. Up to the first cut there is a numbering `s` of the
pages (`State`), without the one at hand where that is on its way in or out, that the links of both
directions follow but for the one store each value of `pc` names. After a cut (`Sound`) there is such a
numbering for `next` alone, the tail is 0 or a page of the list's, and only extends go on; that
this is enough is the argument that the order of the stores in `page_list_append` is safe.
`Added` and `Without` are the numberings after an append and a delete. For the refinement
`ReadFromReads` shows that what is read along the links from the head is that numbering, so that
one store of an append and one of a delete change it as `PageSeq` has it and the other stores
do not (`AddedMoves`, `WithoutMoves`, `QuietStep`).

`HeapProofs` proves, for any set of records and number of cuts, in heaps none of whose records ends at
the end of a page (`Straddling`):

| Theorem | Says |
|---|---|
| `Invariance` | `Spec => []IInv` |
| `RoomIsReserved` | `Spec => []RoomReserved` |
| `LossIsBounded` | `Spec => []LossBounded` |
| `ScanIsComplete` | `Spec => []ScanComplete` |
| `KeepsItsPromise` | `Spec => IsRecordStore` |
| `PoolHeapsKeep` | `ShortHeap` is enough for `Spec => [](RoomReserved /\ LossBounded /\ ScanComplete)` |

`Straddling` says that no record, as many as the heap may have (`MaxSlots`), ends at the end of a page. In other heaps
the theorems are false: the two offsets of one place differ and a flush loses records, which is
what the run `heap_aligned` shows, and with the sizes of that run `RoomReserved` and `ScanComplete` fail as well.
The program gets there: a class of records of R bytes, header included, meets the end of a page with record
number 4080 / gcd(R, 4080), and a heap is what these theorems are about only as long as it has fewer. The
classes of `pool_create` have 64 * 2^i + 9 bytes. That is 4080 records for 36 of the 57
classes (73, 137, 521, 1033 bytes among them), 816 for 14 (265, 4105), and 240 for 7 (2057).
`PoolHeapsKeep` proves as much of the eight remainders these sizes have by 4080. Nothing is proved of a
longer heap, and what `Table` and `Catalog` say, which take a heap for a `RecordStore`, is about such heaps only.
`IInv` has for every `pc` what the positions `end`, `append_begin`, `cur` and `scan.pos` are to one another
and to the pages there are (`Placed`, `AppendInv`, `FlushInv`, `ScanInv`), what marks there can be and that nothing
is there twice (`Marks`), and, while there was no cut, that the heap ends in its last page, has
no junk, has its uncommitted records at its end (`Sound`) and that a scan has got the
records behind it (`Got`). `FewLost` counts the lost records. For the refinement `Dels` adds that a flush leaves no mark of
deletion behind it.

`CatalogProofs` proves, for all sets of names and hashes of them, any number of heaps and cuts:

| Theorem | Says |
|---|---|
| `Invariance` | `Spec => []IInv` |
| `Settled` | `Spec => OkSettles` |
| `SchemesAreKept` | `Spec => []SchemesKept` |
| `PoolsAreAccounted` | `Spec => []PoolsAccounted` |
| `MapIsSound` | `Spec => []MapSound` |
| `MapAndFileAgree` | `Spec => []MapAgrees` |
| `CopiesAreCounted` | `Spec => []Copies` |

`Numbering` says that no two places of the file have a scheme of one pool, not even between the halves of moving
one, `Settling` which heaps the flush has settled, `Bounded` what the cuts have cost. Each step is told by what it does to the places
(`Marking`, `Appending`, `Carried`, `Deleting`, `Cutting`), whatever heap they are in.

The map of tables has a theory of its own in the module, about the operators of `List` and `HashMap`
for any keys and hash. A list is `Numbered` by its cells from the head on, which both directions of
links follow, and `Holds` a set of entries, each once; an append and a delete at any
place change numbering and set (`HoldsAppended`, `HoldsDeleted`). A map `Represents` a set of entries if each bucket holds
those of its slot: of that set `MapPuts`, `MapRemoves` and `MapResized` say what becomes of it, and `MapFinds` and
`EntriesAre` what is read. `Sound` maps are `WellHashed` (`MapIsWellHashed`). The buckets a resize fills
and the maps an opening makes are recursive functions; `FillingExists` and `LoadingExists` give their
equations. `MapAgrees` is inductive with what it says in the middle of a statement: `AgreesOn` says which scheme of
a name is on its way in or out, and `Told` that what the statement remembers is what the
map says. `Copied` counts for each name the schemes that live, and lets them be one more than the cuts only
while the map has the name or its CREATE is under way.

Catalog takes a scheme that is read from a heap for the scheme that was saved there. That the bytes
bear this out is proved of `Rows` in the same module, for rows and schemes with any number of columns:

| Theorem | Says |
|---|---|
| `SchemeReadsBack` | `table_scheme_deserialize(table_scheme_serialize(scheme)) = scheme` |
| `RowReadsBack` | `row_deserialize(scheme, RowSerialize(row))` is the row, with 0 or no string for the columns of the scheme it does not have |

The hypotheses are the types of C: numbers of 32 bits (the bits of a float too), one byte
for a BOOL, an offset of 64 bits, strings of bytes without a 0, as many columns as a 32-bit number counts. A
row has the types of the scheme's first columns, as `RowIsValid` (`Database.c:570`) checks; that it has
no more columns than the scheme is an assumption, the code does not check it. `NumberOfBytes` says that the
little-endian digits of a number add up to it again when its width holds it, sign included; `RowSizes` and
`SchemeSizes` that the buffer has exactly the room the pieces need, so that no write is dropped and no read comes
short; `Pieces` that each piece is at the end of those before it; `ReadColumn` and `ReadPiece` that reading
there gives the column and stops where the next one starts. The folds of the community modules are recursive functions on
sets of indexes: `FoldsExist` gives their equations, `FoldUp` and `FoldDown` the chain of results from the first
index to the last.

`ProtocolProofs` proves, for all clients, requests, rows, sizes of messages and of streams:

| Theorem | Says |
|---|---|
| `Invariance` | `Spec => []IInv` |
| `InStepHolds` | `Spec => []InStep` |
| `HandledInOrderHolds` | `Spec => HandledInOrder` |

`InStep` is about what is shown, at the end of a request. `IInv` follows the responses to it through
the thread that sends, the stream and the client that takes them: together they have each cell
once and in order (`Answering`), or none of it yet (`Waiting`), or no longer (`Quiet`). For the requests
`Unsent`, `Arriving`, `Known` and `Whole` say the same of the stream to the server, also when clients are out of
step, and `Mutex` that one thread sends.

Where a proof needs induction over numbers it takes the least counterexample: `LeastNat` gets that from the
well-foundedness of the order, as a fact that has no operator for a parameter.

Only model-checked:

- every liveness property: fairness and ENABLED are out of the prover's reach;
- `RowsExact` and `AnswersRight` of Cursors. They compare folds over trees and bytes, by recursive
  operators, for the statements listed, which is a matter of enumeration; which rows come out of the
  loops, for whatever conditions, is proved of `Loops`, and that their bytes are the values that were
  inserted of `Rows`;
- that `Cursors` implements `Loops`: a theorem about `Cursors` would need its recursive operators.

## 7. What was found

1. `heap.c:448` (run `heap_aligned`). `heap_record_fill` recognizes the deleted
   record by its offset. When a record ends at the end of a page it has two
   offsets, one read forward and one read backward; the comparison fails and a
   flush loses a committed record that nobody deleted. In the
   model it takes records whose size divides a page's; the classes of the program
   have their first such record after 240, 816 or 4080 of them.
2. `Database.c:253` (run `exceptions_return`). `return` inside TRY leaves
   `raise_env` in a dead stack frame; DELETE and UPDATE on an unknown table then
   jump there.
3. `Database.c:497` (run `cursors_empty`). SELECT with an empty result fails
   the assertion in `Cursor.c:40`.

`Server.c:108` is a use after free: the loop starts the thread of a connection and then reads the
connection's socket number, when the thread may have ended and freed it. The run `server` contains it (`misuse` is
"read"), and with it the loop that stops accepting because it read -1. No line of the repository
says otherwise, so there is no run for it of its own.

Behaviour no document promises otherwise, and which the models contain: a stop
that hangs or uses freed memory when requests are in progress
(`Server.c:75-79`), WHERE conditions that
end the process while rows are sent, or end a DELETE or UPDATE as an invalid query after it has changed
rows (`CursorWhere.c:77`), maps freed twice when a JOIN cannot be built (`Database.c:355`),
pages lost by kills and by DROP TABLE, two tables of one name after a CREATE that failed,
statements repeated after an error that multiply rows, UPDATE storing a value of another type
(`updater_builder.c:63`), rows shorter than their table, a client that shows the answer of an earlier
request after a message came in pieces (`main.c:413`), and a client whose prompt never ends at the end of its
input (`main.c:42`).

## 8. Not modelled

- The Windows branch of the allocator (`allocator.c:176-486`), a second
  implementation of the same interface.
- The grammar (generated by flex and bison), the layout of the client's tables of text, command lines.
  The generated protobuf code is external: a message that is whole arrives as it was sent, bytes that are
  not a whole message do not unpack. The 8 bytes of a message's size arrive together.
- A kill in the middle of one memcpy, of a record, a header or a node: each is one store.
- In `Catalog`, the pages of a heap whose first append was cut before its end was stored
  (`heap.c:84-88`), with which an opening fails; and kills inside of `DatabaseNew` when it clears the file
  (`Database.c:38-50`), after which only clearing it again opens it.
- The order of floats that are negative: a float is its bits. The runs have no float columns.
- INSERT with several rows, which the conversion of requests never makes.
- `pool_clear`, list operations and the vector, which nothing calls.
- C-level effects of `longjmp` on variables in registers (`Database.c:387`), memory
  leaks on error paths, failing `malloc`, except where it shows as a failing call.
- Restarting a JOIN or WHERE cursor as a whole: the tables of a JOIN are on its
  right, always a FROM, and queries put WHERE outermost, so `CursorRestart` reaches FROM
  only.

## 9. Plan

Done, in this order: PageStore, Allocator and its proofs; PageSeq, PageList;
RecordStore, Heap; Exceptions; Table; Server; List, HashMap, Catalog; Rows, Query,
Translation, Cursors; Protocol; proofs of all of these, of Cursors by way of Loops.

Next:

1. The server with the statements of `Table` in place of one step for each request.
