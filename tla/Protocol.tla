------------------------------- MODULE Protocol -------------------------------
(***************************************************************************)
(* The client program (client/src/main.c), the framing of messages         *)
(* (network/src/network.c) and the thread that serves a connection         *)
(* (server/src/Connection.c).  A message is sent as its size and then its  *)
(* bytes, with one send() each, and received with one recv() each, which   *)
(* returns what has come so far.  A stream is a sequence of cells: cell 0  *)
(* of a message is its size, which comes in one piece, and cells 1 to      *)
(* Cells are its bytes.  What the database does with a request is in the   *)
(* other modules; here it is one of the results a handler tells apart.     *)
(* Bytes that are not a message in whole are taken not to unpack as one.   *)
(***************************************************************************)
EXTENDS Integers, Sequences

CONSTANTS
    Clients,
    Asks,           \* by client: the kinds of its requests
    MaxRequests,    \* bound, by client: its requests
    MaxRows,        \* bound: rows of a SELECT
    Cells,          \* pieces in which the bytes of a message may come
    Buffer          \* cells a stream to a client has room for

ASSUME ProtocolAssumption ==
    /\ Asks \in [Clients -> SUBSET {"TABLE_LIST", "INSERT", "SELECT"}]
    /\ MaxRequests \in [Clients -> Nat] /\ MaxRows \in Nat /\ Cells \in Nat \ {0}
    /\ Buffer \in Nat /\ Buffer >= Cells

VARIABLES
    mode,           \* by client: what it does
    asked,          \* by client: its last request
    left,           \* by client: cells of its request still to be sent
    rcv,            \* by client: what its recv() is about
    count,          \* by client: rows of a SELECT it has received
    shown,          \* by client: what it has told its user of that request
    torn,           \* by client: whether a message has come to it in pieces
    up, down,       \* by client: the streams to the server and back
    pc,             \* by client: where its thread of the server is
    request,        \* by client: the request its thread works on
    todo,           \* by client: responses still to be sent
    sent,           \* by client: cells of the first of them that are sent
    err,            \* by client: whether handling its request has failed
    handled,        \* by client: what was done with the last of its requests
    lock            \* the clients whose threads have the mutex of the database
client == <<mode, asked, left, rcv, count, shown, torn>>
thread == <<pc, request, todo, sent, err, handled, lock>>
vars == <<client, up, down, thread>>

NoMessage == [req |-> 0]
NoAnswer == [text |-> "Response error"]
Answer(req, text, rows) == [req |-> req, text |-> text, rows |-> rows]
Garbage == [req |-> -1]
CellsOf(m) == [p \in 1 .. Cells + 1 |-> [m |-> m, part |-> p - 1]]

Init ==
    /\ mode = [c \in Clients |-> "prompt"] /\ asked = [c \in Clients |-> NoMessage]
    /\ left = [c \in Clients |-> <<>>] /\ rcv = [c \in Clients |-> NoMessage]
    /\ count = [c \in Clients |-> 0] /\ shown = [c \in Clients |-> NoMessage]
    /\ torn = [c \in Clients |-> FALSE]
    /\ up = [c \in Clients |-> <<>>] /\ down = [c \in Clients |-> <<>>]
    /\ pc = [c \in Clients |-> "head"] /\ request = [c \in Clients |-> NoMessage]
    /\ todo = [c \in Clients |-> <<>>] /\ sent = [c \in Clients |-> 0]
    /\ err = [c \in Clients |-> FALSE]
    /\ handled = [c \in Clients |-> NoMessage] /\ lock = {}

Kind(c) == asked[c].case

-----------------------------------------------------------------------------
(***************************************************************************)
(* The client                                                              *)
(***************************************************************************)

\* cli and requestQuery: the user has typed a statement or \d.
Ask(c) ==
    /\ mode[c] = "prompt" /\ asked[c].req < MaxRequests[c]
    /\ \E kind \in Asks[c] :
          /\ asked' = [asked EXCEPT ![c] = [req |-> @.req + 1, case |-> kind]]
          /\ left' = [left EXCEPT ![c] = CellsOf(asked'[c])]
    /\ mode' = [mode EXCEPT ![c] = "sending"]
    /\ shown' = [shown EXCEPT ![c] = NoMessage]
    /\ UNCHANGED <<rcv, count, torn, up, down, thread>>

\* A stream to the server has room for the requests of its client, see README.md.
\* What a socket whose other side is closed takes is lost, until it fails.
SendRequest(c) ==
    /\ mode[c] = "sending"
    /\ \/ pc[c] # "closed" /\ up' = [up EXCEPT ![c] = Append(@, Head(left[c]))]
       \/ pc[c] = "closed" /\ UNCHANGED up
    /\ left' = [left EXCEPT ![c] = Tail(@)]
    /\ mode' = [mode EXCEPT ![c] = IF Len(left[c]) = 1 THEN "answer" ELSE @]
    /\ UNCHANGED <<asked, rcv, count, shown, torn, down, thread>>

\* requestTablesList does not look at the result of sendRequest.
SendRequestFails(c) ==
    /\ mode[c] = "sending" /\ pc[c] = "closed"
    /\ left' = [left EXCEPT ![c] = <<>>]
    /\ mode' = [mode EXCEPT ![c] = IF Kind(c) = "TABLE_LIST" THEN "answer" ELSE "gone"]
    /\ UNCHANGED <<asked, rcv, count, shown, torn, up, down, thread>>

Show(c, answer) ==
    /\ shown' = [shown EXCEPT ![c] = answer]
    /\ mode' = [mode EXCEPT ![c] = "prompt"]
    /\ count' = [count EXCEPT ![c] = 0]

\* receive, and what follows it in the request functions; receiveRows.
Take(c, m) ==
    IF m = NoMessage THEN Show(c, NoAnswer)
    ELSE IF m.error THEN Show(c, Answer(m.req, "error", 0))
    ELSE \/ /\ mode[c] = "answer" /\ m.case = Kind(c) /\ m.case = "SELECT"
            /\ mode' = [mode EXCEPT ![c] = "rows"] /\ UNCHANGED <<shown, count>>
         \/ /\ mode[c] = "answer" /\ m.case = Kind(c) /\ m.case # "SELECT"
            /\ Show(c, Answer(m.req, "OK", 0))
         \/ /\ mode[c] = "rows" /\ m.case = "BATCH"
            /\ count' = [count EXCEPT ![c] = @ + 1] /\ UNCHANGED <<shown, mode>>
         \/ /\ mode[c] = "rows" /\ m.case = "BATCH_END"
            /\ Show(c, Answer(m.req, "rows", count[c]))
         \/ /\ m.case \notin IF mode[c] = "answer" THEN {Kind(c)} ELSE {"BATCH", "BATCH_END"}
            /\ Show(c, NoAnswer)

\* The first recv of receiveMessage.  Out of step it takes bytes of a message for a
\* size: too few, or a size malloc does not have, or it waits for so many bytes.
ReceiveSize(c) ==
    /\ mode[c] \in {"answer", "rows"} /\ rcv[c] = NoMessage /\ down[c] # <<>>
    /\ LET cell == Head(down[c]) IN
       IF cell.part = 0
       THEN /\ rcv' = [rcv EXCEPT ![c] = cell.m]
            /\ down' = [down EXCEPT ![c] = Tail(@)]
            /\ UNCHANGED <<mode, shown, count>>
       ELSE /\ down' \in {down, [down EXCEPT ![c] = Tail(@)]}
            /\ \/ Take(c, NoMessage) /\ UNCHANGED rcv
               \/ rcv' = [rcv EXCEPT ![c] = Garbage] /\ UNCHANGED <<mode, shown, count>>
    /\ UNCHANGED <<asked, left, torn, up, thread>>

\* The second one: what has come of the message.
ReceiveBytes(c) ==
    /\ mode[c] \in {"answer", "rows"} /\ rcv[c] # NoMessage /\ down[c] # <<>>
    /\ rcv' = [rcv EXCEPT ![c] = NoMessage]
    /\ \E n \in 1 .. Len(down[c]) :
          /\ rcv[c] # Garbage => n = IF Len(down[c]) < Cells THEN Len(down[c]) ELSE Cells
          /\ down' = [down EXCEPT ![c] = SubSeq(@, n + 1, Len(@))]
          /\ LET whole == rcv[c] # Garbage /\ n = Cells
             IN  /\ Take(c, IF whole THEN rcv[c] ELSE NoMessage)
                 /\ torn' = [torn EXCEPT ![c] = @ \/ ~ whole]
    /\ UNCHANGED <<asked, left, up, thread>>

ReceiveEnd(c) ==
    /\ mode[c] \in {"answer", "rows"} /\ pc[c] = "closed" /\ down[c] = <<>>
    /\ rcv' = [rcv EXCEPT ![c] = NoMessage]
    /\ Take(c, NoMessage)
    /\ UNCHANGED <<asked, left, torn, up, down, thread>>

Leave(c) ==
    /\ mode' = [mode EXCEPT ![c] = "gone"]
    /\ left' = [left EXCEPT ![c] = <<>>] /\ down' = [down EXCEPT ![c] = <<>>]
    /\ rcv' = [rcv EXCEPT ![c] = NoMessage] /\ count' = [count EXCEPT ![c] = 0]
    /\ UNCHANGED <<asked, shown, torn, up, thread>>

\* \q.  A client may also be killed at any time, or its connection break.
Quit(c) == mode[c] = "prompt" /\ Leave(c)
Die(c) == mode[c] \in {"sending", "answer", "rows"} /\ Leave(c)

-----------------------------------------------------------------------------
(***************************************************************************)
(* The thread of a connection                                              *)
(***************************************************************************)

\* ConnectionFree: with unread data in it, a socket that is closed may take away
\* what the other side has not read yet.
Closed(c) ==
    /\ up' = [up EXCEPT ![c] = <<>>]
    /\ \/ UNCHANGED down
       \/ up[c] # <<>> /\ down' = [down EXCEPT ![c] = <<>>]

HandleSize(c) ==
    /\ pc[c] = "head" /\ up[c] # <<>>
    /\ request' = [request EXCEPT ![c] = Head(up[c]).m]
    /\ up' = [up EXCEPT ![c] = Tail(@)]
    /\ pc' = [pc EXCEPT ![c] = "body"]
    /\ UNCHANGED <<client, down, todo, sent, err, handled, lock>>

HandleBytes(c) ==
    /\ pc[c] = "body" /\ up[c] # <<>>
    /\ IF Len(up[c]) < Cells
       THEN pc' = [pc EXCEPT ![c] = "closed"] /\ Closed(c)
       ELSE /\ pc' = [pc EXCEPT ![c] = "lock"]
            /\ up' = [up EXCEPT ![c] = SubSeq(@, Cells + 1, Len(@))]
            /\ UNCHANGED down
    /\ UNCHANGED <<client, request, todo, sent, err, handled, lock>>

\* recv returns 0, or fails.
HandleEnd(c) ==
    /\ pc[c] \in {"head", "body"} /\ mode[c] = "gone"
    /\ pc' = [pc EXCEPT ![c] = "closed"] /\ Closed(c)
    /\ UNCHANGED <<client, request, todo, sent, err, handled, lock>>

Lock(c) ==
    /\ pc[c] = "lock" /\ lock = {}
    /\ lock' = {c}
    /\ pc' = [pc EXCEPT ![c] = "handle"]
    /\ UNCHANGED <<client, up, down, request, todo, sent, err, handled>>

\* The handlers.  TABLES_LIST cannot fail; an error the user made leaves the
\* connection as it is, another one ends it once it is answered.
Response(req, case, error) == [req |-> req, case |-> case, error |-> error]

\* Mutant: no return after an error; the rows, none, and their end are sent too.
ResponsesAfterError(req, kind, result, rows) ==
    IF kind # "SELECT" THEN <<Response(req, kind, result # "ok")>>
    ELSE <<Response(req, "SELECT", result # "ok")>>
         \o [i \in 1 .. rows |-> Response(req, "BATCH", FALSE)]
         \o <<Response(req, "BATCH_END", FALSE)>>

Responses(req, kind, result, rows) ==
    IF result # "ok" THEN <<Response(req, "INSERT", TRUE)>>
    ELSE IF kind # "SELECT" THEN <<Response(req, kind, FALSE)>>
    ELSE <<Response(req, "SELECT", FALSE)>>
         \o [i \in 1 .. rows |-> Response(req, "BATCH", FALSE)]
         \o <<Response(req, "BATCH_END", FALSE)>>

\* Mutant: the mutex is not held while the answer is sent.
HandleThenUnlock(c) ==
    /\ pc[c] = "handle"
    /\ \E result \in {"ok", "refused", "failed"}, rows \in 0 .. MaxRows :
          /\ request[c].case = "TABLE_LIST" => result = "ok"
          /\ ~ (request[c].case = "SELECT" /\ result = "ok") => rows = 0
          /\ todo' = [todo EXCEPT
                ![c] = Responses(request[c].req, request[c].case, result, rows)]
          /\ err' = [err EXCEPT ![c] = result = "failed"]
          /\ handled' = [handled EXCEPT ![c] =
                Answer(request[c].req,
                       IF result # "ok" THEN "error"
                       ELSE IF request[c].case = "SELECT" THEN "rows" ELSE "OK", rows)]
    /\ pc' = [pc EXCEPT ![c] = "send"] /\ lock' = {}
    /\ UNCHANGED <<client, up, down, request, sent>>

Handle(c) ==
    /\ pc[c] = "handle"
    /\ \E result \in {"ok", "refused", "failed"}, rows \in 0 .. MaxRows :
          /\ request[c].case = "TABLE_LIST" => result = "ok"
          /\ ~ (request[c].case = "SELECT" /\ result = "ok") => rows = 0
          /\ todo' = [todo EXCEPT
                ![c] = Responses(request[c].req, request[c].case, result, rows)]
          /\ err' = [err EXCEPT ![c] = result = "failed"]
          /\ handled' = [handled EXCEPT ![c] =
                Answer(request[c].req,
                       IF result # "ok" THEN "error"
                       ELSE IF request[c].case = "SELECT" THEN "rows" ELSE "OK", rows)]
    /\ pc' = [pc EXCEPT ![c] = "send"]
    /\ UNCHANGED <<client, up, down, request, sent, lock>>

\* sendMessage waits while the client does not read.
SendResponse(c) ==
    /\ pc[c] = "send" /\ todo[c] # <<>> /\ mode[c] # "gone"
    /\ Len(down[c]) < Buffer
    /\ down' = [down EXCEPT ![c] = Append(@, CellsOf(Head(todo[c]))[sent[c] + 1])]
    /\ IF sent[c] = Cells
       THEN sent' = [sent EXCEPT ![c] = 0] /\ todo' = [todo EXCEPT ![c] = Tail(@)]
       ELSE sent' = [sent EXCEPT ![c] = @ + 1] /\ UNCHANGED todo
    /\ UNCHANGED <<client, up, pc, request, err, handled, lock>>

\* Mutant: the rows are tried again.
SendResponseRetries(c) ==
    /\ pc[c] = "send" /\ todo[c] # <<>> /\ mode[c] = "gone"
    /\ sent' = [sent EXCEPT ![c] = 0]
    /\ IF Head(todo[c]).case = "BATCH" THEN UNCHANGED <<todo, err>>
       ELSE /\ todo' = [todo EXCEPT ![c] = Tail(@)]
            /\ err' = [err EXCEPT ![c] = TRUE]
    /\ UNCHANGED <<client, up, down, pc, request, handled, lock>>

\* Whoever sends rows stops, and sends the end of the rows all the same.  Whether that
\* is sent, or the error that answers a SELECT, is not looked at.
SendResponseFails(c) ==
    /\ pc[c] = "send" /\ todo[c] # <<>> /\ mode[c] = "gone"
    /\ sent' = [sent EXCEPT ![c] = 0]
    /\ todo' = [todo EXCEPT
          ![c] = IF Head(@).case = "BATCH" THEN <<@[Len(@)]>> ELSE Tail(@)]
    /\ err' = [err EXCEPT
          ![c] = \/ @
                 \/ /\ Head(todo[c]).case # "BATCH_END"
                    /\ ~ (request[c].case = "SELECT" /\ Head(todo[c]).error)]
    /\ UNCHANGED <<client, up, down, pc, request, handled, lock>>

\* Mutant: when the answer could not be sent, the mutex is kept.
UnlockUnlessFailed(c) ==
    /\ pc[c] = "send" /\ todo[c] = <<>>
    /\ lock' = IF err[c] THEN lock ELSE {}
    /\ IF err[c]
       THEN pc' = [pc EXCEPT ![c] = "closed"] /\ Closed(c)
       ELSE pc' = [pc EXCEPT ![c] = "head"] /\ UNCHANGED <<up, down>>
    /\ UNCHANGED <<client, request, todo, sent, err, handled>>

Unlock(c) ==
    /\ pc[c] = "send" /\ todo[c] = <<>>
    /\ lock' = {}
    /\ IF err[c]
       THEN pc' = [pc EXCEPT ![c] = "closed"] /\ Closed(c)
       ELSE pc' = [pc EXCEPT ![c] = "head"] /\ UNCHANGED <<up, down>>
    /\ UNCHANGED <<client, request, todo, sent, err, handled>>

\* A WHERE raises while rows are sent: no TRY is left, and the process exits.
Exit(c) ==
    /\ pc[c] = "send" /\ sent[c] = 0 /\ todo[c] # <<>> /\ Head(todo[c]).case = "BATCH"
    /\ pc' = [d \in Clients |-> "closed"]
    /\ up' = [d \in Clients |-> <<>>]
    /\ UNCHANGED <<client, down, request, todo, sent, err, handled, lock>>

-----------------------------------------------------------------------------
User(c) == Ask(c) \/ Quit(c)
Receive(c) == ReceiveSize(c) \/ ReceiveBytes(c) \/ ReceiveEnd(c)
ClientStep(c) == SendRequest(c) \/ SendRequestFails(c) \/ Receive(c)
ThreadStep(c) ==
    \/ HandleSize(c) \/ HandleBytes(c) \/ HandleEnd(c) \/ Lock(c) \/ Handle(c)
    \/ SendResponse(c) \/ SendResponseFails(c) \/ Unlock(c)
Next ==
    \E c \in Clients : User(c) \/ ClientStep(c) \/ Die(c) \/ ThreadStep(c) \/ Exit(c)

Spec == Init /\ [][Next]_vars
\* Threads and clients run on, and so do users: one who stays at the prompt while
\* rows for the statement before are on their way keeps the mutex of the database.
FairSpec ==
    /\ Spec
    /\ \A c \in Clients : WF_vars(User(c) \/ ClientStep(c)) /\ WF_vars(ThreadStep(c))

-----------------------------------------------------------------------------
(***************************************************************************)
(* Properties                                                              *)
(***************************************************************************)

\* Requests and answers carry no number.  Still what a client tells its user of a
\* request is what the server did with that one, rows in full, and it tells of no
\* answer only when its connection has ended - until a message has come to it in
\* pieces: the request functions then go on with the rest of it in the stream, and
\* answers are taken for those of later requests.
InStep ==
    \A c \in Clients :
       CASE torn[c] \/ shown[c] = NoMessage -> TRUE
         [] shown[c] = NoAnswer /\ ~ torn[c] -> pc[c] = "closed"
         [] OTHER -> shown[c] = handled[c] /\ shown[c].req = asked[c].req

\* Also when requests come in pieces, when clients are out of step, and when they die,
\* requests are handled in order, none twice, none after one that was not, and one
\* at a time.
HandledInOrder ==
    [][\A c \in Clients : handled'[c] # handled[c] =>
          /\ handled'[c].req = handled[c].req + 1
          /\ \A d \in Clients : pc[d] # "send"]_vars

\* A client that is in step is told of each request, however many rows other clients
\* are being sent and however those go.
Answered ==
    \A c \in Clients :
       mode[c] \in {"sending", "answer", "rows"} ~> mode[c] \in {"prompt", "gone"} \/ torn[c]

\* The thread of a client that has gone comes to its end, wherever it was.
Released == \A c \in Clients : mode[c] = "gone" ~> pc[c] = "closed"
===============================================================================
