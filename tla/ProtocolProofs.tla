---------------------------- MODULE ProtocolProofs ----------------------------
(***************************************************************************)
(* Proofs about Protocol: a client none of whose messages has come in      *)
(* pieces is told what the server did with its request, and requests are   *)
(* handled in order and one at a time, for every set of clients, number of *)
(* requests and rows, number of pieces of a message and size of a stream.  *)
(***************************************************************************)
EXTENDS Protocol, SequenceTheorems, TLAPS

\* What is in the streams, and what a client may be told.
Kinds == {"TABLE_LIST", "INSERT", "SELECT"}
Message == [req : Nat \ {0}, case : Kinds]
Reply == [req : Nat \ {0}, case : Kinds \cup {"BATCH", "BATCH_END"}, error : BOOLEAN]
Told == [req : Nat \ {0}, text : {"error", "OK", "rows"}, rows : Nat]
Active == {"sending", "answer", "rows"}

TypeOK ==
    /\ mode \in [Clients -> Active \cup {"prompt", "gone"}]
    /\ asked \in [Clients -> Message \cup {NoMessage}]
    /\ left \in [Clients -> Seq([m : Message, part : 0 .. Cells])]
    /\ rcv \in [Clients -> Reply \cup {NoMessage, Garbage}]
    /\ count \in [Clients -> Nat]
    /\ shown \in [Clients -> Told \cup {NoMessage, NoAnswer}]
    /\ torn \in [Clients -> BOOLEAN]
    /\ up \in [Clients -> Seq([m : Message, part : 0 .. Cells])]
    /\ down \in [Clients -> Seq([m : Reply, part : 0 .. Cells])]
    /\ pc \in [Clients -> {"head", "body", "lock", "handle", "send", "closed"}]
    /\ request \in [Clients -> Message \cup {NoMessage}]
    /\ todo \in [Clients -> Seq(Reply)]
    /\ sent \in [Clients -> 0 .. Cells]
    /\ err \in [Clients -> BOOLEAN]
    /\ handled \in [Clients -> Told \cup {NoMessage}]
    /\ lock \in SUBSET Clients

\* A thread that handles a request or answers it is the only one that does.
Mutex == \A c \in Clients : pc[c] \in {"handle", "send"} => lock = {c}

\* Of a stream whose messages are numbered from 0: the place of the size of message n.
\* Requests are numbered from 1, and the responses to one request from 0.
At(n) == n * (Cells + 1)

\* What is left of a request is its last cells.
Unsent(c) ==
    /\ mode[c] = "sending" <=> left[c] # <<>>
    /\ mode[c] \in Active => asked[c] # NoMessage
    /\ Len(left[c]) <= Cells + 1
    /\ \A i \in 1 .. Len(left[c]) :
          left[c][i] = [m |-> asked[c], part |-> Cells - Len(left[c]) + i]

\* The place in the stream to the server before what the thread reads next: it has taken
\* the requests before, and of the one after those it has handled the part its pc says.
Base(c) ==
    CASE pc[c] = "body" -> At(handled[c].req + 1)
      [] pc[c] \in {"lock", "handle"} -> At(handled[c].req + 2) - 1
      [] OTHER -> At(handled[c].req + 1) - 1

\* The stream to the server, and what the client is still to send, have each cell of each
\* request in its place, up to the end of the request asked last.
Arriving(c) ==
    pc[c] # "closed" =>
       /\ \A i \in 1 .. Len(up[c]) : At(up[c][i].m.req) + up[c][i].part = Base(c) + i
       /\ mode[c] # "gone" => Base(c) + Len(up[c]) + Len(left[c]) = At(asked[c].req + 1) - 1
       /\ pc[c] \in {"body", "lock", "handle"} => request[c].req = handled[c].req + 1

\* A request with the number of the last one is that one.
UpTo(m, last) == m.req <= last.req /\ (m.req = last.req => m = last)

\* The server knows nothing a client has not asked, and handles nothing before it is sent.
Known(c) ==
    /\ UpTo(request[c], asked[c])
    /\ \A i \in 1 .. Len(up[c]) : UpTo(up[c][i].m, asked[c])
    /\ handled[c].req <= asked[c].req
    /\ mode[c] = "sending" => handled[c].req < asked[c].req

\* Between two answers a thread is between two responses.
Whole(c) ==
    (pc[c] \in {"head", "body", "lock", "handle"} \/ (pc[c] = "send" /\ todo[c] = <<>>))
       => sent[c] = 0

\* The responses to the request handled last: how many, which one is the j-th, and how
\* many the client has taken in whole.  Got: the place in them of what it reads next.
Replies(c) == IF handled[c].text = "rows" THEN handled[c].rows + 2 ELSE 1
ReplyTo(c, j) ==
    [req |-> asked[c].req,
     case |-> CASE handled[c].text = "error" -> "INSERT"
                [] handled[c].text # "error" /\ j = 1 -> asked[c].case
                [] handled[c].text # "error" /\ j = Replies(c) /\ j # 1 -> "BATCH_END"
                [] OTHER -> "BATCH",
     error |-> handled[c].text = "error"]
Taken(c) == IF mode[c] = "rows" THEN count[c] + 1 ELSE 0
Got(c) == At(Taken(c)) + IF rcv[c] = NoMessage THEN 0 ELSE 1

\* The server has handled the request of this client, and in a way its kind allows.
Settled(c) ==
    /\ handled[c].req = asked[c].req
    /\ CASE handled[c].text = "rows" -> asked[c].case = "SELECT"
         [] handled[c].text = "OK" -> asked[c].case # "SELECT" /\ handled[c].rows = 0
         [] OTHER -> handled[c].rows = 0

\* Nothing is on its way to the client, nor will be for the request handled last.
Quiet(c) ==
    rcv[c] = NoMessage /\ down[c] = <<>> /\ (pc[c] = "send" => todo[c] = <<>>)

\* The client awaits the answer to a request that is not handled yet, or never will be.
Waiting(c) ==
    /\ Quiet(c)
    /\ mode[c] # "rows" /\ count[c] = 0
    /\ handled[c].req < asked[c].req
    /\ pc[c] # "closed" => handled[c].req = asked[c].req - 1

\* The client, the stream to it and the thread have the responses to its request between
\* them, each cell in its place: those it has taken, those that are on their way, those
\* that are to be sent.
Answering(c) ==
    /\ Settled(c)
    /\ mode[c] = "rows" => handled[c].text = "rows"
    /\ mode[c] = "answer" => count[c] = 0
    /\ Taken(c) < Replies(c)
    /\ rcv[c] # NoMessage => rcv[c] = ReplyTo(c, Taken(c) + 1)
    /\ \A i \in 1 .. Len(down[c]) : \E j \in 1 .. Replies(c) :
          /\ down[c][i].m = ReplyTo(c, j)
          /\ At(j - 1) + down[c][i].part = Got(c) + i - 1
    /\ pc[c] = "send" =>
          /\ Len(todo[c]) <= Replies(c)
          /\ \A i \in 1 .. Len(todo[c]) : todo[c][i] = ReplyTo(c, Replies(c) - Len(todo[c]) + i)
          /\ Got(c) + Len(down[c]) = At(Replies(c) - Len(todo[c])) + sent[c]

\* What the user is told.
ToldTrue(c) ==
    /\ shown[c] # NoMessage => mode[c] \in {"prompt", "gone"}
    /\ shown[c] = NoAnswer => pc[c] = "closed"
    /\ shown[c] \in Told => shown[c] = handled[c] /\ handled[c].req = asked[c].req

\* Client and server are in step until a message has come to the client in pieces.
Synchronous(c) ==
    ~ torn[c] =>
       /\ mode[c] = "prompt" =>
             /\ Quiet(c) /\ count[c] = 0
             /\ pc[c] # "closed" => handled[c].req = asked[c].req
       /\ mode[c] = "sending" => Waiting(c)
       /\ mode[c] = "answer" => Waiting(c) \/ Answering(c)
       /\ mode[c] = "rows" => Answering(c)
       /\ ToldTrue(c)

\* The inductive invariant; the model checker finds it true in the runs' instances.
Client(c) == Unsent(c) /\ Arriving(c) /\ Known(c) /\ Whole(c) /\ Synchronous(c)
IInv == TypeOK /\ Mutex /\ \A c \in Clients : Client(c)

\* A step of one client or its thread leaves what is another's as it is.
Same(d) ==
    /\ mode'[d] = mode[d] /\ asked'[d] = asked[d] /\ left'[d] = left[d] /\ rcv'[d] = rcv[d]
    /\ count'[d] = count[d] /\ shown'[d] = shown[d] /\ torn'[d] = torn[d]
    /\ up'[d] = up[d] /\ down'[d] = down[d]
    /\ pc'[d] = pc[d] /\ request'[d] = request[d] /\ todo'[d] = todo[d]
    /\ sent'[d] = sent[d] /\ handled'[d] = handled[d]

\* What the operators on sequences return.
LEMMA SingleOf ==
  ASSUME NEW S, NEW e \in S
  PROVE  <<e>> \in Seq(S) /\ Len(<<e>>) = 1 /\ <<e>>[1] = e
  OBVIOUS

LEMMA RepeatOf ==
  ASSUME NEW S, NEW e \in S, NEW n \in Nat
  PROVE  /\ [i \in 1 .. n |-> e] \in Seq(S) /\ Len([i \in 1 .. n |-> e]) = n
         /\ \A i \in 1 .. n : [j \in 1 .. n |-> e][i] = e
  OBVIOUS

LEMMA TailOf ==
  ASSUME NEW S, NEW s \in Seq(S), s # <<>>
  PROVE  /\ Tail(s) \in Seq(S) /\ Len(s) \in Nat /\ Len(s) >= 1
         /\ Len(Tail(s)) = Len(s) - 1
         /\ \A i \in 1 .. Len(s) - 1 : Tail(s)[i] = s[i + 1]
         /\ Tail(s) = <<>> <=> Len(s) = 1
         /\ Head(s) = s[1] /\ Head(s) \in S
<1>1. Len(s) \in Nat /\ Len(s) # 0
  BY EmptySeq
<1>2. /\ Head(s) = s[1] /\ Head(s) \in S /\ Tail(s) \in Seq(S) /\ Len(Tail(s)) = Len(s) - 1
      /\ \A i \in 1 .. Len(s) - 1 : Tail(s)[i] = s[i + 1]
  BY HeadTailProperties
<1>3. Tail(s) = <<>> <=> Len(Tail(s)) = 0
  BY <1>2, EmptySeq
<1> QED
  BY <1>1, <1>2, <1>3

LEMMA AppendOf ==
  ASSUME NEW S, NEW s \in Seq(S), NEW e \in S
  PROVE  /\ Append(s, e) \in Seq(S) /\ Len(s) \in Nat
         /\ Len(Append(s, e)) = Len(s) + 1
         /\ \A i \in 1 .. Len(s) : Append(s, e)[i] = s[i]
         /\ Append(s, e)[Len(s) + 1] = e
  BY AppendProperties

LEMMA DropOf ==
  ASSUME NEW S, NEW s \in Seq(S), NEW n \in 0 .. Len(s)
  PROVE  /\ SubSeq(s, n + 1, Len(s)) \in Seq(S)
         /\ Len(SubSeq(s, n + 1, Len(s))) = Len(s) - n
         /\ \A i \in 1 .. Len(s) - n : SubSeq(s, n + 1, Len(s))[i] = s[n + i]
<1>1. Len(s) \in Nat /\ \A i \in n + 1 .. Len(s) : s[i] \in S
  BY ElementOfSeq
<1>2. n + 1 \in Int /\ Len(s) \in Int
  BY <1>1
<1>3. /\ SubSeq(s, n + 1, Len(s)) \in Seq(S)
      /\ Len(SubSeq(s, n + 1, Len(s)))
          = IF n + 1 <= Len(s) THEN Len(s) - (n + 1) + 1 ELSE 0
      /\ \A i \in 1 .. Len(s) - (n + 1) + 1 : SubSeq(s, n + 1, Len(s))[i] = s[n + 1 + i - 1]
  BY <1>1, <1>2, SubSeqProperties
<1>4. Len(SubSeq(s, n + 1, Len(s))) = Len(s) - n
  BY <1>1, <1>3
<1>5. \A i \in 1 .. Len(s) - n : i \in 1 .. Len(s) - (n + 1) + 1 /\ n + 1 + i - 1 = n + i
  BY <1>1
<1> QED
  BY <1>3, <1>4, <1>5

\* Places in a stream: a message has Cells + 1 of them, and a place is in one message.
LEMMA AtNat == \A n \in Int : At(n) \in Int /\ At(n + 1) = At(n) + Cells + 1 /\ At(n-1) = At(n) - Cells - 1
  BY ProtocolAssumption DEF At

LEMMA AtZero == At(0) = 0
  BY ProtocolAssumption DEF At

LEMMA AtOrder == \A m, n \in Int : m < n => At(m) + Cells + 1 <= At(n)
<1> SUFFICES ASSUME NEW m \in Int, NEW n \in Int, m < n PROVE At(m) + Cells + 1 <= At(n)
  OBVIOUS
<1>1. At(n) - At(m) = (n - m) * (Cells + 1)
  BY ProtocolAssumption DEF At
<1>2. \A i \in Nat, k \in Nat : i >= 1 => i * k >= k
  OBVIOUS
<1>3. (n - m) * (Cells + 1) >= Cells + 1
  BY <1>2, ProtocolAssumption
<1> QED
  BY <1>1, <1>3, ProtocolAssumption, AtNat

LEMMA NoRoom ==
  ASSUME NEW a \in Int, NEW b \in Int, NEW n \in Int, NEW x \in Int, NEW l \in Nat,
         a + n + 1 <= b, x <= n, b + l = a + x
  PROVE  FALSE
  OBVIOUS

LEMMA AtUnique ==
  ASSUME NEW m \in Int, NEW n \in Int, NEW x \in 0 .. Cells, NEW y \in 0 .. Cells,
         At(m) + x = At(n) + y
  PROVE  m = n /\ x = y
<1>1. At(m) \in Int /\ At(n) \in Int /\ Cells \in Nat /\ x \in Nat /\ y \in Nat
  BY AtNat, ProtocolAssumption
<1>2. ~ m < n
  BY <1>1, AtOrder
<1>3. ~ n < m
  BY <1>1, AtOrder
<1>4. m = n
  BY <1>2, <1>3
<1>5. x = y
  BY <1>1, <1>4
<1> QED
  BY <1>4, <1>5

\* The records of the model are told apart by their fields.
LEMMA Records ==
  /\ NoMessage.req = 0 /\ Garbage.req = -1
  /\ \A m \in Message : m.req \in Nat /\ m.req > 0 /\ m.case \in Kinds /\ m # NoMessage
  /\ \A m \in Reply : m.req \in Nat /\ m.req > 0 /\ m # NoMessage /\ m # Garbage
  /\ \A m \in Told : m.req \in Nat /\ m.req > 0 /\ m # NoMessage
  BY DEF NoMessage, Garbage, Message, Reply, Told

LEMMA NoAnswerNotTold == NoAnswer \notin Told /\ NoAnswer # NoMessage
  BY DEF NoMessage, NoAnswer, Told

\* The type invariant, for one client.
LEMMA Types ==
  ASSUME TypeOK, NEW c \in Clients
  PROVE  /\ asked[c].req \in Nat /\ request[c].req \in Nat /\ handled[c].req \in Nat
         /\ asked[c].req = 0 <=> asked[c] = NoMessage
         /\ request[c] # NoMessage => request[c] \in Message
         /\ asked[c] # NoMessage => asked[c] \in Message
         /\ count[c] \in Nat /\ sent[c] \in 0 .. Cells
         /\ left[c] \in Seq([m : Message, part : 0 .. Cells]) /\ Len(left[c]) \in Nat
         /\ up[c] \in Seq([m : Message, part : 0 .. Cells]) /\ Len(up[c]) \in Nat
         /\ \A i \in 1 .. Len(up[c]) :
               up[c][i].m \in Message /\ up[c][i].m.req \in Nat /\ up[c][i].part \in 0 .. Cells
         /\ down[c] \in Seq([m : Reply, part : 0 .. Cells]) /\ Len(down[c]) \in Nat
         /\ \A i \in 1 .. Len(down[c]) :
               down[c][i].m \in Reply /\ down[c][i].part \in 0 .. Cells
         /\ todo[c] \in Seq(Reply) /\ Len(todo[c]) \in Nat
         /\ shown[c] # NoMessage => shown[c] = NoAnswer \/ shown[c] \in Told
<1>1. /\ asked[c] \in Message \cup {NoMessage} /\ request[c] \in Message \cup {NoMessage}
      /\ handled[c] \in Told \cup {NoMessage} /\ shown[c] \in Told \cup {NoMessage, NoAnswer}
  BY DEF TypeOK
<1>2. /\ left[c] \in Seq([m : Message, part : 0 .. Cells])
      /\ up[c] \in Seq([m : Message, part : 0 .. Cells])
      /\ down[c] \in Seq([m : Reply, part : 0 .. Cells])
      /\ todo[c] \in Seq(Reply) /\ count[c] \in Nat /\ sent[c] \in 0 .. Cells
  BY DEF TypeOK
<1>3. \A S, s : s \in Seq(S) => Len(s) \in Nat /\ \A i \in 1 .. Len(s) : s[i] \in S
  BY ElementOfSeq
<1>4. \A i \in 1 .. Len(up[c]) : up[c][i] \in [m : Message, part : 0 .. Cells]
  BY <1>2, <1>3, Zenon
<1>5. \A i \in 1 .. Len(down[c]) : down[c][i] \in [m : Reply, part : 0 .. Cells]
  BY <1>2, <1>3, Zenon
<1>6. \A i \in 1 .. Len(up[c]) :
         up[c][i].m \in Message /\ up[c][i].m.req \in Nat /\ up[c][i].part \in 0 .. Cells
  BY <1>4, Records
<1>7. \A i \in 1 .. Len(down[c]) : down[c][i].m \in Reply /\ down[c][i].part \in 0 .. Cells
  BY <1>5
<1>8. /\ asked[c].req \in Nat /\ request[c].req \in Nat /\ handled[c].req \in Nat
      /\ asked[c].req = 0 <=> asked[c] = NoMessage
  BY <1>1, Records
<1>9. /\ request[c] # NoMessage => request[c] \in Message
      /\ asked[c] # NoMessage => asked[c] \in Message
      /\ shown[c] # NoMessage => shown[c] = NoAnswer \/ shown[c] \in Told
  BY <1>1
<1>10. Len(left[c]) \in Nat /\ Len(up[c]) \in Nat /\ Len(down[c]) \in Nat /\ Len(todo[c]) \in Nat
  BY <1>2
<1> QED
  BY <1>2, <1>6, <1>7, <1>8, <1>9, <1>10

\* How many responses a handler sends, and which.
Many(kind, result, rows) == IF result = "ok" /\ kind = "SELECT" THEN rows + 2 ELSE 1

Rightly(all, n, req, kind, result) ==
    /\ all \in Seq(Reply) /\ Len(all) = n /\ n \in Nat /\ n >= 1
    /\ result # "ok" => all[1] = Response(req, "INSERT", TRUE)
    /\ result = "ok" => all[1] = Response(req, kind, FALSE)
    /\ \A i \in 2 .. n : /\ i # n => all[i] = Response(req, "BATCH", FALSE)
                         /\ i = n => all[i] = Response(req, "BATCH_END", FALSE)

\* A handler answers with one response, or with the first, a batch for each row and the
\* end of the batches.
LEMMA ResponsesOf ==
  ASSUME NEW req \in Nat, req > 0, NEW kind \in Kinds,
         NEW result \in {"ok", "refused", "failed"}, NEW rows \in Nat
  PROVE  Rightly(Responses(req, kind, result, rows), Many(kind, result, rows), req, kind, result)
<1> DEFINE all == Responses(req, kind, result, rows)
           n == Many(kind, result, rows)
<1> SUFFICES Rightly(all, n, req, kind, result)
  OBVIOUS
<1>1. /\ \A case \in Kinds \cup {"BATCH", "BATCH_END"}, error \in BOOLEAN :
            Response(req, case, error) \in Reply
      /\ kind \in Kinds \cup {"BATCH", "BATCH_END"} /\ "SELECT" \in Kinds /\ "INSERT" \in Kinds
  BY DEF Response, Reply, Kinds
<1>2. CASE result # "ok"
  <2>1. all = <<Response(req, "INSERT", TRUE)>>
    BY <1>2 DEF Responses
  <2>2. Response(req, "INSERT", TRUE) \in Reply
    BY <1>1
  <2>3. all \in Seq(Reply) /\ Len(all) = 1 /\ all[1] = Response(req, "INSERT", TRUE)
    BY <2>1, <2>2, SingleOf
  <2>4. n = 1 /\ n \in Nat /\ n >= 1
    BY <1>2 DEF Many
  <2>5. \A i \in 2 .. n : FALSE
    BY <2>4
  <2> QED
    BY <1>2, <2>3, <2>4, <2>5, Zenon DEF Rightly
<1>3. CASE result = "ok" /\ kind # "SELECT"
  <2>1. all = <<Response(req, kind, FALSE)>>
    BY <1>3 DEF Responses
  <2>2. Response(req, kind, FALSE) \in Reply
    BY <1>1
  <2>3. all \in Seq(Reply) /\ Len(all) = 1 /\ all[1] = Response(req, kind, FALSE)
    BY <2>1, <2>2, SingleOf
  <2>4. n = 1 /\ n \in Nat /\ n >= 1
    BY <1>3 DEF Many
  <2>5. \A i \in 2 .. n : FALSE
    BY <2>4
  <2> QED
    BY <1>3, <2>3, <2>4, <2>5, Zenon DEF Rightly
<1>4. CASE result = "ok" /\ kind = "SELECT"
  <2> DEFINE first == <<Response(req, "SELECT", FALSE)>>
             batches == [i \in 1 .. rows |-> Response(req, "BATCH", FALSE)]
             last == <<Response(req, "BATCH_END", FALSE)>>
  <2>1. all = (first \o batches) \o last
    BY <1>4 DEF Responses
  <2>2. /\ Response(req, "SELECT", FALSE) \in Reply /\ Response(req, "BATCH", FALSE) \in Reply
        /\ Response(req, "BATCH_END", FALSE) \in Reply
    BY <1>1
  <2>3. first \in Seq(Reply) /\ Len(first) = 1 /\ first[1] = Response(req, "SELECT", FALSE)
    BY <2>2, SingleOf
  <2>4. /\ batches \in Seq(Reply) /\ Len(batches) = rows
        /\ \A i \in 1 .. rows : batches[i] = Response(req, "BATCH", FALSE)
    BY <2>2, RepeatOf
  <2>5. last \in Seq(Reply) /\ Len(last) = 1 /\ last[1] = Response(req, "BATCH_END", FALSE)
    BY <2>2, SingleOf
  <2> HIDE DEF first, batches, last
  <2>6. /\ first \o batches \in Seq(Reply) /\ Len(first \o batches) = 1 + rows
        /\ \A i \in 1 .. 1 + rows : (first \o batches)[i] = IF i <= 1 THEN first[i] ELSE batches[i - 1]
    <3>1. /\ first \o batches \in Seq(Reply) /\ Len(first \o batches) = Len(first) + Len(batches)
          /\ \A i \in 1 .. Len(first) + Len(batches) : (first \o batches)[i] =
                IF i <= Len(first) THEN first[i] ELSE batches[i - Len(first)]
      BY <2>3, <2>4, ConcatProperties
    <3>2. Len(first) + Len(batches) = 1 + rows /\ Len(first) = 1
      BY <2>3, <2>4
    <3> QED
      BY <3>1, <3>2
  <2>7. /\ all \in Seq(Reply) /\ Len(all) = Len(first \o batches) + Len(last)
        /\ \A i \in 1 .. Len(first \o batches) + Len(last) :
              all[i] = IF i <= Len(first \o batches) THEN (first \o batches)[i]
                       ELSE last[i - Len(first \o batches)]
    <3>1. first \o batches \in Seq(Reply) /\ last \in Seq(Reply)
      BY <2>5, <2>6
    <3> QED
      BY <2>1, <3>1, ConcatProperties
  <2>8. /\ Len(all) = rows + 2
        /\ \A i \in 1 .. rows + 1 : all[i] = (first \o batches)[i]
        /\ all[rows + 2] = last[1]
    <3>1. Len(first \o batches) = 1 + rows /\ Len(last) = 1
      BY <2>5, <2>6
    <3>2. \A i \in 1 .. rows + 2 :
             all[i] = IF i <= 1 + rows THEN (first \o batches)[i] ELSE last[i - (1 + rows)]
      BY <2>7, <3>1
    <3>3. rows + 2 \in 1 .. rows + 2 /\ ~ rows + 2 <= 1 + rows /\ rows + 2 - (1 + rows) = 1
      OBVIOUS
    <3>4. all[rows + 2] = last[1]
      BY <3>2, <3>3
    <3> QED
      BY <2>7, <3>1, <3>2, <3>4
  <2>9. all[1] = Response(req, kind, FALSE)
    <3>1. 1 \in 1 .. rows + 1 /\ 1 \in 1 .. 1 + rows /\ 1 <= 1
      OBVIOUS
    <3>2. all[1] = first[1]
      BY <2>6, <2>8, <3>1
    <3> QED
      BY <1>4, <2>3, <3>2
  <2>10. \A i \in 2 .. rows + 2 :
            /\ i # rows + 2 => all[i] = Response(req, "BATCH", FALSE)
            /\ i = rows + 2 => all[i] = Response(req, "BATCH_END", FALSE)
    <3>1. ASSUME NEW i \in 2 .. rows + 2, i # rows + 2
          PROVE  all[i] = Response(req, "BATCH", FALSE)
      <4>1. i \in 1 .. rows + 1 /\ i \in 1 .. 1 + rows /\ ~ i <= 1 /\ i - 1 \in 1 .. rows
        BY <3>1
      <4> QED
        BY <2>4, <2>6, <2>8, <4>1
    <3> QED
      BY <2>5, <2>8, <3>1
  <2>11. n = rows + 2
    BY <1>4 DEF Many
  <2>12. Len(all) = n /\ n \in Nat /\ n >= 1
    BY <2>8, <2>11
  <2>13. \A i \in 2 .. n : /\ i # n => all[i] = Response(req, "BATCH", FALSE)
                           /\ i = n => all[i] = Response(req, "BATCH_END", FALSE)
    BY <2>10, <2>11, Zenon
  <2> QED
    BY <1>4, <2>7, <2>9, <2>12, <2>13 DEF Rightly
<1> QED
  BY <1>2, <1>3, <1>4

\* Numbers the proofs calculate with.
LEMMA BaseInt == ASSUME TypeOK, NEW c \in Clients PROVE Base(c) \in Int
<1>1. handled[c].req \in Nat
  BY Types
<1>2. At(handled[c].req + 1) \in Int /\ At(handled[c].req + 2) \in Int
  BY <1>1, AtNat
<1> QED
  BY <1>2 DEF Base

LEMMA Numbers ==
  ASSUME TypeOK, NEW c \in Clients
  PROVE  /\ Base(c) \in Int /\ At(asked[c].req + 1) \in Int
         /\ At(asked[c].req) \in Int /\ At(asked[c].req + 1) = At(asked[c].req) + Cells + 1
         /\ At(handled[c].req + 1) \in Int
         /\ At(handled[c].req + 2) = At(handled[c].req + 1) + Cells + 1
         /\ Cells \in Nat /\ Cells >= 1
         /\ Len(up[c]) \in Nat /\ Len(left[c]) \in Nat
<1>1. asked[c].req + 1 \in Int
  BY Types
<1>2. Len(up[c]) \in Nat /\ Len(left[c]) \in Nat
  BY Types
<1>3. Cells \in Nat /\ Cells >= 1
  BY ProtocolAssumption
<1>4. At(asked[c].req + 1) \in Int
  BY <1>1, AtNat
<1>5. asked[c].req \in Int
  BY Types
<1>6. At(asked[c].req) \in Int /\ At(asked[c].req + 1) = At(asked[c].req) + Cells + 1
  BY <1>5, AtNat
<1>7. At(handled[c].req + 1) \in Int /\ At(handled[c].req + 2) = At(handled[c].req + 1) + Cells + 1
  <2>1. handled[c].req + 1 \in Int /\ handled[c].req + 2 = (handled[c].req + 1) + 1
    BY Types
  <2> QED
    BY <2>1, AtNat
<1> QED
  BY <1>2, <1>3, <1>4, <1>6, <1>7, BaseInt

\* What was known before a request is asked is known after.
LEMMA UpToNext ==
  ASSUME NEW m, NEW a, NEW b, m.req \in Nat, a.req \in Nat, UpTo(m, a), b.req = a.req + 1
  PROVE  UpTo(m, b)
  BY DEF UpTo

\* What holds of a client holds as long as nobody touches it.
LEMMA Frame ==
  ASSUME NEW d \in Clients, Client(d), Same(d)
  PROVE  Client(d)'
<1>1. Unsent(d)'
  BY DEF Client, Same, Unsent
<1>2. Arriving(d)'
  BY DEF Client, Same, Arriving, Base
<1>3. Known(d)'
  BY DEF Client, Same, Known
<1>4. Whole(d)'
  BY DEF Client, Same, Whole
<1>5. Quiet(d)' = Quiet(d)
  BY DEF Same, Quiet
<1>6. Waiting(d)' = Waiting(d)
  BY <1>5 DEF Same, Waiting
<1>7. /\ Replies(d)' = Replies(d) /\ Taken(d)' = Taken(d) /\ Got(d)' = Got(d)
      /\ \A j : ReplyTo(d, j)' = ReplyTo(d, j)
  BY DEF Same, Replies, Taken, Got, ReplyTo
<1>8. Answering(d)' = Answering(d)
  BY <1>7 DEF Same, Answering, Settled
<1>9. ToldTrue(d)' = ToldTrue(d)
  BY DEF Same, ToldTrue
<1>10. Synchronous(d)'
  BY <1>5, <1>6, <1>8, <1>9 DEF Client, Same, Synchronous
<1> QED
  BY <1>1, <1>2, <1>3, <1>4, <1>10 DEF Client

\* A thread that does not answer, or goes, leaves its client in step.
LEMMA StaysInStep ==
  ASSUME NEW c \in Clients, Synchronous(c),
         mode'[c] = mode[c], asked'[c] = asked[c], rcv'[c] = rcv[c], count'[c] = count[c],
         shown'[c] = shown[c], torn'[c] = torn[c], handled'[c] = handled[c],
         pc'[c] # "send", pc'[c] # "closed" => pc[c] # "closed",
         down'[c] = down[c] \/ down'[c] = <<>>
  PROVE  Synchronous(c)'
<1>1. Quiet(c) => Quiet(c)'
  BY DEF Quiet
<1>2. Waiting(c) => Waiting(c)'
  BY <1>1 DEF Waiting
<1>3. Answering(c) => Answering(c)'
  <2>1. /\ Replies(c)' = Replies(c) /\ Taken(c)' = Taken(c) /\ Got(c)' = Got(c)
        /\ \A j : ReplyTo(c, j)' = ReplyTo(c, j)
    BY DEF Replies, Taken, Got, ReplyTo
  <2>2. CASE down'[c] = down[c]
    BY <2>1, <2>2 DEF Answering, Settled
  <2>3. CASE down'[c] = <<>>
    <3>1. Len(down'[c]) = 0
      BY <2>3
    <3> QED
      BY <2>1, <3>1 DEF Answering, Settled
  <2> QED
    BY <2>2, <2>3
<1>4. ToldTrue(c) => ToldTrue(c)'
  BY DEF ToldTrue
<1> QED
  BY <1>1, <1>2, <1>3, <1>4 DEF Synchronous

\* At first nothing is asked, sent or handled.
LEMMA InitIInv == Init => IInv
<1> SUFFICES ASSUME Init PROVE IInv
  OBVIOUS
<1>1. TypeOK
  BY ProtocolAssumption DEF Init, TypeOK
<1>2. Mutex
  BY DEF Init, Mutex
<1>3. ASSUME NEW c \in Clients PROVE Client(c)
  <2>1. Unsent(c)
    BY ProtocolAssumption DEF Init, Unsent, Active
  <2>2. Arriving(c)
    BY AtNat DEF Init, Arriving, Base, NoMessage
  <2>3. Known(c) /\ Whole(c)
    BY DEF Init, Known, Whole, NoMessage, UpTo
  <2>4. Synchronous(c)
    BY DEF Init, Synchronous, Quiet, ToldTrue, NoMessage, NoAnswer, Told
  <2> QED
    BY <2>1, <2>2, <2>3, <2>4 DEF Client
<1> QED
  BY <1>1, <1>2, <1>3 DEF IInv

-----------------------------------------------------------------------------
(***************************************************************************)
(* The steps of the client that send or leave                              *)
(***************************************************************************)
\* Of the responses a client awaits there is one at least, and none is mistaken for no message.
LEMMA AnswerTypes ==
  ASSUME TypeOK, NEW c \in Clients, Unsent(c), Answering(c), mode[c] \in {"answer", "rows"}
  PROVE  /\ asked[c] \in Message /\ handled[c] \in Told /\ Settled(c)
         /\ Replies(c) \in Nat /\ Replies(c) >= 1 /\ Taken(c) \in Nat /\ Got(c) \in Int
         /\ At(Taken(c)) \in Int
         /\ \A j \in Nat : ReplyTo(c, j).req = asked[c].req /\ ReplyTo(c, j) # NoMessage
<1>1. asked[c] \in Message /\ Settled(c)
  BY Types DEF Unsent, Active, Answering
<1>2. handled[c] \in Told
  <2>1. handled[c].req = asked[c].req /\ asked[c].req > 0 /\ asked[c].req \in Nat
    BY <1>1, Records DEF Settled
  <2>2. handled[c] \in Told \cup {NoMessage}
    BY DEF TypeOK
  <2> QED
    BY <2>1, <2>2, Records
<1>3. handled[c].rows \in Nat
  BY <1>2 DEF Told
<1>4. Replies(c) \in Nat /\ Replies(c) >= 1
  BY <1>3 DEF Replies
<1>5. Taken(c) \in Nat
  BY Types DEF Taken
<1>6. At(Taken(c)) \in Int
  BY <1>5, AtNat
<1>7. Got(c) \in Int
  BY <1>6 DEF Got
<1>8. ASSUME NEW j \in Nat PROVE ReplyTo(c, j).req = asked[c].req /\ ReplyTo(c, j) # NoMessage
  <2>1. ReplyTo(c, j).req = asked[c].req
    BY DEF ReplyTo
  <2>2. asked[c].req # 0
    BY <1>1, Records
  <2> QED
    BY <2>1, <2>2, Records
<1> QED
  BY <1>1, <1>2, <1>4, <1>5, <1>6, <1>7, <1>8

\* The user asks: the cells of a request follow those of the one before.
LEMMA AskStep ==
  ASSUME IInv, NEW c \in Clients, Ask(c)
  PROVE  IInv'
<1>1. PICK kind \in Asks[c] : asked' = [asked EXCEPT ![c] = [req |-> @.req + 1, case |-> kind]]
  BY DEF Ask
<1> DEFINE m == [req |-> asked[c].req + 1, case |-> kind]
<1>2. kind \in Kinds /\ asked[c].req \in Nat /\ m \in Message /\ m # NoMessage
  <2>1. kind \in Kinds
    BY ProtocolAssumption DEF Kinds
  <2>2. asked[c].req \in Nat
    BY Types DEF IInv
  <2>3. m \in Message
    BY <2>1, <2>2 DEF Message
  <2> QED
    BY <2>1, <2>2, <2>3, Records
<1>3. /\ mode'[c] = "sending" /\ asked'[c] = m /\ left'[c] = CellsOf(m) /\ rcv'[c] = rcv[c]
      /\ count'[c] = count[c] /\ shown'[c] = NoMessage /\ torn'[c] = torn[c]
      /\ up'[c] = up[c] /\ down'[c] = down[c]
      /\ pc'[c] = pc[c] /\ request'[c] = request[c] /\ todo'[c] = todo[c]
      /\ sent'[c] = sent[c] /\ handled'[c] = handled[c] /\ mode[c] = "prompt"
  BY <1>1 DEF Ask, IInv, TypeOK, thread
<1>4. \A d \in Clients : d # c => Same(d)
  BY <1>1 DEF Ask, IInv, TypeOK, thread, Same
<1>5. CellsOf(m) \in Seq([m : Message, part : 0 .. Cells]) /\ Len(CellsOf(m)) = Cells + 1
      /\ \A i \in 1 .. Cells + 1 : CellsOf(m)[i] = [m |-> m, part |-> i - 1]
  BY <1>2, ProtocolAssumption DEF CellsOf
<1>6. TypeOK'
  <2>1. asked' = [asked EXCEPT ![c] = m] /\ left' = [left EXCEPT ![c] = CellsOf(m)]
    BY <1>1, <1>3 DEF Ask
  <2> HIDE DEF m
  <2>2. asked' \in [Clients -> Message \cup {NoMessage}]
    BY <1>2, <2>1 DEF IInv, TypeOK
  <2>3. left' \in [Clients -> Seq([m : Message, part : 0 .. Cells])]
    BY <1>5, <2>1 DEF IInv, TypeOK
  <2>4. mode' \in [Clients -> Active \cup {"prompt", "gone"}]
    BY DEF Ask, IInv, TypeOK, Active
  <2>5. shown' \in [Clients -> Told \cup {NoMessage, NoAnswer}]
    BY DEF Ask, IInv, TypeOK
  <2> QED
    BY <2>2, <2>3, <2>4, <2>5 DEF Ask, IInv, TypeOK, thread
<1>7. Mutex'
  BY DEF Ask, thread, IInv, Mutex
<1>8. Client(c) /\ TypeOK
  BY DEF IInv
<1> HIDE DEF m
<1>9. Unsent(c)'
  <2>1. Len(CellsOf(m)) > 0 /\ CellsOf(m) # <<>>
    BY <1>5, ProtocolAssumption
  <2> QED
    BY <1>2, <1>3, <1>5, <2>1, ProtocolAssumption DEF Unsent, Active
<1>10. left[c] = <<>>
  BY <1>3, <1>8 DEF Client, Unsent
<1>11. m.req = asked[c].req + 1
  BY DEF m
<1>12. Arriving(c)'
  <2>1. Base(c)' = Base(c)
    BY <1>3 DEF Base
  <2>2. Len(left'[c]) = Cells + 1 /\ Len(left[c]) = 0 /\ asked'[c].req = asked[c].req + 1
    BY <1>3, <1>5, <1>10, <1>11
  <2>3. At(asked'[c].req + 1) = At(asked[c].req + 1) + Cells + 1
    BY <1>2, <2>2, AtNat
  <2>4. CASE pc[c] # "closed"
    <3>1. Base(c) + Len(up[c]) + 0 = At(asked[c].req + 1) - 1
      BY <1>3, <1>8, <2>2, <2>4 DEF Client, Arriving
    <3>2. Base(c) + Len(up[c]) + (Cells + 1) = At(asked[c].req + 1) + Cells + 1 - 1
      <4>1. Base(c) \in Int /\ Len(up[c]) \in Nat /\ At(asked[c].req + 1) \in Int /\ Cells \in Nat
        BY <1>8, Numbers
      <4> QED
        BY <3>1, <4>1
    <3>3. Base(c)' + Len(up'[c]) + Len(left'[c]) = At(asked'[c].req + 1) - 1
      <4>1. up'[c] = up[c]
        BY <1>3
      <4> QED
        BY <1>8, <2>1, <2>2, <2>3, <3>2, <4>1, Numbers
    <3>4. /\ \A i \in 1 .. Len(up[c]) : At(up[c][i].m.req) + up[c][i].part = Base(c) + i
          /\ pc[c] \in {"body", "lock", "handle"} => request[c].req = handled[c].req + 1
      BY <1>8, <2>4 DEF Client, Arriving
    <3> QED
      BY <1>3, <2>1, <3>3, <3>4 DEF Arriving
  <2>5. CASE pc[c] = "closed"
    BY <1>3, <2>5 DEF Arriving
  <2> QED
    BY <2>4, <2>5
<1>13. Known(c)'
  <2>1. UpTo(request[c], m) /\ \A i \in 1 .. Len(up[c]) : UpTo(up[c][i].m, m)
    BY <1>2, <1>8, <1>11, Types, UpToNext DEF Client, Known
  <2> QED
    BY <1>2, <1>3, <1>8, <1>11, <2>1, Types DEF Client, Known
<1>14. Whole(c)'
  BY <1>3, <1>8 DEF Client, Whole
<1>15. Synchronous(c)'
  BY <1>2, <1>3, <1>8, <1>11, Types, Records, NoAnswerNotTold DEF Client, Synchronous, Quiet, Waiting, Known, ToldTrue
<1> QED
  BY <1>4, <1>6, <1>7, <1>8, <1>9, <1>12, <1>13, <1>14, <1>15, Frame DEF IInv, Client

\* send() moves the first cell that is left to the end of the stream.
LEMMA SendRequestStep ==
  ASSUME IInv, NEW c \in Clients, SendRequest(c)
  PROVE  IInv'
<1>1. Client(c) /\ TypeOK
  BY DEF IInv
<1>2. /\ mode[c] = "sending" /\ left[c] # <<>> /\ asked[c] \in Message
      /\ left[c] \in Seq([m : Message, part : 0 .. Cells])
  BY <1>1, Types DEF SendRequest, Client, Unsent, Active
<1>3. /\ left'[c] = Tail(left[c])
      /\ mode'[c] = IF Len(left[c]) = 1 THEN "answer" ELSE "sending"
      /\ up'[c] = IF pc[c] # "closed" THEN Append(up[c], Head(left[c])) ELSE up[c]
      /\ asked'[c] = asked[c] /\ rcv'[c] = rcv[c] /\ count'[c] = count[c]
      /\ shown'[c] = shown[c] /\ torn'[c] = torn[c] /\ down'[c] = down[c]
      /\ pc'[c] = pc[c] /\ request'[c] = request[c] /\ todo'[c] = todo[c]
      /\ sent'[c] = sent[c] /\ handled'[c] = handled[c]
  BY <1>1, <1>2 DEF SendRequest, TypeOK, thread
<1>4. \A d \in Clients : d # c => Same(d)
  BY <1>1 DEF SendRequest, TypeOK, thread, Same
<1>5. /\ Len(left[c]) \in 1 .. Cells + 1
      /\ Head(left[c]) = [m |-> asked[c], part |-> Cells - Len(left[c]) + 1]
      /\ Head(left[c]) \in [m : Message, part : 0 .. Cells]
  <2>1. Len(left[c]) > 0 /\ Len(left[c]) \in Nat
    BY <1>2
  <2>2. Len(left[c]) <= Cells + 1
    BY <1>1 DEF Client, Unsent
  <2>3. left[c][1] = [m |-> asked[c], part |-> Cells - Len(left[c]) + 1]
    BY <1>1, <2>1 DEF Client, Unsent
  <2>4. Head(left[c]) = left[c][1] /\ Head(left[c]) \in [m : Message, part : 0 .. Cells]
    BY <1>2, TailOf
  <2> QED
    BY <2>1, <2>2, <2>3, <2>4
<1>6. /\ Len(Tail(left[c])) = Len(left[c]) - 1
      /\ \A i \in 1 .. Len(left[c]) - 1 : Tail(left[c])[i] = left[c][i + 1]
      /\ Tail(left[c]) = <<>> <=> Len(left[c]) = 1
      /\ Tail(left[c]) \in Seq([m : Message, part : 0 .. Cells])
  BY <1>2, TailOf
<1>7. TypeOK'
  <2>1. left' \in [Clients -> Seq([m : Message, part : 0 .. Cells])]
    BY <1>1, <1>3, <1>6 DEF SendRequest, TypeOK
  <2>2. up' \in [Clients -> Seq([m : Message, part : 0 .. Cells])]
    <3>1. Append(up[c], Head(left[c])) \in Seq([m : Message, part : 0 .. Cells])
      BY <1>1, <1>5, Types, AppendOf
    <3> QED
      BY <1>1, <3>1 DEF SendRequest, TypeOK
  <2>3. mode' \in [Clients -> Active \cup {"prompt", "gone"}]
    BY <1>1 DEF SendRequest, TypeOK, Active
  <2> QED
    BY <1>1, <2>1, <2>2, <2>3 DEF SendRequest, TypeOK, thread
<1>8. Mutex'
  BY DEF SendRequest, thread, IInv, Mutex
<1>9. Unsent(c)'
  <2>1. \A i \in 1 .. Len(left[c]) - 1 :
           Tail(left[c])[i] = [m |-> asked[c], part |-> Cells - (Len(left[c]) - 1) + i]
    <3>1. \A i \in 1 .. Len(left[c]) :
             left[c][i] = [m |-> asked[c], part |-> Cells - Len(left[c]) + i]
      BY <1>1 DEF Client, Unsent
    <3>2. Len(left[c]) \in Nat /\ Cells \in Nat
      BY <1>1, Numbers
    <3>3. \A i \in 1 .. Len(left[c]) - 1 :
             i + 1 \in 1 .. Len(left[c])
             /\ Cells - Len(left[c]) + (i + 1) = Cells - (Len(left[c]) - 1) + i
      BY <3>2
    <3> QED
      BY <1>6, <3>1, <3>3
  <2>2. Len(left[c]) - 1 <= Cells + 1
    BY <1>1, <1>5, Numbers
  <2>3. asked[c] # NoMessage
    BY <1>2, Records
  <2> QED
    BY <1>3, <1>6, <2>1, <2>2, <2>3 DEF Unsent, Active
<1>10. Arriving(c)'
  <2>1. CASE pc[c] # "closed"
    <3>1. Base(c)' = Base(c)
      BY <1>3 DEF Base
    <3>2. /\ \A i \in 1 .. Len(up[c]) : At(up[c][i].m.req) + up[c][i].part = Base(c) + i
          /\ pc[c] \in {"body", "lock", "handle"} => request[c].req = handled[c].req + 1
          /\ Base(c) + Len(up[c]) + Len(left[c]) = At(asked[c].req + 1) - 1
      BY <1>1, <1>2, <2>1 DEF Client, Arriving
    <3>3. /\ up[c] \in Seq([m : Message, part : 0 .. Cells]) /\ Len(up[c]) \in Nat
          /\ Len(left[c]) \in Nat /\ Cells \in Nat
          /\ Base(c) \in Int /\ At(asked[c].req + 1) \in Int /\ asked[c].req \in Nat
      BY <1>1, <1>5, Types, Numbers
    <3>4. /\ Len(up'[c]) = Len(up[c]) + 1 /\ up'[c][Len(up[c]) + 1] = Head(left[c])
          /\ \A i \in 1 .. Len(up[c]) : up'[c][i] = up[c][i]
      BY <1>3, <1>5, <2>1, <3>3, AppendOf
    <3>5. At(asked[c].req + 1) = At(asked[c].req) + Cells + 1 /\ At(asked[c].req) \in Int
      BY <1>1, Numbers
    <3>6. At(asked[c].req) + (Cells - Len(left[c]) + 1) = Base(c) + (Len(up[c]) + 1)
      <4>1. PICK b, h, x, y, z \in Int :
               /\ b = At(asked[c].req) /\ h = At(asked[c].req + 1)
               /\ x = Base(c) /\ y = Len(up[c]) /\ z = Len(left[c])
        <5>1. Base(c) \in Int BY <3>3
        <5>2. Len(up[c]) \in Int BY <3>3
        <5>3. Len(left[c]) \in Int BY <3>3
        <5>4. At(asked[c].req) \in Int BY <3>5
        <5>5. At(asked[c].req+1) \in Int BY <3>3
        <5> QED BY <5>1, <5>2, <5>3, <5>4, <5>5, Zenon
      <4>2. x + y + z = h - 1 /\ h = b + Cells + 1
        BY <3>2, <3>5, <4>1, Zenon
      <4>3. b + (Cells - z + 1) = x + (y + 1)
        BY <3>3, <4>2
      <4> QED
        BY <4>1, <4>3, Zenon
    <3>6a. up'[c][Len(up[c]) + 1].m = asked[c]
           /\ up'[c][Len(up[c]) + 1].part = Cells - Len(left[c]) + 1
      BY <1>5, <3>4
    <3>7. \A i \in 1 .. Len(up'[c]) : At(up'[c][i].m.req) + up'[c][i].part = Base(c) + i
      <4>1. \A i \in 1 .. Len(up'[c]) : i \in 1 .. Len(up[c]) \/ i = Len(up[c]) + 1
        BY <3>3, <3>4
      <4> QED
        BY <3>2, <3>4, <3>6, <3>6a, <4>1
    <3>8. Base(c) + Len(up'[c]) + Len(left'[c]) = At(asked[c].req + 1) - 1
      BY <1>3, <1>6, <3>2, <3>3, <3>4
    <3> QED
      BY <1>3, <3>1, <3>2, <3>7, <3>8 DEF Arriving
  <2>2. CASE pc[c] = "closed"
    BY <1>3, <2>2 DEF Arriving
  <2> QED
    BY <2>1, <2>2
<1>11. Known(c)'
  <2>1. \A i \in 1 .. Len(up'[c]) : UpTo(up'[c][i].m, asked[c])
    <3>1. UpTo(asked[c], asked[c])
      BY <1>1, Types DEF UpTo
    <3>2. CASE pc[c] # "closed"
      <4>1. \A i \in 1 .. Len(up'[c]) : up'[c][i].m = asked[c] \/ UpTo(up'[c][i].m, asked[c])
        BY <1>1, <1>3, <1>5, <3>2, Types DEF Client, Known
      <4> QED
        BY <3>1, <4>1
    <3>3. CASE pc[c] = "closed"
      BY <1>1, <1>3, <3>3 DEF Client, Known
    <3> QED
      BY <3>2, <3>3
  <2> QED
    BY <1>1, <1>2, <1>3, <2>1 DEF Client, Known
<1>12. Whole(c)'
  BY <1>1, <1>3 DEF Client, Whole
<1>13. Synchronous(c)'
  BY <1>1, <1>2, <1>3 DEF Client, Synchronous, Quiet, Waiting, ToldTrue
<1> QED
  BY <1>1, <1>4, <1>7, <1>8, <1>9, <1>10, <1>11, <1>12, <1>13, Frame DEF IInv, Client

\* A send() that fails finds the thread gone.
LEMMA SendRequestFailsStep ==
  ASSUME IInv, NEW c \in Clients, SendRequestFails(c)
  PROVE  IInv'
<1>1. Client(c) /\ TypeOK
  BY DEF IInv
<1>2. mode[c] = "sending" /\ pc[c] = "closed" /\ asked[c] \in Message
  BY <1>1, Types DEF SendRequestFails, Client, Unsent, Active
<1>3. /\ left'[c] = <<>> /\ mode'[c] \in {"answer", "gone"}
      /\ up'[c] = up[c] /\ asked'[c] = asked[c] /\ rcv'[c] = rcv[c] /\ count'[c] = count[c]
      /\ shown'[c] = shown[c] /\ torn'[c] = torn[c] /\ down'[c] = down[c]
      /\ pc'[c] = pc[c] /\ request'[c] = request[c] /\ todo'[c] = todo[c]
      /\ sent'[c] = sent[c] /\ handled'[c] = handled[c]
  BY <1>1, <1>2 DEF SendRequestFails, TypeOK, thread
<1>4. \A d \in Clients : d # c => Same(d)
  BY <1>1 DEF SendRequestFails, TypeOK, thread, Same
<1>5. TypeOK'
  <2>1. left' \in [Clients -> Seq([m : Message, part : 0 .. Cells])]
    <3>1. <<>> \in Seq([m : Message, part : 0 .. Cells])
      BY EmptySeq
    <3> QED
      BY <1>1, <3>1 DEF SendRequestFails, TypeOK
  <2>2. mode' \in [Clients -> Active \cup {"prompt", "gone"}]
    BY <1>1 DEF SendRequestFails, TypeOK, Active
  <2> QED
    BY <1>1, <2>1, <2>2 DEF SendRequestFails, TypeOK, thread
<1>6. Mutex'
  BY DEF SendRequestFails, thread, IInv, Mutex
<1>7. Unsent(c)'
  BY <1>2, <1>3, Numbers, <1>1, Records DEF Unsent, Active
<1>8. Arriving(c)' /\ Whole(c)'
  BY <1>2, <1>3 DEF Arriving, Whole
<1>9. Known(c)'
  BY <1>1, <1>2, <1>3 DEF Client, Known
<1>10. Synchronous(c)'
  BY <1>1, <1>2, <1>3 DEF Client, Synchronous, Quiet, Waiting, ToldTrue
<1> QED
  BY <1>1, <1>4, <1>5, <1>6, <1>7, <1>8, <1>9, <1>10, Frame DEF IInv, Client

\* Quit and Die: the streams keep what was sent, in its place.
LEMMA LeaveStep ==
  ASSUME IInv, NEW c \in Clients, Leave(c)
  PROVE  IInv'
<1>1. Client(c) /\ TypeOK
  BY DEF IInv
<1>2. /\ left'[c] = <<>> /\ mode'[c] = "gone" /\ down'[c] = <<>> /\ rcv'[c] = NoMessage
      /\ count'[c] = 0
      /\ up'[c] = up[c] /\ asked'[c] = asked[c] /\ shown'[c] = shown[c] /\ torn'[c] = torn[c]
      /\ pc'[c] = pc[c] /\ request'[c] = request[c] /\ todo'[c] = todo[c]
      /\ sent'[c] = sent[c] /\ handled'[c] = handled[c]
  BY <1>1 DEF Leave, TypeOK, thread
<1>3. \A d \in Clients : d # c => Same(d)
  BY <1>1 DEF Leave, TypeOK, thread, Same
<1>4. TypeOK'
  <2>1. left' \in [Clients -> Seq([m : Message, part : 0 .. Cells])]
    <3>1. <<>> \in Seq([m : Message, part : 0 .. Cells])
      BY EmptySeq
    <3> QED
      BY <1>1, <3>1 DEF Leave, TypeOK
  <2>2. mode' \in [Clients -> Active \cup {"prompt", "gone"}]
    BY <1>1 DEF Leave, TypeOK, Active
  <2>3. down' \in [Clients -> Seq([m : Reply, part : 0 .. Cells])]
    <3>1. <<>> \in Seq([m : Reply, part : 0 .. Cells])
      BY EmptySeq
    <3> QED
      BY <1>1, <3>1 DEF Leave, TypeOK
  <2>4. rcv' \in [Clients -> Reply \cup {NoMessage, Garbage}] /\ count' \in [Clients -> Nat]
    BY <1>1 DEF Leave, TypeOK
  <2> QED
    BY <1>1, <2>1, <2>2, <2>3, <2>4 DEF Leave, TypeOK, thread
<1>5. Mutex'
  BY DEF Leave, thread, IInv, Mutex
<1>6. Unsent(c)'
  BY <1>2, Numbers, <1>1 DEF Unsent, Active
<1>7. Arriving(c)'
  <2>1. Base(c)' = Base(c)
    BY <1>2 DEF Base
  <2> QED
    BY <1>1, <1>2, <2>1 DEF Client, Arriving
<1>8. Whole(c)'
  BY <1>1, <1>2 DEF Client, Whole
<1>9. Known(c)'
  BY <1>1, <1>2 DEF Client, Known
<1>10. Synchronous(c)'
  BY <1>1, <1>2 DEF Client, Synchronous, ToldTrue
<1> QED
  BY <1>1, <1>3, <1>4, <1>5, <1>6, <1>7, <1>8, <1>9, <1>10, Frame DEF IInv, Client

-----------------------------------------------------------------------------
(***************************************************************************)
(* The steps of the thread                                                 *)
(***************************************************************************)
\* The next cell in the stream is the size of the request after those handled.
LEMMA HandleSizeStep ==
  ASSUME IInv, NEW c \in Clients, HandleSize(c)
  PROVE  IInv'
<1>1. Client(c) /\ TypeOK
  BY DEF IInv
<1>2. /\ pc[c] = "head" /\ up[c] # <<>> /\ up[c] \in Seq([m : Message, part : 0 .. Cells])
      /\ handled[c].req \in Nat
  BY <1>1, Types DEF HandleSize
<1>3. /\ up'[c] = Tail(up[c]) /\ request'[c] = Head(up[c]).m /\ pc'[c] = "body"
      /\ left'[c] = left[c] /\ mode'[c] = mode[c] /\ down'[c] = down[c] /\ rcv'[c] = rcv[c]
      /\ count'[c] = count[c] /\ asked'[c] = asked[c] /\ shown'[c] = shown[c]
      /\ torn'[c] = torn[c] /\ todo'[c] = todo[c]
      /\ sent'[c] = sent[c] /\ handled'[c] = handled[c]
  BY <1>1 DEF HandleSize, TypeOK, client
<1>4. \A d \in Clients : d # c => Same(d)
  BY <1>1 DEF HandleSize, TypeOK, client, Same
<1>5. /\ Tail(up[c]) \in Seq([m : Message, part : 0 .. Cells]) /\ Len(up[c]) \in Nat /\ Len(up[c]) >= 1
      /\ Len(Tail(up[c])) = Len(up[c]) - 1
      /\ \A i \in 1 .. Len(up[c]) - 1 : Tail(up[c])[i] = up[c][i + 1]
      /\ Head(up[c]) = up[c][1] /\ Head(up[c]) \in [m : Message, part : 0 .. Cells]
  BY <1>2, TailOf
<1>6. TypeOK'
  <2>1. up' \in [Clients -> Seq([m : Message, part : 0 .. Cells])]
    BY <1>1, <1>5 DEF HandleSize, TypeOK
  <2>2. request' \in [Clients -> Message \cup {NoMessage}]
    BY <1>1, <1>5 DEF HandleSize, TypeOK
  <2>3. pc' \in [Clients -> {"head", "body", "lock", "handle", "send", "closed"}]
    BY <1>1 DEF HandleSize, TypeOK
  <2> QED
    BY <1>1, <2>1, <2>2, <2>3 DEF HandleSize, TypeOK, client
<1>7. Mutex'
  BY <1>1 DEF HandleSize, client, IInv, Mutex, TypeOK
<1>8. Unsent(c)'
  BY <1>1, <1>3 DEF Client, Unsent
<1>9. /\ Base(c) = At(handled[c].req + 1) - 1 /\ Base(c)' = At(handled[c].req + 1)
      /\ Base(c) \in Int /\ Base(c)' = Base(c) + 1
  <2>1. At(handled[c].req + 1) \in Int
    BY <1>1, Numbers
  <2> QED
    BY <1>2, <1>3, <2>1 DEF Base
<1>10. /\ \A i \in 1 .. Len(up[c]) : At(up[c][i].m.req) + up[c][i].part = Base(c) + i
       /\ mode[c] # "gone" => Base(c) + Len(up[c]) + Len(left[c]) = At(asked[c].req + 1) - 1
  BY <1>1, <1>2 DEF Client, Arriving
<1>11. Arriving(c)'
  <2>1. request'[c].req = handled[c].req + 1
    <3>1. At(up[c][1].m.req) + up[c][1].part = At(handled[c].req + 1) + 0
      BY <1>5, <1>9, <1>10
    <3>2. /\ up[c][1].m.req \in Int /\ handled[c].req + 1 \in Int
          /\ up[c][1].part \in 0 .. Cells /\ 0 \in 0 .. Cells
      <4>1. 1 \in 1 .. Len(up[c])
        BY <1>5
      <4>2. up[c][1].m.req \in Nat /\ up[c][1].part \in 0 .. Cells
        BY <1>1, <4>1, Types
      <4>3. Cells \in Nat
        BY <1>1, Numbers
      <4> QED
        BY <1>2, <4>2, <4>3
    <3>3. up[c][1].m.req = handled[c].req + 1
      BY <3>1, <3>2, AtUnique
    <3> QED
      BY <1>3, <1>5, <3>3
  <2>2. \A i \in 1 .. Len(up'[c]) : At(up'[c][i].m.req) + up'[c][i].part = Base(c)' + i
    <3>1. \A i \in 1 .. Len(up'[c]) : i + 1 \in 1 .. Len(up[c]) /\ up'[c][i] = up[c][i + 1]
      BY <1>3, <1>5
    <3>2. \A i \in 1 .. Len(up'[c]) : Base(c)' + i = Base(c) + (i + 1)
      BY <1>9
    <3> QED
      BY <1>10, <3>1, <3>2
  <2>3. Base(c)' + Len(up'[c]) = Base(c) + Len(up[c])
    BY <1>3, <1>5, <1>9
  <2> QED
    BY <1>3, <1>10, <2>1, <2>2, <2>3 DEF Arriving
<1>12. Known(c)'
  BY <1>1, <1>3, <1>5 DEF Client, Known
<1>13. Whole(c)'
  BY <1>1, <1>2, <1>3 DEF Client, Whole
<1>14. Synchronous(c)'
  BY <1>1, <1>2, <1>3, StaysInStep DEF Client
<1> QED
  BY <1>1, <1>4, <1>6, <1>7, <1>8, <1>11, <1>12, <1>13, <1>14, Frame DEF IInv, Client

\* A connection that is closed: nothing is left to read, and the client may lose what
\* it has not read.
LEMMA ClosedOf ==
  ASSUME IInv, NEW c \in Clients, Closed(c)
  PROVE  /\ up' = [up EXCEPT ![c] = <<>>]
         /\ up' \in [Clients -> Seq([m : Message, part : 0 .. Cells])]
         /\ down' \in [Clients -> Seq([m : Reply, part : 0 .. Cells])]
         /\ down'[c] = down[c] \/ down'[c] = <<>>
         /\ up'[c] = <<>>
         /\ \A d \in Clients : d # c => up'[d] = up[d] /\ down'[d] = down[d]
<1>1. /\ up \in [Clients -> Seq([m : Message, part : 0 .. Cells])]
      /\ down \in [Clients -> Seq([m : Reply, part : 0 .. Cells])]
  BY DEF IInv, TypeOK
<1>2. <<>> \in Seq([m : Message, part : 0 .. Cells]) /\ <<>> \in Seq([m : Reply, part : 0 .. Cells])
  BY EmptySeq
<1>3. down' = down \/ down' = [down EXCEPT ![c] = <<>>]
  BY DEF Closed
<1> QED
  BY <1>1, <1>2, <1>3 DEF Closed

\* What holds of the client of a thread that has ended.
LEMMA ClosedClient ==
  ASSUME IInv, NEW c \in Clients, Len(up'[c]) = 0,
         mode'[c] = mode[c], asked'[c] = asked[c], left'[c] = left[c], rcv'[c] = rcv[c],
         count'[c] = count[c], shown'[c] = shown[c], torn'[c] = torn[c], request'[c] = request[c],
         handled'[c] = handled[c], pc'[c] = "closed",
         down'[c] = down[c] \/ down'[c] = <<>>
  PROVE  Client(c)'
<1>1. Client(c)
  BY DEF IInv
<1>2. Unsent(c)'
  BY <1>1 DEF Client, Unsent
<1>3. Arriving(c)' /\ Whole(c)'
  BY DEF Arriving, Whole
<1>4. Known(c)'
  BY <1>1 DEF Client, Known
<1>5. Synchronous(c)'
  BY <1>1, StaysInStep DEF Client
<1> QED
  BY <1>2, <1>3, <1>4, <1>5 DEF Client

\* recv() returns 0 or fails.
LEMMA HandleEndStep ==
  ASSUME IInv, NEW c \in Clients, HandleEnd(c)
  PROVE  IInv'
<1>1. TypeOK
  BY DEF IInv
<1>2. Closed(c)
  BY DEF HandleEnd
<1>3. TypeOK'
  <2>1. pc' \in [Clients -> {"head", "body", "lock", "handle", "send", "closed"}]
    BY <1>1 DEF HandleEnd, TypeOK
  <2> QED
    BY <1>1, <1>2, <2>1, ClosedOf DEF HandleEnd, TypeOK, client
<1>4. Mutex'
  BY <1>1 DEF HandleEnd, client, IInv, Mutex, TypeOK
<1>5. Client(c)'
  BY <1>1, <1>2, ClosedOf, ClosedClient DEF HandleEnd, TypeOK, client
<1>6. \A d \in Clients : d # c => Same(d)
  BY <1>1, <1>2, ClosedOf DEF HandleEnd, TypeOK, client, Same
<1> QED
  BY <1>3, <1>4, <1>5, <1>6, Frame DEF IInv

\* The mutex is given to one thread.
LEMMA LockStep ==
  ASSUME IInv, NEW c \in Clients, Lock(c)
  PROVE  IInv'
<1>1. Client(c) /\ TypeOK
  BY DEF IInv
<1>2. pc[c] = "lock" /\ lock = {} /\ pc'[c] = "handle" /\ lock' = {c}
  BY <1>1 DEF Lock, TypeOK
<1>3. /\ up'[c] = up[c] /\ request'[c] = request[c]
      /\ left'[c] = left[c] /\ mode'[c] = mode[c] /\ down'[c] = down[c] /\ rcv'[c] = rcv[c]
      /\ count'[c] = count[c] /\ asked'[c] = asked[c] /\ shown'[c] = shown[c]
      /\ torn'[c] = torn[c] /\ todo'[c] = todo[c]
      /\ sent'[c] = sent[c] /\ handled'[c] = handled[c]
  BY <1>1 DEF Lock, TypeOK, client
<1>4. \A d \in Clients : d # c => Same(d)
  BY <1>1 DEF Lock, TypeOK, client, Same
<1>5. TypeOK'
  <2>1. pc' \in [Clients -> {"head", "body", "lock", "handle", "send", "closed"}]
    BY <1>1 DEF Lock, TypeOK
  <2> QED
    BY <1>1, <1>2, <2>1 DEF Lock, TypeOK, client
<1>6. Mutex'
  <2>1. \A d \in Clients : pc[d] \notin {"handle", "send"}
    BY <1>2 DEF IInv, Mutex
  <2> QED
    BY <1>1, <1>2, <2>1 DEF Lock, Mutex, TypeOK
<1>7. Unsent(c)'
  BY <1>1, <1>3 DEF Client, Unsent
<1>8. Arriving(c)'
  <2>1. Base(c)' = Base(c)
    BY <1>2, <1>3 DEF Base
  <2> QED
    BY <1>1, <1>2, <1>3, <2>1 DEF Client, Arriving
<1>9. Known(c)' /\ Whole(c)'
  BY <1>1, <1>2, <1>3 DEF Client, Known, Whole
<1>10. Synchronous(c)'
  BY <1>1, <1>2, <1>3, StaysInStep DEF Client
<1> QED
  BY <1>1, <1>4, <1>5, <1>6, <1>7, <1>8, <1>9, <1>10, Frame DEF IInv, Client

\* The bytes that follow are the request's, all of them, or the thread ends.
LEMMA HandleBytesStep ==
  ASSUME IInv, NEW c \in Clients, HandleBytes(c)
  PROVE  IInv'
<1>1. Client(c) /\ TypeOK
  BY DEF IInv
<1>2. /\ pc[c] = "body" /\ up[c] # <<>> /\ up[c] \in Seq([m : Message, part : 0 .. Cells])
      /\ Len(up[c]) \in Nat /\ Cells \in Nat
  BY <1>1, Types, Numbers DEF HandleBytes
<1>3. CASE Len(up[c]) < Cells
  <2>1. pc' = [pc EXCEPT ![c] = "closed"] /\ Closed(c)
    BY <1>3 DEF HandleBytes
  <2>2. TypeOK'
    <3>1. pc' \in [Clients -> {"head", "body", "lock", "handle", "send", "closed"}]
      BY <1>1, <2>1 DEF TypeOK
    <3> QED
      BY <1>1, <2>1, <3>1, ClosedOf DEF HandleBytes, TypeOK, client
  <2>3. Mutex'
    BY <1>1, <2>1 DEF HandleBytes, client, IInv, Mutex, TypeOK
  <2>4. Client(c)'
    BY <1>1, <2>1, ClosedOf, ClosedClient DEF HandleBytes, TypeOK, client
  <2>5. \A d \in Clients : d # c => Same(d)
    BY <1>1, <2>1, ClosedOf DEF HandleBytes, TypeOK, client, Same
  <2> QED
    BY <2>2, <2>3, <2>4, <2>5, Frame DEF IInv
<1>4. CASE ~ Len(up[c]) < Cells
  <2>1. /\ up'[c] = SubSeq(up[c], Cells + 1, Len(up[c])) /\ pc'[c] = "lock"
        /\ request'[c] = request[c]
        /\ left'[c] = left[c] /\ mode'[c] = mode[c] /\ down'[c] = down[c] /\ rcv'[c] = rcv[c]
        /\ count'[c] = count[c] /\ asked'[c] = asked[c] /\ shown'[c] = shown[c]
        /\ torn'[c] = torn[c] /\ todo'[c] = todo[c]
        /\ sent'[c] = sent[c] /\ handled'[c] = handled[c]
    BY <1>1, <1>4 DEF HandleBytes, TypeOK, client
  <2>2. \A d \in Clients : d # c => Same(d)
    BY <1>1, <1>4 DEF HandleBytes, TypeOK, client, Same
  <2>3. Cells \in 0 .. Len(up[c])
    BY <1>2, <1>4
  <2>4. /\ SubSeq(up[c], Cells + 1, Len(up[c])) \in Seq([m : Message, part : 0 .. Cells])
        /\ Len(SubSeq(up[c], Cells + 1, Len(up[c]))) = Len(up[c]) - Cells
        /\ \A i \in 1 .. Len(up[c]) - Cells :
              SubSeq(up[c], Cells + 1, Len(up[c]))[i] = up[c][Cells + i]
    BY <1>2, <2>3, DropOf
  <2>5. TypeOK'
    <3>1. up' \in [Clients -> Seq([m : Message, part : 0 .. Cells])]
      BY <1>1, <1>4, <2>4 DEF HandleBytes, TypeOK
    <3>2. pc' \in [Clients -> {"head", "body", "lock", "handle", "send", "closed"}]
      <4>1. pc' = [pc EXCEPT ![c] = "lock"]
        BY <1>4 DEF HandleBytes
      <4> QED
        BY <1>1, <4>1 DEF TypeOK
    <3> QED
      BY <1>1, <1>4, <3>1, <3>2 DEF HandleBytes, TypeOK, client
  <2>6. Mutex'
    BY <1>1, <1>4 DEF HandleBytes, client, IInv, Mutex, TypeOK
  <2>7. Unsent(c)'
    BY <1>1, <2>1 DEF Client, Unsent
  <2>8. /\ Base(c) = At(handled[c].req + 1) /\ Base(c)' = At(handled[c].req + 2) - 1
        /\ Base(c) \in Int /\ Base(c)' = Base(c) + Cells
    <3>1. At(handled[c].req + 1) \in Int /\ At(handled[c].req + 2) = At(handled[c].req + 1) + Cells + 1
      BY <1>1, Numbers
    <3> QED
      BY <1>2, <2>1, <3>1 DEF Base
  <2>9. /\ \A i \in 1 .. Len(up[c]) : At(up[c][i].m.req) + up[c][i].part = Base(c) + i
        /\ mode[c] # "gone" => Base(c) + Len(up[c]) + Len(left[c]) = At(asked[c].req + 1) - 1
        /\ request[c].req = handled[c].req + 1
    BY <1>1, <1>2 DEF Client, Arriving
  <2>10. \A i \in 1 .. Len(up'[c]) : Cells + i \in 1 .. Len(up[c]) /\ up'[c][i] = up[c][Cells + i]
    BY <1>2, <2>1, <2>3, <2>4
  <2>11. Arriving(c)'
    <3>1. \A i \in 1 .. Len(up'[c]) : At(up'[c][i].m.req) + up'[c][i].part = Base(c)' + i
      <4>1. \A i \in 1 .. Len(up'[c]) : Base(c)' + i = Base(c) + (Cells + i)
        BY <1>2, <2>8
      <4> QED
        BY <2>9, <2>10, <4>1
    <3>2. Base(c)' + Len(up'[c]) = Base(c) + Len(up[c])
      BY <1>2, <2>1, <2>4, <2>8
    <3> QED
      BY <2>1, <2>9, <3>1, <3>2 DEF Arriving
  <2>12. Known(c)' /\ Whole(c)'
    BY <1>1, <1>2, <2>1, <2>10 DEF Client, Known, Whole
  <2>13. Synchronous(c)'
    BY <1>1, <1>2, <2>1, StaysInStep DEF Client
  <2> QED
    BY <1>1, <2>2, <2>5, <2>6, <2>7, <2>11, <2>12, <2>13, Frame DEF IInv, Client
<1> QED
  BY <1>3, <1>4

\* Once all is sent the mutex is free, and the client's turn has come.
LEMMA UnlockStep ==
  ASSUME IInv, NEW c \in Clients, Unlock(c)
  PROVE  IInv'
<1>1. Client(c) /\ TypeOK
  BY DEF IInv
<1>2. pc[c] = "send" /\ todo[c] = <<>> /\ lock = {c} /\ lock' = {}
  BY DEF Unlock, IInv, Mutex
<1>3. \A d \in Clients : pc[d] \in {"handle", "send"} => d = c
  BY <1>2 DEF IInv, Mutex
<1>4. CASE err[c]
  <2>1. pc' = [pc EXCEPT ![c] = "closed"] /\ Closed(c)
    BY <1>4 DEF Unlock
  <2>2. TypeOK'
    <3>1. pc' \in [Clients -> {"head", "body", "lock", "handle", "send", "closed"}]
      BY <1>1, <2>1 DEF TypeOK
    <3> QED
      BY <1>1, <1>2, <2>1, <3>1, ClosedOf DEF Unlock, TypeOK, client
  <2>3. Mutex'
    BY <1>1, <1>3, <2>1 DEF Mutex, TypeOK
  <2>4. Client(c)'
    BY <1>1, <2>1, ClosedOf, ClosedClient DEF Unlock, TypeOK, client
  <2>5. \A d \in Clients : d # c => Same(d)
    BY <1>1, <2>1, ClosedOf DEF Unlock, TypeOK, client, Same
  <2> QED
    BY <2>2, <2>3, <2>4, <2>5, Frame DEF IInv
<1>5. CASE ~ err[c]
  <2>1. /\ pc' = [pc EXCEPT ![c] = "head"] /\ pc'[c] = "head" /\ up'[c] = up[c]
        /\ request'[c] = request[c]
        /\ left'[c] = left[c] /\ mode'[c] = mode[c] /\ down'[c] = down[c] /\ rcv'[c] = rcv[c]
        /\ count'[c] = count[c] /\ asked'[c] = asked[c] /\ shown'[c] = shown[c]
        /\ torn'[c] = torn[c] /\ todo'[c] = todo[c]
        /\ sent'[c] = sent[c] /\ handled'[c] = handled[c]
    BY <1>1, <1>5 DEF Unlock, TypeOK, client
  <2>2. \A d \in Clients : d # c => Same(d)
    BY <1>1, <1>5 DEF Unlock, TypeOK, client, Same
  <2>3. TypeOK'
    <3>1. pc' \in [Clients -> {"head", "body", "lock", "handle", "send", "closed"}]
      BY <1>1, <2>1 DEF TypeOK
    <3> QED
      BY <1>1, <1>2, <1>5, <3>1 DEF Unlock, TypeOK, client
  <2>4. Mutex'
    BY <1>1, <1>3, <2>1 DEF Mutex, TypeOK
  <2>5. Unsent(c)'
    BY <1>1, <2>1 DEF Client, Unsent
  <2>6. Arriving(c)'
    <3>1. Base(c)' = Base(c)
      BY <1>2, <2>1 DEF Base
    <3> QED
      BY <1>1, <1>2, <2>1, <3>1 DEF Client, Arriving
  <2>7. Known(c)' /\ Whole(c)'
    BY <1>1, <1>2, <2>1 DEF Client, Known, Whole
  <2>8. Synchronous(c)'
    BY <1>1, <1>2, <2>1, StaysInStep DEF Client
  <2> QED
    BY <1>1, <2>2, <2>3, <2>4, <2>5, <2>6, <2>7, <2>8, Frame DEF IInv, Client
<1> QED
  BY <1>4, <1>5

\* Nobody is left to break what the process had promised.
LEMMA ExitStep ==
  ASSUME IInv, NEW c \in Clients, Exit(c)
  PROVE  IInv'
<1>1. TypeOK
  BY DEF IInv
<1>2. \A d \in Clients : pc'[d] = "closed" /\ up'[d] = <<>>
  BY DEF Exit
<1>3. TypeOK'
  <2>1. pc' \in [Clients -> {"head", "body", "lock", "handle", "send", "closed"}]
    BY DEF Exit
  <2>2. <<>> \in Seq([m : Message, part : 0 .. Cells])
    BY EmptySeq
  <2>3. up' \in [Clients -> Seq([m : Message, part : 0 .. Cells])]
    BY <2>2 DEF Exit
  <2> QED
    BY <1>1, <2>1, <2>3 DEF Exit, TypeOK, client
<1>4. Mutex'
  BY <1>2 DEF Mutex
<1>5. ASSUME NEW d \in Clients PROVE Client(d)'
  <2>1. Len(up'[d]) = 0
    BY <1>2
  <2> QED
    BY <1>2, <2>1, ClosedClient DEF Exit, client
<1> QED
  BY <1>3, <1>4, <1>5 DEF IInv

\* A client in step awaits the very request that is handled: what is to be sent is the
\* responses to it, from the first on.
LEMMA HandleStep ==
  ASSUME IInv, NEW c \in Clients, Handle(c)
  PROVE  IInv'
<1>1. Client(c) /\ TypeOK
  BY DEF IInv
<1>2. PICK result \in {"ok", "refused", "failed"}, rows \in 0 .. MaxRows :
         /\ ~ (request[c].case = "SELECT" /\ result = "ok") => rows = 0
         /\ todo' = [todo EXCEPT
               ![c] = Responses(request[c].req, request[c].case, result, rows)]
         /\ err' = [err EXCEPT ![c] = result = "failed"]
         /\ handled' = [handled EXCEPT ![c] =
               Answer(request[c].req,
                      IF result # "ok" THEN "error"
                      ELSE IF request[c].case = "SELECT" THEN "rows" ELSE "OK", rows)]
  BY Zenon DEF Handle
<1>2a. PICK all, text, n :
         /\ all = Responses(request[c].req, request[c].case, result, rows)
         /\ text = IF result # "ok" THEN "error"
                   ELSE IF request[c].case = "SELECT" THEN "rows" ELSE "OK"
         /\ n = IF result = "ok" /\ request[c].case = "SELECT" THEN rows + 2 ELSE 1
  OBVIOUS
<1>3. /\ pc[c] = "handle" /\ lock = {c} /\ rows \in Nat
      /\ result \in {"ok", "refused", "failed"}
  BY <1>2, ProtocolAssumption DEF Handle, IInv, Mutex
<1>4. /\ request[c].req = handled[c].req + 1 /\ handled[c].req \in Nat
      /\ UpTo(request[c], asked[c]) /\ sent[c] = 0
  BY <1>1, <1>3, Types DEF Client, Arriving, Known, Whole
<1>5. request[c] \in Message /\ request[c].req \in Nat /\ request[c].req > 0 /\ request[c].case \in Kinds
  <2>1. request[c].req \in Nat /\ request[c].req > 0
    BY <1>4
  <2>2. request[c] # NoMessage
    BY <2>1, Records
  <2> QED
    BY <1>1, <2>1, <2>2, Types, Records
<1>6. /\ all \in Seq(Reply) /\ Len(all) = n /\ n \in Nat /\ n >= 1
      /\ result # "ok" => all[1] = Response(request[c].req, "INSERT", TRUE)
      /\ result = "ok" => all[1] = Response(request[c].req, request[c].case, FALSE)
      /\ \A i \in 2 .. n :
            /\ i # n => all[i] = Response(request[c].req, "BATCH", FALSE)
            /\ i = n => all[i] = Response(request[c].req, "BATCH_END", FALSE)
  <2>1. PICK req, kind : req = request[c].req /\ kind = request[c].case
    OBVIOUS
  <2>2. /\ all = Responses(req, kind, result, rows)
        /\ n = Many(kind, result, rows)
        /\ req \in Nat /\ req > 0 /\ kind \in Kinds
    BY <1>2a, <1>5, <2>1 DEF Many
  <2>3. rows \in Nat /\ result \in {"ok", "refused", "failed"}
    BY <1>3
  <2>4. Rightly(all, n, req, kind, result)
    BY <2>2, <2>3, ResponsesOf
  <2> QED
    BY <2>1, <2>4 DEF Rightly
<1>7. Answer(request[c].req, text, rows) \in Told
  BY <1>2a, <1>3, <1>5 DEF Told, Answer
<1>8. /\ todo'[c] = all /\ handled'[c] = Answer(request[c].req, text, rows) /\ pc'[c] = "send"
      /\ up'[c] = up[c] /\ request'[c] = request[c]
      /\ left'[c] = left[c] /\ mode'[c] = mode[c] /\ down'[c] = down[c] /\ rcv'[c] = rcv[c]
      /\ count'[c] = count[c] /\ asked'[c] = asked[c] /\ shown'[c] = shown[c]
      /\ torn'[c] = torn[c] /\ sent'[c] = sent[c] /\ torn[c] \in BOOLEAN
  BY <1>1, <1>2, <1>2a DEF Handle, TypeOK, client
<1>9. \A d \in Clients : d # c => Same(d)
  BY <1>1, <1>2 DEF Handle, TypeOK, client, Same
<1>10. /\ handled'[c].req = request[c].req /\ handled'[c].text = text /\ handled'[c].rows = rows
  BY <1>8 DEF Answer
<1>11. TypeOK'
  <2>1. todo' \in [Clients -> Seq(Reply)]
    BY <1>1, <1>2, <1>2a, <1>6 DEF TypeOK
  <2>2. handled' \in [Clients -> Told \cup {NoMessage}]
    BY <1>1, <1>2, <1>2a, <1>7 DEF TypeOK
  <2>3. err' \in [Clients -> BOOLEAN]
    BY <1>1, <1>2 DEF TypeOK
  <2>4. pc' \in [Clients -> {"head", "body", "lock", "handle", "send", "closed"}]
    BY <1>1 DEF Handle, TypeOK
  <2> QED
    BY <1>1, <2>1, <2>2, <2>3, <2>4 DEF Handle, TypeOK, client
<1>12. Mutex'
  BY <1>1, <1>3 DEF Handle, IInv, Mutex, TypeOK
<1>13. Unsent(c)'
  BY <1>1, <1>8 DEF Client, Unsent
<1>14. Base(c) = At(handled[c].req + 2) - 1 /\ Base(c)' = Base(c) /\ Base(c) \in Int
  <2>1. handled'[c].req + 1 = handled[c].req + 2
    BY <1>4, <1>10
  <2>2. Base(c)' = At(handled[c].req + 2) - 1
    BY <1>8, <2>1 DEF Base
  <2>3. Base(c) = At(handled[c].req + 2) - 1
    BY <1>3 DEF Base
  <2> QED
    BY <1>1, <2>2, <2>3, BaseInt
<1>15. Arriving(c)'
  BY <1>1, <1>3, <1>8, <1>14 DEF Client, Arriving
<1>16. mode[c] = "sending" => handled[c].req + 1 < asked[c].req
  <2> SUFFICES ASSUME mode[c] = "sending", ~ handled[c].req + 1 < asked[c].req PROVE FALSE
    OBVIOUS
  <2>1. /\ Base(c) + Len(up[c]) + Len(left[c]) = At(asked[c].req + 1) - 1
    BY <1>1, <1>3 DEF Client, Arriving
  <2>2. Len(up[c]) \in Nat /\ Len(left[c]) \in Nat /\ Len(left[c]) >= 1
    <3>1. left[c] # <<>> /\ left[c] \in Seq([m : Message, part : 0 .. Cells])
      BY <1>1, Types DEF Client, Unsent
    <3> QED
      BY <1>1, <3>1, TailOf, Numbers
  <2>3. asked[c].req + 1 \in Int /\ handled[c].req + 2 \in Int /\ asked[c].req + 1 <= handled[c].req + 2
    <3>1. asked[c].req \in Nat
      BY <1>1, Types
    <3> QED
      BY <1>4, <3>1
  <2>4. At(asked[c].req + 1) <= At(handled[c].req + 2)
    <3>1. At(asked[c].req + 1) \in Int /\ At(handled[c].req + 2) \in Int /\ Cells \in Nat
      BY <1>1, <2>3, Numbers, AtNat
    <3>2. CASE asked[c].req + 1 = handled[c].req + 2
      BY <3>1, <3>2
    <3>3. CASE asked[c].req + 1 < handled[c].req + 2
      BY <2>3, <3>1, <3>3, AtOrder
    <3> QED
      BY <2>3, <3>2, <3>3
  <2>5. At(asked[c].req + 1) \in Int /\ At(handled[c].req + 2) \in Int
    BY <2>3, AtNat
  <2> QED
    BY <1>14, <2>1, <2>2, <2>4, <2>5
<1>17. Known(c)'
  <2>1. handled'[c].req <= asked[c].req
    BY <1>4, <1>10 DEF UpTo
  <2>2. mode[c] = "sending" => handled'[c].req < asked[c].req
    BY <1>4, <1>10, <1>16
  <2> QED
    BY <1>1, <1>8, <2>1, <2>2 DEF Client, Known
<1>18. Whole(c)'
  BY <1>4, <1>8 DEF Whole
<1>19. handled[c].req < asked[c].req /\ handled[c].req # asked[c].req
  <2>1. asked[c].req \in Nat
    BY <1>1, Types
  <2> QED
    BY <1>4, <2>1 DEF UpTo
<1>20. ASSUME ~ torn[c] /\ mode[c] # "gone" PROVE Synchronous(c)'
  <2>1. mode[c] \in {"sending", "answer"} /\ Waiting(c)
    <3>1. ~ Answering(c)
      BY <1>19 DEF Answering, Settled
    <3>2. mode[c] # "prompt"
      BY <1>1, <1>3, <1>19, <1>20 DEF Client, Synchronous
    <3> QED
      BY <1>1, <1>20, <3>1, <3>2 DEF Client, Synchronous, TypeOK, Active
  <2>2. request[c].req = asked[c].req /\ request[c] = asked[c]
    <3>1. handled[c].req = asked[c].req - 1 /\ asked[c].req \in Nat
      BY <1>1, <1>3, <2>1, Types DEF Waiting
    <3>2. request[c].req = asked[c].req
      BY <1>4, <3>1
    <3> QED
      BY <1>4, <3>2 DEF UpTo
  <2>3. mode[c] = "answer"
    <3>1. mode[c] # "sending"
      BY <1>4, <1>16, <2>2
    <3> QED
      BY <2>1, <3>1
  <2>4. rcv'[c] = NoMessage /\ down'[c] = <<>> /\ count'[c] = 0 /\ mode'[c] = "answer"
    BY <1>8, <2>1, <2>3 DEF Waiting, Quiet
  <2>5. shown'[c] = NoMessage
    BY <1>1, <1>8, <1>20, <2>3 DEF Client, Synchronous, ToldTrue
  <2>6. Settled(c)'
    <3>1. rows = 0 \/ text = "rows"
      BY <1>2, <1>2a
    <3> QED
      BY <1>2a, <1>8, <1>10, <2>2, <3>1 DEF Settled
  <2>7. Replies(c)' = n /\ Taken(c)' = 0 /\ Got(c)' = 0
    <3>1. Replies(c)' = n
      BY <1>2a, <1>10 DEF Replies
    <3>2. Taken(c)' = 0
      BY <2>4 DEF Taken
    <3> QED
      BY <2>4, <3>1, <3>2, AtZero DEF Got
  <2>8. \A i \in 1 .. n : all[i] = ReplyTo(c, i)'
    <3>1. asked'[c].req = request[c].req /\ asked'[c].case = request[c].case
      BY <1>8, <2>2
    <3>2. CASE result # "ok"
      <4>1. n = 1 /\ handled'[c].text = "error"
        BY <1>2a, <1>10, <3>2
      <4>2. ReplyTo(c, 1)' = Response(request[c].req, "INSERT", TRUE)
        BY <3>1, <4>1 DEF ReplyTo, Response
      <4>3. \A i \in 1 .. n : i = 1
        BY <4>1
      <4> QED
        BY <1>6, <3>2, <4>2, <4>3
    <3>3. CASE result = "ok"
      <4>1. handled'[c].text # "error"
        BY <1>2a, <1>10, <3>3
      <4>2. ReplyTo(c, 1)' = Response(request[c].req, request[c].case, FALSE)
        BY <3>1, <4>1 DEF ReplyTo, Response
      <4>3. ASSUME NEW i \in 2 .. n PROVE all[i] = ReplyTo(c, i)'
        <5>1. /\ i # n => all[i] = Response(request[c].req, "BATCH", FALSE)
              /\ i = n => all[i] = Response(request[c].req, "BATCH_END", FALSE)
          BY <1>6
        <5>2. i # 1
          BY <1>6
        <5> QED
          BY <2>7, <3>1, <4>1, <5>1, <5>2 DEF ReplyTo, Response
      <4>4. \A i \in 1 .. n : i = 1 \/ i \in 2 .. n
        BY <1>6
      <4> QED
        BY <1>6, <3>3, <4>2, <4>3, <4>4
    <3> QED
      BY <3>2, <3>3
  <2>9. Answering(c)'
    <3>1. Len(todo'[c]) = n /\ n - n = 0 /\ Len(down'[c]) = 0 /\ \A i \in 1 .. n : n - n + i = i
      BY <1>6, <1>8, <2>4
    <3>2. /\ \A i \in 1 .. Len(todo'[c]) : todo'[c][i] = ReplyTo(c, n - Len(todo[c]) + i)'
      <4>1. \A i \in 1 .. n : n - Len(todo'[c]) + i = i
        BY <1>6, <3>1
      <4>2. \A i \in 1 .. n : todo'[c][i] = ReplyTo(c, i)'
        BY <1>8, <2>8
      <4>3. Len(todo'[c]) = n
        BY <3>1
      <4> QED
        BY <4>1, <4>2, <4>3, Zenon
    <3>3. Got(c)' + Len(down'[c]) = At(n - Len(todo'[c])) + sent'[c]
      BY <1>4, <1>8, <2>7, <3>1, AtZero
    <3>4. Taken(c)' < Replies(c)' /\ Len(todo'[c]) <= Replies(c)'
      BY <1>6, <2>7, <3>1
    <3>5. \A i \in 1 .. Len(down'[c]) : FALSE
      BY <3>1
    <3>6. mode'[c] = "rows" => handled'[c].text = "rows"
      BY <2>4
    <3>7. rcv'[c] # NoMessage => rcv'[c] = ReplyTo(c, Taken(c) + 1)'
      BY <2>4
    <3> QED
      BY <2>4, <2>6, <2>7, <3>2, <3>3, <3>4, <3>5, <3>6, <3>7 DEF Answering
  <2>10. ToldTrue(c)'
    BY <2>5, NoAnswerNotTold, Records DEF ToldTrue
  <2> QED
    BY <2>4, <2>9, <2>10 DEF Synchronous
<1>21. ASSUME torn[c] \/ mode[c] = "gone" PROVE Synchronous(c)'
  <2>1. mode[c] = "gone" /\ ~ torn[c] => shown[c] = NoMessage
    BY <1>1, <1>3, <1>19, Types DEF Client, Synchronous, ToldTrue
  <2>2. CASE torn[c]
    BY <1>8, <2>2 DEF Synchronous
  <2>3. CASE mode[c] = "gone" /\ ~ torn[c]
    <3>1. ToldTrue(c)'
      BY <1>8, <2>1, <2>3, NoAnswerNotTold, Records DEF ToldTrue
    <3> QED
      BY <1>8, <2>3, <3>1 DEF Synchronous
  <2> QED
    BY <1>21, <2>2, <2>3
<1>22. Synchronous(c)'
  BY <1>8, <1>20, <1>21
<1> QED
  BY <1>1, <1>9, <1>11, <1>12, <1>13, <1>15, <1>17, <1>18, <1>22, Frame DEF IInv, Client

\* The next cell is put in the place after the last one.
LEMMA SendResponseStep ==
  ASSUME IInv, NEW c \in Clients, SendResponse(c)
  PROVE  IInv'
<1>1. Client(c) /\ TypeOK
  BY DEF IInv
<1>2. /\ pc[c] = "send" /\ todo[c] # <<>> /\ mode[c] # "gone" /\ todo[c] \in Seq(Reply)
      /\ down[c] \in Seq([m : Reply, part : 0 .. Cells]) /\ sent[c] \in 0 .. Cells
      /\ Cells \in Nat
  BY <1>1, Types, Numbers DEF SendResponse
<1> DEFINE e == [m |-> Head(todo[c]), part |-> sent[c]]
<1>3. /\ Tail(todo[c]) \in Seq(Reply) /\ Len(todo[c]) \in Nat /\ Len(todo[c]) >= 1
      /\ Len(Tail(todo[c])) = Len(todo[c]) - 1
      /\ \A i \in 1 .. Len(todo[c]) - 1 : Tail(todo[c])[i] = todo[c][i + 1]
      /\ Head(todo[c]) = todo[c][1] /\ Head(todo[c]) \in Reply
  BY <1>2, TailOf
<1>4. CellsOf(Head(todo[c]))[sent[c] + 1] = e /\ e \in [m : Reply, part : 0 .. Cells]
  <2>1. sent[c] + 1 \in 1 .. Cells + 1 /\ sent[c] + 1 - 1 = sent[c]
    BY <1>2
  <2> QED
    BY <1>2, <1>3, <2>1 DEF CellsOf
<1>5. /\ Append(down[c], e) \in Seq([m : Reply, part : 0 .. Cells]) /\ Len(down[c]) \in Nat
      /\ Len(Append(down[c], e)) = Len(down[c]) + 1
      /\ \A i \in 1 .. Len(down[c]) : Append(down[c], e)[i] = down[c][i]
      /\ Append(down[c], e)[Len(down[c]) + 1] = e
  BY <1>2, <1>4, AppendOf
<1>6. /\ down'[c] = Append(down[c], e)
      /\ sent[c] = Cells => sent'[c] = 0 /\ todo'[c] = Tail(todo[c])
      /\ sent[c] # Cells => sent'[c] = sent[c] + 1 /\ todo'[c] = todo[c]
      /\ pc'[c] = pc[c] /\ up'[c] = up[c] /\ request'[c] = request[c] /\ handled'[c] = handled[c]
      /\ left'[c] = left[c] /\ mode'[c] = mode[c] /\ rcv'[c] = rcv[c]
      /\ count'[c] = count[c] /\ asked'[c] = asked[c] /\ shown'[c] = shown[c]
      /\ torn'[c] = torn[c] /\ torn[c] \in BOOLEAN
  BY <1>1, <1>4 DEF SendResponse, TypeOK, client
<1>7. \A d \in Clients : d # c => Same(d)
  BY <1>1 DEF SendResponse, TypeOK, client, Same
<1>8. TypeOK'
  <2>1. down' \in [Clients -> Seq([m : Reply, part : 0 .. Cells])]
    BY <1>1, <1>4, <1>5 DEF SendResponse, TypeOK
  <2>2. todo' \in [Clients -> Seq(Reply)]
    BY <1>1, <1>3 DEF SendResponse, TypeOK
  <2>3. sent' \in [Clients -> 0 .. Cells]
    <3>1. CASE sent[c] = Cells
      <4>1. sent' = [sent EXCEPT ![c] = 0] /\ 0 \in 0 .. Cells
        BY <1>2, <3>1 DEF SendResponse
      <4> QED
        BY <1>1, <4>1 DEF TypeOK
    <3>2. CASE sent[c] # Cells
      <4>1. sent' = [sent EXCEPT ![c] = sent[c] + 1] /\ sent[c] + 1 \in 0 .. Cells
        BY <1>2, <3>2 DEF SendResponse
      <4> QED
        BY <1>1, <4>1 DEF TypeOK
    <3> QED
      BY <3>1, <3>2
  <2> QED
    BY <1>1, <2>1, <2>2, <2>3 DEF SendResponse, TypeOK, client
<1>9. Mutex'
  BY DEF SendResponse, IInv, Mutex
<1>10. Unsent(c)'
  BY <1>1, <1>6 DEF Client, Unsent
<1>11. Arriving(c)'
  <2>1. Base(c)' = Base(c)
    BY <1>6 DEF Base
  <2> QED
    BY <1>1, <1>6, <2>1 DEF Client, Arriving
<1>12. Known(c)'
  BY <1>1, <1>6 DEF Client, Known
<1>13. Whole(c)'
  BY <1>2, <1>6 DEF Whole
<1> HIDE DEF e
<1>14. ASSUME Answering(c), mode[c] \in {"answer", "rows"} PROVE Answering(c)'
  <2>1. PICK R, L, D, G, S \in Int :
           R = Replies(c) /\ L = Len(todo[c]) /\ D = Len(down[c]) /\ G = Got(c) /\ S = sent[c]
    <3>1. Replies(c) \in Int /\ Got(c) \in Int
      BY <1>1, <1>14, AnswerTypes DEF Client
    <3>2. Len(todo[c]) \in Int /\ Len(down[c]) \in Int /\ sent[c] \in Int
      BY <1>2, <1>3, <1>5
    <3> QED
      BY <3>1, <3>2
  <2>2. /\ Replies(c)' = R /\ Taken(c)' = Taken(c) /\ Got(c)' = G
        /\ \A j : ReplyTo(c, j)' = ReplyTo(c, j)
    BY <1>6, <2>1 DEF Replies, Taken, Got, ReplyTo
  <2>3. /\ L <= R /\ L >= 1 /\ D >= 0 /\ G + D = At(R - L) + S
        /\ \A i \in 1 .. L : todo[c][i] = ReplyTo(c, R - L + i)
        /\ \A i \in 1 .. D : \E j \in 1 .. R :
              down[c][i].m = ReplyTo(c, j) /\ At(j - 1) + down[c][i].part = G + i - 1
    <3>1. /\ \A i \in 1 .. Len(todo[c]) :
                todo[c][i] = ReplyTo(c, Replies(c) - Len(todo[c]) + i)
          /\ Len(todo[c]) <= Replies(c)
          /\ Got(c) + Len(down[c]) = At(Replies(c) - Len(todo[c])) + sent[c]
      BY <1>2, <1>14 DEF Answering
    <3>2. \A i \in 1 .. Len(down[c]) : \E j \in 1 .. Replies(c) :
             down[c][i].m = ReplyTo(c, j) /\ At(j - 1) + down[c][i].part = Got(c) + i - 1
      BY <1>14 DEF Answering
    <3>3. L >= 1 /\ D >= 0
      BY <1>3, <1>5, <2>1
    <3> QED
      BY <2>1, <3>1, <3>2, <3>3
  <2>4. \A i \in 1 .. D + 1 : \E j \in 1 .. R :
           down'[c][i].m = ReplyTo(c, j) /\ At(j - 1) + down'[c][i].part = G + i - 1
    <3>1. ASSUME NEW i \in 1 .. D PROVE \E j \in 1 .. R :
             down'[c][i].m = ReplyTo(c, j) /\ At(j - 1) + down'[c][i].part = G + i - 1
      BY <1>5, <1>6, <2>1, <2>3
    <3>2. /\ down'[c][D + 1].m = ReplyTo(c, R - L + 1) /\ R - L + 1 \in 1 .. R
          /\ At((R - L + 1) - 1) + down'[c][D + 1].part = G + (D + 1) - 1
      <4>1. down'[c][D + 1].m = todo[c][1] /\ down'[c][D + 1].part = S
        BY <1>3, <1>5, <1>6, <2>1 DEF e
      <4>2. 1 \in 1 .. L /\ R - L + 1 \in 1 .. R /\ (R - L + 1) - 1 = R - L
        BY <2>3
      <4>3. G + (D + 1) - 1 = G + D
        OBVIOUS
      <4> QED
        BY <2>3, <4>1, <4>2, <4>3
    <3>3. \A i \in 1 .. D + 1 : i \in 1 .. D \/ i = D + 1
      BY <2>3
    <3> QED
      BY <3>1, <3>2, <3>3
  <2>5. /\ Len(todo'[c]) <= R
        /\ \A i \in 1 .. Len(todo'[c]) : todo'[c][i] = ReplyTo(c, R - Len(todo'[c]) + i)
        /\ G + (D + 1) = At(R - Len(todo'[c])) + sent'[c]
    <3>1. CASE S = Cells
      <4>1. todo'[c] = Tail(todo[c]) /\ sent'[c] = 0 /\ Len(todo'[c]) = L - 1
        BY <1>3, <1>6, <2>1, <3>1
      <4>2. At(R - (L - 1)) = At(R - L) + Cells + 1 /\ At(R - L) \in Int
        <5>1. R - L \in Int /\ R - (L - 1) = (R - L) + 1
          OBVIOUS
        <5> QED
          BY <5>1, AtNat
      <4>3. \A i \in 1 .. L - 1 : todo'[c][i] = ReplyTo(c, R - (L - 1) + i)
        <5> SUFFICES ASSUME NEW i \in 1 .. L - 1
                     PROVE  todo'[c][i] = ReplyTo(c, R - (L - 1) + i)
          OBVIOUS
        <5>1. i + 1 \in 1 .. L /\ R - L + (i + 1) = R - (L - 1) + i
          OBVIOUS
        <5>2. todo'[c][i] = todo[c][i + 1]
          BY <1>3, <2>1, <4>1
        <5>3. todo[c][i + 1] = ReplyTo(c, R - L + (i + 1))
          BY <2>3, <5>1
        <5> QED
          BY <5>1, <5>2, <5>3
      <4>4. G + (D + 1) = At(R - (L - 1)) + 0
        BY <1>2, <2>3, <3>1, <4>2
      <4>5. L - 1 <= R
        BY <2>3
      <4> QED
        BY <4>1, <4>3, <4>4, <4>5, Zenon
    <3>2. CASE S # Cells
      <4>1. todo'[c] = todo[c] /\ sent'[c] = S + 1 /\ Len(todo'[c]) = L
        BY <1>6, <2>1, <3>2
      <4>2. At(R - L) \in Int
        BY AtNat
      <4>3. G + (D + 1) = At(R - L) + (S + 1)
        BY <2>3, <4>2
      <4> QED
        BY <2>3, <4>1, <4>3
    <3> QED
      BY <3>1, <3>2
  <2>6. Len(down'[c]) = D + 1
    BY <1>5, <1>6, <2>1
  <2>7. Settled(c)'
    BY <1>6, <1>14 DEF Answering, Settled
  <2>8. /\ mode'[c] = "rows" => handled'[c].text = "rows"
        /\ mode'[c] = "answer" => count'[c] = 0
        /\ Taken(c)' < Replies(c)'
        /\ rcv'[c] # NoMessage => rcv'[c] = ReplyTo(c, Taken(c) + 1)'
    BY <1>6, <1>14, <2>1, <2>2 DEF Answering
  <2> QED
    BY <2>2, <2>4, <2>5, <2>6, <2>7, <2>8 DEF Answering
<1>15. Synchronous(c)'
  <2>1. ~ Quiet(c)
    BY <1>2 DEF Quiet
  <2>2. ToldTrue(c) => ToldTrue(c)'
    BY <1>6 DEF ToldTrue
  <2> QED
    BY <1>1, <1>6, <1>14, <2>1, <2>2 DEF Client, Synchronous, Waiting
<1> QED
  BY <1>1, <1>7, <1>8, <1>9, <1>10, <1>11, <1>12, <1>13, <1>15, Frame DEF IInv, Client

\* Only a client that has gone has its responses dropped.
LEMMA SendResponseFailsStep ==
  ASSUME IInv, NEW c \in Clients, SendResponseFails(c)
  PROVE  IInv'
<1>1. Client(c) /\ TypeOK
  BY DEF IInv
<1>2. /\ pc[c] = "send" /\ todo[c] # <<>> /\ mode[c] = "gone" /\ todo[c] \in Seq(Reply)
      /\ Cells \in Nat
  BY <1>1, Types, Numbers DEF SendResponseFails
<1>3. /\ sent'[c] = 0 /\ down'[c] = down[c]
      /\ pc'[c] = pc[c] /\ up'[c] = up[c] /\ request'[c] = request[c] /\ handled'[c] = handled[c]
      /\ left'[c] = left[c] /\ mode'[c] = mode[c] /\ rcv'[c] = rcv[c]
      /\ count'[c] = count[c] /\ asked'[c] = asked[c] /\ shown'[c] = shown[c]
      /\ torn'[c] = torn[c]
  BY <1>1 DEF SendResponseFails, TypeOK, client
<1>4. \A d \in Clients : d # c => Same(d)
  BY <1>1 DEF SendResponseFails, TypeOK, client, Same
<1>5. TypeOK'
  <2>1. Tail(todo[c]) \in Seq(Reply) /\ todo[c][Len(todo[c])] \in Reply
    <3>1. Len(todo[c]) \in 1 .. Len(todo[c])
      BY <1>2, TailOf
    <3> QED
      BY <1>2, <3>1, TailOf, ElementOfSeq
  <2>2. <<todo[c][Len(todo[c])]>> \in Seq(Reply)
    BY <2>1, SingleOf
  <2>3. todo' \in [Clients -> Seq(Reply)]
    <3> DEFINE rest == IF Head(todo[c]).case = "BATCH" THEN <<todo[c][Len(todo[c])]>> ELSE Tail(todo[c])
    <3>1. todo' = [todo EXCEPT ![c] = rest]
      BY DEF SendResponseFails
    <3>2. rest \in Seq(Reply)
      BY <2>1, <2>2
    <3> HIDE DEF rest
    <3> QED
      BY <1>1, <3>1, <3>2 DEF TypeOK
  <2>4. sent' \in [Clients -> 0 .. Cells]
    BY <1>1, <1>2 DEF SendResponseFails, TypeOK
  <2>5. err' \in [Clients -> BOOLEAN]
    BY <1>1 DEF SendResponseFails, TypeOK
  <2> QED
    BY <1>1, <2>3, <2>4, <2>5 DEF SendResponseFails, TypeOK, client
<1>6. Mutex'
  BY DEF SendResponseFails, IInv, Mutex
<1>7. Unsent(c)'
  BY <1>1, <1>3 DEF Client, Unsent
<1>8. Arriving(c)'
  <2>1. Base(c)' = Base(c)
    BY <1>3 DEF Base
  <2> QED
    BY <1>1, <1>3, <2>1 DEF Client, Arriving
<1>9. Known(c)' /\ Whole(c)'
  BY <1>1, <1>3 DEF Client, Known, Whole
<1>10. Synchronous(c)'
  <2>1. ToldTrue(c) => ToldTrue(c)'
    BY <1>3 DEF ToldTrue
  <2> QED
    BY <1>1, <1>2, <1>3, <2>1 DEF Client, Synchronous
<1> QED
  BY <1>1, <1>4, <1>5, <1>6, <1>7, <1>8, <1>9, <1>10, Frame DEF IInv, Client

-----------------------------------------------------------------------------
(***************************************************************************)
(* The steps of the client that receive                                    *)
(***************************************************************************)
\* What taking a message, or none, does to the types and to other clients.
LEMMA TakeOf ==
  ASSUME TypeOK, NEW c \in Clients, NEW m \in Reply \cup {NoMessage},
         mode[c] \in {"answer", "rows"}, Take(c, m)
  PROVE  /\ mode' \in [Clients -> Active \cup {"prompt", "gone"}]
         /\ count' \in [Clients -> Nat]
         /\ shown' \in [Clients -> Told \cup {NoMessage, NoAnswer}]
         /\ mode'[c] \in {"prompt", "answer", "rows"}
         /\ \A d \in Clients : d # c =>
               mode'[d] = mode[d] /\ count'[d] = count[d] /\ shown'[d] = shown[d]
<1>1. ASSUME NEW answer \in Told \cup {NoAnswer}, Show(c, answer)
      PROVE  /\ mode' \in [Clients -> Active \cup {"prompt", "gone"}]
             /\ count' \in [Clients -> Nat]
             /\ shown' \in [Clients -> Told \cup {NoMessage, NoAnswer}]
             /\ mode'[c] \in {"prompt", "answer", "rows"}
             /\ \A d \in Clients : d # c =>
                   mode'[d] = mode[d] /\ count'[d] = count[d] /\ shown'[d] = shown[d]
  BY <1>1 DEF Show, TypeOK, Active
<1>2. ASSUME m \in Reply
      PROVE  \A t \in {"error", "OK", "rows"}, n \in Nat : Answer(m.req, t, n) \in Told
  BY <1>2, Records DEF Answer, Told
<1>3. count[c] \in Nat
  BY DEF TypeOK
<1>4. CASE m = NoMessage \/ Show(c, NoAnswer)
  BY <1>1, <1>4 DEF Take
<1>5. CASE m # NoMessage /\ ~ Show(c, NoAnswer)
  <2>1. m \in Reply
    BY <1>5
  <2>2. CASE \E t \in {"error", "OK", "rows"}, n \in Nat : Show(c, Answer(m.req, t, n))
    BY <1>1, <1>2, <2>1, <2>2
  <2>3. CASE mode' = [mode EXCEPT ![c] = "rows"] /\ UNCHANGED <<shown, count>>
    BY <2>3 DEF TypeOK, Active
  <2>4. CASE count' = [count EXCEPT ![c] = @ + 1] /\ UNCHANGED <<shown, mode>>
    BY <2>4 DEF TypeOK
  <2> QED
    BY <1>3, <1>5, <2>2, <2>3, <2>4 DEF Take
<1> QED
  BY <1>4, <1>5

\* A client that receives leaves requests alone.
LEMMA ReceiverKeeps ==
  ASSUME NEW c \in Clients, Client(c),
         mode[c] \in {"answer", "rows"}, mode'[c] \in {"prompt", "answer", "rows"},
         UNCHANGED <<asked, left, up, thread>>
  PROVE  Unsent(c)' /\ Arriving(c)' /\ Known(c)' /\ Whole(c)'
<1>1. Unsent(c)'
  BY DEF Client, Unsent, Active
<1>2. Base(c)' = Base(c)
  BY DEF Base, thread
<1>3. Arriving(c)'
  BY <1>2 DEF Client, Arriving, thread
<1>4. Known(c)' /\ Whole(c)'
  BY DEF Client, Known, Whole, thread
<1> QED
  BY <1>1, <1>3, <1>4

\* The stream has ended: there is no answer, and the thread is gone.
LEMMA ReceiveEndStep ==
  ASSUME IInv, NEW c \in Clients, ReceiveEnd(c)
  PROVE  IInv'
<1>1. Client(c) /\ TypeOK
  BY DEF IInv
<1>2. /\ mode[c] \in {"answer", "rows"} /\ pc[c] = "closed" /\ down[c] = <<>> /\ Take(c, NoMessage)
      /\ UNCHANGED <<asked, left, torn, up, down, thread>>
      /\ rcv' = [rcv EXCEPT ![c] = NoMessage]
  BY DEF ReceiveEnd
<1>3. /\ mode' \in [Clients -> Active \cup {"prompt", "gone"}] /\ count' \in [Clients -> Nat]
      /\ shown' \in [Clients -> Told \cup {NoMessage, NoAnswer}]
      /\ mode'[c] \in {"prompt", "answer", "rows"}
      /\ \A d \in Clients : d # c =>
            mode'[d] = mode[d] /\ count'[d] = count[d] /\ shown'[d] = shown[d]
  BY <1>1, <1>2, TakeOf
<1>4. TypeOK'
  <2>1. rcv' \in [Clients -> Reply \cup {NoMessage, Garbage}]
    BY <1>1, <1>2 DEF TypeOK
  <2> QED
    BY <1>1, <1>2, <1>3, <2>1 DEF TypeOK, thread
<1>5. Mutex'
  BY <1>2 DEF IInv, Mutex, thread
<1>6. \A d \in Clients : d # c => Same(d)
  BY <1>1, <1>2, <1>3 DEF TypeOK, thread, Same
<1>7. Unsent(c)' /\ Arriving(c)' /\ Known(c)' /\ Whole(c)'
  BY <1>1, <1>2, <1>3, ReceiverKeeps
<1>8. Synchronous(c)'
  <2>1. mode'[c] = "prompt" /\ count'[c] = 0 /\ shown'[c] = NoAnswer
    BY <1>1, <1>2 DEF Take, Show, TypeOK
  <2>2. rcv'[c] = NoMessage /\ down'[c] = <<>> /\ pc'[c] = "closed"
    BY <1>1, <1>2 DEF TypeOK, thread
  <2>3. Quiet(c)' /\ ToldTrue(c)'
    BY <2>1, <2>2, NoAnswerNotTold DEF Quiet, ToldTrue
  <2> QED
    BY <2>1, <2>2, <2>3 DEF Synchronous
<1> QED
  BY <1>1, <1>4, <1>5, <1>6, <1>7, <1>8, Frame DEF IInv, Client

\* A client in step that has something to read is being answered.
LEMMA InStepAnswering ==
  ASSUME NEW c \in Clients, Synchronous(c), ~ torn[c], mode[c] \in {"answer", "rows"},
         down[c] # <<>> \/ rcv[c] # NoMessage
  PROVE  Answering(c) /\ shown[c] = NoMessage
  BY DEF Synchronous, Waiting, Quiet, ToldTrue

\* In step, the first cell is a size: that of the response after those taken.
LEMMA ReceiveSizeStep ==
  ASSUME IInv, NEW c \in Clients, ReceiveSize(c)
  PROVE  IInv'
<1>1. Client(c) /\ TypeOK
  BY DEF IInv
<1>2. /\ mode[c] \in {"answer", "rows"} /\ rcv[c] = NoMessage /\ down[c] # <<>>
      /\ UNCHANGED <<asked, left, torn, up, thread>>
      /\ down[c] \in Seq([m : Reply, part : 0 .. Cells])
  BY <1>1, Types DEF ReceiveSize
<1>3. /\ Tail(down[c]) \in Seq([m : Reply, part : 0 .. Cells])
      /\ Len(down[c]) \in Nat /\ Len(down[c]) >= 1
      /\ Len(Tail(down[c])) = Len(down[c]) - 1
      /\ \A i \in 1 .. Len(down[c]) - 1 : Tail(down[c])[i] = down[c][i + 1]
      /\ Head(down[c]) = down[c][1] /\ Head(down[c]) \in [m : Reply, part : 0 .. Cells]
  BY <1>2, TailOf
<1>4. /\ down' \in [Clients -> Seq([m : Reply, part : 0 .. Cells])]
      /\ rcv' \in [Clients -> Reply \cup {NoMessage, Garbage}]
      /\ \A d \in Clients : d # c => down'[d] = down[d] /\ rcv'[d] = rcv[d]
  <2>1. down' = down \/ down' = [down EXCEPT ![c] = Tail(down[c])]
    BY DEF ReceiveSize
  <2>2. \/ rcv' = rcv \/ rcv' = [rcv EXCEPT ![c] = Garbage]
        \/ rcv' = [rcv EXCEPT ![c] = Head(down[c]).m]
    BY DEF ReceiveSize
  <2>3. Head(down[c]).m \in Reply
    BY <1>3
  <2>4. /\ down' \in [Clients -> Seq([m : Reply, part : 0 .. Cells])]
        /\ \A d \in Clients : d # c => down'[d] = down[d]
    <3>1. down \in [Clients -> Seq([m : Reply, part : 0 .. Cells])]
      BY <1>1 DEF TypeOK
    <3>2. PICK t \in Seq([m : Reply, part : 0 .. Cells]) : t = Tail(down[c])
      BY <1>3
    <3>3. down' = down \/ down' = [down EXCEPT ![c] = t]
      BY <2>1, <3>2
    <3> QED
      BY <3>1, <3>2, <3>3
  <2>5. /\ rcv' \in [Clients -> Reply \cup {NoMessage, Garbage}]
        /\ \A d \in Clients : d # c => rcv'[d] = rcv[d]
    BY <1>1, <2>2, <2>3 DEF TypeOK
  <2> QED
    BY <2>4, <2>5
<1>5. /\ mode' \in [Clients -> Active \cup {"prompt", "gone"}] /\ count' \in [Clients -> Nat]
      /\ shown' \in [Clients -> Told \cup {NoMessage, NoAnswer}]
      /\ mode'[c] \in {"prompt", "answer", "rows"}
      /\ \A d \in Clients : d # c =>
            mode'[d] = mode[d] /\ count'[d] = count[d] /\ shown'[d] = shown[d]
  <2>1. CASE UNCHANGED <<mode, shown, count>>
    BY <1>1, <1>2, <2>1 DEF TypeOK
  <2>2. CASE Take(c, NoMessage)
    BY <1>1, <1>2, <2>2, TakeOf
  <2> QED
    BY <2>1, <2>2 DEF ReceiveSize
<1>6. TypeOK'
  BY <1>1, <1>2, <1>4, <1>5 DEF TypeOK, thread
<1>7. Mutex'
  BY <1>2 DEF IInv, Mutex, thread
<1>8. \A d \in Clients : d # c => Same(d)
  BY <1>1, <1>2, <1>4, <1>5 DEF TypeOK, thread, Same
<1>9. Unsent(c)' /\ Arriving(c)' /\ Known(c)' /\ Whole(c)'
  BY <1>1, <1>2, <1>5, ReceiverKeeps
<1>10. ASSUME ~ torn[c] PROVE Synchronous(c)'
  <2>1. Answering(c) /\ shown[c] = NoMessage
    BY <1>1, <1>2, <1>10, InStepAnswering DEF Client
  <2>2. PICK R, T, D \in Nat : R = Replies(c) /\ T = Taken(c) /\ D = Len(down[c])
    BY <1>1, <1>2, <1>3, <2>1, AnswerTypes DEF Client
  <2>3. Got(c) = At(T) /\ At(T) \in Int /\ T < R
    <3>1. At(T) \in Int
      BY AtNat
    <3>2. Got(c) = At(T)
      BY <1>2, <2>2, <3>1 DEF Got
    <3>3. T < R
      BY <2>1, <2>2 DEF Answering
    <3> QED
      BY <3>1, <3>2, <3>3
  <2>4. \A i \in 1 .. D : \E j \in 1 .. R :
           down[c][i].m = ReplyTo(c, j) /\ At(j - 1) + down[c][i].part = At(T) + i - 1
    BY <2>1, <2>2, <2>3 DEF Answering
  <2>5. down[c][1].part = 0 /\ down[c][1].m = ReplyTo(c, T + 1)
    <3>1. 1 \in 1 .. D /\ 1 \in 1 .. Len(down[c])
      BY <1>3, <2>2
    <3>2. PICK j \in 1 .. R :
             down[c][1].m = ReplyTo(c, j) /\ At(j - 1) + down[c][1].part = At(T) + 1 - 1
      BY <2>4, <3>1
    <3>3. At(j - 1) + down[c][1].part = At(T) + 0
      BY <2>3, <3>2
    <3>4. down[c][1].part \in 0 .. Cells /\ 0 \in 0 .. Cells
      BY <1>1, <3>1, Types, Numbers
    <3>5. j - 1 = T /\ down[c][1].part = 0
      BY <3>3, <3>4, AtUnique
    <3>6. j = T + 1
      BY <3>5
    <3> QED
      BY <3>2, <3>5, <3>6
  <2>6. /\ rcv'[c] = ReplyTo(c, T + 1) /\ down'[c] = Tail(down[c])
        /\ mode'[c] = mode[c] /\ shown'[c] = shown[c] /\ count'[c] = count[c]
    BY <1>1, <1>3, <2>5 DEF ReceiveSize, TypeOK
  <2>7. /\ Replies(c)' = R /\ Taken(c)' = T /\ \A j : ReplyTo(c, j)' = ReplyTo(c, j)
    BY <1>2, <2>2, <2>6 DEF Replies, Taken, ReplyTo, thread
  <2>8. Got(c)' = At(T) + 1
    <3>1. rcv'[c] # NoMessage
      BY <1>1, <1>2, <2>1, <2>6, AnswerTypes DEF Client
    <3> QED
      BY <2>7, <3>1 DEF Got
  <2>9. Len(down'[c]) = D - 1
    BY <1>3, <2>2, <2>6
  <2>10. \A i \in 1 .. D - 1 : \E j \in 1 .. R :
            down'[c][i].m = ReplyTo(c, j) /\ At(j - 1) + down'[c][i].part = At(T) + 1 + i - 1
    <3> SUFFICES ASSUME NEW i \in 1 .. D - 1
                 PROVE  \E j \in 1 .. R : /\ down'[c][i].m = ReplyTo(c, j)
                                          /\ At(j - 1) + down'[c][i].part = At(T) + 1 + i - 1
      OBVIOUS
    <3>1. i + 1 \in 1 .. D /\ At(T) + (i + 1) - 1 = At(T) + 1 + i - 1
      BY <2>3
    <3>2. down'[c][i] = down[c][i + 1]
      BY <1>3, <2>2, <2>6
    <3> QED
      BY <2>4, <3>1, <3>2
  <2>11. pc'[c] = "send" =>
            /\ Len(todo'[c]) <= R
            /\ \A i \in 1 .. Len(todo'[c]) : todo'[c][i] = ReplyTo(c, R - Len(todo'[c]) + i)
            /\ At(T) + 1 + (D - 1) = At(R - Len(todo'[c])) + sent'[c]
    <3> SUFFICES ASSUME pc[c] = "send"
                 PROVE  /\ Len(todo[c]) <= R
                        /\ \A i \in 1 .. Len(todo[c]) : todo[c][i] = ReplyTo(c, R - Len(todo[c]) + i)
                        /\ At(T) + 1 + (D - 1) = At(R - Len(todo[c])) + sent[c]
      BY <1>2 DEF thread
    <3>1. /\ Len(todo[c]) <= R
          /\ \A i \in 1 .. Len(todo[c]) : todo[c][i] = ReplyTo(c, R - Len(todo[c]) + i)
          /\ At(T) + D = At(R - Len(todo[c])) + sent[c]
      BY <2>1, <2>2, <2>3 DEF Answering
    <3>2. At(T) + 1 + (D - 1) = At(T) + D
      BY <2>3
    <3> QED
      BY <3>1, <3>2
  <2>12. Settled(c)'
    BY <1>2, <2>1 DEF Answering, Settled, thread
  <2>13. /\ mode'[c] = "rows" => handled'[c].text = "rows"
         /\ mode'[c] = "answer" => count'[c] = 0
    BY <1>2, <2>1, <2>6 DEF Answering, thread
  <2>14. Answering(c)'
    BY <2>3, <2>6, <2>7, <2>8, <2>9, <2>10, <2>11, <2>12, <2>13 DEF Answering
  <2>15. ToldTrue(c)'
    BY <2>1, <2>6, NoAnswerNotTold, Records DEF ToldTrue
  <2> QED
    BY <1>2, <2>6, <2>14, <2>15 DEF Synchronous
<1>11. Synchronous(c)'
  <2>1. torn'[c] = torn[c] /\ torn[c] \in BOOLEAN
    BY <1>1, <1>2 DEF TypeOK
  <2>2. CASE torn[c]
    BY <2>1, <2>2 DEF Synchronous
  <2> QED
    BY <1>10, <2>1, <2>2
<1> QED
  BY <1>1, <1>6, <1>7, <1>8, <1>9, <1>11, Frame DEF IInv, Client

\* What is left of the stream once T responses are taken.
Remains(c, rest, T) ==
    /\ \A i \in 1 .. Len(rest) : \E j \in 1 .. Replies(c) :
          rest[i].m = ReplyTo(c, j) /\ At(j - 1) + rest[i].part = At(T) + i - 1
    /\ pc[c] = "send" =>
          /\ Len(todo[c]) <= Replies(c)
          /\ \A i \in 1 .. Len(todo[c]) :
                todo[c][i] = ReplyTo(c, Replies(c) - Len(todo[c]) + i)
          /\ At(T) + Len(rest) = At(Replies(c) - Len(todo[c])) + sent[c]
    /\ T = Replies(c) => rest = <<>> /\ (pc[c] = "send" => todo[c] = <<>>)

\* A response that has come in whole is taken with all its cells and no others; after the
\* last one there is nothing in the stream, and nothing to be sent.
LEMMA Took ==
  ASSUME TypeOK, NEW c \in Clients, Unsent(c), Answering(c), mode[c] \in {"answer", "rows"},
         rcv[c] # NoMessage, Cells \in 1 .. Len(down[c]),
         NEW rest, rest = SubSeq(down[c], Cells + 1, Len(down[c])),
         NEW T \in Nat, T = Taken(c) + 1
  PROVE  Remains(c, rest, T)
<1>1. PICK R, D \in Nat : R = Replies(c) /\ D = Len(down[c])
  BY AnswerTypes, Types
<1>2. Cells \in Nat /\ Cells >= 1 /\ At(T - 1) \in Int /\ At(T) = At(T - 1) + Cells + 1 /\ At(T) \in Int
  <2>1. T - 1 \in Int /\ (T - 1) + 1 = T
    OBVIOUS
  <2> QED
    BY <2>1, AtNat, Numbers
<1>3. Got(c) = At(T - 1) + 1 /\ T <= R
  <2>1. Taken(c) = T - 1 /\ Taken(c) < R
    <3>1. PICK t \in Nat : t = Taken(c)
      BY AnswerTypes
    <3>2. t < R
      BY <1>1, <3>1 DEF Answering
    <3>3. t = T - 1
      BY <3>1
    <3> QED
      BY <3>1, <3>2, <3>3
  <2>2. Got(c) = At(Taken(c)) + 1
    BY DEF Got
  <2> QED
    BY <1>1, <2>1, <2>2
<1>4. /\ rest \in Seq([m : Reply, part : 0 .. Cells]) /\ Len(rest) = D - Cells
      /\ \A i \in 1 .. D - Cells : rest[i] = down[c][Cells + i]
  <2>1. down[c] \in Seq([m : Reply, part : 0 .. Cells])
    BY Types
  <2>2. Cells \in 0 .. Len(down[c])
    BY <1>1, <1>2
  <2> QED
    BY <1>1, <2>1, <2>2, DropOf
<1>5. ASSUME NEW i \in 1 .. Len(rest)
      PROVE  \E j \in 1 .. R :
                rest[i].m = ReplyTo(c, j) /\ At(j - 1) + rest[i].part = At(T) + i - 1
  <2>1. Cells + i \in 1 .. D /\ rest[i] = down[c][Cells + i]
    BY <1>2, <1>4
  <2>2. PICK j \in 1 .. R : /\ down[c][Cells + i].m = ReplyTo(c, j)
                            /\ At(j - 1) + down[c][Cells + i].part = Got(c) + (Cells + i) - 1
    BY <1>1, <2>1 DEF Answering
  <2>3. Got(c) + (Cells + i) - 1 = At(T) + i - 1
    BY <1>2, <1>3
  <2> QED
    BY <2>1, <2>2, <2>3
<1>6. pc[c] = "send" =>
         /\ Len(todo[c]) <= R
         /\ \A i \in 1 .. Len(todo[c]) : todo[c][i] = ReplyTo(c, R - Len(todo[c]) + i)
         /\ At(T) + Len(rest) = At(R - Len(todo[c])) + sent[c]
  <2> SUFFICES ASSUME pc[c] = "send"
               PROVE  /\ Len(todo[c]) <= R
                      /\ \A i \in 1 .. Len(todo[c]) : todo[c][i] = ReplyTo(c, R - Len(todo[c]) + i)
                      /\ At(T) + Len(rest) = At(R - Len(todo[c])) + sent[c]
    OBVIOUS
  <2>1. /\ Len(todo[c]) <= R
        /\ \A i \in 1 .. Len(todo[c]) : todo[c][i] = ReplyTo(c, R - Len(todo[c]) + i)
        /\ Got(c) + D = At(R - Len(todo[c])) + sent[c]
    BY <1>1 DEF Answering
  <2>2. At(T) + Len(rest) = Got(c) + D
    <3>1. At(T) = Got(c) + Cells /\ Got(c) \in Int /\ Cells \in Nat /\ D \in Nat
      BY <1>2, <1>3, SMTT(30)
    <3>2. Len(rest) = D - Cells
      BY <1>4
    <3> QED
      BY <3>1, <3>2
  <2> QED
    BY <2>1, <2>2
<1>7. ASSUME T = R PROVE rest = <<>> /\ (pc[c] = "send" => todo[c] = <<>>)
  <2>1. Len(rest) \in Nat
    BY <1>4
  <2>2. ~ Len(rest) >= 1
    <3> SUFFICES ASSUME Len(rest) >= 1 PROVE FALSE
      OBVIOUS
    <3>1. 1 \in 1 .. Len(rest)
      BY <2>1
    <3>2. PICK j \in 1 .. R :
             rest[1].m = ReplyTo(c, j) /\ At(j - 1) + rest[1].part = At(T) + 1 - 1
      BY <1>5, <3>1, ZenonT(40)
    <3>3. rest[1].part \in 0 .. Cells
      <4>1. rest \in Seq([m : Reply, part : 0 .. Cells])
        BY <1>4
      <4>2. rest[1] \in [m : Reply, part : 0 .. Cells]
        BY <3>1, <4>1, ElementOfSeq
      <4> QED
        BY <4>2
    <3>4. j - 1 \in Int /\ j - 1 < T /\ At(j - 1) \in Int
      <4>1. j \in 1 .. T
        BY <1>7, <3>2
      <4>2. j - 1 \in Int /\ j - 1 < T
        BY <4>1
      <4> QED
        BY <4>2, AtNat
    <3>5. At(j - 1) + Cells + 1 <= At(T)
      BY <3>4, AtOrder
    <3>6. rest[1].part <= Cells /\ rest[1].part \in Int /\ Cells \in Int
      BY <1>2, <3>3
    <3>7. At(T) + 0 = At(j - 1) + rest[1].part
      BY <1>2, <3>2
    <3> QED
      BY <1>2, <3>4, <3>5, <3>6, <3>7, NoRoom
  <2>3. rest = <<>>
    BY <1>4, <2>1, <2>2, EmptySeq
  <2>4. ASSUME pc[c] = "send" PROVE todo[c] = <<>>
    <3>1. todo[c] \in Seq(Reply) /\ Len(todo[c]) \in Nat /\ sent[c] \in 0 .. Cells
      BY Types
    <3>2. At(T) + Len(rest) = At(R - Len(todo[c])) + sent[c]
      BY <1>6, <2>4
    <3>3. ~ Len(todo[c]) >= 1
      <4> SUFFICES ASSUME Len(todo[c]) >= 1 PROVE FALSE
        OBVIOUS
      <4>1. R - Len(todo[c]) \in Int /\ R - Len(todo[c]) < T
        BY <1>7, <3>1
      <4> DEFINE L == R - Len(todo[c])
      <4>2. At(L) + Cells + 1 <= At(T) /\ At(L) \in Int
        <5> HIDE DEF L
        <5>1. L \in Int /\ T \in Int /\ L < T
          BY <1>7, <4>1 DEF L
        <5> QED
          BY <5>1, AtOrder, AtNat
      <4>3. sent[c] <= Cells /\ sent[c] \in Int /\ Cells \in Int
        BY <1>2, <3>1
      <4> QED
        BY <1>2, <2>1, <3>2, <4>2, <4>3, NoRoom
    <3> QED
      BY <3>1, <3>3, EmptySeq
  <2> QED
    BY <2>3, <2>4
<1> QED
  BY <1>1, <1>5, <1>6, <1>7 DEF Remains

\* The request functions take the j-th response for what it is: they tell the user what
\* the server did at the last one, and go on at each one before.
LEMMA AnswerTaken ==
  ASSUME TypeOK, NEW c \in Clients, Unsent(c), Answering(c), mode[c] \in {"answer", "rows"},
         NEW T \in Nat, T = Taken(c) + 1, rcv[c] = ReplyTo(c, T), shown[c] = NoMessage,
         Take(c, rcv[c])
  PROVE  \/ /\ mode'[c] = "prompt" /\ count'[c] = 0 /\ shown'[c] = handled[c] /\ T = Replies(c)
         \/ /\ mode'[c] = "rows" /\ count'[c] + 1 = T /\ shown'[c] = NoMessage
            /\ T < Replies(c) /\ handled[c].text = "rows"
<1> DEFINE m == ReplyTo(c, T)
<1>1. /\ asked[c] \in Message /\ handled[c] \in Told /\ Settled(c) /\ count[c] \in Nat
      /\ m.req = asked[c].req /\ m # NoMessage
  BY AnswerTypes, Types
<1>2. m.error <=> handled[c].text = "error"
  BY DEF ReplyTo
<1>3. /\ handled[c] = Answer(asked[c].req, handled[c].text, handled[c].rows)
      /\ handled[c].text \in {"error", "OK", "rows"} /\ handled[c].rows \in Nat
  BY <1>1 DEF Told, Answer, Settled
<1>4. /\ mode \in [Clients -> Active \cup {"prompt", "gone"}] /\ count \in [Clients -> Nat]
      /\ shown \in [Clients -> Told \cup {NoMessage, NoAnswer}]
  BY DEF TypeOK
<1>5. ASSUME NEW answer, Show(c, answer)
      PROVE  mode'[c] = "prompt" /\ count'[c] = 0 /\ shown'[c] = answer
  BY <1>4, <1>5 DEF Show
<1>6. T >= 1 /\ T <= Replies(c) /\ Replies(c) \in Nat
  <2>1. PICK R, t \in Nat : R = Replies(c) /\ t = Taken(c)
    BY AnswerTypes
  <2>2. t < R
    BY <2>1 DEF Answering
  <2> QED
    BY <2>1, <2>2
<1>7. CASE handled[c].text = "error"
  <2>1. Show(c, Answer(m.req, "error", 0))
    BY <1>1, <1>2, <1>7 DEF Take
  <2>2. handled[c].rows = 0
    BY <1>1, <1>7 DEF Settled
  <2>3. Replies(c) = 1
    BY <1>7 DEF Replies
  <2> QED
    <3>1. T = Replies(c)
      BY <1>6, <2>3
    <3>2. mode'[c] = "prompt" /\ count'[c] = 0 /\ shown'[c] = Answer(m.req, "error", 0)
      BY <1>5, <2>1
    <3> QED
      BY <1>1, <1>3, <1>7, <2>2, <3>1, <3>2
<1>8. CASE handled[c].text = "OK"
  <2>1. Replies(c) = 1 /\ T = 1
    BY <1>6, <1>8, AnswerTypes DEF Replies
  <2>2. mode[c] = "answer" /\ asked[c].case # "SELECT" /\ handled[c].rows = 0
    BY <1>1, <1>8 DEF Answering, Settled
  <2>3. m.case = asked[c].case /\ ~ m.error
    BY <1>2, <1>8, <2>1 DEF ReplyTo
  <2>4. Show(c, Answer(m.req, "OK", 0))
    BY <1>1, <2>2, <2>3 DEF Take, Kind
  <2> QED
    BY <1>1, <1>3, <1>5, <1>8, <2>1, <2>2, <2>4
<1>9. CASE handled[c].text = "rows" /\ mode[c] = "answer"
  <2>1. Replies(c) = handled[c].rows + 2 /\ T = 1 /\ count[c] = 0
    BY <1>9 DEF Replies, Taken, Answering
  <2>2. asked[c].case = "SELECT"
    BY <1>1, <1>9 DEF Settled
  <2>3. m.case = "SELECT" /\ ~ m.error
    BY <1>2, <1>9, <2>1, <2>2 DEF ReplyTo
  <2>4. mode' = [mode EXCEPT ![c] = "rows"] /\ UNCHANGED <<shown, count>>
    BY <1>1, <1>9, <2>2, <2>3 DEF Take, Kind
  <2>5. mode'[c] = "rows" /\ count'[c] = 0 /\ shown'[c] = NoMessage
    BY <1>4, <2>1, <2>4
  <2> QED
    BY <1>3, <1>9, <2>1, <2>5
<1>10. CASE handled[c].text = "rows" /\ mode[c] = "rows"
  <2>1. Replies(c) = handled[c].rows + 2 /\ T = count[c] + 2
    BY <1>1, <1>10 DEF Replies, Taken
  <2>2. ~ m.error
    BY <1>2, <1>10
  <2>3. CASE T = Replies(c)
    <3>1. T # 1
      BY <1>1, <2>1
    <3>2. m.case = "BATCH_END"
      BY <1>10, <2>3, <3>1 DEF ReplyTo
    <3>3. Show(c, Answer(m.req, "rows", count[c]))
      BY <1>1, <1>10, <2>2, <3>2 DEF Take
    <3>4. count[c] = handled[c].rows
      BY <1>1, <1>3, <2>1, <2>3
    <3> QED
      BY <1>1, <1>3, <1>5, <1>10, <2>3, <3>3, <3>4
  <2>4. CASE T < Replies(c)
    <3>1. T # 1 /\ T # Replies(c)
      BY <1>1, <1>6, <2>1, <2>4
    <3>2. m.case = "BATCH"
      BY <1>10, <3>1 DEF ReplyTo
    <3>3. count' = [count EXCEPT ![c] = @ + 1] /\ UNCHANGED <<shown, mode>>
      BY <1>1, <1>10, <2>2, <3>2 DEF Take
    <3>4. count'[c] = count[c] + 1
      BY <1>4, <3>3
    <3>5. count'[c] + 1 = T
      BY <1>1, <2>1, <3>4
    <3> QED
      BY <1>10, <2>4, <3>3, <3>5
  <2> QED
    BY <1>6, <2>3, <2>4
<1> QED
  BY <1>3, <1>7, <1>8, <1>9, <1>10

\* recv() returns the response in whole, or the client is out of step from now on.
LEMMA ReceiveBytesStep ==
  ASSUME IInv, NEW c \in Clients, ReceiveBytes(c)
  PROVE  IInv'
<1>1. Client(c) /\ TypeOK
  BY DEF IInv
<1>2. /\ mode[c] \in {"answer", "rows"} /\ rcv[c] # NoMessage
      /\ UNCHANGED <<asked, left, up, thread>>
      /\ rcv' = [rcv EXCEPT ![c] = NoMessage]
  BY DEF ReceiveBytes
<1>3. PICK n \in 1 .. Len(down[c]) :
         /\ down' = [down EXCEPT ![c] = SubSeq(down[c], n + 1, Len(down[c]))]
         /\ Take(c, IF rcv[c] # Garbage /\ n = Cells THEN rcv[c] ELSE NoMessage)
         /\ torn' = [torn EXCEPT ![c] = torn[c] \/ ~ (rcv[c] # Garbage /\ n = Cells)]
  BY DEF ReceiveBytes
<1> DEFINE m == IF rcv[c] # Garbage /\ n = Cells THEN rcv[c] ELSE NoMessage
<1>4. m \in Reply \cup {NoMessage}
  BY <1>1 DEF TypeOK
<1>5. /\ mode' \in [Clients -> Active \cup {"prompt", "gone"}] /\ count' \in [Clients -> Nat]
      /\ shown' \in [Clients -> Told \cup {NoMessage, NoAnswer}]
      /\ mode'[c] \in {"prompt", "answer", "rows"}
      /\ \A d \in Clients : d # c =>
            mode'[d] = mode[d] /\ count'[d] = count[d] /\ shown'[d] = shown[d]
  <2>1. Take(c, m)
    BY <1>3
  <2> HIDE DEF m
  <2> QED
    BY <1>1, <1>2, <1>4, <2>1, TakeOf
<1>6. PICK rest \in Seq([m : Reply, part : 0 .. Cells]) :
         /\ rest = SubSeq(down[c], n + 1, Len(down[c]))
         /\ down' = [down EXCEPT ![c] = rest]
  <2>1. down[c] \in Seq([m : Reply, part : 0 .. Cells]) /\ Len(down[c]) \in Nat
    BY <1>1, Types
  <2>2. n \in 0 .. Len(down[c])
    BY <2>1
  <2>3. SubSeq(down[c], n + 1, Len(down[c])) \in Seq([m : Reply, part : 0 .. Cells])
    BY <2>1, <2>2, DropOf
  <2> QED
    BY <1>3, <2>3
<1>7. TypeOK'
  <2>1. down' \in [Clients -> Seq([m : Reply, part : 0 .. Cells])]
    BY <1>1, <1>6 DEF TypeOK
  <2>2. torn' \in [Clients -> BOOLEAN]
    BY <1>1, <1>3 DEF TypeOK
  <2>3. rcv' \in [Clients -> Reply \cup {NoMessage, Garbage}]
    BY <1>1, <1>2 DEF TypeOK
  <2> QED
    BY <1>1, <1>2, <1>5, <2>1, <2>2, <2>3 DEF TypeOK, thread
<1>8. Mutex'
  BY <1>2 DEF IInv, Mutex, thread
<1>9. \A d \in Clients : d # c => Same(d)
  <2>1. \A d \in Clients : d # c => down'[d] = down[d] /\ torn'[d] = torn[d] /\ rcv'[d] = rcv[d]
    BY <1>1, <1>2, <1>3, <1>6 DEF TypeOK
  <2> QED
    BY <1>2, <1>5, <2>1 DEF thread, Same
<1>10. Unsent(c)' /\ Arriving(c)' /\ Known(c)' /\ Whole(c)'
  BY <1>1, <1>2, <1>5, ReceiverKeeps
<1>11. down'[c] = rest /\ rcv'[c] = NoMessage
  BY <1>1, <1>2, <1>6 DEF TypeOK
<1>12. ASSUME ~ torn[c], rcv[c] # Garbage, n = Cells PROVE Synchronous(c)'
  <2>1. Answering(c) /\ shown[c] = NoMessage /\ Unsent(c)
    BY <1>1, <1>2, <1>12, InStepAnswering DEF Client
  <2>2. PICK T \in Nat : T = Taken(c) + 1
    <3>1. Taken(c) \in Nat
      BY <1>1, <1>2, <2>1, AnswerTypes
    <3>2. Taken(c) + 1 \in Nat
      BY <3>1
    <3> QED
      BY <3>2
  <2>3. T = Taken(c) + 1 /\ rcv[c] = ReplyTo(c, T) /\ Take(c, rcv[c])
    BY <1>2, <1>3, <1>12, <2>1, <2>2 DEF Answering
  <2>4. \/ /\ mode'[c] = "prompt" /\ count'[c] = 0 /\ shown'[c] = handled[c] /\ T = Replies(c)
        \/ /\ mode'[c] = "rows" /\ count'[c] + 1 = T /\ shown'[c] = NoMessage
           /\ T < Replies(c) /\ handled[c].text = "rows"
    BY <1>1, <1>2, <2>1, <2>3, AnswerTaken
  <2>5. Cells \in 1 .. Len(down[c]) /\ rest = SubSeq(down[c], Cells + 1, Len(down[c]))
    BY <1>6, <1>12
  <2>6. Remains(c, rest, T)
    BY <1>1, <1>2, <2>1, <2>2, <2>3, <2>5, Took
  <2>7. torn'[c] = torn[c] /\ handled[c].req = asked[c].req /\ Settled(c)
        /\ handled[c] \in Told
    BY <1>1, <1>2, <1>3, <1>12, <2>1, AnswerTypes DEF TypeOK, Answering, Settled
  <2>8. CASE mode'[c] = "prompt" /\ count'[c] = 0 /\ shown'[c] = handled[c] /\ T = Replies(c)
    <3>1. Quiet(c)'
      BY <1>2, <1>11, <2>6, <2>8 DEF Remains, Quiet, thread
    <3>2. ToldTrue(c)'
      BY <1>2, <2>7, <2>8, NoAnswerNotTold, Records DEF ToldTrue, thread
    <3> QED
      BY <1>2, <2>7, <2>8, <3>1, <3>2 DEF Synchronous, thread
  <2>9. CASE /\ mode'[c] = "rows" /\ count'[c] + 1 = T /\ shown'[c] = NoMessage
             /\ T < Replies(c) /\ handled[c].text = "rows"
    <3>1. /\ Replies(c)' = Replies(c) /\ Taken(c)' = T /\ \A j : ReplyTo(c, j)' = ReplyTo(c, j)
      BY <1>2, <2>9 DEF Replies, Taken, ReplyTo, thread
    <3>2. Got(c)' = At(T)
      <4>1. At(T) \in Int
        BY AtNat
      <4> QED
        BY <1>11, <3>1, <4>1 DEF Got
    <3>3. Settled(c)'
      BY <1>2, <2>7 DEF Settled, thread
    <3>4. Answering(c)'
      <4>1. \A i \in 1 .. Len(rest) : \E j \in 1 .. Replies(c) :
               rest[i].m = ReplyTo(c, j) /\ At(j - 1) + rest[i].part = At(T) + i - 1
        BY <2>6 DEF Remains
      <4>2. pc'[c] = "send" =>
               /\ Len(todo'[c]) <= Replies(c)
               /\ \A i \in 1 .. Len(todo'[c]) :
                     todo'[c][i] = ReplyTo(c, Replies(c) - Len(todo'[c]) + i)
               /\ At(T) + Len(rest) = At(Replies(c) - Len(todo'[c])) + sent'[c]
        BY <1>2, <2>6 DEF Remains, thread
      <4>3. handled'[c].text = "rows"
        BY <1>2, <2>9 DEF thread
      <4> QED
        BY <1>11, <2>9, <3>1, <3>2, <3>3, <4>1, <4>2, <4>3 DEF Answering
    <3>5. ToldTrue(c)'
      BY <2>9, NoAnswerNotTold, Records DEF ToldTrue
    <3> QED
      BY <2>9, <3>4, <3>5 DEF Synchronous
  <2> QED
    BY <2>4, <2>8, <2>9
<1>13. Synchronous(c)'
  <2>1. torn[c] \in BOOLEAN /\ torn'[c] = (torn[c] \/ ~ (rcv[c] # Garbage /\ n = Cells))
    BY <1>1, <1>3 DEF TypeOK
  <2>2. CASE torn[c] \/ ~ (rcv[c] # Garbage /\ n = Cells)
    BY <2>1, <2>2 DEF Synchronous
  <2> QED
    BY <1>12, <2>1, <2>2
<1> QED
  BY <1>1, <1>7, <1>8, <1>9, <1>10, <1>13, Frame DEF IInv, Client

-----------------------------------------------------------------------------
(***************************************************************************)
(* The theorems                                                            *)
(***************************************************************************)
\* No step of a client, its thread or the process breaks the invariant.
LEMMA IInvStep == IInv /\ [Next]_vars => IInv'
<1> SUFFICES ASSUME IInv, [Next]_vars PROVE IInv'
  OBVIOUS
<1>1. CASE UNCHANGED vars
  <2>1. \A d \in Clients : Same(d)
    BY <1>1 DEF vars, client, thread, Same
  <2>2. TypeOK' /\ Mutex'
    BY <1>1 DEF vars, client, thread, IInv, TypeOK, Mutex
  <2> QED
    BY <2>1, <2>2, Frame DEF IInv
<1>2. CASE Next
  <2>1. PICK c \in Clients : User(c) \/ ClientStep(c) \/ Die(c) \/ ThreadStep(c) \/ Exit(c)
    BY <1>2 DEF Next
  <2>2. CASE User(c) \/ Die(c)
    <3>1. Ask(c) \/ Leave(c)
      BY <2>2 DEF User, Quit, Die
    <3> QED
      BY <3>1, AskStep, LeaveStep
  <2>3. CASE ClientStep(c)
    BY <2>3, SendRequestStep, SendRequestFailsStep, ReceiveSizeStep, ReceiveBytesStep,
       ReceiveEndStep DEF ClientStep, Receive
  <2>4. CASE ThreadStep(c)
    BY <2>4, HandleSizeStep, HandleBytesStep, HandleEndStep, LockStep, HandleStep,
       SendResponseStep, SendResponseFailsStep, UnlockStep DEF ThreadStep
  <2> QED
    BY <2>1, <2>2, <2>3, <2>4, ExitStep
<1> QED
  BY <1>1, <1>2

\* Streams, clients and threads agree at any time on what was asked, done and answered.
THEOREM Invariance == Spec => []IInv
  BY InitIInv, IInvStep, PTL DEF Spec

\* What a client tells its user of a request is what handleRequest did with that one, with
\* all its rows, until a message has come to it in pieces; of no answer it tells only when
\* its connection has ended.
THEOREM InStepHolds == Spec => []InStep
<1>1. IInv => InStep
  <2> SUFFICES ASSUME IInv, NEW c \in Clients
               PROVE  CASE torn[c] \/ shown[c] = NoMessage -> TRUE
                        [] shown[c] = NoAnswer /\ ~ torn[c] -> pc[c] = "closed"
                        [] OTHER -> shown[c] = handled[c] /\ shown[c].req = asked[c].req
    BY DEF InStep
  <2>1. Synchronous(c) /\ TypeOK
    BY DEF IInv, Client
  <2>2. CASE torn[c] \/ shown[c] = NoMessage
    BY <2>2, <2>1, NoAnswerNotTold DEF TypeOK
  <2>3. CASE ~ (torn[c] \/ shown[c] = NoMessage)
    <3>1. ToldTrue(c) /\ (shown[c] = NoAnswer \/ shown[c] \in Told)
      BY <2>1, <2>3, Types DEF Synchronous
    <3>2. CASE shown[c] = NoAnswer
      BY <2>3, <3>1, <3>2 DEF ToldTrue
    <3>3. CASE shown[c] # NoAnswer
      <4>1. shown[c] = handled[c] /\ shown[c].req = asked[c].req
        BY <3>1, <3>3 DEF ToldTrue
      <4> QED
        BY <2>3, <3>3, <4>1
    <3> QED
      BY <3>2, <3>3
  <2> QED
    BY <2>2, <2>3
<1> QED
  BY <1>1, Invariance, PTL

\* handleRequest is given the requests of a client in the order it sent them, none twice and
\* none after one that was left out, and while no other request is being answered.
THEOREM HandledInOrderHolds == Spec => HandledInOrder
<1> DEFINE InOrder == \A c \in Clients : handled'[c] # handled[c] =>
                         /\ handled'[c].req = handled[c].req + 1
                         /\ \A d \in Clients : pc[d] # "send"
<1>1. IInv /\ [Next]_vars => [InOrder]_vars
  <2> SUFFICES ASSUME IInv, Next, NEW c \in Clients, handled'[c] # handled[c]
               PROVE  handled'[c].req = handled[c].req + 1 /\ \A d \in Clients : pc[d] # "send"
    OBVIOUS
  <2>1. PICK d \in Clients : User(d) \/ ClientStep(d) \/ Die(d) \/ ThreadStep(d) \/ Exit(d)
    BY DEF Next
  <2>2. Handle(d)
    BY <2>1 DEF User, Ask, Quit, Die, Leave, ClientStep, SendRequest, SendRequestFails, Receive,
       ReceiveSize, ReceiveBytes, ReceiveEnd, ThreadStep, HandleSize, HandleBytes, HandleEnd, Lock,
       SendResponse, SendResponseFails, Unlock, Exit, client, thread
  <2>3. PICK answer : /\ handled' = [handled EXCEPT ![d] = answer]
                      /\ answer.req = request[d].req /\ pc[d] = "handle"
    BY <2>2 DEF Handle, Answer
  <2>4. c = d /\ handled'[c] = answer
    BY <2>3 DEF IInv, TypeOK
  <2>5. request[c].req = handled[c].req + 1
    BY <2>3, <2>4 DEF IInv, Client, Arriving
  <2>6. \A e \in Clients : pc[e] # "send"
    <3> SUFFICES ASSUME NEW e \in Clients, pc[e] = "send" PROVE FALSE
      OBVIOUS
    <3>1. lock = {e} /\ lock = {d}
      BY <2>3 DEF IInv, Mutex
    <3>2. e = d
      BY <3>1
    <3> QED
      BY <2>3, <3>2
  <2> QED
    BY <2>3, <2>4, <2>5, <2>6
<1> QED
  BY <1>1, Invariance, PTL DEF Spec, HandledInOrder
===============================================================================
