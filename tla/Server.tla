-------------------------------- MODULE Server --------------------------------
(***************************************************************************)
(* The threads of server/src: the one that accepts connections, one for    *)
(* each connection (Connection.c), and main, which stops them all          *)
(* (ServerFree).  Two mutexes: "db" of the DatabaseWrapper is held while a *)
(* request is handled and answered and while a socket is closed, "srv" of  *)
(* the Server guards the list of connections.                              *)
(*                                                                         *)
(* pthread_cancel is deferred: a cancelled thread ends in its next accept, *)
(* recv, send or close, or where it logs, and keeps the mutexes it holds.  *)
(* What a critical section of "srv" does is one step, nobody sees its      *)
(* middle.  The loop may read the number of a socket in a connection that  *)
(* is freed (Server.c:108); once freed memory is used in any other way     *)
(* nothing more is said.                                                   *)
(***************************************************************************)
EXTENDS Naturals, Sequences, SequencesExt

CONSTANTS
    Conns,          \* the connections that clients open, each once
    MaxRequests,    \* bound: requests in a connection
    Faults          \* whether accept and pthread_create may fail

ASSUME ServerAssumption ==
    /\ MaxRequests \in Nat /\ Faults \in BOOLEAN
    /\ Conns \cap {"main", "loop", "nobody"} = {}

VARIABLES
    at,             \* where every thread is
    hand,           \* the connection that main, and the loop, work on
    list,           \* server->connections
    freed,          \* the connections freed
    cancelled,      \* the threads that pthread_cancel has been called for
    db, srv,        \* who holds the mutexes
    asked,          \* requests received so far
    misuse,         \* history: "used" when a freed connection or list has been used,
                    \* or a thread cancelled that there is not; "read" when the loop
                    \* has only read the socket number of a freed connection
    quiet           \* history: nobody was busy when main began to stop, nor since
locks == <<db, srv>>
vars == <<at, hand, list, freed, cancelled, db, srv, asked, misuse, quiet>>

Threads == Conns \cup {"main", "loop"}
Hand(t) == IF t \in Conns THEN t ELSE hand[t]
Goto(t, label) == at' = [at EXCEPT ![t] = label]

Labels ==
    {"unborn", "accepted", "recv", "wait", "serve", "send", "sent", "failed", "log",
     "free", "close", "unlink", "ended", "dead",
     "accept", "append", "start", "report",
     "serving", "lock", "each", "destroy", "stopped"}

TypeOK ==
    /\ at \in [Threads -> Labels]
    /\ hand \in [{"main", "loop"} -> Conns \cup {"nobody"}]
    /\ list \in Seq(Conns) /\ IsInjective(list)
    /\ freed \subseteq Conns /\ cancelled \subseteq Threads \ {"main"}
    /\ db \in Threads \cup {"nobody"} /\ srv \in {"main", "nobody"}
    /\ asked \in [Conns -> 0 .. MaxRequests]
    /\ misuse \in {"none", "read", "used"} /\ quiet \in BOOLEAN

Init ==                         \* ServerNew, ServerStart
    /\ at = [t \in Threads |-> CASE t = "main" -> "serving" [] t = "loop" -> "accept"
                                 [] OTHER -> "unborn"]
    /\ hand = [t \in {"main", "loop"} |-> "nobody"]
    /\ list = <<>> /\ freed = {} /\ cancelled = {} /\ db = "nobody" /\ srv = "nobody"
    /\ asked = [c \in Conns |-> 0] /\ misuse = "none" /\ quiet = TRUE

UsedIf(wrong) == misuse' = IF wrong THEN "used" ELSE misuse
\* A thread reads the connection in its hands.
Touch(t) == UsedIf(Hand(t) \in freed)
\* What clients do in the middle of a stop.
Busy == quiet' = (quiet /\ at["main"] = "serving")

-----------------------------------------------------------------------------
(***************************************************************************)
(* ServerLoop, ServerAcceptConnection                                      *)
(***************************************************************************)
Accept(c) ==
    /\ at["loop"] = "accept" /\ "loop" \notin cancelled /\ at[c] = "unborn"
    /\ at' = [at EXCEPT !["loop"] = "append", ![c] = "accepted"]
    /\ hand' = [hand EXCEPT !["loop"] = c]
    /\ Busy
    /\ UNCHANGED <<list, freed, cancelled, locks, asked, misuse>>

\* accept fails, in the end because main has closed the socket; the loop ends.
AcceptFails ==
    /\ at["loop"] = "accept"
    /\ Faults \/ at["main"] # "serving"
    /\ Goto("loop", "ended")
    /\ UNCHANGED <<hand, list, freed, cancelled, locks, asked, misuse, quiet>>

AppendConnection ==
    /\ at["loop"] = "append" /\ srv = "nobody"
    /\ list' = Append(list, hand["loop"])
    /\ Goto("loop", "start")
    /\ UsedIf(at["main"] \in {"destroy", "stopped"})
    /\ UNCHANGED <<hand, freed, cancelled, locks, asked, quiet>>

ConnectionStart ==
    /\ at["loop"] = "start"
    /\ LET c == hand["loop"]
       IN  \/ at' = [at EXCEPT !["loop"] = "report", ![c] = "recv"]
           \/ Faults /\ Goto("loop", "free")
    /\ Touch("loop")
    /\ UNCHANGED <<hand, list, freed, cancelled, locks, asked, quiet>>

\* The loop reads the number of the socket again.  If the client has come and
\* gone meanwhile it reads freed memory, where there may be a -1 by now.
ReturnSocket ==
    /\ at["loop"] = "report"
    /\ \/ Goto("loop", "accept")
       \/ hand["loop"] \in freed /\ Goto("loop", "ended")
    /\ misuse' = IF hand["loop"] \in freed /\ misuse = "none" THEN "read" ELSE misuse
    /\ UNCHANGED <<hand, list, freed, cancelled, locks, asked, quiet>>

-----------------------------------------------------------------------------
(***************************************************************************)
(* handle, ConnectionRun                                                   *)
(***************************************************************************)
Receive(c) ==
    /\ at[c] = "recv" /\ c \notin cancelled
    /\ \/ /\ asked[c] < MaxRequests
          /\ asked' = [asked EXCEPT ![c] = @ + 1]
          /\ Goto(c, "wait")
       \/ Goto(c, "log") /\ UNCHANGED asked         \* the client has gone
    /\ Touch(c) /\ Busy
    /\ UNCHANGED <<hand, list, freed, cancelled, locks>>

LockDatabase(c) ==
    /\ at[c] = "wait" /\ db = "nobody"
    /\ db' = c
    /\ Goto(c, "serve")
    /\ Touch(c)
    /\ UNCHANGED <<hand, list, freed, cancelled, srv, asked, quiet>>

\* ConnectionHandle..., all but the sends.  An unknown request is not answered.
Serve(c) ==
    /\ at[c] = "serve"
    /\ Goto(c, "send") \/ Goto(c, "failed")
    /\ Touch(c)
    /\ UNCHANGED <<hand, list, freed, cancelled, locks, asked, quiet>>

Send(c) ==
    /\ at[c] = "send" /\ c \notin cancelled
    /\ Goto(c, "sent") \/ Goto(c, "failed")
    /\ Touch(c)
    /\ UNCHANGED <<hand, list, freed, cancelled, locks, asked, quiet>>

\* Mutant: a request that fails returns without unlocking.
UnlockUnlessFailed(c) ==
    /\ at[c] \in {"sent", "failed"}
    /\ db' = IF at[c] = "sent" THEN "nobody" ELSE db
    /\ Goto(c, IF at[c] = "sent" THEN "recv" ELSE "log")
    /\ Touch(c)
    /\ UNCHANGED <<hand, list, freed, cancelled, srv, asked, quiet>>

UnlockDatabase(c) ==
    /\ at[c] \in {"sent", "failed"}
    /\ db' = "nobody"
    /\ Goto(c, IF at[c] = "sent" THEN "recv" ELSE "log")
    /\ Touch(c)
    /\ UNCHANGED <<hand, list, freed, cancelled, srv, asked, quiet>>

Log(c) ==
    /\ at[c] = "log"
    /\ Goto(c, "free")
    /\ UNCHANGED <<hand, list, freed, cancelled, locks, asked, misuse, quiet>>

\* Cancellation takes effect; no mutex is unlocked.
Die(t) ==
    /\ t \in cancelled
    /\ at[t] \in {"accept", "recv", "send", "close", "log"}
    /\ Goto(t, "dead")
    /\ UNCHANGED <<hand, list, freed, cancelled, locks, asked, misuse, quiet>>

-----------------------------------------------------------------------------
(***************************************************************************)
(* ConnectionFree, called by the thread of the connection, by the loop     *)
(* when that thread cannot be started, and by main                         *)
(***************************************************************************)
LockToClose(t) ==
    /\ at[t] = "free" /\ db = "nobody"
    /\ db' = t
    /\ Goto(t, "close")
    /\ Touch(t)
    /\ UNCHANGED <<hand, list, freed, cancelled, srv, asked, quiet>>

\* Mutant: the mutex of the database is kept until that of the list is there.
CloseKeepsLock(t) ==
    /\ at[t] = "close" /\ t \notin cancelled
    /\ srv \in {"nobody", t}
    /\ db' = "nobody"
    /\ Goto(t, "unlink")
    /\ Touch(t)
    /\ UNCHANGED <<hand, list, freed, cancelled, srv, asked, quiet>>

CloseSocket(t) ==
    /\ at[t] = "close" /\ t \notin cancelled
    /\ db' = "nobody"
    /\ Goto(t, "unlink")
    /\ Touch(t)
    /\ UNCHANGED <<hand, list, freed, cancelled, srv, asked, quiet>>

\* Mutant: the head of the list goes, whoever it is.
UnlinkHead(t) ==
    /\ at[t] = "unlink" /\ srv \in {"nobody", t}
    /\ list' = Tail(list)
    /\ freed' = freed \cup {Hand(t)}
    /\ at' = IF t = "main" THEN [at EXCEPT ![t] = "each"]
             ELSE [at EXCEPT ![t] = "ended", ![Hand(t)] = "ended"]
    /\ Touch(t)
    /\ UNCHANGED <<hand, cancelled, locks, asked, quiet>>

\* The mutex is recursive: main holds it already.
Unlink(t) ==
    /\ at[t] = "unlink" /\ srv \in {"nobody", t}
    /\ list' = RemoveFirst(list, Hand(t))
    /\ freed' = freed \cup {Hand(t)}
    /\ at' = IF t = "main" THEN [at EXCEPT ![t] = "each"]
             ELSE [at EXCEPT ![t] = "ended", ![Hand(t)] = "ended"]
    /\ Touch(t)
    /\ UNCHANGED <<hand, cancelled, locks, asked, quiet>>

-----------------------------------------------------------------------------
(***************************************************************************)
(* ServerFree                                                              *)
(***************************************************************************)
Stop ==
    /\ at["main"] = "serving"
    /\ Goto("main", "lock")
    /\ cancelled' = cancelled \cup {"loop"}
    /\ quiet' = /\ \A c \in Conns : at[c] \in {"unborn", "recv", "ended"}
                /\ at["loop"] \in {"accept", "ended"}
    /\ UNCHANGED <<hand, list, freed, locks, asked, misuse>>

LockServer ==
    /\ at["main"] = "lock" /\ srv = "nobody"
    /\ srv' = "main"
    /\ Goto("main", "each")
    /\ UNCHANGED <<hand, list, freed, cancelled, db, asked, misuse, quiet>>

\* A connection whose thread is not created yet has no thread to cancel.
ConnectionStop ==
    /\ at["main"] = "each" /\ list # <<>>
    /\ hand' = [hand EXCEPT !["main"] = Head(list)]
    /\ cancelled' = cancelled \cup {Head(list)}
    /\ UsedIf(at[Head(list)] = "accepted")
    /\ Goto("main", "free")
    /\ UNCHANGED <<list, freed, locks, asked, quiet>>

UnlockServer ==
    /\ at["main"] = "each" /\ list = <<>>
    /\ srv' = "nobody"
    /\ Goto("main", "destroy")
    /\ UNCHANGED <<hand, list, freed, cancelled, db, asked, misuse, quiet>>

Destroy ==                      \* up to the end of the process
    /\ at["main"] = "destroy"
    /\ Goto("main", "stopped")
    /\ UNCHANGED <<hand, list, freed, cancelled, locks, asked, misuse, quiet>>

-----------------------------------------------------------------------------
Handling(c) ==
    LockDatabase(c) \/ Serve(c) \/ Send(c) \/ UnlockDatabase(c) \/ Log(c)
Freeing(t) == LockToClose(t) \/ CloseSocket(t) \/ Unlink(t)
Stopping == LockServer \/ ConnectionStop \/ UnlockServer \/ Destroy
LoopStep == AppendConnection \/ ConnectionStart \/ ReturnSocket

Running == misuse # "used" /\ at["main"] # "stopped"
Next ==
    /\ Running
    /\ \/ \E c \in Conns : Accept(c) \/ Receive(c) \/ Handling(c)
       \/ \E t \in Threads : Freeing(t) \/ Die(t)
       \/ AcceptFails \/ LoopStep \/ Stop \/ Stopping

Spec == Init /\ [][Next]_vars

\* Every thread runs on, as long as nothing blocks it; clients read their
\* answers, but need not ask, leave or connect.
Fairness ==
    /\ \A c \in Conns : WF_vars(Running /\ Handling(c))
    /\ \A t \in Threads : WF_vars(Running /\ Freeing(t)) /\ WF_vars(Running /\ Die(t))
    /\ WF_vars(Running /\ LoopStep) /\ WF_vars(Running /\ Stopping)
FairSpec == Spec /\ Fairness

-----------------------------------------------------------------------------
(***************************************************************************)
(* Properties                                                              *)
(***************************************************************************)

\* While the server serves, its list has exactly the connections whose threads
\* run or are about to, each freed once, when its thread ends or could not be started,
\* and nobody uses a connection that is freed but the loop, which may read its
\* socket number on the way to the next accept (ReturnSocket); and the types.
ListExact ==
    /\ TypeOK
    /\ at["main"] = "serving" =>
       /\ misuse # "used"
       /\ ToSet(list) = {c \in Conns :
             at[c] \notin {"unborn", "ended"} /\ ~ (hand["loop"] = c /\ at["loop"] = "append")}
       /\ freed = {c \in Conns : at[c] = "ended"}

\* A request that has been received is handled, and its client answered or let
\* go, whatever the other clients do; until the server is stopped.
Served ==
    \A c \in Conns :
       at[c] = "wait" ~> (at[c] \in {"recv", "free"} \/ at["main"] # "serving")

\* Stopping comes to its end, unless somebody was busy: then main may wait for a
\* mutex that a cancelled thread held when it died, or memory be used when freed.
StopEnds ==
    at["main"] = "lock" ~> \/ at["main"] = "stopped"
                           \/ ~ quiet /\ (misuse = "used" \/ (db # "nobody" /\ at[db] = "dead"))
=============================================================================
