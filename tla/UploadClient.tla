---------------------------- MODULE UploadClient ----------------------------
(***************************************************************************)
(* The upload client (src/Socket Programming/src): Client.java creates one *)
(* WriteClient, whose constructor reads file names from the console and    *)
(* starts a thread for each.  All those threads run on the SAME object:    *)
(* they share its fields fileName and networkUtil.  A thread connects,     *)
(* stores the connection in the field, reads both fields again and calls   *)
(* NetworkUtil.writeFromClient().                                          *)
(*                                                                         *)
(* A NetworkUtil is named by the thread that created it.  Its socket is a  *)
(* connection; stream and eof are what the server sees of each connection. *)
(***************************************************************************)
EXTENDS Integers, Sequences, SequencesExt, FiniteSets

CONSTANTS
    Uploads,    \* the threads, one for each name entered
    Names,      \* the names a user may enter
    Ext,        \* Ext[f]: the extension of file f
    Size,       \* Size[f]: fragments of f on the client's disk; -1: no file
    Conns,      \* connections the operating system can give
    NoFile,     \* fileName before anything is entered
    Nobody,     \* networkUtil before any thread has connected
    MaxLive,    \* bound: uploads the user has under way at once
    MayRefuse   \* the server may be unreachable when a thread connects

VARIABLES
    stream,     \* stream[k]: what has been written on connection k
    eof,        \* eof[k]: connection k has been closed
    fileName,   \* the field
    networkUtil,\* the field: the thread whose NetworkUtil it refers to
    entered,    \* entered[t]: the name entered for thread t, or NoFile
    cpc,        \* cpc[t]: where run() is
    util,       \* util[t]: the NetworkUtil the thread calls
    name,       \* name[t]: the file name it passes
    opened,     \* the connections opened so far
    wired,      \* wired[u]: the connection under the PrintWriter and the
                \* BufferedReader of NetworkUtil u, 0: it has none
    socket,     \* socket[u]: the connection of its field socket, 0: null
    out1,       \* out1[t]: the connection the thread sends its file on
    sentn       \* sentn[t]: fragments the thread has written

conns == <<stream, eof, opened, wired, socket>>
cvars == <<fileName, networkUtil, entered, cpc, util, name, opened, wired,
           socket, out1, sentn>>
vars == <<stream, eof, cvars>>

-----------------------------------------------------------------------------

Fragment(f, i) == [t |-> "data", of |-> f, n |-> i]
\* writeFromClient() sends these; the server accepts "jpeg" as well.
ClientExt == {"jpg", "png", "txt", "mp4"}

ASSUME ClientAssumption ==
    /\ 0 \notin Conns
    /\ MaxLive \in Nat \ {0}
    /\ MayRefuse \in BOOLEAN
    /\ Cardinality(Conns) >= 2 * Cardinality(Uploads)

Live == {t \in Uploads : cpc[t] \notin {"new", "end"}}
\* The next connection: one that has never been opened.
FreshConn == CHOOSE k \in Conns : k \notin opened

Goto(t, l) == cpc' = [cpc EXCEPT ![t] = l]
\* The connection the NetworkUtil that thread t calls was created with: its
\* streams stay with it when writeFromClient() replaces the socket.
Wire(t) == wired[util[t]]
\* Mutant: the socket stays open.
ClosingNothing(k) == eof
\* Closing a connection; closeConnection() without one does nothing.
Closing(k) == [j \in Conns |-> eof[j] \/ j = k]
\* A PrintWriter swallows the error of a closed socket.
Put(t, u) ==
    stream' = IF eof[Wire(t)] THEN stream
              ELSE [stream EXCEPT ![Wire(t)] = Append(@, u)]

-----------------------------------------------------------------------------
(* WriteClient: the constructor's loop and run() *)

\* nextLine(), fileName = ..., and the start of a thread.
Enter(t, f) ==
    /\ cpc[t] = "new"
    /\ \A s \in Uploads : s < t => cpc[s] # "new"
    /\ Cardinality(Live) < MaxLive
    /\ fileName' = f
    /\ entered' = [entered EXCEPT ![t] = f]
    /\ Goto(t, "connect")
    /\ UNCHANGED <<conns, networkUtil, util, name, out1, sentn>>

\* this.networkUtil = new NetworkUtil(...).  The constructor swallows the
\* exception of a connection that fails and leaves the object without socket.
Connect(t) ==
    /\ cpc[t] = "connect"
    /\ \/ /\ Conns # opened
          /\ socket' = [socket EXCEPT ![t] = FreshConn]
          /\ wired' = [wired EXCEPT ![t] = FreshConn]
          /\ opened' = opened \cup {FreshConn}
       \/ MayRefuse /\ UNCHANGED <<socket, wired, opened>>
    /\ networkUtil' = t
    /\ Goto(t, "callee")
    /\ UNCHANGED <<stream, eof, fileName, entered, util, name, out1, sentn>>

\* this.networkUtil.writeFromClient(fileName): the object ...
LoadUtil(t) ==
    /\ cpc[t] = "callee"
    /\ util' = [util EXCEPT ![t] = networkUtil]
    /\ Goto(t, "argument")
    /\ UNCHANGED <<conns, fileName, networkUtil, entered, name, out1, sentn>>

\* ... and then the argument.
LoadName(t) ==
    /\ cpc[t] = "argument"
    /\ name' = [name EXCEPT ![t] = fileName]
    /\ Goto(t, "request")
    /\ UNCHANGED <<conns, fileName, networkUtil, entered, util, out1, sentn>>

-----------------------------------------------------------------------------
(* NetworkUtil.writeFromClient() *)

\* Without a socket there is no PrintWriter: the exception leads to finally.
PrintRequest(t) ==
    /\ cpc[t] = "request"
    /\ \/ /\ Wire(t) # 0
          /\ Put(t, [t |-> "UPLOAD", of |-> name[t]])
          /\ Goto(t, "validity")
       \/ /\ Wire(t) = 0
          /\ Goto(t, "finally")
          /\ UNCHANGED stream
    /\ UNCHANGED <<eof, opened, wired, socket, fileName, networkUtil, entered,
                   util, name, out1, sentn>>

\* The server is told whether the file exists; its format is only then looked
\* at, and the server is not told.
PrintValidity(t) ==
    /\ cpc[t] = "validity"
    /\ Put(t, [t |-> IF Size[name[t]] >= 0 THEN "valid" ELSE "invalid"])
    /\ Goto(t, IF Size[name[t]] >= 0 /\ Ext[name[t]] \in ClientExt
               THEN "open" ELSE "close")
    /\ UNCHANGED <<eof, opened, wired, socket, fileName, networkUtil, entered,
                   util, name, out1, sentn>>

\* Is the socket closed?  Another thread may have done it.
CheckSocket(t) ==
    /\ cpc[t] = "open"
    /\ Goto(t, IF eof[socket[util[t]]] THEN "reopen" ELSE "stream")
    /\ UNCHANGED <<conns, fileName, networkUtil, entered, util, name, out1,
                   sentn>>

\* A closed socket is replaced inside the NetworkUtil; a connection that is
\* refused raises the exception that ends the transfer.
Reopen(t) ==
    /\ cpc[t] = "reopen"
    /\ \/ /\ Conns # opened
          /\ socket' = [socket EXCEPT ![util[t]] = FreshConn]
          /\ opened' = opened \cup {FreshConn}
          /\ Goto(t, "stream")
       \/ /\ MayRefuse
          /\ Goto(t, "close")
          /\ UNCHANGED <<socket, opened>>
    /\ UNCHANGED <<stream, eof, wired, fileName, networkUtil, entered, util,
                   name, out1, sentn>>

\* The output stream of what the socket field is by now.
OpenStream(t) ==
    /\ cpc[t] = "stream"
    /\ LET k == socket[util[t]]
       IN  /\ out1' = [out1 EXCEPT ![t] = k]
           /\ Goto(t, IF eof[k] THEN "close" ELSE "send")
    /\ sentn' = [sentn EXCEPT ![t] = 0]
    /\ UNCHANGED <<conns, fileName, networkUtil, entered, util, name>>

\* Mutant: the exception of a closed socket is ignored and the loop goes on.
SendFragmentRetry(t) ==
    /\ cpc[t] = "send"
    /\ sentn[t] < Size[name[t]]
    /\ ~eof[out1[t]]
    /\ stream' = [stream EXCEPT ![out1[t]] =
                     Append(@, Fragment(name[t], sentn[t] + 1))]
    /\ sentn' = [sentn EXCEPT ![t] = @ + 1]
    /\ UNCHANGED <<eof, opened, wired, socket, fileName, networkUtil, entered,
                   cpc, util, name, out1>>

\* A fragment, or the exception a closed socket raises.
SendFragment(t) ==
    /\ cpc[t] = "send"
    /\ sentn[t] < Size[name[t]]
    /\ \/ /\ ~eof[out1[t]]
          /\ stream' = [stream EXCEPT ![out1[t]] =
                           Append(@, Fragment(name[t], sentn[t] + 1))]
          /\ sentn' = [sentn EXCEPT ![t] = @ + 1]
          /\ UNCHANGED cpc
       \/ /\ eof[out1[t]]
          /\ Goto(t, "close")
          /\ UNCHANGED <<stream, sentn>>
    /\ UNCHANGED <<eof, opened, wired, socket, fileName, networkUtil, entered,
                   util, name, out1>>

\* out1.close() after the last fragment.
EndSend(t) ==
    /\ cpc[t] = "send"
    /\ sentn[t] >= Size[name[t]]
    /\ eof' = Closing(out1[t])
    /\ Goto(t, "close")
    /\ UNCHANGED <<stream, opened, wired, socket, fileName, networkUtil, entered,
                   util, name, out1, sentn>>

\* closeConnection() at the end of writeFromClient(): the streams the
\* NetworkUtil was created with, not a socket that has replaced theirs.
CloseOwn(t) ==
    /\ cpc[t] = "close"
    /\ eof' = Closing(Wire(t))
    /\ Goto(t, "finally")
    /\ UNCHANGED <<stream, opened, wired, socket, fileName, networkUtil, entered,
                   util, name, out1, sentn>>

\* finally: this.networkUtil.closeConnection(), whatever the field is by now.
CloseField(t) ==
    /\ cpc[t] = "finally"
    /\ eof' = Closing(wired[networkUtil])
    /\ Goto(t, "end")
    /\ UNCHANGED <<stream, opened, wired, socket, fileName, networkUtil, entered,
                   util, name, out1, sentn>>

-----------------------------------------------------------------------------

InitClient ==
    /\ fileName = NoFile
    /\ networkUtil = Nobody
    /\ entered = [t \in Uploads |-> NoFile]
    /\ cpc = [t \in Uploads |-> "new"]
    /\ util = [t \in Uploads |-> t]
    /\ name = [t \in Uploads |-> NoFile]
    /\ opened = {}
    /\ wired = [t \in Uploads |-> 0]
    /\ socket = [t \in Uploads |-> 0]
    /\ out1 = [t \in Uploads |-> 0]
    /\ sentn = [t \in Uploads |-> 0]

Init ==
    /\ InitClient
    /\ stream = [k \in Conns |-> <<>>]
    /\ eof = [k \in Conns |-> FALSE]

Run(t) ==
    \/ Connect(t) \/ LoadUtil(t) \/ LoadName(t)
    \/ PrintRequest(t) \/ PrintValidity(t)
    \/ CheckSocket(t) \/ Reopen(t) \/ OpenStream(t)
    \/ SendFragment(t) \/ EndSend(t) \/ CloseOwn(t) \/ CloseField(t)

Next == \E t \in Uploads : Run(t) \/ \E f \in Names : Enter(t, f)

Spec == Init /\ [][Next]_vars
FairSpec == Spec /\ \A t \in Uploads : WF_vars(Run(t))

-----------------------------------------------------------------------------
(* Properties *)

\* Everything the upload of f puts on its connection.
Message(f) ==
    <<[t |-> "UPLOAD", of |-> f]>>
    \o (IF Size[f] >= 0 THEN <<[t |-> "valid"]>> ELSE <<[t |-> "invalid"]>>)
    \o (IF Size[f] >= 0 /\ Ext[f] \in ClientExt
        THEN [i \in 1 .. Size[f] |-> Fragment(f, i)] ELSE <<>>)

\* Assignment: "a client can upload multiple files in parallel": a thread
\* that has ended has sent the file its user named, all of it and on a
\* connection of its own, which is closed.
UploadSent ==
    \A t \in Uploads :
        cpc[t] = "end" /\ socket[t] # 0 =>
            \E k \in Conns : eof[k] /\ stream[k] = Message(entered[t])

\* No connection outlives the threads: the server's threads are not left
\* waiting for a peer that has forgotten them.
NothingLeftOpen == Live = {} => \A k \in opened : eof[k]

\* Every upload comes to its end, also when threads close each other's
\* sockets and replace them.
UploadsEnd == \A t \in Uploads : cpc[t] = "connect" ~> cpc[t] = "end"
=============================================================================
