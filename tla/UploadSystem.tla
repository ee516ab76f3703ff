---------------------------- MODULE UploadSystem ----------------------------
(***************************************************************************)
(* UploadClient and FileServer over the connections between them: the      *)
(* client's threads write the streams that the server's threads read.      *)
(* Server.java accepts a connection whenever the client opens one; its     *)
(* thread finds nothing to read before that.                               *)
(***************************************************************************)
EXTENDS FileServer

CONSTANTS Uploads, Size, NoFile, Nobody, MaxLive, MayRefuse

VARIABLES fileName, networkUtil, entered, cpc, util, name, opened, wired,
          socket, out1, sentn

Client == INSTANCE UploadClient

\* The client's disk has a size for each name, -1 where there is no file.
ASSUME SystemAssumption ==
    /\ IsFiniteSet(Uploads)
    /\ Size \in [Names -> Nat \cup {-1}]
    /\ NoFile \notin Names
    /\ 0 \notin Conns

clvars == <<fileName, networkUtil, entered, cpc, util, name, opened, wired,
            socket, out1, sentn>>
srvars == <<script, rpos, rbuf, pc, req, tmp, off, httpResponse,
            httpRequestCount, lognum, logs, served, fs, out, closed>>
sysvars == <<stream, eof, srvars, clvars>>

SysInit ==
    /\ InitServer
    /\ Client!Init
    /\ script = [c \in Conns |-> <<>>]

Serve(c) == Thread(c) /\ UNCHANGED clvars
Run(t) == Client!Run(t) /\ UNCHANGED srvars
Enter(t, f) == Client!Enter(t, f) /\ UNCHANGED srvars

SysNext ==
    \/ \E c \in Conns : Serve(c)
    \/ \E t \in Uploads : Run(t) \/ \E f \in Names : Enter(t, f)

SysSpec == SysInit /\ [][SysNext]_sysvars
SysFairSpec ==
    /\ SysSpec
    /\ \A c \in Conns : WF_sysvars(Serve(c))
    /\ \A t \in Uploads : WF_sysvars(Run(t))

-----------------------------------------------------------------------------
(* Properties *)

Content(f) == [i \in 1 .. Size[f] |-> Fragment(f, i)]

\* Nobody is sending or receiving f: the server's threads have closed, or go
\* round their loop at the end of the stream.
Settled(f) ==
    /\ \A t \in Uploads : entered[t] = f => cpc[t] = "end"
    /\ \A c \in Conns :
           Upload(f) \in Units(c) => closed[c] \/ (pc[c] = "loop" /\ AtEnd(c))

\* The upload of t is over, and nobody else has uploaded its file.
Over(t) ==
    /\ entered[t] # NoFile /\ Settled(entered[t])
    /\ \A s \in Uploads \ {t} : entered[s] # entered[t]

\* t had a connection and a file, and the server takes files of that name.
Taken(t) ==
    /\ socket[t] # 0 /\ Size[entered[t]] >= 0
    /\ Accepts(entered[t]) /\ entered[t] \notin Unstorable

\* What the client sends after the two lines.
Data(f) == SubSeq(Client!Message(f), 3, Len(Client!Message(f)))

\* End to end, for uploads that follow one another: once the upload of a file
\* named once is over, each of its fragments is in the server's file, in order,
\* except for leading ones that the BufferedReader took ahead and still holds;
\* and an upload that was refused has not touched the server's file.  (The
\* client never waits for the server, so the threads that receive a file named
\* twice overlap even then.)
StoredOrHeld ==
    \A t \in Uploads :
        LET f == entered[t]
        IN  Over(t) =>
               IF Taken(t)
               THEN \E c \in Conns :
                       Upload(f) \in Units(c) /\ rbuf[c] \o fs[f] = Data(f)
               ELSE fs[f] = OnDisk[f]

\* Assignment: "Upload the file to the specified directory of the server in
\* fragments": once the upload of a file that client and server both take is
\* over, the server's file is the client's.  readFileFromClient() opens a stream
\* of its own below the BufferedReader and loses what that has read ahead.
FileUploaded ==
    \A t \in Uploads :
        Over(t) /\ Taken(t) /\ Ext[entered[t]] \in Client!ClientExt
            => fs[entered[t]] = Content(entered[t])

\* An upload the client sends in full is received: the server's thread leaves
\* its loop and closes the connection it was given.
UploadCompletes ==
    \A t \in Uploads :
        cpc[t] = "close" /\ Ext[name[t]] \in Client!ClientExt
        /\ sentn[t] = Size[name[t]]
            ~> \E c \in Conns : closed[c] /\ Upload(name[t]) \in Units(c)

\* With one upload at a time the client keeps its own promises: each thread
\* sends its user's file on its own connection, and leaves nothing open.
ClientSendsAndCloses == Client!UploadSent /\ Client!NothingLeftOpen
=============================================================================
