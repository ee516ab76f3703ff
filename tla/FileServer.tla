----------------------------- MODULE FileServer -----------------------------
(***************************************************************************)
(* The HTTP file server (src/Socket Programming/src): Server.java accepts  *)
(* connections and starts one HttpFileServer thread for each, which reads  *)
(* request lines through NetworkUtil.java and answers GET and UPLOAD.      *)
(*                                                                         *)
(* A connection is named by its thread.  What a peer sends is a sequence   *)
(* of units: request lines, the validity line of an upload and the 1024    *)
(* byte fragments of a file.  What the server sends is a sequence of       *)
(* tokens: response heads, stray line ends and pieces of a body.           *)
(* A thread is preempted between any two accesses to what threads share:   *)
(* httpRequestCount, the log files and the files it serves.                *)
(***************************************************************************)
EXTENDS Integers, Sequences, SequencesExt, FiniteSets

CONSTANTS
    Conns,      \* connections, and the server threads that serve them
    Names,      \* files of the server's directory
    Ext,        \* Ext[f]: the extension of file f
    Dir,        \* the directory, as a path one may GET
    OnDisk,     \* OnDisk[f]: the content of f at the start, or Absent
    Absent,     \* no such file; as the operand of a line: it has none
    Hole,       \* a fragment of zeros, in a file written past its end
    Unstorable, \* names FileOutputStream refuses
    Sends,      \* the unit sequences a peer may send
    MayCrash    \* peers may hang up before they have sent everything

VARIABLES
    stream,     \* stream[c]: everything the peer has sent so far
    eof,        \* eof[c]: the peer has closed its side
    script,     \* script[c]: what the peer still means to send
    rpos,       \* rpos[c]: units of stream[c] taken from the socket
    rbuf,       \* rbuf[c]: units the BufferedReader holds
    pc,         \* pc[c]: where run() is
    req,        \* req[c]: the path or file name of the current request
    tmp,        \* tmp[c]: the value httpRequestCount++ has loaded, or a length
    off,        \* off[c]: fragments read or written by the current transfer
    httpResponse,      \* httpResponse[c]: the field, a sequence of heads
    httpRequestCount,  \* the static counter
    lognum,     \* lognum[c]: number of the log file the thread writes
    logs,       \* logs[n]: the request that log file n describes
    served,     \* served[c]: GET requests the thread has finished
    fs,         \* fs[f]: content of file f, or Absent
    out,        \* out[c]: tokens sent to the peer
    closed      \* closed[c]: closeConnection() has run

net == <<stream, eof, script>>
vars == <<net, rpos, rbuf, pc, req, tmp, off, httpResponse,
          httpRequestCount, lognum, logs, served, fs, out, closed>>

-----------------------------------------------------------------------------
(* Units and tokens *)

Get(path) == [t |-> "GET", of |-> path]
Upload(name) == [t |-> "UPLOAD", of |-> name]
Valid == [t |-> "valid"]
Invalid == [t |-> "invalid"]
Fragment(name, i) == [t |-> "data", of |-> name, n |-> i]
Blank == [t |-> "blank"]   \* a line of spaces, which split() leaves empty

Head200(n) == [k |-> "head", status |-> 200, len |-> n]
Head404(n) == [k |-> "head", status |-> 404, len |-> n]
Crlf == [k |-> "crlf", len |-> 1]
Body(n) == [k |-> "body", len |-> n]

\* The extensions shown in the browser, and those UPLOAD accepts.
ImageExt == {"jpg", "png", "jpeg"}
UploadExt == {"txt", "jpg", "jpeg", "png", "mp4"}

Stored(f) == fs[f] # Absent
\* A page is its markup (one unit) and a unit per line or entry.  The code
\* counts characters and sends bytes, which the default charset of the JDK 11
\* on Windows that the project is set up for makes one and the same number.
DirPage == 1 + Cardinality({f \in Names : Stored(f)})
TextPage(f) == 1 + Len(fs[f])
ErrorPage == 2

\* A FileOutputStream writes at its own offset; what lies between the end of
\* a file another thread has truncated meanwhile and that offset is zeros.
WriteAt(s, i, u) ==
    [j \in 1 .. (IF Len(s) > i THEN Len(s) ELSE i + 1) |->
        IF j = i + 1 THEN u ELSE IF j <= Len(s) THEN s[j] ELSE Hole]

\* What a peer may send: any lines and fragments in any order.
Unit ==
    [t : {"GET"}, of : Names \cup {Dir, Absent}]
    \cup [t : {"UPLOAD"}, of : Names \cup {Absent}]
    \cup [t : {"valid", "invalid", "blank"}]
    \cup [t : {"data"}, of : Names, n : Nat]

ASSUME NamesAssumption ==
    /\ IsFiniteSet(Names)
    /\ Dir \notin Names
    /\ Unstorable \subseteq Names
    /\ MayCrash \in BOOLEAN

\* A file is a sequence of fragments (of anything a peer may send), and Absent
\* is neither a file nor a name.
ASSUME ContentAssumption ==
    /\ Sends \subseteq Seq(Unit)
    /\ OnDisk \in [Names -> Seq(Unit \cup {Hole}) \cup {Absent}]
    /\ Absent \notin Seq(Unit \cup {Hole})
    /\ Absent \notin Names \cup {Dir}

-----------------------------------------------------------------------------
(* NetworkUtil *)

\* Units in the socket that nobody has read.
Pending(c) == SubSeq(stream[c], rpos[c] + 1, Len(stream[c]))

\* read(): readLine() takes a line from the BufferedReader, which refills
\* itself with as much as the socket happens to hold.
\* u is the line; the operator sets rbuf and rpos.
ReadLine(c, u) ==
    \/ /\ rbuf[c] # <<>>
       /\ u = Head(rbuf[c])
       /\ rbuf' = [rbuf EXCEPT ![c] = Tail(@)]
       /\ UNCHANGED rpos
    \/ /\ rbuf[c] = <<>>
       /\ Pending(c) # <<>>
       /\ u = Head(Pending(c))
       /\ \E n \in 1 .. Len(Pending(c)) :
              /\ rbuf' = [rbuf EXCEPT ![c] = SubSeq(Pending(c), 2, n)]
              /\ rpos' = [rpos EXCEPT ![c] = @ + n]

\* readLine() returns null: the stream has ended.
AtEnd(c) == rbuf[c] = <<>> /\ Pending(c) = <<>> /\ eof[c]

Units(c) == {stream[c][i] : i \in 1 .. Len(stream[c])}

Send(c, tokens) == out' = [out EXCEPT ![c] = @ \o tokens]
Goto(c, l) == pc' = [pc EXCEPT ![c] = l]

-----------------------------------------------------------------------------
(* HttpFileServer.run(): the loop *)

\* A GET line starts an answer.
ReadGet(c) ==
    /\ pc[c] = "loop"
    /\ \E u \in Units(c) :
           /\ ReadLine(c, u)
           /\ u.t = "GET"
           /\ req' = [req EXCEPT ![c] = u.of]
    /\ Goto(c, "count")
    /\ UNCHANGED <<net, tmp, off, httpResponse, httpRequestCount, lognum,
                   logs, served, fs, out, closed>>

\* An UPLOAD line is followed by a line that says whether the file exists.
ReadUpload(c) ==
    /\ pc[c] = "loop"
    /\ \E u \in Units(c) :
           /\ ReadLine(c, u)
           /\ u.t = "UPLOAD" /\ u.of # Absent
           /\ req' = [req EXCEPT ![c] = u.of]
    /\ Goto(c, "validity")
    /\ UNCHANGED <<net, tmp, off, httpResponse, httpRequestCount, lognum,
                   logs, served, fs, out, closed>>

\* A line of spaces has no first word and a bare UPLOAD no name: the
\* exception ends the thread.
ReadMalformed(c) ==
    /\ pc[c] = "loop"
    /\ \E u \in Units(c) : ReadLine(c, u) /\ u \in {Blank, Upload(Absent)}
    /\ Goto(c, "close")
    /\ UNCHANGED <<net, req, tmp, off, httpResponse, httpRequestCount, lognum,
                   logs, served, fs, out, closed>>

\* Any other line is an invalid request and is ignored.
ReadOther(c) ==
    /\ pc[c] = "loop"
    /\ \E u \in Units(c) :
           ReadLine(c, u) /\ u.t \notin {"GET", "UPLOAD", "blank"}
    /\ UNCHANGED <<net, pc, req, tmp, off, httpResponse, httpRequestCount,
                   lognum, logs, served, fs, out, closed>>

\* At the end of the stream read() returns null and the loop goes round.
ReadNull(c) == pc[c] = "loop" /\ AtEnd(c) /\ UNCHANGED vars

-----------------------------------------------------------------------------
(* HttpFileServer.run(): GET *)

\* httpRequestCount++ is a load ...
LoadCount(c) ==
    /\ pc[c] = "count"
    /\ tmp' = [tmp EXCEPT ![c] = httpRequestCount]
    /\ Goto(c, "increment")
    /\ UNCHANGED <<net, rpos, rbuf, req, off, httpResponse, httpRequestCount,
                   lognum, logs, served, fs, out, closed>>

\* Mutant: the count that was loaded is stored.
StoreCountLoaded(c) ==
    /\ pc[c] = "increment"
    /\ httpRequestCount' = tmp[c]
    /\ Goto(c, "log")
    /\ UNCHANGED <<net, rpos, rbuf, req, tmp, off, httpResponse, lognum, logs,
                   served, fs, out, closed>>

\* ... and a store.
StoreCount(c) ==
    /\ pc[c] = "increment"
    /\ httpRequestCount' = tmp[c] + 1
    /\ Goto(c, "log")
    /\ UNCHANGED <<net, rpos, rbuf, req, tmp, off, httpResponse, lognum, logs,
                   served, fs, out, closed>>

\* Log file n holds the entry from now on.
WriteLog(n, entry) ==
    logs' = [i \in DOMAIN logs \cup {n} |-> IF i = n THEN entry ELSE logs[i]]

\* The counter is read again for the name of the log file, which the
\* FileWriter creates or empties.
OpenLog(c) ==
    /\ pc[c] = "log"
    /\ lognum' = [lognum EXCEPT ![c] = httpRequestCount]
    /\ WriteLog(httpRequestCount, <<>>)
    /\ Goto(c, "answer")
    /\ UNCHANGED <<net, rpos, rbuf, req, tmp, off, httpResponse,
                   httpRequestCount, served, fs, out, closed>>

\* A GET without a path: the exception ends the thread, with the counter
\* raised and the log file opened but never closed.
AnswerMalformed(c) ==
    /\ pc[c] = "answer"
    /\ req[c] = Absent
    /\ Goto(c, "close")
    /\ UNCHANGED <<net, rpos, rbuf, req, tmp, off, httpResponse,
                   httpRequestCount, lognum, logs, served, fs, out, closed>>

\* The response of request r: set the field, send the tokens, go to l.
Answer(c, response, tokens, l) ==
    /\ httpResponse' = [httpResponse EXCEPT ![c] = response]
    /\ Send(c, tokens)
    /\ Goto(c, l)
    /\ UNCHANGED <<net, rpos, rbuf, req, httpRequestCount, lognum, logs,
                   served, fs, closed>>

AnswerDir(c) ==
    /\ pc[c] = "answer"
    /\ req[c] = Dir
    /\ Answer(c, <<Head200(DirPage)>>, <<Head200(DirPage), Body(DirPage)>>,
              "closelog")
    /\ UNCHANGED <<tmp, off>>

AnswerText(c) ==
    /\ pc[c] = "answer"
    /\ req[c] \in Names /\ Stored(req[c]) /\ Ext[req[c]] = "txt"
    /\ LET n == TextPage(req[c])
       IN  Answer(c, <<Head200(n)>>, <<Head200(n), Crlf, Body(n)>>, "closelog")
    /\ UNCHANGED <<tmp, off>>

\* new byte[length()] comes before the read, which may see another length.
SizeImage(c) ==
    /\ pc[c] = "answer"
    /\ req[c] \in Names /\ Stored(req[c]) /\ Ext[req[c]] \in ImageExt
    /\ tmp' = [tmp EXCEPT ![c] = Len(fs[req[c]])]
    /\ Goto(c, "image")
    /\ UNCHANGED <<net, rpos, rbuf, req, off, httpResponse, httpRequestCount,
                   lognum, logs, served, fs, out, closed>>

\* Mutant: what the file holds now is sent under the old length.
SendImageNow(c) ==
    /\ pc[c] = "image"
    /\ Answer(c, <<Head200(tmp[c])>>,
              <<Head200(tmp[c]), Body(Len(fs[req[c]]))>>, "closelog")
    /\ UNCHANGED <<tmp, off>>

\* The array is sent whole, however much of it the read has filled.
SendImage(c) ==
    /\ pc[c] = "image"
    /\ Answer(c, <<Head200(tmp[c])>>, <<Head200(tmp[c]), Body(tmp[c])>>,
              "closelog")
    /\ UNCHANGED <<tmp, off>>

\* Any other file: its length goes into the head ...
StartDownload(c) ==
    /\ pc[c] = "answer"
    /\ req[c] \in Names /\ Stored(req[c])
    /\ Ext[req[c]] \notin ImageExt \cup {"txt"}
    /\ LET h == Head200(Len(fs[req[c]]))
       IN  Answer(c, <<h>>, <<h, Crlf>>, "download")
    /\ off' = [off EXCEPT ![c] = 0]
    /\ UNCHANGED tmp

\* ... and sendFileForDownload() copies what the file holds by then.
DownloadFragment(c) ==
    /\ pc[c] = "download"
    /\ off[c] < Len(fs[req[c]])
    /\ off' = [off EXCEPT ![c] = @ + 1]
    /\ Send(c, <<Body(1)>>)
    /\ UNCHANGED <<net, rpos, rbuf, pc, req, tmp, httpResponse,
                   httpRequestCount, lognum, logs, served, fs, closed>>

\* The end of the file, or the exception of a peer that has hung up.
EndDownload(c) ==
    /\ pc[c] = "download"
    /\ off[c] >= Len(fs[req[c]]) \/ eof[c]
    /\ Goto(c, "closelog")
    /\ UNCHANGED <<net, rpos, rbuf, req, tmp, off, httpResponse,
                   httpRequestCount, lognum, logs, served, fs, out, closed>>

\* No such file.  The response is appended to the field, and no body is sent.
AnswerMissing(c) ==
    /\ pc[c] = "answer"
    /\ req[c] \in Names /\ ~Stored(req[c])
    /\ LET r == Append(httpResponse[c], Head404(ErrorPage))
       IN  Answer(c, r, Append(r, Crlf), "closelog")
    /\ UNCHANGED <<tmp, off>>

\* The FileWriter's buffer reaches the log file when it is closed.
CloseLog(c) ==
    /\ pc[c] = "closelog"
    /\ WriteLog(lognum[c], <<c, served[c] + 1>>)
    /\ served' = [served EXCEPT ![c] = @ + 1]
    /\ Goto(c, "loop")
    /\ UNCHANGED <<net, rpos, rbuf, req, tmp, off, httpResponse,
                   httpRequestCount, lognum, fs, out, closed>>

-----------------------------------------------------------------------------
(* HttpFileServer.run(): UPLOAD *)

Accepts(f) == Ext[f] \in UploadExt

\* "valid", an accepted extension: the file is created or emptied.
BeginUpload(c) ==
    /\ pc[c] = "validity"
    /\ ReadLine(c, Valid)
    /\ Accepts(req[c]) /\ req[c] \notin Unstorable
    /\ fs' = [fs EXCEPT ![req[c]] = <<>>]
    /\ off' = [off EXCEPT ![c] = 0]
    /\ Goto(c, "receive")
    /\ UNCHANGED <<net, req, tmp, httpResponse, httpRequestCount, lognum, logs,
                   served, out, closed>>

\* Every other validity line, an extension that is refused and a file that
\* cannot be created lead back to the loop; only the refusal is told the peer.
RefuseUpload(c) ==
    /\ pc[c] = "validity"
    /\ \E u \in Units(c) :
           /\ ReadLine(c, u)
           /\ u = Valid => ~Accepts(req[c]) \/ req[c] \in Unstorable
           /\ IF u = Valid /\ ~Accepts(req[c])
              THEN Send(c, <<Body(1)>>) ELSE UNCHANGED out
    /\ Goto(c, "loop")
    /\ UNCHANGED <<net, req, tmp, off, httpResponse, httpRequestCount, lognum,
                   logs, served, fs, closed>>

\* validMessage is null: the exception ends the thread.
UploadCut(c) ==
    /\ pc[c] = "validity"
    /\ AtEnd(c)
    /\ Goto(c, "close")
    /\ UNCHANGED <<net, rpos, rbuf, req, tmp, off, httpResponse,
                   httpRequestCount, lognum, logs, served, fs, out, closed>>

\* Mutant: every fragment is written at the beginning of the file.
ReceiveFragmentAtStart(c) ==
    /\ pc[c] = "receive"
    /\ Pending(c) # <<>>
    /\ rpos' = [rpos EXCEPT ![c] = @ + 1]
    /\ fs' = [fs EXCEPT ![req[c]] = WriteAt(@, 0, Head(Pending(c)))]
    /\ UNCHANGED <<net, rbuf, pc, req, tmp, off, httpResponse, httpRequestCount,
                   lognum, logs, served, out, closed>>

\* readFileFromClient() reads the socket, not the BufferedReader.
ReceiveFragment(c) ==
    /\ pc[c] = "receive"
    /\ Pending(c) # <<>>
    /\ rpos' = [rpos EXCEPT ![c] = @ + 1]
    /\ fs' = [fs EXCEPT ![req[c]] = WriteAt(@, off[c], Head(Pending(c)))]
    /\ off' = [off EXCEPT ![c] = @ + 1]
    /\ UNCHANGED <<net, rbuf, pc, req, tmp, httpResponse, httpRequestCount,
                   lognum, logs, served, out, closed>>

\* Mutant: the loop ends only when the BufferedReader is empty, too.
EndUploadDrained(c) ==
    /\ pc[c] = "receive"
    /\ eof[c] /\ (Pending(c) = <<>> \/ MayCrash) /\ rbuf[c] = <<>>
    /\ Goto(c, "stored")
    /\ UNCHANGED <<net, rpos, rbuf, req, tmp, off, httpResponse,
                   httpRequestCount, lognum, logs, served, fs, out, closed>>

\* The end of the stream: in.close() closes the socket, so the success message
\* that is written next cannot leave.  Or the exception of a connection that a
\* peer has reset, which loses what is still in the socket.  Either way
\* readFileFromClient() returns and the loop is left.
EndUpload(c) ==
    /\ pc[c] = "receive"
    /\ eof[c] /\ (Pending(c) = <<>> \/ MayCrash)
    /\ Goto(c, "stored")
    /\ UNCHANGED <<net, rpos, rbuf, req, tmp, off, httpResponse,
                   httpRequestCount, lognum, logs, served, fs, out, closed>>

\* finally: closeConnection(), after an exception or a file that is stored.
Close(c) ==
    /\ pc[c] \in {"close", "stored"} /\ ~closed[c]
    /\ closed' = [closed EXCEPT ![c] = TRUE]
    /\ UNCHANGED <<net, rpos, rbuf, pc, req, tmp, off, httpResponse,
                   httpRequestCount, lognum, logs, served, fs, out>>

-----------------------------------------------------------------------------
(* Peers: they send their units in order and hang up *)

Deliver(c) ==
    /\ ~eof[c]
    /\ script[c] # <<>>
    /\ stream' = [stream EXCEPT ![c] = Append(@, Head(script[c]))]
    /\ script' = [script EXCEPT ![c] = Tail(@)]
    /\ UNCHANGED <<eof, rpos, rbuf, pc, req, tmp, off, httpResponse,
                   httpRequestCount, lognum, logs, served, fs, out, closed>>

HangUp(c) ==
    /\ ~eof[c]
    /\ MayCrash \/ script[c] = <<>>
    /\ eof' = [eof EXCEPT ![c] = TRUE]
    /\ UNCHANGED <<stream, script, rpos, rbuf, pc, req, tmp, off, httpResponse,
                   httpRequestCount, lognum, logs, served, fs, out, closed>>

-----------------------------------------------------------------------------
(* The specification *)

\* Server.serve() has started one thread per connection.
InitServer ==
    /\ rpos = [c \in Conns |-> 0]
    /\ rbuf = [c \in Conns |-> <<>>]
    /\ pc = [c \in Conns |-> "loop"]
    /\ req = [c \in Conns |-> Dir]
    /\ tmp = [c \in Conns |-> 0]
    /\ off = [c \in Conns |-> 0]
    /\ httpResponse = [c \in Conns |-> <<>>]
    /\ httpRequestCount = 0
    /\ lognum = [c \in Conns |-> 0]
    /\ logs = <<>>
    /\ served = [c \in Conns |-> 0]
    /\ fs = OnDisk
    /\ out = [c \in Conns |-> <<>>]
    /\ closed = [c \in Conns |-> FALSE]

Init ==
    /\ InitServer
    /\ stream = [c \in Conns |-> <<>>]
    /\ eof = [c \in Conns |-> FALSE]
    /\ script \in [Conns -> Sends]

AnswerStep(c) ==
    \/ LoadCount(c) \/ StoreCount(c) \/ OpenLog(c)
    \/ AnswerDir(c) \/ AnswerText(c) \/ AnswerMissing(c)
    \/ SizeImage(c) \/ SendImage(c)
    \/ StartDownload(c) \/ DownloadFragment(c) \/ EndDownload(c)
    \/ CloseLog(c) \/ AnswerMalformed(c)

UploadStep(c) ==
    \/ BeginUpload(c) \/ RefuseUpload(c) \/ UploadCut(c)
    \/ ReceiveFragment(c) \/ EndUpload(c) \/ Close(c)

Thread(c) ==
    \/ ReadGet(c) \/ ReadUpload(c) \/ ReadMalformed(c) \/ ReadOther(c)
    \/ ReadNull(c)
    \/ AnswerStep(c) \/ UploadStep(c)

Peer(c) == Deliver(c) \/ HangUp(c)

Next == \E c \in Conns : Thread(c) \/ Peer(c)

Spec == Init /\ [][Next]_vars

\* The JVM schedules every thread; a peer finishes what it sends.
FairSpec == Spec /\ \A c \in Conns : WF_vars(Thread(c)) /\ WF_vars(Peer(c))

-----------------------------------------------------------------------------
(* Properties *)

SoleWriter(c) ==
    \A d \in Conns \ {c} : Upload(req[c]) \notin Units(d)

\* readFileFromClient() of an upload that no other connection makes: every
\* fragment the peer has sent after its two lines is accounted for, in order
\* and once.  The first ones are those that the BufferedReader took ahead and
\* nobody reads any more, then comes the file, also when other threads serve it
\* meanwhile, and last what a connection that was reset has left in the socket.
\* Nothing else is lost.
UploadAccounted ==
    \A c \in Conns :
        pc[c] = "stored" /\ SoleWriter(c) =>
            \E k \in 2 .. Len(stream[c]) :
                /\ stream[c][k - 1] = Upload(req[c]) /\ stream[c][k] = Valid
                /\ rbuf[c] \o fs[req[c]] \o Pending(c)
                   = SubSeq(stream[c], k + 1, Len(stream[c]))

\* Content-Length frames the responses of connection c: heads and bodies
\* alternate, and each body is as long as the head before it says.
Framed(c) ==
    /\ Len(out[c]) % 2 = 0
    /\ \A i \in 1 .. Len(out[c]) :
           /\ i % 2 = 1 => out[c][i].k = "head" /\ out[c][i].len = out[c][i + 1].len
           /\ i % 2 = 0 => out[c][i].k = "body"

Asks(c, paths) == \A u \in Units(c) : u.t = "GET" /\ u.of \in paths
AtStart == {f \in Names : OnDisk[f] # Absent}

\* Listings and images are framed, even when an upload truncates or extends
\* the image between length() and read() (with a single-byte charset: see
\* DirPage).
PagesFramed ==
    \A c \in Conns :
        Asks(c, {Dir} \cup {f \in AtStart : Ext[f] \in ImageExt}) => Framed(c)

\* A thread that has begun to answer or to receive returns to its loop or ends:
\* no interleaving of transfers on one file, and no peer that hangs up early,
\* leaves it waiting.  (A peer that falls silent without hanging up does, as the
\* sockets have no time-out; the repository's client always closes.)
RequestsEnd ==
    \A c \in Conns : pc[c] # "loop" ~> pc[c] = "loop" \/ closed[c]

\* Assignment: "You need to generate an appropriate log file for the
\* corresponding http request".  As long as only one connection asks for pages,
\* each of its finished requests has a log file of its own; between two such
\* connections the unsynchronised counter loses log files.
SoleBrowserLogged ==
    \A c \in Conns :
        (\A d \in Conns \ {c} : \A u \in Units(d) : u.t # "GET") =>
            \A n \in 1 .. served[c] : \E i \in DOMAIN logs : logs[i] = <<c, n>>
=============================================================================
