-------------------------- MODULE FileServerProofs --------------------------
(***************************************************************************)
(* Proofs about the file server, for any number of connections, any files  *)
(* and any sequences of lines and fragments that peers send:               *)
(*                                                                         *)
(*   - as long as one connection asks for pages, each of its finished      *)
(*     requests has a log file of its own (RequestsLogged);                *)
(*   - listings and images are framed (Framing);                           *)
(*   - every fragment of an upload that nobody else makes is in the file,  *)
(*     in the reader that took it ahead or still in the socket             *)
(*     (UploadStored).                                                     *)
(*                                                                         *)
(* A step of one thread disturbs another through the counter, the log      *)
(* files and the served files only.  The invariant says of each thread     *)
(* what it relies on, and that a thread touches these only after its peer  *)
(* has asked for it: a thread nobody has sent a GET leaves the logs alone, *)
(* and it writes no file but one its peer has named in an UPLOAD.          *)
(***************************************************************************)
EXTENDS FileServer, FiniteSetTheorems, SequenceTheorems, TLAPS

-----------------------------------------------------------------------------
(* The inductive invariant *)

Labels == {"loop", "count", "increment", "log", "answer", "image", "download",
           "closelog", "validity", "receive", "close", "stored"}
Paths == Names \cup {Dir, Absent}
Token == [k : {"head"}, status : {200, 404}, len : Nat] \cup [k : {"crlf", "body"}, len : Nat]
Contents == Seq(Unit \cup {Hole})

TypeOK ==
    /\ stream \in [Conns -> Seq(Unit)] /\ script \in [Conns -> Seq(Unit)]
    /\ eof \in [Conns -> BOOLEAN] /\ closed \in [Conns -> BOOLEAN]
    /\ rpos \in [Conns -> Nat] /\ rbuf \in [Conns -> Seq(Unit)]
    /\ pc \in [Conns -> Labels] /\ req \in [Conns -> Paths]
    /\ tmp \in [Conns -> Nat] /\ off \in [Conns -> Nat]
    /\ httpResponse \in [Conns -> Seq(Token)] /\ out \in [Conns -> Seq(Token)]
    /\ httpRequestCount \in Nat /\ DOMAIN logs \subseteq Nat
    /\ lognum \in [Conns -> Nat] /\ served \in [Conns -> Nat]
    /\ fs \in [Names -> Contents \cup {Absent}]

\* The peer of d has sent a GET.
Asked(d) == \E u \in Units(d) : u.t = "GET"
\* The labels of run() between a GET line and the end of its answer.
Answering == {"count", "increment", "log", "answer", "image", "download", "closelog"}

\* What the reader holds has come from the stream; a thread answers only what
\* it was asked, and writes only a file that its peer has named.
ThreadOK(c) ==
    /\ rpos[c] <= Len(stream[c])
    /\ \A j \in 1 .. Len(rbuf[c]) : \E i \in 1 .. rpos[c] : rbuf[c][j] = stream[c][i]
    /\ pc[c] \in Answering \/ served[c] > 0 => Asked(c)
    /\ pc[c] \in {"validity", "receive", "stored"} =>
           req[c] \in Names /\ Upload(req[c]) \in Units(c)
    /\ pc[c] \in {"download", "receive", "stored"} => req[c] \in Names /\ Stored(req[c])
    /\ pc[c] = "stored" => eof[c] /\ (rpos[c] = Len(stream[c]) \/ MayCrash)

\* Units that run() has read as lines: what was taken from the socket without
\* what the BufferedReader still holds and what has gone into the file.
Lines(c) ==
    rpos[c] - Len(rbuf[c]) - (IF pc[c] \in {"receive", "stored"} THEN off[c] ELSE 0)

\* The BufferedReader holds what comes after the lines, an upload follows its
\* two lines, and a connection that begins with the lines of an upload the
\* server takes is at that upload.
LinesOK(c) ==
    /\ Lines(c) >= 0
    /\ \A j \in 1 .. Len(rbuf[c]) : rbuf[c][j] = stream[c][Lines(c) + j]
    /\ pc[c] = "validity" => Lines(c) >= 1 /\ stream[c][Lines(c)] = Upload(req[c])
    /\ pc[c] \in {"receive", "stored"} =>
           /\ Lines(c) >= 2
           /\ stream[c][Lines(c) - 1] = Upload(req[c]) /\ stream[c][Lines(c)] = Valid
           /\ Accepts(req[c]) /\ req[c] \notin Unstorable
    /\ Lines(c) = 0 => pc[c] = "loop"
    /\ \A f \in Names :
           /\ Lines(c) = 1 /\ stream[c][1] = Upload(f) =>
                  \/ pc[c] = "validity" /\ req[c] = f
                  \/ pc[c] = "close" /\ eof[c] /\ Len(stream[c]) = 1
           /\ Lines(c) >= 2 /\ stream[c][1] = Upload(f) /\ stream[c][2] = Valid
              /\ Accepts(f) /\ f \notin Unstorable =>
                  pc[c] \in {"receive", "stored"} /\ req[c] = f

\* Only c asks for pages.
SoleBrowser(c) == \A d \in Conns \ {c} : ~Asked(d)

\* The numbers below the counter are taken, and the log file the thread is
\* writing is still empty.
LogOK(c) ==
    SoleBrowser(c) =>
        /\ \A i \in DOMAIN logs : i <= httpRequestCount
        /\ \A n \in 1 .. served[c] : \E i \in DOMAIN logs : logs[i] = <<c, n>>
        /\ pc[c] = "increment" => tmp[c] = httpRequestCount
        /\ pc[c] = "log" => \A i \in DOMAIN logs : i < httpRequestCount
        /\ pc[c] \in {"answer", "image", "download", "closelog"} =>
               lognum[c] \in DOMAIN logs /\ logs[lognum[c]] = <<>>

\* The pages that are framed.
Pages == {Dir} \cup {f \in AtStart : Ext[f] \in ImageExt}

PageOK(c) ==
    Asks(c, Pages) =>
        /\ req[c] \in Pages
        /\ pc[c] \in {"loop", "count", "increment", "log", "answer", "image", "closelog"}
        /\ Framed(c)

\* The file holds what has been taken from the socket since the validity line.
TailOK(c) ==
    pc[c] \in {"receive", "stored"} /\ SoleWriter(c) =>
        \E k \in 0 .. rpos[c] :
            /\ off[c] = rpos[c] - k
            /\ fs[req[c]] = SubSeq(stream[c], k + 1, rpos[c])

ServerInv ==
    /\ TypeOK
    /\ \A f \in AtStart : Stored(f)
    /\ \A c \in Conns :
           ThreadOK(c) /\ LinesOK(c) /\ LogOK(c) /\ PageOK(c) /\ TailOK(c)

-----------------------------------------------------------------------------
(* Peers *)

\* What any peer may do: send a line or a fragment, or hang up.  All that the
\* server relies on of its peers is that they do nothing else.
Talks(c) ==
    /\ \/ /\ ~eof[c] /\ eof' = eof
          /\ \E u \in Unit : stream' = [stream EXCEPT ![c] = Append(@, u)]
       \/ stream' = stream /\ eof' = [eof EXCEPT ![c] = TRUE]
    /\ script' \in [Conns -> Seq(Unit)]
    /\ UNCHANGED <<rpos, rbuf, pc, req, tmp, off, httpResponse, httpRequestCount,
                   lognum, logs, served, fs, out, closed>>

\* The peers of FileServer do no more.
LEMMA PeerTalks ==
    ASSUME TypeOK, NEW c \in Conns, Peer(c)
    PROVE  Talks(c)
<1>1. CASE Deliver(c)
  <2>1. script[c] \in Seq(Unit) /\ script[c] # <<>>
    BY <1>1 DEF Deliver, TypeOK
  <2>2. Head(script[c]) \in Unit /\ Tail(script[c]) \in Seq(Unit)
    BY <2>1
  <2>3. script' \in [Conns -> Seq(Unit)]
    BY <1>1, <2>2 DEF Deliver, TypeOK
  <2> QED  BY <1>1, <2>2, <2>3 DEF Deliver, Talks
<1>2. CASE HangUp(c)
  BY <1>2 DEF HangUp, Talks, TypeOK
<1> QED  BY <1>1, <1>2 DEF Peer

-----------------------------------------------------------------------------
(* Units, tokens and sequences *)

\* What the fields of a line are.
LEMMA UnitShape ==
    ASSUME NEW u \in Unit
    PROVE  /\ u.t = "UPLOAD" => u = Upload(u.of) /\ u.of \in Names \cup {Absent}
           /\ u.t = "GET" => u.of \in Paths
  BY DEF Unit, Upload, Paths

LEMMA MarkShape == Blank.t = "blank" /\ Upload(Absent).t = "UPLOAD" /\ Valid.t = "valid"
  BY DEF Blank, Upload, Valid

LEMMA TokenShape ==
    ASSUME NEW n \in Nat
    PROVE  Head200(n) \in Token /\ Head404(n) \in Token /\ Body(n) \in Token /\ Crlf \in Token
  BY DEF Head200, Head404, Body, Crlf, Token

\* A listing has a length.
LEMMA DirPageType == DirPage \in Nat
<1>1. IsFiniteSet({f \in Names : Stored(f)})
  BY NamesAssumption, FS_Subset
<1>2. Cardinality({f \in Names : Stored(f)}) \in Nat
  BY <1>1, FS_CardinalityType
<1> QED  BY <1>2 DEF DirPage

\* What nobody has read of the stream.
LEMMA PendingShape ==
    ASSUME TypeOK, NEW c \in Conns, rpos[c] <= Len(stream[c])
    PROVE  /\ Pending(c) \in Seq(Unit)
           /\ Len(Pending(c)) = Len(stream[c]) - rpos[c]
           /\ \A j \in 1 .. Len(Pending(c)) :
                  rpos[c] + j \in 1 .. Len(stream[c]) /\ Pending(c)[j] = stream[c][rpos[c] + j]
<1> DEFINE s == stream[c]
           r == rpos[c]
<1>1. s \in Seq(Unit) /\ r \in Nat /\ r <= Len(s)
  BY DEF TypeOK
<1> HIDE DEF s, r
<1>2. /\ SubSeq(s, r + 1, Len(s)) \in Seq(Unit)
      /\ Len(SubSeq(s, r + 1, Len(s))) = Len(s) - r
  BY <1>1
<1>3. \A j \in 1 .. Len(s) - r :
        r + j \in 1 .. Len(s) /\ SubSeq(s, r + 1, Len(s))[j] = s[r + j]
  BY <1>1
<1> QED  BY <1>2, <1>3 DEF Pending, s, r

\* A line that is read has come over the stream and is in what is taken by now.
LEMMA ReadLineOK ==
    ASSUME TypeOK, NEW c \in Conns, ThreadOK(c), NEW u, ReadLine(c, u)
    PROVE  /\ rpos' \in [Conns -> Nat] /\ rbuf' \in [Conns -> Seq(Unit)]
           /\ u \in Unit
           /\ rpos'[c] <= Len(stream[c])
           /\ \E i \in 1 .. rpos'[c] : u = stream[c][i]
           /\ \A j \in 1 .. Len(rbuf'[c]) : \E i \in 1 .. rpos'[c] : rbuf'[c][j] = stream[c][i]
           /\ \A d \in Conns \ {c} : rpos'[d] = rpos[d] /\ rbuf'[d] = rbuf[d]
<1> DEFINE s == stream[c]
           r == rpos[c]
           b == rbuf[c]
<1>0. /\ s \in Seq(Unit) /\ r \in Nat /\ b \in Seq(Unit) /\ r <= Len(s)
      /\ \A j \in 1 .. Len(b) : \E i \in 1 .. r : b[j] = s[i]
      /\ rpos \in [Conns -> Nat] /\ rbuf \in [Conns -> Seq(Unit)]
  BY DEF TypeOK, ThreadOK
<1>1. CASE /\ b # <<>> /\ u = Head(b) /\ rbuf' = [rbuf EXCEPT ![c] = Tail(b)]
           /\ rpos' = rpos
  <2>1. Tail(b) \in Seq(Unit) /\ Len(Tail(b)) = Len(b) - 1 /\ Len(b) >= 1 /\ u = b[1]
    BY <1>0, <1>1
  <2>2. \A j \in 1 .. Len(Tail(b)) : Tail(b)[j] = b[j + 1] /\ j + 1 \in 1 .. Len(b)
    BY <1>0, <1>1
  <2>3. rbuf' \in [Conns -> Seq(Unit)] /\ rbuf'[c] = Tail(b) /\ rpos'[c] = r
    BY <1>0, <1>1, <2>1
  <2>4. u \in Unit /\ 1 \in 1 .. Len(b)
    BY <1>0, <2>1
  <2>5. \E i \in 1 .. r : u = s[i]
    BY <1>0, <2>1, <2>4
  <2>6. \A j \in 1 .. Len(Tail(b)) : \E i \in 1 .. r : Tail(b)[j] = s[i]
    BY <1>0, <2>2
  <2>7. \A d \in Conns \ {c} : rpos'[d] = rpos[d] /\ rbuf'[d] = rbuf[d]
    BY <1>0, <1>1
  <2>8. rpos' \in [Conns -> Nat] /\ rpos'[c] <= Len(s)
    BY <1>0, <1>1
  <2> HIDE DEF s, r, b
  <2> QED  BY <2>3, <2>4, <2>5, <2>6, <2>7, <2>8 DEF s
<1>2. CASE /\ Pending(c) # <<>> /\ u = Head(Pending(c))
           /\ \E n \in 1 .. Len(Pending(c)) :
                 /\ rbuf' = [rbuf EXCEPT ![c] = SubSeq(Pending(c), 2, n)]
                 /\ rpos' = [rpos EXCEPT ![c] = r + n]
  <2> DEFINE p == Pending(c)
  <2>1. /\ p \in Seq(Unit) /\ Len(p) = Len(s) - r
        /\ \A j \in 1 .. Len(p) : r + j \in 1 .. Len(s) /\ p[j] = s[r + j]
    BY <1>0, PendingShape
  <2> HIDE DEF p
  <2>2. PICK n \in 1 .. Len(p) : /\ rbuf' = [rbuf EXCEPT ![c] = SubSeq(p, 2, n)]
                                 /\ rpos' = [rpos EXCEPT ![c] = r + n]
    BY <1>2 DEF p
  <2> DEFINE t == SubSeq(p, 2, n)
  <2>3. t \in Seq(Unit) /\ \A j \in 1 .. Len(t) : j + 1 \in 1 .. n /\ t[j] = p[j + 1]
    <3>1. n \in Nat /\ 1 <= n /\ n <= Len(p) /\ Len(p) \in Nat
      BY <2>1, <2>2
    <3>2. t \in Seq(Unit) /\ Len(t) = n - 1
      BY <2>1, <3>1
    <3>3. \A j \in 1 .. n - 1 : t[j] = p[j + 1]
      BY <2>1, <3>1
    <3> HIDE DEF t
    <3> QED  BY <3>1, <3>2, <3>3
  <2>4. u = p[1] /\ 1 \in 1 .. Len(p) /\ u \in Unit
    BY <1>2, <2>1, <2>2 DEF p
  <2> HIDE DEF t
  <2>5. /\ rbuf' \in [Conns -> Seq(Unit)] /\ rbuf'[c] = t /\ rpos'[c] = r + n
        /\ rpos' \in [Conns -> Nat]
    BY <1>0, <2>2, <2>3 DEF t
  <2>6. r + n <= Len(s)
    BY <1>0, <2>1, <2>2
  <2>7. \E i \in 1 .. r + n : u = s[i]
    <3>1. u = s[r + 1] /\ r + 1 \in 1 .. r + n
      BY <1>0, <2>1, <2>2, <2>4
    <3> QED  BY <3>1
  <2>8. \A j \in 1 .. Len(t) : \E i \in 1 .. r + n : t[j] = s[i]
    <3>1. SUFFICES ASSUME NEW j \in 1 .. Len(t)
                   PROVE  \E i \in 1 .. r + n : t[j] = s[i]
      OBVIOUS
    <3>2. j + 1 \in 1 .. n /\ t[j] = p[j + 1]
      BY <2>3
    <3>3. t[j] = s[r + (j + 1)] /\ r + (j + 1) \in 1 .. r + n
      <4>1. j + 1 \in 1 .. Len(p)
        BY <2>1, <2>2, <3>2
      <4>2. p[j + 1] = s[r + (j + 1)]
        BY <2>1, <4>1
      <4>3. r + (j + 1) \in 1 .. r + n
        BY <1>0, <2>2, <3>2
      <4> QED  BY <3>2, <4>2, <4>3
    <3> QED  BY <3>3
  <2>9. \A d \in Conns \ {c} : rpos'[d] = rpos[d] /\ rbuf'[d] = rbuf[d]
    BY <1>0, <2>2
  <2> QED  BY <2>4, <2>5, <2>6, <2>7, <2>8, <2>9
<1> QED  BY <1>1, <1>2 DEF ReadLine

\* Writing one fragment leaves a file.
LEMMA WriteAtType ==
    ASSUME NEW s \in Contents, NEW i \in Nat, NEW u \in Unit
    PROVE  WriteAt(s, i, u) \in Contents
<1> DEFINE n == IF Len(s) > i THEN Len(s) ELSE i + 1
<1>1. n \in Nat
  BY DEF Contents
<1>2. \A j \in 1 .. n :
        (IF j = i + 1 THEN u ELSE IF j <= Len(s) THEN s[j] ELSE Hole) \in Unit \cup {Hole}
  BY DEF Contents
<1>3. WriteAt(s, i, u) \in [1 .. n -> Unit \cup {Hole}]
  BY <1>2 DEF WriteAt
<1> QED  BY <1>1, <1>3 DEF Contents

\* A fragment written at the end of a file extends it.
LEMMA WriteAtEnd ==
    ASSUME NEW S, NEW s \in Seq(S), NEW u \in S
    PROVE  WriteAt(s, Len(s), u) = Append(s, u)
<1>1. WriteAt(s, Len(s), u) =
        [j \in 1 .. Len(s) + 1 |-> IF j = Len(s) + 1 THEN u ELSE IF j <= Len(s) THEN s[j] ELSE Hole]
  BY DEF WriteAt
<1> DEFINE a == [j \in 1 .. Len(s) + 1 |-> IF j = Len(s) + 1 THEN u ELSE s[j]]
           b == Append(s, u)
<1>2. WriteAt(s, Len(s), u) = a
  BY <1>1
<1>3. a \in Seq(S) /\ Len(a) = Len(s) + 1
  <2>1. Len(s) + 1 \in Nat /\ \A j \in 1 .. Len(s) + 1 : (IF j = Len(s) + 1 THEN u ELSE s[j]) \in S
    OBVIOUS
  <2>2. a \in [1 .. Len(s) + 1 -> S]
    BY <2>1
  <2> HIDE DEF a
  <2> QED  BY <2>1, <2>2
<1>4. b \in Seq(S) /\ Len(b) = Len(s) + 1
  OBVIOUS
<1>5. \A j \in 1 .. Len(s) + 1 : a[j] = b[j]
  OBVIOUS
<1> HIDE DEF a, b
<1>6. a = b
  BY <1>3, <1>4, <1>5
<1> QED  BY <1>2, <1>6 DEF b

\* The next unit of a stream extends a piece of it.
LEMMA SubSeqExtends ==
    ASSUME NEW S, NEW s \in Seq(S), NEW k \in Nat, NEW m \in Nat, k <= m, m < Len(s)
    PROVE  /\ SubSeq(s, k + 1, m) \in Seq(S) /\ Len(SubSeq(s, k + 1, m)) = m - k
           /\ Append(SubSeq(s, k + 1, m), s[m + 1]) = SubSeq(s, k + 1, m + 1)
<1>1. SubSeq(s, k + 1, m) \in Seq(S) /\ Len(SubSeq(s, k + 1, m)) = m - k
  OBVIOUS
<1>2. SubSeq(s, k + 1, m + 1) \in Seq(S) /\ Len(SubSeq(s, k + 1, m + 1)) = m + 1 - k
  OBVIOUS
<1> DEFINE a == Append(SubSeq(s, k + 1, m), s[m + 1])
           b == SubSeq(s, k + 1, m + 1)
<1>3. a \in Seq(S) /\ Len(a) = Len(b)
  BY <1>1, <1>2
<1>4. \A j \in 1 .. Len(b) : a[j] = b[j]
  BY <1>1, <1>2
<1> QED  BY <1>1, <1>2, <1>3, <1>4

\* A piece of a stream.
LEMMA PieceShape ==
    ASSUME NEW S, NEW s \in Seq(S), NEW k \in Nat, NEW m \in Nat, k <= m, m <= Len(s)
    PROVE  /\ SubSeq(s, k + 1, m) \in Seq(S) /\ Len(SubSeq(s, k + 1, m)) = m - k
           /\ \A j \in 1 .. m - k : SubSeq(s, k + 1, m)[j] = s[k + j]
<1>1. SubSeq(s, k + 1, m) \in Seq(S) /\ Len(SubSeq(s, k + 1, m)) = m - k
  OBVIOUS
<1>2. \A j \in 1 .. m - k : SubSeq(s, k + 1, m)[j] = s[k + j]
  OBVIOUS
<1> QED  BY <1>1, <1>2

\* Two pieces that follow each other.
LEMMA PiecesJoin ==
    ASSUME NEW S, NEW s \in Seq(S), NEW a \in Nat, NEW b \in Nat, NEW m \in Nat,
           a <= b, b <= m, m <= Len(s)
    PROVE  SubSeq(s, a + 1, b) \o SubSeq(s, b + 1, m) = SubSeq(s, a + 1, m)
<1> DEFINE x == SubSeq(s, a + 1, b)
           y == SubSeq(s, b + 1, m)
           w == SubSeq(s, a + 1, m)
           p == b - a
           q == m - b
           t == m - a
<1>0. p \in Nat /\ q \in Nat /\ t \in Nat /\ t = p + q /\ b = a + p /\ a <= m /\ b <= Len(s)
  OBVIOUS
<1>1. x \in Seq(S) /\ Len(x) = p /\ \A j \in 1 .. p : x[j] = s[a + j]
  BY <1>0, PieceShape
<1>2. y \in Seq(S) /\ Len(y) = q /\ \A j \in 1 .. q : y[j] = s[b + j]
  BY PieceShape
<1>3. w \in Seq(S) /\ Len(w) = t /\ \A j \in 1 .. t : w[j] = s[a + j]
  BY <1>0, PieceShape
<1> HIDE DEF x, y, w, p, q, t
<1>4. /\ x \o y \in Seq(S) /\ Len(x \o y) = p + q
      /\ \A j \in 1 .. p + q : (x \o y)[j] = IF j <= p THEN x[j] ELSE y[j - p]
  <2>1. x \in Seq(S) /\ y \in Seq(S)
    BY <1>1, <1>2
  <2>2. /\ x \o y \in Seq(S) /\ Len(x \o y) = Len(x) + Len(y)
        /\ \A j \in 1 .. Len(x) + Len(y) :
              (x \o y)[j] = IF j <= Len(x) THEN x[j] ELSE y[j - Len(x)]
    BY <2>1, ConcatProperties
  <2> QED  BY <1>1, <1>2, <2>2
<1>5. ASSUME NEW j \in 1 .. t
      PROVE  (x \o y)[j] = w[j]
  <2>1. CASE j <= p
    <3>1. j \in 1 .. p
      BY <1>0, <2>1
    <3>2. (x \o y)[j] = x[j]
      BY <1>0, <1>4, <2>1
    <3> QED  BY <1>1, <1>3, <3>1, <3>2
  <2>2. CASE j > p
    <3> DEFINE i == j - p
    <3>1. i \in 1 .. q /\ b + i = a + j /\ j \in 1 .. p + q
      BY <1>0, <2>2
    <3>2. (x \o y)[j] = y[i]
      BY <1>0, <1>4, <2>2, <3>1
    <3> HIDE DEF i
    <3>3. y[i] = s[a + j] /\ w[j] = s[a + j]
      BY <1>2, <1>3, <3>1
    <3> QED  BY <3>2, <3>3
  <2>3. j <= p \/ j > p
    BY <1>0
  <2> QED  BY <2>1, <2>2, <2>3
<1>6. x \o y = w
  <2> DEFINE z == x \o y
  <2>1. z \in Seq(S) /\ Len(z) = t /\ \A j \in 1 .. t : z[j] = w[j]
    BY <1>0, <1>4, <1>5
  <2> HIDE DEF z
  <2>2. z = w
    BY <1>3, <2>1
  <2> QED  BY <2>2 DEF z
<1> QED  BY <1>6 DEF x, y, w

-----------------------------------------------------------------------------
(* Types *)

\* The reading steps.
LEMMA ReadTypes ==
    ASSUME TypeOK, NEW c \in Conns, ThreadOK(c),
           ReadGet(c) \/ ReadUpload(c) \/ ReadMalformed(c) \/ ReadOther(c)
    PROVE  TypeOK'
<1>1. PICK u \in Units(c) : ReadLine(c, u)
  BY DEF ReadGet, ReadUpload, ReadMalformed, ReadOther
<1>2. rpos' \in [Conns -> Nat] /\ rbuf' \in [Conns -> Seq(Unit)]
  BY <1>1, ReadLineOK
<1>3. req' \in [Conns -> Paths]
  <2>1. CASE ReadGet(c)
    <3>1. PICK v : ReadLine(c, v) /\ v.t = "GET" /\ req' = [req EXCEPT ![c] = v.of]
      BY <2>1 DEF ReadGet
    <3>2. v.of \in Paths
      BY <3>1, ReadLineOK, UnitShape
    <3> QED  BY <3>1, <3>2 DEF TypeOK
  <2>2. CASE ReadUpload(c)
    <3>1. PICK v : ReadLine(c, v) /\ v.t = "UPLOAD" /\ req' = [req EXCEPT ![c] = v.of]
      BY <2>2 DEF ReadUpload
    <3>2. v.of \in Paths
      BY <3>1, ReadLineOK, UnitShape DEF Paths
    <3> QED  BY <3>1, <3>2 DEF TypeOK
  <2>3. CASE ReadMalformed(c) \/ ReadOther(c)
    BY <2>3 DEF ReadMalformed, ReadOther, TypeOK
  <2> QED  BY <2>1, <2>2, <2>3
<1>4. pc' \in [Conns -> Labels]
  BY DEF ReadGet, ReadUpload, ReadMalformed, ReadOther, Goto, TypeOK, Labels
<1>5. UNCHANGED <<net, tmp, off, httpResponse, httpRequestCount, lognum, logs, served, fs, out, closed>>
  BY DEF ReadGet, ReadUpload, ReadMalformed, ReadOther
<1> QED  BY <1>2, <1>3, <1>4, <1>5 DEF TypeOK, net

\* The response of a request is a sequence of tokens.
LEMMA AnswerTypes ==
    ASSUME TypeOK, NEW c \in Conns, NEW l \in Labels,
           NEW r \in Seq(Token), NEW tokens \in Seq(Token), Answer(c, r, tokens, l),
           tmp' \in [Conns -> Nat], off' \in [Conns -> Nat]
    PROVE  TypeOK'
<1>1. out[c] \o tokens \in Seq(Token)
  BY DEF TypeOK
<1>2. out' \in [Conns -> Seq(Token)] /\ httpResponse' \in [Conns -> Seq(Token)]
  BY <1>1 DEF TypeOK, Answer, Send
<1>3. pc' \in [Conns -> Labels]
  BY DEF TypeOK, Answer, Goto
<1>4. UNCHANGED <<net, rpos, rbuf, req, httpRequestCount, lognum, logs, served, fs, closed>>
  BY DEF Answer
<1> QED  BY <1>2, <1>3, <1>4 DEF TypeOK, net

\* The files that may be served have a length.
LEMMA StoredShape ==
    ASSUME TypeOK, NEW f \in Names, Stored(f)
    PROVE  fs[f] \in Contents /\ Len(fs[f]) \in Nat
<1>1. fs[f] \in Contents
  BY DEF TypeOK, Stored
<1> QED  BY <1>1 DEF Contents

\* Adding a log file keeps the numbers natural.
LEMMA LogAdded ==
    ASSUME DOMAIN logs \subseteq Nat, NEW n \in Nat, NEW v, WriteLog(n, v)
    PROVE  /\ DOMAIN logs' = DOMAIN logs \cup {n}
           /\ DOMAIN logs' \subseteq Nat
           /\ logs'[n] = v
           /\ \A i \in DOMAIN logs : i # n => logs'[i] = logs[i]
  BY DEF WriteLog

\* The steps of an answer.
LEMMA AnswerStepTypes ==
    ASSUME TypeOK, NEW c \in Conns, ThreadOK(c), AnswerStep(c)
    PROVE  TypeOK'
<1>0. {"increment", "log", "answer", "close", "closelog", "image", "download", "loop"} \subseteq Labels
  BY DEF Labels
<1>1. CASE LoadCount(c) \/ StoreCount(c)
  <2>1. CASE LoadCount(c)
    BY <1>0, <2>1 DEF LoadCount, Goto, TypeOK, net
  <2>2. CASE StoreCount(c)
    <3>1. httpRequestCount' \in Nat
      BY <2>2 DEF StoreCount, TypeOK
    <3> QED  BY <1>0, <2>2, <3>1 DEF StoreCount, Goto, TypeOK, net
  <2> QED  BY <1>1, <2>1, <2>2
<1>2. CASE OpenLog(c)
  <2>1. DOMAIN logs' \subseteq Nat
    BY <1>2, LogAdded DEF OpenLog, TypeOK
  <2> QED  BY <1>0, <1>2, <2>1 DEF OpenLog, Goto, TypeOK, net
<1>3. CASE AnswerDir(c)
  <2> DEFINE n == DirPage
             r == <<Head200(n)>>
             tokens == <<Head200(n), Body(n)>>
             l == "closelog"
  <2>1. r \in Seq(Token) /\ tokens \in Seq(Token) /\ l \in Labels
    BY <1>0, DirPageType, TokenShape
  <2>2. Answer(c, r, tokens, l) /\ UNCHANGED <<tmp, off>>
    BY <1>3 DEF AnswerDir
  <2>3. tmp' \in [Conns -> Nat] /\ off' \in [Conns -> Nat]
    BY <2>2 DEF TypeOK
  <2> HIDE DEF r, tokens, l
  <2> QED  BY <2>1, <2>2, <2>3, AnswerTypes
<1>4. CASE AnswerText(c)
  <2> DEFINE n == TextPage(req[c])
             r == <<Head200(n)>>
             tokens == <<Head200(n), Crlf, Body(n)>>
             l == "closelog"
  <2>0. n \in Nat
    BY <1>4, StoredShape DEF AnswerText, TextPage
  <2>1. r \in Seq(Token) /\ tokens \in Seq(Token) /\ l \in Labels
    BY <1>0, <2>0, TokenShape
  <2>2. Answer(c, r, tokens, l) /\ UNCHANGED <<tmp, off>>
    BY <1>4 DEF AnswerText
  <2>3. tmp' \in [Conns -> Nat] /\ off' \in [Conns -> Nat]
    BY <2>2 DEF TypeOK
  <2> HIDE DEF r, tokens, l
  <2> QED  BY <2>1, <2>2, <2>3, AnswerTypes
<1>5. CASE AnswerMissing(c)
  <2> DEFINE n == ErrorPage
             r == Append(httpResponse[c], Head404(n))
             tokens == Append(r, Crlf)
             l == "closelog"
  <2>0. n \in Nat /\ httpResponse[c] \in Seq(Token)
    BY DEF ErrorPage, TypeOK
  <2>1. r \in Seq(Token) /\ tokens \in Seq(Token) /\ l \in Labels
    BY <1>0, <2>0, TokenShape
  <2>2. Answer(c, r, tokens, l) /\ UNCHANGED <<tmp, off>>
    BY <1>5 DEF AnswerMissing
  <2>3. tmp' \in [Conns -> Nat] /\ off' \in [Conns -> Nat]
    BY <2>2 DEF TypeOK
  <2> HIDE DEF r, tokens, l
  <2> QED  BY <2>1, <2>2, <2>3, AnswerTypes
<1>6. CASE SizeImage(c)
  <2>1. Len(fs[req[c]]) \in Nat
    BY <1>6, StoredShape DEF SizeImage
  <2> QED  BY <1>0, <1>6, <2>1 DEF SizeImage, Goto, TypeOK, net
<1>7. CASE SendImage(c)
  <2> DEFINE n == tmp[c]
             r == <<Head200(n)>>
             tokens == <<Head200(n), Body(n)>>
             l == "closelog"
  <2>0. n \in Nat
    BY DEF TypeOK
  <2>1. r \in Seq(Token) /\ tokens \in Seq(Token) /\ l \in Labels
    BY <1>0, <2>0, TokenShape
  <2>2. Answer(c, r, tokens, l) /\ UNCHANGED <<tmp, off>>
    BY <1>7 DEF SendImage
  <2>3. tmp' \in [Conns -> Nat] /\ off' \in [Conns -> Nat]
    BY <2>2 DEF TypeOK
  <2> HIDE DEF r, tokens, l
  <2> QED  BY <2>1, <2>2, <2>3, AnswerTypes
<1>8. CASE StartDownload(c)
  <2> DEFINE n == Len(fs[req[c]])
             r == <<Head200(n)>>
             tokens == <<Head200(n), Crlf>>
             l == "download"
  <2>0. n \in Nat
    BY <1>8, StoredShape DEF StartDownload
  <2>1. r \in Seq(Token) /\ tokens \in Seq(Token) /\ l \in Labels
    BY <1>0, <2>0, TokenShape
  <2>2. Answer(c, r, tokens, l) /\ UNCHANGED tmp /\ off' = [off EXCEPT ![c] = 0]
    BY <1>8 DEF StartDownload
  <2>3. tmp' \in [Conns -> Nat] /\ off' \in [Conns -> Nat]
    BY <2>2 DEF TypeOK
  <2> HIDE DEF r, tokens, l
  <2> QED  BY <2>1, <2>2, <2>3, AnswerTypes
<1>9. CASE DownloadFragment(c)
  <2> DEFINE o == out[c] \o <<Body(1)>>
  <2>1. o \in Seq(Token)
    BY TokenShape DEF TypeOK
  <2>2. out' = [out EXCEPT ![c] = o] /\ off' = [off EXCEPT ![c] = off[c] + 1]
    BY <1>9 DEF DownloadFragment, Send
  <2> HIDE DEF o
  <2>3. out' \in [Conns -> Seq(Token)]
    BY <2>1, <2>2 DEF TypeOK
  <2>4. off' \in [Conns -> Nat]
    BY <2>2 DEF TypeOK
  <2> QED  BY <1>9, <2>3, <2>4 DEF DownloadFragment, TypeOK, net
<1>10. CASE EndDownload(c) \/ AnswerMalformed(c)
  BY <1>0, <1>10 DEF EndDownload, AnswerMalformed, Goto, TypeOK, net
<1>11. CASE CloseLog(c)
  <2>1. DOMAIN logs' \subseteq Nat
    BY <1>11, LogAdded DEF CloseLog, TypeOK
  <2>2. served' \in [Conns -> Nat] /\ pc' \in [Conns -> Labels]
    BY <1>0, <1>11 DEF CloseLog, Goto, TypeOK
  <2> QED  BY <1>11, <2>1, <2>2 DEF CloseLog, TypeOK, net
<1> QED  BY <1>1, <1>2, <1>3, <1>4, <1>5, <1>6, <1>7, <1>8, <1>9, <1>10, <1>11 DEF AnswerStep

\* The steps of an upload.
LEMMA UploadStepTypes ==
    ASSUME TypeOK, NEW c \in Conns, ThreadOK(c), UploadStep(c)
    PROVE  TypeOK'
<1>0. {"receive", "loop", "close", "stored"} \subseteq Labels
  BY DEF Labels
<1>1. CASE BeginUpload(c)
  <2>1. rpos' \in [Conns -> Nat] /\ rbuf' \in [Conns -> Seq(Unit)]
    BY <1>1, ReadLineOK DEF BeginUpload
  <2>2. <<>> \in Contents
    BY DEF Contents
  <2>3. fs' \in [Names -> Contents \cup {Absent}]
    BY <1>1, <2>2 DEF BeginUpload, TypeOK
  <2>4. off' \in [Conns -> Nat] /\ pc' \in [Conns -> Labels]
    BY <1>0, <1>1 DEF BeginUpload, Goto, TypeOK
  <2> QED  BY <1>1, <2>1, <2>3, <2>4 DEF BeginUpload, TypeOK, net
<1>2. CASE RefuseUpload(c)
  <2>1. rpos' \in [Conns -> Nat] /\ rbuf' \in [Conns -> Seq(Unit)]
    BY <1>2, ReadLineOK DEF RefuseUpload
  <2>2. out[c] \o <<Body(1)>> \in Seq(Token)
    BY TokenShape DEF TypeOK
  <2>3. out' \in [Conns -> Seq(Token)]
    <3>1. Send(c, <<Body(1)>>) \/ UNCHANGED out
      BY <1>2 DEF RefuseUpload
    <3> QED  BY <2>2, <3>1 DEF Send, TypeOK
  <2>4. pc' \in [Conns -> Labels]
    BY <1>0, <1>2 DEF RefuseUpload, Goto, TypeOK
  <2> QED  BY <1>2, <2>1, <2>3, <2>4 DEF RefuseUpload, TypeOK, net
<1>3. CASE ReceiveFragment(c)
  <2> DEFINE f == req[c]
             u == Head(Pending(c))
  <2>1. f \in Names /\ fs[f] \in Contents
    <3>1. f \in Names /\ Stored(f)
      BY <1>3 DEF ReceiveFragment, ThreadOK
    <3> QED  BY <3>1, StoredShape
  <2>2. u \in Unit
    BY <1>3, PendingShape DEF ReceiveFragment, ThreadOK
  <2>3. off[c] \in Nat
    BY DEF TypeOK
  <2>4. WriteAt(fs[f], off[c], u) \in Contents
    BY <2>1, <2>2, <2>3, WriteAtType
  <2>5. fs' = [fs EXCEPT ![f] = WriteAt(fs[f], off[c], u)]
    BY <1>3 DEF ReceiveFragment
  <2>6. fs' \in [Names -> Contents \cup {Absent}]
    BY <2>4, <2>5 DEF TypeOK
  <2>7. rpos' \in [Conns -> Nat] /\ off' \in [Conns -> Nat]
    <3>1. rpos \in [Conns -> Nat] /\ off \in [Conns -> Nat]
      BY DEF TypeOK
    <3>2. rpos' = [rpos EXCEPT ![c] = rpos[c] + 1] /\ off' = [off EXCEPT ![c] = off[c] + 1]
      BY <1>3 DEF ReceiveFragment
    <3> QED  BY <3>1, <3>2
  <2> QED  BY <1>3, <2>6, <2>7 DEF ReceiveFragment, TypeOK, net
<1>4. CASE UploadCut(c) \/ EndUpload(c) \/ Close(c)
  BY <1>0, <1>4 DEF UploadCut, EndUpload, Close, Goto, TypeOK, net
<1> QED  BY <1>1, <1>2, <1>3, <1>4 DEF UploadStep

\* What a peer does.
LEMMA PeerTypes ==
    ASSUME TypeOK, NEW c \in Conns, Talks(c)
    PROVE  TypeOK'
<1>1. stream' \in [Conns -> Seq(Unit)] /\ eof' \in [Conns -> BOOLEAN]
  <2>1. CASE stream' = stream /\ eof' = [eof EXCEPT ![c] = TRUE]
    BY <2>1 DEF TypeOK
  <2>2. CASE eof' = eof /\ \E u \in Unit : stream' = [stream EXCEPT ![c] = Append(@, u)]
    <3>1. PICK u \in Unit : stream' = [stream EXCEPT ![c] = Append(stream[c], u)]
      BY <2>2
    <3>2. stream[c] \in Seq(Unit)
      BY DEF TypeOK
    <3>3. Append(stream[c], u) \in Seq(Unit)
      BY <3>2
    <3> QED  BY <2>2, <3>1, <3>3 DEF TypeOK
  <2> QED  BY <2>1, <2>2 DEF Talks
<1> QED  BY <1>1 DEF Talks, TypeOK

LEMMA StepTypes ==
    ASSUME TypeOK, NEW c \in Conns, ThreadOK(c), Thread(c) \/ Talks(c)
    PROVE  TypeOK'
<1>1. CASE ReadNull(c)
  BY <1>1 DEF ReadNull, vars, net, TypeOK
<1> QED  BY <1>1, ReadTypes, AnswerStepTypes, UploadStepTypes, PeerTypes DEF Thread

-----------------------------------------------------------------------------
(* What a step leaves alone *)

\* A step of c, or of its peer, changes nothing that belongs to another thread.
LEMMA OthersUntouched ==
    ASSUME TypeOK, NEW c \in Conns, ThreadOK(c), Thread(c) \/ Talks(c), NEW d \in Conns \ {c}
    PROVE  /\ stream'[d] = stream[d] /\ eof'[d] = eof[d]
           /\ rpos'[d] = rpos[d] /\ rbuf'[d] = rbuf[d]
           /\ pc'[d] = pc[d] /\ req'[d] = req[d] /\ tmp'[d] = tmp[d] /\ off'[d] = off[d]
           /\ lognum'[d] = lognum[d] /\ served'[d] = served[d] /\ out'[d] = out[d]
<1>0. /\ stream \in [Conns -> Seq(Unit)] /\ eof \in [Conns -> BOOLEAN]
      /\ rpos \in [Conns -> Nat] /\ rbuf \in [Conns -> Seq(Unit)]
      /\ pc \in [Conns -> Labels] /\ req \in [Conns -> Paths]
      /\ tmp \in [Conns -> Nat] /\ off \in [Conns -> Nat]
      /\ lognum \in [Conns -> Nat] /\ served \in [Conns -> Nat] /\ out \in [Conns -> Seq(Token)]
  BY DEF TypeOK
<1>1. CASE ReadGet(c) \/ ReadUpload(c) \/ ReadMalformed(c) \/ ReadOther(c)
  <2>1. rpos'[d] = rpos[d] /\ rbuf'[d] = rbuf[d]
    BY <1>1, ReadLineOK DEF ReadGet, ReadUpload, ReadMalformed, ReadOther
  <2> QED  BY <1>0, <1>1, <2>1 DEF ReadGet, ReadUpload, ReadMalformed, ReadOther, Goto, net
<1>2. CASE ReadNull(c)
  BY <1>2 DEF ReadNull, vars, net
<1>3. CASE AnswerStep(c)
  <2>1. CASE LoadCount(c) \/ StoreCount(c) \/ OpenLog(c)
    BY <1>0, <2>1 DEF LoadCount, StoreCount, OpenLog, Goto, net
  <2>2. CASE AnswerDir(c) \/ AnswerText(c) \/ AnswerMissing(c)
    BY <1>0, <2>2 DEF AnswerDir, AnswerText, AnswerMissing, Answer, Send, Goto, net
  <2>3. CASE SizeImage(c) \/ SendImage(c) \/ StartDownload(c)
    BY <1>0, <2>3 DEF SizeImage, SendImage, StartDownload, Answer, Send, Goto, net
  <2>4. CASE DownloadFragment(c) \/ EndDownload(c) \/ CloseLog(c) \/ AnswerMalformed(c)
    BY <1>0, <2>4 DEF DownloadFragment, EndDownload, CloseLog, AnswerMalformed, Send, Goto, net
  <2> QED  BY <1>3, <2>1, <2>2, <2>3, <2>4 DEF AnswerStep
<1>4. CASE UploadStep(c)
  <2>1. CASE BeginUpload(c) \/ RefuseUpload(c)
    <3>1. rpos'[d] = rpos[d] /\ rbuf'[d] = rbuf[d]
      BY <2>1, ReadLineOK DEF BeginUpload, RefuseUpload
    <3> QED  BY <1>0, <2>1, <3>1 DEF BeginUpload, RefuseUpload, Send, Goto, net
  <2>2. CASE UploadCut(c) \/ ReceiveFragment(c) \/ EndUpload(c) \/ Close(c)
    BY <1>0, <2>2 DEF UploadCut, ReceiveFragment, EndUpload, Close, Goto, net
  <2> QED  BY <1>4, <2>1, <2>2 DEF UploadStep
<1>5. CASE Talks(c)
  BY <1>0, <1>5 DEF Talks
<1> QED  BY <1>1, <1>2, <1>3, <1>4, <1>5 DEF Thread

\* Streams only grow.
LEMMA StreamsGrow ==
    ASSUME TypeOK, NEW c \in Conns, ThreadOK(c), Thread(c) \/ Talks(c), NEW d \in Conns
    PROVE  /\ stream'[d] \in Seq(Unit) /\ Len(stream[d]) <= Len(stream'[d])
           /\ \A i \in 1 .. Len(stream[d]) : stream'[d][i] = stream[d][i]
           /\ Units(d) \subseteq Units(d)'
           /\ eof[d] => eof'[d] /\ stream'[d] = stream[d]
<1>0. stream \in [Conns -> Seq(Unit)] /\ stream[d] \in Seq(Unit) /\ eof \in [Conns -> BOOLEAN]
  BY DEF TypeOK
<1>1. \/ stream' = stream /\ eof' = eof
      \/ Talks(c)
  BY DEF Thread, ReadGet, ReadUpload, ReadMalformed, ReadOther, ReadNull, AnswerStep, LoadCount,
         StoreCount, OpenLog, AnswerDir, AnswerText, AnswerMissing, SizeImage, SendImage,
         StartDownload, DownloadFragment, EndDownload, CloseLog, AnswerMalformed, Answer,
         UploadStep, BeginUpload, RefuseUpload, UploadCut, ReceiveFragment, EndUpload, Close, net, vars
<1>2. /\ stream'[d] \in Seq(Unit) /\ Len(stream[d]) <= Len(stream'[d])
      /\ \A i \in 1 .. Len(stream[d]) : stream'[d][i] = stream[d][i]
      /\ eof[d] => eof'[d] /\ stream'[d] = stream[d]
  <2>1. CASE stream' = stream /\ eof' = eof
    BY <1>0, <2>1
  <2>2. CASE stream' = stream /\ eof' = [eof EXCEPT ![c] = TRUE]
    BY <1>0, <2>2
  <2>3. CASE ~eof[c] /\ eof' = eof /\ \E u \in Unit : stream' = [stream EXCEPT ![c] = Append(@, u)]
    <3>1. PICK u \in Unit : stream' = [stream EXCEPT ![c] = Append(stream[c], u)]
      BY <2>3
    <3>2. ~eof[c] /\ eof' = eof
      BY <2>3
    <3>3. CASE d = c
      <4>1. stream'[d] = Append(stream[d], u) /\ ~eof[d]
        BY <1>0, <3>1, <3>2, <3>3
      <4> QED  BY <1>0, <3>1, <4>1
    <3>4. CASE d # c
      BY <1>0, <3>1, <3>2, <3>4
    <3> QED  BY <3>3, <3>4
  <2> QED  BY <1>1, <2>1, <2>2, <2>3 DEF Talks
<1>3. Units(d) \subseteq Units(d)'
  BY <1>0, <1>2 DEF Units
<1> QED  BY <1>2, <1>3

\* Only an upload writes files, and a file that is there stays.
LEMMA FilesKept ==
    ASSUME TypeOK, NEW c \in Conns, ThreadOK(c), Thread(c) \/ Talks(c)
    PROVE  /\ fs' = fs \/ BeginUpload(c) \/ ReceiveFragment(c)
           /\ \A f \in Names : f # req[c] => fs'[f] = fs[f]
           /\ \A f \in Names : Stored(f) => Stored(f)'
<1>1. fs' = fs \/ BeginUpload(c) \/ ReceiveFragment(c)
  BY DEF Thread, ReadGet, ReadUpload, ReadMalformed, ReadOther, ReadNull, AnswerStep, LoadCount,
         StoreCount, OpenLog, AnswerDir, AnswerText, AnswerMissing, SizeImage, SendImage,
         StartDownload, DownloadFragment, EndDownload, CloseLog, AnswerMalformed, Answer,
         UploadStep, RefuseUpload, UploadCut, EndUpload, Close, vars,
         Talks
<1>2. CASE fs' = fs
  BY <1>1, <1>2 DEF Stored
<1>3. ASSUME NEW t \in Contents, fs' = [fs EXCEPT ![req[c]] = t]
      PROVE  /\ \A f \in Names : f # req[c] => fs'[f] = fs[f]
             /\ \A f \in Names : Stored(f) => Stored(f)'
  <2>1. t # Absent
    BY ContentAssumption DEF Contents
  <2> QED  BY <1>3, <2>1 DEF TypeOK, Stored
<1>4. CASE BeginUpload(c)
  <2>1. <<>> \in Contents
    BY DEF Contents
  <2>2. fs' = [fs EXCEPT ![req[c]] = <<>>]
    BY <1>4 DEF BeginUpload
  <2> QED  BY <1>1, <1>3, <2>1, <2>2
<1>5. CASE ReceiveFragment(c)
  <2> DEFINE t == WriteAt(fs[req[c]], off[c], Head(Pending(c)))
  <2>1. fs' = [fs EXCEPT ![req[c]] = t]
    BY <1>5 DEF ReceiveFragment
  <2>2. req[c] \in Names /\ Stored(req[c]) /\ rpos[c] <= Len(stream[c]) /\ Pending(c) # <<>>
    BY <1>5 DEF ReceiveFragment, ThreadOK
  <2>3. fs[req[c]] \in Contents /\ off[c] \in Nat /\ Head(Pending(c)) \in Unit
    <3>1. fs[req[c]] \in Contents
      BY <2>2, StoredShape
    <3>2. Pending(c) \in Seq(Unit)
      BY <2>2, PendingShape
    <3>3. Head(Pending(c)) \in Unit
      BY <2>2, <3>2
    <3> QED  BY <3>1, <3>3 DEF TypeOK
  <2>4. t \in Contents
    BY <2>3, WriteAtType
  <2> HIDE DEF t
  <2> QED  BY <1>1, <1>3, <2>1, <2>4
<1> QED  BY <1>1, <1>2, <1>4, <1>5

\* Where a thread can come from.
LEMMA Labelling ==
    ASSUME TypeOK, NEW c \in Conns, Thread(c) \/ Talks(c)
    PROVE  /\ pc'[c] \in Answering => pc[c] \in Answering \/ ReadGet(c)
           /\ served'[c] > 0 => served[c] > 0 \/ pc[c] \in Answering
           /\ pc'[c] = "validity" => ReadUpload(c) \/ (pc[c] = "validity" /\ req'[c] = req[c])
           /\ pc'[c] = "receive" =>
                  BeginUpload(c) \/ (pc[c] = "receive" /\ req'[c] = req[c])
           /\ pc'[c] = "stored" =>
                  EndUpload(c) \/ (pc[c] = "stored" /\ req'[c] = req[c] /\ rpos'[c] = rpos[c])
           /\ pc'[c] = "download" =>
                  StartDownload(c) \/ (pc[c] = "download" /\ req'[c] = req[c])
<1>0. pc \in [Conns -> Labels] /\ served \in [Conns -> Nat]
  BY DEF TypeOK
<1>1. CASE ReadGet(c) \/ ReadUpload(c) \/ ReadMalformed(c) \/ ReadOther(c)
  BY <1>0, <1>1 DEF ReadGet, ReadUpload, ReadMalformed, ReadOther, Goto, Answering
<1>2. CASE ReadNull(c)
  BY <1>2 DEF ReadNull, vars
<1>3. CASE AnswerStep(c)
  <2>1. CASE LoadCount(c) \/ StoreCount(c) \/ OpenLog(c) \/ AnswerDir(c) \/ AnswerText(c)
    BY <1>0, <2>1 DEF LoadCount, StoreCount, OpenLog, AnswerDir, AnswerText, Answer, Goto, Answering
  <2>2. CASE AnswerMissing(c) \/ SizeImage(c) \/ SendImage(c) \/ StartDownload(c)
    BY <1>0, <2>2 DEF AnswerMissing, SizeImage, SendImage, StartDownload, Answer, Goto, Answering
  <2>3. CASE DownloadFragment(c) \/ EndDownload(c) \/ CloseLog(c) \/ AnswerMalformed(c)
    BY <1>0, <2>3 DEF DownloadFragment, EndDownload, CloseLog, AnswerMalformed, Goto, Answering
  <2> QED  BY <1>3, <2>1, <2>2, <2>3 DEF AnswerStep
<1>4. CASE UploadStep(c)
  <2>1. CASE BeginUpload(c) \/ RefuseUpload(c) \/ UploadCut(c)
    BY <1>0, <2>1 DEF BeginUpload, RefuseUpload, UploadCut, Goto, Answering
  <2>2. CASE ReceiveFragment(c) \/ EndUpload(c) \/ Close(c)
    BY <1>0, <2>2 DEF ReceiveFragment, EndUpload, Close, Goto, Answering
  <2> QED  BY <1>4, <2>1, <2>2 DEF UploadStep
<1>5. CASE Talks(c)
  BY <1>5 DEF Talks
<1> QED  BY <1>1, <1>2, <1>3, <1>4, <1>5 DEF Thread

-----------------------------------------------------------------------------
(* Threads *)

\* What the reader holds still comes from the stream.
LEMMA ReaderStep ==
    ASSUME TypeOK, NEW c \in Conns, ThreadOK(c), Thread(c) \/ Talks(c)
    PROVE  /\ rpos'[c] <= Len(stream'[c])
           /\ \A j \in 1 .. Len(rbuf'[c]) : \E i \in 1 .. rpos'[c] : rbuf'[c][j] = stream'[c][i]
<1>0. /\ stream[c] \in Seq(Unit) /\ stream'[c] \in Seq(Unit) /\ rpos[c] \in Nat
      /\ Len(stream[c]) <= Len(stream'[c])
      /\ \A i \in 1 .. Len(stream[c]) : stream'[c][i] = stream[c][i]
      /\ rpos[c] <= Len(stream[c])
      /\ \A j \in 1 .. Len(rbuf[c]) : \E i \in 1 .. rpos[c] : rbuf[c][j] = stream[c][i]
  BY StreamsGrow DEF TypeOK, ThreadOK
<1>1. \/ \E u : ReadLine(c, u)
      \/ ReceiveFragment(c)
      \/ rpos' = rpos /\ rbuf' = rbuf
  BY DEF Thread, ReadGet, ReadUpload, ReadMalformed, ReadOther, ReadNull, AnswerStep, LoadCount,
         StoreCount, OpenLog, AnswerDir, AnswerText, AnswerMissing, SizeImage, SendImage,
         StartDownload, DownloadFragment, EndDownload, CloseLog, AnswerMalformed, Answer,
         UploadStep, BeginUpload, RefuseUpload, UploadCut, EndUpload, Close, vars,
         Talks
<1>2. CASE \E u : ReadLine(c, u)
  <2>1. /\ rpos'[c] \in Nat /\ rpos'[c] <= Len(stream[c])
        /\ \A j \in 1 .. Len(rbuf'[c]) : \E i \in 1 .. rpos'[c] : rbuf'[c][j] = stream[c][i]
    BY <1>2, ReadLineOK
  <2> QED  BY <1>0, <2>1
<1>3. CASE ReceiveFragment(c)
  <2>1. rbuf' = rbuf /\ rpos'[c] = rpos[c] + 1 /\ Pending(c) # <<>>
    BY <1>3 DEF ReceiveFragment, TypeOK
  <2>2. rpos[c] + 1 <= Len(stream[c])
    BY <1>0, <2>1, PendingShape
  <2>3. ASSUME NEW j \in 1 .. Len(rbuf[c])
        PROVE  \E i \in 1 .. rpos[c] + 1 : rbuf[c][j] = stream'[c][i]
    <3>1. PICK i \in 1 .. rpos[c] : rbuf[c][j] = stream[c][i]
      BY <1>0
    <3>2. i \in 1 .. rpos[c] + 1 /\ stream'[c][i] = stream[c][i]
      BY <1>0, <3>1
    <3> QED  BY <3>1, <3>2
  <2>4. rpos[c] + 1 <= Len(stream'[c])
    BY <1>0, <2>2
  <2> QED  BY <2>1, <2>3, <2>4
<1>4. CASE rpos' = rpos /\ rbuf' = rbuf
  BY <1>0, <1>4
<1> QED  BY <1>1, <1>2, <1>3, <1>4

\* The thread that takes a step.
LEMMA OwnThread ==
    ASSUME TypeOK, NEW c \in Conns, ThreadOK(c), Thread(c) \/ Talks(c)
    PROVE  ThreadOK(c)'
<1>0. /\ Units(c) \subseteq Units(c)' /\ (eof[c] => eof'[c] /\ stream'[c] = stream[c])
      /\ Asked(c) => Asked(c)'
      /\ \A f \in Names : Stored(f) => Stored(f)'
  <2>1. Units(c) \subseteq Units(c)' /\ (eof[c] => eof'[c] /\ stream'[c] = stream[c])
    BY StreamsGrow
  <2> QED  BY <2>1, FilesKept DEF Asked
<1>1. (pc[c] \in Answering \/ served[c] > 0 => Asked(c))'
  <2>1. CASE ReadGet(c)
    <3>1. Asked(c)
      BY <2>1 DEF ReadGet, Asked
    <3> QED  BY <1>0, <3>1
  <2>2. CASE ~ReadGet(c)
    BY <1>0, <2>2, Labelling DEF ThreadOK
  <2> QED  BY <2>1, <2>2
<1>2. (pc[c] \in {"validity", "receive", "stored"} =>
           req[c] \in Names /\ Upload(req[c]) \in Units(c))'
  <2>1. CASE ReadUpload(c)
    <3>1. PICK u \in Units(c) : /\ ReadLine(c, u) /\ u.t = "UPLOAD" /\ u.of # Absent
                               /\ req' = [req EXCEPT ![c] = u.of]
      BY <2>1 DEF ReadUpload
    <3>2. u \in Unit
      BY <3>1, ReadLineOK
    <3>3. u = Upload(u.of) /\ u.of \in Names /\ req'[c] = u.of
      BY <3>1, <3>2, UnitShape DEF TypeOK
    <3> QED  BY <1>0, <3>3
  <2>2. CASE ~ReadUpload(c)
    <3>1. SUFFICES ASSUME pc'[c] \in {"validity", "receive", "stored"}
                   PROVE  req'[c] \in Names /\ Upload(req'[c]) \in Units(c)'
      OBVIOUS
    <3>2. pc[c] \in {"validity", "receive", "stored"} /\ req'[c] = req[c]
      <4>1. CASE BeginUpload(c) \/ EndUpload(c)
        BY <4>1 DEF BeginUpload, EndUpload
      <4>2. CASE ~(BeginUpload(c) \/ EndUpload(c))
        BY <2>2, <3>1, <4>2, Labelling
      <4> QED  BY <4>1, <4>2
    <3> QED  BY <1>0, <3>2 DEF ThreadOK
  <2> QED  BY <2>1, <2>2
<1>3. (pc[c] \in {"download", "receive", "stored"} => req[c] \in Names /\ Stored(req[c]))'
  <2>1. SUFFICES ASSUME pc'[c] \in {"download", "receive", "stored"}
                 PROVE  req'[c] \in Names /\ fs'[req'[c]] # Absent
    BY DEF Stored
  <2>2. CASE StartDownload(c)
    <3>1. req'[c] = req[c] /\ req[c] \in Names /\ Stored(req[c])
      BY <2>2 DEF StartDownload, Answer
    <3> QED  BY <1>0, <3>1 DEF Stored
  <2>3. CASE BeginUpload(c)
    <3>1. req'[c] = req[c] /\ fs' = [fs EXCEPT ![req[c]] = <<>>] /\ pc[c] = "validity"
      BY <2>3 DEF BeginUpload
    <3>2. req[c] \in Names
      BY <3>1 DEF ThreadOK
    <3>3. fs'[req[c]] = <<>>
      BY <3>1, <3>2 DEF TypeOK
    <3>4. <<>> # Absent
      <4>1. <<>> \in Seq(Unit \cup {Hole})
        OBVIOUS
      <4> QED  BY <4>1, ContentAssumption
    <3> QED  BY <3>1, <3>2, <3>3, <3>4
  <2>4. CASE ~(StartDownload(c) \/ BeginUpload(c))
    <3>1. pc[c] \in {"download", "receive", "stored"} /\ req'[c] = req[c]
      <4>1. CASE EndUpload(c)
        BY <4>1 DEF EndUpload
      <4>2. CASE ~EndUpload(c)
        BY <2>1, <2>4, <4>2, Labelling
      <4> QED  BY <4>1, <4>2
    <3>2. req[c] \in Names /\ Stored(req[c])
      BY <3>1 DEF ThreadOK
    <3> QED  BY <1>0, <3>1, <3>2 DEF Stored
  <2> QED  BY <2>2, <2>3, <2>4
<1>4. (pc[c] = "stored" => eof[c] /\ (rpos[c] = Len(stream[c]) \/ MayCrash))'
  <2>1. CASE EndUpload(c)
    <3>1. UNCHANGED <<stream, eof, rpos>> /\ eof[c] /\ (Pending(c) = <<>> \/ MayCrash)
      BY <2>1 DEF EndUpload, net
    <3>2. Len(Pending(c)) = Len(stream[c]) - rpos[c] /\ (Pending(c) = <<>> => Len(Pending(c)) = 0)
      BY PendingShape DEF ThreadOK
    <3>3. Len(stream[c]) \in Nat /\ rpos[c] \in Nat
      BY DEF TypeOK
    <3>4. Pending(c) = <<>> => rpos[c] = Len(stream[c])
      BY <3>2, <3>3
    <3> QED  BY <3>1, <3>4
  <2>2. CASE ~EndUpload(c)
    BY <1>0, <2>2, Labelling DEF ThreadOK
  <2> QED  BY <2>1, <2>2
<1> QED  BY <1>1, <1>2, <1>3, <1>4, ReaderStep DEF ThreadOK

\* The other threads.
LEMMA OtherThread ==
    ASSUME TypeOK, NEW c \in Conns, ThreadOK(c), Thread(c) \/ Talks(c),
           NEW d \in Conns \ {c}, ThreadOK(d)
    PROVE  ThreadOK(d)'
<1>1. Units(d)' = Units(d)
  BY OthersUntouched DEF Units
<1>2. Asked(d)' = Asked(d)
  BY <1>1 DEF Asked
<1>3. \A f \in Names : Stored(f) => Stored(f)'
  BY FilesKept
<1>4. /\ stream'[d] = stream[d] /\ eof'[d] = eof[d] /\ rpos'[d] = rpos[d] /\ rbuf'[d] = rbuf[d]
      /\ pc'[d] = pc[d] /\ req'[d] = req[d] /\ served'[d] = served[d]
  BY OthersUntouched
<1>5. (pc[d] = "stored" => eof[d] /\ (rpos[d] = Len(stream[d]) \/ MayCrash))'
  BY <1>4 DEF ThreadOK
<1> QED  BY <1>1, <1>2, <1>3, <1>4, <1>5 DEF ThreadOK

-----------------------------------------------------------------------------
(* Lines *)

\* A line that is read is the next one of the stream.
LEMMA LineTaken ==
    ASSUME TypeOK, NEW c \in Conns, ThreadOK(c), NEW u, ReadLine(c, u),
           NEW n \in Nat, n = rpos[c] - Len(rbuf[c]),
           \A j \in 1 .. Len(rbuf[c]) : rbuf[c][j] = stream[c][n + j]
    PROVE  /\ rpos'[c] - Len(rbuf'[c]) = n + 1
           /\ n + 1 <= Len(stream[c]) /\ u = stream[c][n + 1]
           /\ \A j \in 1 .. Len(rbuf'[c]) : rbuf'[c][j] = stream[c][(n + 1) + j]
<1> DEFINE s == stream[c]
           r == rpos[c]
           b == rbuf[c]
<1>0. /\ s \in Seq(Unit) /\ r \in Nat /\ b \in Seq(Unit) /\ r <= Len(s) /\ n = r - Len(b)
      /\ \A j \in 1 .. Len(b) : b[j] = s[n + j]
      /\ rpos \in [Conns -> Nat] /\ rbuf \in [Conns -> Seq(Unit)]
  BY DEF TypeOK, ThreadOK
<1>1. CASE /\ b # <<>> /\ u = Head(b) /\ rbuf' = [rbuf EXCEPT ![c] = Tail(b)]
           /\ rpos' = rpos
  <2>1. Tail(b) \in Seq(Unit) /\ Len(Tail(b)) = Len(b) - 1 /\ Len(b) >= 1 /\ u = b[1]
    BY <1>0, <1>1
  <2>2. \A j \in 1 .. Len(Tail(b)) : Tail(b)[j] = b[j + 1] /\ j + 1 \in 1 .. Len(b)
    BY <1>0, <1>1
  <2>3. rbuf'[c] = Tail(b) /\ rpos'[c] = r
    BY <1>0, <1>1
  <2> DEFINE t == Tail(b)
             l == Len(b)
  <2>4. l \in Nat
    BY <1>0
  <2> HIDE DEF s, r, b, t, l
  <2>5. r - Len(t) = n + 1 /\ n + 1 <= Len(s)
    <3> DEFINE m == Len(s)
    <3>1. Len(t) = l - 1 /\ l >= 1 /\ n = r - l /\ m \in Nat /\ r \in Nat /\ r <= m
      BY <1>0, <2>1 DEF t, l
    <3> HIDE DEF m
    <3>2. r - (l - 1) = n + 1 /\ n + 1 <= m
      BY <2>4, <3>1
    <3> QED  BY <3>1, <3>2 DEF m
  <2>6. u = s[n + 1]
    <3>1. 1 \in 1 .. Len(b)
      BY <2>1, <2>4 DEF l
    <3> QED  BY <1>0, <2>1, <3>1
  <2>7. ASSUME NEW j \in 1 .. Len(t)
        PROVE  t[j] = s[(n + 1) + j]
    <3>1. t[j] = b[j + 1] /\ j + 1 \in 1 .. Len(b)
      BY <2>2 DEF t
    <3>2. b[j + 1] = s[n + (j + 1)]
      BY <1>0, <3>1
    <3>3. n + (j + 1) = (n + 1) + j
      OBVIOUS
    <3> QED  BY <3>1, <3>2, <3>3
  <2> QED  BY <2>3, <2>5, <2>6, <2>7 DEF s, t
<1>2. CASE /\ b = <<>> /\ Pending(c) # <<>> /\ u = Head(Pending(c))
           /\ \E m \in 1 .. Len(Pending(c)) :
                 /\ rbuf' = [rbuf EXCEPT ![c] = SubSeq(Pending(c), 2, m)]
                 /\ rpos' = [rpos EXCEPT ![c] = r + m]
  <2> DEFINE p == Pending(c)
  <2>1. /\ p \in Seq(Unit) /\ Len(p) = Len(s) - r
        /\ \A j \in 1 .. Len(p) : r + j \in 1 .. Len(s) /\ p[j] = s[r + j]
    BY <1>0, PendingShape
  <2> HIDE DEF p
  <2>2. PICK m \in 1 .. Len(p) : /\ rbuf' = [rbuf EXCEPT ![c] = SubSeq(p, 2, m)]
                                 /\ rpos' = [rpos EXCEPT ![c] = r + m]
    BY <1>2 DEF p
  <2> DEFINE t == SubSeq(p, 2, m)
  <2>3. m \in Nat /\ 1 <= m /\ m <= Len(p) /\ Len(p) \in Nat
    BY <2>1, <2>2
  <2>4. Len(t) = m - 1 /\ \A j \in 1 .. m - 1 : t[j] = p[j + 1]
    <3>1. Len(t) = m - 1
      BY <2>1, <2>3
    <3>2. \A j \in 1 .. m - 1 : t[j] = p[j + 1]
      BY <2>1, <2>3
    <3> QED  BY <3>1, <3>2
  <2>5. u = p[1] /\ n = r
    BY <1>0, <1>2, <2>1 DEF p
  <2> HIDE DEF t
  <2>6. rbuf'[c] = t /\ rpos'[c] = r + m
    BY <1>0, <2>2 DEF t
  <2>7. (r + m) - Len(t) = n + 1 /\ n + 1 <= Len(s) /\ u = s[n + 1]
    <3>1. 1 \in 1 .. Len(p)
      BY <2>3
    <3>2. u = s[r + 1] /\ r + 1 \in 1 .. Len(s)
      BY <2>1, <2>5, <3>1
    <3>3. (r + m) - (m - 1) = r + 1 /\ r + 1 <= Len(s)
      BY <1>0, <2>3, <3>2
    <3> QED  BY <2>4, <2>5, <3>2, <3>3
  <2>8. ASSUME NEW j \in 1 .. Len(t)
        PROVE  t[j] = s[(n + 1) + j]
    <3>1. j \in 1 .. m - 1 /\ j + 1 \in 1 .. Len(p)
      BY <2>3, <2>4
    <3>2. t[j] = p[j + 1] /\ p[j + 1] = s[r + (j + 1)]
      BY <2>1, <2>4, <3>1
    <3>3. r + (j + 1) = (n + 1) + j
      BY <1>0, <2>5
    <3> QED  BY <3>2, <3>3
  <2> HIDE DEF s, r, b
  <2> QED  BY <2>6, <2>7, <2>8 DEF s
<1> QED  BY <1>1, <1>2 DEF ReadLine

\* The steps that read a line.
Reads(c) ==
    \/ ReadGet(c) \/ ReadUpload(c) \/ ReadMalformed(c) \/ ReadOther(c)
    \/ BeginUpload(c) \/ RefuseUpload(c)

\* The others leave a thread where it is, except that an answer goes on, an
\* upload may end and may lack its second line.
LEMMA NoLine ==
    ASSUME TypeOK, NEW c \in Conns, Thread(c) \/ Talks(c), ~Reads(c)
    PROVE  /\ rbuf'[c] = rbuf[c]
           /\ pc[c] \in {"loop", "close"} => pc'[c] = pc[c]
           /\ pc[c] = "validity" => UploadCut(c) \/ (pc'[c] = pc[c] /\ req'[c] = req[c])
           /\ pc[c] \in {"receive", "stored"} => pc'[c] \in {"receive", "stored"} /\ req'[c] = req[c]
           /\ pc'[c] \in {"receive", "stored"} => pc[c] \in {"receive", "stored"}
           /\ \/ rpos'[c] = rpos[c] /\ (pc[c] \in {"receive", "stored"} => off'[c] = off[c])
              \/ /\ pc[c] = "receive" /\ pc'[c] = pc[c]
                 /\ rpos'[c] = rpos[c] + 1 /\ off'[c] = off[c] + 1
<1>0. pc \in [Conns -> Labels] /\ rpos \in [Conns -> Nat] /\ off \in [Conns -> Nat]
  BY DEF TypeOK
<1>2. CASE ReadNull(c)
  BY <1>2 DEF ReadNull, vars
<1>3. CASE AnswerStep(c)
  <2>1. CASE LoadCount(c) \/ StoreCount(c) \/ OpenLog(c) \/ AnswerDir(c) \/ AnswerText(c)
    BY <1>0, <2>1 DEF LoadCount, StoreCount, OpenLog, AnswerDir, AnswerText, Answer, Goto
  <2>2. CASE AnswerMissing(c) \/ SizeImage(c) \/ SendImage(c) \/ StartDownload(c)
    BY <1>0, <2>2 DEF AnswerMissing, SizeImage, SendImage, StartDownload, Answer, Goto
  <2>3. CASE DownloadFragment(c) \/ EndDownload(c) \/ CloseLog(c) \/ AnswerMalformed(c)
    BY <1>0, <2>3 DEF DownloadFragment, EndDownload, CloseLog, AnswerMalformed, Goto
  <2> QED  BY <1>3, <2>1, <2>2, <2>3 DEF AnswerStep
<1>4. CASE UploadCut(c) \/ EndUpload(c) \/ Close(c)
  BY <1>0, <1>4 DEF UploadCut, EndUpload, Close, Goto
<1>5. CASE ReceiveFragment(c)
  BY <1>0, <1>5 DEF ReceiveFragment
<1>6. CASE Talks(c)
  BY <1>6 DEF Talks
<1> QED  BY <1>2, <1>3, <1>4, <1>5, <1>6 DEF Thread, UploadStep, Reads

\* How many lines a thread has read is a number of units of its stream.
LEMMA LinesType ==
    ASSUME TypeOK, NEW c \in Conns, ThreadOK(c), LinesOK(c)
    PROVE  /\ Lines(c) \in Nat /\ Lines(c) + Len(rbuf[c]) <= rpos[c]
           /\ stream[c] \in Seq(Unit) /\ Len(rbuf[c]) \in Nat /\ rpos[c] \in Nat /\ off[c] \in Nat
           /\ rpos[c] <= Len(stream[c]) /\ Lines(c) <= Len(stream[c])
           /\ pc[c] \notin {"receive", "stored"} => Lines(c) = rpos[c] - Len(rbuf[c])
           /\ pc[c] \in {"receive", "stored"} => Lines(c) = rpos[c] - Len(rbuf[c]) - off[c]
<1>1. /\ stream[c] \in Seq(Unit) /\ rbuf[c] \in Seq(Unit) /\ rpos[c] \in Nat /\ off[c] \in Nat
      /\ rpos[c] <= Len(stream[c]) /\ Lines(c) >= 0
  BY DEF TypeOK, ThreadOK, LinesOK
<1> DEFINE l == Len(rbuf[c])
           m == Len(stream[c])
<1>2. l \in Nat /\ m \in Nat
  BY <1>1
<1>3. /\ pc[c] \notin {"receive", "stored"} => Lines(c) = rpos[c] - l
      /\ pc[c] \in {"receive", "stored"} => Lines(c) = rpos[c] - l - off[c]
  BY <1>1, <1>2 DEF Lines
<1> HIDE DEF l, m
<1>4. Lines(c) \in Nat /\ Lines(c) + l <= rpos[c] /\ rpos[c] <= m /\ Lines(c) <= m
  <2>1. rpos[c] <= m
    BY <1>1 DEF m
  <2>2. CASE pc[c] \in {"receive", "stored"}
    BY <1>1, <1>2, <1>3, <2>1, <2>2
  <2>3. CASE pc[c] \notin {"receive", "stored"}
    BY <1>1, <1>2, <1>3, <2>1, <2>3
  <2> QED  BY <2>2, <2>3
<1> QED  BY <1>1, <1>2, <1>3, <1>4 DEF l, m

\* A step that reads a line.
LEMMA LineStep ==
    ASSUME TypeOK, NEW c \in Conns, ThreadOK(c), LinesOK(c), Reads(c)
    PROVE  LinesOK(c)'
<1> DEFINE s == stream[c]
           n == Lines(c)
<1>1. stream' = stream /\ pc[c] \in {"loop", "validity"}
  BY DEF Reads, ReadGet, ReadUpload, ReadMalformed, ReadOther, BeginUpload, RefuseUpload, net
<1>2. PICK u : /\ ReadLine(c, u)
               /\ ReadGet(c) => u.t = "GET"
               /\ ReadUpload(c) => u.t = "UPLOAD" /\ u.of # Absent /\ req' = [req EXCEPT ![c] = u.of]
               /\ ReadMalformed(c) => u \in {Blank, Upload(Absent)}
               /\ ReadOther(c) => u.t \notin {"GET", "UPLOAD", "blank"}
               /\ BeginUpload(c) => u = Valid
               /\ RefuseUpload(c) => (u = Valid => ~Accepts(req[c]) \/ req[c] \in Unstorable)
  <2>1. ReadGet(c) => pc'[c] = "count" /\ pc[c] = "loop"
    BY DEF ReadGet, Goto, TypeOK
  <2>2. ReadUpload(c) => pc'[c] = "validity" /\ pc[c] = "loop"
    BY DEF ReadUpload, Goto, TypeOK
  <2>3. ReadMalformed(c) => pc'[c] = "close" /\ pc[c] = "loop"
    BY DEF ReadMalformed, Goto, TypeOK
  <2>4. ReadOther(c) => pc'[c] = "loop" /\ pc[c] = "loop"
    BY DEF ReadOther
  <2>5. BeginUpload(c) => pc'[c] = "receive" /\ pc[c] = "validity"
    BY DEF BeginUpload, Goto, TypeOK
  <2>6. RefuseUpload(c) => pc'[c] = "loop" /\ pc[c] = "validity"
    BY DEF RefuseUpload, Goto, TypeOK
  <2>7. CASE ReadGet(c)
    <3>1. PICK v \in Units(c) : ReadLine(c, v) /\ v.t = "GET"
      BY <2>7 DEF ReadGet
    <3> QED  BY <2>1, <2>2, <2>3, <2>4, <2>5, <2>6, <2>7, <3>1
  <2>8. CASE ReadUpload(c)
    <3>1. PICK v \in Units(c) : /\ ReadLine(c, v) /\ v.t = "UPLOAD" /\ v.of # Absent
                                /\ req' = [req EXCEPT ![c] = v.of]
      BY <2>8 DEF ReadUpload
    <3> QED  BY <2>1, <2>2, <2>3, <2>4, <2>5, <2>6, <2>8, <3>1
  <2>9. CASE ReadMalformed(c)
    <3>1. PICK v \in Units(c) : ReadLine(c, v) /\ v \in {Blank, Upload(Absent)}
      BY <2>9 DEF ReadMalformed
    <3> QED  BY <2>1, <2>2, <2>3, <2>4, <2>5, <2>6, <2>9, <3>1
  <2>10. CASE ReadOther(c)
    <3>1. PICK v \in Units(c) : ReadLine(c, v) /\ v.t \notin {"GET", "UPLOAD", "blank"}
      BY <2>10 DEF ReadOther
    <3> QED  BY <2>1, <2>2, <2>3, <2>4, <2>5, <2>6, <2>10, <3>1
  <2>11. CASE BeginUpload(c)
    <3>1. ReadLine(c, Valid)
      BY <2>11 DEF BeginUpload
    <3> QED  BY <2>1, <2>2, <2>3, <2>4, <2>5, <2>6, <2>11, <3>1
  <2>12. CASE RefuseUpload(c)
    <3>1. PICK v \in Units(c) : /\ ReadLine(c, v)
                                /\ v = Valid => ~Accepts(req[c]) \/ req[c] \in Unstorable
      BY <2>12 DEF RefuseUpload
    <3>2. ~ReadGet(c) /\ ~ReadUpload(c) /\ ~ReadMalformed(c) /\ ~ReadOther(c) /\ ~BeginUpload(c)
      BY <2>1, <2>2, <2>3, <2>4, <2>5, <2>6, <2>12
    <3> QED  BY <3>1, <3>2
  <2> QED  BY <2>7, <2>8, <2>9, <2>10, <2>11, <2>12 DEF Reads
<1>3. n \in Nat /\ n = rpos[c] - Len(rbuf[c])
      /\ \A j \in 1 .. Len(rbuf[c]) : rbuf[c][j] = s[n + j]
  BY <1>1, LinesType DEF LinesOK
<1> HIDE DEF n
<1>4. /\ rpos'[c] - Len(rbuf'[c]) = n + 1
      /\ n + 1 <= Len(s) /\ u = s[n + 1]
      /\ \A j \in 1 .. Len(rbuf'[c]) : rbuf'[c][j] = s[(n + 1) + j]
  BY <1>2, <1>3, LineTaken
<1>5. u \in Unit /\ Len(rbuf'[c]) \in Nat /\ rpos'[c] \in Nat
  <2>1. rpos' \in [Conns -> Nat] /\ rbuf' \in [Conns -> Seq(Unit)] /\ u \in Unit
    BY <1>2, ReadLineOK
  <2> QED  BY <2>1
<1>6. Lines(c)' = n + 1
  <2>1. BeginUpload(c) => off'[c] = 0
    BY DEF BeginUpload, TypeOK
  <2>2. pc'[c] \in {"receive", "stored"} => BeginUpload(c)
    BY <1>1, Labelling DEF Reads, Thread, UploadStep, EndUpload
  <2>3. pc'[c] \in {"receive", "stored"} => off'[c] = 0
    BY <2>1, <2>2
  <2> QED  BY <1>3, <1>4, <1>5, <2>3 DEF Lines
<1>7. \A f \in Names : Upload(f).t = "UPLOAD" /\ Upload(f).of = f /\ Upload(f) # Upload(Absent)
                       /\ Upload(f) # Blank
  <2>1. \A f \in Names : f # Absent
    BY ContentAssumption
  <2>2. \A f \in Names : Upload(f).t = "UPLOAD" /\ Upload(f).of = f
    BY DEF Upload
  <2>3. Upload(Absent).of = Absent /\ Blank.t = "blank"
    BY DEF Upload, Blank
  <2> QED  BY <2>1, <2>2, <2>3
\* What the lines before this one have led to.
<1>8. /\ n = 0 => pc[c] = "loop"
      /\ pc[c] = "validity" => n >= 1 /\ s[n] = Upload(req[c])
      /\ \A f \in Names :
            /\ n = 1 /\ s[1] = Upload(f) => pc[c] = "validity" /\ req[c] = f
            /\ n >= 2 /\ s[1] = Upload(f) /\ s[2] = Valid => ~Accepts(f) \/ f \in Unstorable
  BY <1>1 DEF LinesOK, n
<1> SUFFICES
      /\ pc'[c] = "validity" => n + 1 >= 1 /\ s[n + 1] = Upload(req'[c])
      /\ pc'[c] \in {"receive", "stored"} =>
            /\ n + 1 >= 2 /\ s[(n + 1) - 1] = Upload(req'[c]) /\ s[n + 1] = Valid
            /\ Accepts(req'[c]) /\ req'[c] \notin Unstorable
      /\ \A f \in Names :
            /\ n + 1 = 1 /\ s[1] = Upload(f) => pc'[c] = "validity" /\ req'[c] = f
            /\ n + 1 >= 2 /\ s[1] = Upload(f) /\ s[2] = Valid /\ Accepts(f) /\ f \notin Unstorable =>
                  pc'[c] \in {"receive", "stored"} /\ req'[c] = f
  <2>1. n + 1 >= 0 /\ n + 1 # 0 /\ stream'[c] = s
    BY <1>1, <1>3
  <2> HIDE DEF s
  <2> QED  BY <1>4, <1>6, <2>1 DEF LinesOK, Upload, Valid, Accepts
<1>9. CASE ReadUpload(c)
  <2>1. pc[c] = "loop" /\ pc'[c] = "validity" /\ req'[c] = u.of /\ u.t = "UPLOAD"
    BY <1>2, <1>9 DEF ReadUpload, Goto, TypeOK
  <2>2. u = Upload(u.of)
    BY <1>5, <2>1, UnitShape
  <2>3. \A f \in Names : u = Upload(f) => u.of = f
    BY <1>7
  <2> QED  BY <1>3, <1>4, <1>8, <2>1, <2>2, <2>3
<1>10. CASE BeginUpload(c)
  <2>1. /\ pc[c] = "validity" /\ pc'[c] = "receive" /\ req' = req /\ u = Valid
        /\ Accepts(req[c]) /\ req[c] \notin Unstorable
    BY <1>2, <1>10 DEF BeginUpload, Goto, TypeOK
  <2>2. (n + 1) - 1 = n /\ n >= 1
    BY <1>3, <1>8, <2>1
  <2>3. n + 1 # 1 /\ n + 1 >= 2 /\ (n = 1 \/ n >= 2)
    BY <1>3, <2>2
  <2> HIDE DEF s
  <2> QED  BY <1>4, <1>8, <2>1, <2>2, <2>3
<1>11. CASE ReadGet(c) \/ ReadMalformed(c) \/ ReadOther(c)
  <2>1. pc[c] = "loop" /\ pc'[c] \in {"count", "close", "loop"}
    BY <1>11 DEF ReadGet, ReadMalformed, ReadOther, Goto, TypeOK
  <2>2. \A f \in Names : u # Upload(f)
    <3> SUFFICES ASSUME NEW f \in Names, u = Upload(f)
                 PROVE  FALSE
      OBVIOUS
    <3>1. u.t = "UPLOAD" /\ u # Upload(Absent) /\ u # Blank
      BY <1>7
    <3> QED  BY <1>2, <1>11, <3>1
  <2>3. n + 1 >= 2 => n = 1 \/ n >= 2
    BY <1>3
  <2>4. n + 1 = 1 => u = s[1]
    BY <1>4
  <2> HIDE DEF s
  <2> QED  BY <1>8, <2>1, <2>2, <2>3, <2>4
<1>12. CASE RefuseUpload(c)
  <2>1. pc[c] = "validity" /\ pc'[c] = "loop"
    BY <1>12 DEF RefuseUpload, Goto, TypeOK
  <2>2. n >= 1 /\ n + 1 # 1 /\ (n = 1 \/ n >= 2)
    BY <1>3, <1>8, <2>1
  <2>3. n = 1 => u = s[2]
    BY <1>4
  <2> HIDE DEF s
  <2> QED  BY <1>2, <1>8, <1>12, <2>1, <2>2, <2>3
<1> QED  BY <1>9, <1>10, <1>11, <1>12 DEF Reads

\* Any other step of the thread or its peer.
LEMMA NoLineStep ==
    ASSUME TypeOK, NEW c \in Conns, ThreadOK(c), LinesOK(c), Thread(c) \/ Talks(c), ~Reads(c)
    PROVE  LinesOK(c)'
<1> DEFINE s == stream[c]
           z == stream'[c]
           n == Lines(c)
<1>1. /\ n \in Nat /\ n + Len(rbuf[c]) <= rpos[c] /\ rpos[c] <= Len(s) /\ n <= Len(s)
      /\ s \in Seq(Unit) /\ Len(rbuf[c]) \in Nat /\ rpos[c] \in Nat /\ off[c] \in Nat
  BY LinesType
<1>2. /\ \A i \in 1 .. Len(s) : z[i] = s[i]
      /\ eof[c] => eof'[c] /\ z = s
  BY StreamsGrow
<1>3. rbuf'[c] = rbuf[c]
  BY NoLine
<1>4. Lines(c)' = n
  <2> DEFINE l == Len(rbuf[c])
  <2>1. /\ pc[c] \notin {"receive", "stored"} => n = rpos[c] - l
        /\ pc[c] \in {"receive", "stored"} => n = rpos[c] - l - off[c]
        /\ l \in Nat
    BY LinesType
  <2>2. /\ pc'[c] \notin {"receive", "stored"} => Lines(c)' = rpos'[c] - l
        /\ pc'[c] \in {"receive", "stored"} => Lines(c)' = rpos'[c] - l - off'[c]
    <3>1. /\ pc'[c] \notin {"receive", "stored"} => Lines(c)' = rpos'[c] - Len(rbuf'[c]) - 0
          /\ pc'[c] \in {"receive", "stored"} => Lines(c)' = rpos'[c] - Len(rbuf'[c]) - off'[c]
      BY DEF Lines
    <3>2. rpos'[c] \in Nat
      BY StepTypes DEF TypeOK
    <3> HIDE DEF l
    <3>3. rpos'[c] - l - 0 = rpos'[c] - l
      BY <2>1, <3>2
    <3> QED  BY <1>3, <3>1, <3>3 DEF l
  <2> HIDE DEF l, n
  <2>3. CASE pc[c] = "receive" /\ pc'[c] = pc[c] /\ rpos'[c] = rpos[c] + 1 /\ off'[c] = off[c] + 1
    <3>1. n = rpos[c] - l - off[c] /\ Lines(c)' = (rpos[c] + 1) - l - (off[c] + 1)
      BY <2>1, <2>2, <2>3
    <3>2. rpos[c] \in Nat /\ off[c] \in Nat /\ l \in Nat
      BY <1>1, <2>1
    <3> QED  BY <3>1, <3>2
  <2>4. CASE rpos'[c] = rpos[c] /\ (pc[c] \in {"receive", "stored"} => off'[c] = off[c])
    <3>1. pc[c] \in {"receive", "stored"} <=> pc'[c] \in {"receive", "stored"}
      BY NoLine
    <3> QED  BY <2>1, <2>2, <2>4, <3>1
  <2> QED  BY <2>3, <2>4, NoLine
<1>5. \A j \in 1 .. Len(rbuf[c]) : rbuf[c][j] = z[n + j]
  <2> SUFFICES ASSUME NEW j \in 1 .. Len(rbuf[c])
               PROVE  rbuf[c][j] = z[n + j]
    OBVIOUS
  <2>1. rbuf[c][j] = s[n + j]
    BY DEF LinesOK
  <2>2. n + j \in 1 .. Len(s)
    <3> DEFINE m == Len(s)
               l == Len(rbuf[c])
    <3>1. /\ m \in Nat /\ l \in Nat /\ n \in Nat /\ rpos[c] \in Nat
          /\ n + l <= rpos[c] /\ rpos[c] <= m /\ j \in 1 .. l
      BY <1>1
    <3> HIDE DEF m, l, n
    <3>2. n + j \in 1 .. m
      BY <3>1
    <3> QED  BY <3>2 DEF m
  <2> QED  BY <1>2, <2>1, <2>2
<1>6. /\ n >= 1 => z[n] = s[n] /\ z[1] = s[1]
      /\ n >= 2 => z[n - 1] = s[n - 1] /\ z[2] = s[2]
  <2> DEFINE m == Len(s)
  <2>1. m \in Nat /\ n <= m /\ \A i \in 1 .. m : z[i] = s[i]
    BY <1>1, <1>2
  <2> HIDE DEF m, n, s, z
  <2> QED  BY <1>1, <2>1
<1>7. /\ n = 0 => pc[c] = "loop"
      /\ pc[c] = "validity" => n >= 1 /\ s[n] = Upload(req[c])
      /\ pc[c] \in {"receive", "stored"} =>
            /\ n >= 2 /\ s[n - 1] = Upload(req[c]) /\ s[n] = Valid
            /\ Accepts(req[c]) /\ req[c] \notin Unstorable
  BY DEF LinesOK
<1>8. \A f \in Names :
         /\ n = 1 /\ s[1] = Upload(f) =>
               \/ pc[c] = "validity" /\ req[c] = f
               \/ pc[c] = "close" /\ eof[c] /\ Len(s) = 1
         /\ n >= 2 /\ s[1] = Upload(f) /\ s[2] = Valid /\ Accepts(f) /\ f \notin Unstorable =>
               pc[c] \in {"receive", "stored"} /\ req[c] = f
  BY DEF LinesOK
\* The second line of an upload never came.
<1>9. pc[c] = "validity" /\ n = 1 /\ UploadCut(c) => pc'[c] = "close" /\ eof[c] /\ Len(s) = 1
  <2> SUFFICES ASSUME pc[c] = "validity", n = 1, UploadCut(c)
               PROVE  pc'[c] = "close" /\ eof[c] /\ Len(s) = 1
    OBVIOUS
  <2>1. pc'[c] = "close" /\ rbuf[c] = <<>> /\ Pending(c) = <<>> /\ eof[c]
    BY DEF UploadCut, AtEnd, Goto, TypeOK
  <2> DEFINE m == Len(s)
  <2>2. Len(Pending(c)) = m - rpos[c] /\ Len(Pending(c)) = 0
    BY <2>1, PendingShape DEF ThreadOK
  <2>3. n = rpos[c] - Len(rbuf[c]) /\ Len(rbuf[c]) = 0
    BY <2>1, LinesType
  <2>4. m \in Nat /\ rpos[c] \in Nat
    BY <1>1
  <2> HIDE DEF m, n
  <2>5. m - rpos[c] = 0 /\ 1 = rpos[c] - 0
    BY <2>2, <2>3
  <2>6. m = 1
    BY <2>4, <2>5
  <2> QED  BY <2>1, <2>6 DEF m
<1> HIDE DEF n, s, z
<1>10. n = 0 => pc'[c] = "loop"
  BY <1>7, NoLine
<1>11. pc'[c] = "validity" => n >= 1 /\ z[n] = Upload(req'[c])
  <2>1. pc'[c] = "validity" => pc[c] = "validity" /\ req'[c] = req[c]
    BY Labelling DEF Reads
  <2> QED  BY <1>6, <1>7, <2>1
<1>12. pc'[c] \in {"receive", "stored"} =>
          /\ n >= 2 /\ z[n - 1] = Upload(req'[c]) /\ z[n] = Valid
          /\ Accepts(req'[c]) /\ req'[c] \notin Unstorable
  <2>1. n >= 2 => n >= 1
    BY <1>1
  <2> QED  BY <1>6, <1>7, <2>1, NoLine
<1>13. ASSUME NEW f \in Names, n = 1, z[1] = Upload(f)
       PROVE  \/ pc'[c] = "validity" /\ req'[c] = f
              \/ pc'[c] = "close" /\ eof'[c] /\ Len(z) = 1
  <2>1. s[1] = Upload(f)
    BY <1>6, <1>13
  <2> QED  BY <1>2, <1>8, <1>9, <1>13, <2>1, NoLine
<1>14. ASSUME NEW f \in Names, n >= 2, z[1] = Upload(f), z[2] = Valid, Accepts(f),
              f \notin Unstorable
       PROVE  pc'[c] \in {"receive", "stored"} /\ req'[c] = f
  <2>1. s[1] = Upload(f) /\ s[2] = Valid
    BY <1>1, <1>6, <1>14
  <2> QED  BY <1>8, <1>14, <2>1, NoLine
<1>15. n >= 0
  BY <1>1
<1> QED  BY <1>3, <1>4, <1>5, <1>10, <1>11, <1>12, <1>13, <1>14, <1>15
         DEF LinesOK, z, Upload, Valid, Accepts

LEMMA OwnLines ==
    ASSUME TypeOK, NEW c \in Conns, ThreadOK(c), LinesOK(c), Thread(c) \/ Talks(c)
    PROVE  LinesOK(c)'
  BY LineStep, NoLineStep

LEMMA OtherLines ==
    ASSUME TypeOK, NEW c \in Conns, ThreadOK(c), Thread(c) \/ Talks(c),
           NEW d \in Conns \ {c}, LinesOK(d)
    PROVE  LinesOK(d)'
<1>1. /\ stream'[d] = stream[d] /\ eof'[d] = eof[d] /\ rpos'[d] = rpos[d] /\ rbuf'[d] = rbuf[d]
      /\ pc'[d] = pc[d] /\ req'[d] = req[d] /\ off'[d] = off[d]
  BY OthersUntouched
<1>2. Lines(d)' = Lines(d)
  BY <1>1 DEF Lines
<1> QED  BY <1>1, <1>2 DEF LinesOK, Upload, Valid, Accepts

-----------------------------------------------------------------------------
(* Log files *)

\* A connection that asks now or later leaves no other the sole browser.
LEMMA SoleBefore ==
    ASSUME TypeOK, NEW c \in Conns, ThreadOK(c), Thread(c) \/ Talks(c),
           NEW d \in Conns, SoleBrowser(d)'
    PROVE  SoleBrowser(d)
<1>1. ASSUME NEW e \in Conns \ {d}
      PROVE  ~Asked(e)
  <2>1. ~Asked(e)'
    BY DEF SoleBrowser
  <2>2. Units(e) \subseteq Units(e)'
    BY StreamsGrow
  <2> QED  BY <2>1, <2>2 DEF Asked
<1> QED  BY <1>1 DEF SoleBrowser

\* A thread that is not answering leaves the counter and the logs alone.
LEMMA QuietStep ==
    ASSUME NEW c \in Conns, Thread(c) \/ Talks(c), pc[c] \notin Answering
    PROVE  logs' = logs /\ httpRequestCount' = httpRequestCount
<1>1. ~AnswerStep(c)
  BY DEF Answering, AnswerStep, LoadCount, StoreCount, OpenLog, AnswerDir, AnswerText,
         AnswerMissing, SizeImage, SendImage, StartDownload, DownloadFragment, EndDownload,
         CloseLog, AnswerMalformed
<1> QED
  BY <1>1 DEF Thread, ReadGet, ReadUpload, ReadMalformed, ReadOther, ReadNull,
         UploadStep, BeginUpload, RefuseUpload, UploadCut, ReceiveFragment, EndUpload, Close, vars,
         Talks

LEMMA OtherLog ==
    ASSUME TypeOK, NEW c \in Conns, ThreadOK(c), Thread(c) \/ Talks(c),
           NEW d \in Conns \ {c}, LogOK(d)
    PROVE  LogOK(d)'
<1>1. SUFFICES ASSUME SoleBrowser(d)'
               PROVE  LogOK(d)'
  BY DEF LogOK
<1>2. SoleBrowser(d)
  BY <1>1, SoleBefore
<1>3. pc[c] \notin Answering
  BY <1>2 DEF SoleBrowser, ThreadOK
<1>4. logs' = logs /\ httpRequestCount' = httpRequestCount
  BY <1>3, QuietStep
<1> QED  BY <1>2, <1>4, OthersUntouched DEF LogOK

\* The steps that are not about the log.
LEMMA LogSteps ==
    ASSUME TypeOK, NEW c \in Conns, Thread(c) \/ Talks(c)
    PROVE  \/ LoadCount(c) \/ StoreCount(c) \/ OpenLog(c) \/ CloseLog(c)
           \/ /\ UNCHANGED <<logs, httpRequestCount, lognum, served>>
              /\ \/ pc'[c] = pc[c] /\ tmp'[c] = tmp[c]
                 \/ pc'[c] \in {"loop", "count", "validity", "receive", "close", "stored"}
                 \/ /\ pc[c] \in {"answer", "image", "download"}
                    /\ pc'[c] \in {"image", "download", "closelog"}
<1>0. pc \in [Conns -> Labels]
  BY DEF TypeOK
<1>1. CASE ReadGet(c) \/ ReadUpload(c) \/ ReadMalformed(c) \/ ReadOther(c) \/ ReadNull(c)
  BY <1>0, <1>1 DEF ReadGet, ReadUpload, ReadMalformed, ReadOther, ReadNull, vars, Goto
<1>2. CASE AnswerDir(c) \/ AnswerText(c) \/ AnswerMissing(c) \/ SizeImage(c)
  BY <1>0, <1>2 DEF AnswerDir, AnswerText, AnswerMissing, SizeImage, Answer, Goto
<1>3. CASE SendImage(c) \/ StartDownload(c) \/ DownloadFragment(c) \/ EndDownload(c)
           \/ AnswerMalformed(c)
  BY <1>0, <1>3 DEF SendImage, StartDownload, DownloadFragment, EndDownload, AnswerMalformed,
                    Answer, Goto
<1>4. CASE UploadStep(c)
  BY <1>0, <1>4 DEF UploadStep, BeginUpload, RefuseUpload, UploadCut, ReceiveFragment, EndUpload,
                    Close, Goto
<1>5. CASE Talks(c)
  BY <1>5 DEF Talks
<1> QED  BY <1>1, <1>2, <1>3, <1>4, <1>5 DEF Thread, AnswerStep

LEMMA OwnLog ==
    ASSUME TypeOK, NEW c \in Conns, ThreadOK(c), Thread(c) \/ Talks(c), LogOK(c)
    PROVE  LogOK(c)'
<1>1. SUFFICES ASSUME SoleBrowser(c)'
               PROVE  LogOK(c)'
  BY DEF LogOK
<1>2. SoleBrowser(c)
  BY <1>1, SoleBefore
<1>3. /\ \A i \in DOMAIN logs : i <= httpRequestCount
      /\ \A n \in 1 .. served[c] : \E i \in DOMAIN logs : logs[i] = <<c, n>>
      /\ pc[c] = "increment" => tmp[c] = httpRequestCount
      /\ pc[c] = "log" => \A i \in DOMAIN logs : i < httpRequestCount
      /\ pc[c] \in {"answer", "image", "download", "closelog"} =>
             lognum[c] \in DOMAIN logs /\ logs[lognum[c]] = <<>>
  BY <1>2 DEF LogOK
<1>4. /\ pc \in [Conns -> Labels] /\ tmp \in [Conns -> Nat] /\ lognum \in [Conns -> Nat]
      /\ served \in [Conns -> Nat] /\ httpRequestCount \in Nat /\ DOMAIN logs \subseteq Nat
  BY DEF TypeOK
<1>5. CASE LoadCount(c)
  <2>1. pc'[c] = "increment" /\ tmp'[c] = httpRequestCount
    BY <1>4, <1>5 DEF LoadCount, Goto
  <2>2. UNCHANGED <<logs, httpRequestCount, lognum, served>>
    BY <1>5 DEF LoadCount
  <2> QED  BY <1>3, <2>1, <2>2 DEF LogOK
<1>6. CASE StoreCount(c)
  <2>1. pc'[c] = "log" /\ httpRequestCount' = httpRequestCount + 1
    BY <1>3, <1>4, <1>6 DEF StoreCount, Goto
  <2>2. UNCHANGED <<logs, lognum, served>>
    BY <1>6 DEF StoreCount
  <2>3. \A i \in DOMAIN logs : i < httpRequestCount'
    BY <1>3, <1>4, <2>1
  <2>4. \A i \in DOMAIN logs : i <= httpRequestCount'
    BY <1>4, <2>1, <2>3
  <2> QED  BY <1>3, <2>1, <2>2, <2>3, <2>4 DEF LogOK
<1>7. CASE OpenLog(c)
  <2> DEFINE n == httpRequestCount
             v == <<>>
  <2>1. pc[c] = "log" /\ pc'[c] = "answer" /\ lognum'[c] = n /\ WriteLog(n, v)
    BY <1>4, <1>7 DEF OpenLog, Goto
  <2>2. UNCHANGED <<httpRequestCount, served>>
    BY <1>7 DEF OpenLog
  <2>3. /\ DOMAIN logs' = DOMAIN logs \cup {n} /\ logs'[n] = v
        /\ \A i \in DOMAIN logs : i # n => logs'[i] = logs[i]
    BY <1>4, <2>1, LogAdded
  <2>4. \A i \in DOMAIN logs : i # n
    BY <1>3, <1>4, <2>1
  <2>5. \A i \in DOMAIN logs' : i <= httpRequestCount'
    BY <1>3, <1>4, <2>2, <2>3
  <2>6. \A m \in 1 .. served'[c] : \E i \in DOMAIN logs' : logs'[i] = <<c, m>>
    BY <1>3, <2>2, <2>3, <2>4
  <2> QED  BY <2>1, <2>3, <2>5, <2>6 DEF LogOK
<1>8. CASE CloseLog(c)
  <2> DEFINE n == lognum[c]
             v == <<c, served[c] + 1>>
  <2>1. pc[c] = "closelog" /\ pc'[c] = "loop" /\ WriteLog(n, v) /\ n \in Nat
    BY <1>4, <1>8 DEF CloseLog, Goto
  <2>2. UNCHANGED <<httpRequestCount, lognum>> /\ served'[c] = served[c] + 1 /\ served[c] \in Nat
    BY <1>4, <1>8 DEF CloseLog
  <2>3. n \in DOMAIN logs /\ logs[n] = <<>>
    BY <1>3, <2>1
  <2> HIDE DEF n
  <2>4. /\ DOMAIN logs' = DOMAIN logs \cup {n} /\ logs'[n] = v
        /\ \A i \in DOMAIN logs : i # n => logs'[i] = logs[i]
    BY <1>4, <2>1, LogAdded
  <2>5. \A i \in DOMAIN logs' : i <= httpRequestCount'
    BY <1>3, <2>2, <2>3, <2>4
  <2>6. ASSUME NEW m \in 1 .. served'[c]
        PROVE  \E i \in DOMAIN logs' : logs'[i] = <<c, m>>
    <3>1. CASE m = served[c] + 1
      BY <2>4, <3>1
    <3>2. CASE m # served[c] + 1
      <4>1. m \in 1 .. served[c]
        BY <2>2, <2>6, <3>2
      <4>2. PICK i \in DOMAIN logs : logs[i] = <<c, m>>
        BY <1>3, <4>1
      <4>3. <<c, m>> # <<>>
        OBVIOUS
      <4>4. i # n
        BY <2>3, <4>2, <4>3
      <4> QED  BY <2>4, <4>2, <4>4
    <3> QED  BY <3>1, <3>2
  <2> QED  BY <2>1, <2>5, <2>6 DEF LogOK
<1>9. CASE /\ UNCHANGED <<logs, httpRequestCount, lognum, served>>
           /\ \/ pc'[c] = pc[c] /\ tmp'[c] = tmp[c]
              \/ pc'[c] \in {"loop", "count", "validity", "receive", "close", "stored"}
              \/ /\ pc[c] \in {"answer", "image", "download"}
                 /\ pc'[c] \in {"image", "download", "closelog"}
  BY <1>3, <1>9 DEF LogOK
<1> QED  BY <1>5, <1>6, <1>7, <1>8, <1>9, LogSteps

-----------------------------------------------------------------------------
(* Listings and images *)

LEMMA OddAfterEven ==
    ASSUME NEW l \in Nat, l % 2 = 0
    PROVE  (l + 1) % 2 = 1
  OBVIOUS

\* A head and the body it announces keep the responses framed.
LEMMA FramedMore ==
    ASSUME NEW c \in Conns, out[c] \in Seq(Token), Framed(c), NEW n \in Nat,
           out'[c] = out[c] \o <<Head200(n), Body(n)>>
    PROVE  Framed(c)'
<1> DEFINE o == out[c]
           p == out'[c]
           l == Len(o)
           h == Head200(n)
           b == Body(n)
<1>1. h \in Token /\ b \in Token /\ h.k = "head" /\ h.len = n /\ b.k = "body" /\ b.len = n
  BY TokenShape DEF Head200, Body
<1>2. o \in Seq(Token) /\ p = o \o <<h, b>>
  OBVIOUS
<1>3. l \in Nat /\ l % 2 = 0
  <2>1. l \in Nat
    BY <1>2
  <2>2. l % 2 = 0
    BY DEF Framed
  <2> QED  BY <2>1, <2>2
<1>4. \A i \in 1 .. l : /\ i % 2 = 1 => o[i].k = "head" /\ o[i].len = o[i + 1].len
                        /\ i % 2 = 0 => o[i].k = "body"
  BY DEF Framed
<1> HIDE DEF h, b, o, p
<1>5. /\ Len(p) = l + 2 /\ p[l + 1] = h /\ p[l + 2] = b
      /\ \A i \in 1 .. l : p[i] = o[i]
  BY <1>1, <1>2
<1> HIDE DEF l
<1>6. ASSUME NEW i \in 1 .. l + 2
      PROVE  /\ i % 2 = 1 => p[i].k = "head" /\ p[i].len = p[i + 1].len
             /\ i % 2 = 0 => p[i].k = "body"
  <2>1. CASE i = l + 1
    <3>1. (l + 1) % 2 = 1
      BY <1>3, OddAfterEven
    <3>2. (l + 1) + 1 = l + 2
      BY <1>3
    <3> QED  BY <1>1, <1>5, <2>1, <3>1, <3>2
  <2>2. CASE i = l + 2
    <3>1. (l + 2) % 2 = 0
      BY <1>3
    <3> QED  BY <1>1, <1>5, <2>2, <3>1
  <2>3. CASE i \in 1 .. l
    <3>1. CASE i % 2 = 1
      <4>1. i + 1 \in 1 .. l
        BY <1>3, <2>3, <3>1
      <4> QED  BY <1>4, <1>5, <2>3, <3>1, <4>1
    <3>2. CASE i % 2 # 1
      BY <1>4, <1>5, <2>3, <3>2
    <3> QED  BY <3>1, <3>2
  <2>4. i = l + 1 \/ i = l + 2 \/ i \in 1 .. l
    BY <1>3
  <2> QED  BY <2>1, <2>2, <2>3, <2>4
<1>7. (l + 2) % 2 = 0
  BY <1>3
<1> QED  BY <1>5, <1>6, <1>7 DEF Framed, p

LEMMA OtherPage ==
    ASSUME TypeOK, NEW c \in Conns, ThreadOK(c), Thread(c) \/ Talks(c),
           NEW d \in Conns \ {c}, PageOK(d)
    PROVE  PageOK(d)'
<1>1. Units(d)' = Units(d)
  BY OthersUntouched DEF Units
<1>2. Asks(d, Pages)' => Asks(d, Pages)
  BY <1>1 DEF Asks, Pages, AtStart
<1>3. Framed(d)' <=> Framed(d)
  <2>1. out'[d] = out[d]
    BY OthersUntouched
  <2> QED  BY <2>1 DEF Framed
<1>4. req'[d] = req[d] /\ pc'[d] = pc[d]
  BY OthersUntouched
<1> QED  BY <1>2, <1>3, <1>4 DEF PageOK, Pages, AtStart

\* A page that is framed is the listing, or an image that is there.
LEMMA PageShape ==
    ASSUME \A f \in AtStart : Stored(f), NEW p \in Pages
    PROVE  /\ p # Absent
           /\ p \in Names => Stored(p) /\ Ext[p] \in ImageExt
<1>1. AtStart \subseteq Names
  BY DEF AtStart
<1> QED  BY <1>1, NamesAssumption, ContentAssumption DEF Pages

LEMMA OwnPage ==
    ASSUME TypeOK, \A f \in AtStart : Stored(f),
           NEW c \in Conns, ThreadOK(c), Thread(c) \/ Talks(c), PageOK(c)
    PROVE  PageOK(c)'
<1> DEFINE L == {"loop", "count", "increment", "log", "answer", "image", "closelog"}
<1>1. SUFFICES ASSUME Asks(c, Pages)'
               PROVE  req'[c] \in Pages /\ pc'[c] \in L /\ Framed(c)'
  BY DEF PageOK, Pages, AtStart
<1>2. \A u \in Units(c) : u.t = "GET" /\ u.of \in Pages
  <2>1. Units(c) \subseteq Units(c)'
    BY StreamsGrow
  <2> QED  BY <1>1, <2>1 DEF Asks, Pages, AtStart
<1>3. req[c] \in Pages /\ pc[c] \in L /\ Framed(c)
  BY <1>2 DEF PageOK, Asks
<1>4. /\ req[c] # Absent
      /\ req[c] \in Names => Stored(req[c]) /\ Ext[req[c]] \in ImageExt
  BY <1>3, PageShape
<1>5. pc \in [Conns -> Labels] /\ req \in [Conns -> Paths] /\ out \in [Conns -> Seq(Token)]
  BY DEF TypeOK
<1>6. ASSUME out' = out PROVE Framed(c)'
  BY <1>3, <1>6 DEF Framed
<1>7. CASE ReadGet(c)
  <2>1. PICK u \in Units(c) : req' = [req EXCEPT ![c] = u.of]
    BY <1>7 DEF ReadGet
  <2>2. req'[c] \in Pages
    BY <1>2, <1>5, <2>1
  <2>3. pc'[c] \in L /\ out' = out
    BY <1>5, <1>7 DEF ReadGet, Goto
  <2> QED  BY <1>6, <2>2, <2>3
<1>8. CASE ReadUpload(c) \/ ReadMalformed(c)
  <2>1. \E u \in Units(c) : u.t # "GET"
    BY <1>8, MarkShape DEF ReadUpload, ReadMalformed
  <2> QED  BY <1>2, <2>1
<1>9. CASE ReadOther(c) \/ ReadNull(c) \/ Talks(c)
  <2>1. UNCHANGED <<req, pc, out>>
    BY <1>9 DEF ReadOther, ReadNull, vars, Talks
  <2> QED  BY <1>3, <1>6, <2>1
<1>10. CASE LoadCount(c) \/ StoreCount(c) \/ OpenLog(c) \/ CloseLog(c) \/ SizeImage(c)
  <2>1. req' = req /\ out' = out /\ pc'[c] \in L
    BY <1>5, <1>10 DEF LoadCount, StoreCount, OpenLog, CloseLog, SizeImage, Goto
  <2> QED  BY <1>3, <1>6, <2>1
<1>11. ASSUME NEW n \in Nat, NEW r, Answer(c, r, <<Head200(n), Body(n)>>, "closelog")
       PROVE  req'[c] \in Pages /\ pc'[c] \in L /\ Framed(c)'
  <2>1. req' = req /\ pc'[c] = "closelog" /\ out'[c] = out[c] \o <<Head200(n), Body(n)>>
    BY <1>5, <1>11 DEF Answer, Goto, Send
  <2>2. Framed(c)'
    BY <1>3, <1>5, <2>1, FramedMore
  <2> QED  BY <1>3, <2>1, <2>2
<1>12. CASE AnswerDir(c)
  <2> DEFINE n == DirPage
  <2>1. Answer(c, <<Head200(n)>>, <<Head200(n), Body(n)>>, "closelog") /\ n \in Nat
    BY <1>12, DirPageType DEF AnswerDir
  <2> HIDE DEF n
  <2> QED  BY <1>11, <2>1
<1>13. CASE SendImage(c)
  <2> DEFINE n == tmp[c]
  <2>1. Answer(c, <<Head200(n)>>, <<Head200(n), Body(n)>>, "closelog") /\ n \in Nat
    BY <1>13 DEF SendImage, TypeOK
  <2> HIDE DEF n
  <2> QED  BY <1>11, <2>1
<1>14. CASE AnswerText(c) \/ AnswerMissing(c) \/ StartDownload(c) \/ AnswerMalformed(c)
  BY <1>4, <1>14 DEF AnswerText, AnswerMissing, StartDownload, AnswerMalformed, ImageExt
<1>15. CASE DownloadFragment(c) \/ EndDownload(c) \/ UploadStep(c)
  BY <1>3, <1>15 DEF DownloadFragment, EndDownload, UploadStep, BeginUpload, RefuseUpload,
                     UploadCut, ReceiveFragment, EndUpload, Close
<1> HIDE DEF L
<1> QED  BY <1>7, <1>8, <1>9, <1>10, <1>12, <1>13, <1>14, <1>15 DEF Thread, AnswerStep

-----------------------------------------------------------------------------
(* Uploads *)

\* Whoever is the only one to name a file was so before.
LEMMA SoleWriterBefore ==
    ASSUME TypeOK, NEW c \in Conns, ThreadOK(c), Thread(c) \/ Talks(c),
           NEW d \in Conns, req'[d] = req[d], SoleWriter(d)'
    PROVE  SoleWriter(d)
<1>1. ASSUME NEW e \in Conns \ {d}
      PROVE  Upload(req[d]) \notin Units(e)
  <2>1. Upload(req[d]) \notin Units(e)'
    BY DEF SoleWriter, Upload
  <2>2. Units(e) \subseteq Units(e)'
    BY StreamsGrow
  <2> QED  BY <2>1, <2>2
<1> QED  BY <1>1 DEF SoleWriter

LEMMA OtherTail ==
    ASSUME TypeOK, NEW c \in Conns, ThreadOK(c), Thread(c) \/ Talks(c),
           NEW d \in Conns \ {c}, ThreadOK(d), TailOK(d)
    PROVE  TailOK(d)'
<1>1. SUFFICES ASSUME pc'[d] \in {"receive", "stored"}, SoleWriter(d)'
               PROVE  TailOK(d)'
  BY DEF TailOK
<1>2. /\ pc'[d] = pc[d] /\ req'[d] = req[d] /\ rpos'[d] = rpos[d] /\ off'[d] = off[d]
      /\ stream'[d] = stream[d]
  BY OthersUntouched
<1>3. SoleWriter(d) /\ req[d] \in Names
  BY <1>1, <1>2, SoleWriterBefore DEF ThreadOK
<1>4. fs'[req[d]] = fs[req[d]]
  <2>1. CASE fs' = fs
    BY <2>1
  <2>2. CASE BeginUpload(c) \/ ReceiveFragment(c)
    <3>1. Upload(req[c]) \in Units(c)
      BY <2>2 DEF BeginUpload, ReceiveFragment, ThreadOK
    <3>2. req[d] # req[c]
      BY <1>3, <3>1 DEF SoleWriter
    <3> QED  BY <1>3, <3>2, FilesKept
  <2> QED  BY <2>1, <2>2, FilesKept
<1> QED  BY <1>1, <1>2, <1>3, <1>4 DEF TailOK

\* What may happen while a thread receives, or has received.
LEMMA Receiving ==
    ASSUME TypeOK, NEW c \in Conns, Thread(c) \/ Talks(c), pc[c] \in {"receive", "stored"}
    PROVE  ReceiveFragment(c) \/ UNCHANGED <<rpos, off, fs, req>>
<1>1. CASE Thread(c)
  <2>1. EndUpload(c) \/ ReceiveFragment(c) \/ Close(c)
    BY <1>1 DEF Thread, ReadGet, ReadUpload, ReadMalformed, ReadOther, ReadNull, AnswerStep,
         LoadCount, StoreCount, OpenLog, AnswerDir, AnswerText, AnswerMissing, SizeImage,
         SendImage, StartDownload, DownloadFragment, EndDownload, CloseLog, AnswerMalformed,
         UploadStep, BeginUpload, RefuseUpload, UploadCut
  <2> QED  BY <2>1 DEF EndUpload, Close
<1>2. CASE Talks(c)
  BY <1>2 DEF Talks
<1> QED  BY <1>1, <1>2

LEMMA OwnTail ==
    ASSUME TypeOK, NEW c \in Conns, ThreadOK(c), Thread(c) \/ Talks(c), TailOK(c)
    PROVE  TailOK(c)'
<1> DEFINE s == stream[c]
           z == stream'[c]
           r == rpos[c]
           f == req[c]
<1>1. SUFFICES ASSUME pc'[c] \in {"receive", "stored"}, SoleWriter(c)'
               PROVE  \E k \in 0 .. rpos'[c] :
                         /\ off'[c] = rpos'[c] - k
                         /\ fs'[req'[c]] = SubSeq(z, k + 1, rpos'[c])
  BY DEF TailOK
<1>2. /\ s \in Seq(Unit) /\ z \in Seq(Unit) /\ r \in Nat /\ r <= Len(s) /\ Len(s) <= Len(z)
      /\ \A i \in 1 .. Len(s) : z[i] = s[i]
  BY StreamsGrow DEF TypeOK, ThreadOK
<1>3. CASE BeginUpload(c)
  <2>1. ReadLine(c, Valid) /\ pc[c] = "validity" /\ stream' = stream /\ req' = req
    BY <1>3 DEF BeginUpload, net
  <2>2. rpos' \in [Conns -> Nat] /\ rpos'[c] <= Len(s)
    BY <2>1, ReadLineOK
  <2>3. f \in Names
    BY <2>1 DEF ThreadOK
  <2>4. off'[c] = 0 /\ fs'[f] = <<>>
    BY <1>3, <2>3 DEF BeginUpload, TypeOK
  <2> DEFINE k == rpos'[c]
  <2>5. k \in Nat /\ k <= Len(s)
    BY <2>2
  <2>6. SubSeq(s, k + 1, k) = <<>>
    BY <1>2, <2>5
  <2>7. off'[c] = k - k /\ k \in 0 .. k
    BY <2>4, <2>5
  <2> QED  BY <2>1, <2>4, <2>6, <2>7
<1>4. CASE ~BeginUpload(c)
  <2>1. pc[c] \in {"receive", "stored"} /\ req'[c] = req[c]
    <3>1. CASE EndUpload(c)
      BY <3>1 DEF EndUpload
    <3>2. CASE ~EndUpload(c)
      BY <1>1, <1>4, <3>2, Labelling
    <3> QED  BY <3>1, <3>2
  <2>2. SoleWriter(c) /\ f \in Names
    BY <1>1, <2>1, SoleWriterBefore DEF ThreadOK
  <2>3. PICK k \in 0 .. r : off[c] = r - k /\ fs[f] = SubSeq(s, k + 1, r)
    BY <2>1, <2>2 DEF TailOK
  <2>4. k \in Nat /\ k <= r
    BY <1>2, <2>3
  <2>5. CASE ReceiveFragment(c)
    <3> DEFINE u == Head(Pending(c))
    <3>1. /\ rpos'[c] = r + 1 /\ off'[c] = off[c] + 1
          /\ fs'[f] = WriteAt(fs[f], off[c], u) /\ stream' = stream /\ Pending(c) # <<>>
      BY <2>2, <2>5 DEF ReceiveFragment, TypeOK, net
    <3>2. r < Len(s) /\ u = s[r + 1] /\ u \in Unit
      <4>1. /\ Pending(c) \in Seq(Unit) /\ Len(Pending(c)) = Len(s) - r
            /\ \A j \in 1 .. Len(Pending(c)) : Pending(c)[j] = s[r + j]
        BY <1>2, PendingShape
      <4>2. 1 \in 1 .. Len(Pending(c)) /\ u = Pending(c)[1] /\ u \in Unit
        BY <3>1, <4>1
      <4>3. Len(Pending(c)) \in Nat /\ Len(s) \in Nat /\ u = s[r + 1]
        BY <1>2, <4>1, <4>2
      <4> DEFINE h == Len(Pending(c))
                 m == Len(s)
      <4>4. h \in Nat /\ m \in Nat /\ r \in Nat /\ 1 \in 1 .. h /\ h = m - r
        BY <1>2, <4>1, <4>2, <4>3
      <4> HIDE DEF h, m, r
      <4>5. r < m
        BY <4>4
      <4> QED  BY <4>2, <4>3, <4>5 DEF m
    <3> HIDE DEF u
    <3> DEFINE t == SubSeq(s, k + 1, r)
    <3>3. t \in Seq(Unit) /\ Len(t) = r - k /\ Append(t, s[r + 1]) = SubSeq(s, k + 1, r + 1)
      BY <1>2, <2>4, <3>2, SubSeqExtends
    <3> HIDE DEF t
    <3>4. WriteAt(t, Len(t), u) = Append(t, u)
      BY <3>2, <3>3, WriteAtEnd
    <3>5. fs'[f] = SubSeq(z, k + 1, r + 1)
      BY <2>3, <3>1, <3>2, <3>3, <3>4 DEF t
    <3>6. off'[c] = (r + 1) - k /\ k \in 0 .. r + 1
      BY <1>2, <2>3, <3>1
    <3> QED  BY <2>1, <3>1, <3>5, <3>6
  <2>6. CASE ~ReceiveFragment(c)
    <3>1. UNCHANGED <<rpos, off, fs, req>>
      BY <2>1, <2>6, Receiving
    <3>2. SubSeq(z, k + 1, r) = SubSeq(s, k + 1, r)
      <4> DEFINE a == SubSeq(z, k + 1, r)
                 b == SubSeq(s, k + 1, r)
      <4> HIDE DEF s, z, r
      <4>0. k \in Nat /\ r \in Nat /\ k <= r /\ r <= Len(s) /\ r <= Len(z)
        BY <1>2, <2>4
      <4>1. a \in Seq(Unit) /\ Len(a) = r - k /\ \A j \in 1 .. r - k : a[j] = z[k + j]
        BY <1>2, <4>0, PieceShape DEF a
      <4>2. b \in Seq(Unit) /\ Len(b) = r - k /\ \A j \in 1 .. r - k : b[j] = s[k + j]
        BY <1>2, <4>0, PieceShape DEF b
      <4>3. \A j \in 1 .. r - k : a[j] = b[j]
        <5>1. \A j \in 1 .. r - k : k + j \in 1 .. Len(s)
          BY <1>2, <4>0
        <5> QED  BY <1>2, <4>1, <4>2, <5>1
      <4> HIDE DEF a, b
      <4>4. a = b
        BY <4>1, <4>2, <4>3
      <4> QED  BY <4>4 DEF a, b
    <3> QED  BY <2>3, <3>1, <3>2
  <2> QED  BY <2>5, <2>6
<1> QED  BY <1>3, <1>4

\* Reader, file and socket hold what follows the two lines of an upload.
LEMMA UploadPieces ==
    ASSUME TypeOK, NEW c \in Conns, ThreadOK(c), LinesOK(c), TailOK(c),
           pc[c] \in {"receive", "stored"}, SoleWriter(c)
    PROVE  /\ rbuf[c] \o fs[req[c]] \o Pending(c)
              = SubSeq(stream[c], Lines(c) + 1, Len(stream[c]))
           /\ rbuf[c] \o fs[req[c]] = SubSeq(stream[c], Lines(c) + 1, rpos[c])
<1> DEFINE s == stream[c]
           n == Lines(c)
           r == rpos[c]
           b == rbuf[c]
           l == Len(rbuf[c])
           m == Len(s)
<1>1. /\ s \in Seq(Unit) /\ b \in Seq(Unit) /\ n \in Nat /\ r \in Nat /\ l \in Nat /\ off[c] \in Nat
      /\ n = r - l - off[c] /\ r <= m /\ m \in Nat /\ m = Len(s)
  <2>1. b \in Seq(Unit)
    BY DEF TypeOK
  <2> QED  BY <2>1, LinesType
<1>2. PICK k \in 0 .. r : off[c] = r - k /\ fs[req[c]] = SubSeq(s, k + 1, r)
  BY DEF TailOK
<1>3. \A j \in 1 .. l : b[j] = s[n + j]
  BY DEF LinesOK
<1>4. Pending(c) = SubSeq(s, r + 1, m)
  BY DEF Pending
<1> HIDE DEF n, r, m
<1>5. k \in Nat /\ k = n + l /\ n <= k /\ k <= r /\ k - n = l /\ k <= m /\ n <= r
  <2> HIDE DEF l
  <2>1. /\ n \in Nat /\ r \in Nat /\ l \in Nat /\ m \in Nat /\ off[c] = r - k /\ k \in 0 .. r
        /\ n = r - l - off[c] /\ r <= m
    BY <1>1, <1>2
  <2> QED  BY <2>1
<1>6. k <= Len(s) /\ m <= Len(s) /\ r <= Len(s)
  BY <1>1, <1>5
<1>7. b = SubSeq(s, n + 1, k)
  <2> DEFINE x == SubSeq(s, n + 1, k)
  <2>1. x \in Seq(Unit) /\ Len(x) = k - n /\ \A j \in 1 .. k - n : x[j] = s[n + j]
    <3> HIDE DEF s, l, b
    <3>1. s \in Seq(Unit) /\ n \in Nat /\ k \in Nat /\ n <= k /\ k <= Len(s)
      BY <1>1, <1>5, <1>6
    <3> QED  BY <3>1, PieceShape
  <2> HIDE DEF x, s
  <2>2. Len(x) = Len(b) /\ \A j \in 1 .. Len(b) : x[j] = b[j]
    BY <1>3, <1>5, <2>1
  <2> HIDE DEF b, l
  <2>3. x = b
    <3>1. x \in Seq(Unit) /\ b \in Seq(Unit)
      BY <1>1, <2>1
    <3> QED  BY <2>2, <3>1
  <2> QED  BY <2>3 DEF x
<1> HIDE DEF b, l, s
<1>8. SubSeq(s, n + 1, k) \o SubSeq(s, k + 1, r) = SubSeq(s, n + 1, r)
  <2>1. /\ s \in Seq(Unit) /\ n \in Nat /\ k \in Nat /\ r \in Nat
        /\ n <= k /\ k <= r /\ r <= Len(s)
    BY <1>1, <1>5, <1>6
  <2> QED  BY <2>1, PiecesJoin
<1>9. SubSeq(s, n + 1, r) \o SubSeq(s, r + 1, m) = SubSeq(s, n + 1, m)
  <2>1. /\ s \in Seq(Unit) /\ n \in Nat /\ m \in Nat /\ r \in Nat
        /\ n <= r /\ r <= m /\ m <= Len(s)
    BY <1>1, <1>5, <1>6
  <2> QED  BY <2>1, PiecesJoin
<1>10. b \o fs[req[c]] = SubSeq(s, n + 1, r)
  BY <1>2, <1>7, <1>8
<1>11. (b \o fs[req[c]]) \o Pending(c) = SubSeq(s, n + 1, m)
  BY <1>4, <1>9, <1>10
<1> QED  BY <1>10, <1>11 DEF b, s, n, r, m

-----------------------------------------------------------------------------
(* Theorems *)

\* Nobody has sent anything yet.
LEMMA InitServerInv ==
    ASSUME InitServer, stream = [c \in Conns |-> <<>>], eof = [c \in Conns |-> FALSE],
           script \in [Conns -> Seq(Unit)]
    PROVE  ServerInv
<1>2. TypeOK
  <2>1. <<>> \in Seq(Unit) /\ <<>> \in Seq(Token) /\ DOMAIN <<>> \subseteq Nat
    OBVIOUS
  <2>2. fs \in [Names -> Contents \cup {Absent}] /\ script \in [Conns -> Seq(Unit)]
    BY ContentAssumption DEF InitServer, Contents
  <2> QED  BY <2>1, <2>2 DEF InitServer, TypeOK, Labels, Paths
<1>3. \A f \in AtStart : Stored(f)
  BY DEF InitServer, AtStart, Stored
<1>4. ASSUME NEW c \in Conns
      PROVE  ThreadOK(c) /\ LinesOK(c) /\ LogOK(c) /\ PageOK(c) /\ TailOK(c)
  <2>1. /\ rpos[c] = 0 /\ rbuf[c] = <<>> /\ stream[c] = <<>> /\ pc[c] = "loop" /\ req[c] = Dir
        /\ served[c] = 0 /\ out[c] = <<>> /\ logs = <<>>
    BY DEF InitServer
  <2>2. ThreadOK(c)
    BY <2>1 DEF ThreadOK, Answering
  <2>3. LogOK(c)
    BY <2>1 DEF LogOK
  <2>4. PageOK(c)
    BY <2>1 DEF PageOK, Pages, Framed
  <2>5. TailOK(c)
    BY <2>1 DEF TailOK
  <2>6. LinesOK(c)
    <3>0. Len(rbuf[c]) = 0 /\ pc[c] \notin {"receive", "stored"}
      BY <2>1
    <3>1. Lines(c) = rpos[c] - Len(rbuf[c]) - 0
      BY <3>0 DEF Lines
    <3>2. Lines(c) = 0
      BY <2>1, <3>0, <3>1
    <3> QED  BY <2>1, <3>0, <3>2 DEF LinesOK
  <2> QED  BY <2>2, <2>3, <2>4, <2>5, <2>6
<1> QED  BY <1>2, <1>3, <1>4 DEF ServerInv

\* A step of a thread, or of any peer.
LEMMA ServerStep ==
    ASSUME ServerInv, NEW c \in Conns, Thread(c) \/ Talks(c)
    PROVE  ServerInv'
<1>1. /\ TypeOK /\ \A f \in AtStart : Stored(f)
      /\ \A d \in Conns : ThreadOK(d) /\ LinesOK(d) /\ LogOK(d) /\ PageOK(d) /\ TailOK(d)
  BY DEF ServerInv
<1>2. TypeOK'
  BY <1>1, StepTypes
<1>3. (\A f \in AtStart : Stored(f))'
  BY <1>1, FilesKept DEF AtStart
<1>4. ASSUME NEW d \in Conns
      PROVE  (ThreadOK(d) /\ LinesOK(d) /\ LogOK(d) /\ PageOK(d) /\ TailOK(d))'
  <2>1. CASE d = c
    BY <1>1, <2>1, OwnThread, OwnLines, OwnLog, OwnPage, OwnTail
  <2>2. CASE d # c
    BY <1>1, <2>2, OtherThread, OtherLines, OtherLog, OtherPage, OtherTail
  <2> QED  BY <2>1, <2>2
<1> QED  BY <1>2, <1>3, <1>4 DEF ServerInv

\* A step of something else.
LEMMA ServerStutter ==
    ASSUME ServerInv, UNCHANGED vars
    PROVE  ServerInv'
<1>1. UNCHANGED <<stream, eof, script, rpos, rbuf, pc, req, tmp, off, httpResponse>>
  BY DEF vars, net
<1>2. UNCHANGED <<httpRequestCount, lognum, logs, served, fs, out, closed>>
  BY DEF vars
<1>3. TypeOK' /\ (\A f \in AtStart : Stored(f))'
  BY <1>1, <1>2 DEF ServerInv, TypeOK, AtStart, Stored
<1>4. ASSUME NEW c \in Conns
      PROVE  (ThreadOK(c) /\ LinesOK(c) /\ LogOK(c) /\ PageOK(c) /\ TailOK(c))'
  <2>1. ThreadOK(c) /\ LinesOK(c) /\ LogOK(c) /\ PageOK(c) /\ TailOK(c)
    BY DEF ServerInv
  <2>2. \A d \in Conns : Units(d)' = Units(d)
    BY <1>1 DEF Units
  <2>3. \A d \in Conns : Asked(d)' = Asked(d)
    BY <2>2 DEF Asked
  <2>4. ThreadOK(c)'
    BY <1>1, <1>2, <2>1, <2>2, <2>3 DEF ThreadOK, Stored, Upload
  <2>5. LogOK(c)'
    BY <1>1, <1>2, <2>1, <2>3 DEF LogOK, SoleBrowser
  <2>6. PageOK(c)'
    BY <1>1, <1>2, <2>1, <2>2 DEF PageOK, Asks, Pages, AtStart, Framed
  <2>7. TailOK(c)'
    BY <1>1, <1>2, <2>1, <2>2 DEF TailOK, SoleWriter, Upload
  <2>8. LinesOK(c)'
    <3>1. Lines(c)' = Lines(c)
      BY <1>1 DEF Lines
    <3> QED  BY <1>1, <2>1, <3>1 DEF LinesOK, Upload, Valid, Accepts
  <2> QED  BY <2>4, <2>5, <2>6, <2>7, <2>8
<1> QED  BY <1>3, <1>4 DEF ServerInv

\* Everything the threads of HttpFileServer rely on of each other, for any
\* peers: an invariant of the server.
THEOREM ServerInvariance == Spec => []ServerInv
<1>1. Init => ServerInv
  <2>1. Init => script \in [Conns -> Seq(Unit)]
    BY ContentAssumption DEF Init
  <2> QED  BY <2>1, InitServerInv DEF Init
<1>2. ServerInv /\ [Next]_vars => ServerInv'
  <2>1. ASSUME ServerInv, NEW c \in Conns, Thread(c) \/ Peer(c)
        PROVE  ServerInv'
    <3>1. Thread(c) \/ Talks(c)
      BY <2>1, PeerTalks DEF ServerInv
    <3> QED  BY <2>1, <3>1, ServerStep
  <2> QED  BY <2>1, ServerStutter DEF Next
<1> QED  BY <1>1, <1>2, PTL DEF Spec

\* HttpFileServer.run(): the counter is raised and read again without a lock, but
\* as long as one connection asks for pages, no finished request loses its log.
THEOREM RequestsLogged == Spec => []SoleBrowserLogged
<1>1. ServerInv => SoleBrowserLogged
  <2>1. ASSUME ServerInv, NEW c \in Conns, \A d \in Conns \ {c} : \A u \in Units(d) : u.t # "GET"
        PROVE  \A n \in 1 .. served[c] : \E i \in DOMAIN logs : logs[i] = <<c, n>>
    BY <2>1 DEF ServerInv, LogOK, SoleBrowser, Asked
  <2> QED  BY <2>1 DEF SoleBrowserLogged
<1> QED  BY <1>1, ServerInvariance, PTL

\* HttpFileServer.run(): the Content-Length of listings and images frames them,
\* whatever other threads write between length() and read().
THEOREM Framing == Spec => []PagesFramed
<1>1. ServerInv => PagesFramed
  BY DEF ServerInv, PageOK, PagesFramed, Pages
<1> QED  BY <1>1, ServerInvariance, PTL

\* run() and readFileFromClient(), for any peers and any buffering of the lines:
\* what follows the two lines of an upload is in the BufferedReader, in the file
\* or in the socket of a connection that was reset, in this order, and nothing of
\* it is lost elsewhere, repeated or mixed with what others send.
THEOREM UploadStored == Spec => []UploadAccounted
<1>1. ASSUME ServerInv, NEW c \in Conns, pc[c] = "stored", SoleWriter(c)
      PROVE  \E k \in 2 .. Len(stream[c]) :
                /\ stream[c][k - 1] = Upload(req[c]) /\ stream[c][k] = Valid
                /\ rbuf[c] \o fs[req[c]] \o Pending(c) = SubSeq(stream[c], k + 1, Len(stream[c]))
  <2>1. TypeOK /\ ThreadOK(c) /\ LinesOK(c) /\ TailOK(c)
    BY <1>1 DEF ServerInv
  <2> DEFINE n == Lines(c)
             m == Len(stream[c])
  <2>2. /\ n >= 2 /\ stream[c][n - 1] = Upload(req[c]) /\ stream[c][n] = Valid
    BY <1>1, <2>1 DEF LinesOK
  <2>3. n \in Nat /\ m \in Nat /\ n <= m
    BY <2>1, LinesType
  <2>4. rbuf[c] \o fs[req[c]] \o Pending(c) = SubSeq(stream[c], n + 1, m)
    BY <1>1, <2>1, UploadPieces
  <2> HIDE DEF n, m
  <2>5. n \in 2 .. m
    BY <2>2, <2>3
  <2> QED  BY <2>2, <2>4, <2>5 DEF m
<1>2. ServerInv => UploadAccounted
  BY <1>1 DEF UploadAccounted
<1> QED  BY <1>2, ServerInvariance, PTL
=============================================================================
