------------------------- MODULE UploadSystemProofs -------------------------
(***************************************************************************)
(* Proofs about the client and the server over their connections, for any  *)
(* uploads that follow one another, any files and any connections:         *)
(*                                                                         *)
(*   - a thread that has ended has sent its user's file, all of it and on  *)
(*     a connection of its own, and nothing is left open                   *)
(*     (ClientKeepsPromises);                                              *)
(*   - every fragment of a file named once is in the server's file, in     *)
(*     order, or was read ahead by its BufferedReader, and a file that is  *)
(*     refused stays as it was (EndToEnd).                                 *)
(*                                                                         *)
(* The server's invariant was proved for any peers, so a step of the       *)
(* client keeps it as soon as it is shown to be a peer's: it sends a line  *)
(* or a fragment, or hangs up.  The client's invariant says that the       *)
(* fields its threads share are those of the one thread under way, and     *)
(* what that thread has written so far.  Both fail with two threads under  *)
(* way (run finding_parallel): the theorems assume that there is one.      *)
(***************************************************************************)
EXTENDS UploadSystem, FileServerProofs

-----------------------------------------------------------------------------
(* The inductive invariant *)

\* Where run() can be, except for the socket that is replaced: nobody closes
\* another thread's.
Stages == {"new", "connect", "callee", "argument", "request", "validity", "open",
           "stream", "send", "close", "finally", "end"}
Before == {"new", "connect"}

ClientTypes ==
    /\ cpc \in [Uploads -> Stages]
    /\ entered \in [Uploads -> Names \cup {NoFile}] /\ name \in [Uploads -> Names \cup {NoFile}]
    /\ util \in [Uploads -> Uploads]
    /\ wired \in [Uploads -> Conns \cup {0}] /\ socket = wired
    /\ out1 \in [Uploads -> Conns \cup {0}] /\ sentn \in [Uploads -> Nat]
    /\ opened \subseteq Conns

\* Threads have connections of their own, and nothing is on one that is new.
ConnsOK ==
    /\ \A s, t \in Uploads : wired[s] = wired[t] /\ wired[t] # 0 => s = t
    /\ \A k \in opened : \E t \in Uploads : wired[t] = k
    /\ \A k \in Conns \ opened : stream[k] = <<>> /\ ~eof[k]
    /\ \A t \in Uploads : wired[t] # 0 => wired[t] \in opened

\* The fields are those of the one thread that is under way.
FieldsOK(t) ==
    /\ cpc[t] # "new" => entered[t] \in Names
    /\ cpc[t] = "new" => entered[t] = NoFile
    /\ cpc[t] \in Before => wired[t] = 0
    /\ t \in Client!Live => fileName = entered[t]
    /\ cpc[t] \notin {"new", "connect", "end"} => networkUtil = t
    /\ cpc[t] \notin {"new", "connect", "callee", "end"} => util[t] = t
    /\ cpc[t] \notin {"new", "connect", "callee", "argument", "end"} => name[t] = entered[t]

\* The lines and the first n fragments of an upload of f.
Sent(f, n) == [i \in 1 .. n + 2 |-> IF i = 1 THEN Upload(f) ELSE IF i = 2 THEN Valid
                                    ELSE Fragment(f, i - 2)]
Refused(f) == Size[f] < 0 \/ Ext[f] \notin Client!ClientExt
\* What a thread has written on its connection.
WrittenOK(t) ==
    LET k == wired[t]
        f == entered[t]
    IN  /\ k = 0 => cpc[t] \in {"new", "connect", "callee", "argument", "request", "finally", "end"}
        /\ k # 0 =>
            /\ cpc[t] \in {"callee", "argument", "request"} => stream[k] = <<>>
            /\ cpc[t] = "validity" => stream[k] = <<Upload(f)>>
            /\ cpc[t] \in {"open", "stream"} => ~Refused(f) /\ stream[k] = Sent(f, 0)
            /\ cpc[t] = "send" => /\ ~Refused(f) /\ out1[t] = k /\ sentn[t] <= Size[f]
                                  /\ stream[k] = Sent(f, sentn[t])
            /\ cpc[t] \in {"close", "finally", "end"} => stream[k] = Client!Message(f)
            /\ cpc[t] \notin {"close", "finally", "end"} => ~eof[k]
            /\ cpc[t] \in {"finally", "end"} => eof[k]

OneAtATime == \A s, t \in Client!Live : s = t

ClientInv ==
    /\ ClientTypes /\ ConnsOK /\ OneAtATime
    /\ \A t \in Uploads : FieldsOK(t) /\ WrittenOK(t)

\* A file that is not what it was at the start is being received, or was.
FilesOK ==
    /\ \A f \in Names : fs[f] # OnDisk[f] =>
           \E c \in Conns : pc[c] \in {"receive", "stored"} /\ req[c] = f
    /\ \A c \in Conns : closed[c] => pc[c] \in {"close", "stored"}

SysInv == ServerInv /\ ClientInv /\ FilesOK

-----------------------------------------------------------------------------
(* What an upload puts on its connection *)

\* What the client sends is what the server reads.
LEMMA ClientUnits ==
    ASSUME NEW f \in Names, NEW i \in Nat
    PROVE  /\ Upload(f) \in Unit /\ Valid \in Unit /\ Invalid \in Unit /\ Fragment(f, i) \in Unit
           /\ Upload(f).t = "UPLOAD" /\ Valid.t = "valid" /\ Invalid.t = "invalid"
           /\ Fragment(f, i).t = "data"
           /\ \A g \in Names : Upload(f) = Upload(g) => f = g
  BY DEF Upload, Valid, Invalid, Fragment, Unit

LEMMA SentShape ==
    ASSUME NEW f \in Names, NEW n \in Nat
    PROVE  /\ Sent(f, n) \in Seq(Unit) /\ Len(Sent(f, n)) = n + 2
           /\ Sent(f, n)[1] = Upload(f) /\ Sent(f, n)[2] = Valid
           /\ \A i \in 1 .. n + 2 : i > 2 => Sent(f, n)[i] = Fragment(f, i - 2)
<1>1. \A i \in 1 .. n + 2 : (IF i = 1 THEN Upload(f) ELSE IF i = 2 THEN Valid
                             ELSE Fragment(f, i - 2)) \in Unit
  BY ClientUnits
<1>2. Sent(f, n) \in [1 .. n + 2 -> Unit]
  BY <1>1 DEF Sent
<1>3. Sent(f, n) \in Seq(Unit) /\ Len(Sent(f, n)) = n + 2
  BY <1>2
<1> QED  BY <1>3 DEF Sent

\* One line or fragment more.
LEMMA SentMore ==
    ASSUME NEW f \in Names, NEW n \in Nat
    PROVE  /\ Append(<<Upload(f)>>, Valid) = Sent(f, 0)
           /\ Append(Sent(f, n), Fragment(f, n + 1)) = Sent(f, n + 1)
<1>1. Append(<<Upload(f)>>, Valid) = Sent(f, 0)
  BY DEF Sent
<1>2. Append(Sent(f, n), Fragment(f, n + 1)) = Sent(f, n + 1)
  <2> DEFINE a == Append(Sent(f, n), Fragment(f, n + 1))
             m == n + 1
             b == Sent(f, m)
  <2>0. m \in Nat
    OBVIOUS
  <2> HIDE DEF m
  <2>1. /\ Sent(f, n) \in Seq(Unit) /\ Len(Sent(f, n)) = n + 2 /\ Fragment(f, m) \in Unit
        /\ b \in Seq(Unit) /\ Len(b) = m + 2
    BY <2>0, SentShape, ClientUnits
  <2> USE DEF m
  <2>2. a \in Seq(Unit) /\ Len(a) = n + 3
    BY <2>1
  <2>3. \A i \in 1 .. n + 3 : a[i] = b[i]
    <3>1. \A i \in 1 .. n + 2 : a[i] = b[i]
      BY <2>1 DEF Sent
    <3>2. a[n + 3] = b[n + 3]
      BY <2>1 DEF Sent
    <3> HIDE DEF a, b
    <3>3. \A i \in 1 .. n + 3 : i \in 1 .. n + 2 \/ i = n + 3
      OBVIOUS
    <3> QED  BY <3>1, <3>2, <3>3
  <2> HIDE DEF a, b
  <2>4. a = b
    BY <2>1, <2>2, <2>3
  <2> QED  BY <2>4 DEF a, b
<1> QED  BY <1>1, <1>2

\* Everything an upload puts on its connection.
LEMMA MessageIs ==
    ASSUME NEW f \in Names
    PROVE  /\ Size[f] < 0 => Client!Message(f) = Append(<<Upload(f)>>, Invalid)
           /\ Size[f] >= 0 /\ Refused(f) => Client!Message(f) = Sent(f, 0)
           /\ ~Refused(f) => Size[f] \in Nat /\ Client!Message(f) = Sent(f, Size[f])
<1>1. Size[f] \in Nat \cup {-1}
  BY SystemAssumption
<1>2. CASE Size[f] < 0
  BY <1>1, <1>2 DEF Client!Message, Refused, Upload, Invalid
<1>3. CASE Size[f] >= 0 /\ Refused(f)
  <2>1. Client!Message(f) = <<Upload(f)>> \o <<Valid>> \o <<>>
    BY <1>1, <1>3 DEF Client!Message, Refused, Upload, Valid
  <2>2. <<Upload(f)>> \o <<Valid>> \o <<>> = Append(<<Upload(f)>>, Valid)
    OBVIOUS
  <2>3. Append(<<Upload(f)>>, Valid) = Sent(f, 0)
    BY SentMore
  <2> QED  BY <1>1, <1>3, <2>1, <2>2, <2>3
<1>4. CASE ~Refused(f)
  <2> DEFINE n == Size[f]
             c == [i \in 1 .. n |-> Fragment(f, i)]
             a == <<Upload(f)>> \o <<Valid>> \o c
  <2>1. n \in Nat
    BY <1>1, <1>4 DEF Refused
  <2>2. Client!Message(f) = a
    BY <1>4, <2>1 DEF Client!Message, Refused, Upload, Valid, Fragment, Client!Fragment
  <2>3. \A i \in 1 .. n : Fragment(f, i) \in Unit
    BY ClientUnits
  <2>4. c \in Seq(Unit) /\ Len(c) = n /\ \A i \in 1 .. n : c[i] = Fragment(f, i)
    BY <2>1, <2>3
  <2>5. Upload(f) \in Unit /\ Valid \in Unit
    BY ClientUnits
  <2> HIDE DEF c
  <2>6. a \in Seq(Unit) /\ Len(a) = n + 2
    BY <2>1, <2>4, <2>5
  <2>7. /\ a[1] = Upload(f) /\ a[2] = Valid
        /\ \A i \in 1 .. n + 2 : i > 2 => a[i] = Fragment(f, i - 2)
    BY <2>1, <2>4, <2>5
  <2> HIDE DEF a
  <2>8. a = Sent(f, n)
    <3> DEFINE b == Sent(f, n)
    <3>1. b \in Seq(Unit) /\ Len(b) = n + 2
      BY <2>1, SentShape
    <3>2. /\ b[1] = Upload(f) /\ b[2] = Valid
          /\ \A i \in 1 .. n + 2 : i > 2 => b[i] = Fragment(f, i - 2)
      BY <2>1, SentShape
    <3> HIDE DEF b
    <3>3. a = b
      <4>1. \A i \in 1 .. n + 2 : a[i] = b[i]
        <5>1. \A i \in 1 .. n + 2 : i = 1 \/ i = 2 \/ i > 2
          BY <2>1
        <5> QED  BY <2>7, <3>2, <5>1
      <4> QED  BY <2>1, <2>6, <3>1, <4>1
    <3> QED  BY <3>3 DEF b
  <2> QED  BY <1>4, <2>1, <2>2, <2>8 DEF Refused
<1> QED  BY <1>1, <1>2, <1>3, <1>4 DEF Refused

-----------------------------------------------------------------------------
(* Steps of the client *)

\* A connection that has been opened is that of one thread.
LEMMA ConnsKept ==
    ASSUME ConnsOK, ClientTypes, NEW t \in Uploads, wired' = wired, opened' = opened,
           \A k \in Conns : k # wired[t] => stream'[k] = stream[k] /\ eof'[k] = eof[k]
    PROVE  ConnsOK'
<1>1. \A k \in Conns \ opened : k # wired[t]
  BY SystemAssumption DEF ConnsOK
<1> QED  BY <1>1 DEF ConnsOK

\* While t is under way the others have not begun or are done.
LEMMA OthersRest ==
    ASSUME ClientInv, NEW t \in Uploads, cpc[t] \notin {"new", "end"}, NEW s \in Uploads \ {t}
    PROVE  cpc[s] \in {"new", "end"}
  BY DEF ClientInv, OneAtATime, Client!Live

\* A thread that has not begun or is done stays as it is.
LEMMA OtherKept ==
    ASSUME ClientInv, NEW s \in Uploads, cpc[s] \in {"new", "end"},
           cpc'[s] = cpc[s], entered'[s] = entered[s], wired'[s] = wired[s],
           wired[s] # 0 => stream'[wired[s]] = stream[wired[s]] /\ (eof[wired[s]] => eof'[wired[s]])
    PROVE  FieldsOK(s)' /\ WrittenOK(s)'
<1>1. FieldsOK(s) /\ WrittenOK(s)
  BY DEF ClientInv
<1>2. FieldsOK(s)'
  BY <1>1 DEF FieldsOK, Client!Live, Before
<1>3. WrittenOK(s)'
  <2>1. wired[s] # 0 => cpc[s] = "end" /\ stream[wired[s]] = Client!Message(entered[s]) /\ eof[wired[s]]
    BY <1>1 DEF WrittenOK, FieldsOK, Before
  <2>2. Client!Message(entered[s])' = Client!Message(entered[s])
    BY DEF Client!Message, Client!Fragment
  <2> QED  BY <2>1, <2>2 DEF WrittenOK
<1> QED  BY <1>2, <1>3

\* A step of t that opens no connection.
LEMMA OwnConnStep ==
    ASSUME ClientInv, NEW t \in Uploads, cpc[t] \notin {"new", "end"}, ClientTypes',
           wired' = wired, opened' = opened, entered' = entered,
           \A s \in Uploads \ {t} : cpc'[s] = cpc[s],
           cpc'[t] # "new",
           \A k \in Conns : k # wired[t] => stream'[k] = stream[k] /\ eof'[k] = eof[k],
           FieldsOK(t)', WrittenOK(t)'
    PROVE  ClientInv'
<1>1. ConnsOK'
  BY ConnsKept DEF ClientInv
<1>2. ASSUME NEW s \in Uploads \ {t}
      PROVE  FieldsOK(s)' /\ WrittenOK(s)'
  <2>1. cpc[s] \in {"new", "end"}
    BY OthersRest
  <2>2. wired[s] # 0 => wired[s] \in Conns /\ wired[s] # wired[t]
    BY DEF ClientInv, ConnsOK, ClientTypes
  <2> QED  BY <2>1, <2>2, OtherKept
<1>3. OneAtATime'
  <2>1. \A s \in Uploads \ {t} : cpc'[s] \in {"new", "end"}
    BY OthersRest
  <2> QED  BY <2>1 DEF OneAtATime, Client!Live
<1> QED  BY <1>1, <1>2, <1>3 DEF ClientInv

\* The file a thread was given, and its connection.
LEMMA OwnFacts ==
    ASSUME ClientInv, NEW t \in Uploads, cpc[t] \notin {"new", "end"}
    PROVE  /\ entered[t] \in Names /\ fileName = entered[t]
           /\ wired[t] \in Conns \cup {0} /\ socket = wired
           /\ cpc \in [Uploads -> Stages]
           /\ cpc[t] # "connect" => networkUtil = t
           /\ cpc[t] \notin {"connect", "callee"} => util[t] = t
           /\ cpc[t] \notin {"connect", "callee", "argument"} => name[t] = entered[t]
           /\ WrittenOK(t)
  BY DEF ClientInv, ClientTypes, FieldsOK, Client!Live

\* The user enters a name when no thread is under way.
LEMMA EnterStep ==
    ASSUME MaxLive = 1, ClientInv, NEW t \in Uploads, NEW f \in Names, Client!Enter(t, f)
    PROVE  ClientInv'
<1>1. /\ cpc[t] = "new" /\ cpc' = [cpc EXCEPT ![t] = "connect"] /\ fileName' = f
      /\ entered' = [entered EXCEPT ![t] = f]
      /\ UNCHANGED <<stream, eof, opened, wired, socket, networkUtil, util, name, out1, sentn>>
  BY DEF Client!Enter, Client!Goto, Client!conns
<1>2. Client!Live = {}
  <2>1. IsFiniteSet(Client!Live)
    BY SystemAssumption, FS_Subset DEF Client!Live
  <2>2. Cardinality(Client!Live) \in Nat
    BY <2>1, FS_CardinalityType
  <2>3. Cardinality(Client!Live) < MaxLive
    BY DEF Client!Enter, Client!Cardinality, Cardinality
  <2>4. Cardinality(Client!Live) = 0
    BY <2>2, <2>3
  <2> QED  BY <2>1, <2>4, FS_EmptySet
<1>3. \A s \in Uploads : cpc[s] \in {"new", "end"}
  BY <1>2 DEF Client!Live
<1>4. ClientTypes'
  BY <1>1 DEF ClientInv, ClientTypes, Stages
<1>5. cpc \in [Uploads -> Stages] /\ entered \in [Uploads -> Names \cup {NoFile}]
  BY DEF ClientInv, ClientTypes
<1>6. ConnsOK'
  BY <1>1 DEF ClientInv, ConnsOK
<1>7. OneAtATime'
  <2>1. \A s \in Uploads : s # t => cpc'[s] \in {"new", "end"}
    BY <1>1, <1>3, <1>5
  <2> QED  BY <2>1 DEF OneAtATime, Client!Live
<1>8. ASSUME NEW s \in Uploads \ {t}
      PROVE  FieldsOK(s)' /\ WrittenOK(s)'
  <2>1. cpc'[s] = cpc[s] /\ entered'[s] = entered[s]
    BY <1>1, <1>5
  <2> QED  BY <1>1, <1>3, <2>1, OtherKept
<1>9. FieldsOK(t)' /\ WrittenOK(t)'
  <2>1. wired[t] = 0
    BY <1>1 DEF ClientInv, FieldsOK, Before
  <2>2. cpc'[t] = "connect" /\ entered'[t] = f /\ wired'[t] = 0
    BY <1>1, <1>5, <2>1
  <2>3. FieldsOK(t)'
    BY <1>1, <2>2 DEF FieldsOK, Client!Live, Before
  <2>4. WrittenOK(t)'
    BY <2>2 DEF WrittenOK
  <2> QED  BY <2>3, <2>4
<1> QED  BY <1>4, <1>6, <1>7, <1>8, <1>9 DEF ClientInv

\* A connection is opened, or refused.
LEMMA ConnectStep ==
    ASSUME ClientInv, NEW t \in Uploads, Client!Connect(t)
    PROVE  ClientInv'
<1>1. /\ cpc[t] = "connect" /\ cpc' = [cpc EXCEPT ![t] = "callee"] /\ networkUtil' = t
      /\ UNCHANGED <<stream, eof, fileName, entered, util, name, out1, sentn>>
  BY DEF Client!Connect, Client!Goto
<1>2. /\ entered[t] \in Names /\ fileName = entered[t] /\ cpc \in [Uploads -> Stages]
      /\ wired[t] = 0 /\ ClientTypes /\ ConnsOK
  BY <1>1, OwnFacts DEF ClientInv, FieldsOK, Before
<1>3. cpc'[t] = "callee" /\ \A s \in Uploads \ {t} : cpc'[s] = cpc[s]
  BY <1>1, <1>2
<1>4. CASE UNCHANGED <<socket, wired, opened>>
  <2>1. ClientTypes'
    BY <1>1, <1>2, <1>4 DEF ClientTypes, Stages
  <2>2. FieldsOK(t)'
    BY <1>1, <1>2, <1>3, <1>4 DEF FieldsOK, Client!Live, Before
  <2>3. WrittenOK(t)'
    BY <1>2, <1>3, <1>4 DEF WrittenOK
  <2> QED  BY <1>1, <1>3, <1>4, <2>1, <2>2, <2>3, OwnConnStep
<1>5. ASSUME NEW k \in Conns, k \notin opened, socket' = [socket EXCEPT ![t] = k],
             wired' = [wired EXCEPT ![t] = k], opened' = opened \cup {k}
      PROVE  ClientInv'
  <2>1. ClientTypes'
    BY <1>1, <1>2, <1>5 DEF ClientTypes, Stages
  <2>2. /\ wired'[t] = k /\ k # 0 /\ stream[k] = <<>> /\ ~eof[k]
        /\ \A s \in Uploads \ {t} : wired'[s] = wired[s] /\ wired[s] # k
    BY <1>2, <1>5, SystemAssumption DEF ConnsOK, ClientTypes
  <2>3. ConnsOK'
    <3>1. (\A s, r \in Uploads : wired[s] = wired[r] /\ wired[r] # 0 => s = r)'
      BY <1>2, <2>2 DEF ConnsOK
    <3>2. (\A j \in opened : \E s \in Uploads : wired[s] = j)'
      <4>1. \A j \in opened : \E s \in Uploads \ {t} : wired[s] = j
        BY <1>2, SystemAssumption DEF ConnsOK, ClientTypes
      <4> QED  BY <1>5, <2>2, <4>1
    <3>3. (\A j \in Conns \ opened : stream[j] = <<>> /\ ~eof[j])'
      BY <1>1, <1>2, <1>5 DEF ConnsOK
    <3>4. (\A s \in Uploads : wired[s] # 0 => wired[s] \in opened)'
      BY <1>2, <1>5, <2>2 DEF ConnsOK
    <3> QED  BY <3>1, <3>2, <3>3, <3>4 DEF ConnsOK
  <2>4. OneAtATime'
    <3>1. \A s \in Uploads \ {t} : cpc'[s] \in {"new", "end"}
      BY <1>1, <1>3, OthersRest
    <3> QED  BY <3>1 DEF OneAtATime, Client!Live
  <2>5. ASSUME NEW s \in Uploads \ {t}
        PROVE  FieldsOK(s)' /\ WrittenOK(s)'
    <3>1. cpc[s] \in {"new", "end"}
      BY <1>1, OthersRest
    <3> QED  BY <1>1, <1>3, <2>2, <3>1, OtherKept
  <2>6. FieldsOK(t)'
    BY <1>1, <1>2, <1>3 DEF FieldsOK, Client!Live, Before
  <2>7. WrittenOK(t)'
    BY <1>1, <1>3, <2>2 DEF WrittenOK
  <2> QED  BY <2>1, <2>3, <2>4, <2>5, <2>6, <2>7 DEF ClientInv
<1>6. Conns # opened => Client!FreshConn \in Conns /\ Client!FreshConn \notin opened
  BY <1>2 DEF Client!FreshConn, ClientTypes
<1> QED  BY <1>4, <1>5, <1>6 DEF Client!Connect

\* Steps that touch neither a connection nor the file they are about.
LEMMA QuietSteps ==
    ASSUME ClientInv, NEW t \in Uploads, eof \in [Conns -> BOOLEAN],
           \/ Client!LoadUtil(t) \/ Client!LoadName(t)
           \/ Client!CheckSocket(t) \/ Client!OpenStream(t)
    PROVE  ClientInv'
<1>. DEFINE k == wired[t]
            f == entered[t]
<1>0. /\ cpc[t] \in {"callee", "argument", "open", "stream"}
      /\ UNCHANGED <<stream, eof, opened, wired, socket, fileName, networkUtil, entered>>
  BY DEF Client!LoadUtil, Client!LoadName, Client!CheckSocket, Client!OpenStream, Client!conns
<1>1. /\ f \in Names /\ fileName = f /\ k \in Conns \cup {0} /\ socket = wired
      /\ cpc \in [Uploads -> Stages] /\ networkUtil = t
      /\ cpc[t] # "callee" => util[t] = t
      /\ cpc[t] \notin {"callee", "argument"} => name[t] = f
      /\ WrittenOK(t) /\ ClientTypes
  BY <1>0, OwnFacts DEF ClientInv
<1>2. CASE Client!LoadUtil(t)
  <2>1. /\ cpc[t] = "callee" /\ cpc' = [cpc EXCEPT ![t] = "argument"]
        /\ util' = [util EXCEPT ![t] = t] /\ UNCHANGED <<name, out1, sentn>>
    BY <1>1, <1>2 DEF Client!LoadUtil, Client!Goto
  <2>2. ClientTypes'
    BY <1>0, <1>1, <2>1 DEF ClientTypes, Stages
  <2>3. cpc'[t] = "argument" /\ util'[t] = t /\ \A s \in Uploads \ {t} : cpc'[s] = cpc[s]
    BY <1>1, <2>1 DEF ClientTypes
  <2>4. FieldsOK(t)'
    BY <1>0, <1>1, <2>3 DEF FieldsOK, Client!Live, Before
  <2>5. WrittenOK(t)'
    BY <1>0, <1>1, <2>1, <2>3 DEF WrittenOK
  <2> QED  BY <1>0, <2>1, <2>2, <2>3, <2>4, <2>5, OwnConnStep
<1>3. CASE Client!LoadName(t)
  <2>1. /\ cpc[t] = "argument" /\ cpc' = [cpc EXCEPT ![t] = "request"]
        /\ name' = [name EXCEPT ![t] = f] /\ UNCHANGED <<util, out1, sentn>>
    BY <1>1, <1>3 DEF Client!LoadName, Client!Goto
  <2>2. ClientTypes'
    BY <1>0, <1>1, <2>1 DEF ClientTypes, Stages
  <2>3. cpc'[t] = "request" /\ name'[t] = f /\ \A s \in Uploads \ {t} : cpc'[s] = cpc[s]
    BY <1>1, <2>1 DEF ClientTypes
  <2>4. FieldsOK(t)'
    BY <1>0, <1>1, <2>1, <2>3 DEF FieldsOK, Client!Live, Before
  <2>5. WrittenOK(t)'
    BY <1>0, <1>1, <2>1, <2>3 DEF WrittenOK
  <2> QED  BY <1>0, <2>1, <2>2, <2>3, <2>4, <2>5, OwnConnStep
<1>4. CASE Client!CheckSocket(t)
  <2>1. cpc[t] = "open" /\ UNCHANGED <<util, name, out1, sentn>> /\ k # 0 /\ ~eof[k] /\ util[t] = t
    BY <1>1, <1>4 DEF Client!CheckSocket, WrittenOK
  <2>2. cpc' = [cpc EXCEPT ![t] = "stream"]
    BY <1>1, <1>4, <2>1 DEF Client!CheckSocket, Client!Goto
  <2>3. ClientTypes'
    BY <1>0, <1>1, <2>1, <2>2 DEF ClientTypes, Stages
  <2>4. cpc'[t] = "stream" /\ \A s \in Uploads \ {t} : cpc'[s] = cpc[s]
    BY <1>1, <2>2
  <2>5. FieldsOK(t)'
    BY <1>0, <1>1, <2>1, <2>4 DEF FieldsOK, Client!Live, Before
  <2>6. ~Refused(f) /\ stream[k] = Sent(f, 0)
    BY <1>1, <2>1 DEF WrittenOK
  <2>7. WrittenOK(t)'
    BY <1>0, <1>1, <2>1, <2>4, <2>6 DEF WrittenOK, Refused, Sent
  <2> QED  BY <1>0, <2>1, <2>3, <2>4, <2>5, <2>7, OwnConnStep
<1>5. CASE Client!OpenStream(t)
  <2>1. cpc[t] = "stream" /\ UNCHANGED <<util, name>> /\ k # 0 /\ ~eof[k] /\ util[t] = t
    BY <1>1, <1>5 DEF Client!OpenStream, WrittenOK
  <2>2. /\ cpc' = [cpc EXCEPT ![t] = "send"]
        /\ out1' = [out1 EXCEPT ![t] = k] /\ sentn' = [sentn EXCEPT ![t] = 0]
    BY <1>1, <1>5, <2>1 DEF Client!OpenStream, Client!Goto
  <2>3. ClientTypes'
    BY <1>0, <1>1, <2>1, <2>2 DEF ClientTypes, Stages
  <2>4. /\ cpc'[t] = "send" /\ out1'[t] = k /\ sentn'[t] = 0
        /\ \A s \in Uploads \ {t} : cpc'[s] = cpc[s]
    BY <1>1, <2>2 DEF ClientTypes
  <2>5. FieldsOK(t)'
    BY <1>0, <1>1, <2>1, <2>4 DEF FieldsOK, Client!Live, Before
  <2>6. ~Refused(f) /\ stream[k] = Sent(f, 0) /\ 0 <= Size[f]
    BY <1>1, <2>1, SystemAssumption DEF WrittenOK, Refused
  <2>7. WrittenOK(t)'
    BY <1>0, <1>1, <2>1, <2>4, <2>6 DEF WrittenOK, Refused, Sent
  <2> QED  BY <1>0, <2>1, <2>3, <2>4, <2>5, <2>7, OwnConnStep
<1> QED  BY <1>2, <1>3, <1>4, <1>5

\* Steps that write a line or a fragment on the thread's connection.
LEMMA WriteSteps ==
    ASSUME ClientInv, stream \in [Conns -> Seq(Unit)], NEW t \in Uploads,
           Client!PrintRequest(t) \/ Client!PrintValidity(t) \/ Client!SendFragment(t)
    PROVE  /\ ClientInv'
           /\ \/ UNCHANGED stream
              \/ \E k \in Conns, u \in Unit :
                     ~eof[k] /\ stream' = [stream EXCEPT ![k] = Append(@, u)]
<1>. DEFINE k == wired[t]
            f == entered[t]
<1>0. /\ cpc[t] \in {"request", "validity", "send"}
      /\ UNCHANGED <<eof, opened, wired, socket, fileName, networkUtil, entered, util, name, out1>>
  BY DEF Client!PrintRequest, Client!PrintValidity, Client!SendFragment
<1>1. /\ f \in Names /\ fileName = f /\ k \in Conns \cup {0} /\ socket = wired
      /\ cpc \in [Uploads -> Stages] /\ networkUtil = t /\ util[t] = t /\ name[t] = f
      /\ WrittenOK(t) /\ ClientTypes /\ Client!Wire(t) = k
  BY <1>0, OwnFacts DEF ClientInv, Client!Wire
<1>2. Size[f] \in Nat \cup {-1}
  BY <1>1, SystemAssumption
<1>3. CASE Client!PrintRequest(t) /\ k = 0
  <2>1. cpc[t] = "request" /\ cpc' = [cpc EXCEPT ![t] = "finally"] /\ UNCHANGED <<stream, sentn>>
    BY <1>1, <1>3 DEF Client!PrintRequest, Client!Goto
  <2>2. cpc'[t] = "finally" /\ \A s \in Uploads \ {t} : cpc'[s] = cpc[s]
    BY <1>1, <2>1
  <2>3. ClientTypes'
    BY <1>0, <1>1, <2>1 DEF ClientTypes, Stages
  <2>4. FieldsOK(t)'
    BY <1>0, <1>1, <2>2 DEF FieldsOK, Client!Live, Before
  <2>5. WrittenOK(t)'
    BY <1>0, <1>3, <2>2 DEF WrittenOK
  <2> QED  BY <1>0, <2>1, <2>2, <2>3, <2>4, <2>5, OwnConnStep
<1>4. CASE Client!PrintRequest(t) /\ k # 0
  <2>1. /\ cpc[t] = "request" /\ cpc' = [cpc EXCEPT ![t] = "validity"] /\ UNCHANGED sentn
        /\ k \in Conns /\ stream[k] = <<>> /\ ~eof[k]
    BY <1>1, <1>4 DEF Client!PrintRequest, Client!Goto, WrittenOK
  <2>2. stream' = [stream EXCEPT ![k] = Append(@, Upload(f))]
    BY <1>1, <1>4, <2>1 DEF Client!PrintRequest, Client!Put, Upload
  <2>3. Upload(f) \in Unit
    BY <1>1, ClientUnits
  <2>4. stream'[k] = <<Upload(f)>> /\ \A j \in Conns : j # k => stream'[j] = stream[j]
    BY <2>1, <2>2
  <2>5. cpc'[t] = "validity" /\ \A s \in Uploads \ {t} : cpc'[s] = cpc[s]
    BY <1>1, <2>1
  <2>6. ClientTypes'
    BY <1>0, <1>1, <2>1 DEF ClientTypes, Stages
  <2>7. FieldsOK(t)'
    BY <1>0, <1>1, <2>5 DEF FieldsOK, Client!Live, Before
  <2>8. WrittenOK(t)'
    BY <1>0, <1>4, <2>1, <2>4, <2>5 DEF WrittenOK
  <2>9. ClientInv'
    BY <1>0, <2>4, <2>5, <2>6, <2>7, <2>8, OwnConnStep
  <2> QED  BY <2>1, <2>2, <2>3, <2>9
<1>5. CASE Client!PrintValidity(t)
  <2> DEFINE u == IF Size[f] >= 0 THEN Valid ELSE Invalid
             l == IF Refused(f) THEN "close" ELSE "open"
  <2>1. /\ cpc[t] = "validity" /\ UNCHANGED sentn
        /\ k # 0 /\ k \in Conns /\ stream[k] = <<Upload(f)>> /\ ~eof[k]
    BY <1>1, <1>5 DEF Client!PrintValidity, WrittenOK
  <2>2. cpc' = [cpc EXCEPT ![t] = l]
    <3>1. Size[f] >= 0 /\ Ext[f] \in Client!ClientExt <=> ~Refused(f)
      BY <1>2 DEF Refused
    <3>2. cpc' = [cpc EXCEPT ![t] = IF Size[f] >= 0 /\ Ext[f] \in Client!ClientExt
                                    THEN "open" ELSE "close"]
      BY <1>1, <1>5 DEF Client!PrintValidity, Client!Goto
    <3> QED  BY <3>1, <3>2
  <2>3. stream' = [stream EXCEPT ![k] = Append(@, u)]
    BY <1>1, <1>5, <2>1 DEF Client!PrintValidity, Client!Put, Valid, Invalid
  <2>4. u \in Unit
    <3>1. Valid \in Unit /\ Invalid \in Unit
      BY DEF Valid, Invalid, Unit
    <3> QED  BY <3>1
  <2>5. /\ stream'[k] = Append(<<Upload(f)>>, u)
        /\ \A j \in Conns : j # k => stream'[j] = stream[j]
    BY <2>1, <2>3
  <2>6. cpc'[t] = l /\ \A s \in Uploads \ {t} : cpc'[s] = cpc[s]
    BY <1>1, <2>2
  <2>7. ClientTypes'
    BY <1>0, <1>1, <2>1, <2>2 DEF ClientTypes, Stages
  <2>8. FieldsOK(t)'
    BY <1>0, <1>1, <2>6 DEF FieldsOK, Client!Live, Before
  <2>9. WrittenOK(t)'
    <3>1. CASE Refused(f)
      <4>1. stream'[k] = Client!Message(f)
        BY <1>1, <1>2, <2>5, <3>1, MessageIs, SentMore
      <4> QED  BY <1>0, <2>1, <2>6, <3>1, <4>1 DEF WrittenOK, Client!Message, Client!Fragment
    <3>2. CASE ~Refused(f)
      <4>1. Size[f] >= 0
        BY <1>2, <3>2 DEF Refused
      <4>2. stream'[k] = Sent(f, 0)
        BY <1>1, <2>5, <4>1, SentMore
      <4> QED  BY <1>0, <2>1, <2>6, <3>2, <4>2 DEF WrittenOK, Refused, Sent
    <3> QED  BY <3>1, <3>2
  <2>10. ClientInv'
    BY <1>0, <2>1, <2>5, <2>6, <2>7, <2>8, <2>9, OwnConnStep
  <2> QED  BY <2>1, <2>3, <2>4, <2>10
<1>6. CASE Client!SendFragment(t)
  <2> DEFINE n == sentn[t]
             m == n + 1
  <2>1. /\ cpc[t] = "send" /\ n < Size[f]
        /\ k # 0 /\ k \in Conns /\ stream[k] = Sent(f, n) /\ ~eof[k] /\ out1[t] = k /\ ~Refused(f)
    BY <1>1, <1>6 DEF Client!SendFragment, WrittenOK
  <2>2. n \in Nat /\ m \in Nat /\ m <= Size[f]
    BY <1>1, <1>2, <2>1 DEF ClientTypes
  <2>3. cpc' = cpc /\ sentn' = [sentn EXCEPT ![t] = m]
    BY <1>1, <1>6, <2>1 DEF Client!SendFragment
  <2>4. stream' = [stream EXCEPT ![k] = Append(@, Fragment(f, m))]
    BY <1>1, <1>6, <2>1 DEF Client!SendFragment, Client!Fragment, Fragment
  <2> HIDE DEF m
  <2>5. Fragment(f, m) \in Unit
    BY <1>1, <2>2, ClientUnits
  <2>6. Append(Sent(f, n), Fragment(f, m)) = Sent(f, m)
    BY <1>1, <2>2, SentMore DEF m
  <2>7. stream'[k] = Sent(f, m) /\ \A j \in Conns : j # k => stream'[j] = stream[j]
    BY <2>1, <2>4, <2>6
  <2>8. ClientTypes'
    BY <1>0, <1>1, <2>2, <2>3 DEF ClientTypes
  <2>9. sentn'[t] = m
    BY <1>1, <2>3 DEF ClientTypes
  <2>10. FieldsOK(t)'
    BY <1>0, <1>1, <2>1, <2>3 DEF FieldsOK, Client!Live, Before
  <2>11. WrittenOK(t)'
    BY <1>0, <2>1, <2>2, <2>3, <2>7, <2>9 DEF WrittenOK, Refused, Sent
  <2>12. ClientInv'
    BY <1>0, <2>1, <2>3, <2>7, <2>8, <2>10, <2>11, OwnConnStep
  <2> QED  BY <2>1, <2>4, <2>5, <2>12
<1> QED  BY <1>3, <1>4, <1>5, <1>6

\* Steps that close a connection: it is the thread's own.
LEMMA CloseSteps ==
    ASSUME ClientInv, eof \in [Conns -> BOOLEAN], NEW t \in Uploads,
           Client!EndSend(t) \/ Client!CloseOwn(t) \/ Client!CloseField(t)
    PROVE  /\ ClientInv'
           /\ \/ UNCHANGED eof
              \/ \E k \in Conns : eof' = [eof EXCEPT ![k] = TRUE]
<1>. DEFINE k == wired[t]
            f == entered[t]
<1>0. /\ cpc[t] \in {"send", "close", "finally"}
      /\ UNCHANGED <<stream, opened, wired, socket, fileName, networkUtil, entered, util, name,
                     out1, sentn>>
  BY DEF Client!EndSend, Client!CloseOwn, Client!CloseField
<1>1. /\ f \in Names /\ fileName = f /\ k \in Conns \cup {0} /\ socket = wired
      /\ cpc \in [Uploads -> Stages] /\ networkUtil = t /\ util[t] = t /\ name[t] = f
      /\ WrittenOK(t) /\ ClientTypes /\ Client!Wire(t) = k
  BY <1>0, OwnFacts DEF ClientInv, Client!Wire
<1>2. Size[f] \in Nat \cup {-1}
  BY <1>1, SystemAssumption
<1>3. eof' = Client!Closing(k)
  BY <1>1 DEF Client!EndSend, Client!CloseOwn, Client!CloseField, WrittenOK
<1>4. /\ k # 0 => k \in Conns /\ eof' = [eof EXCEPT ![k] = TRUE]
      /\ k = 0 => eof' = eof
  BY <1>1, <1>3, SystemAssumption DEF Client!Closing
<1>5. k # 0 => eof'[k] /\ \A j \in Conns : j # k => eof'[j] = eof[j]
  BY <1>4
<1>6. PICK l \in {"close", "finally", "end"} : cpc' = [cpc EXCEPT ![t] = l]
  BY DEF Client!EndSend, Client!CloseOwn, Client!CloseField, Client!Goto
<1>7. cpc'[t] = l /\ \A s \in Uploads \ {t} : cpc'[s] = cpc[s]
  BY <1>1, <1>6
<1>8. k # 0 => stream[k] = Client!Message(f)
  <2>1. CASE Client!EndSend(t)
    <3>1. k # 0 => ~Refused(f) /\ sentn[t] <= Size[f] /\ stream[k] = Sent(f, sentn[t])
      BY <1>1, <2>1 DEF Client!EndSend, WrittenOK
    <3>2. k # 0 => sentn[t] = Size[f]
      BY <1>1, <1>2, <2>1, <3>1 DEF Client!EndSend, ClientTypes
    <3>3. ~Refused(f) => Client!Message(f) = Sent(f, Size[f])
      BY <1>1, MessageIs
    <3> QED  BY <3>1, <3>2, <3>3
  <2>2. CASE cpc[t] \in {"close", "finally"}
    BY <1>1, <2>2 DEF WrittenOK
  <2> QED  BY <2>1, <2>2 DEF Client!CloseOwn, Client!CloseField
<1>9. ClientTypes'
  BY <1>0, <1>1, <1>6 DEF ClientTypes, Stages
<1>10. FieldsOK(t)'
  BY <1>0, <1>1, <1>7 DEF FieldsOK, Client!Live, Before
<1>11. k = 0 => l # "close"
  BY <1>1, <1>6, <1>7 DEF Client!EndSend, Client!CloseOwn, Client!CloseField, Client!Goto, WrittenOK
<1>12. WrittenOK(t)'
  BY <1>0, <1>5, <1>7, <1>8, <1>11 DEF WrittenOK, Client!Message, Client!Fragment
<1>13. ClientInv'
  BY <1>0, <1>4, <1>5, <1>7, <1>9, <1>10, <1>12, OwnConnStep
<1> QED  BY <1>4, <1>13

-----------------------------------------------------------------------------
(* The two sides together *)

\* A step of the client keeps its invariant; to the server it is a peer that
\* sends something or hangs up.
LEMMA ClientStep ==
    ASSUME MaxLive = 1, TypeOK, ClientInv, NEW t \in Uploads, UNCHANGED srvars,
           Client!Run(t) \/ \E f \in Names : Client!Enter(t, f)
    PROVE  ClientInv' /\ (UNCHANGED vars \/ \E c \in Conns : Talks(c))
<1>0. /\ stream \in [Conns -> Seq(Unit)] /\ eof \in [Conns -> BOOLEAN]
      /\ script \in [Conns -> Seq(Unit)]
  BY DEF TypeOK
<1>1. CASE \E f \in Names : Client!Enter(t, f)
  <2>1. ClientInv'
    BY <1>1, EnterStep
  <2>2. UNCHANGED <<stream, eof>>
    BY <1>1 DEF Client!Enter, Client!conns
  <2> QED  BY <2>1, <2>2 DEF vars, net, srvars
<1>2. CASE Client!Connect(t)
  <2>1. UNCHANGED <<stream, eof>>
    BY <1>2 DEF Client!Connect
  <2> QED  BY <1>2, <2>1, ConnectStep DEF vars, net, srvars
<1>3. CASE \/ Client!LoadUtil(t) \/ Client!LoadName(t)
           \/ Client!CheckSocket(t) \/ Client!OpenStream(t)
  <2>1. UNCHANGED <<stream, eof>>
    BY <1>3 DEF Client!LoadUtil, Client!LoadName, Client!CheckSocket, Client!OpenStream,
                Client!conns
  <2>2. ClientInv'
    BY <1>0, <1>3, QuietSteps
  <2> QED  BY <2>1, <2>2 DEF vars, net, srvars
<1>4. CASE Client!PrintRequest(t) \/ Client!PrintValidity(t) \/ Client!SendFragment(t)
  <2>1. UNCHANGED eof
    BY <1>4 DEF Client!PrintRequest, Client!PrintValidity, Client!SendFragment
  <2>2. /\ ClientInv'
        /\ \/ UNCHANGED stream
           \/ \E k \in Conns, u \in Unit :
                  ~eof[k] /\ stream' = [stream EXCEPT ![k] = Append(@, u)]
    BY <1>0, <1>4, WriteSteps
  <2> QED  BY <1>0, <2>1, <2>2 DEF vars, net, srvars, Talks
<1>5. CASE Client!EndSend(t) \/ Client!CloseOwn(t) \/ Client!CloseField(t)
  <2>1. UNCHANGED stream
    BY <1>5 DEF Client!EndSend, Client!CloseOwn, Client!CloseField
  <2>2. ClientInv' /\ (UNCHANGED eof \/ \E k \in Conns : eof' = [eof EXCEPT ![k] = TRUE])
    BY <1>0, <1>5, CloseSteps
  <2> QED  BY <1>0, <2>1, <2>2 DEF vars, net, srvars, Talks
<1>6. ~Client!Reopen(t)
  BY DEF Client!Reopen, ClientInv, ClientTypes, Stages
<1> QED  BY <1>1, <1>2, <1>3, <1>4, <1>5, <1>6 DEF Client!Run

\* A step of the server leaves the client and the connections alone.
LEMMA ServerLeavesClient ==
    ASSUME ClientInv, UNCHANGED <<stream, eof, clvars>>
    PROVE  ClientInv'
<1>1. UNCHANGED <<stream, eof, fileName, networkUtil, entered, cpc, util, name, opened, wired,
                  socket, out1, sentn>>
  BY DEF clvars
<1>2. ClientTypes' /\ ConnsOK' /\ OneAtATime'
  BY <1>1 DEF ClientInv, ClientTypes, ConnsOK, OneAtATime, Client!Live, Stages
<1>3. ASSUME NEW t \in Uploads
      PROVE  FieldsOK(t)' /\ WrittenOK(t)'
  <2>1. FieldsOK(t) /\ WrittenOK(t)
    BY DEF ClientInv
  <2>2. FieldsOK(t)'
    BY <1>1, <2>1 DEF FieldsOK, Client!Live, Before
  <2>3. WrittenOK(t)'
    BY <1>1, <2>1 DEF WrittenOK, Refused, Sent, Client!Message, Client!Fragment
  <2> QED  BY <2>2, <2>3
<1> QED  BY <1>2, <1>3 DEF ClientInv

\* A thread that receives a file stays with it until it is stored, and one whose
\* connection is closed does nothing more.
LEMMA LastLabels ==
    ASSUME TypeOK, NEW c \in Conns, Thread(c) \/ Talks(c)
    PROVE  /\ pc[c] \in {"receive", "stored"} =>
                  pc'[c] \in {"receive", "stored"} /\ req'[c] = req[c]
           /\ pc[c] \in {"close", "stored"} => pc'[c] = pc[c]
           /\ closed' = closed \/ Close(c)
<1>0. pc \in [Conns -> Labels] /\ req \in [Conns -> Paths]
  BY DEF TypeOK
<1>1. CASE Talks(c)
  BY <1>1 DEF Talks
<1>2. CASE Thread(c)
  <2>1. pc[c] \in {"receive", "close", "stored"} => EndUpload(c) \/ ReceiveFragment(c) \/ Close(c)
    BY <1>2 DEF Thread, ReadGet, ReadUpload, ReadMalformed, ReadOther, ReadNull, AnswerStep,
         LoadCount, StoreCount, OpenLog, AnswerDir, AnswerText, AnswerMissing, SizeImage,
         SendImage, StartDownload, DownloadFragment, EndDownload, CloseLog, AnswerMalformed,
         UploadStep, BeginUpload, RefuseUpload, UploadCut
  <2>2. closed' = closed \/ Close(c)
    BY <1>2 DEF Thread, ReadGet, ReadUpload, ReadMalformed, ReadOther, ReadNull, AnswerStep,
         LoadCount, StoreCount, OpenLog, AnswerDir, AnswerText, AnswerMissing, SizeImage,
         SendImage, StartDownload, DownloadFragment, EndDownload, CloseLog, AnswerMalformed,
         Answer, UploadStep, BeginUpload, RefuseUpload, UploadCut, ReceiveFragment, EndUpload, vars
  <2>3. /\ EndUpload(c) => pc[c] = "receive" /\ pc'[c] = "stored" /\ req' = req
        /\ ReceiveFragment(c) => pc[c] = "receive" /\ pc' = pc /\ req' = req
        /\ Close(c) => pc' = pc /\ req' = req
    BY <1>0 DEF EndUpload, ReceiveFragment, Close, Goto
  <2> QED  BY <2>1, <2>2, <2>3
<1> QED  BY <1>1, <1>2

\* A file changes only while a thread receives it.
LEMMA FilesStep ==
    ASSUME ServerInv, FilesOK, NEW c \in Conns, Thread(c) \/ Talks(c)
    PROVE  FilesOK'
<1>0. TypeOK /\ ThreadOK(c) /\ pc \in [Conns -> Labels] /\ closed \in [Conns -> BOOLEAN]
  BY DEF ServerInv, TypeOK
<1>1. \A d \in Conns \ {c} : pc'[d] = pc[d] /\ req'[d] = req[d]
  BY <1>0, OthersUntouched
<1>2. /\ pc[c] \in {"receive", "stored"} =>
             pc'[c] \in {"receive", "stored"} /\ req'[c] = req[c]
      /\ pc[c] \in {"close", "stored"} => pc'[c] = pc[c]
      /\ closed' = closed \/ Close(c)
  BY <1>0, LastLabels
<1>3. ASSUME NEW f \in Names, fs'[f] # OnDisk[f]
      PROVE  \E d \in Conns : pc'[d] \in {"receive", "stored"} /\ req'[d] = f
  <2>1. CASE fs'[f] = fs[f]
    <3>1. PICK d \in Conns : pc[d] \in {"receive", "stored"} /\ req[d] = f
      BY <1>3, <2>1 DEF FilesOK
    <3> QED  BY <1>1, <1>2, <3>1
  <2>2. CASE fs'[f] # fs[f]
    <3>1. (BeginUpload(c) \/ ReceiveFragment(c)) /\ req[c] = f
      BY <1>0, <2>2, FilesKept
    <3>2. pc'[c] = "receive" /\ req' = req
      BY <1>0, <3>1 DEF BeginUpload, ReceiveFragment, Goto
    <3> QED  BY <3>1, <3>2
  <2> QED  BY <2>1, <2>2
<1>4. ASSUME NEW d \in Conns, closed'[d]
      PROVE  pc'[d] \in {"close", "stored"}
  <2>1. CASE closed[d]
    BY <1>1, <1>2, <2>1 DEF FilesOK
  <2>2. CASE ~closed[d]
    <3>1. Close(c)
      BY <1>2, <1>4, <2>2
    <3>2. d = c /\ pc[c] \in {"close", "stored"}
      BY <1>0, <1>4, <2>2, <3>1 DEF Close
    <3> QED  BY <1>2, <3>2
  <2> QED  BY <2>1, <2>2
<1> QED  BY <1>3, <1>4 DEF FilesOK

\* Before anything is entered.
LEMMA SysInitInv ==
    ASSUME SysInit
    PROVE  SysInv
<1>1. /\ InitServer /\ stream = [c \in Conns |-> <<>>] /\ eof = [c \in Conns |-> FALSE]
      /\ script = [c \in Conns |-> <<>>] /\ Client!InitClient
  BY DEF SysInit, Client!Init
<1>2. ServerInv
  <2>1. script \in [Conns -> Seq(Unit)]
    BY <1>1
  <2> QED  BY <1>1, <2>1, InitServerInv
<1>3. ClientTypes /\ ConnsOK /\ OneAtATime
  BY <1>1 DEF Client!InitClient, ClientTypes, ConnsOK, OneAtATime, Client!Live, Stages
<1>4. \A t \in Uploads : FieldsOK(t) /\ WrittenOK(t)
  BY <1>1 DEF Client!InitClient, FieldsOK, WrittenOK, Client!Live, Before
<1>5. FilesOK
  BY <1>1 DEF InitServer, FilesOK
<1> QED  BY <1>2, <1>3, <1>4, <1>5 DEF SysInv, ClientInv

\* WriteClient and HttpFileServer over their connections, one upload at a time:
\* the fields that the client's threads share are those of the one under way, each
\* writes its user's file on a connection of its own, and the server's threads keep
\* what they keep for any peer.
THEOREM SystemInvariance ==
    ASSUME MaxLive = 1
    PROVE  SysSpec => []SysInv
<1>1. SysInit => SysInv
  BY SysInitInv
<1>2. SysInv /\ [SysNext]_sysvars => SysInv'
  <2>1. ASSUME SysInv, NEW c \in Conns, Serve(c)
        PROVE  SysInv'
    <3>1. Thread(c) /\ UNCHANGED clvars /\ ServerInv /\ ClientInv /\ FilesOK
      BY <2>1 DEF Serve, SysInv
    <3>2. UNCHANGED <<stream, eof>>
      BY <3>1 DEF Thread, ReadGet, ReadUpload, ReadMalformed, ReadOther, ReadNull, AnswerStep,
         LoadCount, StoreCount, OpenLog, AnswerDir, AnswerText, AnswerMissing, SizeImage,
         SendImage, StartDownload, DownloadFragment, EndDownload, CloseLog, AnswerMalformed,
         Answer, UploadStep, BeginUpload, RefuseUpload, UploadCut, ReceiveFragment, EndUpload,
         Close, net, vars
    <3>3. ServerInv' /\ FilesOK'
      BY <3>1, ServerStep, FilesStep
    <3>4. ClientInv'
      BY <3>1, <3>2, ServerLeavesClient
    <3> QED  BY <3>3, <3>4 DEF SysInv
  <2>2. ASSUME SysInv, NEW t \in Uploads, Run(t) \/ \E f \in Names : Enter(t, f)
        PROVE  SysInv'
    <3>1. /\ ServerInv /\ ClientInv /\ FilesOK /\ UNCHANGED srvars /\ TypeOK
          /\ Client!Run(t) \/ \E f \in Names : Client!Enter(t, f)
      BY <2>2 DEF Run, Enter, SysInv, ServerInv
    <3>2. ClientInv' /\ (UNCHANGED vars \/ \E c \in Conns : Talks(c))
      BY <3>1, ClientStep
    <3>3. ServerInv'
      BY <3>1, <3>2, ServerStep, ServerStutter
    <3>4. FilesOK'
      BY <3>1 DEF FilesOK, srvars
    <3> QED  BY <3>2, <3>3, <3>4 DEF SysInv
  <2>3. ASSUME SysInv, UNCHANGED sysvars
        PROVE  SysInv'
    <3>1. UNCHANGED vars /\ UNCHANGED <<stream, eof, clvars>> /\ UNCHANGED <<fs, pc, req, closed>>
      BY <2>3 DEF sysvars, srvars, vars, net
    <3>2. ServerInv' /\ ClientInv'
      BY <2>3, <3>1, ServerStutter, ServerLeavesClient DEF SysInv
    <3>3. FilesOK'
      BY <2>3, <3>1 DEF SysInv, FilesOK
    <3> QED  BY <3>2, <3>3 DEF SysInv
  <2> QED  BY <2>1, <2>2, <2>3 DEF SysNext
<1> QED  BY <1>1, <1>2, PTL DEF SysSpec

\* WriteClient.run() and NetworkUtil.writeFromClient(), one upload at a time:
\* every thread that has ended has sent its user's file in full on a connection of
\* its own, and no connection outlives the threads.
THEOREM ClientKeepsPromises ==
    ASSUME MaxLive = 1
    PROVE  SysSpec => []ClientSendsAndCloses
<1>1. ASSUME SysInv
      PROVE  ClientSendsAndCloses
  <2>0. ClientTypes /\ ConnsOK /\ \A t \in Uploads : FieldsOK(t) /\ WrittenOK(t)
    BY <1>1 DEF SysInv, ClientInv
  <2>1. ASSUME NEW t \in Uploads, cpc[t] = "end", socket[t] # 0
        PROVE  \E k \in Conns : eof[k] /\ stream[k] = Client!Message(entered[t])
    BY <2>0, <2>1 DEF ClientTypes, WrittenOK
  <2>2. ASSUME Client!Live = {}, NEW k \in opened
        PROVE  eof[k]
    <3>1. PICK t \in Uploads : wired[t] = k
      BY <2>0, <2>2 DEF ConnsOK
    <3>2. wired[t] # 0 /\ cpc[t] \in {"new", "end"}
      BY <2>0, <2>2, <3>1, SystemAssumption DEF ClientTypes, Client!Live
    <3> QED  BY <2>0, <3>1, <3>2 DEF FieldsOK, WrittenOK, Before
  <2> QED  BY <2>1, <2>2 DEF ClientSendsAndCloses, Client!UploadSent, Client!NothingLeftOpen
<1> QED  BY <1>1, SystemInvariance, PTL

-----------------------------------------------------------------------------
(* From the client's file to the server's *)

\* A thread names one file on its connection.
LEMMA NamedBy ==
    ASSUME ClientInv, NEW f \in Names, NEW d \in Conns, Upload(f) \in Units(d)
    PROVE  \E s \in Uploads : wired[s] = d /\ entered[s] = f
<1>1. PICK i \in 1 .. Len(stream[d]) : stream[d][i] = Upload(f)
  BY DEF Units
<1>2. stream[d] # <<>>
  BY <1>1
<1>3. PICK s \in Uploads : wired[s] = d
  BY <1>2 DEF ClientInv, ConnsOK
<1> DEFINE g == entered[s]
<1>4. /\ d # 0 /\ FieldsOK(s) /\ WrittenOK(s) /\ cpc \in [Uploads -> Stages]
      /\ sentn \in [Uploads -> Nat]
  BY SystemAssumption DEF ClientInv, ClientTypes
<1>5. g \in Names
  BY <1>3, <1>4 DEF FieldsOK, Before
<1>6. \/ stream[d] = <<Upload(g)>> \/ \E n \in Nat : stream[d] = Sent(g, n)
      \/ stream[d] = Client!Message(g)
  <2>1. cpc[s] \in Stages /\ sentn[s] \in Nat
    BY <1>4
  <2>2. cpc[s] \notin {"new", "connect"}
    BY <1>3, <1>4 DEF FieldsOK, Before
  <2> QED  BY <1>2, <1>3, <1>4, <2>1, <2>2 DEF WrittenOK, Stages
<1> HIDE DEF g
<1>7. /\ Upload(f) = Upload(g) => f = g
      /\ Upload(f) # Valid /\ Upload(f) # Invalid /\ \A j \in Int : Upload(f) # Fragment(g, j)
  <2>1. /\ Upload(f).t = "UPLOAD" /\ Valid.t = "valid" /\ Invalid.t = "invalid"
        /\ Upload(f).of = f /\ Upload(g).of = g /\ \A j \in Int : Fragment(g, j).t = "data"
    BY DEF Upload, Valid, Invalid, Fragment
  <2> QED  BY <2>1
<1>8. ASSUME stream[d] = <<Upload(g)>>
      PROVE  f = g
  BY <1>1, <1>7, <1>8
<1>9. ASSUME NEW n \in Nat, stream[d] = Sent(g, n)
      PROVE  f = g
  <2>1. /\ Len(stream[d]) = n + 2 /\ stream[d][1] = Upload(g) /\ stream[d][2] = Valid
        /\ \A j \in 1 .. n + 2 : j > 2 => stream[d][j] = Fragment(g, j - 2)
    BY <1>5, <1>9, SentShape
  <2>2. i = 1 \/ i = 2 \/ (i \in 1 .. n + 2 /\ i > 2 /\ i - 2 \in Int)
    BY <1>1, <2>1
  <2> QED  BY <1>1, <1>7, <2>1, <2>2
<1>10. ASSUME stream[d] = Client!Message(g)
       PROVE  f = g
  <2>1. CASE Size[g] < 0
    <3>1. stream[d] = Append(<<Upload(g)>>, Invalid)
      BY <1>5, <1>10, <2>1, MessageIs
    <3>2. Len(stream[d]) = 2 /\ stream[d][1] = Upload(g) /\ stream[d][2] = Invalid
      BY <3>1
    <3> QED  BY <1>1, <1>7, <3>2
  <2>2. CASE Size[g] >= 0
    <3>1. \E n \in Nat : stream[d] = Sent(g, n)
      BY <1>5, <1>10, <2>2, MessageIs
    <3> QED  BY <1>9, <3>1
  <2>3. Size[g] < 0 \/ Size[g] >= 0
    BY <1>5, SystemAssumption
  <2> QED  BY <2>1, <2>2, <2>3
<1> QED  BY <1>3, <1>6, <1>8, <1>9, <1>10 DEF g

\* The lines of an upload of a file the client has.
LEMMA SentLines ==
    ASSUME NEW f \in Names, Size[f] >= 0, NEW s, s = Client!Message(f)
    PROVE  /\ s \in Seq(Unit) /\ Len(s) >= 2 /\ s[1] = Upload(f) /\ s[2] = Valid
           /\ \A i \in 2 .. Len(s) : s[i] # Upload(f)
<1>1. PICK m \in Nat : s = Sent(f, m)
  BY MessageIs
<1>2. /\ s \in Seq(Unit) /\ Len(s) = m + 2 /\ s[1] = Upload(f) /\ s[2] = Valid
      /\ \A i \in 1 .. m + 2 : i > 2 => s[i] = Fragment(f, i - 2)
  BY <1>1, SentShape
<1>3. Upload(f) # Valid /\ \A j \in Int : Upload(f) # Fragment(f, j)
  <2>1. Upload(f).t = "UPLOAD" /\ Valid.t = "valid" /\ \A j \in Int : Fragment(f, j).t = "data"
    BY DEF Upload, Valid, Fragment
  <2> QED  BY <2>1
<1>4. ASSUME NEW i \in 2 .. Len(s)
      PROVE  s[i] # Upload(f)
  <2>1. i = 2 \/ (i \in 1 .. m + 2 /\ i > 2 /\ i - 2 \in Int)
    BY <1>2
  <2> QED  BY <1>2, <1>3, <2>1
<1> QED  BY <1>2, <1>4

\* What a thread that has ended has sent, and that nobody else names its file.
LEMMA OverShape ==
    ASSUME SysInv, NEW t \in Uploads, Over(t), NEW f, f = entered[t]
    PROVE  /\ f \in Names /\ Size[f] \in Nat \cup {-1} /\ socket[t] = wired[t]
           /\ \A d \in Conns : Upload(f) \in Units(d) => d = wired[t]
           /\ wired[t] # 0 => /\ wired[t] \in Conns
                              /\ stream[wired[t]] = Client!Message(f) /\ eof[wired[t]]
<1>1. ClientInv /\ ClientTypes /\ FieldsOK(t) /\ WrittenOK(t)
  BY DEF SysInv, ClientInv
<1>2. f \in Names /\ cpc[t] = "end"
  BY <1>1 DEF Over, Settled, ClientTypes
<1>3. \A d \in Conns : Upload(f) \in Units(d) => d = wired[t]
  BY <1>1, <1>2, NamedBy DEF Over
<1>4. wired[t] # 0 => /\ wired[t] \in Conns
                      /\ stream[wired[t]] = Client!Message(f) /\ eof[wired[t]]
  BY <1>1, <1>2 DEF ClientTypes, WrittenOK
<1> QED  BY <1>1, <1>2, <1>3, <1>4, SystemAssumption DEF ClientTypes

\* An upload the server takes: its thread has read the two lines and then the
\* socket to its end.
LEMMA TakenStored ==
    ASSUME SysInv, ~MayCrash, NEW t \in Uploads, Over(t), Taken(t), NEW f, f = entered[t]
    PROVE  \E c \in Conns : Upload(f) \in Units(c) /\ rbuf[c] \o fs[f] = Data(f)
<1> DEFINE c == wired[t]
           s == stream[c]
           n == Lines(c)
           m == Len(s)
<1>1. /\ f \in Names /\ c # 0 /\ c \in Conns /\ s = Client!Message(f) /\ eof[c]
      /\ \A d \in Conns : Upload(f) \in Units(d) => d = c
      /\ Size[f] >= 0 /\ Accepts(f) /\ f \notin Unstorable
  BY OverShape DEF Taken
<1>2. /\ TypeOK /\ ThreadOK(c) /\ LinesOK(c) /\ TailOK(c)
      /\ closed[c] => pc[c] \in {"close", "stored"}
  BY <1>1 DEF SysInv, ServerInv, FilesOK
<1>3. /\ s \in Seq(Unit) /\ m >= 2 /\ s[1] = Upload(f) /\ s[2] = Valid /\ m \in Nat
      /\ \A i \in 2 .. m : s[i] # Upload(f)
  <2> HIDE DEF s
  <2>1. /\ s \in Seq(Unit) /\ Len(s) >= 2 /\ s[1] = Upload(f) /\ s[2] = Valid
        /\ \A i \in 2 .. Len(s) : s[i] # Upload(f)
    BY <1>1, SentLines
  <2> QED  BY <2>1
<1>4. Upload(f) \in Units(c)
  BY <1>3 DEF Units
<1>5. closed[c] \/ (pc[c] = "loop" /\ AtEnd(c))
  BY <1>1, <1>4 DEF Over, Settled
<1>6. n \in Nat /\ n <= m /\ rpos[c] \in Nat
  BY <1>1, <1>2, LinesType
<1>7. /\ n = 0 => pc[c] = "loop"
      /\ n = 1 => pc[c] = "validity" \/ m = 1
      /\ n >= 2 => pc[c] \in {"receive", "stored"} /\ req[c] = f
  BY <1>1, <1>2, <1>3 DEF LinesOK
<1>8. pc[c] = "loop" /\ AtEnd(c) => n = m
  <2> SUFFICES ASSUME pc[c] = "loop", AtEnd(c)
               PROVE  n = m
    OBVIOUS
  <2>1. rbuf[c] = <<>> /\ Pending(c) = <<>>
    BY DEF AtEnd
  <2>2. n = rpos[c] - Len(rbuf[c]) /\ Len(rbuf[c]) = 0
    BY <1>1, <1>2, <2>1, LinesType
  <2>3. Len(Pending(c)) = m - rpos[c] /\ Len(Pending(c)) = 0
    BY <1>1, <1>2, <2>1, PendingShape DEF ThreadOK
  <2> DEFINE r == rpos[c]
  <2>4. n \in Nat /\ m \in Nat /\ r \in Nat
    BY <1>3, <1>6
  <2> HIDE DEF n, m, r
  <2>5. n = r - 0 /\ 0 = m - r
    BY <2>2, <2>3 DEF r
  <2>6. n = r
    BY <2>4, <2>5
  <2>7. m = r
    BY <2>4, <2>5
  <2> QED  BY <2>6, <2>7
<1> HIDE DEF n, m
<1>9. n >= 2 /\ pc[c] = "stored" /\ req[c] = f
  <2>1. n = 0 \/ n = 1 \/ n >= 2
    BY <1>6
  <2>2. n = m => n >= 2
    BY <1>3
  <2>3. m # 1
    BY <1>3
  <2> QED  BY <1>2, <1>5, <1>7, <1>8, <2>1, <2>2, <2>3
<1>10. rpos[c] = m /\ SoleWriter(c)
  <2>1. rpos[c] = m
    BY <1>2, <1>9 DEF ThreadOK, m
  <2>2. SoleWriter(c)
    BY <1>1, <1>9 DEF SoleWriter
  <2> QED  BY <2>1, <2>2
<1>11. n = 2
  <2>1. s[n - 1] = Upload(f)
    BY <1>2, <1>9 DEF LinesOK, n
  <2>2. n - 1 \in 2 .. m \/ n = 2
    BY <1>6, <1>9, <1>3
  <2> QED  BY <1>3, <2>1, <2>2
<1>12. rbuf[c] \o fs[f] = SubSeq(s, 3, m)
  <2>1. rbuf[c] \o fs[req[c]] = SubSeq(s, n + 1, rpos[c])
    BY <1>1, <1>2, <1>9, <1>10, UploadPieces DEF n
  <2>2. n + 1 = 3
    BY <1>11
  <2> QED  BY <1>9, <1>10, <2>1, <2>2
<1>13. SubSeq(s, 3, m) = Data(f)
  BY <1>1 DEF Data, m
<1> QED  BY <1>1, <1>4, <1>12, <1>13

\* An upload the server does not take leaves its file alone.
LEMMA RefusedUntouched ==
    ASSUME SysInv, NEW t \in Uploads, Over(t), ~Taken(t), NEW f, f = entered[t]
    PROVE  fs[f] = OnDisk[f]
<1> SUFFICES ASSUME fs[f] # OnDisk[f]
             PROVE  FALSE
  OBVIOUS
<1>1. /\ f \in Names /\ Size[f] \in Nat \cup {-1} /\ socket[t] = wired[t]
      /\ \A d \in Conns : Upload(f) \in Units(d) => d = wired[t]
      /\ wired[t] # 0 => stream[wired[t]] = Client!Message(f)
  BY OverShape
<1>2. PICK c \in Conns : pc[c] \in {"receive", "stored"} /\ req[c] = f
  BY <1>1 DEF SysInv, FilesOK
<1>3. TypeOK /\ ThreadOK(c) /\ LinesOK(c)
  BY DEF SysInv, ServerInv
<1>4. wired[t] = c /\ c # 0
  BY <1>1, <1>2, <1>3, SystemAssumption DEF ThreadOK
<1> DEFINE s == stream[c]
           n == Lines(c)
           m == Len(s)
<1>5. s[n] = Valid /\ n >= 2 /\ Accepts(f) /\ f \notin Unstorable
  BY <1>2, <1>3 DEF LinesOK
<1>6. n \in Nat /\ n <= m
  BY <1>3, LinesType
<1>7. ~(Size[f] >= 0)
  BY <1>1, <1>4, <1>5 DEF Taken
<1>8. s = Append(<<Upload(f)>>, Invalid)
  <2>1. Size[f] < 0
    BY <1>1, <1>7
  <2> QED  BY <1>1, <1>4, <2>1, MessageIs
<1>9. m = 2 /\ s[2] = Invalid
  BY <1>8
<1>10. Valid # Invalid
  <2>1. Valid.t = "valid" /\ Invalid.t = "invalid"
    BY DEF Valid, Invalid
  <2> QED  BY <2>1
<1> HIDE DEF n, m
<1>11. n = 2
  BY <1>5, <1>6, <1>9
<1> QED  BY <1>5, <1>9, <1>10, <1>11

\* From the client's disk to the server's: writeFromClient(), then run() and
\* readFileFromClient().  Once the upload of a file that was named once is over,
\* every fragment the server was sent is in its file, in order, or among the
\* leading ones that the BufferedReader took ahead; a file it refuses is as it
\* was.  (Peers do not crash: MayCrash would let a reset lose the rest.)
THEOREM EndToEnd ==
    ASSUME MaxLive = 1, ~MayCrash
    PROVE  SysSpec => []StoredOrHeld
<1>1. ASSUME SysInv
      PROVE  StoredOrHeld
  <2> SUFFICES ASSUME NEW t \in Uploads, Over(t)
               PROVE  IF Taken(t)
                      THEN \E c \in Conns : /\ Upload(entered[t]) \in Units(c)
                                            /\ rbuf[c] \o fs[entered[t]] = Data(entered[t])
                      ELSE fs[entered[t]] = OnDisk[entered[t]]
    BY DEF StoredOrHeld
  <2>1. CASE Taken(t)
    BY <1>1, <2>1, TakenStored
  <2>2. CASE ~Taken(t)
    BY <1>1, <2>2, RefusedUntouched
  <2> QED  BY <2>1, <2>2
<1> QED  BY <1>1, SystemInvariance, PTL
=============================================================================
