----------------------------- MODULE IpcProofs ----------------------------
(***************************************************************************)
(* Proofs about Ipc, for all processes, threads, connections and works.    *)
(***************************************************************************)
EXTENDS Ipc, FiniteSetTheorems, TLAPS

USE DEF NoFd, thread, conns, daemon, history

LEMMA Assumed ==
  /\ MaxCalls \in [Threads -> Nat] /\ IsFiniteSet(Conns) /\ AppOf \in [Threads -> Apps]
  /\ NoThread \notin Threads /\ NoConn \notin Conns /\ Unconnected \notin Conns
  /\ NoConn # Unconnected
  BY IpcAssumption DEF IpcAssumption

LEMMA CallIs ==
  ASSUME NEW k \in Calls
  PROVE  k[1] \in Threads /\ k = <<k[1], k[2]>> /\ k[2] \in 1 .. MaxCalls[k[1]] /\ k # NoCall
<1>1. PICK t \in Threads : k \in {t} \X (1 .. MaxCalls[t])
  BY DEF Calls
<1>2. k[1] = t /\ k = <<k[1], k[2]>> /\ k[2] \in 1 .. MaxCalls[t]
  BY <1>1
<1>3. k \in Threads \X Nat
  BY <1>2, Assumed
<1> QED  BY <1>2, <1>3, IpcAssumption DEF IpcAssumption

LEMMA TaskIs == ASSUME NEW x \in Task PROVE x # NoTask
  BY CallIs DEF Task, NoTask

LEMMA FdsArePositive == NoFd \notin Fds
<1>1. Cardinality(Conns) \in Nat
  BY FS_CardinalityType, Assumed
<1> QED  BY <1>1 DEF Fds

\* What TypeOK leaves out of a thread's place: a thread in a call has made it,
\* one that writes the rest or waits has a connection, and only long requests
\* have a rest.
Places ==
    /\ \A t \in Threads : pc[t] # "idle" => made[t] >= 1
    /\ \A t \in Threads : pc[t] \in {"continues", "waits"} => Here(t) \in Conns
    /\ \A t \in Threads : pc[t] = "continues" => t \in long

\* The parts of TypeOK
ThreadsOK ==
    /\ pc \in [Threads -> {"idle", "wants", "sends", "continues", "waits", "leaves", "reconnects"}]
    /\ made \in [Threads -> Nat] /\ \A t \in Threads : made[t] <= MaxCalls[t]
    /\ tried \in [Threads -> BOOLEAN]
    /\ got \in [Threads -> Calls \cup {NoCall}]
    /\ mutex \in [Apps -> Threads \cup {NoThread}]
    /\ socket \in [Apps -> Conns \cup {NoConn, Unconnected}]
    /\ \A t \in Threads : Waits(t) => mutex[AppOf[t]] = t
ConnsOK ==
    /\ open \in [Conns -> BOOLEAN] /\ queued \in [Conns -> BOOLEAN]
    /\ fd \in [Conns -> Fds \cup {NoFd}]
    /\ in \in [Conns -> Seq(Piece)] /\ out \in [Conns -> Seq(Piece)]
    /\ \A c, d \in Conns : fd[c] = fd[d] /\ fd[c] # NoFd => c = d
StubOK ==
    /\ up \in BOOLEAN /\ tasks \in Seq(Task) /\ running \in Task \cup {NoTask}
    /\ answering \in Rest \cup {NoTask}
HistoryOK ==
    /\ stray \subseteq {"descriptor", "socket", "answer"} /\ abandoned \subseteq Calls /\ cut \subseteq Calls
    /\ long \subseteq Threads /\ large \subseteq Threads /\ executed \in [Calls -> Nat] /\ left \in Nat

LEMMA TypeParts == TypeOK <=> ThreadsOK /\ ConnsOK /\ StubOK /\ HistoryOK
  BY DEF TypeOK, ThreadsOK, ConnsOK, StubOK, HistoryOK

LEMMA CurrentIsCall ==
  ASSUME ThreadsOK, Places, NEW t \in Threads, pc[t] # "idle"
  PROVE  Current(t) \in Calls
<1>1. MaxCalls[t] \in Nat
  BY Assumed
<1>2. made[t] \in Nat /\ made[t] >= 1 /\ made[t] <= MaxCalls[t]
  BY DEF ThreadsOK, Places
<1> QED  BY <1>1, <1>2 DEF Current, Calls

\* Closing and opening a connection.
LEMMA CloseOK ==
  ASSUME ConnsOK, NEW s, Close(s)
  PROVE  ConnsOK'
  BY DEF ConnsOK, Close

LEMMA ConnectOK ==
  ASSUME ConnsOK, socket \in [Apps -> Conns \cup {NoConn, Unconnected}], NEW a \in Apps, Connect(a)
  PROVE  /\ ConnsOK' /\ socket' \in [Apps -> Conns \cup {NoConn, Unconnected}]
         /\ \A b \in Apps \ {a} : socket'[b] = socket[b]
<1>1. CASE up
  <2>1. PICK c \in Conns :
            /\ socket' = [socket EXCEPT ![a] = c]
            /\ open' = [open EXCEPT ![c] = TRUE] /\ queued' = [queued EXCEPT ![c] = TRUE]
            /\ in' = [in EXCEPT ![c] = <<>>] /\ out' = [out EXCEPT ![c] = <<>>]
            /\ UNCHANGED fd
    BY <1>1 DEF Connect
  <2> QED  BY <2>1 DEF ConnsOK
<1>2. CASE ~up
  BY <1>2 DEF Connect, ConnsOK
<1> QED  BY <1>1, <1>2

-----------------------------------------------------------------------------
(* Type correctness.                                                       *)

\* A step of one thread that leaves the others' places, answers, connections
\* and mutexes alone.
LEMMA ReturnsOK ==
  ASSUME ThreadsOK, Places, NEW t \in Threads, Waits(t), NEW answer \in Calls \cup {NoCall},
         Returns(t, answer), UNCHANGED <<made, tried, long>>,
         socket' \in [Apps -> Conns \cup {NoConn, Unconnected}],
         \A b \in Apps \ {AppOf[t]} : socket'[b] = socket[b]
  PROVE  ThreadsOK' /\ Places'
<1>1. \A u \in Threads : pc'[u] = IF u = t THEN "idle" ELSE pc[u]
  BY DEF ThreadsOK, Returns
<1>2. \A u \in Threads \ {t} : Waits(u) => AppOf[u] # AppOf[t]
  BY DEF ThreadsOK
<1>3. ThreadsOK'
  BY <1>1, <1>2, Assumed DEF ThreadsOK, Returns, Waits
<1>4. \A u \in Threads : pc'[u] \in {"continues", "waits"} => Here(u)' \in Conns
  BY <1>1, <1>2, Assumed DEF Places, Here, Waits
<1> QED  BY <1>1, <1>3, <1>4 DEF Places

\* The same for a thread that goes on to another place.
LEMMA GoesOnOK ==
  ASSUME ThreadsOK, Places, NEW t \in Threads, NEW l \in {"sends", "continues", "waits", "leaves", "reconnects"},
         Waits(t), pc' = [pc EXCEPT ![t] = l], UNCHANGED <<made, got, mutex, long>>,
         tried' \in [Threads -> BOOLEAN],
         socket' \in [Apps -> Conns \cup {NoConn, Unconnected}],
         \A b \in Apps \ {AppOf[t]} : socket'[b] = socket[b],
         l \in {"continues", "waits"} => socket'[AppOf[t]] \in Conns,
         l = "continues" => t \in long
  PROVE  ThreadsOK' /\ Places'
<1>1. \A u \in Threads : pc'[u] = IF u = t THEN l ELSE pc[u]
  BY DEF ThreadsOK
<1>2. \A u \in Threads \ {t} : Waits(u) => AppOf[u] # AppOf[t]
  BY DEF ThreadsOK
<1>3. ThreadsOK'
  BY <1>1, <1>2, Assumed DEF ThreadsOK, Waits
<1>4. ASSUME NEW u \in Threads, pc'[u] \in {"continues", "waits"}
      PROVE  Here(u)' \in Conns
  <2>1. CASE u = t
    BY <1>1, <1>4, <2>1 DEF Here
  <2>2. CASE u # t
    <3>1. Waits(u) /\ AppOf[u] \in Apps \ {AppOf[t]} /\ Here(u) \in Conns
      BY <1>1, <1>2, <1>4, <2>2, Assumed DEF Places, Waits
    <3> QED  BY <3>1 DEF Here
  <2> QED  BY <2>1, <2>2
<1>5. \A u \in Threads : pc'[u] # "idle" => made'[u] >= 1
  BY <1>1 DEF Places, Waits
<1> QED  BY <1>1, <1>3, <1>4, <1>5 DEF Places

LEMMA GiveUpOK ==
  ASSUME ThreadsOK, Places, NEW t \in Threads, Waits(t), GiveUp(t), UNCHANGED <<made, tried, long>>,
         socket' \in [Apps -> Conns \cup {NoConn, Unconnected}],
         \A b \in Apps \ {AppOf[t]} : socket'[b] = socket[b]
  PROVE  ThreadsOK' /\ Places'
<1>1. CASE tried[t]
  BY <1>1, ReturnsOK DEF GiveUp
<1>2. CASE ~tried[t]
  <2>1. pc' = [pc EXCEPT ![t] = "leaves"] /\ UNCHANGED <<got, mutex>> /\ tried' \in [Threads -> BOOLEAN]
    BY <1>2 DEF GiveUp, ThreadsOK
  <2> QED  BY <2>1, GoesOnOK
<1> QED  BY <1>1, <1>2

\* Dropping the socket of a process
LEMMA DropSocket ==
  ASSUME ThreadsOK, NEW a \in Apps, NEW s \in {NoConn, socket[a]}, socket' = [socket EXCEPT ![a] = s]
  PROVE  /\ socket' \in [Apps -> Conns \cup {NoConn, Unconnected}]
         /\ \A b \in Apps \ {a} : socket'[b] = socket[b]
  BY DEF ThreadsOK

LEMMA PushedIs ==
  ASSUME NEW x, NEW S, tasks \in Seq(S), x \in S
  PROVE  /\ Pushed(x) \in Seq(S) /\ Len(Pushed(x)) = Len(tasks) + 1 /\ Pushed(x)[1] = x
         /\ \A i \in 1 .. Len(tasks) : Pushed(x)[i + 1] = tasks[i]
  BY DEF Pushed

LEMMA AnswerIs ==
  ASSUME ConnsOK, NEW d, NEW x \in Piece
  PROVE  /\ Answer(d, x) \in [Conns -> Seq(Piece)]
         /\ \A c \in Conns : ~(open[c] /\ fd[c] = d) => Answer(d, x)[c] = out[c]
         /\ \A c \in Conns : open[c] /\ fd[c] = d => Answer(d, x)[c] = Append(out[c], x)
  BY DEF Answer, ConnsOK

TypeInv == ThreadsOK /\ ConnsOK /\ StubOK /\ HistoryOK /\ Places

LEMMA TypeProxy ==
  ASSUME TypeInv, NEW t \in Threads,
         Call(t) \/ Interrupted(t) \/ ThreadStep(t)
  PROVE  TypeInv'
<1> USE DEF TypeInv
<1>1. AppOf[t] \in Apps
  BY Assumed
<1>2. CASE Call(t)
  <2>1. pc[t] = "idle" /\ made[t] < MaxCalls[t] /\ MaxCalls[t] \in Nat
    BY <1>2, Assumed DEF Call
  <2>2. /\ \A u \in Threads : pc'[u] = IF u = t THEN "wants" ELSE pc[u]
        /\ \A u \in Threads : made'[u] = IF u = t THEN made[t] + 1 ELSE made[u]
    BY <1>2 DEF Call, ThreadsOK
  <2>3. made' \in [Threads -> Nat] /\ \A u \in Threads : made'[u] <= MaxCalls[u]
    <3>1. made[t] + 1 \in Nat /\ made[t] + 1 <= MaxCalls[t]
      <4>1. made[t] \in Nat
        BY DEF ThreadsOK
      <4> QED  BY <2>1, <4>1
    <3>2. made' = [made EXCEPT ![t] = made[t] + 1]
      BY <1>2 DEF Call
    <3> QED  BY <2>2, <3>1, <3>2 DEF ThreadsOK
  <2>4. ThreadsOK'
    BY <1>2, <2>2, <2>3 DEF Call, ThreadsOK, Waits
  <2>5. Places'
    <3>1. made[t] \in Nat /\ UNCHANGED <<socket, long>>
      BY <1>2 DEF Call, ThreadsOK
    <3>2. made'[t] >= 1
      BY <2>2, <3>1
    <3> QED  BY <2>1, <2>2, <3>1, <3>2 DEF Places, Here
  <2> QED  BY <1>2, <2>4, <2>5 DEF Call, ConnsOK, StubOK, HistoryOK
<1>3. CASE Acquire(t)
  <2>1. ThreadsOK'
    <3>1. \A u \in Threads : Waits(u) => AppOf[u] # AppOf[t]
      BY <1>3, Assumed DEF Acquire, ThreadsOK
    <3> QED  BY <1>1, <1>3, <3>1, Assumed DEF Acquire, ThreadsOK, Waits
  <2>2. Places'
    BY <1>3 DEF Acquire, ThreadsOK, Places, Here
  <2> QED  BY <1>3, <2>1, <2>2 DEF Acquire, ConnsOK, StubOK, HistoryOK
<1>4. CASE Write(t)
  <2>1. PICK part \in {1, 2} :
            /\ in' = [in EXCEPT ![Here(t)] = Append(@, [call |-> Current(t), part |-> part])]
            /\ pc' = [pc EXCEPT ![t] = IF part = 1 /\ t \in long THEN "continues" ELSE "waits"]
    BY <1>4 DEF Write, Part
  <2>2. Waits(t) /\ Here(t) \in Conns
    BY <1>4 DEF Write, Waits
  <2>3. ThreadsOK' /\ Places'
    BY <1>4, <2>1, <2>2, GoesOnOK DEF Write, ThreadsOK, HistoryOK, Here
  <2>4. [call |-> Current(t), part |-> part] \in Piece
    BY <2>2, CurrentIsCall DEF Piece, Waits
  <2>5. in' \in [Conns -> Seq(Piece)]
    <3>1. Append(in[Here(t)], [call |-> Current(t), part |-> part]) \in Seq(Piece)
      BY <2>2, <2>4 DEF ConnsOK
    <3> QED  BY <2>1, <3>1 DEF ConnsOK
  <2>6. ConnsOK'
    BY <1>4, <2>5 DEF Write, ConnsOK
  <2> QED  BY <1>4, <2>3, <2>6 DEF Write, StubOK, HistoryOK
<1>5. CASE WriteFails(t) \/ ReceiveFails(t)
  <2>1. /\ Waits(t) /\ Close(Here(t)) /\ GiveUp(t) /\ UNCHANGED <<made, tried, daemon, history>>
        /\ \E s \in {NoConn, socket[AppOf[t]]} : socket' = [socket EXCEPT ![AppOf[t]] = s]
    BY <1>5 DEF WriteFails, ReceiveFails, Waits
  <2>2. ThreadsOK' /\ Places'
    BY <1>1, <2>1, DropSocket, GiveUpOK
  <2> QED  BY <2>1, <2>2, CloseOK DEF StubOK, HistoryOK
<1>6. CASE Receive(t)
  <2>1. Here(t) \in Conns /\ Waits(t) /\ out[Here(t)] # <<>>
    BY <1>6 DEF Receive, Places, Waits, Answered
  <2>2. Head(out[Here(t)]) \in Piece /\ Head(out[Here(t)]).call \in Calls
    <3>1. Head(out[Here(t)]) \in Piece
      BY <2>1 DEF ConnsOK
    <3> QED  BY <3>1 DEF Piece
  <2>3. ThreadsOK' /\ Places'
    <3>1. UNCHANGED <<made, tried, socket, long>>
          /\ (Returns(t, Head(out[Here(t)]).call) \/ GiveUp(t))
      BY <1>6 DEF Receive
    <3> QED  BY <2>1, <2>2, <3>1, ReturnsOK, GiveUpOK DEF ThreadsOK
  <2>4. Current(t) \in Calls
    BY <2>1, CurrentIsCall DEF Waits
  <2>5. HistoryOK'
    <3>1. stray' \subseteq stray \cup {"answer", "socket"} /\ abandoned' \subseteq abandoned \cup {Current(t)}
          /\ UNCHANGED <<executed, cut, long, large, left>>
      BY <1>6 DEF Receive
    <3> QED  BY <2>4, <3>1 DEF HistoryOK
  <2>6. ConnsOK'
    BY <1>6, <2>1 DEF Receive, ConnsOK
  <2> QED  BY <1>6, <2>3, <2>5, <2>6 DEF Receive, StubOK
<1>7. CASE Interrupted(t)
  <2>1. Waits(t) /\ Current(t) \in Calls /\ left' \in Nat
    BY <1>7, CurrentIsCall DEF Interrupted, Waits, HistoryOK
  <2>2. ThreadsOK' /\ Places'
    BY <1>7, <2>1, GiveUpOK DEF Interrupted, ThreadsOK
  <2> QED  BY <1>7, <2>1, <2>2 DEF Interrupted, ConnsOK, StubOK, HistoryOK
<1>8. CASE Disconnect(t)
  <2>1. /\ Waits(t) /\ Close(Here(t)) /\ socket' = [socket EXCEPT ![AppOf[t]] = NoConn]
        /\ pc' = [pc EXCEPT ![t] = "reconnects"] /\ UNCHANGED <<made, tried, got, mutex, daemon, history>>
    BY <1>8 DEF Disconnect, Waits
  <2>2. ThreadsOK' /\ Places'
    BY <1>1, <2>1, DropSocket, GoesOnOK DEF ThreadsOK
  <2> QED  BY <2>1, <2>2, CloseOK DEF StubOK, HistoryOK
<1>9. CASE Reconnect(t)
  <2>1. Waits(t) /\ Connect(AppOf[t]) /\ UNCHANGED <<made, daemon, history>>
    BY <1>9 DEF Reconnect, Waits
  <2>2. /\ ConnsOK' /\ socket' \in [Apps -> Conns \cup {NoConn, Unconnected}]
        /\ \A b \in Apps \ {AppOf[t]} : socket'[b] = socket[b]
    BY <1>1, <2>1, ConnectOK DEF ThreadsOK
  <2>3. CASE up
    <3>1. /\ pc' = [pc EXCEPT ![t] = "sends"] /\ UNCHANGED <<got, mutex>>
          /\ tried' \in [Threads -> BOOLEAN]
      BY <1>9, <2>3 DEF Reconnect, ThreadsOK
    <3>2. ThreadsOK' /\ Places'
      BY <2>1, <2>2, <3>1, GoesOnOK
    <3> QED  BY <2>1, <2>2, <3>2 DEF StubOK, HistoryOK
  <2>4. CASE ~up
    <3>1. ThreadsOK' /\ Places'
      BY <1>9, <2>1, <2>2, <2>4, ReturnsOK DEF Reconnect
    <3> QED  BY <2>1, <2>2, <3>1 DEF StubOK, HistoryOK
  <2> QED  BY <2>3, <2>4
<1> QED  BY <1>2, <1>3, <1>4, <1>5, <1>6, <1>7, <1>8, <1>9 DEF ThreadStep

LEMMA TypeApps ==
  ASSUME TypeInv, NEW a \in Apps, Begin(a) \/ Quit(a)
  PROVE  TypeInv'
<1> USE DEF TypeInv
<1>1. CASE Begin(a)
  <2>1. Connect(a) /\ socket[a] = NoConn /\ UNCHANGED <<pc, made, tried, got, mutex, daemon, history>>
    BY <1>1 DEF Begin
  <2>2. /\ ConnsOK' /\ socket' \in [Apps -> Conns \cup {NoConn, Unconnected}]
        /\ \A b \in Apps \ {a} : socket'[b] = socket[b]
    BY <2>1, ConnectOK DEF ThreadsOK
  <2>3. ThreadsOK'
    BY <2>1, <2>2 DEF ThreadsOK, Waits
  <2>4. \A t \in Threads : pc[t] \in {"continues", "waits"} => socket'[AppOf[t]] = socket[AppOf[t]]
    BY <2>1, <2>2, Assumed DEF Places, Here
  <2>5. Places'
    BY <2>1, <2>4 DEF Places, Here
  <2> QED  BY <2>1, <2>2, <2>3, <2>5 DEF StubOK, HistoryOK
<1>2. CASE Quit(a)
  <2>1. /\ pc' = [t \in Threads |-> IF AppOf[t] = a THEN "idle" ELSE pc[t]]
        /\ got' = [t \in Threads |-> IF AppOf[t] = a THEN NoCall ELSE got[t]]
        /\ mutex' = [mutex EXCEPT ![a] = NoThread] /\ socket' = [socket EXCEPT ![a] = NoConn]
        /\ Close(socket[a]) /\ UNCHANGED <<made, tried, daemon, executed, stray, cut, long, large>>
    BY <1>2 DEF Quit
  <2>2. ThreadsOK'
    BY <2>1, Assumed DEF ThreadsOK, Waits
  <2>3. Places'
    BY <2>1, Assumed DEF Places, ThreadsOK, Here
  <2>4. \A t \in Threads : pc[t] # "idle" => Current(t) \in Calls
    BY CurrentIsCall
  <2>5. HistoryOK'
    BY <1>2, <2>1, <2>4 DEF Quit, HistoryOK
  <2> QED  BY <2>1, <2>2, <2>3, <2>5, CloseOK DEF StubOK
<1> QED  BY <1>1, <1>2

\* What a request that is read becomes
LEMMA ReadIs ==
  ASSUME ConnsOK, StubOK, NEW c \in Conns, ReadRequest(c)
  PROVE  LET x == [call |-> Head(in[c]).call, is |-> Taken(in[c]), fd |-> fd[c]]
         IN  /\ in[c] \in Seq(Piece) /\ in[c] # <<>> /\ 1 \in DOMAIN in[c] /\ Head(in[c]) = in[c][1]
             /\ in[c][1] \in Piece /\ in[c][1].call \in Calls
             /\ x \in Task /\ tasks' = Pushed(x)
             /\ fd[c] \in Fds
<1>1. in[c] \in Seq(Piece) /\ in[c] # <<>> /\ fd[c] \in Fds
  BY DEF ConnsOK, ReadRequest
<1>2. 1 \in DOMAIN in[c] /\ Head(in[c]) = in[c][1] /\ in[c][1] \in Piece
  BY <1>1
<1>3. in[c][1].call \in Calls
  BY <1>2 DEF Piece
<1>4. Taken(in[c]) \in {"whole", "cut", "rest"}
  BY DEF Taken
<1> QED  BY <1>1, <1>2, <1>3, <1>4 DEF ReadRequest, Task

LEMMA TypeStub ==
  ASSUME TypeInv, NEW c \in Conns, Serve(c)
  PROVE  TypeInv'
<1> USE DEF TypeInv
<1>1. CASE Accept(c)
  <2>1. PICK d \in FreeFds : fd' = [fd EXCEPT ![c] = d]
    BY <1>1 DEF Accept
  <2>2. d \in Fds /\ \A e \in Conns : fd[e] # d
    BY <2>1 DEF FreeFds
  <2>3. ConnsOK'
    BY <1>1, <2>1, <2>2 DEF Accept, ConnsOK
  <2> QED  BY <1>1, <2>3 DEF Accept, ThreadsOK, StubOK, HistoryOK, Places, Waits, Here
<1>2. CASE ReadRequest(c)
  <2>1. tasks' \in Seq(Task)
    <3>1. PICK x \in Task : tasks' = Pushed(x)
      BY <1>2, ReadIs
    <3> QED  BY <3>1, PushedIs DEF StubOK
  <2>2. ConnsOK'
    BY <1>2 DEF ReadRequest, ConnsOK
  <2>3. cut' \subseteq Calls
    <3>1. Head(in[c]).call \in Calls
      BY <1>2, ReadIs
    <3> QED  BY <1>2, <3>1 DEF ReadRequest, HistoryOK
  <2> QED  BY <1>2, <2>1, <2>2, <2>3 DEF ReadRequest, ThreadsOK, StubOK, HistoryOK, Places, Waits, Here
<1>3. CASE CloseDescriptor(c)
  <2>1. ConnsOK'
    BY <1>3 DEF CloseDescriptor, ConnsOK
  <2>2. stray' \subseteq {"descriptor", "socket", "answer"}
    BY <1>3 DEF CloseDescriptor, HistoryOK
  <2> QED  BY <1>3, <2>1, <2>2 DEF CloseDescriptor, ThreadsOK, StubOK, HistoryOK, Places, Waits, Here
<1> QED  BY <1>1, <1>2, <1>3 DEF Serve

LEMMA TypeDaemon ==
  ASSUME TypeInv, TakeTask \/ RunTask \/ FinishAnswer \/ Stop \/ Start
  PROVE  TypeInv'
<1> USE DEF TypeInv
<1>1. ThreadsOK' /\ Places'
  BY DEF TakeTask, RunTask, FinishAnswer, Stop, Start, ThreadsOK, Places, Waits, Here
<1>2. CASE TakeTask
  BY <1>1, <1>2 DEF TakeTask, ConnsOK, StubOK, HistoryOK
<1>3. CASE RunTask
  <2>1. running \in Task /\ running.call \in Calls /\ running.fd \in Fds
    BY <1>3 DEF RunTask, StubOK, Task
  <2>2. out' \in [Conns -> Seq(Piece)]
    <3>1. [call |-> running.call, part |-> 1] \in Piece
      BY <2>1 DEF Piece
    <3> QED  BY <1>3, <3>1, AnswerIs DEF RunTask, ConnsOK
  <2>4. answering' \in Rest \cup {NoTask}
    <3>1. [call |-> running.call, fd |-> running.fd] \in Rest
      BY <2>1 DEF Rest
    <3> QED  BY <1>3, <3>1 DEF RunTask, StubOK
  <2>3. executed' \in [Calls -> Nat]
    <3>1. executed[running.call] \in Nat
      BY <2>1 DEF HistoryOK
    <3>2. executed' \in {executed, [executed EXCEPT ![running.call] = executed[running.call] + 1]}
      BY <1>3 DEF RunTask
    <3> QED  BY <3>1, <3>2 DEF HistoryOK
  <2> QED  BY <1>1, <1>3, <2>2, <2>3, <2>4 DEF RunTask, ConnsOK, StubOK, HistoryOK
<1>4. CASE Stop
  <2>1. ConnsOK'
    BY <1>4 DEF Stop, ConnsOK
  <2>2. left' \in Nat
    BY <1>4 DEF Stop, HistoryOK
  <2>3. StubOK'
    <3>1. up' = FALSE /\ tasks' = <<>> /\ running' = NoTask /\ answering' = NoTask
      BY <1>4 DEF Stop
    <3>2. tasks' \in Seq(Task)
      BY <3>1
    <3> QED  BY <3>1, <3>2 DEF StubOK
  <2> QED  BY <1>1, <1>4, <2>1, <2>2, <2>3 DEF Stop, HistoryOK
<1>5. CASE Start
  BY <1>1, <1>5 DEF Start, ConnsOK, StubOK, HistoryOK
<1>6. CASE FinishAnswer
  <2>1. answering \in Rest /\ [call |-> answering.call, part |-> 2] \in Piece
    BY <1>6 DEF FinishAnswer, StubOK, Rest, Piece
  <2>2. out' \in [Conns -> Seq(Piece)]
    BY <1>6, <2>1, AnswerIs DEF FinishAnswer
  <2> QED  BY <1>1, <1>6, <2>2 DEF FinishAnswer, ConnsOK, StubOK, HistoryOK
<1> QED  BY <1>2, <1>3, <1>4, <1>5, <1>6

LEMMA TypeInit == ASSUME Init PROVE TypeInv
<1>1. ThreadsOK /\ Places
  BY Assumed DEF Init, ThreadsOK, Places, Waits
<1>2. ConnsOK /\ StubOK
  BY DEF Init, ConnsOK, StubOK
<1>3. HistoryOK
  BY IpcAssumption DEF IpcAssumption, Init, HistoryOK
<1> QED  BY <1>1, <1>2, <1>3 DEF TypeInv

LEMMA TypeStep == ASSUME TypeInv, [Next]_vars PROVE TypeInv'
<1>1. CASE UNCHANGED vars
  BY <1>1 DEF vars, TypeInv, ThreadsOK, ConnsOK, StubOK, HistoryOK, Places, Waits, Here
<1> QED  BY <1>1, TypeProxy, TypeApps, TypeStub, TypeDaemon DEF Next

\* Type correctness: whoever is in an exchange holds the mutex of its process,
\* and no descriptor belongs to two connections (TypeOK).
THEOREM TypeCorrect == Spec => []TypeOK
<1>1. TypeInv => TypeOK
  BY TypeParts DEF TypeInv
<1> QED  BY TypeInit, TypeStep, <1>1, PTL DEF Spec

-----------------------------------------------------------------------------
(* What is under way on a connection.                                      *)

\* A request or an answer that belongs to connection c: a first piece that was
\* not read, a task or the run of a task with c's descriptor, the first piece of
\* an answer; and the rest of an answer that is there ("over") or to be sent.
Stages == {"in", "task", "run", "out", "over", "rest"}
Firsts == {"in", "task", "run", "out"}
Item(c, p, i, k) ==
    \/ p = "in" /\ i \in 1 .. Len(in[c]) /\ in[c][i].part = 1 /\ in[c][i].call = k
    \/ p = "task" /\ i \in 1 .. Len(tasks) /\ tasks[i].fd = fd[c]
       /\ tasks[i].is # "rest" /\ tasks[i].call = k
    \/ p = "run" /\ i = 0 /\ running # NoTask /\ running.fd = fd[c]
       /\ running.is # "rest" /\ running.call = k
    \/ p = "out" /\ i \in 1 .. Len(out[c]) /\ out[c][i].part = 1 /\ out[c][i].call = k
    \/ p = "over" /\ i \in 1 .. Len(out[c]) /\ out[c][i].part # 1 /\ out[c][i].call = k
    \/ p = "rest" /\ i = 0 /\ Expected(c) /\ answering.call = k

\* There is at most one, but for the rest of an answer.
Single(c) ==
    \A p, q \in Firsts, i, j \in Nat, k, l \in Calls :
        Item(c, p, i, k) /\ Item(c, q, j, l) => p = q /\ i = j

\* A step adds nothing to c: what is there was there, perhaps a stage earlier.
Kept(c) ==
    /\ \A p \in Stages, i \in Nat, k \in Calls :
          Item(c, p, i, k)' => \E q \in Stages, j \in Nat : Item(c, q, j, k)
    /\ Single(c) => Single(c)'

\* A descriptor that a task holds is that of a connection, as long as none was
\* closed that a task held.
Held ==
    "descriptor" \notin stray =>
        /\ \A i \in 1 .. Len(tasks) : \E c \in Conns : fd[c] = tasks[i].fd
        /\ running # NoTask => \E c \in Conns : fd[c] = running.fd
        /\ answering # NoTask => \E c \in Conns : fd[c] = answering.fd

\* Nothing of what Item tells apart changes, except that answers are dropped.
LEMMA KeptAlone ==
  ASSUME NEW c \in Conns, UNCHANGED <<tasks, running, answering>>, in'[c] = in[c], fd'[c] = fd[c],
         out'[c] = out[c] \/ out'[c] = <<>>
  PROVE  Kept(c)
<1>1. \A p \in Stages, i \in Nat, k \in Calls : Item(c, p, i, k)' => Item(c, p, i, k)
  BY DEF Item, Expected
<1>2. Single(c) => Single(c)'
  BY <1>1 DEF Single, Stages, Firsts
<1> QED  BY <1>1, <1>2 DEF Kept

LEMMA KeptByRead ==
  ASSUME TypeInv, NEW c \in Conns, NEW d \in Conns, ReadRequest(d)
  PROVE  Kept(c)
<1> USE DEF TypeInv
<1> DEFINE x == [call |-> Head(in[d]).call, is |-> Taken(in[d]), fd |-> fd[d]]
           P(p, i) == IF p = "task" /\ i = 1 THEN "in" ELSE p
           I(p, i) == IF p = "task" /\ i > 1 THEN i - 1 ELSE i
<1>1. /\ 1 \in 1 .. Len(in[d]) /\ in[d][1].call = x.call /\ in[d][1] \in Piece
      /\ in[d][1] = Head(in[d]) /\ fd[d] \in Fds
      /\ tasks' = Pushed(x) /\ tasks \in Seq(Task) /\ x \in Task
  BY ReadIs DEF StubOK
<1>2. x.is # "rest" => in[d][1].part = 1
  BY <1>1 DEF Taken, Piece
<1>3. x.fd = fd[d] /\ (c # d => fd[c] # fd[d])
  BY <1>1, FdsArePositive DEF ConnsOK
<1> HIDE DEF x
<1>4. /\ Len(tasks') = Len(tasks) + 1 /\ tasks'[1] = x
      /\ \A i \in 1 .. Len(tasks) : tasks'[i + 1] = tasks[i]
  BY <1>1, PushedIs
<1>5. UNCHANGED <<fd, running, answering, out>> /\ in' = [in EXCEPT ![d] = <<>>]
  BY DEF ReadRequest
<1>6. ASSUME NEW p \in Stages, NEW i \in Nat, NEW k \in Calls, Item(c, p, i, k)'
      PROVE  P(p, i) \in Stages /\ I(p, i) \in Nat /\ Item(c, P(p, i), I(p, i), k)
             /\ (p = "in" => c # d) /\ (p \in Firsts => P(p, i) \in Firsts)
  <2>1. CASE p = "in"
    BY <1>5, <1>6, <2>1 DEF Item, Stages, Firsts, ConnsOK
  <2>2. CASE p = "task" /\ i = 1
    BY <1>1, <1>2, <1>3, <1>4, <1>5, <1>6, <2>2 DEF Item, Stages, Firsts
  <2>3. CASE p = "task" /\ i # 1
    <3>1. i - 1 \in 1 .. Len(tasks) /\ tasks'[i] = tasks[i - 1] /\ Len(tasks) \in Nat
      BY <1>1, <1>4, <1>6, <2>3 DEF Item
    <3> QED  BY <1>5, <1>6, <2>3, <3>1 DEF Item, Stages, Firsts
  <2>4. CASE p \in {"run", "out", "over", "rest"}
    BY <1>5, <1>6, <2>4 DEF Item, Expected, Stages, Firsts
  <2> QED  BY <2>1, <2>2, <2>3, <2>4 DEF Stages
<1>7. ASSUME Single(c), NEW p \in Firsts, NEW q \in Firsts, NEW i \in Nat, NEW j \in Nat,
             NEW k \in Calls, NEW l \in Calls, Item(c, p, i, k)', Item(c, q, j, l)'
      PROVE  p = q /\ i = j
  <2>1. P(p, i) = P(q, j) /\ I(p, i) = I(q, j)
    BY <1>6, <1>7 DEF Single, Stages, Firsts
  <2>2. c = d => p # "in" /\ q # "in"
    BY <1>6, <1>7 DEF Stages, Firsts
  <2>3. c # d => ~(p = "task" /\ i = 1) /\ ~(q = "task" /\ j = 1)
    BY <1>3, <1>4, <1>5, <1>7 DEF Item
  <2>4. p = "task" => i >= 1
    BY <1>7 DEF Item
  <2>5. q = "task" => j >= 1
    BY <1>7 DEF Item
  <2> QED  BY <2>1, <2>2, <2>3, <2>4, <2>5
<1> QED  BY <1>6, <1>7 DEF Kept, Single

LEMMA KeptByTake ==
  ASSUME TypeInv, NEW c \in Conns, TakeTask
  PROVE  Kept(c)
<1> USE DEF TypeInv
<1> DEFINE P(p) == IF p = "run" THEN "task" ELSE p
           I(p, i) == IF p \in {"run", "task"} THEN i + 1 ELSE i
<1>1. /\ tasks \in Seq(Task) /\ Len(tasks) >= 1 /\ running = NoTask
      /\ running' = tasks[1] /\ tasks' = Tail(tasks) /\ UNCHANGED <<fd, in, out, answering>>
  BY DEF TakeTask, StubOK
<1>2. /\ Len(tasks) \in Nat /\ Len(tasks') = Len(tasks) - 1
      /\ \A i \in 1 .. Len(tasks') : tasks'[i] = tasks[i + 1]
  BY <1>1
<1>3. ASSUME NEW p \in Stages, NEW i \in Nat, NEW k \in Calls, Item(c, p, i, k)'
      PROVE  P(p) \in Stages /\ I(p, i) \in Nat /\ Item(c, P(p), I(p, i), k)
             /\ (p = "run" => i = 0) /\ (p = "task" => i >= 1) /\ (p \in Firsts => P(p) \in Firsts)
  <2>1. CASE p \in {"in", "out", "over", "rest"}
    BY <1>1, <1>3, <2>1 DEF Item, Expected, Stages, Firsts
  <2>2. CASE p = "task"
    <3>1. i + 1 \in 1 .. Len(tasks) /\ tasks'[i] = tasks[i + 1] /\ i >= 1
      BY <1>2, <1>3, <2>2 DEF Item
    <3> QED  BY <1>1, <1>3, <2>2, <3>1 DEF Item, Stages, Firsts
  <2>3. CASE p = "run"
    BY <1>1, <1>2, <1>3, <2>3 DEF Item, Stages, Firsts
  <2> QED  BY <2>1, <2>2, <2>3 DEF Stages
<1>4. ASSUME Single(c), NEW p \in Firsts, NEW q \in Firsts, NEW i \in Nat, NEW j \in Nat,
             NEW k \in Calls, NEW l \in Calls, Item(c, p, i, k)', Item(c, q, j, l)'
      PROVE  p = q /\ i = j
  <2>1. P(p) = P(q) /\ I(p, i) = I(q, j)
    BY <1>3, <1>4 DEF Single, Stages, Firsts
  <2>2. (p = "run" => i = 0) /\ (q = "run" => j = 0) /\ (p = "task" => i >= 1) /\ (q = "task" => j >= 1)
    BY <1>3, <1>4 DEF Stages, Firsts
  <2> QED  BY <2>1, <2>2
<1> QED  BY <1>3, <1>4 DEF Kept, Single

LEMMA KeptByRun ==
  ASSUME TypeInv, NEW c \in Conns, RunTask
  PROVE  Kept(c)
<1> USE DEF TypeInv
<1> DEFINE x == [call |-> running.call, part |-> 1]
           New(p, i) == (p = "out" /\ i = Len(out[c]) + 1) \/ (p = "rest" /\ running.is # "rest")
           P(p, i) == IF New(p, i) THEN "run" ELSE p
           I(p, i) == IF New(p, i) THEN 0 ELSE i
<1>1. /\ running \in Task /\ running # NoTask /\ running' = NoTask /\ UNCHANGED <<fd, in, tasks>>
      /\ running.is = "rest" => UNCHANGED <<out, answering>>
      /\ running.is # "rest" =>
           /\ out' = Answer(running.fd, x)
           /\ answering' # NoTask => answering' = [call |-> running.call, fd |-> running.fd]
  BY DEF RunTask, StubOK
<1>2. running.call \in Calls /\ out[c] \in Seq(Piece) /\ Len(out[c]) \in Nat /\ x \in Piece
      /\ x.call = running.call /\ x.part = 1
  <2>1. running.call \in Calls
    BY <1>1 DEF Task
  <2>2. x \in Piece
    BY <2>1 DEF Piece
  <2>3. out[c] \in Seq(Piece)
    BY DEF ConnsOK
  <2>4. x.call = running.call /\ x.part = 1
    OBVIOUS
  <2> QED  BY <2>1, <2>2, <2>3, <2>4
<1> HIDE DEF x
<1>3. \/ out'[c] = out[c]
      \/ /\ running.is # "rest" /\ fd[c] = running.fd
         /\ out'[c] = Append(out[c], x)
  BY <1>1, <1>2, AnswerIs
<1>4. ASSUME NEW p \in Stages, NEW i \in Nat, NEW k \in Calls, Item(c, p, i, k)'
      PROVE  P(p, i) \in Stages /\ I(p, i) \in Nat /\ Item(c, P(p, i), I(p, i), k) /\ p # "run"
             /\ (p \in Firsts => P(p, i) \in Firsts)
  <2>1. CASE p = "in" \/ p = "task"
    BY <1>1, <1>4, <2>1 DEF Item, Stages, Firsts
  <2>2. CASE p \in {"out", "over"} /\ out'[c] = out[c]
    BY <1>2, <1>4, <2>2 DEF Item, Stages, Firsts
  <2>3. CASE p \in {"out", "over"} /\ out'[c] # out[c]
    <3>1. /\ running.is # "rest" /\ fd[c] = running.fd /\ i \in 1 .. Len(out[c]) + 1
          /\ out'[c][i] = IF i = Len(out[c]) + 1 THEN x ELSE out[c][i]
      BY <1>2, <1>3, <1>4, <2>3 DEF Item
    <3>2. out'[c][i].call = k /\ (p = "out" <=> out'[c][i].part = 1)
      BY <1>4, <2>3 DEF Item
    <3> QED  BY <1>1, <1>2, <2>3, <3>1, <3>2 DEF Item, Stages, Firsts
  <2>4. CASE p = "run"
    BY <1>1, <1>4, <2>4 DEF Item
  <2>5. CASE p = "rest"
    BY <1>1, <1>4, <2>5 DEF Item, Expected, Stages, Firsts
  <2> QED  BY <2>1, <2>2, <2>3, <2>4, <2>5 DEF Stages
<1>5. ASSUME Single(c), NEW p \in Firsts, NEW q \in Firsts, NEW i \in Nat, NEW j \in Nat,
             NEW k \in Calls, NEW l \in Calls, Item(c, p, i, k)', Item(c, q, j, l)'
      PROVE  p = q /\ i = j
  <2>1. P(p, i) = P(q, j) /\ I(p, i) = I(q, j)
    BY <1>4, <1>5 DEF Single, Stages, Firsts
  <2>2. p \notin {"run", "rest"} /\ q \notin {"run", "rest"}
    BY <1>4, <1>5 DEF Stages, Firsts
  <2> QED  BY <2>1, <2>2
<1> QED  BY <1>4, <1>5 DEF Kept, Single

LEMMA KeptByFinish ==
  ASSUME TypeInv, NEW c \in Conns, FinishAnswer
  PROVE  Kept(c)
<1> USE DEF TypeInv
<1> DEFINE x == [call |-> answering.call, part |-> 2]
<1>1. /\ answering \in Rest /\ answering # NoTask /\ answering' = NoTask
      /\ UNCHANGED <<fd, in, tasks, running>> /\ out' = Answer(answering.fd, x)
  BY DEF FinishAnswer, StubOK
<1>2. /\ out[c] \in Seq(Piece) /\ Len(out[c]) \in Nat /\ x \in Piece
      /\ x.call = answering.call /\ x.part = 2
  <2>1. answering.call \in Calls
    BY <1>1 DEF Rest
  <2>2. x \in Piece
    BY <2>1 DEF Piece
  <2>3. out[c] \in Seq(Piece)
    BY DEF ConnsOK
  <2>4. x.call = answering.call /\ x.part = 2
    OBVIOUS
  <2> QED  BY <2>2, <2>3, <2>4
<1> HIDE DEF x
<1>3. out'[c] = out[c] \/ (answering.fd = fd[c] /\ out'[c] = Append(out[c], x))
  BY <1>1, <1>2, AnswerIs
<1>4. ASSUME NEW p \in Stages, NEW i \in Nat, NEW k \in Calls, Item(c, p, i, k)'
      PROVE  Item(c, p, i, k) \/ (p = "over" /\ Item(c, "rest", 0, k))
  <2>1. CASE p \in {"in", "task", "run"}
    BY <1>1, <1>4, <2>1 DEF Item
  <2>2. CASE p \in {"out", "over"} /\ out'[c] = out[c]
    BY <1>2, <1>4, <2>2 DEF Item
  <2>3. CASE p \in {"out", "over"} /\ out'[c] # out[c]
    <3>1. /\ answering.fd = fd[c] /\ i \in 1 .. Len(out[c]) + 1
          /\ out'[c][i] = IF i = Len(out[c]) + 1 THEN x ELSE out[c][i]
      BY <1>2, <1>3, <1>4, <2>3 DEF Item
    <3>2. out'[c][i].call = k /\ (p = "out" <=> out'[c][i].part = 1)
      BY <1>4, <2>3 DEF Item
    <3> QED  BY <1>1, <1>2, <2>3, <3>1, <3>2 DEF Item, Expected
  <2>4. CASE p = "rest"
    BY <1>1, <1>4, <2>4 DEF Item, Expected
  <2> QED  BY <2>1, <2>2, <2>3, <2>4 DEF Stages
<1>5. \A p \in Firsts, i \in Nat, k \in Calls : Item(c, p, i, k)' => Item(c, p, i, k)
  BY <1>4 DEF Stages, Firsts
<1>6. Single(c) => Single(c)'
  BY <1>5 DEF Single
<1>7. ASSUME NEW p \in Stages, NEW i \in Nat, NEW k \in Calls, Item(c, p, i, k)'
      PROVE  \E q \in Stages, j \in Nat : Item(c, q, j, k)
  BY <1>4, <1>7 DEF Stages
<1> QED  BY <1>6, <1>7 DEF Kept

LEMMA TasksHaveFds ==
  ASSUME TypeInv
  PROVE  /\ \A i \in 1 .. Len(tasks) : tasks[i] \in Task /\ tasks[i].fd # NoFd
         /\ running # NoTask => running \in Task /\ running.fd # NoFd
         /\ answering # NoTask => answering \in Rest /\ answering.fd # NoFd
<1>1. \A x \in Task : x.fd # NoFd
  BY FdsArePositive DEF Task
<1>2. \A i \in 1 .. Len(tasks) : tasks[i] \in Task
  BY DEF TypeInv, StubOK
<1>3. running # NoTask => running \in Task
  BY DEF TypeInv, StubOK
<1>4. answering # NoTask => answering \in Rest /\ answering.fd # NoFd
  BY FdsArePositive DEF TypeInv, StubOK, Rest
<1> QED  BY <1>1, <1>2, <1>3, <1>4

\* Steps after which a connection has no descriptor, or one that nobody holds
LEMMA KeptByDescriptor ==
  ASSUME TypeInv, NEW c \in Conns, UNCHANGED <<in, out>> \/ (in' = [e \in Conns |-> <<>>] /\ UNCHANGED out),
         \/ UNCHANGED <<tasks, running, answering>>
            /\ (\A i \in 1 .. Len(tasks) : tasks[i].fd # fd'[c])
            /\ (running # NoTask => running.fd # fd'[c])
            /\ (answering # NoTask => answering.fd # fd'[c])
         \/ tasks' = <<>> /\ running' = NoTask /\ answering' = NoTask
         \/ UNCHANGED <<tasks, running, answering>> /\ fd'[c] = fd[c]
  PROVE  Kept(c)
<1>1. ASSUME NEW p \in Stages, NEW i \in Nat, NEW k \in Calls, Item(c, p, i, k)'
      PROVE  Item(c, p, i, k)
  <2>1. CASE p \in {"in", "out", "over"}
    BY <1>1, <2>1 DEF Item, TypeInv, ConnsOK
  <2>2. CASE p \in {"task", "run", "rest"}
    BY <1>1, <2>2 DEF Item, Expected
  <2> QED  BY <2>1, <2>2 DEF Stages
<1>2. \A p \in Stages, i \in Nat, k \in Calls : Item(c, p, i, k)' => \E q \in Stages, j \in Nat : Item(c, q, j, k)
  BY <1>1
<1>3. Single(c) => Single(c)'
  BY <1>1 DEF Single, Stages, Firsts
<1> QED  BY <1>2, <1>3 DEF Kept

-----------------------------------------------------------------------------
(* The kinds of steps.                                                     *)

\* Process a has no connection any more, and its connection no answers.
Dropped(a) ==
    /\ socket'[a] \notin Conns /\ \A b \in Apps \ {a} : socket'[b] = socket[b]
    /\ \A c \in Conns : /\ open'[c] = open[c] \/ c = socket[a]
                        /\ out'[c] = out[c] \/ (c = socket[a] /\ out'[c] = <<>>)
    /\ UNCHANGED <<queued, fd, in, tasks, running, answering, up>>

\* Process a has a new connection.
Opened(a, c) ==
    /\ socket' = [socket EXCEPT ![a] = c] /\ ~open[c] /\ PeerGone(c)
    /\ open' = [open EXCEPT ![c] = TRUE] /\ queued' = [queued EXCEPT ![c] = TRUE]
    /\ in' = [in EXCEPT ![c] = <<>>] /\ out' = [out EXCEPT ![c] = <<>>]
    /\ UNCHANGED <<fd, tasks, running, answering, up>>

LEMMA CloseIs ==
  ASSUME TypeInv, NEW a \in Apps, Close(socket[a])
  PROVE  /\ UNCHANGED <<queued, fd, in>>
         /\ \A c \in Conns : /\ open'[c] = open[c] \/ c = socket[a]
                             /\ out'[c] = out[c] \/ (c = socket[a] /\ out'[c] = <<>>)
  BY DEF TypeInv, ConnsOK, Close

LEMMA ConnectIs ==
  ASSUME TypeInv, NEW a \in Apps, Connect(a), UNCHANGED daemon
  PROVE  (up /\ \E c \in Conns : Opened(a, c)) \/ (~up /\ Dropped(a))
<1>1. CASE up
  BY <1>1 DEF Connect, Opened
<1>2. CASE ~up
  <2>1. socket' = [socket EXCEPT ![a] = Unconnected] /\ UNCHANGED conns
    BY <1>2 DEF Connect
  <2> QED  BY <1>2, <2>1, Assumed DEF Dropped, TypeInv, ThreadsOK
<1> QED  BY <1>1, <1>2

\* The steps of the proxy that change what is on a connection
LEMMA ProxySteps ==
  ASSUME TypeInv, NEW t \in Threads, Call(t) \/ Interrupted(t) \/ ThreadStep(t)
  PROVE  \/ (Call(t) \/ Acquire(t) \/ Interrupted(t)) /\ UNCHANGED <<socket, conns, daemon>>
         \/ Write(t) \/ Receive(t)
         \/ (WriteFails(t) \/ ReceiveFails(t) \/ Disconnect(t) \/ Reconnect(t)) /\ Dropped(AppOf[t])
         \/ Reconnect(t) /\ \E c \in Conns : Opened(AppOf[t], c)
<1>1. AppOf[t] \in Apps /\ NoConn \notin Conns /\ Unconnected \notin Conns
  BY Assumed
<1>2. CASE WriteFails(t) \/ ReceiveFails(t) \/ Disconnect(t)
  <2>1. /\ Close(Here(t)) /\ UNCHANGED daemon
        /\ socket' \in {[socket EXCEPT ![AppOf[t]] = NoConn], [socket EXCEPT ![AppOf[t]] = Unconnected]}
    BY <1>2 DEF WriteFails, ReceiveFails, Disconnect
  <2>2. Dropped(AppOf[t])
    BY <1>1, <2>1, CloseIs DEF Dropped, Here, TypeInv, ThreadsOK
  <2> QED  BY <1>2, <2>2
<1>3. CASE Reconnect(t)
  BY <1>1, <1>3, ConnectIs DEF Reconnect
<1>4. CASE Call(t) \/ Acquire(t) \/ Interrupted(t)
  BY <1>4 DEF Call, Acquire, Interrupted
<1> QED  BY <1>2, <1>3, <1>4 DEF ThreadStep

LEMMA AppSteps ==
  ASSUME TypeInv, NEW a \in Apps, Begin(a) \/ Quit(a)
  PROVE  \/ Begin(a) /\ \E c \in Conns : Opened(a, c)
         \/ Dropped(a)
<1>1. CASE Begin(a)
  BY <1>1, ConnectIs DEF Begin
<1>2. CASE Quit(a)
  BY <1>2, CloseIs, Assumed DEF Quit, Dropped, TypeInv, ThreadsOK
<1> QED  BY <1>1, <1>2

LEMMA StubSteps ==
  ASSUME (\E c \in Conns : Serve(c)) \/ TakeTask \/ RunTask \/ FinishAnswer \/ Stop \/ Start \/ UNCHANGED vars
  PROVE  UNCHANGED <<thread, open>>
  BY DEF Serve, Accept, ReadRequest, CloseDescriptor, TakeTask, RunTask, FinishAnswer, Stop, Start, vars

\* The connection of a process is open, and of no other process; one that waits
\* to be accepted has no descriptor.
Queued == \A c \in Conns : queued[c] => fd[c] = NoFd
Sockets ==
    /\ \A a \in Apps : socket[a] \in Conns => open[socket[a]]
    /\ \A a, b \in Apps : socket[a] = socket[b] /\ socket[a] \in Conns => a = b

LEMMA SocketsStep ==
  ASSUME TypeInv, Sockets, [Next]_vars
  PROVE  Sockets'
<1>1. CASE UNCHANGED <<socket, open>>
  BY <1>1 DEF Sockets
<1>2. ASSUME NEW a \in Apps, Dropped(a)
      PROVE  Sockets'
  <2>1. \A b \in Apps : socket'[b] \in Conns => b # a /\ socket'[b] = socket[b] /\ socket[b] # socket[a]
    BY <1>2 DEF Dropped, Sockets
  <2>2. \A b \in Apps : socket'[b] \in Conns => open'[socket'[b]]
    BY <1>2, <2>1 DEF Dropped, Sockets
  <2>3. \A b, d \in Apps : socket'[b] = socket'[d] /\ socket'[b] \in Conns => b = d
    BY <2>1 DEF Sockets
  <2> QED  BY <2>2, <2>3 DEF Sockets
<1>3. ASSUME NEW a \in Apps, NEW c \in Conns, Opened(a, c)
      PROVE  Sockets'
  <2>1. \A b \in Apps : socket'[b] = IF b = a THEN c ELSE socket[b]
    BY <1>3 DEF Opened, TypeInv, ThreadsOK
  <2>2. \A d \in Conns : open'[d] = (d = c \/ open[d])
    BY <1>3 DEF Opened, TypeInv, ConnsOK
  <2>3. \A b \in Apps : socket[b] # c
    BY <1>3 DEF Opened, Sockets
  <2> QED  BY <2>1, <2>2, <2>3 DEF Sockets
<1>4. ASSUME NEW t \in Threads, Call(t) \/ Interrupted(t) \/ ThreadStep(t)
      PROVE  Sockets'
  <2>1. CASE UNCHANGED <<socket, conns, daemon>> \/ Write(t) \/ Receive(t)
    BY <1>1, <2>1 DEF Write, Receive
  <2> QED  BY <1>2, <1>3, <1>4, <2>1, ProxySteps, Assumed
<1> QED  BY <1>1, <1>2, <1>3, <1>4, AppSteps, StubSteps DEF Next

LEMMA QueuedStep ==
  ASSUME TypeInv, Queued, [Next]_vars
  PROVE  Queued'
<1> USE DEF TypeInv
<1>1. CASE UNCHANGED <<queued, fd>>
  BY <1>1 DEF Queued
<1>2. ASSUME NEW a \in Apps, NEW c \in Conns, Opened(a, c)
      PROVE  Queued'
  BY <1>2 DEF Opened, PeerGone, Queued, ConnsOK
<1>3. ASSUME NEW t \in Threads, Call(t) \/ Interrupted(t) \/ ThreadStep(t)
      PROVE  Queued'
  <2>1. UNCHANGED <<queued, fd>> \/ \E a \in Apps, c \in Conns : Opened(a, c)
    BY <1>3, ProxySteps, Assumed DEF Write, Receive, Dropped
  <2> QED  BY <1>1, <1>2, <2>1
<1>4. ASSUME NEW a \in Apps, Begin(a) \/ Quit(a)
      PROVE  Queued'
  <2>1. UNCHANGED <<queued, fd>> \/ \E c \in Conns : Opened(a, c)
    BY <1>4, AppSteps DEF Dropped
  <2> QED  BY <1>1, <1>2, <2>1
<1>5. ASSUME NEW c \in Conns, Serve(c)
      PROVE  Queued'
  <2>1. CASE Accept(c)
    BY <2>1 DEF Accept, Queued, ConnsOK
  <2>2. CASE ReadRequest(c)
    BY <1>1, <2>2 DEF ReadRequest
  <2>3. CASE CloseDescriptor(c)
    BY <2>3 DEF CloseDescriptor, Queued, ConnsOK
  <2> QED  BY <1>5, <2>1, <2>2, <2>3 DEF Serve
<1>6. CASE Stop
  BY <1>6 DEF Stop, Queued
<1>7. CASE UNCHANGED vars \/ TakeTask \/ RunTask \/ FinishAnswer \/ Start
  BY <1>1, <1>7 DEF vars, TakeTask, RunTask, FinishAnswer, Start
<1> QED  BY <1>3, <1>4, <1>5, <1>6, <1>7 DEF Next

\* A step adds nothing to a connection but the request that its owner writes,
\* and a new connection has nothing.
LEMMA KeptByStep ==
  ASSUME TypeInv, Queued, Held, [Next]_vars, "descriptor" \notin stray', NEW c \in Conns
  PROVE  \/ Kept(c)
         \/ \E t \in Threads : Write(t) /\ Here(t) = c
         \/ \E a \in Apps : Opened(a, c)
<1> USE DEF TypeInv
<1>1. ASSUME NEW a \in Apps, Dropped(a)
      PROVE  Kept(c)
  BY <1>1, KeptAlone DEF Dropped
<1>2. ASSUME NEW a \in Apps, NEW d \in Conns, Opened(a, d), d # c
      PROVE  Kept(c)
  <2>1. UNCHANGED <<fd, tasks, running, answering>> /\ in'[c] = in[c] /\ out'[c] = out[c]
    BY <1>2 DEF Opened, ConnsOK
  <2> QED  BY <2>1, KeptAlone
<1>3. ASSUME NEW t \in Threads, Call(t) \/ Interrupted(t) \/ ThreadStep(t)
      PROVE  Kept(c) \/ (\E u \in Threads : Write(u) /\ Here(u) = c) \/ \E a \in Apps : Opened(a, c)
  <2>1. CASE UNCHANGED <<socket, conns, daemon>>
    BY <2>1, KeptAlone
  <2>2. CASE Write(t) /\ Here(t) # c
    <3>1. UNCHANGED <<fd, out, tasks, running, answering>> /\ in'[c] = in[c]
      BY <2>2 DEF Write, ConnsOK
    <3> QED  BY <3>1, KeptAlone
  <2>3. CASE Receive(t)
    <3>1. UNCHANGED <<fd, in, tasks, running, answering>> /\ (out'[c] = out[c] \/ out'[c] = <<>>)
      BY <2>3 DEF Receive, ConnsOK
    <3> QED  BY <3>1, KeptAlone
  <2> QED  BY <1>1, <1>2, <1>3, <2>1, <2>2, <2>3, ProxySteps, Assumed
<1>4. ASSUME NEW a \in Apps, Begin(a) \/ Quit(a)
      PROVE  Kept(c) \/ Opened(a, c)
  BY <1>1, <1>2, <1>4, AppSteps
<1>5. ASSUME NEW d \in Conns, Serve(d)
      PROVE  Kept(c)
  <2>1. CASE Accept(d)
    <3>1. PICK f \in FreeFds : fd' = [fd EXCEPT ![d] = f]
      BY <2>1 DEF Accept
    <3>2. UNCHANGED <<in, out, tasks, running, answering, stray>>
      BY <2>1 DEF Accept
    <3>3. CASE c = d
      <4>1. fd'[c] = f /\ \A e \in Conns : fd[e] # f
        BY <3>1, <3>3 DEF FreeFds, ConnsOK
      <4>2. /\ \A i \in 1 .. Len(tasks) : tasks[i].fd # fd'[c]
            /\ running # NoTask => running.fd # fd'[c]
            /\ answering # NoTask => answering.fd # fd'[c]
        BY <3>2, <4>1 DEF Held
      <4> QED  BY <3>2, <4>2, KeptByDescriptor
    <3>4. CASE c # d
      BY <3>1, <3>2, <3>4, KeptByDescriptor DEF ConnsOK
    <3> QED  BY <3>3, <3>4
  <2>2. CASE ReadRequest(d)
    BY <2>2, KeptByRead
  <2>3. CASE CloseDescriptor(d)
    <3>1. UNCHANGED <<in, out, tasks, running, answering>> /\ fd'[c] = IF c = d THEN NoFd ELSE fd[c]
      BY <2>3 DEF CloseDescriptor, ConnsOK
    <3>2. /\ \A i \in 1 .. Len(tasks) : tasks[i].fd # NoFd
          /\ running # NoTask => running.fd # NoFd
          /\ answering # NoTask => answering.fd # NoFd
      BY TasksHaveFds
    <3> QED  BY <3>1, <3>2, KeptByDescriptor
  <2> QED  BY <1>5, <2>1, <2>2, <2>3 DEF Serve
<1>6. CASE TakeTask \/ RunTask \/ FinishAnswer
  BY <1>6, KeptByTake, KeptByRun, KeptByFinish
<1>7. CASE Stop
  BY <1>7, KeptByDescriptor DEF Stop
<1>8. CASE UNCHANGED vars \/ Start
  BY <1>8, KeptAlone DEF vars, Start
<1> QED  BY <1>3, <1>4, <1>5, <1>6, <1>7, <1>8 DEF Next

LEMMA HeldStep ==
  ASSUME TypeInv, Queued, Held, [Next]_vars
  PROVE  Held'
<1> USE DEF TypeInv
<1> SUFFICES ASSUME "descriptor" \notin stray'
             PROVE  /\ \A i \in 1 .. Len(tasks') : \E c \in Conns : fd'[c] = tasks'[i].fd
                    /\ running' # NoTask => \E c \in Conns : fd'[c] = running'.fd
                    /\ answering' # NoTask => \E c \in Conns : fd'[c] = answering'.fd
  BY DEF Held
<1>1. CASE UNCHANGED <<fd, tasks, running, answering>> /\ stray \subseteq stray'
  BY <1>1 DEF Held
<1>2. ASSUME NEW t \in Threads, Call(t) \/ Interrupted(t) \/ ThreadStep(t)
      PROVE  UNCHANGED <<fd, tasks, running, answering>> /\ stray \subseteq stray'
  <2>1. UNCHANGED <<fd, tasks, running, answering>>
    BY <1>2, ProxySteps DEF Write, Receive, Dropped, Opened
  <2>2. stray \subseteq stray'
    BY <1>2 DEF Call, Interrupted, ThreadStep, Acquire, Write, WriteFails, Receive, ReceiveFails,
                Disconnect, Reconnect
  <2> QED  BY <2>1, <2>2
<1>3. ASSUME NEW a \in Apps, Begin(a) \/ Quit(a)
      PROVE  UNCHANGED <<fd, tasks, running, answering>> /\ stray \subseteq stray'
  <2>1. UNCHANGED <<fd, tasks, running, answering>>
    BY <1>3, AppSteps DEF Dropped, Opened
  <2> QED  BY <1>3, <2>1 DEF Begin, Quit
<1>4. ASSUME NEW d \in Conns, Serve(d)
      PROVE  /\ \A i \in 1 .. Len(tasks') : \E c \in Conns : fd'[c] = tasks'[i].fd
             /\ running' # NoTask => \E c \in Conns : fd'[c] = running'.fd
             /\ answering' # NoTask => \E c \in Conns : fd'[c] = answering'.fd
  <2>1. CASE Accept(d)
    <3>1. UNCHANGED <<tasks, running, answering, stray>> /\ \A c \in Conns : c # d => fd'[c] = fd[c]
      BY <2>1 DEF Accept, ConnsOK
    <3>2. fd[d] = NoFd
      BY <2>1 DEF Accept, Queued
    <3>3. /\ \A i \in 1 .. Len(tasks) : tasks[i].fd # NoFd
          /\ running # NoTask => running.fd # NoFd
          /\ answering # NoTask => answering.fd # NoFd
      BY TasksHaveFds
    <3>4. \A i \in 1 .. Len(tasks) : \E c \in Conns : fd'[c] = tasks[i].fd
      BY <3>1, <3>2, <3>3 DEF Held
    <3>5. /\ running # NoTask => \E c \in Conns : fd'[c] = running.fd
          /\ answering # NoTask => \E c \in Conns : fd'[c] = answering.fd
      BY <3>1, <3>2, <3>3 DEF Held
    <3> QED  BY <3>1, <3>4, <3>5
  <2>2. CASE ReadRequest(d)
    <3>1. PICK x \in Task : x.fd = fd[d] /\ tasks' = Pushed(x)
      BY <2>2, ReadIs
    <3>2. UNCHANGED <<fd, running, answering, stray>> /\ tasks \in Seq(Task) /\ Len(tasks) \in Nat
      BY <2>2 DEF ReadRequest, StubOK
    <3>3. /\ Len(tasks') = Len(tasks) + 1 /\ tasks'[1] = x
          /\ \A i \in 1 .. Len(tasks) : tasks'[i + 1] = tasks[i]
      BY <3>1, <3>2, PushedIs
    <3>4. ASSUME NEW i \in 1 .. Len(tasks')
          PROVE  \E c \in Conns : fd'[c] = tasks'[i].fd
      <4>1. CASE i = 1
        BY <3>1, <3>2, <3>3, <4>1
      <4>2. CASE i # 1
        <5>1. i - 1 \in 1 .. Len(tasks) /\ tasks'[i] = tasks[i - 1]
          BY <3>2, <3>3, <4>2
        <5> QED  BY <3>2, <5>1 DEF Held
      <4> QED  BY <4>1, <4>2
    <3> QED  BY <3>2, <3>4 DEF Held
  <2>3. CASE CloseDescriptor(d)
    <3>1. UNCHANGED <<tasks, running, answering>> /\ \A c \in Conns : c # d => fd'[c] = fd[c]
      BY <2>3 DEF CloseDescriptor, ConnsOK
    <3>2. ~Owed(fd[d]) /\ "descriptor" \notin stray
      BY <2>3 DEF CloseDescriptor
    <3>3. /\ \A i \in 1 .. Len(tasks) : tasks[i].fd # fd[d]
          /\ running # NoTask => running.fd # fd[d]
          /\ answering # NoTask => answering.fd # fd[d]
      BY <3>2 DEF Owed, StubOK
    <3>4. \A i \in 1 .. Len(tasks) : \E c \in Conns : fd'[c] = tasks[i].fd
      BY <3>1, <3>2, <3>3 DEF Held
    <3>5. /\ running # NoTask => \E c \in Conns : fd'[c] = running.fd
          /\ answering # NoTask => \E c \in Conns : fd'[c] = answering.fd
      BY <3>1, <3>2, <3>3 DEF Held
    <3> QED  BY <3>1, <3>4, <3>5
  <2> QED  BY <1>4, <2>1, <2>2, <2>3 DEF Serve
<1>5. CASE TakeTask
  <2>1. /\ tasks \in Seq(Task) /\ Len(tasks) >= 1 /\ UNCHANGED <<fd, answering, stray>>
        /\ running' = tasks[1] /\ tasks' = Tail(tasks)
    BY <1>5 DEF TakeTask, StubOK
  <2>2. /\ Len(tasks) \in Nat /\ Len(tasks') = Len(tasks) - 1
        /\ \A i \in 1 .. Len(tasks') : tasks'[i] = tasks[i + 1]
    BY <2>1
  <2> QED  BY <2>1, <2>2 DEF Held
<1>6. CASE RunTask
  <2>1. UNCHANGED <<fd, tasks, stray>> /\ running # NoTask /\ running' = NoTask
        /\ answering' \in {answering, NoTask, [call |-> running.call, fd |-> running.fd]}
    BY <1>6 DEF RunTask
  <2> QED  BY <2>1 DEF Held
<1>7. CASE Stop
  BY <1>7 DEF Stop
<1>8. CASE UNCHANGED vars \/ Start
  BY <1>1, <1>8 DEF vars, Start
<1>9. CASE FinishAnswer
  BY <1>9 DEF FinishAnswer, Held
<1> QED  BY <1>1, <1>2, <1>3, <1>4, <1>5, <1>6, <1>7, <1>8, <1>9 DEF Next

LEMMA WriteIs ==
  ASSUME TypeInv, NEW t \in Threads, Write(t), NEW c, c = Here(t)
  PROVE  /\ c \in Conns /\ ~PeerGone(c) /\ Waits(t) /\ UNCHANGED <<socket, made, fd, out, tasks, running, answering, stray>>
         /\ \A p \in Stages, i \in Nat, k \in Calls : Item(c, p, i, k)' =>
              \/ Item(c, p, i, k)
              \/ pc[t] = "sends" /\ p = "in" /\ i = Len(in[c]) + 1 /\ k = Current(t)
<1>0. in' = [in EXCEPT ![Here(t)] = Append(@, [call |-> Current(t), part |-> Part(t)])]
  BY DEF Write
<1>1. /\ Part(t) = 1 <=> pc[t] = "sends"
      /\ in' = [in EXCEPT ![c] = Append(@, [call |-> Current(t), part |-> Part(t)])]
  BY <1>0 DEF Part
<1>2. c \in Conns /\ ~PeerGone(c) /\ Waits(t) /\ UNCHANGED <<socket, made, fd, out, tasks, running, answering, stray>>
  BY DEF Write, Waits
<1> DEFINE x == [call |-> Current(t), part |-> Part(t)]
<1>3. in[c] \in Seq(Piece) /\ Len(in[c]) \in Nat /\ in'[c] = Append(in[c], x)
  BY <1>1, <1>2 DEF TypeInv, ConnsOK
<1>4. /\ Len(in'[c]) = Len(in[c]) + 1
      /\ \A i \in 1 .. Len(in'[c]) : in'[c][i] = IF i = Len(in[c]) + 1 THEN x ELSE in[c][i]
  BY <1>3
<1>5. x.call = Current(t) /\ x.part = Part(t)
  OBVIOUS
<1> HIDE DEF x
<1>6. ASSUME NEW p \in Stages, NEW i \in Nat, NEW k \in Calls, Item(c, p, i, k)'
      PROVE  \/ Item(c, p, i, k)
             \/ pc[t] = "sends" /\ p = "in" /\ i = Len(in[c]) + 1 /\ k = Current(t)
  <2>1. CASE p # "in"
    BY <1>2, <1>6, <2>1 DEF Item, Expected
  <2>2. CASE p = "in"
    BY <1>1, <1>3, <1>4, <1>5, <1>6, <2>2 DEF Item
  <2> QED  BY <2>1, <2>2
<1> QED  BY <1>2, <1>6

LEMMA OpenedIsEmpty ==
  ASSUME TypeInv, NEW a \in Apps, NEW c \in Conns, Opened(a, c)
  PROVE  \A p \in Stages, i \in Nat, k \in Calls : ~Item(c, p, i, k)'
<1>1. fd'[c] = NoFd /\ UNCHANGED <<tasks, running, answering>> /\ in'[c] = <<>> /\ out'[c] = <<>>
  BY DEF Opened, PeerGone, TypeInv, ConnsOK
<1> QED  BY <1>1, TasksHaveFds DEF Item, Expected

\* What the connection of a process has after a step
LEMMA OwnStep ==
  ASSUME TypeInv, Sockets, Queued, Held, [Next]_vars, "descriptor" \notin stray',
         NEW a \in Apps, NEW c \in Conns, socket'[a] = c
  PROVE  \/ socket[a] = c /\ Kept(c)
         \/ socket[a] = c /\ \E t \in Threads : Write(t) /\ Here(t) = c /\ AppOf[t] = a
         \/ \A p \in Stages, i \in Nat, k \in Calls : ~Item(c, p, i, k)'
<1>1. ASSUME NEW b \in Apps, Opened(b, c)
      PROVE  \A p \in Stages, i \in Nat, k \in Calls : ~Item(c, p, i, k)'
  BY <1>1, OpenedIsEmpty
<1>2. CASE \A b \in Apps : ~Opened(b, c)
  <2>1. socket[a] = c
    <3>1. CASE UNCHANGED socket
      BY <3>1
    <3>2. ASSUME NEW b \in Apps, Dropped(b)
          PROVE  socket[a] = c
      BY <3>2 DEF Dropped
    <3>3. ASSUME NEW b \in Apps, NEW d \in Conns, Opened(b, d)
          PROVE  socket[a] = c
      BY <1>2, <3>3 DEF Opened, TypeInv, ThreadsOK
    <3>4. ASSUME NEW t \in Threads, Call(t) \/ Interrupted(t) \/ ThreadStep(t)
          PROVE  socket[a] = c
      <4>1. CASE Write(t) \/ Receive(t)
        BY <3>1, <4>1 DEF Write, Receive
      <4> QED  BY <3>1, <3>2, <3>3, <3>4, <4>1, ProxySteps, Assumed
    <3> QED  BY <3>1, <3>2, <3>3, <3>4, AppSteps, StubSteps DEF Next, thread
  <2>2. ASSUME NEW t \in Threads, Write(t), Here(t) = c
        PROVE  AppOf[t] = a
    BY <2>1, <2>2, Assumed DEF Sockets, Here
  <2> QED  BY <1>2, <2>1, <2>2, KeptByStep
<1> QED  BY <1>1, <1>2

\* What a process has under way and takes is of its own threads, as long as no
\* descriptor was closed that a task held.
Home ==
    "descriptor" \notin stray =>
        /\ \A a \in Apps : socket[a] \in Conns =>
              \A p \in Stages, i \in Nat, k \in Calls : Item(socket[a], p, i, k) => AppOf[k[1]] = a
        /\ \A t \in Threads : got[t] # NoCall => AppOf[got[t][1]] = AppOf[t]

LEMMA StrayStays ==
  ASSUME TypeInv, [Next]_vars
  PROVE  stray \subseteq stray'
<1>1. ASSUME NEW t \in Threads, Call(t) \/ Interrupted(t) \/ ThreadStep(t)
      PROVE  stray \subseteq stray'
  BY <1>1 DEF Call, Interrupted, ThreadStep, Acquire, Write, WriteFails, Receive, ReceiveFails,
              Disconnect, Reconnect
<1>2. ASSUME NEW a \in Apps, Begin(a) \/ Quit(a)
      PROVE  stray \subseteq stray'
  BY <1>2 DEF Begin, Quit
<1>3. ASSUME NEW c \in Conns, Serve(c)
      PROVE  stray \subseteq stray'
  BY <1>3 DEF Serve, Accept, ReadRequest, CloseDescriptor
<1> QED  BY <1>1, <1>2, <1>3 DEF Next, TakeTask, RunTask, FinishAnswer, Stop, Start, vars

\* What is first of the answers is an item.
LEMMA HeadIs ==
  ASSUME TypeInv, NEW c \in Conns, out[c] # <<>>
  PROVE  /\ out[c] \in Seq(Piece) /\ 1 \in 1 .. Len(out[c]) /\ Head(out[c]) = out[c][1]
         /\ out[c][1] \in Piece /\ out[c][1].call \in Calls
         /\ Item(c, IF out[c][1].part = 1 THEN "out" ELSE "over", 1, out[c][1].call)
<1>1. out[c] \in Seq(Piece) /\ 1 \in 1 .. Len(out[c]) /\ Head(out[c]) = out[c][1] /\ out[c][1] \in Piece
  BY DEF TypeInv, ConnsOK
<1>2. out[c][1].call \in Calls
  BY <1>1 DEF Piece
<1> QED  BY <1>1, <1>2 DEF Item

\* The answer that a thread takes is an item of its connection.
LEMMA GotStep ==
  ASSUME TypeInv, [Next]_vars, NEW t \in Threads
  PROVE  \/ got'[t] = got[t] /\ made'[t] = made[t]
         \/ got'[t] = NoCall
         \/ /\ Receive(t) /\ got'[t] \in Calls /\ made'[t] = made[t] /\ Here(t) \in Conns
            /\ \E p \in Stages : Item(Here(t), p, 1, got'[t])
            /\ \E i \in 1 .. Len(out[Here(t)]) : got'[t] = out[Here(t)][i].call
<1> USE DEF TypeInv
<1>1. ASSUME NEW u \in Threads, Receive(u)
      PROVE  \/ got'[t] = got[t] /\ made'[t] = made[t]
             \/ got'[t] = NoCall
             \/ /\ Receive(t) /\ got'[t] \in Calls /\ made'[t] = made[t] /\ Here(t) \in Conns
                /\ \E p \in Stages : Item(Here(t), p, 1, got'[t])
                /\ \E i \in 1 .. Len(out[Here(t)]) : got'[t] = out[Here(t)][i].call
  <2>1. /\ Here(u) \in Conns /\ out[Here(u)] # <<>> /\ UNCHANGED made
        /\ \/ got' = [got EXCEPT ![u] = Head(out[Here(u)]).call]
           \/ UNCHANGED got
           \/ got' = [got EXCEPT ![u] = NoCall]
    BY <1>1 DEF Receive, Returns, GiveUp, Places, Answered
  <2>2. /\ 1 \in 1 .. Len(out[Here(u)]) /\ Head(out[Here(u)]) = out[Here(u)][1]
        /\ out[Here(u)][1].call \in Calls
        /\ \E p \in Stages : Item(Here(u), p, 1, out[Here(u)][1].call)
    BY <2>1, HeadIs DEF Stages
  <2>3. \/ got' = got
        \/ t # u /\ got'[t] = got[t]
        \/ t = u /\ got'[t] \in {NoCall, out[Here(u)][1].call}
    BY <2>1, <2>2 DEF ThreadsOK
  <2> QED  BY <1>1, <2>1, <2>2, <2>3
<1>2. ASSUME NEW u \in Threads, Call(u) \/ Interrupted(u) \/ ThreadStep(u), ~Receive(u)
      PROVE  (got'[t] = got[t] /\ made'[t] = made[t]) \/ got'[t] = NoCall
  <2>1. CASE Call(u)
    BY <2>1 DEF Call, ThreadsOK
  <2>2. CASE Acquire(u) \/ Write(u) \/ Disconnect(u)
    BY <2>2 DEF Acquire, Write, Disconnect
  <2>3. CASE Interrupted(u) \/ WriteFails(u) \/ ReceiveFails(u) \/ Reconnect(u)
    <3>1. UNCHANGED made /\ (UNCHANGED got \/ got' = [got EXCEPT ![u] = NoCall])
      BY <2>3 DEF Interrupted, WriteFails, ReceiveFails, Reconnect, GiveUp, Returns
    <3> QED  BY <3>1 DEF ThreadsOK
  <2> QED  BY <1>2, <2>1, <2>2, <2>3 DEF ThreadStep
<1>3. ASSUME NEW a \in Apps, Begin(a) \/ Quit(a)
      PROVE  (got'[t] = got[t] /\ made'[t] = made[t]) \/ got'[t] = NoCall
  BY <1>3 DEF Begin, Quit
<1> QED  BY <1>1, <1>2, <1>3, StubSteps DEF Next, thread

LEMMA HomeStep ==
  ASSUME TypeInv, Sockets, Queued, Held, Home, [Next]_vars
  PROVE  Home'
<1> SUFFICES ASSUME "descriptor" \notin stray'
             PROVE  Home'
  BY DEF Home
<1>1. "descriptor" \notin stray
  BY StrayStays
<1>2. ASSUME NEW a \in Apps, NEW c \in Conns, socket'[a] = c,
             NEW p \in Stages, NEW i \in Nat, NEW k \in Calls, Item(c, p, i, k)'
      PROVE  AppOf[k[1]] = a
  <2>1. CASE socket[a] = c /\ Kept(c)
    BY <1>1, <1>2, <2>1 DEF Kept, Home
  <2>2. ASSUME socket[a] = c, NEW t \in Threads, Write(t), Here(t) = c, AppOf[t] = a
        PROVE  AppOf[k[1]] = a
    BY <1>1, <1>2, <2>2, WriteIs DEF Home, Current
  <2> QED  BY <1>2, <2>1, <2>2, OwnStep
<1>3. ASSUME NEW t \in Threads, got'[t] # NoCall
      PROVE  AppOf[got'[t][1]] = AppOf[t]
  <2>1. CASE got'[t] = got[t]
    BY <1>1, <1>3, <2>1 DEF Home
  <2>2. CASE Here(t) \in Conns /\ got'[t] \in Calls /\ \E p \in Stages : Item(Here(t), p, 1, got'[t])
    BY <1>1, <2>2, Assumed DEF Home, Here
  <2> QED  BY <1>3, <2>1, <2>2, GotStep
<1> QED  BY <1>2, <1>3 DEF Home

-----------------------------------------------------------------------------
(* As long as no answer can have strayed, the connection of a process has at *)
(* most one thing under way, and that is of the call that its thread is in.  *)

InCall == {"continues", "waits", "leaves"}
Now(k) == k = Current(k[1]) /\ pc[k[1]] \in InCall
Lane(c) ==
    Single(c) /\ \A p \in Stages, i \in Nat, k \in Calls : Item(c, p, i, k) => Now(k)
\* Nobody has taken the first piece of an answer and left the rest.
Front(c) ==
    /\ out[c] # <<>> => out[c][1].part = 1
    /\ Expected(c) => out[c] # <<>>
Fronts == stray = {} => \A a \in Apps : socket[a] \in Conns => Front(socket[a])
Lanes == stray = {} => \A a \in Apps : socket[a] \in Conns => Lane(socket[a])
Gots == stray = {} => \A t \in Threads : got[t] \in {NoCall, Current(t)}

LEMMA NowStays ==
  ASSUME TypeInv, [Next]_vars, stray' = {}, NEW k \in Calls, Now(k),
         NEW a \in Apps, AppOf[k[1]] = a, socket[a] \in Conns, socket'[a] = socket[a], ~Receive(k[1])
  PROVE  Now(k)'
<1> USE DEF TypeInv
<1> DEFINE u == k[1]
<1>1. u \in Threads /\ pc[u] \in InCall /\ k = <<u, made[u]>> /\ AppOf[u] = a
  BY CallIs DEF Now, Current
<1> SUFFICES pc'[u] \in InCall /\ made'[u] = made[u]
  BY <1>1 DEF Now, Current
<1>2. ASSUME NEW t \in Threads, Call(t) \/ Interrupted(t) \/ ThreadStep(t)
      PROVE  pc'[u] \in InCall /\ made'[u] = made[u]
  <2>1. CASE Call(t)
    <3>1. t # u
      BY <1>1, <2>1 DEF Call, InCall
    <3> QED  BY <1>1, <2>1, <3>1 DEF Call, ThreadsOK
  <2>2. CASE Acquire(t)
    <3>1. t # u
      BY <1>1, <2>2 DEF Acquire, InCall
    <3> QED  BY <1>1, <2>2, <3>1 DEF Acquire, ThreadsOK
  <2>3. CASE Write(t)
    <3>1. UNCHANGED made /\ \E l \in {"continues", "waits"} : pc' = [pc EXCEPT ![t] = l]
      BY <2>3 DEF Write
    <3> QED  BY <1>1, <3>1 DEF ThreadsOK, InCall
  <2>4. CASE t # u /\ ~Call(t)
    <3>1. UNCHANGED made /\ \E l \in {"wants", "sends", "continues", "waits", "leaves", "reconnects", "idle"} :
              pc' = [pc EXCEPT ![t] = l]
      BY <1>2, <2>2, <2>3, <2>4 DEF ThreadStep, Interrupted, Acquire, Write, WriteFails, Receive,
         ReceiveFails, Disconnect, Reconnect, GiveUp, Returns
    <3> QED  BY <1>1, <2>4, <3>1 DEF ThreadsOK
  <2>5. CASE t = u /\ Interrupted(t)
    <3>1. ~tried[t]
      BY <2>5 DEF Interrupted
    <3>2. pc' = [pc EXCEPT ![t] = "leaves"] /\ UNCHANGED made
      BY <2>5, <3>1 DEF Interrupted, GiveUp
    <3> QED  BY <1>1, <2>5, <3>2 DEF ThreadsOK, InCall
  <2>6. CASE t = u /\ (WriteFails(t) \/ ReceiveFails(t) \/ Disconnect(t))
    <3>1. socket'[a] \in {NoConn, Unconnected}
      BY <1>1, <2>6 DEF WriteFails, ReceiveFails, Disconnect, ThreadsOK
    <3> QED  BY <3>1, Assumed
  <2>7. CASE t = u /\ Reconnect(t)
    BY <1>1, <2>7 DEF Reconnect, InCall
  <2> QED  BY <1>2, <2>1, <2>2, <2>3, <2>4, <2>5, <2>6, <2>7 DEF ThreadStep
<1>3. ASSUME NEW b \in Apps, Begin(b) \/ Quit(b)
      PROVE  pc'[u] \in InCall /\ made'[u] = made[u]
  <2>1. CASE Begin(b)
    BY <1>1, <2>1 DEF Begin
  <2>2. CASE Quit(b)
    <3>1. a # b
      BY <2>2, Assumed DEF Quit, ThreadsOK
    <3> QED  BY <1>1, <2>2, <3>1 DEF Quit, ThreadsOK
  <2> QED  BY <1>3, <2>1, <2>2
<1> QED  BY <1>1, <1>2, <1>3, StubSteps DEF Next, thread

\* The thread whose call is under way is the one that holds the mutex.
LEMMA OneCaller ==
  ASSUME TypeInv, NEW k \in Calls, Now(k), NEW t \in Threads, Waits(t), AppOf[k[1]] = AppOf[t]
  PROVE  k = Current(t) /\ pc[t] \in InCall
<1>1. k[1] \in Threads /\ k = Current(k[1]) /\ pc[k[1]] \in InCall /\ Waits(k[1])
  BY CallIs DEF Now, InCall, Waits
<1> QED  BY <1>1 DEF TypeInv, ThreadsOK

LEMMA ReceiveIs ==
  ASSUME TypeInv, Sockets, NEW t \in Threads, Receive(t), Single(Here(t)), Front(Here(t)), stray' = {}
  PROVE  Here(t) \in Conns /\ \A p \in Stages, i \in Nat, k \in Calls : ~Item(Here(t), p, i, k)'
<1> DEFINE c == Here(t)
<1>1. /\ c \in Conns /\ out[c] # <<>> /\ ~Expected(c)
      /\ UNCHANGED <<socket, fd, in, tasks, running, answering>> /\ out' = [out EXCEPT ![c] = <<>>]
  BY DEF Receive, TypeInv, Places, Answered
<1>2. out[c][1].call \in Calls /\ Item(c, "out", 1, out[c][1].call)
  BY <1>1, HeadIs DEF Front
<1>3. Single(c) /\ c' = c /\ out'[c] = <<>>
  BY <1>1 DEF Here, TypeInv, ConnsOK
<1> HIDE DEF c
<1>4. ASSUME NEW p \in Stages, NEW i \in Nat, NEW k \in Calls, Item(c, p, i, k)'
      PROVE  FALSE
  <2>1. p \in {"in", "task", "run"} /\ Item(c, p, i, k)
    BY <1>1, <1>3, <1>4 DEF Item, Expected, Stages
  <2>2. p = "out"
    BY <1>2, <1>3, <2>1 DEF Single, Firsts
  <2> QED  BY <2>1, <2>2
<1> QED  BY <1>1, <1>3, <1>4 DEF c

\* The first piece of an answer is ahead of the rest.
LEMMA FrontsStep ==
  ASSUME TypeInv, Sockets, Queued, Held, Fronts, [Next]_vars
  PROVE  Fronts'
<1> USE DEF TypeInv
<1> SUFFICES ASSUME stray' = {}, NEW a \in Apps, NEW c \in Conns, socket'[a] = c
             PROVE  Front(c)'
  BY DEF Fronts
<1>1. stray = {} /\ "descriptor" \notin stray /\ "descriptor" \notin stray'
  BY StrayStays
<1>2. socket[a] = c => Front(c) /\ open[c]
  BY <1>1 DEF Fronts, Sockets
<1>3. ASSUME socket[a] = c, out'[c] = out[c], UNCHANGED answering, fd'[c] = fd[c]
      PROVE  Front(c)'
  BY <1>2, <1>3 DEF Front, Expected
<1>4. ASSUME NEW b \in Apps, Dropped(b)
      PROVE  Front(c)'
  <2>1. b # a /\ socket[a] = c /\ socket[b] # c
    BY <1>4 DEF Dropped, Sockets
  <2> QED  BY <1>3, <1>4, <2>1 DEF Dropped
<1>5. ASSUME NEW b \in Apps, NEW d \in Conns, Opened(b, d)
      PROVE  Front(c)'
  <2>1. CASE d = c
    <3>1. out'[c] = <<>> /\ fd'[c] = NoFd /\ UNCHANGED answering
      BY <1>5, <2>1 DEF Opened, PeerGone, ConnsOK
    <3> QED  BY <3>1, TasksHaveFds DEF Front, Expected
  <2>2. CASE d # c
    <3>1. socket[a] = c
      BY <1>5, <2>2 DEF Opened, ThreadsOK
    <3> QED  BY <1>3, <1>5, <2>2, <3>1 DEF Opened, ConnsOK
  <2> QED  BY <2>1, <2>2
<1>6. ASSUME NEW t \in Threads, Call(t) \/ Interrupted(t) \/ ThreadStep(t)
      PROVE  Front(c)'
  <2>1. CASE UNCHANGED <<socket, conns, daemon>> \/ Write(t)
    BY <1>3, <2>1 DEF Write
  <2>2. CASE Receive(t)
    <3>1. UNCHANGED <<socket, fd, answering>> /\ out' = [out EXCEPT ![Here(t)] = <<>>]
          /\ ~Expected(Here(t))
      BY <2>2 DEF Receive
    <3>2. CASE Here(t) = c
      BY <3>1, <3>2 DEF Front, Expected, ConnsOK
    <3>3. CASE Here(t) # c
      BY <1>3, <3>1, <3>3 DEF ConnsOK
    <3> QED  BY <3>2, <3>3
  <2> QED  BY <1>4, <1>5, <1>6, <2>1, <2>2, ProxySteps, Assumed
<1>7. ASSUME NEW b \in Apps, Begin(b) \/ Quit(b)
      PROVE  Front(c)'
  BY <1>4, <1>5, <1>7, AppSteps
<1>8. ASSUME NEW d \in Conns, Serve(d)
      PROVE  Front(c)'
  <2>1. CASE Accept(d)
    <3>1. PICK f \in FreeFds : fd' = [fd EXCEPT ![d] = f]
      BY <2>1 DEF Accept
    <3>2. UNCHANGED <<socket, out, answering>>
      BY <2>1 DEF Accept
    <3>3. CASE c = d
      <4>1. fd'[c] = f /\ \A e \in Conns : fd[e] # f
        BY <3>1, <3>3 DEF FreeFds, ConnsOK
      <4>2. ~Expected(c)'
        BY <1>1, <3>2, <4>1 DEF Held, Expected
      <4> QED  BY <1>2, <3>2, <4>2 DEF Front
    <3>4. CASE c # d
      BY <1>3, <3>1, <3>2, <3>4 DEF ConnsOK
    <3> QED  BY <3>3, <3>4
  <2>2. CASE ReadRequest(d)
    BY <1>3, <2>2 DEF ReadRequest
  <2>3. CASE CloseDescriptor(d)
    <3>1. c # d
      BY <1>2, <2>3 DEF CloseDescriptor
    <3> QED  BY <1>3, <2>3, <3>1 DEF CloseDescriptor, ConnsOK
  <2> QED  BY <1>8, <2>1, <2>2, <2>3 DEF Serve
<1>9. CASE TakeTask \/ Start \/ UNCHANGED vars
  BY <1>3, <1>9 DEF TakeTask, Start, vars
<1>10. CASE RunTask
  <2> DEFINE x == [call |-> running.call, part |-> 1]
  <2>1. /\ running \in Task /\ running.call \in Calls /\ UNCHANGED <<socket, fd, open>>
        /\ running.is = "rest" => UNCHANGED <<out, answering>>
        /\ running.is # "rest" =>
             /\ out' = Answer(running.fd, x)
             /\ answering' # NoTask => answering' = [call |-> running.call, fd |-> running.fd]
    BY <1>10 DEF RunTask, StubOK, Task
  <2>2. x \in Piece /\ x.part = 1 /\ socket[a] = c
    BY <2>1 DEF Piece
  <2> HIDE DEF x
  <2>3. CASE running.is = "rest"
    BY <1>3, <2>1, <2>2, <2>3
  <2>4. CASE running.is # "rest" /\ fd[c] = running.fd
    <3>1. out'[c] = Append(out[c], x) /\ out[c] \in Seq(Piece)
      BY <1>2, <2>1, <2>2, <2>4, AnswerIs DEF ConnsOK
    <3>2. Len(out[c]) \in Nat /\ Len(out'[c]) = Len(out[c]) + 1
          /\ out'[c][1] = IF Len(out[c]) = 0 THEN x ELSE out[c][1]
      BY <2>2, <3>1
    <3>3. out'[c] # <<>> /\ (out[c] # <<>> => Len(out[c]) # 0)
      <4>1. Len(<<>>) = 0 /\ Len(out'[c]) # 0
        BY <3>2
      <4>2. Len(out[c]) = 0 => out[c] = <<>>
        BY <3>1
      <4> QED  BY <4>1, <4>2
    <3> QED  BY <1>2, <2>2, <3>2, <3>3 DEF Front
  <2>5. CASE running.is # "rest" /\ fd[c] # running.fd
    <3>1. out'[c] = out[c]
      BY <2>1, <2>2, <2>5, AnswerIs
    <3>2. ~Expected(c)'
      BY <2>1, <2>5 DEF Expected
    <3> QED  BY <1>2, <2>2, <3>1, <3>2 DEF Front
  <2> QED  BY <2>3, <2>4, <2>5
<1>11. CASE FinishAnswer
  <2> DEFINE x == [call |-> answering.call, part |-> 2]
  <2>1. /\ answering \in Rest /\ answering # NoTask /\ answering' = NoTask
        /\ UNCHANGED <<socket, fd>> /\ out' = Answer(answering.fd, x)
    BY <1>11 DEF FinishAnswer, StubOK
  <2>2. x \in Piece /\ socket[a] = c
    BY <2>1 DEF Rest, Piece
  <2> HIDE DEF x
  <2>3. out'[c] = out[c] \/ (fd[c] = answering.fd /\ out'[c] = Append(out[c], x))
    BY <2>1, <2>2, AnswerIs
  <2>4. ~Expected(c)'
    BY <2>1 DEF Expected
  <2>5. CASE fd[c] = answering.fd /\ out'[c] = Append(out[c], x)
    <3>1. out[c] # <<>> /\ out[c] \in Seq(Piece)
      BY <1>2, <2>1, <2>2, <2>5 DEF Front, Expected, ConnsOK
    <3>2. out'[c][1] = out[c][1]
      BY <2>2, <2>5, <3>1
    <3> QED  BY <1>2, <2>2, <2>4, <3>1, <3>2 DEF Front
  <2> QED  BY <1>2, <2>2, <2>3, <2>4, <2>5 DEF Front
<1>12. CASE Stop
  <2>1. UNCHANGED <<socket, out>> /\ answering' = NoTask
    BY <1>12 DEF Stop
  <2> QED  BY <1>2, <2>1 DEF Front, Expected
<1> QED  BY <1>6, <1>7, <1>8, <1>9, <1>10, <1>11, <1>12 DEF Next

LEMMA LanesStep ==
  ASSUME TypeInv, Sockets, Queued, Held, Home, Lanes, Fronts, [Next]_vars
  PROVE  Lanes'
<1> SUFFICES ASSUME stray' = {}, NEW a \in Apps, NEW c \in Conns, socket'[a] = c
             PROVE  Lane(c)'
  BY DEF Lanes
<1>1. stray = {} /\ "descriptor" \notin stray /\ "descriptor" \notin stray'
  BY StrayStays
<1>2. socket[a] = c =>
        /\ Lane(c) /\ Front(c)
        /\ \A p \in Stages, i \in Nat, k \in Calls : Item(c, p, i, k) => AppOf[k[1]] = a
  BY <1>1 DEF Lanes, Fronts, Home
<1>3. CASE \A p \in Stages, i \in Nat, k \in Calls : ~Item(c, p, i, k)'
  BY <1>3 DEF Lane, Single, Stages, Firsts
<1>4. CASE socket[a] = c /\ Kept(c)
  <2>1. CASE \E t \in Threads : Receive(t) /\ AppOf[t] = a
    <3>1. PICK t \in Threads : Receive(t) /\ AppOf[t] = a
      BY <2>1
    <3>2. Here(t) = c /\ Here(t)' = c
      BY <1>4, <3>1 DEF Here
    <3> QED  BY <1>2, <1>3, <1>4, <3>1, <3>2, ReceiveIs DEF Lane
  <2>2. CASE ~\E t \in Threads : Receive(t) /\ AppOf[t] = a
    <3>1. ASSUME NEW p \in Stages, NEW i \in Nat, NEW k \in Calls, Item(c, p, i, k)'
          PROVE  Now(k)'
      <4>1. Now(k) /\ AppOf[k[1]] = a /\ k[1] \in Threads
        BY <1>2, <1>4, <3>1, CallIs DEF Kept, Lane
      <4> QED  BY <1>4, <2>2, <4>1, NowStays
    <3>2. Single(c)'
      BY <1>2, <1>4 DEF Kept, Lane
    <3> QED  BY <3>1, <3>2 DEF Lane
  <2> QED  BY <2>1, <2>2
<1>5. ASSUME socket[a] = c, NEW t \in Threads, Write(t), Here(t) = c, AppOf[t] = a
      PROVE  Lane(c)'
  <2>1. /\ Waits(t) /\ UNCHANGED made
        /\ \A p \in Stages, i \in Nat, k \in Calls : Item(c, p, i, k)' =>
              \/ Item(c, p, i, k)
              \/ pc[t] = "sends" /\ p = "in" /\ i = Len(in[c]) + 1 /\ k = Current(t)
    BY <1>5, WriteIs
  <2>2. ~\E u \in Threads : Receive(u) /\ u = t
    BY <1>5 DEF Write, Receive
  <2>3. pc'[t] \in InCall
    BY <1>5 DEF Write, InCall, TypeInv, ThreadsOK
  <2>4. ASSUME NEW p \in Stages, NEW i \in Nat, NEW k \in Calls, Item(c, p, i, k)
        PROVE  k = Current(t) /\ pc[t] \in InCall
    BY <1>2, <1>5, <2>1, <2>4, OneCaller DEF Lane
  <2>5. ASSUME NEW p \in Stages, NEW i \in Nat, NEW k \in Calls, Item(c, p, i, k)'
        PROVE  Now(k)'
    <3>1. k = Current(t)
      BY <2>1, <2>4, <2>5
    <3> QED  BY <2>1, <2>3, <3>1 DEF Now, Current
  <2>6. CASE pc[t] = "sends"
    <3>1. \A p \in Stages, i \in Nat, k \in Calls : ~Item(c, p, i, k)
      BY <2>4, <2>6 DEF InCall
    <3>2. Single(c)'
      BY <2>1, <3>1 DEF Single, Stages, Firsts
    <3> QED  BY <2>5, <3>2 DEF Lane
  <2>7. CASE pc[t] # "sends"
    <3>1. \A p \in Firsts, i \in Nat, k \in Calls : Item(c, p, i, k)' => Item(c, p, i, k)
      BY <2>1, <2>7 DEF Stages, Firsts
    <3>2. Single(c)'
      BY <1>2, <1>5, <3>1 DEF Single, Lane
    <3> QED  BY <2>5, <3>2 DEF Lane
  <2> QED  BY <2>6, <2>7
<1> QED  BY <1>1, <1>3, <1>4, <1>5, OwnStep

LEMMA GotsStep ==
  ASSUME TypeInv, Home, Lanes, Gots, [Next]_vars
  PROVE  Gots'
<1> SUFFICES ASSUME stray' = {}, NEW t \in Threads
             PROVE  got'[t] \in {NoCall, Current(t)'}
  BY DEF Gots
<1>1. stray = {}
  BY StrayStays
<1>2. CASE got'[t] = got[t] /\ made'[t] = made[t]
  BY <1>1, <1>2 DEF Gots, Current
<1>3. CASE /\ Receive(t) /\ got'[t] \in Calls /\ \E p \in Stages : Item(Here(t), p, 1, got'[t])
           /\ made'[t] = made[t] /\ Here(t) \in Conns
  <2>1. Now(got'[t]) /\ AppOf[got'[t][1]] = AppOf[t]
    BY <1>1, <1>3, Assumed DEF Lanes, Lane, Home, Here
  <2>2. Waits(t)
    BY <1>3 DEF Receive, Waits
  <2>3. got'[t] = Current(t)
    BY <1>3, <2>1, <2>2, OneCaller
  <2> QED  BY <1>3, <2>3 DEF Current
<1> QED  BY <1>2, <1>3, GotStep

LaneInv == TypeInv /\ Sockets /\ Queued /\ Held /\ Home /\ Lanes /\ Fronts /\ Gots

LEMMA LaneInit == ASSUME Init PROVE LaneInv
<1>1. TypeInv
  BY TypeInit
<1>2. Sockets /\ Home /\ Lanes /\ Fronts
  BY Assumed DEF Init, Sockets, Home, Lanes, Fronts
<1>3. Queued /\ Held /\ Gots
  BY DEF Init, Queued, Held, Gots
<1> QED  BY <1>1, <1>2, <1>3 DEF LaneInv

LEMMA LaneStep == ASSUME LaneInv, [Next]_vars PROVE LaneInv'
  BY TypeStep, SocketsStep, QueuedStep, HeldStep, HomeStep, LanesStep, FrontsStep, GotsStep DEF LaneInv

\* Nobody takes the answer to another call, but by a descriptor closed while an
\* answer to it was owed, a socket kept after both tries had failed or an answer
\* taken before all of it had come, and of another process only by the first of
\* these (WrongAnswerOnlyByReuse).
THEOREM AnswersGoToTheirCalls == Spec => []WrongAnswerOnlyByReuse
<1>1. LaneInv => WrongAnswerOnlyByReuse
  BY DEF LaneInv, Gots, Home, WrongAnswerOnlyByReuse
<1> QED  BY LaneInit, LaneStep, <1>1, PTL DEF Spec

-----------------------------------------------------------------------------
(* When a call is executed.                                                *)

\* A thread gives up a connection that it holds only after an interruption,
\* and has none when it connects again.
GaveUp ==
    \A t \in Threads :
        /\ pc[t] = "leaves" /\ Here(t) \in Conns => Current(t) \in abandoned
        /\ pc[t] = "reconnects" => Here(t) \notin Conns

\* What is under way on a connection that no process holds is abandoned.
Orphans ==
    stray = {} => \A c \in Conns : (\A a \in Apps : socket[a] # c) /\ ~PeerGone(c) =>
        \A p \in Stages, i \in Nat, k \in Calls : Item(c, p, i, k) => k \in abandoned

\* A request that was read whole was written whole.
Wholes ==
    stray = {} => \A a \in Apps : LET c == socket[a] IN c \in Conns =>
        /\ \A i \in 1 .. Len(in[c]) :
              in[c][i].part = 1 /\ pc[in[c][i].call[1]] = "continues" => i = Len(in[c])
        /\ \A i \in 1 .. Len(tasks) :
              tasks[i].fd = fd[c] /\ tasks[i].is = "whole" => pc[tasks[i].call[1]] # "continues"
        /\ running # NoTask /\ running.fd = fd[c] /\ running.is = "whole" =>
              pc[running.call[1]] # "continues"

LEMMA AbandonedStays ==
  ASSUME TypeInv, [Next]_vars
  PROVE  abandoned \subseteq abandoned'
<1>1. ASSUME NEW t \in Threads, Call(t) \/ Interrupted(t) \/ ThreadStep(t)
      PROVE  abandoned \subseteq abandoned'
  BY <1>1 DEF Call, Interrupted, ThreadStep, Acquire, Write, WriteFails, Receive, ReceiveFails,
              Disconnect, Reconnect
<1>2. ASSUME NEW a \in Apps, Begin(a) \/ Quit(a)
      PROVE  abandoned \subseteq abandoned'
  BY <1>2 DEF Begin, Quit
<1>3. ASSUME NEW c \in Conns, Serve(c)
      PROVE  abandoned \subseteq abandoned'
  BY <1>3 DEF Serve, Accept, ReadRequest, CloseDescriptor
<1> QED  BY <1>1, <1>2, <1>3 DEF Next, TakeTask, RunTask, FinishAnswer, Stop, Start, vars

\* A thread's step changes the place of that thread only, and while it is in an
\* exchange nobody else changes the socket of its process.
LEMMA ThreadAlone ==
  ASSUME TypeInv, NEW u \in Threads, Call(u) \/ Interrupted(u) \/ ThreadStep(u),
         NEW t \in Threads, t # u
  PROVE  /\ pc'[t] = pc[t] /\ made'[t] = made[t]
         /\ Waits(t) => Here(t)' = Here(t)
<1> USE DEF TypeInv
<1>1. CASE Call(u) \/ Acquire(u)
  BY <1>1 DEF Call, Acquire, ThreadsOK, Here
<1>2. CASE ~(Call(u) \/ Acquire(u))
  <2>1. Waits(u) /\ UNCHANGED made
        /\ \E l \in {"sends", "continues", "waits", "leaves", "reconnects", "idle"} : pc' = [pc EXCEPT ![u] = l]
    BY <1>2 DEF ThreadStep, Interrupted, Write, WriteFails, Receive,
       ReceiveFails, Disconnect, Reconnect, GiveUp, Returns, Waits
  <2>2. Waits(t) => AppOf[t] # AppOf[u]
    BY <2>1 DEF ThreadsOK
  <2>3. \A b \in Apps \ {AppOf[u]} : socket'[b] = socket[b]
    <3>1. CASE UNCHANGED socket
      BY <3>1
    <3>2. CASE Dropped(AppOf[u])
      BY <3>2 DEF Dropped
    <3>3. CASE \E c \in Conns : Opened(AppOf[u], c)
      BY <3>3 DEF Opened, ThreadsOK
    <3> QED  BY <1>2, <3>1, <3>2, <3>3, ProxySteps DEF Write, Receive
  <2> QED  BY <2>1, <2>2, <2>3, Assumed DEF ThreadsOK, Here
<1> QED  BY <1>1, <1>2

LEMMA GaveUpStep ==
  ASSUME TypeInv, GaveUp, [Next]_vars
  PROVE  GaveUp'
<1> USE DEF TypeInv
<1> SUFFICES ASSUME NEW t \in Threads
             PROVE  /\ pc'[t] = "leaves" /\ Here(t)' \in Conns => Current(t)' \in abandoned'
                    /\ pc'[t] = "reconnects" => Here(t)' \notin Conns
  BY DEF GaveUp
<1> DEFINE Goal == /\ pc'[t] = "leaves" /\ Here(t)' \in Conns => Current(t)' \in abandoned'
                   /\ pc'[t] = "reconnects" => Here(t)' \notin Conns
<1>1. abandoned \subseteq abandoned'
  BY AbandonedStays
<1>2. CASE pc'[t] = pc[t] /\ made'[t] = made[t] /\ (Waits(t) => Here(t)' = Here(t))
  BY <1>1, <1>2 DEF GaveUp, Current, Waits
<1>3. CASE Call(t) \/ Interrupted(t) \/ ThreadStep(t)
  <2>1. CASE Call(t) \/ Acquire(t) \/ Write(t)
    <3>1. \E l \in {"wants", "sends", "continues", "waits"} : pc' = [pc EXCEPT ![t] = l]
      BY <2>1 DEF Call, Acquire, Write
    <3> QED  BY <3>1 DEF ThreadsOK
  <2>2. CASE WriteFails(t) \/ ReceiveFails(t) \/ Disconnect(t)
    BY <2>2, ProxySteps, Assumed DEF Dropped, Here, ThreadStep, WriteFails, ReceiveFails, Disconnect, ThreadsOK
  <2>3. CASE Reconnect(t)
    <3>1. \E l \in {"sends", "idle"} : pc' = [pc EXCEPT ![t] = l]
      BY <2>3 DEF Reconnect, Returns
    <3> QED  BY <3>1 DEF ThreadsOK
  <2>4. CASE Interrupted(t) \/ Receive(t)
    <3>1. UNCHANGED made /\ \/ pc' = [pc EXCEPT ![t] = "idle"]
                            \/ pc' = [pc EXCEPT ![t] = "leaves"] /\ Current(t) \in abandoned'
      BY <2>4 DEF Interrupted, Receive, GiveUp, Returns
    <3> QED  BY <3>1 DEF ThreadsOK, Current
  <2> QED  BY <1>3, <2>1, <2>2, <2>3, <2>4 DEF ThreadStep
<1>4. ASSUME NEW u \in Threads, Call(u) \/ Interrupted(u) \/ ThreadStep(u)
      PROVE  Goal
  BY <1>2, <1>3, <1>4, ThreadAlone
<1>5. ASSUME NEW a \in Apps, Begin(a) \/ Quit(a)
      PROVE  Goal
  <2>1. CASE Begin(a)
    <3>1. AppOf[t] = a => ~Waits(t)
      <4>1. AppOf[t] = a => made[t] = 0
        BY <2>1 DEF Begin
      <4>2. Waits(t) => made[t] >= 1
        BY DEF Places, Waits
      <4> QED  BY <4>1, <4>2
    <3>2. AppOf[t] # a => Here(t)' = Here(t)
      BY <2>1, Assumed DEF Begin, Connect, ThreadsOK, Here
    <3> QED  BY <1>2, <2>1, <3>1, <3>2 DEF Begin
  <2>2. CASE Quit(a)
    <3>1. CASE AppOf[t] = a
      BY <2>2, <3>1 DEF Quit
    <3>2. CASE AppOf[t] # a
      <4>1. Here(t)' = Here(t)
        BY <2>2, <3>2, Assumed DEF Quit, ThreadsOK, Here
      <4> QED  BY <1>2, <2>2, <3>2, <4>1 DEF Quit
    <3> QED  BY <3>1, <3>2
  <2> QED  BY <1>5, <2>1, <2>2
<1>6. CASE UNCHANGED thread
  BY <1>2, <1>6 DEF Here
<1> QED  BY <1>4, <1>5, <1>6, StubSteps DEF Next

\* A connection that nobody is at the other end of stays so until it is opened
\* again.
LEMMA PeerGoneStays ==
  ASSUME TypeInv, NEW c \in Conns, PeerGone(c), [Next]_vars, \A a \in Apps : ~Opened(a, c)
  PROVE  PeerGone(c)'
<1> USE DEF TypeInv
<1>1. CASE UNCHANGED <<fd, queued>>
  BY <1>1 DEF PeerGone
<1>2. ASSUME NEW a \in Apps, NEW d \in Conns, Opened(a, d)
      PROVE  PeerGone(c)'
  BY <1>2 DEF Opened, PeerGone, ConnsOK
<1>3. ASSUME NEW t \in Threads, Call(t) \/ Interrupted(t) \/ ThreadStep(t)
      PROVE  PeerGone(c)'
  <2>1. UNCHANGED <<queued, fd>> \/ \E a \in Apps, d \in Conns : Opened(a, d)
    BY <1>3, ProxySteps, Assumed DEF Write, Receive, Dropped
  <2> QED  BY <1>1, <1>2, <2>1
<1>4. ASSUME NEW a \in Apps, Begin(a) \/ Quit(a)
      PROVE  PeerGone(c)'
  <2>1. UNCHANGED <<queued, fd>> \/ \E d \in Conns : Opened(a, d)
    BY <1>4, AppSteps DEF Dropped
  <2> QED  BY <1>1, <1>2, <2>1
<1>5. ASSUME NEW d \in Conns, Serve(d)
      PROVE  PeerGone(c)'
  <2>1. CASE Accept(d)
    <3>1. c # d
      BY <2>1 DEF Accept, PeerGone
    <3> QED  BY <2>1, <3>1 DEF Accept, PeerGone, ConnsOK
  <2>2. CASE ReadRequest(d)
    BY <1>1, <2>2 DEF ReadRequest
  <2>3. CASE CloseDescriptor(d)
    BY <2>3 DEF CloseDescriptor, PeerGone, ConnsOK
  <2> QED  BY <1>5, <2>1, <2>2, <2>3 DEF Serve
<1>6. CASE Stop
  BY <1>6 DEF Stop, PeerGone
<1>7. CASE UNCHANGED vars \/ TakeTask \/ RunTask \/ FinishAnswer \/ Start
  BY <1>1, <1>7 DEF vars, TakeTask, RunTask, FinishAnswer, Start
<1> QED  BY <1>3, <1>4, <1>5, <1>6, <1>7 DEF Next

\* How a process loses its connection
LEMMA OwnerLeaves ==
  ASSUME TypeInv, GaveUp, [Next]_vars, NEW a \in Apps, NEW c \in Conns, socket[a] = c, socket'[a] # c
  PROVE  \/ PeerGone(c)
         \/ Quit(a)
         \/ \E t \in Threads : AppOf[t] = a /\ Waits(t) /\ pc[t] = "leaves" /\ Here(t) = c
<1> USE DEF TypeInv
<1>1. ASSUME NEW t \in Threads, Call(t) \/ Interrupted(t) \/ ThreadStep(t)
      PROVE  PeerGone(c) \/ (AppOf[t] = a /\ Waits(t) /\ pc[t] = "leaves" /\ Here(t) = c)
  <2>1. WriteFails(t) \/ ReceiveFails(t) \/ Disconnect(t) \/ Reconnect(t)
    BY <1>1, ProxySteps DEF Write, Receive
  <2>2. AppOf[t] = a
    <3>1. Dropped(AppOf[t]) \/ \E d \in Conns : Opened(AppOf[t], d)
      BY <1>1, ProxySteps DEF Write, Receive
    <3>2. \A b \in Apps \ {AppOf[t]} : socket'[b] = socket[b]
      BY <3>1 DEF Dropped, Opened, ThreadsOK
    <3> QED  BY <3>2
  <2>3. CASE WriteFails(t) \/ ReceiveFails(t)
    BY <2>2, <2>3 DEF WriteFails, ReceiveFails, Here
  <2>4. CASE Disconnect(t)
    BY <2>2, <2>4 DEF Disconnect, Waits, Here
  <2>5. CASE Reconnect(t)
    BY <2>2, <2>5 DEF Reconnect, GaveUp, Here
  <2> QED  BY <2>1, <2>3, <2>4, <2>5
<1>2. ASSUME NEW b \in Apps, Begin(b) \/ Quit(b)
      PROVE  Quit(a)
  <2>1. CASE Begin(b)
    <3>1. \A d \in Apps \ {b} : socket'[d] = socket[d]
      BY <2>1 DEF Begin, Connect, ThreadsOK
    <3> QED  BY <2>1, <3>1, Assumed DEF Begin
  <2>2. CASE Quit(b)
    BY <2>2 DEF Quit, ThreadsOK
  <2> QED  BY <1>2, <2>1, <2>2
<1> QED  BY <1>1, <1>2, StubSteps DEF Next, thread

LEMMA OrphansStep ==
  ASSUME LaneInv, GaveUp, Orphans, [Next]_vars
  PROVE  Orphans'
<1> USE DEF LaneInv
<1> SUFFICES ASSUME stray' = {}, NEW c \in Conns, \A a \in Apps : socket'[a] # c, ~PeerGone(c)',
                    NEW p \in Stages, NEW i \in Nat, NEW k \in Calls, Item(c, p, i, k)'
             PROVE  k \in abandoned'
  BY DEF Orphans
<1>1. stray = {} /\ "descriptor" \notin stray /\ "descriptor" \notin stray' /\ abandoned \subseteq abandoned'
  BY StrayStays, AbandonedStays
<1>2. \A a \in Apps : ~Opened(a, c)
  BY DEF Opened, TypeInv, ThreadsOK
<1>3. ~PeerGone(c)
  BY <1>2, PeerGoneStays
<1>4. Kept(c)
  <2>1. ASSUME NEW t \in Threads, Write(t), Here(t) = c
        PROVE  FALSE
    BY <2>1, Assumed DEF Write, Here
  <2> QED  BY <1>1, <1>2, <2>1, KeptByStep
<1>5. PICK q \in Stages, j \in Nat : Item(c, q, j, k)
  BY <1>4 DEF Kept
<1>6. CASE \A a \in Apps : socket[a] # c
  BY <1>1, <1>3, <1>5, <1>6 DEF Orphans
<1>7. ASSUME NEW a \in Apps, socket[a] = c
      PROVE  k \in abandoned'
  <2>1. Now(k) /\ AppOf[k[1]] = a
    BY <1>1, <1>5, <1>7 DEF Lanes, Lane, Home
  <2>2. CASE Quit(a)
    BY <2>1, <2>2, CallIs DEF Quit, Now, InCall
  <2>3. ASSUME NEW t \in Threads, AppOf[t] = a, Waits(t), pc[t] = "leaves", Here(t) = c
        PROVE  k \in abandoned'
    BY <1>1, <2>1, <2>3, OneCaller DEF GaveUp
  <2> QED  BY <1>3, <1>7, <2>2, <2>3, OwnerLeaves
<1> QED  BY <1>6, <1>7

\* A first piece and a whole task are things under way.
LEMMA PiecesAreItems ==
  ASSUME TypeInv, NEW c \in Conns
  PROVE  /\ Len(in[c]) \in Nat /\ Len(tasks) \in Nat
         /\ \A i \in 1 .. Len(in[c]) : in[c][i].part = 1 =>
               in[c][i].call \in Calls /\ Item(c, "in", i, in[c][i].call)
         /\ \A i \in 1 .. Len(tasks) : tasks[i].fd = fd[c] /\ tasks[i].is = "whole" =>
               tasks[i].call \in Calls /\ Item(c, "task", i, tasks[i].call)
         /\ running # NoTask /\ running.fd = fd[c] /\ running.is = "whole" =>
               running.call \in Calls /\ Item(c, "run", 0, running.call)
<1>1. in[c] \in Seq(Piece) /\ tasks \in Seq(Task)
  BY DEF TypeInv, ConnsOK, StubOK
<1>2. (\A x \in Piece : x.call \in Calls) /\ \A x \in Task : x.call \in Calls
  BY DEF Piece, Task
<1>3. \A i \in 1 .. Len(in[c]) : in[c][i].call \in Calls
  BY <1>1, <1>2
<1> QED  BY <1>1, <1>2, <1>3, TasksHaveFds DEF Item

\* The parts of Wholes for one connection
WholeIn(c) ==
    \A i \in 1 .. Len(in[c]) :
        in[c][i].part = 1 /\ pc[in[c][i].call[1]] = "continues" => i = Len(in[c])
WholeTask(c) ==
    /\ \A i \in 1 .. Len(tasks) :
          tasks[i].fd = fd[c] /\ tasks[i].is = "whole" => pc[tasks[i].call[1]] # "continues"
    /\ running # NoTask /\ running.fd = fd[c] /\ running.is = "whole" =>
          pc[running.call[1]] # "continues"

\* Only Write takes a thread to the rest of a request.
LEMMA RestByWrite ==
  ASSUME TypeInv, [Next]_vars, NEW u \in Threads, pc'[u] = "continues"
  PROVE  pc[u] = "continues" \/ (Write(u) /\ pc[u] = "sends")
<1> USE DEF TypeInv
<1>1. ASSUME NEW t \in Threads, Call(t) \/ Interrupted(t) \/ ThreadStep(t)
      PROVE  pc[u] = "continues" \/ (Write(u) /\ pc[u] = "sends")
  <2>1. CASE t # u
    BY <1>1, <2>1, ThreadAlone
  <2>2. CASE t = u /\ Write(t)
    BY <2>2 DEF Write, ThreadsOK
  <2>3. CASE t = u /\ ~Write(t)
    <3>1. \E l \in {"wants", "sends", "leaves", "reconnects", "idle"} : pc' = [pc EXCEPT ![t] = l]
      BY <1>1, <2>3 DEF ThreadStep, Call, Interrupted, Acquire, WriteFails, Receive,
         ReceiveFails, Disconnect, Reconnect, GiveUp, Returns
    <3> QED  BY <2>3, <3>1 DEF ThreadsOK
  <2> QED  BY <2>1, <2>2, <2>3
<1>2. ASSUME NEW a \in Apps, Begin(a) \/ Quit(a)
      PROVE  pc[u] = "continues"
  BY <1>2 DEF Begin, Quit
<1> QED  BY <1>1, <1>2, StubSteps DEF Next, thread

\* Steps that leave what is on connection c as it is
LEMMA WholeAlone ==
  ASSUME LaneInv, [Next]_vars, stray' = {}, NEW a \in Apps, NEW c \in Conns, socket[a] = c,
         ~\E t \in Threads : Write(t) /\ Here(t) = c,
         WholeIn(c), WholeTask(c), UNCHANGED <<tasks, running>>, in'[c] = in[c], fd'[c] = fd[c]
  PROVE  WholeIn(c)' /\ WholeTask(c)'
<1>1. stray = {}
  BY StrayStays DEF LaneInv
<1>2. ASSUME NEW p \in Stages, NEW i \in Nat, NEW k \in Calls, Item(c, p, i, k),
             pc'[k[1]] = "continues"
      PROVE  pc[k[1]] = "continues"
  <2>1. k[1] \in Threads /\ AppOf[k[1]] = a
    BY <1>1, <1>2, CallIs DEF LaneInv, Home
  <2>2. ~(Write(k[1]) /\ pc[k[1]] = "sends")
    BY <2>1 DEF Here
  <2> QED  BY <1>2, <2>1, <2>2, RestByWrite DEF LaneInv
<1>3. WholeIn(c)'
  <2>1. ASSUME NEW i \in 1 .. Len(in'[c]), in'[c][i].part = 1, pc'[in'[c][i].call[1]] = "continues"
        PROVE  i = Len(in'[c])
    <3>0. i \in 1 .. Len(in[c]) /\ in[c][i].part = 1
      BY <2>1
    <3>1. i \in Nat /\ in[c][i].call \in Calls /\ Item(c, "in", i, in[c][i].call)
      BY <3>0, PiecesAreItems DEF LaneInv
    <3> QED  BY <1>2, <2>1, <3>1 DEF WholeIn, Stages
  <2> QED  BY <2>1 DEF WholeIn
<1>4. ASSUME NEW i \in 1 .. Len(tasks), tasks[i].fd = fd[c], tasks[i].is = "whole"
      PROVE  pc'[tasks[i].call[1]] # "continues"
  <2>1. i \in Nat /\ tasks[i].call \in Calls /\ Item(c, "task", i, tasks[i].call)
    BY <1>4, PiecesAreItems DEF LaneInv
  <2> QED  BY <1>2, <1>4, <2>1 DEF WholeTask, Stages
<1>5. running # NoTask /\ running.fd = fd[c] /\ running.is = "whole" =>
         pc'[running.call[1]] # "continues"
  BY <1>2, PiecesAreItems DEF LaneInv, WholeTask, Stages
<1>6. WholeTask(c)'
  BY <1>4, <1>5 DEF WholeTask
<1> QED  BY <1>3, <1>6

LEMMA WholeByRead ==
  ASSUME LaneInv, NEW c \in Conns, NEW d \in Conns, ReadRequest(d), WholeIn(c), WholeTask(c)
  PROVE  WholeIn(c)' /\ WholeTask(c)'
<1> DEFINE x == [call |-> Head(in[d]).call, is |-> Taken(in[d]), fd |-> fd[d]]
<1>1. /\ 1 \in 1 .. Len(in[d]) /\ in[d][1].call = x.call /\ in[d][1] \in Piece
      /\ in[d][1] = Head(in[d]) /\ fd[d] \in Fds /\ in[d] \in Seq(Piece)
      /\ tasks' = Pushed(x) /\ tasks \in Seq(Task) /\ x \in Task
  BY ReadIs DEF LaneInv, TypeInv, StubOK
<1>2. x.is = "whole" => in[d][1].part = 1 /\ Len(in[d]) >= Pieces(x.call)
  BY <1>1 DEF Taken, Piece
<1>3. x.fd = fd[d] /\ (c # d => fd[c] # fd[d]) /\ x.call \in Calls
  BY <1>1, FdsArePositive DEF LaneInv, TypeInv, ConnsOK, Task
<1> HIDE DEF x
<1>4. /\ Len(tasks') = Len(tasks) + 1 /\ tasks'[1] = x
      /\ \A i \in 1 .. Len(tasks) : tasks'[i + 1] = tasks[i]
  BY <1>1, PushedIs
<1>5. UNCHANGED <<fd, running, pc>> /\ in' = [in EXCEPT ![d] = <<>>]
  BY DEF ReadRequest
<1>6. WholeIn(c)'
  <2>1. in'[c] = IF c = d THEN <<>> ELSE in[c]
    BY <1>5 DEF LaneInv, TypeInv, ConnsOK
  <2>2. CASE c = d
    <3>1. Len(in'[c]) = 0
      BY <2>1, <2>2
    <3> QED  BY <3>1 DEF WholeIn
  <2>3. CASE c # d
    BY <1>5, <2>1, <2>3 DEF WholeIn
  <2> QED  BY <2>2, <2>3
<1>7. x.fd = fd[c] /\ x.is = "whole" => pc[x.call[1]] # "continues"
  <2> SUFFICES ASSUME c = d, x.is = "whole", pc[x.call[1]] = "continues"
               PROVE  FALSE
    BY <1>3
  <2>1. Len(in[d]) = 1
    BY <1>1, <1>2 DEF WholeIn
  <2>2. Pieces(x.call) = 2
    BY <1>3, CallIs DEF Pieces, LaneInv, TypeInv, Places
  <2>3. Len(in[d]) >= 2 /\ Len(in[d]) \in Nat
    BY <1>1, <1>2, <2>2
  <2> QED  BY <2>1, <2>3
<1>8. ASSUME NEW i \in 1 .. Len(tasks'), tasks'[i].fd = fd[c], tasks'[i].is = "whole"
      PROVE  pc[tasks'[i].call[1]] # "continues"
  <2>1. CASE i = 1
    BY <1>4, <1>7, <1>8, <2>1
  <2>2. CASE i # 1
    <3>1. i - 1 \in 1 .. Len(tasks) /\ tasks'[i] = tasks[i - 1]
      BY <1>1, <1>4, <2>2
    <3> QED  BY <1>8, <3>1 DEF WholeTask
  <2> QED  BY <2>1, <2>2
<1>9. WholeTask(c)'
  BY <1>5, <1>8 DEF WholeTask
<1> QED  BY <1>6, <1>9

LEMMA WholeByWrite ==
  ASSUME LaneInv, stray = {}, NEW t \in Threads, Write(t), NEW a \in Apps, AppOf[t] = a,
         NEW c \in Conns, socket[a] = c, WholeIn(c), WholeTask(c), TypeInv'
  PROVE  WholeIn(c)' /\ WholeTask(c)'
<1>0. TypeInv /\ Lanes /\ Home
  BY DEF LaneInv
<1>1. Here(t) = c /\ Waits(t)
  BY DEF Here, Write, Waits
<1>2. /\ UNCHANGED <<made, fd, out, tasks, running, stray>>
      /\ \A p \in Stages, i \in Nat, k \in Calls : Item(c, p, i, k)' =>
           \/ Item(c, p, i, k)
           \/ pc[t] = "sends" /\ p = "in" /\ i = Len(in[c]) + 1 /\ k = Current(t)
  BY <1>0, <1>1, WriteIs
<1>3. ASSUME NEW p \in Stages, NEW i \in Nat, NEW k \in Calls, Item(c, p, i, k)
      PROVE  k = Current(t) /\ pc[t] = "continues" /\ pc'[t] = "waits"
  <2>1. Now(k) /\ AppOf[k[1]] = AppOf[t]
    BY <1>0, <1>3 DEF Lanes, Lane, Home
  <2>2. k = Current(t) /\ pc[t] \in InCall
    BY <1>0, <1>1, <2>1, OneCaller
  <2>3. pc[t] = "continues"
    BY <2>2 DEF Write, InCall
  <2>4. pc' = [pc EXCEPT ![t] = "waits"]
    BY <2>3 DEF Write, Part
  <2> QED  BY <1>0, <2>2, <2>3, <2>4 DEF TypeInv, ThreadsOK
<1>4. Len(in'[c]) = Len(in[c]) + 1
  <2>1. \E y : in' = [in EXCEPT ![c] = Append(in[c], y)]
    BY <1>1 DEF Write
  <2> QED  BY <1>0, <2>1 DEF TypeInv, ConnsOK
<1>5. ASSUME NEW i \in 1 .. Len(in'[c]), in'[c][i].part = 1, pc'[in'[c][i].call[1]] = "continues"
      PROVE  i = Len(in'[c])
  <2>0. in'[c] \in Seq(Piece) /\ \A x \in Piece : x.call \in Calls
    BY DEF TypeInv, ConnsOK, Piece
  <2>1. PICK k \in Calls : k = in'[c][i].call /\ i \in Nat /\ in'[c][i] \in Piece
    BY <1>5, <2>0
  <2>2. Item(c, "in", i, k)'
    BY <1>5, <2>1 DEF Item
  <2>3. CASE Item(c, "in", i, k)
    <3>1. k = Current(t) /\ pc'[t] = "waits"
      BY <1>3, <2>1, <2>3 DEF Stages
    <3> QED  BY <1>5, <2>1, <3>1 DEF Current
  <2>4. CASE i = Len(in[c]) + 1
    BY <1>4, <2>4
  <2> QED  BY <1>2, <2>1, <2>2, <2>3, <2>4 DEF Stages
<1>6. WholeIn(c)'
  BY <1>5 DEF WholeIn
<1>7. ASSUME NEW p \in Stages, NEW i \in Nat, NEW k \in Calls, Item(c, p, i, k)
      PROVE  pc'[k[1]] # "continues"
  BY <1>3, <1>7 DEF Current
<1>8. ASSUME NEW i \in 1 .. Len(tasks), tasks[i].fd = fd[c], tasks[i].is = "whole"
      PROVE  pc'[tasks[i].call[1]] # "continues"
  <2>1. i \in Nat /\ tasks[i].call \in Calls /\ Item(c, "task", i, tasks[i].call)
    BY <1>0, <1>8, PiecesAreItems
  <2> QED  BY <1>7, <2>1 DEF Stages
<1>9. running # NoTask /\ running.fd = fd[c] /\ running.is = "whole" =>
         pc'[running.call[1]] # "continues"
  BY <1>0, <1>7, PiecesAreItems DEF Stages
<1>10. WholeTask(c)'
  BY <1>2, <1>8, <1>9 DEF WholeTask
<1> QED  BY <1>6, <1>10

LEMMA WholesAre ==
  Wholes <=> (stray = {} => \A a \in Apps : socket[a] \in Conns => WholeIn(socket[a]) /\ WholeTask(socket[a]))
  BY DEF Wholes, WholeIn, WholeTask

LEMMA WholesStep ==
  ASSUME LaneInv, Wholes, [Next]_vars
  PROVE  Wholes'
<1> SUFFICES ASSUME stray' = {}, NEW a \in Apps, NEW c \in Conns, socket'[a] = c
             PROVE  WholeIn(c)' /\ WholeTask(c)'
  BY WholesAre DEF Wholes, WholeIn, WholeTask
<1>1. stray = {} /\ "descriptor" \notin stray' /\ LaneInv' /\ TypeInv /\ TypeInv'
  BY StrayStays, LaneStep DEF LaneInv
<1>2. CASE \A p \in Stages, i \in Nat, k \in Calls : ~Item(c, p, i, k)'
  <2>1. ASSUME NEW i \in 1 .. Len(in'[c]), in'[c][i].part = 1
        PROVE  FALSE
    <3>1. in'[c] \in Seq(Piece) /\ \A x \in Piece : x.call \in Calls
      BY <1>1 DEF TypeInv, ConnsOK, Piece
    <3>2. PICK k \in Calls : k = in'[c][i].call /\ i \in Nat
      BY <3>1
    <3>3. Item(c, "in", i, k)'
      BY <2>1, <3>2 DEF Item
    <3> QED  BY <1>2, <3>2, <3>3 DEF Stages
  <2>2. ASSUME NEW i \in 1 .. Len(tasks'), tasks'[i].fd = fd'[c], tasks'[i].is = "whole"
        PROVE  FALSE
    <3>1. tasks' \in Seq(Task) /\ \A x \in Task : x.call \in Calls
      BY <1>1 DEF TypeInv, StubOK, Task
    <3>2. PICK k \in Calls : k = tasks'[i].call /\ i \in Nat
      BY <3>1
    <3>3. Item(c, "task", i, k)'
      BY <2>2, <3>2 DEF Item
    <3> QED  BY <1>2, <3>2, <3>3 DEF Stages
  <2>3. ASSUME running' # NoTask, running'.fd = fd'[c], running'.is = "whole"
        PROVE  FALSE
    <3>1. running' \in Task /\ \A x \in Task : x.call \in Calls
      BY <1>1, <2>3 DEF TypeInv, StubOK, Task
    <3>2. PICK k \in Calls : k = running'.call
      BY <3>1
    <3>3. Item(c, "run", 0, k)'
      BY <2>3, <3>2 DEF Item
    <3> QED  BY <1>2, <3>2, <3>3 DEF Stages
  <2> QED  BY <2>1, <2>2, <2>3 DEF WholeIn, WholeTask
<1>3. CASE socket[a] = c
  <2>1. WholeIn(c) /\ WholeTask(c)
    BY <1>1, <1>3, WholesAre
  <2>2. ASSUME NEW t \in Threads, Write(t), Here(t) = c
        PROVE  WholeIn(c)' /\ WholeTask(c)'
    <3>1. AppOf[t] = a
      BY <1>3, <2>2, Assumed DEF LaneInv, Sockets, Here
    <3> QED  BY <1>1, <1>3, <2>1, <2>2, <3>1, WholeByWrite
  <2>3. CASE UNCHANGED <<tasks, running>> /\ in'[c] = in[c] /\ fd'[c] = fd[c]
    BY <1>3, <2>1, <2>2, <2>3, WholeAlone
  <2>4. ASSUME NEW b \in Apps, Dropped(b)
        PROVE  WholeIn(c)' /\ WholeTask(c)'
    BY <2>3, <2>4 DEF Dropped
  <2>5. ASSUME NEW b \in Apps, NEW d \in Conns, Opened(b, d)
        PROVE  WholeIn(c)' /\ WholeTask(c)'
    <3>1. d # c
      BY <1>3, <2>5 DEF Opened, LaneInv, Sockets
    <3> QED  BY <1>1, <2>3, <2>5, <3>1 DEF Opened, TypeInv, ConnsOK
  <2>6. ASSUME NEW t \in Threads, Call(t) \/ Interrupted(t) \/ ThreadStep(t)
        PROVE  WholeIn(c)' /\ WholeTask(c)'
    <3>1. CASE Write(t) /\ Here(t) # c
      BY <1>1, <2>3, <3>1 DEF Write, TypeInv, ConnsOK
    <3>2. CASE Receive(t)
      BY <2>3, <3>2 DEF Receive
    <3>3. CASE UNCHANGED <<socket, conns, daemon>>
      BY <2>3, <3>3
    <3> QED  BY <1>1, <2>2, <2>4, <2>5, <2>6, <3>1, <3>2, <3>3, ProxySteps, Assumed
  <2>7. ASSUME NEW b \in Apps, Begin(b) \/ Quit(b)
        PROVE  WholeIn(c)' /\ WholeTask(c)'
    BY <1>1, <2>4, <2>5, <2>7, AppSteps
  <2>8. ASSUME NEW d \in Conns, Serve(d)
        PROVE  WholeIn(c)' /\ WholeTask(c)'
    <3>1. CASE Accept(d)
      <4>1. UNCHANGED <<in, tasks, running, stray, pc>>
        BY <3>1 DEF Accept
      <4>2. PICK f \in FreeFds : fd' = [fd EXCEPT ![d] = f]
        BY <3>1 DEF Accept
      <4>3. CASE c # d
        BY <1>1, <2>3, <4>1, <4>2, <4>3 DEF TypeInv, ConnsOK
      <4>4. CASE c = d
        <5>1. fd'[c] = f /\ \A e \in Conns : fd[e] # f
          BY <1>1, <4>2, <4>4 DEF FreeFds, TypeInv, ConnsOK
        <5>2. /\ \A i \in 1 .. Len(tasks) : tasks[i].fd # fd'[c]
              /\ running # NoTask => running.fd # fd'[c]
          BY <1>1, <4>1, <5>1 DEF LaneInv, Held
        <5>3. WholeTask(c)'
          BY <4>1, <5>2 DEF WholeTask
        <5>4. WholeIn(c)'
          BY <2>1, <4>1 DEF WholeIn
        <5> QED  BY <5>3, <5>4
      <4> QED  BY <4>3, <4>4
    <3>2. CASE ReadRequest(d)
      BY <2>1, <3>2, WholeByRead
    <3>3. CASE CloseDescriptor(d)
      <4>1. c # d
        BY <1>3, <3>3 DEF CloseDescriptor, LaneInv, Sockets
      <4> QED  BY <1>1, <2>3, <3>3, <4>1 DEF CloseDescriptor, TypeInv, ConnsOK
    <3> QED  BY <2>8, <3>1, <3>2, <3>3 DEF Serve
  <2>9. CASE TakeTask
    <3>1. /\ tasks \in Seq(Task) /\ Len(tasks) >= 1 /\ UNCHANGED <<fd, in, pc>>
          /\ running' = tasks[1] /\ tasks' = Tail(tasks)
      BY <1>1, <2>9 DEF TakeTask, TypeInv, StubOK
    <3>2. /\ Len(tasks) \in Nat /\ Len(tasks') = Len(tasks) - 1
          /\ \A i \in 1 .. Len(tasks') : tasks'[i] = tasks[i + 1]
      BY <3>1
    <3>3. WholeTask(c)'
      <4>1. ASSUME NEW i \in 1 .. Len(tasks'), tasks'[i].fd = fd'[c], tasks'[i].is = "whole"
            PROVE  pc'[tasks'[i].call[1]] # "continues"
        <5>1. i + 1 \in 1 .. Len(tasks) /\ tasks'[i] = tasks[i + 1]
          BY <3>2
        <5> QED  BY <2>1, <3>1, <4>1, <5>1 DEF WholeTask
      <4>2. running'.fd = fd'[c] /\ running'.is = "whole" => pc'[running'.call[1]] # "continues"
        BY <2>1, <3>1, <3>2 DEF WholeTask
      <4> QED  BY <4>1, <4>2 DEF WholeTask
    <3> QED  BY <2>1, <3>1, <3>3 DEF WholeIn
  <2>10. CASE RunTask
    BY <2>1, <2>10 DEF RunTask, WholeIn, WholeTask
  <2>11. CASE Stop
    <3>1. in'[c] = <<>> /\ tasks' = <<>> /\ running' = NoTask
      BY <2>11 DEF Stop
    <3> QED  BY <3>1 DEF WholeIn, WholeTask
  <2>12. CASE UNCHANGED vars \/ FinishAnswer \/ Start
    BY <2>3, <2>12 DEF vars, FinishAnswer, Start
  <2> QED  BY <2>6, <2>7, <2>8, <2>9, <2>10, <2>11, <2>12 DEF Next
<1> QED  BY <1>1, <1>2, <1>3, OwnStep DEF LaneInv

RunInv == LaneInv /\ GaveUp /\ Orphans /\ Wholes

LEMMA RunInit == ASSUME Init PROVE RunInv
<1>1. GaveUp /\ Orphans /\ Wholes
  BY Assumed DEF Init, GaveUp, Orphans, Wholes, PeerGone
<1> QED  BY <1>1, LaneInit DEF RunInv

LEMMA RunStep == ASSUME RunInv, [Next]_vars PROVE RunInv'
<1>1. LaneInv' /\ GaveUp' /\ Orphans' /\ Wholes'
  BY LaneStep, GaveUpStep, OrphansStep, WholesStep DEF RunInv, LaneInv
<1> QED  BY <1>1 DEF RunInv

\* Only RunTask executes a call.
LEMMA ExecutedByRun ==
  ASSUME [Next]_vars, executed' # executed
  PROVE  RunTask
<1>1. ASSUME NEW t \in Threads, Call(t) \/ Interrupted(t) \/ ThreadStep(t)
      PROVE  UNCHANGED executed
  BY <1>1 DEF Call, Interrupted, ThreadStep, Acquire, Write, WriteFails, Receive, ReceiveFails,
              Disconnect, Reconnect
<1>2. ASSUME NEW a \in Apps, Begin(a) \/ Quit(a)
      PROVE  UNCHANGED executed
  BY <1>2 DEF Begin, Quit
<1>3. ASSUME NEW c \in Conns, Serve(c)
      PROVE  UNCHANGED executed
  BY <1>3 DEF Serve, Accept, ReadRequest, CloseDescriptor
<1> QED  BY <1>1, <1>2, <1>3 DEF Next, TakeTask, FinishAnswer, Stop, Start, vars

\* A call is executed while its caller waits for it, unless the caller gave up
\* the connection or an answer can have strayed (RunsInsideItsCall).
THEOREM CallsRunInOrder == Spec => RunsInsideItsCall
<1> DEFINE A == \A k \in Calls :
                  executed'[k] # executed[k] /\ k \notin abandoned /\ stray = {} =>
                      k = Current(k[1]) /\ pc[k[1]] = "waits"
<1>1. ASSUME RunInv, [Next]_vars
      PROVE  A
  <2> SUFFICES ASSUME NEW k \in Calls, executed'[k] # executed[k], k \notin abandoned, stray = {}
               PROVE  k = Current(k[1]) /\ pc[k[1]] = "waits"
    OBVIOUS
  <2>1. RunTask
    BY <1>1, ExecutedByRun
  <2>2. TypeInv /\ running \in Task /\ running # NoTask
    BY <1>1, <2>1 DEF RunTask, RunInv, LaneInv, TypeInv, StubOK
  <2>3. running.is = "whole" /\ k = running.call
    BY <2>1, <2>2 DEF RunTask, TypeInv, HistoryOK
  <2>4. PICK c \in Conns : fd[c] = running.fd
    BY <1>1, <2>2 DEF RunInv, LaneInv, Held
  <2>5. Item(c, "run", 0, k) /\ "run" \in Stages /\ ~PeerGone(c)
    BY <2>2, <2>3, <2>4, TasksHaveFds DEF Item, Stages, PeerGone
  <2>6. PICK a \in Apps : socket[a] = c
    BY <1>1, <2>5 DEF RunInv, Orphans
  <2>7. Now(k) /\ AppOf[k[1]] = a
    BY <1>1, <2>5, <2>6 DEF RunInv, LaneInv, Lanes, Lane, Home
  <2>8. k = Current(k[1]) /\ pc[k[1]] \in InCall /\ k[1] \in Threads
    BY <2>7, CallIs DEF Now
  <2>9. pc[k[1]] # "leaves"
    BY <1>1, <2>6, <2>7, <2>8 DEF RunInv, GaveUp, Here
  <2>10. pc[k[1]] # "continues"
    BY <1>1, <2>2, <2>3, <2>4, <2>6 DEF RunInv, Wholes
  <2> QED  BY <2>8, <2>9, <2>10 DEF InCall
<1> QED  BY RunInit, RunStep, <1>1, PTL DEF Spec, RunsInsideItsCall

-----------------------------------------------------------------------------
(* How often a call is executed.                                           *)

\* What is answered was executed, or cut.
Done(k) == executed[k] > 0 \/ k \in cut
Dones ==
    /\ \A i \in 1 .. Len(tasks) : tasks[i].is = "cut" => tasks[i].call \in cut
    /\ running # NoTask /\ running.is = "cut" => running.call \in cut
    /\ \A c \in Conns : \A i \in 1 .. Len(out[c]) : Done(out[c][i].call)
    /\ answering # NoTask => Done(answering.call)
    /\ \A t \in Threads : got[t] # NoCall => Done(got[t])

LEMMA CutStays ==
  ASSUME TypeInv, [Next]_vars
  PROVE  cut \subseteq cut'
<1>1. ASSUME NEW t \in Threads, Call(t) \/ Interrupted(t) \/ ThreadStep(t)
      PROVE  cut \subseteq cut'
  BY <1>1 DEF Call, Interrupted, ThreadStep, Acquire, Write, WriteFails, Receive, ReceiveFails,
              Disconnect, Reconnect
<1>2. ASSUME NEW a \in Apps, Begin(a) \/ Quit(a)
      PROVE  cut \subseteq cut'
  BY <1>2 DEF Begin, Quit
<1>3. ASSUME NEW c \in Conns, Serve(c)
      PROVE  cut \subseteq cut'
  BY <1>3 DEF Serve, Accept, ReadRequest, CloseDescriptor
<1> QED  BY <1>1, <1>2, <1>3 DEF Next, TakeTask, RunTask, FinishAnswer, Stop, Start, vars

LEMMA ExecutedGrows ==
  ASSUME TypeInv, [Next]_vars, NEW k \in Calls
  PROVE  /\ executed[k] \in Nat /\ executed'[k] \in Nat
         /\ executed'[k] = executed[k] \/
               (RunTask /\ running.is = "whole" /\ running.call = k /\ executed'[k] = executed[k] + 1)
<1>1. executed[k] \in Nat
  BY DEF TypeInv, HistoryOK
<1>2. CASE executed' = executed
  BY <1>1, <1>2
<1>3. CASE executed' # executed
  <2>1. RunTask /\ running.is = "whole" /\ executed' = [executed EXCEPT ![running.call] = @ + 1]
    BY <1>3, ExecutedByRun DEF RunTask
  <2> QED  BY <1>1, <2>1 DEF TypeInv, HistoryOK
<1> QED  BY <1>2, <1>3

LEMMA DoneStays ==
  ASSUME TypeInv, [Next]_vars, NEW k \in Calls, Done(k)
  PROVE  Done(k)'
<1>1. executed[k] > 0 => executed'[k] > 0
  BY ExecutedGrows
<1> QED  BY <1>1, CutStays DEF Done

\* An answer that is there was there, or is that of the task that ran, or its rest.
LEMMA OutStep ==
  ASSUME TypeInv, [Next]_vars, NEW c \in Conns
  PROVE  \/ out'[c] = out[c] \/ out'[c] = <<>>
         \/ RunTask /\ running.is # "rest"
            /\ out'[c] = Append(out[c], [call |-> running.call, part |-> 1])
         \/ FinishAnswer /\ out'[c] = Append(out[c], [call |-> answering.call, part |-> 2])
<1> USE DEF TypeInv
<1>1. ASSUME NEW t \in Threads, Call(t) \/ Interrupted(t) \/ ThreadStep(t)
      PROVE  out'[c] = out[c] \/ out'[c] = <<>>
  BY <1>1, ProxySteps DEF Write, Receive, Dropped, Opened, ConnsOK
<1>2. ASSUME NEW a \in Apps, Begin(a) \/ Quit(a)
      PROVE  out'[c] = out[c] \/ out'[c] = <<>>
  BY <1>2, AppSteps DEF Dropped, Opened, ConnsOK
<1>3. ASSUME NEW d \in Conns, Serve(d)
      PROVE  out'[c] = out[c]
  BY <1>3 DEF Serve, Accept, ReadRequest, CloseDescriptor
<1>4. CASE RunTask
  <2>1. [call |-> running.call, part |-> 1] \in Piece
    BY <1>4 DEF RunTask, StubOK, Task, Piece
  <2>2. out' = IF running.is = "rest" THEN out ELSE Answer(running.fd, [call |-> running.call, part |-> 1])
    BY <1>4 DEF RunTask
  <2> QED  BY <1>4, <2>1, <2>2, AnswerIs
<1>5. CASE FinishAnswer
  <2>1. [call |-> answering.call, part |-> 2] \in Piece
    BY <1>5 DEF FinishAnswer, StubOK, Rest, Piece
  <2> QED  BY <1>5, <2>1, AnswerIs DEF FinishAnswer
<1> QED  BY <1>1, <1>2, <1>3, <1>4, <1>5 DEF Next, TakeTask, Stop, Start, vars

LEMMA TasksStep ==
  ASSUME TypeInv, [Next]_vars
  PROVE  \/ UNCHANGED <<tasks, running>>
         \/ TakeTask \/ RunTask
         \/ (tasks' = <<>> /\ running' = NoTask)
         \/ \E c \in Conns : ReadRequest(c)
<1>1. ASSUME NEW t \in Threads, Call(t) \/ Interrupted(t) \/ ThreadStep(t)
      PROVE  UNCHANGED <<tasks, running>>
  BY <1>1, ProxySteps DEF Write, Receive, Dropped, Opened
<1>2. ASSUME NEW a \in Apps, Begin(a) \/ Quit(a)
      PROVE  UNCHANGED <<tasks, running>>
  BY <1>2, AppSteps DEF Dropped, Opened
<1>3. ASSUME NEW c \in Conns, Serve(c)
      PROVE  UNCHANGED <<tasks, running>> \/ ReadRequest(c)
  BY <1>3 DEF Serve, Accept, CloseDescriptor
<1> QED  BY <1>1, <1>2, <1>3 DEF Next, FinishAnswer, Stop, Start, vars

LEMMA AnsweringStep ==
  ASSUME TypeInv, [Next]_vars
  PROVE  UNCHANGED answering \/ answering' = NoTask \/ (RunTask /\ running.is # "rest")
<1>1. ASSUME NEW t \in Threads, Call(t) \/ Interrupted(t) \/ ThreadStep(t)
      PROVE  UNCHANGED answering
  BY <1>1, ProxySteps DEF Write, Receive, Dropped, Opened
<1>2. ASSUME NEW a \in Apps, Begin(a) \/ Quit(a)
      PROVE  UNCHANGED answering
  BY <1>2, AppSteps DEF Dropped, Opened
<1>3. ASSUME NEW c \in Conns, Serve(c)
      PROVE  UNCHANGED answering
  BY <1>3 DEF Serve, Accept, ReadRequest, CloseDescriptor
<1> QED  BY <1>1, <1>2, <1>3 DEF Next, TakeTask, RunTask, FinishAnswer, Stop, Start, vars

LEMMA DonesStep ==
  ASSUME TypeInv, Dones, [Next]_vars
  PROVE  Dones'
<1>1. cut \subseteq cut'
  BY CutStays
<1>2. /\ \A i \in 1 .. Len(tasks') : tasks'[i].is = "cut" => tasks'[i].call \in cut'
      /\ running' # NoTask /\ running'.is = "cut" => running'.call \in cut'
  <2>1. CASE UNCHANGED <<tasks, running>> \/ (tasks' = <<>> /\ running' = NoTask)
    BY <1>1, <2>1 DEF Dones
  <2>2. CASE TakeTask
    <3>1. /\ tasks \in Seq(Task) /\ Len(tasks) >= 1
          /\ running' = tasks[1] /\ tasks' = Tail(tasks)
      BY <2>2 DEF TakeTask, TypeInv, StubOK
    <3>2. /\ Len(tasks) \in Nat /\ Len(tasks') = Len(tasks) - 1
          /\ \A i \in 1 .. Len(tasks') : tasks'[i] = tasks[i + 1] /\ i + 1 \in 1 .. Len(tasks)
      BY <3>1
    <3> QED  BY <1>1, <3>1, <3>2 DEF Dones
  <2>3. CASE RunTask
    BY <1>1, <2>3 DEF RunTask, Dones
  <2>4. ASSUME NEW c \in Conns, ReadRequest(c)
        PROVE  /\ \A i \in 1 .. Len(tasks') : tasks'[i].is = "cut" => tasks'[i].call \in cut'
               /\ running' # NoTask /\ running'.is = "cut" => running'.call \in cut'
    <3> DEFINE x == [call |-> Head(in[c]).call, is |-> Taken(in[c]), fd |-> fd[c]]
    <3>1. x \in Task /\ tasks' = Pushed(x)
      BY <2>4, ReadIs DEF TypeInv
    <3>2. tasks \in Seq(Task) /\ Len(tasks) \in Nat /\ UNCHANGED running
      BY <2>4 DEF ReadRequest, TypeInv, StubOK
    <3>3. x.is = "cut" => x.call \in cut'
      BY <2>4 DEF ReadRequest
    <3> HIDE DEF x
    <3>4. /\ Len(tasks') = Len(tasks) + 1 /\ tasks'[1] = x
          /\ \A i \in 1 .. Len(tasks) : tasks'[i + 1] = tasks[i]
      BY <3>1, <3>2, PushedIs
    <3>5. ASSUME NEW i \in 1 .. Len(tasks'), tasks'[i].is = "cut"
          PROVE  tasks'[i].call \in cut'
      <4>1. CASE i = 1
        BY <3>3, <3>4, <3>5, <4>1
      <4>2. CASE i # 1
        <5>1. i - 1 \in 1 .. Len(tasks) /\ tasks'[i] = tasks[i - 1]
          BY <3>2, <3>4, <4>2
        <5> QED  BY <1>1, <3>5, <5>1 DEF Dones
      <4> QED  BY <4>1, <4>2
    <3> QED  BY <1>1, <3>2, <3>5 DEF Dones
  <2> QED  BY <2>1, <2>2, <2>3, <2>4, TasksStep
<1>3. RunTask /\ running.is # "rest" => \E k \in Calls : k = running.call /\ Done(k)'
  <2> SUFFICES ASSUME RunTask, running.is # "rest", NEW k, k = running.call
               PROVE  k \in Calls /\ Done(k)'
    OBVIOUS
  <2>1. running # NoTask /\ k \in Calls /\ running.is \in {"whole", "cut"}
    BY DEF RunTask, TypeInv, StubOK, Task
  <2>2. CASE running.is = "whole"
    <3>1. executed' = [executed EXCEPT ![k] = executed[k] + 1] /\ executed[k] \in Nat
      BY <2>1, <2>2 DEF RunTask, TypeInv, HistoryOK
    <3>2. executed'[k] > 0
      BY <2>1, <3>1 DEF TypeInv, HistoryOK
    <3> QED  BY <2>1, <3>2 DEF Done
  <2>3. CASE running.is = "cut"
    BY <1>1, <2>1, <2>3 DEF Dones, Done
  <2> QED  BY <2>1, <2>2, <2>3
<1>4. FinishAnswer => \E k \in Calls : k = answering.call /\ Done(k)'
  <2> SUFFICES ASSUME FinishAnswer
               PROVE  \E k \in Calls : k = answering.call /\ Done(k)'
    OBVIOUS
  <2>1. answering # NoTask /\ answering.call \in Calls /\ Done(answering.call)
    BY DEF FinishAnswer, TypeInv, StubOK, Rest, Dones
  <2> QED  BY <2>1, DoneStays
<1>5. ASSUME NEW c \in Conns, NEW i \in 1 .. Len(out'[c])
      PROVE  \E k \in Calls : k = out'[c][i].call /\ Done(k)'
  <2>0. out[c] \in Seq(Piece) /\ Len(out[c]) \in Nat
    BY DEF TypeInv, ConnsOK
  <2>1. \A j \in 1 .. Len(out[c]) : out[c][j].call \in Calls
    <3>1. \A x \in Piece : x.call \in Calls
      BY DEF Piece
    <3> QED  BY <2>0, <3>1
  <2>2. ASSUME i \in 1 .. Len(out[c]), out'[c][i] = out[c][i]
        PROVE  \E k \in Calls : k = out'[c][i].call /\ Done(k)'
    <3>1. out[c][i].call \in Calls /\ Done(out[c][i].call)
      BY <2>1, <2>2 DEF Dones
    <3> QED  BY <2>2, <3>1, DoneStays
  <2>3. CASE out'[c] = out[c]
    BY <1>5, <2>2, <2>3
  <2>4. CASE out'[c] = <<>>
    BY <1>5, <2>4
  <2>5. ASSUME NEW k \in Calls, Done(k)', NEW n, out'[c] = Append(out[c], [call |-> k, part |-> n])
        PROVE  \E l \in Calls : l = out'[c][i].call /\ Done(l)'
    <3>1. i \in 1 .. Len(out[c]) + 1
          /\ out'[c][i] = IF i = Len(out[c]) + 1 THEN [call |-> k, part |-> n] ELSE out[c][i]
      BY <1>5, <2>0, <2>5
    <3> QED  BY <2>0, <2>2, <2>5, <3>1
  <2> QED  BY <1>3, <1>4, <2>3, <2>4, <2>5, OutStep
<1>6. answering' # NoTask => \E k \in Calls : k = answering'.call /\ Done(k)'
  <2>1. CASE UNCHANGED answering
    <3>1. answering # NoTask => answering.call \in Calls /\ Done(answering.call)
      BY DEF TypeInv, StubOK, Rest, Dones
    <3> QED  BY <2>1, <3>1, DoneStays
  <2>2. CASE RunTask /\ running.is # "rest"
    <3>1. answering' # NoTask => answering'.call = running.call
      BY <2>2 DEF RunTask
    <3> QED  BY <1>3, <2>2, <3>1
  <2> QED  BY <2>1, <2>2, AnsweringStep
<1>7. ASSUME NEW t \in Threads, got'[t] # NoCall
      PROVE  \E k \in Calls : k = got'[t] /\ Done(k)'
  <2>1. CASE got'[t] = got[t]
    BY <1>7, <2>1, DoneStays DEF Dones, TypeInv, ThreadsOK
  <2>2. CASE /\ got'[t] \in Calls /\ Here(t) \in Conns
             /\ \E i \in 1 .. Len(out[Here(t)]) : got'[t] = out[Here(t)][i].call
    BY <2>2, DoneStays DEF Dones
  <2> QED  BY <1>7, <2>1, <2>2, GotStep
<1> QED  BY <1>2, <1>5, <1>6, <1>7 DEF Dones, Done

\* The first pieces and whole requests of k that are not executed yet
Pending(k) ==
    {x \in {"in", "task", "run"} \X (Conns \cup {NoConn}) \X Nat :
        \/ /\ x[1] = "in" /\ x[2] \in Conns /\ x[3] \in 1 .. Len(in[x[2]])
           /\ in[x[2]][x[3]].part = 1 /\ in[x[2]][x[3]].call = k
        \/ /\ x[1] = "task" /\ x[2] = NoConn /\ x[3] \in 1 .. Len(tasks)
           /\ tasks[x[3]].is = "whole" /\ tasks[x[3]].call = k
        \/ /\ x[1] = "run" /\ x[2] = NoConn /\ x[3] = 0 /\ running # NoTask
           /\ running.is = "whole" /\ running.call = k}

\* How often k has been sent: once before its caller leaves the connection
Sent(k) ==
    LET t == k[1]
    IN  IF k[2] > made[t] \/ (k[2] = made[t] /\ pc[t] = "wants") THEN 0
        ELSE IF k[2] < made[t] THEN 2
        ELSE IF pc[t] = "sends" THEN (IF tried[t] THEN 1 ELSE 0)
        ELSE IF pc[t] \in {"leaves", "reconnects"} THEN 1
        ELSE IF tried[t] THEN 2 ELSE 1

AtMost(n, S) ==
    /\ n = 0 => S = {}
    /\ n = 1 => \A x, y \in S : x = y
    /\ n = 2 => \A x, y, z \in S : x = y \/ y = z \/ x = z

\* What is executed and what is pending is no more than what was sent.
Balance(k) == executed[k] <= Sent(k) /\ AtMost(Sent(k) - executed[k], Pending(k))

LEMMA SentIs ==
  ASSUME NEW k \in Calls
  PROVE  Sent(k) \in {0, 1, 2}
  BY DEF Sent

LEMMA Fewer ==
  ASSUME NEW n \in {0, 1, 2}, NEW m \in {0, 1, 2}, n <= m, NEW S, AtMost(n, S),
         NEW T, NEW f, \A x \in T : f[x] \in S, \A x, y \in T : f[x] = f[y] => x = y
  PROVE  AtMost(m, T)
<1>1. AtMost(n, T)
  BY DEF AtMost
<1> QED  BY <1>1 DEF AtMost

\* A step that sends nothing and executes nothing.
LEMMA BalanceKept ==
  ASSUME NEW k \in Calls, TypeInv, Balance(k), executed'[k] = executed[k], Sent(k) <= Sent(k)',
         NEW f, \A x \in Pending(k)' : f[x] \in Pending(k),
         \A x, y \in Pending(k)' : f[x] = f[y] => x = y
  PROVE  Balance(k)'
<1> DEFINE n == Sent(k) - executed[k]
           m == Sent(k)' - executed[k]
<1>1. executed[k] \in Nat /\ Sent(k) \in {0, 1, 2} /\ Sent(k)' \in {0, 1, 2}
  <2>1. executed[k] \in Nat
    BY DEF TypeInv, HistoryOK
  <2>2. Sent(k)' \in {0, 1, 2}
    BY DEF Sent
  <2> QED  BY <2>1, <2>2, SentIs
<1>2. n \in {0, 1, 2} /\ m \in {0, 1, 2} /\ n <= m /\ executed[k] <= Sent(k)'
  BY <1>1 DEF Balance
<1>3. AtMost(n, Pending(k))
  BY DEF Balance
<1> HIDE DEF n, m
<1>4. AtMost(m, Pending(k)')
  BY <1>2, <1>3, Fewer
<1> QED  BY <1>2, <1>4 DEF Balance, m

LEMMA BalanceAlone ==
  ASSUME NEW k \in Calls, TypeInv, Balance(k), executed'[k] = executed[k], Sent(k) <= Sent(k)',
         Pending(k)' \subseteq Pending(k)
  PROVE  Balance(k)'
<1> DEFINE f == [x \in Pending(k)' |-> x]
<1>1. /\ \A x \in Pending(k)' : f[x] \in Pending(k)
      /\ \A x, y \in Pending(k)' : f[x] = f[y] => x = y
  OBVIOUS
<1> HIDE DEF f
<1> QED  BY <1>1, BalanceKept

\* What was sent stays sent; a first piece is one try more.
LEMMA SentByThread ==
  ASSUME TypeInv, NEW k \in Calls, NEW t \in Threads, t = k[1],
         Call(t) \/ Interrupted(t) \/ ThreadStep(t)
  PROVE  /\ Sent(k) <= Sent(k)'
         /\ Write(t) /\ pc[t] = "sends" /\ k = Current(t) => Sent(k)' = Sent(k) + 1
<1> USE DEF Sent
<1>1. /\ k[2] \in Nat /\ made[t] \in Nat /\ tried[t] \in BOOLEAN
      /\ pc[t] \in {"idle", "wants", "sends", "continues", "waits", "leaves", "reconnects"}
      /\ k = <<t, k[2]>> /\ t \in DOMAIN pc /\ t \in DOMAIN made /\ t \in DOMAIN tried
  BY CallIs, Assumed DEF TypeInv, ThreadsOK
<1>2. CASE Call(t)
  BY <1>1, <1>2 DEF Call, Write
<1>3. CASE Acquire(t)
  BY <1>1, <1>3 DEF Acquire, Write
<1>4. CASE Write(t)
  <2>1. /\ made' = made /\ tried' = tried /\ pc[t] \in {"sends", "continues"}
        /\ pc'[t] \in {"continues", "waits"}
    BY <1>1, <1>4 DEF Write
  <2>2. k = Current(t) => k[2] = made[t]
    BY <1>1 DEF Current
  <2> QED  BY <1>1, <2>1, <2>2
<1>5. ASSUME GiveUp(t), UNCHANGED <<made, tried>>, pc[t] \in {"sends", "continues", "waits"}, ~Write(t)
      PROVE  Sent(k) <= Sent(k)'
  <2>1. pc'[t] = IF tried[t] THEN "idle" ELSE "leaves"
    BY <1>1, <1>5 DEF GiveUp, Returns
  <2> QED  BY <1>1, <1>5, <2>1
<1>6. CASE WriteFails(t) /\ ~Write(t)
  BY <1>5, <1>6 DEF WriteFails
<1>7. CASE (ReceiveFails(t) \/ Interrupted(t)) /\ ~Write(t)
  BY <1>5, <1>7 DEF ReceiveFails, Interrupted
<1>8. CASE Receive(t) /\ ~Write(t)
  <2>1. Returns(t, Head(out[Here(t)]).call) \/ GiveUp(t)
    BY <1>8 DEF Receive
  <2> QED  BY <1>1, <1>5, <1>8, <2>1 DEF Receive, Returns
<1>9. CASE Disconnect(t) /\ ~Write(t)
  BY <1>1, <1>9 DEF Disconnect
<1>10. CASE Reconnect(t) /\ ~Write(t)
  <2>1. /\ made' = made /\ pc[t] = "reconnects"
        /\ (pc'[t] = "sends" /\ tried'[t] = TRUE) \/ (pc'[t] = "idle" /\ tried' = tried)
    BY <1>1, <1>10 DEF Reconnect, Returns
  <2> QED  BY <1>1, <2>1
<1> QED  BY <1>2, <1>3, <1>4, <1>6, <1>7, <1>8, <1>9, <1>10 DEF ThreadStep

LEMMA SentStep ==
  ASSUME TypeInv, [Next]_vars, NEW k \in Calls
  PROVE  Sent(k) <= Sent(k)'
<1> DEFINE t == k[1]
<1>1. t \in Threads /\ k[2] \in Nat
  BY CallIs, Assumed
<1>2. CASE Call(t) \/ Interrupted(t) \/ ThreadStep(t)
  BY <1>1, <1>2, SentByThread
<1>3. CASE pc'[t] = pc[t] /\ made'[t] = made[t] /\ tried'[t] = tried[t]
  BY <1>3 DEF Sent
<1>4. ASSUME NEW u \in Threads, u # t, Call(u) \/ Interrupted(u) \/ ThreadStep(u)
      PROVE  pc'[t] = pc[t] /\ made'[t] = made[t] /\ tried'[t] = tried[t]
  BY <1>1, <1>4 DEF Call, Interrupted, ThreadStep, Acquire, Write, WriteFails, Receive, ReceiveFails,
                    Disconnect, Reconnect, GiveUp, Returns, TypeInv, ThreadsOK
<1>5. ASSUME NEW a \in Apps, Begin(a) \/ Quit(a)
      PROVE  Sent(k) <= Sent(k)'
  <2>1. made' = made /\ tried' = tried /\ pc'[t] \in {pc[t], "idle"}
    BY <1>1, <1>5 DEF Begin, Quit, TypeInv, ThreadsOK
  <2> QED  BY <1>1, <2>1 DEF Sent, TypeInv, ThreadsOK
<1> QED  BY <1>1, <1>2, <1>3, <1>4, <1>5, StubSteps DEF Next

LEMMA PendingAlone ==
  ASSUME NEW k \in Calls, UNCHANGED <<tasks, running>>,
         \A c \in Conns : in'[c] = in[c] \/ in'[c] = <<>>
  PROVE  Pending(k)' \subseteq Pending(k)
  BY DEF Pending

LEMMA BalanceByWrite ==
  ASSUME NEW k \in Calls, TypeInv, Balance(k), NEW t \in Threads, Write(t)
  PROVE  Balance(k)'
<1> DEFINE c == Here(t)
           w == [call |-> Current(t), part |-> Part(t)]
           e == <<"in", c, Len(in[c]) + 1>>
<1>1. c \in Conns /\ in[c] \in Seq(Piece) /\ Len(in[c]) \in Nat
  BY DEF Write, TypeInv, ConnsOK
<1>2. in' = [in EXCEPT ![c] = Append(in[c], w)] /\ UNCHANGED <<tasks, running, executed>>
  BY DEF Write
<1>3. /\ Len(in'[c]) = Len(in[c]) + 1
      /\ \A i \in 1 .. Len(in'[c]) : in'[c][i] = IF i = Len(in[c]) + 1 THEN w ELSE in[c][i]
      /\ \A d \in Conns : d # c => in'[d] = in[d]
  BY <1>1, <1>2 DEF TypeInv, ConnsOK
<1>4. w.call = Current(t) /\ w.part = Part(t) /\ e[1] = "in" /\ e[2] = c /\ e[3] = Len(in[c]) + 1
  OBVIOUS
<1> HIDE DEF c, w
<1>5. Pending(k)' \subseteq Pending(k) \cup (IF w.part = 1 /\ w.call = k THEN {e} ELSE {})
  <2> SUFFICES ASSUME NEW x \in Pending(k)', x \notin Pending(k)
               PROVE  w.part = 1 /\ w.call = k /\ x = e
    OBVIOUS
  <2>1. x[1] = "in" /\ x[2] \in Conns /\ x[3] \in 1 .. Len(in'[x[2]])
        /\ in'[x[2]][x[3]].part = 1 /\ in'[x[2]][x[3]].call = k /\ x = <<x[1], x[2], x[3]>>
    BY <1>2 DEF Pending
  <2>2. x[2] = c
    BY <1>3, <2>1 DEF Pending
  <2>3. x[3] = Len(in[c]) + 1
    BY <1>1, <1>3, <2>1, <2>2 DEF Pending
  <2> QED  BY <1>3, <2>1, <2>2, <2>3
<1>6. CASE ~(w.part = 1 /\ w.call = k)
  <2>1. Pending(k)' \subseteq Pending(k) /\ executed'[k] = executed[k]
    BY <1>2, <1>5, <1>6
  <2>2. Sent(k) <= Sent(k)'
    BY SentStep DEF Next, ThreadStep
  <2> QED  BY <2>1, <2>2, BalanceAlone
<1>7. CASE w.part = 1 /\ w.call = k
  <2>1. pc[t] = "sends" /\ k = Current(t) /\ k[1] = t
    BY <1>4, <1>7 DEF Part, Current
  <2>2. Sent(k)' = Sent(k) + 1
    BY <2>1, SentByThread DEF ThreadStep
  <2>3. executed[k] \in Nat /\ Sent(k) \in {0, 1, 2} /\ Sent(k)' \in {0, 1, 2} /\ executed'[k] = executed[k]
    <3>1. Sent(k)' \in {0, 1, 2}
      BY DEF Sent
    <3> QED  BY <1>2, <3>1, SentIs DEF TypeInv, HistoryOK
  <2> DEFINE n == Sent(k) - executed[k]
  <2>4. n \in {0, 1} /\ Sent(k)' - executed'[k] = n + 1 /\ executed'[k] <= Sent(k)'
    BY <2>2, <2>3 DEF Balance
  <2>5. AtMost(n, Pending(k))
    BY DEF Balance
  <2> HIDE DEF n
  <2>6. AtMost(n + 1, Pending(k)')
    BY <1>5, <1>7, <2>4, <2>5 DEF AtMost
  <2> QED  BY <2>4, <2>6 DEF Balance
<1> QED  BY <1>6, <1>7

LEMMA BalanceByTake ==
  ASSUME NEW k \in Calls, TypeInv, Balance(k), TakeTask
  PROVE  Balance(k)'
<1>1. /\ tasks \in Seq(Task) /\ Len(tasks) \in Nat /\ Len(tasks) >= 1 /\ running = NoTask
      /\ running' = tasks[1] /\ tasks' = Tail(tasks) /\ UNCHANGED <<in, executed>>
  BY DEF TakeTask, TypeInv, StubOK
<1>2. /\ Len(tasks') = Len(tasks) - 1
      /\ \A i \in 1 .. Len(tasks') : tasks'[i] = tasks[i + 1] /\ i + 1 \in 1 .. Len(tasks)
  BY <1>1
<1> DEFINE f == [x \in Pending(k)' |-> IF x[1] = "in" THEN x ELSE <<"task", NoConn, x[3] + 1>>]
<1>3. ASSUME NEW x \in Pending(k)'
      PROVE  /\ f[x] \in Pending(k) /\ x[3] \in Nat /\ x = <<x[1], x[2], x[3]>>
             /\ x[1] = "in" \/ (x[1] = "task" /\ x[2] = NoConn /\ x[3] >= 1)
                            \/ (x[1] = "run" /\ x[2] = NoConn /\ x[3] = 0)
  <2>1. x \in {"in", "task", "run"} \X (Conns \cup {NoConn}) \X Nat
    BY DEF Pending
  <2>2. CASE x[1] = "in"
    <3>1. x \in Pending(k)
      BY <1>1, <2>2 DEF Pending
    <3>2. f[x] = x
      BY <2>2
    <3> QED  BY <2>1, <2>2, <3>1, <3>2
  <2>3. CASE x[1] = "task"
    <3>1. x[2] = NoConn /\ x[3] \in 1 .. Len(tasks') /\ tasks'[x[3]].is = "whole" /\ tasks'[x[3]].call = k
      BY <2>3 DEF Pending
    <3>2. <<"task", NoConn, x[3] + 1>> \in Pending(k)
      BY <1>1, <1>2, <3>1 DEF Pending
    <3> QED  BY <1>1, <1>2, <2>1, <2>3, <3>1, <3>2
  <2>4. CASE x[1] = "run"
    <3>1. x[2] = NoConn /\ x[3] = 0 /\ running'.is = "whole" /\ running'.call = k
      BY <2>4 DEF Pending
    <3>2. <<"task", NoConn, 1>> \in Pending(k)
      BY <1>1, <3>1 DEF Pending
    <3> QED  BY <2>1, <2>4, <3>1, <3>2
  <2> QED  BY <2>1, <2>2, <2>3, <2>4
<1>4. \A x, y \in Pending(k)' : f[x] = f[y] => x = y
  <2> SUFFICES ASSUME NEW x \in Pending(k)', NEW y \in Pending(k)', f[x] = f[y] PROVE x = y
    OBVIOUS
  <2>1. f[x] = IF x[1] = "in" THEN x ELSE <<"task", NoConn, x[3] + 1>>
    OBVIOUS
  <2>2. f[y] = IF y[1] = "in" THEN y ELSE <<"task", NoConn, y[3] + 1>>
    OBVIOUS
  <2> QED  BY <1>3, <2>1, <2>2
<1>5. \A x \in Pending(k)' : f[x] \in Pending(k)
  BY <1>3
<1> HIDE DEF f
<1>6. Sent(k) <= Sent(k)' /\ executed'[k] = executed[k]
  BY <1>1, SentStep DEF Next
<1> QED  BY <1>4, <1>5, <1>6, BalanceKept

LEMMA BalanceByRead ==
  ASSUME NEW k \in Calls, TypeInv, Balance(k), NEW c \in Conns, ReadRequest(c)
  PROVE  Balance(k)'
<1> DEFINE r == [call |-> Head(in[c]).call, is |-> Taken(in[c]), fd |-> fd[c]]
<1>1. /\ in[c] \in Seq(Piece) /\ Len(in[c]) >= 1 /\ in[c][1] \in Piece /\ Head(in[c]) = in[c][1]
      /\ r \in Task /\ tasks' = Pushed(r)
  BY ReadIs DEF TypeInv
<1>2. /\ tasks \in Seq(Task) /\ Len(tasks) \in Nat /\ UNCHANGED <<running, executed>>
      /\ in'[c] = <<>> /\ \A d \in Conns : d # c => in'[d] = in[d]
  BY DEF ReadRequest, TypeInv, StubOK, ConnsOK
<1>3. r.is = "whole" => in[c][1].part = 1 /\ r.call = in[c][1].call
  BY <1>1 DEF Taken, Piece
<1> HIDE DEF r
<1>4. /\ Len(tasks') = Len(tasks) + 1 /\ tasks'[1] = r
      /\ \A i \in 1 .. Len(tasks) : tasks'[i + 1] = tasks[i]
  BY <1>1, <1>2, PushedIs
<1> DEFINE f == [x \in Pending(k)' |->
                   IF x[1] # "task" THEN x
                   ELSE IF x[3] = 1 THEN <<"in", c, 1>> ELSE <<"task", NoConn, x[3] - 1>>]
<1>5. ASSUME NEW x \in Pending(k)'
      PROVE  /\ f[x] \in Pending(k) /\ x[3] \in Nat /\ x = <<x[1], x[2], x[3]>>
             /\ x[1] = "task" => x[2] = NoConn /\ x[3] >= 1
             /\ x[1] = "in" => x[2] # c
  <2>1. x \in {"in", "task", "run"} \X (Conns \cup {NoConn}) \X Nat
    BY DEF Pending
  <2>2. CASE x[1] # "task"
    <3>1. x[1] = "in" => x[2] # c
      BY <1>2 DEF Pending
    <3>2. x \in Pending(k)
      BY <1>2, <2>2, <3>1 DEF Pending
    <3>3. f[x] = x
      BY <2>2
    <3> QED  BY <2>1, <2>2, <3>1, <3>2, <3>3
  <2>3. CASE x[1] = "task" /\ x[3] = 1
    <3>1. tasks'[1].is = "whole" /\ tasks'[1].call = k /\ x[2] = NoConn
      BY <2>3 DEF Pending
    <3>2. <<"in", c, 1>> \in Pending(k)
      BY <1>1, <1>3, <1>4, <3>1 DEF Pending
    <3>3. f[x] = <<"in", c, 1>>
      BY <2>3
    <3> QED  BY <2>1, <2>3, <3>1, <3>2, <3>3
  <2>4. CASE x[1] = "task" /\ x[3] # 1
    <3>1. x[2] = NoConn /\ x[3] \in 1 .. Len(tasks') /\ tasks'[x[3]].is = "whole" /\ tasks'[x[3]].call = k
      BY <2>4 DEF Pending
    <3>2. x[3] - 1 \in 1 .. Len(tasks) /\ tasks'[x[3]] = tasks[x[3] - 1]
      BY <1>2, <1>4, <2>4, <3>1
    <3>3. <<"task", NoConn, x[3] - 1>> \in Pending(k)
      BY <3>1, <3>2 DEF Pending
    <3>4. f[x] = <<"task", NoConn, x[3] - 1>>
      BY <2>4
    <3> QED  BY <2>1, <2>4, <3>1, <3>3, <3>4
  <2> QED  BY <2>2, <2>3, <2>4
<1>6. \A x, y \in Pending(k)' : f[x] = f[y] => x = y
  <2> SUFFICES ASSUME NEW x \in Pending(k)', NEW y \in Pending(k)', f[x] = f[y] PROVE x = y
    OBVIOUS
  <2>1. f[x] = IF x[1] # "task" THEN x
               ELSE IF x[3] = 1 THEN <<"in", c, 1>> ELSE <<"task", NoConn, x[3] - 1>>
    OBVIOUS
  <2>2. f[y] = IF y[1] # "task" THEN y
               ELSE IF y[3] = 1 THEN <<"in", c, 1>> ELSE <<"task", NoConn, y[3] - 1>>
    OBVIOUS
  <2> QED  BY <1>5, <2>1, <2>2
<1>7. \A x \in Pending(k)' : f[x] \in Pending(k)
  BY <1>5
<1> HIDE DEF f
<1>8. Sent(k) <= Sent(k)' /\ executed'[k] = executed[k]
  BY <1>2, SentStep DEF Next, Serve
<1> QED  BY <1>6, <1>7, <1>8, BalanceKept

LEMMA BalanceByRun ==
  ASSUME NEW k \in Calls, TypeInv, Balance(k), RunTask
  PROVE  Balance(k)'
<1> DEFINE e == <<"run", NoConn, 0>>
<1>1. running \in Task /\ running # NoTask /\ running' = NoTask /\ UNCHANGED <<in, tasks>>
  BY DEF RunTask, TypeInv, StubOK
<1>2. Pending(k)' \subseteq Pending(k) /\ e \notin Pending(k)'
  BY <1>1 DEF Pending
<1>3. Sent(k)' = Sent(k) /\ executed[k] \in Nat
  BY DEF RunTask, Sent, TypeInv, HistoryOK
<1>4. CASE running.is = "whole" /\ running.call = k
  <2>1. executed'[k] = executed[k] + 1
    BY <1>3, <1>4 DEF RunTask, TypeInv, HistoryOK
  <2>2. e \in Pending(k)
    BY <1>1, <1>4 DEF Pending
  <2> DEFINE n == Sent(k) - executed[k]
  <2>3. n \in {0, 1, 2}
    BY <1>3, SentIs DEF Balance
  <2>4. AtMost(n, Pending(k))
    BY DEF Balance
  <2> HIDE DEF n
  <2>5. n # 0 /\ AtMost(n - 1, Pending(k)')
    BY <1>2, <2>2, <2>3, <2>4 DEF AtMost
  <2>6. executed'[k] <= Sent(k)' /\ Sent(k)' - executed'[k] = n - 1
    BY <1>3, <2>1, <2>3, <2>5, SentIs DEF n
  <2> QED  BY <2>5, <2>6 DEF Balance
<1>5. CASE ~(running.is = "whole" /\ running.call = k)
  <2>1. executed'[k] = executed[k]
    BY <1>3, <1>5 DEF RunTask, TypeInv, HistoryOK
  <2> QED  BY <1>2, <1>3, <2>1, BalanceAlone, SentIs
<1> QED  BY <1>4, <1>5

LEMMA BalanceStep ==
  ASSUME TypeInv, [Next]_vars, NEW k \in Calls, Balance(k)
  PROVE  Balance(k)'
<1> USE DEF TypeInv
<1>1. Sent(k) <= Sent(k)'
  BY SentStep
<1>2. CASE /\ UNCHANGED <<tasks, running>> /\ executed' = executed
           /\ \A c \in Conns : in'[c] = in[c] \/ in'[c] = <<>>
  BY <1>1, <1>2, PendingAlone, BalanceAlone
<1>3. ASSUME NEW t \in Threads, Call(t) \/ Interrupted(t) \/ ThreadStep(t)
      PROVE  Balance(k)'
  <2>1. executed' = executed
    BY <1>3 DEF Call, Interrupted, ThreadStep, Acquire, Write, WriteFails, Receive, ReceiveFails,
                Disconnect, Reconnect
  <2>2. CASE Write(t)
    BY <2>2, BalanceByWrite
  <2>3. CASE UNCHANGED <<socket, conns, daemon>> \/ Receive(t)
    BY <1>2, <2>1, <2>3 DEF Receive
  <2>4. CASE Dropped(AppOf[t]) \/ \E c \in Conns : Opened(AppOf[t], c)
    BY <1>2, <2>1, <2>4 DEF Dropped, Opened, ConnsOK
  <2> QED  BY <1>3, <2>2, <2>3, <2>4, ProxySteps
<1>4. ASSUME NEW a \in Apps, Begin(a) \/ Quit(a)
      PROVE  Balance(k)'
  <2>1. executed' = executed
    BY <1>4 DEF Begin, Quit
  <2> QED  BY <1>2, <1>4, <2>1, AppSteps DEF Dropped, Opened, ConnsOK
<1>5. ASSUME NEW c \in Conns, Serve(c)
      PROVE  Balance(k)'
  <2>1. CASE Accept(c) \/ CloseDescriptor(c)
    BY <1>2, <2>1 DEF Accept, CloseDescriptor
  <2> QED  BY <1>5, <2>1, BalanceByRead DEF Serve
<1>6. CASE Stop
  <2>1. Pending(k)' = {} /\ executed' = executed
    BY <1>6 DEF Stop, Pending, NoTask
  <2> QED  BY <1>1, <2>1, BalanceAlone
<1>7. CASE FinishAnswer \/ Start \/ UNCHANGED vars
  BY <1>2, <1>7 DEF FinishAnswer, Start, vars
<1> QED  BY <1>3, <1>4, <1>5, <1>6, <1>7, BalanceByTake, BalanceByRun DEF Next

\* A call that came back with its own answer was executed unless it was read in
\* parts, and twice only if it was tried twice (AnsweredWasExecuted): an answer
\* is that of an execution, and no piece of a request is executed that was not
\* sent.
THEOREM AnswersTellExecutions == Spec => []AnsweredWasExecuted
<1> DEFINE Balances == \A k \in Calls : Balance(k)
<1>1. Init => Dones /\ Balances
  <2> SUFFICES ASSUME Init PROVE Dones /\ Balances
    OBVIOUS
  <2>1. /\ \A c \in Conns : in[c] = <<>> /\ out[c] = <<>>
        /\ tasks = <<>> /\ running = NoTask /\ answering = NoTask
        /\ \A t \in Threads : got[t] = NoCall
    BY DEF Init
  <2>2. Dones
    BY <2>1 DEF Dones
  <2>3. ASSUME NEW k \in Calls
        PROVE  Balance(k)
    <3>1. Pending(k) = {} /\ executed[k] = 0
      BY <2>1 DEF Pending, Init
    <3>2. Sent(k) \in {0, 1, 2}
      BY SentIs
    <3> QED  BY <3>1, <3>2 DEF Balance, AtMost
  <2> QED  BY <2>2, <2>3
<1>2. TypeInv /\ Dones /\ Balances /\ [Next]_vars => Dones' /\ Balances'
  BY DonesStep, BalanceStep
<1>3. TypeInv /\ Dones /\ Balances => AnsweredWasExecuted
  <2> SUFFICES ASSUME TypeInv, Dones, Balances, NEW t \in Threads, got[t] = Current(t)
               PROVE  /\ executed[got[t]] = 0 => got[t] \in cut
                      /\ executed[got[t]] <= IF tried[t] THEN 2 ELSE 1
    BY DEF AnsweredWasExecuted
  <2> DEFINE k == Current(t)
  <2>1. k # NoCall /\ k[1] = t /\ k[2] = made[t]
    BY DEF Current, NoCall
  <2>2. k \in Calls
    BY <2>1 DEF TypeInv, ThreadsOK
  <2>3. executed[k] \in Nat /\ tried[t] \in BOOLEAN /\ made[t] \in Nat
    BY <2>2 DEF TypeInv, ThreadsOK, HistoryOK
  <2>4. executed[k] > 0 \/ k \in cut
    BY <2>1 DEF Dones, Done
  <2>5. executed[k] <= Sent(k)
    BY <2>2 DEF Balance
  <2>6. Sent(k) <= IF tried[t] THEN 2 ELSE 1
    BY <2>1, <2>3 DEF Sent
  <2>7. Sent(k) \in {0, 1, 2}
    BY <2>2, SentIs
  <2> QED  BY <2>3, <2>4, <2>5, <2>6, <2>7
<1> QED  BY TypeInit, TypeStep, <1>1, <1>2, <1>3, PTL DEF Spec
=============================================================================
