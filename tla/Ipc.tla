-------------------------------- MODULE Ipc -------------------------------
(***************************************************************************)
(* The exchange of a request and its answer between the applications and   *)
(* the daemon (email-ipc).  A process has one socket, used by its threads  *)
(* under proxy_mutex; a call is sent and waited for without a time limit,  *)
(* and sent once more over a new connection when anything goes wrong.  In  *)
(* the daemon an epoll thread accepts, reads and closes, and puts what it  *)
(* reads on a stack of tasks, which one task thread runs.  An answer goes  *)
(* to a descriptor, whoever has that descriptor by then.  Either side      *)
(* takes what has arrived for the whole, and a large request or answer     *)
(* arrives in two pieces.                                                  *)
(***************************************************************************)
EXTENDS Naturals, Sequences, FiniteSets

CONSTANTS
    Apps, Threads, AppOf,  \* the processes and their threads
    Conns,                 \* connections that may exist at a time
    MaxCalls,              \* how many calls each thread makes
    Works                  \* [long, large, faults]: the threads whose requests, and those
                           \* whose answers, arrive in two pieces; stops, quits and
                           \* interruptions that happen

NoThread == "nothread"
NoConn == "noconnection"            \* proxy_socket_fd is 0
Unconnected == "unconnected"         \* a socket whose connect failed
NoCall == <<>>
NoFd == 0

ASSUME IpcAssumption ==
    /\ MaxCalls \in [Threads -> Nat] /\ IsFiniteSet(Conns)
    /\ Works \subseteq [long : SUBSET Threads, large : SUBSET Threads, faults : Nat]
    /\ AppOf \in [Threads -> Apps] /\ NoThread \notin Threads /\ NoConn \notin Conns /\ Unconnected \notin Conns
    /\ NoConn # Unconnected /\ NoCall \notin Threads \X Nat

Calls == UNION {{t} \X (1 .. MaxCalls[t]) : t \in Threads}
Fds == 1 .. Cardinality(Conns)
Piece == [call : Calls, part : {1, 2}]
Task == [call : Calls, is : {"whole", "cut", "rest"}, fd : Fds]
Rest == [call : Calls, fd : Fds]
NoTask == [call |-> NoCall]

VARIABLES
    pc, made, tried,   \* of a thread: where it is, calls made, whether it tries again
    got,               \* of a thread: the call whose answer its last call took
    mutex, socket,     \* of a process: proxy_mutex and proxy_socket_fd
    open, queued, fd,  \* of a connection: the process holds it, it waits to be accepted,
                       \* the daemon's descriptor
    in, out,           \* of a connection: what was written and not read, on either side
    up,                \* whether the daemon runs
    tasks, running,    \* task_queue and the task that is run
    answering,         \* the answer of which a piece is still to be sent
    executed,          \* how often each call was executed
    stray,             \* how an answer may have got to someone else: by a descriptor closed
                       \* while an answer to it was owed, by a socket kept after a failure,
                       \* by an answer taken before all of it had come
    abandoned,         \* calls whose connection was given up before the answer
    cut,               \* calls whose request was read in two parts
    long, large, left  \* of the work: the threads of long requests and of large answers,
                       \* faults to come

vars == <<pc, made, tried, got, mutex, socket, open, queued, fd, in, out, up, tasks, running,
          answering, executed, stray, abandoned, cut, long, large, left>>
thread == <<pc, made, tried, got, mutex, socket>>
conns == <<open, queued, fd, in, out>>
daemon == <<up, tasks, running, answering>>
history == <<executed, stray, abandoned, cut, long, large, left>>

Init ==
    /\ pc = [t \in Threads |-> "idle"] /\ made = [t \in Threads |-> 0]
    /\ tried = [t \in Threads |-> FALSE] /\ got = [t \in Threads |-> NoCall]
    /\ mutex = [a \in Apps |-> NoThread] /\ socket = [a \in Apps |-> NoConn]
    /\ open = [c \in Conns |-> FALSE] /\ queued = [c \in Conns |-> FALSE]
    /\ fd = [c \in Conns |-> NoFd]
    /\ in = [c \in Conns |-> <<>>] /\ out = [c \in Conns |-> <<>>]
    /\ up = TRUE /\ tasks = <<>> /\ running = NoTask /\ answering = NoTask
    /\ executed = [k \in Calls |-> 0] /\ stray = {} /\ abandoned = {} /\ cut = {}
    /\ \E w \in Works : long = w.long /\ large = w.large /\ left = w.faults

-----------------------------------------------------------------------------
(* The proxy *)

Here(t) == socket[AppOf[t]]
Current(t) == <<t, made[t]>>
Answered(c) == out[c] # <<>>
PeerGone(c) == fd[c] = NoFd /\ ~queued[c]

\* close: what the process has not read is gone; the daemon finds the end
\* of the stream behind what it has not read yet.
Close(s) ==
    /\ open' = IF s \in Conns THEN [open EXCEPT ![s] = FALSE] ELSE open
    /\ out' = IF s \in Conns THEN [out EXCEPT ![s] = <<>>] ELSE out
    /\ UNCHANGED <<queued, fd, in>>

\* emipc_initialize_proxy: a new socket, connected if the daemon listens.
Connect(a) ==
    \/ /\ up
       /\ \E c \in Conns :
            /\ ~open[c] /\ PeerGone(c)
            /\ socket' = [socket EXCEPT ![a] = c]
            /\ open' = [open EXCEPT ![c] = TRUE] /\ queued' = [queued EXCEPT ![c] = TRUE]
            /\ in' = [in EXCEPT ![c] = <<>>] /\ out' = [out EXCEPT ![c] = <<>>]
            /\ UNCHANGED fd
    \/ /\ ~up
       /\ socket' = [socket EXCEPT ![a] = Unconnected]
       /\ UNCHANGED conns

\* email_service_begin, before the first call (without it the first call connects)
Begin(a) ==
    /\ socket[a] = NoConn /\ \A t \in Threads : AppOf[t] = a => made[t] = 0
    /\ Connect(a)
    /\ UNCHANGED <<pc, made, tried, got, mutex, daemon, history>>

\* A thread calls and waits for proxy_mutex.
Call(t) ==
    /\ pc[t] = "idle" /\ made[t] < MaxCalls[t]
    /\ pc' = [pc EXCEPT ![t] = "wants"] /\ made' = [made EXCEPT ![t] = @ + 1]
    /\ got' = [got EXCEPT ![t] = NoCall]
    /\ UNCHANGED <<tried, mutex, socket, conns, daemon, history>>

Acquire(t) ==
    /\ pc[t] = "wants" /\ mutex[AppOf[t]] = NoThread
    /\ mutex' = [mutex EXCEPT ![AppOf[t]] = t]
    /\ pc' = [pc EXCEPT ![t] = "sends"] /\ tried' = [tried EXCEPT ![t] = FALSE]
    /\ UNCHANGED <<made, got, socket, conns, daemon, history>>

\* emipc_writen: a long request is written in pieces.
Part(t) == IF pc[t] = "sends" THEN 1 ELSE 2
Write(t) ==
    /\ pc[t] \in {"sends", "continues"}
    /\ Here(t) \in Conns /\ ~PeerGone(Here(t))
    /\ in' = [in EXCEPT ![Here(t)] = Append(@, [call |-> Current(t), part |-> Part(t)])]
    /\ pc' = [pc EXCEPT ![t] = IF Part(t) = 1 /\ t \in long THEN "continues" ELSE "waits"]
    /\ UNCHANGED <<made, tried, got, mutex, socket, open, queued, fd, out, daemon, history>>

Returns(t, answer) ==
    /\ pc' = [pc EXCEPT ![t] = "idle"]
    /\ got' = [got EXCEPT ![t] = answer]
    /\ mutex' = [mutex EXCEPT ![AppOf[t]] = NoThread]

\* The first try is given up for a second one, the second for good.
GiveUp(t) ==
    IF tried[t]
    THEN Returns(t, NoCall)
    ELSE pc' = [pc EXCEPT ![t] = "leaves"] /\ UNCHANGED <<got, mutex>>

\* The request cannot be written: a socket that the other side has closed is
\* closed here too.
WriteFails(t) ==
    /\ pc[t] \in {"sends", "continues"}
    /\ Here(t) \in Conns => PeerGone(Here(t))
    /\ Close(Here(t))
    /\ socket' = [socket EXCEPT ![AppOf[t]] = IF @ = Unconnected THEN @ ELSE NoConn]
    /\ GiveUp(t)
    /\ UNCHANGED <<made, tried, daemon, history>>

\* A piece of an answer is still to come to this connection.
Expected(c) == answering # NoTask /\ answering.fd = fd[c]

\* All that has arrived is taken for the answer (FIONREAD).  The rest of an
\* answer that was cut is no answer, but passes for one if the number where the
\* count of its values should be is positive.
Receive(t) ==
    /\ pc[t] = "waits" /\ Answered(Here(t))
    /\ out' = [out EXCEPT ![Here(t)] = <<>>]
    /\ LET first == Head(out[Here(t)])
           strays == IF Expected(Here(t)) THEN stray \cup {"answer"} ELSE stray
       IN  \/ Returns(t, first.call) /\ stray' = strays /\ UNCHANGED abandoned
           \/ /\ first.part = 2
              /\ GiveUp(t)
              /\ abandoned' = abandoned \cup {Current(t)}
              /\ stray' = IF tried[t] THEN strays \cup {"socket"} ELSE strays
    /\ UNCHANGED <<made, tried, socket, open, queued, fd, in, daemon, executed, cut, long, large,
                   left>>

\* Mutant: the wait has a time limit.
ReceiveTimesOut(t) ==
    /\ pc[t] = "waits" /\ ~Answered(Here(t))
    /\ Close(Here(t))
    /\ socket' = [socket EXCEPT ![AppOf[t]] = NoConn]
    /\ GiveUp(t)
    /\ UNCHANGED <<made, tried, daemon, history>>

\* Mutant: the end of the stream is not noticed.
ReceiveGoesOn(t) ==
    /\ pc[t] = "waits" /\ ~Answered(Here(t)) /\ PeerGone(Here(t))
    /\ UNCHANGED vars

\* Nothing has arrived and nothing will.
ReceiveFails(t) ==
    /\ pc[t] = "waits" /\ ~Answered(Here(t)) /\ PeerGone(Here(t))
    /\ Close(Here(t))
    /\ socket' = [socket EXCEPT ![AppOf[t]] = NoConn]
    /\ GiveUp(t)
    /\ UNCHANGED <<made, tried, daemon, history>>

\* select returns with an error, such as EINTR; the socket stays open until
\* the proxy is initialised again or, after the second try, for the next call.
Interrupted(t) ==
    /\ pc[t] = "waits" /\ left > 0
    /\ left' = left - 1
    /\ abandoned' = abandoned \cup {Current(t)}
    /\ stray' = IF tried[t] THEN stray \cup {"socket"} ELSE stray
    /\ GiveUp(t)
    /\ UNCHANGED <<made, tried, socket, conns, daemon, executed, cut, long, large>>

\* emipc_finalize_proxy
Disconnect(t) ==
    /\ pc[t] = "leaves"
    /\ Close(Here(t)) /\ socket' = [socket EXCEPT ![AppOf[t]] = NoConn]
    /\ pc' = [pc EXCEPT ![t] = "reconnects"]
    /\ UNCHANGED <<made, tried, got, mutex, daemon, history>>

\* emipc_initialize_proxy; a failure is one of the call.
Reconnect(t) ==
    /\ pc[t] = "reconnects"
    /\ Connect(AppOf[t])
    /\ IF up
       THEN /\ pc' = [pc EXCEPT ![t] = "sends"] /\ tried' = [tried EXCEPT ![t] = TRUE]
            /\ UNCHANGED <<got, mutex>>
       ELSE Returns(t, NoCall) /\ UNCHANGED tried
    /\ UNCHANGED <<made, daemon, history>>

\* The process ends wherever its threads are; email_service_end is the same
\* with no thread in a call.
Quit(a) ==
    /\ left > 0 /\ left' = left - 1
    /\ pc' = [t \in Threads |-> IF AppOf[t] = a THEN "idle" ELSE pc[t]]
    /\ got' = [t \in Threads |-> IF AppOf[t] = a THEN NoCall ELSE got[t]]
    /\ abandoned' = abandoned \cup {Current(t) : t \in {u \in Threads : AppOf[u] = a /\ pc[u] # "idle"}}
    /\ mutex' = [mutex EXCEPT ![a] = NoThread]
    /\ Close(socket[a])
    /\ socket' = [socket EXCEPT ![a] = NoConn]
    /\ UNCHANGED <<made, tried, daemon, executed, stray, cut, long, large>>

-----------------------------------------------------------------------------
(* The stub: the epoll thread *)

FreeFds == Fds \ {fd[c] : c \in Conns}
Owed(d) == \/ \E i \in DOMAIN tasks : tasks[i].fd = d
           \/ running # NoTask /\ running.fd = d
           \/ answering # NoTask /\ answering.fd = d

\* A new connection is given the smallest free descriptor.
Accept(c) ==
    /\ up /\ queued[c]
    /\ queued' = [queued EXCEPT ![c] = FALSE]
    /\ \E d \in FreeFds : (\A f \in FreeFds : d <= f) /\ fd' = [fd EXCEPT ![c] = d]
    /\ UNCHANGED <<thread, open, in, out, daemon, history>>

\* Mutant: the task is pushed twice.
PushedTwice(task) == <<task, task>> \o tasks

\* g_queue_push_head
Pushed(task) == <<task>> \o tasks

\* The pieces of a request, and what a stub takes that reads what has arrived
Pieces(call) == IF call[1] \in long THEN 2 ELSE 1
Taken(pieces) ==
    IF Head(pieces).part = 2 THEN "rest"
    ELSE IF Len(pieces) >= Pieces(Head(pieces).call) THEN "whole" ELSE "cut"

\* All that has arrived is read and taken for one request (FIONREAD).
ReadRequest(c) ==
    /\ up /\ fd[c] # NoFd /\ in[c] # <<>>
    /\ LET call == Head(in[c]).call
       IN  /\ tasks' = Pushed([call |-> call, is |-> Taken(in[c]), fd |-> fd[c]])
           /\ cut' = IF Taken(in[c]) = "cut" THEN cut \cup {call} ELSE cut
    /\ in' = [in EXCEPT ![c] = <<>>]
    /\ UNCHANGED <<thread, open, queued, fd, out, up, running, answering, executed, stray,
                   abandoned, long, large, left>>

\* The end of the stream: the descriptor is free although a task may hold it.
CloseDescriptor(c) ==
    /\ up /\ fd[c] # NoFd /\ in[c] = <<>> /\ ~open[c]
    /\ fd' = [fd EXCEPT ![c] = NoFd]
    /\ stray' = IF Owed(fd[c]) THEN stray \cup {"descriptor"} ELSE stray
    /\ UNCHANGED <<thread, open, queued, in, out, daemon, executed, abandoned, cut,
                   long, large, left>>

(* and the task thread *)

\* g_queue_pop_head
TakeTask ==
    /\ up /\ running = NoTask /\ answering = NoTask /\ tasks # <<>>
    /\ running' = Head(tasks) /\ tasks' = Tail(tasks)
    /\ UNCHANGED <<thread, conns, up, answering, history>>

\* Mutant: the answer is sent to every connection.
AnswerAll(d, piece) ==
    [c \in Conns |-> IF open[c] /\ fd[c] # NoFd THEN Append(out[c], piece) ELSE out[c]]

\* One send: it goes to whoever has the descriptor; its failure is ignored.
Answer(d, piece) ==
    [c \in Conns |-> IF open[c] /\ fd[c] = d THEN Append(out[c], piece) ELSE out[c]]

Large(call) == call[1] \in large

\* The dispatch runs the call and answers it; a failed send is the last one of
\* an answer.  A request that was cut is run with parameters missing; the rest
\* of it is a number without a handler, which nobody answers.
RunTask ==
    /\ up /\ running # NoTask
    /\ running' = NoTask
    /\ IF running.is = "rest"
       THEN UNCHANGED <<out, answering>>
       ELSE /\ out' = Answer(running.fd, [call |-> running.call, part |-> 1])
            /\ answering' = IF Large(running.call) /\ out' # out
                            THEN [call |-> running.call, fd |-> running.fd] ELSE NoTask
    /\ executed' = IF running.is = "whole" THEN [executed EXCEPT ![running.call] = @ + 1] ELSE executed
    /\ UNCHANGED <<thread, open, queued, fd, in, up, tasks, stray, abandoned, cut, long, large, left>>

\* emipc_writen goes on with the rest of a large answer.
FinishAnswer ==
    /\ up /\ answering # NoTask
    /\ out' = Answer(answering.fd, [call |-> answering.call, part |-> 2])
    /\ answering' = NoTask
    /\ UNCHANGED <<thread, open, queued, fd, in, up, tasks, running, history>>

\* The daemon stops; what it had sent can still be read.
Stop ==
    /\ up /\ left > 0 /\ left' = left - 1
    /\ up' = FALSE /\ tasks' = <<>> /\ running' = NoTask /\ answering' = NoTask
    /\ fd' = [c \in Conns |-> NoFd] /\ queued' = [c \in Conns |-> FALSE]
    /\ in' = [c \in Conns |-> <<>>]
    /\ UNCHANGED <<thread, open, out, executed, stray, abandoned, cut, long, large>>

Start == ~up /\ up' = TRUE /\ UNCHANGED <<thread, conns, tasks, running, answering, history>>

-----------------------------------------------------------------------------
ThreadStep(t) ==
    \/ Acquire(t) \/ Write(t) \/ WriteFails(t) \/ Receive(t) \/ ReceiveFails(t)
    \/ Disconnect(t) \/ Reconnect(t)

Serve(c) == Accept(c) \/ ReadRequest(c) \/ CloseDescriptor(c)

Next ==
    \/ \E a \in Apps : Begin(a) \/ Quit(a)
    \/ \E t \in Threads : Call(t) \/ Interrupted(t) \/ ThreadStep(t)
    \/ \E c \in Conns : Serve(c)
    \/ TakeTask \/ RunTask \/ FinishAnswer \/ Stop \/ Start

Spec ==
    /\ Init /\ [][Next]_vars
    /\ \A t \in Threads : WF_vars(ThreadStep(t))
    /\ \A c \in Conns : WF_vars(Serve(c))
    /\ WF_vars(TakeTask) /\ WF_vars(RunTask) /\ WF_vars(FinishAnswer)

-----------------------------------------------------------------------------
Waits(t) == pc[t] \in {"sends", "continues", "waits", "leaves", "reconnects"}

\* Type correctness; whoever is in an exchange has the mutex of its process,
\* and no descriptor belongs to two connections.
TypeOK ==
    /\ pc \in [Threads -> {"idle", "wants", "sends", "continues", "waits", "leaves", "reconnects"}]
    /\ made \in [Threads -> Nat] /\ \A t \in Threads : made[t] <= MaxCalls[t]
    /\ tried \in [Threads -> BOOLEAN]
    /\ got \in [Threads -> Calls \cup {NoCall}]
    /\ mutex \in [Apps -> Threads \cup {NoThread}]
    /\ socket \in [Apps -> Conns \cup {NoConn, Unconnected}]
    /\ open \in [Conns -> BOOLEAN] /\ queued \in [Conns -> BOOLEAN]
    /\ fd \in [Conns -> Fds \cup {NoFd}]
    /\ in \in [Conns -> Seq(Piece)] /\ out \in [Conns -> Seq(Piece)]
    /\ stray \subseteq {"descriptor", "socket", "answer"}
    /\ abandoned \subseteq Calls /\ cut \subseteq Calls
    /\ up \in BOOLEAN /\ long \subseteq Threads /\ large \subseteq Threads
    /\ tasks \in Seq(Task) /\ running \in Task \cup {NoTask} /\ answering \in Rest \cup {NoTask}
    /\ executed \in [Calls -> Nat] /\ left \in Nat
    /\ \A t \in Threads : Waits(t) => mutex[AppOf[t]] = t
    /\ \A c, d \in Conns : fd[c] = fd[d] /\ fd[c] # NoFd => c = d

\* An answer is to the call that waits for it.  A thread takes the answer to
\* an earlier call of its process only after a descriptor was closed to which
\* the answer was owed, a socket was kept after both tries had failed or an
\* answer was taken before all of it had come, and one to a call of another
\* process only after the first of these.
WrongAnswerOnlyByReuse ==
    \A t \in Threads : got[t] \notin {NoCall, Current(t)} =>
        /\ stray # {}
        /\ AppOf[got[t][1]] # AppOf[t] => "descriptor" \in stray

\* A call that came back with its own answer was executed, unless its request
\* was read in parts, and more than once only if it was tried twice.
AnsweredWasExecuted ==
    \A t \in Threads : got[t] = Current(t) =>
        /\ executed[got[t]] = 0 => got[t] \in cut
        /\ executed[got[t]] <= IF tried[t] THEN 2 ELSE 1

\* A call is executed while its caller waits for it, never after the caller
\* has gone on: unless the caller gave up its connection or an answer strayed,
\* the daemon's effects come in the order of the calls.
RunsInsideItsCall ==
    [][\A k \in Calls :
        executed'[k] # executed[k] /\ k \notin abandoned /\ stray = {} =>
            k = Current(k[1]) /\ pc[k[1]] = "waits"]_vars

\* Nobody waits for ever: a call returns, whatever stops or is interrupted, as
\* long as the daemon's threads run when it is up and no request was read in
\* parts (the rest of one swallows the request behind it).
CallsReturn == \A t \in Threads : pc[t] = "wants" ~> (pc[t] = "idle" \/ cut # {})
=============================================================================
