---------------------------- MODULE Transaction ----------------------------
(***************************************************************************)
(* How the threads of the daemon share the one SQLite database of          *)
(* email-storage.c.  Every thread has a handle of its own; a flag,         *)
(* g_transaction, is the "transaction authority", polled under             *)
(* _transactionBeginLock and given back under _transactionEndLock.  Two    *)
(* families of functions use it: those of email-storage.c called with      *)
(* transaction = true, through the macros EMSTORAGE_START_ and             *)
(* EMSTORAGE_FINISH_WRITE_TRANSACTION, and those of email-core, which call *)
(* begin, commit and rollback themselves and ignore the result of begin.   *)
(*                                                                         *)
(* A job is one call of such a function; it writes two rows that belong    *)
(* together.  SQLite is external: one writer at a time, other handles are  *)
(* refused after the busy handler has given up, and the transaction of a   *)
(* handle stays open or is rolled back when END fails.                     *)
(***************************************************************************)
CONSTANTS
    Threads, NoThread,
    Jobs, NoJob,
    KindOf,        \* which function a job is
    Faults         \* what may fail in the functions of each kind

Kinds == {"storage",   \* a function of email-storage.c with transaction = true
          "move",      \* emstorage_move_multiple_mails, one that may leave before START
          "core",      \* emcore_add_attachment, emcore_update_mail, emcore_insert_pbd_activity, ..
          "delete",    \* emcore_delete_account
          "copy",      \* emcore_mail_copy
          "sync",      \* emcore_add_mail_to_mailbox
          "add"}       \* emcore_add_mail
FaultKinds == {"busy",     \* BEGIN is refused because of another process
               "sql",      \* a statement, or what belongs to it (a file), fails
               "commit"}   \* END fails

ASSUME NamesAssumption ==
    /\ NoThread \notin Threads /\ NoJob \notin Jobs
    /\ KindOf \in [Jobs -> Kinds]
    /\ Faults \in [Kinds -> SUBSET FaultKinds]

VARIABLES
    authority,     \* g_transaction
    beginLock,     \* the holder of _transactionBeginLock
    shmLock,       \* the holder of mapped_for_db_lock->mutex
    writer,        \* the thread whose handle has a transaction open
    dirty,         \* the rows written in it
    durable,       \* the rows of the database
    pc, job,       \* where each thread is and what it does
    told           \* what the caller of each job was told

lockVars == <<authority, beginLock, shmLock>>
dbVars == <<writer, dirty, durable>>
vars == <<authority, beginLock, shmLock, writer, dirty, durable, pc, job, told>>

-----------------------------------------------------------------------------
Parts == {"first", "second"}
Rows == Jobs \X Parts

ByMacro == {"storage", "move"}
MayLeaveEarly == {"move", "delete"}
IgnoresEnd == {"sync", "add"}

Kind(t) == KindOf[job[t]]
MayFail(t, f) == f \in Faults[Kind(t)]
Goto(t, l) == pc' = [pc EXCEPT ![t] = l]

Init ==
    /\ authority = FALSE /\ beginLock = NoThread /\ shmLock = NoThread
    /\ writer = NoThread /\ dirty = {} /\ durable = {}
    /\ pc = [t \in Threads |-> "idle"] /\ job = [t \in Threads |-> NoJob]
    /\ told = [j \in Jobs |-> "nothing"]

-----------------------------------------------------------------------------
(* A thread enters a function.  Two of them may go to FINISH_OFF before    *)
(* the transaction is begun, and roll back there all the same.             *)
Start(t, j) ==
    /\ pc[t] = "idle" /\ told[j] = "nothing"
    /\ job' = [job EXCEPT ![t] = j]
    /\ told' = [told EXCEPT ![j] = "running"]
    /\ \/ Goto(t, IF KindOf[j] \in ByMacro THEN "shm" ELSE "begin")
       \/ KindOf[j] \in MayLeaveEarly /\ Goto(t, "rollback")
    /\ UNCHANGED <<lockVars, dbVars>>

(* _timedlock_shm_mutex, two seconds; its result is ignored.  A thread that*)
(* waits takes this step later; one that goes on without the mutex has     *)
(* waited the two seconds.                                                 *)
LockShm(t) ==
    /\ pc[t] = "shm"
    /\ shmLock' = IF shmLock = NoThread THEN t ELSE shmLock
    /\ Goto(t, "begin")
    /\ UNCHANGED <<authority, beginLock, dbVars, job, told>>

\* Mutant: the flag is polled outside the lock.
EnterBeginUnlocked(t) ==
    /\ pc[t] = "begin"
    /\ beginLock' = t
    /\ Goto(t, "poll")
    /\ UNCHANGED <<authority, shmLock, dbVars, job, told>>

(* emstorage_begin_transaction: enter _transactionBeginLock, poll          *)
(* g_transaction, set it, leave.                                           *)
EnterBegin(t) ==
    /\ pc[t] = "begin" /\ beginLock = NoThread
    /\ beginLock' = t
    /\ Goto(t, "poll")
    /\ UNCHANGED <<authority, shmLock, dbVars, job, told>>

SeeAuthority(t) ==
    /\ pc[t] = "poll" /\ ~authority
    /\ Goto(t, "take")
    /\ UNCHANGED <<lockVars, dbVars, job, told>>

TakeAuthority(t) ==
    /\ pc[t] = "take"
    /\ authority' = TRUE /\ beginLock' = NoThread
    /\ Goto(t, "exec_begin")
    /\ UNCHANGED <<shmLock, dbVars, job, told>>

\* Where a function goes when BEGIN has failed: only the macros look at it.
AfterBeginFailed(k) == IF k \in ByMacro THEN "rollback" ELSE "first"

(* "BEGIN immediate;" on the thread's own handle.                          *)
ExecBegin(t) ==
    /\ pc[t] = "exec_begin"
    /\ \/ /\ writer = NoThread
          /\ writer' = t /\ Goto(t, "first")
       \/ /\ writer # NoThread \/ MayFail(t, "busy")
          /\ Goto(t, AfterBeginFailed(Kind(t)))
          /\ UNCHANGED writer
    /\ UNCHANGED <<lockVars, dirty, durable, job, told>>

-----------------------------------------------------------------------------
\* The function returns r to its caller, and the macro unlocks the shared
\* mutex, which the system refuses to a thread that does not hold it.
Return(t, r) ==
    /\ told' = [told EXCEPT ![job[t]] = r]
    /\ job' = [job EXCEPT ![t] = NoJob]
    /\ Goto(t, "idle")
    /\ shmLock' = IF shmLock = t THEN NoThread ELSE shmLock

AfterWritten(p) == IF p = "first" THEN "second" ELSE "commit"
\* emcore_mail_copy goes on when the first attachment cannot be stored.
AfterFailed(k, p) == IF k = "copy" /\ p = "second" THEN {"rollback", "commit"} ELSE {"rollback"}
\* emcore_increase_mail_id and emstorage_add_meeting_request: no rollback.
Forgets(k, p) == (k = "sync" /\ p = "first") \/ (k = "add" /\ p = "second")

\* A statement goes into the open transaction of the handle.  Without one it
\* is a transaction of its own, refused while another handle has one open.
Write(t, row) ==
    \/ /\ writer = t
       /\ dirty' = dirty \cup {row} /\ UNCHANGED durable
    \/ /\ writer = NoThread
       /\ durable' = durable \cup {row} /\ UNCHANGED dirty

(* The two statements of a function.                                       *)
Statement(t, p) ==
    /\ pc[t] = p
    /\ \/ /\ Write(t, <<job[t], p>>)
          /\ Goto(t, AfterWritten(p))
          /\ UNCHANGED <<shmLock, job, told>>
       \/ /\ MayFail(t, "sql") \/ writer \notin {t, NoThread}
          /\ IF Forgets(Kind(t), p)
             THEN Return(t, "failed")
             ELSE /\ \E l \in AfterFailed(Kind(t), p) : Goto(t, l)
                  /\ UNCHANGED <<shmLock, job, told>>
          /\ UNCHANGED <<dirty, durable>>
    /\ UNCHANGED <<authority, beginLock, writer>>

\* The open transaction of a handle ends and leaves its rows behind, or none.
EndTransaction(rows) ==
    /\ durable' = durable \cup rows
    /\ dirty' = {} /\ writer' = NoThread

\* Mutant: the result of END is not looked at.
CommitReturnsTrue(t, done) ==
    /\ authority' = FALSE
    /\ Return(t, "ok")

\* The end of emstorage_commit_transaction, END having succeeded or not.
CommitReturns(t, done) ==
    /\ authority' = FALSE
    /\ IF done \/ Kind(t) # "copy"
       THEN Return(t, IF done \/ Kind(t) \in IgnoresEnd THEN "ok" ELSE "failed")
       ELSE Goto(t, "rollback") /\ UNCHANGED <<shmLock, job, told>>

(* emstorage_commit_transaction: "END;" and the authority, both under      *)
(* _transactionEndLock.                                                    *)
Commit(t) ==
    /\ pc[t] = "commit"
    /\ \/ writer = t /\ EndTransaction(dirty) /\ CommitReturns(t, TRUE)
       \/ /\ writer # t                                 \* no transaction is active
          /\ CommitReturns(t, FALSE) /\ UNCHANGED dbVars
       \/ /\ writer = t /\ MayFail(t, "commit")
          /\ EndTransaction({}) \/ UNCHANGED dbVars
          /\ CommitReturns(t, FALSE)
    /\ UNCHANGED beginLock

\* Mutant: the transaction is left open.
RollbackNothing(t) ==
    /\ pc[t] = "rollback"
    /\ Goto(t, "release")
    /\ UNCHANGED <<lockVars, dbVars, job, told>>

(* emstorage_rollback_transaction: "ROLLBACK;" before the lock is taken,   *)
(* then the authority, whoever has it.                                     *)
Rollback(t) ==
    /\ pc[t] = "rollback"
    /\ IF writer = t THEN EndTransaction({}) ELSE UNCHANGED dbVars
    /\ Goto(t, "release")
    /\ UNCHANGED <<lockVars, job, told>>

\* Mutant: the transaction is ended and the authority kept.
ReleaseNothing(t) ==
    /\ pc[t] = "release"
    /\ Return(t, "failed")
    /\ UNCHANGED <<authority, beginLock, dbVars>>

Release(t) ==
    /\ pc[t] = "release"
    /\ authority' = FALSE
    /\ Return(t, "failed")
    /\ UNCHANGED <<beginLock, dbVars>>

-----------------------------------------------------------------------------
ThreadStep(t) ==
    \/ LockShm(t) \/ EnterBegin(t) \/ SeeAuthority(t) \/ TakeAuthority(t) \/ ExecBegin(t)
    \/ (\E p \in Parts : Statement(t, p)) \/ Commit(t) \/ Rollback(t) \/ Release(t)

Next == \E t \in Threads : ThreadStep(t) \/ \E j \in Jobs : Start(t, j)

Spec == Init /\ [][Next]_vars

\* The threads run on; nobody owes a call.
FairSpec == Spec /\ \A t \in Threads : WF_vars(ThreadStep(t))

-----------------------------------------------------------------------------
(* Properties                                                              *)

\* Between the taking and the giving back of the authority.
Inside == {"exec_begin", "first", "second", "commit", "rollback", "release"}
Places == {"idle", "shm", "begin", "poll", "take"} \cup Inside

\* The type invariant.
TypeOK ==
    /\ authority \in BOOLEAN
    /\ beginLock \in Threads \cup {NoThread} /\ shmLock \in Threads \cup {NoThread}
    /\ writer \in Threads \cup {NoThread}
    /\ dirty \subseteq Rows /\ durable \subseteq Rows
    /\ pc \in [Threads -> Places] /\ job \in [Threads -> Jobs \cup {NoJob}]
    /\ \A t \in Threads : job[t] = NoJob <=> pc[t] = "idle"
    /\ writer = NoThread => dirty = {}
    /\ told \in [Jobs -> {"nothing", "running", "ok", "failed"}]

\* "take the transaction authority": no two threads have it, and while one has
\* it the flag says so, although the flag is read and written in two steps and
\* given back under another lock than it is taken.
AuthorityIsExclusive ==
    \A t \in Threads : pc[t] \in Inside =>
        /\ authority
        /\ \A u \in Threads : pc[u] \in Inside => u = t

\* A function that says it has succeeded has left both its rows, whatever
\* failed, whoever rolled back and whatever transaction it found itself in.
ReportedIsStored ==
    \A j \in Jobs : told[j] = "ok" => \A p \in Parts : <<j, p>> \in durable

\* "wait for the transaction authority to be changed": a thread that waits for
\* it gets it.
WaiterIsServed ==
    \A t \in Threads : pc[t] = "begin" ~> pc[t] = "exec_begin"

\* A job is in the store when any row of it is.
Store == INSTANCE AtomicStore WITH
    stored <- {j \in Jobs : \E p \in Parts : <<j, p>> \in durable},
    whole <- {j \in Jobs : \A p \in Parts : <<j, p>> \in durable},
    answered <- [j \in Jobs |-> IF told[j] = "running" THEN "nothing" ELSE told[j]]

\* The functions with their flag, locks and handles are a store that does a job
\* at once and entirely, or not at all, and says which.
ImplementsStore == Store!Spec
=============================================================================
