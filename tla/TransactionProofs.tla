------------------------- MODULE TransactionProofs -------------------------
(***************************************************************************)
(* Proofs about Transaction, for all threads and jobs.                     *)
(***************************************************************************)
EXTENDS Transaction, TLAPS

USE NamesAssumption
USE DEF Kinds, FaultKinds, Parts, Rows, Kind, MayFail, Goto, lockVars, dbVars

\* A step of Next is a step of one thread.
LEMMA OneThread ==
  ASSUME [Next]_vars
  PROVE  \/ UNCHANGED vars
         \/ \E t \in Threads :
              \/ \E j \in Jobs : Start(t, j)
              \/ LockShm(t) \/ EnterBegin(t) \/ SeeAuthority(t) \/ TakeAuthority(t)
              \/ ExecBegin(t) \/ (\E p \in Parts : Statement(t, p))
              \/ Commit(t) \/ Rollback(t) \/ Release(t)
  BY DEF Next, ThreadStep

-----------------------------------------------------------------------------
(* Type correctness.                                                       *)

\* The parts of TypeOK that concern what a thread does, without the locks and
\* the database.
ThreadsOK ==
    /\ pc \in [Threads -> Places] /\ job \in [Threads -> Jobs \cup {NoJob}]
    /\ \A t \in Threads : job[t] = NoJob <=> pc[t] = "idle"
    /\ told \in [Jobs -> {"nothing", "running", "ok", "failed"}]

LEMMA ReturnTypes ==
  ASSUME TypeOK, NEW t \in Threads, pc[t] # "idle", NEW r \in {"ok", "failed"}, Return(t, r)
  PROVE  ThreadsOK' /\ shmLock' \in Threads \cup {NoThread}
<1>1. job[t] \in Jobs /\ pc' = [pc EXCEPT ![t] = "idle"]
      /\ job' = [job EXCEPT ![t] = NoJob] /\ told' = [told EXCEPT ![job[t]] = r]
  BY DEF TypeOK, Return
<1>2. \A u \in Threads : job'[u] = NoJob <=> pc'[u] = "idle"
  BY <1>1 DEF TypeOK
<1> QED  BY <1>1, <1>2 DEF TypeOK, ThreadsOK, Places, Return

\* A thread that goes from one place to another, neither being idle, keeps its
\* job.
LEMMA GotoTypes ==
  ASSUME TypeOK, NEW t \in Threads, pc[t] # "idle", NEW l \in Places \ {"idle"},
         Goto(t, l), UNCHANGED <<job, told>>
  PROVE  ThreadsOK'
<1>1. \A u \in Threads : job'[u] = NoJob <=> pc'[u] = "idle"
  BY DEF TypeOK
<1> QED  BY <1>1 DEF TypeOK, ThreadsOK

LEMMA EndTypes ==
  ASSUME TypeOK, NEW rows \in SUBSET Rows, EndTransaction(rows)
  PROVE  /\ writer' \in Threads \cup {NoThread}
         /\ dirty' \subseteq Rows /\ durable' \subseteq Rows
         /\ writer' = NoThread => dirty' = {}
  BY DEF TypeOK, EndTransaction

LEMMA CommitTypes ==
  ASSUME TypeOK, NEW t \in Threads, pc[t] = "commit", NEW done \in BOOLEAN,
         CommitReturns(t, done)
  PROVE  ThreadsOK' /\ authority' \in BOOLEAN /\ shmLock' \in Threads \cup {NoThread}
<1>1. CASE done \/ Kind(t) # "copy"
  <2>1. PICK r \in {"ok", "failed"} : Return(t, r)
    BY <1>1 DEF CommitReturns
  <2>2. ThreadsOK' /\ shmLock' \in Threads \cup {NoThread}
    BY <2>1, ReturnTypes
  <2> QED  BY <2>2 DEF CommitReturns
<1>2. CASE ~(done \/ Kind(t) # "copy")
  <2>1. Goto(t, "rollback") /\ UNCHANGED <<shmLock, job, told>>
    BY <1>2 DEF CommitReturns
  <2>2. ThreadsOK'
    BY <2>1, GotoTypes DEF Places, Inside
  <2> QED  BY <2>1, <2>2 DEF CommitReturns, TypeOK
<1> QED  BY <1>1, <1>2

LEMMA TypeStep ==
  ASSUME TypeOK, [Next]_vars
  PROVE  TypeOK'
<1> USE DEF Places, Inside
<1>1. CASE UNCHANGED vars
  BY <1>1 DEF TypeOK, vars
<1>2. ASSUME NEW t \in Threads, NEW j \in Jobs, Start(t, j)
      PROVE  TypeOK'
  <2>1. /\ job' = [job EXCEPT ![t] = j] /\ told' = [told EXCEPT ![j] = "running"]
        /\ UNCHANGED <<authority, beginLock, shmLock, writer, dirty, durable>>
        /\ \E l \in {"shm", "begin", "rollback"} : pc' = [pc EXCEPT ![t] = l]
    BY <1>2 DEF Start
  <2>2. \A u \in Threads : job'[u] = NoJob <=> pc'[u] = "idle"
    BY <2>1 DEF TypeOK
  <2> QED  BY <2>1, <2>2 DEF TypeOK
<1>3. ASSUME NEW t \in Threads, LockShm(t)
      PROVE  TypeOK'
  <2>1. ThreadsOK'
    BY <1>3, GotoTypes DEF LockShm
  <2> QED  BY <1>3, <2>1 DEF TypeOK, ThreadsOK, LockShm
<1>4. ASSUME NEW t \in Threads, EnterBegin(t)
      PROVE  TypeOK'
  <2>1. ThreadsOK'
    BY <1>4, GotoTypes DEF EnterBegin
  <2> QED  BY <1>4, <2>1 DEF TypeOK, ThreadsOK, EnterBegin
<1>5. ASSUME NEW t \in Threads, SeeAuthority(t)
      PROVE  TypeOK'
  <2>1. ThreadsOK'
    BY <1>5, GotoTypes DEF SeeAuthority
  <2> QED  BY <1>5, <2>1 DEF TypeOK, ThreadsOK, SeeAuthority
<1>6. ASSUME NEW t \in Threads, TakeAuthority(t)
      PROVE  TypeOK'
  <2>1. ThreadsOK'
    BY <1>6, GotoTypes DEF TakeAuthority
  <2> QED  BY <1>6, <2>1 DEF TypeOK, ThreadsOK, TakeAuthority
<1>7. ASSUME NEW t \in Threads, ExecBegin(t)
      PROVE  TypeOK'
  <2>1. PICK l \in {"first", "rollback"} : Goto(t, l)
    BY <1>7 DEF ExecBegin, AfterBeginFailed
  <2>2. ThreadsOK'
    BY <1>7, <2>1, GotoTypes DEF ExecBegin
  <2>3. writer' = writer \/ writer' = t
    BY <1>7 DEF ExecBegin
  <2> QED  BY <1>7, <2>2, <2>3 DEF TypeOK, ThreadsOK, ExecBegin
<1>8. ASSUME NEW t \in Threads, NEW p \in Parts, Statement(t, p)
      PROVE  TypeOK'
  <2>1. pc[t] = p /\ job[t] \in Jobs /\ UNCHANGED <<authority, beginLock, writer>>
    BY <1>8 DEF Statement, TypeOK
  <2>2. /\ dirty' \subseteq Rows /\ durable' \subseteq Rows
        /\ writer = NoThread => dirty' = {}
    <3>1. CASE Write(t, <<job[t], p>>)
      BY <2>1, <3>1 DEF Write, TypeOK
    <3>2. CASE UNCHANGED <<dirty, durable>>
      BY <3>2 DEF TypeOK
    <3> QED  BY <1>8, <3>1, <3>2 DEF Statement
  <2>3. ThreadsOK' /\ shmLock' \in Threads \cup {NoThread}
    <3>1. CASE Return(t, "failed")
      BY <2>1, <3>1, ReturnTypes
    <3>2. ASSUME NEW l \in {"second", "commit", "rollback"}, Goto(t, l),
                 UNCHANGED <<shmLock, job, told>>
          PROVE  ThreadsOK' /\ shmLock' \in Threads \cup {NoThread}
      BY <2>1, <3>2, GotoTypes DEF TypeOK
    <3> QED  BY <1>8, <3>1, <3>2 DEF Statement, AfterWritten, AfterFailed
  <2> QED  BY <2>1, <2>2, <2>3 DEF TypeOK, ThreadsOK
<1>9. ASSUME NEW t \in Threads, Commit(t)
      PROVE  TypeOK'
  <2>1. PICK done \in BOOLEAN : CommitReturns(t, done)
    BY <1>9 DEF Commit
  <2>2. ThreadsOK' /\ authority' \in BOOLEAN /\ shmLock' \in Threads \cup {NoThread}
    BY <1>9, <2>1, CommitTypes DEF Commit
  <2>3. UNCHANGED dbVars \/ EndTransaction({}) \/ EndTransaction(dirty)
    BY <1>9 DEF Commit
  <2>4. /\ writer' \in Threads \cup {NoThread}
        /\ dirty' \subseteq Rows /\ durable' \subseteq Rows
        /\ writer' = NoThread => dirty' = {}
    BY <2>3, EndTypes DEF TypeOK
  <2> QED  BY <1>9, <2>2, <2>4 DEF TypeOK, ThreadsOK, Commit
<1>10. ASSUME NEW t \in Threads, Rollback(t)
       PROVE  TypeOK'
  <2>1. ThreadsOK'
    BY <1>10, GotoTypes DEF Rollback
  <2>2. /\ writer' \in Threads \cup {NoThread}
        /\ dirty' \subseteq Rows /\ durable' \subseteq Rows
        /\ writer' = NoThread => dirty' = {}
    BY <1>10, EndTypes DEF TypeOK, Rollback
  <2> QED  BY <1>10, <2>1, <2>2 DEF TypeOK, ThreadsOK, Rollback
<1>11. ASSUME NEW t \in Threads, Release(t)
       PROVE  TypeOK'
  <2>1. ThreadsOK' /\ shmLock' \in Threads \cup {NoThread}
    BY <1>11, ReturnTypes DEF Release
  <2> QED  BY <1>11, <2>1 DEF TypeOK, ThreadsOK, Release
<1> QED
  BY OneThread, <1>1, <1>2, <1>3, <1>4, <1>5, <1>6, <1>7, <1>8, <1>9, <1>10, <1>11

\* Whatever fails, a thread is in one of its places and has a job there unless
\* it is idle, and rows wait for END only in a transaction that is open.
THEOREM TypeCorrect == Spec => []TypeOK
<1>1. Init => TypeOK
  BY DEF Init, TypeOK, Places
<1>2. TypeOK /\ [Next]_vars => TypeOK'
  BY TypeStep
<1> QED  BY <1>1, <1>2, PTL DEF Spec

-----------------------------------------------------------------------------
(* The authority.  Where every function begins before it may roll back and *)
(* gives the authority back once, the flag belongs to the thread that took *)
(* it.                                                                     *)
PairedOnly == \A j \in Jobs : KindOf[j] \notin MayLeaveEarly \cup {"copy"}

\* A thread that polls the flag holds the lock, and finds the flag as it saw it.
PollsUnderLock ==
    \A t \in Threads :
        /\ pc[t] \in {"poll", "take"} => beginLock = t
        /\ pc[t] = "take" => ~authority

Exclusion == TypeOK /\ PollsUnderLock /\ AuthorityIsExclusive

\* A step that changes neither the flag nor its lock and takes one thread from
\* a place to another of the same sort, or out of all of them.
LEMMA SameSide ==
  ASSUME Exclusion, NEW t \in Threads, NEW l \in Places,
         pc' = [pc EXCEPT ![t] = l], UNCHANGED <<authority, beginLock>>,
         l \notin {"poll", "take"}, l \in Inside => pc[t] \in Inside
  PROVE  PollsUnderLock' /\ AuthorityIsExclusive'
<1>1. \A u \in Threads : pc'[u] = IF u = t THEN l ELSE pc[u]
  BY DEF Exclusion, TypeOK
<1>2. PollsUnderLock'
  BY <1>1 DEF Exclusion, PollsUnderLock
<1>3. AuthorityIsExclusive'
  BY <1>1 DEF Exclusion, AuthorityIsExclusive
<1> QED  BY <1>2, <1>3

\* A thread that has the authority gives it back and leaves.
LEMMA GivesBack ==
  ASSUME Exclusion, NEW t \in Threads, pc[t] \in Inside,
         pc' = [pc EXCEPT ![t] = "idle"], authority' = FALSE, UNCHANGED beginLock
  PROVE  PollsUnderLock' /\ AuthorityIsExclusive'
<1>1. \A u \in Threads : pc'[u] = IF u = t THEN "idle" ELSE pc[u]
  BY DEF Exclusion, TypeOK
<1>2. \A u \in Threads : pc'[u] \notin Inside
  BY <1>1 DEF Exclusion, AuthorityIsExclusive, Inside
<1>3. PollsUnderLock'
  BY <1>1 DEF Exclusion, PollsUnderLock
<1> QED  BY <1>2, <1>3 DEF AuthorityIsExclusive

LEMMA ExclusionStep ==
  ASSUME PairedOnly, Exclusion, [Next]_vars
  PROVE  Exclusion'
<1> USE DEF Inside, Places
<1>1. TypeOK'
  BY TypeStep DEF Exclusion
<1>2. pc \in [Threads -> Places] /\ job \in [Threads -> Jobs \cup {NoJob}]
  BY DEF Exclusion, TypeOK
<1>3. \A t \in Threads : pc[t] # "idle" => Kind(t) \notin MayLeaveEarly \cup {"copy"}
  BY DEF PairedOnly, Exclusion, TypeOK
<1>4. PollsUnderLock' /\ AuthorityIsExclusive'
  <2>1. CASE UNCHANGED vars
    BY <2>1 DEF Exclusion, PollsUnderLock, AuthorityIsExclusive, vars
  <2>2. ASSUME NEW t \in Threads, NEW j \in Jobs, Start(t, j)
        PROVE  PollsUnderLock' /\ AuthorityIsExclusive'
    <3>1. PICK l \in {"shm", "begin"} : pc' = [pc EXCEPT ![t] = l]
      BY <2>2 DEF Start, PairedOnly
    <3>2. UNCHANGED <<authority, beginLock>>
      BY <2>2 DEF Start
    <3> QED  BY <3>1, <3>2, SameSide
  <2>3. ASSUME NEW t \in Threads, LockShm(t)
        PROVE  PollsUnderLock' /\ AuthorityIsExclusive'
    <3>1. pc' = [pc EXCEPT ![t] = "begin"] /\ UNCHANGED <<authority, beginLock>>
      BY <2>3 DEF LockShm
    <3>2. "begin" \in Places /\ "begin" \notin Inside \cup {"poll", "take"}
      OBVIOUS
    <3> QED  BY <3>1, <3>2, SameSide
  <2>4. ASSUME NEW t \in Threads, EnterBegin(t)
        PROVE  PollsUnderLock' /\ AuthorityIsExclusive'
    BY <1>2, <2>4 DEF EnterBegin, Exclusion, PollsUnderLock, AuthorityIsExclusive
  <2>5. ASSUME NEW t \in Threads, SeeAuthority(t)
        PROVE  PollsUnderLock' /\ AuthorityIsExclusive'
    BY <1>2, <2>5 DEF SeeAuthority, Exclusion, PollsUnderLock, AuthorityIsExclusive
  <2>6. ASSUME NEW t \in Threads, TakeAuthority(t)
        PROVE  PollsUnderLock' /\ AuthorityIsExclusive'
    <3>1. \A u \in Threads : pc'[u] = IF u = t THEN "exec_begin" ELSE pc[u]
      BY <1>2, <2>6 DEF TakeAuthority
    <3>2. \A u \in Threads : pc[u] \notin Inside
      BY <2>6 DEF TakeAuthority, Exclusion, PollsUnderLock, AuthorityIsExclusive
    <3>3. AuthorityIsExclusive'
      BY <2>6, <3>1, <3>2 DEF TakeAuthority, AuthorityIsExclusive
    <3>4. PollsUnderLock'
      BY <2>6, <3>1 DEF TakeAuthority, Exclusion, PollsUnderLock
    <3> QED  BY <3>3, <3>4
  <2>7. ASSUME NEW t \in Threads, ExecBegin(t)
        PROVE  PollsUnderLock' /\ AuthorityIsExclusive'
    <3>1. PICK l \in {"first", "rollback"} : pc' = [pc EXCEPT ![t] = l]
      BY <2>7 DEF ExecBegin, AfterBeginFailed
    <3>2. pc[t] = "exec_begin" /\ UNCHANGED <<authority, beginLock>>
      BY <2>7 DEF ExecBegin
    <3> QED  BY <3>1, <3>2, SameSide
  <2>8. ASSUME NEW t \in Threads, NEW p \in Parts, Statement(t, p)
        PROVE  PollsUnderLock' /\ AuthorityIsExclusive'
    <3>1. PICK l \in {"idle", "second", "commit", "rollback"} : pc' = [pc EXCEPT ![t] = l]
      BY <2>8 DEF Statement, AfterWritten, AfterFailed, Return
    <3>2. pc[t] \in Inside /\ UNCHANGED <<authority, beginLock>>
      BY <2>8 DEF Statement
    <3> QED  BY <3>1, <3>2, SameSide
  <2>9. ASSUME NEW t \in Threads, Commit(t)
        PROVE  PollsUnderLock' /\ AuthorityIsExclusive'
    <3>1. pc[t] = "commit" /\ UNCHANGED beginLock /\ Kind(t) # "copy"
      BY <1>3, <2>9 DEF Commit
    <3>2. authority' = FALSE /\ pc' = [pc EXCEPT ![t] = "idle"]
      BY <2>9, <3>1 DEF Commit, CommitReturns, Return
    <3> QED  BY <3>1, <3>2, GivesBack
  <2>10. ASSUME NEW t \in Threads, Rollback(t)
         PROVE  PollsUnderLock' /\ AuthorityIsExclusive'
    <3>1. /\ pc[t] = "rollback" /\ pc' = [pc EXCEPT ![t] = "release"]
          /\ UNCHANGED <<authority, beginLock>>
      BY <2>10 DEF Rollback
    <3>2. "release" \in Places /\ "release" \notin {"poll", "take"}
      OBVIOUS
    <3> QED  BY <3>1, <3>2, SameSide
  <2>11. ASSUME NEW t \in Threads, Release(t)
         PROVE  PollsUnderLock' /\ AuthorityIsExclusive'
    <3>1. /\ pc[t] = "release" /\ pc' = [pc EXCEPT ![t] = "idle"]
          /\ authority' = FALSE /\ UNCHANGED beginLock
      BY <2>11 DEF Release, Return
    <3> QED  BY <3>1, GivesBack
  <2> QED
    BY OneThread, <2>1, <2>2, <2>3, <2>4, <2>5, <2>6, <2>7, <2>8, <2>9, <2>10, <2>11
<1> QED  BY <1>1, <1>4 DEF Exclusion

LEMMA ExclusionHolds == ASSUME PairedOnly PROVE Spec => []Exclusion
<1>1. Init => Exclusion
  BY DEF Init, Exclusion, TypeOK, Places, Inside, PollsUnderLock, AuthorityIsExclusive
<1>2. Exclusion /\ [Next]_vars => Exclusion'
  BY ExclusionStep
<1> QED  BY <1>1, <1>2, PTL DEF Spec

\* Where no function may roll back before it has begun, and none gives the
\* authority back twice, no two threads have it and the flag says when it is
\* taken, for any number of threads.
THEOREM ExclusiveAuthority == ASSUME PairedOnly PROVE Spec => []AuthorityIsExclusive
<1>1. Exclusion => AuthorityIsExclusive
  BY DEF Exclusion
<1> QED  BY <1>1, ExclusionHolds, PTL

-----------------------------------------------------------------------------
(* What success says.  Where the result of END is looked at, a row written *)
(* in a transaction that is still the thread's own is still in it.         *)
CheckedOnly == \A j \in Jobs : KindOf[j] \in {"storage", "move", "core", "delete"}

WritesAreKept ==
    \A t \in Threads : writer = t =>
        /\ pc[t] = "second" => <<job[t], "first">> \in dirty
        /\ pc[t] = "commit" => \A p \in Parts : <<job[t], p>> \in dirty

Reporting == TypeOK /\ WritesAreKept /\ ReportedIsStored

\* A step that leaves the database alone and does not take its thread to where
\* a row must have been written.
LEMMA NothingWritten ==
  ASSUME Reporting, NEW t \in Threads, UNCHANGED <<dirty, durable>>,
         writer' = writer \/ writer' = t,
         pc'[t] \notin {"second", "commit"},
         \A u \in Threads \ {t} : pc'[u] = pc[u] /\ job'[u] = job[u],
         \A j \in Jobs : told'[j] = "ok" => told[j] = "ok"
  PROVE  WritesAreKept' /\ ReportedIsStored'
<1>1. WritesAreKept'
  BY DEF Reporting, WritesAreKept
<1>2. ReportedIsStored'
  BY DEF Reporting, ReportedIsStored
<1> QED  BY <1>1, <1>2

\* A transaction of the thread's own ends, without a word of success.
LEMMA NothingReported ==
  ASSUME Reporting, NEW t \in Threads, writer' = NoThread, durable \subseteq durable',
         \A j \in Jobs : told'[j] = "ok" => told[j] = "ok"
  PROVE  WritesAreKept' /\ ReportedIsStored'
<1>1. WritesAreKept'
  BY DEF WritesAreKept
<1>2. ReportedIsStored'
  BY DEF Reporting, ReportedIsStored
<1> QED  BY <1>1, <1>2

LEMMA ReportingStep ==
  ASSUME CheckedOnly, Reporting, [Next]_vars
  PROVE  Reporting'
<1> DEFINE Kept == WritesAreKept' /\ ReportedIsStored'
<1>1. TypeOK'
  BY TypeStep DEF Reporting
<1>2. /\ pc \in [Threads -> Places] /\ job \in [Threads -> Jobs \cup {NoJob}]
      /\ told \in [Jobs -> {"nothing", "running", "ok", "failed"}]
      /\ \A t \in Threads : pc[t] # "idle" => job[t] \in Jobs
  BY DEF Reporting, TypeOK
<1>3. \A t \in Threads : pc[t] # "idle" => Kind(t) \in {"storage", "move", "core", "delete"}
  BY <1>2 DEF CheckedOnly
<1>4. CASE UNCHANGED vars
  <2>1. Kept
    BY <1>4 DEF Reporting, WritesAreKept, ReportedIsStored, vars
  <2> QED  BY <1>1, <2>1 DEF Reporting
<1>5. ASSUME NEW t \in Threads, NEW j \in Jobs, Start(t, j)
      PROVE  Kept
  <2>1. PICK l \in {"shm", "begin", "rollback"} : pc' = [pc EXCEPT ![t] = l]
    BY <1>5 DEF Start
  <2>2. /\ UNCHANGED <<dirty, durable, writer>> /\ pc'[t] \notin {"second", "commit"}
        /\ \A u \in Threads \ {t} : pc'[u] = pc[u] /\ job'[u] = job[u]
        /\ \A i \in Jobs : told'[i] = "ok" => told[i] = "ok"
    BY <1>2, <1>5, <2>1 DEF Start
  <2> QED  BY <2>2, NothingWritten
<1>6. ASSUME NEW t \in Threads,
             LockShm(t) \/ EnterBegin(t) \/ SeeAuthority(t) \/ TakeAuthority(t) \/ ExecBegin(t)
      PROVE  Kept
  <2>1. PICK l \in {"begin", "poll", "take", "exec_begin", "first", "rollback"} :
             pc' = [pc EXCEPT ![t] = l]
    BY <1>6 DEF LockShm, EnterBegin, SeeAuthority, TakeAuthority, ExecBegin, AfterBeginFailed
  <2>2. UNCHANGED <<dirty, durable, job, told>> /\ (writer' = writer \/ writer' = t)
    BY <1>6 DEF LockShm, EnterBegin, SeeAuthority, TakeAuthority, ExecBegin
  <2>3. /\ pc'[t] \notin {"second", "commit"}
        /\ \A u \in Threads \ {t} : pc'[u] = pc[u] /\ job'[u] = job[u]
    BY <1>2, <2>1, <2>2
  <2> QED  BY <2>2, <2>3, NothingWritten
<1>7. ASSUME NEW t \in Threads, NEW p \in Parts, Statement(t, p)
      PROVE  Kept
  <2>1. pc[t] = p /\ job[t] \in Jobs /\ writer' = writer
        /\ Kind(t) \in {"storage", "move", "core", "delete"}
    BY <1>2, <1>3, <1>7 DEF Statement
  <2>2. CASE /\ Write(t, <<job[t], p>>) /\ Goto(t, AfterWritten(p))
             /\ UNCHANGED <<shmLock, job, told>>
    <3>1. /\ dirty \subseteq dirty' /\ durable \subseteq durable'
          /\ writer = t => dirty' = dirty \cup {<<job[t], p>>}
      BY <2>2 DEF Write
    <3>2. \A u \in Threads : pc'[u] = IF u = t THEN AfterWritten(p) ELSE pc[u]
      BY <1>2, <2>2
    <3>3. ReportedIsStored'
      BY <2>2, <3>1 DEF Reporting, ReportedIsStored
    <3>4. ASSUME NEW u \in Threads, writer = u, u # t
          PROVE  /\ pc'[u] = "second" => <<job[u], "first">> \in dirty'
                 /\ pc'[u] = "commit" => \A q \in Parts : <<job[u], q>> \in dirty'
      BY <3>1, <3>2, <3>4 DEF Reporting, WritesAreKept
    <3>5. ASSUME writer = t
          PROVE  /\ pc'[t] = "second" => <<job[t], "first">> \in dirty'
                 /\ pc'[t] = "commit" => \A q \in Parts : <<job[t], q>> \in dirty'
      BY <2>1, <3>1, <3>2, <3>5 DEF Reporting, WritesAreKept, AfterWritten
    <3>6. WritesAreKept'
      BY <2>1, <2>2, <3>4, <3>5 DEF WritesAreKept
    <3> QED  BY <3>3, <3>6
  <2>3. CASE /\ UNCHANGED <<dirty, durable, job, told>>
             /\ \E l \in AfterFailed(Kind(t), p) : Goto(t, l)
    <3>1. pc' = [pc EXCEPT ![t] = "rollback"]
      BY <2>1, <2>3 DEF AfterFailed
    <3>2. /\ pc'[t] \notin {"second", "commit"}
          /\ \A u \in Threads \ {t} : pc'[u] = pc[u] /\ job'[u] = job[u]
      BY <1>2, <2>3, <3>1
    <3> QED  BY <2>1, <2>3, <3>2, NothingWritten
  <2> QED  BY <1>7, <2>1, <2>2, <2>3 DEF Statement, Forgets
<1>8. ASSUME NEW t \in Threads, Commit(t)
      PROVE  Kept
  <2>1. pc[t] = "commit" /\ job[t] \in Jobs /\ Kind(t) \notin {"copy", "sync", "add"}
    BY <1>2, <1>3, <1>8 DEF Commit
  <2>2. CASE writer = t /\ EndTransaction(dirty) /\ CommitReturns(t, TRUE)
    <3>1. durable' = durable \cup dirty /\ writer' = NoThread
          /\ told' = [told EXCEPT ![job[t]] = "ok"]
      BY <2>1, <2>2 DEF EndTransaction, CommitReturns, Return
    <3>2. \A p \in Parts : <<job[t], p>> \in durable'
      BY <2>1, <2>2, <3>1 DEF Reporting, WritesAreKept
    <3>3. WritesAreKept'
      BY <3>1 DEF WritesAreKept
    <3>4. ReportedIsStored'
      BY <1>2, <2>1, <3>1, <3>2 DEF Reporting, ReportedIsStored
    <3> QED  BY <3>3, <3>4
  <2>3. CASE CommitReturns(t, FALSE) /\ (EndTransaction({}) \/ UNCHANGED dbVars)
    <3>1. /\ told' = [told EXCEPT ![job[t]] = "failed"]
          /\ pc' = [pc EXCEPT ![t] = "idle"] /\ job' = [job EXCEPT ![t] = NoJob]
      BY <2>1, <2>3 DEF CommitReturns, Return, IgnoresEnd
    <3>2. /\ \A j \in Jobs : told'[j] = "ok" => told[j] = "ok"
          /\ pc'[t] \notin {"second", "commit"}
          /\ \A u \in Threads \ {t} : pc'[u] = pc[u] /\ job'[u] = job[u]
      BY <1>2, <2>1, <3>1
    <3>3. CASE EndTransaction({})
      BY <3>2, <3>3, NothingReported DEF EndTransaction
    <3>4. CASE UNCHANGED dbVars
      BY <3>2, <3>4, NothingWritten
    <3> QED  BY <2>3, <3>3, <3>4
  <2> QED  BY <1>8, <2>2, <2>3 DEF Commit
<1>9. ASSUME NEW t \in Threads, Rollback(t)
      PROVE  Kept
  <2>1. /\ pc' = [pc EXCEPT ![t] = "release"] /\ UNCHANGED <<job, told>>
        /\ EndTransaction({}) \/ UNCHANGED dbVars
    BY <1>9 DEF Rollback
  <2>2. pc'[t] = "release" /\ \A u \in Threads \ {t} : pc'[u] = pc[u] /\ job'[u] = job[u]
    BY <1>2, <2>1
  <2>3. CASE EndTransaction({})
    BY <2>1, <2>3, NothingReported DEF EndTransaction
  <2>4. CASE UNCHANGED dbVars
    BY <2>1, <2>2, <2>4, NothingWritten
  <2> QED  BY <2>1, <2>3, <2>4
<1>10. ASSUME NEW t \in Threads, Release(t)
       PROVE  Kept
  <2>1. /\ pc[t] = "release" /\ UNCHANGED dbVars
        /\ told' = [told EXCEPT ![job[t]] = "failed"]
        /\ pc' = [pc EXCEPT ![t] = "idle"] /\ job' = [job EXCEPT ![t] = NoJob]
    BY <1>10 DEF Release, Return
  <2>2. /\ \A j \in Jobs : told'[j] = "ok" => told[j] = "ok"
        /\ pc'[t] \notin {"second", "commit"}
        /\ \A u \in Threads \ {t} : pc'[u] = pc[u] /\ job'[u] = job[u]
    BY <1>2, <2>1
  <2> QED  BY <2>1, <2>2, NothingWritten
<1>11. CASE Kept
  BY <1>1, <1>11 DEF Reporting
<1> QED
  BY OneThread, <1>4, <1>5, <1>6, <1>7, <1>8, <1>9, <1>10, <1>11

\* A function that looks at the result of END and says it has succeeded has left
\* all its rows, although BEGIN may have failed unseen, although it may have
\* rolled back what it never began, and whatever the other threads do meanwhile.
THEOREM SuccessIsStored == ASSUME CheckedOnly PROVE Spec => []ReportedIsStored
<1>1. Init => Reporting
  <2>1. Init => TypeOK
    BY DEF Init, TypeOK, Places
  <2> QED  BY <2>1 DEF Init, Reporting, WritesAreKept, ReportedIsStored
<1>2. Reporting /\ [Next]_vars => Reporting'
  BY ReportingStep
<1>3. Reporting => ReportedIsStored
  BY DEF Reporting
<1> QED  BY <1>1, <1>2, <1>3, PTL DEF Spec

-----------------------------------------------------------------------------
(* The store is atomic.  With functions that take the authority and give   *)
(* it back once, where a failed BEGIN is noticed and END does not fail,    *)
(* the transaction of a handle is the job of its thread.                   *)
AtomicOnly ==
    /\ \A j \in Jobs : KindOf[j] \in {"storage", "core"}
    /\ "busy" \notin Faults["core"]
    /\ "commit" \notin Faults["storage"] \cup Faults["core"]

\* Every job is one thread's, and its caller has not been answered.
JobsAreOwn ==
    \A t \in Threads : job[t] # NoJob =>
        /\ told[job[t]] = "running"
        /\ \A u \in Threads : job[u] = job[t] => u = t

\* What is in the transaction is what its thread has written of its job.
OwnTransaction ==
    \A t \in Threads :
        /\ writer = t => pc[t] \in {"first", "second", "commit", "rollback"}
        /\ pc[t] \in {"first", "second", "commit"} => writer = t
        /\ pc[t] = "first" => dirty = {}
        /\ pc[t] = "second" => dirty = {<<job[t], "first">>}
        /\ pc[t] = "commit" => dirty = {job[t]} \X Parts

\* The database has the jobs that have succeeded, and nothing of the others.
WholeJobs == durable = {j \in Jobs : told[j] = "ok"} \X Parts

Atomicity == Exclusion /\ JobsAreOwn /\ OwnTransaction /\ WholeJobs

\* A thread is answered, and its job is over.
LEMMA Answered ==
  ASSUME Atomicity, NEW t \in Threads, pc[t] # "idle", NEW r \in {"ok", "failed"}, Return(t, r)
  PROVE  /\ JobsAreOwn'
         /\ {j \in Jobs : told'[j] = "ok"} =
              {j \in Jobs : told[j] = "ok"} \cup (IF r = "ok" THEN {job[t]} ELSE {})
<1>1. /\ job[t] \in Jobs /\ job \in [Threads -> Jobs \cup {NoJob}]
      /\ told \in [Jobs -> {"nothing", "running", "ok", "failed"}]
      /\ told[job[t]] = "running"
  BY DEF Atomicity, Exclusion, TypeOK, JobsAreOwn
<1>2. told' = [told EXCEPT ![job[t]] = r] /\ job' = [job EXCEPT ![t] = NoJob]
  BY DEF Return
<1>3. JobsAreOwn'
  <2> SUFFICES ASSUME NEW u \in Threads, job'[u] # NoJob
               PROVE  /\ told'[job'[u]] = "running"
                      /\ \A v \in Threads : job'[v] = job'[u] => v = u
    BY DEF JobsAreOwn
  <2>1. u # t /\ job'[u] = job[u] /\ job[u] \in Jobs /\ job[u] # job[t]
    BY <1>1, <1>2 DEF Atomicity, JobsAreOwn
  <2> QED  BY <1>1, <1>2, <2>1 DEF Atomicity, JobsAreOwn
<1> QED  BY <1>1, <1>2, <1>3

\* A step of one thread outside the transaction, whose job and answer stay.
LEMMA Elsewhere ==
  ASSUME Atomicity, NEW t \in Threads, UNCHANGED dbVars,
         writer # t, pc'[t] \notin {"first", "second", "commit"},
         \A u \in Threads \ {t} : pc'[u] = pc[u] /\ job'[u] = job[u]
  PROVE  OwnTransaction'
  BY DEF Atomicity, OwnTransaction

\* What the mapping makes of a database of whole jobs.
Succeeded == {j \in Jobs : told[j] = "ok"}
Answers == [j \in Jobs |-> IF told[j] = "running" THEN "nothing" ELSE told[j]]

LEMMA Mapping ==
  ASSUME NEW D \in SUBSET Jobs
  PROVE  /\ {j \in Jobs : \E p \in Parts : <<j, p>> \in D \X Parts} = D
         /\ {j \in Jobs : \A p \in Parts : <<j, p>> \in D \X Parts} = D
  OBVIOUS

\* A step that answers nobody is a stutter of the store, one that answers a
\* caller a success or a failure of its job.
LEMMA AbstractStep ==
  ASSUME WholeJobs, WholeJobs', told \in [Jobs -> {"nothing", "running", "ok", "failed"}],
         \/ Succeeded' = Succeeded /\ Answers' = Answers
         \/ \E j \in Jobs, r \in {"ok", "failed"} :
                told[j] = "running" /\ told' = [told EXCEPT ![j] = r]
  PROVE  [Store!Next]_(Store!vars)
<1>1. /\ {j \in Jobs : \E p \in Parts : <<j, p>> \in durable} = Succeeded
      /\ {j \in Jobs : \A p \in Parts : <<j, p>> \in durable} = Succeeded
  BY Mapping DEF WholeJobs, Succeeded
<1>2. /\ {j \in Jobs : \E p \in Parts : <<j, p>> \in durable'} = Succeeded'
      /\ {j \in Jobs : \A p \in Parts : <<j, p>> \in durable'} = Succeeded'
  <2>1. durable' = Succeeded' \X Parts /\ Succeeded' \in SUBSET Jobs
    BY DEF WholeJobs, Succeeded
  <2> QED  BY <2>1, Mapping
<1>3. CASE Succeeded' = Succeeded /\ Answers' = Answers
  BY <1>1, <1>2, <1>3 DEF Store!vars, Answers
<1>4. ASSUME NEW j \in Jobs, told[j] = "running", told' = [told EXCEPT ![j] = "ok"]
      PROVE  Store!Succeed(j)
  <2>1. Answers[j] = "nothing" /\ Answers' = [Answers EXCEPT ![j] = "ok"]
    BY <1>4 DEF Answers
  <2>2. j \notin Succeeded /\ Succeeded' = Succeeded \cup {j}
    BY <1>4 DEF Succeeded
  <2> QED  BY <1>1, <1>2, <2>1, <2>2 DEF Store!Succeed, Answers
<1>5. ASSUME NEW j \in Jobs, told[j] = "running", told' = [told EXCEPT ![j] = "failed"]
      PROVE  Store!Fail(j)
  <2>1. /\ Answers[j] = "nothing"
        /\ Succeeded' = Succeeded /\ Answers' = [Answers EXCEPT ![j] = "failed"]
    BY <1>5 DEF Answers, Succeeded
  <2> QED  BY <1>1, <1>2, <2>1 DEF Store!Fail, Answers
<1> QED  BY <1>3, <1>4, <1>5 DEF Store!Next

LEMMA AtomicityStep ==
  ASSUME AtomicOnly, Atomicity, [Next]_vars
  PROVE  Atomicity' /\ [Store!Next]_(Store!vars)
<1> USE DEF Inside
<1> DEFINE Kept == /\ JobsAreOwn' /\ OwnTransaction' /\ WholeJobs'
                   /\ [Store!Next]_(Store!vars)
           Silent == Succeeded' = Succeeded /\ Answers' = Answers
<1>1. Exclusion'
  <2>1. PairedOnly
    BY DEF AtomicOnly, PairedOnly, MayLeaveEarly
  <2> QED  BY <2>1, ExclusionStep DEF Atomicity
<1>2. TypeOK /\ WholeJobs /\ JobsAreOwn /\ OwnTransaction
      /\ pc \in [Threads -> Places] /\ job \in [Threads -> Jobs \cup {NoJob}]
      /\ told \in [Jobs -> {"nothing", "running", "ok", "failed"}]
      /\ writer \in Threads \cup {NoThread}
      /\ \A t \in Threads : pc[t] # "idle" => job[t] \in Jobs /\ Kind(t) \in {"storage", "core"}
  BY DEF Atomicity, Exclusion, TypeOK, AtomicOnly
<1>3. \A t, u \in Threads : pc[t] \in Inside /\ pc[u] \in Inside => u = t
  BY DEF Atomicity, Exclusion, AuthorityIsExclusive
<1>4. ASSUME UNCHANGED vars
      PROVE  Kept
  <2> USE <1>2, <1>4 DEF vars
  <2>1. JobsAreOwn'
    BY DEF JobsAreOwn
  <2>2. OwnTransaction' /\ WholeJobs'
    BY DEF OwnTransaction, WholeJobs
  <2>3. Silent
    BY DEF Succeeded, Answers
  <2> QED  BY <2>1, <2>2, <2>3, AbstractStep
<1>5. ASSUME NEW t \in Threads, NEW j \in Jobs, Start(t, j)
      PROVE  Kept
  <2>1. /\ pc[t] = "idle" /\ told[j] = "nothing" /\ UNCHANGED dbVars
        /\ job' = [job EXCEPT ![t] = j] /\ told' = [told EXCEPT ![j] = "running"]
        /\ \E l \in {"shm", "begin", "rollback"} : pc' = [pc EXCEPT ![t] = l]
    BY <1>5 DEF Start
  <2>2. JobsAreOwn'
    <3> SUFFICES ASSUME NEW u \in Threads, job'[u] # NoJob
                 PROVE  /\ told'[job'[u]] = "running"
                        /\ \A v \in Threads : job'[v] = job'[u] => v = u
      BY DEF JobsAreOwn
    <3>1. \A v \in Threads : job[v] # j
      BY <1>2, <2>1 DEF JobsAreOwn
    <3>2. CASE u = t
      BY <1>2, <2>1, <3>1, <3>2
    <3>3. CASE u # t
      BY <1>2, <2>1, <3>1, <3>3 DEF JobsAreOwn
    <3> QED  BY <3>2, <3>3
  <2>3. /\ writer # t /\ pc'[t] \notin {"first", "second", "commit"}
        /\ \A u \in Threads \ {t} : pc'[u] = pc[u] /\ job'[u] = job[u]
    BY <1>2, <2>1 DEF OwnTransaction
  <2>4. OwnTransaction'
    BY <2>1, <2>3, Elsewhere
  <2>5. Silent
    BY <1>2, <2>1 DEF Succeeded, Answers
  <2>6. WholeJobs'
    BY <1>2, <2>1, <2>5 DEF WholeJobs, Succeeded
  <2> QED  BY <1>2, <2>2, <2>4, <2>5, <2>6, AbstractStep
<1>6. ASSUME NEW t \in Threads, UNCHANGED <<job, told, durable>>, OwnTransaction'
      PROVE  Kept
  <2>1. JobsAreOwn' /\ WholeJobs'
    BY <1>2, <1>6 DEF JobsAreOwn, WholeJobs
  <2>2. Silent
    BY <1>6 DEF Succeeded, Answers
  <2> QED  BY <1>2, <1>6, <2>1, <2>2, AbstractStep
<1>7. ASSUME NEW t \in Threads,
             LockShm(t) \/ EnterBegin(t) \/ SeeAuthority(t) \/ TakeAuthority(t)
      PROVE  Kept
  <2>1. /\ pc[t] \in {"shm", "begin", "poll", "take"}
        /\ UNCHANGED <<job, told>> /\ UNCHANGED dbVars
        /\ \E l \in {"begin", "poll", "take", "exec_begin"} : pc' = [pc EXCEPT ![t] = l]
    BY <1>7 DEF LockShm, EnterBegin, SeeAuthority, TakeAuthority
  <2>2. /\ writer # t /\ pc'[t] \notin {"first", "second", "commit"}
        /\ \A u \in Threads \ {t} : pc'[u] = pc[u] /\ job'[u] = job[u]
    BY <1>2, <2>1 DEF OwnTransaction
  <2>3. OwnTransaction'
    BY <2>1, <2>2, Elsewhere
  <2> QED  BY <1>6, <2>1, <2>3
<1>8. ASSUME NEW t \in Threads, ExecBegin(t)
      PROVE  Kept
  <2>1. /\ pc[t] = "exec_begin" /\ UNCHANGED <<job, told, dirty, durable>>
        /\ \A u \in Threads \ {t} : pc[u] \notin Inside
    BY <1>3, <1>8 DEF ExecBegin
  <2>2. writer = NoThread /\ dirty = {}
    BY <1>2, <2>1 DEF OwnTransaction, TypeOK
  <2>3. \/ writer' = t /\ pc' = [pc EXCEPT ![t] = "first"]
        \/ writer' = writer /\ pc' = [pc EXCEPT ![t] = "rollback"]
    BY <1>2, <1>8, <2>1, <2>2 DEF ExecBegin, AtomicOnly, AfterBeginFailed, ByMacro
  <2>4. OwnTransaction'
    BY <1>2, <2>1, <2>2, <2>3 DEF OwnTransaction
  <2> QED  BY <1>6, <2>1, <2>4
<1>9. ASSUME NEW t \in Threads, NEW p \in Parts, Statement(t, p)
      PROVE  Kept
  <2>1. /\ pc[t] = p /\ writer' = writer /\ job[t] \in Jobs /\ Kind(t) \in {"storage", "core"}
        /\ \A u \in Threads \ {t} : pc[u] \notin Inside
    BY <1>2, <1>3, <1>9 DEF Statement
  <2>2. writer = t /\ t # NoThread
    BY <1>2, <2>1 DEF OwnTransaction
  <2>3. /\ UNCHANGED <<job, told, durable>>
        /\ \/ /\ dirty' = dirty \cup {<<job[t], p>>}
              /\ pc' = [pc EXCEPT ![t] = AfterWritten(p)]
           \/ pc' = [pc EXCEPT ![t] = "rollback"]
    BY <1>9, <2>1, <2>2 DEF Statement, Write, Forgets, AfterFailed
  <2>4. OwnTransaction'
    <3>1. CASE p = "first"
      BY <1>2, <2>1, <2>2, <2>3, <3>1 DEF OwnTransaction, AfterWritten
    <3>2. CASE p = "second"
      <4>1. dirty = {<<job[t], "first">>}
        BY <1>2, <2>1, <3>2 DEF OwnTransaction
      <4>2. dirty \cup {<<job[t], p>>} = {job[t]} \X Parts
        BY <3>2, <4>1
      <4> QED  BY <1>2, <2>1, <2>2, <2>3, <3>2, <4>2 DEF OwnTransaction, AfterWritten
    <3> QED  BY <3>1, <3>2
  <2> QED  BY <1>6, <2>3, <2>4
<1>10. ASSUME NEW t \in Threads, Commit(t)
       PROVE  Kept
  <2>1. /\ pc[t] = "commit" /\ writer = t /\ job[t] \in Jobs /\ Kind(t) \in {"storage", "core"}
        /\ dirty = {job[t]} \X Parts /\ \A u \in Threads \ {t} : pc[u] \notin Inside
    BY <1>2, <1>3, <1>10 DEF Commit, OwnTransaction
  <2>2. EndTransaction(dirty) /\ CommitReturns(t, TRUE)
    BY <1>10, <2>1 DEF Commit, AtomicOnly
  <2>3. Return(t, "ok")
    BY <2>2 DEF CommitReturns
  <2>4. JobsAreOwn' /\ Succeeded' = Succeeded \cup {job[t]}
    BY <2>1, <2>3, Answered DEF Succeeded
  <2>5. WholeJobs'
    <3>1. durable' = Succeeded \X Parts \cup {job[t]} \X Parts
      BY <1>2, <2>1, <2>2 DEF EndTransaction, WholeJobs, Succeeded
    <3>2. durable' = Succeeded' \X Parts
      BY <2>4, <3>1
    <3> QED  BY <3>2 DEF WholeJobs, Succeeded
  <2>6. OwnTransaction'
    BY <1>2, <2>1, <2>2, <2>3 DEF OwnTransaction, EndTransaction, Return
  <2>7. told[job[t]] = "running" /\ told' = [told EXCEPT ![job[t]] = "ok"]
    BY <1>2, <2>1, <2>3 DEF JobsAreOwn, Return
  <2>8. [Store!Next]_(Store!vars)
    BY <1>2, <2>1, <2>5, <2>7, AbstractStep
  <2> QED  BY <2>4, <2>5, <2>6, <2>8
<1>11. ASSUME NEW t \in Threads, Rollback(t)
       PROVE  Kept
  <2>1. /\ pc[t] = "rollback" /\ pc' = [pc EXCEPT ![t] = "release"]
        /\ UNCHANGED <<job, told>>
        /\ \A u \in Threads \ {t} : pc[u] \notin Inside
    BY <1>3, <1>11 DEF Rollback
  <2>2. durable' = durable /\ writer' = NoThread
    BY <1>2, <1>11, <2>1 DEF Rollback, EndTransaction, OwnTransaction
  <2>3. OwnTransaction'
    BY <1>2, <2>1, <2>2 DEF OwnTransaction
  <2> QED  BY <1>6, <2>1, <2>2, <2>3
<1>12. ASSUME NEW t \in Threads, Release(t)
       PROVE  Kept
  <2>1. pc[t] = "release" /\ UNCHANGED dbVars /\ Return(t, "failed") /\ job[t] \in Jobs
    BY <1>2, <1>12 DEF Release
  <2>2. JobsAreOwn' /\ Succeeded' = Succeeded
    BY <2>1, Answered DEF Succeeded
  <2>3. /\ writer # t /\ pc'[t] \notin {"first", "second", "commit"}
        /\ \A u \in Threads \ {t} : pc'[u] = pc[u] /\ job'[u] = job[u]
    BY <1>2, <2>1 DEF OwnTransaction, Return
  <2>4. OwnTransaction'
    BY <2>1, <2>3, Elsewhere
  <2>5. WholeJobs'
    BY <1>2, <2>1, <2>2 DEF WholeJobs, Succeeded
  <2>6. told[job[t]] = "running" /\ told' = [told EXCEPT ![job[t]] = "failed"]
    BY <1>2, <2>1 DEF JobsAreOwn, Return
  <2>7. [Store!Next]_(Store!vars)
    BY <1>2, <2>1, <2>5, <2>6, AbstractStep
  <2> QED  BY <2>2, <2>4, <2>5, <2>7
<1> HIDE DEF Kept
<1>13. Kept
  BY OneThread, <1>4, <1>5, <1>7, <1>8, <1>9, <1>10, <1>11, <1>12
<1> QED  BY <1>1, <1>13 DEF Atomicity, Kept

\* The functions with their flag, two locks and handles are a store that does a
\* job at once and entirely, or not at all, and says which, whoever runs when.
THEOREM StoreIsAtomic == ASSUME AtomicOnly PROVE Spec => ImplementsStore
<1>1. Init => Atomicity /\ Store!Init
  <2>1. Init => TypeOK
    BY DEF Init, TypeOK, Places
  <2>2. Init => WholeJobs /\ Store!Init
    BY DEF Init, WholeJobs, Store!Init
  <2>3. Init => JobsAreOwn /\ OwnTransaction
    BY DEF Init, JobsAreOwn, OwnTransaction
  <2> QED
    BY <2>1, <2>2, <2>3 DEF Init, Atomicity, Exclusion, PollsUnderLock, AuthorityIsExclusive,
                           Inside
<1>2. Atomicity /\ [Next]_vars => Atomicity' /\ [Store!Next]_(Store!vars)
  BY AtomicityStep
<1> QED  BY <1>1, <1>2, PTL DEF Spec, ImplementsStore, Store!Spec
=============================================================================
