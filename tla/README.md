# Formal model of the email-service daemon

`email-service` is the mail daemon of Tizen. Applications call it over a local
socket; it keeps their mails in an SQLite database, queues what has to be said
to the IMAP, POP3 and SMTP servers, and says it from threads of its own. This
directory holds TLA+ modules of the parts whose correctness depends on the order
of steps of several actors, on failures and on restarts, the TLC configurations
that check them on small instances, and TLAPS proofs of what holds for every
instance. Paths in this file are relative to `src/`.

1. Inventory - 2. Plan - 3. Modules and code - 4. Runs - 5. Bounds and fairness
- 6. Proofs - 7. Deviations - 8. What is not modelled

## 1. Inventory

| component | state it keeps | operations | hard behaviour | what makes it correct |
|---|---|---|---|---|
| receive queue, service thread (`email-core/email-core-event.c`) | ring `g_event_que` of 32 slots, read index, slot being run, busy counters, loop flag | insert, retrieve, cancel, check for cancellation, start, stop | many inserters and cancellers, slots cleared by index, unlocked counters and flag, signal and wait | an accepted event is run once or cancelled; order of acceptance; a cancelled job learns of it; the thread sleeps only if nothing waits |
| send queue, send thread (same file, `email-core-smtp.c`) | second ring, `g_transaction_info_list`, `save_status` and mailbox of each mail | `emdaemon_send_mail`, `emdaemon_add_mail`, `emcore_send_mail`, cancel, recovery at start | every step of a transmission can fail; cancellation and repeated requests; the queue dies with the process and the status does not | the status says what became of the mail; a cancelled mail does not go out; SENDING ends |
| partial body download thread (same file, `email-core-mailbox-sync.c`, `email-core-mailbox.c`) | a third ring, two flags, a batch, the activity table | insert, clear, retrieve, flush, local activity sync | flags read without the lock, batches, local syncs that give way, rows and accounts deleted meanwhile | flags are exact, batches are of one mailbox, no event is stranded |
| transactions of the store (`email-core/email-storage/email-storage.c` and its callers) | `g_transaction`, two locks, a shared mutex with a time limit, one SQLite handle per thread | begin, commit, rollback, the macros around them | a flag polled under one lock and released under another, results ignored, error paths that roll back too often or not at all | one thread has the authority; a job is stored whole or not at all, and its caller is told which |
| IPC proxy and stub (`email-ipc/`) | connections and descriptors, `proxy_mutex`, the stub's stack of tasks | call, retry, reconnect; accept, read, push, pop, respond | answers go to a descriptor and not to a caller; messages cut by what has arrived; retries; last in first out | a caller gets the answer of its call; one execution per request |
| client library and stub dispatch (`email-api/`, `email-daemon/main.c`) | none | one function and one handler per request, parameters known by place only | two programs that must agree on fifty lists; error paths that lose the error | parameters arrive for what they are, and the result tells what happened |
| mails, mailboxes, accounts, rules (`email-daemon/email-daemon-{mail,mailbox,account}.c`, `email-core/email-core-{mail,mailbox,imap-mailbox,account,utils}.c`) | the tables of mails, uids, mailboxes, accounts, attachments, rules, and files | add, delete, move, flag, update; create, rename, delete | database first, then an event or a detached thread; the server changes on its own; restarts lose the queue | store and server agree in the end; nothing is lost that nobody deleted |
| header synchronisation (`email-core-mailbox-sync.c`) | lists of the server against the uid table | compare, fetch, remove, trim to the slot size | runs long, beside calls of the user | no message lost, doubled, or kept when it is gone |
| message content (`email-core-mime.c`, `email-core-mail.c`, `email-core-smtp.c`) | body files, attachment rows and files, eml directories | partial body, whole body, attachment; load and delete eml files | three readers of the same message, two threads at one mail, connections lost | what a downloaded mail shows, lists and saves is what the message holds |
| job control, life cycle (`email-daemon-etc.c`, `email-daemon-init.c`) | handles, client count | cancel, initialise, recover | a handle is the index of a slot | a cancellation hits its job |
| automatic polling, sound, notifications, IMAP idle | alarms, a timer | through platform services | none of its own | - |
| S/MIME, certificates, conversion, `tpl.c`, network and device layers | none of the mail service's | parse, build, transport | data only; outcomes of the steps that use them | - |

How they interact: a function of the client library packs its parameters into a
list, the proxy writes it to the socket, the stub's epoll thread makes a task of
it, and the task thread gives it through the dispatch to an `emdaemon_*`
function. That function reads and writes the store and inserts an event into one
of the three rings, with a condition variable that wakes the ring's thread, or
starts a detached thread. The ring's thread runs the event's handler in
`email-core`, which takes a connection to a server and transactions of the
store, asks at intervals whether its slot was cancelled, and notifies clients.
Cancellation goes the other way: a handle is the index of a slot, and the task
thread changes that slot. Deleting an account touches the activity table, all
rings, the store and the account list in turn. A restart loses the rings, the
detached threads and the lists, and keeps the database.

`PROJECT.json` lists each component with its status and forty hazards, each at
the line where it bites, with the properties that would catch it going wrong.

## 2. Plan

Order: the most concurrent core first, then the state that survives it, then the
way in, then the data. All families are built; the first seven are proved about.

| | modules | composes or implements | checked | proved |
|---|---|---|---|---|
| 1 | `SlotRing`, `EventQueue` | implements `JobFifo` where nothing is cancelled | yes | safety, refinement |
| 2 | `SendMail` | ring, requests, handler, table, restart | yes | safety |
| 3 | `PartialBody` | implements `EventFifo`; composed with header sync, account deletion and the callers of `emcore_insert_event` | yes | safety, refinement |
| 4 | `Transaction` | implements `AtomicStore` where the functions are paired | yes | safety, refinement |
| 5 | `Ipc` | proxy, sockets, stub and task thread in one | yes | safety |
| 6 | `ApiWire`, `ApiClient`, `ApiStub`, `Api` | client library composed with the handlers | yes | safety |
| 7 | `Iterate`, `MailStore`, `MailCore`, `MailServer`, `Mail` | calls, threads, events and synchronisation over tables and servers | yes | types, mailboxes of mails, heads of threads, files of mails |
| 8 | `MimePart`, `MimeReader`, `ImapReader`, `PartialReader`, `MimeWriter`, `Content` | three readers and the writer of messages, with the downloads that use them | yes | out of reach (section 6) |

Left: the other properties of `Mail` as theorems, from the `IInv` of
section 6 (those of uids under the assumption that folders do not share them);
the scan and the polls of `emcore_cancel_all_threads_of_an_account`
over both rings as steps of their own; the server search; the retry timer of the
send queue.

## 3. Modules and code

In the modules of threads (1-5) an action is one stretch of code between two
points at which another thread may come in: a section under one lock, or one
unlocked access that matters. `pc` says where each thread is. In `Mail` and
`Content` an action is a handler, or the part of one up to the next exchange with
a server. History variables are named below; the code has no such state.

**`SlotRing`** - the arithmetic of the two 32-slot rings: next slot, search for
an empty slot, wrap. Slot 0 is not used, as in the code, so `QueueMax = 3` is a
ring of two.

**`EventQueue`** - `que`, `idx`, `active`, `loop`, `srvThread`, `busy`,
`queLock` are `g_event_que`, `g_event_que_idx`, `g_active_que`, `g_event_loop`,
`g_srv_thread`, the two counters and `_event_queue_lock`. Clients insert
(enqueue under the lock, counter, signal) and cancel (slot under the lock, the
handle freed); the worker retrieves, runs, asks for its status, lowers the
counter, clears its slot, and sleeps; `Main` starts the loop (which wipes the
ring) and stops it: it lowers the flag, cancels the slot `g_active_que` names,
signals, and joins the thread. The counters have no lock and are a load and a
store. A handler is one stretch that ends normally or, told by
`emcore_check_thread_status`, early. `fate` is history. `JobFifo` is the abstract
queue: accepted jobs are run in order, one at a time.

**`SendMail`** - the mail's `saveStatus` and `mailbox` are columns of
`mail_tbl`; the ring is as above; `trans` is the list that maps a mail to its
handle. `Stub` and `Timer` request (`emdaemon_send_mail`: status, insertion,
record, or the way back when the ring refuses; `emdaemon_add_mail` with
`SAVE_MAIL`), `Stub` cancels; `Sender` retrieves, checks the network, prepares,
marks `SENDING`, transmits, files and marks, in the order of `emcore_send_mail`
with its feature switches as they are defined. `Crash` drops everything but the
table and, as the daemon does when it starts again, resets the status
(`CleanSaveStatus`, which is `emstorage_clean_save_status`). Among the `Faults`
are a read of the account or the mail that fails (`lookup`: `emcore_send_mail`
then writes no status) and an UPDATE that fails (`update`: its callers log it and
go on). `delivered`, `fate` and `missed` are history; `missed` has the mails whose
latest status did not get into the table, until one does.

**`PartialBody`** - `que`, `next`, `emptyFlag`, `fullFlag`, `bulk`, `ev` are the
ring, its index, its flags, the batch and the event at hand; `rows` is the
activity table and `live` the accounts. `Pbd` is the download thread with its
batch and its local activity sync (`cycle`), `Syncer` a header sync that adds
rows or events, `Stub` the deletion of an account, `Caller` a thread whose
`emcore_insert_event` asks for a local sync or pauses one. `EventFifo` is the
abstract queue with its two truthful flags and a clear; the mapping (`Pending`)
reads the used cells from the index on.

**`Transaction`** - `authority` is `g_transaction`, `beginLock` the holder of
`_transactionBeginLock`, `shmLock` that of the process-shared mutex; `writer`
and `dirty` are SQLite's open transaction (external), `durable` the database.
A job is one call of a function that writes two rows which belong together, and
`KindOf` gives the function's shape: the macros of `email-storage.c`
(`storage`), with an exit before START (`move`), begin and commit called from
`email-core` (`core`), `emcore_delete_account` (`delete`), `emcore_mail_copy`
(`copy`), `emcore_add_mail_to_mailbox` (`sync`), `emcore_add_mail` (`add`). The
actions are those of begin (enter, poll, take, BEGIN), two statements, commit,
rollback and release. Two rows stand for any number: what distinguishes the
failures is before the first, between two, after the last. `AtomicStore` is what
the caller relies on.

**`Ipc`** - `pc`, `mutex`, `socket` are the threads of the applications, each
application's `proxy_mutex` and connection; `open`, `queued`, `fd`, `in`, `out`
the two ends of each connection and its descriptor in the daemon; `tasks`,
`running`, `up` the stub's stack, the task at hand and whether the daemon runs.
Threads call, write, wait, fail, retry once on a new connection and give up
(`email-ipc-proxy.c`); `Serve` is the epoll thread with one connection, which
accepts, reads what has arrived or closes; `TakeTask` pops the newest task and
`RunTask` executes it and writes to the task's descriptor. A large request or
answer is written in two sends, each a piece, and either reader takes the pieces
that are there for the whole (FIONREAD): `answering` is the answer whose second
piece `FinishAnswer` still has to send, and `Receive` takes the rest of a cut
answer for the next call's, or is refused it and tries again. `made`, `tried`,
`got`, `executed`, `stray`, `abandoned`, `cut` are history.

**`ApiWire`, `ApiClient`, `ApiStub`, `Api`** - a call of the client library on
its way. `ApiClient` has the functions of `email-api/` that send a request, each
a record: the parameters it adds, how its result comes out of the answer, the
outputs it fills from which places, who serves it instead for accounts of the
ActiveSync engine. `ApiStub` has the handlers of `email-daemon/main.c`, each the
set of what can come of it. A value is written as the name of what it is, so that
one read at the wrong place shows. `Api` takes a call through `Send`, `Dispatch`
and `Return`, with `Refuse`, `Bypass` and `Lose` beside them.

**`MailStore`, `MailCore`, `MailServer`, `Mail`** - `MailStore` has the functions
of `email-storage.c` on the tables (`db`: accounts, mailboxes, mails, uids,
attachments, meetings, rules, directories) as operators from database to
database; `MailCore` those of `email-core` that combine them (adding a mail with
its thread, trimming a mailbox, rules); `MailServer` the folders and messages of
IMAP and POP3 servers and the commands given to them (external); `Mail` the
actions: the calls of `email-daemon`, the detached threads (`threads`), the
events of the receive queue (`queue`), a synchronisation or a download in progress
(`run`), other clients of the server, and a restart. `work` bounds a behaviour;
`ghost` and `undisturbed` are history. A loop of the code over mails, mailboxes,
accounts or uids is an instance of `Iterate`, with the body of the loop for
`Step`: what the body reads, what it changes and the element are its three
arguments. `Starts` is the set of databases and servers that a behaviour may
begin with; that they are ones the program leaves (tables with their columns and
distinct ids, files of mails that had that id, every mail in a mailbox that is
there) is `StartsAssumption`, which TLC evaluates for the configured ones.

**`MimePart`, `MimeReader`, `ImapReader`, `PartialReader`, `MimeWriter`,
`Content`** - a message is a tree of parts with lines of text. `MimeReader` is the
line reader of POP3 and of message files (`emcore_mime_parse_mime` and what it
calls), `ImapReader` walks c-client's body structure, `PartialReader` is the
reader of the partial body download, `MimeWriter` what `email-core-smtp.c` makes
of a mail. `Content` has the two threads that use them (`thr`: the partial body
thread and a job of the receive queue) on one mail (`row`, `atts`, `files`), and
the eml files of clients (`eml`). `work.wrong` is history: which of the known ways
of going wrong (section 7) a behaviour has met.

The modules of different families share no variables. Where two components meet
the meeting lines of both are in one module: the deletion of an account and the
download thread in `PartialBody`, requests and the send thread in `SendMail`,
proxy and stub in `Ipc`, client library and handlers in `Api`, calls, queue and
synchronisation in `Mail`, the two downloading threads in `Content`. What another
family has in detail is one free step: a handler in `EventQueue`, the exchange in
`Api`, the queue in `Mail` (it accepts every event and runs them in order).

The `MC*` modules hold the values of the constants for TLC; symmetry is used in
the run `cancel` only, which has no liveness property.

## 4. Runs

| run | configuration | states | what it shows |
|---|---|---|---|
| `cancel` | `EventQueue_cancel` | 2.3 million | three events, two clients, any slot cancelled at any time, loop started and stopped: a cancelled running job is told so although its slot may hold another event (`StopIsSeen`); nothing is queued twice (`WaitingSlotsAreWaitingEvents`); an ended job stays ended (`FatesAreFinal`); an accepted event leaves the ring unrun only when the worker clears a slot reused behind its back (`DroppedOnlyByReuse`) |
| `fifo` | `EventQueue_fifo` | 329 thousand | three events of two clients in a ring of two slots, which wraps, fills and refuses one, none cancelled: the ring implements `JobFifo` (`ImplementsFifo`), the worker sleeps only on an empty ring (`SleepsOnlyWhenEmpty`), and a job behind a running one is run (`BacklogIsDrained`) |
| `send_any` | `SendMail_any` | 4.5 million | a restart, every fault, cancellations: SENDING only on the mail on the wire or on one whose later status could not be written (`SendingIsBeingSent`), a stopped send is not transmitted (`StoppedIsNotTransmitted`) |
| `send_steady` | `SendMail_steady` | 388 thousand | without cancellation, restart or a missing network, but with reads and UPDATEs that fail: a mail in SEND_WAIT has a send (`WaitingMailHasSend`), and SENDING ends (`SendingEnds`), save for a mail whose status could not be written |
| `send_refused` | `SendMail_sent` | violation | a refused mail is filed and marked as sent (`SentWasDelivered`) |
| `pbd_backlog` | `PartialBody_backlog` | 592 thousand | with syncs, pauses, faults and an account deletion that clears the ring: flags exact (`FlagsTellTheQueue`), the ring implements `EventFifo`, no event is stranded (`BacklogIsDrained`) |
| `store_paired` | `Transaction_paired` | 41 thousand | one thread has the authority (`AuthorityIsExclusive`), the store is atomic (`ImplementsStore`), every waiter is served (`WaiterIsServed`) |
| `store_checked` | `Transaction_checked` | 285 thousand | with every fault and stray rollbacks, success still means stored (`ReportedIsStored`) |
| `ipc_faults` | `Ipc_faults` | 308 thousand | a daemon that stops and starts, an application that ends, interrupted waits, or long requests or large answers read in parts: a thread takes an answer that is not its own only after a descriptor was reused, a socket kept after a failure or an answer taken in part (`WrongAnswerOnlyByReuse`); an answered call was executed, and more than once only if it was sent again (`AnsweredWasExecuted`), while its caller waited (`RunsInsideItsCall`); every call returns unless a request was cut (`CallsReturn`) |
| `api_calls` | `Api_calls` | 577 | every function of the client library in every shape against its handler: `ArgumentsArrive`, `ResultTells`, `OutputsAreFilled`, `CallsReturn` |
| `mail` | `Mail_calls` | 580 thousand | two calls of each group beside other clients, faults and a restart: rows refer to rows and ids are not shared (`TypeOK`); an undisturbed synchronisation mirrors the server up to the first message that it cannot read, check or file (`SyncMirrors`); uid rows, thread heads and mailboxes of mails are right (`RowsTellTheUid`, `ThreadHasOneHead`, `MailsHaveTheirMailbox`); deletions reach the server (`DeletionReachesServer`); no mail, message or file goes that should stay (`MailsAreKept`, `MessagesAreKept`, `FilesStay`) |
| `content_downloads` | `Content_downloads` | 29 thousand | partial body, whole body and attachments of 24 shapes of message, over IMAP and POP3, in two threads with losses and restarts: `ShowsTheMessage`, `AttachmentsAreListed`, `SavedIsTheNamed`, `ReferencesLead`, and eml files stay while a client has them (`EmlFilesStay`) |

Every property of a passing run has a mutant in `PROJECT.json`: a definition,
changed as a plausible mistake in the code would change it, with which TLC finds
the property violated.

## 5. Bounds and fairness

* Rings of two slots have every position of an index relative
  to a full, wrapped, empty or holed ring: a slot before, at and behind it. Three
  events fill a ring of two and have one refused or reuse a slot.
* Two clients give every race between two inserters, or an inserter and a
  canceller; a third adds no new pair, and each action touches one slot.
* An event is inserted once; a second request for a mail is a second send of it.
* `SendMail`: one crash, after which the state is one from which the first run
  began, with another table. Two mails and three sends give two sends of one mail
  and a stranger.
* `PartialBody`: a batch of two and a ring of two, one flush for a full batch, one
  for another mailbox; two accounts with one mailbox each.
* `Transaction`: three threads and four jobs: one inside, one polling, one
  waiting for the lock, one more job for whoever returns.
* `Ipc`: two processes, one with two threads, two connections, one call of each
  thread; one fault with short requests and answers, or requests or answers of two
  threads in two parts. The properties also hold with large answers and a fault
  (900 thousand states). What is cut in more than two parts is cut in two first.
* `Api`: one call at a time, as calls share nothing in the two programs;
  `MemoryFails` is FALSE in the run because a handler that answers nothing leaves
  its caller waiting, TRUE or FALSE in the proofs.
* `Mail`: two calls out of one of thirteen groups, with one or two changes by
  other clients or one fault. An account of each kind with three messages in
  folders of slot size two; of the three messages that may arrive one has no
  subject and one cannot be decoded; the rules are one for a sender, one for a
  subject and one for the body. The groups are the calls that meet: deletions,
  moves and syncs; flags and expunges; mailboxes; slot sizes and rules; accounts.
  The uids of the folders are apart,
  which a server does not promise: where two folders share one the code takes a
  mail of one for a mail of the other (section 7), and of the nine properties only
  `TypeOK`, `MailsHaveTheirMailbox`, `FilesStay` and `ThreadHasOneHead` hold; these
  four are proved, whatever the uids.
* `Content`: texts of at most `Limit` = 4 lines in a partial body; nine common
  shapes of message with one fault, twelve in which one reader takes a part for
  another thing, three that the writer makes.
* No state constraint is used. `CHECK_DEADLOCK FALSE` stands where the instance
  ends: events, jobs or calls are finite and clients owe no call.

Fairness is weak and of threads only: the scheduler runs a thread that can run.
In `EventQueue` of the worker, of the thread that stops the loop and of each
client in the middle of a call; in `SendMail` of the sender, of requesters and
of a cancellation under way; in `PartialBody` of the download thread alone; in
`Transaction` of each thread in a call; in `Ipc` of each calling thread, of the
service of each connection and of the task thread; in `Api` of the handler and
the return. `Mail` and `Content` have no fairness and no liveness property.
Nobody owes an insertion, a request, a cancellation, a crash, a fault or a
spurious wake-up. `WaiterIsServed` rests on weak fairness only because the number
of jobs is finite; with an endless supply, the lock `_transactionBeginLock` would
have to be fair.

## 6. Proofs

A `*Proofs` module extends the module it is about. All constants are arbitrary
within the named assumptions, which say that names are distinct, sizes positive
and functions total, and in `Mail` that a behaviour begins with a database and
servers that are whole.

* **`EventQueueProofs`**: `TypeCorrect`, `OneJobAtATime` (`StartedIsActive`),
  `CancelReachesTheJob` (`StopIsSeen`), `NothingQueuedTwice`, `EndedStaysEnded`,
  `NoStrayAbort`, `OnlyReuseDrops` (`DroppedOnlyByReuse`), and, where nobody
  cancels (`Cancels = {}`), `RingIsFifo` (`ImplementsFifo`) and
  `SleepsWhenNothingWaits` (`SleepsOnlyWhenEmpty`). `IInv` adds to the checked
  invariants where each thread is and what it holds there (`Places`,
  `Holdings`), which slots are empty (`SlotShape`), that an event being inserted
  is in no slot (`Inserting`), what the fate of the event in each slot is
  (`SlotFates`) and of the one that runs (`RunFate`). Without the fates an event
  could be in two slots; without the places a slot could be STARTED and nobody
  working on it. `OnlyReuseDrops` needs two facts more (`RInv`): the event of a
  job that is being tidied up has ended (`EndedFate`), so that clearing its own
  slot drops nothing, and no event waits before the loop is started
  (`NotStarted`), because the start wipes the ring. `RingIsFifo` needs the shape
  of the ring (`QInv`): the waiting slots follow each other without a hole
  (`WaitBelow`), the read index is at the first of them or just behind the slot
  that runs, and the stop can cancel the last slot only. The mapping reads the
  slots in ring order; that an insertion appends and a retrieval takes the head
  is shown from the numbers of waiting slots below each slot, counted with
  `FS_CountingElements`, without induction.
* **`SendMailProofs`**: `SendTypeCorrect`, `SendingOnlyOnTheWire`
  (`SendingIsBeingSent`), `StoppedSendStaysHome` (`StoppedIsNotTransmitted`),
  `SendGivenUpStaysGivenUp`, for any number of restarts, and
  `WaitingMailIsInHand` (`WaitingMailHasSend`) under `Steady`: no cancellation,
  no restart, a network. The two about the status except the mails in `missed`,
  and nothing else: a write of the status that fails, or that is not made because
  the mail could not be read, is the one way to leave SENDING or SEND_WAIT behind.
  `IInv` needs that at most one send is between retrieval
  and end (`OneAtATime`) and that a deleted row has no status
  (`GoneHasNoStatus`), because the UPDATE that would end SENDING does nothing on
  it. `WInv` says in whose hands a mail in SEND_WAIT is (`InHand`): in a waiting
  slot, with a request that has not reached its slot, or with the send thread
  before its mark.
* **`PartialBodyProofs`**: `TypeCorrect`, `FlagsAreExact` (`FlagsTellTheQueue`),
  `BatchStaysInBox`, `LocalSyncAlone`, `RingIsFifo` (`ImplementsFifo`). The
  flags are exact because the used cells follow each other from the index on
  (`Contiguous`): an operation that sees one cell knows the rest. The lemmas
  about `Passed` order the cells by their distance from the index, those about
  `UsedBelow` count them, so that the n-th used cell is the n-th pending event.
* **`TransactionProofs`**: `TypeCorrect` without conditions;
  `ExclusiveAuthority` where no function gives back what it has not taken
  (`PairedOnly`), from `PollsUnderLock`: who polls holds the lock and finds the
  flag as it saw it; `SuccessIsStored` where END is looked at (`CheckedOnly`),
  from `WritesAreKept`: as long as the open transaction is a thread's own, what
  the thread has written is in it, however the authority wanders; and
  `StoreIsAtomic`, the refinement of `AtomicStore`, where BEGIN is looked at when
  it can fail and END does not fail (`AtomicOnly`), from `Exclusion` and from
  what is in the transaction at each place (`OwnTransaction`), that jobs are not
  shared (`JobsAreOwn`) and that the database has whole jobs (`WholeJobs`).
  The conditions are those of the code: section 7 says what goes wrong in the
  functions that do not meet them.
* **`IpcProofs`**: `TypeCorrect`, `AnswersGoToTheirCalls`
  (`WrongAnswerOnlyByReuse`), `CallsRunInOrder` (`RunsInsideItsCall`),
  `AnswersTellExecutions` (`AnsweredWasExecuted`), for any number of
  applications, threads, connections and faults, and requests and answers of any
  length.
  `TypeInv` has the places of the threads, connections and tasks; `LaneInv` says
  that as long as a connection's history is clean everything on it - the request
  in the socket, the task on the stack, the answer on its way - belongs to the
  one thread that holds the connection's mutex; `RunInv` says which calls were
  given up, whose parts were cut, and which requests are whole; `Fronts` that no
  thread has left the rest of an answer behind. That a call is
  executed no more often than it was sent follows from a balance (`Balance`):
  the executions of a call and its requests still under way are at most its
  transmissions.
* **`ApiProofs`**: `FunctionsFit`, `ParametersArrive` (`ArgumentsArrive`),
  `ResultsTell` (`ResultTells`), `OutputsFilled` (`OutputsAreFilled`). The
  contract of a function with its handler (`Fits`) is a statement about two
  records, and it is computed for each function of the library from the lists of
  what it adds and what the handler reads; what remains is the call on its way
  (`IInv`): a request being served is the call's, the answer is one that its
  handler gives. The constants `Misread`, `Untold` and `Unfilled` must contain
  the one, ten and four functions of section 7 and nothing else is excused; the
  theorems hold with and without failing memory.
* **`IterateProofs`**: `Trace`, what a loop leaves is the last of a sequence of
  values, each made by the body of the one before; `Kept`, what holds before a
  loop and is kept by its body holds after it. Both for any body (`Step`) and
  any relation to the beginning (`Keep`), which are constants of the module: each
  loop of `Mail` instances it with its own. They come from a set of numbers that
  has 0 and the successor of each of its members (`UpTo`), by the least number
  that is missing.
* **`MailProofs`**: `TypeOKHolds` (`TypeOK`), `MailsHaveTheirMailboxHolds`
  (`MailsHaveTheirMailbox`), `ThreadHasOneHeadHolds` (`ThreadHasOneHead`) with
  `ThreadsAreStrung`, and `FilesStayHolds` (the action property `FilesStay`), for any numbers of accounts, mailboxes, mails, rules, events and threads, any
  calls, changes by other clients, faults and restarts. `IInv` adds to the two
  invariants the columns of every table, that ids are distinct and mail ids below
  `next`, that a directory or a meeting is of an account its mail has or had
  (`Sound`), that the folders of the servers have distinct uids below their next
  (`Serving`), and what waits to be used: what an event or a thread carries
  (`Event`), the mailboxes and messages a synchronisation has listed, that a
  mailbox it has selected is still at the head of its list, and that the mail
  whose body was read is of the account it was read for (`Running`). Without
  `Sound` an id might be given twice, and deleting one mail would take another's
  files; without `Running` the body of a mail might be stored for another account.
  `Stringing` is for the heads: a thread has the id of a mail that was given and
  mails of one account only (`Strung`), and those not in `ghost.headless` are
  `Headed`, the latest of the listed mails with their number and the others with 0.
  Without `Strung` a new thread might take the id of an old one, and the head, which
  is looked up and counted in one account, would be that of some of its mails.
  The lemmas go from the tables up. `Thinned` says what a deletion leaves:
  nothing but the mails asked for is gone, and of the files nothing but theirs,
  except in accounts where a mail of the batch was gone already (`Wiping`).
  `Steady` is what most functions keep, `Leads` what all do: the database is
  sound, its mails have their mailboxes if those before had (but for the mails it
  names), files stay (but in the accounts it names). `Ties` says that threads that
  had a head have one still, and depends only on what `Knot` takes of a mail: most
  functions leave the `Knots` alone. Of those that delete, `Cuts` says what is left
  by a batch that goes together, which gives the threads of one account their heads
  again, and `Frays` what is left by batches that go one after the other, where each
  may leave a thread without. With the excuses that `Next` notes both give `Ties`.
  There is one lemma for each function of `MailStore` and `MailCore`, and `Serves` says the same of those of
  `MailServer`. `Leads` composes (`LeadsTwice`), and so the loops, by `Kept`, and
  the actions (`Good`) follow; an ORDER BY is shown to list each row once
  (`Ranks`, `ByIdLists`) because each row's place is the number of rows before it.
  The assumptions are `SlotsAssumption` (no negative slot), `NamesAssumption` and
  `FolderTypeAssumption` (a folder's name has a type of the enumeration),
  `DatesAssumption` (a message has a date) and `StartsAssumption`. `IInv` was also
  checked by TLC on the run's instance (`Headed` of the threads that have mails).

Beside properties of the runs they prove `TypeOK` of these modules,
`StartedIsActive` (a slot is STARTED only as the active one), `NoStrayAbort` (a
handler is aborted only when its job was stopped), `SendGivenUpStaysGivenUp`,
`BatchIsOneBox` and `LocalSyncHasNoBatch`.

Model-checked only:

* all liveness (`BacklogIsDrained`, `SendingEnds`, `WaiterIsServed`,
  `CallsReturn`): the proof system has no rule for fairness that it can check
  here;
* of `Mail`: `SyncMirrors`, `RowsTellTheUid`, `DeletionReachesServer`,
  `MailsAreKept` and `MessagesAreKept`. They compare the
  database with the servers, or a mail with what was asked for in an earlier step,
  and except by history what earlier steps have put apart. They
  rest on the uids of an account's folders being apart, which is so in the run and
  not in general, and would be proved under an assumption that says so;
* `Content`: its readers are recursive operators over trees, about which nothing
  can be proved in this system;
* the violation of `SentWasDelivered`.

## 7. Deviations

What the code does against its own words, or in a way its callers do not expect.
The first is a run. The second column names the property that the modules state
and the code does not keep, where there is one; the runs avoid these by the
values of their constants, and the properties of `Mail`, `Content` and `Api`
except them by name.

Queues and threads:

| where | property | what happens |
|---|---|---|
| `email-core-smtp.c` | `SentWasDelivered` (run `send_refused`) | a mail that the server refused is filed and marked as sent |
| `email-core-event.c:795` | `SleepsOnlyWhenEmpty` | cancelling a waiting job leaves a hole; the retrieve looks at one slot and the thread sleeps though jobs wait |
| `email-core-event.c:2222`, `:2613` | `AcceptedIsHandled`, `StopCompletes` | a signal between the test and the wait is lost; the stop signals once, and the join does not return |
| `email-core-event.c:356`, `:731-757`, `:2417-2444` | `ReceivingOnlyWhenBusy` | the counters are changed without a lock, and five event types raise one that nobody lowers |
| `email-core-event.c:1013` | - | without a network the slot of a send stays STARTED and trips the retrieve later |
| `email-core-smtp.c:1214` | `FailedWasNotDelivered` | a mail that was sent is marked as failed when no SENTBOX is found |
| `email-core-smtp.c:1291` | `CancelHitsItsMail` | the entry of a failed send stays in the list and its handle cancels another mail's |
| `email-core-utils.c:1239` | `WaitingSendIsCancellable` | deleting the last entry of the list forgets the others |
| `email-daemon-etc.c:105` | `CancelledIsMarked` | a cancelled mail stays in SEND_WAIT: the code that marks it is not compiled |
| `email-storage.c:7851` | - | a restart resets SENDING but not SEND_WAIT |
| `email-core-smtp.c:1283`, `:1295`, `:1303` | excused by `missed` | an UPDATE of the status that fails is only logged: SENDING stays until a restart |
| `email-core-smtp.c:1063-1073`, `:1292` | excused by `missed` | when the account or the mail cannot be read no status is written and SEND_WAIT stays |
| `email-core-event.c:3313` | - | a signal between retrieve and wait of the download thread is lost |
| `email-core-event.c:3572` | `CycleCoversAccounts` | the mailboxes of a second account are looked up under the first |
| `email-core-account.c:318` | `NoRowOfDeletedAccount` | rows are removed before the jobs that add them are stopped |
| `email-storage.c:8644`, `email-core-account.c:322` | `AuthorityIsExclusive` | a function that leaves before START, or an account deletion that gives up, rolls back and frees another's authority |
| `email-core-mail.c:4425` | `ReportedIsStored` | `emcore_mail_copy` commits when its first attachment fails, because `i` is 0 |
| `email-core-mailbox-sync.c:1094`, `:1097` | `ImplementsStore` | `email-core` ignores a refused BEGIN, and half a job may be stored |

Calls:

| where | what happens |
|---|---|
| `email-stub-socket.c:170` | a descriptor is closed while a task for it waits, and given to the next connection, which gets the answer |
| `email-ipc-proxy.c:84-93` | after a second failed try the socket is kept, and the late answer goes to the next call |
| `email-stub-task-manager.c:125` | tasks are a stack: a request may wait for all that came later |
| `email-ipc-socket.c:148` | a message is what FIONREAD says has come; the rest of a cut request swallows the next one, whose caller waits for ever, as there is no time limit; the rest of a cut answer is taken for the answer of the process's next call, which returns before it is executed |
| `email-ipc-proxy.c` | a retry executes a call twice |
| `email-api-network.c:979`, `:1005` | the parameters of `email_clear_result_of_search_mail_on_server` are read for others (`Misread`) |
| `email-api-network.c:474`, `:580`, `email-storage.c:8962` | the download functions tell success where nothing was put in the queue (`Untold`) |
| `email-api-account.c:543`, `email-api-etc.c:68`, `email-api-network.c:808` | restoring accounts, showing a message and the list of mailboxes tell success for what failed (`Untold`) |
| `email-daemon/main.c:762-763`, `:213-216` | setting a mailbox's type answers with another variable; an update with validation answers before it failed (`Untold`) |
| `email-api-network.c:332-336` | when the list of accounts fails once the daemon has agreed, `email_sync_header_for_all_account` returns NONE, its handle is not filled and the ActiveSync engine is not notified (`Unfilled`) |
| `email-api-smime.c` | the outputs of the verifications are not filled (`Untold`, `Unfilled`) |

Mails (the excuse is the part of `ghost` or `work` that names it):

| where | excuse | what happens |
|---|---|---|
| `email-storage.c`, move and uid updates | `moved` | uids are changed by their old value in every account and mailbox, and the row's mailbox id is set to a name |
| `email-core-mailbox-sync.c`, rules | `filed` | a mail that a rule files is in one mailbox here and found under another; the spam mailbox files its own mails again at every synchronisation |
| `email-core-mailbox-sync.c:1694-1702` | `Stops` | a message whose header cannot be decoded, or which the rules cannot be compared with (no subject, no sender that can be parsed, a rule for the body), ends every synchronisation of its mailbox, and the messages behind it get no row |
| `email-core-mail.c:3797-3822` | `ExpungedWith` | an expunge deletes on the server what is marked deleted here, whether or not the server was ever told of the mark; and `emcore_delete_mail` returns success when the server was not reached (`:3318`), so the mails go here and their messages stay there |
| calls over several accounts, stale mailbox rows | `strays` | the row of a mail names a mailbox that is gone, is of another account, or got the id of one that is gone |
| `email-core-mail.c`, `email-storage.c` | `headless` | a thread keeps the count it had when mails go that are not its head (`email-core-mail.c:3489` asks for heads only if the mail's own count is above 1); a batch with mails of two accounts gives heads to the threads of one; a rule that files a mail, or a new type of its mailbox, changes what a thread lists without counting again |
| `email-core-mail.c:3510` | `wiped` | deleting a mail that is gone already has a zero record, and the files and meetings of the account go |
| `email-storage.c:3196`, `:10796`, `:12352` | - | mails and uid rows are found by uid, with the account or without, never the mailbox: where two folders share a uid, a synchronisation of one deletes the mail of the other, and a move changes it (the run keeps uids apart) |
| deletions in batches and of mailboxes | `single`, `boxes` | the uids of a batch are deleted in the mailbox of the last mail; a mailbox's mails are gone here before the event that deletes them there looks for them |
| queue and detached threads | `faulted` | are lost in a restart; what failed is not tried again |
| `email-daemon-mail.c:1214`, `:242` | - | UPDATE_MAIL goes to the send queue and SEND_MAIL_SAVED to the receive queue, which have no case for them; the change itself is made at once |
| `email-core-mail.c:4828` | - | an attachment whose file has the row's name is not stored again |
| `email-core-imap-mailbox.c:461` | - | a second synchronisation of the list fails when it adds a default mailbox that is there, and mailboxes without a folder stay |
| `email-core-event.c:2338` | - | one parameter of DELETE_MAILBOX is both the mailbox and whether to delete on the server |

Content (the excuse is in `work.wrong`): text that a partial body cuts is lost
(`lost`, `email-core-mime.c:1666`); sizes are estimates (`estimated`,
`email-core-mailbox-sync.c:3752`); two threads write one mail (`together`);
attachments are listed again (`relisted`, `email-core-mailbox-sync.c:3434`); a
part is taken for an attachment (`attached`, `email-core-mime.c:2285-2310`); the
counter of eml directories begins again (`restarted`). The reader counts lines
where boundaries should end a part (`email-core-mime.c:1013`, `:1442-1455`),
compares a NULL content id (`:3122`), and `inline_content_count` is not written
with a body (`email-storage.c:7991-8012`).

## 8. What is not modelled

* Memory: two walks over `g_transaction_info_list` at once, or a list freed
  during a walk, are errors the models have no state for.
* The network, SQLite and the servers, as outcomes of the steps that use them;
  notifications, logging and profiles, as no property is about them.
* The process-shared mutex between processes: another process's hold of the
  database is the outcome "busy" of BEGIN; a time-limited lock that fails is the
  lock already held by another thread.
* The IMAP idle thread, which is not built; automatic polling, alert sounds,
  the client count and hibernation.
* S/MIME, certificates, conversions of structures, the vendored `tpl.c`,
  encodings and character sets: data without control that interleaves.
* Ten requests of the stub that no function of the client library sends:
  FIND_RULE, GET_ACCOUNT_LIST, GET_MAILBOX_COUNT, GET_MAILBOX_LIST, GET_RULE,
  GET_RULE_LIST, MODIFY_MAIL_EXTRA_FLAG, MODIFY_MAIL_FLAG,
  PRINT_RECEIVING_EVENT_QUEUE, UPDATE_MAILBOX.
* In `Mail`: the search on the server, accounts of ActiveSync, accounts whose
  synchronisation is disabled or whose blocking by sender or by subject is off,
  rules that are off, retrieval by date and in mode NEW, the
  cancellation of a job under way, failing statements (they are in
  `Transaction`), a changed subject or date.
* The polling of `emcore_cancel_all_threads_of_an_account`, the retry timer of
  the send queue, `emcore_send_saved_mail`.
