--------------------------- MODULE SendMailProofs ---------------------------
(***************************************************************************)
(* Proofs about SendMail, for every ring size, every set of mails and      *)
(* sends, every choice of what fails and any number of restarts.           *)
(***************************************************************************)
EXTENDS SendMail, SequenceTheorems, WellFoundedInduction, TLAPS

(***************************************************************************)
(* The inductive invariant.  That SENDING is only on the mail on the wire  *)
(* needs that a deleted mail has no status any more, because the UPDATE    *)
(* that would take the status away does nothing then.  That a stopped or   *)
(* cancelled send never goes out needs the fate of the send in every slot, *)
(* and that a slot left STARTED by a failed network check is not taken for *)
(* the slot of the send at hand.                                           *)
(***************************************************************************)
SenderBusy == {"network", "prepare", "mark", "cancelled", "forget_sent", "clear"}
                 \cup Transmitting

Places ==
    /\ pc[Sender] \in SenderPlaces
    /\ \A r \in Requesters : pc[r] \in RequesterPlaces

\* type is 0 exactly in the slots that are UNUSED or CANCELED.
SlotShape ==
    \A s \in Slots : que[s].send = NoSend <=> que[s].status \in {"UNUSED", "CANCELED"}

\* A thread has the send its place needs.
Holdings ==
    /\ pc[Sender] \in SenderBusy => active \in Slots /\ job[Sender] \in Sends
    /\ \A r \in Requesters :
         pc[r] \in {"set_wait", "insert", "signal", "reject", "record"} => job[r] \in Sends

\* A send that is being requested is in one requester's hands.
Requested ==
    \A r \in Requesters :
        /\ pc[r] \in {"set_wait", "insert"} => fate[job[r]] = "requested"
        /\ pc[r] = "reject" => fate[job[r]] \in {"requested", "refused"}
        /\ \A q \in Requesters :
             (/\ pc[r] \in {"set_wait", "insert", "reject"}
              /\ pc[q] \in {"set_wait", "insert", "reject"} /\ job[q] = job[r]) => q = r

SlotFates ==
    \A s \in Slots :
        /\ que[s].status = "WAIT" => fate[que[s].send] = "waiting"
        /\ que[s].status = "STARTED" => fate[que[s].send] \in {"sending", "skipped"}
        /\ que[s].send # NoSend => \A t \in Slots : que[t].send = que[s].send => t = s

RunFate ==
    pc[Sender] \in SenderBusy =>
        /\ fate[job[Sender]] \in {"sending", "stopping"}
        /\ fate[job[Sender]] = "sending" =>
             que[active].send = job[Sender] /\ que[active].status = "STARTED"
        /\ fate[job[Sender]] = "stopping" => que[active].status # "STARTED"

\* Only the send that the send thread has is being sent.
OneAtATime ==
    \A s \in Sends : fate[s] \in {"sending", "stopping"} =>
        pc[Sender] \in SenderBusy /\ job[Sender] = s

GoneHasNoStatus == \A m \in Mails : mailbox[m] = "GONE" => saveStatus[m] = "NONE"

IInv ==
    /\ TypeOK /\ Places /\ SlotShape /\ Holdings /\ Requested /\ SlotFates
    /\ RunFate /\ OneAtATime /\ GoneHasNoStatus /\ SendingIsBeingSent

USE QueueMaxAssumption, SendsAssumption
USE DEF Procs, Requesters, Slots, EmptySlot, CanceledSlot, Goto, mailVars, statusVars,
        ringVars, reqVars, histVars

-----------------------------------------------------------------------------
LEMMA NextSlotType == \A i \in Slots : NextSlot(i) \in Slots
  BY DEF NextSlot

\* The lookup in the transaction list: 0, or the place of an entry.
LEMMA EntryRange ==
  ASSUME NEW m, TypeOK
  PROVE  EntryOf(m) \in 0 .. Len(trans)
<1> DEFINE I == {i \in 1 .. Len(trans) : trans[i].mail = m}
<1>1. EntryOf(m) = IF I # {} THEN Min(I) ELSE 0
  BY DEF EntryOf, SelectInSeq
<1>2. ASSUME I # {} PROVE Min(I) \in I
  <2>1. I \subseteq Nat
    OBVIOUS
  <2>2. \E x \in I : \A y \in I : ~(<<y, x>> \in OpToRel(<, Nat))
    BY <1>2, <2>1, NatLessThanWellFounded, WFMin
  <2>3. \A x, y \in Nat : y < x => <<y, x>> \in OpToRel(<, Nat)
    BY Zenon DEF OpToRel
  <2>4. \E x \in I : \A y \in I : ~(y < x)
    <3> HIDE DEF I
    <3> QED  BY <2>1, <2>2, <2>3, Zenon
  <2>5. \E x \in I : \A y \in I : x =< y
    BY <2>1, <2>4
  <2> QED  BY <2>5 DEF Min
<1>3. Len(trans) \in Nat
  BY DEF TypeOK
<1> QED  BY <1>1, <1>2, <1>3

LEMMA WithoutType ==
  ASSUME NEW m, TypeOK
  PROVE  Without(m) \in Seq([mail : Mails, handle : Slots \cup {0}])
<1> DEFINE Entries == [mail : Mails, handle : Slots \cup {0}]
<1>1. trans \in Seq(Entries) /\ EntryOf(m) \in 0 .. Len(trans) /\ Len(trans) \in Nat
  <2>1. trans \in Seq(Entries)
    BY DEF TypeOK
  <2> QED  BY <2>1, EntryRange, LenProperties
<1> HIDE DEF Entries
<1>a. \A i \in 1 .. Len(trans) : trans[i] \in Entries
  BY <1>1, ElementOfSeq
<1>2. ASSUME EntryOf(m) \in 1 .. (Len(trans) - 1) PROVE Without(m) \in Seq(Entries)
  <2>1. SubSeq(trans, 1, EntryOf(m) - 1) \in Seq(Entries)
    BY <1>1, <1>2, <1>a, SubSeqProperties
  <2>2. SubSeq(trans, EntryOf(m) + 1, Len(trans)) \in Seq(Entries)
    BY <1>1, <1>2, <1>a, SubSeqProperties
  <2>3. Without(m) = RemoveAt(trans, EntryOf(m))
    BY <1>1, <1>2 DEF Without
  <2> QED  BY <2>1, <2>2, <2>3, ConcatProperties DEF RemoveAt
<1>3. ASSUME EntryOf(m) \in {0, Len(trans)} PROVE Without(m) \in Seq(Entries)
  <2>1. Without(m) \in {trans, << >>}
    BY <1>3 DEF Without
  <2> QED  BY <1>1, <2>1, EmptySeq
<1>4. Without(m) \in Seq(Entries)
  BY <1>1, <1>2, <1>3
<1> QED  BY <1>4 DEF Entries

\* A status that is written, left alone because the row is gone, or missed.
LEMMA StatusStep ==
  ASSUME IInv, NEW n \in Mails, NEW st \in SaveStatuses, WriteStatus(n, st)
  PROVE  /\ saveStatus' \in [Mails -> SaveStatuses] /\ missed' \subseteq Mails
         /\ \A m \in Mails :
              /\ mailbox[m] = "GONE" => saveStatus'[m] = "NONE"
              /\ m # n => saveStatus'[m] = saveStatus[m] /\ (m \in missed' <=> m \in missed)
         /\ saveStatus'[n] \in {"NONE", st} \/ n \in missed'
<1>1. CASE SetStatus(n, st) /\ mailbox[n] = "GONE"
  BY <1>1 DEF SetStatus, IInv, TypeOK, GoneHasNoStatus
<1>2. CASE SetStatus(n, st) /\ mailbox[n] # "GONE"
  BY <1>2 DEF SetStatus, IInv, TypeOK, GoneHasNoStatus
<1>3. CASE MissStatus(n)
  BY <1>3 DEF MissStatus, IInv, TypeOK, GoneHasNoStatus
<1> QED  BY <1>1, <1>2, <1>3 DEF WriteStatus

-----------------------------------------------------------------------------
(* Every step preserves the invariant.                                    *)

LEMMA SetWaitInv == ASSUME IInv, NEW r \in Requesters, SetWait(r) PROVE IInv'
<1>a. \E l \in {"insert", "reject"} : pc' = [pc EXCEPT ![r] = l]
  BY DEF SetWait
<1>b. job[r] \in Sends /\ MailOf[job[r]] \in Mails /\ "SEND_WAIT" \in SaveStatuses
  BY DEF SetWait, IInv, Holdings, SaveStatuses
<1>c. WriteStatus(MailOf[job[r]], "SEND_WAIT") \/ UNCHANGED statusVars
  BY DEF SetWait, WriteStatus
<1>1. TypeOK'
  <2>1. saveStatus' \in [Mails -> SaveStatuses] /\ missed' \subseteq Mails
    <3>1. CASE WriteStatus(MailOf[job[r]], "SEND_WAIT")
      BY <3>1, <1>b, StatusStep
    <3>2. CASE UNCHANGED statusVars
      BY <3>2 DEF IInv, TypeOK
    <3> QED  BY <1>c, <3>1, <3>2
  <2> QED  BY <1>a, <2>1 DEF SetWait, IInv, TypeOK, RequesterPlaces
<1>2. Places'
  BY <1>a DEF SetWait, IInv, TypeOK, Places, RequesterPlaces
<1>3. Holdings'
  BY <1>a DEF SetWait, IInv, TypeOK, Holdings
<1>4. Requested'
  BY <1>a DEF SetWait, IInv, TypeOK, Requested
<1>5. RunFate'
  BY <1>a DEF SetWait, IInv, TypeOK, RunFate
<1>6. OneAtATime'
  BY <1>a DEF SetWait, IInv, TypeOK, OneAtATime
<1>7. GoneHasNoStatus'
  <2>1. CASE WriteStatus(MailOf[job[r]], "SEND_WAIT")
    BY <2>1, <1>b, StatusStep DEF SetWait, GoneHasNoStatus
  <2>2. CASE UNCHANGED statusVars
    BY <2>2 DEF SetWait, IInv, GoneHasNoStatus
  <2> QED  BY <1>c, <2>1, <2>2
<1>8. SendingIsBeingSent'
  <2>1. CurrentMail' = CurrentMail /\ pc'[Sender] = pc[Sender]
    BY <1>a DEF SetWait, CurrentMail, IInv, TypeOK
  <2>2. CASE WriteStatus(MailOf[job[r]], "SEND_WAIT")
    BY <2>1, <2>2, <1>b, StatusStep DEF IInv, SendingIsBeingSent
  <2>3. CASE UNCHANGED statusVars
    BY <2>1, <2>3 DEF IInv, SendingIsBeingSent
  <2> QED  BY <1>c, <2>2, <2>3
<1>9. SlotShape' /\ SlotFates'
  BY DEF SetWait, IInv, SlotShape, SlotFates
<1> QED  BY <1>1, <1>2, <1>3, <1>4, <1>5, <1>6, <1>7, <1>8, <1>9 DEF IInv

LEMMA BeginAddMailInv == ASSUME IInv, NEW r \in Requesters, NEW s \in Sends, BeginAddMail(r, s) PROVE IInv'
<1>1. TypeOK'
  BY DEF BeginAddMail, IInv, TypeOK, SendFates, InFlight, RequesterPlaces
<1>2. Places'
  BY DEF BeginAddMail, IInv, Places, RequesterPlaces
<1>3. Holdings'
  BY DEF BeginAddMail, IInv, TypeOK, Holdings
<1>4. Requested'
  BY DEF BeginAddMail, IInv, TypeOK, Requested
<1>5. SlotFates'
  BY DEF BeginAddMail, IInv, SlotFates
<1>6. RunFate'
  BY DEF BeginAddMail, IInv, RunFate
<1>7. OneAtATime'
  BY DEF BeginAddMail, IInv, OneAtATime
<1>8. SendingIsBeingSent'
  BY DEF BeginAddMail, IInv, SendingIsBeingSent, CurrentMail
<1>9. SlotShape' /\ GoneHasNoStatus'
  BY DEF BeginAddMail, IInv, SlotShape, GoneHasNoStatus
<1> QED  BY <1>1, <1>2, <1>3, <1>4, <1>5, <1>6, <1>7, <1>8, <1>9 DEF IInv

LEMMA BeginSendInv == ASSUME IInv, NEW r \in Requesters, NEW s \in Sends, BeginSend(r, s) PROVE IInv'
<1>a. /\ mailbox' \in [Mails -> Boxes]
      /\ \A m \in Mails : mailbox'[m] = "GONE" => mailbox[m] = "GONE"
  BY DEF BeginSend, IInv, TypeOK, Boxes
<1>b. /\ pc[r] = "idle" /\ fate[s] = "new" /\ job' = [job EXCEPT ![r] = s]
      /\ UNCHANGED <<statusVars, ringVars, busy, trans, reqVars, crashes, delivered>>
      /\ \E l \in {"set_wait", "reject", "record"} : pc' = [pc EXCEPT ![r] = l]
      /\ \E f \in {"requested", "refused"} :
           /\ fate' = [fate EXCEPT ![s] = f]
           /\ f = "requested" \/ pc' = [pc EXCEPT ![r] = "record"]
  BY DEF BeginSend
<1>1. TypeOK'
  BY <1>a, <1>b DEF IInv, TypeOK, SendFates, InFlight, RequesterPlaces
<1>2. Places'
  BY <1>b DEF IInv, TypeOK, Places, RequesterPlaces
<1>3. SlotShape'
  BY <1>b DEF IInv, SlotShape
<1>4. Holdings'
  BY <1>b DEF IInv, TypeOK, Holdings
<1>5. Requested'
  BY <1>b DEF IInv, TypeOK, Requested
<1>6. SlotFates'
  BY <1>b DEF IInv, TypeOK, SlotFates
<1>7. RunFate'
  BY <1>b DEF IInv, TypeOK, RunFate
<1>8. OneAtATime'
  BY <1>b DEF IInv, TypeOK, OneAtATime
<1>9. GoneHasNoStatus'
  BY <1>a, <1>b DEF IInv, TypeOK, GoneHasNoStatus
<1>10. SendingIsBeingSent'
  BY <1>b DEF IInv, TypeOK, SendingIsBeingSent, CurrentMail
<1> QED  BY <1>1, <1>2, <1>3, <1>4, <1>5, <1>6, <1>7, <1>8, <1>9, <1>10 DEF IInv

LEMMA InsertInv == ASSUME IInv, NEW r \in Requesters, Insert(r) PROVE IInv'
<1>1. TypeOK'
  <2>1. job[r] \in Sends /\ pc[r] = "insert"
    BY DEF Insert, IInv, Holdings
  <2>2. ASSUME NEW j \in Slots,
               que' = [que EXCEPT ![j] = [send |-> job[r], status |-> "WAIT"]],
               slot' = [slot EXCEPT ![r] = j],
               fate' = [fate EXCEPT ![job[r]] = "waiting"],
               pc' = [pc EXCEPT ![r] = "signal"], UNCHANGED job
        PROVE  TypeOK'
    BY <2>1, <2>2 DEF Insert, IInv, TypeOK, SendFates, InFlight, RequesterPlaces
  <2>3. ASSUME fate' = [fate EXCEPT ![job[r]] = "refused"], UNCHANGED que,
               IF TypeOf[job[r]] = "SEND_MAIL"
               THEN pc' = [pc EXCEPT ![r] = "reject"] /\ UNCHANGED <<job, slot>>
               ELSE Answer(r)
        PROVE  TypeOK'
    BY <2>1, <2>3 DEF Insert, Answer, IInv, TypeOK, SendFates, RequesterPlaces
  <2> QED  BY <2>2, <2>3 DEF Insert
<1>2. Places'
  BY DEF Insert, Answer, IsInsertSlot, IInv, TypeOK, Places, RequesterPlaces
<1>3. SlotShape'
  BY DEF Insert, IsInsertSlot, IInv, TypeOK, SlotShape, Holdings
<1>4. Holdings'
  BY DEF Insert, Answer, IsInsertSlot, IInv, TypeOK, Holdings
<1>5. Requested'
  BY DEF Insert, Answer, IsInsertSlot, IInv, TypeOK, Holdings, Requested
<1>6. SlotFates'
  <2>1. /\ job[r] \in Sends /\ pc[r] = "insert"
        /\ fate[job[r]] = "requested"
    BY DEF Insert, IInv, Holdings, Requested
  <2>2. \A s \in Slots : que[s].send # job[r]
    BY <2>1 DEF IInv, TypeOK, SlotShape, SlotFates
  <2>3. ASSUME NEW j \in Slots, que[j].send = NoSend,
               que' = [que EXCEPT ![j] = [send |-> job[r], status |-> "WAIT"]],
               fate' = [fate EXCEPT ![job[r]] = "waiting"]
        PROVE  SlotFates'
    BY <2>1, <2>2, <2>3 DEF IInv, TypeOK, SlotFates
  <2>4. ASSUME fate' = [fate EXCEPT ![job[r]] = "refused"], UNCHANGED que
        PROVE  SlotFates'
    BY <2>1, <2>2, <2>4 DEF IInv, SlotFates
  <2> QED  BY <2>3, <2>4 DEF Insert, IsInsertSlot, FreeSlots
<1>7. RunFate'
  BY DEF Insert, Answer, IsInsertSlot, FreeSlots, IInv, TypeOK, SlotShape, Holdings,
         Requested, RunFate
<1>8. OneAtATime'
  BY DEF Insert, Answer, IsInsertSlot, IInv, TypeOK, OneAtATime
<1>9. GoneHasNoStatus'
  BY DEF Insert, IInv, GoneHasNoStatus
<1>10. SendingIsBeingSent'
  BY DEF Insert, Answer, IsInsertSlot, IInv, TypeOK, SendingIsBeingSent, CurrentMail
<1> QED  BY <1>1, <1>2, <1>3, <1>4, <1>5, <1>6, <1>7, <1>8, <1>9, <1>10 DEF IInv

LEMMA SignalInv == ASSUME IInv, NEW r \in Requesters, Signal(r) PROVE IInv'
<1>1. TypeOK'
  BY DEF Signal, IInv, TypeOK, SenderPlaces, RequesterPlaces
<1>2. Places'
  BY DEF Signal, IInv, TypeOK, Places, SenderPlaces, RequesterPlaces
<1>3. Holdings'
  BY DEF Signal, IInv, TypeOK, Holdings, SenderBusy, Transmitting
<1>4. Requested'
  BY DEF Signal, IInv, TypeOK, Requested
<1>5. RunFate'
  BY DEF Signal, IInv, TypeOK, RunFate, SenderBusy, Transmitting
<1>6. OneAtATime'
  BY DEF Signal, IInv, TypeOK, OneAtATime, SenderBusy, Transmitting
<1>7. SendingIsBeingSent'
  BY DEF Signal, IInv, TypeOK, SendingIsBeingSent, Transmitting, CurrentMail
<1>8. SlotShape' /\ SlotFates' /\ GoneHasNoStatus'
  BY DEF Signal, IInv, SlotShape, SlotFates, GoneHasNoStatus
<1> QED  BY <1>1, <1>2, <1>3, <1>4, <1>5, <1>6, <1>7, <1>8 DEF IInv

LEMMA RejectInv == ASSUME IInv, NEW r \in Requesters, Reject(r) PROVE IInv'
<1>b. /\ job[r] \in Sends /\ MailOf[job[r]] \in Mails /\ "SAVED" \in SaveStatuses
      /\ WriteStatus(MailOf[job[r]], "SAVED")
  BY DEF Reject, IInv, Holdings, SaveStatuses
<1>1. TypeOK'
  BY <1>b, StatusStep DEF Reject, IInv, TypeOK, SendFates, RequesterPlaces
<1>2. Places'
  BY DEF Reject, IInv, Places, RequesterPlaces
<1>3. SlotShape'
  BY DEF Reject, IInv, SlotShape
<1>4. Holdings'
  BY DEF Reject, IInv, Holdings
<1>5. Requested'
  BY DEF Reject, IInv, Requested
<1>6. SlotFates'
  BY DEF Reject, IInv, Requested, SlotFates
<1>7. RunFate'
  BY DEF Reject, IInv, Requested, RunFate
<1>8. OneAtATime'
  BY DEF Reject, IInv, OneAtATime
<1>9. GoneHasNoStatus'
  BY <1>b, StatusStep DEF Reject, GoneHasNoStatus
<1>10. SendingIsBeingSent'
  <2>1. CurrentMail' = CurrentMail /\ pc'[Sender] = pc[Sender]
    BY DEF Reject, CurrentMail, IInv, TypeOK
  <2> QED  BY <1>b, <2>1, StatusStep DEF IInv, SendingIsBeingSent
<1> QED  BY <1>1, <1>2, <1>3, <1>4, <1>5, <1>6, <1>7, <1>8, <1>9, <1>10 DEF IInv

LEMMA RecordInv == ASSUME IInv, NEW r \in Requesters, Record(r) PROVE IInv'
<1>1. TypeOK'
  BY DEF Record, Answer, IInv, TypeOK, Holdings, RequesterPlaces
<1>2. Places'
  BY DEF Record, Answer, IInv, Places, RequesterPlaces
<1>3. Holdings'
  BY DEF Record, Answer, IInv, TypeOK, Holdings
<1>4. Requested'
  BY DEF Record, Answer, IInv, Requested
<1>5. RunFate'
  BY DEF Record, Answer, IInv, RunFate
<1>6. OneAtATime'
  BY DEF Record, Answer, IInv, OneAtATime
<1>7. SendingIsBeingSent'
  BY DEF Record, Answer, IInv, SendingIsBeingSent, CurrentMail
<1>8. SlotShape' /\ SlotFates' /\ GoneHasNoStatus'
  BY DEF Record, IInv, SlotShape, SlotFates, GoneHasNoStatus
<1> QED  BY <1>1, <1>2, <1>3, <1>4, <1>5, <1>6, <1>7, <1>8 DEF IInv

LEMMA CancelLookupInv == ASSUME IInv, NEW m \in Mails, CancelLookup(m) PROVE IInv'
<1>1. TypeOK'
  <2>1. trans[EntryOf(m)].handle \in Slots \cup {0}
    <3>1. EntryOf(m) \in 1 .. Len(trans)
      <4>1. trans \in Seq([mail : Mails, handle : Slots \cup {0}])
        BY DEF IInv, TypeOK
      <4> QED  BY <4>1, EntryRange, LenProperties DEF CancelLookup, IInv
    <3>2. trans[EntryOf(m)] \in [mail : Mails, handle : Slots \cup {0}]
      BY <3>1, ElementOfSeq DEF IInv, TypeOK
    <3> QED  BY <3>2
  <2> QED  BY <2>1 DEF CancelLookup, IInv, TypeOK, RequesterPlaces
<1>2. Places'
  BY DEF CancelLookup, IInv, Places, RequesterPlaces
<1>3. Holdings'
  BY DEF CancelLookup, IInv, Holdings
<1>4. Requested'
  BY DEF CancelLookup, IInv, Requested
<1>5. RunFate'
  BY DEF CancelLookup, IInv, RunFate
<1>6. OneAtATime'
  BY DEF CancelLookup, IInv, OneAtATime
<1>7. SendingIsBeingSent'
  BY DEF CancelLookup, IInv, SendingIsBeingSent, CurrentMail
<1>8. SlotShape' /\ SlotFates' /\ GoneHasNoStatus'
  BY DEF CancelLookup, IInv, SlotShape, SlotFates, GoneHasNoStatus
<1> QED  BY <1>1, <1>2, <1>3, <1>4, <1>5, <1>6, <1>7, <1>8 DEF IInv

LEMMA CancelSlotInv == ASSUME IInv, CancelSlot PROVE IInv'
<1> DEFINE h == slot[Stub]
<1>a. /\ pc[Stub] = "cancel" /\ Stub \in Requesters
      /\ h \in Slots \cup {0}
  BY DEF CancelSlot, IInv, TypeOK
<1>b. CASE h = 0
  <2>1. /\ UNCHANGED <<que, busy, fate, mailVars, idx, active, trans, crashes, delivered>>
        /\ Answer(Stub) /\ cancels' = NoMail
    BY <1>b DEF CancelSlot
  <2> QED
    BY <2>1, <1>a DEF Answer, IInv, TypeOK, Places, SlotShape, Holdings, Requested,
         SlotFates, RunFate, OneAtATime, GoneHasNoStatus, SendingIsBeingSent,
         CurrentMail, RequesterPlaces
<1>c. CASE h \in Slots
  <2>1. /\ que' = [que EXCEPT ![h] = CanceledSlot]
        /\ pc' = [pc EXCEPT ![Stub] = "forget"]
        /\ UNCHANGED <<job, slot, cancels, mailVars, idx, active, trans, crashes, delivered>>
    BY <1>c DEF CancelSlot
  <2>2. busy' \in Int
    BY <1>c DEF CancelSlot, IInv, TypeOK
  \* What it does to the fate of the send in the slot.
  <2>3. \/ /\ que[h].status = "WAIT" /\ que[h].send \in Sends
           /\ fate[que[h].send] = "waiting"
           /\ fate' = [fate EXCEPT ![que[h].send] = "cancelled"]
        \/ /\ que[h].status = "STARTED" /\ que[h].send \in Sends
           /\ fate[que[h].send] = "sending"
           /\ fate' = [fate EXCEPT ![que[h].send] = "stopping"]
        \/ /\ que[h].status = "STARTED" => fate[que[h].send] = "skipped"
           /\ que[h].status # "WAIT" /\ UNCHANGED fate
    <3>1. CASE que[h].status = "WAIT"
      BY <3>1, <1>c DEF CancelSlot, IInv, TypeOK, SlotShape, SlotFates
    <3>2. CASE que[h].status = "STARTED"
      <4>1. que[h].send \in Sends /\ fate[que[h].send] \in {"sending", "skipped"}
        BY <3>2, <1>c DEF IInv, TypeOK, SlotShape, SlotFates
      <4>2. fate' = [fate EXCEPT ![que[h].send] = IF @ = "sending" THEN "stopping" ELSE @]
        BY <3>2, <1>c DEF CancelSlot
      <4> QED  BY <3>2, <4>1, <4>2 DEF IInv, TypeOK
    <3>3. CASE que[h].status \notin {"WAIT", "STARTED"}
      BY <3>3, <1>c DEF CancelSlot
    <3> QED  BY <3>1, <3>2, <3>3
  <2>4. TypeOK' /\ Places' /\ SlotShape' /\ Holdings' /\ Requested'
    <3>1. TypeOK'
      BY <1>a, <1>c, <2>1, <2>2, <2>3 DEF IInv, TypeOK, SendFates, InFlight,
         RequesterPlaces
    <3>2. Places' /\ SlotShape' /\ Holdings'
      BY <1>a, <1>c, <2>1 DEF IInv, Places, SlotShape, Holdings, RequesterPlaces
    <3>3. Requested'
      BY <1>a, <1>c, <2>1, <2>3 DEF IInv, TypeOK, Holdings, Requested
    <3> QED  BY <3>1, <3>2, <3>3
  <2>5. SlotFates'
    BY <1>c, <2>1, <2>3 DEF IInv, TypeOK, SlotShape, SlotFates
  <2>6. RunFate'
    BY <1>a, <1>c, <2>1, <2>3 DEF IInv, TypeOK, Holdings, SlotFates, RunFate
  <2>7. OneAtATime'
    BY <1>a, <1>c, <2>1, <2>3 DEF IInv, TypeOK, OneAtATime
  <2>8. GoneHasNoStatus' /\ SendingIsBeingSent'
    BY <1>a, <2>1 DEF IInv, GoneHasNoStatus, SendingIsBeingSent, CurrentMail
  <2> QED  BY <2>4, <2>5, <2>6, <2>7, <2>8 DEF IInv
<1> QED  BY <1>a, <1>b, <1>c

LEMMA CancelForgetInv == ASSUME IInv, CancelForget PROVE IInv'
<1>1. TypeOK'
  <2>1. trans' \in Seq([mail : Mails, handle : Slots \cup {0}])
    BY WithoutType DEF CancelForget, IInv
  <2> QED  BY <2>1 DEF CancelForget, Answer, IInv, TypeOK, RequesterPlaces
<1>2. Places'
  BY DEF CancelForget, Answer, IInv, Places, RequesterPlaces
<1>3. Holdings'
  BY DEF CancelForget, Answer, IInv, Holdings
<1>4. Requested'
  BY DEF CancelForget, Answer, IInv, Requested
<1>5. RunFate'
  BY DEF CancelForget, Answer, IInv, RunFate
<1>6. OneAtATime'
  BY DEF CancelForget, Answer, IInv, OneAtATime
<1>7. SendingIsBeingSent'
  BY DEF CancelForget, Answer, IInv, SendingIsBeingSent, CurrentMail
<1>8. SlotShape' /\ SlotFates' /\ GoneHasNoStatus'
  BY DEF CancelForget, IInv, SlotShape, SlotFates, GoneHasNoStatus
<1> QED  BY <1>1, <1>2, <1>3, <1>4, <1>5, <1>6, <1>7, <1>8 DEF IInv

LEMMA RetrieveInv == ASSUME IInv, Retrieve PROVE IInv'
<1>a. /\ pc[Sender] = "loop" /\ UNCHANGED <<mailVars, busy, trans, reqVars, crashes, delivered>>
      /\ idx \in Slots
  BY DEF Retrieve, IInv, TypeOK
\* A waiting event is taken.
<1>1. CASE que[idx].send # NoSend /\ que[idx].status = "WAIT"
  <2>1. /\ que' = [que EXCEPT ![idx].status = "STARTED"]
        /\ active' = idx /\ idx' = NextSlot(idx)
        /\ job' = [job EXCEPT ![Sender] = que[idx].send]
        /\ fate' = [fate EXCEPT ![que[idx].send] = "sending"]
        /\ pc' = [pc EXCEPT ![Sender] = "network"]
    BY <1>1 DEF Retrieve
  <2>2. /\ que[idx].send \in Sends /\ fate[que[idx].send] = "waiting"
        /\ que' = [que EXCEPT ![idx] = [send |-> que[idx].send, status |-> "STARTED"]]
    <3>1. que[idx].send \in Sends /\ fate[que[idx].send] = "waiting"
      BY <1>1, <1>a DEF IInv, TypeOK, SlotFates
    <3>2. [que[idx] EXCEPT !.status = "STARTED"] = [send |-> que[idx].send, status |-> "STARTED"]
      BY <1>a DEF IInv, TypeOK
    <3> QED  BY <2>1, <3>1, <3>2
  <2>3. TypeOK'
    <3>1. /\ que' \in [Slots -> [send : Sends \cup {NoSend},
                                 status : {"UNUSED", "WAIT", "STARTED", "CANCELED"}]]
          /\ idx' \in Slots /\ active' \in Slots \cup {0}
      <4> DEFINE E == [send : Sends \cup {NoSend},
                       status : {"UNUSED", "WAIT", "STARTED", "CANCELED"}]
      <4>1. que \in [Slots -> E] /\ idx \in Slots
        BY DEF IInv, TypeOK
      <4>2. [send |-> que[idx].send, status |-> "STARTED"] \in E
        BY <2>2
      <4> HIDE DEF E
      <4>3. que' \in [Slots -> E]
        BY <2>2, <4>1, <4>2
      <4> QED  BY <2>1, <4>1, <4>3, NextSlotType DEF E
    <3>2. fate' \in [Sends -> SendFates] /\ job' \in [Procs -> Sends \cup {NoSend}]
      BY <2>1, <2>2 DEF IInv, TypeOK, SendFates, InFlight
    <3>3. pc' \in [Procs -> RequesterPlaces \cup SenderPlaces]
      BY <2>1 DEF IInv, TypeOK, SenderPlaces
    <3> QED  BY <1>a, <3>1, <3>2, <3>3 DEF IInv, TypeOK
  <2>4. Places' /\ SlotShape' /\ Holdings'
    BY <1>a, <2>1, <2>2 DEF IInv, TypeOK, Places, SlotShape, Holdings, SenderPlaces
  <2>5. Requested' /\ SlotFates'
    BY <1>a, <2>1, <2>2 DEF IInv, TypeOK, Requested, SlotFates
  <2>6. OneAtATime' /\ RunFate'
    BY <1>a, <2>1, <2>2 DEF IInv, TypeOK, RunFate, OneAtATime, SenderBusy,
         Transmitting
  <2>7. GoneHasNoStatus' /\ SendingIsBeingSent'
    BY <1>a, <2>1, <2>2 DEF IInv, GoneHasNoStatus, SendingIsBeingSent, Transmitting
  <2> QED  BY <2>3, <2>4, <2>5, <2>6, <2>7 DEF IInv
\* Nothing is there, or what a failed network check or a cancellation left.
<1>2. CASE ~(que[idx].send # NoSend /\ que[idx].status = "WAIT")
  <2>1. /\ \/ que' = [que EXCEPT ![idx] = EmptySlot] /\ idx' = NextSlot(idx)
           \/ UNCHANGED <<que, idx>>
        /\ active' = 0 /\ UNCHANGED <<job, fate>>
        /\ pc' = [pc EXCEPT ![Sender] = "sleep"]
    BY <1>2 DEF Retrieve
  <2>2. TypeOK'
    BY <1>a, <2>1, NextSlotType DEF IInv, TypeOK, SenderPlaces
  <2>3. Places' /\ SlotShape' /\ Holdings'
    BY <1>a, <2>1 DEF IInv, TypeOK, Places, SlotShape, Holdings, SenderPlaces,
         SenderBusy, Transmitting
  <2>4. Requested' /\ SlotFates'
    <3>1. Requested'
      BY <1>a, <2>1 DEF IInv, Requested
    <3>2. ASSUME que' = [que EXCEPT ![idx] = EmptySlot] PROVE SlotFates'
      <4>1. \A s \in Slots : que'[s] = que[s] \/ que'[s] = EmptySlot
        BY <3>2, <1>a DEF IInv, TypeOK
      <4>2. fate' = fate /\ SlotFates
        BY <2>1 DEF IInv
      <4> QED  BY <4>1, <4>2 DEF SlotFates
    <3>3. ASSUME UNCHANGED que PROVE SlotFates'
      <4>1. fate' = fate /\ SlotFates
        BY <2>1 DEF IInv
      <4> QED  BY <3>3, <4>1 DEF SlotFates
    <3> QED  BY <2>1, <3>1, <3>2, <3>3
  <2>5. OneAtATime' /\ RunFate' /\ GoneHasNoStatus' /\ SendingIsBeingSent'
    BY <1>a, <2>1 DEF IInv, RunFate, OneAtATime, GoneHasNoStatus,
         SendingIsBeingSent, SenderBusy, Transmitting
  <2> QED  BY <2>2, <2>3, <2>4, <2>5 DEF IInv
<1> QED  BY <1>1, <1>2

LEMMA SleepInv == ASSUME IInv, Sleep PROVE IInv'
<1>1. TypeOK'
  BY DEF Sleep, IInv, TypeOK, SenderPlaces
<1>2. Places'
  BY DEF Sleep, IInv, Places, SenderPlaces
<1>3. Holdings'
  BY DEF Sleep, IInv, Holdings, SenderBusy, Transmitting
<1>4. Requested'
  BY DEF Sleep, IInv, Requested
<1>5. RunFate'
  BY DEF Sleep, RunFate, SenderBusy, Transmitting
<1>6. OneAtATime'
  BY DEF Sleep, IInv, OneAtATime, SenderBusy, Transmitting
<1>7. SendingIsBeingSent'
  BY DEF Sleep, IInv, SendingIsBeingSent, Transmitting
<1>8. SlotShape' /\ SlotFates' /\ GoneHasNoStatus'
  BY DEF Sleep, IInv, SlotShape, SlotFates, GoneHasNoStatus
<1> QED  BY <1>1, <1>2, <1>3, <1>4, <1>5, <1>6, <1>7, <1>8 DEF IInv

LEMMA SpuriousWakeInv == ASSUME IInv, SpuriousWake PROVE IInv'
<1>1. TypeOK'
  BY DEF SpuriousWake, IInv, TypeOK, SenderPlaces
<1>2. Places'
  BY DEF SpuriousWake, IInv, Places, SenderPlaces
<1>3. Holdings'
  BY DEF SpuriousWake, IInv, Holdings, SenderBusy, Transmitting
<1>4. Requested'
  BY DEF SpuriousWake, IInv, Requested
<1>5. RunFate'
  BY DEF SpuriousWake, RunFate, SenderBusy, Transmitting
<1>6. OneAtATime'
  BY DEF SpuriousWake, IInv, OneAtATime, SenderBusy, Transmitting
<1>7. SendingIsBeingSent'
  BY DEF SpuriousWake, IInv, SendingIsBeingSent, Transmitting
<1>8. SlotShape' /\ SlotFates' /\ GoneHasNoStatus'
  BY DEF SpuriousWake, IInv, SlotShape, SlotFates, GoneHasNoStatus
<1> QED  BY <1>1, <1>2, <1>3, <1>4, <1>5, <1>6, <1>7, <1>8 DEF IInv

LEMMA CheckNetworkInv == ASSUME IInv, CheckNetwork PROVE IInv'
<1>1. TypeOK'
  <2>1. job[Sender] \in Sends
    BY DEF CheckNetwork, IInv, Holdings, SenderBusy
  <2>2. fate' \in [Sends -> SendFates] /\ job' \in [Procs -> Sends \cup {NoSend}]
    BY <2>1 DEF CheckNetwork, IInv, TypeOK, SendFates
  <2>3. pc' \in [Procs -> RequesterPlaces \cup SenderPlaces]
    BY DEF CheckNetwork, IInv, TypeOK, SenderPlaces
  <2> QED  BY <2>2, <2>3 DEF CheckNetwork, IInv, TypeOK
<1>2. Places'
  BY DEF CheckNetwork, IInv, TypeOK, Places, SenderPlaces
<1>3. Holdings'
  BY DEF CheckNetwork, IInv, TypeOK, Holdings, SenderBusy, Transmitting
<1>4. Requested'
  BY DEF CheckNetwork, IInv, TypeOK, Holdings, Requested, RunFate, SenderBusy
<1>5. SlotFates'
  BY DEF CheckNetwork, IInv, TypeOK, SlotShape, SlotFates, RunFate, SenderBusy
<1>6. RunFate'
  BY DEF CheckNetwork, IInv, TypeOK, RunFate, SenderBusy, Transmitting
<1>7. OneAtATime'
  BY DEF CheckNetwork, IInv, TypeOK, OneAtATime, SenderBusy
<1>8. SendingIsBeingSent'
  BY DEF CheckNetwork, IInv, SendingIsBeingSent, Transmitting
<1>9. SlotShape' /\ GoneHasNoStatus'
  BY DEF CheckNetwork, IInv, SlotShape, GoneHasNoStatus
<1> QED  BY <1>1, <1>2, <1>3, <1>4, <1>5, <1>6, <1>7, <1>8, <1>9 DEF IInv

LEMMA PrepareInv == ASSUME IInv, Prepare PROVE IInv'
<1>1. TypeOK'
  <2>1. CurrentMail \in Mails
    BY DEF Prepare, CurrentMail, IInv, Holdings, SenderBusy
  <2>2. saveStatus' \in [Mails -> SaveStatuses] /\ missed' \subseteq Mails
    BY <2>1 DEF Prepare, MissStatus, IInv, TypeOK
  <2>3. pc' \in [Procs -> RequesterPlaces \cup SenderPlaces]
    BY DEF Prepare, IInv, TypeOK, SenderPlaces, Transmitting
  <2> QED  BY <2>2, <2>3 DEF Prepare, IInv, TypeOK
<1>2. Places'
  BY DEF Prepare, IInv, TypeOK, Places, SenderPlaces, Transmitting
<1>3. Holdings'
  BY DEF Prepare, IInv, TypeOK, Holdings, SenderBusy
<1>4. Requested'
  BY DEF Prepare, IInv, TypeOK, Requested
<1>5. RunFate'
  BY DEF Prepare, IInv, RunFate, SenderBusy
<1>6. OneAtATime'
  BY DEF Prepare, IInv, TypeOK, OneAtATime, SenderBusy, Transmitting
<1>7. SendingIsBeingSent'
  BY DEF Prepare, MissStatus, IInv, SendingIsBeingSent, Transmitting
<1>8. SlotShape' /\ SlotFates' /\ GoneHasNoStatus'
  BY DEF Prepare, MissStatus, IInv, SlotShape, SlotFates, GoneHasNoStatus
<1> QED  BY <1>1, <1>2, <1>3, <1>4, <1>5, <1>6, <1>7, <1>8 DEF IInv

LEMMA MarkSendingInv == ASSUME IInv, MarkSending PROVE IInv'
<1>b. CurrentMail \in Mails /\ "SENDING" \in SaveStatuses
  BY DEF MarkSending, CurrentMail, IInv, Holdings, SenderBusy, SaveStatuses
<1>c. \/ WriteStatus(CurrentMail, "SENDING") /\ pc' = [pc EXCEPT ![Sender] = "transmit"]
      \/ UNCHANGED statusVars /\ pc' = [pc EXCEPT ![Sender] = "cancelled"]
  BY DEF MarkSending
<1>1. TypeOK'
  <2>1. saveStatus' \in [Mails -> SaveStatuses] /\ missed' \subseteq Mails
    BY <1>b, <1>c, StatusStep DEF IInv, TypeOK
  <2>2. pc' \in [Procs -> RequesterPlaces \cup SenderPlaces]
    BY <1>c DEF IInv, TypeOK, SenderPlaces, Transmitting
  <2> QED  BY <2>1, <2>2 DEF MarkSending, IInv, TypeOK
<1>2. Places'
  BY DEF MarkSending, IInv, TypeOK, Places, SenderPlaces, Transmitting
<1>3. Holdings'
  BY DEF MarkSending, IInv, TypeOK, Holdings, SenderBusy
<1>4. Requested'
  BY DEF MarkSending, IInv, TypeOK, Requested
<1>5. RunFate'
  BY DEF MarkSending, IInv, RunFate, SenderBusy
<1>6. OneAtATime'
  BY DEF MarkSending, IInv, TypeOK, OneAtATime, SenderBusy, Transmitting
<1>7. GoneHasNoStatus'
  BY <1>b, <1>c, StatusStep DEF MarkSending, IInv, GoneHasNoStatus
<1>8. SendingIsBeingSent'
  <2>1. CurrentMail' = CurrentMail /\ pc[Sender] = "mark"
    BY DEF MarkSending, CurrentMail
  <2>2. \A m \in Mails : saveStatus[m] = "SENDING" => m \in missed
    BY <2>1 DEF IInv, SendingIsBeingSent, Transmitting
  <2>3. CASE WriteStatus(CurrentMail, "SENDING") /\ pc' = [pc EXCEPT ![Sender] = "transmit"]
    <3>1. pc'[Sender] \in Transmitting
      BY <2>3 DEF IInv, TypeOK, Transmitting
    <3> QED  BY <1>b, <2>1, <2>2, <2>3, <3>1, StatusStep DEF SendingIsBeingSent
  <2>4. CASE UNCHANGED statusVars
    BY <2>2, <2>4 DEF SendingIsBeingSent
  <2> QED  BY <1>c, <2>3, <2>4
<1>9. SlotShape' /\ SlotFates'
  BY DEF MarkSending, IInv, SlotShape, SlotFates
<1> QED  BY <1>1, <1>2, <1>3, <1>4, <1>5, <1>6, <1>7, <1>8, <1>9 DEF IInv

LEMMA TransmitInv == ASSUME IInv, Transmit PROVE IInv'
<1>1. TypeOK'
  BY DEF Transmit, IInv, TypeOK, Holdings, SenderPlaces, Transmitting, SenderBusy
<1>2. Places'
  BY DEF Transmit, IInv, Places, SenderPlaces, Transmitting
<1>3. Holdings'
  BY DEF Transmit, IInv, Holdings, SenderBusy, Transmitting
<1>4. Requested'
  BY DEF Transmit, IInv, Requested
<1>5. RunFate'
  BY DEF Transmit, IInv, RunFate, SenderBusy, Transmitting
<1>6. OneAtATime'
  BY DEF Transmit, IInv, OneAtATime, SenderBusy, Transmitting
<1>7. SendingIsBeingSent'
  BY DEF Transmit, IInv, SendingIsBeingSent, Transmitting, CurrentMail
<1>8. SlotShape' /\ SlotFates' /\ GoneHasNoStatus'
  BY DEF Transmit, IInv, SlotShape, SlotFates, GoneHasNoStatus
<1> QED  BY <1>1, <1>2, <1>3, <1>4, <1>5, <1>6, <1>7, <1>8 DEF IInv

LEMMA FileMailInv == ASSUME IInv, FileMail PROVE IInv'
<1>1. TypeOK'
  <2>1. CurrentMail \in Mails
    BY DEF FileMail, CurrentMail, IInv, Holdings, SenderBusy, Transmitting
  <2>2. saveStatus' \in [Mails -> SaveStatuses]
    BY <2>1 DEF FileMail, IInv, TypeOK, SaveStatuses
  <2>3. mailbox' \in [Mails -> Boxes]
    BY <2>1 DEF FileMail, IInv, TypeOK, Boxes
  <2>4. pc' \in [Procs -> RequesterPlaces \cup SenderPlaces]
    BY DEF FileMail, IInv, TypeOK, SenderPlaces, Transmitting
  <2> QED  BY <2>2, <2>3, <2>4 DEF FileMail, IInv, TypeOK
<1>2. Places'
  BY DEF FileMail, IInv, TypeOK, Places, SenderPlaces, Transmitting
<1>3. Holdings'
  BY DEF FileMail, IInv, TypeOK, Holdings, SenderBusy, Transmitting
<1>4. Requested'
  BY DEF FileMail, IInv, TypeOK, Requested
<1>5. RunFate'
  BY DEF FileMail, IInv, RunFate, SenderBusy, Transmitting
<1>6. OneAtATime'
  BY DEF FileMail, IInv, TypeOK, OneAtATime, SenderBusy, Transmitting
<1>7. GoneHasNoStatus'
  BY DEF FileMail, IInv, TypeOK, GoneHasNoStatus
<1>8. SendingIsBeingSent'
  BY DEF FileMail, CurrentMail, IInv, TypeOK, SendingIsBeingSent, Transmitting
<1>9. SlotShape' /\ SlotFates'
  BY DEF FileMail, IInv, SlotShape, SlotFates
<1> QED  BY <1>1, <1>2, <1>3, <1>4, <1>5, <1>6, <1>7, <1>8, <1>9 DEF IInv

LEMMA MarkSentInv == ASSUME IInv, MarkSent PROVE IInv'
<1>b. /\ CurrentMail \in Mails /\ "SENDING" # "SENT" /\ "SENT" \in SaveStatuses
      /\ WriteStatus(CurrentMail, "SENT")
  BY DEF MarkSent, CurrentMail, IInv, Holdings, SenderBusy, Transmitting, SaveStatuses
<1>c. saveStatus' \in [Mails -> SaveStatuses] /\ missed' \subseteq Mails
  BY <1>b, StatusStep
<1>1. TypeOK'
  BY <1>c DEF MarkSent, IInv, TypeOK, SenderPlaces
<1>2. Places'
  BY DEF MarkSent, IInv, Places, SenderPlaces
<1>3. Holdings'
  BY DEF MarkSent, IInv, Holdings, SenderBusy, Transmitting
<1>4. Requested'
  BY DEF MarkSent, IInv, Requested
<1>5. RunFate'
  BY DEF MarkSent, IInv, RunFate, SenderBusy, Transmitting
<1>6. OneAtATime'
  BY DEF MarkSent, IInv, OneAtATime, SenderBusy
<1>7. GoneHasNoStatus'
  BY <1>b, StatusStep DEF MarkSent, GoneHasNoStatus
<1>8. SendingIsBeingSent'
  <2>1. \A m \in Mails : m # CurrentMail /\ saveStatus[m] = "SENDING" => m \in missed
    BY DEF IInv, SendingIsBeingSent
  <2> QED  BY <1>b, <2>1, StatusStep DEF SendingIsBeingSent
<1>9. SlotShape' /\ SlotFates'
  BY DEF MarkSent, IInv, SlotShape, SlotFates
<1> QED  BY <1>1, <1>2, <1>3, <1>4, <1>5, <1>6, <1>7, <1>8, <1>9 DEF IInv

LEMMA ForgetSentInv == ASSUME IInv, ForgetSent PROVE IInv'
<1>1. TypeOK'
  <2>1. trans' \in Seq([mail : Mails, handle : Slots \cup {0}])
    BY WithoutType DEF ForgetSent, IInv
  <2> QED  BY <2>1 DEF ForgetSent, IInv, TypeOK, SenderPlaces
<1>2. Places'
  BY DEF ForgetSent, IInv, Places, SenderPlaces
<1>3. Holdings'
  BY DEF ForgetSent, IInv, Holdings, SenderBusy
<1>4. Requested'
  BY DEF ForgetSent, IInv, Requested
<1>5. RunFate'
  BY DEF ForgetSent, IInv, RunFate, SenderBusy
<1>6. OneAtATime'
  BY DEF ForgetSent, IInv, OneAtATime, SenderBusy
<1>7. SendingIsBeingSent'
  BY DEF ForgetSent, IInv, SendingIsBeingSent, Transmitting
<1>8. SlotShape' /\ SlotFates' /\ GoneHasNoStatus'
  BY DEF ForgetSent, IInv, SlotShape, SlotFates, GoneHasNoStatus
<1> QED  BY <1>1, <1>2, <1>3, <1>4, <1>5, <1>6, <1>7, <1>8 DEF IInv

LEMMA FinishFailedInv == ASSUME IInv, FinishFailed PROVE IInv'
<1>b. /\ CurrentMail \in Mails
      /\ \E st \in SaveStatuses : st # "SENDING" /\ WriteStatus(CurrentMail, st)
  BY DEF FinishFailed, CurrentMail, IInv, Holdings, SenderBusy, Transmitting, SaveStatuses
<1>c. saveStatus' \in [Mails -> SaveStatuses] /\ missed' \subseteq Mails
  BY <1>b, StatusStep
<1>1. TypeOK'
  BY <1>c DEF FinishFailed, IInv, TypeOK, SenderPlaces
<1>2. Places'
  BY DEF FinishFailed, IInv, Places, SenderPlaces
<1>3. Holdings'
  BY DEF FinishFailed, IInv, Holdings, SenderBusy, Transmitting
<1>4. Requested'
  BY DEF FinishFailed, IInv, Requested
<1>5. RunFate'
  BY DEF FinishFailed, IInv, RunFate, SenderBusy, Transmitting
<1>6. OneAtATime'
  BY DEF FinishFailed, IInv, OneAtATime, SenderBusy
<1>7. GoneHasNoStatus'
  BY <1>b, StatusStep DEF FinishFailed, GoneHasNoStatus
<1>8. SendingIsBeingSent'
  <2>1. \A m \in Mails : m # CurrentMail /\ saveStatus[m] = "SENDING" => m \in missed
    BY DEF IInv, SendingIsBeingSent
  <2> QED  BY <1>b, <2>1, StatusStep DEF SendingIsBeingSent
<1>9. SlotShape' /\ SlotFates'
  BY DEF FinishFailed, IInv, SlotShape, SlotFates
<1> QED  BY <1>1, <1>2, <1>3, <1>4, <1>5, <1>6, <1>7, <1>8, <1>9 DEF IInv

LEMMA ClearSlotInv == ASSUME IInv, ClearSlot PROVE IInv'
<1>1. TypeOK'
  BY DEF ClearSlot, IInv, TypeOK, SendFates, SenderPlaces
<1>2. Places'
  BY DEF ClearSlot, IInv, Places, SenderPlaces
<1>3. SlotShape'
  BY DEF ClearSlot, IInv, SlotShape
<1>4. Holdings'
  BY DEF ClearSlot, IInv, TypeOK, Holdings, SenderBusy, Transmitting
<1>5. Requested'
  BY DEF ClearSlot, IInv, Requested, RunFate, SenderBusy
<1>6. SlotFates'
  BY DEF ClearSlot, IInv, TypeOK, Holdings, SlotFates, RunFate, SenderBusy
<1>7. RunFate'
  BY DEF ClearSlot, IInv, TypeOK, RunFate, SenderBusy, Transmitting
<1>8. OneAtATime'
  BY DEF ClearSlot, IInv, TypeOK, OneAtATime
<1>9. GoneHasNoStatus'
  BY DEF ClearSlot, IInv, GoneHasNoStatus
<1>10. SendingIsBeingSent'
  BY DEF ClearSlot, IInv, SendingIsBeingSent, Transmitting
<1> QED  BY <1>1, <1>2, <1>3, <1>4, <1>5, <1>6, <1>7, <1>8, <1>9, <1>10 DEF IInv

LEMMA CrashInv == ASSUME IInv, Crash PROVE IInv'
<1>1. TypeOK'
  BY DEF Crash, FreshMemory, CleanSaveStatus, IInv, TypeOK, SaveStatuses, SendFates,
         SenderPlaces, RequesterPlaces
<1>2. Places'
  BY DEF Crash, FreshMemory, Places, SenderPlaces, RequesterPlaces
<1>3. SlotShape'
  BY DEF Crash, FreshMemory, SlotShape
<1>4. Holdings'
  BY DEF Crash, FreshMemory, Holdings, SenderBusy, Transmitting
<1>5. Requested'
  BY DEF Crash, FreshMemory, Requested
<1>6. SlotFates'
  BY DEF Crash, FreshMemory, SlotFates
<1>7. RunFate'
  BY DEF Crash, FreshMemory, RunFate, SenderBusy, Transmitting
<1>8. OneAtATime'
  BY DEF Crash, InFlight, OneAtATime
<1>9. GoneHasNoStatus'
  BY DEF Crash, CleanSaveStatus, IInv, GoneHasNoStatus
<1>10. SendingIsBeingSent'
  BY DEF Crash, CleanSaveStatus, SendingIsBeingSent
<1> QED  BY <1>1, <1>2, <1>3, <1>4, <1>5, <1>6, <1>7, <1>8, <1>9, <1>10 DEF IInv

-----------------------------------------------------------------------------
LEMMA InitInv == Init => IInv
<1> SUFFICES ASSUME Init PROVE IInv
  OBVIOUS
<1>1. TypeOK
  BY DEF Init, TypeOK, SaveStatuses, Boxes, SendFates, RequesterPlaces, SenderPlaces
<1>2. Places /\ SlotShape /\ Holdings /\ Requested
  BY DEF Init, Places, SlotShape, Holdings, Requested, RequesterPlaces,
         SenderPlaces, SenderBusy, Transmitting
<1>3. SlotFates /\ RunFate /\ OneAtATime /\ GoneHasNoStatus /\ SendingIsBeingSent
  BY DEF Init, SlotFates, RunFate, OneAtATime, GoneHasNoStatus, SendingIsBeingSent,
         SenderBusy, Transmitting
<1> QED  BY <1>1, <1>2, <1>3 DEF IInv

LEMMA StutterInv == IInv /\ UNCHANGED vars => IInv'
  BY DEF vars, IInv, TypeOK, Places, SlotShape, Holdings, Requested, SlotFates,
         RunFate, OneAtATime, GoneHasNoStatus, SendingIsBeingSent, CurrentMail

LEMMA NextInv == IInv /\ [Next]_vars => IInv'
<1> SUFFICES ASSUME IInv, [Next]_vars PROVE IInv'
  OBVIOUS
<1>1. ASSUME NEW r \in Requesters, RequestStep(r) PROVE IInv'
  BY <1>1, SetWaitInv, InsertInv, SignalInv, RejectInv, RecordInv DEF RequestStep
<1>2. ASSUME NEW r \in Requesters, NEW s \in Sends, BeginSend(r, s) \/ BeginAddMail(r, s)
      PROVE  IInv'
  BY <1>2, BeginSendInv, BeginAddMailInv
<1>3. ASSUME NEW m \in Mails, CancelLookup(m) PROVE IInv'
  BY <1>3, CancelLookupInv
<1>4. CASE CancelStep
  BY <1>4, CancelSlotInv, CancelForgetInv DEF CancelStep
<1>5. CASE SenderStep
  BY <1>5, RetrieveInv, SleepInv, CheckNetworkInv, PrepareInv, MarkSendingInv, TransmitInv,
     FileMailInv, MarkSentInv, ForgetSentInv, FinishFailedInv, ClearSlotInv DEF SenderStep
<1>6. CASE SpuriousWake
  BY <1>6, SpuriousWakeInv
<1>7. CASE Crash
  BY <1>7, CrashInv
<1>8. CASE UNCHANGED vars
  BY <1>8, StutterInv
<1> QED  BY <1>1, <1>2, <1>3, <1>4, <1>5, <1>6, <1>7, <1>8 DEF Next

-----------------------------------------------------------------------------
\* The inductive invariant holds in every reachable state.
THEOREM SendInvariance == Spec => []IInv
  BY InitInv, NextInv, PTL DEF Spec

\* Type correctness of the send path: ring indices, transaction list, places.
THEOREM SendTypeCorrect == Spec => []TypeOK
<1>1. IInv => TypeOK
  BY DEF IInv
<1> QED  BY <1>1, SendInvariance, PTL

\* save_status SENDING is only on the mail that is on the wire.
THEOREM SendingOnlyOnTheWire == Spec => []SendingIsBeingSent
<1>1. IInv => SendingIsBeingSent
  BY DEF IInv
<1> QED  BY <1>1, SendInvariance, PTL

\* The cancel check made after the connection stops every send whose slot was
\* cancelled, whatever the slot has been used for since.
THEOREM StoppedSendStaysHome == Spec => StoppedIsNotTransmitted
<1> DEFINE Step == (pc[Sender] = "mark" /\ pc'[Sender] = "transmit")
                      => fate[job[Sender]] = "sending"
<1>1. ASSUME IInv, [Next]_vars PROVE Step
  <2> SUFFICES ASSUME pc[Sender] = "mark", pc'[Sender] = "transmit"
               PROVE  fate[job[Sender]] = "sending"
    OBVIOUS
  <2>1. MarkSending
    <3>1. pc \in [Procs -> RequesterPlaces \cup SenderPlaces]
      BY <1>1 DEF IInv, TypeOK
    <3> QED
      BY <1>1, <3>1 DEF Next, vars, RequestStep, SetWait, Insert, Signal, Reject,
         Record, Answer, BeginSend, BeginAddMail, CancelLookup, CancelStep,
         CancelSlot, CancelForget, SenderStep, Retrieve, Sleep, SpuriousWake,
         CheckNetwork, Prepare, Transmit, FileMail, MarkSent, ForgetSent,
         FinishFailed, ClearSlot, Crash, FreshMemory
  <2>2. CheckStatus
    BY <2>1, <1>1 DEF MarkSending, IInv, TypeOK
  <2>3. active \in Slots /\ fate[job[Sender]] \in {"sending", "stopping"}
    BY <1>1 DEF IInv, Holdings, RunFate, SenderBusy
  <2> QED  BY <1>1, <2>2, <2>3 DEF IInv, RunFate, CheckStatus, SenderBusy
<1>2. IInv /\ [Next]_vars => Step
  BY <1>1
<1> QED  BY <1>2, SendInvariance, PTL DEF Spec, StoppedIsNotTransmitted

-----------------------------------------------------------------------------
(* What a step may do to the fate of a send that was given up: nothing.    *)
FateKept == \A s \in Sends : fate[s] \in GivenUp => fate'[s] = fate[s]

LEMMA RequestFate ==
  ASSUME IInv, NEW r \in Requesters,
         RequestStep(r) \/ \E s \in Sends : BeginSend(r, s) \/ BeginAddMail(r, s)
  PROVE  FateKept
<1>1. CASE Insert(r)
  <2>1. job[r] \in Sends /\ fate[job[r]] = "requested"
    BY <1>1 DEF Insert, IInv, Holdings, Requested
  <2> QED  BY <1>1, <2>1 DEF Insert, FateKept, GivenUp, IInv, TypeOK
<1>2. CASE Reject(r)
  <2>1. job[r] \in Sends /\ fate[job[r]] \in {"requested", "refused"}
    BY <1>2 DEF Reject, IInv, Holdings, Requested
  <2> QED  BY <1>2, <2>1 DEF Reject, FateKept, GivenUp
<1>3. CASE SetWait(r) \/ Signal(r) \/ Record(r)
  BY <1>3 DEF SetWait, Signal, Record, FateKept
<1>4. ASSUME NEW s \in Sends, BeginSend(r, s) \/ BeginAddMail(r, s) PROVE FateKept
  BY <1>4 DEF BeginSend, BeginAddMail, FateKept, GivenUp, IInv, TypeOK
<1> QED  BY <1>1, <1>2, <1>3, <1>4 DEF RequestStep

LEMMA CancelFate == ASSUME IInv, CancelSlot PROVE FateKept
<1> DEFINE h == slot[Stub]
<1>1. CASE h = 0
  BY <1>1 DEF CancelSlot, FateKept
<1>2. CASE h \in Slots /\ que[h].status = "WAIT"
  <2>1. que[h].send \in Sends /\ fate[que[h].send] = "waiting"
    BY <1>2 DEF IInv, TypeOK, SlotShape, SlotFates
  <2>2. fate' = [fate EXCEPT ![que[h].send] = "cancelled"]
    BY <1>2 DEF CancelSlot
  <2> QED  BY <2>1, <2>2 DEF FateKept, GivenUp
<1>3. CASE h \in Slots /\ que[h].status = "STARTED"
  <2>1. que[h].send \in Sends /\ fate[que[h].send] \in {"sending", "skipped"}
    BY <1>3 DEF IInv, TypeOK, SlotShape, SlotFates
  <2>2. fate' = [fate EXCEPT ![que[h].send] = IF @ = "sending" THEN "stopping" ELSE @]
    BY <1>3 DEF CancelSlot
  <2> QED  BY <2>1, <2>2 DEF FateKept, GivenUp
<1>4. CASE h \in Slots /\ que[h].status \notin {"WAIT", "STARTED"}
  BY <1>4 DEF CancelSlot, FateKept
<1> QED  BY <1>1, <1>2, <1>3, <1>4 DEF IInv, TypeOK

LEMMA SenderFate == ASSUME IInv, SenderStep \/ SpuriousWake PROVE FateKept
<1>1. CASE Retrieve
  <2>1. CASE que[idx].send # NoSend /\ que[idx].status = "WAIT"
    <3>1. que[idx].send \in Sends /\ fate[que[idx].send] = "waiting"
      BY <2>1 DEF IInv, TypeOK, SlotFates
    <3>2. fate' = [fate EXCEPT ![que[idx].send] = "sending"]
      BY <1>1, <2>1 DEF Retrieve
    <3> QED  BY <3>1, <3>2 DEF FateKept, GivenUp
  <2>2. CASE ~(que[idx].send # NoSend /\ que[idx].status = "WAIT")
    BY <1>1, <2>2 DEF Retrieve, FateKept
  <2> QED  BY <2>1, <2>2
<1>2. CASE CheckNetwork \/ ClearSlot
  <2>1. job[Sender] \in Sends /\ fate[job[Sender]] \in {"sending", "stopping"}
    BY <1>2 DEF CheckNetwork, ClearSlot, IInv, Holdings, RunFate, SenderBusy
  <2>2. UNCHANGED fate \/ \E f \in GivenUp : fate' = [fate EXCEPT ![job[Sender]] = f]
    BY <1>2 DEF CheckNetwork, ClearSlot, GivenUp
  <2> QED  BY <2>1, <2>2 DEF FateKept, GivenUp, IInv, TypeOK
<1>3. CASE ~(Retrieve \/ CheckNetwork \/ ClearSlot)
  BY <1>3 DEF SenderStep, SpuriousWake, Sleep, Prepare, MarkSending, Transmit,
         FileMail, MarkSent, ForgetSent, FinishFailed, FateKept
<1> QED  BY <1>1, <1>2, <1>3

\* A send reported cancelled, refused or failed, or lost in a restart, keeps
\* that fate whatever happens later.
THEOREM SendGivenUpStaysGivenUp == Spec => GivenUpStaysGivenUp
<1>1. ASSUME IInv, [Next]_vars PROVE FateKept
  <2>1. ASSUME NEW m \in Mails, CancelLookup(m) PROVE FateKept
    BY <2>1 DEF CancelLookup, FateKept
  <2>2. CASE CancelStep
    BY <2>2, <1>1, CancelFate DEF CancelStep, CancelForget, FateKept
  <2>3. CASE Crash
    BY <2>3, <1>1 DEF Crash, FateKept, GivenUp, InFlight
  <2>4. CASE UNCHANGED vars
    BY <2>4 DEF vars, FateKept
  <2> QED  BY <1>1, <2>1, <2>2, <2>3, <2>4, RequestFate, SenderFate DEF Next
<1>2. IInv /\ [Next]_vars =>
        \A s \in Sends : fate[s] \in GivenUp => fate'[s] = fate[s]
  BY <1>1 DEF FateKept
<1> QED  BY <1>2, SendInvariance, PTL DEF Spec, GivenUpStaysGivenUp

-----------------------------------------------------------------------------
(* A mail in SEND_WAIT where no send is cancelled, no daemon dies and no   *)
(* network check fails: the cases in which a status is left behind.        *)
Steady == ~Cancelling /\ MaxCrashes = 0 /\ "network" \notin Faults

\* The places of the send thread from which it comes to write a status.
WillMark == {"network", "prepare", "mark", "cancelled"} \cup Transmitting

IsSendOf(s, m) == s \in Sends /\ TypeOf[s] = "SEND_MAIL" /\ MailOf[s] = m

\* Somebody will change the status of m: a slot that is not yet taken, a request
\* that is not yet in a slot, or the send thread.
InHand(m) ==
    \/ \E s \in Slots : que[s].status = "WAIT" /\ IsSendOf(que[s].send, m)
    \/ \E r \in Requesters : pc[r] \in {"insert", "reject"} /\ IsSendOf(job[r], m)
    \/ pc[Sender] \in WillMark /\ IsSendOf(job[Sender], m)

\* Nobody cancels, so no send is told to stop.
Undisturbed ==
    /\ pc[Stub] \notin {"cancel", "forget"}
    /\ \A s \in Sends : fate[s] # "stopping"

\* Which places belong to sends, and not to mails that are only stored.
RequestTypes ==
    \A r \in Requesters :
        pc[r] \in {"set_wait", "reject"} => TypeOf[job[r]] = "SEND_MAIL"

WInv ==
    /\ Undisturbed /\ RequestTypes
    /\ \A m \in Mails : saveStatus[m] = "SEND_WAIT" => InHand(m) \/ m \in missed

\* What a write of a status means for the mails in SEND_WAIT.
LEMMA StatusWritten ==
  ASSUME IInv, NEW n \in Mails, NEW st, WriteStatus(n, st), NEW m \in Mails
  PROVE  /\ m # n => saveStatus'[m] = saveStatus[m] /\ (m \in missed' <=> m \in missed)
         /\ saveStatus'[n] = "SEND_WAIT" => st = "SEND_WAIT" \/ n \in missed'
  BY DEF WriteStatus, MissStatus, SetStatus, IInv, TypeOK, GoneHasNoStatus

LEMMA UndisturbedStep ==
  ASSUME IInv, WInv, Steady, [Next]_vars
  PROVE  Undisturbed' /\ RequestTypes'
<1>1. ~CancelSlot /\ ~CancelForget /\ ~Crash /\ \A m \in Mails : ~CancelLookup(m)
  BY DEF WInv, Undisturbed, Steady, CancelSlot, CancelForget, CancelLookup, Crash, IInv, TypeOK
<1>2. ASSUME NEW r \in Requesters, RequestStep(r)
      PROVE  Undisturbed' /\ RequestTypes'
  <2>1. CASE SetWait(r) \/ Reject(r) \/ Record(r)
    BY <2>1 DEF SetWait, Reject, Record, Answer, WInv, Undisturbed, RequestTypes, IInv, TypeOK
  <2>2. CASE Insert(r)
    BY <2>2 DEF Insert, Answer, WInv, Undisturbed, RequestTypes, IInv, TypeOK
  <2>3. CASE Signal(r)
    BY <2>3 DEF Signal, WInv, Undisturbed, RequestTypes, IInv, TypeOK
  <2> QED  BY <1>2, <2>1, <2>2, <2>3 DEF RequestStep
<1>3. ASSUME NEW r \in Requesters, NEW s \in Sends, BeginSend(r, s) \/ BeginAddMail(r, s)
      PROVE  Undisturbed' /\ RequestTypes'
  BY <1>3 DEF BeginSend, BeginAddMail, WInv, Undisturbed, RequestTypes, IInv, TypeOK
<1>4. ASSUME SenderStep \/ SpuriousWake
      PROVE  Undisturbed' /\ RequestTypes'
  <2>1. \A r \in Requesters : pc'[r] = pc[r] /\ job'[r] = job[r]
    BY <1>4 DEF SenderStep, SpuriousWake, Retrieve, Sleep, CheckNetwork, Prepare, MarkSending,
           Transmit, FileMail, MarkSent, ForgetSent, FinishFailed, ClearSlot, IInv, TypeOK
  <2>2. \A s \in Sends : fate'[s] # "stopping"
    BY <1>4 DEF SenderStep, SpuriousWake, Retrieve, Sleep, CheckNetwork, Prepare, MarkSending,
           Transmit, FileMail, MarkSent, ForgetSent, FinishFailed, ClearSlot, IInv, TypeOK,
           WInv, Undisturbed
  <2> QED  BY <2>1, <2>2 DEF WInv, Undisturbed, RequestTypes
<1>5. CASE UNCHANGED vars
  BY <1>5 DEF vars, WInv, Undisturbed, RequestTypes
<1> QED  BY <1>1, <1>2, <1>3, <1>4, <1>5 DEF Next, CancelStep

LEMMA InHandByRequest ==
  ASSUME IInv, WInv, NEW r \in Requesters, RequestStep(r), NEW m \in Mails,
         saveStatus'[m] = "SEND_WAIT", m \notin missed'
  PROVE  InHand(m)'
<1> DEFINE u == Sender
<1>1. /\ pc \in [Procs -> RequesterPlaces \cup SenderPlaces] /\ job \in [Procs -> Sends \cup {NoSend}]
      /\ que \in [Slots -> [send : Sends \cup {NoSend}, status : {"UNUSED", "WAIT", "STARTED", "CANCELED"}]]
      /\ r \in Procs /\ Sender \in Procs /\ r # Sender
  BY DEF IInv, TypeOK
<1>2. CASE SetWait(r)
  <2>1. /\ job[r] \in Sends /\ MailOf[job[r]] \in Mails /\ TypeOf[job[r]] = "SEND_MAIL"
        /\ WriteStatus(MailOf[job[r]], "SEND_WAIT") \/ UNCHANGED statusVars
        /\ job' = job /\ que' = que /\ pc[r] = "set_wait"
        /\ \E l \in {"insert", "reject"} : pc' = [pc EXCEPT ![r] = l]
    BY <1>1, <1>2 DEF SetWait, WriteStatus, IInv, Holdings, WInv, RequestTypes
  <2>2. pc'[r] \in {"insert", "reject"} /\ \A q \in Procs : q # r => pc'[q] = pc[q]
    BY <1>1, <2>1
  <2>3. CASE m = MailOf[job[r]]
    BY <2>1, <2>2, <2>3 DEF InHand, IsSendOf
  <2>4. CASE m # MailOf[job[r]]
    <3>1. saveStatus[m] = "SEND_WAIT" /\ m \notin missed
      BY <2>1, <2>4, StatusWritten
    <3>2. InHand(m)
      BY <3>1 DEF WInv
    <3> QED  BY <1>1, <2>1, <2>2, <3>2 DEF InHand
  <2> QED  BY <2>3, <2>4
<1>3. CASE Reject(r)
  <2>1. job[r] \in Sends /\ MailOf[job[r]] \in Mails /\ WriteStatus(MailOf[job[r]], "SAVED")
        /\ job' = job /\ que' = que /\ pc' = [pc EXCEPT ![r] = "record"]
    BY <1>1, <1>3 DEF Reject, IInv, Holdings
  <2>2. m # MailOf[job[r]] /\ saveStatus[m] = "SEND_WAIT" /\ m \notin missed
    BY <2>1, StatusWritten
  <2>3. InHand(m)
    BY <2>2 DEF WInv
  <2> QED  BY <1>1, <2>1, <2>2, <2>3 DEF InHand, IsSendOf
<1>4. CASE Record(r) \/ Signal(r)
  <2>1. /\ que' = que /\ UNCHANGED statusVars
        /\ \A q \in Requesters : pc[q] \in {"insert", "reject"} => q # r /\ pc'[q] = pc[q] /\ job'[q] = job[q]
        /\ pc[Sender] \in WillMark => pc'[Sender] = pc[Sender] /\ job'[Sender] = job[Sender]
    BY <1>1, <1>4 DEF Record, Signal, Answer, WillMark, Transmitting
  <2>2. InHand(m)
    BY <2>1 DEF WInv
  <2> QED  BY <1>1, <2>1, <2>2 DEF InHand
<1>5. CASE Insert(r)
  <2>1. /\ UNCHANGED statusVars /\ pc'[Sender] = pc[Sender] /\ job'[Sender] = job[Sender]
        /\ \A q \in Requesters : q # r => pc'[q] = pc[q] /\ job'[q] = job[q]
    BY <1>1, <1>5 DEF Insert, Answer
  <2>2. InHand(m)
    BY <2>1 DEF WInv
  <2>3. CASE FreeSlots = {}
    <3>1. que' = que
      BY <1>5, <2>3 DEF Insert, IsInsertSlot
    <3>2. TypeOf[job[r]] = "SEND_MAIL" => pc'[r] = "reject" /\ job'[r] = job[r]
      BY <1>1, <1>5, <2>3 DEF Insert, IsInsertSlot
    <3> QED  BY <1>1, <2>1, <2>2, <3>1, <3>2 DEF InHand, IsSendOf
  <2>4. ASSUME FreeSlots # {}
        PROVE  InHand(m)'
    <3>1. PICK j \in Slots : /\ que[j].send = NoSend
                             /\ que' = [que EXCEPT ![j] = [send |-> job[r], status |-> "WAIT"]]
      BY <1>5, <2>4 DEF Insert, IsInsertSlot, FreeSlots
    <3>2. \A s \in Slots : IsSendOf(que[s].send, m) => que'[s] = que[s]
      BY <1>1, <3>1 DEF IsSendOf
    <3>3. que'[j].status = "WAIT" /\ que'[j].send = job[r]
      BY <1>1, <3>1
    <3>4. ASSUME NEW s \in Slots, que[s].status = "WAIT", IsSendOf(que[s].send, m)
          PROVE  InHand(m)'
      BY <3>2, <3>4 DEF InHand
    <3>5. ASSUME NEW q \in Requesters, pc[q] \in {"insert", "reject"}, IsSendOf(job[q], m)
          PROVE  InHand(m)'
      <4>1. CASE q = r
        <5>1. IsSendOf(que'[j].send, m)
          BY <3>3, <3>5, <4>1
        <5> QED  BY <3>3, <5>1 DEF InHand
      <4>2. CASE q # r
        <5>1. pc'[q] \in {"insert", "reject"} /\ IsSendOf(job'[q], m)
          BY <2>1, <3>5, <4>2
        <5> QED  BY <5>1 DEF InHand
      <4> QED  BY <4>1, <4>2
    <3>6. ASSUME pc[Sender] \in WillMark, IsSendOf(job[Sender], m)
          PROVE  InHand(m)'
      BY <2>1, <3>6 DEF InHand
    <3> QED  BY <2>2, <3>4, <3>5, <3>6 DEF InHand
  <2> QED  BY <2>3, <2>4
<1> QED  BY <1>2, <1>3, <1>4, <1>5 DEF RequestStep

LEMMA InHandByBegin ==
  ASSUME IInv, WInv, NEW r \in Requesters, NEW n \in Sends,
         BeginSend(r, n) \/ BeginAddMail(r, n), NEW m \in Mails,
         saveStatus'[m] = "SEND_WAIT", m \notin missed'
  PROVE  InHand(m)'
<1>1. /\ que' = que /\ UNCHANGED statusVars /\ pc[r] = "idle"
      /\ \A q \in Procs : q # r => pc'[q] = pc[q] /\ job'[q] = job[q]
  BY DEF BeginSend, BeginAddMail, IInv, TypeOK
<1>2. InHand(m)
  BY <1>1 DEF WInv
<1> QED  BY <1>1, <1>2 DEF InHand

\* A step that leaves the ring and the status of m alone and keeps the send
\* thread where it will write a status.
LEMMA SenderGoesOn ==
  ASSUME que' = que, NEW m \in Mails, InHand(m),
         \A q \in Requesters : pc'[q] = pc[q] /\ job'[q] = job[q],
         (pc[Sender] \in WillMark /\ IsSendOf(job[Sender], m)) =>
             pc'[Sender] \in WillMark /\ job'[Sender] = job[Sender]
  PROVE  InHand(m)'
  BY DEF InHand

LEMMA InHandByRetrieve ==
  ASSUME IInv, WInv, Retrieve, NEW m \in Mails,
         saveStatus'[m] = "SEND_WAIT", m \notin missed'
  PROVE  InHand(m)'
<1>1. InHand(m)
  BY DEF Retrieve, WInv
<1>2. /\ pc[Sender] = "loop" /\ idx \in Slots
      /\ que \in [Slots -> [send : Sends \cup {NoSend}, status : {"UNUSED", "WAIT", "STARTED", "CANCELED"}]]
      /\ \A q \in Requesters : pc'[q] = pc[q] /\ job'[q] = job[q]
  BY DEF Retrieve, IInv, TypeOK
<1>3. ASSUME NEW q \in Requesters, pc[q] \in {"insert", "reject"}, IsSendOf(job[q], m)
      PROVE  InHand(m)'
  <2>1. pc'[q] \in {"insert", "reject"} /\ IsSendOf(job'[q], m)
    BY <1>2, <1>3
  <2> QED  BY <2>1 DEF InHand
<1>4. ASSUME NEW s \in Slots, que[s].status = "WAIT", IsSendOf(que[s].send, m)
      PROVE  InHand(m)'
  <2>1. CASE s = idx
    <3>1. pc'[Sender] = "network" /\ job'[Sender] = que[s].send
      BY <1>4, <2>1 DEF Retrieve, IsSendOf, IInv, TypeOK
    <3>2. pc'[Sender] \in WillMark /\ IsSendOf(job'[Sender], m)
      BY <1>4, <3>1 DEF WillMark
    <3> QED  BY <3>2 DEF InHand
  <2>2. CASE s # idx
    <3>1. que'[s] = que[s]
      BY <1>2, <2>2 DEF Retrieve
    <3> QED  BY <1>4, <3>1 DEF InHand
  <2> QED  BY <2>1, <2>2
<1>5. pc[Sender] \notin WillMark
  BY <1>2 DEF WillMark, Transmitting
<1> QED  BY <1>1, <1>3, <1>4, <1>5 DEF InHand

LEMMA InHandBySender ==
  ASSUME IInv, WInv, Steady, SenderStep \/ SpuriousWake, NEW m \in Mails,
         saveStatus'[m] = "SEND_WAIT", m \notin missed'
  PROVE  InHand(m)'
<1>1. /\ pc \in [Procs -> RequesterPlaces \cup SenderPlaces]
      /\ job \in [Procs -> Sends \cup {NoSend}] /\ Sender \in Procs
      /\ \A q \in Requesters : q # Sender /\ q \in Procs
  BY DEF IInv, TypeOK
<1>2. CASE Retrieve
  BY <1>2, InHandByRetrieve
<1>3. CASE Sleep \/ SpuriousWake \/ ForgetSent
  <2>1. /\ que' = que /\ job' = job /\ UNCHANGED statusVars
        /\ \A q \in Requesters : pc'[q] = pc[q]
        /\ pc[Sender] \notin WillMark
    BY <1>1, <1>3 DEF Sleep, SpuriousWake, ForgetSent, WillMark, Transmitting
  <2>2. InHand(m)
    BY <2>1 DEF WInv
  <2> QED  BY <2>1, <2>2, SenderGoesOn
<1>4. CASE CheckNetwork
  <2>1. /\ que' = que /\ job' = job /\ UNCHANGED statusVars
        /\ \A q \in Requesters : pc'[q] = pc[q]
        /\ TypeOf[job[Sender]] = "SEND_MAIL" => pc'[Sender] = "prepare"
    BY <1>1, <1>4 DEF CheckNetwork, Steady
  <2>2. InHand(m)
    BY <2>1 DEF WInv
  <2> QED  BY <2>1, <2>2, SenderGoesOn DEF WillMark, IsSendOf
<1>5. CASE Prepare
  <2>1. /\ que' = que /\ job' = job /\ saveStatus' = saveStatus /\ missed \subseteq missed'
        /\ \A q \in Requesters : pc'[q] = pc[q]
        /\ \/ mailbox[CurrentMail] = "GONE"
           \/ pc'[Sender] \in WillMark
           \/ CurrentMail \in missed'
    BY <1>1, <1>5 DEF Prepare, MissStatus, WillMark, Transmitting
  <2>2. InHand(m)
    BY <2>1 DEF WInv
  <2>3. mailbox[m] # "GONE"
    BY <2>1 DEF IInv, GoneHasNoStatus
  <2> QED  BY <2>1, <2>2, <2>3, SenderGoesOn DEF CurrentMail, IsSendOf
<1>6. CASE MarkSending
  <2>1. /\ que' = que /\ job' = job
        /\ \A q \in Requesters : pc'[q] = pc[q]
        /\ pc'[Sender] \in WillMark
    BY <1>1, <1>6 DEF MarkSending, WillMark, Transmitting
  <2>2. saveStatus[m] = "SEND_WAIT" /\ m \notin missed
    <3>1. job[Sender] \in Sends /\ CurrentMail \in Mails
      BY <1>6 DEF MarkSending, IInv, Holdings, SenderBusy, CurrentMail
    <3> QED  BY <1>6, <3>1, StatusWritten DEF MarkSending
  <2>3. InHand(m)
    BY <2>2 DEF WInv
  <2> QED  BY <2>1, <2>3, SenderGoesOn
<1>7. CASE Transmit
  <2>1. /\ que' = que /\ job' = job /\ UNCHANGED statusVars
        /\ \A q \in Requesters : pc'[q] = pc[q]
        /\ pc'[Sender] \in WillMark
    BY <1>1, <1>7 DEF Transmit, WillMark, Transmitting
  <2>2. InHand(m)
    BY <2>1 DEF WInv
  <2> QED  BY <2>1, <2>2, SenderGoesOn
<1>8. CASE FileMail
  <2>1. /\ que' = que /\ job' = job
        /\ \A q \in Requesters : pc'[q] = pc[q]
        /\ pc'[Sender] \in WillMark
    BY <1>1, <1>8 DEF FileMail, WillMark, Transmitting
  <2>2. saveStatus[m] = "SEND_WAIT" /\ m \notin missed
    BY <1>8 DEF FileMail, IInv, TypeOK
  <2>3. InHand(m)
    BY <2>2 DEF WInv
  <2> QED  BY <2>1, <2>3, SenderGoesOn
<1>9. CASE MarkSent \/ FinishFailed
  <2>1. /\ que' = que /\ job' = job
        /\ \A q \in Requesters : pc'[q] = pc[q]
        /\ job[Sender] \in Sends /\ CurrentMail \in Mails
    BY <1>1, <1>9 DEF MarkSent, FinishFailed, IInv, Holdings, SenderBusy, Transmitting, CurrentMail
  <2>2. \E st \in {"SENT", "SEND_FAILURE", "SEND_CANCELED"} : WriteStatus(CurrentMail, st)
    BY <1>9 DEF MarkSent, FinishFailed
  <2>3. m # CurrentMail /\ saveStatus[m] = "SEND_WAIT" /\ m \notin missed
    BY <2>1, <2>2, StatusWritten
  <2>4. InHand(m)
    BY <2>3 DEF WInv
  <2> QED  BY <2>1, <2>3, <2>4, SenderGoesOn DEF CurrentMail, IsSendOf
<1>10. CASE ClearSlot
  <2>1. /\ UNCHANGED statusVars /\ pc[Sender] \notin WillMark
        /\ \A q \in Requesters : pc'[q] = pc[q] /\ job'[q] = job[q]
    BY <1>1, <1>10 DEF ClearSlot, WillMark, Transmitting
  <2>2. InHand(m)
    BY <2>1 DEF WInv
  <2>3. que[active].status = "STARTED"
    BY <1>10 DEF ClearSlot, IInv, Holdings, RunFate, SenderBusy, WInv, Undisturbed
  <2>4. \A s \in Slots : que[s].status = "WAIT" => que'[s] = que[s]
    BY <1>10, <2>3 DEF ClearSlot, IInv, TypeOK
  <2> QED  BY <2>1, <2>2, <2>4 DEF InHand
<1> QED  BY <1>2, <1>3, <1>4, <1>5, <1>6, <1>7, <1>8, <1>9, <1>10 DEF SenderStep

\* "The mail is a mail to be send" is true of every mail the table says it of,
\* where nobody cancels, the network is there and the daemon does not die: at
\* every place of the request and of the send thread, and for any number of
\* sends of one mail, there is a send that will write the next status.
THEOREM WaitingMailIsInHand == Steady => (Spec => []WaitingMailHasSend)
<1>1. Init => WInv
  BY DEF Init, WInv, Undisturbed, RequestTypes
<1>2. ASSUME Steady, IInv, WInv, [Next]_vars PROVE WInv'
  <2>1. Undisturbed' /\ RequestTypes'
    BY <1>2, UndisturbedStep
  <2>2. ASSUME NEW m \in Mails, saveStatus'[m] = "SEND_WAIT", m \notin missed' PROVE InHand(m)'
    <3>1. ~CancelSlot /\ ~CancelForget /\ ~Crash /\ \A n \in Mails : ~CancelLookup(n)
      BY <1>2 DEF WInv, Undisturbed, Steady, CancelSlot, CancelForget, CancelLookup, Crash,
             IInv, TypeOK
    <3>2. CASE UNCHANGED vars
      BY <1>2, <2>2, <3>2 DEF vars, WInv, InHand
    <3> QED  BY <1>2, <2>2, <3>1, <3>2, InHandByRequest, InHandByBegin, InHandBySender
         DEF Next, CancelStep
  <2> QED  BY <2>1, <2>2 DEF WInv
<1>3. ASSUME IInv, WInv PROVE WaitingMailHasSend
  <2>1. \A m \in Mails : InHand(m) => HasSend(m)
    BY DEF InHand, HasSend, IsSendOf
  <2> QED  BY <1>3, <2>1 DEF WInv, WaitingMailHasSend
<1>4. CASE Steady
  <2>1. IInv /\ WInv /\ [Next]_vars => WInv'
    BY <1>2, <1>4
  <2> QED  BY <1>1, <2>1, <1>3, SendInvariance, PTL DEF Spec
<1> QED  BY <1>4

=============================================================================
