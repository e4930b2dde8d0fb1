----------------------------- MODULE MailProofs -----------------------------
(***************************************************************************)
(* The type invariant of Mail, the invariants that a mail's mailbox is     *)
(* there and that a thread has one head, and the action property that      *)
(* deleting a mail takes no file of another, for every size of the         *)
(* constants.                                                              *)
(*                                                                         *)
(* The tables change in loops over rows and in statements that follow one  *)
(* another, so most of the module says what a function does to a database  *)
(* d, whatever d is.  In the order of the module:                          *)
(*   - ORDER BY and max(rowid) + 1 give what they should (Ranks, ByIdLists,*)
(*     Greatest, NextIdIsNew);                                             *)
(*   - Thinned(d, e, gone, wiped): e is d without the mails gone, as a     *)
(*     function that deletes leaves it;                                    *)
(*   - Sound(d, users), the invariant of one database, and Steady(d, e): e *)
(*     has no mail, mailbox name or file less than its mails need, and its *)
(*     threads as they were (Knots);                                       *)
(*   - Leads(d, e, users, wiped, more): what any function leaves, sound,   *)
(*     and but for the mails in more with their mailboxes, but for those   *)
(*     of the accounts in wiped with their files; one lemma per function   *)
(*     of MailStore and MailCore;                                          *)
(*   - Serves(d, s, r, users, more): the same of a function of MailServer, *)
(*     whose result r has the servers, too;                                *)
(*   - Ties(d, e, out): the threads that had a head have one still, but    *)
(*     those in out, again one lemma per function that could lose one;     *)
(*   - IInv, the inductive invariant, Good, which is what an action must   *)
(*     do to keep it, and one lemma per action;                            *)
(*   - the theorems.                                                       *)
(* A loop is an instance of Iterate, and that it keeps a relation of the   *)
(* database to the one it began with is an instance of IterateProofs.      *)
(***************************************************************************)
EXTENDS Mail, TLAPS, FiniteSetTheorems, FunctionTheorems, SequenceTheorems

Count == INSTANCE IterateProofs WITH Step <- LAMBDA c, d, x : d, Keep <- LAMBDA p, d : TRUE

\* The ids of a table are bounded.
Keyed(rows, fields) ==
    /\ \E n \in Nat : \A r \in rows : r.id \in 1 .. n
    /\ \A r \in rows : HasFields(r, fields)
    /\ \A r, q \in rows : r.id = q.id => r = q

\* Numbers that are finitely many have a greatest, which Max gives.
LEMMA Greatest ==
  ASSUME NEW S, S \in SUBSET Nat, IsFiniteSet(S), S # {}
  PROVE  Max(S) \in S /\ \A x \in S : x <= Max(S)
<1> DEFINE n == Cardinality(S)
<1> n \in Nat
  BY FS_CardinalityType
<1>1. PICK f : f \in Bijection(1 .. n, S)
  BY FS_CardinalityType DEF ExistsBijection
<1> HIDE DEF n
<1>2. f \in [1 .. n -> S] /\ \A x \in S : \E i \in 1 .. n : f[i] = x
  BY <1>1 DEF Bijection, Surjection, Injection
<1> DEFINE T == {k \in 0 .. n : k = 0 \/ \E j \in 1 .. k : \A i \in 1 .. k : f[i] <= f[j]}
<1>3. 0 \in T
  OBVIOUS
<1>4. ASSUME NEW k \in 0 .. (n - 1), k \in T PROVE k + 1 \in T
  <2>1. \A i \in 1 .. n : f[i] \in Nat
    BY <1>2
  <2>0. k + 1 \in 1 .. n /\ f[k + 1] \in Nat /\ \A i \in 1 .. (k + 1) : i \in 1 .. n /\ f[i] \in Nat
    BY <2>1
  <2>2. CASE k = 0
    BY <2>0, <2>2
  <2>3. CASE k # 0
    <3>1. PICK j \in 1 .. k : \A i \in 1 .. k : f[i] <= f[j]
      BY <1>4, <2>3
    <3>2. CASE f[k + 1] <= f[j]
      BY <2>0, <3>1, <3>2
    <3>3. CASE f[j] <= f[k + 1]
      <4>1. ASSUME NEW i \in 1 .. (k + 1) PROVE f[i] <= f[k + 1]
        <5>1. CASE i = k + 1
          BY <2>0, <5>1
        <5>2. CASE i \in 1 .. k
          BY <2>0, <3>1, <3>3, <5>2
        <5> QED  BY <5>1, <5>2
      <4> QED  BY <4>1, <2>0
    <3> QED  BY <2>0, <3>1, <3>2, <3>3
  <2> QED  BY <2>2, <2>3
<1> HIDE DEF T
<1>5. \A i \in 0 .. n : i \in T
  <2>1. \A i \in 0 .. (n - 1) : i \in T => i + 1 \in T
    BY <1>4
  <2> QED  BY <1>3, <2>1, Count!UpTo, Zenon
<1>6. n # 0
  <2>1. PICK x : x \in S
    OBVIOUS
  <2> QED  BY <1>2, <2>1
<1>7. \E j \in 1 .. n : \A i \in 1 .. n : f[i] <= f[j]
  BY <1>5, <1>6 DEF T
<1>8. \E x \in S : \A y \in S : x >= y
  BY <1>2, <1>7
<1> QED  BY <1>8 DEF Max

LEMMA TableIsKeyed ==
  ASSUME NEW rows, NEW fields
  PROVE  Table(rows, fields) <=> Keyed(rows, fields)
<1>1. ASSUME \A r, q \in rows : r.id = q.id => r = q PROVE IsFiniteSet(rows) <=> IsFiniteSet({r.id : r \in rows})
  <2> DEFINE ids == {r.id : r \in rows}
             f == [r \in rows |-> r.id]
  <2>1. f \in Injection(rows, ids) /\ f \in Surjection(rows, ids)
    BY <1>1 DEF Surjection, Injection, IsInjective
  <2> HIDE DEF f, ids
  <2> QED  BY <2>1, FS_Injection, FS_Surjection DEF ids
<1>2. ASSUME Table(rows, fields) PROVE Keyed(rows, fields)
  <2> DEFINE S == {0} \cup {r.id : r \in rows}
  <2>1. IsFiniteSet(S) /\ S \in SUBSET Nat
    BY <1>1, <1>2, FS_AddElement DEF Table
  <2>2. Max(S) \in Nat /\ \A x \in S : x <= Max(S)
    BY <2>1, Greatest
  <2>3. \A r \in rows : r.id \in 1 .. Max(S)
    BY <1>2, <2>2 DEF Table
  <2> QED  BY <1>2, <2>2, <2>3 DEF Table, Keyed
<1>3. ASSUME Keyed(rows, fields) PROVE Table(rows, fields)
  <2>1. PICK n \in Nat : \A r \in rows : r.id \in 1 .. n
    BY <1>3 DEF Keyed
  <2>2. {r.id : r \in rows} \in SUBSET (1 .. n) /\ IsFiniteSet(1 .. n)
    BY <2>1, FS_Interval
  <2>3. IsFiniteSet({r.id : r \in rows})
    BY <2>2, FS_Subset
  <2> QED  BY <1>1, <1>3, <2>1, <2>3 DEF Table, Keyed
<1> QED  BY <1>2, <1>3

LEMMA NextIdIsNew ==
  ASSUME NEW rows, NEW fields, Keyed(rows, fields)
  PROVE  NextId(rows) \in Nat \ {0} /\ \A r \in rows : r.id \in 1 .. (NextId(rows) - 1)
<1>1. Table(rows, fields)
  BY TableIsKeyed
<1> DEFINE S == {0} \cup {r.id : r \in rows}
           f == [r \in rows |-> r.id]
<1>2. f \in Surjection(rows, {r.id : r \in rows})
  BY DEF Surjection
<1> HIDE DEF f
<1>3. IsFiniteSet({r.id : r \in rows})
  BY <1>1, <1>2, FS_Surjection DEF Table
<1>4. IsFiniteSet(S)
  <2>1. S = {r.id : r \in rows} \cup {0}
    OBVIOUS
  <2> HIDE DEF S
  <2> QED  BY <1>3, <2>1, FS_AddElement
<1>5. S \in SUBSET Nat /\ S # {}
  BY <1>1 DEF Table
<1>6. Max(S) \in Nat /\ \A x \in S : x <= Max(S)
  BY <1>4, <1>5, Greatest
<1> QED  BY <1>1, <1>6 DEF NextId, Table

-----------------------------------------------------------------------------
(* ORDER BY: in a strict total order of finitely many rows, every number below *)
(* theirs is that of the rows before some row. *)

Below(S, R, x) == {y \in S : <<y, x>> \in R}

LEMMA Ranks ==
  ASSUME NEW S, IsFiniteSet(S), NEW R,
         \A x \in S : <<x, x>> \notin R,
         \A x, y \in S : x # y => <<x, y>> \in R \/ <<y, x>> \in R,
         \A x, y, z \in S : <<x, y>> \in R /\ <<y, z>> \in R => <<x, z>> \in R,
         NEW i \in 1 .. Cardinality(S)
  PROVE  \E x \in S : Cardinality(Below(S, R, x)) = i - 1
<1> DEFINE n == Cardinality(S)
           below(x) == Below(S, R, x)
           f == [x \in S |-> Cardinality(below(x))]
<1>0. n = Cardinality(S) /\ i \in 1 .. n
  OBVIOUS
<1> n \in Nat
  BY FS_CardinalityType
<1> HIDE DEF n
<1>1. ASSUME NEW x \in S PROVE Cardinality(below(x)) \in 0 .. (n - 1)
  <2>1. IsFiniteSet(S \ {x}) /\ Cardinality(S \ {x}) = n - 1 /\ below(x) \in SUBSET (S \ {x})
    BY <1>0, FS_RemoveElement DEF Below
  <2> HIDE DEF below
  <2>2. IsFiniteSet(below(x)) /\ Cardinality(below(x)) <= Cardinality(S \ {x})
    BY <2>1, FS_Subset
  <2>3. Cardinality(below(x)) \in Nat
    BY <2>2, FS_CardinalityType
  <2> QED  BY <2>1, <2>2, <2>3
<1>2. ASSUME NEW x \in S, NEW y \in S, <<x, y>> \in R PROVE Cardinality(below(x)) # Cardinality(below(y))
  <2>1. below(x) \in SUBSET (below(y) \ {x}) /\ x \in below(y) /\ below(y) \in SUBSET S
    BY <1>2 DEF Below
  <2>2. IsFiniteSet(below(y))
    BY <2>1, FS_Subset
  <2>3. IsFiniteSet(below(y) \ {x}) /\ Cardinality(below(y) \ {x}) = Cardinality(below(y)) - 1
    BY <2>1, <2>2, FS_RemoveElement
  <2>4. Cardinality(below(x)) <= Cardinality(below(y) \ {x})
    BY <2>1, <2>3, FS_Subset, Zenon
  <2> QED  BY <1>1, <2>3, <2>4
<1>3. f \in Injection(S, 0 .. (n - 1))
  <2> HIDE DEF below
  <2>1. \A x, y \in S : Cardinality(below(x)) = Cardinality(below(y)) => x = y
    BY <1>2
  <2> QED  BY <1>1, <2>1 DEF Injection, IsInjective
<1> HIDE DEF f
<1>4. IsFiniteSet(0 .. (n - 1)) /\ Cardinality(0 .. (n - 1)) = n
  BY FS_Interval
<1>5. f \in Surjection(S, 0 .. (n - 1))
  BY <1>0, <1>3, <1>4, FS_Injection
<1>6. \E x \in S : f[x] = i - 1
  BY <1>0, <1>5 DEF Surjection
<1> QED  BY <1>6 DEF f

\* The list of rows with different ids: as many as there are, and each of them a row.
LEMMA ByIdLists ==
  ASSUME NEW rows, IsFiniteSet(rows), \A r \in rows : r.id \in Nat,
         \A r, q \in rows : r.id = q.id => r = q
  PROVE  /\ ById(rows) \in Seq(rows) /\ Len(ById(rows)) \in Nat
         /\ \A i \in 1 .. Len(ById(rows)) : ById(rows)[i] \in rows
<1> DEFINE R == {p \in rows \X rows : p[1].id < p[2].id}
           n == Cardinality(rows)
<1>1. n \in Nat
  BY FS_CardinalityType
<1>2. ASSUME NEW i \in 1 .. n PROVE \E r \in rows : Cardinality(Below(rows, R, r)) = i - 1
  <2>1. \A x \in rows : <<x, x>> \notin R
    OBVIOUS
  <2>2. \A x, y \in rows : x # y => <<x, y>> \in R \/ <<y, x>> \in R
    OBVIOUS
  <2>3. \A x, y, z \in rows : <<x, y>> \in R /\ <<y, z>> \in R => <<x, z>> \in R
    OBVIOUS
  <2> HIDE DEF R
  <2> QED  BY <2>1, <2>2, <2>3, Ranks
<1>3. ASSUME NEW r \in rows PROVE Below(rows, R, r) = {q \in rows : q.id < r.id}
  BY DEF Below
<1> HIDE DEF R
<1>4. ById(rows) = [i \in 1 .. n |-> CHOOSE r \in rows : Cardinality({q \in rows : q.id < r.id}) = i - 1]
  BY DEF ById, Sorted
<1>5. ASSUME NEW i \in 1 .. n PROVE (CHOOSE r \in rows : Cardinality({q \in rows : q.id < r.id}) = i - 1) \in rows
  BY <1>2, <1>3
<1>6. ById(rows) \in [1 .. n -> rows]
  BY <1>4, <1>5
<1>7. ById(rows) \in Seq(rows) /\ Len(ById(rows)) = n
  BY <1>1, <1>6
<1> QED  BY <1>1, <1>6, <1>7

-----------------------------------------------------------------------------
(* the tables *)

IsDb(d) == HasFields(d, {"account", "box", "mail", "uid", "att", "meet", "rule", "dir", "next"})
AccountFields == {"id", "user", "kind", "slot", "sync"}
BoxFields == {"id", "acc", "name", "type", "local", "modifiable", "slot", "total"}
MailFields == {"id", "acc", "box", "name", "type", "suid", "seen", "deleted", "body", "thread", "items", "msg"}
AttFields == {"id", "mail", "acc", "box"}
RuleFields == {"id", "acc", "type", "value"}
UidFields == {"acc", "box", "name", "luid", "suid"}
Uids(rows) == IsFiniteSet(rows) /\ \A u \in rows : HasFields(u, UidFields)
Meetings(rows) == \A t \in rows : HasFields(t, {"mail", "acc", "box"})
Dirs(rows) == \A f \in rows : HasFields(f, {"acc", "mail"})
\* The mail table: the ids are below the one that is given next.
Mailed(rows, next) ==
    /\ next \in Nat \ {0} /\ \A m \in rows : m.id \in 1 .. (next - 1) /\ HasFields(m, MailFields) /\ m.msg \in Nat
    /\ \A m, k \in rows : m.id = k.id => m = k

LEMMA RowFields == DOMAIN NoMail = MailFields /\ DOMAIN NoDownloaded = UidFields
BY DEF NoMail, NoDownloaded, MailFields, UidFields

LEMMA TablesAre ==
  ASSUME NEW d
  PROVE  Tables(d) <=> /\ IsDb(d) /\ Keyed(d.account, AccountFields) /\ Keyed(d.box, BoxFields)
                       /\ Mailed(d.mail, d.next) /\ Keyed(d.att, AttFields) /\ Keyed(d.rule, RuleFields)
                       /\ Uids(d.uid) /\ Meetings(d.meet) /\ Dirs(d.dir)
<1>1. Table(d.account, AccountFields) <=> Keyed(d.account, AccountFields)
  BY TableIsKeyed
<1>2. Table(d.box, BoxFields) <=> Keyed(d.box, BoxFields)
  BY TableIsKeyed
<1>3. Table(d.att, AttFields) <=> Keyed(d.att, AttFields)
  BY TableIsKeyed
<1>4. Table(d.rule, RuleFields) <=> Keyed(d.rule, RuleFields)
  BY TableIsKeyed
<1>5. (Table(d.mail, MailFields) /\ d.next \in Nat \ {0} /\ \A m \in d.mail : m.id < d.next /\ m.msg \in Nat) <=> Mailed(d.mail, d.next)
  <2>1. Table(d.mail, MailFields) <=> Keyed(d.mail, MailFields)
    BY TableIsKeyed
  <2>2. ASSUME Table(d.mail, MailFields), d.next \in Nat \ {0}, \A m \in d.mail : m.id < d.next /\ m.msg \in Nat PROVE Mailed(d.mail, d.next)
    BY <2>2 DEF Table, Mailed
  <2>3. ASSUME Mailed(d.mail, d.next) PROVE Keyed(d.mail, MailFields) /\ \A m \in d.mail : m.id < d.next /\ m.msg \in Nat
    BY <2>3 DEF Mailed, Keyed
  <2> QED  BY <2>1, <2>2, <2>3 DEF Mailed
<1> QED
  BY <1>1, <1>2, <1>3, <1>4, <1>5, RowFields
  DEF Tables, IsDb, Uids, Meetings, Dirs, AccountFields, BoxFields, AttFields, RuleFields, UidFields

LEMMA MailsAreFinite ==
  ASSUME NEW rows, NEW next, Mailed(rows, next)
  PROVE  IsFiniteSet(rows)
<1>1. next \in Nat /\ Keyed(rows, MailFields)
  <2>1. CASE next = 0
    BY <2>1 DEF Mailed, Keyed
  <2>2. CASE next # 0
    <3>1. next - 1 \in Nat
      BY <2>2 DEF Mailed
    <3> QED  BY <3>1 DEF Mailed, Keyed
  <2> QED  BY <2>1, <2>2 DEF Mailed
<1> QED  BY <1>1, TableIsKeyed DEF Table

-----------------------------------------------------------------------------
(* deleting *)

\* e is what d is without the mails gone, but for the counts of threads; of files
\* and meetings go only theirs and, beyond them, those of the accounts wiped.
Thinned(d, e, gone, wiped) ==
    /\ IsDb(e)
    /\ e.account = d.account /\ e.box = d.box /\ e.rule = d.rule /\ e.next = d.next
    /\ \A k, l \in e.mail : k.id = l.id => k = l
    /\ \A k \in e.mail : \E m \in d.mail : /\ m.id \notin gone /\ k = [m EXCEPT !.items = k.items]
                                           /\ k.items \in Nat \cup {m.items}
    /\ e.uid \subseteq d.uid /\ e.att \subseteq d.att /\ e.meet \subseteq d.meet /\ e.dir \subseteq d.dir
    /\ \A f \in d.dir : f \in e.dir \/ f.mail \in gone \/ f.acc \in wiped
    /\ \A t \in d.meet : t \in e.meet \/ t.mail \in gone \/ t.acc \in wiped

LEMMA NothingThinned ==
  ASSUME NEW d, Tables(d)
  PROVE  Thinned(d, d, {}, {})
<1>1. IsDb(d) /\ \A m \in d.mail : m = [m EXCEPT !.items = m.items]
  BY TablesAre DEF Mailed, HasFields
<1> QED  BY <1>1, TablesAre DEF Thinned, Mailed

LEMMA ThinnedIsTables ==
  ASSUME NEW d, NEW e, NEW gone, NEW wiped, Tables(d), Thinned(d, e, gone, wiped)
  PROVE  Tables(e)
<1>1. IsDb(e) /\ Keyed(e.account, AccountFields) /\ Keyed(e.box, BoxFields) /\ Keyed(e.rule, RuleFields)
  BY TablesAre DEF Thinned
<1>2. Mailed(e.mail, e.next)
  BY TablesAre DEF Thinned, Mailed, HasFields, MailFields
<1>3. Keyed(e.att, AttFields)
  BY TablesAre DEF Thinned, Keyed
<1>4. Uids(e.uid)
  BY TablesAre, FS_Subset DEF Thinned, Uids
<1>5. Meetings(e.meet) /\ Dirs(e.dir)
  BY TablesAre DEF Thinned, Meetings, Dirs
<1> QED  BY <1>1, <1>2, <1>3, <1>4, <1>5, TablesAre

LEMMA ThinnedTwice ==
  ASSUME NEW c, NEW d, NEW e, NEW gone, NEW also, NEW wiped, NEW swept, Tables(c),
         Thinned(c, d, gone, wiped), Thinned(d, e, also, swept)
  PROVE  Thinned(c, e, gone \cup also, wiped \cup swept)
<1>1. ASSUME NEW k \in e.mail
      PROVE  \E m \in c.mail : /\ m.id \notin gone \cup also /\ k = [m EXCEPT !.items = k.items]
                               /\ k.items \in Nat \cup {m.items}
  <2>1. PICK l \in d.mail : /\ l.id \notin also /\ k = [l EXCEPT !.items = k.items] /\ k.items \in Nat \cup {l.items}
    BY DEF Thinned
  <2>2. PICK m \in c.mail : /\ m.id \notin gone /\ l = [m EXCEPT !.items = l.items] /\ l.items \in Nat \cup {m.items}
    BY DEF Thinned
  <2>3. HasFields(m, MailFields)
    BY TablesAre DEF Mailed
  <2>4. l.id = m.id /\ [l EXCEPT !.items = k.items] = [m EXCEPT !.items = k.items]
    BY <2>2, <2>3 DEF HasFields, MailFields
  <2> QED  BY <2>1, <2>2, <2>4
<1>2. \A f \in c.dir : f \in e.dir \/ f.mail \in gone \cup also \/ f.acc \in wiped \cup swept
  BY DEF Thinned
<1>3. \A t \in c.meet : t \in e.meet \/ t.mail \in gone \cup also \/ t.acc \in wiped \cup swept
  BY DEF Thinned
<1> QED  BY <1>1, <1>2, <1>3 DEF Thinned

LEMMA CleanThins ==
  ASSUME NEW d, IsDb(d), NEW acc, NEW mails, NEW e, e = Clean(d, acc, mails)
  PROVE  /\ IsDb(e) /\ e.account = d.account /\ e.box = d.box /\ e.rule = d.rule /\ e.next = d.next
         /\ e.mail = d.mail /\ e.uid = d.uid
         /\ e.att \subseteq d.att /\ e.meet \subseteq d.meet /\ e.dir \subseteq d.dir
         /\ \A f \in d.dir : f \in e.dir \/ (f.acc = acc /\ (f.mail \in mails \/ 0 \in mails))
         /\ \A t \in d.meet : t \in e.meet \/ (t.acc = acc /\ (t.mail \in mails \/ 0 \in mails))
<1> DEFINE a == emstorage_delete_all_attachments_of_mail(d, mails)
           b == emstorage_delete_dir(a, acc, mails)
<1>0. e = emstorage_delete_meeting_request(b, acc, mails)
  BY DEF Clean
<1>1. IsDb(a) /\ a = [d EXCEPT !.att = a.att] /\ a.att \subseteq d.att
  BY DEF emstorage_delete_all_attachments_of_mail, IsDb, HasFields
<1>2. /\ IsDb(b) /\ b = [a EXCEPT !.dir = b.dir] /\ b.dir \subseteq a.dir
      /\ \A f \in a.dir : f \in b.dir \/ (f.acc = acc /\ (f.mail \in mails \/ 0 \in mails))
  <2> HIDE DEF a
  <2> QED  BY <1>1 DEF emstorage_delete_dir, IsDb, HasFields
<1>3. /\ IsDb(e) /\ e = [b EXCEPT !.meet = e.meet] /\ e.meet \subseteq b.meet
      /\ \A t \in b.meet : t \in e.meet \/ (t.acc = acc /\ (t.mail \in mails \/ 0 \in mails))
  <2> HIDE DEF b
  <2> QED  BY <1>0, <1>2 DEF emstorage_delete_meeting_request, IsDb, HasFields
<1> HIDE DEF a, b
<1>4. \A x \in {"account", "box", "rule", "next", "mail", "uid", "dir", "meet"} : a[x] = d[x]
  BY <1>1 DEF IsDb, HasFields
<1>5. \A x \in {"account", "box", "rule", "next", "mail", "uid", "att", "meet"} : b[x] = a[x]
  BY <1>1, <1>2 DEF IsDb, HasFields
<1>6. \A x \in {"account", "box", "rule", "next", "mail", "uid", "att", "dir"} : e[x] = b[x]
  BY <1>2, <1>3 DEF IsDb, HasFields
<1> QED  BY <1>1, <1>2, <1>3, <1>4, <1>5, <1>6

LEMMA HeadsAreCounted ==
  ASSUME NEW d, IsDb(d), IsFiniteSet(d.mail), NEW acc, NEW threads0, NEW m
  PROVE  ThreadItems(d, acc, threads0, m) \in Nat \cup {m.items}
<1> DEFINE listed == {k \in InThread(d, acc, m.thread) : k.type \notin Unlisted}
<1>1. IsFiniteSet(listed)
  BY FS_Subset, listed \in SUBSET d.mail DEF InThread
<1>2. Cardinality(listed) \in Nat
  BY <1>1, FS_CardinalityType
<1> QED  BY <1>2 DEF ThreadItems

\* The accounts of which a batch with a mail that is gone takes every file.
Wiping(d, acc, ids) == IF ids \subseteq {m.id : m \in d.mail} THEN {} ELSE {acc}

LEMMA DeleteThins ==
  ASSUME NEW d, Tables(d), NEW acc, NEW ids
  PROVE  Thinned(d, emcore_delete_mails_from_local_storage(d, acc, ids), ids, Wiping(d, acc, ids))
<1> DEFINE records == emstorage_get_mail_field_by_multiple_mail_id(d, ids)
           mails == {m.id : m \in records}
           heads == {m.thread : m \in {m \in records : m.items > 1}}
           a == emstorage_delete_multiple_mails(d, ids)
           b == emstorage_update_latest_thread_mail(a, acc, heads)
           e == Clean(b, acc, mails)
<1>1. IsDb(d) /\ Mailed(d.mail, d.next)
  BY TablesAre
<1>2. IsDb(a) /\ a = [d EXCEPT !.mail = {m \in d.mail : m.id \notin ids}]
  BY <1>1 DEF emstorage_delete_multiple_mails, IsDb, HasFields
<1>3. (mails \subseteq ids /\ 0 \notin mails) \/ Wiping(d, acc, ids) = {acc}
  <2>1. NoMail.id = 0 /\ \A m \in d.mail : m.id # 0
    BY <1>1 DEF NoMail, Mailed
  <2> QED  BY <2>1 DEF emstorage_get_mail_field_by_multiple_mail_id, Wiping
<1> HIDE DEF records, mails, heads, a
<1>4. a.mail = {m \in d.mail : m.id \notin ids} /\ IsFiniteSet(a.mail)
  <2>1. a.mail = {m \in d.mail : m.id \notin ids}
    BY <1>1, <1>2 DEF IsDb, HasFields
  <2> QED  BY <1>1, <2>1, MailsAreFinite, FS_Subset, a.mail \in SUBSET d.mail
<1>5. IsDb(b) /\ b = [a EXCEPT !.mail = {[m EXCEPT !.items = ThreadItems(a, acc, heads, m)] : m \in a.mail}]
  BY <1>2 DEF emstorage_update_latest_thread_mail, IsDb, HasFields
<1>6. b.mail = {[m EXCEPT !.items = ThreadItems(a, acc, heads, m)] : m \in a.mail}
  BY <1>2, <1>5 DEF IsDb, HasFields
<1>8. e = Clean(b, acc, mails) /\ e = emcore_delete_mails_from_local_storage(d, acc, ids)
  BY DEF emcore_delete_mails_from_local_storage, e, b, a, heads, mails, records
<1> HIDE DEF b, e
<1>7. /\ IsDb(e) /\ e.account = b.account /\ e.box = b.box /\ e.rule = b.rule /\ e.next = b.next
      /\ e.mail = b.mail /\ e.uid = b.uid
      /\ e.att \subseteq b.att /\ e.meet \subseteq b.meet /\ e.dir \subseteq b.dir
      /\ \A f \in b.dir : f \in e.dir \/ (f.acc = acc /\ (f.mail \in mails \/ 0 \in mails))
      /\ \A t \in b.meet : t \in e.meet \/ (t.acc = acc /\ (t.mail \in mails \/ 0 \in mails))
    <2>1. IsDb(b)
    BY <1>5
  <2>2. e = Clean(b, acc, mails)
    BY <1>8
  <2> QED  BY <2>1, <2>2, CleanThins
<1>9. /\ b.account = d.account /\ b.box = d.box /\ b.rule = d.rule /\ b.next = d.next /\ b.uid = d.uid
      /\ b.att = d.att /\ b.meet = d.meet /\ b.dir = d.dir
  BY <1>1, <1>2, <1>5 DEF IsDb, HasFields
<1>10. ASSUME NEW k \in e.mail
       PROVE  \E m \in d.mail : /\ m.id \notin ids /\ k = [m EXCEPT !.items = ThreadItems(a, acc, heads, m)]
                                /\ k = [m EXCEPT !.items = k.items] /\ k.items \in Nat \cup {m.items} /\ k.id = m.id
  <2>1. PICK m \in a.mail : k = [m EXCEPT !.items = ThreadItems(a, acc, heads, m)]
    BY <1>6, <1>7
  <2>2. m \in d.mail /\ m.id \notin ids /\ HasFields(m, MailFields)
    BY <1>1, <1>4 DEF Mailed
  <2>3. ThreadItems(a, acc, heads, m) \in Nat \cup {m.items}
    BY <1>2, <1>4, HeadsAreCounted
  <2>4. k.items = ThreadItems(a, acc, heads, m) /\ k.id = m.id
    BY <2>1, <2>2 DEF HasFields, MailFields
  <2> QED  BY <2>1, <2>2, <2>3, <2>4
<1>11. \A k, l \in e.mail : k.id = l.id => k = l
  <2> SUFFICES ASSUME NEW k \in e.mail, NEW l \in e.mail, k.id = l.id PROVE k = l
    OBVIOUS
  <2>1. PICK m \in d.mail : k = [m EXCEPT !.items = ThreadItems(a, acc, heads, m)] /\ k.id = m.id
    BY <1>10
  <2>2. PICK n \in d.mail : l = [n EXCEPT !.items = ThreadItems(a, acc, heads, n)] /\ l.id = n.id
    BY <1>10
  <2>3. m = n
    BY <1>1, <2>1, <2>2 DEF Mailed
  <2> QED  BY <2>1, <2>2, <2>3
<1>12. \A f \in d.dir : f \in e.dir \/ f.mail \in ids \/ f.acc \in Wiping(d, acc, ids)
  <2> SUFFICES ASSUME NEW f \in d.dir, f \notin e.dir, f.mail \notin ids PROVE f.acc \in Wiping(d, acc, ids)
    OBVIOUS
  <2>1. f.acc = acc /\ (f.mail \in mails \/ 0 \in mails)
    BY <1>7, <1>9
  <2> QED  BY <1>3, <2>1
<1>13. \A t \in d.meet : t \in e.meet \/ t.mail \in ids \/ t.acc \in Wiping(d, acc, ids)
  <2> SUFFICES ASSUME NEW t \in d.meet, t \notin e.meet, t.mail \notin ids PROVE t.acc \in Wiping(d, acc, ids)
    OBVIOUS
  <2>1. t.acc = acc /\ (t.mail \in mails \/ 0 \in mails)
    BY <1>7, <1>9
  <2> QED  BY <1>3, <2>1
<1> QED  BY <1>7, <1>8, <1>9, <1>10, <1>11, <1>12, <1>13 DEF Thinned

\* The deletion does nothing when the account is not known.
LEMMA DeleteMailThins ==
  ASSUME NEW d, Tables(d), NEW acc, NEW ids
  PROVE  \E gone \in {{}, ids} : /\ Thinned(d, emcore_delete_mail(d, acc, ids), gone, Wiping(d, acc, ids))
                                 /\ Known(d, acc) => gone = ids
<1>1. CASE ids = {}
  <2>1. Wiping(d, acc, ids) = {} /\ emcore_delete_mail(d, acc, ids) = d
    BY <1>1 DEF Wiping, emcore_delete_mail
  <2> QED  BY <1>1, <2>1, NothingThinned
<1>2. CASE ids # {} /\ Known(d, acc)
  BY <1>2, DeleteThins DEF emcore_delete_mail
<1>3. CASE ~Known(d, acc)
  <2>1. emcore_delete_mail(d, acc, ids) = d /\ Thinned(d, d, {}, {})
    BY <1>3, NothingThinned DEF emcore_delete_mail
  <2>2. Thinned(d, d, {}, Wiping(d, acc, ids))
    BY <2>1 DEF Thinned
  <2> QED  BY <1>3, <2>1, <2>2
<1> QED  BY <1>1, <1>2, <1>3

LEMMA DeleteAllThins ==
  ASSUME NEW d, Tables(d), NEW box
  PROVE  \E gone : /\ Thinned(d, emcore_delete_all_mails_of_mailbox(d, box), gone, {})
                   /\ \A b \in d.box : b.id = box /\ Known(d, b.acc) => gone = {m.id : m \in MailsByName(d, b)}
<1>1. CASE emstorage_get_mailbox_by_id(d, box) = {}
  <2>1. \A b \in d.box : b.id # box
    BY <1>1 DEF emstorage_get_mailbox_by_id
  <2> QED  BY <1>1, <2>1, NothingThinned DEF emcore_delete_all_mails_of_mailbox
<1>2. CASE emstorage_get_mailbox_by_id(d, box) # {}
  <2> DEFINE c == The(emstorage_get_mailbox_by_id(d, box))
             ids == {m.id : m \in MailsByName(d, c)}
  <2>1. c \in d.box /\ c.id = box
    BY <1>2 DEF The, emstorage_get_mailbox_by_id
  <2>2. \A b \in d.box : b.id = box => b = c
    BY <2>1, TablesAre DEF Keyed
  <2>3. emcore_delete_all_mails_of_mailbox(d, box) = emcore_delete_mail(d, c.acc, ids)
    BY <1>2 DEF emcore_delete_all_mails_of_mailbox
  <2>4. Wiping(d, c.acc, ids) = {}
    BY DEF Wiping, MailsByName
  <2> HIDE DEF c, ids
  <2>5. PICK gone \in {{}, ids} : Thinned(d, emcore_delete_mail(d, c.acc, ids), gone, {}) /\ (Known(d, c.acc) => gone = ids)
    BY <2>4, DeleteMailThins
  <2> QED  BY <2>2, <2>3, <2>5 DEF ids
<1> QED  BY <1>1, <1>2

LEMMA ExpungeThins ==
  ASSUME NEW d, Tables(d), NEW box
  PROVE  \E gone : Thinned(d, emcore_expunge_mails_deleted_flagged_from_local_storage(d, box), gone, {})
<1> DEFINE found == emstorage_get_mailbox_by_id(d, box)
           ids == DeletedFlagged(d, box)
<1>1. Wiping(d, The(found).acc, ids) = {}
  BY DEF Wiping, DeletedFlagged
<1> HIDE DEF found, ids
<1>2. Thinned(d, emcore_delete_mails_from_local_storage(d, The(found).acc, ids), ids, {}) /\ Thinned(d, d, {}, {})
  BY <1>1, DeleteThins, NothingThinned
<1> QED  BY <1>2 DEF emcore_expunge_mails_deleted_flagged_from_local_storage, found, ids

\* The mails of a mailbox by their date, the last ones being those beyond its slot.
LEMMA ByDateLists ==
  ASSUME NEW rows, IsFiniteSet(rows), \A r \in rows : r.id \in Nat /\ r.msg \in Nat,
         \A r, q \in rows : r.id = q.id => r = q
  PROVE  /\ ByDate(rows) \in Seq(rows) /\ Len(ByDate(rows)) = Cardinality(rows)
         /\ \A i \in 1 .. Len(ByDate(rows)) : ByDate(rows)[i] \in rows
<1> DEFINE R == {p \in rows \X rows : p[1].msg > p[2].msg \/ (p[1].msg = p[2].msg /\ p[1].id < p[2].id)}
           n == Cardinality(rows)
<1>1. n \in Nat
  BY FS_CardinalityType
<1>2. ASSUME NEW i \in 1 .. n PROVE \E r \in rows : Cardinality(Below(rows, R, r)) = i - 1
  <2>1. \A x \in rows : <<x, x>> \notin R
    OBVIOUS
  <2>2. \A x, y \in rows : x # y => <<x, y>> \in R \/ <<y, x>> \in R
    OBVIOUS
  <2>3. \A x, y, z \in rows : <<x, y>> \in R /\ <<y, z>> \in R => <<x, z>> \in R
    OBVIOUS
  <2> HIDE DEF R
  <2> QED  BY <2>1, <2>2, <2>3, Ranks
<1>3. ASSUME NEW r \in rows
      PROVE  Below(rows, R, r) = {q \in rows : q.msg > r.msg \/ (q.msg = r.msg /\ q.id < r.id)}
  BY DEF Below
<1> HIDE DEF R
<1>4. ByDate(rows) = [i \in 1 .. n |-> CHOOSE r \in rows :
                        Cardinality({q \in rows : q.msg > r.msg \/ (q.msg = r.msg /\ q.id < r.id)}) = i - 1]
  BY DEF ByDate, Sorted
<1>5. ASSUME NEW i \in 1 .. n
      PROVE  (CHOOSE r \in rows :
                 Cardinality({q \in rows : q.msg > r.msg \/ (q.msg = r.msg /\ q.id < r.id)}) = i - 1) \in rows
  BY <1>2, <1>3
<1>6. ByDate(rows) \in [1 .. n -> rows]
  BY <1>4, <1>5
<1>7. ByDate(rows) \in Seq(rows) /\ Len(ByDate(rows)) = n
  BY <1>1, <1>6
<1> QED  BY <1>1, <1>6, <1>7

LEMMA OverflowThins ==
  ASSUME NEW d, Tables(d), NEW acc, NEW box, NEW slot \in Nat
  PROVE  \E gone : Thinned(d, emcore_remove_overflowed_mails(d, acc, box, slot), gone, {})
<1> DEFINE ids == emstorage_get_overflowed_mail_id_list(d, acc, box, slot)
           rows == {m \in d.mail : m.acc = acc /\ m.box = box}
<1>1. Wiping(d, acc, ids) = {}
  <2>1. Mailed(d.mail, d.next)
    BY TablesAre
  <2>2. IsFiniteSet(rows)
    BY <2>1, MailsAreFinite, FS_Subset, rows \in SUBSET d.mail
  <2>3. (\A r \in rows : r.id \in Nat /\ r.msg \in Nat) /\ \A r, q \in rows : r.id = q.id => r = q
    BY <2>1 DEF Mailed
  <2>4. \A i \in 1 .. Len(ByDate(rows)) : ByDate(rows)[i] \in rows
    BY <2>2, <2>3, ByDateLists
  <2>5. Len(ByDate(rows)) \in Nat
    BY <2>2, <2>3, ByDateLists, FS_CardinalityType
  <2>6. \A i \in (slot + 1) .. Len(ByDate(rows)) : ByDate(rows)[i] \in d.mail
    BY <2>4, <2>5
  <2> QED  BY <2>6 DEF Wiping, emstorage_get_overflowed_mail_id_list, Beyond
<1>2. \E gone : Thinned(d, emcore_delete_mail(d, acc, ids), gone, Wiping(d, acc, ids))
  BY DeleteMailThins
<1> QED  BY <1>1, <1>2 DEF emcore_remove_overflowed_mails

TrimKeep(d, e) == \E gone : Thinned(d, e, gone, {})
Trims == INSTANCE IterateProofs WITH Step <- Trim, Keep <- TrimKeep

LEMMA TrimmingThins ==
  ASSUME NEW d, Tables(d), NEW acc, NEW seq, Len(seq) \in Nat, \A i \in 1 .. Len(seq) : seq[i].slot \in Nat
  PROVE  \E gone : Thinned(d, Trimming!Over(acc, d, seq), gone, {})
<1>1. TrimKeep(d, d)
  BY NothingThinned DEF TrimKeep
<1>2. ASSUME NEW i \in 1 .. Len(seq), NEW e, TrimKeep(d, e) PROVE TrimKeep(d, Trim(acc, e, seq[i]))
  <2>1. PICK gone : Thinned(d, e, gone, {})
    BY <1>2 DEF TrimKeep
  <2>2. PICK also : Thinned(e, Trim(acc, e, seq[i]), also, {})
    BY <2>1, ThinnedIsTables, OverflowThins DEF Trim
  <2>3. Thinned(d, Trim(acc, e, seq[i]), gone \cup also, {} \cup {})
    BY <2>1, <2>2, ThinnedTwice
  <2> QED  BY <2>3 DEF TrimKeep
<1>3. TrimKeep(d, Trims!Over(acc, d, seq))
  BY <1>1, <1>2, Trims!Kept
<1>4. Trimming!Over(acc, d, seq) = Trims!Over(acc, d, seq)
  BY DEF Trimming!Over, Trims!Over
<1> QED  BY <1>3, <1>4 DEF TrimKeep

-----------------------------------------------------------------------------
(* a database that is sound, and what a change of one table leaves of it *)

Sound(d, users) == Tables(d) /\ Filed(d) /\ Typed(d, users)

Accounts(rows, users) ==
    /\ Keyed(rows, AccountFields)
    /\ \A a \in rows : a.user \in users /\ a.kind \in {"imap", "pop3"} /\ a.slot \in Nat /\ a.sync \in Flags
Boxed(rows) ==
    /\ Keyed(rows, BoxFields)
    /\ \A b \in rows : b.type \in DOMAIN TypeOrder /\ b.local \in BOOLEAN /\ b.slot \in Nat /\ b.total \in Nat
Counted(rows) == \A m \in rows : m.items \in Nat
OfAccounts(files, rows, next) ==
    \A f \in files : f.mail \in Nat /\ f.mail < next /\ \A m \in rows : m.id = f.mail => m.acc = f.acc

LEMMA SoundIs ==
  ASSUME NEW d, NEW users
  PROVE  Sound(d, users) <=> /\ IsDb(d) /\ Accounts(d.account, users) /\ Boxed(d.box)
                             /\ Mailed(d.mail, d.next) /\ Counted(d.mail)
                             /\ Keyed(d.att, AttFields) /\ Keyed(d.rule, RuleFields)
                             /\ Uids(d.uid) /\ Meetings(d.meet) /\ Dirs(d.dir)
                             /\ OfAccounts(d.dir, d.mail, d.next) /\ OfAccounts(d.meet, d.mail, d.next)
<1>1. Filed(d) <=> OfAccounts(d.dir, d.mail, d.next) /\ OfAccounts(d.meet, d.mail, d.next)
  BY DEF Filed, OfAccounts
<1>2. ASSUME Tables(d)
      PROVE  Typed(d, users) <=> /\ \A a \in d.account : /\ a.user \in users /\ a.kind \in {"imap", "pop3"}
                                                         /\ a.slot \in Nat /\ a.sync \in Flags
                                 /\ \A b \in d.box : b.type \in DOMAIN TypeOrder /\ b.local \in BOOLEAN /\ b.slot \in Nat /\ b.total \in Nat
                                 /\ Counted(d.mail)
  BY <1>2, TablesAre DEF Typed, Counted, Mailed, Keyed
<1> QED  BY <1>1, <1>2, TablesAre DEF Sound, Accounts, Boxed

\* Each mail of e is one of d, in the same mailbox.
Carries(d, e) ==
    /\ e.next = d.next
    /\ \A k \in e.mail : \E m \in d.mail : /\ k.id = m.id /\ k.acc = m.acc /\ k.box = m.box
                                           /\ k.name = m.name /\ k.type = m.type
\* Each mailbox of d is one of e.
BoxesStay(d, e) ==
    \A b \in d.box : \E c \in e.box : c.id = b.id /\ c.acc = b.acc /\ c.name = b.name /\ c.type = b.type
\* A mail that stays keeps its files and its meeting.
KeepsFiles(d, e, wiped) ==
    \A m \in d.mail :
        \/ m.acc \in wiped \/ ~\E k \in e.mail : k.id = m.id
        \/ /\ \A f \in d.dir : f.mail = m.id => f \in e.dir
           /\ \A a \in d.meet : a.mail = m.id => \E b \in e.meet : b.mail = m.id
\* What of a mail its thread depends on.
Knot(m) == [id |-> m.id, acc |-> m.acc, thread |-> m.thread, items |-> m.items, type |-> m.type, msg |-> m.msg]
Knots(rows) == {Knot(m) : m \in rows}
Staying(d, e) == Carries(d, e) /\ BoxesStay(d, e) /\ KeepsFiles(d, e, {})
\* What most of the functions do: nothing that a mail could lose, or a thread.
Steady(d, e) == Staying(d, e) /\ Knots(e.mail) = Knots(d.mail)

LEMMA SteadyIsHoused ==
  ASSUME NEW d, NEW e, Carries(d, e), BoxesStay(d, e), NEW strays, Housed(d, strays)
  PROVE  Housed(e, strays)
<1> SUFFICES ASSUME NEW k \in e.mail, k.id \notin strays
             PROVE  \E b \in e.box : b.id = k.box /\ b.acc = k.acc /\ b.name = k.name /\ b.type = k.type
  BY DEF Housed
<1>1. PICK m \in d.mail : k.id = m.id /\ k.acc = m.acc /\ k.box = m.box /\ k.name = m.name /\ k.type = m.type
  BY DEF Carries
<1>2. PICK b \in d.box : b.id = m.box /\ b.acc = m.acc /\ b.name = m.name /\ b.type = m.type
  BY <1>1 DEF Housed
<1> QED  BY <1>1, <1>2 DEF BoxesStay

LEMMA SteadyTwice ==
  ASSUME NEW c, NEW d, NEW e, NEW users, Sound(c, users), Steady(c, d), Steady(d, e)
  PROVE  Steady(c, e)
<1>1. Carries(c, e)
  BY DEF Steady, Staying, Carries
<1>2. BoxesStay(c, e)
  BY DEF Steady, Staying, BoxesStay
<1>3. KeepsFiles(c, e, {})
  <2> SUFFICES ASSUME NEW m \in c.mail, NEW k \in e.mail, k.id = m.id
               PROVE  /\ \A f \in c.dir : f.mail = m.id => f \in e.dir
                      /\ \A a \in c.meet : a.mail = m.id => \E b \in e.meet : b.mail = m.id
    BY DEF KeepsFiles
  <2>1. PICK l \in d.mail : l.id = m.id
    BY DEF Steady, Staying, Carries
  <2>2. /\ \A f \in c.dir : f.mail = m.id => f \in d.dir
        /\ \A a \in c.meet : a.mail = m.id => \E b \in d.meet : b.mail = m.id
    BY <2>1 DEF Steady, Staying, KeepsFiles
  <2>3. /\ \A f \in d.dir : f.mail = m.id => f \in e.dir
        /\ \A a \in d.meet : a.mail = m.id => \E b \in e.meet : b.mail = m.id
    BY <2>1 DEF Steady, Staying, KeepsFiles
  <2> QED  BY <2>2, <2>3
<1>4. Knots(e.mail) = Knots(c.mail)
  BY DEF Steady
<1> QED  BY <1>1, <1>2, <1>3, <1>4 DEF Steady, Staying

LEMMA SteadySame ==
  ASSUME NEW d
  PROVE  Steady(d, d)
BY DEF Steady, Staying, Carries, BoxesStay, KeepsFiles

LEMMA ThinnedIsSound ==
  ASSUME NEW d, NEW e, NEW gone, NEW wiped, NEW users, Sound(d, users), Thinned(d, e, gone, wiped)
  PROVE  Sound(e, users) /\ Carries(d, e) /\ BoxesStay(d, e) /\ KeepsFiles(d, e, wiped)
<1>1. Tables(d) /\ Mailed(d.mail, d.next) /\ Counted(d.mail) /\ OfAccounts(d.dir, d.mail, d.next) /\ OfAccounts(d.meet, d.mail, d.next)
  BY SoundIs DEF Sound
<1>2. ASSUME NEW k \in e.mail
      PROVE  \E m \in d.mail : /\ m.id \notin gone /\ k.id = m.id /\ k.acc = m.acc /\ k.box = m.box
                               /\ k.name = m.name /\ k.type = m.type /\ k.items \in Nat
  <2>1. PICK m \in d.mail : m.id \notin gone /\ k = [m EXCEPT !.items = k.items] /\ k.items \in Nat \cup {m.items}
    BY DEF Thinned
  <2>2. HasFields(m, MailFields) /\ m.items \in Nat
    BY <1>1 DEF Mailed, Counted
  <2> QED  BY <2>1, <2>2 DEF HasFields, MailFields
<1>3. Carries(d, e)
  BY <1>2 DEF Carries, Thinned
<1>4. BoxesStay(d, e)
  BY DEF BoxesStay, Thinned
<1>5. Sound(e, users)
  <2>1. IsDb(e) /\ Mailed(e.mail, e.next) /\ Keyed(e.att, AttFields) /\ Uids(e.uid) /\ Meetings(e.meet) /\ Dirs(e.dir)
    BY <1>1, ThinnedIsTables, TablesAre
  <2>2. Counted(e.mail)
    BY <1>2 DEF Counted
  <2>3. Accounts(e.account, users) /\ Boxed(e.box) /\ Keyed(e.rule, RuleFields)
    BY SoundIs DEF Thinned
  <2>4. OfAccounts(e.dir, e.mail, e.next)
    BY <1>1, <1>2 DEF Thinned, OfAccounts
  <2>5. OfAccounts(e.meet, e.mail, e.next)
    BY <1>1, <1>2 DEF Thinned, OfAccounts
  <2> QED  BY <2>1, <2>2, <2>3, <2>4, <2>5, SoundIs
<1>6. KeepsFiles(d, e, wiped)
  <2> SUFFICES ASSUME NEW m \in d.mail, m.acc \notin wiped, NEW k \in e.mail, k.id = m.id
               PROVE  /\ \A f \in d.dir : f.mail = m.id => f \in e.dir
                      /\ \A a \in d.meet : a.mail = m.id => \E b \in e.meet : b.mail = m.id
    BY DEF KeepsFiles
  <2>1. m.id \notin gone
    BY <1>2
  <2>2. \A f \in d.dir : f.mail = m.id => f.acc = m.acc
    BY <1>1 DEF OfAccounts
  <2>3. \A a \in d.meet : a.mail = m.id => a.acc = m.acc
    BY <1>1 DEF OfAccounts
  <2> QED  BY <2>1, <2>2, <2>3 DEF Thinned
<1> QED  BY <1>3, <1>4, <1>5, <1>6

LEMMA ChangedAccounts ==
  ASSUME NEW d, NEW users, Sound(d, users), NEW rows, Accounts(rows, users), NEW e, e = [d EXCEPT !.account = rows]
  PROVE  Sound(e, users) /\ Steady(d, e) /\ e.account = rows /\ e.box = d.box /\ e.mail = d.mail
<1>1. \A x \in {"box", "mail", "uid", "att", "meet", "rule", "dir", "next"} : e[x] = d[x]
  BY SoundIs DEF IsDb, HasFields
<1>2. IsDb(e) /\ e.account = rows
  BY SoundIs DEF IsDb, HasFields
<1>3. Sound(e, users)
  BY <1>1, <1>2, SoundIs
<1> QED  BY <1>1, <1>2, <1>3 DEF Steady, Staying, Carries, BoxesStay, KeepsFiles

LEMMA ChangedBoxes ==
  ASSUME NEW d, NEW users, Sound(d, users), NEW rows, Boxed(rows), NEW e, e = [d EXCEPT !.box = rows]
  PROVE  /\ Sound(e, users) /\ Carries(d, e) /\ KeepsFiles(d, e, {})
         /\ e.account = d.account /\ e.box = rows /\ e.mail = d.mail /\ e.next = d.next
<1>1. \A x \in {"account", "mail", "uid", "att", "meet", "rule", "dir", "next"} : e[x] = d[x]
  BY SoundIs DEF IsDb, HasFields
<1>2. IsDb(e) /\ e.box = rows
  BY SoundIs DEF IsDb, HasFields
<1>3. Sound(e, users)
  BY <1>1, <1>2, SoundIs
<1> QED  BY <1>1, <1>2, <1>3 DEF Carries, KeepsFiles

\* The rows of mails change in what is not their id and account.
LEMMA ChangedMails ==
  ASSUME NEW d, NEW users, Sound(d, users), NEW rows, Mailed(rows, d.next), Counted(rows),
         \A k \in rows : \E m \in d.mail : k.id = m.id /\ k.acc = m.acc,
         NEW e, e = [d EXCEPT !.mail = rows]
  PROVE  /\ Sound(e, users) /\ BoxesStay(d, e) /\ KeepsFiles(d, e, {})
         /\ e.account = d.account /\ e.box = d.box /\ e.mail = rows /\ e.next = d.next
<1>1. \A x \in {"account", "box", "uid", "att", "meet", "rule", "dir", "next"} : e[x] = d[x]
  BY SoundIs DEF IsDb, HasFields
<1>2. IsDb(e) /\ e.mail = rows
  BY SoundIs DEF IsDb, HasFields
<1>3. OfAccounts(e.dir, e.mail, e.next) /\ OfAccounts(e.meet, e.mail, e.next)
  BY <1>1, <1>2, SoundIs DEF OfAccounts
<1>4. Sound(e, users)
  BY <1>1, <1>2, <1>3, SoundIs
<1> QED  BY <1>1, <1>2, <1>4 DEF BoxesStay, KeepsFiles

LEMMA ChangedUids ==
  ASSUME NEW d, NEW users, Sound(d, users), NEW rows, Uids(rows), NEW e, e = [d EXCEPT !.uid = rows]
  PROVE  Sound(e, users) /\ Steady(d, e) /\ e.account = d.account /\ e.box = d.box /\ e.mail = d.mail
<1>1. \A x \in {"account", "box", "mail", "att", "meet", "rule", "dir", "next"} : e[x] = d[x]
  BY SoundIs DEF IsDb, HasFields
<1>2. IsDb(e) /\ e.uid = rows
  BY SoundIs DEF IsDb, HasFields
<1>3. Sound(e, users)
  BY <1>1, <1>2, SoundIs
<1> QED  BY <1>1, <1>2, <1>3 DEF Steady, Staying, Carries, BoxesStay, KeepsFiles

LEMMA ChangedAttachments ==
  ASSUME NEW d, NEW users, Sound(d, users), NEW rows, Keyed(rows, AttFields), NEW e, e = [d EXCEPT !.att = rows]
  PROVE  Sound(e, users) /\ Steady(d, e) /\ e.account = d.account /\ e.box = d.box /\ e.mail = d.mail
<1>1. \A x \in {"account", "box", "mail", "uid", "meet", "rule", "dir", "next"} : e[x] = d[x]
  BY SoundIs DEF IsDb, HasFields
<1>2. IsDb(e) /\ e.att = rows
  BY SoundIs DEF IsDb, HasFields
<1>3. Sound(e, users)
  BY <1>1, <1>2, SoundIs
<1> QED  BY <1>1, <1>2, <1>3 DEF Steady, Staying, Carries, BoxesStay, KeepsFiles

LEMMA ChangedRules ==
  ASSUME NEW d, NEW users, Sound(d, users), NEW rows, Keyed(rows, RuleFields), NEW e, e = [d EXCEPT !.rule = rows]
  PROVE  Sound(e, users) /\ Steady(d, e) /\ e.account = d.account /\ e.box = d.box /\ e.mail = d.mail
<1>1. \A x \in {"account", "box", "mail", "uid", "att", "meet", "dir", "next"} : e[x] = d[x]
  BY SoundIs DEF IsDb, HasFields
<1>2. IsDb(e) /\ e.rule = rows
  BY SoundIs DEF IsDb, HasFields
<1>3. Sound(e, users)
  BY <1>1, <1>2, SoundIs
<1> QED  BY <1>1, <1>2, <1>3 DEF Steady, Staying, Carries, BoxesStay, KeepsFiles

\* Meetings are added, or change in what is not their mail.
LEMMA ChangedMeetings ==
  ASSUME NEW d, NEW users, Sound(d, users), NEW rows, Meetings(rows), OfAccounts(rows, d.mail, d.next),
         \A a \in d.meet : \E b \in rows : b.mail = a.mail,
         NEW e, e = [d EXCEPT !.meet = rows]
  PROVE  Sound(e, users) /\ Steady(d, e) /\ e.account = d.account /\ e.box = d.box /\ e.mail = d.mail
<1>1. \A x \in {"account", "box", "mail", "uid", "att", "rule", "dir", "next"} : e[x] = d[x]
  BY SoundIs DEF IsDb, HasFields
<1>2. IsDb(e) /\ e.meet = rows
  BY SoundIs DEF IsDb, HasFields
<1>3. Sound(e, users)
  BY <1>1, <1>2, SoundIs
<1> QED  BY <1>1, <1>2, <1>3 DEF Steady, Staying, Carries, BoxesStay, KeepsFiles

LEMMA CreateDir ==
  ASSUME NEW d, NEW users, Sound(d, users), NEW acc, NEW id \in Nat, id < d.next,
         \A m \in d.mail : m.id = id => m.acc = acc, NEW e, e = emstorage_create_dir(d, acc, id)
  PROVE  Sound(e, users) /\ Steady(d, e) /\ e.account = d.account /\ e.box = d.box /\ e.mail = d.mail
<1> DEFINE row == [acc |-> acc, mail |-> id]
<1>0. e = [d EXCEPT !.dir = @ \cup {row}]
  BY DEF emstorage_create_dir
<1>1. \A x \in {"account", "box", "mail", "uid", "att", "meet", "rule", "next"} : e[x] = d[x]
  BY <1>0, SoundIs DEF IsDb, HasFields
<1>2. IsDb(e) /\ e.dir = d.dir \cup {row}
  BY <1>0, SoundIs DEF IsDb, HasFields
<1>3. Dirs(e.dir) /\ OfAccounts(e.dir, e.mail, e.next)
  BY <1>1, <1>2, SoundIs DEF Dirs, HasFields, OfAccounts
<1>4. Sound(e, users)
  BY <1>1, <1>2, <1>3, SoundIs
<1> QED  BY <1>1, <1>2, <1>4 DEF Steady, Staying, Carries, BoxesStay, KeepsFiles

\* A row with the id that is next.
LEMMA AddedRow ==
  ASSUME NEW rows, NEW fields, Keyed(rows, fields), NEW row, HasFields(row, fields), row.id = NextId(rows)
  PROVE  Keyed(rows \cup {row}, fields)
<1>1. NextId(rows) \in Nat \ {0} /\ \A r \in rows : r.id \in 1 .. (NextId(rows) - 1)
  BY NextIdIsNew
<1>2. \A r \in rows \cup {row} : r.id \in 1 .. NextId(rows)
  BY <1>1
<1>3. \A r, q \in rows \cup {row} : r.id = q.id => r = q
  BY <1>1 DEF Keyed
<1> QED  BY <1>1, <1>2, <1>3 DEF Keyed

-----------------------------------------------------------------------------
(* the functions that change accounts and mailboxes *)

LEMMA AddAccount ==
  ASSUME NEW d, NEW users, Sound(d, users), NEW user \in users, NEW kind \in {"imap", "pop3"}, NEW slot \in Nat,
         NEW e, e = emstorage_add_account(d, user, kind, slot)
  PROVE  Sound(e, users) /\ Steady(d, e) /\ e.box = d.box /\ e.mail = d.mail /\ Known(e, NextId(d.account))
<1> DEFINE row == [id |-> NextId(d.account), user |-> user, kind |-> kind, slot |-> slot, sync |-> {}]
<1>1. e = [d EXCEPT !.account = d.account \cup {row}]
  BY DEF emstorage_add_account
<1>2. HasFields(row, AccountFields)
  BY DEF HasFields, AccountFields
<1>3. row.id = NextId(d.account) /\ row.user \in users /\ row.kind \in {"imap", "pop3"} /\ row.slot \in Nat /\ row.sync \in Flags
  BY DEF Flags
<1> HIDE DEF row
<1>4. Accounts(d.account, users)
  BY SoundIs
<1>5. Keyed(d.account \cup {row}, AccountFields)
  BY <1>2, <1>3, <1>4, AddedRow DEF Accounts
<1>6. Accounts(d.account \cup {row}, users)
  BY <1>3, <1>4, <1>5 DEF Accounts
<1>7. Sound(e, users) /\ Steady(d, e) /\ e.account = d.account \cup {row} /\ e.box = d.box /\ e.mail = d.mail
  BY <1>1, <1>6, ChangedAccounts
<1> QED  BY <1>3, <1>7 DEF Known, emcore_get_account_reference, emstorage_get_account_by_id

\* The rows of accounts change in what is not their id, user and kind.
LEMMA UpdatedAccounts ==
  ASSUME NEW d, NEW users, Sound(d, users), NEW f,
         \A a \in d.account : /\ HasFields(f[a], AccountFields) /\ f[a].id = a.id /\ f[a].user = a.user
                              /\ f[a].kind = a.kind /\ f[a].slot \in Nat /\ f[a].sync \in Flags,
         NEW e, e = [d EXCEPT !.account = {f[a] : a \in d.account}]
  PROVE  Sound(e, users) /\ Steady(d, e) /\ e.box = d.box /\ e.mail = d.mail
<1> DEFINE rows == {f[a] : a \in d.account}
<1>0. Accounts(d.account, users)
  BY SoundIs
<1>1. PICK n \in Nat : \A r \in d.account : r.id \in 1 .. n
  BY <1>0 DEF Accounts, Keyed
<1>2. \A r \in rows : r.id \in 1 .. n /\ HasFields(r, AccountFields)
  BY <1>1
<1>3. \A r, q \in rows : r.id = q.id => r = q
  BY <1>0 DEF Accounts, Keyed
<1>4. \A r \in rows : r.user \in users /\ r.kind \in {"imap", "pop3"} /\ r.slot \in Nat /\ r.sync \in Flags
  BY <1>0 DEF Accounts
<1>5. e = [d EXCEPT !.account = rows]
  OBVIOUS
<1> HIDE DEF rows
<1>6. Accounts(rows, users)
  BY <1>2, <1>3, <1>4 DEF Accounts, Keyed
<1>7. \A c : c = [d EXCEPT !.account = rows] => Sound(c, users) /\ Steady(d, c) /\ c.box = d.box /\ c.mail = d.mail
  BY <1>6, ChangedAccounts
<1> QED  BY <1>5, <1>7

LEMMA UpdateSlotOfAccount ==
  ASSUME NEW d, NEW users, Sound(d, users), NEW acc, NEW slot \in Nat,
         NEW e, e = emstorage_update_account(d, acc, slot)
                \/ e = emstorage_set_field_of_accounts_with_integer_value(d, acc, slot)
  PROVE  Sound(e, users) /\ Steady(d, e) /\ e.box = d.box /\ e.mail = d.mail
<1> DEFINE f == [a \in d.account |-> IF a.id = acc THEN [a EXCEPT !.slot = slot] ELSE a]
<1>1. e = [d EXCEPT !.account = {f[a] : a \in d.account}]
  BY DEF emstorage_update_account, emstorage_set_field_of_accounts_with_integer_value, Update
<1>2. Accounts(d.account, users)
  BY SoundIs
<1>3. \A a \in d.account : /\ HasFields(f[a], AccountFields) /\ f[a].id = a.id /\ f[a].user = a.user
                           /\ f[a].kind = a.kind /\ f[a].slot \in Nat /\ f[a].sync \in Flags
  BY <1>2 DEF Accounts, Keyed, HasFields, AccountFields
<1> HIDE DEF f
<1> QED  BY <1>1, <1>3, UpdatedAccounts

LEMMA UpdateSync ==
  ASSUME NEW d, NEW users, Sound(d, users), NEW acc, NEW operator \in {"set", "union", "minus"}, NEW flags \in Flags,
         NEW e, e = emstorage_update_sync_status_of_account(d, acc, operator, flags)
  PROVE  Sound(e, users) /\ Steady(d, e) /\ e.box = d.box /\ e.mail = d.mail
<1> DEFINE was == emstorage_get_sync_status_of_account(d, acc)
           now == CASE operator = "set" -> flags
                    [] operator = "union" -> was \cup flags
                    [] operator = "minus" -> was \ flags
           f == [a \in d.account |-> IF acc \in {0, a.id} THEN [a EXCEPT !.sync = now] ELSE a]
<1>0. Accounts(d.account, users)
  BY SoundIs
<1>1. was \in Flags
  BY <1>0 DEF emstorage_get_sync_status_of_account, Flags, Accounts
<1>2. now \in Flags
  BY <1>1 DEF Flags
<1>3. e = [d EXCEPT !.account = {f[a] : a \in d.account}]
  BY DEF emstorage_update_sync_status_of_account, Update
<1> HIDE DEF now
<1>4. \A a \in d.account : /\ HasFields(f[a], AccountFields) /\ f[a].id = a.id /\ f[a].user = a.user
                           /\ f[a].kind = a.kind /\ f[a].slot \in Nat /\ f[a].sync \in Flags
  BY <1>0, <1>2 DEF Accounts, Keyed, HasFields, AccountFields
<1> HIDE DEF f
<1> QED  BY <1>3, <1>4, UpdatedAccounts

LEMMA AddMailboxRow ==
  ASSUME NEW d, NEW users, Sound(d, users), DefaultSlot \in Nat, NEW acc, NEW name, NEW type \in DOMAIN TypeOrder,
         NEW local \in BOOLEAN, NEW modifiable, NEW e, e = emstorage_add_mailbox(d, acc, name, type, local, modifiable)
  PROVE  Sound(e, users) /\ Steady(d, e) /\ e.account = d.account
<1> DEFINE row == [id |-> NextId(d.box), acc |-> acc, name |-> name, type |-> type, local |-> local,
                   modifiable |-> modifiable, slot |-> DefaultSlot, total |-> 0]
<1>1. CASE Taken(d, acc, local, name)
  BY <1>1, SteadySame DEF emstorage_add_mailbox
<1>2. CASE ~Taken(d, acc, local, name)
  <2>1. e = [d EXCEPT !.box = d.box \cup {row}]
    BY <1>2 DEF emstorage_add_mailbox
  <2>2. HasFields(row, BoxFields)
    BY DEF HasFields, BoxFields
  <2>3. row.id = NextId(d.box) /\ row.type \in DOMAIN TypeOrder /\ row.local \in BOOLEAN /\ row.slot \in Nat /\ row.total \in Nat
    OBVIOUS
  <2> HIDE DEF row
  <2>4. Boxed(d.box)
    BY SoundIs
  <2>5. Keyed(d.box \cup {row}, BoxFields)
    BY <2>2, <2>3, <2>4, AddedRow DEF Boxed
  <2>6. Boxed(d.box \cup {row})
    BY <2>3, <2>4, <2>5 DEF Boxed
  <2>7. /\ Sound(e, users) /\ Carries(d, e) /\ KeepsFiles(d, e, {})
        /\ e.account = d.account /\ e.box = d.box \cup {row} /\ e.mail = d.mail
    BY <2>1, <2>6, ChangedBoxes
  <2> QED  BY <2>7 DEF Steady, Staying, BoxesStay
<1> QED  BY <1>1, <1>2

\* The rows of mailboxes change in what is not their id and account.
LEMMA UpdatedBoxes ==
  ASSUME NEW d, NEW users, Sound(d, users), NEW f,
         \A b \in d.box : /\ HasFields(f[b], BoxFields) /\ f[b].id = b.id /\ f[b].acc = b.acc
                          /\ f[b].type \in DOMAIN TypeOrder /\ f[b].local \in BOOLEAN /\ f[b].slot \in Nat /\ f[b].total \in Nat,
         NEW e, e = [d EXCEPT !.box = {f[b] : b \in d.box}]
  PROVE  /\ Sound(e, users) /\ Carries(d, e) /\ KeepsFiles(d, e, {})
         /\ e.account = d.account /\ e.box = {f[b] : b \in d.box} /\ e.mail = d.mail /\ e.next = d.next
<1> DEFINE rows == {f[b] : b \in d.box}
<1>0. Boxed(d.box)
  BY SoundIs
<1>1. PICK n \in Nat : \A r \in d.box : r.id \in 1 .. n
  BY <1>0 DEF Boxed, Keyed
<1>2. \A r \in rows : r.id \in 1 .. n /\ HasFields(r, BoxFields)
  BY <1>1
<1>3. \A r, q \in rows : r.id = q.id => r = q
  BY <1>0 DEF Boxed, Keyed
<1>4. \A r \in rows : r.type \in DOMAIN TypeOrder /\ r.local \in BOOLEAN /\ r.slot \in Nat /\ r.total \in Nat
  OBVIOUS
<1>5. e = [d EXCEPT !.box = rows]
  OBVIOUS
<1>6. Boxed(rows)
  <2> HIDE DEF rows
  <2> QED  BY <1>2, <1>3, <1>4 DEF Boxed, Keyed
<1>7. e.box = rows
  BY <1>5, <1>6, SoundIs DEF IsDb, HasFields
<1> HIDE DEF rows
<1>8. Sound(e, users) /\ Carries(d, e) /\ KeepsFiles(d, e, {}) /\ e.account = d.account /\ e.mail = d.mail /\ e.next = d.next
  <2>1. \A c : c = [d EXCEPT !.box = rows] =>
              Sound(c, users) /\ Carries(d, c) /\ KeepsFiles(d, c, {}) /\ c.account = d.account /\ c.mail = d.mail /\ c.next = d.next
    BY <1>6, ChangedBoxes
  <2> QED  BY <1>5, <2>1
<1> QED  BY <1>7, <1>8 DEF rows

\* And, when they keep the name and type that their mails have, nothing is lost.
LEMMA RelabelledBoxes ==
  ASSUME NEW d, NEW users, Sound(d, users), NEW f,
         \A b \in d.box : /\ HasFields(f[b], BoxFields) /\ f[b].id = b.id /\ f[b].acc = b.acc
                          /\ f[b].name = b.name /\ f[b].type = b.type /\ f[b].local = b.local /\ f[b].slot \in Nat /\ f[b].total \in Nat,
         NEW e, e = [d EXCEPT !.box = {f[b] : b \in d.box}]
  PROVE  Sound(e, users) /\ Steady(d, e) /\ e.account = d.account /\ e.mail = d.mail
<1>0. Boxed(d.box)
  BY SoundIs
<1>1. \A b \in d.box : f[b].type \in DOMAIN TypeOrder /\ f[b].local \in BOOLEAN
  BY <1>0 DEF Boxed
<1>2. /\ Sound(e, users) /\ Carries(d, e) /\ KeepsFiles(d, e, {})
      /\ e.account = d.account /\ e.box = {f[b] : b \in d.box} /\ e.mail = d.mail
  BY <1>1, UpdatedBoxes
<1> QED  BY <1>2 DEF Steady, Staying, BoxesStay

LEMMA ModifiableBox ==
  ASSUME NEW d, NEW users, Sound(d, users), NEW acc, NEW name, NEW modifiable,
         NEW e, e = emstorage_update_mailbox_modifiable_yn(d, acc, name, modifiable)
                \/ e = emstorage_set_all_mailbox_modifiable_yn(d, acc, modifiable)
  PROVE  Sound(e, users) /\ Steady(d, e) /\ e.account = d.account /\ e.mail = d.mail
<1>0. Boxed(d.box)
  BY SoundIs
<1>1. CASE e = emstorage_update_mailbox_modifiable_yn(d, acc, name, modifiable)
  <2> DEFINE f == [b \in d.box |-> IF b.acc = acc /\ ~b.local /\ b.name = name
                                   THEN [b EXCEPT !.modifiable = modifiable] ELSE b]
  <2>1. e = [d EXCEPT !.box = {f[b] : b \in d.box}]
    BY <1>1 DEF emstorage_update_mailbox_modifiable_yn, Update
  <2>2. \A b \in d.box : /\ HasFields(f[b], BoxFields) /\ f[b].id = b.id /\ f[b].acc = b.acc
                         /\ f[b].name = b.name /\ f[b].type = b.type /\ f[b].local = b.local /\ f[b].slot \in Nat /\ f[b].total \in Nat
    BY <1>0 DEF Boxed, Keyed, HasFields, BoxFields
  <2> HIDE DEF f
  <2> QED  BY <2>1, <2>2, RelabelledBoxes
<1>2. CASE e = emstorage_set_all_mailbox_modifiable_yn(d, acc, modifiable)
  <2> DEFINE f == [b \in d.box |-> IF b.acc = acc THEN [b EXCEPT !.modifiable = modifiable] ELSE b]
  <2>1. e = [d EXCEPT !.box = {f[b] : b \in d.box}]
    BY <1>2 DEF emstorage_set_all_mailbox_modifiable_yn, Update
  <2>2. \A b \in d.box : /\ HasFields(f[b], BoxFields) /\ f[b].id = b.id /\ f[b].acc = b.acc
                         /\ f[b].name = b.name /\ f[b].type = b.type /\ f[b].local = b.local /\ f[b].slot \in Nat /\ f[b].total \in Nat
    BY <1>0 DEF Boxed, Keyed, HasFields, BoxFields
  <2> HIDE DEF f
  <2> QED  BY <2>1, <2>2, RelabelledBoxes
<1> QED  BY <1>1, <1>2

LEMMA CountBox ==
  ASSUME NEW d, NEW users, Sound(d, users), NEW acc, NEW box, NEW total \in Nat,
         NEW e, e = emstorage_update_mailbox_total_count(d, acc, box, total)
  PROVE  Sound(e, users) /\ Steady(d, e) /\ e.account = d.account /\ e.mail = d.mail
<1> DEFINE f == [b \in d.box |-> IF b.acc = acc /\ b.id = box THEN [b EXCEPT !.total = total] ELSE b]
<1>0. Boxed(d.box)
  BY SoundIs
<1>1. e = [d EXCEPT !.box = {f[b] : b \in d.box}]
  BY DEF emstorage_update_mailbox_total_count, Update
<1>2. \A b \in d.box : /\ HasFields(f[b], BoxFields) /\ f[b].id = b.id /\ f[b].acc = b.acc
                       /\ f[b].name = b.name /\ f[b].type = b.type /\ f[b].local = b.local /\ f[b].slot \in Nat /\ f[b].total \in Nat
  BY <1>0 DEF Boxed, Keyed, HasFields, BoxFields
<1> HIDE DEF f
<1> QED  BY <1>1, <1>2, RelabelledBoxes

LEMMA SlotBox ==
  ASSUME NEW d, NEW users, Sound(d, users), SlotUnit \in Nat, NEW acc, NEW box, NEW size \in Nat,
         NEW e, e = emstorage_set_mail_slot_size(d, acc, box, size)
  PROVE  Sound(e, users) /\ Steady(d, e) /\ e.account = d.account /\ e.mail = d.mail
<1> DEFINE Found(b) == acc = 0 \/ (IF box # 0 THEN b.id = box ELSE b.acc = acc)
           f == [b \in d.box |-> IF size > 0
                                 THEN IF Found(b) THEN [b EXCEPT !.slot = size] ELSE b
                                 ELSE IF Found(b) /\ b.total > b.slot THEN [b EXCEPT !.slot = b.slot + SlotUnit] ELSE b]
<1>0. Boxed(d.box)
  BY SoundIs
<1>1. e = [d EXCEPT !.box = {f[b] : b \in d.box}]
  <2>1. ASSUME size > 0 PROVE e = [d EXCEPT !.box = {f[b] : b \in d.box}]
    BY <2>1 DEF emstorage_set_mail_slot_size, Update
  <2>2. ASSUME size = 0 PROVE e = [d EXCEPT !.box = {f[b] : b \in d.box}]
    BY <2>2 DEF emstorage_set_mail_slot_size, Update
  <2>3. size > 0 \/ size = 0
    OBVIOUS
  <2> HIDE DEF f, Found
  <2> QED  BY <2>1, <2>2, <2>3
<1> HIDE DEF Found
<1>2. ASSUME NEW b \in d.box
      PROVE  /\ HasFields(f[b], BoxFields) /\ f[b].id = b.id /\ f[b].acc = b.acc
             /\ f[b].name = b.name /\ f[b].type = b.type /\ f[b].local = b.local /\ f[b].slot \in Nat /\ f[b].total \in Nat
  <2>1. HasFields(b, BoxFields) /\ b.slot \in Nat /\ b.total \in Nat
    BY <1>0 DEF Boxed, Keyed
  <2>2. \A n : HasFields([b EXCEPT !.slot = n], BoxFields)
    BY <2>1 DEF HasFields, BoxFields
  <2>3. b.slot + SlotUnit \in Nat
    BY <2>1
  <2>4. f[b] = b \/ f[b] = [b EXCEPT !.slot = size] \/ f[b] = [b EXCEPT !.slot = b.slot + SlotUnit]
    OBVIOUS
  <2> HIDE DEF f
  <2> QED  BY <2>1, <2>2, <2>3, <2>4 DEF HasFields, BoxFields
<1> HIDE DEF f
<1> QED  BY <1>1, <1>2, RelabelledBoxes

-----------------------------------------------------------------------------
(* one database after another *)

\* No mail is given an id that another has had; what is there was of the same account.
Descends(d, e) ==
    /\ d.next <= e.next
    /\ \A k \in e.mail : k.id < d.next => \E m \in d.mail : k.id = m.id /\ k.acc = m.acc
\* e may follow d: it is sound, its mails have their mailboxes if those of d had,
\* more apart, and a mail that stays keeps its files unless its account is wiped.
Leads(d, e, users, wiped, more) ==
    /\ Sound(e, users) /\ Descends(d, e) /\ KeepsFiles(d, e, wiped)
    /\ \A strays : Housed(d, strays) => Housed(e, strays \cup more)

LEMMA LeadsMore ==
  ASSUME NEW d, NEW e, NEW users, NEW wiped, NEW more, Leads(d, e, users, wiped, more),
         NEW also, wiped \subseteq also, NEW yet, more \subseteq yet
  PROVE  Leads(d, e, users, also, yet)
<1>1. KeepsFiles(d, e, also)
  BY DEF Leads, KeepsFiles
<1>2. ASSUME NEW strays, Housed(d, strays) PROVE Housed(e, strays \cup yet)
  <2>1. Housed(e, strays \cup more)
    BY <1>2 DEF Leads
  <2> QED  BY <2>1 DEF Housed
<1> QED  BY <1>1, <1>2 DEF Leads

LEMMA LeadsTwice ==
  ASSUME NEW c, NEW d, NEW e, NEW users, NEW wiped, NEW more, Sound(c, users),
         Leads(c, d, users, wiped, more), Leads(d, e, users, wiped, more)
  PROVE  Leads(c, e, users, wiped, more)
<1>1. /\ c.next \in Nat /\ d.next \in Nat /\ e.next \in Nat /\ \A k, m \in c.mail : k.id = m.id => k = m
      /\ (\A m \in c.mail : m.id \in Nat /\ m.id < c.next) /\ (\A m \in d.mail : m.id \in Nat) /\ \A m \in e.mail : m.id \in Nat
  <2>1. Mailed(c.mail, c.next) /\ Mailed(d.mail, d.next) /\ Mailed(e.mail, e.next)
    BY SoundIs DEF Leads
  <2> QED  BY <2>1 DEF Mailed
<1>2. Descends(c, d) /\ Descends(d, e)
  BY DEF Leads
<1>3. Descends(c, e)
  <2>1. c.next <= e.next
    BY <1>1, <1>2 DEF Descends
  <2>2. ASSUME NEW k \in e.mail, k.id < c.next PROVE \E m \in c.mail : k.id = m.id /\ k.acc = m.acc
    <3>1. k.id < d.next
      BY <1>1, <1>2, <2>2 DEF Descends
    <3>2. PICK l \in d.mail : k.id = l.id /\ k.acc = l.acc
      BY <1>2, <3>1 DEF Descends
    <3> QED  BY <1>2, <2>2, <3>2 DEF Descends
  <2> QED  BY <2>1, <2>2 DEF Descends
<1>4. KeepsFiles(c, e, wiped)
  <2> SUFFICES ASSUME NEW m \in c.mail, m.acc \notin wiped, NEW k \in e.mail, k.id = m.id
               PROVE  /\ \A f \in c.dir : f.mail = m.id => f \in e.dir
                      /\ \A a \in c.meet : a.mail = m.id => \E b \in e.meet : b.mail = m.id
    BY DEF KeepsFiles
  <2>1. k.id < d.next /\ k.id < c.next
    BY <1>1, <1>2 DEF Descends
  <2>2. PICK l \in d.mail : k.id = l.id
    BY <1>2, <2>1 DEF Descends
  <2>3. l.acc = m.acc
    BY <1>1, <1>2, <2>1, <2>2 DEF Descends
  <2>4. /\ \A f \in c.dir : f.mail = m.id => f \in d.dir
        /\ \A a \in c.meet : a.mail = m.id => \E b \in d.meet : b.mail = m.id
    BY <2>2, <2>3 DEF Leads, KeepsFiles
  <2>5. /\ \A f \in d.dir : f.mail = m.id => f \in e.dir
        /\ \A a \in d.meet : a.mail = m.id => \E b \in e.meet : b.mail = m.id
    BY <2>2, <2>3 DEF Leads, KeepsFiles
  <2> QED  BY <2>4, <2>5
<1>5. ASSUME NEW strays, Housed(c, strays) PROVE Housed(e, strays \cup more)
  <2>1. Housed(d, strays \cup more)
    BY <1>5 DEF Leads
  <2>2. Housed(e, (strays \cup more) \cup more)
    BY <2>1 DEF Leads
  <2>3. (strays \cup more) \cup more = strays \cup more
    OBVIOUS
  <2> QED  BY <2>2, <2>3
<1> QED  BY <1>3, <1>4, <1>5 DEF Leads

LEMMA CarriesDescends ==
  ASSUME NEW d, NEW e, NEW users, Sound(d, users), Carries(d, e)
  PROVE  Descends(d, e)
<1>1. d.next \in Nat
  BY SoundIs DEF Mailed
<1> QED  BY <1>1 DEF Carries, Descends

LEMMA StayingLeads ==
  ASSUME NEW d, NEW e, NEW users, Sound(d, users), Sound(e, users), Staying(d, e)
  PROVE  Leads(d, e, users, {}, {})
<1>1. Descends(d, e) /\ KeepsFiles(d, e, {})
  BY CarriesDescends DEF Staying
<1>2. ASSUME NEW strays, Housed(d, strays) PROVE Housed(e, strays \cup {})
  <2>1. Housed(e, strays)
    BY <1>2, SteadyIsHoused DEF Staying
  <2>2. strays \cup {} = strays
    OBVIOUS
  <2> QED  BY <2>1, <2>2
<1> QED  BY <1>1, <1>2 DEF Leads

LEMMA SteadyLeads ==
  ASSUME NEW d, NEW e, NEW users, Sound(d, users), Sound(e, users), Steady(d, e)
  PROVE  Leads(d, e, users, {}, {})
BY StayingLeads DEF Steady

LEMMA LeadsSame ==
  ASSUME NEW d, NEW users, Sound(d, users)
  PROVE  Leads(d, d, users, {}, {})
BY SteadySame, SteadyLeads

LEMMA ThinnedLeads ==
  ASSUME NEW d, NEW e, NEW gone, NEW wiped, NEW users, Sound(d, users), Thinned(d, e, gone, wiped)
  PROVE  Leads(d, e, users, wiped, {}) /\ e.account = d.account /\ e.box = d.box
<1>1. Sound(e, users) /\ Carries(d, e) /\ BoxesStay(d, e) /\ KeepsFiles(d, e, wiped)
  BY ThinnedIsSound
<1>2. Descends(d, e)
  BY <1>1, CarriesDescends
<1>3. ASSUME NEW strays, Housed(d, strays) PROVE Housed(e, strays \cup {})
  <2>1. Housed(e, strays)
    BY <1>1, <1>3, SteadyIsHoused
  <2>2. strays \cup {} = strays
    OBVIOUS
  <2> QED  BY <2>1, <2>2
<1> QED  BY <1>1, <1>2, <1>3 DEF Leads, Thinned

-----------------------------------------------------------------------------
(* the functions that change mails *)

\* The rows of mails change in what is not their id, account and message.
LEMMA UpdatedMails ==
  ASSUME NEW d, NEW users, Sound(d, users), NEW f,
         \A m \in d.mail : /\ HasFields(f[m], MailFields) /\ f[m].id = m.id /\ f[m].acc = m.acc
                           /\ f[m].msg = m.msg /\ f[m].items \in Nat,
         NEW e, e = [d EXCEPT !.mail = {f[m] : m \in d.mail}]
  PROVE  /\ Sound(e, users) /\ BoxesStay(d, e) /\ KeepsFiles(d, e, {})
         /\ e.account = d.account /\ e.box = d.box /\ e.mail = {f[m] : m \in d.mail} /\ e.next = d.next
<1> DEFINE rows == {f[m] : m \in d.mail}
<1>0. Mailed(d.mail, d.next)
  BY SoundIs
<1>1. \A k \in rows : \E m \in d.mail : k = f[m] /\ k.id = m.id /\ k.acc = m.acc
  OBVIOUS
<1>2. \A k \in rows : HasFields(k, MailFields) /\ k.items \in Nat
  OBVIOUS
<1>3. \A k \in rows : k.id \in 1 .. (d.next - 1) /\ k.msg \in Nat
  BY <1>0 DEF Mailed
<1>4. \A k, l \in rows : k.id = l.id => k = l
  BY <1>0 DEF Mailed
<1>5. e = [d EXCEPT !.mail = rows]
  OBVIOUS
<1>6. e.mail = rows
  BY <1>5, SoundIs DEF IsDb, HasFields
<1> HIDE DEF rows
<1>7. Mailed(rows, d.next) /\ Counted(rows)
  BY <1>0, <1>2, <1>3, <1>4 DEF Mailed, Counted
<1>8. \A k \in rows : \E m \in d.mail : k.id = m.id /\ k.acc = m.acc
  BY <1>1
<1>9. \A c : c = [d EXCEPT !.mail = rows] =>
         Sound(c, users) /\ BoxesStay(d, c) /\ KeepsFiles(d, c, {}) /\ c.account = d.account /\ c.box = d.box /\ c.next = d.next
  BY <1>7, <1>8, ChangedMails
<1> QED  BY <1>5, <1>6, <1>9 DEF rows

\* When they keep their mailbox, its name and type, nothing is lost.
LEMMA LabelledMails ==
  ASSUME NEW d, NEW users, Sound(d, users), NEW f,
         \A m \in d.mail : /\ HasFields(f[m], MailFields) /\ f[m].id = m.id /\ f[m].acc = m.acc
                           /\ f[m].msg = m.msg /\ f[m].items \in Nat
                           /\ f[m].box = m.box /\ f[m].name = m.name /\ f[m].type = m.type,
         NEW e, e = [d EXCEPT !.mail = {f[m] : m \in d.mail}]
  PROVE  /\ Sound(e, users) /\ Staying(d, e) /\ e.account = d.account /\ e.box = d.box
         /\ e.mail = {f[m] : m \in d.mail} /\ e.next = d.next
<1>1. /\ Sound(e, users) /\ BoxesStay(d, e) /\ KeepsFiles(d, e, {})
      /\ e.account = d.account /\ e.box = d.box /\ e.mail = {f[m] : m \in d.mail} /\ e.next = d.next
  BY UpdatedMails
<1>2. Carries(d, e)
  BY <1>1 DEF Carries
<1> QED  BY <1>1, <1>2 DEF Staying

\* And when they keep their thread and count, no thread is changed.
LEMMA FlaggedMails ==
  ASSUME NEW d, NEW users, Sound(d, users), NEW f,
         \A m \in d.mail : /\ HasFields(f[m], MailFields) /\ Knot(f[m]) = Knot(m)
                           /\ f[m].box = m.box /\ f[m].name = m.name,
         NEW e, e = [d EXCEPT !.mail = {f[m] : m \in d.mail}]
  PROVE  Sound(e, users) /\ Steady(d, e) /\ e.account = d.account /\ e.box = d.box /\ e.next = d.next
<1>0. Mailed(d.mail, d.next) /\ Counted(d.mail)
  BY SoundIs
<1>1. ASSUME NEW m \in d.mail
      PROVE  /\ HasFields(f[m], MailFields) /\ f[m].id = m.id /\ f[m].acc = m.acc
             /\ f[m].msg = m.msg /\ f[m].items \in Nat
             /\ f[m].box = m.box /\ f[m].name = m.name /\ f[m].type = m.type
  <2>1. m.items \in Nat /\ Knot(f[m]) = Knot(m)
    BY <1>0 DEF Counted
  <2> QED  BY <2>1 DEF Knot
<1>2. /\ Sound(e, users) /\ Staying(d, e) /\ e.account = d.account /\ e.box = d.box
      /\ e.mail = {f[m] : m \in d.mail} /\ e.next = d.next
  BY <1>1, LabelledMails
<1>3. Knots(e.mail) = Knots(d.mail)
  BY <1>2 DEF Knots
<1> QED  BY <1>2, <1>3 DEF Steady

Flagging == {"seen", "deleted", "body", "suid"}

LEMMA FieldOfMails ==
  ASSUME NEW d, NEW users, Sound(d, users), NEW field \in Flagging, NEW f,
         \A m \in d.mail : HasFields(f[m], MailFields) /\ \A x \in MailFields \ {field} : f[m][x] = m[x],
         NEW e, e = [d EXCEPT !.mail = {f[m] : m \in d.mail}]
  PROVE  Sound(e, users) /\ Steady(d, e) /\ e.account = d.account /\ e.box = d.box /\ e.next = d.next
<1>0. Mailed(d.mail, d.next) /\ Counted(d.mail)
  BY SoundIs
<1>1. ASSUME NEW m \in d.mail
      PROVE  /\ HasFields(f[m], MailFields) /\ Knot(f[m]) = Knot(m)
             /\ f[m].box = m.box /\ f[m].name = m.name
  BY DEF MailFields, Flagging, Knot
<1> QED  BY <1>1, FlaggedMails

LEMMA ChangeField ==
  ASSUME NEW d, NEW users, Sound(d, users), NEW id, NEW field \in Flagging, NEW value,
         NEW e, e = emstorage_change_mail_field(d, id, field, value)
  PROVE  Sound(e, users) /\ Steady(d, e) /\ e.account = d.account /\ e.box = d.box /\ e.next = d.next
<1> DEFINE f == [m \in d.mail |-> IF m.id = id THEN [m EXCEPT ![field] = value] ELSE m]
<1>1. e = [d EXCEPT !.mail = {f[m] : m \in d.mail}]
  BY DEF emstorage_change_mail_field, Update
<1>0. Mailed(d.mail, d.next)
  BY SoundIs
<1>2. \A m \in d.mail : HasFields(f[m], MailFields) /\ \A x \in MailFields \ {field} : f[m][x] = m[x]
  BY <1>0 DEF Mailed, HasFields
<1> HIDE DEF f
<1> QED  BY <1>1, <1>2, FieldOfMails

LEMMA SetField ==
  ASSUME NEW d, NEW users, Sound(d, users), NEW acc, NEW ids, NEW field \in Flagging, NEW value,
         NEW e, e = emstorage_set_field_of_mails_with_integer_value(d, acc, ids, field, value)
  PROVE  Sound(e, users) /\ Steady(d, e) /\ e.account = d.account /\ e.box = d.box /\ e.next = d.next
<1> DEFINE f == [m \in d.mail |-> IF m.id \in ids /\ m.acc = acc THEN [m EXCEPT ![field] = value] ELSE m]
<1>1. e = [d EXCEPT !.mail = {f[m] : m \in d.mail}]
  BY DEF emstorage_set_field_of_mails_with_integer_value, Update
<1>0. Mailed(d.mail, d.next)
  BY SoundIs
<1>2. \A m \in d.mail : HasFields(f[m], MailFields) /\ \A x \in MailFields \ {field} : f[m][x] = m[x]
  BY <1>0 DEF Mailed, HasFields
<1> HIDE DEF f
<1> QED  BY <1>1, <1>2, FieldOfMails

LEMMA UpdateServerUid ==
  ASSUME NEW d, NEW users, Sound(d, users), NEW old, NEW new,
         NEW e, e = emstorage_update_server_uid(d, old, new)
  PROVE  Sound(e, users) /\ Steady(d, e) /\ e.account = d.account /\ e.box = d.box /\ e.next = d.next
<1> DEFINE f == [m \in d.mail |-> IF m.suid = old THEN [m EXCEPT !.suid = new] ELSE m]
<1>1. e = [d EXCEPT !.mail = {f[m] : m \in d.mail}]
  BY DEF emstorage_update_server_uid, Update
<1>0. Mailed(d.mail, d.next)
  BY SoundIs
<1>2. \A m \in d.mail : HasFields(f[m], MailFields) /\ \A x \in MailFields \ {"suid"} : f[m][x] = m[x]
  BY <1>0 DEF Mailed, HasFields
<1> HIDE DEF f
<1>3. "suid" \in Flagging
  BY DEF Flagging
<1> QED  BY <1>1, <1>2, <1>3, FieldOfMails

LEMMA UpdateHeads ==
  ASSUME NEW d, NEW users, Sound(d, users), NEW acc, NEW heads,
         NEW e, e = emstorage_update_latest_thread_mail(d, acc, heads)
  PROVE  Sound(e, users) /\ Staying(d, e) /\ e.account = d.account /\ e.box = d.box /\ e.next = d.next
<1> DEFINE f == [m \in d.mail |-> [m EXCEPT !.items = ThreadItems(d, acc, heads, m)]]
<1>0. IsDb(d) /\ Mailed(d.mail, d.next) /\ Counted(d.mail)
  BY SoundIs
<1>1. e = [d EXCEPT !.mail = {f[m] : m \in d.mail}]
  BY DEF emstorage_update_latest_thread_mail
<1>2. ASSUME NEW m \in d.mail
      PROVE  /\ HasFields(f[m], MailFields) /\ f[m].id = m.id /\ f[m].acc = m.acc
             /\ f[m].msg = m.msg /\ f[m].items \in Nat
             /\ f[m].box = m.box /\ f[m].name = m.name /\ f[m].type = m.type
  <2>1. ThreadItems(d, acc, heads, m) \in Nat
    BY <1>0, MailsAreFinite, HeadsAreCounted DEF Counted
  <2>2. HasFields(m, MailFields)
    BY <1>0 DEF Mailed
  <2> QED  BY <2>1, <2>2 DEF HasFields, MailFields
<1> HIDE DEF f
<1>3. \A c : c = [d EXCEPT !.mail = {f[m] : m \in d.mail}] =>
         Sound(c, users) /\ Staying(d, c) /\ c.account = d.account /\ c.box = d.box /\ c.next = d.next
  BY <1>2, LabelledMails
<1> QED  BY <1>1, <1>3

LEMMA UpdatedUids ==
  ASSUME NEW rows, Uids(rows), NEW f, \A u \in rows : HasFields(f[u], UidFields)
  PROVE  Uids({f[u] : u \in rows})
<1> DEFINE set == {f[u] : u \in rows}
           g == [u \in rows |-> f[u]]
<1>1. g \in Surjection(rows, set)
  BY DEF Surjection
<1> HIDE DEF g
<1>2. \A u \in set : HasFields(u, UidFields)
  OBVIOUS
<1> HIDE DEF set
<1>3. IsFiniteSet(set)
  BY <1>1, FS_Surjection DEF Uids
<1> QED  BY <1>2, <1>3 DEF Uids, set

LEMMA UpdatedAttachments ==
  ASSUME NEW rows, Keyed(rows, AttFields), NEW f,
         \A a \in rows : HasFields(f[a], AttFields) /\ f[a].id = a.id
  PROVE  Keyed({f[a] : a \in rows}, AttFields)
<1> DEFINE set == {f[a] : a \in rows}
<1>1. PICK n \in Nat : \A a \in rows : a.id \in 1 .. n
  BY DEF Keyed
<1>2. \A a \in set : a.id \in 1 .. n /\ HasFields(a, AttFields)
  BY <1>1
<1>3. \A a, b \in set : a.id = b.id => a = b
  BY DEF Keyed
<1> HIDE DEF set
<1> QED  BY <1>2, <1>3 DEF Keyed, set

\* The mails of a move that are not of the target's account.
Foreign(d, target, ids) == {m.id : m \in {m \in d.mail : m.id \in ids /\ m.acc # target.acc}}

LEMMA MoveLeads ==
  ASSUME NEW d, NEW users, Sound(d, users), NEW target \in d.box, NEW ids,
         NEW e, e = emstorage_move_multiple_mails(d, target, ids)
  PROVE  /\ Leads(d, e, users, {}, Foreign(d, target, ids))
         /\ e.account = d.account /\ e.box = d.box /\ e.next = d.next
<1> DEFINE fm == [m \in d.mail |-> IF m.id \in ids
                                   THEN [m EXCEPT !.name = target.name, !.type = target.type, !.box = target.id] ELSE m]
           fa == [a \in d.att |-> IF a.mail \in ids THEN [a EXCEPT !.box = target.id] ELSE a]
           ft == [t \in d.meet |-> IF t.mail \in ids THEN [t EXCEPT !.box = target.id] ELSE t]
           fu == [u \in d.uid |-> IF u.luid \in ids THEN [u EXCEPT !.name = target.name, !.box = target.id] ELSE u]
           mail == {fm[m] : m \in d.mail}
           att == {fa[a] : a \in d.att}
           meet == {ft[t] : t \in d.meet}
           uid == {fu[u] : u \in d.uid}
<1>1. e = [d EXCEPT !.mail = mail, !.att = att, !.meet = meet, !.uid = uid]
  BY DEF emstorage_move_multiple_mails, Update
<1>2. /\ IsDb(d) /\ Mailed(d.mail, d.next) /\ Counted(d.mail) /\ Keyed(d.att, AttFields) /\ Uids(d.uid)
      /\ Meetings(d.meet) /\ OfAccounts(d.meet, d.mail, d.next) /\ OfAccounts(d.dir, d.mail, d.next)
  BY SoundIs
<1>3. ASSUME NEW m \in d.mail
      PROVE  /\ HasFields(fm[m], MailFields)
             /\ fm[m].id = m.id /\ fm[m].acc = m.acc /\ fm[m].msg = m.msg /\ fm[m].items = m.items
             /\ IF m.id \in ids THEN fm[m].name = target.name /\ fm[m].type = target.type /\ fm[m].box = target.id
                ELSE fm[m] = m
  BY <1>2 DEF Mailed, HasFields, MailFields
<1>4. \A a \in d.att : HasFields(fa[a], AttFields) /\ fa[a].id = a.id
  BY <1>2 DEF Keyed, HasFields, AttFields
<1>5. \A t \in d.meet : HasFields(ft[t], {"mail", "acc", "box"}) /\ ft[t].mail = t.mail /\ ft[t].acc = t.acc
  BY <1>2 DEF Meetings, HasFields
<1>6. \A u \in d.uid : HasFields(fu[u], UidFields)
  BY <1>2 DEF Uids, HasFields, UidFields
<1> HIDE DEF fm, fa, ft, fu
<1>7. Keyed(att, AttFields) /\ Uids(uid)
  BY <1>2, <1>4, <1>6, UpdatedAttachments, UpdatedUids
<1>8. Meetings(meet) /\ OfAccounts(meet, d.mail, d.next) /\ \A a \in d.meet : \E b \in meet : b.mail = a.mail
  BY <1>2, <1>5 DEF Meetings, OfAccounts
<1>9. /\ \A k \in mail : HasFields(k, MailFields) /\ k.items \in Nat /\ k.msg \in Nat /\ k.id \in 1 .. (d.next - 1)
      /\ \A k, l \in mail : k.id = l.id => k = l
      /\ \A k \in mail : \E m \in d.mail : k = fm[m] /\ k.id = m.id /\ k.acc = m.acc
  BY <1>2, <1>3 DEF Mailed, Counted
<1> HIDE DEF mail, att, meet, uid
<1>10. /\ IsDb(e) /\ e.mail = mail /\ e.att = att /\ e.meet = meet /\ e.uid = uid
       /\ e.account = d.account /\ e.box = d.box /\ e.rule = d.rule /\ e.dir = d.dir /\ e.next = d.next
  BY <1>1, <1>2 DEF IsDb, HasFields
<1>11. Mailed(mail, d.next) /\ Counted(mail)
  BY <1>2, <1>9 DEF Mailed, Counted
<1>12. OfAccounts(meet, mail, d.next) /\ OfAccounts(d.dir, mail, d.next)
  BY <1>2, <1>8, <1>9 DEF OfAccounts
<1>13. Sound(e, users)
  BY <1>7, <1>8, <1>10, <1>11, <1>12, SoundIs
<1>14. Descends(d, e)
  BY <1>2, <1>9, <1>10 DEF Descends, Mailed
<1>15. KeepsFiles(d, e, {})
  BY <1>8, <1>10 DEF KeepsFiles
<1>16. ASSUME NEW strays, Housed(d, strays) PROVE Housed(e, strays \cup Foreign(d, target, ids))
  <2> SUFFICES ASSUME NEW k \in e.mail, k.id \notin strays, k.id \notin Foreign(d, target, ids)
               PROVE  \E b \in d.box : b.id = k.box /\ b.acc = k.acc /\ b.name = k.name /\ b.type = k.type
    BY <1>10 DEF Housed
  <2>1. PICK m \in d.mail : k = fm[m] /\ k.id = m.id /\ k.acc = m.acc
    BY <1>9, <1>10
  <2>2. CASE m.id \in ids
    <3>1. m.acc = target.acc
      BY <2>1, <2>2 DEF Foreign
    <3> QED  BY <1>3, <2>1, <2>2, <3>1
  <2>3. CASE m.id \notin ids
    BY <1>3, <1>16, <2>1, <2>3 DEF Housed
  <2> QED  BY <2>2, <2>3
<1> QED  BY <1>10, <1>13, <1>14, <1>15, <1>16 DEF Leads

LEMMA MoveMailLeads ==
  ASSUME NEW d, NEW users, Sound(d, users), NEW target \in d.box, NEW ids,
         NEW e, e = emcore_move_mail(d, ids, target)
  PROVE  Leads(d, e, users, {}, Foreign(d, target, ids))
<1> DEFINE records == {m \in d.mail : m.id \in ids}
           moved == emstorage_move_multiple_mails(d, target, ids)
           acc == The(FirstOf(records)).acc
           heads == {m.thread : m \in records}
<1>1. Leads(d, moved, users, {}, Foreign(d, target, ids))
  BY MoveLeads
<1>2. e = moved \/ e = emstorage_update_latest_thread_mail(moved, acc, heads)
  BY DEF emcore_move_mail
<1> HIDE DEF moved, acc, heads
<1>3. Sound(moved, users)
  BY <1>1 DEF Leads
<1>4. CASE e = emstorage_update_latest_thread_mail(moved, acc, heads)
  <2>1. Sound(e, users) /\ Staying(moved, e)
    BY <1>3, <1>4, UpdateHeads
  <2>2. Leads(moved, e, users, {}, {})
    BY <1>3, <2>1, StayingLeads
  <2>3. Leads(moved, e, users, {}, Foreign(d, target, ids))
    BY <2>2, LeadsMore
  <2> QED  BY <1>1, <2>3, LeadsTwice
<1> QED  BY <1>1, <1>2, <1>4

LEMMA FilterLeads ==
  ASSUME NEW d, NEW users, Sound(d, users), NEW acc, NEW box, NEW rule,
         NEW e, e = emstorage_filter_mails_by_rule(d, acc, box, rule)
  PROVE  Leads(d, e, users, {}, Nat) /\ e.account = d.account /\ e.box = d.box
<1> DEFINE Hit(m) == /\ m.acc = acc /\ m.type \notin {"trash", "spam"}
                     /\ RuleHits(rule, m.msg)
           f == [m \in d.mail |-> IF Hit(m) THEN [m EXCEPT !.box = box, !.type = "spam"] ELSE m]
<1>0. Mailed(d.mail, d.next) /\ Counted(d.mail)
  BY SoundIs
<1>1. e = [d EXCEPT !.mail = {f[m] : m \in d.mail}]
  BY DEF emstorage_filter_mails_by_rule, Update
<1> HIDE DEF Hit
<1>2. ASSUME NEW m \in d.mail
      PROVE  /\ HasFields(f[m], MailFields) /\ f[m].id = m.id /\ f[m].acc = m.acc
             /\ f[m].msg = m.msg /\ f[m].items \in Nat
  BY <1>0 DEF Mailed, Counted, HasFields, MailFields
<1> HIDE DEF f
<1>3. /\ Sound(e, users) /\ BoxesStay(d, e) /\ KeepsFiles(d, e, {})
      /\ e.account = d.account /\ e.box = d.box /\ e.mail = {f[m] : m \in d.mail} /\ e.next = d.next
  BY <1>1, <1>2, UpdatedMails
<1>4. Descends(d, e)
  BY <1>0, <1>2, <1>3 DEF Descends, Mailed
<1>5. \A strays : Housed(e, strays \cup Nat)
  BY <1>0, <1>2, <1>3 DEF Housed, Mailed
<1> QED  BY <1>3, <1>4, <1>5 DEF Leads

FilterKeep(p, e) == Leads(p[1], e, p[2], {}, Nat) /\ e.box = p[1].box
Filters == INSTANCE IterateProofs WITH Step <- FilterAccount, Keep <- FilterKeep

\* Of the mails that a rule files only their mailbox is in doubt.
LEMMA FilteringLeads ==
  ASSUME NEW d, NEW users, Sound(d, users), NEW rule, NEW e, e = emcore_mail_filter_by_rule(d, rule)
  PROVE  Leads(d, e, users, {}, {m.id : m \in e.mail \ d.mail})
<1> DEFINE p == <<d, users>>
           seq == emstorage_get_account_list(d)
<1>1. p[1] = d /\ p[2] = users
  OBVIOUS
<1>2. Len(seq) \in Nat
  <2>1. Keyed(d.account, AccountFields)
    BY SoundIs DEF Accounts
  <2>2. IsFiniteSet(d.account) /\ (\A r \in d.account : r.id \in Nat) /\ \A r, q \in d.account : r.id = q.id => r = q
    BY <2>1, TableIsKeyed DEF Table, Keyed
  <2> QED  BY <2>2, ByIdLists DEF emstorage_get_account_list
<1>0. e = Filtering!Over(rule, d, seq)
  BY DEF emcore_mail_filter_by_rule
<1> HIDE DEF p, seq
<1>3. FilterKeep(p, d)
  <2>1. Leads(d, d, users, {}, {})
    BY LeadsSame
  <2>2. Leads(d, d, users, {}, Nat)
    BY <2>1, LeadsMore
  <2> QED  BY <1>1, <2>2 DEF FilterKeep
<1>4. ASSUME NEW i \in 1 .. Len(seq), NEW c, FilterKeep(p, c) PROVE FilterKeep(p, FilterAccount(rule, c, seq[i]))
  <2> DEFINE spam == emstorage_get_mailbox_by_mailbox_type(c, seq[i].id, "spam")
             next == emstorage_filter_mails_by_rule(c, seq[i].id, The(spam).id, rule)
  <2>1. FilterAccount(rule, c, seq[i]) = c \/ FilterAccount(rule, c, seq[i]) = next
    BY DEF FilterAccount
  <2>2. Leads(d, c, users, {}, Nat) /\ c.box = d.box /\ Sound(c, users)
    BY <1>1, <1>4 DEF FilterKeep, Leads
  <2>3. Leads(c, next, users, {}, Nat) /\ next.box = c.box
    BY <2>2, FilterLeads
  <2> HIDE DEF next
  <2>4. Leads(d, next, users, {}, Nat)
    BY <2>2, <2>3, LeadsTwice
  <2> QED  BY <1>1, <1>4, <2>1, <2>2, <2>3, <2>4 DEF FilterKeep
<1>5. FilterKeep(p, Filters!Over(rule, d, seq))
  BY <1>2, <1>3, <1>4, Filters!Kept
<1>6. Filtering!Over(rule, d, seq) = Filters!Over(rule, d, seq)
  BY DEF Filtering!Over, Filters!Over
<1>7. Leads(d, e, users, {}, Nat) /\ e.box = d.box
  BY <1>0, <1>1, <1>5, <1>6 DEF FilterKeep
<1>8. ASSUME NEW strays, Housed(d, strays) PROVE Housed(e, strays \cup {m.id : m \in e.mail \ d.mail})
  BY <1>7, <1>8 DEF Housed
<1> QED  BY <1>7, <1>8 DEF Leads

-----------------------------------------------------------------------------
(* the functions that change mailboxes and their mails together *)

LEMMA BoxedAgain ==
  ASSUME NEW rows, Boxed(rows), NEW f,
         \A b \in rows : /\ HasFields(f[b], BoxFields) /\ f[b].id = b.id /\ f[b].type \in DOMAIN TypeOrder
                         /\ f[b].local \in BOOLEAN /\ f[b].slot \in Nat /\ f[b].total \in Nat
  PROVE  Boxed({f[b] : b \in rows})
<1> DEFINE set == {f[b] : b \in rows}
<1>1. PICK n \in Nat : \A b \in rows : b.id \in 1 .. n
  BY DEF Boxed, Keyed
<1>2. \A b \in set : b.id \in 1 .. n /\ HasFields(b, BoxFields)
  BY <1>1
<1>3. \A a, b \in set : a.id = b.id => a = b
  BY DEF Boxed, Keyed
<1>4. \A b \in set : b.type \in DOMAIN TypeOrder /\ b.local \in BOOLEAN /\ b.slot \in Nat /\ b.total \in Nat
  OBVIOUS
<1> HIDE DEF set
<1>5. Boxed(set)
  BY <1>2, <1>3, <1>4 DEF Boxed, Keyed
<1> QED  BY <1>5 DEF set

LEMMA MailedAgain ==
  ASSUME NEW rows, NEW next, Mailed(rows, next), NEW g,
         \A m \in rows : HasFields(g[m], MailFields) /\ g[m].id = m.id /\ g[m].msg = m.msg /\ g[m].items \in Nat
  PROVE  Mailed({g[m] : m \in rows}, next) /\ Counted({g[m] : m \in rows})
<1> DEFINE set == {g[m] : m \in rows}
<1>1. \A k \in set : k.id \in 1 .. (next - 1) /\ HasFields(k, MailFields) /\ k.msg \in Nat /\ k.items \in Nat
  BY DEF Mailed
<1>2. \A k, l \in set : k.id = l.id => k = l
  BY DEF Mailed
<1>3. next \in Nat \ {0}
  BY DEF Mailed
<1> HIDE DEF set
<1>4. Mailed(set, next) /\ Counted(set)
  BY <1>1, <1>2, <1>3 DEF Mailed, Counted
<1> QED  BY <1>4 DEF set

\* b is the mailbox that the mail m says.
Houses(b, m) == b.id = m.box /\ b.acc = m.acc /\ b.name = m.name /\ b.type = m.type

\* Rows of mailboxes and of mails change together.
LEMMA LabelledBoth ==
  ASSUME NEW d, NEW users, Sound(d, users),
         NEW e, IsDb(e), e.account = d.account, e.uid = d.uid, e.att = d.att, e.meet = d.meet, e.rule = d.rule,
         e.dir = d.dir, e.next = d.next, Boxed(e.box), Mailed(e.mail, e.next), Counted(e.mail),
         \A k \in e.mail : \E m \in d.mail : /\ k.id = m.id /\ k.acc = m.acc
                                            /\ \A b \in d.box : Houses(b, m) => \E c \in e.box : Houses(c, k)
  PROVE  Leads(d, e, users, {}, {})
<1>1. OfAccounts(e.dir, e.mail, e.next) /\ OfAccounts(e.meet, e.mail, e.next)
  BY SoundIs DEF OfAccounts
<1>2. Sound(e, users)
  BY <1>1, SoundIs
<1>3. Descends(d, e)
  BY SoundIs DEF Descends, Mailed
<1>4. KeepsFiles(d, e, {})
  BY DEF KeepsFiles
<1>5. ASSUME NEW strays, Housed(d, strays) PROVE Housed(e, strays \cup {})
  <2> SUFFICES ASSUME NEW k \in e.mail, k.id \notin strays PROVE \E c \in e.box : Houses(c, k)
    BY DEF Housed, Houses
  <2>1. PICK m \in d.mail : k.id = m.id /\ \A b \in d.box : Houses(b, m) => \E c \in e.box : Houses(c, k)
    OBVIOUS
  <2>2. \E b \in d.box : Houses(b, m)
    BY <1>5, <2>1 DEF Housed, Houses
  <2> QED  BY <2>1, <2>2
<1> QED  BY <1>2, <1>3, <1>4, <1>5 DEF Leads

LEMMA TypeLeads ==
  ASSUME NEW d, NEW users, Sound(d, users), NEW acc, NEW name, NEW type \in DOMAIN TypeOrder,
         NEW e, e = emstorage_update_mailbox_type(d, acc, Both, name, type)
  PROVE  Leads(d, e, users, {}, {})
<1> DEFINE f == [b \in d.box |-> IF b.acc = acc /\ b.local \in Both /\ b.name = name THEN [b EXCEPT !.type = type] ELSE b]
           g == [m \in d.mail |-> IF m.acc = acc /\ m.name = name THEN [m EXCEPT !.type = type] ELSE m]
<1>0. Boxed(d.box) /\ Mailed(d.mail, d.next) /\ Counted(d.mail)
  BY SoundIs
<1>1. e = [d EXCEPT !.box = {f[b] : b \in d.box}, !.mail = {g[m] : m \in d.mail}]
  BY DEF emstorage_update_mailbox_type, Update
<1>2. ASSUME NEW b \in d.box
      PROVE  /\ HasFields(f[b], BoxFields) /\ f[b].id = b.id /\ f[b].acc = b.acc /\ f[b].type \in DOMAIN TypeOrder
             /\ f[b].local \in BOOLEAN /\ f[b].slot \in Nat /\ f[b].total \in Nat
             /\ f[b].name = b.name /\ f[b].type = (IF b.acc = acc /\ b.name = name THEN type ELSE b.type)
  <2>1. /\ HasFields(b, BoxFields) /\ b.type \in DOMAIN TypeOrder /\ b.local \in BOOLEAN /\ b.slot \in Nat /\ b.total \in Nat
    BY <1>0 DEF Boxed, Keyed
  <2> QED  BY <2>1 DEF HasFields, BoxFields, Both
<1>3. ASSUME NEW m \in d.mail
      PROVE  /\ HasFields(g[m], MailFields) /\ g[m].id = m.id /\ g[m].acc = m.acc /\ g[m].box = m.box
             /\ g[m].msg = m.msg /\ g[m].items \in Nat
             /\ g[m].name = m.name /\ g[m].type = (IF m.acc = acc /\ m.name = name THEN type ELSE m.type)
  BY <1>0 DEF Mailed, Counted, HasFields, MailFields
<1> HIDE DEF f, g
<1>4. \A m \in d.mail, b \in d.box : Houses(b, m) => Houses(f[b], g[m])
  BY <1>2, <1>3 DEF Houses
<1>5. /\ IsDb(e) /\ e.box = {f[b] : b \in d.box} /\ e.mail = {g[m] : m \in d.mail}
      /\ e.account = d.account /\ e.uid = d.uid /\ e.att = d.att /\ e.meet = d.meet /\ e.rule = d.rule
      /\ e.dir = d.dir /\ e.next = d.next
  BY <1>1, SoundIs DEF IsDb, HasFields
<1>6. Boxed(e.box)
  BY <1>0, <1>2, <1>5, BoxedAgain
<1>7. Mailed(e.mail, e.next) /\ Counted(e.mail)
  BY <1>0, <1>3, <1>5, MailedAgain
<1>8. \A k \in e.mail : \E m \in d.mail : /\ k.id = m.id /\ k.acc = m.acc
                                         /\ \A b \in d.box : Houses(b, m) => \E c \in e.box : Houses(c, k)
  BY <1>3, <1>4, <1>5
<1> QED  BY <1>5, <1>6, <1>7, <1>8, LabelledBoth

LEMMA RenameLeads ==
  ASSUME NEW d, NEW users, Sound(d, users), NEW box, NEW name, NEW e, e = emstorage_rename_mailbox(d, box, name)
  PROVE  Leads(d, e, users, {}, {})
<1> DEFINE f == [b \in d.box |-> IF b.id = box THEN [b EXCEPT !.name = name] ELSE b]
           g == [m \in d.mail |-> IF m.box = box THEN [m EXCEPT !.name = name] ELSE m]
<1>0. Boxed(d.box) /\ Mailed(d.mail, d.next) /\ Counted(d.mail)
  BY SoundIs
<1>1. e = [d EXCEPT !.box = {f[b] : b \in d.box}, !.mail = {g[m] : m \in d.mail}]
  BY DEF emstorage_rename_mailbox, Update
<1>2. ASSUME NEW b \in d.box
      PROVE  /\ HasFields(f[b], BoxFields) /\ f[b].id = b.id /\ f[b].acc = b.acc /\ f[b].type \in DOMAIN TypeOrder
             /\ f[b].local \in BOOLEAN /\ f[b].slot \in Nat /\ f[b].total \in Nat
             /\ f[b].type = b.type /\ f[b].name = (IF b.id = box THEN name ELSE b.name)
  <2>1. /\ HasFields(b, BoxFields) /\ b.type \in DOMAIN TypeOrder /\ b.local \in BOOLEAN /\ b.slot \in Nat /\ b.total \in Nat
    BY <1>0 DEF Boxed, Keyed
  <2> QED  BY <2>1 DEF HasFields, BoxFields
<1>3. ASSUME NEW m \in d.mail
      PROVE  /\ HasFields(g[m], MailFields) /\ g[m].id = m.id /\ g[m].acc = m.acc /\ g[m].box = m.box
             /\ g[m].msg = m.msg /\ g[m].items \in Nat
             /\ g[m].type = m.type /\ g[m].name = (IF m.box = box THEN name ELSE m.name)
  BY <1>0 DEF Mailed, Counted, HasFields, MailFields
<1> HIDE DEF f, g
<1>4. \A m \in d.mail, b \in d.box : Houses(b, m) => Houses(f[b], g[m])
  BY <1>2, <1>3 DEF Houses
<1>5. /\ IsDb(e) /\ e.box = {f[b] : b \in d.box} /\ e.mail = {g[m] : m \in d.mail}
      /\ e.account = d.account /\ e.uid = d.uid /\ e.att = d.att /\ e.meet = d.meet /\ e.rule = d.rule
      /\ e.dir = d.dir /\ e.next = d.next
  BY <1>1, SoundIs DEF IsDb, HasFields
<1>6. Boxed(e.box)
  BY <1>0, <1>2, <1>5, BoxedAgain
<1>7. Mailed(e.mail, e.next) /\ Counted(e.mail)
  BY <1>0, <1>3, <1>5, MailedAgain
<1>8. \A k \in e.mail : \E m \in d.mail : /\ k.id = m.id /\ k.acc = m.acc
                                         /\ \A b \in d.box : Houses(b, m) => \E c \in e.box : Houses(c, k)
  BY <1>3, <1>4, <1>5
<1> QED  BY <1>5, <1>6, <1>7, <1>8, LabelledBoth

\* Of mailboxes that go the mails are in doubt.
LEMMA FewerBoxes ==
  ASSUME NEW d, NEW users, Sound(d, users), NEW rows \in SUBSET d.box, NEW e, e = [d EXCEPT !.box = rows]
  PROVE  /\ Sound(e, users) /\ Descends(d, e) /\ KeepsFiles(d, e, {})
         /\ e.account = d.account /\ e.box = rows /\ e.mail = d.mail /\ e.next = d.next
<1>1. Boxed(d.box)
  BY SoundIs
<1>2. Boxed(rows)
  BY <1>1 DEF Boxed, Keyed
<1>3. /\ Sound(e, users) /\ Carries(d, e) /\ KeepsFiles(d, e, {})
      /\ e.account = d.account /\ e.box = rows /\ e.mail = d.mail /\ e.next = d.next
  BY <1>2, ChangedBoxes
<1> QED  BY <1>3, CarriesDescends

LEMMA DeleteMailbox1 ==
  ASSUME NEW d, NEW users, Sound(d, users), NEW acc, NEW locals, NEW box, box # 0,
         NEW e, e = emstorage_delete_mailbox(d, acc, locals, box)
  PROVE  /\ Sound(e, users) /\ Descends(d, e) /\ KeepsFiles(d, e, {})
         /\ e.account = d.account /\ e.mail = d.mail /\ e.next = d.next
         /\ e.box \subseteq d.box /\ \A b \in d.box : b \in e.box \/ (b.id = box /\ b.acc = acc)
<1> DEFINE rows == {b \in d.box : ~(b.acc = acc /\ b.local \in locals /\ box \in {0, b.id})}
<1>1. e = [d EXCEPT !.box = rows]
  BY DEF emstorage_delete_mailbox
<1>2. rows \in SUBSET d.box /\ \A b \in d.box : b \in rows \/ (b.id = box /\ b.acc = acc)
  OBVIOUS
<1> HIDE DEF rows
<1>3. \A c : c = [d EXCEPT !.box = rows] =>
         /\ Sound(c, users) /\ Descends(d, c) /\ KeepsFiles(d, c, {})
         /\ c.account = d.account /\ c.box = rows /\ c.mail = d.mail /\ c.next = d.next
  BY <1>2, FewerBoxes
<1> QED  BY <1>1, <1>2, <1>3

\* The mails go before their mailbox does, when its account is known.
LEMMA DeleteMailboxLeads ==
  ASSUME NEW d, NEW users, Sound(d, users), NEW b, b.id # 0, Known(d, b.acc),
         NEW e, e = emcore_delete_mailbox_all(d, b)
  PROVE  Leads(d, e, users, {}, {}) /\ e.account = d.account
<1> DEFINE c == emcore_delete_all_mails_of_mailbox(d, b.id)
<1>0. Tables(d) /\ Keyed(d.box, BoxFields)
  BY SoundIs DEF Sound, Boxed
<1>1. PICK gone : /\ Thinned(d, c, gone, {})
                  /\ \A x \in d.box : x.id = b.id /\ Known(d, x.acc) => gone = {m.id : m \in MailsByName(d, x)}
  BY <1>0, DeleteAllThins
<1>2. e = emstorage_delete_mailbox(c, b.acc, Both, b.id)
  BY DEF emcore_delete_mailbox_all
<1> HIDE DEF c
<1>3. Leads(d, c, users, {}, {}) /\ c.account = d.account /\ c.box = d.box /\ Sound(c, users)
  BY <1>1, ThinnedLeads DEF Leads
<1>4. /\ Sound(e, users) /\ Descends(c, e) /\ KeepsFiles(c, e, {})
      /\ e.account = c.account /\ e.mail = c.mail /\ e.next = c.next
      /\ e.box \subseteq c.box /\ \A x \in c.box : x \in e.box \/ (x.id = b.id /\ x.acc = b.acc)
  BY <1>2, <1>3, DeleteMailbox1
<1>5. \A x \in d.box : x.id = b.id /\ x.acc = b.acc => \A k \in c.mail : ~(k.acc = x.acc /\ k.name = x.name)
  <2> SUFFICES ASSUME NEW x \in d.box, x.id = b.id, x.acc = b.acc, NEW k \in c.mail, k.acc = x.acc, k.name = x.name
               PROVE  FALSE
    OBVIOUS
  <2>1. gone = {m.id : m \in MailsByName(d, x)}
    BY <1>1
  <2>2. PICK m \in d.mail : m.id \notin gone /\ k = [m EXCEPT !.items = k.items]
    BY <1>1 DEF Thinned
  <2>3. HasFields(m, MailFields)
    BY <1>0, TablesAre DEF Mailed
  <2>4. m.acc = k.acc /\ m.name = k.name
    BY <2>2, <2>3 DEF HasFields, MailFields
  <2> QED  BY <2>1, <2>2, <2>4 DEF MailsByName
<1>6. ASSUME NEW strays, Housed(d, strays) PROVE Housed(e, strays \cup {})
  <2>1. Housed(c, strays \cup {})
    BY <1>3, <1>6 DEF Leads
  <2> QED  BY <1>3, <1>4, <1>5, <2>1 DEF Housed
<1>7. Leads(c, e, users, {}, Nat) /\ Leads(d, c, users, {}, Nat)
  <2>1. \A m \in e.mail : m.id \in Nat
    BY <1>4, SoundIs DEF Mailed
  <2>2. \A strays : Housed(e, strays \cup Nat)
    BY <2>1 DEF Housed
  <2>3. Leads(c, e, users, {}, Nat)
    BY <1>4, <2>2 DEF Leads
  <2>4. Leads(d, c, users, {}, Nat)
    BY <1>3, LeadsMore
  <2> QED  BY <2>3, <2>4
<1>8. Leads(d, e, users, {}, Nat)
  BY <1>3, <1>7, LeadsTwice
<1> QED  BY <1>3, <1>4, <1>6, <1>8 DEF Leads

-----------------------------------------------------------------------------
(* the rows of downloads, attachments, meetings and rules *)

LEMMA AddDownloaded ==
  ASSUME NEW d, NEW users, Sound(d, users), NEW acc, NEW box, NEW name, NEW luid, NEW suid,
         NEW e, e = emstorage_add_downloaded_mail(d, acc, box, name, luid, suid)
  PROVE  Sound(e, users) /\ Steady(d, e) /\ e.account = d.account /\ e.box = d.box /\ e.mail = d.mail
<1> DEFINE row == [acc |-> acc, box |-> box, name |-> name, luid |-> luid, suid |-> suid]
           rows == d.uid \cup {row}
<1>1. Uids(d.uid)
  BY SoundIs
<1>2. HasFields(row, UidFields)
  BY DEF HasFields, UidFields
<1>3. e = [d EXCEPT !.uid = rows]
  BY DEF emstorage_add_downloaded_mail
<1> HIDE DEF row
<1>4. Uids(rows)
  BY <1>1, <1>2, FS_AddElement DEF Uids
<1> HIDE DEF rows
<1> QED  BY <1>3, <1>4, ChangedUids

LEMMA FewerUids ==
  ASSUME NEW d, NEW users, Sound(d, users), NEW rows \in SUBSET d.uid, NEW e, e = [d EXCEPT !.uid = rows]
  PROVE  Sound(e, users) /\ Steady(d, e) /\ e.account = d.account /\ e.box = d.box /\ e.mail = d.mail
<1>1. Uids(d.uid)
  BY SoundIs
<1>2. Uids(rows)
  BY <1>1, FS_Subset DEF Uids
<1> QED  BY <1>2, ChangedUids

LEMMA RemoveDownloaded ==
  ASSUME NEW d, NEW users, Sound(d, users), NEW acc, NEW names, NEW suids,
         NEW e, e = emstorage_remove_downloaded_mail(d, acc, names, suids)
  PROVE  Sound(e, users) /\ Steady(d, e) /\ e.account = d.account /\ e.box = d.box /\ e.mail = d.mail
<1> DEFINE rows == {u \in d.uid : ~(u.acc = acc /\ u.name \in names /\ u.suid \in suids)}
<1>1. e = [d EXCEPT !.uid = rows] /\ rows \in SUBSET d.uid
  BY DEF emstorage_remove_downloaded_mail
<1> HIDE DEF rows
<1> QED  BY <1>1, FewerUids

LEMMA UpdateDownloaded ==
  ASSUME NEW d, NEW users, Sound(d, users), NEW f, \A u \in d.uid : HasFields(f[u], UidFields),
         NEW e, e = [d EXCEPT !.uid = {f[u] : u \in d.uid}]
  PROVE  Sound(e, users) /\ Steady(d, e) /\ e.account = d.account /\ e.box = d.box /\ e.mail = d.mail
<1> DEFINE rows == {f[u] : u \in d.uid}
<1>1. Uids(d.uid)
  BY SoundIs
<1>2. Uids(rows)
  BY <1>1, UpdatedUids
<1>3. e = [d EXCEPT !.uid = rows]
  OBVIOUS
<1> HIDE DEF rows
<1>4. \A c : c = [d EXCEPT !.uid = rows] =>
         Sound(c, users) /\ Steady(d, c) /\ c.account = d.account /\ c.box = d.box /\ c.mail = d.mail
  BY <1>2, ChangedUids
<1> QED  BY <1>3, <1>4

LEMMA UpdateReadUidByUid ==
  ASSUME NEW d, NEW users, Sound(d, users), NEW old, NEW new, NEW name,
         NEW e, e = emstorage_update_read_mail_uid_by_server_uid(d, old, new, name)
  PROVE  Sound(e, users) /\ Steady(d, e) /\ e.account = d.account /\ e.box = d.box /\ e.mail = d.mail
<1> DEFINE f == [u \in d.uid |-> IF u.suid = old THEN [u EXCEPT !.suid = new, !.box = NameForId, !.name = name] ELSE u]
<1>1. e = [d EXCEPT !.uid = {f[u] : u \in d.uid}]
  BY DEF emstorage_update_read_mail_uid_by_server_uid, Update
<1>2. Uids(d.uid)
  BY SoundIs
<1>3. \A u \in d.uid : HasFields(f[u], UidFields)
  BY <1>2 DEF Uids, HasFields, UidFields
<1> HIDE DEF f
<1> QED  BY <1>1, <1>3, UpdateDownloaded

LEMMA UpdateReadUid ==
  ASSUME NEW d, NEW users, Sound(d, users), NEW id, NEW new, NEW name,
         NEW e, e = emstorage_update_read_mail_uid(d, id, new, name)
  PROVE  Sound(e, users) /\ Steady(d, e) /\ e.account = d.account /\ e.box = d.box /\ e.mail = d.mail
<1> DEFINE f == [u \in d.uid |-> IF u.luid = id THEN [u EXCEPT !.suid = new, !.box = NameForId, !.name = name] ELSE u]
<1>1. e = [d EXCEPT !.uid = {f[u] : u \in d.uid}]
  BY DEF emstorage_update_read_mail_uid, Update
<1>2. Uids(d.uid)
  BY SoundIs
<1>3. \A u \in d.uid : HasFields(f[u], UidFields)
  BY <1>2 DEF Uids, HasFields, UidFields
<1> HIDE DEF f
<1> QED  BY <1>1, <1>3, UpdateDownloaded

LEMMA AddAttachment ==
  ASSUME NEW d, NEW users, Sound(d, users), NEW acc, NEW box, NEW mail,
         NEW e, e = emstorage_add_attachment(d, acc, box, mail)
  PROVE  Sound(e, users) /\ Steady(d, e) /\ e.account = d.account /\ e.box = d.box /\ e.mail = d.mail
<1> DEFINE row == [id |-> NextId(d.att), mail |-> mail, acc |-> acc, box |-> box]
           rows == d.att \cup {row}
<1>1. Keyed(d.att, AttFields)
  BY SoundIs
<1>2. HasFields(row, AttFields) /\ row.id = NextId(d.att)
  BY DEF HasFields, AttFields
<1>3. e = [d EXCEPT !.att = rows]
  BY DEF emstorage_add_attachment
<1> HIDE DEF row
<1>4. Keyed(rows, AttFields)
  BY <1>1, <1>2, AddedRow
<1> HIDE DEF rows
<1> QED  BY <1>3, <1>4, ChangedAttachments

LEMMA DeleteAttachment ==
  ASSUME NEW d, NEW users, Sound(d, users), NEW att, NEW e, e = emstorage_delete_attachment_on_db(d, att)
  PROVE  Sound(e, users) /\ Steady(d, e) /\ e.account = d.account /\ e.box = d.box /\ e.mail = d.mail
<1> DEFINE rows == {a \in d.att : a.id # att}
<1>1. Keyed(d.att, AttFields)
  BY SoundIs
<1>2. e = [d EXCEPT !.att = rows]
  BY DEF emstorage_delete_attachment_on_db
<1>3. Keyed(rows, AttFields)
  BY <1>1 DEF Keyed
<1> HIDE DEF rows
<1> QED  BY <1>2, <1>3, ChangedAttachments

LEMMA AddMeeting ==
  ASSUME NEW d, NEW users, Sound(d, users), NEW acc, NEW box, NEW id \in Nat, id < d.next,
         \A m \in d.mail : m.id = id => m.acc = acc, NEW e, e = emstorage_add_meeting_request(d, acc, box, id)
  PROVE  Sound(e, users) /\ Steady(d, e) /\ e.account = d.account /\ e.box = d.box /\ e.mail = d.mail
<1> DEFINE row == [mail |-> id, acc |-> acc, box |-> box]
           rows == d.meet \cup {row}
<1>1. Meetings(d.meet) /\ OfAccounts(d.meet, d.mail, d.next)
  BY SoundIs
<1>2. e = [d EXCEPT !.meet = rows]
  BY DEF emstorage_add_meeting_request
<1>3. Meetings(rows) /\ OfAccounts(rows, d.mail, d.next) /\ \A a \in d.meet : \E b \in rows : b.mail = a.mail
  BY <1>1 DEF Meetings, HasFields, OfAccounts
<1> HIDE DEF rows
<1> QED  BY <1>2, <1>3, ChangedMeetings

LEMMA AddRuleRow ==
  ASSUME NEW d, NEW users, Sound(d, users), NEW acc, NEW rule, NEW e, e = emstorage_add_rule(d, acc, rule)
  PROVE  Sound(e, users) /\ Steady(d, e) /\ e.account = d.account /\ e.box = d.box /\ e.mail = d.mail
<1> DEFINE row == [id |-> NextId(d.rule), acc |-> acc, type |-> rule.type, value |-> rule.value]
           rows == d.rule \cup {row}
<1>1. Keyed(d.rule, RuleFields)
  BY SoundIs
<1>2. HasFields(row, RuleFields) /\ row.id = NextId(d.rule)
  BY DEF HasFields, RuleFields
<1>3. e = [d EXCEPT !.rule = rows]
  BY DEF emstorage_add_rule
<1> HIDE DEF row
<1>4. Keyed(rows, RuleFields)
  BY <1>1, <1>2, AddedRow
<1> HIDE DEF rows
<1> QED  BY <1>3, <1>4, ChangedRules

LEMMA ChangeRuleRow ==
  ASSUME NEW d, NEW users, Sound(d, users), NEW acc, NEW id, NEW rule, NEW e, e = emstorage_change_rule(d, acc, id, rule)
  PROVE  Sound(e, users) /\ Steady(d, e)
<1> DEFINE f == [r \in d.rule |-> IF r.acc = acc /\ r.id = id THEN [r EXCEPT !.type = rule.type, !.value = rule.value] ELSE r]
           rows == {f[r] : r \in d.rule}
<1>1. Keyed(d.rule, RuleFields)
  BY SoundIs
<1>2. e = [d EXCEPT !.rule = rows]
  BY DEF emstorage_change_rule, Update
<1>3. \A r \in d.rule : HasFields(f[r], RuleFields) /\ f[r].id = r.id
  BY <1>1 DEF Keyed, HasFields, RuleFields
<1> HIDE DEF f
<1>4. PICK n \in Nat : \A r \in d.rule : r.id \in 1 .. n
  BY <1>1 DEF Keyed
<1>5. \A r \in rows : r.id \in 1 .. n /\ HasFields(r, RuleFields)
  BY <1>3, <1>4
<1>6. \A r, q \in rows : r.id = q.id => r = q
  BY <1>1, <1>3 DEF Keyed
<1> HIDE DEF rows
<1>7. Keyed(rows, RuleFields)
  BY <1>5, <1>6 DEF Keyed
<1> QED  BY <1>2, <1>7, ChangedRules

LEMMA DeleteRuleRow ==
  ASSUME NEW d, NEW users, Sound(d, users), NEW acc, NEW id, NEW e, e = emstorage_delete_rule(d, acc, id)
  PROVE  Sound(e, users) /\ Steady(d, e)
<1> DEFINE rows == {r \in d.rule : ~(r.acc = acc /\ r.id = id)}
<1>1. Keyed(d.rule, RuleFields)
  BY SoundIs
<1>2. e = [d EXCEPT !.rule = rows]
  BY DEF emstorage_delete_rule
<1>3. Keyed(rows, RuleFields)
  BY <1>1 DEF Keyed
<1> HIDE DEF rows
<1> QED  BY <1>2, <1>3, ChangedRules

-----------------------------------------------------------------------------
(* a new mail *)

\* The directory of a mail may be made before its row.
LEMMA AddMailRow ==
  ASSUME NEW d, NEW users, Sound(d, users), NEW row, HasFields(row, MailFields), row.id = d.next,
         row.msg \in Nat, row.items \in Nat, NEW c, c = d \/ c = emstorage_create_dir(d, row.acc, d.next),
         NEW e, e = emstorage_add_mail(c, row)
  PROVE  /\ Sound(e, users) /\ Descends(d, e) /\ KeepsFiles(d, e, {})
         /\ e.account = d.account /\ e.box = d.box /\ e.mail = d.mail \cup {row} /\ e.next = d.next + 1
<1>1. /\ IsDb(d) /\ Mailed(d.mail, d.next) /\ Counted(d.mail) /\ Dirs(d.dir)
      /\ OfAccounts(d.dir, d.mail, d.next) /\ OfAccounts(d.meet, d.mail, d.next)
  BY SoundIs
<1>2. /\ IsDb(c) /\ c.account = d.account /\ c.box = d.box /\ c.mail = d.mail /\ c.next = d.next /\ c.uid = d.uid
      /\ c.att = d.att /\ c.meet = d.meet /\ c.rule = d.rule
      /\ (c.dir = d.dir \/ c.dir = d.dir \cup {[acc |-> row.acc, mail |-> d.next]})
  BY <1>1 DEF IsDb, HasFields, emstorage_create_dir
<1>3. /\ IsDb(e) /\ e.account = d.account /\ e.box = d.box /\ e.mail = d.mail \cup {row} /\ e.next = d.next + 1
      /\ e.uid = d.uid /\ e.att = d.att /\ e.meet = d.meet /\ e.rule = d.rule /\ e.dir = c.dir
  BY <1>2 DEF IsDb, HasFields, emstorage_add_mail
<1>4. d.next \in Nat \ {0} /\ e.next \in Nat \ {0} /\ \A m \in d.mail : m.id \in 1 .. (d.next - 1) /\ m.id # row.id
  BY <1>1, <1>3 DEF Mailed
<1>5. Mailed(e.mail, e.next) /\ Counted(e.mail)
  <2>1. \A m \in e.mail : m.id \in 1 .. (e.next - 1) /\ HasFields(m, MailFields) /\ m.msg \in Nat
    BY <1>1, <1>3, <1>4 DEF Mailed
  <2>2. \A m, k \in e.mail : m.id = k.id => m = k
    BY <1>1, <1>3, <1>4 DEF Mailed
  <2> QED  BY <1>1, <1>3, <1>4, <2>1, <2>2 DEF Mailed, Counted
<1>6. Dirs(e.dir)
  BY <1>1, <1>2, <1>3 DEF Dirs, HasFields
<1>7. OfAccounts(e.meet, e.mail, e.next)
  BY <1>1, <1>3, <1>4 DEF OfAccounts
<1>8. OfAccounts(e.dir, e.mail, e.next)
  <2>1. OfAccounts(d.dir, e.mail, e.next)
    BY <1>1, <1>3, <1>4 DEF OfAccounts
  <2> QED  BY <1>2, <1>3, <1>4, <2>1 DEF OfAccounts
<1>9. Sound(e, users)
  BY <1>3, <1>5, <1>6, <1>7, <1>8, SoundIs
<1>10. Descends(d, e)
  BY <1>3, <1>4 DEF Descends
<1>11. KeepsFiles(d, e, {})
  BY <1>2, <1>3 DEF KeepsFiles
<1> QED  BY <1>3, <1>9, <1>10, <1>11

\* One mail more, the account's.
Comes(d, e, acc) == e.next = d.next + 1 /\ \A m \in e.mail : m.id = d.next => m.acc = acc

LEMMA ThreadedLeads ==
  ASSUME NEW d, NEW users, Sound(d, users), NEW b, NEW row, HasFields(row, MailFields), row.id = d.next, row.msg \in Nat,
         Houses(b, row), NEW c \in {d, emstorage_create_dir(d, b.acc, d.next)}, NEW e, e = Threaded(c, row)
  PROVE  /\ Leads(d, e, users, {}, {d.next}) /\ (b \in d.box => Leads(d, e, users, {}, {}))
         /\ Comes(d, e, b.acc)
<1> DEFINE found == emstorage_get_thread_id_of_thread_mails(c, row)
           alone == found.thread = -1
           full == [row EXCEPT !.thread = IF alone THEN row.id ELSE found.thread, !.items = IF alone THEN 1 ELSE 0]
           added == emstorage_add_mail(c, full)
           heads == {found.thread}
<1>1. e = added \/ e = emstorage_update_latest_thread_mail(added, row.acc, heads)
  BY DEF Threaded
<1>2. HasFields(full, MailFields) /\ full.id = d.next /\ full.msg \in Nat /\ full.items \in Nat /\ Houses(b, full) /\ full.acc = b.acc
  BY DEF HasFields, MailFields, Houses
<1> HIDE DEF found, alone, full, heads
<1>3. /\ Sound(added, users) /\ Descends(d, added) /\ KeepsFiles(d, added, {})
      /\ added.account = d.account /\ added.box = d.box /\ added.mail = d.mail \cup {full} /\ added.next = d.next + 1
  BY <1>2, AddMailRow
<1> HIDE DEF added
<1>4. ASSUME NEW strays, Housed(d, strays) PROVE Housed(added, strays \cup {d.next}) /\ (b \in d.box => Housed(added, strays))
  BY <1>2, <1>3, <1>4 DEF Housed, Houses
<1>5. Leads(d, added, users, {}, {d.next})
  BY <1>3, <1>4 DEF Leads
<1>6. ASSUME b \in d.box PROVE Leads(d, added, users, {}, {})
  <2>1. \A strays : strays \cup {} = strays
    OBVIOUS
  <2> QED  BY <1>3, <1>4, <1>6, <2>1 DEF Leads
<1>7. Sound(e, users) /\ Staying(added, e) /\ e.account = added.account /\ e.box = added.box /\ e.next = added.next
  BY <1>1, <1>3, UpdateHeads, SteadySame DEF Steady
<1>8. Leads(added, e, users, {}, {})
  BY <1>3, <1>7, StayingLeads
<1>9. Leads(d, e, users, {}, {d.next})
  <2>1. Leads(added, e, users, {}, {d.next})
    BY <1>8, LeadsMore
  <2> QED  BY <1>5, <2>1, LeadsTwice
<1>10. b \in d.box => Leads(d, e, users, {}, {})
  BY <1>6, <1>8, LeadsTwice
<1>11. ASSUME NEW k \in e.mail, k.id = d.next PROVE k.acc = b.acc
  <2>1. PICK m \in added.mail : k.id = m.id /\ k.acc = m.acc
    BY <1>7 DEF Staying, Carries
  <2>2. \A x \in d.mail : x.id # d.next
    BY SoundIs DEF Mailed
  <2> QED  BY <1>2, <1>3, <1>11, <2>1, <2>2
<1>12. Comes(d, e, b.acc)
  BY <1>3, <1>7, <1>11 DEF Comes
<1> QED  BY <1>9, <1>10, <1>12

LEMMA ThreadedAtHome ==
  ASSUME NEW d, NEW users, Sound(d, users), NEW b, b \in d.box, NEW row, HasFields(row, MailFields), row.id = d.next,
         row.msg \in Nat, Houses(b, row), NEW c \in {d, emstorage_create_dir(d, b.acc, d.next)},
         NEW e, e = Threaded(c, row)
  PROVE  Leads(d, e, users, {}, {}) /\ Comes(d, e, b.acc)
<1>1. Comes(d, e, b.acc)
  BY ThreadedLeads
<1>2. b \in d.box => Leads(d, e, users, {}, {})
  BY ThreadedLeads
<1> QED  BY <1>1, <1>2

LEMMA NewMailIs ==
  ASSUME NEW d, NEW b, NEW msg \in Nat, NEW suid, NEW seen, NEW row, row = NewMail(d, b, msg, suid, seen)
  PROVE  HasFields(row, MailFields) /\ row.id = d.next /\ row.msg \in Nat /\ Houses(b, row)
BY DEF NewMail, NoMail, HasFields, MailFields, Houses, emstorage_increase_mail_id

\* A mail of a mailbox whose row is not there any more is apart.
LEMMA AddMailLeads ==
  ASSUME NEW d, NEW users, Sound(d, users), NEW b, NEW msg \in Nat, NEW suid, NEW seen,
         NEW e, e = emcore_add_mail_to_mailbox(d, b, msg, suid, seen)
  PROVE  Leads(d, e, users, {}, {d.next}) /\ (b \in d.box => Leads(d, e, users, {}, {}))
<1> DEFINE row == NewMail(d, b, msg, suid, seen)
           c == Threaded(d, row)
<1>1. HasFields(row, MailFields) /\ row.id = d.next /\ row.msg \in Nat /\ Houses(b, row)
  BY NewMailIs
<1>2. e = emstorage_add_downloaded_mail(c, b.acc, b.id, b.name, row.id, suid)
  BY DEF emcore_add_mail_to_mailbox
<1> HIDE DEF row
<1>3. Leads(d, c, users, {}, {d.next}) /\ (b \in d.box => Leads(d, c, users, {}, {}))
  BY <1>1, ThreadedLeads
<1> HIDE DEF c
<1>4. Sound(c, users)
  BY <1>3 DEF Leads
<1>5. Leads(c, e, users, {}, {})
  BY <1>2, <1>4, AddDownloaded, SteadyLeads
<1>6. Leads(c, e, users, {}, {d.next})
  BY <1>5, LeadsMore
<1> QED  BY <1>3, <1>5, <1>6, LeadsTwice

LEMMA OverflowLeads ==
  ASSUME NEW d, NEW users, Sound(d, users), NEW acc, NEW box, NEW slot \in Nat,
         NEW e, e = emcore_remove_overflowed_mails(d, acc, box, slot)
  PROVE  Leads(d, e, users, {}, {}) /\ e.account = d.account
<1>1. PICK gone : Thinned(d, e, gone, {})
  BY OverflowThins DEF Sound
<1> QED  BY <1>1, ThinnedLeads

LEMMA DeleteAllLeads ==
  ASSUME NEW d, NEW users, Sound(d, users), NEW box, NEW e, e = emcore_delete_all_mails_of_mailbox(d, box)
  PROVE  Leads(d, e, users, {}, {}) /\ e.account = d.account /\ e.box = d.box
<1>1. PICK gone : Thinned(d, e, gone, {})
  BY DeleteAllThins DEF Sound
<1> QED  BY <1>1, ThinnedLeads

LEMMA ExpungeLeads ==
  ASSUME NEW d, NEW users, Sound(d, users), NEW box,
         NEW e, e = emcore_expunge_mails_deleted_flagged_from_local_storage(d, box)
  PROVE  Leads(d, e, users, {}, {})
<1>1. PICK gone : Thinned(d, e, gone, {})
  BY ExpungeThins DEF Sound
<1> QED  BY <1>1, ThinnedLeads

\* A batch with a mail that is gone takes the files of the account.
LEMMA DeleteLeads ==
  ASSUME NEW d, NEW users, Sound(d, users), NEW acc, NEW ids, NEW e, e = emcore_delete_mail(d, acc, ids)
  PROVE  Leads(d, e, users, Wiping(d, acc, ids), {}) /\ (Known(d, acc) \/ e = d)
<1>1. PICK gone : Thinned(d, e, gone, Wiping(d, acc, ids))
  BY DeleteMailThins DEF Sound
<1>2. Known(d, acc) \/ e = d
  BY DEF emcore_delete_mail
<1> QED  BY <1>1, <1>2, ThinnedLeads

LEMMA AddAttachmentData ==
  ASSUME NEW d, NEW users, Sound(d, users), NEW id, NEW e, e = emcore_mail_add_attachment_data(d, id)
  PROVE  Sound(e, users) /\ Steady(d, e) /\ e.account = d.account /\ e.mail = d.mail
<1> DEFINE found == emstorage_get_mail_by_id(d, id)
           m == The(found)
           c == emstorage_add_attachment(d, m.acc, m.box, id)
<1>1. CASE found = {}
  BY <1>1, SteadySame DEF emcore_mail_add_attachment_data
<1>2. CASE found # {}
  <2>1. m \in d.mail /\ m.id = id
    BY <1>2 DEF The, emstorage_get_mail_by_id
  <2>2. e = emstorage_create_dir(c, m.acc, id)
    BY <1>2 DEF emcore_mail_add_attachment_data
  <2> HIDE DEF found, m
  <2>3. Sound(c, users) /\ Steady(d, c) /\ c.account = d.account /\ c.box = d.box /\ c.mail = d.mail
    BY AddAttachment
  <2> HIDE DEF c
  <2>4. Mailed(c.mail, c.next)
    BY <2>3, SoundIs
  <2>5. id \in Nat /\ id < c.next /\ \A k \in c.mail : k.id = id => k.acc = m.acc
    BY <2>1, <2>3, <2>4 DEF Mailed
  <2>6. Sound(e, users) /\ Steady(c, e) /\ e.account = c.account /\ e.mail = c.mail
    BY <2>2, <2>3, <2>5, CreateDir
  <2> QED  BY <2>3, <2>6, SteadyTwice
<1> QED  BY <1>1, <1>2

AttachKeep(p, e) == Sound(e, p[2]) /\ Steady(p[1], e) /\ e.mail = p[1].mail
Attaches == INSTANCE IterateProofs WITH Step <- Attach, Keep <- AttachKeep

LEMMA AttachingSteady ==
  ASSUME NEW d, NEW users, Sound(d, users), NEW id, NEW seq, Len(seq) \in Nat, NEW e, e = Attaching!Over(id, d, seq)
  PROVE  Sound(e, users) /\ Steady(d, e) /\ e.mail = d.mail
<1> DEFINE p == <<d, users>>
<1>1. p[1] = d /\ p[2] = users
  OBVIOUS
<1> HIDE DEF p
<1>2. AttachKeep(p, d)
  BY <1>1, SteadySame DEF AttachKeep
<1>3. ASSUME NEW i \in 1 .. Len(seq), NEW c, AttachKeep(p, c) PROVE AttachKeep(p, Attach(id, c, seq[i]))
  <2> DEFINE x == IF seq[i] = 0 THEN c ELSE emcore_delete_mail_attachment(c, seq[i])
             y == emcore_mail_add_attachment_data(x, id)
  <2>1. y = Attach(id, c, seq[i])
    BY DEF Attach
  <2>2. Sound(c, users) /\ Steady(d, c) /\ c.mail = d.mail
    BY <1>1, <1>3 DEF AttachKeep
  <2>3. Sound(x, users) /\ Steady(c, x) /\ x.mail = c.mail
    <3>1. LET z == emstorage_delete_attachment_on_db(c, seq[i]) IN Sound(z, users) /\ Steady(c, z) /\ z.mail = c.mail
      BY <2>2, DeleteAttachment
    <3> QED  BY <2>2, <3>1, SteadySame DEF emcore_delete_mail_attachment
  <2> HIDE DEF x
  <2>4. Sound(y, users) /\ Steady(x, y) /\ y.mail = x.mail
    BY <2>3, AddAttachmentData
  <2> HIDE DEF y
  <2>5. Steady(d, x)
    BY <2>2, <2>3, SteadyTwice
  <2>6. Steady(d, y)
    BY <2>4, <2>5, SteadyTwice
  <2> QED  BY <1>1, <2>1, <2>2, <2>3, <2>4, <2>6 DEF AttachKeep
<1>4. AttachKeep(p, Attaches!Over(id, d, seq))
  BY <1>2, <1>3, Attaches!Kept
<1>5. Attaching!Over(id, d, seq) = Attaches!Over(id, d, seq)
  BY DEF Attaching!Over, Attaches!Over
<1> QED  BY <1>1, <1>4, <1>5 DEF AttachKeep

LEMMA UpdateMailSteady ==
  ASSUME NEW d, NEW users, Sound(d, users), NEW m \in d.mail, NEW body, NEW atts, Len(atts) \in Nat, NEW meeting,
         NEW e, e = emcore_update_mail(d, m.acc, m.id, body, atts, meeting)
  PROVE  Sound(e, users) /\ Steady(d, e)
<1> DEFINE dir == emstorage_create_dir(d, m.acc, m.id)
           put == Attaching!Over(m.id, dir, atts)
           filed == emstorage_change_mail_field(put, m.id, "body", body)
           found == emstorage_get_mail_by_id(d, m.id)
           box == The(found).box
           met == emstorage_add_meeting_request(filed, m.acc, box, m.id)
<1>1. Mailed(d.mail, d.next)
  BY SoundIs
<1>2. m.id \in Nat /\ m.id < d.next /\ \A k \in d.mail : k.id = m.id => k.acc = m.acc
  BY <1>1 DEF Mailed
<1>3. Sound(dir, users) /\ Steady(d, dir) /\ dir.mail = d.mail
  BY <1>2, CreateDir
<1>4. found = {m}
  BY <1>1 DEF Mailed, emstorage_get_mail_by_id
<1>5. e = d \/ e = filed \/ e = emstorage_add_meeting_request(filed, m.acc, box, m.id)
  <2>1. The(found) = m
    BY <1>4 DEF The
  <2> QED  BY <2>1 DEF emcore_update_mail
<1> HIDE DEF dir, box, found
<1>6. Sound(put, users) /\ Steady(dir, put) /\ put.mail = dir.mail
  BY <1>3, AttachingSteady
<1> HIDE DEF put
<1>7. "body" \in Flagging
  BY DEF Flagging
<1>8. Sound(filed, users) /\ Steady(put, filed) /\ filed.next = put.next
  BY <1>6, <1>7, ChangeField
<1> HIDE DEF filed
<1>9. Steady(d, put)
  BY <1>3, <1>6, SteadyTwice
<1>10. Steady(d, filed)
  BY <1>8, <1>9, SteadyTwice
<1>11. Sound(met, users) /\ Steady(filed, met)
  <2>1. filed.next = d.next
    BY <1>10 DEF Steady, Staying, Carries
  <2>2. \A k \in filed.mail : k.id = m.id => k.acc = m.acc
    BY <1>2, <1>10 DEF Steady, Staying, Carries
  <2> QED  BY <1>2, <1>8, <2>1, <2>2, AddMeeting
<1>12. Steady(d, met)
  BY <1>10, <1>11, SteadyTwice
<1> QED  BY <1>5, <1>8, <1>10, <1>11, <1>12, SteadySame

\* What a mail that is saved leaves before the mailbox is trimmed: box is a
\* mailbox of the account.
Saved(d, users, b, row, c, mid, e) ==
    /\ b \in d.box /\ b.slot \in Nat
    /\ HasFields(row, MailFields) /\ row.id = d.next /\ row.msg \in Nat /\ Houses(b, row)
    /\ c \in {d, emstorage_create_dir(d, b.acc, d.next)}
    /\ Sound(mid, users) /\ Steady(Threaded(c, row), mid)
    /\ e = emcore_remove_overflowed_mails(mid, b.acc, b.id, b.slot)

LEMMA SaveMailIs ==
  ASSUME NEW d, NEW users, Sound(d, users), NEW acc, NEW box, \A b \in d.box : b.id = box => b.acc = acc,
         NEW msg \in Nat, NEW attached, NEW meeting, NEW e, e = emcore_add_mail(d, acc, box, msg, attached, meeting)
  PROVE  e = d \/ \E b, row, c, mid : Saved(d, users, b, row, c, mid, e)
<1> DEFINE spam == emstorage_get_mailbox_id_by_mailbox_type(d, acc, "spam")
           checked == Checked(emstorage_get_rule(d, 0), spam, msg)
           target == IF checked = "matched" THEN The(spam) ELSE box
           b == The(emstorage_get_mailbox_by_id(d, target))
           new == NewMail(d, b, msg, 0, TRUE)
           row == [new EXCEPT !.body = msg]
           dir == emstorage_create_dir(d, acc, row.id)
           added == Threaded(dir, row)
           att == emstorage_add_attachment(added, acc, b.id, row.id)
           filed == IF attached THEN att ELSE added
           meet == emstorage_add_meeting_request(filed, acc, b.id, row.id)
           met == IF meeting THEN meet ELSE filed
<1>1. CASE ~Known(d, acc) \/ checked = "failed" \/ emstorage_get_mailbox_by_id(d, target) = {}
  BY <1>1 DEF emcore_add_mail
<1>2. CASE ~(~Known(d, acc) \/ checked = "failed" \/ emstorage_get_mailbox_by_id(d, target) = {})
  <2>1. e = emcore_remove_overflowed_mails(met, b.acc, b.id, b.slot)
    BY <1>2 DEF emcore_add_mail
  <2>2. spam = {} \/ \E x \in d.box : x.id = The(spam) /\ x.acc = acc
    BY DEF The, emstorage_get_mailbox_id_by_mailbox_type, emstorage_get_mailbox_by_mailbox_type, FirstOf
  <2>3. b \in d.box /\ b.id = target
    BY <1>2 DEF The, emstorage_get_mailbox_by_id
  <2>20. target = box \/ (spam # {} /\ target = The(spam))
    BY DEF Checked
  <2> HIDE DEF spam, b, checked, target
  <2>4. Boxed(d.box) /\ d.next \in Nat
    BY SoundIs DEF Mailed
  <2>5. b.acc = acc /\ b.slot \in Nat
    BY <2>2, <2>3, <2>4, <2>20 DEF Boxed, Keyed
  <2>6. HasFields(new, MailFields) /\ new.id = d.next /\ new.msg \in Nat /\ Houses(b, new)
    BY NewMailIs
  <2> HIDE DEF new
  <2>7. HasFields(row, MailFields) /\ row.id = d.next /\ row.msg \in Nat /\ Houses(b, row)
    BY <2>6 DEF HasFields, MailFields, Houses
  <2> HIDE DEF row
  <2>8. dir \in {d, emstorage_create_dir(d, b.acc, d.next)} /\ added = Threaded(dir, row)
    BY <2>5, <2>7
  <2> HIDE DEF dir, added
  <2>9. Sound(added, users) /\ added.next = d.next + 1 /\ \A m \in added.mail : m.id = d.next => m.acc = b.acc
    <3>1. Sound(d, users) /\ b \in d.box
      BY <2>3
    <3>2. Leads(d, added, users, {}, {}) /\ Comes(d, added, b.acc)
      BY <2>7, <2>8, <3>1, ThreadedAtHome
    <3> QED  BY <3>2 DEF Comes, Leads
  <2>10. Sound(att, users) /\ Steady(added, att) /\ att.mail = added.mail
    BY <2>9, AddAttachment
  <2> HIDE DEF att
  <2>11. Sound(filed, users) /\ Steady(added, filed) /\ filed.mail = added.mail
    BY <2>9, <2>10, SteadySame
  <2> HIDE DEF filed
  <2>12. filed.next = d.next + 1
    BY <2>9, <2>11 DEF Steady, Staying, Carries
  <2>13. d.next < filed.next /\ row.id \in Nat /\ row.id < filed.next
    BY <2>4, <2>7, <2>12
  <2>14. \A m \in filed.mail : m.id = row.id => m.acc = acc
    BY <2>5, <2>7, <2>9, <2>11
  <2>15. Sound(meet, users) /\ Steady(filed, meet)
    BY <2>11, <2>13, <2>14, AddMeeting
  <2> HIDE DEF meet
  <2>16. Sound(met, users) /\ Steady(filed, met)
    BY <2>11, <2>15, SteadySame
  <2> HIDE DEF met
  <2>17. Steady(added, met)
    BY <2>9, <2>11, <2>16, SteadyTwice
  <2>18. Saved(d, users, b, row, dir, met, e)
    BY <2>1, <2>3, <2>5, <2>7, <2>8, <2>16, <2>17 DEF Saved
  <2> QED  BY <2>18
<1> QED  BY <1>1, <1>2

LEMMA SaveMailLeads ==
  ASSUME NEW d, NEW users, Sound(d, users), NEW acc, NEW box, \A b \in d.box : b.id = box => b.acc = acc,
         NEW msg \in Nat, NEW attached, NEW meeting, NEW e, e = emcore_add_mail(d, acc, box, msg, attached, meeting)
  PROVE  Leads(d, e, users, {}, {})
<1>1. ASSUME NEW b, NEW row, NEW c, NEW mid, Saved(d, users, b, row, c, mid, e) PROVE Leads(d, e, users, {}, {})
  <2> DEFINE added == Threaded(c, row)
  <2>1. Sound(d, users) /\ b \in d.box
    BY <1>1 DEF Saved
  <2>2. Leads(d, added, users, {}, {})
    BY <1>1, <2>1, ThreadedAtHome DEF Saved
  <2>3. Steady(added, mid) /\ Sound(mid, users)
    BY <1>1 DEF Saved
  <2> HIDE DEF added
  <2>4. Leads(added, mid, users, {}, {})
    BY <2>2, <2>3, SteadyLeads DEF Leads
  <2>5. Leads(mid, e, users, {}, {})
    BY <1>1, <2>3, OverflowLeads DEF Saved
  <2>6. Leads(d, mid, users, {}, {})
    BY <2>2, <2>4, LeadsTwice
  <2> QED  BY <2>5, <2>6, LeadsTwice
<1> QED  BY <1>1, SaveMailIs, LeadsSame

LEMMA SlotLeads ==
  ASSUME NEW d, NEW users, Sound(d, users), SlotUnit \in Nat, NEW acc, NEW box, NEW size \in Nat,
         NEW e, e = emcore_set_mail_slot_size(d, acc, box, size)
  PROVE  Leads(d, e, users, {}, {})
<1> DEFINE slot == emstorage_set_field_of_accounts_with_integer_value(d, acc, size)
           named == IF box # 0 THEN d ELSE slot
           sized == emstorage_set_mail_slot_size(named, acc, box, size)
           rows == IF box # 0 THEN emstorage_get_mailbox_by_id(sized, box) ELSE {b \in sized.box : b.acc = acc}
           seq == ById(rows)
           trimmed == Trimming!Over(acc, sized, seq)
<1>1. e = d \/ e = trimmed
  BY DEF emcore_set_mail_slot_size
<1>2. Sound(slot, users) /\ Steady(d, slot)
  BY UpdateSlotOfAccount
<1> HIDE DEF slot
<1>3. Sound(named, users) /\ Steady(d, named)
  BY <1>2, SteadySame
<1> HIDE DEF named
<1>4. Sound(sized, users) /\ Steady(named, sized)
  BY <1>3, SlotBox
<1> HIDE DEF sized
<1>5. rows \in SUBSET sized.box
  BY DEF emstorage_get_mailbox_by_id
<1> HIDE DEF rows
<1>6. Boxed(sized.box) /\ Table(sized.box, BoxFields)
  BY <1>4, SoundIs, TableIsKeyed DEF Boxed
<1>7. IsFiniteSet(rows) /\ (\A r \in rows : r.id \in Nat /\ r.slot \in Nat) /\ \A r, q \in rows : r.id = q.id => r = q
  BY <1>5, <1>6, FS_Subset DEF Table, Boxed
<1>8. Len(seq) \in Nat /\ \A i \in 1 .. Len(seq) : seq[i] \in rows
  BY <1>7, ByIdLists
<1> HIDE DEF seq
<1>9. PICK gone : Thinned(sized, trimmed, gone, {})
  BY <1>4, <1>7, <1>8, TrimmingThins DEF Sound
<1>10. Leads(sized, trimmed, users, {}, {})
  BY <1>4, <1>9, ThinnedLeads
<1>11. Leads(d, named, users, {}, {}) /\ Leads(named, sized, users, {}, {})
  BY <1>3, <1>4, SteadyLeads
<1>12. Leads(d, sized, users, {}, {})
  BY <1>11, LeadsTwice
<1>13. Leads(d, trimmed, users, {}, {})
  BY <1>10, <1>12, LeadsTwice
<1> QED  BY <1>1, <1>13, LeadsSame

-----------------------------------------------------------------------------
(* accounts *)

LEMMA CreateMailboxSteady ==
  ASSUME NEW d, NEW users, Sound(d, users), DefaultSlot \in Nat, NEW acc, NEW name, NEW type \in DOMAIN TypeOrder,
         NEW local \in BOOLEAN, NEW e, e = emcore_create_mailbox(d, acc, name, type, local)
  PROVE  Sound(e, users) /\ Steady(d, e) /\ e.account = d.account
BY AddMailboxRow DEF emcore_create_mailbox

CreateKeep(p, e) == Sound(e, p[2]) /\ Steady(p[1], e) /\ e.account = p[1].account
Creates == INSTANCE IterateProofs WITH Step <- CreateDefault, Keep <- CreateKeep

LEMMA CreatingSteady ==
  ASSUME NEW d, NEW users, Sound(d, users), DefaultSlot \in Nat, NEW acc,
         NEW e, e = Creating!Over(acc, d, DefaultMailboxes)
  PROVE  Sound(e, users) /\ Steady(d, e) /\ e.account = d.account
<1> DEFINE p == <<d, users>>
           seq == DefaultMailboxes
<1>1. p[1] = d /\ p[2] = users
  OBVIOUS
<1> HIDE DEF p
<1>2. CreateKeep(p, d)
  BY <1>1, SteadySame DEF CreateKeep
<1>3. Len(seq) \in Nat /\ \A i \in 1 .. Len(seq) : seq[i].type \in DOMAIN TypeOrder
  BY DEF DefaultMailboxes, TypeOrder
<1> HIDE DEF seq
<1>4. ASSUME NEW i \in 1 .. Len(seq), NEW c, CreateKeep(p, c) PROVE CreateKeep(p, CreateDefault(acc, c, seq[i]))
  <2> DEFINE x == CreateDefault(acc, c, seq[i])
             local == seq[i].name # "INBOX"
  <2>0. local \in BOOLEAN /\ x = emcore_create_mailbox(c, acc, seq[i].name, seq[i].type, local)
    BY DEF CreateDefault
  <2>1. Sound(c, users) /\ Steady(d, c) /\ c.account = d.account
    BY <1>1, <1>4 DEF CreateKeep
  <2> HIDE DEF x, local
  <2>2. Sound(x, users) /\ Steady(c, x) /\ x.account = c.account
    BY <1>3, <2>0, <2>1, CreateMailboxSteady
  <2>3. Steady(d, x)
    BY <2>1, <2>2, SteadyTwice
  <2> QED  BY <1>1, <2>1, <2>2, <2>3 DEF CreateKeep, x
<1>5. CreateKeep(p, Creates!Over(acc, d, seq))
  BY <1>2, <1>3, <1>4, Creates!Kept
<1>6. Creating!Over(acc, d, seq) = Creates!Over(acc, d, seq)
  BY DEF Creating!Over, Creates!Over
<1> QED  BY <1>1, <1>5, <1>6 DEF CreateKeep, seq

LEMMA CreateAccountSteady ==
  ASSUME NEW d, NEW users, Sound(d, users), DefaultSlot \in Nat, NEW user \in users, NEW kind \in {"imap", "pop3"},
         NEW e, e = emcore_create_account(d, user, kind)
  PROVE  Sound(e, users) /\ Steady(d, e) /\ Known(e, NextId(d.account))
<1> DEFINE added == emstorage_add_account(d, user, kind, DefaultSlot)
           acc == NextId(d.account)
           made == Creating!Over(acc, added, DefaultMailboxes)
<1>1. e = added \/ e = made
  BY DEF emcore_create_account
<1>2. Sound(added, users) /\ Steady(d, added) /\ Known(added, acc)
  BY AddAccount
<1> HIDE DEF added
<1>3. Sound(made, users) /\ Steady(added, made) /\ made.account = added.account
  BY <1>2, CreatingSteady
<1> HIDE DEF made
<1>4. Steady(d, made)
  BY <1>2, <1>3, SteadyTwice
<1>5. Known(made, acc)
  BY <1>2, <1>3 DEF Known, emcore_get_account_reference, emstorage_get_account_by_id
<1> QED  BY <1>1, <1>2, <1>3, <1>4, <1>5

LEMMA SyncFlagsAre ==
  ASSUME NEW d, NEW users, Sound(d, users), NEW acc
  PROVE  emstorage_get_sync_status_of_account(d, acc) \in Flags
BY SoundIs DEF Accounts, emstorage_get_sync_status_of_account, Flags

LEMMA FinalizeSteady ==
  ASSUME NEW d, NEW users, Sound(d, users), NEW acc, NEW e, e = emcore_finalize_sync(d, acc)
  PROVE  Sound(e, users) /\ Steady(d, e)
<1> DEFINE over == emstorage_update_sync_status_of_account(d, acc, "minus", {"syncing"})
           told == emstorage_update_sync_status_of_account(over, acc, "minus", {"new"})
<1>1. e = over \/ e = told
  BY DEF emcore_finalize_sync
<1>2. {"syncing"} \in Flags /\ {"new"} \in Flags
  BY DEF Flags
<1>3. Sound(over, users) /\ Steady(d, over)
  BY <1>2, UpdateSync
<1> HIDE DEF over
<1>4. Sound(told, users) /\ Steady(over, told)
  BY <1>2, <1>3, UpdateSync
<1> HIDE DEF told
<1>5. Steady(d, told)
  BY <1>3, <1>4, SteadyTwice
<1> QED  BY <1>1, <1>3, <1>4, <1>5

\* What is the account's goes, and only that.
LEMMA DeleteAccountLeads ==
  ASSUME NEW d, NEW users, Sound(d, users), NEW acc, NEW e, e = emcore_delete_account(d, acc)
  PROVE  Leads(d, e, users, {}, {}) /\ e.mail = {m \in d.mail : m.acc # acc}
<1> DEFINE a == emstorage_delete_account(d, acc)
           b == emstorage_delete_mail_by_account(a, acc)
           c == emstorage_delete_attachment_all_on_db(b, acc)
           f == emstorage_delete_dir(c, acc, {0})
           g == emstorage_delete_meeting_request(f, acc, {0})
           h == emstorage_delete_mailbox(g, acc, Both, 0)
<1>0. IsDb(d)
  BY SoundIs
<1>1. e = [h EXCEPT !.uid = {u \in h.uid : u.acc # acc}]
  BY DEF emcore_delete_account, emcore_delete_all_mails_of_acount
<1>2. IsDb(a) /\ a = [d EXCEPT !.account = {x \in d.account : x.id # acc}]
  BY <1>0 DEF emstorage_delete_account, IsDb, HasFields
<1> HIDE DEF a
<1>3. IsDb(b) /\ b = [a EXCEPT !.mail = {m \in a.mail : m.acc # acc}, !.uid = {u \in a.uid : u.acc # acc}]
  BY <1>2 DEF emstorage_delete_mail_by_account, IsDb, HasFields
<1> HIDE DEF b
<1>4. IsDb(c) /\ c = [b EXCEPT !.att = {x \in b.att : x.acc # acc}]
  BY <1>3 DEF emstorage_delete_attachment_all_on_db, IsDb, HasFields
<1> HIDE DEF c
<1>5. IsDb(f) /\ f = [c EXCEPT !.dir = {x \in c.dir : x.acc # acc}]
  BY <1>4 DEF emstorage_delete_dir, IsDb, HasFields
<1> HIDE DEF f
<1>6. IsDb(g) /\ g = [f EXCEPT !.meet = {x \in f.meet : x.acc # acc}]
  BY <1>5 DEF emstorage_delete_meeting_request, IsDb, HasFields
<1> HIDE DEF g
<1>7. IsDb(h) /\ h = [g EXCEPT !.box = {x \in g.box : ~(x.acc = acc /\ x.local \in Both)}]
  BY <1>6 DEF emstorage_delete_mailbox, IsDb, HasFields
<1> HIDE DEF h
<1>8. IsDb(e)
  BY <1>1, <1>7 DEF IsDb, HasFields
<1>9. /\ a.account \subseteq d.account /\ a.next = d.next /\ a.rule = d.rule /\ a.att = d.att /\ a.uid = d.uid
      /\ a.mail = d.mail /\ a.dir = d.dir /\ a.meet = d.meet /\ a.box = d.box
  BY <1>0, <1>2 DEF IsDb, HasFields
<1>10. /\ b.account = a.account /\ b.next = a.next /\ b.rule = a.rule /\ b.att = a.att /\ b.uid \subseteq a.uid
       /\ b.mail = {m \in a.mail : m.acc # acc} /\ b.dir = a.dir /\ b.meet = a.meet /\ b.box = a.box
  BY <1>2, <1>3 DEF IsDb, HasFields
<1>11. /\ c.account = b.account /\ c.next = b.next /\ c.rule = b.rule /\ c.att \subseteq b.att /\ c.uid = b.uid
       /\ c.mail = b.mail /\ c.dir = b.dir /\ c.meet = b.meet /\ c.box = b.box
  BY <1>3, <1>4 DEF IsDb, HasFields
<1>12. /\ f.account = c.account /\ f.next = c.next /\ f.rule = c.rule /\ f.att = c.att /\ f.uid = c.uid
       /\ f.mail = c.mail /\ f.dir = {x \in c.dir : x.acc # acc} /\ f.meet = c.meet /\ f.box = c.box
  BY <1>4, <1>5 DEF IsDb, HasFields
<1>13. /\ g.account = f.account /\ g.next = f.next /\ g.rule = f.rule /\ g.att = f.att /\ g.uid = f.uid
       /\ g.mail = f.mail /\ g.dir = f.dir /\ g.meet = {x \in f.meet : x.acc # acc} /\ g.box = f.box
  BY <1>5, <1>6 DEF IsDb, HasFields
<1>14. /\ h.account = g.account /\ h.next = g.next /\ h.rule = g.rule /\ h.att = g.att /\ h.uid = g.uid
       /\ h.mail = g.mail /\ h.dir = g.dir /\ h.meet = g.meet /\ h.box = {x \in g.box : ~(x.acc = acc /\ x.local \in Both)}
  BY <1>6, <1>7 DEF IsDb, HasFields
<1>15. /\ e.account = h.account /\ e.next = h.next /\ e.rule = h.rule /\ e.att = h.att /\ e.uid \subseteq h.uid
       /\ e.mail = h.mail /\ e.dir = h.dir /\ e.meet = h.meet /\ e.box = h.box
  BY <1>1, <1>7 DEF IsDb, HasFields
<1>16. /\ e.account \subseteq d.account /\ e.next = d.next /\ e.rule = d.rule /\ e.att \subseteq d.att /\ e.uid \subseteq d.uid
       /\ e.mail = {m \in d.mail : m.acc # acc} /\ e.dir = {x \in d.dir : x.acc # acc} /\ e.meet = {x \in d.meet : x.acc # acc}
       /\ e.box \subseteq d.box /\ \A x \in d.box : x \in e.box \/ x.acc = acc
  <2>1. e.account \subseteq d.account /\ e.next = d.next /\ e.rule = d.rule /\ e.att \subseteq d.att /\ e.uid \subseteq d.uid
    BY <1>9, <1>10, <1>11, <1>12, <1>13, <1>14, <1>15
  <2>2. e.mail = {m \in d.mail : m.acc # acc} /\ e.dir = {x \in d.dir : x.acc # acc} /\ e.meet = {x \in d.meet : x.acc # acc}
    BY <1>9, <1>10, <1>11, <1>12, <1>13, <1>14, <1>15
  <2>3. e.box \subseteq d.box /\ \A x \in d.box : x \in e.box \/ x.acc = acc
    BY <1>9, <1>10, <1>11, <1>12, <1>13, <1>14, <1>15 DEF Both
  <2> QED  BY <2>1, <2>2, <2>3
<1> HIDE DEF a, b, c, f, g, h
<1>17. /\ Accounts(d.account, users) /\ Boxed(d.box) /\ Mailed(d.mail, d.next) /\ Counted(d.mail)
       /\ Keyed(d.att, AttFields) /\ Keyed(d.rule, RuleFields) /\ Uids(d.uid) /\ Meetings(d.meet) /\ Dirs(d.dir)
       /\ OfAccounts(d.dir, d.mail, d.next) /\ OfAccounts(d.meet, d.mail, d.next)
  BY SoundIs
<1>18. Sound(e, users)
  <2>1. Accounts(e.account, users) /\ Boxed(e.box) /\ Keyed(e.att, AttFields) /\ Keyed(e.rule, RuleFields)
    BY <1>16, <1>17 DEF Accounts, Boxed, Keyed
  <2>2. Mailed(e.mail, e.next) /\ Counted(e.mail)
    BY <1>16, <1>17 DEF Mailed, Counted
  <2>3. Uids(e.uid)
    BY <1>16, <1>17, FS_Subset DEF Uids
  <2>4. Meetings(e.meet) /\ Dirs(e.dir)
    BY <1>16, <1>17 DEF Meetings, Dirs
  <2>5. OfAccounts(e.dir, e.mail, e.next) /\ OfAccounts(e.meet, e.mail, e.next)
    BY <1>16, <1>17 DEF OfAccounts
  <2> QED  BY <1>8, <2>1, <2>2, <2>3, <2>4, <2>5, SoundIs
<1>19. Descends(d, e)
  BY <1>16, <1>17 DEF Descends, Mailed
<1>20. KeepsFiles(d, e, {})
  <2> SUFFICES ASSUME NEW m \in d.mail, NEW k \in e.mail, k.id = m.id
               PROVE  /\ \A x \in d.dir : x.mail = m.id => x \in e.dir
                      /\ \A y \in d.meet : y.mail = m.id => y \in e.meet
    BY DEF KeepsFiles
  <2>1. k = m /\ m.acc # acc
    BY <1>16, <1>17 DEF Mailed
  <2>2. (\A x \in d.dir : x.mail = m.id => x.acc = m.acc) /\ \A y \in d.meet : y.mail = m.id => y.acc = m.acc
    BY <1>17 DEF OfAccounts
  <2> QED  BY <1>16, <2>1, <2>2
<1>21. ASSUME NEW strays, Housed(d, strays) PROVE Housed(e, strays \cup {})
  BY <1>16, <1>21 DEF Housed
<1> QED  BY <1>16, <1>18, <1>19, <1>20, <1>21 DEF Leads

-----------------------------------------------------------------------------
(* the folders of the servers *)

LEMMA ImageIsFinite ==
  ASSUME NEW S, IsFiniteSet(S), NEW f
  PROVE  IsFiniteSet({f[x] : x \in S})
<1> DEFINE T == {f[x] : x \in S}
           g == [x \in S |-> f[x]]
<1>1. g \in Surjection(S, T)
  BY DEF Surjection
<1> HIDE DEF g, T
<1>2. IsFiniteSet(T)
  BY <1>1, FS_Surjection
<1> QED  BY <1>2 DEF T

\* s has the users, and folders that are sound.
Serving(s, users) == Servers(s) /\ DOMAIN s = users
\* sel is a folder that s has.
Chosen(s, sel) == sel.user \in DOMAIN s /\ sel.folder \in DOMAIN s[sel.user]
\* The folders that s had, t has.
Shows(s, t) == \A sel : Chosen(s, sel) => Chosen(t, sel)

LEMMA FolderSet ==
  ASSUME NEW s, NEW users, Serving(s, users), NEW sel, sel.user \in users, sel.folder \in DOMAIN FolderType,
         NEW f, Folder(f), NEW t, t = SetFolder(s, sel, f)
  PROVE  Serving(t, users) /\ Shows(s, t) /\ Chosen(t, sel)
<1> DEFINE new == [g \in DOMAIN s[sel.user] \cup {sel.folder} |-> IF g = sel.folder THEN f ELSE s[sel.user][g]]
<1>1. t = [s EXCEPT ![sel.user] = new]
  BY DEF SetFolder
<1>2. DOMAIN new = DOMAIN s[sel.user] \cup {sel.folder}
  OBVIOUS
<1>3. \A g \in DOMAIN new : new[g] = IF g = sel.folder THEN f ELSE s[sel.user][g]
  OBVIOUS
<1> HIDE DEF new
<1>4. DOMAIN s = users /\ sel.user \in DOMAIN s
  BY DEF Serving
<1>5. DOMAIN t = users /\ t[sel.user] = new /\ \A u \in users : u # sel.user => t[u] = s[u]
  BY <1>1, <1>4
<1>6. Servers(t)
  <2> SUFFICES ASSUME NEW u \in users
               PROVE  /\ IsFiniteSet(DOMAIN t[u]) /\ DOMAIN t[u] \subseteq DOMAIN FolderType
                      /\ \A g \in DOMAIN t[u] : Folder(t[u][g])
    BY <1>5 DEF Servers
  <2>1. /\ IsFiniteSet(DOMAIN s[u]) /\ DOMAIN s[u] \subseteq DOMAIN FolderType
        /\ \A g \in DOMAIN s[u] : Folder(s[u][g])
    BY DEF Serving, Servers
  <2>2. CASE u # sel.user
    BY <1>5, <2>1, <2>2
  <2>3. CASE u = sel.user
    <3>1. IsFiniteSet(DOMAIN new)
      BY <1>2, <2>1, <2>3, FS_AddElement
    <3>2. \A g \in DOMAIN new : Folder(new[g])
      BY <1>2, <1>3, <2>1, <2>3
    <3>3. t[u] = new /\ DOMAIN new \subseteq DOMAIN FolderType
      BY <1>2, <1>5, <2>1, <2>3
    <3> QED  BY <3>1, <3>2, <3>3
  <2> QED  BY <2>2, <2>3
<1>7. Shows(s, t)
  BY <1>2, <1>4, <1>5 DEF Shows, Chosen
<1>8. Chosen(t, sel)
  BY <1>2, <1>5 DEF Chosen
<1> QED  BY <1>5, <1>6, <1>7, <1>8 DEF Serving

\* Messages of a folder: as many as can be counted, each with a uid of its own.
Messages(msgs, next) ==
    /\ IsFiniteSet(msgs)
    /\ \A x \in msgs : HasFields(x, {"uid", "msg", "seen", "del"}) /\ x.uid \in Nat /\ x.uid < next /\ x.msg \in Nat
    /\ \A x, y \in msgs : x.uid = y.uid => x = y

LEMMA FolderIs ==
  ASSUME NEW s, NEW users, Serving(s, users), NEW sel, Chosen(s, sel)
  PROVE  /\ sel.user \in users /\ sel.folder \in DOMAIN FolderType
         /\ HasFields(FolderOf(s, sel), {"next", "msgs"}) /\ FolderOf(s, sel).next \in Nat
         /\ Messages(FolderOf(s, sel).msgs, FolderOf(s, sel).next)
BY DEF Serving, Servers, Chosen, FolderOf, Folder, Messages

LEMMA MessagesSet ==
  ASSUME NEW s, NEW users, Serving(s, users), NEW sel, Chosen(s, sel), NEW msgs, Messages(msgs, FolderOf(s, sel).next),
         NEW t, t = SetMessages(s, sel, msgs)
  PROVE  Serving(t, users) /\ Shows(s, t)
<1> DEFINE f == [FolderOf(s, sel) EXCEPT !.msgs = msgs]
<1>1. Folder(f)
  BY FolderIs DEF HasFields, Folder, Messages
<1>2. t = SetFolder(s, sel, f)
  BY DEF SetMessages
<1>3. sel.user \in users /\ sel.folder \in DOMAIN FolderType
  BY FolderIs
<1> HIDE DEF f
<1> QED  BY <1>1, <1>2, <1>3, FolderSet

LEMMA FewerMessages ==
  ASSUME NEW s, NEW users, Serving(s, users), NEW sel, Chosen(s, sel), NEW msgs \in SUBSET FolderOf(s, sel).msgs,
         NEW t, t = SetMessages(s, sel, msgs)
  PROVE  Serving(t, users) /\ Shows(s, t)
<1>1. Messages(msgs, FolderOf(s, sel).next)
  BY FolderIs, FS_Subset DEF Messages
<1> QED  BY <1>1, MessagesSet

LEMMA Stored ==
  ASSUME NEW s, NEW users, Serving(s, users), NEW sel, Chosen(s, sel), NEW uids, NEW field, NEW value,
         NEW t, t = Store(s, sel, uids, field, value)
  PROVE  Serving(t, users) /\ Shows(s, t)
<1> DEFINE old == FolderOf(s, sel).msgs
           g == [x \in old |-> IF x.uid \in uids
                               THEN IF field = "seen" THEN [x EXCEPT !.seen = value] ELSE [x EXCEPT !.del = value]
                               ELSE x]
           msgs == {g[x] : x \in old}
<1>1. t = SetMessages(s, sel, msgs)
  BY DEF Store, Update
<1>2. Messages(old, FolderOf(s, sel).next)
  BY FolderIs
<1>3. \A x \in old : HasFields(g[x], {"uid", "msg", "seen", "del"}) /\ g[x].uid = x.uid /\ g[x].msg = x.msg
  BY <1>2 DEF Messages, HasFields
<1> HIDE DEF g
<1>4. IsFiniteSet(msgs)
  BY <1>2, ImageIsFinite DEF Messages
<1> HIDE DEF old
<1>5. Messages(msgs, FolderOf(s, sel).next)
  BY <1>2, <1>3, <1>4 DEF Messages
<1> HIDE DEF msgs
<1> QED  BY <1>1, <1>5, MessagesSet

LEMMA Expunged ==
  ASSUME NEW s, NEW users, Serving(s, users), NEW sel, Chosen(s, sel), NEW uids,
         NEW t, t = Expunge(s, sel) \/ t = UidExpunge(s, sel, uids)
  PROVE  Serving(t, users) /\ Shows(s, t)
<1> DEFINE a == {x \in FolderOf(s, sel).msgs : ~x.del}
           b == {x \in FolderOf(s, sel).msgs : ~(x.del /\ x.uid \in uids)}
<1>1. t = SetMessages(s, sel, a) \/ t = SetMessages(s, sel, b)
  BY DEF Expunge, UidExpunge
<1>2. a \in SUBSET FolderOf(s, sel).msgs /\ b \in SUBSET FolderOf(s, sel).msgs
  OBVIOUS
<1> HIDE DEF a, b
<1> QED  BY <1>1, <1>2, FewerMessages
LEMMA SortedUids ==
  ASSUME NEW S, IsFiniteSet(S), S \subseteq Nat
  PROVE  LET sorted == Sorted(S, LAMBDA a, b : a < b) IN
         /\ \E n \in Nat : DOMAIN sorted = 1 .. n /\ sorted = [i \in 1 .. n |-> sorted[i]]
         /\ \A i \in DOMAIN sorted : sorted[i] \in S
<1> DEFINE R == {p \in S \X S : p[1] < p[2]}
           n == Cardinality(S)
           sorted == Sorted(S, LAMBDA a, b : a < b)
<1>1. n \in Nat
  BY FS_CardinalityType
<1>2. ASSUME NEW i \in 1 .. n PROVE \E r \in S : Cardinality(Below(S, R, r)) = i - 1
  <2>1. \A x \in S : <<x, x>> \notin R
    OBVIOUS
  <2>2. \A x, y \in S : x # y => <<x, y>> \in R \/ <<y, x>> \in R
    OBVIOUS
  <2>3. \A x, y, z \in S : <<x, y>> \in R /\ <<y, z>> \in R => <<x, z>> \in R
    OBVIOUS
  <2> HIDE DEF R
  <2> QED  BY <2>1, <2>2, <2>3, Ranks
<1>3. ASSUME NEW r \in S PROVE Below(S, R, r) = {q \in S : q < r}
  BY DEF Below
<1> HIDE DEF R
<1>4. sorted = [i \in 1 .. n |-> CHOOSE r \in S : Cardinality({q \in S : q < r}) = i - 1]
  BY DEF Sorted
<1>5. ASSUME NEW i \in 1 .. n PROVE (CHOOSE r \in S : Cardinality({q \in S : q < r}) = i - 1) \in S
  BY <1>2, <1>3
<1>6. sorted \in [1 .. n -> S]
  BY <1>4, <1>5
<1> HIDE DEF sorted, n
<1>7. DOMAIN sorted = 1 .. n /\ sorted = [i \in 1 .. n |-> sorted[i]] /\ \A i \in 1 .. n : sorted[i] \in S
  BY <1>6
<1> QED  BY <1>1, <1>7 DEF sorted

\* The uids of copies are new in their folder, one for each.
LEMMA PairsAre ==
  ASSUME NEW s, NEW users, Serving(s, users), NEW sel, Chosen(s, sel), NEW dst, Chosen(s, dst), NEW uids,
         NEW pairs, pairs = CopyUids(s, sel, dst, uids)
  PROVE  \E n \in Nat : /\ DOMAIN pairs = 1 .. n /\ Len(pairs) = n
                        /\ \A i \in 1 .. n : pairs[i].new = FolderOf(s, dst).next + i - 1
<1> DEFINE found == MessagesOf(s, sel, uids)
           f == [x \in found |-> x.uid]
           S == {f[x] : x \in found}
           sorted == Sorted(S, LAMBDA a, b : a < b)
<1>1. Messages(FolderOf(s, sel).msgs, FolderOf(s, sel).next)
  BY FolderIs
<1>2. IsFiniteSet(found) /\ \A x \in found : x.uid \in Nat
  BY <1>1, FS_Subset DEF Messages, MessagesOf
<1>3. S = {x.uid : x \in found} /\ S \subseteq Nat
  BY <1>2
<1>4. pairs = [i \in DOMAIN sorted |-> [old |-> sorted[i], new |-> FolderOf(s, dst).next + i - 1]]
  BY <1>3 DEF CopyUids
<1> HIDE DEF f
<1>5. IsFiniteSet(S)
  BY <1>2, ImageIsFinite
<1> HIDE DEF S
<1>6. PICK n \in Nat : DOMAIN sorted = 1 .. n
  BY <1>3, <1>5, SortedUids
<1> HIDE DEF sorted
<1>7. DOMAIN pairs = 1 .. n /\ \A i \in 1 .. n : pairs[i].new = FolderOf(s, dst).next + i - 1
  BY <1>4, <1>6
<1>8. Len(pairs) = n
  <2>1. pairs = [i \in 1 .. n |-> pairs[i]]
    BY <1>4, <1>6
  <2> QED  BY <2>1
<1> QED  BY <1>7, <1>8

LEMMA Copied ==
  ASSUME NEW s, NEW users, Serving(s, users), NEW sel, Chosen(s, sel), NEW dst, Chosen(s, dst), NEW uids,
         NEW t, t = Copy(s, sel, dst, uids)
  PROVE  Serving(t, users) /\ Shows(s, t)
<1> DEFINE pairs == CopyUids(s, sel, dst, uids)
           found == MessagesOf(s, sel, uids)
           to == FolderOf(s, dst)
           copies == UNION {{[x EXCEPT !.uid = p.new] : p \in {p \in Range(pairs) : p.old = x.uid}} : x \in found}
           f == [next |-> to.next + Len(pairs), msgs |-> to.msgs \cup copies]
<1>1. t = SetFolder(s, dst, f)
  BY DEF Copy
<1>2. dst.user \in users /\ dst.folder \in DOMAIN FolderType /\ to.next \in Nat /\ Messages(to.msgs, to.next)
  BY FolderIs
<1>3. IsFiniteSet(found) /\ \A x \in found : HasFields(x, {"uid", "msg", "seen", "del"}) /\ x.uid \in Nat /\ x.msg \in Nat
  BY FolderIs, FS_Subset DEF Messages, MessagesOf
<1>4. \A x, y \in found : x.uid = y.uid => x = y
  BY FolderIs DEF Messages, MessagesOf
<1> HIDE DEF found
<1>5. PICK n \in Nat : /\ DOMAIN pairs = 1 .. n /\ Len(pairs) = n
                      /\ \A i \in 1 .. n : pairs[i].new = to.next + i - 1
  BY PairsAre
<1> HIDE DEF pairs, to
<1>6. ASSUME NEW c \in copies
      PROVE  \E x \in found, i \in 1 .. n : pairs[i].old = x.uid /\ c = [x EXCEPT !.uid = to.next + i - 1]
  <2>1. PICK x \in found, p \in Range(pairs) : p.old = x.uid /\ c = [x EXCEPT !.uid = p.new]
    OBVIOUS
  <2>2. PICK i \in 1 .. n : p = pairs[i]
    BY <1>5 DEF Range
  <2> QED  BY <1>5, <2>1, <2>2
<1>7. ASSUME NEW c \in copies
      PROVE  /\ HasFields(c, {"uid", "msg", "seen", "del"}) /\ c.msg \in Nat
             /\ c.uid \in Nat /\ to.next <= c.uid /\ c.uid < to.next + n
  <2>1. PICK x \in found, i \in 1 .. n : c = [x EXCEPT !.uid = to.next + i - 1]
    BY <1>6
  <2>2. to.next + i - 1 \in Nat /\ to.next <= to.next + i - 1 /\ to.next + i - 1 < to.next + n
    BY <1>2
  <2>3. HasFields(c, {"uid", "msg", "seen", "del"}) /\ c.msg = x.msg /\ c.uid = to.next + i - 1
    BY <1>3, <2>1 DEF HasFields
  <2> QED  BY <1>3, <2>2, <2>3
<1>8. ASSUME NEW b \in copies, NEW c \in copies, b.uid = c.uid PROVE b = c
  <2>1. PICK x \in found, i \in 1 .. n : pairs[i].old = x.uid /\ b = [x EXCEPT !.uid = to.next + i - 1]
    BY <1>6
  <2>2. PICK y \in found, j \in 1 .. n : pairs[j].old = y.uid /\ c = [y EXCEPT !.uid = to.next + j - 1]
    BY <1>6
  <2>3. b.uid = to.next + i - 1 /\ c.uid = to.next + j - 1
    BY <1>3, <2>1, <2>2 DEF HasFields
  <2>4. i = j
    <3>1. to.next + i - 1 = to.next + j - 1
      BY <1>8, <2>3
    <3>2. to.next \in Nat
      BY <1>2
    <3> QED  BY <3>1, <3>2
  <2>5. x = y
    BY <1>4, <2>1, <2>2, <2>4
  <2> QED  BY <2>1, <2>2, <2>4, <2>5
<1>9. IsFiniteSet(copies)
  <2> DEFINE g == [p \in found \X (1 .. n) |-> [p[1] EXCEPT !.uid = to.next + p[2] - 1]]
             all == {g[p] : p \in found \X (1 .. n)}
  <2>1. IsFiniteSet(1 .. n)
    BY FS_Interval
  <2>2. IsFiniteSet(found \X (1 .. n))
    BY <1>3, <2>1, FS_Product
  <2>3. copies \subseteq all
    <3> SUFFICES ASSUME NEW c \in copies PROVE c \in all
      OBVIOUS
    <3>1. PICK x \in found, i \in 1 .. n : c = [x EXCEPT !.uid = to.next + i - 1]
      BY <1>6
    <3>2. <<x, i>> \in found \X (1 .. n) /\ c = g[<<x, i>>]
      BY <3>1
    <3> QED  BY <3>2
  <2> HIDE DEF g, copies
  <2>4. IsFiniteSet(all)
    BY <2>2, ImageIsFinite
  <2> QED  BY <2>3, <2>4, FS_Subset
<1> HIDE DEF copies
<1>10. Folder(f)
  <2> DEFINE msgs == to.msgs \cup copies
             next == to.next + n
  <2>1. next \in Nat /\ f = [next |-> next, msgs |-> msgs]
    BY <1>2, <1>5
  <2>2. IsFiniteSet(msgs)
    BY <1>2, <1>9, FS_Union DEF Messages
  <2>3. \A x \in msgs : HasFields(x, {"uid", "msg", "seen", "del"}) /\ x.uid \in Nat /\ x.uid < next /\ x.msg \in Nat
    BY <1>2, <1>7 DEF Messages
  <2>4. \A x, y \in msgs : x.uid = y.uid => x = y
    BY <1>2, <1>7, <1>8 DEF Messages
  <2> HIDE DEF msgs, next, f
  <2> QED  BY <2>1, <2>2, <2>3, <2>4 DEF Folder, HasFields
<1> HIDE DEF f
<1> QED  BY <1>1, <1>2, <1>10, FolderSet

-----------------------------------------------------------------------------
(* what is selected, and what the functions leave *)

\* r is what a function may leave: users have the servers, and d leads on to it.
Answers(d, s, r, users, more) ==
    /\ HasFields(r, {"d", "s", "ok"}) /\ Leads(d, r.d, users, {}, more)
    /\ Serving(r.s, users) /\ r.ok \in BOOLEAN
\* And all of them but that which lists the mailboxes leave the threads as they are.
Serves(d, s, r, users, more) == Answers(d, s, r, users, more) /\ Knots(r.d.mail) = Knots(d.mail)

LEMMA Selected1 ==
  ASSUME NEW d, NEW s, NEW users, Sound(d, users), Serving(s, users), NEW acc, NEW box, NEW net,
         NEW sel \in emcore_connect_to_remote_mailbox(d, s, acc, box, net)
  PROVE  Chosen(s, sel) /\ Known(d, acc) /\ HasFields(sel, {"user", "folder"})
<1> DEFINE named == IF box = 0 THEN {"INBOX"} ELSE {b.name : b \in emstorage_get_mailbox_by_id(d, box)}
<1>1. PICK a \in emcore_get_account_reference(d, acc),
           f \in {f \in named : \E a \in emcore_get_account_reference(d, acc) : f \in Folders(s, a.user)} :
              sel = [user |-> a.user, folder |-> f]
  BY DEF emcore_connect_to_remote_mailbox
<1>2. PICK b \in emcore_get_account_reference(d, acc) : f \in Folders(s, b.user)
  BY <1>1
<1>3. Accounts(d.account, users)
  BY SoundIs
<1>4. a = b /\ a.user \in users
  BY <1>3 DEF Accounts, Keyed, emcore_get_account_reference, emstorage_get_account_by_id
<1> QED  BY <1>1, <1>2, <1>4 DEF Chosen, Folders, Known, Serving, HasFields

\* The first of what is selected, when anything is.
LEMMA TheSelected ==
  ASSUME NEW d, NEW s, NEW users, Sound(d, users), Serving(s, users), NEW acc, NEW box, NEW net,
         NEW sel, sel = emcore_connect_to_remote_mailbox(d, s, acc, box, net), sel # {}
  PROVE  Chosen(s, The(sel)) /\ Known(d, acc) /\ HasFields(The(sel), {"user", "folder"})
<1>1. The(sel) \in sel
  BY DEF The
<1> QED  BY <1>1, Selected1

LEMMA FailedIs ==
  ASSUME NEW d, NEW s, NEW r, r = Failed(d, s)
  PROVE  r.ok = FALSE
BY DEF Failed

LEMMA DoneIs ==
  ASSUME NEW d, NEW s, NEW r, r = Done(d, s)
  PROVE  r.ok = TRUE /\ r.d = d
BY DEF Done

LEMMA ResultIs ==
  ASSUME NEW d, NEW s, NEW r, r = Failed(d, s) \/ r = Done(d, s)
  PROVE  HasFields(r, {"d", "s", "ok"}) /\ r.d = d /\ r.s = s /\ r.ok \in BOOLEAN
<1>1. CASE r = Failed(d, s)
  BY <1>1 DEF Failed, HasFields
<1>2. CASE r = Done(d, s)
  BY <1>2 DEF Done, HasFields
<1> QED  BY <1>1, <1>2

LEMMA FailedServes ==
  ASSUME NEW d, NEW s, NEW users, Sound(d, users), Serving(s, users), NEW r, r = Failed(d, s) \/ r = Done(d, s)
  PROVE  Serves(d, s, r, users, {})
<1>1. HasFields(r, {"d", "s", "ok"}) /\ r.d = d /\ r.s = s /\ r.ok \in BOOLEAN
  BY ResultIs
<1> QED  BY <1>1, LeadsSame DEF Serves, Answers

LEMMA DoneAnswers ==
  ASSUME NEW d, NEW s, NEW users, NEW more, NEW e, Leads(d, e, users, {}, more), NEW t, Serving(t, users),
         NEW r, r = Failed(e, t) \/ r = Done(e, t)
  PROVE  Answers(d, s, r, users, more) /\ r.d = e
<1>1. HasFields(r, {"d", "s", "ok"}) /\ r.d = e /\ r.s = t /\ r.ok \in BOOLEAN
  BY ResultIs
<1> QED  BY <1>1 DEF Answers

LEMMA DoneServes ==
  ASSUME NEW d, NEW s, NEW users, NEW more, NEW e, Leads(d, e, users, {}, more), Knots(e.mail) = Knots(d.mail),
         NEW t, Serving(t, users), NEW r, r = Failed(e, t) \/ r = Done(e, t)
  PROVE  Serves(d, s, r, users, more)
BY DoneAnswers DEF Serves

LEMMA CreateOnServer ==
  ASSUME NEW d, NEW s, NEW users, Sound(d, users), Serving(s, users), DefaultSlot \in Nat,
         NEW acc, NEW name \in DOMAIN FolderType, NEW net,
         NEW r, r = emcore_create_mailbox_on_server(d, s, acc, name, "user", net)
  PROVE  Serves(d, s, r, users, {})
<1> DEFINE sel == emcore_connect_to_remote_mailbox(d, s, acc, 0, net)
           to == [The(sel) EXCEPT !.folder = name]
           e == emcore_create_mailbox(d, acc, name, "user", FALSE)
           t == SetFolder(s, to, EmptyFolder(1))
<1>1. r = Failed(d, s) \/ (sel # {} /\ r = Done(e, t))
  BY DEF emcore_create_mailbox_on_server
<1>2. CASE r = Failed(d, s)
  BY <1>2, FailedServes
<1>3. CASE sel # {} /\ r = Done(e, t)
  <2>1. Chosen(s, The(sel)) /\ HasFields(The(sel), {"user", "folder"})
    BY <1>3, TheSelected
  <2> HIDE DEF sel
  <2>2. to.user \in users /\ to.folder \in DOMAIN FolderType
    BY <2>1 DEF Serving, Chosen, HasFields
  <2> HIDE DEF to
  <2>3. Folder(EmptyFolder(1))
    BY FS_EmptySet DEF Folder, EmptyFolder, HasFields
  <2>4. Serving(t, users)
    BY <2>2, <2>3, FolderSet
  <2>5. "user" \in DOMAIN TypeOrder /\ FALSE \in BOOLEAN
    BY DEF TypeOrder
  <2>6. Sound(e, users) /\ Steady(d, e)
    BY <2>5, CreateMailboxSteady
  <2> HIDE DEF e, t
  <2>7. Leads(d, e, users, {}, {}) /\ Knots(e.mail) = Knots(d.mail)
    BY <2>6, SteadyLeads DEF Steady
  <2> QED  BY <1>3, <2>4, <2>7, DoneServes
<1> QED  BY <1>1, <1>2, <1>3

LEMMA RenameOnServer ==
  ASSUME NEW d, NEW s, NEW users, Sound(d, users), Serving(s, users),
         NEW acc, NEW old, NEW new \in DOMAIN FolderType, NEW net,
         NEW r, r = emcore_move_mailbox_on_imap_server(d, s, acc, old, new, net)
  PROVE  Serves(d, s, r, users, {})
<1> DEFINE sel == emcore_connect_to_remote_mailbox(d, s, acc, 0, net)
           user == The(sel).user
           folders == [f \in (DOMAIN s[user] \ {old}) \cup {new} |-> IF f = new THEN s[user][old] ELSE s[user][f]]
           t == [s EXCEPT ![user] = folders]
<1>1. r = Failed(d, s) \/ (sel # {} /\ old \in DOMAIN s[user] /\ r = Done(d, t))
  BY DEF emcore_move_mailbox_on_imap_server
<1>2. CASE r = Failed(d, s)
  BY <1>2, FailedServes
<1>3. CASE sel # {} /\ old \in DOMAIN s[user] /\ r = Done(d, t)
  <2>1. Chosen(s, The(sel))
    BY <1>3, TheSelected
  <2> HIDE DEF sel
  <2>2. user \in users /\ DOMAIN s = users
    BY <2>1 DEF Serving, Chosen
  <2> HIDE DEF user
  <2>3. \A u \in users : /\ IsFiniteSet(DOMAIN s[u]) /\ DOMAIN s[u] \subseteq DOMAIN FolderType
                         /\ \A f \in DOMAIN s[u] : Folder(s[u][f])
    BY DEF Serving, Servers
  <2>4. DOMAIN folders \subseteq DOMAIN FolderType /\ \A f \in DOMAIN folders : Folder(folders[f])
    BY <1>3, <2>2, <2>3
  <2>5. IsFiniteSet(DOMAIN folders)
    <3>1. IsFiniteSet(DOMAIN s[user] \ {old})
      BY <2>2, <2>3, FS_Subset
    <3> QED  BY <3>1, FS_AddElement
  <2> HIDE DEF folders
  <2>6. DOMAIN t = users /\ t[user] = folders /\ \A u \in users : u # user => t[u] = s[u]
    BY <2>2
  <2> HIDE DEF t
  <2>7. Serving(t, users)
    BY <2>3, <2>4, <2>5, <2>6 DEF Serving, Servers
  <2>8. Leads(d, d, users, {}, {})
    BY LeadsSame
  <2> QED  BY <1>3, <2>7, <2>8, DoneServes
<1> QED  BY <1>1, <1>2, <1>3

\* A folder that goes takes no mail, so the mails of its mailbox are apart.
Apart(d, box) == {m.id : m \in {m \in d.mail : m.box = box}}

LEMMA DeleteBoxApart ==
  ASSUME NEW d, NEW users, Sound(d, users), NEW acc, NEW locals, NEW box, box # 0,
         NEW e, e = emstorage_delete_mailbox(d, acc, locals, box)
  PROVE  Leads(d, e, users, {}, Apart(e, box)) /\ Apart(e, box) = Apart(d, box) /\ e.account = d.account /\ e.mail = d.mail
<1>1. /\ Sound(e, users) /\ Descends(d, e) /\ KeepsFiles(d, e, {})
      /\ e.account = d.account /\ e.mail = d.mail /\ e.next = d.next
      /\ e.box \subseteq d.box /\ \A b \in d.box : b \in e.box \/ (b.id = box /\ b.acc = acc)
  BY DeleteMailbox1
<1>2. ASSUME NEW strays, Housed(d, strays) PROVE Housed(e, strays \cup Apart(e, box))
  BY <1>1, <1>2 DEF Housed, Apart
<1> QED  BY <1>1, <1>2 DEF Leads, Apart

LEMMA DeleteFolder ==
  ASSUME NEW d, NEW s, NEW users, Sound(d, users), Serving(s, users), NEW box, box # 0, NEW net,
         NEW r, r = emcore_delete_imap_mailbox(d, s, box, net)
  PROVE  Serves(d, s, r, users, Apart(d, box)) /\ Apart(r.d, box) = Apart(d, box)
<1> DEFINE found == emstorage_get_mailbox_by_id(d, box)
           sel == emcore_connect_to_remote_mailbox(d, s, The(found).acc, 0, net)
           user == The(sel).user
           name == The(found).name
           folders == [f \in DOMAIN s[user] \ {name} |-> s[user][f]]
           e == emstorage_delete_mailbox(d, The(found).acc, {FALSE}, box)
           t == [s EXCEPT ![user] = folders]
<1>1. r = Failed(d, s) \/ (sel # {} /\ r = Done(e, t))
  BY DEF emcore_delete_imap_mailbox
<1>2. CASE r = Failed(d, s)
  <2>1. Serves(d, s, r, users, {})
    BY <1>2, FailedServes
  <2>2. r.d = d
    BY <1>2 DEF Failed
  <2>3. Leads(d, r.d, users, {}, Apart(d, box))
    BY <2>1, LeadsMore DEF Serves, Answers
  <2> QED  BY <2>1, <2>2, <2>3 DEF Serves, Answers
<1>3. CASE sel # {} /\ r = Done(e, t)
  <2>1. Chosen(s, The(sel))
    BY <1>3, TheSelected
  <2> HIDE DEF sel
  <2>2. user \in users /\ DOMAIN s = users
    BY <2>1 DEF Serving, Chosen
  <2> HIDE DEF user
  <2>3. \A u \in users : /\ IsFiniteSet(DOMAIN s[u]) /\ DOMAIN s[u] \subseteq DOMAIN FolderType
                         /\ \A f \in DOMAIN s[u] : Folder(s[u][f])
    BY DEF Serving, Servers
  <2>4. DOMAIN folders \subseteq DOMAIN FolderType /\ \A f \in DOMAIN folders : Folder(folders[f])
    BY <2>2, <2>3
  <2>5. IsFiniteSet(DOMAIN folders)
    BY <2>2, <2>3, FS_Subset
  <2> HIDE DEF folders
  <2>6. DOMAIN t = users /\ t[user] = folders /\ \A u \in users : u # user => t[u] = s[u]
    BY <2>2
  <2>7. Leads(d, e, users, {}, Apart(e, box)) /\ Apart(e, box) = Apart(d, box) /\ e.mail = d.mail
    BY DeleteBoxApart
  <2> HIDE DEF t, e
  <2>8. Serving(t, users)
    BY <2>3, <2>4, <2>5, <2>6 DEF Serving, Servers
  <2>9. Leads(d, e, users, {}, Apart(d, box)) /\ r.d = e
    BY <1>3, <2>7 DEF Done
  <2> QED  BY <1>3, <2>7, <2>8, <2>9, DoneServes
<1> QED  BY <1>1, <1>2, <1>3

-----------------------------------------------------------------------------
(* the list of mailboxes *)

MarkKeep(p, e) == Sound(e, p[2]) /\ Steady(p[1], e) /\ e.account = p[1].account
Marks == INSTANCE IterateProofs WITH Step <- MarkFolder, Keep <- MarkKeep

LEMMA MarkingSteady ==
  ASSUME NEW d, NEW users, Sound(d, users), DefaultSlot \in Nat, NEW acc,
         NEW folders \in SUBSET DOMAIN FolderType, IsFiniteSet(folders),
         NEW e, e = Marking!Over(acc, d, SetToSeq(folders))
  PROVE  Sound(e, users) /\ Steady(d, e) /\ e.account = d.account
<1> DEFINE p == <<d, users>>
           seq == SetToSeq(folders)
           n == Cardinality(folders)
<1>1. p[1] = d /\ p[2] = users
  OBVIOUS
<1> HIDE DEF p
<1>2. MarkKeep(p, d)
  BY <1>1, SteadySame DEF MarkKeep
<1>3. n \in Nat
  BY FS_CardinalityType
<1>4. Len(seq) \in Nat /\ \A i \in 1 .. Len(seq) : seq[i] \in folders
  <2>1. PICK f : f \in Bijection(1 .. n, folders)
    BY FS_CardinalityType DEF ExistsBijection
  <2>2. f \in [1 .. n -> folders] /\ \A i, j \in 1 .. n : f[i] = f[j] => i = j
    BY <2>1 DEF Bijection, Injection, IsInjective
  <2>3. IsInjective(f)
    BY <2>2 DEF IsInjective
  <2>4. seq \in [1 .. n -> folders]
    BY <2>2, <2>3 DEF SetToSeq
  <2> HIDE DEF seq, n
  <2>5. Len(seq) = n
    BY <1>3, <2>4
  <2> QED  BY <1>3, <2>4, <2>5
<1> HIDE DEF seq
<1>5. ASSUME NEW i \in 1 .. Len(seq), NEW c, MarkKeep(p, c) PROVE MarkKeep(p, MarkFolder(acc, c, seq[i]))
  <2> DEFINE x == MarkFolder(acc, c, seq[i])
             name == seq[i]
             type == FolderType[name]
             yes == TRUE
             no == FALSE
  <2>0. type \in DOMAIN TypeOrder /\ no \in BOOLEAN
    BY <1>4, FolderTypeAssumption
  <2>1. Sound(c, users) /\ Steady(d, c) /\ c.account = d.account
    BY <1>1, <1>5 DEF MarkKeep
  <2>2. \/ x = emstorage_update_mailbox_modifiable_yn(c, acc, name, yes)
        \/ x = emstorage_add_mailbox(c, acc, name, type, no, yes)
    BY DEF MarkFolder, emcore_set_sync_imap_mailbox
  <2> HIDE DEF x, type, yes, no, name
  <2>3. Sound(x, users) /\ Steady(c, x) /\ x.account = c.account
    <3>1. CASE x = emstorage_update_mailbox_modifiable_yn(c, acc, name, yes)
      BY <2>1, <3>1, ModifiableBox
    <3>2. CASE x = emstorage_add_mailbox(c, acc, name, type, no, yes)
      BY <2>0, <2>1, <3>2, AddMailboxRow
    <3> QED  BY <2>2, <3>1, <3>2
  <2>4. Steady(d, x)
    BY <2>1, <2>3, SteadyTwice
  <2> QED  BY <1>1, <2>1, <2>3, <2>4 DEF MarkKeep, x
<1>6. MarkKeep(p, Marks!Over(acc, d, seq))
  BY <1>2, <1>4, <1>5, Marks!Kept
<1>7. Marking!Over(acc, d, seq) = Marks!Over(acc, d, seq)
  BY DEF Marking!Over, Marks!Over
<1> QED  BY <1>1, <1>6, <1>7 DEF MarkKeep, seq

AddKeep(p, r) ==
    /\ HasFields(r, {"d", "s", "ok"}) /\ Sound(r.d, p[2]) /\ Steady(p[1], r.d) /\ r.d.account = p[1].account
    /\ r.s = p[3] /\ r.ok \in BOOLEAN
Adds == INSTANCE IterateProofs WITH Step <- AddMissing, Keep <- AddKeep

LEMMA AddingSteady ==
  ASSUME NEW d, NEW users, Sound(d, users), DefaultSlot \in Nat, NEW s, NEW c, NEW e, e = Done(d, s),
         NEW r, r = Adding!Over(c, e, DefaultTypes)
  PROVE  /\ HasFields(r, {"d", "s", "ok"}) /\ Sound(r.d, users) /\ Steady(d, r.d) /\ r.d.account = d.account
         /\ r.s = s /\ r.ok \in BOOLEAN
<1> DEFINE p == <<d, users, s>>
           seq == DefaultTypes
<1>1. p[1] = d /\ p[2] = users /\ p[3] = s
  OBVIOUS
<1> HIDE DEF p
<1>2. AddKeep(p, e)
  BY <1>1, SteadySame, ResultIs DEF AddKeep
<1>3. Len(seq) \in Nat /\ \A i \in 1 .. Len(seq) : seq[i] \in DOMAIN TypeOrder
  BY DEF DefaultTypes, TypeOrder
<1> HIDE DEF seq
<1>4. ASSUME NEW i \in 1 .. Len(seq), NEW q, AddKeep(p, q) PROVE AddKeep(p, AddMissing(c, q, seq[i]))
  <2> DEFINE type == seq[i]
             yes == TRUE
             name == DefaultName[type]
             x == emstorage_add_mailbox(q.d, c.acc, name, type, yes, yes)
             w == AddMissing(c, q, type)
  <2>0. type \in DOMAIN TypeOrder /\ yes \in BOOLEAN
    BY <1>3
  <2>1. /\ HasFields(q, {"d", "s", "ok"}) /\ Sound(q.d, users) /\ Steady(d, q.d) /\ q.d.account = d.account
        /\ q.s = s /\ q.ok \in BOOLEAN
    BY <1>1, <1>4 DEF AddKeep
  <2>2. w = q \/ w = [q EXCEPT !.ok = FALSE] \/ w = [q EXCEPT !.d = x]
    BY DEF AddMissing
  <2> HIDE DEF w, yes, name, type
  <2>3. Sound(x, users) /\ Steady(q.d, x) /\ x.account = q.d.account
    BY <2>0, <2>1, AddMailboxRow
  <2> HIDE DEF x
  <2>4. Steady(d, x)
    BY <2>1, <2>3, SteadyTwice
  <2>5. HasFields(w, {"d", "s", "ok"}) /\ (w.d = q.d \/ w.d = x) /\ w.s = q.s /\ w.ok \in BOOLEAN
    BY <2>1, <2>2 DEF HasFields
  <2> QED  BY <1>1, <2>1, <2>3, <2>4, <2>5 DEF AddKeep, w, type
<1>5. AddKeep(p, Adds!Over(c, e, seq))
  BY <1>2, <1>3, <1>4, Adds!Kept
<1>6. Adding!Over(c, e, seq) = Adds!Over(c, e, seq)
  BY DEF Adding!Over, Adds!Over
<1>7. AddKeep(p, r)
  BY <1>5, <1>6 DEF seq
<1> QED  BY <1>1, <1>7 DEF AddKeep

SweepKeep(p, e) == Leads(p[1], e, p[2], {}, {}) /\ e.account = p[1].account
Sweeps == INSTANCE IterateProofs WITH Step <- Sweep, Keep <- SweepKeep

LEMMA SweepingLeads ==
  ASSUME NEW d, NEW users, Sound(d, users), NEW acc, Known(d, acc),
         NEW e, e = Sweeping!Over(acc, d, emstorage_get_mailbox_by_modifiable_yn(d, acc))
  PROVE  Leads(d, e, users, {}, {}) /\ e.account = d.account
<1> DEFINE p == <<d, users>>
           rows == {b \in d.box : b.acc = acc /\ ~b.modifiable}
           seq == ById(rows)
<1>1. p[1] = d /\ p[2] = users
  OBVIOUS
<1> HIDE DEF p
<1>2. SweepKeep(p, d)
  BY <1>1, LeadsSame DEF SweepKeep
<1>3. Len(seq) \in Nat /\ \A i \in 1 .. Len(seq) : seq[i].id # 0 /\ seq[i].acc = acc
  <2>1. Boxed(d.box) /\ Table(d.box, BoxFields)
    BY SoundIs, TableIsKeyed DEF Boxed
  <2>2. rows \subseteq d.box /\ \A b \in rows : b.acc = acc
    OBVIOUS
  <2> HIDE DEF rows
  <2>3. IsFiniteSet(rows) /\ (\A r \in rows : r.id \in Nat /\ r.id # 0) /\ \A r, q \in rows : r.id = q.id => r = q
    BY <2>1, <2>2, FS_Subset DEF Table, Boxed
  <2>4. Len(seq) \in Nat /\ \A i \in 1 .. Len(seq) : seq[i] \in rows
    BY <2>3, ByIdLists
  <2> QED  BY <2>2, <2>3, <2>4
<1>4. seq = emstorage_get_mailbox_by_modifiable_yn(d, acc)
  BY DEF emstorage_get_mailbox_by_modifiable_yn
<1> HIDE DEF seq
<1>5. ASSUME NEW i \in 1 .. Len(seq), NEW c, SweepKeep(p, c) PROVE SweepKeep(p, Sweep(acc, c, seq[i]))
  <2> DEFINE b == seq[i]
             x == Sweep(acc, c, b)
  <2>1. Leads(d, c, users, {}, {}) /\ Sound(c, users) /\ c.account = d.account
    BY <1>1, <1>5 DEF SweepKeep, Leads
  <2>2. b.id # 0 /\ Known(c, b.acc)
    BY <1>3, <2>1 DEF Known, emcore_get_account_reference, emstorage_get_account_by_id
  <2>3. x = emcore_delete_mailbox_all(c, b)
    BY DEF Sweep
  <2> HIDE DEF b, x
  <2>4. Leads(c, x, users, {}, {}) /\ x.account = c.account
    BY <2>1, <2>2, <2>3, DeleteMailboxLeads
  <2>5. Leads(d, x, users, {}, {})
    BY <2>1, <2>4, LeadsTwice
  <2> QED  BY <1>1, <2>1, <2>4, <2>5 DEF SweepKeep, x, b
<1>6. SweepKeep(p, Sweeps!Over(acc, d, seq))
  BY <1>2, <1>3, <1>5, Sweeps!Kept
<1>7. Sweeping!Over(acc, d, seq) = Sweeps!Over(acc, d, seq)
  BY DEF Sweeping!Over, Sweeps!Over
<1>8. SweepKeep(p, e)
  BY <1>4, <1>6, <1>7
<1> QED  BY <1>1, <1>8 DEF SweepKeep

LEMMA SyncListAnswers ==
  ASSUME NEW d, NEW s, NEW users, Sound(d, users), Serving(s, users), DefaultSlot \in Nat,
         NEW acc, NEW net, NEW r, r = emcore_sync_mailbox_list(d, s, acc, net)
  PROVE  Answers(d, s, r, users, {})
<1> DEFINE sel == emcore_connect_to_remote_mailbox(d, s, acc, 0, net)
           folders == Folders(s, The(sel).user)
           c == [acc |-> acc, folders |-> folders]
           marked == Marking!Over(acc, d, SetToSeq(folders))
           started == Done(marked, s)
           filled == Adding!Over(c, started, DefaultTypes)
           swept == Sweeping!Over(acc, filled.d, emstorage_get_mailbox_by_modifiable_yn(filled.d, acc))
           no == FALSE
           e == emstorage_set_all_mailbox_modifiable_yn(swept, acc, no)
<1>1. \/ r = Failed(d, s)
      \/ Known(d, acc) /\ sel # {} /\ (r = Failed(filled.d, s) \/ r = Done(e, s))
  BY DEF emcore_sync_mailbox_list
<1>2. CASE r = Failed(d, s)
  BY <1>2, FailedServes DEF Serves
<1>3. CASE Known(d, acc) /\ sel # {} /\ (r = Failed(filled.d, s) \/ r = Done(e, s))
  <2>1. Chosen(s, The(sel))
    BY <1>3, TheSelected
  <2> HIDE DEF sel
  <2>2. folders \in SUBSET DOMAIN FolderType /\ IsFiniteSet(folders)
    BY <2>1 DEF Chosen, Folders, Serving, Servers
  <2> HIDE DEF folders
  <2>3. Sound(marked, users) /\ Steady(d, marked) /\ marked.account = d.account
    BY <2>2, MarkingSteady
  <2> HIDE DEF c, marked
  <2>4. Sound(filled.d, users) /\ Steady(marked, filled.d) /\ filled.d.account = marked.account
    BY <2>3, AddingSteady
  <2> HIDE DEF started, filled
  <2>5. Known(filled.d, acc)
    BY <1>3, <2>3, <2>4 DEF Known, emcore_get_account_reference, emstorage_get_account_by_id
  <2>6. Leads(filled.d, swept, users, {}, {}) /\ Sound(swept, users)
    <3>1. Leads(filled.d, swept, users, {}, {})
      BY <2>4, <2>5, SweepingLeads
    <3> QED  BY <3>1 DEF Leads
  <2> HIDE DEF swept, no
  <2>7. Sound(e, users) /\ Steady(swept, e)
    BY <2>6, ModifiableBox
  <2> HIDE DEF e
  <2>8. Leads(d, marked, users, {}, {}) /\ Leads(marked, filled.d, users, {}, {}) /\ Leads(swept, e, users, {}, {})
    BY <2>3, <2>4, <2>6, <2>7, SteadyLeads
  <2>9. Leads(d, filled.d, users, {}, {})
    BY <2>8, LeadsTwice
  <2>10. Leads(filled.d, e, users, {}, {})
    BY <2>4, <2>6, <2>8, LeadsTwice
  <2>11. Leads(d, e, users, {}, {})
    BY <2>9, <2>10, LeadsTwice
  <2>12. CASE r = Failed(filled.d, s)
    BY <2>9, <2>12, DoneAnswers
  <2>13. CASE r = Done(e, s)
    BY <2>11, <2>13, DoneAnswers
  <2> QED  BY <1>3, <2>12, <2>13
<1> QED  BY <1>1, <1>2, <1>3

-----------------------------------------------------------------------------
(* deleting on the server *)

DeleteKeep(p, r) ==
    /\ HasFields(r, {"d", "s", "ok"}) /\ Sound(r.d, p[2]) /\ Steady(p[1], r.d)
    /\ r.d.mail = p[1].mail /\ r.d.box = p[1].box
    /\ Serving(r.s, p[2]) /\ Chosen(r.s, p[3]) /\ r.ok \in BOOLEAN
Deletes == INSTANCE IterateProofs WITH Step <- DeletePop3, Keep <- DeleteKeep

LEMMA DeletingSteady ==
  ASSUME NEW d, NEW s, NEW users, Sound(d, users), Serving(s, users), NEW c, Chosen(s, c.sel), NEW ids, Len(ids) \in Nat,
         NEW e, e = Done(d, s), NEW r, r = Deleting!Over(c, e, ids)
  PROVE  Serves(d, s, r, users, {}) /\ r.d.mail = d.mail /\ r.d.box = d.box
<1> DEFINE p == <<d, users, c.sel>>
<1>1. p[1] = d /\ p[2] = users /\ p[3] = c.sel
  OBVIOUS
<1> HIDE DEF p
<1>2. DeleteKeep(p, e)
  BY <1>1, SteadySame, ResultIs DEF DeleteKeep
<1>3. ASSUME NEW i \in 1 .. Len(ids), NEW q, DeleteKeep(p, q) PROVE DeleteKeep(p, DeletePop3(c, q, ids[i]))
  <2> DEFINE row == emstorage_get_downloaded_mail(q.d, ids[i])
             hit == MessagesOf(q.s, c.sel, {row.suid})
             msgs == FolderOf(q.s, c.sel).msgs \ hit
             x == emstorage_remove_downloaded_mail(q.d, c.acc, {row.name}, {row.suid})
             t == SetMessages(q.s, c.sel, msgs)
             w == DeletePop3(c, q, ids[i])
  <2>1. /\ HasFields(q, {"d", "s", "ok"}) /\ Sound(q.d, users) /\ Steady(d, q.d)
        /\ q.d.mail = d.mail /\ q.d.box = d.box
        /\ Serving(q.s, users) /\ Chosen(q.s, c.sel) /\ q.ok \in BOOLEAN
    BY <1>1, <1>3 DEF DeleteKeep
  <2>2. w = q \/ w = Failed(q.d, q.s) \/ w = Done(x, t)
    BY DEF DeletePop3
  <2>3. msgs \in SUBSET FolderOf(q.s, c.sel).msgs
    OBVIOUS
  <2> HIDE DEF w, row, msgs
  <2>4. Sound(x, users) /\ Steady(q.d, x) /\ x.mail = q.d.mail /\ x.box = q.d.box
    BY <2>1, RemoveDownloaded
  <2>5. Serving(t, users) /\ Chosen(t, c.sel)
    <3>1. Serving(t, users) /\ Shows(q.s, t)
      BY <2>1, <2>3, FewerMessages
    <3> QED  BY <2>1, <3>1 DEF Shows
  <2> HIDE DEF x, t
  <2>6. Steady(d, x)
    BY <2>1, <2>4, SteadyTwice
  <2>7. CASE w = q
    BY <1>3, <2>7 DEF w
  <2>8. CASE w = Failed(q.d, q.s)
    <3>1. HasFields(w, {"d", "s", "ok"}) /\ w.d = q.d /\ w.s = q.s /\ w.ok \in BOOLEAN
      BY <2>8, ResultIs
    <3> QED  BY <1>1, <2>1, <3>1 DEF DeleteKeep, w
  <2>9. CASE w = Done(x, t)
    <3>1. HasFields(w, {"d", "s", "ok"}) /\ w.d = x /\ w.s = t /\ w.ok \in BOOLEAN
      BY <2>9, ResultIs
    <3> QED  BY <1>1, <2>1, <2>4, <2>5, <2>6, <3>1 DEF DeleteKeep, w
  <2> QED  BY <2>2, <2>7, <2>8, <2>9
<1>4. DeleteKeep(p, Deletes!Over(c, e, ids))
  BY <1>2, <1>3, Deletes!Kept
<1>5. Deleting!Over(c, e, ids) = Deletes!Over(c, e, ids)
  BY DEF Deleting!Over, Deletes!Over
<1>6. DeleteKeep(p, r)
  BY <1>4, <1>5
<1>7. Leads(d, r.d, users, {}, {})
  BY <1>1, <1>6, SteadyLeads DEF DeleteKeep
<1> QED  BY <1>1, <1>6, <1>7 DEF DeleteKeep, Serves, Answers

LEMMA DeleteImap ==
  ASSUME NEW d, NEW s, NEW users, Sound(d, users), Serving(s, users), NEW ids, NEW net,
         NEW r, r = emcore_delete_mails_from_imap4_server(d, s, ids, net)
  PROVE  Serves(d, s, r, users, {}) /\ r.d.mail = d.mail /\ r.d.box = d.box
<1> DEFINE last == emstorage_get_downloaded_mail(d, ids[Len(ids)])
           sel == emcore_connect_to_remote_mailbox(d, s, last.acc, last.box, net)
           at == The(sel)
           uids == {u.suid : u \in emstorage_get_id_set_from_mail_ids(d, Range(ids))}
           yes == TRUE
           marked == Store(s, at, uids, "del", yes)
           t == Expunge(marked, at)
<1>1. r = Failed(d, s) \/ (sel # {} /\ r = Done(d, t))
  BY DEF emcore_delete_mails_from_imap4_server
<1>2. CASE r = Failed(d, s)
  <2>1. r.d = d
    BY <1>2, ResultIs
  <2> QED  BY <1>2, <2>1, FailedServes
<1>3. CASE sel # {} /\ r = Done(d, t)
  <2>1. Chosen(s, at)
    BY <1>3, TheSelected
  <2> HIDE DEF at, uids, yes
  <2>2. Serving(marked, users) /\ Shows(s, marked)
    BY <2>1, Stored
  <2>3. Chosen(marked, at)
    BY <2>1, <2>2 DEF Shows
  <2> HIDE DEF marked
  <2>4. Serving(t, users)
    BY <2>2, <2>3, Expunged
  <2> HIDE DEF t
  <2>5. Leads(d, d, users, {}, {})
    BY LeadsSame
  <2>6. r.d = d
    BY <1>3, ResultIs
  <2> QED  BY <1>3, <2>4, <2>5, <2>6, DoneServes
<1> QED  BY <1>1, <1>2, <1>3

LEMMA DeleteRemote ==
  ASSUME NEW d, NEW s, NEW users, Sound(d, users), Serving(s, users), NEW acc, NEW ids, Len(ids) \in Nat, NEW net,
         NEW r, r = emcore_delete_mails_from_remote_server(d, s, acc, ids, net)
  PROVE  Serves(d, s, r, users, {}) /\ r.d.mail = d.mail /\ r.d.box = d.box
<1> DEFINE first == emstorage_get_downloaded_mail(d, ids[1])
           sel == emcore_connect_to_remote_mailbox(d, s, acc, first.box, net)
           c == [acc |-> acc, sel |-> The(sel)]
           start == Done(d, s)
           x == Deleting!Over(c, start, ids)
<1>1. \/ r = Failed(d, s)
      \/ r = emcore_delete_mails_from_imap4_server(d, s, ids, net)
      \/ sel # {} /\ r = x
  BY DEF emcore_delete_mails_from_remote_server, emcore_delete_mails_from_pop3_server
<1>2. CASE r = Failed(d, s)
  <2>1. r.d = d
    BY <1>2, ResultIs
  <2> QED  BY <1>2, <2>1, FailedServes
<1>3. CASE r = emcore_delete_mails_from_imap4_server(d, s, ids, net)
  BY <1>3, DeleteImap
<1>4. CASE sel # {} /\ r = x
  <2>1. Chosen(s, c.sel)
    BY <1>4, TheSelected
  <2> HIDE DEF c, start
  <2>2. start = Done(d, s)
    BY DEF start
  <2> QED  BY <1>4, <2>1, <2>2, DeletingSteady
<1> QED  BY <1>1, <1>2, <1>3, <1>4

\* Some mails can be listed, those of a mailbox or those marked deleted in it.
LEMMA SomeAreListed ==
  ASSUME NEW d, NEW users, Sound(d, users), NEW rows \in SUBSET d.mail
  PROVE  Len(IdsOf(ById(rows))) \in Nat
<1> DEFINE seq == ById(rows)
<1>1. Mailed(d.mail, d.next)
  BY SoundIs
<1>2. IsFiniteSet(rows) /\ (\A r \in rows : r.id \in Nat) /\ \A r, q \in rows : r.id = q.id => r = q
  BY <1>1, MailsAreFinite, FS_Subset DEF Mailed
<1>3. seq \in Seq(rows)
  BY <1>2, ByIdLists
<1> HIDE DEF seq
<1>4. DOMAIN seq = 1 .. Len(seq) /\ Len(seq) \in Nat
  BY <1>3
<1>5. IdsOf(seq) = [i \in 1 .. Len(seq) |-> seq[i].id]
  BY <1>4 DEF IdsOf
<1>6. Len(IdsOf(seq)) = Len(seq)
  BY <1>4, <1>5
<1> QED  BY <1>4, <1>6 DEF seq

LEMMA NamedAreListed ==
  ASSUME NEW d, NEW users, Sound(d, users), NEW b
  PROVE  Len(IdsOf(ById(MailsByName(d, b)))) \in Nat
<1> DEFINE rows == MailsByName(d, b)
<1>1. rows \in SUBSET d.mail
  BY DEF MailsByName
<1> HIDE DEF rows
<1>2. Len(IdsOf(ById(rows))) \in Nat
  BY <1>1, SomeAreListed
<1> QED  BY <1>2 DEF rows

LEMMA ServesTwice ==
  ASSUME NEW c, NEW d, NEW e, NEW users, NEW more, Sound(c, users), Leads(c, d, users, {}, {}), Leads(d, e, users, {}, more)
  PROVE  Leads(c, e, users, {}, more)
<1>1. Leads(c, d, users, {}, more)
  BY LeadsMore
<1> QED  BY <1>1, LeadsTwice

\* The mails that are left in a mailbox that r has deleted.
Left(r, box) == {m.id : m \in {m \in r.d.mail : r.ok /\ m.box = box}}

\* The mailbox that a user deletes, from the server too: its mails are apart.
LEMMA DeleteMailboxServes ==
  ASSUME NEW d, NEW s, NEW users, Sound(d, users), Serving(s, users), NEW box, NEW net,
         NEW r, r = emcore_delete_mailbox(d, s, box, TRUE, net)
  PROVE  Serves(d, s, r, users, Left(r, box))
<1> DEFINE found == emstorage_get_mailbox_by_id(d, box)
           b == The(found)
           ids == IdsOf(ById(MailsByName(d, b)))
           emptied == emcore_delete_mails_from_remote_server(d, s, b.acc, ids, net)
           gone == emcore_delete_imap_mailbox(emptied.d, emptied.s, box, net)
           e == emstorage_delete_mailbox(gone.d, b.acc, Both, box)
<1>1. (found = {} /\ r = Failed(d, s)) \/ (found # {} /\ r = Done(e, gone.s))
  BY DEF emcore_delete_mailbox
<1>2. CASE r = Failed(d, s)
  <2>1. Left(r, box) = {}
    <3>1. r.ok = FALSE
      BY <1>2, FailedIs
    <3>2. {m \in r.d.mail : r.ok /\ m.box = box} = {}
      BY <3>1, Zenon
    <3> QED  BY <3>2 DEF Left
  <2> QED  BY <1>2, <2>1, FailedServes
<1>3. CASE found # {} /\ r = Done(e, gone.s)
  <2>1. box # 0
    <3>1. b \in d.box /\ b.id = box
      BY <1>3 DEF The, emstorage_get_mailbox_by_id
    <3>2. Boxed(d.box)
      BY SoundIs
    <3> QED  BY <3>1, <3>2 DEF Boxed, Keyed
  <2>2. Len(ids) \in Nat
    BY NamedAreListed
  <2> HIDE DEF b, ids
  <2>3. Serves(d, s, emptied, users, {}) /\ emptied.d.mail = d.mail
    BY <2>2, DeleteRemote
  <2>4. Sound(emptied.d, users) /\ Serving(emptied.s, users) /\ Leads(d, emptied.d, users, {}, {})
    BY <2>3 DEF Serves, Answers, Leads
  <2> HIDE DEF emptied
  <2>5. Serves(emptied.d, emptied.s, gone, users, Apart(emptied.d, box)) /\ Apart(gone.d, box) = Apart(emptied.d, box)
    BY <2>1, <2>4, DeleteFolder
  <2>6. /\ Sound(gone.d, users) /\ Serving(gone.s, users) /\ Leads(emptied.d, gone.d, users, {}, Apart(gone.d, box))
        /\ Knots(gone.d.mail) = Knots(emptied.d.mail)
    BY <2>5 DEF Serves, Answers, Leads
  <2> HIDE DEF gone
  <2>7. Leads(gone.d, e, users, {}, Apart(e, box)) /\ Apart(e, box) = Apart(gone.d, box) /\ e.mail = gone.d.mail
    BY <2>1, <2>6, DeleteBoxApart
  <2> HIDE DEF e
  <2>8. Leads(emptied.d, e, users, {}, Apart(e, box))
    BY <2>4, <2>6, <2>7, LeadsTwice
  <2>9. Leads(d, e, users, {}, Apart(e, box))
    BY <2>4, <2>8, ServesTwice
  <2>10. Left(r, box) = Apart(e, box)
    <3>1. r.ok = TRUE /\ r.d = e
      BY <1>3, DoneIs
    <3>2. {m \in r.d.mail : r.ok /\ m.box = box} = {m \in e.mail : m.box = box}
      BY <3>1, Zenon
    <3> QED  BY <3>2 DEF Apart, Left
  <2>11. Knots(e.mail) = Knots(d.mail)
    BY <2>3, <2>6, <2>7
  <2> QED  BY <1>3, <2>6, <2>9, <2>10, <2>11, DoneServes
<1> QED  BY <1>1, <1>2, <1>3

\* And from here alone: they go with it.
LEMMA DeleteMailboxHere ==
  ASSUME NEW d, NEW s, NEW users, Sound(d, users), NEW b \in d.box, Known(d, b.acc),
         NEW e, e = emcore_delete_mailbox(d, s, b.id, FALSE, FALSE).d
  PROVE  /\ Leads(d, e, users, {}, {})
         /\ e.mail = (emcore_delete_all_mails_of_mailbox(d, b.id)).mail
<1> DEFINE found == emstorage_get_mailbox_by_id(d, b.id)
<1>1. Boxed(d.box)
  BY SoundIs
<1>2. The(found) = b /\ found # {} /\ b.id # 0
  BY <1>1 DEF Boxed, Keyed, The, emstorage_get_mailbox_by_id
<1>3. e = emstorage_delete_mailbox(emcore_delete_all_mails_of_mailbox(d, b.id), b.acc, Both, b.id)
  BY <1>2 DEF emcore_delete_mailbox, Done
<1>4. e = emcore_delete_mailbox_all(d, b)
  BY <1>3 DEF emcore_delete_mailbox_all
<1>5. Leads(d, e, users, {}, {})
  BY <1>2, <1>4, DeleteMailboxLeads
<1>6. e.mail = (emcore_delete_all_mails_of_mailbox(d, b.id)).mail
  <2> DEFINE c == emcore_delete_all_mails_of_mailbox(d, b.id)
             acc == b.acc
             box == b.id
  <2>1. Sound(c, users)
    BY DeleteAllLeads DEF Leads
  <2>2. e = emstorage_delete_mailbox(c, acc, Both, box) /\ box # 0
    BY <1>2, <1>3
  <2> HIDE DEF c, acc, box
  <2>3. e.mail = c.mail
    BY ONLY <2>1, <2>2, DeleteMailbox1
  <2> QED  BY <2>3 DEF c
<1> QED  BY <1>5, <1>6

\* What is marked deleted here goes there; here only rows of uids do.
LEMMA ExpungeServer ==
  ASSUME NEW d, NEW s, NEW users, Sound(d, users), Serving(s, users), NEW acc, NEW box, NEW net,
         NEW r, r = emcore_expunge_mails_deleted_flagged_from_remote_server(d, s, acc, box, net)
  PROVE  /\ Serving(r.s, users) /\ Leads(d, r.d, users, {}, {})
         /\ r.d.mail = d.mail /\ r.d.box = d.box
<1> DEFINE rows == {m \in d.mail : m.id \in DeletedFlagged(d, box)}
           ids == IdsOf(ById(rows))
           q == emcore_delete_mails_from_remote_server(d, s, acc, ids, net)
<1>1. r = Failed(d, s) \/ r = Done(q.d, q.s)
  BY DEF emcore_expunge_mails_deleted_flagged_from_remote_server
<1>2. Len(ids) \in Nat
  <2>1. rows \in SUBSET d.mail
    OBVIOUS
  <2> HIDE DEF rows
  <2> QED  BY <2>1, SomeAreListed
<1> HIDE DEF ids
<1>3. Serves(d, s, q, users, {}) /\ q.d.mail = d.mail /\ q.d.box = d.box
  BY <1>2, DeleteRemote
<1> HIDE DEF q
<1>4. CASE r = Failed(d, s)
  <2>1. r.d = d /\ r.s = s
    BY <1>4, ResultIs
  <2> QED  BY <2>1, LeadsSame
<1>5. CASE r = Done(q.d, q.s)
  <2>1. r.d = q.d /\ r.s = q.s
    BY <1>5, ResultIs
  <2> QED  BY <1>3, <2>1 DEF Serves, Answers
<1> QED  BY <1>1, <1>4, <1>5

-----------------------------------------------------------------------------
(* moving and flags on the server *)

CopyKeep(p, e) == Sound(e, p[2]) /\ Steady(p[1], e)
Copies == INSTANCE IterateProofs WITH Step <- CopyUid, Keep <- CopyKeep

LEMMA CopyingSteady ==
  ASSUME NEW d, NEW users, Sound(d, users), NEW name, NEW pairs, Len(pairs) \in Nat,
         NEW e, e = mail_copyuid_ex(d, pairs, name)
  PROVE  Sound(e, users) /\ Steady(d, e)
<1> DEFINE p == <<d, users>>
<1>1. p[1] = d /\ p[2] = users
  OBVIOUS
<1> HIDE DEF p
<1>2. CopyKeep(p, d)
  BY <1>1, SteadySame DEF CopyKeep
<1>3. ASSUME NEW i \in 1 .. Len(pairs), NEW c, CopyKeep(p, c) PROVE CopyKeep(p, CopyUid(name, c, pairs[i]))
  <2> DEFINE old == pairs[i].old
             new == pairs[i].new
             y == emstorage_update_server_uid(c, old, new)
             x == emstorage_update_read_mail_uid_by_server_uid(y, old, new, name)
  <2>1. Sound(c, users) /\ Steady(d, c)
    BY <1>1, <1>3 DEF CopyKeep
  <2>2. x = CopyUid(name, c, pairs[i])
    BY DEF CopyUid
  <2> HIDE DEF old, new
  <2>3. Sound(y, users) /\ Steady(c, y)
    BY <2>1, UpdateServerUid
  <2> HIDE DEF y
  <2>4. Sound(x, users) /\ Steady(y, x)
    BY <2>3, UpdateReadUidByUid
  <2> HIDE DEF x
  <2>5. Steady(d, y)
    BY <2>1, <2>3, SteadyTwice
  <2>6. Steady(d, x)
    BY <2>1, <2>4, <2>5, SteadyTwice
  <2>7. CopyKeep(p, x)
    BY <1>1, <2>4, <2>6 DEF CopyKeep
  <2> QED  BY <2>2, <2>7
<1>4. CopyKeep(p, Copies!Over(name, d, pairs))
  BY <1>2, <1>3, Copies!Kept
<1>5. e = Copies!Over(name, d, pairs)
  BY DEF mail_copyuid_ex, Copying!Over, Copies!Over
<1> QED  BY <1>1, <1>4, <1>5 DEF CopyKeep

LEMMA MessagesMoved ==
  ASSUME NEW s, NEW users, Serving(s, users), NEW sel, Chosen(s, sel), NEW dst, Chosen(s, dst), NEW uids,
         NEW t, t = MoveMessages(s, sel, dst, uids) \/ t = Expunge(Store(Copy(s, sel, dst, uids), sel, uids, "del", TRUE), sel)
  PROVE  Serving(t, users)
<1> DEFINE yes == TRUE
           copied == Copy(s, sel, dst, uids)
           marked == Store(copied, sel, uids, "del", yes)
<1>1. t = UidExpunge(marked, sel, uids) \/ t = Expunge(marked, sel)
  BY DEF MoveMessages
<1> HIDE DEF yes
<1>2. Serving(copied, users) /\ Chosen(copied, sel)
  <2>1. Serving(copied, users) /\ Shows(s, copied)
    BY Copied
  <2> QED  BY <2>1 DEF Shows
<1> HIDE DEF copied
<1>3. Serving(marked, users) /\ Chosen(marked, sel)
  <2>1. Serving(marked, users) /\ Shows(copied, marked)
    BY <1>2, Stored
  <2> QED  BY <1>2, <2>1 DEF Shows
<1> HIDE DEF marked
<1>4. ASSUME t = UidExpunge(marked, sel, uids) PROVE Serving(t, users)
  BY <1>3, <1>4, Expunged
<1>5. ASSUME t = Expunge(marked, sel) PROVE Serving(t, users)
  BY <1>3, <1>5, Expunged
<1> QED  BY <1>1, <1>4, <1>5

\* Another folder of the same user.
LEMMA OtherFolder ==
  ASSUME NEW s, NEW sel, Chosen(s, sel), HasFields(sel, {"user", "folder"}), NEW folder, folder \in Folders(s, sel.user),
         NEW to, to = [sel EXCEPT !.folder = folder]
  PROVE  Chosen(s, to)
BY DEF Chosen, HasFields, Folders

LEMMA MoveServes ==
  ASSUME NEW d, NEW s, NEW users, Sound(d, users), Serving(s, users), NEW acc, NEW src, NEW ids, NEW dst, NEW net,
         NEW r, r = emcore_move_mail_on_server_ex(d, s, acc, src, ids, dst, net)
  PROVE  Serves(d, s, r, users, {})
<1> DEFINE sel == emcore_connect_to_remote_mailbox(d, s, acc, src, net)
           at == The(sel)
           folder == The(emstorage_get_mailbox_by_id(d, dst)).name
           to == [at EXCEPT !.folder = folder]
           uids == {u.suid : u \in emstorage_get_id_set_from_mail_ids(d, Range(ids))}
           pairs == CopyUids(s, at, to, uids)
           e == mail_copyuid_ex(d, pairs, to.folder)
           t == MoveMessages(s, at, to, uids)
<1>1. r = Failed(d, s) \/ r = Done(d, s) \/ (sel # {} /\ to.folder \in Folders(s, to.user) /\ r = Done(e, t))
  BY DEF emcore_move_mail_on_server_ex
<1>2. CASE r = Failed(d, s) \/ r = Done(d, s)
  BY <1>2, FailedServes
<1>3. CASE sel # {} /\ to.folder \in Folders(s, to.user) /\ r = Done(e, t)
  <2>1. Chosen(s, at) /\ HasFields(at, {"user", "folder"})
    BY <1>3, TheSelected
  <2> HIDE DEF at, folder, uids
  <2>2. to.folder = folder /\ to.user = at.user
    BY <2>1 DEF HasFields
  <2>3. Chosen(s, to)
    BY <1>3, <2>1, <2>2, OtherFolder
  <2> HIDE DEF to
  <2>4. Len(pairs) \in Nat
    BY <2>1, <2>3, PairsAre
  <2> HIDE DEF pairs
  <2>5. Sound(e, users) /\ Steady(d, e)
    BY <2>4, CopyingSteady
  <2>6. Serving(t, users)
    BY <2>1, <2>3, MessagesMoved
  <2> HIDE DEF e, t
  <2>7. Leads(d, e, users, {}, {}) /\ Knots(e.mail) = Knots(d.mail)
    BY <2>5, SteadyLeads DEF Steady
  <2> QED  BY <1>3, <2>6, <2>7, DoneServes
<1> QED  BY <1>1, <1>2, <1>3

LEMMA MoveOneServes ==
  ASSUME NEW d, NEW s, NEW users, Sound(d, users), Serving(s, users), NEW acc, NEW src, NEW id, NEW folder, NEW net,
         NEW r, r = emcore_move_mail_on_server(d, s, acc, src, id, folder, net)
  PROVE  Serves(d, s, r, users, {})
<1> DEFINE sel == emcore_connect_to_remote_mailbox(d, s, acc, src, net)
           at == The(sel)
           to == [at EXCEPT !.folder = folder]
           m == The(emstorage_get_mail_by_id(d, id))
           old == m.suid
           name == m.name
           new == CopyUids(s, at, to, {old})[1].new
           uids == {old}
           c == emstorage_update_server_uid(d, old, new)
           e == emstorage_update_read_mail_uid(c, id, new, name)
           t == Expunge(Store(Copy(s, at, to, uids), at, uids, "del", TRUE), at)
<1>1. r = Failed(d, s) \/ (sel # {} /\ folder \in Folders(s, at.user) /\ r = Done(e, t))
  BY DEF emcore_move_mail_on_server
<1>2. CASE r = Failed(d, s)
  BY <1>2, FailedServes
<1>3. CASE sel # {} /\ folder \in Folders(s, at.user) /\ r = Done(e, t)
  <2>1. Chosen(s, at) /\ HasFields(at, {"user", "folder"})
    BY <1>3, TheSelected
  <2> HIDE DEF at, old, name, new, uids
  <2>2. Chosen(s, to)
    BY <1>3, <2>1, OtherFolder
  <2> HIDE DEF to
  <2>3. Serving(t, users)
    BY <2>1, <2>2, MessagesMoved
  <2>4. Sound(c, users) /\ Steady(d, c)
    BY UpdateServerUid
  <2> HIDE DEF c
  <2>5. Sound(e, users) /\ Steady(c, e)
    BY <2>4, UpdateReadUid
  <2> HIDE DEF e, t
  <2>6. Steady(d, e)
    BY <2>4, <2>5, SteadyTwice
  <2>7. Leads(d, e, users, {}, {}) /\ Knots(e.mail) = Knots(d.mail)
    BY <2>5, <2>6, SteadyLeads DEF Steady
  <2> QED  BY <1>3, <2>3, <2>7, DoneServes
<1> QED  BY <1>1, <1>2, <1>3

LEMMA FlagServes ==
  ASSUME NEW d, NEW s, NEW users, Sound(d, users), Serving(s, users), NEW id, NEW net,
         NEW r, r = emcore_sync_flag_with_server(d, s, id, net)
  PROVE  Serves(d, s, r, users, {})
<1> DEFINE m == The(emstorage_get_mail_by_id(d, id))
           sel == Located(d, s, m, net)
           at == The(sel)
           uids == {m.suid}
           seen == m.seen
           t == Store(s, at, uids, "seen", seen)
<1>1. r = Failed(d, s) \/ (sel # {} /\ r = Done(d, t))
  BY DEF emcore_sync_flag_with_server
<1>2. CASE r = Failed(d, s)
  BY <1>2, FailedServes
<1>3. CASE sel # {} /\ r = Done(d, t)
  <2>1. at \in emcore_connect_to_remote_mailbox(d, s, m.acc, m.box, net)
    BY <1>3 DEF The, Located
  <2>2. Chosen(s, at)
    BY <2>1, Selected1
  <2> HIDE DEF at, uids, seen
  <2>3. Serving(t, users)
    BY <2>2, Stored
  <2> HIDE DEF t
  <2>4. Leads(d, d, users, {}, {})
    BY LeadsSame
  <2> QED  BY <1>3, <2>3, <2>4, DoneServes
<1> QED  BY <1>1, <1>2, <1>3

LEMMA FlagsServes ==
  ASSUME NEW d, NEW s, NEW users, Sound(d, users), Serving(s, users), NEW ids, NEW field, NEW value, NEW net,
         NEW r, r = emcore_sync_flags_field_with_server(d, s, ids, field, value, net)
  PROVE  Serves(d, s, r, users, {})
<1> DEFINE m == The(emstorage_get_mail_by_id(d, ids[1]))
           sel == emcore_connect_to_remote_mailbox(d, s, m.acc, m.box, net)
           at == The(sel)
           uids == {u.suid : u \in emstorage_get_id_set_from_mail_ids(d, Range(ids))}
           t == Store(s, at, uids, field, value)
<1>1. r = Failed(d, s) \/ (sel # {} /\ r = Done(d, t))
  BY DEF emcore_sync_flags_field_with_server
<1>2. CASE r = Failed(d, s)
  BY <1>2, FailedServes
<1>3. CASE sel # {} /\ r = Done(d, t)
  <2>1. Chosen(s, at)
    BY <1>3, TheSelected
  <2> HIDE DEF at, uids
  <2>2. Serving(t, users)
    BY <2>1, Stored
  <2> HIDE DEF t
  <2>3. Leads(d, d, users, {}, {})
    BY LeadsSame
  <2> QED  BY <1>3, <2>2, <2>3, DoneServes
<1> QED  BY <1>1, <1>2, <1>3

-----------------------------------------------------------------------------
(* what a synchronisation lists and forgets *)

LEMMA NewestFirstLists ==
  ASSUME NEW rows, NEW next, Messages(rows, next)
  PROVE  NewestFirst(rows) \in Seq(rows)
<1> DEFINE R == {p \in rows \X rows : p[1].uid > p[2].uid}
           n == Cardinality(rows)
<1>0. IsFiniteSet(rows) /\ (\A r \in rows : r.uid \in Nat) /\ \A r, q \in rows : r.uid = q.uid => r = q
  BY DEF Messages
<1>1. n \in Nat
  BY <1>0, FS_CardinalityType
<1>2. ASSUME NEW i \in 1 .. n PROVE \E r \in rows : Cardinality(Below(rows, R, r)) = i - 1
  <2>1. \A x \in rows : <<x, x>> \notin R
    BY <1>0
  <2>2. \A x, y \in rows : x # y => <<x, y>> \in R \/ <<y, x>> \in R
    BY <1>0
  <2>3. \A x, y, z \in rows : <<x, y>> \in R /\ <<y, z>> \in R => <<x, z>> \in R
    BY <1>0
  <2> HIDE DEF R
  <2> QED  BY <1>0, <2>1, <2>2, <2>3, Ranks
<1>3. ASSUME NEW r \in rows PROVE Below(rows, R, r) = {q \in rows : q.uid > r.uid}
  BY DEF Below
<1> HIDE DEF R
<1>4. NewestFirst(rows) = [i \in 1 .. n |-> CHOOSE r \in rows : Cardinality({q \in rows : q.uid > r.uid}) = i - 1]
  BY DEF NewestFirst, Sorted
<1>5. ASSUME NEW i \in 1 .. n PROVE (CHOOSE r \in rows : Cardinality({q \in rows : q.uid > r.uid}) = i - 1) \in rows
  BY <1>2, <1>3
<1>6. NewestFirst(rows) \in [1 .. n -> rows]
  BY <1>4, <1>5
<1> QED  BY <1>1, <1>6

LEMMA ByTypeLists ==
  ASSUME NEW rows, IsFiniteSet(rows), \A r \in rows : r.id \in Nat /\ r.type \in DOMAIN TypeOrder,
         \A r, q \in rows : r.id = q.id => r = q
  PROVE  ByType(rows) \in Seq(rows)
<1> DEFINE ord == [r \in rows |-> TypeOrder[r.type]]
           R == {p \in rows \X rows : ord[p[1]] < ord[p[2]] \/ (p[1].type = p[2].type /\ p[1].id < p[2].id)}
           n == Cardinality(rows)
<1>0. (\A r \in rows : ord[r] \in Nat) /\ \A r, q \in rows : ord[r] = ord[q] <=> r.type = q.type
  BY DEF TypeOrder
<1>1. n \in Nat
  BY FS_CardinalityType
<1>2. ASSUME NEW r \in rows
      PROVE  Below(rows, R, r) = {q \in rows : TypeOrder[q.type] < TypeOrder[r.type] \/ (q.type = r.type /\ q.id < r.id)}
  BY DEF Below
<1> HIDE DEF ord
<1>3. ASSUME NEW i \in 1 .. n PROVE \E r \in rows : Cardinality(Below(rows, R, r)) = i - 1
  <2>1. \A x \in rows : <<x, x>> \notin R
    BY <1>0
  <2>2. \A x, y \in rows : x # y => <<x, y>> \in R \/ <<y, x>> \in R
    BY <1>0
  <2>3. \A x, y, z \in rows : <<x, y>> \in R /\ <<y, z>> \in R => <<x, z>> \in R
    BY <1>0
  <2> HIDE DEF R
  <2> QED  BY <2>1, <2>2, <2>3, Ranks
<1> HIDE DEF R
<1>4. ByType(rows) = [i \in 1 .. n |-> CHOOSE r \in rows :
          Cardinality({q \in rows : TypeOrder[q.type] < TypeOrder[r.type] \/ (q.type = r.type /\ q.id < r.id)}) = i - 1]
  BY DEF ByType, Sorted
<1>5. ASSUME NEW i \in 1 .. n
      PROVE  (CHOOSE r \in rows : Cardinality({q \in rows : TypeOrder[q.type] < TypeOrder[r.type]
                                                            \/ (q.type = r.type /\ q.id < r.id)}) = i - 1) \in rows
  BY <1>2, <1>3
<1>6. ByType(rows) \in [1 .. n -> rows]
  BY <1>4, <1>5
<1> QED  BY <1>1, <1>6

\* What is to be downloaded are messages of the folder.
LEMMA ToDownload ==
  ASSUME NEW d, NEW s, NEW users, Serving(s, users), NEW sel, Chosen(s, sel), NEW a, NEW b, b.slot \in Nat
  PROVE  emcore_get_uids_to_download(d, s, sel, a, b) \in Seq(FolderOf(s, sel).msgs)
<1> DEFINE msgs == FolderOf(s, sel).msgs
           next == FolderOf(s, sel).next
           all == {x \in msgs : ~x.del}
           uids == mailbox_get_uids(s, sel)
           m == Min({b.slot, Len(uids)})
           listed == Newest(s, sel, b.slot)
           rows == {u.suid : u \in Range(Downloaded(d, a, b))}
           new == {x \in Range(listed) : x.uid \notin rows}
<1>1. Messages(msgs, next)
  BY FolderIs
<1>2. uids = NewestFirst(all) /\ all \subseteq msgs
  BY DEF mailbox_get_uids
<1>3. emcore_get_uids_to_download(d, s, sel, a, b) = NewestFirst(new)
  BY DEF emcore_get_uids_to_download
<1>4. listed = SubSeq(uids, 1, m)
  BY DEF Newest
<1> HIDE DEF all, rows, uids, msgs, next, listed
<1>5. Messages(all, next)
  BY <1>1, <1>2, FS_Subset DEF Messages
<1>6. uids \in Seq(msgs)
  BY <1>2, <1>5, NewestFirstLists
<1>7. m \in Nat /\ m <= Len(uids)
  <2>1. Len(uids) \in Nat
    BY <1>6
  <2> DEFINE k == Len(uids)
             n == b.slot
  <2>2. m = CHOOSE x \in {n, k} : \A y \in {n, k} : x <= y
    BY DEF Min
  <2> HIDE DEF k
  <2>3. \E x \in {n, k} : \A y \in {n, k} : x <= y
    BY <2>1 DEF k
  <2> HIDE DEF m
  <2>4. m \in {n, k} /\ \A y \in {n, k} : m <= y
    BY <2>2, <2>3
  <2> QED  BY <2>1, <2>4 DEF k
<1> HIDE DEF m
<1>8. \A x \in Range(listed) : x \in msgs
  BY <1>4, <1>6, <1>7 DEF Range
<1>9. new \subseteq msgs
  BY <1>8
<1> HIDE DEF new
<1>10. Messages(new, next)
  BY <1>1, <1>9, FS_Subset DEF Messages
<1>11. NewestFirst(new) \in Seq(new)
  BY <1>10, NewestFirstLists
<1>12. NewestFirst(new) \in Seq(msgs)
  BY <1>9, <1>11
<1> QED  BY <1>3, <1>12 DEF msgs

LEMMA DownloadedIsListed ==
  ASSUME NEW d, NEW users, Sound(d, users), NEW a, NEW b
  PROVE  Len(Downloaded(d, a, b)) \in Nat
<1> DEFINE seq == Downloaded(d, a, b)
           box == IF a.kind = "pop3" THEN 0 ELSE b.id
           rows == {u \in d.uid : u.acc = a.id /\ box \in {0, u.box}}
<1>1. Uids(d.uid)
  BY SoundIs
<1>2. IsFiniteSet(rows)
  BY <1>1, FS_Subset DEF Uids
<1>3. seq = Sorted(rows, LAMBDA x, y : x.luid < y.luid)
  BY DEF Downloaded, emstorage_get_downloaded_list
<1> HIDE DEF rows, seq
<1> DEFINE n == Cardinality(rows)
<1>4. n \in Nat
  BY <1>2, FS_CardinalityType
<1>5. seq = [i \in 1 .. n |-> CHOOSE r \in rows : Cardinality({q \in rows : q.luid < r.luid}) = i - 1]
  BY <1>3 DEF Sorted
<1> HIDE DEF n
<1>6. Len(seq) \in Nat
  BY <1>4, <1>5
<1> QED  BY <1>6 DEF seq

ForgetKeep(p, e) == Leads(p[1], e, p[2], {}, {})
Forgets == INSTANCE IterateProofs WITH Step <- Forget, Keep <- ForgetKeep

LEMMA ForgettingLeads ==
  ASSUME NEW d, NEW s, NEW users, Sound(d, users), NEW sel, NEW a, NEW b,
         NEW e, e = DeleteMissing(d, s, sel, a, b)
  PROVE  Leads(d, e, users, {}, {})
<1> DEFINE p == <<d, users>>
           seq == Downloaded(d, a, b)
           c == [a |-> a, b |-> b, listed |-> {x.uid : x \in Range(Newest(s, sel, b.slot))}]
<1>1. p[1] = d /\ p[2] = users
  OBVIOUS
<1> HIDE DEF p
<1>2. ForgetKeep(p, d)
  BY <1>1, LeadsSame DEF ForgetKeep
<1>3. Len(seq) \in Nat
  BY DownloadedIsListed
<1>4. e = Forgets!Over(c, d, seq)
  BY DEF DeleteMissing, Forgetting!Over, Forgets!Over
<1> HIDE DEF seq, c
<1>5. ASSUME NEW i \in 1 .. Len(seq), NEW q, ForgetKeep(p, q) PROVE ForgetKeep(p, Forget(c, q, seq[i]))
  <2> DEFINE u == seq[i]
             mail == emstorage_get_maildata_by_servermailid(q, c.a.id, u.suid)
             ids == {The(mail).id}
             y == emcore_delete_mails_from_local_storage(q, c.a.id, ids)
             z == IF c.a.kind = "imap" THEN y ELSE q
             acc == c.a.id
             names == {c.b.name}
             suids == {u.suid}
             x == emstorage_remove_downloaded_mail(z, acc, names, suids)
             w == Forget(c, q, u)
  <2>1. Leads(d, q, users, {}, {}) /\ Sound(q, users)
    BY <1>1, <1>5 DEF ForgetKeep, Leads
  <2>2. w = q \/ (mail # {} /\ w = x)
    BY DEF Forget
  <2>3. CASE w = q
    BY <1>5, <2>3
  <2>4. CASE mail # {} /\ w = x
    <3>1. The(mail) \in q.mail
      BY <2>4 DEF The, emstorage_get_maildata_by_servermailid, FirstOf
    <3> HIDE DEF mail, w, u
    <3>2. Wiping(q, c.a.id, ids) = {}
      BY <3>1 DEF Wiping
    <3> HIDE DEF ids
    <3>3. Thinned(q, y, ids, {})
      BY <2>1, <3>2, DeleteThins DEF Sound
    <3>4. Leads(q, y, users, {}, {})
      BY <2>1, <3>3, ThinnedLeads
    <3> HIDE DEF y
    <3>5. Leads(q, z, users, {}, {})
      BY <2>1, <3>4, LeadsSame
    <3> HIDE DEF z, acc, names, suids
    <3>6. Sound(z, users)
      BY <3>5 DEF Leads
    <3>7. Sound(x, users) /\ Steady(z, x)
      BY <3>6, RemoveDownloaded
    <3> HIDE DEF x
    <3>8. Leads(z, x, users, {}, {})
      BY <3>6, <3>7, SteadyLeads
    <3>9. Leads(q, x, users, {}, {})
      BY <2>1, <3>5, <3>8, LeadsTwice
    <3>10. Leads(d, x, users, {}, {})
      BY <2>1, <3>9, LeadsTwice
    <3> QED  BY <1>1, <2>4, <3>10 DEF ForgetKeep, w, u
  <2> QED  BY <2>2, <2>3, <2>4
<1>6. ForgetKeep(p, Forgets!Over(c, d, seq))
  BY <1>2, <1>3, <1>5, Forgets!Kept
<1> QED  BY <1>1, <1>4, <1>6 DEF ForgetKeep

LEMMA MarkReadServing ==
  ASSUME NEW d, NEW s, NEW users, Serving(s, users), NEW sel, Chosen(s, sel), NEW a, NEW b,
         NEW t, t = MarkRead(d, s, sel, a, b)
  PROVE  Serving(t, users)
<1> DEFINE uids == {x.uid : x \in {x \in Range(Newest(s, sel, b.slot)) : ~x.seen}} \cap
                   {u.suid : u \in {u \in Range(Downloaded(d, a, b)) :
                       \E m \in emstorage_get_mail_by_id(d, u.luid) : m.body # 0 /\ m.seen}}
           yes == TRUE
<1>1. t = s \/ t = Store(s, sel, uids, "seen", yes)
  BY DEF MarkRead
<1> HIDE DEF uids, yes
<1> QED  BY <1>1, Stored

-----------------------------------------------------------------------------
(* The heads of the threads.  A step ties the threads that had a head, and are *)
(* not noted, to their heads: what they list is the same (Knots), or gets its  *)
(* head again, or goes and leaves the head.  Deletions that go together cut a  *)
(* thread that loses no head (Cuts); those of a loop fray it (Frays), for each *)
(* of them one mail at a time.                                                 *)

\* The same mail, but for the number in it.
Kin(k, m) == k.id = m.id /\ k.acc = m.acc /\ k.thread = m.thread /\ k.type = m.type /\ k.msg = m.msg
\* e may follow d: the threads that had a head have one still, but for those in out.
Ties(d, e, out) == /\ Strung(e) /\ d.next <= e.next
                   /\ \A t : t \notin out /\ Headed(d, t) => Headed(e, t)

\* Rows with the same ids and messages are as many, and the latest is the same.
LEMMA Matched ==
  ASSUME NEW X, NEW Y, IsFiniteSet(X), \A x, z \in X : x.id = z.id => x = z, \A y, z \in Y : y.id = z.id => y = z,
         \A x \in X : \E y \in Y : y.id = x.id /\ y.msg = x.msg,
         \A y \in Y : \E x \in X : y.id = x.id /\ y.msg = x.msg
  PROVE  /\ Cardinality(X) = Cardinality(Y)
         /\ \A x \in X, y \in Y : x.id = y.id => (IsLatest(x, X) <=> IsLatest(y, Y))
<1> DEFINE f == [x \in X |-> CHOOSE y \in Y : y.id = x.id /\ y.msg = x.msg]
<1>1. \A x \in X : f[x] \in Y /\ f[x].id = x.id
  OBVIOUS
<1>2. f \in [X -> Y]
  OBVIOUS
<1> HIDE DEF f
<1>3. f \in Bijection(X, Y)
  <2>1. \A x, z \in X : f[x] = f[z] => x = z
    BY <1>1
  <2>2. \A y \in Y : \E x \in X : f[x] = y
    BY <1>1
  <2> QED  BY <1>2, <2>1, <2>2 DEF Bijection, Injection, IsInjective, Surjection
<1>4. Cardinality(X) = Cardinality(Y)
  BY <1>3, FS_Bijection DEF ExistsBijection
<1>5. ASSUME NEW x \in X, NEW y \in Y, x.id = y.id PROVE IsLatest(x, X) <=> IsLatest(y, Y)
  <2>1. x.msg = y.msg
    BY <1>5
  <2> QED  BY <1>5, <2>1 DEF IsLatest
<1> QED  BY <1>4, <1>5

\* A thread that lists the same mails with the same counts keeps its head.
LEMMA SameListed ==
  ASSUME NEW d, NEW e, NEW t, IsFiniteSet(d.mail), \A m, k \in d.mail : m.id = k.id => m = k,
         \A m, k \in e.mail : m.id = k.id => m = k,
         \A m \in ListedIn(d, t) : \E k \in ListedIn(e, t) : k.id = m.id /\ k.msg = m.msg /\ k.items = m.items,
         \A k \in ListedIn(e, t) : \E m \in ListedIn(d, t) : k.id = m.id /\ k.msg = m.msg /\ k.items = m.items,
         Headed(d, t)
  PROVE  Headed(e, t)
<1> DEFINE X == ListedIn(d, t)
           Y == ListedIn(e, t)
<1>0. X \subseteq d.mail /\ Y \subseteq e.mail
  BY DEF ListedIn
<1>1. \A m \in X : m.items = IF IsLatest(m, X) THEN Cardinality(X) ELSE 0
  BY DEF Headed
<1>2. (\A m \in X : \E k \in Y : k.id = m.id /\ k.msg = m.msg) /\ \A k \in Y : \E m \in X : k.id = m.id /\ k.msg = m.msg
  OBVIOUS
<1>3. (\A m, k \in X : m.id = k.id => m = k) /\ \A m, k \in Y : m.id = k.id => m = k
  BY <1>0
<1> HIDE DEF X, Y
<1>4. IsFiniteSet(X)
  BY <1>0, FS_Subset
<1>5. /\ Cardinality(X) = Cardinality(Y)
      /\ \A m \in X, k \in Y : m.id = k.id => (IsLatest(m, X) <=> IsLatest(k, Y))
  BY <1>2, <1>3, <1>4, Matched
<1>6. ASSUME NEW k \in Y PROVE k.items = IF IsLatest(k, Y) THEN Cardinality(Y) ELSE 0
  <2>1. PICK m \in X : k.id = m.id /\ k.items = m.items
    BY DEF X, Y
  <2> QED  BY <1>1, <1>5, <2>1
<1> QED  BY <1>6 DEF Headed, Y

\* Mails with the same knots.
LEMMA KnotIs ==
  ASSUME NEW m, NEW k
  PROVE  Knot(k) = Knot(m) <=> Kin(k, m) /\ k.items = m.items
BY DEF Knot, Kin

\* A thread has the same mails, with the same counts.
Twins(d, e, t) ==
    /\ \A m \in d.mail : m.thread = t => \E k \in e.mail : Kin(k, m) /\ k.items = m.items
    /\ \A k \in e.mail : k.thread = t => \E m \in d.mail : Kin(k, m) /\ k.items = m.items

LEMMA SameKnots ==
  ASSUME NEW d, NEW e, NEW next, Mailed(d.mail, next), NEW last, Mailed(e.mail, last), NEW t, Headed(d, t),
         Twins(d, e, t)
  PROVE  Headed(e, t)
<1>1. IsFiniteSet(d.mail) /\ (\A m, k \in d.mail : m.id = k.id => m = k) /\ \A m, k \in e.mail : m.id = k.id => m = k
  BY MailsAreFinite DEF Mailed
<1>2. \A m \in ListedIn(d, t) : \E k \in ListedIn(e, t) : k.id = m.id /\ k.msg = m.msg /\ k.items = m.items
  BY DEF ListedIn, Kin, Twins
<1>3. \A k \in ListedIn(e, t) : \E m \in ListedIn(d, t) : k.id = m.id /\ k.msg = m.msg /\ k.items = m.items
  BY DEF ListedIn, Kin, Twins
<1> QED  BY <1>1, <1>2, <1>3, SameListed

\* Mails that come from those of d, whose threads are those that were there.
LEMMA StrungStays ==
  ASSUME NEW d, NEW e, Strung(d), d.next \in Nat, e.next \in Nat, d.next <= e.next,
         \A k \in e.mail : \E m \in d.mail : k.thread = m.thread /\ k.acc = m.acc
  PROVE  Strung(e)
<1> SUFFICES ASSUME NEW k \in e.mail
             PROVE  k.thread \in 1 .. (e.next - 1) /\ \A l \in e.mail : l.thread = k.thread => l.acc = k.acc
  BY DEF Strung
<1>1. PICK m \in d.mail : k.thread = m.thread /\ k.acc = m.acc
  OBVIOUS
<1>2. m.thread \in 1 .. (d.next - 1) /\ \A n \in d.mail : n.thread = m.thread => n.acc = m.acc
  BY DEF Strung
<1>3. k.thread \in 1 .. (e.next - 1)
  BY <1>1, <1>2
<1> QED  BY <1>1, <1>2, <1>3

LEMMA KnotsTie ==
  ASSUME NEW d, NEW e, NEW users, Sound(d, users), Sound(e, users), Knots(e.mail) = Knots(d.mail), d.next <= e.next, Strung(d)
  PROVE  Ties(d, e, {})
<1>1. Mailed(d.mail, d.next) /\ Mailed(e.mail, e.next)
  BY SoundIs
<1>2. \A m \in d.mail : \E k \in e.mail : Kin(k, m) /\ k.items = m.items
  BY KnotIs DEF Knots
<1>3. \A k \in e.mail : \E m \in d.mail : Kin(k, m) /\ k.items = m.items
  BY KnotIs DEF Knots
<1>4. \A t : Headed(d, t) => Headed(e, t)
  <2>1. \A t : Twins(d, e, t)
    BY <1>2, <1>3 DEF Twins
  <2> QED  BY <1>1, <2>1, SameKnots
<1>5. Strung(e)
  BY <1>1, <1>3, StrungStays DEF Kin, Mailed
<1> QED  BY <1>4, <1>5 DEF Ties

LEMMA TiesTwice ==
  ASSUME NEW c, NEW d, NEW e, NEW users, Sound(c, users), Sound(d, users), Sound(e, users),
         NEW out, NEW more, Ties(c, d, out), Ties(d, e, more)
  PROVE  Ties(c, e, out \cup more)
<1>1. c.next \in Nat /\ d.next \in Nat /\ e.next \in Nat
  BY SoundIs DEF Mailed
<1> QED  BY <1>1 DEF Ties

\* Where threads get their heads again: each of the account has one.
LEMMA HeadsTie ==
  ASSUME NEW d, NEW users, Sound(d, users), Strung(d), NEW acc, NEW heads,
         NEW e, e = emstorage_update_latest_thread_mail(d, acc, heads)
  PROVE  /\ Ties(d, e, {})
         /\ \A k \in e.mail : \E m \in d.mail : Kin(k, m)
         /\ \A m \in d.mail : \E k \in e.mail : Kin(k, m)
         /\ \A t \in heads : (\A m \in d.mail : m.thread = t => m.acc = acc) => Headed(e, t)
<1>1. IsDb(d) /\ Mailed(d.mail, d.next)
  BY SoundIs
<1>2. Sound(e, users) /\ e.next = d.next
  BY UpdateHeads
<1>3. Mailed(e.mail, e.next)
  BY <1>2, SoundIs
<1>4. e.mail = {[m EXCEPT !.items = ThreadItems(d, acc, heads, m)] : m \in d.mail}
  BY <1>1 DEF emstorage_update_latest_thread_mail, IsDb, HasFields
<1>5. \A m \in d.mail : \E k \in e.mail : Kin(k, m) /\ k.items = ThreadItems(d, acc, heads, m)
  <2> SUFFICES ASSUME NEW m \in d.mail PROVE \E k \in e.mail : Kin(k, m) /\ k.items = ThreadItems(d, acc, heads, m)
    OBVIOUS
  <2>1. HasFields(m, MailFields)
    BY <1>1 DEF Mailed
  <2> DEFINE k == [m EXCEPT !.items = ThreadItems(d, acc, heads, m)]
  <2>2. k \in e.mail
    BY <1>4
  <2>3. Kin(k, m) /\ k.items = ThreadItems(d, acc, heads, m)
    BY <2>1 DEF HasFields, MailFields, Kin
  <2> QED  BY <2>2, <2>3
<1>6. \A k \in e.mail : \E m \in d.mail : Kin(k, m) /\ k.items = ThreadItems(d, acc, heads, m)
  <2> SUFFICES ASSUME NEW k \in e.mail PROVE \E m \in d.mail : Kin(k, m) /\ k.items = ThreadItems(d, acc, heads, m)
    OBVIOUS
  <2>1. PICK m \in d.mail : k = [m EXCEPT !.items = ThreadItems(d, acc, heads, m)]
    BY <1>4
  <2>2. HasFields(m, MailFields)
    BY <1>1 DEF Mailed
  <2> QED  BY <2>1, <2>2 DEF HasFields, MailFields, Kin
<1>7. Strung(e)
  BY <1>1, <1>2, <1>6, StrungStays DEF Kin, Mailed
<1>8. \A m \in d.mail : m.thread # 0 /\ \A k \in d.mail : k.thread = m.thread => k.acc = m.acc
  BY DEF Strung
\* Those of the account's threads that are looked up.
<1>9. ASSUME NEW t \in heads, \A m \in d.mail : m.thread = t => m.acc = acc
      PROVE  Headed(e, t)
  <2> DEFINE X == ListedIn(d, t)
             Y == ListedIn(e, t)
  <2>1. X = {k \in InThread(d, acc, t) : k.type \notin Unlisted}
    BY <1>9 DEF ListedIn, InThread
  <2>2. ASSUME NEW k \in Y
        PROVE  \E m \in X : Kin(k, m) /\ k.items = IF IsLatest(m, X) THEN Cardinality(X) ELSE 0
    <3>1. PICK m \in d.mail : Kin(k, m) /\ k.items = ThreadItems(d, acc, heads, m)
      BY <1>6 DEF ListedIn
    <3>2. m.thread = t /\ m \in X /\ m.thread \in heads \ {0} /\ m.acc = acc
      BY <1>8, <1>9, <3>1 DEF ListedIn, Kin
    <3>3. ThreadItems(d, acc, heads, m) = IF IsLatest(m, X) THEN Cardinality(X) ELSE 0
      BY <2>1, <3>2 DEF ThreadItems
    <3> QED  BY <3>1, <3>2, <3>3
  <2>3. \A m \in X : \E k \in Y : Kin(k, m)
    BY <1>5 DEF ListedIn, Kin
  <2>4. X \subseteq d.mail /\ Y \subseteq e.mail
    BY DEF ListedIn
  <2> HIDE DEF X, Y
  <2>5. (\A m, k \in X : m.id = k.id => m = k) /\ \A m, k \in Y : m.id = k.id => m = k
    BY <1>1, <1>3, <2>4 DEF Mailed
  <2>6. IsFiniteSet(X)
    BY <1>1, <2>4, MailsAreFinite, FS_Subset
  <2>7. (\A m \in X : \E k \in Y : k.id = m.id /\ k.msg = m.msg) /\ \A k \in Y : \E m \in X : k.id = m.id /\ k.msg = m.msg
    BY <2>2, <2>3 DEF Kin
  <2>8. /\ Cardinality(X) = Cardinality(Y)
        /\ \A m \in X, k \in Y : m.id = k.id => (IsLatest(m, X) <=> IsLatest(k, Y))
    BY <2>5, <2>6, <2>7, Matched
  <2>9. ASSUME NEW k \in Y PROVE k.items = IF IsLatest(k, Y) THEN Cardinality(Y) ELSE 0
    <3>1. PICK m \in X : k.id = m.id /\ k.items = IF IsLatest(m, X) THEN Cardinality(X) ELSE 0
      BY <2>2 DEF Kin
    <3> QED  BY <2>8, <3>1
  <2> QED  BY <2>9 DEF Headed, Y
<1>10. ASSUME NEW t, Headed(d, t) PROVE Headed(e, t)
  <2>1. CASE t \in heads /\ \A m \in d.mail : m.thread = t => m.acc = acc
    BY <1>9, <2>1
  <2>2. CASE ~(t \in heads /\ \A m \in d.mail : m.thread = t => m.acc = acc)
    <3>1. \A m \in d.mail : m.thread = t => ThreadItems(d, acc, heads, m) = m.items
      BY <1>8, <2>2 DEF ThreadItems
    <3>2. \A m \in d.mail : m.thread = t => \E k \in e.mail : Kin(k, m) /\ k.items = m.items
      BY <1>5, <3>1
    <3>3. \A k \in e.mail : k.thread = t => \E m \in d.mail : Kin(k, m) /\ k.items = m.items
      <4> SUFFICES ASSUME NEW k \in e.mail, k.thread = t PROVE \E m \in d.mail : Kin(k, m) /\ k.items = m.items
        OBVIOUS
      <4>1. PICK m \in d.mail : Kin(k, m) /\ k.items = ThreadItems(d, acc, heads, m)
        BY <1>6
      <4> QED  BY <3>1, <4>1 DEF Kin
    <3>4. Mailed(d.mail, d.next) /\ Mailed(e.mail, e.next) /\ Headed(d, t)
      BY <1>1, <1>3, <1>10
    <3>5. Twins(d, e, t)
      BY <3>2, <3>3 DEF Twins
    <3> QED  BY <3>4, <3>5, SameKnots
  <2> QED  BY <2>1, <2>2
<1>11. d.next <= e.next
  BY <1>1, <1>2 DEF Mailed
<1> QED  BY <1>5, <1>6, <1>7, <1>9, <1>10, <1>11 DEF Ties

\* A thread of which only mails go that are no heads, one of them listed.
Cut(d, e, t) ==
    /\ \E m \in ListedIn(d, t) : \A k \in e.mail : k.id # m.id
    /\ \A m \in d.mail : m.thread = t /\ (\A k \in e.mail : k.id # m.id) => m.items <= 1

LEMMA SameMails ==
  ASSUME NEW d, NEW e, d.mail = e.mail, NEW t
  PROVE  Headed(d, t) <=> Headed(e, t)
BY DEF Headed, ListedIn

LEMMA DeleteTies ==
  ASSUME NEW d, NEW users, Sound(d, users), Strung(d), NEW acc, NEW ids,
         NEW e, e = emcore_delete_mails_from_local_storage(d, acc, ids)
  PROVE  /\ \A k \in e.mail : \E m \in d.mail : Kin(k, m)
         /\ \A t : /\ Headed(d, t)
                   /\ \A m \in d.mail : m.id \in ids /\ m.thread = t => m.acc = acc
                   => Headed(e, t) \/ Cut(d, e, t)
<1> DEFINE records == emstorage_get_mail_field_by_multiple_mail_id(d, ids)
           mails == {m.id : m \in records}
           heads == {m.thread : m \in {m \in records : m.items > 1}}
           a == emstorage_delete_multiple_mails(d, ids)
           b == emstorage_update_latest_thread_mail(a, acc, heads)
<1>1. IsDb(d) /\ Mailed(d.mail, d.next) /\ Tables(d) /\ Counted(d.mail)
  BY SoundIs DEF Sound
<1>2. a = [d EXCEPT !.mail = {m \in d.mail : m.id \notin ids}]
  BY <1>1 DEF emstorage_delete_multiple_mails, IsDb, HasFields
<1>3. \A m \in d.mail : m.id \in ids => m \in records
  BY DEF emstorage_get_mail_field_by_multiple_mail_id
<1> HIDE DEF records
<1>4. \A m \in d.mail : m.id \in ids /\ m.items > 1 => m.thread \in heads
  BY <1>3
<1> HIDE DEF mails, heads, a
<1>5. a.mail = {m \in d.mail : m.id \notin ids} /\ a.next = d.next
  BY <1>1, <1>2 DEF IsDb, HasFields
<1>6. Sound(a, users)
  <2>1. \A x \in {"account", "box", "uid", "att", "meet", "rule", "dir", "next"} : a[x] = d[x]
    BY <1>1, <1>2 DEF IsDb, HasFields
  <2>2. IsDb(a)
    BY <1>1, <1>2 DEF IsDb, HasFields
  <2>3. Mailed(a.mail, a.next) /\ Counted(a.mail)
    BY <1>1, <1>5 DEF Mailed, Counted
  <2>4. OfAccounts(a.dir, a.mail, a.next) /\ OfAccounts(a.meet, a.mail, a.next)
    BY <1>5, <2>1, SoundIs DEF OfAccounts
  <2> QED  BY <2>1, <2>2, <2>3, <2>4, SoundIs
<1>7. Strung(a)
  BY <1>1, <1>5, StrungStays DEF Mailed
<1>8. /\ \A t : Headed(a, t) => Headed(b, t)
      /\ \A k \in b.mail : \E m \in a.mail : Kin(k, m)
      /\ \A m \in a.mail : \E k \in b.mail : Kin(k, m)
      /\ \A t \in heads : (\A m \in a.mail : m.thread = t => m.acc = acc) => Headed(b, t)
  BY <1>6, <1>7, HeadsTie DEF Ties
<1>9. e = Clean(b, acc, mails)
  BY DEF emcore_delete_mails_from_local_storage, b, a, heads, mails, records
<1>10. e.mail = b.mail
  <2>1. IsDb(b)
    BY <1>6, UpdateHeads, SoundIs
  <2> HIDE DEF b
  <2> QED  BY <1>9, <2>1, CleanThins
<1> HIDE DEF b
<1>11. \A t : Headed(b, t) => Headed(e, t)
  BY <1>10, SameMails
<1>12. \A m \in d.mail : m.id \in ids <=> \A k \in e.mail : k.id # m.id
  <2>1. \A m \in d.mail : m.id \in ids => \A k \in e.mail : k.id # m.id
    BY <1>5, <1>8, <1>10 DEF Kin
  <2>2. \A m \in d.mail : m.id \notin ids => \E k \in e.mail : k.id = m.id
    BY <1>5, <1>8, <1>10 DEF Kin
  <2> QED  BY <2>1, <2>2
<1>13. \A k \in e.mail : \E m \in d.mail : Kin(k, m)
  BY <1>5, <1>8, <1>10
<1>14. ASSUME NEW t, Headed(d, t), \A m \in d.mail : m.id \in ids /\ m.thread = t => m.acc = acc, ~Cut(d, e, t)
       PROVE  Headed(e, t)
  <2>1. CASE \E m \in d.mail : m.id \in ids /\ m.thread = t /\ ~(m.items <= 1)
    <3>1. PICK m \in d.mail : m.id \in ids /\ m.thread = t /\ ~(m.items <= 1)
      BY <2>1
    <3>2. m.items \in Nat
      BY <1>1 DEF Counted
    <3>3. t \in heads
      BY <1>4, <3>1, <3>2
    <3>4. \A k \in a.mail : k.thread = t => k.acc = acc
      BY <1>5, <1>14, <3>1 DEF Strung
    <3> QED  BY <1>8, <1>11, <3>3, <3>4
  <2>2. CASE \A m \in d.mail : m.id \in ids /\ m.thread = t => m.items <= 1
    <3>1. \A m \in ListedIn(d, t) : m.id \notin ids
      BY <1>12, <1>14, <2>2 DEF Cut, ListedIn
    <3>2. ListedIn(a, t) = ListedIn(d, t)
      BY <1>5, <3>1 DEF ListedIn
    <3>3. Headed(a, t)
      BY <1>14, <3>2 DEF Headed
    <3> QED  BY <1>8, <1>11, <3>3
  <2> QED  BY <2>1, <2>2
<1> QED  BY <1>13, <1>14

-----------------------------------------------------------------------------

\* e is d without some of its mails, one after the other: of a thread that has
\* no head any more a mail went that was none.
Lost(d, e, t) == \E m \in ListedIn(d, t) : m.items <= 1 /\ \A k \in e.mail : k.id # m.id
Frays(d, e) == /\ \A k \in e.mail : \E m \in d.mail : Kin(k, m)
               /\ \A t : Headed(d, t) => Headed(e, t) \/ Lost(d, e, t)

LEMMA FraysTwice ==
  ASSUME NEW c, NEW d, NEW e, NEW users, Sound(c, users), Sound(d, users), Sound(e, users), Frays(c, d), Frays(d, e)
  PROVE  Frays(c, e)
<1>1. Mailed(c.mail, c.next) /\ Mailed(d.mail, d.next) /\ Mailed(e.mail, e.next) /\ Counted(c.mail) /\ Counted(d.mail)
  BY SoundIs
<1>2. \A k \in e.mail : \E m \in c.mail : Kin(k, m)
  BY DEF Frays, Kin
<1>3. ASSUME NEW t, Headed(c, t), ~Headed(e, t) PROVE Lost(c, e, t)
  <2>1. CASE Lost(c, d, t)
    BY <2>1 DEF Lost, Frays, Kin
  <2>2. CASE Headed(d, t)
    <3>1. PICK m \in ListedIn(d, t) : m.items <= 1 /\ \A k \in e.mail : k.id # m.id
      BY <1>3, <2>2 DEF Frays, Lost
    <3>2. PICK l \in c.mail : Kin(m, l)
      BY <3>1 DEF Frays, ListedIn
    <3>3. l \in ListedIn(c, t)
      BY <3>1, <3>2 DEF ListedIn, Kin
    <3>4. SUFFICES ASSUME ~(l.items <= 1) PROVE FALSE
      BY <3>1, <3>2, <3>3 DEF Lost, Kin
    <3>5. IsLatest(l, ListedIn(c, t))
      <4>1. l.items = IF IsLatest(l, ListedIn(c, t)) THEN Cardinality(ListedIn(c, t)) ELSE 0
        BY <1>3, <3>3 DEF Headed
      <4> QED  BY <3>4, <4>1
    <3>6. IsLatest(m, ListedIn(d, t))
      <4> SUFFICES ASSUME NEW k \in ListedIn(d, t) PROVE k.msg < m.msg \/ (k.msg = m.msg /\ k.id <= m.id)
        BY DEF IsLatest
      <4>1. PICK n \in c.mail : Kin(k, n)
        BY DEF Frays, ListedIn
      <4>2. n \in ListedIn(c, t)
        BY <4>1 DEF ListedIn, Kin
      <4> QED  BY <3>2, <3>5, <4>1, <4>2 DEF IsLatest, Kin
    <3>7. m.items = Cardinality(ListedIn(d, t))
      BY <2>2, <3>1, <3>6 DEF Headed
    <3>8. IsFiniteSet(ListedIn(d, t))
      BY <1>1, MailsAreFinite, FS_Subset, ListedIn(d, t) \in SUBSET d.mail DEF ListedIn
    <3>9. Cardinality(ListedIn(d, t)) = 1
      <4>1. Cardinality(ListedIn(d, t)) \in Nat /\ (Cardinality(ListedIn(d, t)) = 0 <=> ListedIn(d, t) = {})
        BY <3>8, FS_CardinalityType, FS_EmptySet
      <4> QED  BY <3>1, <3>7, <4>1
    <3>10. \A k \in ListedIn(d, t) : k = m
      <4>1. \E x : ListedIn(d, t) = {x}
        BY <3>8, <3>9, FS_Singleton
      <4> QED  BY <3>1, <4>1
    <3>11. ListedIn(e, t) = {}
      <4> SUFFICES ASSUME NEW k \in ListedIn(e, t) PROVE FALSE
        OBVIOUS
      <4>1. k \in e.mail
        BY DEF ListedIn
      <4>2. PICK n \in d.mail : Kin(k, n)
        BY <4>1 DEF Frays
      <4>3. n \in ListedIn(d, t)
        BY <4>2 DEF ListedIn, Kin
      <4> QED  BY <3>1, <3>10, <4>1, <4>2, <4>3 DEF Kin
    <3> QED  BY <1>3, <3>11 DEF Headed
  <2> QED  BY <1>3, <2>1, <2>2 DEF Frays
<1> QED  BY <1>2, <1>3 DEF Frays

LEMMA KnotsFray ==
  ASSUME NEW d, NEW e, NEW users, Sound(d, users), Sound(e, users), Knots(e.mail) = Knots(d.mail)
  PROVE  Frays(d, e)
<1>1. Mailed(d.mail, d.next) /\ Mailed(e.mail, e.next)
  BY SoundIs
<1>2. \A m \in d.mail : \E k \in e.mail : Kin(k, m) /\ k.items = m.items
  BY KnotIs DEF Knots
<1>3. \A k \in e.mail : \E m \in d.mail : Kin(k, m) /\ k.items = m.items
  BY KnotIs DEF Knots
<1>4. \A t : Twins(d, e, t)
  BY <1>2, <1>3 DEF Twins
<1> QED  BY <1>1, <1>3, <1>4, SameKnots DEF Frays

LEMMA DeleteFrays ==
  ASSUME NEW d, NEW users, Sound(d, users), Strung(d), NEW acc, NEW ids, \A m \in d.mail : m.id \in ids => m.acc = acc,
         NEW e, e = emcore_delete_mails_from_local_storage(d, acc, ids)
  PROVE  Frays(d, e)
<1>1. \A k \in e.mail : \E m \in d.mail : Kin(k, m)
  BY DeleteTies
<1>2. \A t : Headed(d, t) => Headed(e, t) \/ Cut(d, e, t)
  BY DeleteTies
<1>3. \A t : Cut(d, e, t) => Lost(d, e, t)
  BY DEF Cut, Lost, ListedIn
<1> QED  BY <1>1, <1>2, <1>3 DEF Frays

\* The threads of a batch that have mails of another account in it.
Strange(d, acc, ids) == {m.thread : m \in {m \in d.mail : m.id \in ids /\ m.acc # acc}}
\* e is d without some of its mails, which went together.
Cuts(d, e, but) == /\ \A k \in e.mail : \E m \in d.mail : Kin(k, m)
                   /\ \A t : t \notin but /\ Headed(d, t) => Headed(e, t) \/ Cut(d, e, t)

LEMMA CutsSame ==
  ASSUME NEW d, NEW but
  PROVE  Cuts(d, d, but)
BY DEF Cuts, Kin

LEMMA CutsMore ==
  ASSUME NEW d, NEW e, NEW but, Cuts(d, e, but), NEW more, but \subseteq more
  PROVE  Cuts(d, e, more)
BY DEF Cuts

LEMMA CutsFray ==
  ASSUME NEW d, NEW e, Cuts(d, e, {})
  PROVE  Frays(d, e)
<1>1. \A t : Cut(d, e, t) => Lost(d, e, t)
  BY DEF Cut, Lost, ListedIn
<1> QED  BY <1>1 DEF Cuts, Frays

LEMMA DeleteHereCuts ==
  ASSUME NEW d, NEW users, Sound(d, users), Strung(d), NEW acc, NEW ids,
         NEW e, e = emcore_delete_mails_from_local_storage(d, acc, ids)
  PROVE  Cuts(d, e, Strange(d, acc, ids))
<1>1. \A k \in e.mail : \E m \in d.mail : Kin(k, m)
  BY DeleteTies
<1>2. \A t : /\ Headed(d, t)
             /\ \A m \in d.mail : m.id \in ids /\ m.thread = t => m.acc = acc
             => Headed(e, t) \/ Cut(d, e, t)
  BY DeleteTies
<1>3. \A t : t \notin Strange(d, acc, ids) => \A m \in d.mail : m.id \in ids /\ m.thread = t => m.acc = acc
  BY DEF Strange
<1> QED  BY <1>1, <1>2, <1>3 DEF Cuts

LEMMA DeleteCuts ==
  ASSUME NEW d, NEW users, Sound(d, users), Strung(d), NEW acc, NEW ids, NEW e, e = emcore_delete_mail(d, acc, ids)
  PROVE  Cuts(d, e, Strange(d, acc, ids))
<1>1. e = d \/ e = emcore_delete_mails_from_local_storage(d, acc, ids)
  BY DEF emcore_delete_mail
<1> QED  BY <1>1, CutsSame, DeleteHereCuts

LEMMA OwnCuts ==
  ASSUME NEW d, NEW users, Sound(d, users), Strung(d), NEW acc, NEW ids, \A m \in d.mail : m.id \in ids => m.acc = acc,
         NEW e, e = emcore_delete_mail(d, acc, ids)
  PROVE  Cuts(d, e, {})
<1>1. Strange(d, acc, ids) = {}
  BY DEF Strange
<1> QED  BY <1>1, DeleteCuts

\* What is beyond a slot is of the mailbox.
LEMMA OverflowCuts ==
  ASSUME NEW d, NEW users, Sound(d, users), Strung(d), NEW acc, NEW box, NEW slot \in Nat,
         NEW e, e = emcore_remove_overflowed_mails(d, acc, box, slot)
  PROVE  Cuts(d, e, {})
<1> DEFINE ids == emstorage_get_overflowed_mail_id_list(d, acc, box, slot)
           rows == {m \in d.mail : m.acc = acc /\ m.box = box}
<1>1. Mailed(d.mail, d.next)
  BY SoundIs
<1>2. IsFiniteSet(rows)
  BY <1>1, MailsAreFinite, FS_Subset, rows \in SUBSET d.mail
<1>3. (\A r \in rows : r.id \in Nat /\ r.msg \in Nat) /\ \A r, q \in rows : r.id = q.id => r = q
  BY <1>1 DEF Mailed
<1>4. \A i \in 1 .. Len(ByDate(rows)) : ByDate(rows)[i] \in rows
  BY <1>2, <1>3, ByDateLists
<1>5. Len(ByDate(rows)) \in Nat
  BY <1>2, <1>3, ByDateLists, FS_CardinalityType
<1>6. \A i \in (slot + 1) .. Len(ByDate(rows)) : ByDate(rows)[i] \in d.mail /\ ByDate(rows)[i].acc = acc
  BY <1>4, <1>5
<1>7. ids = {ByDate(rows)[i].id : i \in (slot + 1) .. Len(ByDate(rows))}
  BY DEF emstorage_get_overflowed_mail_id_list, Beyond
<1>8. \A m \in d.mail : m.id \in ids => m.acc = acc
  BY <1>1, <1>6, <1>7 DEF Mailed
<1>9. e = emcore_delete_mail(d, acc, ids)
  BY DEF emcore_remove_overflowed_mails
<1> HIDE DEF ids
<1> QED  BY <1>8, <1>9, OwnCuts

LEMMA DeleteAllCuts ==
  ASSUME NEW d, NEW users, Sound(d, users), Strung(d), NEW box, NEW e, e = emcore_delete_all_mails_of_mailbox(d, box)
  PROVE  Cuts(d, e, {})
<1> DEFINE b == The(emstorage_get_mailbox_by_id(d, box))
           ids == {m.id : m \in MailsByName(d, b)}
<1>1. e = d \/ e = emcore_delete_mail(d, b.acc, ids)
  BY DEF emcore_delete_all_mails_of_mailbox
<1> HIDE DEF b
<1>2. \A m \in d.mail : m.id \in ids => m.acc = b.acc
  BY SoundIs DEF Mailed, MailsByName
<1> HIDE DEF ids
<1> QED  BY <1>1, <1>2, CutsSame, OwnCuts

\* What is marked deleted in a mailbox may be of another account.
Alien(d, box) == UNION {Strange(d, b.acc, DeletedFlagged(d, box)) : b \in emstorage_get_mailbox_by_id(d, box)}

LEMMA ExpungeCuts ==
  ASSUME NEW d, NEW users, Sound(d, users), Strung(d), NEW box,
         NEW e, e = emcore_expunge_mails_deleted_flagged_from_local_storage(d, box)
  PROVE  Cuts(d, e, Alien(d, box))
<1> DEFINE found == emstorage_get_mailbox_by_id(d, box)
           ids == DeletedFlagged(d, box)
<1>1. CASE found = {} \/ ids = {}
  <2>1. e = d
    BY <1>1 DEF emcore_expunge_mails_deleted_flagged_from_local_storage
  <2> QED  BY <2>1, CutsSame
<1>2. CASE ~(found = {} \/ ids = {})
  <2>1. e = emcore_delete_mails_from_local_storage(d, The(found).acc, ids)
    BY <1>2 DEF emcore_expunge_mails_deleted_flagged_from_local_storage
  <2>2. The(found) \in found
    BY <1>2 DEF The
  <2>3. Strange(d, The(found).acc, ids) \subseteq Alien(d, box)
    BY <2>2 DEF Alien
  <2> HIDE DEF found, ids
  <2> QED  BY <2>1, <2>3, DeleteHereCuts, CutsMore
<1> QED  BY <1>1, <1>2

-----------------------------------------------------------------------------
\* With what an action notes of them, the threads have their heads.
LEMMA CutsTie ==
  ASSUME NEW users, Sound(db, users), Sound(db', users), Strung(db), db.next <= (db').next, NEW but, Cuts(db, db', but),
         NEW out, but \subseteq out, Headless(db') \subseteq out
  PROVE  Ties(db, db', out)
<1>1. db.next \in Nat /\ (db').next \in Nat
  BY SoundIs DEF Mailed
<1>2. Strung(db')
  BY <1>1, StrungStays DEF Cuts, Kin
<1>3. ASSUME NEW t, t \notin out, Headed(db, t), ~Headed(db', t) PROVE FALSE
  <2>1. Cut(db, db', t)
    BY <1>3 DEF Cuts
  <2>2. PICK m \in ListedIn(db, t) : \A k \in (db').mail : k.id # m.id
    BY <2>1 DEF Cut
  <2>3. m \in Gone(db') /\ m.thread = t
    BY <2>2 DEF Gone, ListedIn
  <2>4. \A k \in Gone(db') : k.thread = t => k.items <= 1
    BY <2>1 DEF Cut, Gone
  <2>5. Remains(db', t)
    BY <1>3 DEF Headed, ListedIn, Remains
  <2>6. t \in Headless(db')
    BY <2>3, <2>4, <2>5 DEF Headless
  <2> QED  BY <1>3, <2>6
<1> QED  BY <1>2, <1>3 DEF Ties

LEMMA FraysTie ==
  ASSUME NEW users, Sound(db, users), Sound(db', users), Strung(db), db.next <= (db').next, Frays(db, db'),
         NEW out, Beheaded(db') \subseteq out
  PROVE  Ties(db, db', out)
<1>1. db.next \in Nat /\ (db').next \in Nat
  BY SoundIs DEF Mailed
<1>2. Strung(db')
  BY <1>1, StrungStays DEF Frays, Kin
<1>3. ASSUME NEW t, t \notin out, Headed(db, t), ~Headed(db', t) PROVE FALSE
  <2>1. Lost(db, db', t)
    BY <1>3 DEF Frays
  <2>2. PICK m \in ListedIn(db, t) : m.items <= 1 /\ \A k \in (db').mail : k.id # m.id
    BY <2>1 DEF Lost
  <2>3. m \in Gone(db') /\ m.thread = t /\ m.type \notin Unlisted
    BY <2>2 DEF Gone, ListedIn
  <2>4. Remains(db', t)
    BY <1>3 DEF Headed, ListedIn, Remains
  <2>5. t \in Beheaded(db')
    BY <2>2, <2>3, <2>4 DEF Beheaded
  <2> QED  BY <1>3, <2>5
<1> QED  BY <1>2, <1>3 DEF Ties

\* e has the mails of d, in their threads, and one more.
OneMore(d, e) == /\ \A m \in d.mail : \E k \in e.mail : Kin(k, m)
                 /\ \A k \in e.mail : k.id = d.next \/ \E m \in d.mail : Kin(k, m)

LEMMA KinTwice ==
  ASSUME NEW k, NEW l, NEW m, Kin(k, l), Kin(l, m)
  PROVE  Kin(k, m)
BY DEF Kin

\* A new mail is alone in a thread that it gives its id, or joins one of its
\* account, which gets its head again.
LEMMA ThreadedTies ==
  ASSUME NEW d, NEW users, Sound(d, users), Strung(d), NEW b, NEW row, HasFields(row, MailFields), row.id = d.next, row.msg \in Nat,
         Houses(b, row), NEW c \in {d, emstorage_create_dir(d, b.acc, d.next)}, NEW e, e = Threaded(c, row)
  PROVE  Ties(d, e, {}) /\ OneMore(d, e) /\ Sound(e, users) /\ e.next = d.next + 1
<1> DEFINE found == emstorage_get_thread_id_of_thread_mails(c, row)
           alone == found.thread = -1
           full == [row EXCEPT !.thread = IF alone THEN row.id ELSE found.thread, !.items = IF alone THEN 1 ELSE 0]
           added == emstorage_add_mail(c, full)
           heads == {found.thread}
           like == {m \in d.mail : m.acc = row.acc /\ m.type \notin NotThreaded /\ Subject[m.msg] = Subject[row.msg]}
<1>1. IF alone THEN e = added ELSE e = emstorage_update_latest_thread_mail(added, row.acc, heads)
  BY DEF Threaded
<1>2. /\ HasFields(full, MailFields) /\ full.id = d.next /\ full.msg \in Nat /\ full.items \in Nat /\ full.acc = b.acc
      /\ full.acc = row.acc /\ full.thread = (IF alone THEN d.next ELSE found.thread) /\ (alone => full.items = 1)
  BY DEF HasFields, MailFields, Houses
<1>3. Mailed(d.mail, d.next) /\ d.next \in Nat \ {0}
  BY SoundIs DEF Mailed
<1>4. c.mail = d.mail
  BY SoundIs DEF emstorage_create_dir, IsDb, HasFields
<1>5. ~alone => \E m \in d.mail : m.acc = row.acc /\ found.thread = m.thread
  <2>1. CASE row.type \in NotThreaded \ {"search"} \/ Subject[row.msg] = NoName \/ like = {}
    BY <1>4, <2>1 DEF emstorage_get_thread_id_of_thread_mails
  <2>2. CASE ~(row.type \in NotThreaded \ {"search"} \/ Subject[row.msg] = NoName \/ like = {})
    <3>1. found.thread = ByDate(like)[1].thread
      BY <1>4, <2>2 DEF emstorage_get_thread_id_of_thread_mails
    <3>2. IsFiniteSet(like)
      BY <1>3, MailsAreFinite, FS_Subset, like \in SUBSET d.mail
    <3>3. (\A r \in like : r.id \in Nat /\ r.msg \in Nat) /\ \A r, q \in like : r.id = q.id => r = q
      BY <1>3 DEF Mailed
    <3>4. like # {} /\ \A m \in like : m \in d.mail /\ m.acc = row.acc
      BY <2>2
    <3> HIDE DEF like, found
    <3>5. Len(ByDate(like)) = Cardinality(like) /\ \A i \in 1 .. Len(ByDate(like)) : ByDate(like)[i] \in like
      BY <3>2, <3>3, ByDateLists
    <3>6. Cardinality(like) \in Nat /\ Cardinality(like) # 0
      BY <3>2, <3>4, FS_CardinalityType, FS_EmptySet
    <3>7. ByDate(like)[1] \in like
      BY <3>5, <3>6
    <3> QED  BY <3>1, <3>4, <3>7
  <2> QED  BY <2>1, <2>2
<1> HIDE DEF found, alone, full, heads
<1>6. Sound(added, users) /\ added.mail = d.mail \cup {full} /\ added.next = d.next + 1
  BY <1>2, AddMailRow
<1> HIDE DEF added
<1>7. Mailed(added.mail, added.next)
  BY <1>6, SoundIs
<1>8. \A t : t # full.thread => ListedIn(added, t) = ListedIn(d, t)
  BY <1>6 DEF ListedIn
<1>9. \A t : t # full.thread /\ Headed(d, t) => Headed(added, t)
  BY <1>8 DEF Headed
<1>10. d.next <= added.next
  BY <1>3, <1>6
<1>11. OneMore(d, added)
  BY <1>2, <1>6 DEF OneMore, Kin
\* A thread of its own.
<1>12. CASE alone
  <2>1. \A m \in d.mail : m.thread # d.next
    BY <1>3 DEF Strung
  <2>2. Strung(added)
    <3>1. \A m \in d.mail : m.thread \in 1 .. (added.next - 1)
      BY <1>3, <1>6 DEF Strung
    <3> QED  BY <1>2, <1>3, <1>6, <1>12, <2>1, <3>1 DEF Strung
  <2>3. Headed(added, d.next)
    <3> SUFFICES ASSUME NEW m \in ListedIn(added, d.next)
                 PROVE  m.items = IF IsLatest(m, ListedIn(added, d.next)) THEN Cardinality(ListedIn(added, d.next)) ELSE 0
      BY DEF Headed
    <3>1. \A k \in ListedIn(added, d.next) : k = full
      BY <1>6, <2>1 DEF ListedIn
    <3>2. ListedIn(added, d.next) = {full} /\ m = full
      BY <3>1
    <3>3. IsLatest(full, {full})
      BY <1>2, <1>3 DEF IsLatest
    <3>4. Cardinality({full}) = 1
      BY FS_Singleton
    <3> QED  BY <1>2, <1>12, <3>2, <3>3, <3>4
  <2>4. full.thread = d.next /\ e = added
    BY <1>1, <1>2, <1>12
  <2>5. Ties(d, e, {})
    BY <1>9, <1>10, <2>2, <2>3, <2>4 DEF Ties
  <2> QED  BY <1>6, <1>11, <2>4, <2>5
\* A thread that there was.
<1>13. CASE ~alone
  <2>1. PICK h \in d.mail : h.acc = row.acc /\ found.thread = h.thread
    BY <1>5, <1>13
  <2>2. full.thread = h.thread /\ full.acc = h.acc
    BY <1>2, <1>13, <2>1
  <2>3. Strung(added)
    <3>1. \A m \in d.mail : m.thread \in 1 .. (added.next - 1)
      BY <1>3, <1>6 DEF Strung
    <3>2. \A m \in d.mail : m.thread = full.thread => m.acc = full.acc
      BY <2>1, <2>2 DEF Strung
    <3>3. \A m, k \in d.mail : m.thread = k.thread => m.acc = k.acc
      BY DEF Strung
    <3>4. full.thread \in 1 .. (added.next - 1)
      BY <2>1, <2>2, <3>1
    <3> QED  BY <1>6, <3>1, <3>2, <3>3, <3>4 DEF Strung
  <2>4. e = emstorage_update_latest_thread_mail(added, row.acc, heads)
    BY <1>1, <1>13
  <2>5. /\ Ties(added, e, {})
        /\ \A k \in e.mail : \E m \in added.mail : Kin(k, m)
        /\ \A m \in added.mail : \E k \in e.mail : Kin(k, m)
        /\ \A t \in heads : (\A m \in added.mail : m.thread = t => m.acc = row.acc) => Headed(e, t)
    BY <1>6, <2>3, <2>4, HeadsTie
  <2>6. Headed(e, full.thread)
    <3>1. full.thread \in heads
      BY <2>1, <2>2 DEF heads
    <3>2. \A m \in added.mail : m.thread = full.thread => m.acc = row.acc
      BY <1>2, <1>6, <2>3 DEF Strung
    <3> QED  BY <2>5, <3>1, <3>2
  <2>7. Sound(e, users) /\ e.next = added.next
    BY <1>6, <2>4, UpdateHeads
  <2>8. Ties(d, e, {})
    BY <1>9, <1>10, <2>5, <2>6, <2>7 DEF Ties
  <2>9. \A m \in d.mail : \E k \in e.mail : Kin(k, m)
    BY <1>6, <2>5
  <2>10. \A k \in e.mail : k.id = d.next \/ \E m \in d.mail : Kin(k, m)
    <3> SUFFICES ASSUME NEW k \in e.mail, k.id # d.next PROVE \E m \in d.mail : Kin(k, m)
      OBVIOUS
    <3>1. PICK m \in added.mail : Kin(k, m)
      BY <2>5
    <3>2. m \in d.mail
      BY <1>2, <1>6, <3>1 DEF Kin
    <3> QED  BY <3>1, <3>2
  <2> QED  BY <1>6, <2>7, <2>8, <2>9, <2>10 DEF OneMore
<1> QED  BY <1>12, <1>13

LEMMA AddMailTies ==
  ASSUME NEW d, NEW users, Sound(d, users), Strung(d), NEW b, NEW msg \in Nat, NEW suid, NEW seen,
         NEW e, e = emcore_add_mail_to_mailbox(d, b, msg, suid, seen)
  PROVE  Ties(d, e, {})
<1> DEFINE row == NewMail(d, b, msg, suid, seen)
           c == Threaded(d, row)
<1>1. HasFields(row, MailFields) /\ row.id = d.next /\ row.msg \in Nat /\ Houses(b, row)
  BY NewMailIs
<1>2. e = emstorage_add_downloaded_mail(c, b.acc, b.id, b.name, row.id, suid)
  BY DEF emcore_add_mail_to_mailbox
<1> HIDE DEF row
<1>3. Ties(d, c, {}) /\ Sound(c, users)
  BY <1>1, ThreadedTies
<1> HIDE DEF c
<1>4. Sound(e, users) /\ Steady(c, e)
  BY <1>2, <1>3, AddDownloaded
<1>5. Knots(e.mail) = Knots(c.mail) /\ c.next <= e.next /\ Strung(c)
  <2>1. c.next \in Nat
    BY <1>3, SoundIs DEF Mailed
  <2> QED  BY <1>3, <1>4, <2>1 DEF Steady, Staying, Carries, Ties
<1>6. Ties(c, e, {})
  BY <1>3, <1>4, <1>5, KnotsTie
<1>7. Ties(d, e, {} \cup {})
  BY <1>3, <1>4, <1>6, TiesTwice
<1> QED  BY <1>7

\* Of a mail that is saved when its mailbox is trimmed: a thread that loses a
\* mail of before is noted, unless the new mail and all of before are there.
LEMMA SaveMailTies ==
  ASSUME NEW d, NEW users, Sound(d, users), Strung(d), NEW acc, NEW box, \A b \in d.box : b.id = box => b.acc = acc,
         NEW msg \in Nat, NEW attached, NEW meeting, NEW e, e = emcore_add_mail(d, acc, box, msg, attached, meeting),
         NEW out, \/ {m.id : m \in d.mail} \cup {d.next} \subseteq {m.id : m \in e.mail}
                  \/ {m.thread : m \in d.mail \ e.mail} \subseteq out
  PROVE  Ties(d, e, out)
<1>0. Mailed(d.mail, d.next)
  BY SoundIs
<1>1. CASE e = d
  BY <1>0, <1>1 DEF Ties, Mailed
<1>2. ASSUME NEW b, NEW row, NEW c, NEW mid, Saved(d, users, b, row, c, mid, e) PROVE Ties(d, e, out)
  <2> DEFINE added == Threaded(c, row)
  <2>1. Ties(d, added, {}) /\ OneMore(d, added) /\ Sound(added, users)
    BY <1>2, ThreadedTies DEF Saved
  <2>2. Steady(added, mid) /\ Sound(mid, users)
    BY <1>2 DEF Saved
  <2> HIDE DEF added
  <2>3. Knots(mid.mail) = Knots(added.mail) /\ added.next <= mid.next /\ Strung(added)
    <3>1. added.next \in Nat
      BY <2>1, SoundIs DEF Mailed
    <3> QED  BY <2>1, <2>2, <3>1 DEF Steady, Staying, Carries, Ties
  <2>4. Ties(added, mid, {})
    BY <2>1, <2>2, <2>3, KnotsTie
  <2>5. \A k \in mid.mail : \E m \in added.mail : Kin(k, m)
    BY <2>3, KnotIs DEF Knots
  <2>6. Ties(d, mid, {})
    <3>1. Ties(d, mid, {} \cup {})
      BY <2>1, <2>2, <2>4, TiesTwice
    <3> QED  BY <3>1
  <2>7. \A k \in mid.mail : k.id = d.next \/ \E m \in d.mail : Kin(k, m)
    BY <2>1, <2>5, KinTwice DEF OneMore, Kin
  <2>8. Cuts(mid, e, {})
    BY <1>2, <2>2, <2>6, OverflowCuts DEF Saved, Ties
  <2>9. Sound(e, users) /\ mid.next <= e.next
    <3>1. Leads(mid, e, users, {}, {})
      BY <1>2, <2>2, OverflowLeads DEF Saved
    <3> QED  BY <3>1 DEF Leads, Descends
  <2>10. mid.next \in Nat /\ e.next \in Nat /\ d.next \in Nat /\ Mailed(e.mail, e.next)
    BY <1>0, <2>2, <2>9, SoundIs DEF Mailed
  <2>11. Strung(e)
    BY <2>6, <2>8, <2>9, <2>10, StrungStays DEF Cuts, Ties, Kin
  <2>12. ASSUME NEW t, t \notin out, Headed(d, t), ~Headed(e, t) PROVE FALSE
    <3>1. Headed(mid, t)
      BY <2>6, <2>12 DEF Ties
    <3>2. PICK m \in mid.mail : m.thread = t /\ \A k \in e.mail : k.id # m.id
      BY <2>8, <2>12, <3>1 DEF Cuts, Cut, ListedIn
    <3>3. CASE {x.id : x \in d.mail} \cup {d.next} \subseteq {x.id : x \in e.mail}
      BY <2>7, <3>2, <3>3 DEF Kin
    <3>4. CASE {x.thread : x \in d.mail \ e.mail} \subseteq out
      <4>1. \A x \in d.mail : x.thread = t => x \in e.mail
        BY <2>12, <3>4
      <4>2. m.id = d.next
        BY <2>7, <3>2, <4>1 DEF Kin
      <4>3. \A k \in e.mail : k.thread = t => k \in d.mail
        <5> SUFFICES ASSUME NEW k \in e.mail, k.thread = t PROVE k \in d.mail
          OBVIOUS
        <5>1. PICK n \in mid.mail : Kin(k, n)
          BY <2>8 DEF Cuts
        <5>2. n.id # d.next
          BY <3>2, <4>2, <5>1 DEF Kin
        <5>3. PICK x \in d.mail : Kin(n, x)
          BY <2>7, <5>2
        <5>4. x \in e.mail /\ x.id = k.id
          BY <4>1, <5>1, <5>3 DEF Kin
        <5> QED  BY <2>10, <5>4 DEF Mailed
      <4>4. Twins(d, e, t)
        BY <4>1, <4>3 DEF Twins, Kin
      <4> QED  BY <1>0, <2>10, <2>12, <4>4, SameKnots
    <3> QED  BY <3>3, <3>4
  <2>13. d.next <= e.next
    BY <2>6, <2>9, <2>10 DEF Ties
  <2> QED  BY <2>11, <2>12, <2>13 DEF Ties
<1> QED  BY <1>1, <1>2, SaveMailIs

\* Some row has the least id.
LEMMA FirstIs ==
  ASSUME NEW rows, IsFiniteSet(rows), rows # {}, \A r \in rows : r.id \in Nat, \A r, q \in rows : r.id = q.id => r = q
  PROVE  The(FirstOf(rows)) \in rows
<1> DEFINE R == {p \in rows \X rows : p[1].id < p[2].id}
<1>1. Cardinality(rows) \in Nat /\ Cardinality(rows) # 0
  BY FS_CardinalityType, FS_EmptySet
<1>2. \E x \in rows : Cardinality(Below(rows, R, x)) = 1 - 1
  <2>1. \A x \in rows : <<x, x>> \notin R
    OBVIOUS
  <2>2. \A x, y \in rows : x # y => <<x, y>> \in R \/ <<y, x>> \in R
    OBVIOUS
  <2>3. \A x, y, z \in rows : <<x, y>> \in R /\ <<y, z>> \in R => <<x, z>> \in R
    OBVIOUS
  <2> HIDE DEF R
  <2>4. 1 \in 1 .. Cardinality(rows)
    BY <1>1
  <2> QED  BY <2>1, <2>2, <2>3, <2>4, Ranks
<1> HIDE DEF R
<1>3. PICK x \in rows : Cardinality(Below(rows, R, x)) = 0
  BY <1>2
<1> USE DEF R
<1>4. Below(rows, R, x) \subseteq rows /\ \A q \in rows : q.id < x.id => q \in Below(rows, R, x)
  BY DEF Below
<1> HIDE DEF R
<1>5. Below(rows, R, x) = {}
  <2>1. IsFiniteSet(Below(rows, R, x))
    BY <1>4, FS_Subset
  <2> QED  BY <1>3, <2>1, FS_EmptySet
<1>6. x \in FirstOf(rows)
  BY <1>4, <1>5 DEF FirstOf
<1> QED  BY <1>6 DEF FirstOf, The

-----------------------------------------------------------------------------

\* The mails of e are those of d, in the threads they were in.
SameThreads(d, e) ==
    /\ \A m \in d.mail : \E k \in e.mail : k.id = m.id /\ k.acc = m.acc /\ k.thread = m.thread
    /\ \A k \in e.mail : \E m \in d.mail : k.id = m.id /\ k.acc = m.acc /\ k.thread = m.thread

LEMMA SameThreadsTwice ==
  ASSUME NEW c, NEW d, NEW e, SameThreads(c, d), SameThreads(d, e)
  PROVE  SameThreads(c, e)
BY DEF SameThreads

\* Only a thread of a row that changes may lose its head.
LEMMA ChangedThreads ==
  ASSUME NEW d, NEW e, NEW users, Sound(d, users), Sound(e, users), Strung(d), d.next <= e.next, SameThreads(d, e)
  PROVE  Ties(d, e, {m.thread : m \in e.mail \ d.mail})
<1>1. Mailed(d.mail, d.next) /\ Mailed(e.mail, e.next)
  BY SoundIs
<1>2. Strung(e)
  BY <1>1, StrungStays DEF SameThreads, Mailed
<1>3. ASSUME NEW t, t \notin {m.thread : m \in e.mail \ d.mail}, Headed(d, t) PROVE Headed(e, t)
  <2>1. \A k \in e.mail : k.thread = t => k \in d.mail
    BY <1>3
  <2>2. \A m \in d.mail : m.thread = t => m \in e.mail
    BY <1>1, <2>1 DEF SameThreads, Mailed
  <2>3. ListedIn(e, t) = ListedIn(d, t)
    BY <2>1, <2>2 DEF ListedIn
  <2> QED  BY <1>3, <2>3 DEF Headed
<1> QED  BY <1>2, <1>3 DEF Ties

\* Rows that are changed and keep their id, account and thread.
LEMMA UpdatedThreads ==
  ASSUME NEW d, NEW e, NEW f, e.mail = {f[m] : m \in d.mail},
         \A m \in d.mail : f[m].id = m.id /\ f[m].acc = m.acc /\ f[m].thread = m.thread
  PROVE  SameThreads(d, e)
BY DEF SameThreads

LEMMA TypeTies ==
  ASSUME NEW d, NEW users, Sound(d, users), Strung(d), NEW acc, NEW name, NEW type \in DOMAIN TypeOrder,
         NEW e, e = emstorage_update_mailbox_type(d, acc, Both, name, type)
  PROVE  Ties(d, e, {m.thread : m \in e.mail \ d.mail})
<1> DEFINE f == [m \in d.mail |-> IF m.acc = acc /\ m.name = name THEN [m EXCEPT !.type = type] ELSE m]
<1>1. Sound(e, users) /\ d.next <= e.next
  BY TypeLeads DEF Leads, Descends
<1>2. e.mail = {f[m] : m \in d.mail}
  BY SoundIs DEF emstorage_update_mailbox_type, Update, IsDb, HasFields
<1>3. \A m \in d.mail : f[m].id = m.id /\ f[m].acc = m.acc /\ f[m].thread = m.thread
  BY SoundIs DEF Mailed, HasFields, MailFields
<1> HIDE DEF f
<1>4. SameThreads(d, e)
  BY <1>2, <1>3, UpdatedThreads
<1> QED  BY <1>1, <1>4, ChangedThreads

LEMMA RenameTies ==
  ASSUME NEW d, NEW users, Sound(d, users), Strung(d), NEW box, NEW name, NEW e, e = emstorage_rename_mailbox(d, box, name)
  PROVE  Ties(d, e, {})
<1> DEFINE f == [m \in d.mail |-> IF m.box = box THEN [m EXCEPT !.name = name] ELSE m]
<1>1. Sound(e, users) /\ d.next <= e.next
  BY RenameLeads DEF Leads, Descends
<1>2. e.mail = {f[m] : m \in d.mail}
  BY SoundIs DEF emstorage_rename_mailbox, Update, IsDb, HasFields
<1>3. \A m \in d.mail : Knot(f[m]) = Knot(m)
  BY SoundIs DEF Mailed, HasFields, MailFields, Knot
<1> HIDE DEF f
<1>4. Knots(e.mail) = Knots(d.mail)
  BY <1>2, <1>3 DEF Knots
<1> QED  BY <1>1, <1>4, KnotsTie

LEMMA FilterThreads ==
  ASSUME NEW d, NEW users, Sound(d, users), NEW acc, NEW box, NEW rule,
         NEW e, e = emstorage_filter_mails_by_rule(d, acc, box, rule)
  PROVE  SameThreads(d, e)
<1> DEFINE Hit(m) == /\ m.acc = acc /\ m.type \notin {"trash", "spam"}
                     /\ RuleHits(rule, m.msg)
           f == [m \in d.mail |-> IF Hit(m) THEN [m EXCEPT !.box = box, !.type = "spam"] ELSE m]
<1>1. e.mail = {f[m] : m \in d.mail}
  BY SoundIs DEF emstorage_filter_mails_by_rule, Update, IsDb, HasFields
<1> HIDE DEF Hit
<1>2. \A m \in d.mail : f[m].id = m.id /\ f[m].acc = m.acc /\ f[m].thread = m.thread
  BY SoundIs DEF Mailed, HasFields, MailFields
<1> HIDE DEF f
<1> QED  BY <1>1, <1>2, UpdatedThreads

FileKeep(p, e) == Sound(e, p[2]) /\ SameThreads(p[1], e)
Files == INSTANCE IterateProofs WITH Step <- FilterAccount, Keep <- FileKeep

LEMMA FilteringTies ==
  ASSUME NEW d, NEW users, Sound(d, users), Strung(d), NEW rule, NEW e, e = emcore_mail_filter_by_rule(d, rule)
  PROVE  Ties(d, e, {m.thread : m \in e.mail \ d.mail})
<1> DEFINE p == <<d, users>>
           seq == emstorage_get_account_list(d)
<1>1. p[1] = d /\ p[2] = users
  OBVIOUS
<1>2. Len(seq) \in Nat
  <2>1. Keyed(d.account, AccountFields)
    BY SoundIs DEF Accounts
  <2>2. IsFiniteSet(d.account) /\ (\A r \in d.account : r.id \in Nat) /\ \A r, q \in d.account : r.id = q.id => r = q
    BY <2>1, TableIsKeyed DEF Table, Keyed
  <2> QED  BY <2>2, ByIdLists DEF emstorage_get_account_list
<1>3. e = Files!Over(rule, d, seq)
  BY DEF emcore_mail_filter_by_rule, Filtering!Over, Files!Over
<1> HIDE DEF p, seq
<1>4. FileKeep(p, d)
  BY <1>1 DEF FileKeep, SameThreads
<1>5. ASSUME NEW i \in 1 .. Len(seq), NEW c, FileKeep(p, c) PROVE FileKeep(p, FilterAccount(rule, c, seq[i]))
  <2> DEFINE spam == emstorage_get_mailbox_by_mailbox_type(c, seq[i].id, "spam")
             next == emstorage_filter_mails_by_rule(c, seq[i].id, The(spam).id, rule)
  <2>1. FilterAccount(rule, c, seq[i]) = c \/ FilterAccount(rule, c, seq[i]) = next
    BY DEF FilterAccount
  <2>2. Sound(c, users) /\ SameThreads(d, c)
    BY <1>1, <1>5 DEF FileKeep
  <2>3. Sound(next, users) /\ SameThreads(c, next)
    BY <2>2, FilterLeads, FilterThreads DEF Leads
  <2> HIDE DEF next
  <2>4. SameThreads(d, next)
    BY <2>2, <2>3, SameThreadsTwice
  <2> QED  BY <1>1, <1>5, <2>1, <2>3, <2>4 DEF FileKeep
<1>6. FileKeep(p, Files!Over(rule, d, seq))
  BY <1>2, <1>4, <1>5, Files!Kept
<1>7. Sound(e, users) /\ SameThreads(d, e)
  BY <1>1, <1>3, <1>6 DEF FileKeep
<1>8. d.next <= e.next
  BY FilteringLeads DEF Leads, Descends
<1> QED  BY <1>7, <1>8, ChangedThreads

\* The threads of a move are looked up in one account: those of a move with
\* mails of two are in doubt.
LEMMA MoveTies ==
  ASSUME NEW d, NEW users, Sound(d, users), Strung(d), NEW target \in d.box, NEW ids,
         NEW e, e = emcore_move_mail(d, ids, target),
         NEW a, NEW out, \/ \A m \in d.mail : m.id \in ids => m.acc = a
                         \/ {m.thread : m \in {m \in d.mail : m.id \in ids}} \subseteq out
  PROVE  Ties(d, e, out)
<1> DEFINE records == {m \in d.mail : m.id \in ids}
           moved == emstorage_move_multiple_mails(d, target, ids)
           acc == The(FirstOf(records)).acc
           heads == {m.thread : m \in records}
           f == [m \in d.mail |-> IF m.id \in ids
                                  THEN [m EXCEPT !.name = target.name, !.type = target.type, !.box = target.id] ELSE m]
<1>1. Mailed(d.mail, d.next)
  BY SoundIs
<1>2. Sound(moved, users) /\ moved.next = d.next
  BY MoveLeads DEF Leads
<1>3. moved.mail = {f[m] : m \in d.mail}
  BY SoundIs DEF emstorage_move_multiple_mails, Update, IsDb, HasFields
<1>4. \A m \in d.mail : f[m].id = m.id /\ f[m].acc = m.acc /\ f[m].thread = m.thread
  BY <1>1 DEF Mailed, HasFields, MailFields
<1>5. \A m \in d.mail : m.id \notin ids => f[m] = m
  OBVIOUS
<1>6. IF records = {} THEN e = moved ELSE e = emstorage_update_latest_thread_mail(moved, acc, heads)
  BY DEF emcore_move_mail
<1> HIDE DEF moved, f
<1>7. SameThreads(d, moved)
  BY <1>3, <1>4, UpdatedThreads
<1>8. d.next <= moved.next
  BY <1>1, <1>2 DEF Mailed
<1>9. Ties(d, moved, {m.thread : m \in moved.mail \ d.mail})
  BY <1>2, <1>7, <1>8, ChangedThreads
<1>10. {m.thread : m \in moved.mail \ d.mail} \subseteq heads
  <2> SUFFICES ASSUME NEW k \in moved.mail, k \notin d.mail PROVE k.thread \in heads
    OBVIOUS
  <2>1. PICK m \in d.mail : k = f[m]
    BY <1>3
  <2> QED  BY <1>4, <1>5, <2>1
<1>11. CASE records = {}
  <2>1. heads = {} /\ e = moved
    BY <1>6, <1>11
  <2> QED  BY <1>9, <1>10, <2>1 DEF Ties
<1>12. CASE records # {}
  <2>1. e = emstorage_update_latest_thread_mail(moved, acc, heads)
    BY <1>6, <1>12
  <2>2. The(FirstOf(records)) \in records
    <3>1. records \in SUBSET d.mail
      OBVIOUS
    <3>2. IsFiniteSet(records)
      BY <1>1, <3>1, MailsAreFinite, FS_Subset
    <3>3. (\A r \in records : r.id \in Nat) /\ \A r, q \in records : r.id = q.id => r = q
      BY <1>1 DEF Mailed
    <3> HIDE DEF records
    <3> QED  BY <1>12, <3>2, <3>3, FirstIs
  <2>3. (\A m \in records : m.acc = a) => acc = a
    BY <2>2
  <2>4. (\A m \in records : m.acc = a) \/ heads \subseteq out
    OBVIOUS
  <2>5. \A t \in heads : \E m \in records : m \in d.mail /\ m.thread = t
    OBVIOUS
  <2> HIDE DEF records, acc, heads
  <2>6. /\ Ties(moved, e, {})
        /\ \A t \in heads : (\A m \in moved.mail : m.thread = t => m.acc = acc) => Headed(e, t)
    BY <1>2, <1>9, <2>1, HeadsTie DEF Ties
  <2>7. ASSUME NEW t, t \notin out, Headed(d, t) PROVE Headed(e, t)
    <3>1. CASE t \notin heads
      BY <1>9, <1>10, <2>6, <2>7, <3>1 DEF Ties
    <3>2. CASE t \in heads
      <4>1. \A m \in records : m.acc = a
        BY <2>4, <2>7, <3>2
      <4>2. PICK m \in records : m \in d.mail /\ m.thread = t
        BY <2>5, <3>2
      <4>3. \A k \in moved.mail : k.thread = t => k.acc = acc
        BY <1>7, <2>3, <4>1, <4>2 DEF SameThreads, Strung
      <4> QED  BY <2>6, <3>2, <4>3
    <3> QED  BY <3>1, <3>2
  <2>8. Strung(e) /\ d.next <= e.next
    <3>1. moved.next <= e.next /\ Strung(e)
      BY <2>6 DEF Ties
    <3> QED  BY <1>2, <3>1
  <2> QED  BY <2>7, <2>8 DEF Ties
<1> QED  BY <1>11, <1>12

\* What a loop that deletes mails keeps.
Fraying(d, e, users) == Sound(e, users) /\ Strung(e) /\ Frays(d, e) /\ d.next <= e.next

LEMMA FrayingTwice ==
  ASSUME NEW c, NEW d, NEW e, NEW users, Sound(c, users), Fraying(c, d, users), Fraying(d, e, users)
  PROVE  Fraying(c, e, users)
<1>1. Frays(c, e)
  BY FraysTwice DEF Fraying
<1>2. Mailed(c.mail, c.next) /\ Mailed(d.mail, d.next) /\ Mailed(e.mail, e.next)
  BY SoundIs DEF Fraying
<1>3. c.next <= e.next
  BY <1>2 DEF Fraying, Mailed
<1> QED  BY <1>1, <1>3 DEF Fraying

LEMMA CutsFraying ==
  ASSUME NEW d, NEW e, NEW users, Sound(d, users), Leads(d, e, users, {}, {}), Strung(d), Cuts(d, e, {})
  PROVE  Fraying(d, e, users)
<1>1. Frays(d, e)
  BY CutsFray
<1>2. Sound(e, users) /\ d.next <= e.next
  BY DEF Leads, Descends
<1>3. d.next \in Nat /\ e.next \in Nat
  BY <1>2, SoundIs DEF Mailed
<1>4. \A k \in e.mail : \E m \in d.mail : k.thread = m.thread /\ k.acc = m.acc
  BY DEF Cuts, Kin
<1>5. Strung(e)
  BY <1>2, <1>3, <1>4, StrungStays
<1> QED  BY <1>1, <1>2, <1>5 DEF Fraying

LEMMA KnotsFraying ==
  ASSUME NEW d, NEW e, NEW users, Sound(d, users), Sound(e, users), Strung(d), Knots(e.mail) = Knots(d.mail), d.next <= e.next
  PROVE  Fraying(d, e, users)
BY KnotsFray, KnotsTie DEF Fraying, Ties

LEMMA SteadyFraying ==
  ASSUME NEW d, NEW e, NEW users, Sound(d, users), Sound(e, users), Strung(d), Steady(d, e)
  PROVE  Fraying(d, e, users)
<1>1. e.next = d.next /\ d.next \in Nat
  BY SoundIs DEF Steady, Staying, Carries, Mailed
<1> QED  BY <1>1, KnotsFraying DEF Steady

LEMMA SameFraying ==
  ASSUME NEW d, NEW users, Sound(d, users), Strung(d)
  PROVE  Fraying(d, d, users)
BY SteadySame, SteadyFraying

FrayKeep(p, e) == Fraying(p[1], e, p[2])

-----------------------------------------------------------------------------
SlotTrims == INSTANCE IterateProofs WITH Step <- Trim, Keep <- FrayKeep

LEMMA TrimmingFraying ==
  ASSUME NEW d, NEW users, Sound(d, users), Strung(d), NEW acc, NEW seq, Len(seq) \in Nat, \A i \in 1 .. Len(seq) : seq[i].slot \in Nat
  PROVE  Fraying(d, Trimming!Over(acc, d, seq), users)
<1> DEFINE p == <<d, users>>
<1>0. p[1] = d /\ p[2] = users
  OBVIOUS
<1> HIDE DEF p
<1>1. FrayKeep(p, d)
  BY <1>0, SameFraying DEF FrayKeep
<1>2. ASSUME NEW i \in 1 .. Len(seq), NEW e, FrayKeep(p, e) PROVE FrayKeep(p, Trim(acc, e, seq[i]))
  <2> DEFINE x == Trim(acc, e, seq[i])
             box == seq[i].id
             slot == seq[i].slot
  <2>1. Fraying(d, e, users) /\ Sound(e, users) /\ Strung(e)
    BY <1>0, <1>2 DEF FrayKeep, Fraying
  <2>2. x = emcore_remove_overflowed_mails(e, acc, box, slot) /\ slot \in Nat
    BY DEF Trim
  <2> HIDE DEF x, box, slot
  <2>3. Leads(e, x, users, {}, {}) /\ Cuts(e, x, {})
    BY <2>1, <2>2, OverflowLeads, OverflowCuts
  <2>4. Fraying(e, x, users)
    BY <2>1, <2>3, CutsFraying
  <2>5. Fraying(d, x, users)
    BY <2>1, <2>4, FrayingTwice
  <2> QED  BY <1>0, <2>5 DEF FrayKeep, x
<1>3. FrayKeep(p, SlotTrims!Over(acc, d, seq))
  BY <1>1, <1>2, SlotTrims!Kept
<1>4. Trimming!Over(acc, d, seq) = SlotTrims!Over(acc, d, seq)
  BY DEF Trimming!Over, SlotTrims!Over
<1> QED  BY <1>0, <1>3, <1>4 DEF FrayKeep

LEMMA SlotFraying ==
  ASSUME NEW d, NEW users, Sound(d, users), Strung(d), SlotUnit \in Nat, NEW acc, NEW box, NEW size \in Nat,
         NEW e, e = emcore_set_mail_slot_size(d, acc, box, size)
  PROVE  Fraying(d, e, users)
<1> DEFINE slot == emstorage_set_field_of_accounts_with_integer_value(d, acc, size)
           named == IF box # 0 THEN d ELSE slot
           sized == emstorage_set_mail_slot_size(named, acc, box, size)
           rows == IF box # 0 THEN emstorage_get_mailbox_by_id(sized, box) ELSE {b \in sized.box : b.acc = acc}
           seq == ById(rows)
           trimmed == Trimming!Over(acc, sized, seq)
<1>1. e = d \/ e = trimmed
  BY DEF emcore_set_mail_slot_size
<1>2. Sound(slot, users) /\ Steady(d, slot)
  BY UpdateSlotOfAccount
<1> HIDE DEF slot
<1>3. Sound(named, users) /\ Steady(d, named)
  BY <1>2, SteadySame
<1> HIDE DEF named
<1>4. Sound(sized, users) /\ Steady(named, sized)
  BY <1>3, SlotBox
<1> HIDE DEF sized
<1>5. rows \in SUBSET sized.box
  BY DEF emstorage_get_mailbox_by_id
<1> HIDE DEF rows
<1>6. Boxed(sized.box) /\ Table(sized.box, BoxFields)
  BY <1>4, SoundIs, TableIsKeyed DEF Boxed
<1>7. IsFiniteSet(rows) /\ (\A r \in rows : r.id \in Nat /\ r.slot \in Nat) /\ \A r, q \in rows : r.id = q.id => r = q
  BY <1>5, <1>6, FS_Subset DEF Table, Boxed
<1>8. Len(seq) \in Nat /\ \A i \in 1 .. Len(seq) : seq[i] \in rows
  BY <1>7, ByIdLists
<1> HIDE DEF seq
<1>9. Steady(d, sized)
  BY <1>3, <1>4, SteadyTwice
<1>10. Fraying(d, sized, users)
  BY <1>4, <1>9, SteadyFraying
<1>11. Fraying(sized, trimmed, users)
  <2>1. Strung(sized)
    BY <1>10 DEF Fraying
  <2> QED  BY <1>4, <1>7, <1>8, <2>1, TrimmingFraying
<1> HIDE DEF trimmed
<1>12. Fraying(d, trimmed, users)
  BY <1>10, <1>11, FrayingTwice
<1> QED  BY <1>1, <1>12, SameFraying

-----------------------------------------------------------------------------
LEMMA DeleteMailboxFraying ==
  ASSUME NEW d, NEW users, Sound(d, users), Strung(d), NEW b, b.id # 0, NEW e, e = emcore_delete_mailbox_all(d, b)
  PROVE  Fraying(d, e, users) /\ e.account = d.account
<1> DEFINE c == emcore_delete_all_mails_of_mailbox(d, b.id)
<1>1. Leads(d, c, users, {}, {}) /\ c.account = d.account /\ Cuts(d, c, {})
  BY DeleteAllLeads, DeleteAllCuts
<1>2. e = emstorage_delete_mailbox(c, b.acc, Both, b.id)
  BY DEF emcore_delete_mailbox_all
<1> HIDE DEF c
<1>3. Fraying(d, c, users)
  BY <1>1, CutsFraying
<1>4. Sound(c, users) /\ Strung(c)
  BY <1>3 DEF Fraying
<1>5. Sound(e, users) /\ e.account = c.account /\ e.mail = c.mail /\ e.next = c.next
  BY <1>2, <1>4, DeleteMailbox1
<1>6. c.next \in Nat
  BY <1>4, SoundIs DEF Mailed
<1>7. Fraying(c, e, users)
  BY <1>4, <1>5, <1>6, KnotsFraying
<1>8. Fraying(d, e, users)
  BY <1>3, <1>7, FrayingTwice
<1> QED  BY <1>1, <1>5, <1>8

SweepFrays == INSTANCE IterateProofs WITH Step <- Sweep, Keep <- FrayKeep

LEMMA SweepingFraying ==
  ASSUME NEW d, NEW users, Sound(d, users), Strung(d), NEW acc,
         NEW e, e = Sweeping!Over(acc, d, emstorage_get_mailbox_by_modifiable_yn(d, acc))
  PROVE  Fraying(d, e, users)
<1> DEFINE p == <<d, users>>
           rows == {b \in d.box : b.acc = acc /\ ~b.modifiable}
           seq == ById(rows)
<1>1. p[1] = d /\ p[2] = users
  OBVIOUS
<1> HIDE DEF p
<1>2. FrayKeep(p, d)
  BY <1>1, SameFraying DEF FrayKeep
<1>3. Len(seq) \in Nat /\ \A i \in 1 .. Len(seq) : seq[i].id # 0
  <2>1. Boxed(d.box) /\ Table(d.box, BoxFields)
    BY SoundIs, TableIsKeyed DEF Boxed
  <2>2. rows \in SUBSET d.box
    OBVIOUS
  <2> HIDE DEF rows
  <2>3. IsFiniteSet(rows) /\ (\A r \in rows : r.id \in Nat /\ r.id # 0) /\ \A r, q \in rows : r.id = q.id => r = q
    BY <2>1, <2>2, FS_Subset DEF Table, Boxed
  <2>4. Len(seq) \in Nat /\ \A i \in 1 .. Len(seq) : seq[i] \in rows
    BY <2>3, ByIdLists
  <2> QED  BY <2>3, <2>4
<1>4. seq = emstorage_get_mailbox_by_modifiable_yn(d, acc)
  BY DEF emstorage_get_mailbox_by_modifiable_yn
<1> HIDE DEF seq
<1>5. ASSUME NEW i \in 1 .. Len(seq), NEW c, FrayKeep(p, c) PROVE FrayKeep(p, Sweep(acc, c, seq[i]))
  <2> DEFINE b == seq[i]
             x == Sweep(acc, c, b)
  <2>1. Fraying(d, c, users) /\ Sound(c, users) /\ Strung(c)
    BY <1>1, <1>5 DEF FrayKeep, Fraying
  <2>2. b.id # 0
    BY <1>3
  <2>3. x = emcore_delete_mailbox_all(c, b)
    BY DEF Sweep
  <2> HIDE DEF b, x
  <2>4. Fraying(c, x, users)
    BY <2>1, <2>2, <2>3, DeleteMailboxFraying
  <2>5. Fraying(d, x, users)
    BY <2>1, <2>4, FrayingTwice
  <2> QED  BY <1>1, <2>5 DEF FrayKeep, x, b
<1>6. FrayKeep(p, SweepFrays!Over(acc, d, seq))
  BY <1>2, <1>3, <1>5, SweepFrays!Kept
<1>7. Sweeping!Over(acc, d, seq) = SweepFrays!Over(acc, d, seq)
  BY DEF Sweeping!Over, SweepFrays!Over
<1>8. FrayKeep(p, e)
  BY <1>4, <1>6, <1>7
<1> QED  BY <1>1, <1>8 DEF FrayKeep

LEMMA SyncListFraying ==
  ASSUME NEW d, NEW s, NEW users, Sound(d, users), Strung(d), Serving(s, users), DefaultSlot \in Nat,
         NEW acc, NEW net, NEW r, r = emcore_sync_mailbox_list(d, s, acc, net)
  PROVE  Fraying(d, r.d, users)
<1> DEFINE sel == emcore_connect_to_remote_mailbox(d, s, acc, 0, net)
           folders == Folders(s, The(sel).user)
           c == [acc |-> acc, folders |-> folders]
           marked == Marking!Over(acc, d, SetToSeq(folders))
           started == Done(marked, s)
           filled == Adding!Over(c, started, DefaultTypes)
           swept == Sweeping!Over(acc, filled.d, emstorage_get_mailbox_by_modifiable_yn(filled.d, acc))
           no == FALSE
           e == emstorage_set_all_mailbox_modifiable_yn(swept, acc, no)
<1>1. \/ r = Failed(d, s)
      \/ sel # {} /\ (r = Failed(filled.d, s) \/ r = Done(e, s))
  BY DEF emcore_sync_mailbox_list
<1>2. CASE r = Failed(d, s)
  BY <1>2, SameFraying, ResultIs
<1>3. CASE sel # {} /\ (r = Failed(filled.d, s) \/ r = Done(e, s))
  <2>1. Chosen(s, The(sel))
    BY <1>3, TheSelected
  <2> HIDE DEF sel
  <2>2. folders \in SUBSET DOMAIN FolderType /\ IsFiniteSet(folders)
    BY <2>1 DEF Chosen, Folders, Serving, Servers
  <2> HIDE DEF folders
  <2>3. Sound(marked, users) /\ Steady(d, marked)
    BY <2>2, MarkingSteady
  <2> HIDE DEF c, marked
  <2>4. Sound(filled.d, users) /\ Steady(marked, filled.d)
    BY <2>3, AddingSteady
  <2> HIDE DEF started, filled
  <2>5. Steady(d, filled.d)
    BY <2>3, <2>4, SteadyTwice
  <2>6. Fraying(d, filled.d, users)
    BY <2>4, <2>5, SteadyFraying
  <2>7. Fraying(filled.d, swept, users)
    <3>1. Strung(filled.d)
      BY <2>6 DEF Fraying
    <3> QED  BY <2>4, <3>1, SweepingFraying
  <2>8. Sound(swept, users) /\ Strung(swept)
    BY <2>7 DEF Fraying
  <2> HIDE DEF swept, no
  <2>9. Sound(e, users) /\ Steady(swept, e)
    BY <2>8, ModifiableBox
  <2> HIDE DEF e
  <2>10. Fraying(swept, e, users)
    BY <2>8, <2>9, SteadyFraying
  <2>11. Fraying(d, swept, users)
    BY <2>6, <2>7, FrayingTwice
  <2>12. Fraying(d, e, users)
    BY <2>10, <2>11, FrayingTwice
  <2>13. r.d = filled.d \/ r.d = e
    BY <1>3 DEF Failed, Done
  <2> QED  BY <2>6, <2>12, <2>13
<1> QED  BY <1>1, <1>2, <1>3

-----------------------------------------------------------------------------
ForgetFrays == INSTANCE IterateProofs WITH Step <- Forget, Keep <- FrayKeep

LEMMA ForgettingFraying ==
  ASSUME NEW d, NEW s, NEW users, Sound(d, users), Strung(d), NEW sel, NEW a, NEW b,
         NEW e, e = DeleteMissing(d, s, sel, a, b)
  PROVE  Fraying(d, e, users)
<1> DEFINE p == <<d, users>>
           seq == Downloaded(d, a, b)
           c == [a |-> a, b |-> b, listed |-> {x.uid : x \in Range(Newest(s, sel, b.slot))}]
<1>1. p[1] = d /\ p[2] = users
  OBVIOUS
<1> HIDE DEF p
<1>2. FrayKeep(p, d)
  BY <1>1, SameFraying DEF FrayKeep
<1>3. Len(seq) \in Nat
  BY DownloadedIsListed
<1>4. e = ForgetFrays!Over(c, d, seq)
  BY DEF DeleteMissing, Forgetting!Over, ForgetFrays!Over
<1> HIDE DEF seq, c
<1>5. ASSUME NEW i \in 1 .. Len(seq), NEW q, FrayKeep(p, q) PROVE FrayKeep(p, Forget(c, q, seq[i]))
  <2> DEFINE u == seq[i]
             mail == emstorage_get_maildata_by_servermailid(q, c.a.id, u.suid)
             m == The(mail)
             ids == {m.id}
             y == emcore_delete_mails_from_local_storage(q, c.a.id, ids)
             z == IF c.a.kind = "imap" THEN y ELSE q
             acc == c.a.id
             names == {c.b.name}
             suids == {u.suid}
             x == emstorage_remove_downloaded_mail(z, acc, names, suids)
             w == Forget(c, q, u)
  <2>1. Fraying(d, q, users) /\ Sound(q, users) /\ Strung(q)
    BY <1>1, <1>5 DEF FrayKeep, Fraying
  <2>2. w = q \/ (mail # {} /\ w = x)
    BY DEF Forget
  <2>3. CASE w = q
    BY <1>5, <2>3
  <2>4. CASE mail # {} /\ w = x
    <3>1. m \in q.mail /\ m.acc = acc
      BY <2>4 DEF The, emstorage_get_maildata_by_servermailid, FirstOf
    <3> HIDE DEF mail, w, u, m
    <3>2. Wiping(q, acc, ids) = {}
      BY <3>1 DEF Wiping
    <3>3. Strange(q, acc, ids) = {}
      <4>1. \A k, l \in q.mail : k.id = l.id => k = l
        BY <2>1, SoundIs DEF Mailed
      <4> QED  BY <3>1, <4>1 DEF Strange
    <3> HIDE DEF ids
    <3>4. Thinned(q, y, ids, {})
      BY <2>1, <3>2, DeleteThins DEF Sound
    <3>5. Leads(q, y, users, {}, {})
      BY <2>1, <3>4, ThinnedLeads
    <3>6. Cuts(q, y, {})
      BY <2>1, <3>3, DeleteHereCuts
    <3> HIDE DEF y
    <3>7. Fraying(q, y, users)
      BY <2>1, <3>5, <3>6, CutsFraying
    <3>8. Fraying(q, z, users)
      BY <2>1, <3>7, SameFraying
    <3> HIDE DEF z, acc, names, suids
    <3>9. Sound(z, users) /\ Strung(z)
      BY <3>8 DEF Fraying
    <3>10. Sound(x, users) /\ Steady(z, x)
      BY <3>9, RemoveDownloaded
    <3> HIDE DEF x
    <3>11. Fraying(z, x, users)
      BY <3>9, <3>10, SteadyFraying
    <3>12. Fraying(q, x, users)
      BY <2>1, <3>8, <3>11, FrayingTwice
    <3>13. Fraying(d, x, users)
      BY <2>1, <3>12, FrayingTwice
    <3> QED  BY <1>1, <2>4, <3>13 DEF FrayKeep, w, u
  <2> QED  BY <2>2, <2>3, <2>4
<1>6. FrayKeep(p, ForgetFrays!Over(c, d, seq))
  BY <1>2, <1>3, <1>5, ForgetFrays!Kept
<1> QED  BY <1>1, <1>4, <1>6 DEF FrayKeep

-----------------------------------------------------------------------------
\* Of a deleted account every mail goes.
LEMMA FewerAccountsTie ==
  ASSUME NEW d, NEW e, NEW users, Sound(d, users), Sound(e, users), Strung(d), d.next <= e.next,
         NEW acc, e.mail = {m \in d.mail : m.acc # acc}
  PROVE  Ties(d, e, {}) /\ Fraying(d, e, users)
<1>1. d.next \in Nat /\ e.next \in Nat
  BY SoundIs DEF Mailed
<1>2. Strung(e)
  BY <1>1, StrungStays
<1>3. ASSUME NEW t, Headed(d, t) PROVE Headed(e, t)
  <2>1. ListedIn(e, t) = ListedIn(d, t) \/ ListedIn(e, t) = {}
    BY DEF ListedIn, Strung
  <2> QED  BY <1>3, <2>1 DEF Headed
<1>4. \A k \in e.mail : \E m \in d.mail : Kin(k, m)
  BY DEF Kin
<1> QED  BY <1>2, <1>3, <1>4 DEF Ties, Fraying, Frays

-----------------------------------------------------------------------------
(* The inductive invariant.  Beside what TypeOK and MailsHaveTheirMailbox say *)
(* of the rows, it has the columns of the tables and the files of the mails,  *)
(* the folders of the servers, what the events, the threads and the receive   *)
(* thread carry from one step to a later one, and the heads of the threads of *)
(* mails, but those that ghost notes.                                          *)

Listed(seq) == seq \in Seq(Range(seq))
\* What a function that takes an event, or a thread, relies on.
Event(e, users) ==
    /\ e.op = "delete" => Len(e.ids) \in Nat
    /\ e.op = "slot" => e.size \in Nat
    /\ e.op = "create_account" => e.user \in users /\ e.kind \in {"imap", "pop3"}
    /\ e.op = "create_box" => e.name \in DOMAIN FolderType
    /\ e.op = "rename_box" => e.new \in DOMAIN FolderType
Events(q, users) == Listed(q) /\ \A e \in Range(q) : Event(e, users)
SyncFields == {"op", "accounts", "boxes", "new", "whole", "unread", "todo", "sel", "rules", "spam"}
Mailboxes(seq) == Listed(seq) /\ \A b \in Range(seq) : b.slot \in Nat
ToFetch(seq) == Listed(seq) /\ \A x \in Range(seq) : x.msg \in Nat
\* A mailbox that is begun is not dropped before it ends; the mail whose body
\* was read keeps its account while it is there.
Running(r, d) ==
    \/ r = Idle
    \/ r.op = "body" /\ r.id \in Nat /\ r.id < d.next /\ \A m \in d.mail : m.id = r.id => m.acc = r.acc
    \/ /\ r.op = "sync" /\ HasFields(r, SyncFields) /\ Mailboxes(r.boxes) /\ ToFetch(r.todo)
       /\ r.sel # {} => r.boxes # <<>>
Noting(g) == {"wiped", "strays", "headless"} \subseteq DOMAIN g
Stringing == Strung(db) /\ \A t : t \in ghost.headless \/ Headed(db, t)

IInv == /\ Sound(db, DOMAIN server) /\ Housed(db, ghost.strays) /\ Noting(ghost)
        /\ Serving(server, DOMAIN server)
        /\ Events(queue, DOMAIN server) /\ \A t \in threads : Event(t, DOMAIN server)
        /\ Running(run, db)
        /\ Stringing

LEMMA SeqIsListed ==
  ASSUME NEW S, NEW seq \in Seq(S)
  PROVE  Listed(seq) /\ Range(seq) \subseteq S
BY DEF Listed, Range

LEMMA AppendListed ==
  ASSUME NEW seq, Listed(seq), NEW e
  PROVE  Listed(Append(seq, e)) /\ Range(Append(seq, e)) \subseteq Range(seq) \cup {e}
<1> DEFINE S == Range(seq) \cup {e}
<1>1. seq \in Seq(S)
  BY DEF Listed
<1>2. Append(seq, e) \in Seq(S)
  BY <1>1
<1> QED  BY <1>2, SeqIsListed

LEMMA TailListed ==
  ASSUME NEW seq, Listed(seq), seq # <<>>
  PROVE  /\ Head(seq) \in Range(seq) /\ Listed(Tail(seq)) /\ Range(Tail(seq)) \subseteq Range(seq)
         /\ Listed(<<Head(seq)>>) /\ Range(<<Head(seq)>>) \subseteq Range(seq)
<1> DEFINE S == Range(seq)
<1>1. seq \in Seq(S)
  BY DEF Listed
<1>2. Head(seq) \in S
  <2>1. 1 \in DOMAIN seq
    BY <1>1
  <2> QED  BY <2>1 DEF Range
<1>3. Tail(seq) \in Seq(S)
  <2> HIDE DEF S
  <2> QED  BY <1>1
<1>4. <<Head(seq)>> \in Seq(S)
  <2> HIDE DEF S
  <2> QED  BY <1>2
<1> QED  BY <1>2, <1>3, <1>4, SeqIsListed

LEMMA EmptyListed ==
  Listed(<<>>) /\ Range(<<>>) = {}
BY DEF Listed, Range

-----------------------------------------------------------------------------
(* what every action does, said apart: to the rows and the servers, to the    *)
(* queue, to the threads and to what the receive thread is in the middle of   *)

Knits == ghost.headless \subseteq ghost'.headless /\ Ties(db, db', ghost'.headless)
Follows == /\ Leads(db, db', DOMAIN server, ghost'.wiped, ghost'.strays)
           /\ ghost.strays \subseteq ghost'.strays /\ Noting(ghost') /\ Serving(server', DOMAIN server)
           /\ Knits
Queues == \/ queue' \in {queue, Tail(queue), <<>>}
          \/ \E e : Event(e, DOMAIN server) /\ queue' = Append(queue, e)
Detaches == \A t \in threads' : t \in threads \/ Event(t, DOMAIN server)
Runs == run' \in {run, Idle} \/ Running(run', db')
Good == Follows /\ Queues /\ Detaches /\ Runs

\* A body that is being read stays that of the mail.
LEMMA RunStays ==
  ASSUME NEW d, NEW e, NEW users, NEW wiped, NEW more, Sound(d, users), Leads(d, e, users, wiped, more),
         NEW r, Running(r, d)
  PROVE  Running(r, e)
<1>1. Descends(d, e) /\ d.next \in Nat /\ e.next \in Nat /\ Mailed(e.mail, e.next)
  BY SoundIs DEF Leads, Mailed
<1>2. ASSUME r.op = "body", r.id \in Nat, r.id < d.next, \A m \in d.mail : m.id = r.id => m.acc = r.acc
      PROVE  r.op = "body" /\ r.id \in Nat /\ r.id < e.next /\ \A m \in e.mail : m.id = r.id => m.acc = r.acc
  BY <1>1, <1>2 DEF Descends
<1> QED  BY <1>2 DEF Running

LEMMA IInvFollows ==
  ASSUME IInv, Good
  PROVE  IInv' /\ KeepsFiles(db, db', ghost'.wiped)
<1> DEFINE users == DOMAIN server
<1>1. /\ Sound(db, users) /\ Housed(db, ghost.strays) /\ Serving(server, users)
      /\ Events(queue, users) /\ (\A t \in threads : Event(t, users)) /\ Running(run, db)
  BY DEF IInv
<1>2. /\ Leads(db, db', users, ghost'.wiped, ghost'.strays) /\ ghost.strays \subseteq ghost'.strays
      /\ Noting(ghost') /\ Serving(server', users)
  BY DEF Good, Follows
<1>3. DOMAIN server' = users
  BY <1>2 DEF Serving
<1>4. Housed(db', ghost'.strays)
  <2>1. Housed(db', ghost.strays \cup ghost'.strays) /\ ghost.strays \cup ghost'.strays = ghost'.strays
    BY <1>1, <1>2 DEF Leads
  <2> QED  BY <2>1
<1>5. Events(queue', users)
  <2> HIDE DEF users
  <2>1. CASE queue' = Tail(queue) /\ queue # <<>>
    BY <1>1, <2>1, TailListed DEF Events
  <2>2. CASE queue' = <<>>
    BY <2>2, EmptyListed DEF Events
  <2>3. ASSUME NEW e, Event(e, users), queue' = Append(queue, e) PROVE Events(queue', users)
    BY <1>1, <2>3, AppendListed DEF Events
  <2>4. queue = <<>> => Tail(queue) = <<>>
    OBVIOUS
  <2> QED  BY <1>1, <2>1, <2>2, <2>3, <2>4 DEF Good, Queues, users
<1>6. \A t \in threads' : Event(t, users)
  BY <1>1 DEF Good, Detaches
<1>7. Running(run', db')
  <2>1. CASE run' \in {run, Idle}
    <3>1. Running(Idle, db)
      BY DEF Running
    <3>2. Running(run', db)
      BY <1>1, <2>1, <3>1
    <3> HIDE DEF users
    <3> QED  BY <1>1, <1>2, <3>2, RunStays
  <2> QED  BY <2>1 DEF Good, Runs
<1>8. Sound(db', users) /\ KeepsFiles(db, db', ghost'.wiped)
  BY <1>2 DEF Leads
<1>9. Stringing'
  <2>1. Strung(db') /\ \A t : t \notin ghost'.headless /\ Headed(db, t) => Headed(db', t)
    BY DEF Good, Follows, Knits, Ties
  <2>2. \A t : t \in ghost.headless \/ Headed(db, t)
    BY DEF IInv, Stringing
  <2>3. ghost.headless \subseteq ghost'.headless
    BY DEF Good, Follows, Knits
  <2>4. \A t : t \in ghost'.headless \/ Headed(db', t)
    BY <2>1, <2>2, <2>3
  <2> QED  BY <2>1, <2>4 DEF Stringing
<1> HIDE DEF users
<1> QED  BY <1>2, <1>3, <1>4, <1>5, <1>6, <1>7, <1>8, <1>9 DEF IInv

\* What is noted of the threads.
LEMMA TiesKnit ==
  ASSUME NEW out, Ties(db, db', out), out \subseteq ghost'.headless, ghost.headless \subseteq ghost'.headless
  PROVE  Knits
BY DEF Knits, Ties

LEMMA KnotsKnit ==
  ASSUME IInv, Sound(db', DOMAIN server), Knots((db').mail) = Knots(db.mail), db.next <= (db').next,
         ghost.headless \subseteq ghost'.headless
  PROVE  Knits
<1>1. Sound(db, DOMAIN server) /\ Strung(db)
  BY DEF IInv, Stringing
<1>2. Ties(db, db', {})
  BY <1>1, KnotsTie
<1> QED  BY <1>2, TiesKnit

LEMMA FollowsIs ==
  ASSUME IInv, NEW more, Leads(db, db', DOMAIN server, {}, more), more \subseteq ghost'.strays,
         Noting(ghost'), ghost.strays \subseteq ghost'.strays, Serving(server', DOMAIN server), Knits
  PROVE  Follows
<1> {} \subseteq ghost'.wiped
  OBVIOUS
<1>1. Leads(db, db', DOMAIN server, ghost'.wiped, ghost'.strays)
  BY LeadsMore
<1> QED  BY <1>1 DEF Follows

LEMMA LeadsFollows ==
  ASSUME IInv, Leads(db, db', DOMAIN server, {}, {}), UNCHANGED server, Noting(ghost'), ghost'.strays = ghost.strays, Knits
  PROVE  Follows
<1>1. Serving(server', DOMAIN server)
  BY DEF IInv
<1> QED  BY <1>1, FollowsIs

LEMMA SteadyFollows ==
  ASSUME IInv, Sound(db', DOMAIN server), Steady(db, db'), UNCHANGED <<server, ghost>>
  PROVE  Follows
<1>1. Leads(db, db', DOMAIN server, {}, {})
  BY SteadyLeads DEF IInv
<1>2. db.next <= (db').next
  BY <1>1 DEF Leads, Descends
<1>3. Knits
  BY <1>2, KnotsKnit DEF Steady
<1> QED  BY <1>1, <1>3, LeadsFollows DEF IInv

LEMMA SameFollows ==
  ASSUME IInv, UNCHANGED <<db, server, ghost>>
  PROVE  Follows
<1>1. Leads(db, db', DOMAIN server, {}, {})
  BY LeadsSame DEF IInv
<1>2. db.next <= (db').next /\ Sound(db', DOMAIN server)
  BY <1>1 DEF Leads, Descends
<1>3. Knits
  BY <1>2, KnotsKnit
<1> QED  BY <1>1, <1>3, LeadsFollows DEF IInv

LEMMA GhostsKeep ==
  ASSUME NEW g, Noting(g), NEW d, NEW t, NEW ids, NEW box,
         NEW h \in {Noted(g, d), NotedEach(g, d), Trimmed(g, d), Wiped(g, t, ids), Expunging(g, box)}
  PROVE  Noting(h) /\ h.strays = g.strays /\ g.wiped \subseteq h.wiped /\ g.headless \subseteq h.headless
BY DEF Noting, Noted, NotedEach, Trimmed, Wiped, Expunging

LEMMA GhostsNote ==
  ASSUME NEW g, Noting(g), NEW d
  PROVE  Headless(d) \subseteq Noted(g, d).headless /\ Beheaded(d) \subseteq NotedEach(g, d).headless
BY DEF Noting, Noted, NotedEach

\* Deletions that go together, and those of a loop.
LEMMA CutsKnit ==
  ASSUME IInv, Leads(db, db', DOMAIN server, {}, {}), Cuts(db, db', {}), NEW g, Noting(g), ghost.headless \subseteq g.headless,
         ghost' = Noted(g, db')
  PROVE  Knits
<1>1. Sound(db, DOMAIN server) /\ Strung(db)
  BY DEF IInv, Stringing
<1>2. Sound(db', DOMAIN server) /\ db.next <= (db').next
  BY DEF Leads, Descends
<1>3. g.headless \subseteq ghost'.headless /\ Headless(db') \subseteq ghost'.headless
  BY GhostsKeep, GhostsNote
<1>4. Ties(db, db', ghost'.headless)
  BY <1>1, <1>2, <1>3, {} \subseteq ghost'.headless, CutsTie
<1> QED  BY <1>3, <1>4, TiesKnit

LEMMA FrayingKnit ==
  ASSUME IInv, Fraying(db, db', DOMAIN server), ghost' = NotedEach(ghost, db')
  PROVE  Knits
<1>1. Sound(db, DOMAIN server) /\ Strung(db) /\ Noting(ghost)
  BY DEF IInv, Stringing
<1>2. Sound(db', DOMAIN server) /\ db.next <= (db').next /\ Frays(db, db')
  BY DEF Fraying
<1>3. ghost.headless \subseteq ghost'.headless /\ Beheaded(db') \subseteq ghost'.headless
  BY <1>1, GhostsKeep, GhostsNote
<1>4. Ties(db, db', ghost'.headless)
  BY <1>1, <1>2, <1>3, FraysTie
<1> QED  BY <1>3, <1>4, TiesKnit

LEMMA ListsMails ==
  ASSUME NEW d, NEW users, Sound(d, users), NEW acc, NEW box, NEW thread,
         NEW found, found = emstorage_get_mail_list(d, acc, box, thread)
  PROVE  Len(IdsOf(found)) \in Nat
<1> DEFINE rows == {m \in d.mail : /\ acc \in {0, m.acc} /\ box \in {0, m.box} /\ thread \in {0, m.thread}
                                   /\ (0 \in {acc, box} => m.type \notin NotThreaded) /\ ~m.deleted}
<1>1. Mailed(d.mail, d.next)
  BY SoundIs
<1>2. IsFiniteSet(rows)
  BY <1>1, MailsAreFinite, FS_Subset
<1>3. \A r \in rows : r.id \in Nat /\ r.msg \in Nat
  BY <1>1 DEF Mailed
<1>4. \A r, q \in rows : r.id = q.id => r = q
  BY <1>1 DEF Mailed
<1>5. found = ByDate(rows)
  BY DEF emstorage_get_mail_list
<1> HIDE DEF rows
<1>6. found \in Seq(rows)
  BY <1>2, <1>3, <1>4, <1>5, ByDateLists
<1>7. IdsOf(found) \in Seq({found[i].id : i \in DOMAIN found})
  BY <1>6 DEF IdsOf
<1> QED  BY <1>7

LEMMA BatchesAreListed ==
  ASSUME NEW ids \in Batches
  PROVE  Len(ids) \in Nat
BY DEF Batches

-----------------------------------------------------------------------------
(* email-daemon-mail.c *)

LEMMA DeleteMailGood ==
  ASSUME IInv, NEW box, NEW ids, Len(ids) \in Nat, NEW on, emdaemon_delete_mail(box, ids, on)
  PROVE  Good
<1>1. PICK b \in emstorage_get_mailbox_by_id(db, box) :
        /\ Detach([op |-> "delete", acc |-> b.acc, ids |-> ids, server |-> on])
        /\ ghost' = [ghost EXCEPT !.mails = @ \cup Range(ids),
                                  !.msgs = IF on THEN @ \cup MsgsOf(Range(ids)) ELSE @,
                                  !.single = IF on /\ Len(ids) = 1
                                             THEN @ \cup {[id |-> ids[1], msg |-> msg] : msg \in MsgsOf(Range(ids))}
                                             ELSE @]
        /\ UNCHANGED <<db, server, queue, run>>
  BY DEF emdaemon_delete_mail
<1>2. Noting(ghost') /\ ghost'.strays = ghost.strays /\ ghost'.headless = ghost.headless
  BY <1>1 DEF IInv, Noting
<1>3. Follows
  <2>1. Leads(db, db', DOMAIN server, {}, {})
    BY <1>1, LeadsSame DEF IInv
  <2>2. Knits
    BY <1>1, <1>2, <2>1, KnotsKnit DEF Leads, Descends
  <2> QED  BY <1>1, <1>2, <2>1, <2>2, LeadsFollows
<1>4. Detaches
  BY <1>1 DEF Detach, Detaches, Event
<1> QED  BY <1>1, <1>3, <1>4 DEF Good, Queues, Runs

LEMMA MoveMailGood ==
  ASSUME IInv, NEW ids, NEW dst, emdaemon_move_mail(ids, dst)
  PROVE  Good
<1>1. PICK to, m : /\ Detach([op |-> "move", acc |-> to.acc, ids |-> ids, dst |-> dst, src |-> m.box])
                   /\ UNCHANGED <<db, server, queue, run, ghost>>
  BY DEF emdaemon_move_mail
<1>2. Detaches
  BY <1>1 DEF Detach, Detaches, Event
<1> QED  BY <1>1, <1>2, SameFollows DEF Good, Queues, Runs

LEMMA DeleteThreadGood ==
  ASSUME IInv, NEW t \in threads, thread_func_to_delete_mail(t)
  PROVE  Good
<1> DEFINE users == DOMAIN server
<1>1. Sound(db, users) /\ Serving(server, users) /\ Event(t, users) /\ Noting(ghost) /\ Strung(db)
  BY DEF IInv, Stringing
<1>2. /\ db' = emcore_delete_mail(db, t.acc, Range(t.ids))
      /\ ghost' = IF Known(db, t.acc) THEN Noted(Wiped(ghost, t, Range(t.ids)), db') ELSE ghost
      /\ UNCHANGED <<server, run>> /\ threads' = threads \ {t}
      /\ queue' = queue \/ queue' = Append(queue, t)
  BY DEF thread_func_to_delete_mail, emcore_insert_event
<1> HIDE DEF users
<1> DEFINE g == Wiped(ghost, t, Range(t.ids))
<1>0. Noting(g) /\ g.strays = ghost.strays /\ ghost.headless \subseteq g.headless
  BY <1>1, GhostsKeep
<1>3. Noting(ghost') /\ ghost'.strays = ghost.strays /\ ghost.headless \subseteq ghost'.headless
  <2> HIDE DEF g
  <2>2. Noting(Noted(g, db')) /\ Noted(g, db').strays = g.strays /\ g.headless \subseteq Noted(g, db').headless
    BY <1>0, GhostsKeep
  <2> QED  BY <1>0, <1>1, <1>2, <2>2 DEF g
<1>4. Leads(db, db', users, ghost'.wiped, ghost'.strays)
  <2>1. Leads(db, db', users, Wiping(db, t.acc, Range(t.ids)), {}) /\ (Known(db, t.acc) \/ db' = db)
    BY <1>1, <1>2, DeleteLeads
  <2>2. CASE Known(db, t.acc)
    <3>1. Wiping(db, t.acc, Range(t.ids)) \subseteq ghost'.wiped
      BY <1>1, <1>2, <2>2 DEF Noted, Wiped, Wiping, Mails, Noting
    <3>2. {} \subseteq ghost'.strays
      OBVIOUS
    <3> QED  BY <2>1, <3>1, <3>2, LeadsMore
  <2>3. CASE db' = db
    <3>1. Leads(db, db', users, {}, {}) /\ {} \subseteq ghost'.wiped /\ {} \subseteq ghost'.strays
      BY <1>1, <2>3, LeadsSame
    <3> QED  BY <3>1, LeadsMore
  <2> QED  BY <2>1, <2>2, <2>3
<1>6. Knits
  <2>1. CASE Known(db, t.acc)
    <3>1. ghost' = Noted(g, db')
      BY <1>2, <2>1
    <3>2. Strange(db, t.acc, Range(t.ids)) \subseteq g.headless
      <4>1. Strange(db, t.acc, Range(t.ids)) \subseteq Mixed(t.acc, Range(t.ids))
        BY DEF Strange, Mixed
      <4>2. Mixed(t.acc, Range(t.ids)) \subseteq g.headless
        BY <1>1 DEF Wiped, Noting
      <4> QED  BY <4>1, <4>2
    <3> HIDE DEF g
    <3>3. Strange(db, t.acc, Range(t.ids)) \subseteq ghost'.headless /\ Headless(db') \subseteq ghost'.headless
      BY <1>0, <3>1, <3>2, GhostsKeep, GhostsNote
    <3>4. Cuts(db, db', Strange(db, t.acc, Range(t.ids)))
      BY <1>1, <1>2, DeleteCuts
    <3>5. Sound(db', users) /\ db.next <= (db').next
      BY <1>4 DEF Leads, Descends
    <3>6. Ties(db, db', ghost'.headless)
      BY <1>1, <3>3, <3>4, <3>5, CutsTie
    <3> QED  BY <1>3, <3>6, TiesKnit
  <2>2. CASE ~Known(db, t.acc)
    <3>1. db' = db
      BY <1>1, <1>2, <2>2, DeleteLeads
    <3> QED  BY <1>3, <1>4, <3>1, KnotsKnit DEF Leads, Descends, users
  <2> QED  BY <2>1, <2>2
<1>5. Follows
  BY <1>1, <1>2, <1>3, <1>4, <1>6 DEF Follows, users
<1> QED  BY <1>1, <1>2, <1>5 DEF Good, Queues, Detaches, Runs, users

LEMMA MoveThreadGood ==
  ASSUME IInv, NEW t \in threads, thread_func_to_move_mail(t)
  PROVE  Good
<1> DEFINE users == DOMAIN server
           to == emstorage_get_mailbox_by_id(db, t.dst)
           target == The(to)
           ids == Range(t.ids)
<1>1. Sound(db, users) /\ Serving(server, users) /\ Event(t, users) /\ Noting(ghost) /\ Strung(db)
  BY DEF IInv, Stringing
<1>2. threads' = threads \ {t} /\ UNCHANGED <<server, run>>
  BY DEF thread_func_to_move_mail
<1>3. CASE to = {}
  <2>1. UNCHANGED <<db, queue, ghost>>
    BY <1>3 DEF thread_func_to_move_mail
  <2> QED  BY <1>2, <2>1, SameFollows DEF Good, Queues, Detaches, Runs
<1>4. CASE to # {}
  <2>1. /\ db' = emcore_move_mail(db, ids, target) /\ queue' = Append(queue, t)
        /\ ghost' = [ghost EXCEPT !.moved = @ \cup MovedMsgs(ids),
                                  !.strays = @ \cup Foreign(db, target, ids),
                                  !.headless = @ \cup Mixed(t.acc, ids)]
    BY <1>4 DEF thread_func_to_move_mail, emcore_insert_event, Foreign
  <2>2. target \in db.box
    BY <1>4 DEF The, emstorage_get_mailbox_by_id
  <2>3. /\ Noting(ghost') /\ ghost'.strays = ghost.strays \cup Foreign(db, target, ids)
        /\ ghost'.headless = ghost.headless \cup Mixed(t.acc, ids)
    BY <1>1, <2>1 DEF Noting
  <2> HIDE DEF users, to, target, ids
  <2>4. Leads(db, db', users, {}, Foreign(db, target, ids))
    BY <1>1, <2>1, <2>2, MoveMailLeads
  <2>6. Knits
    <3> DEFINE a == t.acc
               out == ghost'.headless
    <3>1. \/ \A m \in db.mail : m.id \in ids => m.acc = a
          \/ {m.thread : m \in {m \in db.mail : m.id \in ids}} \subseteq out
      <4>1. \/ \A m \in db.mail : m.id \in ids => m.acc = a
            \/ {m.thread : m \in {m \in db.mail : m.id \in ids}} = Mixed(a, ids)
        BY DEF Mixed
      <4> QED  BY <2>3, <4>1
    <3> HIDE DEF a, out
    <3>2. Ties(db, db', out)
      BY <1>1, <2>1, <2>2, <3>1, MoveTies
    <3>3. ghost.headless \subseteq ghost'.headless /\ out \subseteq ghost'.headless
      BY <2>3 DEF out
    <3> QED  BY <3>2, <3>3, TiesKnit
  <2>5. Follows
    BY <1>1, <1>2, <2>3, <2>4, <2>6, FollowsIs DEF users
  <2> QED  BY <1>1, <1>2, <2>1, <2>5 DEF Good, Queues, Detaches, Runs, users
<1> QED  BY <1>3, <1>4

LEMMA SetFlagsGood ==
  ASSUME IInv, NEW acc, NEW ids, NEW field \in {"seen", "deleted"}, NEW value, NEW on,
         emdaemon_set_flags_field(acc, ids, field, value, on)
  PROVE  Good
<1> DEFINE users == DOMAIN server
<1>1. Sound(db, users) /\ field \in Flagging
  BY DEF IInv, Flagging
<1>2. db' = emstorage_set_field_of_mails_with_integer_value(db, acc, Range(ids), field, value)
  BY DEF emdaemon_set_flags_field, emcore_set_flags_field
<1>3. Sound(db', users) /\ Steady(db, db')
  BY <1>1, <1>2, SetField
<1>4. UNCHANGED <<server, threads, run, ghost>>
  BY DEF emdaemon_set_flags_field
<1>5. Follows
  BY <1>3, <1>4, SteadyFollows
<1>6. Queues
  BY DEF emdaemon_set_flags_field, emcore_insert_event, Queues, Event
<1> QED  BY <1>4, <1>5, <1>6 DEF Good, Detaches, Runs

LEMMA DeleteMailAllGood ==
  ASSUME IInv, DeleteMailAll
  PROVE  Good
<1> DEFINE users == DOMAIN server
<1>1. Sound(db, users) /\ Noting(ghost) /\ Strung(db)
  BY DEF IInv, Stringing
<1>2. PICK b \in db.box, on \in BOOLEAN :
        /\ db' = emcore_delete_all_mails_of_mailbox(db, b.id)
        /\ IF on THEN emcore_insert_event([op |-> "delete_all", box |-> b.id]) ELSE UNCHANGED queue
        /\ ghost' = Noted([ghost EXCEPT !.mails = @ \cup {m.id : m \in MailsByName(db, b)},
                                        !.boxes = IF on THEN @ \cup {b.id} ELSE @], db')
  BY DEF DeleteMailAll
<1>3. UNCHANGED <<server, threads, run>>
  BY DEF DeleteMailAll
<1>4. Leads(db, db', users, {}, {})
  BY <1>1, <1>2, DeleteAllLeads
<1>5. Noting(ghost') /\ ghost'.strays = ghost.strays
  BY <1>1, <1>2 DEF Noting, Noted
<1>8. Knits
  <2> DEFINE g == [ghost EXCEPT !.mails = @ \cup {m.id : m \in MailsByName(db, b)},
                                !.boxes = IF on THEN @ \cup {b.id} ELSE @]
  <2>1. ghost' = Noted(g, db')
    BY <1>2
  <2>2. Noting(g) /\ g.headless = ghost.headless
    BY <1>1 DEF Noting
  <2>3. Cuts(db, db', {})
    BY <1>1, <1>2, DeleteAllCuts
  <2> HIDE DEF g
  <2> QED  BY <1>4, <2>1, <2>2, <2>3, CutsKnit
<1>6. Follows
  BY <1>3, <1>4, <1>5, <1>8, LeadsFollows
<1>7. Queues
  BY <1>2 DEF emcore_insert_event, Queues, Event
<1> QED  BY <1>3, <1>6, <1>7 DEF Good, Detaches, Runs

LEMMA ModifyFlagGood ==
  ASSUME IInv, ModifyFlag
  PROVE  Good
<1> DEFINE users == DOMAIN server
<1>1. Sound(db, users) /\ "seen" \in Flagging
  BY DEF IInv, Flagging
<1>2. PICK id \in Mails, seen \in BOOLEAN, on \in BOOLEAN :
        /\ db' = emstorage_change_mail_field(db, id, "seen", seen)
        /\ IF on THEN emcore_insert_event([op |-> "flag", id |-> id]) ELSE UNCHANGED queue
  BY DEF ModifyFlag, emcore_modify_flag
<1>3. UNCHANGED <<server, threads, run, ghost>>
  BY DEF ModifyFlag
<1>4. Sound(db', users) /\ Steady(db, db')
  <2> DEFINE field == "seen"
  <2>1. db' = emstorage_change_mail_field(db, id, field, seen) /\ field \in Flagging
    BY <1>1, <1>2
  <2> HIDE DEF field
  <2> QED  BY <1>1, <2>1, ChangeField
<1>5. Follows
  BY <1>3, <1>4, SteadyFollows
<1>6. Queues
  BY <1>2 DEF emcore_insert_event, Queues, Event
<1> QED  BY <1>3, <1>5, <1>6 DEF Good, Detaches, Runs

\* What is marked deleted goes together; a mailbox may show mails of another account.
LEMMA ExpungingKnits ==
  ASSUME IInv, NEW c, Sound(c, DOMAIN server), c.mail = db.mail, c.box = db.box, db.next <= c.next,
         NEW box, db' = emcore_expunge_mails_deleted_flagged_from_local_storage(c, box),
         Leads(db, db', DOMAIN server, {}, {}), ghost' = Noted(Expunging(ghost, box), db')
  PROVE  Noting(ghost') /\ ghost'.strays = ghost.strays /\ Knits
<1> DEFINE g == Expunging(ghost, box)
<1>1. Sound(db, DOMAIN server) /\ Strung(db) /\ Noting(ghost)
  BY DEF IInv, Stringing
<1>2. Noting(g) /\ g.strays = ghost.strays /\ ghost.headless \subseteq g.headless
  BY <1>1, GhostsKeep
<1>3. Alien(db, box) \subseteq g.headless
  <2> DEFINE found == emstorage_get_mailbox_by_id(db, box)
             ids == DeletedFlagged(db, box)
  <2>1. g.headless = ghost.headless \cup UNION {Mixed(b.acc, ids) : b \in found}
    BY <1>1 DEF Expunging, Noting
  <2>2. Alien(db, box) = UNION {Strange(db, b.acc, ids) : b \in found}
    BY DEF Alien
  <2> HIDE DEF found, ids, g
  <2>3. \A b \in found : Strange(db, b.acc, ids) \subseteq Mixed(b.acc, ids)
    BY DEF Strange, Mixed
  <2> QED  BY <2>1, <2>2, <2>3
<1> HIDE DEF g
<1>4. ghost' = Noted(g, db')
  BY DEF g
<1>5. Noting(ghost') /\ ghost'.strays = g.strays /\ g.headless \subseteq ghost'.headless /\ Headless(db') \subseteq ghost'.headless
  <2>1. Noting(Noted(g, db')) /\ Noted(g, db').strays = g.strays /\ g.headless \subseteq Noted(g, db').headless
    BY <1>2, GhostsKeep
  <2>2. Headless(db') \subseteq Noted(g, db').headless
    BY <1>2, GhostsNote
  <2> QED  BY <1>4, <2>1, <2>2
<1>6. Cuts(db, db', Alien(db, box))
  <2>1. Strung(c)
    <3>1. db.next \in Nat /\ c.next \in Nat
      BY <1>1, SoundIs DEF Mailed
    <3> QED  BY <1>1, <3>1 DEF Strung
  <2>2. Cuts(c, db', Alien(c, box))
    BY <2>1, ExpungeCuts
  <2>3. Alien(c, box) = Alien(db, box)
    BY DEF Alien, Strange, DeletedFlagged, emstorage_get_mailbox_by_id
  <2> QED  BY <2>2, <2>3 DEF Cuts, Cut, Headed, ListedIn
<1>7. Sound(db', DOMAIN server) /\ db.next <= (db').next
  BY DEF Leads, Descends
<1>8. Alien(db, box) \subseteq ghost'.headless /\ ghost.headless \subseteq ghost'.headless
  BY <1>2, <1>3, <1>5
<1>9. Ties(db, db', ghost'.headless)
  BY <1>1, <1>5, <1>6, <1>7, <1>8, CutsTie
<1> QED  BY <1>2, <1>5, <1>8, <1>9, TiesKnit

LEMMA ExpungeGood ==
  ASSUME IInv, ExpungeMails
  PROVE  Good
<1> DEFINE users == DOMAIN server
<1>1. Sound(db, users) /\ Noting(ghost)
  BY DEF IInv
<1>2. PICK b \in db.box, on \in BOOLEAN :
        IF on THEN emcore_insert_event([op |-> "expunge", acc |-> b.acc, box |-> b.id]) /\ UNCHANGED <<db, ghost>>
        ELSE /\ db' = emcore_expunge_mails_deleted_flagged_from_local_storage(db, b.id)
             /\ ghost' = Noted(Expunging(ghost, b.id), db')
             /\ UNCHANGED queue
  BY DEF ExpungeMails
<1>3. UNCHANGED <<server, threads, run>>
  BY DEF ExpungeMails
<1>4. Queues
  BY <1>2 DEF emcore_insert_event, Queues, Event
<1>5. CASE on
  <2>1. UNCHANGED <<db, ghost>>
    BY <1>2, <1>5
  <2> QED  BY <1>3, <1>4, <2>1, SameFollows DEF Good, Detaches, Runs
<1>6. CASE ~on
  <2>1. db' = emcore_expunge_mails_deleted_flagged_from_local_storage(db, b.id) /\ ghost' = Noted(Expunging(ghost, b.id), db')
    BY <1>2, <1>6
  <2>2. Leads(db, db', users, {}, {})
    BY <1>1, <2>1, ExpungeLeads
  <2>5. db.next <= db.next
    BY <1>1, SoundIs DEF Mailed
  <2>3. Noting(ghost') /\ ghost'.strays = ghost.strays /\ Knits
    BY <1>1, <2>1, <2>2, <2>5, ExpungingKnits
  <2>4. Follows
    BY <1>3, <2>2, <2>3, LeadsFollows
  <2> QED  BY <1>3, <1>4, <2>4 DEF Good, Detaches, Runs
<1> QED  BY <1>2, <1>5, <1>6

LEMMA AddMailGood ==
  ASSUME IInv, AddMail
  PROVE  Good
<1> DEFINE users == DOMAIN server
<1>1. Sound(db, users) /\ Noting(ghost) /\ Boxed(db.box) /\ Strung(db)
  BY SoundIs DEF IInv, Stringing
<1>2. PICK b \in db.box, msg \in Drafts, meeting \in BOOLEAN :
        /\ db' = emcore_add_mail(db, b.acc, b.id, msg, msg \in Attached, meeting)
        /\ ghost' = Trimmed(ghost, db')
  BY DEF AddMail
<1>3. UNCHANGED <<server, queue, threads, run>>
  BY DEF AddMail
<1>4. Leads(db, db', users, {}, {})
  <2> DEFINE attached == msg \in Attached
             acc == b.acc
             box == b.id
  <2>1. msg \in Nat
    BY DatesAssumption
  <2>2. \A c \in db.box : c.id = box => c.acc = acc
    BY <1>1 DEF Boxed, Keyed
  <2>3. db' = emcore_add_mail(db, acc, box, msg, attached, meeting)
    BY <1>2
  <2> HIDE DEF attached, users, acc, box
  <2> QED  BY <1>1, <2>1, <2>2, <2>3, SaveMailLeads
<1>5. Noting(ghost') /\ ghost'.strays = ghost.strays /\ ghost.headless \subseteq ghost'.headless
  BY <1>1, <1>2, GhostsKeep
<1>7. Knits
  <2> DEFINE attached == msg \in Attached
             acc == b.acc
             box == b.id
             out == ghost'.headless
  <2>1. msg \in Nat
    BY DatesAssumption
  <2>2. \A c \in db.box : c.id = box => c.acc = acc
    BY <1>1 DEF Boxed, Keyed
  <2>3. db' = emcore_add_mail(db, acc, box, msg, attached, meeting)
    BY <1>2
  <2>4. \/ {m.id : m \in db.mail} \cup {db.next} \subseteq {m.id : m \in (db').mail}
        \/ {m.thread : m \in db.mail \ (db').mail} \subseteq out
    BY <1>1, <1>2 DEF Trimmed, Mails, Noting
  <2> HIDE DEF attached, users, acc, box, out
  <2>5. Ties(db, db', out)
    BY <1>1, <2>1, <2>2, <2>3, <2>4, SaveMailTies
  <2> QED  BY <1>5, <2>5, TiesKnit DEF out
<1>6. Follows
  BY <1>3, <1>4, <1>5, <1>7, LeadsFollows
<1> QED  BY <1>3, <1>6 DEF Good, Queues, Detaches, Runs

LEMMA UpdateMailGood ==
  ASSUME IInv, UpdateMail
  PROVE  Good
<1> DEFINE users == DOMAIN server
<1>1. Sound(db, users) /\ Keyed(db.att, AttFields)
  BY SoundIs DEF IInv
<1>0. PICK m \in db.mail, body \in Drafts, meeting \in BOOLEAN :
        \E atts \in {<<>>, <<0>>, IdsOf(emstorage_get_attachment_list(db, m.id))} :
            db' = emcore_update_mail(db, m.acc, m.id, body, atts, meeting)
  BY DEF UpdateMail
<1>2. PICK atts : /\ atts \in {<<>>, <<0>>, IdsOf(emstorage_get_attachment_list(db, m.id))}
                  /\ db' = emcore_update_mail(db, m.acc, m.id, body, atts, meeting)
  BY <1>0
<1>3. UNCHANGED <<server, queue, threads, run, ghost>>
  BY DEF UpdateMail
<1>4. Len(atts) \in Nat
  <2> DEFINE rows == {a \in db.att : a.mail = m.id}
             seq == ById(rows)
  <2>1. Table(db.att, AttFields)
    BY <1>1, TableIsKeyed
  <2>2. IsFiniteSet(rows) /\ (\A r \in rows : r.id \in Nat) /\ \A r, q \in rows : r.id = q.id => r = q
    BY <2>1, FS_Subset DEF Table
  <2>3. emstorage_get_attachment_list(db, m.id) = seq
    BY DEF emstorage_get_attachment_list
  <2> HIDE DEF rows
  <2>4. seq \in Seq(rows)
    BY <2>2, ByIdLists
  <2> HIDE DEF seq
  <2>5. DOMAIN seq = 1 .. Len(seq) /\ Len(seq) \in Nat
    BY <2>4
  <2>6. IdsOf(seq) = [i \in 1 .. Len(seq) |-> seq[i].id]
    BY <2>5 DEF IdsOf
  <2>7. Len(IdsOf(seq)) \in Nat
    BY <2>5, <2>6
  <2> QED  BY <1>2, <2>3, <2>7
<1>5. Sound(db', users) /\ Steady(db, db')
  BY <1>1, <1>2, <1>4, UpdateMailSteady
<1>6. Follows
  BY <1>3, <1>5, SteadyFollows
<1> QED  BY <1>3, <1>6 DEF Good, Queues, Detaches, Runs

LEMMA ChangeAttachmentsGood ==
  ASSUME IInv, ChangeAttachments
  PROVE  Good
<1> DEFINE users == DOMAIN server
<1>1. Sound(db, users)
  BY DEF IInv
<1>2. UNCHANGED <<server, queue, threads, run, ghost>>
  BY DEF ChangeAttachments
<1>3. ASSUME NEW id, db' = emcore_mail_add_attachment_data(db, id) PROVE Sound(db', users) /\ Steady(db, db')
  BY <1>1, <1>3, AddAttachmentData
<1>4. ASSUME NEW att, db' = emcore_delete_mail_attachment(db, att) PROVE Sound(db', users) /\ Steady(db, db')
  BY <1>1, <1>4, DeleteAttachment DEF emcore_delete_mail_attachment
<1>5. Sound(db', users) /\ Steady(db, db')
  BY <1>3, <1>4 DEF ChangeAttachments
<1>6. Follows
  BY <1>2, <1>5, SteadyFollows
<1> QED  BY <1>2, <1>6 DEF Good, Queues, Detaches, Runs

-----------------------------------------------------------------------------
(* email-daemon-mailbox.c and email-daemon-account.c *)

LEMMA AskGood ==
  ASSUME IInv, NEW e, Event(e, DOMAIN server), Ask(e)
  PROVE  Good
<1>1. UNCHANGED <<db, server, threads, run, ghost>> /\ queue' = Append(queue, e)
  BY DEF Ask, emcore_insert_event
<1> QED  BY <1>1, SameFollows DEF Good, Queues, Detaches, Runs

LEMMA AsksGood ==
  ASSUME IInv, SyncHeader \/ GetImapMailboxList \/ SetMailSlotSize \/ CreateAccount \/ DownloadBody
  PROVE  Good
<1> DEFINE users == DOMAIN server
<1>1. \A e : Event(e, users) /\ Ask(e) => Good
  BY AskGood
<1>2. CASE SyncHeader
  <2>1. PICK acc, box : Ask([op |-> "sync", acc |-> acc, box |-> box])
    BY <1>2 DEF SyncHeader
  <2>2. Event([op |-> "sync", acc |-> acc, box |-> box], users)
    BY DEF Event
  <2> QED  BY <1>1, <2>1, <2>2
<1>3. CASE GetImapMailboxList
  <2>1. PICK acc : Ask([op |-> "list", acc |-> acc])
    BY <1>3 DEF GetImapMailboxList
  <2>2. Event([op |-> "list", acc |-> acc], users)
    BY DEF Event
  <2> QED  BY <1>1, <2>1, <2>2
<1>4. CASE SetMailSlotSize
  <2>1. PICK acc, box, size : size \in Slots /\ Ask([op |-> "slot", acc |-> acc, box |-> box, size |-> size])
    BY <1>4 DEF SetMailSlotSize
  <2>2. Event([op |-> "slot", acc |-> acc, box |-> box, size |-> size], users)
    BY <2>1, SlotsAssumption DEF Event
  <2> QED  BY <1>1, <2>1, <2>2
<1>5. CASE CreateAccount
  <2>1. PICK user \in users, kind \in {"imap", "pop3"} : Ask([op |-> "create_account", user |-> user, kind |-> kind])
    BY <1>5 DEF CreateAccount
  <2>2. Event([op |-> "create_account", user |-> user, kind |-> kind], users)
    BY DEF Event
  <2> QED  BY <1>1, <2>1, <2>2
<1>6. CASE DownloadBody
  <2>1. PICK id : Ask([op |-> "body", id |-> id])
    BY <1>6 DEF DownloadBody, Ask
  <2>2. Event([op |-> "body", id |-> id], users)
    BY DEF Event
  <2> QED  BY <1>1, <2>1, <2>2
<1> QED  BY <1>2, <1>3, <1>4, <1>5, <1>6

LEMMA AddMailboxGood ==
  ASSUME IInv, AddMailbox
  PROVE  Good
<1> DEFINE users == DOMAIN server
<1>1. Sound(db, users)
  BY DEF IInv
<1>2. PICK a \in db.account, name \in NewNames, on \in BOOLEAN :
        IF on THEN Ask([op |-> "create_box", acc |-> a.id, name |-> name])
        ELSE /\ db' = emcore_create_mailbox(db, a.id, name, "user", TRUE)
             /\ UNCHANGED <<server, queue, threads, run, ghost>>
  BY DEF AddMailbox
<1>3. CASE on
  <2>1. Event([op |-> "create_box", acc |-> a.id, name |-> name], users)
    BY NamesAssumption DEF Event
  <2>2. Ask([op |-> "create_box", acc |-> a.id, name |-> name])
    BY <1>2, <1>3
  <2> QED  BY <2>1, <2>2, AskGood
<1>4. CASE ~on
  <2>1. UNCHANGED <<server, queue, threads, run, ghost>>
    BY <1>2, <1>4
  <2>2. Sound(db', users) /\ Steady(db, db')
    <3> DEFINE type == "user"
               yes == TRUE
    <3>1. type \in DOMAIN TypeOrder /\ yes \in BOOLEAN /\ DefaultSlot \in Nat
      BY SlotsAssumption DEF TypeOrder
    <3>2. db' = emcore_create_mailbox(db, a.id, name, type, yes)
      BY <1>2, <1>4
    <3> HIDE DEF type, yes, users
    <3> QED  BY <1>1, <3>1, <3>2, CreateMailboxSteady
  <2>3. Follows
    BY <2>1, <2>2, SteadyFollows
  <2> QED  BY <2>1, <2>3 DEF Good, Queues, Detaches, Runs
<1> QED  BY <1>3, <1>4

LEMMA CutsLike ==
  ASSUME NEW d, NEW c, NEW e, c.mail = e.mail, NEW but, Cuts(d, c, but)
  PROVE  Cuts(d, e, but)
BY DEF Cuts, Headed, Cut, ListedIn

LEMMA DeleteMailboxGood ==
  ASSUME IInv, DeleteMailbox
  PROVE  Good
<1> DEFINE users == DOMAIN server
<1>1. Sound(db, users) /\ Serving(server, users) /\ Noting(ghost) /\ Strung(db)
  BY DEF IInv, Stringing
<1>2. PICK b \in db.box, on \in BOOLEAN :
        /\ Known(db, b.acc)
        /\ IF on THEN emcore_insert_event([op |-> "delete_box", box |-> b.id]) /\ UNCHANGED db
           ELSE db' = (emcore_delete_mailbox(db, server, b.id, FALSE, FALSE)).d /\ UNCHANGED queue
        /\ ghost' = Noted([ghost EXCEPT !.boxes = @ \cup {b.id},
                                        !.mails = IF on THEN @ ELSE @ \cup {m.id : m \in MailsByName(db, b)}], db')
  BY DEF DeleteMailbox
<1>3. UNCHANGED <<server, threads, run>>
  BY DEF DeleteMailbox
<1>4. Leads(db, db', users, {}, {})
  <2>1. CASE on
    BY <1>1, <1>2, <2>1, LeadsSame
  <2>2. CASE ~on
    <3>1. db' = (emcore_delete_mailbox(db, server, b.id, FALSE, FALSE)).d
      BY <1>2, <2>2
    <3> QED  BY <1>1, <1>2, <3>1, DeleteMailboxHere
  <2> QED  BY <2>1, <2>2
<1>5. Noting(ghost') /\ ghost'.strays = ghost.strays
  BY <1>1, <1>2 DEF Noting, Noted
<1>6. Queues
  BY <1>2 DEF emcore_insert_event, Queues, Event
<1>8. Knits
  <2> DEFINE g == [ghost EXCEPT !.boxes = @ \cup {b.id},
                                !.mails = IF on THEN @ ELSE @ \cup {m.id : m \in MailsByName(db, b)}]
  <2>1. ghost' = Noted(g, db')
    BY <1>2
  <2>2. Noting(g) /\ g.headless = ghost.headless
    BY <1>1 DEF Noting
  <2>3. Cuts(db, db', {})
    <3>1. CASE on
      BY <1>2, <3>1, CutsSame
    <3>2. CASE ~on
      <4> DEFINE c == emcore_delete_all_mails_of_mailbox(db, b.id)
      <4>1. db' = (emcore_delete_mailbox(db, server, b.id, FALSE, FALSE)).d
        BY <1>2, <3>2
      <4>2. (db').mail = c.mail
        BY <1>1, <1>2, <4>1, DeleteMailboxHere
      <4>3. Cuts(db, c, {})
        BY <1>1, DeleteAllCuts
      <4> HIDE DEF c
      <4> QED  BY <4>2, <4>3, CutsLike
    <3> QED  BY <3>1, <3>2
  <2> HIDE DEF g
  <2> QED  BY <1>4, <2>1, <2>2, <2>3, CutsKnit
<1>7. Follows
  BY <1>3, <1>4, <1>5, <1>8, LeadsFollows
<1> QED  BY <1>3, <1>6, <1>7 DEF Good, Detaches, Runs

LEMMA RenameMailboxGood ==
  ASSUME IInv, RenameMailbox
  PROVE  Good
<1> DEFINE users == DOMAIN server
<1>1. Sound(db, users) /\ Noting(ghost) /\ Strung(db)
  BY DEF IInv, Stringing
<1>2. PICK b \in db.box, name \in NewNames :
        /\ db' = emstorage_rename_mailbox(db, b.id, name)
        /\ \/ queue' = queue
           \/ queue' = Append(queue, [op |-> "rename_box", acc |-> b.acc, old |-> b.name, new |-> name])
  BY DEF RenameMailbox, emcore_insert_event
<1>3. UNCHANGED <<server, threads, run, ghost>>
  BY DEF RenameMailbox
<1>4. Leads(db, db', users, {}, {})
  BY <1>1, <1>2, RenameLeads
<1>5. Queues
  BY <1>2, NamesAssumption DEF Queues, Event
<1>7. Knits
  <2>1. Ties(db, db', {})
    BY <1>1, <1>2, RenameTies
  <2> QED  BY <1>3, <2>1, TiesKnit
<1>6. Follows
  BY <1>1, <1>3, <1>4, <1>7, LeadsFollows
<1> QED  BY <1>3, <1>5, <1>6 DEF Good, Detaches, Runs

LEMMA SetMailboxTypeGood ==
  ASSUME IInv, SetMailboxType
  PROVE  Good
<1> DEFINE users == DOMAIN server
<1>1. Sound(db, users) /\ Noting(ghost) /\ Strung(db)
  BY DEF IInv, Stringing
<1>2. PICK b \in db.box, type \in {"trash", "spam", "user"} :
        /\ db' = emstorage_update_mailbox_type(db, b.acc, Both, b.name, type)
        /\ ghost' = [ghost EXCEPT !.headless = @ \cup {m.thread : m \in db'.mail \ db.mail}]
  BY DEF SetMailboxType
<1>3. UNCHANGED <<server, queue, threads, run>>
  BY DEF SetMailboxType
<1> DEFINE out == {m.thread : m \in (db').mail \ db.mail}
<1>4. Leads(db, db', users, {}, {}) /\ Ties(db, db', out)
  <2>1. type \in DOMAIN TypeOrder
    BY DEF TypeOrder
  <2> QED  BY <1>1, <1>2, <2>1, TypeLeads, TypeTies
<1>5. Noting(ghost') /\ ghost'.strays = ghost.strays /\ ghost'.headless = ghost.headless \cup out
  BY <1>1, <1>2 DEF Noting
<1>7. Knits
  <2> HIDE DEF out
  <2> QED  BY <1>4, <1>5, TiesKnit
<1>6. Follows
  BY <1>3, <1>4, <1>5, <1>7, LeadsFollows
<1> QED  BY <1>3, <1>6 DEF Good, Queues, Detaches, Runs

LEMMA DeleteAccountGood ==
  ASSUME IInv, DeleteAccount
  PROVE  Good
<1> DEFINE users == DOMAIN server
<1>1. Sound(db, users) /\ Noting(ghost) /\ Strung(db)
  BY DEF IInv, Stringing
<1>2. PICK a \in db.account : /\ db' = emcore_delete_account(db, a.id)
                              /\ ghost' = [ghost EXCEPT !.accounts = @ \cup {a.id}]
  BY DEF DeleteAccount
<1>3. UNCHANGED <<server, queue, threads, run>>
  BY DEF DeleteAccount
<1>4. Leads(db, db', users, {}, {}) /\ (db').mail = {m \in db.mail : m.acc # a.id}
  BY <1>1, <1>2, DeleteAccountLeads
<1>5. Noting(ghost') /\ ghost'.strays = ghost.strays /\ ghost'.headless = ghost.headless
  BY <1>1, <1>2 DEF Noting
<1>7. Knits
  <2>1. Sound(db', users) /\ db.next <= (db').next
    BY <1>4 DEF Leads, Descends
  <2>2. Ties(db, db', {})
    BY <1>1, <1>4, <2>1, FewerAccountsTie
  <2> QED  BY <1>5, <2>2, TiesKnit
<1>6. Follows
  BY <1>3, <1>4, <1>5, <1>7, LeadsFollows
<1> QED  BY <1>3, <1>6 DEF Good, Queues, Detaches, Runs

LEMMA AddRuleGood ==
  ASSUME IInv, AddRule
  PROVE  Good
<1> DEFINE users == DOMAIN server
<1>1. Sound(db, users) /\ Serving(server, users) /\ Noting(ghost) /\ Strung(db)
  BY DEF IInv, Stringing
<1>2. PICK rule \in Rules :
        /\ db' = emcore_mail_filter_by_rule(emstorage_add_rule(db, 0, rule), rule)
        /\ ghost' = [ghost EXCEPT !.strays = @ \cup {m.id : m \in db'.mail \ db.mail},
                                  !.headless = @ \cup {m.thread : m \in db'.mail \ db.mail}]
  BY DEF AddRule
<1>3. UNCHANGED <<server, queue, threads, run>>
  BY DEF AddRule
<1> DEFINE added == emstorage_add_rule(db, 0, rule)
           strays == {m.id : m \in db'.mail \ db.mail}
<1>4. Leads(db, db', users, {}, strays)
  <2>1. Sound(added, users) /\ Steady(db, added) /\ added.mail = db.mail
    BY <1>1, AddRuleRow
  <2>2. Leads(db, added, users, {}, {})
    BY <1>1, <2>1, SteadyLeads
  <2>3. Leads(added, db', users, {}, {m.id : m \in db'.mail \ added.mail})
    <3> HIDE DEF added
    <3> QED  BY <1>2, <2>1, FilteringLeads DEF added
  <2>4. {m.id : m \in db'.mail \ added.mail} = strays
    BY <2>1
  <2>5. Leads(added, db', users, {}, strays)
    BY <2>3, <2>4, Zenon
  <2> HIDE DEF added, strays
  <2> QED  BY <1>1, <2>2, <2>5, ServesTwice
<1> DEFINE out == {m.thread : m \in (db').mail \ db.mail}
<1>5. /\ Noting(ghost') /\ ghost'.strays = ghost.strays \cup strays
      /\ ghost'.headless = ghost.headless \cup out
  BY <1>1, <1>2 DEF Noting
<1>7. Knits
  <2>1. Sound(added, users) /\ Steady(db, added) /\ added.mail = db.mail
    BY <1>1, AddRuleRow
  <2>2. db' = emcore_mail_filter_by_rule(added, rule)
    BY <1>2
  <2> HIDE DEF added
  <2>3. Fraying(db, added, users)
    BY <1>1, <2>1, SteadyFraying
  <2>4. Ties(added, db', {m.thread : m \in (db').mail \ added.mail})
    BY <2>1, <2>2, <2>3, FilteringTies DEF Fraying
  <2>5. Ties(added, db', out)
    BY <2>1, <2>4
  <2>6. Ties(db, added, {})
    BY <1>1, <2>1, <2>3, KnotsTie DEF Steady, Fraying
  <2>7. Sound(db', users)
    BY <1>4 DEF Leads
  <2> HIDE DEF out
  <2>8. Ties(db, db', {} \cup out)
    BY <1>1, <2>1, <2>5, <2>6, <2>7, TiesTwice
  <2> QED  BY <1>5, <2>8, TiesKnit
<1>6. Follows
  <2> HIDE DEF strays, out
  <2> QED  BY <1>1, <1>3, <1>4, <1>5, <1>7, FollowsIs
<1> QED  BY <1>3, <1>6 DEF Good, Queues, Detaches, Runs

LEMMA RulesGood ==
  ASSUME IInv, UpdateRule \/ DeleteRule \/ UpdateAccount
  PROVE  Good
<1> DEFINE users == DOMAIN server
<1>1. Sound(db, users)
  BY DEF IInv
<1>2. UNCHANGED <<server, queue, threads, run, ghost>>
  BY DEF UpdateRule, DeleteRule, UpdateAccount
<1>3. CASE UpdateRule
  <2>1. PICK id, rule : db' = emstorage_change_rule(db, 0, id, rule)
    BY <1>3 DEF UpdateRule
  <2>2. Sound(db', users) /\ Steady(db, db')
    BY <1>1, <2>1, ChangeRuleRow
  <2>3. Follows
    BY <1>2, <2>2, SteadyFollows
  <2> QED  BY <1>2, <2>3 DEF Good, Queues, Detaches, Runs
<1>4. CASE DeleteRule
  <2>1. PICK id : db' = emstorage_delete_rule(db, 0, id)
    BY <1>4 DEF DeleteRule
  <2>2. Sound(db', users) /\ Steady(db, db')
    BY <1>1, <2>1, DeleteRuleRow
  <2>3. Follows
    BY <1>2, <2>2, SteadyFollows
  <2> QED  BY <1>2, <2>3 DEF Good, Queues, Detaches, Runs
<1>5. CASE UpdateAccount
  <2>1. PICK acc, slot : slot \in Slots /\ db' = emstorage_update_account(db, acc, slot)
    BY <1>5 DEF UpdateAccount
  <2>2. slot \in Nat
    BY <2>1, SlotsAssumption
  <2>3. Sound(db', users) /\ Steady(db, db')
    BY <1>1, <2>1, <2>2, UpdateSlotOfAccount
  <2>4. Follows
    BY <1>2, <2>3, SteadyFollows
  <2> QED  BY <1>2, <2>4 DEF Good, Queues, Detaches, Runs
<1> QED  BY <1>3, <1>4, <1>5

-----------------------------------------------------------------------------
(* email-core-event.c *)

\* What an event finds, and what the queue is after it.
LEMMA EventIs ==
  ASSUME IInv, NEW op, Next1(op)
  PROVE  Event(Head(queue), DOMAIN server) /\ Head(queue).op = op /\ Queues
<1>1. queue # <<>> /\ Head(queue).op = op /\ queue' = Tail(queue) /\ Listed(queue)
  BY DEF Next1, IInv, Events
<1>2. Head(queue) \in Range(queue)
  BY <1>1, TailListed
<1> QED  BY <1>1, <1>2 DEF IInv, Events, Queues

\* An event of which a function of MailServer makes r.
LEMMA AnswersGood ==
  ASSUME IInv, NEW r, NEW more, Answers(db, server, r, DOMAIN server, more), Leaves(r), Queues, UNCHANGED <<threads, run>>,
         Noting(ghost'), ghost.strays \subseteq ghost'.strays, more \subseteq ghost'.strays, Knits
  PROVE  Good
<1>1. Leads(db, db', DOMAIN server, {}, more) /\ Serving(server', DOMAIN server)
  BY DEF Answers, Leaves
<1>2. Follows
  BY <1>1, FollowsIs
<1> QED  BY <1>2 DEF Good, Detaches, Runs

LEMMA ServesGood ==
  ASSUME IInv, NEW r, NEW more, Serves(db, server, r, DOMAIN server, more), Leaves(r), Queues, UNCHANGED <<threads, run>>,
         Noting(ghost'), ghost.strays \subseteq ghost'.strays, more \subseteq ghost'.strays,
         ghost.headless \subseteq ghost'.headless
  PROVE  Good
<1>1. Answers(db, server, r, DOMAIN server, more) /\ Knots((db').mail) = Knots(db.mail)
  BY DEF Serves, Leaves
<1>2. Sound(db', DOMAIN server) /\ db.next <= (db').next
  BY <1>1 DEF Answers, Leads, Descends, Leaves
<1>3. Knits
  BY <1>1, <1>2, KnotsKnit
<1> QED  BY <1>1, <1>3, AnswersGood

LEMMA ServesQuietly ==
  ASSUME IInv, NEW r, Serves(db, server, r, DOMAIN server, {}), Leaves(r), Queues, UNCHANGED <<threads, run, ghost>>
  PROVE  Good
<1>1. {} \subseteq ghost'.strays /\ Noting(ghost') /\ ghost.strays \subseteq ghost'.strays
  BY DEF IInv
<1> QED  BY <1>1, ServesGood

LEMMA DeleteOnServerGood ==
  ASSUME IInv, DeleteMailOnServer
  PROVE  Good
<1> DEFINE users == DOMAIN server
           e == Head(queue)
           op == "delete"
<1>1. Sound(db, users) /\ Serving(server, users)
  BY DEF IInv
<1>2. PICK net \in BOOLEAN :
        /\ Next1(op)
        /\ Leaves(emcore_delete_mails_from_remote_server(db, server, e.acc, e.ids, net))
        /\ UNCHANGED <<threads, run, ghost>>
  BY DEF DeleteMailOnServer
<1> DEFINE r == emcore_delete_mails_from_remote_server(db, server, e.acc, e.ids, net)
<1>3. Event(e, users) /\ e.op = op /\ Queues
  BY <1>2, EventIs
<1>4. Len(e.ids) \in Nat
  BY <1>3 DEF Event
<1>5. Serves(db, server, r, users, {})
  <2> HIDE DEF e, users
  <2> QED  BY <1>1, <1>4, DeleteRemote
<1> HIDE DEF r
<1> QED  BY <1>2, <1>3, <1>5, ServesQuietly DEF r

LEMMA DeleteAllOnServerGood ==
  ASSUME IInv, DeleteMailAllOnServer
  PROVE  Good
<1> DEFINE users == DOMAIN server
           found == emstorage_get_mailbox_by_id(db, Head(queue).box)
           b == The(found)
           ids == IdsOf(ById(MailsByName(db, b)))
           op == "delete_all"
<1>1. Sound(db, users) /\ Serving(server, users)
  BY DEF IInv
<1>2. PICK net \in BOOLEAN :
        /\ Next1(op)
        /\ Leaves(IF found = {} THEN Failed(db, server)
                  ELSE emcore_delete_mails_from_remote_server(db, server, b.acc, ids, net))
        /\ UNCHANGED <<threads, run, ghost>>
  BY DEF DeleteMailAllOnServer
<1> DEFINE r == IF found = {} THEN Failed(db, server)
                ELSE emcore_delete_mails_from_remote_server(db, server, b.acc, ids, net)
<1>3. Queues
  BY <1>2, EventIs
<1>4. Serves(db, server, r, users, {})
  <2>1. CASE found = {}
    <3>1. r = Failed(db, server)
      BY <2>1
    <3> HIDE DEF r, users
    <3> QED  BY <1>1, <3>1, FailedServes
  <2>2. CASE found # {}
    <3>1. r = emcore_delete_mails_from_remote_server(db, server, b.acc, ids, net)
      BY <2>2
    <3>2. Len(ids) \in Nat
      BY <1>1, NamedAreListed
    <3> HIDE DEF r, users, ids, b
    <3> QED  BY <1>1, <3>1, <3>2, DeleteRemote
  <2> QED  BY <2>1, <2>2
<1> HIDE DEF r
<1> QED  BY <1>2, <1>3, <1>4, ServesQuietly DEF r

LEMMA MoveOnServerGood ==
  ASSUME IInv, MoveMailOnServer
  PROVE  Good
<1> DEFINE users == DOMAIN server
           e == Head(queue)
           op == "move"
<1>1. Sound(db, users) /\ Serving(server, users)
  BY DEF IInv
<1>2. PICK net \in BOOLEAN :
        /\ Next1(op)
        /\ Leaves(IF ~Known(db, e.acc) \/ Kind(db, e.acc) # "imap" THEN Failed(db, server)
                  ELSE emcore_move_mail_on_server_ex(db, server, e.acc, e.src, e.ids, e.dst, net))
        /\ UNCHANGED <<threads, run, ghost>>
  BY DEF MoveMailOnServer
<1> DEFINE r == IF ~Known(db, e.acc) \/ Kind(db, e.acc) # "imap" THEN Failed(db, server)
                ELSE emcore_move_mail_on_server_ex(db, server, e.acc, e.src, e.ids, e.dst, net)
<1>3. Queues
  BY <1>2, EventIs
<1>4. Serves(db, server, r, users, {})
  <2>1. r = Failed(db, server) \/ r = emcore_move_mail_on_server_ex(db, server, e.acc, e.src, e.ids, e.dst, net)
    OBVIOUS
  <2> HIDE DEF r, users, e
  <2>2. r = Failed(db, server) => Serves(db, server, r, users, {})
    BY <1>1, FailedServes
  <2>3. r = emcore_move_mail_on_server_ex(db, server, e.acc, e.src, e.ids, e.dst, net) => Serves(db, server, r, users, {})
    BY <1>1, MoveServes
  <2> QED  BY <2>1, <2>2, <2>3
<1> HIDE DEF r
<1> QED  BY <1>2, <1>3, <1>4, ServesQuietly DEF r

LEMMA FlagOnServerGood ==
  ASSUME IInv, SyncFlagOnServer
  PROVE  Good
<1> DEFINE users == DOMAIN server
           op == "flag"
<1>1. Sound(db, users) /\ Serving(server, users)
  BY DEF IInv
<1>2. PICK net \in BOOLEAN :
        /\ Next1(op)
        /\ Leaves(emcore_sync_flag_with_server(db, server, Head(queue).id, net))
        /\ UNCHANGED <<threads, run, ghost>>
  BY DEF SyncFlagOnServer
<1> DEFINE r == emcore_sync_flag_with_server(db, server, Head(queue).id, net)
<1>3. Queues
  BY <1>2, EventIs
<1>4. Serves(db, server, r, users, {})
  BY <1>1, FlagServes
<1> HIDE DEF r
<1> QED  BY <1>2, <1>3, <1>4, ServesQuietly DEF r

LEMMA FlagsOnServerGood ==
  ASSUME IInv, SyncFlagsFieldOnServer
  PROVE  Good
<1> DEFINE users == DOMAIN server
           e == Head(queue)
           op == "flags"
<1>1. Sound(db, users) /\ Serving(server, users)
  BY DEF IInv
<1>2. PICK net \in BOOLEAN :
        /\ Next1(op)
        /\ Leaves(emcore_sync_flags_field_with_server(db, server, e.ids, e.field, e.value, net))
        /\ UNCHANGED <<threads, run, ghost>>
  BY DEF SyncFlagsFieldOnServer
<1> DEFINE r == emcore_sync_flags_field_with_server(db, server, e.ids, e.field, e.value, net)
<1>3. Queues
  BY <1>2, EventIs
<1>4. Serves(db, server, r, users, {})
  BY <1>1, FlagsServes
<1> HIDE DEF r
<1> QED  BY <1>2, <1>3, <1>4, ServesQuietly DEF r

LEMMA ExpungeOnServerGood ==
  ASSUME IInv, ExpungeOnServer
  PROVE  Good
<1> DEFINE users == DOMAIN server
           box == Head(queue).box
           acc == Head(queue).acc
           op == "expunge"
<1>1. Sound(db, users) /\ Serving(server, users) /\ Noting(ghost)
  BY DEF IInv
<1>2. PICK net \in BOOLEAN :
        LET r == emcore_expunge_mails_deleted_flagged_from_remote_server(db, server, acc, box, net)
        IN  /\ Next1(op) /\ server' = r.s
            /\ \/ /\ db' = emcore_expunge_mails_deleted_flagged_from_local_storage(r.d, box)
                  /\ ghost' = Noted(Expunging(ghost, box), db')
               \/ UNCHANGED <<db, ghost>>
            /\ UNCHANGED <<threads, run>>
  BY DEF ExpungeOnServer
<1> DEFINE r == emcore_expunge_mails_deleted_flagged_from_remote_server(db, server, acc, box, net)
<1>3. Queues
  BY <1>2, EventIs
<1>7. Serving(r.s, users) /\ Leads(db, r.d, users, {}, {}) /\ r.d.mail = db.mail /\ r.d.box = db.box
  BY <1>1, ExpungeServer
<1>4. Serving(server', users)
  BY <1>2, <1>7
<1>5. Leads(db, db', users, {}, {}) /\ Noting(ghost') /\ ghost'.strays = ghost.strays /\ Knits
  <2>1. CASE db' = emcore_expunge_mails_deleted_flagged_from_local_storage(r.d, box) /\ ghost' = Noted(Expunging(ghost, box), db')
    <3>1. Sound(r.d, users) /\ db.next <= (r.d).next
      BY <1>7 DEF Leads, Descends
    <3>2. Leads(db, db', users, {}, {})
      <4> HIDE DEF box, users, r
      <4>1. Leads(r.d, db', users, {}, {})
        BY <2>1, <3>1, ExpungeLeads
      <4> QED  BY <1>1, <1>7, <4>1, LeadsTwice
    <3> HIDE DEF box, r
    <3> QED  BY <1>7, <2>1, <3>1, <3>2, ExpungingKnits
  <2>2. CASE UNCHANGED <<db, ghost>>
    <3>1. Leads(db, db', users, {}, {})
      BY <1>1, <2>2, LeadsSame
    <3>2. Knits
      BY <2>2, <3>1, KnotsKnit DEF Leads, Descends
    <3> QED  BY <1>1, <2>2, <3>1, <3>2
  <2> QED  BY <1>2, <2>1, <2>2
<1>6. Follows
  <2> {} \subseteq ghost'.strays
    OBVIOUS
  <2> QED  BY <1>4, <1>5, FollowsIs
<1> QED  BY <1>2, <1>3, <1>6 DEF Good, Detaches, Runs

LEMMA SyncListGood ==
  ASSUME IInv, SyncMailboxList
  PROVE  Good
<1> DEFINE users == DOMAIN server
           op == "list"
<1>1. Sound(db, users) /\ Serving(server, users) /\ Noting(ghost) /\ DefaultSlot \in Nat /\ Strung(db)
  BY SlotsAssumption DEF IInv, Stringing
<1>2. PICK net \in BOOLEAN :
        /\ Next1(op)
        /\ Leaves(emcore_sync_mailbox_list(db, server, Head(queue).acc, net))
        /\ ghost' = NotedEach(ghost, db')
        /\ UNCHANGED <<threads, run>>
  BY DEF SyncMailboxList
<1> DEFINE r == emcore_sync_mailbox_list(db, server, Head(queue).acc, net)
<1>3. Queues
  BY <1>2, EventIs
<1>4. Answers(db, server, r, users, {}) /\ Fraying(db, r.d, users)
  BY <1>1, SyncListAnswers, SyncListFraying
<1>5. Noting(ghost') /\ ghost'.strays = ghost.strays /\ {} \subseteq ghost'.strays
  BY <1>1, <1>2, GhostsKeep
<1>6. Knits
  <2>1. Leaves(r)
    BY <1>2
  <2> HIDE DEF r
  <2>2. Fraying(db, db', users)
    BY <1>4, <2>1 DEF Leaves
  <2> QED  BY <1>2, <2>2, FrayingKnit
<1> HIDE DEF r
<1> QED  BY <1>1, <1>2, <1>3, <1>4, <1>5, <1>6, AnswersGood DEF r

LEMMA CreateOnServerGood ==
  ASSUME IInv, CreateMailbox
  PROVE  Good
<1> DEFINE users == DOMAIN server
           e == Head(queue)
           op == "create_box"
<1>1. Sound(db, users) /\ Serving(server, users) /\ DefaultSlot \in Nat
  BY SlotsAssumption DEF IInv
<1>2. PICK net \in BOOLEAN :
        /\ Next1(op)
        /\ Leaves(emcore_create_mailbox_on_server(db, server, e.acc, e.name, "user", net))
        /\ UNCHANGED <<threads, run, ghost>>
  BY DEF CreateMailbox
<1> DEFINE r == emcore_create_mailbox_on_server(db, server, e.acc, e.name, "user", net)
<1>3. Event(e, users) /\ e.op = op /\ Queues
  BY <1>2, EventIs
<1>4. e.name \in DOMAIN FolderType
  BY <1>3 DEF Event
<1>5. Serves(db, server, r, users, {})
  <2> HIDE DEF users, e
  <2> QED  BY <1>1, <1>4, CreateOnServer
<1> HIDE DEF r
<1> QED  BY <1>2, <1>3, <1>5, ServesQuietly DEF r

LEMMA RenameOnServerGood ==
  ASSUME IInv, RenameMailboxOnServer
  PROVE  Good
<1> DEFINE users == DOMAIN server
           e == Head(queue)
           op == "rename_box"
<1>1. Sound(db, users) /\ Serving(server, users)
  BY DEF IInv
<1>2. PICK net \in BOOLEAN :
        /\ Next1(op)
        /\ Leaves(emcore_move_mailbox_on_imap_server(db, server, e.acc, e.old, e.new, net))
        /\ UNCHANGED <<threads, run, ghost>>
  BY DEF RenameMailboxOnServer
<1> DEFINE r == emcore_move_mailbox_on_imap_server(db, server, e.acc, e.old, e.new, net)
<1>3. Event(e, users) /\ e.op = op /\ Queues
  BY <1>2, EventIs
<1>4. e.new \in DOMAIN FolderType
  BY <1>3 DEF Event
<1>5. Serves(db, server, r, users, {})
  <2> HIDE DEF users, e
  <2> QED  BY <1>1, <1>4, RenameOnServer
<1> HIDE DEF r
<1> QED  BY <1>2, <1>3, <1>5, ServesQuietly DEF r

LEMMA DeleteBoxOnServerGood ==
  ASSUME IInv, DeleteMailboxOnServer
  PROVE  Good
<1> DEFINE users == DOMAIN server
           box == Head(queue).box
           op == "delete_box"
<1>1. Sound(db, users) /\ Serving(server, users) /\ Noting(ghost)
  BY DEF IInv
<1>2. PICK net \in BOOLEAN :
        LET r == IF net THEN emcore_delete_mailbox(db, server, box, TRUE, net) ELSE Failed(db, server)
        IN  /\ Next1(op) /\ Leaves(r)
            /\ ghost' = [ghost EXCEPT !.strays = @ \cup {m.id : m \in {m \in r.d.mail : r.ok /\ m.box = box}}]
            /\ UNCHANGED <<threads, run>>
  BY DEF DeleteMailboxOnServer
<1> DEFINE r == IF net THEN emcore_delete_mailbox(db, server, box, TRUE, net) ELSE Failed(db, server)
           strays == Left(r, box)
<1>3. Queues
  BY <1>2, EventIs
<1>4. Serves(db, server, r, users, strays)
  <2>1. CASE net
    <3>1. r = emcore_delete_mailbox(db, server, box, TRUE, net)
      BY <2>1
    <3> HIDE DEF r, users, box
    <3> QED  BY <1>1, <3>1, DeleteMailboxServes
  <2>2. CASE ~net
    <3>1. r = Failed(db, server)
      BY <2>2
    <3> HIDE DEF r, users, box
    <3>2. r.ok = FALSE
      BY <3>1, FailedIs
    <3>3. strays = {}
      BY <3>2 DEF Left
    <3> HIDE DEF strays
    <3> QED  BY <1>1, <3>1, <3>3, FailedServes
  <2> QED  BY <2>1, <2>2
<1>5. Noting(ghost') /\ ghost'.strays = ghost.strays \cup strays /\ ghost'.headless = ghost.headless
  BY <1>1, <1>2 DEF Noting, Left
<1>6. Leaves(r) /\ UNCHANGED <<threads, run>>
  BY <1>2
<1> HIDE DEF r, strays
<1> QED  BY <1>3, <1>4, <1>5, <1>6, ServesGood

LEMMA SetSlotGood ==
  ASSUME IInv, SetSlotSize
  PROVE  Good
<1> DEFINE users == DOMAIN server
           e == Head(queue)
           op == "slot"
<1>1. Sound(db, users) /\ Noting(ghost) /\ SlotUnit \in Nat /\ Strung(db)
  BY SlotsAssumption DEF IInv, Stringing
<1>2. /\ Next1(op) /\ db' = emcore_set_mail_slot_size(db, e.acc, e.box, e.size)
      /\ ghost' = NotedEach(ghost, db') /\ UNCHANGED <<server, threads, run>>
  BY DEF SetSlotSize
<1>3. Event(e, users) /\ e.op = op /\ Queues
  BY <1>2, EventIs
<1>4. e.size \in Nat
  BY <1>3 DEF Event
<1>5. Leads(db, db', users, {}, {}) /\ Fraying(db, db', users)
  <2> HIDE DEF users, e
  <2> QED  BY <1>1, <1>2, <1>4, SlotLeads, SlotFraying
<1>6. Noting(ghost') /\ ghost'.strays = ghost.strays
  BY <1>1, <1>2, GhostsKeep
<1>8. Knits
  BY <1>2, <1>5, FrayingKnit
<1>7. Follows
  BY <1>2, <1>5, <1>6, <1>8, LeadsFollows
<1> QED  BY <1>2, <1>3, <1>7 DEF Good, Detaches, Runs

LEMMA CreateAccountGood ==
  ASSUME IInv, ValidateAndCreateAccount
  PROVE  Good
<1> DEFINE users == DOMAIN server
           e == Head(queue)
           acc == NextId(db.account)
           made == emcore_create_account(db, e.user, e.kind)
           op == "create_account"
<1>1. Sound(db, users) /\ Serving(server, users) /\ DefaultSlot \in Nat /\ Noting(ghost) /\ Strung(db)
  BY SlotsAssumption DEF IInv, Stringing
<1>2. PICK net \in BOOLEAN :
        LET listed == IF e.kind = "imap" THEN emcore_sync_mailbox_list(made, server, acc, net) ELSE Done(made, server)
        IN  /\ Next1(op)
            /\ db' = IF ~net THEN db ELSE IF listed.ok THEN listed.d ELSE emcore_delete_account(listed.d, acc)
            /\ ghost' = NotedEach(ghost, db')
            /\ UNCHANGED <<server, threads, run>>
  BY DEF ValidateAndCreateAccount
<1> DEFINE listed == IF e.kind = "imap" THEN emcore_sync_mailbox_list(made, server, acc, net) ELSE Done(made, server)
<1>3. Event(e, users) /\ e.op = op /\ Queues
  BY <1>2, EventIs
<1>4. e.user \in users /\ e.kind \in {"imap", "pop3"}
  BY <1>3 DEF Event
<1>5. Sound(made, users) /\ Leads(db, made, users, {}, {}) /\ Fraying(db, made, users)
  <2> HIDE DEF users, e
  <2>1. Sound(made, users) /\ Steady(db, made)
    BY <1>1, <1>4, CreateAccountSteady
  <2> HIDE DEF made
  <2> QED  BY <1>1, <2>1, SteadyLeads, SteadyFraying
<1>6. Answers(made, server, listed, users, {}) /\ Fraying(made, listed.d, users)
  <2>1. listed = emcore_sync_mailbox_list(made, server, acc, net) \/ listed = Done(made, server)
    OBVIOUS
  <2> HIDE DEF listed, made, users, acc
  <2>4. Strung(made)
    BY <1>5 DEF Fraying
  <2>2. CASE listed = Done(made, server)
    <3>1. Answers(made, server, listed, users, {}) /\ listed.d = made
      BY <1>1, <1>5, <2>2, FailedServes, ResultIs DEF Serves
    <3> QED  BY <1>5, <2>4, <3>1, SameFraying
  <2>3. CASE listed = emcore_sync_mailbox_list(made, server, acc, net)
    BY <1>1, <1>5, <2>3, <2>4, SyncListAnswers, SyncListFraying
  <2> QED  BY <2>1, <2>2, <2>3
<1>7. Sound(listed.d, users) /\ Leads(db, listed.d, users, {}, {}) /\ Fraying(db, listed.d, users)
  <2> HIDE DEF listed, made, users
  <2>1. Sound(listed.d, users) /\ Leads(made, listed.d, users, {}, {})
    BY <1>6 DEF Answers, Leads
  <2> QED  BY <1>1, <1>5, <1>6, <2>1, LeadsTwice, FrayingTwice
<1>8. Leads(db, db', users, {}, {}) /\ Fraying(db, db', users)
  <2>1. db' = db \/ db' = listed.d \/ db' = emcore_delete_account(listed.d, acc)
    BY <1>2
  <2> HIDE DEF listed, made, users, acc
  <2>2. CASE db' = db
    BY <1>1, <2>2, LeadsSame, SameFraying
  <2>3. CASE db' = listed.d
    BY <1>7, <2>3
  <2>4. CASE db' = emcore_delete_account(listed.d, acc)
    <3>1. Leads(listed.d, db', users, {}, {}) /\ (db').mail = {m \in listed.d.mail : m.acc # acc}
      BY <1>7, <2>4, DeleteAccountLeads
    <3>2. Sound(db', users) /\ listed.d.next <= (db').next /\ Strung(listed.d)
      BY <1>7, <3>1 DEF Leads, Descends, Fraying
    <3>3. Fraying(listed.d, db', users)
      BY <1>7, <3>1, <3>2, FewerAccountsTie
    <3> QED  BY <1>1, <1>7, <3>1, <3>3, LeadsTwice, FrayingTwice
  <2> QED  BY <2>1, <2>2, <2>3, <2>4
<1>9. UNCHANGED <<server, threads, run>> /\ ghost' = NotedEach(ghost, db')
  BY <1>2
<1>11. Knits
  BY <1>8, <1>9, FrayingKnit
<1>12. Noting(ghost') /\ ghost'.strays = ghost.strays
  BY <1>1, <1>9, GhostsKeep
<1>10. Follows
  BY <1>1, <1>8, <1>9, <1>11, <1>12, LeadsFollows
<1> QED  BY <1>3, <1>9, <1>10 DEF Good, Detaches, Runs

-----------------------------------------------------------------------------
(* email-core-mailbox-sync.c *)

\* The mailboxes that a synchronisation has before it are rows that were read.
LEMMA ListOfBoxes ==
  ASSUME IInv, NEW acc
  PROVE  Mailboxes(ListOf(acc))
<1> DEFINE rows == {b \in db.box : b.acc = acc /\ b.local \in {FALSE}}
           seq == ByType(rows)
           some == {b \in Range(seq) : b.type \notin Unsynced}
<1>1. /\ IsFiniteSet(db.box) /\ \A b \in db.box : b.id \in Nat /\ b.type \in DOMAIN TypeOrder /\ b.slot \in Nat
      /\ \A b, c \in db.box : b.id = c.id => b = c
  <2>1. Boxed(db.box)
    BY SoundIs DEF IInv
  <2>2. Table(db.box, BoxFields)
    BY <2>1, TableIsKeyed DEF Boxed
  <2> QED  BY <2>1, <2>2 DEF Boxed, Table
<1>2. seq \in Seq(rows)
  <2>1. IsFiniteSet(rows)
    BY <1>1, FS_Subset
  <2>2. (\A r \in rows : r.id \in Nat /\ r.type \in DOMAIN TypeOrder) /\ \A r, q \in rows : r.id = q.id => r = q
    BY <1>1
  <2> HIDE DEF rows
  <2> QED  BY <2>1, <2>2, ByTypeLists
<1>3. Range(seq) \subseteq rows
  <2> HIDE DEF rows, seq
  <2> QED  BY <1>2, SeqIsListed
<1>4. some \subseteq db.box
  BY <1>3
<1>5. ListOf(acc) = ByType(some)
  BY DEF ListOf, emstorage_get_mailbox_list
<1> HIDE DEF some
<1>6. ByType(some) \in Seq(some)
  <2>1. IsFiniteSet(some)
    BY <1>1, <1>4, FS_Subset
  <2>2. (\A r \in some : r.id \in Nat /\ r.type \in DOMAIN TypeOrder) /\ \A r, q \in some : r.id = q.id => r = q
    BY <1>1, <1>4
  <2> QED  BY <2>1, <2>2, ByTypeLists
<1>7. Listed(ByType(some)) /\ Range(ByType(some)) \subseteq some
  BY <1>6, SeqIsListed
<1> QED  BY <1>1, <1>4, <1>5, <1>7 DEF Mailboxes

LEMMA SyncingRuns ==
  ASSUME NEW accounts, NEW boxes, Mailboxes(boxes), NEW new, NEW whole, NEW d
  PROVE  Running(Syncing(accounts, boxes, new, whole), d)
BY EmptyListed DEF Running, Syncing, HasFields, SyncFields, ToFetch

LEMMA BeginSyncGood ==
  ASSUME IInv, BeginSync
  PROVE  Good
<1> DEFINE users == DOMAIN server
           e == Head(queue)
           found == emstorage_get_mailbox_by_id(db, e.box)
           accounts == IF e.acc = 0 THEN IdsOf(emstorage_get_account_list(db)) ELSE <<e.acc>>
           boxes == IF e.box = 0 THEN ListOf(accounts[1]) ELSE <<The(found)>>
           op == "sync"
<1>1. Sound(db, users) /\ Boxed(db.box)
  BY SoundIs DEF IInv
<1>2. /\ Next1(op) /\ UNCHANGED <<server, threads, ghost>>
      /\ \/ UNCHANGED <<db, run>>
         \/ /\ db' = emstorage_update_sync_status_of_account(db, e.acc, "set", {"syncing"})
            /\ run' = Syncing(accounts, boxes, FALSE, e.box = 0) /\ (e.box # 0 => found # {})
  BY DEF BeginSync
<1>3. Queues
  BY <1>2, EventIs
<1>4. CASE UNCHANGED <<db, run>>
  BY <1>2, <1>3, <1>4, SameFollows DEF Good, Detaches, Runs
<1>5. CASE /\ db' = emstorage_update_sync_status_of_account(db, e.acc, "set", {"syncing"})
           /\ run' = Syncing(accounts, boxes, FALSE, e.box = 0) /\ (e.box # 0 => found # {})
  <2>1. Mailboxes(boxes)
    <3>1. CASE e.box = 0
      BY <3>1, ListOfBoxes
    <3>2. CASE e.box # 0
      <4>1. The(found) \in db.box
        BY <1>5, <3>2 DEF The, emstorage_get_mailbox_by_id
      <4>2. (The(found)).slot \in Nat
        BY <1>1, <4>1 DEF Boxed
      <4> DEFINE b == The(found)
      <4>3. boxes = <<b>> /\ b.slot \in Nat
        BY <3>2, <4>2
      <4> HIDE DEF b, boxes
      <4>4. Listed(<<b>>) /\ Range(<<b>>) \subseteq {b}
        <5>1. <<b>> \in Seq({b})
          OBVIOUS
        <5> QED  BY <5>1, SeqIsListed
      <4> QED  BY <4>3, <4>4 DEF Mailboxes
    <3> QED  BY <3>1, <3>2
  <2>2. Running(run', db')
    <3> DEFINE no == FALSE
               whole == e.box = 0
    <3>1. run' = Syncing(accounts, boxes, no, whole)
      BY <1>5
    <3> HIDE DEF accounts, boxes, no, whole
    <3> QED  BY <2>1, <3>1, SyncingRuns
  <2>3. Sound(db', users) /\ Steady(db, db')
    <3> DEFINE operator == "set"
               flags == {"syncing"}
    <3>1. operator \in {"set", "union", "minus"} /\ flags \in Flags
      BY DEF Flags
    <3>2. db' = emstorage_update_sync_status_of_account(db, e.acc, operator, flags)
      BY <1>5
    <3> HIDE DEF operator, flags, users, e
    <3> QED  BY <1>1, <3>1, <3>2, UpdateSync
  <2>4. Follows
    BY <1>2, <2>3, SteadyFollows
  <2> QED  BY <1>2, <1>3, <2>2, <2>4 DEF Good, Detaches, Runs
<1> QED  BY <1>2, <1>4, <1>5

\* What a step of a synchronisation is of, and what it leaves.
LEMMA SyncIs ==
  ASSUME IInv, InSync
  PROVE  /\ HasFields(run, SyncFields) /\ Mailboxes(run.boxes) /\ ToFetch(run.todo) /\ run.op = "sync"
         /\ run.sel # {} => run.boxes # <<>>
BY DEF IInv, InSync, Running, Idle

LEMMA SyncRuns ==
  ASSUME NEW r, HasFields(r, SyncFields), r.op = "sync", Mailboxes(r.boxes), ToFetch(r.todo),
         r.sel # {} => r.boxes # <<>>, NEW d
  PROVE  Running(r, d)
BY DEF Running

LEMMA BeginMailboxGood ==
  ASSUME IInv, BeginMailbox
  PROVE  Good
<1> DEFINE users == DOMAIN server
           b == Head(run.boxes)
<1>1. Sound(db, users) /\ Serving(server, users) /\ Noting(ghost) /\ Strung(db)
  BY DEF IInv, Stringing
<1>2. InSync /\ run.boxes # <<>> /\ run.sel = {}
  BY DEF BeginMailbox, Selected
<1>3. /\ HasFields(run, SyncFields) /\ Mailboxes(run.boxes) /\ ToFetch(run.todo) /\ run.op = "sync"
  BY <1>2, SyncIs
<1>4. b.slot \in Nat
  <2>1. b \in Range(run.boxes)
    BY <1>2, <1>3, TailListed DEF Mailboxes
  <2> QED  BY <1>3, <2>1 DEF Mailboxes
<1>5. PICK net \in BOOLEAN :
        LET sel == emcore_connect_to_remote_mailbox(db, server, b.acc, b.id, net)
            at == The(sel)
            a == AccountOf(b.acc)
            counted == emstorage_update_mailbox_total_count(db, b.acc, b.id, Cardinality(FolderOf(server, at).msgs))
        IN  IF sel = {} \/ (b.local /\ Kind(db, b.acc) = "imap")
            THEN /\ run' = [run EXCEPT !.boxes = <<>>]
                 /\ db' = emcore_remove_overflowed_mails(db, b.acc, b.id, b.slot)
                 /\ ghost' = Noted(ghost, db')
                 /\ UNCHANGED server
            ELSE /\ db' = DeleteMissing(counted, server, at, a, b)
                 /\ ghost' = NotedEach(ghost, db')
                 /\ server' = MarkRead(counted, server, at, a, b)
                 /\ run' = [run EXCEPT !.sel = sel, !.rules = emstorage_get_rule(db, 0),
                                !.todo = emcore_get_uids_to_download(counted, server, at, a, b)]
  BY DEF BeginMailbox
<1>6. ghost' \in {Noted(ghost, db'), NotedEach(ghost, db')} /\ UNCHANGED <<queue, threads>>
  BY DEF BeginMailbox
<1>7. Noting(ghost') /\ ghost'.strays = ghost.strays
  BY <1>1, <1>6, GhostsKeep
<1> DEFINE sel == emcore_connect_to_remote_mailbox(db, server, b.acc, b.id, net)
           at == The(sel)
           a == AccountOf(b.acc)
           total == Cardinality(FolderOf(server, at).msgs)
           counted == emstorage_update_mailbox_total_count(db, b.acc, b.id, total)
           todo == emcore_get_uids_to_download(counted, server, at, a, b)
<1>8. CASE sel = {} \/ (b.local /\ Kind(db, b.acc) = "imap")
  <2>1. /\ run' = [run EXCEPT !.boxes = <<>>] /\ UNCHANGED server
        /\ db' = emcore_remove_overflowed_mails(db, b.acc, b.id, b.slot)
        /\ ghost' = Noted(ghost, db')
    BY <1>5, <1>8
  <2>2. Leads(db, db', users, {}, {}) /\ Cuts(db, db', {})
    <3> HIDE DEF users, b
    <3> QED  BY <1>1, <1>4, <2>1, OverflowLeads, OverflowCuts
  <2>5. Knits
    BY <1>1, <2>1, <2>2, CutsKnit
  <2>3. Running(run', db')
    <3>1. /\ HasFields(run', SyncFields) /\ run'.boxes = <<>> /\ run'.todo = run.todo
          /\ run'.op = run.op /\ run'.sel = run.sel
      BY <1>3, <2>1 DEF HasFields, SyncFields
    <3>2. Mailboxes(run'.boxes)
      BY <3>1, EmptyListed DEF Mailboxes
    <3> QED  BY <1>2, <1>3, <3>1, <3>2, SyncRuns
  <2>4. Follows
    BY <1>7, <2>1, <2>2, <2>5, LeadsFollows
  <2> QED  BY <1>6, <2>3, <2>4 DEF Good, Queues, Detaches, Runs
<1>9. CASE ~(sel = {} \/ (b.local /\ Kind(db, b.acc) = "imap"))
  <2>1. /\ db' = DeleteMissing(counted, server, at, a, b) /\ server' = MarkRead(counted, server, at, a, b)
        /\ run' = [run EXCEPT !.sel = sel, !.rules = emstorage_get_rule(db, 0), !.todo = todo] /\ ghost' = NotedEach(ghost, db')
    BY <1>5, <1>9
  <2>2. Chosen(server, at)
    <3> HIDE DEF users, b
    <3> QED  BY <1>1, <1>9, TheSelected
  <2>3. Messages(FolderOf(server, at).msgs, FolderOf(server, at).next) /\ total \in Nat
    <3> HIDE DEF users, at
    <3>1. Messages(FolderOf(server, at).msgs, FolderOf(server, at).next)
      BY <1>1, <2>2, FolderIs
    <3> QED  BY <3>1, FS_CardinalityType DEF Messages
  <2>4. Sound(counted, users) /\ Steady(db, counted)
    <3> HIDE DEF users, b, total
    <3> QED  BY <1>1, <2>3, CountBox
  <2>5. Serving(server', users)
    <3> HIDE DEF users, b, at, a, counted
    <3> QED  BY <1>1, <2>1, <2>2, MarkReadServing
  <2>6. Leads(db, db', users, {}, {}) /\ Fraying(db, db', users)
    <3> HIDE DEF users, b, at, a, counted
    <3>1. Leads(db, counted, users, {}, {}) /\ Fraying(db, counted, users)
      BY <1>1, <2>4, SteadyLeads, SteadyFraying
    <3>2. Strung(counted)
      BY <3>1 DEF Fraying
    <3>3. Leads(counted, db', users, {}, {}) /\ Fraying(counted, db', users)
      BY <2>1, <2>4, <3>2, ForgettingLeads, ForgettingFraying
    <3> QED  BY <1>1, <3>1, <3>3, LeadsTwice, FrayingTwice
  <2>10. Knits
    BY <2>1, <2>6, FrayingKnit
  <2>7. ToFetch(todo)
    <3> DEFINE msgs == FolderOf(server, at).msgs
    <3>1. todo \in Seq(msgs)
      <4> HIDE DEF users, b, at, a, counted
      <4> QED  BY <1>1, <1>4, <2>2, ToDownload
    <3> HIDE DEF msgs, todo
    <3>2. Listed(todo) /\ Range(todo) \subseteq msgs
      BY <3>1, SeqIsListed
    <3> QED  BY <2>3, <3>2 DEF ToFetch, Messages, msgs
  <2>8. Running(run', db')
    <3> HIDE DEF sel, todo
    <3>1. /\ HasFields(run', SyncFields) /\ run'.boxes = run.boxes /\ run'.todo = todo
          /\ run'.op = run.op /\ run'.sel = sel
      BY <1>3, <2>1 DEF HasFields, SyncFields
    <3> QED  BY <1>2, <1>3, <2>7, <3>1, SyncRuns
  <2>9. Follows
    <3> {} \subseteq ghost'.strays
      OBVIOUS
    <3> QED  BY <1>7, <2>5, <2>6, <2>10, FollowsIs
  <2> QED  BY <1>6, <2>8, <2>9 DEF Good, Queues, Detaches, Runs
<1> QED  BY <1>8, <1>9

LEMMA EndMailboxGood ==
  ASSUME IInv, EndMailbox
  PROVE  Good
<1> DEFINE users == DOMAIN server
           b == Head(run.boxes)
<1>1. Sound(db, users) /\ Noting(ghost) /\ Strung(db)
  BY DEF IInv, Stringing
<1>2. InSync /\ run.sel # {}
  BY DEF EndMailbox, Selected
<1>3. /\ HasFields(run, SyncFields) /\ Mailboxes(run.boxes) /\ ToFetch(run.todo) /\ run.op = "sync"
      /\ run.boxes # <<>>
  BY <1>2, SyncIs
<1>4. /\ b \in Range(run.boxes) /\ Listed(Tail(run.boxes)) /\ Range(Tail(run.boxes)) \subseteq Range(run.boxes)
  BY <1>3, TailListed DEF Mailboxes
<1>5. b.slot \in Nat
  BY <1>3, <1>4 DEF Mailboxes
<1>6. /\ db' = emcore_remove_overflowed_mails(db, b.acc, b.id, b.slot)
      /\ run' = [run EXCEPT !.sel = {}, !.boxes = Tail(@), !.new = @ \/ run.unread, !.unread = FALSE, !.rules = {}]
      /\ ghost' = Noted(ghost, db') /\ UNCHANGED <<server, queue, threads>>
  BY DEF EndMailbox
<1>7. Leads(db, db', users, {}, {}) /\ Cuts(db, db', {})
  <2> HIDE DEF users, b
  <2> QED  BY <1>1, <1>5, <1>6, OverflowLeads, OverflowCuts
<1>8. Noting(ghost') /\ ghost'.strays = ghost.strays
  BY <1>1, <1>6, GhostsKeep
<1>9. Running(run', db')
  <2>1. /\ HasFields(run', SyncFields) /\ run'.boxes = Tail(run.boxes) /\ run'.todo = run.todo
        /\ run'.op = run.op /\ run'.sel = {}
    BY <1>3, <1>6 DEF HasFields, SyncFields
  <2>2. Mailboxes(run'.boxes)
    BY <1>3, <1>4, <2>1 DEF Mailboxes
  <2> QED  BY <1>3, <2>1, <2>2, SyncRuns
<1>11. Knits
  BY <1>1, <1>6, <1>7, CutsKnit
<1>10. Follows
  BY <1>6, <1>7, <1>8, <1>11, LeadsFollows
<1> QED  BY <1>6, <1>9, <1>10 DEF Good, Queues, Detaches, Runs

LEMMA EndAccountGood ==
  ASSUME IInv, EndAccount
  PROVE  Good
<1> DEFINE users == DOMAIN server
           acc == Head(run.accounts)
           rest == Tail(run.accounts)
           told == IF run.new THEN emstorage_update_sync_status_of_account(db, acc, "union", {"new"}) ELSE db
<1>1. Sound(db, users)
  BY DEF IInv
<1>2. /\ db' = emcore_finalize_sync(told, acc)
      /\ run' = IF rest = <<>> THEN Idle ELSE Syncing(rest, ListOf(rest[1]), run.new, run.whole)
      /\ UNCHANGED <<server, queue, threads, ghost>>
  BY DEF EndAccount
<1>3. Sound(told, users) /\ Steady(db, told)
  <2> DEFINE operator == "union"
             flags == {"new"}
  <2>1. operator \in {"set", "union", "minus"} /\ flags \in Flags
    BY DEF Flags
  <2>2. told = db \/ told = emstorage_update_sync_status_of_account(db, acc, operator, flags)
    OBVIOUS
  <2> HIDE DEF operator, flags, users, acc, told
  <2>3. CASE told = db
    BY <1>1, <2>3, SteadySame
  <2>4. CASE told = emstorage_update_sync_status_of_account(db, acc, operator, flags)
    BY <1>1, <2>1, <2>4, UpdateSync
  <2> QED  BY <2>2, <2>3, <2>4
<1>4. Sound(db', users) /\ Steady(db, db')
  <2> HIDE DEF users, acc, told
  <2>1. Sound(db', users) /\ Steady(told, db')
    BY <1>2, <1>3, FinalizeSteady
  <2> QED  BY <1>1, <1>3, <2>1, SteadyTwice
<1>5. Runs
  <2>1. Mailboxes(ListOf(rest[1]))
    BY ListOfBoxes
  <2> HIDE DEF rest
  <2>2. Running(Syncing(rest, ListOf(rest[1]), run.new, run.whole), db')
    BY <2>1, SyncingRuns
  <2> QED  BY <1>2, <2>2 DEF Runs
<1>6. Follows
  BY <1>2, <1>4, SteadyFollows
<1> QED  BY <1>2, <1>5, <1>6 DEF Good, Queues, Detaches

LEMMA FetchMessageGood ==
  ASSUME IInv, FetchMessage
  PROVE  Good
<1> DEFINE users == DOMAIN server
           x == Head(run.todo)
           b == Head(run.boxes)
           spam == IF Checked(run.rules, run.spam, x.msg) = "matched" THEN run.spam ELSE {}
           to == IF spam = {} THEN b ELSE The(spam)
           added == emcore_add_mail_to_mailbox(db, to, x.msg, x.uid, x.seen)
           r(net) == IF spam # {} /\ Kind(db, b.acc) = "imap"
                     THEN emcore_move_mail_on_server(added, server, b.acc, b.id, db.next, to.name, net)
                     ELSE Done(added, server)
<1>1. Sound(db, users) /\ Serving(server, users) /\ Noting(ghost) /\ Strung(db)
  BY DEF IInv, Stringing
<1>2. InSync /\ run.sel # {} /\ run.todo # <<>> /\ UNCHANGED <<queue, threads>>
  BY DEF FetchMessage, Selected
<1>3. /\ HasFields(run, SyncFields) /\ Mailboxes(run.boxes) /\ ToFetch(run.todo) /\ run.op = "sync"
      /\ run.boxes # <<>>
  BY <1>2, SyncIs
<1>4. x.msg \in Nat /\ ToFetch(Tail(run.todo))
  <2>1. x \in Range(run.todo) /\ Listed(Tail(run.todo)) /\ Range(Tail(run.todo)) \subseteq Range(run.todo)
    BY <1>2, <1>3, TailListed DEF ToFetch
  <2> QED  BY <1>3, <2>1 DEF ToFetch
<1>5. Mailboxes(<<b>>) /\ <<b>> # <<>> /\ ToFetch(<<>>)
  <2>1. Listed(<<b>>) /\ Range(<<b>>) \subseteq Range(run.boxes)
    BY <1>3, TailListed DEF Mailboxes
  <2> QED  BY <1>3, <2>1, EmptyListed DEF Mailboxes, ToFetch
<1>6. PICK net \in BOOLEAN :
        \/ /\ run' \in {[run EXCEPT !.todo = Tail(@)], Ended}
           /\ UNCHANGED <<db, server, ghost>>
        \/ /\ Leaves(r(net))
           /\ run' = IF r(net).ok THEN [run EXCEPT !.todo = Tail(@), !.unread = @ \/ (spam = {} /\ ~x.seen)]
                     ELSE Ended
           /\ ghost' = [ghost EXCEPT !.strays = IF to \in db.box THEN @ ELSE @ \cup {db.next},
                                     !.filed = IF spam = {} THEN @ ELSE @ \cup {x.msg}]
  BY DEF FetchMessage
<1>9. ASSUME run' = Ended PROVE Running(run', db')
  <2>1. /\ HasFields(run', SyncFields) /\ run'.boxes = <<b>> /\ run'.todo = <<>>
        /\ run'.op = run.op /\ run'.sel = run.sel
    BY <1>3, <1>9 DEF Ended, HasFields, SyncFields
  <2> QED  BY <1>3, <1>5, <2>1, SyncRuns
<1>7. CASE run' \in {[run EXCEPT !.todo = Tail(@)], Ended} /\ UNCHANGED <<db, server, ghost>>
  <2>1. Running(run', db')
    <3>1. CASE run' = [run EXCEPT !.todo = Tail(@)]
      <4>1. /\ HasFields(run', SyncFields) /\ run'.boxes = run.boxes /\ run'.todo = Tail(run.todo)
            /\ run'.op = run.op /\ run'.sel = run.sel
        BY <1>3, <3>1 DEF HasFields, SyncFields
      <4> QED  BY <1>3, <1>4, <4>1, SyncRuns
    <3> QED  BY <1>7, <1>9, <3>1
  <2> QED  BY <1>2, <1>7, <2>1, SameFollows DEF Good, Queues, Detaches, Runs
<1>8. CASE /\ Leaves(r(net))
           /\ run' = IF r(net).ok THEN [run EXCEPT !.todo = Tail(@), !.unread = @ \/ (spam = {} /\ ~x.seen)]
                     ELSE Ended
           /\ ghost' = [ghost EXCEPT !.strays = IF to \in db.box THEN @ ELSE @ \cup {db.next},
                                     !.filed = IF spam = {} THEN @ ELSE @ \cup {x.msg}]
  <2> DEFINE more == IF to \in db.box THEN {} ELSE {db.next}
             res == r(net)
  <2>1. Running(run', db')
    <3>1. CASE /\ run'.boxes = run.boxes /\ run'.todo = Tail(run.todo)
               /\ HasFields(run', SyncFields) /\ run'.op = run.op /\ run'.sel = run.sel
      BY <1>3, <1>4, <3>1, SyncRuns
    <3> HIDE DEF r, spam, x
    <3>3. run' = [run EXCEPT !.todo = Tail(@), !.unread = @ \/ (spam = {} /\ ~x.seen)] \/ run' = Ended
      BY <1>8
    <3>4. CASE run' = [run EXCEPT !.todo = Tail(@), !.unread = @ \/ (spam = {} /\ ~x.seen)]
      <4>1. /\ run'.boxes = run.boxes /\ run'.todo = Tail(run.todo)
            /\ HasFields(run', SyncFields) /\ run'.op = run.op /\ run'.sel = run.sel
        BY <1>3, <3>4 DEF HasFields, SyncFields
      <4> QED  BY <3>1, <4>1
    <3> QED  BY <1>9, <3>3, <3>4
  <2>2. Leads(db, added, users, {}, more) /\ Sound(added, users) /\ Ties(db, added, {})
    <3> DEFINE msg == x.msg
               uid == x.uid
               seen == x.seen
    <3>1. msg \in Nat /\ added = emcore_add_mail_to_mailbox(db, to, msg, uid, seen)
      BY <1>4
    <3> HIDE DEF users, x, to, added, msg, uid, seen
    <3>2. Leads(db, added, users, {}, {db.next}) /\ (to \in db.box => Leads(db, added, users, {}, {}))
      BY <1>1, <3>1, AddMailLeads
    <3>3. Leads(db, added, users, {}, more)
      <4>1. CASE to \in db.box
        BY <3>2, <4>1, Zenon
      <4>2. CASE to \notin db.box
        BY <3>2, <4>2, Zenon
      <4> QED  BY <4>1, <4>2
    <3>4. Ties(db, added, {})
      BY <1>1, <3>1, AddMailTies
    <3> QED  BY <3>3, <3>4 DEF Leads
  <2>3. Serves(added, server, res, users, {})
    <3>1. res = Done(added, server) \/ res = emcore_move_mail_on_server(added, server, b.acc, b.id, db.next, to.name, net)
      OBVIOUS
    <3> HIDE DEF users, added, res, b, to
    <3>2. CASE res = Done(added, server)
      BY <1>1, <2>2, <3>2, FailedServes
    <3>3. CASE res = emcore_move_mail_on_server(added, server, b.acc, b.id, db.next, to.name, net)
      BY <1>1, <2>2, <3>3, MoveOneServes
    <3> QED  BY <3>1, <3>2, <3>3
  <2>4. Leads(db, db', users, {}, more) /\ Serving(server', users) /\ Ties(db, db', {})
    <3>1. db' = res.d /\ server' = res.s
      BY <1>8 DEF Leaves
    <3> HIDE DEF users, added, res, more
    <3>2. Leads(added, db', users, {}, {}) /\ Serving(server', users)
      BY <2>3, <3>1 DEF Serves, Answers
    <3>3. Leads(added, db', users, {}, more)
      BY <3>2, LeadsMore
    <3>4. Sound(db', users) /\ added.next <= (db').next /\ Knots((db').mail) = Knots(added.mail) /\ Strung(added)
      BY <2>2, <2>3, <3>1, <3>2 DEF Serves, Leads, Descends, Ties
    <3>5. Ties(added, db', {})
      BY <2>2, <3>4, KnotsTie
    <3>6. Ties(db, db', {} \cup {})
      BY <1>1, <2>2, <3>4, <3>5, TiesTwice
    <3> QED  BY <1>1, <2>2, <3>2, <3>3, <3>6, LeadsTwice
  <2>5. /\ Noting(ghost') /\ ghost.strays \subseteq ghost'.strays /\ more \subseteq ghost'.strays
        /\ ghost'.headless = ghost.headless
    <3> HIDE DEF users, to, spam, x, added, r
    <3> QED  BY <1>1, <1>8 DEF Noting
  <2>7. Knits
    BY <2>4, <2>5, TiesKnit
  <2>6. Follows
    <3> HIDE DEF more
    <3> QED  BY <2>4, <2>5, <2>7, FollowsIs
  <2> QED  BY <1>2, <2>1, <2>6 DEF Good, Queues, Detaches, Runs
<1> QED  BY <1>6, <1>7, <1>8

-----------------------------------------------------------------------------
(* email-core-mail.c *)

LEMMA BeginBodyGood ==
  ASSUME IInv, BeginBody
  PROVE  Good
<1> DEFINE op == "body"
           found == emstorage_get_mail_by_id(db, Head(queue).id)
           m == The(found)
<1>1. PICK msg : /\ Next1(op) /\ UNCHANGED <<db, server, threads, ghost>>
                 /\ \/ run' = Idle
                    \/ found # {} /\ run' = [op |-> "body", acc |-> m.acc, id |-> Head(queue).id, msg |-> msg]
  BY DEF BeginBody
<1>2. Queues
  BY <1>1, EventIs
<1>3. Runs
  <2>1. CASE found # {} /\ run' = [op |-> "body", acc |-> m.acc, id |-> Head(queue).id, msg |-> msg]
    <3>1. m \in db.mail /\ m.id = Head(queue).id
      BY <2>1 DEF The, emstorage_get_mail_by_id
    <3>2. Mailed(db.mail, db.next)
      BY SoundIs DEF IInv
    <3>3. run'.id \in Nat /\ run'.id < db.next /\ \A k \in db.mail : k.id = run'.id => k.acc = run'.acc
      BY <2>1, <3>1, <3>2 DEF Mailed
    <3> QED  BY <1>1, <2>1, <3>3 DEF Runs, Running
  <2> QED  BY <1>1, <2>1 DEF Runs
<1> QED  BY <1>1, <1>2, <1>3, SameFollows DEF Good, Detaches

LEMMA StoreBodyGood ==
  ASSUME IInv, StoreBody
  PROVE  Good
<1> DEFINE users == DOMAIN server
           found == emstorage_get_mail_by_id(db, run.id)
           m == The(found)
           made == emstorage_create_dir(db, run.acc, run.id)
           attached == IF run.msg \in Attached /\ emstorage_get_attachment_count(db, run.id) = 0
                       THEN emstorage_add_attachment(made, run.acc, m.box, run.id) ELSE made
<1>1. Sound(db, users)
  BY DEF IInv
<1>2. run.id \in Nat /\ run.id < db.next /\ \A k \in db.mail : k.id = run.id => k.acc = run.acc
  BY DEF StoreBody, IInv, Running, Idle
<1>3. Sound(made, users) /\ Steady(db, made)
  <2> DEFINE id == run.id
             acc == run.acc
  <2>1. id \in Nat /\ id < db.next /\ (\A k \in db.mail : k.id = id => k.acc = acc) /\ made = emstorage_create_dir(db, acc, id)
    BY <1>2
  <2> HIDE DEF id, acc, users, made
  <2> QED  BY <1>1, <2>1, CreateDir
<1>4. Sound(attached, users) /\ Steady(db, attached)
  <2>1. attached = made \/ attached = emstorage_add_attachment(made, run.acc, m.box, run.id)
    OBVIOUS
  <2> HIDE DEF users, made, attached, m
  <2>2. CASE attached = made
    BY <1>3, <2>2
  <2>3. CASE attached = emstorage_add_attachment(made, run.acc, m.box, run.id)
    <3>1. Sound(attached, users) /\ Steady(made, attached)
      BY <1>3, <2>3, AddAttachment
    <3> QED  BY <1>1, <1>3, <3>1, SteadyTwice
  <2> QED  BY <2>1, <2>2, <2>3
<1>5. /\ db' = db \/ db' = emstorage_change_mail_field(attached, run.id, "body", run.msg)
      /\ run' = Idle /\ UNCHANGED <<server, queue, threads, ghost>>
  BY DEF StoreBody
<1>6. Sound(db', users) /\ Steady(db, db')
  <2> DEFINE field == "body"
  <2>1. field \in Flagging /\ (db' = db \/ db' = emstorage_change_mail_field(attached, run.id, field, run.msg))
    BY <1>5 DEF Flagging
  <2> HIDE DEF users, attached, field
  <2>2. CASE db' = db
    BY <1>1, <2>2, SteadySame
  <2>3. CASE db' = emstorage_change_mail_field(attached, run.id, field, run.msg)
    <3>1. Sound(db', users) /\ Steady(attached, db')
      BY <1>4, <2>1, <2>3, ChangeField
    <3> QED  BY <1>1, <1>4, <3>1, SteadyTwice
  <2> QED  BY <2>1, <2>2, <2>3
<1>7. Follows
  BY <1>5, <1>6, SteadyFollows
<1> QED  BY <1>5, <1>7 DEF Good, Queues, Detaches, Runs

-----------------------------------------------------------------------------
(* other clients, and the end of the daemon *)

LEMMA SelectionsAreChosen ==
  ASSUME NEW sel \in Selections
  PROVE  Chosen(server, sel)
BY DEF Selections, Chosen, Folders

LEMMA OutsideGood ==
  ASSUME IInv, Outside, Serving(server', DOMAIN server)
  PROVE  Good
<1>1. UNCHANGED <<db, queue, threads, run, ghost>>
  BY DEF Outside
<1>2. Leads(db, db', DOMAIN server, {}, {})
  BY <1>1, LeadsSame DEF IInv
<1>3. Noting(ghost') /\ ghost.strays \subseteq ghost'.strays /\ {} \subseteq ghost'.strays
  BY <1>1 DEF IInv
<1>5. Knits
  BY <1>1, <1>2, KnotsKnit DEF Leads, Descends
<1>4. Follows
  BY <1>2, <1>3, <1>5, FollowsIs
<1> QED  BY <1>1, <1>4 DEF Good, Queues, Detaches, Runs

LEMMA ArriveGood ==
  ASSUME IInv, Arrive
  PROVE  Good
<1> DEFINE users == DOMAIN server
<1>1. Serving(server, users)
  BY DEF IInv
<1>2. PICK sel \in Selections, msg \in Incoming :
        server' = SetFolder(server, sel,
            [next |-> FolderOf(server, sel).next + 1,
             msgs |-> FolderOf(server, sel).msgs \cup
                        {[uid |-> FolderOf(server, sel).next, msg |-> msg, seen |-> FALSE, del |-> FALSE]}])
  BY DEF Arrive
<1> DEFINE f == FolderOf(server, sel)
           x == [uid |-> f.next, msg |-> msg, seen |-> FALSE, del |-> FALSE]
           g == [next |-> f.next + 1, msgs |-> f.msgs \cup {x}]
<1>3. Chosen(server, sel)
  BY SelectionsAreChosen
<1>4. /\ sel.user \in users /\ sel.folder \in DOMAIN FolderType /\ f.next \in Nat /\ Messages(f.msgs, f.next)
  <2> HIDE DEF users
  <2> QED  BY <1>1, <1>3, FolderIs
<1>5. Folder(g)
  <2>1. msg \in Nat
    BY DatesAssumption
  <2> HIDE DEF f
  <2>2. IsFiniteSet(f.msgs \cup {x})
    BY <1>4, FS_AddElement DEF Messages
  <2>3. /\ HasFields(x, {"uid", "msg", "seen", "del"}) /\ x.uid = f.next /\ x.msg = msg
        /\ HasFields(g, {"next", "msgs"}) /\ g.next = f.next + 1 /\ g.msgs = f.msgs \cup {x}
    BY DEF HasFields
  <2> HIDE DEF x, g
  <2>4. \A y \in g.msgs : HasFields(y, {"uid", "msg", "seen", "del"}) /\ y.uid \in Nat /\ y.uid < g.next /\ y.msg \in Nat
    BY <1>4, <2>1, <2>3 DEF Messages
  <2>5. \A y, z \in g.msgs : y.uid = z.uid => y = z
    BY <1>4, <2>3 DEF Messages
  <2> QED  BY <1>4, <2>2, <2>3, <2>4, <2>5 DEF Folder
<1>6. Serving(server', users)
  <2>1. server' = SetFolder(server, sel, g)
    BY <1>2
  <2> HIDE DEF users, g
  <2> QED  BY <1>1, <1>4, <1>5, <2>1, FolderSet
<1>7. Outside
  BY DEF Arrive
<1> QED  BY <1>6, <1>7, OutsideGood

LEMMA ChangedElsewhereGood ==
  ASSUME IInv, ChangedElsewhere
  PROVE  Good
<1> DEFINE users == DOMAIN server
<1>1. Serving(server, users)
  BY DEF IInv
<1>2. PICK sel \in Selections : \E x \in FolderOf(server, sel).msgs :
        \/ server' = Store(server, sel, {x.uid}, "deleted", TRUE)
        \/ server' = SetMessages(server, sel, FolderOf(server, sel).msgs \ {x})
  BY DEF ChangedElsewhere
<1>3. Chosen(server, sel)
  BY SelectionsAreChosen
<1>4. ASSUME NEW uids, server' = Store(server, sel, uids, "deleted", TRUE) PROVE Serving(server', users)
  <2> DEFINE field == "deleted"
             yes == TRUE
  <2>1. server' = Store(server, sel, uids, field, yes)
    BY <1>4
  <2> HIDE DEF users, field, yes
  <2> QED  BY <1>1, <1>3, <2>1, Stored
<1>5. ASSUME NEW msgs \in SUBSET FolderOf(server, sel).msgs, server' = SetMessages(server, sel, msgs)
      PROVE  Serving(server', users)
  <2> HIDE DEF users
  <2> QED  BY <1>1, <1>3, <1>5, FewerMessages
<1>6. Serving(server', users)
  <2> HIDE DEF users
  <2>1. PICK x \in FolderOf(server, sel).msgs :
          \/ server' = Store(server, sel, {x.uid}, "deleted", TRUE)
          \/ server' = SetMessages(server, sel, FolderOf(server, sel).msgs \ {x})
    BY <1>2
  <2>2. CASE server' = Store(server, sel, {x.uid}, "deleted", TRUE)
    BY <1>4, <2>2
  <2>3. CASE server' = SetMessages(server, sel, FolderOf(server, sel).msgs \ {x})
    BY <1>5, <2>3
  <2> QED  BY <2>1, <2>2, <2>3
<1>7. Outside
  BY DEF ChangedElsewhere
<1> QED  BY <1>6, <1>7, OutsideGood

LEMMA RestartGood ==
  ASSUME IInv, Restart
  PROVE  Good
<1>1. UNCHANGED <<db, server, ghost>> /\ queue' = <<>> /\ threads' = {} /\ run' = Idle
  BY DEF Restart
<1> QED  BY <1>1, SameFollows DEF Good, Queues, Detaches, Runs

-----------------------------------------------------------------------------
(* every step, and the theorems *)

LEMMA UserCallGood ==
  ASSUME IInv, UserCall
  PROVE  Good
<1>1. CASE DeleteMail
  <2>1. PICK ids \in Batches, on \in BOOLEAN :
          emdaemon_delete_mail((The(emstorage_get_mail_by_id(db, ids[1]))).box, ids, on)
    BY <1>1 DEF DeleteMail
  <2> QED  BY <2>1, BatchesAreListed, DeleteMailGood
<1>2. CASE DeleteMailThread
  <2>1. PICK t : LET found == emstorage_get_mail_list(db, 0, 0, t)
                 IN  emdaemon_delete_mail(found[1].box, IdsOf(found), FALSE)
    BY <1>2 DEF DeleteMailThread
  <2>2. Len(IdsOf(emstorage_get_mail_list(db, 0, 0, t))) \in Nat
    BY ListsMails DEF IInv
  <2> QED  BY <2>1, <2>2, DeleteMailGood
<1>3. CASE MoveMail \/ MoveMailAll \/ MoveMailThread
  <2>1. PICK ids, dst : emdaemon_move_mail(ids, dst)
    BY <1>3 DEF MoveMail, MoveMailAll, MoveMailThread
  <2> QED  BY <2>1, MoveMailGood
<1>4. CASE SetFlagsField
  <2>1. PICK a \in db.account, ids \in Batches, field \in {"seen", "deleted"}, value \in BOOLEAN, on \in BOOLEAN :
          emdaemon_set_flags_field(a.id, ids, field, value, on)
    BY <1>4 DEF SetFlagsField
  <2> QED  BY <2>1, SetFlagsGood
<1>5. CASE ModifySeenFlagOfThread
  <2> DEFINE seen == "seen"
  <2>1. PICK acc, ids, value, on : emdaemon_set_flags_field(acc, ids, seen, value, on)
    BY <1>5 DEF ModifySeenFlagOfThread
  <2>2. seen \in {"seen", "deleted"}
    OBVIOUS
  <2> HIDE DEF seen
  <2> QED  BY <2>1, <2>2, SetFlagsGood
<1>6. CASE DeleteMailAll \/ ModifyFlag \/ ExpungeMails \/ AddMail \/ UpdateMail \/ ChangeAttachments
  BY <1>6, DeleteMailAllGood, ModifyFlagGood, ExpungeGood, AddMailGood, UpdateMailGood, ChangeAttachmentsGood
<1>7. CASE SyncHeader \/ GetImapMailboxList \/ SetMailSlotSize \/ CreateAccount \/ DownloadBody
  BY <1>7, AsksGood
<1>8. CASE AddMailbox \/ DeleteMailbox \/ RenameMailbox \/ SetMailboxType \/ DeleteAccount
  BY <1>8, AddMailboxGood, DeleteMailboxGood, RenameMailboxGood, SetMailboxTypeGood, DeleteAccountGood
<1>9. CASE AddRule \/ UpdateRule \/ DeleteRule \/ UpdateAccount
  BY <1>9, AddRuleGood, RulesGood
<1> QED  BY <1>1, <1>2, <1>3, <1>4, <1>5, <1>6, <1>7, <1>8, <1>9 DEF UserCall

LEMMA ReceiveGood ==
  ASSUME IInv, Receive
  PROVE  Good
BY DeleteOnServerGood, DeleteAllOnServerGood, MoveOnServerGood, FlagOnServerGood, FlagsOnServerGood,
   ExpungeOnServerGood, SyncListGood, CreateOnServerGood, DeleteBoxOnServerGood, RenameOnServerGood,
   SetSlotGood, CreateAccountGood, BeginSyncGood, BeginMailboxGood, FetchMessageGood, EndMailboxGood,
   EndAccountGood, BeginBodyGood, StoreBodyGood
DEF Receive

LEMMA NextGood ==
  ASSUME IInv, [Next]_vars
  PROVE  Good
<1>1. CASE UNCHANGED vars
  <2>1. UNCHANGED <<db, server, queue, threads, run, ghost>>
    BY <1>1 DEF vars
  <2> QED  BY <2>1, SameFollows DEF Good, Queues, Detaches, Runs
<1>2. CASE Thread
  BY <1>2, DeleteThreadGood, MoveThreadGood DEF Thread
<1>3. CASE Environment
  BY <1>3, ArriveGood, ChangedElsewhereGood, RestartGood DEF Environment
<1> QED  BY <1>1, <1>2, <1>3, UserCallGood, ReceiveGood DEF Next

LEMMA InitIInv ==
  Init => IInv
<1> SUFFICES ASSUME Init PROVE IInv
  OBVIOUS
<1> DEFINE users == DOMAIN server
<1>1. PICK st \in Starts : db = st.db /\ server = st.server
  BY DEF Init
<1>2. /\ Tables(st.db) /\ Filed(st.db) /\ Typed(st.db, DOMAIN st.server)
      /\ Housed(st.db, {}) /\ Servers(st.server)
      /\ Strung(st.db) /\ \A m \in st.db.mail : Headed(st.db, m.thread)
  BY StartsAssumption
<1>3. Sound(db, users) /\ Serving(server, users) /\ Housed(db, {})
  BY <1>1, <1>2 DEF Sound, Serving
<1>4. queue = <<>> /\ threads = {} /\ run = Idle /\ ghost = NoGhost
  BY DEF Init
<1>5. Noting(ghost) /\ ghost.strays = {}
  BY <1>4 DEF Noting, NoGhost
<1>6. Events(queue, users)
  BY <1>4, EmptyListed DEF Events
<1>7. Stringing
  <2>1. Strung(db) /\ \A m \in db.mail : Headed(db, m.thread)
    BY <1>1, <1>2
  <2>2. ASSUME NEW t PROVE Headed(db, t)
    <3>1. CASE \E m \in db.mail : m.thread = t
      BY <2>1, <3>1
    <3>2. CASE ~\E m \in db.mail : m.thread = t
      BY <3>2 DEF Headed, ListedIn
    <3> QED  BY <3>1, <3>2
  <2> QED  BY <2>1, <2>2 DEF Stringing
<1> QED  BY <1>3, <1>4, <1>5, <1>6, <1>7 DEF IInv, Running

LEMMA NextIInv ==
  IInv /\ [Next]_vars => IInv' /\ KeepsFiles(db, db', ghost'.wiped)
BY NextGood, IInvFollows

\* Of mails that are listed one is the latest.
LEMMA LatestIs ==
  ASSUME NEW rows, IsFiniteSet(rows), rows # {}, \A r \in rows : r.id \in Nat /\ r.msg \in Nat,
         \A r, q \in rows : r.id = q.id => r = q
  PROVE  \E x \in rows : IsLatest(x, rows)
<1> DEFINE R == {p \in rows \X rows : p[1].msg > p[2].msg \/ (p[1].msg = p[2].msg /\ p[1].id > p[2].id)}
<1>1. Cardinality(rows) \in Nat /\ Cardinality(rows) # 0
  BY FS_CardinalityType, FS_EmptySet
<1>2. \E x \in rows : Cardinality(Below(rows, R, x)) = 1 - 1
  <2>1. \A x \in rows : <<x, x>> \notin R
    OBVIOUS
  <2>2. \A x, y \in rows : x # y => <<x, y>> \in R \/ <<y, x>> \in R
    OBVIOUS
  <2>3. \A x, y, z \in rows : <<x, y>> \in R /\ <<y, z>> \in R => <<x, z>> \in R
    OBVIOUS
  <2> HIDE DEF R
  <2>4. 1 \in 1 .. Cardinality(rows)
    BY <1>1
  <2> QED  BY <2>1, <2>2, <2>3, <2>4, Ranks
<1> HIDE DEF R
<1>3. PICK x \in rows : Cardinality(Below(rows, R, x)) = 0
  BY <1>2
<1> USE DEF R
<1>4. /\ Below(rows, R, x) \subseteq rows
      /\ \A q \in rows : q.msg > x.msg \/ (q.msg = x.msg /\ q.id > x.id) => q \in Below(rows, R, x)
  BY DEF Below
<1> HIDE DEF R
<1>5. Below(rows, R, x) = {}
  <2>1. IsFiniteSet(Below(rows, R, x))
    BY <1>4, FS_Subset
  <2> QED  BY <1>3, <2>1, FS_EmptySet
<1>6. IsLatest(x, rows)
  BY <1>4, <1>5 DEF IsLatest
<1> QED  BY <1>6

LEMMA Invariance ==
  Spec => []IInv
BY InitIInv, NextIInv, PTL DEF Spec

\* The type invariant: rows name rows that were there and share no id, a mail has
\* an id that was given, and the receive thread is in the middle of nothing else
\* than a synchronisation or a download, whatever calls, events, threads, other
\* clients and faults come in whatever order.
THEOREM TypeOKHolds ==
  Spec => []TypeOK
<1>1. IInv => TypeOK
  BY DEF IInv, TypeOK, Sound, Running, Idle
<1> QED  BY <1>1, Invariance, PTL

\* The mailbox of a mail is there, is of its account and has the name and the type
\* that the mail has (the columns mailbox_id, mailbox_name and mailbox_type of
\* mail_tbl), but for the mails that a rule has filed, that were moved to another
\* account's mailbox, or that came to or were left in a mailbox that was deleted.
THEOREM MailsHaveTheirMailboxHolds ==
  Spec => []MailsHaveTheirMailbox
<1>1. IInv => MailsHaveTheirMailbox
  BY DEF IInv, MailsHaveTheirMailbox
<1> QED  BY <1>1, Invariance, PTL

\* A thread has the id of a mail that was there and mails of one account only,
\* whatever is filed, moved, trimmed and threaded (thread_id of mail_tbl): the
\* head of a thread is looked up and counted in one account.
THEOREM ThreadsAreStrung ==
  Spec => []Strung(db)
<1>1. IInv => Strung(db)
  BY DEF IInv, Stringing
<1> QED  BY <1>1, Invariance, PTL

\* Of the mails a thread lists the latest, and no other, has their number
\* (thread_item_count), and there is one; but in threads that ghost notes: of
\* which a mail that is no head went, of which one was changed by a rule or with
\* the type of its mailbox, or that a batch with mails of two accounts touched.
THEOREM ThreadHasOneHeadHolds ==
  Spec => []ThreadHasOneHead
<1>1. IInv => ThreadHasOneHead
  <2> SUFFICES ASSUME IInv, NEW t \in {m.thread : m \in db.mail} \ ghost.headless, ListedIn(db, t) # {}
               PROVE  \E h \in ListedIn(db, t) : /\ IsLatest(h, ListedIn(db, t)) /\ h.items = Cardinality(ListedIn(db, t))
                                                 /\ \A m \in ListedIn(db, t) \ {h} : m.items = 0
    BY DEF ThreadHasOneHead
  <2> DEFINE listed == ListedIn(db, t)
  <2>1. \A m \in listed : m.items = IF IsLatest(m, listed) THEN Cardinality(listed) ELSE 0
    BY DEF IInv, Stringing, Headed
  <2>2. Mailed(db.mail, db.next)
    BY SoundIs DEF IInv
  <2>3. listed \subseteq db.mail
    BY DEF ListedIn
  <2> HIDE DEF listed
  <2>4. (\A r \in listed : r.id \in Nat /\ r.msg \in Nat) /\ \A r, q \in listed : r.id = q.id => r = q
    BY <2>2, <2>3 DEF Mailed
  <2>5. IsFiniteSet(listed) /\ listed # {}
    BY <2>2, <2>3, MailsAreFinite, FS_Subset DEF listed
  <2>6. PICK h \in listed : IsLatest(h, listed)
    BY <2>4, <2>5, LatestIs
  <2>7. ASSUME NEW m \in listed \ {h} PROVE ~IsLatest(m, listed)
    BY <2>4, <2>6, <2>7 DEF IsLatest
  <2>8. h.items = Cardinality(listed) /\ \A m \in listed \ {h} : m.items = 0
    BY <2>1, <2>6, <2>7
  <2> QED  BY <2>6, <2>8 DEF listed
<1> QED  BY <1>1, Invariance, PTL

\* A mail that stays keeps its directory and its meeting in every step, unless a
\* deletion of mails that were gone already has wiped those of the whole account.
THEOREM FilesStayHolds ==
  Spec => FilesStay
<1>1. KeepsFiles(db, db', ghost'.wiped) =>
        \A m \in db.mail :
          \/ m.acc \in ghost'.wiped \/ ~\E k \in db'.mail : k.id = m.id
          \/ /\ \A f \in db.dir : f.mail = m.id => f \in db'.dir
             /\ \A a \in db.meet : a.mail = m.id => \E b \in db'.meet : b.mail = m.id
  BY DEF KeepsFiles
<1> QED  BY <1>1, InitIInv, NextIInv, PTL DEF Spec, FilesStay
=============================================================================
