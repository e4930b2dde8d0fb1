------------------------------ MODULE Content ------------------------------
(***************************************************************************)
(* The content of one mail of an IMAP or a POP3 account: how it comes from *)
(* the server into the files and rows of the device.  Two threads bring    *)
(* it, each with a connection of its own: the thread of partial bodies     *)
(* (pbd), which fetches the first Limit lines when an activity asks for    *)
(* it, and the receive thread (job), which serves the clients' calls for   *)
(* the whole body and for one attachment.  Both write the same row and     *)
(* the same directories; a call may be cancelled, a connection lost, and   *)
(* the daemon may restart between any two steps.  Beside them clients open *)
(* eml files: the service unfolds one into a directory of its own, until   *)
(* the client gives it back.                                               *)
(***************************************************************************)
EXTENDS PartialReader, MimeWriter

CONSTANTS Limit,    \* auto_download_size, in lines
          Emls      \* the eml files there are: messages

VARIABLES mail,     \* [kind, msg]: what the server has, and how it is asked
          row,      \* the mail's row in mail_tbl
          atts,     \* its rows in mail_attachment_tbl, in the order of their ids
          files,    \* the files of the mail: <<directory, name>> to a text
          activity, \* a row of mail_partial_body_activity_tbl names the mail
          thr,      \* where the two threads are
          eml,      \* the eml mails: eml_data_count, what clients hold, the directories
          work      \* what may still happen, and what has gone wrong
content == <<row, atts, files>>
vars == <<mail, content, activity, thr, eml, work>>

None == 0
Fully == 1
Partially == 2
NoPath == <<>>
Plain == <<0, "UTF-8">>
Html == <<0, "UTF-8.htm">>
NoRow == [status |-> None, plain |-> NoPath, html |-> NoPath, count |-> 0, inline |-> 0]
Attachment(name, inline, path, saved) == [name |-> name, inline |-> inline, path |-> path, saved |-> saved]
Idle == [at |-> "idle"]
IsImap == mail.kind = "IMAP4"
Put(f, path, text) == [p \in DOMAIN f \cup {path} |-> IF p = path THEN text ELSE f[p]]
PutAll(f, path, texts) == IF texts = {} THEN f ELSE Put(f, path, CHOOSE t \in texts : TRUE)

\* w has calls: the operations clients may still call for; faults: what may
\* still go wrong; wrong: what did.
InitWith(m, w) ==
    /\ mail = m /\ work = w /\ row = NoRow /\ atts = <<>> /\ files = <<>>
    /\ activity \in BOOLEAN
    /\ thr = [pbd |-> Idle, job |-> Idle]
    /\ eml = [count |-> 0, held |-> {}, dirs |-> <<>>]

Goes(t, step) == thr' = [thr EXCEPT ![t] = step]
\* The two threads are at the mail at the same time.
Beside(t, w) == IF \E u \in {"pbd", "job"} \ {t} : thr[u] # Idle THEN [w EXCEPT !.wrong = @ \cup {"together"}] ELSE w
Fault(what) == /\ work.faults > 0
               /\ work' = [work EXCEPT !.faults = @ - 1, !.wrong = @ \cup {what}]
\* The service is gone, and with it the steps and eml_data_count.
Restarted == /\ thr' = [pbd |-> Idle, job |-> Idle]
             /\ eml' = [eml EXCEPT !.count = 0]

-----------------------------------------------------------------------------
(* emcore_download_body_multi_sections_bulk, in either thread *)

\* RETR, or TOP with the lines of the limit.
emcore_mail_cmd_read_mail_pop3(limited) ==
    LET header == Append(HeaderLines(mail.msg), Blank)
        all == Stuffed(PartLines(mail.msg))
    IN  IF limited /\ Len(all) > Limit THEN header \o SubSeq(all, Len(header) + 1, Min({Len(header) + Limit, Len(all)}))
        ELSE all
\* Mutant: what was asked for is all there is.
AsAsked(limited) == Fully
\* A POP3 body that came within the limit is whole.
StatusOf(limited) ==
    IF ~IsImap /\ limited /\ Len(PartLines(mail.msg)) > Limit THEN Partially ELSE Fully
Fetching(cnt, limited) == [at |-> "fetched", cnt |-> cnt, status |-> StatusOf(limited)]

\* No content, nothing is stored; an id compared with none ends the service.
ImapFetched(t, r) ==
    \/ r.crash /\ Restarted
    \/ ~r.crash /\ Goes(t, IF r.ok THEN Fetching(r.cnt, FALSE) ELSE Idle) /\ UNCHANGED eml
FetchImap(t, with_attach) ==
    /\ ImapFetched(t, emcore_get_body_part_list_full(mail.msg, {"text"} \cup (IF with_attach THEN {"attachment"} ELSE {})))
    /\ work' = Beside(t, IF with_attach THEN [work EXCEPT !.wrong = @ \cup {"attached"}] ELSE work)
FetchPop3(t, limited) ==
    LET lines == emcore_mail_cmd_read_mail_pop3(limited)
    IN  \E stop \in (IF work.faults > 0 THEN 0 ELSE Len(lines))..Len(lines) :
            LET lost == stop < Len(lines)
                in == [lines |-> lines, stop |-> stop, why |-> IF lost THEN "lost" ELSE "end"]
                r == emcore_parse_mime(in, {"text", "attachment"})
            IN  /\ Goes(t, IF r.ok THEN Fetching(r.cnt, limited) ELSE Idle)
                /\ work' = Beside(t, IF lost THEN [work EXCEPT !.faults = @ - 1, !.wrong = @ \cup {"lost"}] ELSE work)
                /\ UNCHANGED eml
\* A mail that is there is not fetched again.
BodyFetch(t, with_attach, limited) ==
    /\ thr[t] = Idle /\ row.status # Fully
    /\ \/ IsImap /\ FetchImap(t, with_attach)
       \/ ~IsImap /\ FetchPop3(t, limited)
    /\ UNCHANGED <<mail, content, activity>>

\* The row is read again and the texts are moved to the mail's directory.
BodyTexts(t) ==
    LET s == thr[t] IN
    /\ s.at = "fetched"
    /\ files' = PutAll(PutAll(files, Plain, s.cnt.plain), Html, s.cnt.html)
    /\ Goes(t, [at |-> "files", cnt |-> s.cnt, n |-> 1,
                row |-> [row EXCEPT !.status = s.status,
                                    !.plain = IF s.cnt.plain # {} THEN Plain ELSE @,
                                    !.html = IF s.cnt.html # {} THEN Html ELSE @]])
    /\ UNCHANGED <<mail, row, atts, activity, eml, work>>

\* What is saved goes to directory 0 if it is inline, else to that of its
\* number.  A row of that number is taken for the file's: only its size is
\* written.
PathOf(f, n) == IF f.save = {} THEN NoPath ELSE <<IF f.type = 1 THEN 0 ELSE n, f.name>>
emstorage_get_attachment_nth(n) == IF n \in DOMAIN atts THEN {atts[n]} ELSE {}
\* Mutant: a row is added for each file.
AddFile(f, n) == IF f.type # 0 THEN Append(atts, Attachment(f.name, f.type = 1, PathOf(f, n), f.save # {})) ELSE atts
\* Mutant: attachment_save_status is not reset for the next file.
AddSaved(f, n) ==
    IF f.type # 0 /\ emstorage_get_attachment_nth(n) = {}
    THEN Append(atts, Attachment(f.name, f.type = 1, PathOf(f, n), TRUE)) ELSE atts
StoreFile(f, n) ==
    IF f.type # 0 /\ emstorage_get_attachment_nth(n) = {}
    THEN Append(atts, Attachment(f.name, f.type = 1, PathOf(f, n), f.save # {})) ELSE atts
BodyFile(t) ==
    LET s == thr[t]
        f == s.cnt.files[s.n]
    IN  /\ s.at = "files" /\ s.n <= Len(s.cnt.files)
        /\ files' = PutAll(files, PathOf(f, s.n), f.save)
        /\ atts' = StoreFile(f, s.n)
        /\ Goes(t, [s EXCEPT !.n = @ + 1])
        /\ UNCHANGED <<mail, row, activity, eml, work>>

\* APPEND_BODY does not write inline_content_count.
AppendBody(s) ==
    [row EXCEPT !.status = s.row.status, !.plain = s.row.plain, !.html = s.row.html, !.count = Len(s.cnt.files)]
BodyRow(t) ==
    /\ thr[t].at = "files" /\ thr[t].n > Len(thr[t].cnt.files)
    /\ row' = AppendBody(thr[t])
    /\ Goes(t, Idle)
    /\ UNCHANGED <<mail, atts, files, activity, eml, work>>

-----------------------------------------------------------------------------
(* emcore_download_bulk_partial_mail_body_for_imap *)

\* The files of the list up to the first inline one get rows, whatever rows
\* there are; its size is taken off like theirs.
Listed(cnt) == IF cnt.files = <<>> \/ cnt.files[1].name = Absent THEN <<>> ELSE SubSeq(cnt.files, 1, FirstInline(cnt.files) - 1)
ListedSize(cnt) ==
    IF cnt.files = <<>> \/ cnt.files[1].name = Absent THEN 0
    ELSE FoldLeft(LAMBDA n, f : n + f.size, 0, SubSeq(cnt.files, 1, Min({FirstInline(cnt.files), Len(cnt.files)})))
TotalSize(p) == FoldLeft(LAMBDA n, b : n + Size(b.part), 0, emcore_set_fetch_body_section(p))
PbdFetch ==
    LET list == emcore_get_body(mail.msg, TRUE, 0)
        rows == [i \in DOMAIN Listed(list.cnt) |-> Attachment(Listed(list.cnt)[i].name, FALSE, NoPath, FALSE)]
        parsed == ParsePartialBody(TextOfMessage(mail.msg, Limit), list.cnt)
        status == IF TotalSize(mail.msg) - ListedSize(list.cnt) < Limit THEN Fully ELSE Partially
    IN  /\ IsImap /\ activity /\ thr.pbd = Idle /\ list.ok
        /\ atts' = atts \o rows
        /\ Goes("pbd", IF row.status = Fully \/ ~parsed.ok THEN [at |-> "done"]
                       ELSE [at |-> "parsed", cnt |-> parsed, status |-> status,
                             row |-> [row EXCEPT !.count = @ + Len(rows)]])
        /\ work' = Beside("pbd", IF atts # <<>> /\ rows # <<>> THEN [work EXCEPT !.wrong = @ \cup {"relisted"}] ELSE work)
        /\ UNCHANGED <<mail, row, files, activity, eml>>

\* The plain text has a file even when there is none.  The images are inline
\* files; a mail that had its partial body has their rows.
PbdStore ==
    LET s == thr.pbd
        images == s.cnt.images
        html == WithNamedImages(s.cnt.html, images)
        texts == PutAll(Put(files, Plain, IF s.cnt.plain = {} THEN <<>> ELSE CHOOSE t \in s.cnt.plain : TRUE), Html, html)
        added == IF s.row.status = Partially THEN <<>>
                 ELSE [i \in DOMAIN images |-> Attachment(images[i].name, TRUE, <<0, images[i].name>>, TRUE)]
    IN  /\ s.at = "parsed"
        /\ files' = FoldLeft(LAMBDA f, i : Put(f, <<0, i.name>>, i.text), texts, images)
        /\ atts' = atts \o added
        /\ Goes("pbd", [at |-> "stored",
                        row |-> [s.row EXCEPT !.status = s.status, !.plain = Plain,
                                              !.html = IF html = {} THEN @ ELSE Html,
                                              !.count = @ + Len(added), !.inline = @ + Len(added)]])
        /\ UNCHANGED <<mail, row, activity, eml, work>>
\* UPDATE_PARTIAL_BODY_DOWNLOAD writes the row as it was read at first.
PbdRow ==
    /\ thr.pbd.at = "stored"
    /\ row' = thr.pbd.row
    /\ Goes("pbd", [at |-> "done"])
    /\ work' = IF row'.status = Fully /\ Len(BodyLines(mail.msg)) > Limit
               THEN [work EXCEPT !.wrong = @ \cup {"estimated"}] ELSE work
    /\ UNCHANGED <<mail, atts, files, activity, eml>>
PbdDone ==
    /\ thr.pbd.at = "done"
    /\ activity' = FALSE
    /\ Goes("pbd", Idle)
    /\ UNCHANGED <<mail, content, eml, work>>

\* Of POP3 a partial body is a body of so many lines; the activity goes
\* whether it came or not.
Pop3Partial ==
    \/ /\ activity /\ ~IsImap /\ BodyFetch("pbd", FALSE, TRUE)
    \/ /\ activity /\ ~IsImap /\ thr.pbd = Idle
       /\ Goes("pbd", [at |-> "done"])
       /\ UNCHANGED <<mail, content, activity, eml, work>>

-----------------------------------------------------------------------------
(* The receive thread *)

Calls(op) == op \in work.calls /\ thr.job = Idle
emcore_download_body ==
    \E a \in BOOLEAN : Calls("body") /\ BodyFetch("job", a, FALSE)
\* The n-th file of the list is fetched for the n-th row.
emcore_download_attachment ==
    \E n \in DOMAIN atts :
        LET list == emcore_get_body(mail.msg, FALSE, n)
            file == list.cnt.files[n]
        IN  /\ Calls("attachment") /\ IsImap
            /\ list.ok /\ n \in DOMAIN list.cnt.files /\ file.save # {}
            /\ Goes("job", [at |-> "attachment", n |-> n, file |-> file])
            /\ UNCHANGED <<mail, content, activity, eml, work>>
AttachmentStore ==
    LET s == thr.job IN
    /\ s.at = "attachment"
    /\ files' = PutAll(files, <<s.n, s.file.name>>, s.file.save)
    /\ atts' = [atts EXCEPT ![s.n].path = <<s.n, s.file.name>>, ![s.n].saved = TRUE]
    /\ Goes("job", Idle)
    /\ UNCHANGED <<mail, row, activity, eml, work>>

\* A call is cancelled: before its texts are stored, or behind them.
Cancelled ==
    /\ thr.job.at = "fetched" \/ (thr.job.at = "files" /\ thr.job.n = 1)
    /\ Goes("job", Idle)
    /\ Fault("cancelled")
    /\ UNCHANGED <<mail, content, activity, eml>>
Restart ==
    /\ Restarted /\ Fault("restarted")
    /\ UNCHANGED <<mail, content, activity>>

-----------------------------------------------------------------------------
(* Eml files *)

\* Inline files are in the directory of the texts; the others have one each,
\* from 0.
EmlFiles(cnt) ==
    LET texts == PutAll(PutAll(<<>>, Plain, cnt.plain), Html, cnt.html) IN
    FoldLeft(LAMBDA f, i : PutAll(f, PathOf(cnt.files[i], i - 1), cnt.files[i].save), texts, [i \in DOMAIN cnt.files |-> i])
emcore_make_mail_data_from_mime_data(id, cnt) ==
    eml' = [count |-> eml.count + 1, held |-> eml.held \cup {id},
            dirs |-> [i \in DOMAIN eml.dirs \cup {id} |-> IF i = id THEN EmlFiles(cnt) ELSE eml.dirs[i]]]
emcore_load_eml_file_to_mail ==
    \E p \in Emls, id \in work.ids :
        LET in == Whole(PartLines(p), "eof")
            header == emcore_mime_parse_header(in, 1, TRUE)
            body == emcore_mime_parse_body(in, {"text", "attachment"}, header.h, header.at)
        IN  /\ header.ok
            /\ emcore_make_mail_data_from_mime_data(id, body.cnt)
            /\ work' = [work EXCEPT !.ids = @ \ {id}]
            /\ UNCHANGED <<mail, content, activity, thr>>
\* The last one takes the directory of them all with it.
\* Mutant: the directory of them all goes while one mail is left.
DeleteCounted(id) ==
    eml' = [count |-> eml.count - 1, held |-> eml.held \ {id},
            dirs |-> IF eml.count = 2 THEN <<>> ELSE [i \in DOMAIN eml.dirs \ {id} |-> eml.dirs[i]]]
emcore_delete_eml_data(id) ==
    eml' = [count |-> eml.count - 1, held |-> eml.held \ {id},
            dirs |-> IF eml.count = 1 THEN <<>> ELSE [i \in DOMAIN eml.dirs \ {id} |-> eml.dirs[i]]]
DeleteEml ==
    \E id \in eml.held : /\ emcore_delete_eml_data(id)
                         /\ UNCHANGED <<mail, content, activity, thr, work>>

Next ==
    \/ PbdFetch \/ PbdStore \/ PbdRow \/ PbdDone \/ Pop3Partial
    \/ emcore_download_body \/ emcore_download_attachment \/ AttachmentStore
    \/ \E t \in {"pbd", "job"} : BodyTexts(t) \/ BodyFile(t) \/ BodyRow(t)
    \/ Cancelled \/ Restart
    \/ emcore_load_eml_file_to_mail \/ DeleteEml

-----------------------------------------------------------------------------
(* Properties *)

AtRest == thr = [pbd |-> Idle, job |-> Idle]
Parts == Range(Leaves(mail.msg))
FileText(path) == IF path \in DOMAIN files THEN {Words(files[path])} ELSE {}
\* Nothing of it went wrong; what can is told in the README.
Not(what) == what \cap work.wrong = {}

\* What the line reader loses: the parts beside a forwarded message, and those
\* of a multipart whose boundary is not one of its last two parameters.
RECURSIVE Multiparts(_)
Multiparts(p) == IF p.type = "MULTIPART" THEN {p} \cup UNION {Multiparts(q) : q \in Range(p.parts)} ELSE {}
LostByLines ==
    /\ ~IsImap
    /\ \/ \E q \in Parts : q.type = "MESSAGE"
       \/ \E q \in Multiparts(mail.msg) : Boundary(FoldLeft(emcore_mime_add_param_to_list, <<>>, q.params)) = Absent
\* The files of the message can be told apart, and from its texts: each has a
\* disposition and a name of its own, and a content id only if it is inline.
FileParts == {i \in DOMAIN Leaves(mail.msg) : ~IsText(Leaves(mail.msg)[i])}
FilesAreTold ==
    /\ mail.msg.type = "MULTIPART"
    /\ \A i \in FileParts :
          LET q == Leaves(mail.msg)[i] IN
          /\ q.disp # Absent /\ q.type # "MESSAGE" /\ (IsAttachment(q) => q.id = Absent)
          /\ \A j \in FileParts \ {i} : NameOfPart(Leaves(mail.msg)[j]) # NameOfPart(q)

\* A mail that is marked as fully downloaded shows a plain and an html text of
\* the message, if there is one: whole, and not another part's content.
ShowsTheMessage ==
    /\ AtRest /\ row.status = Fully /\ ~LostByLines /\ (IsImap \/ FilesAreTold)
    /\ Not({"lost", "estimated", "together", "attached"})
    =>  \A shown \in {<<"PLAIN", row.plain>>, <<"HTML", row.html>>} :
            Texts(mail.msg, shown[1]) # <<>> =>
                \E q \in Range(Texts(mail.msg, shown[1])) : FileText(shown[2]) = {Words(q.text)}

\* Every attachment of a message has one row: as soon as its partial body is
\* there, of POP3 when its body is.
AttachmentsAreListed ==
    /\ AtRest /\ row.status \in {Fully} \cup (IF IsImap THEN {Partially} ELSE {})
    /\ ~LostByLines /\ FilesAreTold /\ Not({"lost", "relisted", "together"})
    =>  \A q \in {q \in Parts : IsAttachment(q)} : Cardinality({i \in DOMAIN atts : atts[i].name = NameOfPart(q)}) = 1

\* What a row says is saved is the part that has the row's name.
SavedIsTheNamed ==
    /\ AtRest /\ row.status = Fully /\ FilesAreTold /\ Not({"lost", "estimated", "together"})
    =>  \A i \in DOMAIN atts : atts[i].saved =>
            \E q \in Parts : /\ atts[i].name \in {NameOfPart(q), q.id, q.location}
                             /\ FileText(atts[i].path) = {Words(q.text)}

\* A reference of the html to an inline part leads to a file of that part.
\* The references of the message are content ids, over POP3 one a line.
RefsAreIds ==
    \A q \in Range(Texts(mail.msg, "HTML")) : \A i \in DOMAIN q.text :
        /\ IsImap \/ Len(q.text[i].refs) <= 1
        /\ \A ref \in Range(q.text[i].refs) : ref.cid
ReferencesLead ==
    /\ AtRest /\ row.status = Fully /\ row.html \in DOMAIN files /\ RefsAreIds /\ FilesAreTold
    /\ Not({"lost", "estimated", "together"})
    =>  \A i \in DOMAIN files[row.html] : \A ref \in Range(files[row.html][i].refs) :
            /\ ~ref.cid
            /\ \E q \in {q \in Parts : IsInline(q)} : FileText(<<0, ref.to>>) = {Words(q.text)}

\* The files of an eml mail stay while a client has it.
EmlFilesStay == Not({"restarted"}) => eml.held \subseteq DOMAIN eml.dirs
=============================================================================
