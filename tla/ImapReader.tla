----------------------------- MODULE ImapReader -----------------------------
(***************************************************************************)
(* The two IMAP readers of email-core-mime.c.  The server describes the    *)
(* structure of a message; emcore_get_body_full lists its files and the    *)
(* sections of its body, which one UID FETCH then brings; emcore_get_body  *)
(* is the older reader, which fetches each part by itself: it still serves *)
(* the download of one attachment and the listing of a partial body.  A    *)
(* body is a leaf of the structure: its part, its content id as the        *)
(* structure has it, its section, and whether it is inside a forwarded     *)
(* message.  The name of a file is one token with its extension.           *)
(***************************************************************************)
EXTENDS MimeReader

-----------------------------------------------------------------------------
(* The structure and its sections *)

Body(p, section, inner) == [part |-> p, id |-> p.id, section |-> section, inner |-> inner]

\* The leaves in order; a forwarded message is numbered like a part, and what
\* is inside it follows it.
RECURSIVE emcore_set_fetch_part_section(_, _, _)
emcore_set_fetch_part_section(p, section, inner) ==
    IF p.type = "MULTIPART" THEN
        FlattenSeq([i \in DOMAIN p.parts |-> emcore_set_fetch_part_section(p.parts[i], Append(section, i), inner)])
    ELSE IF p.type = "MESSAGE" THEN
        <<Body(p, <<>>, inner)>> \o emcore_set_fetch_part_section(p.parts[1], section, TRUE)
    ELSE <<Body(p, IF section = <<>> THEN <<1>> ELSE section, inner)>>
\* A message of one part is given the content id "1".
emcore_set_fetch_body_section(p) ==
    LET bodies == emcore_set_fetch_part_section(p, <<>>, FALSE) IN
    IF p.type = "MULTIPART" THEN bodies ELSE [bodies EXCEPT ![1].id = "1"]

IsDisp(b, disp) == b.part.disp = disp
\* g_inline_list, those inside a forwarded message among them.
InlineList(bodies) ==
    SelectSeq(bodies, LAMBDA b : IsDisp(b, "INLINE") \/ (IsDisp(b, Absent) /\ b.id # Absent))

\* What is inside an encrypted multipart is not looked at.
RECURSIVE InEncrypted(_, _)
InEncrypted(p, q) ==
    /\ p.type = "MULTIPART"
    /\ \E i \in DOMAIN p.parts : \/ p.sub = "ENCRYPTED" /\ \E l \in Range(Leaves(p.parts[i])) : l = q
                                 \/ InEncrypted(p.parts[i], q)
Visited(p) ==
    SelectSeq(emcore_set_fetch_body_section(p), LAMBDA b : ~b.inner /\ ~InEncrypted(p, b.part))

\* A file that is not inline goes before the first inline one.
FirstInline(files) == Min({i \in DOMAIN files : files[i].type = 1} \cup {Len(files) + 1})
InsertFile(files, f) == InsertAt(files, IF f.type = 1 THEN Len(files) + 1 ELSE FirstInline(files), f)

-----------------------------------------------------------------------------
(* The names of the files *)

emcore_get_attribute_value_of_body_part(params, names) ==
    LET found == SelectSeq(names, LAMBDA n : ValueOf(params, n) # Absent)
    IN  IF found = <<>> THEN Absent ELSE ValueOf(params, found[1])
_find_duplicated_inline_content_file(name, files) == \E i \in DOMAIN files : files[i].name = name
_modify_file_name_string_for_duplicated_inline_content(name) == name \o "_"
PlainName(b) ==
    LET p == b.part IN
    CASE p.type = "TEXT" /\ p.disp = Absent -> IF p.sub = "HTML" THEN "UTF-8.htm" ELSE "UTF-8"
      [] ~(p.type = "TEXT" /\ p.disp = Absent) /\ (b.id # Absent \/ p.disp = "INLINE") ->
            IF p.params # <<>> THEN emcore_get_attribute_value_of_body_part(p.params, <<"NAME", "CHARSET">>)
            ELSE IF p.disp # Absent THEN ValueOf(p.dparams, "FILENAME")
            ELSE b.id
      [] OTHER -> emcore_get_attribute_value_of_body_part(p.params, <<"NAME", "FILENAME">>)
\* A name that a file of the list has gets a "_"; without a list it has none.
emcore_get_file_pointer(b, files) ==
    IF _find_duplicated_inline_content_file(PlainName(b), files)
    THEN _modify_file_name_string_for_duplicated_inline_content(PlainName(b)) ELSE PlainName(b)

-----------------------------------------------------------------------------
(* emcore_get_body_full: the files, and the sections of the body *)

HasEntry(b) == b.id # Absent \/ b.part.location # Absent \/ b.part.disp # Absent
ListedFile(b, files) ==
    FileEntry(IF b.id # Absent \/ b.part.location # Absent \/ b.part.disp = "INLINE" THEN 1 ELSE 2,
              emcore_get_file_pointer(b, files), b.id, {}, Size(b.part))
\* A PKCS7 file is fetched as if it had been asked for with attachments, and
\* then of the attachments only the one the list begins with.
IsFirstFile(b, files) ==
    /\ IsDisp(b, "ATTACHMENT") /\ files # <<>>
    /\ emcore_get_attribute_value_of_body_part(b.part.params, <<"NAME", "FILENAME">>) \notin {Absent}
    /\ emcore_get_attribute_value_of_body_part(b.part.params, <<"NAME", "FILENAME">>) = files[1].name
    /\ Len(b.part.text) = files[1].size
GetBodyFull(r, b) ==
    LET p == b.part
        files == IF HasEntry(b) THEN InsertFile(r.cnt.files, ListedFile(b, r.cnt.files)) ELSE r.cnt.files
        grab == IF HasEntry(b) /\ p.type = "APPLICATION" /\ p.sub = "PKCS7-MIME"
                THEN r.grab \cup {"attachment"} ELSE r.grab
        fetches == IF "attachment" \in grab THEN IsFirstFile(b, files) ELSE ~IsDisp(b, "ATTACHMENT")
    IN  IF p.type = "MESSAGE" THEN r
        ELSE [cnt |-> [r.cnt EXCEPT !.files = files], grab |-> grab,
              sections |-> IF fetches THEN Append(r.sections, b) ELSE r.sections]
emcore_get_body_full(p, grab) ==
    FoldLeft(GetBodyFull, [cnt |-> EmptyContent, grab |-> grab, sections |-> <<>>], Visited(p))

-----------------------------------------------------------------------------
(* emcore_get_body_part_imap_full: one fetch of the sections *)

Fetched(sections) ==
    SelectSeq(sections, LAMBDA b : b.part.type = "TEXT" \/ b.id # Absent \/ IsDisp(b, "INLINE"))
\* Mutant: the "cid:" goes and the id stays.
IdKept(ref, bodies) == [ref EXCEPT !.cid = FALSE]
\* cid:X is replaced by the name of the inline body whose id it is, when that
\* has parameters and a name; else the "cid:" goes.
ReplacedRef(ref, bodies) ==
    LET named == SelectSeq(InlineList(bodies),
                           LAMBDA b : /\ b.id = ref.to /\ (b.part.params # <<>> \/ b.part.dparams # <<>>)
                                      /\ emcore_get_file_pointer(b, <<>>) # Absent)
    IN  IF ~ref.cid THEN ref
        ELSE [cid |-> FALSE, to |-> IF named = <<>> THEN ref.to ELSE emcore_get_file_pointer(named[1], <<>>)]
emcore_write_response_into_file(b, bodies) ==
    [i \in DOMAIN b.part.text |->
        IF b.part.sub # "HTML" THEN b.part.text[i]
        ELSE [b.part.text[i] EXCEPT !.refs = [j \in DOMAIN @ |-> ReplacedRef(@[j], bodies)]]]

IsBodyText(p) == p.type = "TEXT" /\ p.disp \in {Absent, "INLINE"}
\* The entry that waits for the content is found by the content id; looking
\* for it with no id crashes when an entry that waits has one.
Waits(f) == f.save = {} /\ f.id # Absent
FirstWaiting(files, id) ==
    {i \in DOMAIN files : /\ Waits(files[i]) /\ files[i].id = id
                          /\ \A j \in 1..(i - 1) : ~(Waits(files[j]) /\ files[j].id = id)}
StoreSection(bodies, r, b) ==
    LET content == emcore_write_response_into_file(b, bodies) IN
    CASE IsBodyText(b.part) -> [r EXCEPT !.cnt = Holder(@, Type(b.part), content)]
      [] ~IsBodyText(b.part) /\ HasEntry(b) ->
            [r EXCEPT !.crash = @ \/ (b.id = Absent /\ \E i \in DOMAIN r.cnt.files : Waits(r.cnt.files[i])),
                      !.cnt.files = [i \in DOMAIN @ |-> IF FirstWaiting(@, b.id) = {i}
                                                        THEN [@[i] EXCEPT !.save = {content}] ELSE @[i]]]
      [] OTHER -> r
emcore_get_body_part_imap_full(r, bodies) ==
    IF Fetched(r.sections) = <<>> THEN [ok |-> FALSE, crash |-> FALSE, cnt |-> r.cnt]
    ELSE FoldLeft(LAMBDA x, b : StoreSection(bodies, x, b), [ok |-> TRUE, crash |-> FALSE, cnt |-> r.cnt],
                  Fetched(r.sections))
\* Not ok: no section is the body's.
emcore_get_body_part_list_full(p, grab) ==
    emcore_get_body_part_imap_full(emcore_get_body_full(p, grab), emcore_set_fetch_body_section(p))

-----------------------------------------------------------------------------
(* emcore_get_body: part by part.  With no grab nothing is fetched: the    *)
(* files are listed for a partial body (is_pbd).                           *)

\* What is the file name of a part that has an id, and of one that has only a
\* disposition; "unknown" when it has neither name.
NameWithId(b) ==
    IF b.part.params # <<>> THEN ValueOf(b.part.params, "NAME")
    ELSE IF b.part.disp # Absent THEN ValueOf(b.part.dparams, "FILENAME") ELSE b.id
NameWithDisposition(b) ==
    IF ValueOf(b.part.dparams, "FILENAME") # Absent THEN ValueOf(b.part.dparams, "FILENAME")
    ELSE IF b.part.params # <<>> THEN ValueOf(b.part.params, "NAME") ELSE "unknown"
HasLongId(b) == b.id \notin {Absent, "1"}
NameOfBody(b) ==
    CASE HasLongId(b) -> NameWithId(b)
      [] ~HasLongId(b) /\ b.part.location # Absent -> b.part.location
      [] ~HasLongId(b) /\ b.part.location = Absent ->
            IF b.part.disp # Absent THEN NameWithDisposition(b) ELSE "message"
\* A forwarded message is a file only in the listing of a partial body.
IsFile(b, is_pbd) ==
    CASE HasLongId(b) -> FALSE
      [] ~HasLongId(b) /\ b.part.location # Absent -> TRUE
      [] ~HasLongId(b) /\ b.part.location = Absent ->
            IF b.part.type = "MESSAGE" /\ is_pbd THEN TRUE
            ELSE IF IsDisp(b, "INLINE")
            THEN /\ ValueOf(b.part.dparams, "FILENAME") = Absent
                 /\ b.part.params = <<>> \/ b.part.params[1][1] = "NAME"
            ELSE IsDisp(b, "ATTACHMENT")

\* A part of the body that is no text takes the head of the list, and the
\* files the list had are lost.
HeadTaken(files, f) == <<f>>
NotAFile(r, b, is_pbd) ==
    LET type == IF b.part.type = "IMAGE" /\ (b.id # Absent \/ b.part.location # Absent) THEN 1 ELSE 2
        f == FileEntry(type, NameOfBody(b), b.id, {}, Size(b.part))
    IN  CASE b.part.type = "MESSAGE" -> [r EXCEPT !.ok = FALSE]
          [] b.part.type \in {"IMAGE", "APPLICATION"} /\ ~is_pbd -> [r EXCEPT !.cnt.files = HeadTaken(@, f)]
          [] OTHER -> r
\* An attachment: the file_no-th one is fetched, at the place it has when it
\* comes; what its section is, the reader of a forwarded message does not know.
AFile(r, b, file_no) ==
    LET type == IF b.id # Absent \/ b.part.location # Absent THEN 1 ELSE 2
        place == IF type = 1 THEN Len(r.cnt.files) + 1 ELSE FirstInline(r.cnt.files)
        fetched == (place = file_no)
        f == FileEntry(type, NameOfBody(b), b.id, IF fetched THEN {b.part.text} ELSE {}, Size(b.part))
    IN  IF fetched /\ b.part.type = "MESSAGE" THEN [r EXCEPT !.ok = FALSE]
        ELSE [r EXCEPT !.cnt.files = InsertFile(@, f)]
\* In the listing of a partial body a text is only noted.
NotedText(r, b, is_pbd) ==
    IF is_pbd /\ IsBodyText(b.part) THEN [r EXCEPT !.cnt = Holder(@, Type(b.part), <<>>)] ELSE r
emcore_get_body_part_imap(r, b, is_pbd, file_no) ==
    LET noted == NotedText(r, b, is_pbd) IN
    IF ~r.ok THEN r
    ELSE IF IsFile(b, is_pbd) THEN AFile(noted, b, file_no)
    ELSE IF b.part.type = "TEXT" THEN noted
    ELSE NotAFile(noted, b, is_pbd)
\* file_no is 0 for the listing.
emcore_get_body(p, is_pbd, file_no) ==
    FoldLeft(LAMBDA r, b : emcore_get_body_part_imap(r, b, is_pbd, file_no),
             [ok |-> TRUE, cnt |-> EmptyContent], Visited(p))
=============================================================================
