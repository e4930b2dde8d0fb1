----------------------------- MODULE MimeReader -----------------------------
(***************************************************************************)
(* The line reader of email-core-mime.c: a message of a POP3 server, or of *)
(* an eml file, read line by line.  The input is [lines, stop, why]: the   *)
(* lines that come, the number of them that can be read, and what the read *)
(* after the last one finds: "end" (the dot that ends a POP3 answer),      *)
(* "lost" (the connection), "cancel" (the thread was told to stop) or      *)
(* "eof" (a file: no error code is set).  What is read is put together in  *)
(* cnt, the _m_content_info.  A function that reads gives [at, eop, ok,    *)
(* err, cnt]: the next line, *end_of_parsing, what it returned, *err_code. *)
(***************************************************************************)
EXTENDS MimePart

EmptyContent == [plain |-> {}, html |-> {}, files |-> <<>>]
\* save is the temporary file that holds the content, if there is one.
FileEntry(type, name, id, save, size) ==
    [type |-> type, name |-> name, id |-> id, save |-> save, size |-> size]
Whole(lines, why) == [lines |-> lines, stop |-> Len(lines), why |-> why]
Ended(in, at) == at > in.stop
NoMoreData == "end"

-----------------------------------------------------------------------------
(* Headers *)

NoHeader == [type |-> <<>>, params |-> <<>>, enc |-> Absent, disp |-> Absent, dparams |-> <<>>,
             id |-> Absent, location |-> Absent]

\* A parameter goes behind the last one; going there, the head of the list is
\* moved along: of three parameters the last two are left.
emcore_mime_add_param_to_list(list, p) == Append(SubSeq(list, IF Len(list) > 1 THEN 2 ELSE 1, Len(list)), p)
emcore_mime_set_part_header_value(h, line) ==
    CASE line.kind = "type" -> [h EXCEPT !.type = <<line.type, line.sub>>,
                                         !.params = FoldLeft(emcore_mime_add_param_to_list, @, line.params)]
      [] line.kind = "enc" -> [h EXCEPT !.enc = line.value]
      [] line.kind = "disp" -> [h EXCEPT !.disp = line.value,
                                         !.dparams = FoldLeft(emcore_mime_add_param_to_list, @, line.params)]
      [] line.kind = "id" -> [h EXCEPT !.id = line.value]
      [] line.kind = "location" -> [h EXCEPT !.location = line.value]
      [] OTHER -> h

\* A header that comes again is written behind what it had.
emcore_mime_set_rfc822_header_value(rfc822, line) ==
    IF line.kind # "header" THEN rfc822
    ELSE [n \in DOMAIN rfc822 \cup {line.name} |->
             (IF n \in DOMAIN rfc822 THEN rfc822[n] ELSE <<>>) \o (IF n = line.name THEN <<line.value>> ELSE <<>>)]

\* The headers end at the first blank line; none is a failure.
BlankAt(in, at) == {i \in at..in.stop : in.lines[i] = Blank /\ \A j \in at..(i - 1) : in.lines[j] # Blank}
emcore_mime_parse_part_header(in, at) ==
    IF BlankAt(in, at) = {} THEN [ok |-> FALSE, at |-> in.stop + 1, h |-> NoHeader]
    ELSE LET b == CHOOSE i \in BlankAt(in, at) : TRUE
         IN  [ok |-> TRUE, at |-> b + 1,
              h |-> FoldLeft(emcore_mime_set_part_header_value, NoHeader, SubSeq(in.lines, at, b - 1))]
emcore_mime_parse_header(in, at, is_file) ==
    LET r == emcore_mime_parse_part_header(in, at) IN
    [ok |-> r.ok, at |-> r.at, h |-> r.h,
     rfc822 |-> IF ~is_file \/ ~r.ok THEN <<>>
                ELSE FoldLeft(emcore_mime_set_rfc822_header_value, <<>>, SubSeq(in.lines, at, r.at - 1))]

emcore_mime_get_header_value(h, what) ==
    CASE what \in {"NAME", "CHARSET", "BOUNDARY"} -> ValueOf(h.params, what)
      [] what = "FILENAME" -> ValueOf(h.dparams, what)
TypeOf(h) == IF h.type = <<>> THEN <<"TEXT", "PLAIN">> ELSE h.type
IsPkcs7(type) == type[2] \in {"PKCS7-MIME", "PKCS7-SIGNATURE"}
Holder(cnt, type, text) == IF type[2] = "HTML" THEN [cnt EXCEPT !.html = {text}] ELSE [cnt EXCEPT !.plain = {text}]

-----------------------------------------------------------------------------
(* Content, up to a line of the boundary *)

\* The first line from at that is one of lines, or the end.
First(in, at, lines) ==
    LET found == {i \in at..in.stop : in.lines[i] \in lines} IN IF found = {} THEN in.stop + 1 ELSE Min(found)
Until(in, at, b) == First(in, at, IF b = Absent THEN {} ELSE {Delim(b), Close(b)})

\* em_replace_string finds the first "cid:" of a line, and no other.
em_replace_string(refs) ==
    LET first == {i \in DOMAIN refs : refs[i].cid /\ \A j \in 1..(i - 1) : ~refs[j].cid}
    IN  [i \in DOMAIN refs |-> IF i \in first THEN [refs[i] EXCEPT !.cid = FALSE] ELSE refs[i]]
\* The dot of a stuffed line is taken off in two of the encodings.
emcore_decode_body_text(line, enc, is_text) ==
    [line EXCEPT !.dots = IF @ > 1 /\ enc \in {"7BIT", "QP"} THEN @ - 1 ELSE @,
                 !.refs = IF is_text THEN em_replace_string(@) ELSE @]
\* The lines between at and the boundary, decoded.  Whatever ends them, what
\* was read is content; only a thread that is stopped leaves *end_of_parsing.
emcore_mime_get_content_data(in, at, b, enc, is_text) ==
    LET end == Until(in, at, b)
        read == SelectSeq(SubSeq(in.lines, at, end - 1), LAMBDA l : l.kind = "data")
    IN  [at |-> end + 1,
         eop |-> IF Ended(in, end) THEN in.why # "cancel" ELSE in.lines[end] = Close(b),
         err |-> IF Ended(in, end) THEN in.why ELSE "none",
         text |-> [i \in DOMAIN read |-> emcore_decode_body_text(read[i].line, enc, is_text)]]
emcore_mime_skip_content_data(in, at, b) ==
    LET end == Until(in, at, b)
    IN  [at |-> end + 1, eop |-> IF Ended(in, end) THEN in.why # "cancel" ELSE in.lines[end] = Close(b)]
\* To the next line of the outer boundary; at the end there is more to come.
emcore_mime_flush_receiving_buffer(in, at, b) ==
    LET end == Until(in, at, b) IN [at |-> end + 1, eop |-> ~Ended(in, end) /\ in.lines[end] = Close(b)]

-----------------------------------------------------------------------------
(* One part that is not a multipart *)

\* An inline part is named by its content id, an attachment by its file name:
\* a part that has no name is a text.
AttachmentName(h) ==
    CASE h.disp = "INLINE" -> IF h.id # Absent THEN h.id ELSE h.location
      [] h.disp = "ATTACHMENT" -> emcore_mime_get_header_value(h, "FILENAME")
      [] OTHER -> IF IsPkcs7(TypeOf(h)) THEN emcore_mime_get_header_value(h, "NAME") ELSE Absent
TextContent(in, grab, b, h, s) ==
    LET r == emcore_mime_get_content_data(in, s.at, b, h.enc, TRUE)
    IN  [s EXCEPT !.at = r.at, !.eop = r.eop, !.err = r.err,
                  !.cnt = IF "text" \in grab THEN Holder(@, TypeOf(h), r.text) ELSE @]
\* 1 is inline, 2 an attachment; a part without a disposition has the type of
\* the part before it.
DispositionType(h, before) == IF h.disp = "INLINE" THEN 1 ELSE IF h.disp = "ATTACHMENT" THEN 2 ELSE before
FileContent(in, grab, b, h, type, s) ==
    LET r == emcore_mime_get_content_data(in, s.at, b, h.enc, FALSE)
        saved == "attachment" \in grab \/ type = 1
    IN  [s EXCEPT !.at = r.at, !.eop = r.eop, !.err = r.err,
                  !.cnt.files = Append(@, FileEntry(type, AttachmentName(h), h.id,
                                                    IF saved THEN {r.text} ELSE {}, Len(r.text)))]
SkippedContent(in, b, s) ==
    LET r == emcore_mime_skip_content_data(in, s.at, b) IN [s EXCEPT !.at = r.at, !.eop = r.eop]

-----------------------------------------------------------------------------
(* The parts of a multipart *)

\* Behind a forwarded message every part of its level is skipped.
SkipRest(type, skip) == skip \/ type[1] = "MESSAGE"

RECURSIVE PartsFrom(_, _, _, _, _)
\* s.at is behind the first boundary, or it is not there.
emcore_mime_parse_part(in, grab, b, s) ==
    LET first == First(in, s.at, {Delim(b)})
    IN  IF Ended(in, first)
        THEN [s EXCEPT !.at = first, !.eop = @ \/ in.why # "cancel", !.err = in.why, !.ok = FALSE]
        ELSE PartsFrom(in, grab, b, [skip |-> FALSE, disp |-> 0], [s EXCEPT !.at = first + 1])
\* A nested multipart: what it returns is not looked at; the rest of it is
\* flushed when it has come to an end.
Flushed(in, b, n) ==
    LET f == emcore_mime_flush_receiving_buffer(in, n.at, b) IN
    IF n.eop /\ n.err # NoMoreData THEN [n EXCEPT !.at = f.at, !.eop = f.eop, !.ok = TRUE] ELSE [n EXCEPT !.ok = TRUE]
NestedParts(in, grab, b, h, s) ==
    Flushed(in, b, emcore_mime_parse_part(in, grab, Boundary(h.params), [s EXCEPT !.err = "none", !.eop = FALSE]))
\* level is what the parts before this one leave to it.
LevelAfter(type, h, level) ==
    [skip |-> SkipRest(type, level.skip),
     disp |-> IF type[1] = "MULTIPART" \/ SkipRest(type, level.skip) THEN level.disp ELSE DispositionType(h, level.disp)]
OnePart(in, grab, b, h, level, s) ==
    CASE TypeOf(h)[1] = "MULTIPART" -> NestedParts(in, grab, b, h, s)
      [] TypeOf(h)[1] # "MULTIPART" /\ level.skip -> SkippedContent(in, b, s)
      [] TypeOf(h)[1] # "MULTIPART" /\ ~level.skip /\ AttachmentName(h) = Absent -> TextContent(in, grab, b, h, s)
      [] OTHER -> FileContent(in, grab, b, h, level.disp, s)
MoreParts(in, grab, b, level, s) ==
    IF s.eop THEN s
    ELSE IF Ended(in, s.at) /\ in.why = "cancel" THEN [s EXCEPT !.ok = FALSE]
    ELSE PartsFrom(in, grab, b, level, s)
PartBehind(in, grab, b, header, level, s) ==
    IF ~header.ok \/ (TypeOf(header.h)[1] = "MULTIPART" /\ Boundary(header.h.params) = Absent) THEN [s EXCEPT !.ok = FALSE]
    ELSE MoreParts(in, grab, b, level, OnePart(in, grab, b, header.h, level, s))
PartsFrom(in, grab, b, level, s) ==
    LET header == emcore_mime_parse_part_header(in, s.at)
    IN  PartBehind(in, grab, b, header, LevelAfter(TypeOf(header.h), header.h, level), [s EXCEPT !.at = header.at])

-----------------------------------------------------------------------------
(* The whole message *)

\* A message of one part is its text, unless it is a PKCS7 file.
SinglePart(in, grab, h, s) ==
    LET isFile == TypeOf(h)[2] = "PKCS7-MIME"
        r == emcore_mime_get_content_data(in, s.at, Absent, h.enc, ~isFile)
        file == FileEntry(2, emcore_mime_get_header_value(h, "FILENAME"), h.id, {r.text}, Len(r.text))
    IN  IF isFile THEN [s EXCEPT !.cnt.files = <<file>>]
        ELSE IF "text" \notin grab THEN s
        ELSE [s EXCEPT !.cnt = Holder(@, TypeOf(h), r.text)]
emcore_mime_parse_body(in, grab, h, at) ==
    LET s == [at |-> at, eop |-> FALSE, ok |-> TRUE, err |-> "none", cnt |-> EmptyContent] IN
    IF TypeOf(h)[1] # "MULTIPART" THEN SinglePart(in, grab, h, s)
    ELSE IF Boundary(h.params) = Absent THEN [s EXCEPT !.ok = FALSE]
    ELSE emcore_mime_parse_part(in, grab, Boundary(h.params), s)

\* It fails only when the headers do not end; a body that fails is what was
\* read of it.
emcore_parse_mime(in, grab) ==
    LET header == emcore_mime_parse_header(in, 1, FALSE)
        body == emcore_mime_parse_body(in, grab, header.h, header.at)
    IN  IF ~header.ok THEN [ok |-> FALSE, cnt |-> EmptyContent] ELSE [ok |-> TRUE, cnt |-> body.cnt]
=============================================================================
