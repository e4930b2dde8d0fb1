----------------------------- MODULE MimeWriter -----------------------------
(***************************************************************************)
(* The writer of email-core-smtp.c: a stored mail becomes the message that *)
(* is sent, or an eml file.  A draft has a plain text, an html text (sets  *)
(* of at most one) and files: name, text, whether it is inline, an image,  *)
(* and still on the disk.  The html refers to its images by file name.     *)
(***************************************************************************)
EXTENDS MimePart

Draft(plain, html, files) == [plain |-> plain, html |-> html, files |-> files]
DraftFile(name, inline, image, exists, text) ==
    [name |-> name, inline |-> inline, image |-> image, exists |-> exists, text |-> text]

-----------------------------------------------------------------------------
(* The parts *)

emcore_generate_content_id_string(i) == "g" \o ToString(i)
\* rfc822_encode_body_7bit: 8BIT text is sent quoted-printable, BINARY base64.
attach_text(text, sub) == [Part("TEXT", sub, << <<"CHARSET", "UTF-8">> >>, text, <<>>) EXCEPT !.enc = "QP"]
\* An inline file is an image, whatever it is.
attach_part(f, i) ==
    LET isImage == f.image \/ f.inline
        p == Part(IF isImage THEN "IMAGE" ELSE "APPLICATION", IF f.image THEN "JPEG" ELSE "OCTET-STREAM",
                  << <<"NAME", f.name>> >>, f.text, <<>>)
    IN  [p EXCEPT !.enc = "BASE64", !.dparams = << <<"FILENAME", f.name>> >>,
                  !.id = IF f.inline THEN emcore_generate_content_id_string(i) ELSE Absent,
                  !.disp = IF f.inline THEN "INLINE" ELSE "ATTACHMENT"]
attach_mutipart_with_sub_type(sub, parts) ==
    Part("MULTIPART", sub, << <<"BOUNDARY", sub>> >>, <<>>, parts)

-----------------------------------------------------------------------------
(* The references of the html *)

FirstRef(html, name) ==
    {<<i, j>> \in UNION {{i} \X DOMAIN html[i].refs : i \in DOMAIN html} :
        /\ html[i].refs[j].to = name /\ ~html[i].refs[j].cid
        /\ \A k \in DOMAIN html : \A l \in DOMAIN html[k].refs :
              html[k].refs[l] = html[i].refs[j] => k > i \/ (k = i /\ l >= j)}
\* The first place of the name of each image; a name that is not there undoes
\* the replacements before it, and those after it are not made.
ReplaceName(html, part) ==
    {[i \in DOMAIN h |-> [h[i] EXCEPT !.refs =
        [j \in DOMAIN @ |-> IF <<i, j>> \in FirstRef(h, ValueOf(part.params, "NAME")) THEN Cid(part.id) ELSE @[j]]]] :
     h \in {h \in html : FirstRef(h, ValueOf(part.params, "NAME")) # {}}}
emcore_find_img_tag(html) == \E i \in DOMAIN html : html[i].refs # <<>>
emcore_replace_inline_image_path_with_content_id(html, images) ==
    LET replaced == FoldLeft(ReplaceName, {html}, images)
    IN  IF ~emcore_find_img_tag(html) \/ images = <<>> \/ replaced = {} THEN html
        ELSE CHOOSE h \in replaced : TRUE

-----------------------------------------------------------------------------
(* The message *)

\* related: the inline files of a html text, or else the others.
Files(d, related) ==
    LET parts == [i \in DOMAIN d.files |-> [file |-> d.files[i], part |-> attach_part(d.files[i], i)]]
        some == SelectSeq(parts, LAMBDA x : x.file.exists /\ (related <=> x.file.inline /\ d.html # {}))
    IN  [i \in DOMAIN some |-> some[i].part]
\* MIXED [ALTERNATIVE [plain, RELATED [html, the inline files]], the files], or
\* one text.  The file of a part that is gone is left out.
Multipart(d) ==
    LET inline == Files(d, TRUE)
        html == {emcore_replace_inline_image_path_with_content_id(h, inline) : h \in d.html}
        Texts1(texts, sub) == FlattenSeq([i \in 1..Cardinality(texts) |->
                                            <<attach_text(CHOOSE t \in texts : TRUE, sub)>>])
        related == IF html = {} THEN <<>>
                   ELSE <<attach_mutipart_with_sub_type("RELATED", Texts1(html, "HTML") \o inline)>>
    IN  attach_mutipart_with_sub_type("MIXED",
            <<attach_mutipart_with_sub_type("ALTERNATIVE", Texts1(d.plain, "PLAIN") \o related)>>
            \o Files(d, FALSE))
OneBody(d) ==
    LET text == CHOOSE t \in (IF d.plain # {} THEN d.plain ELSE d.html) : TRUE
    IN  [Part("TEXT", IF d.html # {} THEN "HTML" ELSE "PLAIN", <<>>, text, <<>>) EXCEPT !.enc = "QP"]
WithHeaders(p) == [p EXCEPT !.header = << <<"SUBJECT", "s">>, <<"FROM", "f">>, <<"TO", "t">> >>]
emcore_make_rfc822_file_from_mail(d) ==
    WithHeaders(IF d.files # <<>> \/ (d.plain # {} /\ d.html # {}) THEN Multipart(d) ELSE OneBody(d))
\* An eml file: the html is copied from the file of the plain text.
emcore_make_rfc822_file(d) ==
    emcore_make_rfc822_file_from_mail([d EXCEPT !.html = IF d.html # {} THEN d.plain ELSE {}])
=============================================================================
