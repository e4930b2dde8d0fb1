---------------------------- MODULE PartialReader ----------------------------
(***************************************************************************)
(* The reader of partial bodies in email-core-mailbox-sync.c: it has the   *)
(* first lines of BODY[TEXT], and looks in them for the headers of a text  *)
(* and of images, with strstr and without a structure.  A part begins in   *)
(* the line that strstr finds; the line before it is its boundary, and the *)
(* next place where that stands, or the end of what came, is its end.      *)
(***************************************************************************)
EXTENDS ImapReader

\* BODY[TEXT]<0.size>
TextOfMessage(p, size) == LET lines == BodyLines(p) IN SubSeq(lines, 1, Min({size, Len(lines)}))

FirstLine(buf, from, Is(_)) ==
    LET at == {i \in from..Len(buf) : Is(buf[i])} IN IF at = {} THEN Len(buf) + 1 ELSE Min(at)
Found(buf, i) == i <= Len(buf)
IsType(line, types) == line.kind = "type" /\ <<line.type, line.sub>> \in types
TypeAt(buf, from, types) == FirstLine(buf, from, LAMBDA l : IsType(l, types))
BoundaryOf(line) == IF line.kind \in {"delim", "close"} THEN line.boundary ELSE Absent
NextBoundary(buf, from, b) ==
    FirstLine(buf, from, LAMBDA l : b # Absent /\ BoundaryOf(l) = b)
Content(buf, from, to) ==
    LET data == SelectSeq(SubSeq(buf, from, to - 1), LAMBDA l : l.kind = "data")
    IN  [i \in DOMAIN data |-> data[i].line]
\* The kinds of image, in the order in which they are looked for.
ImageTypes == << <<"IMAGE", "JPEG">>, <<"IMAGE", "JPG">>, <<"IMAGE", "GIF">>, <<"IMAGE", "BMP">>, <<"IMAGE", "PNG">> >>
FirstImage(buf, from) ==
    LET kinds == SelectSeq(ImageTypes, LAMBDA t : Found(buf, TypeAt(buf, from, {t})))
    IN  TypeAt(buf, from, IF kinds = <<>> THEN {} ELSE {kinds[1]})

\* What is between the blank line and the next place of the boundary.
PartContent(buf, header, b) ==
    LET blank == FirstLine(buf, header, LAMBDA l : l = Blank)
    IN  IF ~Found(buf, blank) THEN {} ELSE {Content(buf, blank + 1, NextBoundary(buf, blank + 1, b))}
emcore_find_boundary_string_of_the_part(buf, header) == BoundaryOf(buf[header - 1])
emcore_parse_html_part_for_partial_body(buf, header) == PartContent(buf, header, BoundaryOf(buf[header - 1]))
emcore_parse_plain_part_for_partial_body(buf, header, b) == PartContent(buf, header, b)

\* The images: none behind which an attachment follows, or no content id.
\* A name and an id are the next ones, whosever they are.
HasName(l) == l.kind \in {"type", "disp"} /\ emcore_get_attribute_value_of_body_part(l.params, <<"NAME", "FILENAME">>) # Absent
NameIn(l) == emcore_get_attribute_value_of_body_part(l.params, <<"NAME", "FILENAME">>)
IsAttachmentLine(l) == l.kind = "disp" /\ l.value = "ATTACHMENT"
NextImage(buf, p, header, b) ==
    LET id == FirstLine(buf, header, LAMBDA l : l.kind = "id")
        name == FirstLine(buf, header, HasName)
        blank == FirstLine(buf, header, LAMBDA l : l = Blank)
        end == NextBoundary(buf, blank + 1, b)
        cid == IF Found(buf, id) THEN buf[id].value ELSE Absent
    IN  IF \/ Found(buf, FirstLine(buf, p, IsAttachmentLine))
           \/ ~Found(buf, FirstLine(buf, p, LAMBDA l : l.kind = "id"))
           \/ ~Found(buf, blank)
        THEN {}
        ELSE {[name |-> IF Found(buf, name) THEN NameIn(buf[name]) ELSE cid, id |-> cid,
               text |-> Content(buf, blank + 1, end), end |-> end]}
RECURSIVE ImagesFrom(_, _, _, _)
\* Behind the first image p is the image itself; the boundary stays the first's.
ImagesFrom(buf, p, header, b) ==
    LET image == NextImage(buf, p, header, b) IN
    IF image = {} THEN <<>>
    ELSE LET i == CHOOSE x \in image : TRUE
             next == FirstLine(buf, i.end, LAMBDA l : l.kind = "type" /\ l.type = "IMAGE")
         IN  <<i>> \o IF Found(buf, next) THEN ImagesFrom(buf, next, next, b) ELSE <<>>
emcore_parse_image_part_for_partial_body(buf, p, header) ==
    ImagesFrom(buf, p, header, BoundaryOf(buf[header - 1]))

-----------------------------------------------------------------------------
(* The whole of one answer *)

\* What is looked for when there is no part in it: the text is all of it.
IsOneText(buf, cnt) ==
    /\ ~Found(buf, TypeAt(buf, 1, {<<"TEXT", "PLAIN">>, <<"TEXT", "HTML">>} \cup
                               {<<"IMAGE", "JPEG">>, <<"IMAGE", "GIF">>, <<"IMAGE", "BMP">>}))
    /\ cnt.plain # {} \/ cnt.html # {}
OneText(buf, cnt) ==
    LET all == {Content(buf, 1, Len(buf) + 1)}
    IN  [ok |-> TRUE, plain |-> IF cnt.plain # {} THEN all ELSE {},
         html |-> IF cnt.html # {} THEN all ELSE {}, images |-> <<>>]

\* The line of the boundary to begin behind.  An alternative that holds no
\* plain text begins behind its own headers.
Alternative(buf) == TypeAt(buf, 1, {<<"MULTIPART", "ALTERNATIVE">>})
FirstPlain(buf) == TypeAt(buf, 1, {<<"TEXT", "PLAIN">>})
NoHtml(buf) == Found(buf, Alternative(buf)) /\ FirstPlain(buf) < Alternative(buf)
BeginsAt(buf) ==
    IF Found(buf, Alternative(buf)) /\ ~Found(buf, FirstPlain(buf))
    THEN FirstLine(buf, 1, LAMBDA l : l = Blank) + 1
    ELSE FirstLine(buf, 1, LAMBDA l : l.kind \in {"delim", "close"})

PartsOf(buf) ==
    LET p == BeginsAt(buf) + 1
        html == TypeAt(buf, p, {<<"TEXT", "HTML">>})
        plain == TypeAt(buf, p, {<<"TEXT", "PLAIN">>})
        image == FirstImage(buf, p)
        forwards == Found(buf, FirstLine(buf, p, LAMBDA l : l.kind = "type" /\ l.type = "MESSAGE"))
    IN  [ok |-> TRUE,
         html |-> IF Found(buf, html) /\ ~NoHtml(buf) /\ ~forwards
                  THEN emcore_parse_html_part_for_partial_body(buf, html) ELSE {},
         plain |-> IF Found(buf, plain) THEN emcore_parse_plain_part_for_partial_body(buf, plain,
                                                      emcore_find_boundary_string_of_the_part(buf, plain)) ELSE {},
         images |-> IF Found(buf, image)
                    THEN emcore_parse_image_part_for_partial_body(buf, p, image) ELSE <<>>]
\* An alternative whose headers were cut off leaves empty texts, no boundary
\* leaves the mail as it is.
Unparsed(buf) == [ok |-> Found(buf, Alternative(buf)) /\ ~Found(buf, BeginsAt(buf)) /\ ~Found(buf, FirstPlain(buf)),
                  plain |-> {}, html |-> {}, images |-> <<>>]
ParsePartialBody(buf, cnt) ==
    IF IsOneText(buf, cnt) THEN OneText(buf, cnt)
    ELSE IF ~Found(buf, BeginsAt(buf)) \/ buf[BeginsAt(buf)] = Blank THEN Unparsed(buf)
    ELSE PartsOf(buf)

\* The references to an image get the name of its file.
NamedRefs(html, image) ==
    [i \in DOMAIN html |->
        [html[i] EXCEPT !.refs = [j \in DOMAIN @ |-> IF @[j] = Cid(image.id)
                                                     THEN [cid |-> FALSE, to |-> image.name] ELSE @[j]]]]
WithNamedImages(html, images) == {FoldLeft(NamedRefs, h, images) : h \in html}
=============================================================================
