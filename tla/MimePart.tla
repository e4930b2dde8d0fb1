------------------------------ MODULE MimePart ------------------------------
(***************************************************************************)
(* A message: the tree of its parts, and the lines that a part is on the   *)
(* wire.  What the readers of email-core-mime.c and                        *)
(* email-core-mailbox-sync.c are given.  A parameter is <<name, value>>;   *)
(* "" is an absent string; a text is a sequence of lines, and a line of a  *)
(* text has a word, the dots it begins with, and the references it makes:  *)
(* to the name "to", behind "cid:" or not.                                 *)
(***************************************************************************)
EXTENDS Naturals, Sequences, FiniteSets, SequencesExt, FiniteSetsExt

Absent == ""
\* header is From, Subject and the other headers of a message; parts are the
\* children of a multipart, or the one message inside a MESSAGE/RFC822.
Part(type, sub, params, text, parts) ==
    [type |-> type, sub |-> sub, params |-> params, disp |-> Absent, dparams |-> <<>>, id |-> Absent,
     location |-> Absent, enc |-> "7BIT", header |-> <<>>, text |-> text, parts |-> parts]

DataLine(word, dots, refs) == [word |-> word, dots |-> dots, refs |-> refs]
Cid(to) == [cid |-> TRUE, to |-> to]

\* The value of the first parameter of that name.
ValueOf(params, name) ==
    LET named == SelectSeq(params, LAMBDA p : p[1] = name)
    IN  IF named = <<>> THEN Absent ELSE named[1][2]
Boundary(params) == ValueOf(params, "BOUNDARY")
Type(part) == <<part.type, part.sub>>

-----------------------------------------------------------------------------
(* The lines of a part: headers, a blank line, the body *)

TypeLine(type, sub, params) == [kind |-> "type", type |-> type, sub |-> sub, params |-> params]
Delim(b) == [kind |-> "delim", boundary |-> b]
Close(b) == [kind |-> "close", boundary |-> b]
Blank == [kind |-> "blank"]
Data(line) == [kind |-> "data", line |-> line]
If(present, line) == IF present THEN <<line>> ELSE <<>>

HeaderLines(p) ==
    [i \in DOMAIN p.header |-> [kind |-> "header", name |-> p.header[i][1], value |-> p.header[i][2]]]
    \o <<TypeLine(p.type, p.sub, p.params)>>
    \o If(p.enc # "7BIT", [kind |-> "enc", value |-> p.enc])
    \o If(p.id # Absent, [kind |-> "id", value |-> p.id])
    \o If(p.location # Absent, [kind |-> "location", value |-> p.location])
    \o If(p.disp # Absent, [kind |-> "disp", value |-> p.disp, params |-> p.dparams])

RECURSIVE BodyLines(_)
PartLines(p) == HeaderLines(p) \o <<Blank>> \o BodyLines(p)
BodyLines(p) ==
    IF p.type = "MULTIPART" THEN
        FlattenSeq([i \in DOMAIN p.parts |-> <<Delim(Boundary(p.params))>> \o PartLines(p.parts[i])])
        \o <<Close(Boundary(p.params))>>
    ELSE IF p.type = "MESSAGE" THEN PartLines(p.parts[1])
    ELSE [i \in DOMAIN p.text |-> Data(p.text[i])]

\* POP3 puts a dot before a line that begins with one.
Stuffed(lines) ==
    [i \in DOMAIN lines |-> IF lines[i].kind = "data" /\ lines[i].line.dots > 0
                            THEN [lines[i] EXCEPT !.line.dots = @ + 1] ELSE lines[i]]

-----------------------------------------------------------------------------
(* What the sender means by a message, whoever reads it *)

\* The leaves, a forwarded message being one.
RECURSIVE Leaves(_)
Leaves(p) == IF p.type = "MULTIPART" THEN FlattenSeq([i \in DOMAIN p.parts |-> Leaves(p.parts[i])]) ELSE <<p>>

IsText(p) == p.type = "TEXT" /\ p.disp # "ATTACHMENT"
IsInline(p) == p.type # "TEXT" /\ p.disp # "ATTACHMENT" /\ (p.id # Absent \/ p.disp = "INLINE")
IsAttachment(p) == p.disp = "ATTACHMENT"
Texts(p, sub) == SelectSeq(Leaves(p), LAMBDA q : IsText(q) /\ q.sub = sub)
NameOfPart(p) ==
    IF ValueOf(p.dparams, "FILENAME") # Absent THEN ValueOf(p.dparams, "FILENAME") ELSE ValueOf(p.params, "NAME")
\* The octets of a body: those of a forwarded message are all of its lines.
Size(p) == IF p.type = "MESSAGE" THEN Len(PartLines(p.parts[1])) ELSE Len(p.text)
Words(text) == [i \in DOMAIN text |-> text[i].word]
=============================================================================
