------------------------------ MODULE MCContent ------------------------------
(* A mail of each shape the readers tell apart, for TLC. *)
EXTENDS Content

Line(w) == DataLine(w, 0, <<>>)
Text(sub, words) == Part("TEXT", sub, <<>>, [i \in DOMAIN words |-> Line(words[i])], <<>>)
HtmlWith(refs) == Part("TEXT", "HTML", <<>>, <<Line("h1"), DataLine("h2", 0, refs)>>, <<>>)
File(name, word) ==
    [Part("APPLICATION", "PDF", << <<"NAME", name>> >>, <<Line(word)>>, <<>>)
     EXCEPT !.disp = "ATTACHMENT", !.dparams = << <<"FILENAME", name>> >>, !.enc = "BASE64"]
Image(name, id, word) ==
    [Part("IMAGE", "JPEG", << <<"NAME", name>> >>, <<Line(word)>>, <<>>)
     EXCEPT !.disp = "INLINE", !.dparams = << <<"FILENAME", name>> >>, !.id = id, !.enc = "BASE64"]
Multi(sub, b, parts) == Part("MULTIPART", sub, << <<"BOUNDARY", b>> >>, <<>>, parts)
Forwarded(p) == Part("MESSAGE", "RFC822", <<>>, <<>>, <<p>>)

PlainText == Text("PLAIN", <<"p1", "p2">>)
OneHtml == HtmlWith(<<>>)
Alternatives == Multi("ALTERNATIVE", "A", <<PlainText, OneHtml>>)
Related == Multi("RELATED", "R", <<HtmlWith(<<Cid("c1")>>), Image("i1", "c1", "x1")>>)

Foreign ==
    { PlainText, OneHtml, Alternatives,
      Multi("MIXED", "M", <<PlainText, File("f1", "a1"), File("f2", "a2")>>),
      Multi("MIXED", "M", <<Multi("ALTERNATIVE", "A", <<PlainText, Related>>), File("f1", "a1")>>),
      Multi("MIXED", "M", <<PlainText, Forwarded(Text("PLAIN", <<"q1">>)), File("f1", "a1")>>),
      Multi("MIXED", "M", <<File("f1", "a1"), PlainText>>),
      Multi("MIXED", "M", <<Forwarded(Text("PLAIN", <<"q1">>)), PlainText>>),
      [Multi("SIGNED", "S", <<Alternatives, File("s1", "k1")>>)
       EXCEPT !.params = @ \o << <<"MICALG", "SHA1">>, <<"PROTOCOL", "PKCS7">> >>] }

\* What the readers take for another thing.
Undisposed(p) == [p EXCEPT !.disp = Absent, !.dparams = <<>>]
Odd ==
    { Multi("MIXED", "M", <<PlainText, File("f1", "a1"), Undisposed(Image("j1", Absent, "x1"))>>),
      Multi("MIXED", "M", <<PlainText, File("f1", "a1"), File("f1", "a2")>>),
      Multi("MIXED", "M", <<PlainText, [File("f1", "a1") EXCEPT !.id = "c9"], File("f2", "a2")>>),
      Multi("MIXED", "M", <<PlainText, [File("f1", "a1") EXCEPT !.type = "TEXT", !.sub = "PLAIN"]>>),
      Multi("RELATED", "R", <<HtmlWith(<<Cid("c1")>>), Undisposed(Image("i1", "c1", "x1"))>>),
      Multi("RELATED", "R", <<OneHtml, [Image("i1", Absent, "x1") EXCEPT !.location = "l1"]>>),
      Multi("RELATED", "R", <<HtmlWith(<<Cid("c1")>>), Image("i2", Absent, "x2"), Image("i1", "c1", "x1")>>),
      [File("k1", "k") EXCEPT !.sub = "PKCS7-MIME"], Undisposed(Image("i1", Absent, "x1")) }

\* What the writer makes of drafts.
Ref(to) == [cid |-> FALSE, to |-> to]
DraftHtml(refs) == {<<DataLine("h1", 0, refs)>>}
DraftText == {<<Line("p1"), DataLine("p2", 1, <<>>)>>}
Drafts ==
    { Draft(DraftText, {}, <<>>),
      Draft(DraftText, DraftHtml(<<Ref("i1")>>),
            <<DraftFile("i1", TRUE, TRUE, TRUE, <<Line("x1")>>), DraftFile("f1", FALSE, FALSE, TRUE, <<Line("a1")>>)>>),
      Draft(DraftText, DraftHtml(<<Ref("i1"), Ref("i2")>>),
            <<DraftFile("i1", TRUE, TRUE, TRUE, <<Line("x1")>>), DraftFile("i2", TRUE, TRUE, TRUE, <<Line("x2")>>)>>) }

MailOf(kind, msg) == [kind |-> kind, msg |-> msg]
Written == {emcore_make_rfc822_file_from_mail(d) : d \in Drafts}
Mails(messages) == {MailOf(kind, msg) : kind \in {"IMAP4", "POP3"}, msg \in messages}
Work(calls, faults, ids) == [calls |-> calls, faults |-> faults, ids |-> ids, wrong |-> {}]
MCEmls == {Alternatives, emcore_make_rfc822_file(Draft(DraftText, DraftHtml(<<>>), <<>>))}
AllCalls == {"body", "attachment"}
MCInit == \/ \E m \in Mails(Foreign) : InitWith(m, Work(AllCalls, 1, {}))
          \/ \E m \in Mails(Odd \cup Written) : InitWith(m, Work(AllCalls, 0, {}))
          \/ InitWith(MailOf("IMAP4", PlainText), Work({}, 1, {1, 2, 3})) /\ ~activity
MCSpec == MCInit /\ [][Next]_vars
=============================================================================
