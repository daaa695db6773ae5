------------------------------- MODULE RichText -------------------------------
(***************************************************************************)
(* From what is typed to what is stored and exported: the allowlist parser *)
(* and the conversions of drops/rich_text.py, and the two form fields that *)
(* call them.  A text is a sequence of tokens, as Python's HTMLParser      *)
(* reports them; attributes and characters that nothing tells apart are    *)
(* left out.  The module describes a text as it grows and checks what the  *)
(* functions make of it.                                                   *)
(***************************************************************************)
EXTENDS Naturals, Sequences, SequencesExt

CONSTANTS
    Tags,       \* tag names that occur, in lower case as the parser has them
    Chars,      \* pieces of text: among them " ", NewLine and Bullet
    MaxHtml,    \* tokens of a formatted text
    MaxPlain    \* characters of an unformatted one

VARIABLES
    format,     \* the field's _format: "html" from the editor, else "plain"
    value       \* the text so far

vars == <<format, value>>

NewLine == "nl"
Bullet  == "- "
Dash    == "-"
Blanks  == {" ", NewLine}

Start(t)    == <<"start", t>>
StartEnd(t) == <<"startend", t>>        \* <t/>
End(t)      == <<"end", t>>
Data(c)     == <<"data", c>>

IsData(token)  == token[1] = "data"
IsBlank(token) == IsData(token) /\ token[2] \in Blanks

AllowedTags     == {"p", "br", "strong", "em", "ul", "ol", "li"}
VoidTags        == {"br"}
HtmlVoidTags    == {"area", "base", "br", "col", "embed", "hr", "img", "input", "link",
                    "meta", "param", "source", "track", "wbr"}
DropContentTags == {"script", "style", "template", "iframe", "object", "embed"}

(* HTMLParser reads everything up to the matching end tag as data.         *)
RawTags == {"script", "style"}

ASSUME TagsAssumption ==
    /\ {" ", NewLine, Bullet} \subseteq Chars
    /\ MaxHtml \in Nat /\ MaxPlain \in Nat

Alias(t) == CASE t = "b"   -> "strong"
              [] t = "i"   -> "em"
              [] t = "div" -> "p"
              [] OTHER     -> t

-------------------------------------------------------------------------------
(* str.rstrip turns a line's "- " into "-"; str.strip does both ends.      *)
Dashed(s) == [i \in DOMAIN s |-> IF i = Len(s) /\ s[i] = Data(Bullet) THEN Data(Dash) ELSE s[i]]

RStrip(s) == Dashed(SubSeq(s, 1, SelectLastInSeq(s, LAMBDA x : ~IsBlank(x))))

Strip(s) == LET from == SelectInSeq(s, LAMBDA x : ~IsBlank(x))
            IN  IF from = 0 THEN <<>> ELSE RStrip(SubSeq(s, from, Len(s)))

-------------------------------------------------------------------------------
(* _SafeRichTextParser: its output, its stack of open elements and the     *)
(* elements whose content it drops.                                        *)

NewParser == [output |-> <<>>, stack |-> <<>>, blocked |-> <<>>]

Dropping(p, t) == p.blocked # <<>> \/ t \in DropContentTags

StartTagAny(p, t) ==      \* mutant: only dropped content is filtered out
    LET tag == Alias(t)
    IN  CASE Dropping(p, t) /\ t \notin HtmlVoidTags -> [p EXCEPT !.blocked = Append(@, t)]
          [] ~Dropping(p, t) ->
                [p EXCEPT !.output = Append(@, Start(tag)),
                          !.stack  = IF tag \in VoidTags THEN @ ELSE Append(@, tag)]
          [] OTHER -> p

StartTag(p, t) ==
    LET tag == Alias(t)
    IN  CASE Dropping(p, t) /\ t \notin HtmlVoidTags -> [p EXCEPT !.blocked = Append(@, t)]
          [] ~Dropping(p, t) /\ tag \in AllowedTags ->
                [p EXCEPT !.output = Append(@, Start(tag)),
                          !.stack  = IF tag \in VoidTags THEN @ ELSE Append(@, tag)]
          [] OTHER -> p

StartEndTag(p, t) == IF Dropping(p, t) THEN p ELSE StartTag(p, t)

(* A stack popped until t has come off, or to the bottom.                  *)
PopTo(s, t) == SubSeq(s, 1, IF Contains(s, t) THEN SelectLastInSeq(s, LAMBDA x : x = t) - 1 ELSE 0)

(* The end tags for the elements of a stack above depth n, innermost first.*)
Closing(s, n) == [i \in 1..(Len(s) - n) |-> End(s[Len(s) - i + 1])]

(* What an end tag does to a parser with n elements left in its stack.     *)
Close(p, n) == [p EXCEPT !.output = @ \o Closing(p.stack, n), !.stack = SubSeq(@, 1, n)]

EndTagLoose(p, t) ==      \* mutant: the elements opened inside it are not closed
    LET tag == Alias(t)
    IN  CASE p.blocked # <<>>  -> [p EXCEPT !.blocked = PopTo(@, t)]
          [] p.blocked = <<>> /\ Contains(p.stack, tag) ->
                [p EXCEPT !.output = Append(@, End(tag)), !.stack = PopTo(@, tag)]
          [] OTHER -> p

EndTagBlind(p, t) ==      \* mutant: any end tag ends the dropping
    LET tag == Alias(t)
    IN  CASE p.blocked # <<>>  -> [p EXCEPT !.blocked = <<>>]
          [] p.blocked = <<>> /\ Contains(p.stack, tag) -> Close(p, Len(PopTo(p.stack, tag)))
          [] OTHER -> p

EndTag(p, t) ==
    LET tag == Alias(t)
    IN  CASE p.blocked # <<>>  -> [p EXCEPT !.blocked = PopTo(@, t)]
          [] p.blocked = <<>> /\ Contains(p.stack, tag) -> Close(p, Len(PopTo(p.stack, tag)))
          [] OTHER -> p

HandleData(p, c) == IF p.blocked = <<>> THEN [p EXCEPT !.output = Append(@, Data(c))] ELSE p

Handle(p, token) ==
    CASE token[1] = "start"    -> StartTag(p, token[2])
      [] token[1] = "startend" -> StartEndTag(p, token[2])
      [] token[1] = "end"      -> EndTag(p, token[2])
      [] token[1] = "data"     -> HandleData(p, token[2])

(* The parser after each prefix of a text that is fed to it.               *)
Parsing(s) == LET at[i \in 0..Len(s)] == IF i = 0 THEN NewParser ELSE Handle(at[i - 1], s[i])
              IN  at

Fed(s) == Parsing(s)[Len(s)]

Sanitize(s) == Strip(Close(Fed(s), 0).output)

-------------------------------------------------------------------------------
(* plain_text_to_html, one character after the other: a newline ends a     *)
(* line, and when it follows one that did, the two end a paragraph.        *)
Converted(html, x) ==
    CASE x # Data(NewLine) -> Append(html, x)
      [] x = Data(NewLine) /\ Last(html) # Start("br") -> Append(html, Start("br"))
      [] x = Data(NewLine) /\ Last(html) = Start("br") ->
            Front(html) \o <<End("p"), Start("p")>>

Converting(s) ==
    LET html[i \in 0..Len(s)] == IF i = 0 THEN <<Start("p")>> ELSE Converted(html[i - 1], s[i])
    IN  html

PlainTextToHtml(s) == IF s = <<>> THEN <<>> ELSE Append(Converting(s)[Len(s)], End("p"))

(* _PlainTextParser: what a token of sanitized text is as plain text.      *)
PlainToken(token) ==
    CASE IsData(token)        -> <<token>>
      [] token = Start("li")  -> <<Data(NewLine), Data(Bullet)>>
      [] token \in {Start("p"), Start("br"), Start("ul"), Start("ol"),
                    End("p"), End("li"), End("ul"), End("ol")} -> <<Data(NewLine)>>
      [] OTHER                -> <<>>

(* str.splitlines of a text, and "\n".join.                                *)
Lines(s) == FoldLeft(LAMBDA ls, x : IF x = Data(NewLine)
                                    THEN Append(ls, <<>>)
                                    ELSE [ls EXCEPT ![Len(ls)] = Append(@, x)],
                     << <<>> >>, s)

Joined(ls) == FoldLeft(LAMBDA s, l : IF s = <<>> THEN l ELSE s \o <<Data(NewLine)>> \o l,
                       <<>>, ls)

CollapseNone(ls) == ls    \* mutant: blank lines are kept

Collapse(ls) ==
    FoldLeft(LAMBDA kept, l : IF l # <<>> \/ (kept # <<>> /\ kept[Len(kept)] # <<>>)
                              THEN Append(kept, l) ELSE kept,
             <<>>, ls)

(* "\n\n- " becomes "\n- "; collapsed lines leave nothing to repeat.       *)
TightBullets(s) ==
    LET Drop(i) == /\ i + 2 <= Len(s)
                   /\ SubSeq(s, i, i + 2) = <<Data(NewLine), Data(NewLine), Data(Bullet)>>
    IN  FoldLeftDomain(LAMBDA t, i : IF Drop(i) THEN t ELSE Append(t, s[i]), <<>>, s)

RichTextToPlainText(s) ==
    LET lines    == Lines(FlattenSeq([i \in DOMAIN s |-> PlainToken(s[i])]))
        stripped == [i \in DOMAIN lines |-> RStrip(lines[i])]
    IN  TightBullets(Strip(Joined(Collapse(stripped))))

-------------------------------------------------------------------------------
CleanRaw(f, s) ==         \* mutant: the editor's markup is trusted
    LET stripped == Strip(s)
        clean    == IF f = "html" THEN stripped ELSE PlainTextToHtml(stripped)
    IN  IF RichTextToPlainText(clean) = <<>> THEN <<>> ELSE clean


(* clean_instructions_text and clean_answer_text; <<>> is refused by the   *)
(* former and, unless there are files, by SubmissionForm.clean.  The limit *)
(* on the length is left out.                                              *)
Clean(f, s) ==
    LET stripped == Strip(s)
        clean    == IF f = "html" THEN Sanitize(stripped) ELSE PlainTextToHtml(stripped)
    IN  IF RichTextToPlainText(clean) = <<>> THEN <<>> ELSE clean

-------------------------------------------------------------------------------
(* The tokens HTMLParser can report after s.                               *)
LastTag(s) == LET i == SelectLastInSeq(s, LAMBDA x : ~IsData(x))
              IN  IF i = 0 THEN Data("") ELSE s[i]

Raw(s) == LastTag(s) \in {Start(t) : t \in RawTags}

Tokens(s) == {Data(c) : c \in Chars} \cup
             IF Raw(s) THEN {End(LastTag(s)[2])}
                       ELSE {Start(t) : t \in Tags} \cup {StartEnd(t) : t \in Tags}
                            \cup {End(t) : t \in Tags}

Init == /\ format \in {"html", "plain"}
        /\ value = <<>>

Mark == /\ format = "html"
        /\ Len(value) < MaxHtml
        /\ \E x \in Tokens(value) : value' = Append(value, x)
        /\ UNCHANGED format

Type == /\ format = "plain"
        /\ Len(value) < MaxPlain
        /\ \E c \in Chars : value' = Append(value, Data(c))
        /\ UNCHANGED format

Next == Mark \/ Type

Spec == Init /\ [][Next]_vars
-------------------------------------------------------------------------------
SafeTokens == {Data(c) : c \in Chars \cup {Dash}} \cup {Start(t) : t \in AllowedTags}
              \cup {End(t) : t \in AllowedTags \ VoidTags}

(* Whatever is typed, what is stored consists of text and allowed tags.    *)
TypeOK == /\ format \in {"html", "plain"}
          /\ Len(value) <= IF format = "html" THEN MaxHtml ELSE MaxPlain
          /\ ToSet(Clean(format, value)) \subseteq SafeTokens

(* The elements a reader has open after one more token; "mismatch" where   *)
(* an end tag matched none.                                                *)
Inside(open, x) ==
    CASE x[1] = "start" /\ x[2] \notin HtmlVoidTags -> Append(open, x[2])
      [] x[1] = "end" /\ open # <<>> /\ Last(open) = x[2] -> Front(open)
      [] x[1] = "end" /\ ~(open # <<>> /\ Last(open) = x[2]) -> <<"mismatch">> \o open
      [] OTHER -> open

(* Those open after each prefix of s.                                      *)
Nested(s) == LET open[i \in 0..Len(s)] == IF i = 0 THEN <<>> ELSE Inside(open[i - 1], s[i])
             IN  open

Nest(s) == Nested(s)[Len(s)]

(* However the tags of the input overlap, those of the output nest: what   *)
(* the parser believes open is open, and a finished text closes it all.    *)
WellNested ==
    format = "html" => /\ Nest(Fed(value).output) = Fed(value).stack
                       /\ Nest(Sanitize(value)) = <<>>

(* The export and the pages sanitize again what was stored; it must not    *)
(* change, whichever way it was typed.                                     *)
StoredIsFixed == Sanitize(Clean(format, value)) = Clean(format, value)

(* The text at some positions of s, after each prefix of it.               *)
Texts(s, positions) ==
    LET text[i \in 0..Len(s)] ==
            IF i = 0 THEN <<>>
            ELSE IF i \in positions /\ IsData(s[i]) THEN Append(text[i - 1], s[i])
            ELSE text[i - 1]
    IN  text

Text(s, positions) == Texts(s, positions)[Len(s)]

(* Positions by the book: those outside every dropped element.             *)
Visible(s) == {i \in DOMAIN s : ToSet(Nested(s)[i]) \cap DropContentTags = {}}

(* From input whose tags nest, the text of dropped elements and only that  *)
(* is lost, however deep they are and whatever else they contain.          *)
OnlyDroppedTextLost ==
    format = "html" /\ (\A i \in 0..Len(value) : ~Contains(Nested(value)[i], "mismatch"))
    => LET output == Fed(value).output
       IN  Text(output, DOMAIN output) = Text(value, Visible(value))

(* Unformatted text by the book: no blanks at line ends, one blank line at *)
(* most between paragraphs and none before an item.                        *)
Tidy(s) ==
    LET lines  == Lines(Strip(s))
        ls     == [i \in DOMAIN lines |-> RStrip(lines[i])]
        Item(l) == Len(l) > 1 /\ l[1] = Data(Bullet)
        Keep(i) == \/ ls[i] # <<>>
                   \/ /\ i > 1 /\ ls[i - 1] # <<>>
                      /\ \E j \in DOMAIN ls : /\ j > i /\ ls[j] # <<>> /\ ~Item(ls[j])
                                              /\ \A k \in i..(j - 1) : ls[k] = <<>>
    IN  Joined(FoldLeftDomain(LAMBDA t, i : IF Keep(i) THEN Append(t, ls[i]) ELSE t, <<>>, ls))

(* A text typed without the editor comes back from storage as it was, but  *)
(* for the layout of its blank lines.                                      *)
PlainRoundTrip ==
    format = "plain" => RichTextToPlainText(Clean(format, value)) = Tidy(value)

===============================================================================
