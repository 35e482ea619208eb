---------------------------- MODULE Extraction ----------------------------
(* The extractors of ingestion/extraction.py: a Markdown file becomes the  *)
(* sections under its headings, a PDF those of its pages, and a text file  *)
(* one section.  Parsing is external: a source is what the parser makes of *)
(* it.  A text is a line of characters, of which " " stands for any blank. *)
(* A line of Markdown is [level, pieces], level 0 for one that is no       *)
(* heading (a heading without text is none to the code, and the underline  *)
(* of a setext heading is a line of its own).  Its pieces are what         *)
(* str.splitlines makes of it: more than one when it holds a form feed,    *)
(* U+2028 or another break that is none to CommonMark.  A PDF that does not *)
(* open or is encrypted is refused before it is a source here.             *)
EXTENDS Naturals, Sequences, SequencesExt, FiniteSetsExt, Ordering

CONSTANTS
    MarkdownFiles,    \* sequences of lines
    PdfFiles,         \* sequences of pages: a text, or Broken
    Broken,           \* a page that pypdf fails to read
    MaxPdfPages

\* a word character, another mark, a blank
Characters == {"a", ".", " "}
Text == Seq(Characters)

Blank(text) == \A k \in DOMAIN text : text[k] = " "

ASSUME ExtractionAssumption ==
    /\ MaxPdfPages \in Nat \ {0}
    /\ \A file \in MarkdownFiles :
        /\ file \in Seq([level : 0 .. 6, pieces : Seq(Text)])
        /\ \A i \in DOMAIN file :
               /\ file[i].pieces # <<>>
               /\ file[i].level > 0 => ~Blank(FlattenSeq(file[i].pieces))
    /\ \A file \in PdfFiles : file \in Seq({Broken} \union Text)

VARIABLES
    media, source,    \* the document, from its store
    outcome,          \* how far it came, or the code of an IngestionError
    sections          \* list[ExtractedSection], each with the lines of its text

extractionVars == <<media, source, outcome, sections>>

NoPage == 0

\* text.splitlines(keepends=True): each piece with the line it comes from
Lines(file) ==
    FlattenSeq([i \in DOMAIN file |->
                   [k \in DOMAIN file[i].pieces |-> [line |-> i, piece |-> file[i].pieces[k]]]])

HasText(lines) == \E k \in DOMAIN lines : ~Blank(lines[k].piece)

\* (token.map[0], level, heading), in order
Headings(file) ==
    LET found == Ascending({i \in DOMAIN file : file[i].level > 0})
    IN  [k \in DOMAIN found |-> [line  |-> found[k],
                                level |-> file[found[k]].level,
                                piece |-> FlattenSeq(file[found[k]].pieces)]]

\* mutant: a heading of the same level stays on the stack
PushBelowEqual(stack, heading) ==
    LET depth == Max({0} \union {k \in DOMAIN stack : stack[k].level <= heading.level})
    IN  Append(SubSeq(stack, 1, depth), heading)

\* pop while the last level is not smaller, then push
Push(stack, heading) ==
    LET depth == Max({0} \union {k \in DOMAIN stack : stack[k].level < heading.level})
    IN  Append(SubSeq(stack, 1, depth), heading)

\* tuple(item[1] for item in heading_stack)
HeadingPath(headings, position) ==
    LET stack[k \in 0 .. position] == IF k = 0 THEN <<>> ELSE Push(stack[k - 1], headings[k])
    IN  stack[position]

\* mutant: a section reaches to the next heading of its level or above
NextSibling(headings, position, lines) ==
    LET siblings == {k \in position + 1 .. Len(headings) :
                        headings[k].level <= headings[position].level}
    IN  IF siblings = {} THEN Len(lines) + 1 ELSE headings[Min(siblings)].line

NextLine(headings, position, lines) ==
    IF position < Len(headings) THEN headings[position + 1].line ELSE Len(lines) + 1

\* mutant: the text before the first heading is dropped
NoPreamble(headings, lines) == <<>>

Preamble(headings, lines) ==
    LET body == SubSeq(lines, 1, headings[1].line - 1)
    IN  IF HasText(body) THEN <<[path |-> <<>>, page |-> NoPage, lines |-> body]>> ELSE <<>>

\* f"{heading}\n{body}", if there is a body
UnderHeading(headings, position, lines) ==
    LET heading == headings[position]
        body    == SubSeq(lines, heading.line + 1, NextLine(headings, position, lines) - 1)
    IN  IF HasText(body)
        THEN <<[path  |-> HeadingPath(headings, position),
                page  |-> NoPage,
                lines |-> <<[line |-> heading.line, piece |-> heading.piece]>> \o body]>>
        ELSE <<>>

MarkdownSections(file) ==
    LET lines    == Lines(file)
        headings == Headings(file)
    IN  IF headings = <<>> THEN <<[path |-> <<>>, page |-> NoPage, lines |-> lines]>>
        ELSE Preamble(headings, lines) \o
             FlattenSeq([k \in DOMAIN headings |-> UnderHeading(headings, k, lines)])

PageSection(page, text) ==
    IF Blank(text) THEN <<>>
    ELSE <<[path |-> <<>>, page |-> page, lines |-> <<[line |-> page, piece |-> text]>>]>>

PdfSections(file) == FlattenSeq([page \in DOMAIN file |-> PageSection(page, file[page])])

ExtractionInit ==
    /\ \/ media = "markdown" /\ source \in MarkdownFiles
       \/ media = "pdf" /\ source \in PdfFiles
    /\ outcome = "none" /\ sections = <<>>

Refuse(code) == outcome' = code /\ UNCHANGED <<media, source, sections>>

Extracted(found) ==
    outcome' = "sections" /\ sections' = found /\ UNCHANGED <<media, source>>

\* a text file is a file without headings
ExtractMarkdown ==
    /\ outcome = "none" /\ media = "markdown"
    /\ IF HasText(Lines(source))
       THEN Extracted(MarkdownSections(source))
       ELSE Refuse("no_extractable_text")

ExtractPdf ==
    /\ outcome = "none" /\ media = "pdf"
    /\ CASE Len(source) > MaxPdfPages   -> Refuse("pdf_page_limit_exceeded")
         [] Len(source) <= MaxPdfPages /\ Broken \in ToSet(source) -> Refuse("invalid_pdf")
         [] OTHER -> IF PdfSections(source) = <<>>
                     THEN Refuse("no_extractable_text")
                     ELSE Extracted(PdfSections(source))

SectionText(section) ==
    FlattenSeq([k \in DOMAIN section.lines |-> section.lines[k].piece \o <<" ">>])
===========================================================================
