----------------------------- MODULE Pipeline -----------------------------
(* DocumentContentPreparer.prepare (ingestion/pipeline.py): a file becomes *)
(* sections (Extraction) and these become chunks (Chunking).  The          *)
(* properties follow a character all the way, from the line or page of the *)
(* source to the chunk that a search returns and a citation locates.       *)
EXTENDS Extraction, Chunking

vars == <<extractionVars, chunkingVars>>

Init == ExtractionInit /\ ChunkingInit

Extract == (ExtractMarkdown \/ ExtractPdf) /\ UNCHANGED chunkingVars

\* a Markdown file of headings only has no sections
NormalizeExtracted ==
    /\ outcome = "sections"
    /\ Normalize([s \in DOMAIN sections |-> SectionText(sections[s])])
    /\ outcome' = IF normalized' = <<>> THEN "no_extractable_text" ELSE "normalized"
    /\ UNCHANGED <<media, source, sections>>

ChunkNormalized ==
    /\ outcome = "normalized" /\ Chunk
    /\ outcome' = IF chunks' = <<>> THEN "no_extractable_text" ELSE "chunks"
    /\ UNCHANGED <<media, source, sections>>

Next == Extract \/ NormalizeExtracted \/ ChunkNormalized

Spec == Init /\ [][Next]_vars
---------------------------------------------------------------------------
\* for each character of a section's text, the line it comes from
LineOrigins(section) ==
    FlattenSeq([k \in DOMAIN section.lines |->
                   [c \in 1 .. Len(section.lines[k].piece) + 1 |-> section.lines[k].line]])

\* and for each of its normalized text
OriginsOf(section) ==
    LET marks == Marks(SectionText(section))
    IN  SubSeq(LineOrigins(section), Min(marks), Max(marks))

\* the same for the text of the whole document
Origins == Join([k \in DOMAIN normalized |-> OriginsOf(sections[normalized[k].section])])

\* where the tokens of a chunk come from
Places(chunk) ==
    {Origins[k + 1] : k \in {start \in TokenStarts(FullText) : chunk.start <= start /\ start < chunk.end}}

\* a heading encloses itself and what follows, up to the next that is as high
Encloses(i, j) ==
    /\ i <= j /\ source[i].level > 0
    /\ \A k \in i + 1 .. j : source[k].level = 0 \/ source[i].level < source[k].level

\* outermost first
Chain(place) == Ascending({i \in DOMAIN source : Encloses(i, place)})

\* no line holds a break that is none to CommonMark: see pipeline_linebreaks
Unbroken(file) == \A i \in DOMAIN file : Len(file[i].pieces) = 1

UnbrokenLines == \A file \in MarkdownFiles : Unbroken(file)

\* A citation names its place: the section path of a chunk is the chain of
\* headings that enclose its first token in the source, outermost first, and
\* its page number the page of that token.
CitationsNameTheirPlace ==
    \A i \in DOMAIN chunks :
        LET place == Origins[chunks[i].start + 1]
            cited == sections[normalized[chunks[i].section].section]
        IN  IF media = "pdf" THEN cited.page = place
            ELSE [n \in DOMAIN cited.path |-> cited.path[n].line] = Chain(place)

\* Section-aware chunking never lets a chunk cross a Markdown heading or a
\* PDF page boundary.
ChunksKeepWithinHeadings ==
    strategy = "section_aware" =>
        \A i \in DOMAIN chunks : \A p, q \in Places(chunks[i]) :
            IF media = "pdf" THEN p = q ELSE Chain(p) = Chain(q)

TextOf(i) ==
    IF media = "pdf" THEN source[i]
    ELSE FlattenSeq([k \in DOMAIN source[i].pieces |-> source[i].pieces[k] \o <<" ">>])

\* the lines and pages with text, other than headings
BodyLines == {i \in DOMAIN source : ~Blank(TextOf(i)) /\ (media = "pdf" \/ source[i].level = 0)}

\* Every token of every line and page is in the text of the document, and
\* just once, whatever the headings.
NoTokenIsLost ==
    chunks # <<>> =>
        LET found   == ToSet(Tokens(FullText))
            origins == Origins
        IN  \A i \in BodyLines :
                Cardinality({t \in found : origins[t.start + 1] = i}) = Len(Tokens(TextOf(i)))

\* Every token of the text is in a chunk, whatever the sections, the size and
\* the overlap: what is indexed can be found, and a document without chunks
\* has no words.
ChunksCoverTheText ==
    outcome \in {"chunks", "no_extractable_text"} =>
        \A t \in ToSet(Tokens(FullText)) : \E i \in DOMAIN chunks : Within(t, chunks[i])

\* An upload is refused for want of text only if no line or page of it, other
\* than headings, has any: a Markdown file of headings alone is refused.
OnlyEmptyFilesAreRefused == outcome = "no_extractable_text" => BodyLines = {}
===========================================================================
