----------------------------- MODULE Chunking -----------------------------
(* DocumentContentPreparer.prepare after extraction: sections are          *)
(* normalized, laid out in one text, and cut into overlapping windows of   *)
(* tokens by one of the two chunkers (ingestion/pipeline.py, chunking.py). *)
(* A text is a line of characters: "a" stands for any word character, "."  *)
(* for any other mark, " " for any blank.  Offsets count from 0, and a     *)
(* span ends before its end, as in the code.                               *)
EXTENDS Integers, Sequences, SequencesExt, FiniteSetsExt, Ordering

CONSTANT MaxSize    \* bound: the largest chunk_size_tokens explored

ASSUME ChunkingAssumption == MaxSize \in Nat

VARIABLES
    strategy, size, overlap,   \* chunking_strategy, chunk_size_tokens, chunk_overlap_tokens
    normalized,                \* list[NormalizedSection]: section is the number of the extracted one
    chunks                     \* list[Chunk]

settings == <<strategy, size, overlap>>
chunkingVars == <<settings, normalized, chunks>>

Marks(text) == {k \in DOMAIN text : text[k] # " "}

Strip(text) == SubSeq(text, Min(Marks(text)), Max(Marks(text)))

Slice(text, start, end) == SubSeq(text, start + 1, end)

\* TOKEN_PATTERN: a run of word characters, or one other mark
TokenStarts(text) ==
    {i \in 0 .. Len(text) - 1 :
        text[i + 1] = "." \/ (text[i + 1] = "a" /\ (i = 0 \/ text[i] # "a"))}

TokenEnd(text, start) ==
    IF text[start + 1] = "." THEN start + 1
    ELSE Min({k \in start + 1 .. Len(text) : k = Len(text) \/ text[k + 1] # "a"})

Tokens(text) ==
    LET starts == Ascending(TokenStarts(text))
    IN  [k \in DOMAIN starts |-> [start |-> starts[k], end |-> TokenEnd(text, starts[k])]]

\* mutant: the overlap skips tokens
SkippingStep == size + overlap
Step == size - overlap

\* mutant: windows go on after the one that reached the end
NeverStops(last, count) == FALSE
ReachesEnd(last, count) == last = count

\* Window p begins at token first(p).  The last one is the first to reach the
\* end, or to have none left to follow it.
Windows(text) ==
    LET tokens   == Tokens(text)
        count    == Len(tokens)
        first(p) == 1 + (p - 1) * Step
        last(p)  == Min({first(p) + size - 1, count})
        ends     == {p \in 1 .. count : ReachesEnd(last(p), count) \/ first(p + 1) > count}
        window(p) == [text  |-> Slice(text, tokens[first(p)].start, tokens[last(p)].end),
                      start |-> tokens[first(p)].start,
                      end   |-> tokens[last(p)].end]
    IN  IF tokens = <<>> THEN <<>> ELSE [p \in 1 .. Min(ends) |-> window(p)]

Separator == <<" ", " ">>

Join(texts) ==
    LET joined[k \in 0 .. Len(texts)] ==
            CASE k = 0 -> <<>>
              [] k = 1 -> texts[1]
              [] k > 1 -> joined[k - 1] \o Separator \o texts[k]
    IN  joined[Len(texts)]

\* mutant: the cursor takes the separator for one character
TightCursor(done) == IF done = <<>> THEN 0 ELSE Last(done).end + 1

\* room for the separator after every section
Cursor(done) == IF done = <<>> THEN 0 ELSE Last(done).end + 2

\* the section extracted k-th, unless it is blank, after those before it
AddSection(done, k, section) ==
    IF Marks(section) = {} THEN done
    ELSE LET text == Strip(section)
         IN  Append(done, [section |-> k, text |-> text,
                           start |-> Cursor(done), end |-> Cursor(done) + Len(text)])

NormalizeSections(sections) ==
    LET done[k \in 0 .. Len(sections)] ==
            IF k = 0 THEN <<>> ELSE AddSection(done[k - 1], k, sections[k])
    IN  done[Len(sections)]

\* _section_at_offset: the last section that starts no later
SectionAt(sections, offset) == Max({k \in DOMAIN sections : sections[k].start <= offset})

Locate(window, section, base) ==
    [text |-> window.text, section |-> section, start |-> base + window.start, end |-> base + window.end]

FixedWindowChunks(sections) ==
    LET windows == Windows(Join([k \in DOMAIN sections |-> sections[k].text]))
    IN  [k \in DOMAIN windows |-> Locate(windows[k], SectionAt(sections, windows[k].start), 0)]

SectionAwareChunks(sections) ==
    LET ChunksOf(k) ==
            LET windows == Windows(sections[k].text)
            IN  [i \in DOMAIN windows |-> Locate(windows[i], k, sections[k].start)]
    IN  FlattenSeq([k \in DOMAIN sections |-> ChunksOf(k)])

\* Settings.validate_chunking lets only an overlap below the size through.
ChunkingInit ==
    /\ strategy \in {"fixed_window", "section_aware"}
    /\ size \in 1 .. MaxSize /\ overlap \in 0 .. size - 1
    /\ normalized = <<>> /\ chunks = <<>>

Normalize(texts) == normalized' = NormalizeSections(texts) /\ UNCHANGED <<settings, chunks>>

Chunk ==
    /\ chunks' = IF strategy = "fixed_window"
                 THEN FixedWindowChunks(normalized)
                 ELSE SectionAwareChunks(normalized)
    /\ UNCHANGED <<settings, normalized>>
---------------------------------------------------------------------------
FullText == Join([k \in DOMAIN normalized |-> normalized[k].text])

Within(inner, outer) == outer.start <= inner.start /\ inner.end <= outer.end

\* the tokens of a document are those of its sections, where the locators say
TokensOf(k) ==
    {[start |-> normalized[k].start + t.start, end |-> normalized[k].start + t.end] :
        t \in ToSet(Tokens(normalized[k].text))}

\* what a chunk holds, in tokens of the whole document
TokensIn(chunk) ==
    {t \in UNION {TokensOf(k) : k \in DOMAIN normalized} : Within(t, chunk)}

\* Whether a citation points at its text: the offsets of a chunk, in the text
\* of all sections, give back its excerpt, and it begins in its own section.
ChunksAreLocated ==
    \A i \in DOMAIN chunks :
        LET section == normalized[chunks[i].section]
        IN  /\ Slice(FullText, chunks[i].start, chunks[i].end) = chunks[i].text
            /\ section.start <= chunks[i].start /\ chunks[i].start < section.end
            /\ strategy = "section_aware" => Within(chunks[i], section)

\* Consecutive windows of one text share exactly the overlap and each goes
\* beyond the one before: the last window is never a mere tail of another.
WindowsAdvance ==
    \A i \in DOMAIN chunks :
        /\ Cardinality(TokensIn(chunks[i])) \in 1 .. size
        /\ i > 1 /\ (strategy = "fixed_window" \/ chunks[i].section = chunks[i - 1].section) =>
               /\ Cardinality(TokensIn(chunks[i]) \intersect TokensIn(chunks[i - 1])) = overlap
               /\ chunks[i - 1].end < chunks[i].end
===========================================================================
