--------------------------- MODULE PipelineProofs ---------------------------
(* What a chunk cites, for any file, however long, and any size and         *)
(* overlap: its offsets give back its text, consecutive chunks share the    *)
(* overlap and nothing else, its path is that of the headings around it,    *)
(* and no token of the file is without a chunk.                            *)
EXTENDS Pipeline, OrderingProofs

(* Tokens *)

LEMMA TokensStart ==
    ASSUME NEW text \in Text
    PROVE  /\ Len(text) \in Nat /\ TokenStarts(text) \in SUBSET (0 .. Len(text))
           /\ \A i \in TokenStarts(text) :
               /\ i \in 0 .. Len(text) - 1 /\ i + 1 \in 1 .. Len(text)
               /\ text[i + 1] = "." \/ text[i + 1] = "a"
<1>1. Len(text) \in Nat
  BY DEF Text
<1>2. ASSUME NEW i \in TokenStarts(text)
      PROVE  i \in 0 .. Len(text) - 1 /\ (text[i + 1] = "." \/ text[i + 1] = "a")
  BY DEF TokenStarts
<1>3. ASSUME NEW i \in 0 .. Len(text) - 1 PROVE i \in 0 .. Len(text) /\ i + 1 \in 1 .. Len(text)
  BY <1>1
<1>. QED  BY <1>1, <1>2, <1>3

\* where a token ends: at once, or with the run of word characters
LEMMA TokensEnd ==
    ASSUME NEW text \in Text, NEW i \in TokenStarts(text)
    PROVE  /\ i \in 0 .. Len(text) - 1
           /\ TokenEnd(text, i) \in i + 1 .. Len(text)
           /\ text[i + 1] = "." => TokenEnd(text, i) = i + 1
           /\ text[i + 1] = "a" => \A j \in i + 1 .. TokenEnd(text, i) : text[j] = "a"
           /\ text[i + 1] = "a" /\ TokenEnd(text, i) < Len(text) => text[TokenEnd(text, i) + 1] # "a"
<1>. DEFINE stops == {k \in i + 1 .. Len(text) : k = Len(text) \/ text[k + 1] # "a"}
<1>1. /\ Len(text) \in Nat /\ i \in 0 .. Len(text) - 1
      /\ text[i + 1] = "." \/ text[i + 1] = "a"
  BY TokensStart
<1>2. CASE text[i + 1] = "."
  <2>1. TokenEnd(text, i) = i + 1
    BY <1>2 DEF TokenEnd
  <2>. QED  BY <1>1, <1>2, <2>1
<1>3. CASE text[i + 1] = "a"
  <2>1. TokenEnd(text, i) = Min(stops)
    BY <1>3 DEF TokenEnd
  <2>2. stops \in SUBSET Nat /\ stops # {} /\ \A k \in stops : k <= Len(text)
    <3>1. Len(text) \in stops
      BY <1>1
    <3>2. \A k \in stops : k \in Nat
      BY <1>1
    <3>. QED  BY <1>1, <3>1, <3>2
  <2>. DEFINE e == Min(stops)
  <2>3. e \in stops /\ \A k \in stops : e <= k
    BY <1>1, <2>2, ExtremesExist
  <2>. HIDE DEF e
  <2>4. ASSUME NEW j \in i + 1 .. e PROVE text[j] = "a"
    <3>1. CASE j = i + 1
      BY <1>3, <3>1
    <3>2. CASE j # i + 1
      <4>1. j - 1 \in i + 1 .. Len(text) /\ j - 1 < e /\ (j - 1) + 1 = j /\ j - 1 # Len(text)
        BY <1>1, <2>3, <3>2
      <4>2. j - 1 \notin stops
        BY <2>3, <4>1
      <4>. QED  BY <4>1, <4>2
    <3>. QED  BY <3>1, <3>2
  <2>5. TokenEnd(text, i) = e
    BY <2>1 DEF e
  <2>6. e \in i + 1 .. Len(text) /\ (e < Len(text) => text[e + 1] # "a")
    BY <1>1, <2>3
  <2>. QED  BY <1>1, <1>3, <2>4, <2>5, <2>6
<1>. QED  BY <1>1, <1>2, <1>3

\* the tokens of a text: all of them, in order, apart from each other
AreTokens(tokens, text) ==
    /\ tokens \in [1 .. Len(tokens) -> [start : Nat, end : Nat]]
    /\ \A k \in 1 .. Len(tokens) :
        /\ tokens[k].start \in TokenStarts(text)
        /\ tokens[k].end = TokenEnd(text, tokens[k].start)
        /\ tokens[k].start < tokens[k].end /\ tokens[k].end <= Len(text)
    /\ \A i \in TokenStarts(text) : \E k \in 1 .. Len(tokens) : tokens[k].start = i
    /\ \A j, k \in 1 .. Len(tokens) : j < k => tokens[j].end <= tokens[k].start

LEMMA TokensAreApart ==
    ASSUME NEW text \in Text, NEW i \in TokenStarts(text), NEW j \in TokenStarts(text), i < j
    PROVE  TokenEnd(text, i) <= j
<1>1. /\ i \in Nat /\ j \in Nat /\ TokenEnd(text, i) \in Nat
      /\ text[i + 1] = "." \/ text[i + 1] = "a"
  <2>1. i \in 0 .. Len(text) - 1 /\ j \in 0 .. Len(text) - 1 /\ Len(text) \in Nat
    BY TokensStart
  <2>2. TokenEnd(text, i) \in i + 1 .. Len(text)
    BY TokensEnd
  <2>. QED  BY <2>1, <2>2, TokensStart
<1>2. SUFFICES ASSUME TokenEnd(text, i) > j PROVE FALSE
  BY <1>1
<1>3. text[i + 1] = "a"
  BY <1>1, <1>2, TokensEnd
<1>4. j \in i + 1 .. TokenEnd(text, i) /\ j + 1 \in i + 1 .. TokenEnd(text, i)
  BY <1>1, <1>2
<1>5. text[j] = "a" /\ text[j + 1] = "a"
  BY <1>3, <1>4, TokensEnd
<1>6. j # 0
  BY <1>1
<1>. QED  BY <1>5, <1>6 DEF TokenStarts

LEMMA TokensAreInOrder ==
    ASSUME NEW text \in Text
    PROVE  Len(Tokens(text)) \in Nat /\ AreTokens(Tokens(text), text)
<1>. DEFINE S      == TokenStarts(text)
            starts == Ascending(S)
            n      == Cardinality(S)
            tokens == Tokens(text)
<1>1. Len(text) \in Nat /\ S \in SUBSET (0 .. Len(text))
  BY TokensStart
<1>2. /\ n \in Nat /\ starts \in [1 .. n -> S]
      /\ \A c \in S : \E p \in 1 .. n : starts[p] = c
      /\ \A p, q \in 1 .. n : p < q <=> starts[p] < starts[q]
  BY <1>1, AscendingIsSorted
<1>3. tokens = [k \in DOMAIN starts |-> [start |-> starts[k], end |-> TokenEnd(text, starts[k])]]
  BY DEF Tokens
<1>4. DOMAIN starts = 1 .. n
  BY <1>2
<1>5. tokens = [k \in 1 .. n |-> [start |-> starts[k], end |-> TokenEnd(text, starts[k])]]
  BY <1>3, <1>4
<1>6. ASSUME NEW k \in 1 .. n
      PROVE  /\ starts[k] \in S /\ starts[k] \in Nat
             /\ TokenEnd(text, starts[k]) \in Nat
             /\ starts[k] < TokenEnd(text, starts[k]) /\ TokenEnd(text, starts[k]) <= Len(text)
  <2>1. PICK i \in S : i = starts[k]
    BY <1>2
  <2>2. i \in 0 .. Len(text) - 1 /\ TokenEnd(text, i) \in i + 1 .. Len(text)
    BY TokensEnd
  <2>. QED  BY <1>1, <2>1, <2>2
<1>. HIDE DEF S, n, starts, tokens
<1>7. Len(tokens) = n
  BY <1>2, <1>5
<1>8. ASSUME NEW j \in 1 .. n, NEW k \in 1 .. n, j < k PROVE tokens[j].end <= tokens[k].start
  <2>1. starts[j] \in S /\ starts[k] \in S /\ starts[j] < starts[k]
    BY <1>2, <1>8
  <2>2. TokenEnd(text, starts[j]) <= starts[k]
    BY <2>1, TokensAreApart DEF S
  <2>. QED  BY <1>5, <2>2
<1>9. tokens \in [1 .. n -> [start : Nat, end : Nat]]
  BY <1>5, <1>6
<1>10. ASSUME NEW k \in 1 .. n
       PROVE  /\ tokens[k].start = starts[k] /\ tokens[k].end = TokenEnd(text, starts[k])
              /\ starts[k] \in S /\ starts[k] < TokenEnd(text, starts[k])
              /\ TokenEnd(text, starts[k]) <= Len(text)
  BY <1>5, <1>6
<1>11. ASSUME NEW i \in S PROVE \E k \in 1 .. n : tokens[k].start = i
  BY <1>2, <1>10
<1>12. AreTokens(tokens, text)
  BY <1>7, <1>8, <1>9, <1>10, <1>11 DEF AreTokens, S
<1>. QED  BY <1>2, <1>7, <1>12 DEF tokens
---------------------------------------------------------------------------
(* Windows *)

Sized == size \in Nat \ {0} /\ overlap \in 0 .. size - 1

\* the first and the last token of window p
First(p) == 1 + (p - 1) * Step
Final(p, count) == Min({First(p) + size - 1, count})

LEMMA FirstsGrow ==
    ASSUME Sized
    PROVE  /\ Step \in Nat \ {0} /\ Step = size - overlap /\ First(1) = 1
           /\ \A p \in Nat \ {0} : /\ First(p) \in Nat \ {0} /\ First(p) >= p
                                   /\ First(p + 1) = First(p) + Step
<1>1. Step \in Nat \ {0} /\ Step = size - overlap
  BY DEF Sized, Step
<1>. DEFINE s == Step
<1>. HIDE DEF s
<1>2. ASSUME NEW q \in Nat PROVE q * s \in Nat /\ q * s >= q
  <2>1. s \in Nat /\ s >= 1
    BY <1>1 DEF s
  <2>2. PICK t \in Nat : s = t + 1
    <3>1. s - 1 \in Nat /\ s = (s - 1) + 1
      BY <2>1
    <3>. QED  BY <3>1
  <2>3. q * t \in Nat /\ q * (t + 1) = q * t + q
    OBVIOUS
  <2>. QED  BY <2>2, <2>3
<1>3. ASSUME NEW p \in Nat \ {0}
      PROVE  /\ First(p) \in Nat \ {0} /\ First(p) >= p
             /\ First(p + 1) = First(p) + Step
  <2>1. p - 1 \in Nat /\ s \in Nat
    BY <1>1 DEF s
  <2>2. (p - 1) * s \in Nat /\ (p - 1) * s >= p - 1
    BY <1>2, <2>1
  <2>3. First(p) = 1 + (p - 1) * s /\ First(p + 1) = 1 + ((p + 1) - 1) * s
    BY DEF First, s
  <2>4. ((p + 1) - 1) * s = (p - 1) * s + s
    <3>1. (p + 1) - 1 = (p - 1) + 1
      BY <2>1
    <3>2. \A q \in Nat : (q + 1) * s = q * s + s
      BY <2>1
    <3>. QED  BY <2>1, <3>1, <3>2
  <2>5. s = Step
    BY DEF s
  <2>. QED  BY <2>1, <2>2, <2>3, <2>4, <2>5
<1>4. First(1) = 1
  <2>1. 0 * s = 0
    BY <1>1 DEF s
  <2>. QED  BY <2>1 DEF First, s
<1>. QED  BY <1>1, <1>3, <1>4

LEMMA FinalIsTheSmaller ==
    ASSUME Sized, NEW p \in Nat \ {0}, NEW count \in Nat, First(p) <= count
    PROVE  /\ Final(p, count) \in First(p) .. count
           /\ Final(p, count) <= First(p) + size - 1
           /\ Final(p, count) = First(p) + size - 1 \/ Final(p, count) = count
<1>. DEFINE ends == {First(p) + size - 1, count}
<1>1. First(p) \in Nat /\ First(p) + size - 1 \in Nat /\ First(p) + size - 1 >= First(p)
  BY FirstsGrow DEF Sized
<1>2. ends \in SUBSET Nat /\ ends # {} /\ \A x \in ends : x <= First(p) + size - 1 + count
  BY <1>1
<1>3. First(p) + size - 1 + count \in Nat
  BY <1>1
<1>4. Min(ends) \in ends /\ \A x \in ends : Min(ends) <= x
  BY <1>2, <1>3, ExtremesExist
<1>5. Final(p, count) = Min(ends)
  BY DEF Final
<1>. HIDE DEF ends
<1>6. Final(p, count) \in ends /\ \A x \in ends : Final(p, count) <= x
  BY <1>4, <1>5
<1>7. /\ Final(p, count) = First(p) + size - 1 \/ Final(p, count) = count
      /\ Final(p, count) <= First(p) + size - 1 /\ Final(p, count) <= count
  BY <1>6 DEF ends
<1>. QED  BY <1>1, <1>7

\* Each window is a run of tokens, and each but the last is full.
AreWindows(windows, text) ==
    LET tokens == Tokens(text)
        count  == Len(tokens)
    IN  /\ Len(windows) \in Nat /\ DOMAIN windows = 1 .. Len(windows)
        /\ \A p \in 1 .. Len(windows) :
            /\ First(p) \in 1 .. count /\ Final(p, count) \in First(p) .. count
            /\ Final(p, count) <= First(p) + size - 1
            /\ windows[p] = [text  |-> Slice(text, tokens[First(p)].start, tokens[Final(p, count)].end),
                             start |-> tokens[First(p)].start,
                             end   |-> tokens[Final(p, count)].end]
        /\ \A p \in 1 .. Len(windows) - 1 :
            /\ Final(p, count) = First(p) + size - 1 /\ Final(p, count) < count
            /\ First(p + 1) = First(p) + Step
        /\ Len(windows) = 0 => count = 0
        /\ Len(windows) # 0 => Final(Len(windows), count) = count

LEMMA WindowsAreRuns ==
    ASSUME Sized, NEW text \in Text
    PROVE  AreWindows(Windows(text), text)
<1>. DEFINE tokens == Tokens(text)
            count  == Len(tokens)
            Over(p) == ReachesEnd(Final(p, count), count) \/ First(p + 1) > count
            ends == {p \in 1 .. count : Over(p)}
            Window(p) == [text  |-> Slice(text, tokens[First(p)].start, tokens[Final(p, count)].end),
                          start |-> tokens[First(p)].start,
                          end   |-> tokens[Final(p, count)].end]
            windows == IF tokens = <<>> THEN <<>> ELSE [p \in 1 .. Min(ends) |-> Window(p)]
<1>1. Windows(text) = windows
  BY DEF Windows, First, Final
<1>2. count \in Nat /\ tokens \in [1 .. count -> [start : Nat, end : Nat]]
  BY TokensAreInOrder DEF AreTokens
<1>3. CASE tokens = <<>>
  <2>1. windows = <<>> /\ Len(windows) = 0 /\ DOMAIN windows = 1 .. Len(windows)
    BY <1>3
  <2>2. count = 0
    BY <1>3
  <2>. HIDE DEF windows
  <2>. QED  BY <1>1, <2>1, <2>2 DEF AreWindows
<1>4. CASE tokens # <<>>
  <2>. DEFINE m == Min(ends)
  <2>1. count >= 1
    BY <1>2, <1>4
  <2>2. ends \in SUBSET Nat /\ ends # {} /\ \A p \in ends : p <= count
    <3>1. count + 1 \in Nat \ {0}
      BY <1>2
    <3>2. First(count + 1) >= count + 1 /\ First(count + 1) \in Nat
      BY <3>1, FirstsGrow
    <3>3. count \in ends
      BY <1>2, <2>1, <3>1, <3>2
    <3>4. \A p \in ends : p \in Nat /\ p <= count
      BY <1>2
    <3>. QED  BY <3>3, <3>4
  <2>3. m \in ends /\ \A p \in ends : m <= p
    BY <1>2, <2>2, ExtremesExist
  <2>4. m \in 1 .. count
    BY <2>3
  <2>5. windows = [p \in 1 .. m |-> Window(p)]
    BY <1>4
  <2>. HIDE DEF m, ends
  <2>6. ASSUME NEW p \in 1 .. m PROVE First(p) \in 1 .. count
    <3>1. CASE p = 1
      BY <1>2, <2>1, <3>1, FirstsGrow
    <3>2. CASE p # 1
      <4>1. p - 1 \in 1 .. count /\ p - 1 < m /\ (p - 1) + 1 = p
        BY <1>2, <2>4, <3>2
      <4>2. p - 1 \notin ends
        BY <2>3, <2>4, <4>1
      <4>3. ~ Over(p - 1)
        BY <4>1, <4>2 DEF ends
      <4>4. ~ (First(p) > count)
        BY <4>1, <4>3
      <4>5. First(p) \in Nat \ {0}
        <5>1. p \in Nat \ {0}
          BY <2>4
        <5>. QED  BY <5>1, FirstsGrow
      <4>. QED  BY <1>2, <4>4, <4>5
    <3>. QED  BY <3>1, <3>2
  <2>7. ASSUME NEW p \in 1 .. m
        PROVE  /\ Final(p, count) \in First(p) .. count
               /\ Final(p, count) <= First(p) + size - 1
               /\ Final(p, count) = First(p) + size - 1 \/ Final(p, count) = count
    <3>1. p \in Nat \ {0} /\ First(p) <= count
      BY <1>2, <2>4, <2>6
    <3>. QED  BY <1>2, <3>1, FinalIsTheSmaller
  <2>8. ASSUME NEW p \in 1 .. m - 1
        PROVE  /\ Final(p, count) = First(p) + size - 1 /\ Final(p, count) < count
               /\ First(p + 1) = First(p) + Step
    <3>1. p \in 1 .. m /\ p \in 1 .. count /\ p < m /\ p \in Nat \ {0}
      BY <1>2, <2>4
    <3>2. p \notin ends
      BY <2>3, <2>4, <3>1
    <3>3. ~ ReachesEnd(Final(p, count), count)
      BY <3>1, <3>2 DEF ends
    <3>4. Final(p, count) # count
      BY <3>3 DEF ReachesEnd
    <3>5. Final(p, count) \in First(p) .. count /\ First(p) \in 1 .. count
      BY <2>6, <2>7, <3>1
    <3>6. First(p + 1) = First(p) + Step
      BY <3>1, FirstsGrow
    <3>7. Final(p, count) = First(p) + size - 1
      BY <2>7, <3>1, <3>4
    <3>8. Final(p, count) < count
      BY <1>2, <3>4, <3>5
    <3>. QED  BY <3>6, <3>7, <3>8
  \* where no token would begin the next window, this one reached the end
  <2>9. Final(m, count) = count
    <3>1. CASE ReachesEnd(Final(m, count), count)
      BY <3>1 DEF ReachesEnd
    <3>2. CASE First(m + 1) > count
      <4>1. First(m + 1) = First(m) + (size - overlap) /\ First(m) \in Nat
        <5>1. m \in Nat \ {0}
          BY <2>4
        <5>. QED  BY <5>1, FirstsGrow
      <4>2. m \in 1 .. m
        BY <2>4
      <4>3. /\ Final(m, count) \in First(m) .. count
            /\ Final(m, count) = First(m) + size - 1 \/ Final(m, count) = count
        BY <2>7, <4>2
      <4>4. size \in Nat \ {0} /\ overlap \in 0 .. size - 1
        BY DEF Sized
      <4>. QED  BY <1>2, <3>2, <4>1, <4>3, <4>4
    <3>3. Over(m)
      BY <2>3 DEF ends
    <3>. QED  BY <3>1, <3>2, <3>3
  <2>. HIDE DEF windows
  <2>10. Len(windows) = m /\ DOMAIN windows = 1 .. m /\ m \in Nat /\ m # 0
    BY <2>4, <2>5
  <2>11. ASSUME NEW p \in 1 .. m PROVE windows[p] = Window(p)
    BY <2>5
  <2>. QED  BY <1>1, <2>6, <2>7, <2>8, <2>9, <2>10, <2>11 DEF AreWindows
<1>. QED  BY <1>3, <1>4
---------------------------------------------------------------------------
(* Layout *)

SectionRecord == [section : Nat, text : Text, start : Nat, end : Nat]

\* sections one after the other, each with room for the separator before it
IsLaidOut(list) ==
    \A k \in 1 .. Len(list) :
        /\ list[k].end = list[k].start + Len(list[k].text)
        /\ list[k].start = IF k = 1 THEN 0 ELSE list[k - 1].end + 2

Layouts == {list \in Seq(SectionRecord) : IsLaidOut(list)}

LEMMA MarksAreInside ==
    ASSUME NEW text \in Text
    PROVE  /\ Len(text) \in Nat /\ Marks(text) \in SUBSET (1 .. Len(text))
           /\ Marks(text) # {} => /\ Min(Marks(text)) \in Marks(text) /\ Max(Marks(text)) \in Marks(text)
                                  /\ \A k \in Marks(text) : Min(Marks(text)) <= k /\ k <= Max(Marks(text))
<1>1. Len(text) \in Nat /\ DOMAIN text = 1 .. Len(text)
  BY LenProperties DEF Text
<1>2. Marks(text) \in SUBSET (1 .. Len(text))
  BY <1>1 DEF Marks
<1>. DEFINE M == Marks(text)
<1>. HIDE DEF M
<1>3. M \in SUBSET Nat /\ \A k \in M : k <= Len(text)
  BY <1>1, <1>2 DEF M
<1>4. M # {} => /\ Min(M) \in M /\ Max(M) \in M
                /\ \A k \in M : Min(M) <= k /\ k <= Max(M)
  BY <1>1, <1>3, ExtremesExist
<1>. QED  BY <1>1, <1>2, <1>4 DEF M

LEMMA StripIsText ==
    ASSUME NEW text \in Text, Marks(text) # {}
    PROVE  Strip(text) \in Text /\ Len(Strip(text)) \in Nat
<1>. DEFINE a == Min(Marks(text))
            b == Max(Marks(text))
<1>1. a \in 1 .. Len(text) /\ b \in 1 .. Len(text) /\ Len(text) \in Nat
  BY MarksAreInside
<1>2. \A i \in a .. b : text[i] \in Characters
  <2>1. text \in Seq(Characters)
    BY DEF Text
  <2>. HIDE DEF a, b
  <2>2. \A i \in a .. b : i \in 1 .. Len(text)
    BY <1>1
  <2>. QED  BY <2>1, <2>2, ElementOfSeq
<1>3. Strip(text) = SubSeq(text, a, b)
  BY DEF Strip
<1>. HIDE DEF a, b
<1>4. SubSeq(text, a, b) \in Seq(Characters)
  BY <1>1, <1>2, SubSeqProperties
<1>5. Strip(text) \in Seq(Characters)
  BY <1>3, <1>4
<1>. QED  BY <1>5, LenProperties DEF Text

LEMMA AddSectionLaysOut ==
    ASSUME NEW done \in Layouts, NEW k \in Nat, NEW section \in Text
    PROVE  AddSection(done, k, section) \in Layouts
<1>1. CASE Marks(section) = {}
  BY <1>1 DEF AddSection
<1>2. CASE Marks(section) # {}
  <2>. DEFINE text   == Strip(section)
              cursor == Cursor(done)
              n      == Len(done)
              new    == [section |-> k, text |-> text, start |-> cursor, end |-> cursor + Len(text)]
              longer == Append(done, new)
  <2>1. text \in Text /\ Len(text) \in Nat
    BY <1>2, StripIsText
  <2>2. done \in Seq(SectionRecord) /\ IsLaidOut(done)
    BY DEF Layouts
  <2>3. n \in Nat /\ (n = 0 <=> done = <<>>)
    BY <2>2, LenProperties, EmptySeq
  <2>4. \A j \in 1 .. n : done[j] \in SectionRecord
    BY <2>2, ElementOfSeq
  <2>5. cursor = IF n = 0 THEN 0 ELSE done[n].end + 2
    BY <2>3 DEF Cursor, Last
  <2>6. cursor \in Nat
    BY <2>3, <2>4, <2>5 DEF SectionRecord
  <2>7. new \in SectionRecord
    BY <2>1, <2>6 DEF SectionRecord
  <2>. HIDE DEF new
  <2>8. /\ longer \in Seq(SectionRecord) /\ Len(longer) = n + 1
        /\ \A j \in 1 .. n : longer[j] = done[j]
        /\ longer[n + 1] = new
    BY <2>2, <2>7, AppendProperties
  <2>. HIDE DEF longer
  <2>9. ASSUME NEW j \in 1 .. Len(longer)
        PROVE  /\ longer[j].end = longer[j].start + Len(longer[j].text)
               /\ longer[j].start = IF j = 1 THEN 0 ELSE longer[j - 1].end + 2
    <3>1. CASE j \in 1 .. n
      <4>1. longer[j] = done[j]
        BY <2>8, <3>1
      <4>2. j # 1 => longer[j - 1] = done[j - 1]
        BY <2>3, <2>8, <3>1
      <4>. QED  BY <2>2, <3>1, <4>1, <4>2 DEF IsLaidOut
    <3>2. CASE j = n + 1
      <4>1. longer[j] = new /\ j - 1 = n
        BY <2>3, <2>8, <3>2
      <4>2. n # 0 => longer[n] = done[n]
        BY <2>3, <2>8
      <4>3. longer[j].text = text /\ longer[j].start = cursor /\ longer[j].end = cursor + Len(text)
        BY <4>1 DEF new
      <4>4. j = 1 <=> n = 0
        BY <2>3, <3>2
      <4>. HIDE DEF text, cursor
      <4>. QED  BY <2>5, <4>1, <4>2, <4>3, <4>4
    <3>. QED  BY <2>3, <2>8, <3>1, <3>2
  <2>10. longer \in Layouts
    BY <2>8, <2>9 DEF Layouts, IsLaidOut
  <2>11. AddSection(done, k, section) = longer
    BY <1>2 DEF AddSection, longer, new
  <2>. QED  BY <2>10, <2>11
<1>. QED  BY <1>1, <1>2

LEMMA SectionsAreLaidOut ==
    ASSUME NEW texts \in Seq(Text)
    PROVE  NormalizeSections(texts) \in Layouts
<1>. DEFINE n == Len(texts)
            step == [k \in 1 .. n |-> [done \in Layouts |-> AddSection(done, k, texts[k])]]
            none == <<>>
            loop == CHOOSE f : f = [k \in 0 .. n |-> IF k = 0 THEN <<>>
                                                     ELSE AddSection(f[k - 1], k, texts[k])]
<1>1. n \in Nat /\ \A k \in 1 .. n : texts[k] \in Text
  BY LenProperties, ElementOfSeq
<1>2. none \in Layouts
  <2>1. none \in Seq(SectionRecord) /\ Len(none) = 0
    BY EmptySeq
  <2>. HIDE DEF none
  <2>. QED  BY <2>1 DEF Layouts, IsLaidOut
<1>3. step \in [1 .. n -> [Layouts -> Layouts]]
  <2>1. ASSUME NEW k \in 1 .. n, NEW done \in Layouts PROVE AddSection(done, k, texts[k]) \in Layouts
    BY <1>1, AddSectionLaysOut
  <2>. HIDE DEF n
  <2>. QED  BY <2>1
<1>4. ASSUME NEW k \in 1 .. n, NEW done \in Layouts PROVE step[k][done] = AddSection(done, k, texts[k])
  OBVIOUS
<1>. HIDE DEF n, step, none
<1>5. PICK f : IsLoop(f, Layouts, none, n, step)
  BY <1>1, <1>2, <1>3, LoopsHaveValues
<1>6. /\ f \in [0 .. n -> Layouts] /\ f[0] = none
      /\ \A k \in 1 .. n : f[k] = AddSection(f[k - 1], k, texts[k])
  <2>1. f \in [0 .. n -> Layouts] /\ f[0] = none /\ \A k \in 1 .. n : f[k] = step[k][f[k - 1]]
    BY <1>5 DEF IsLoop
  <2>2. \A k \in 1 .. n : f[k - 1] \in Layouts
    BY <1>1, <2>1
  <2>. QED  BY <1>4, <2>1, <2>2
<1>7. f = [k \in 0 .. n |-> IF k = 0 THEN <<>> ELSE AddSection(f[k - 1], k, texts[k])]
  BY <1>1, <1>6 DEF none
<1>8. loop = [k \in 0 .. n |-> IF k = 0 THEN <<>> ELSE AddSection(loop[k - 1], k, texts[k])]
  BY <1>7
<1>9. NormalizeSections(texts) = loop[n]
  BY DEF NormalizeSections, n
<1>. HIDE DEF loop
<1>. DEFINE R == {k \in Nat : k <= n => loop[k] \in Layouts}
<1>10. 0 \in R
  BY <1>1, <1>2, <1>8 DEF none
<1>11. ASSUME NEW k \in Nat, k \in R PROVE k + 1 \in R
  <2>1. SUFFICES ASSUME k + 1 <= n PROVE loop[k + 1] \in Layouts
    OBVIOUS
  <2>2. k + 1 \in 1 .. n /\ (k + 1) - 1 = k /\ loop[k] \in Layouts
    BY <1>1, <1>11, <2>1
  <2>3. loop[k + 1] = AddSection(loop[(k + 1) - 1], k + 1, texts[k + 1])
    <3>1. k + 1 \in 0 .. n /\ k + 1 # 0
      BY <2>2
    <3>. QED  BY <1>8, <3>1
  <2>. QED  BY <1>1, <2>2, <2>3, AddSectionLaysOut
<1>. HIDE DEF R
<1>12. n \in R
  BY <1>1, <1>10, <1>11, EveryNumberIsReached
<1>. QED  BY <1>1, <1>9, <1>12 DEF R
\* a part for each section, as long as its text: the text itself, or the line
\* that each of its characters comes from
Fits(parts, list, T) ==
    /\ Separator \in Seq(T) /\ DOMAIN parts = 1 .. Len(list)
    /\ \A k \in 1 .. Len(list) : parts[k] \in Seq(T) /\ Len(parts[k]) = Len(list[k].text)

\* Text holds the first m parts where the offsets say, and blanks between.
Holds(text, list, parts, T, m) ==
    /\ text \in Seq(T) /\ Len(text) = IF m = 0 THEN 0 ELSE list[m].end
    /\ \A k \in 1 .. m :
        /\ list[k].end <= Len(text)
        /\ \A i \in 1 .. Len(list[k].text) : text[list[k].start + i] = parts[k][i]
    /\ \A p \in 1 .. Len(text) :
        text[p] = " " \/ \E k \in 1 .. m : list[k].start < p /\ p <= list[k].end

LEMMA LayoutsAreTyped ==
    ASSUME NEW list \in Layouts
    PROVE  /\ Len(list) \in Nat /\ list \in Seq(SectionRecord) /\ DOMAIN list = 1 .. Len(list)
           /\ \A k \in 1 .. Len(list) :
               /\ list[k].text \in Text /\ Len(list[k].text) \in Nat
               /\ list[k].start \in Nat /\ list[k].end = list[k].start + Len(list[k].text)
               /\ list[k].start = IF k = 1 THEN 0 ELSE list[k - 1].end + 2
<1>1. list \in Seq(SectionRecord) /\ IsLaidOut(list)
  BY DEF Layouts
<1>2. Len(list) \in Nat /\ DOMAIN list = 1 .. Len(list)
  BY <1>1, LenProperties
<1>3. ASSUME NEW k \in 1 .. Len(list)
      PROVE  list[k].text \in Text /\ list[k].start \in Nat /\ Len(list[k].text) \in Nat
  <2>1. list[k] \in SectionRecord
    BY <1>1, ElementOfSeq
  <2>2. list[k].text \in Text /\ list[k].start \in Nat
    BY <2>1 DEF SectionRecord
  <2>. QED  BY <2>2, LenProperties DEF Text
<1>. QED  BY <1>1, <1>2, <1>3 DEF IsLaidOut

LEMMA ConcatIsText ==
    ASSUME NEW s \in Text, NEW t \in Text
    PROVE  /\ s \o t \in Text /\ Len(s) \in Nat /\ Len(t) \in Nat
           /\ Len(s \o t) = Len(s) + Len(t)
           /\ \A i \in 1 .. Len(s) : (s \o t)[i] = s[i]
           /\ \A i \in 1 .. Len(t) : (s \o t)[Len(s) + i] = t[i]
BY ConcatHasBoth DEF Text, IsConcat

LEMMA SeparatorHasTwo == Len(Separator) = 2 /\ Separator[1] = " " /\ Separator[2] = " "
<1>1. \A x : Len(<<x, x>>) = 2
  OBVIOUS
<1>. QED  BY <1>1 DEF Separator

LEMMA PairsAreSequences == \A S : \A x \in S : <<x, x>> \in Seq(S)
  OBVIOUS

LEMMA SeparatorIsAmong ==
    ASSUME NEW T, " " \in T
    PROVE  Separator \in Seq(T)
BY PairsAreSequences, Zenon DEF Separator

LEMMA SeparatorsHold ==
    ASSUME NEW list \in Layouts, NEW m \in Nat \ {0}, m + 1 <= Len(list),
           NEW T, NEW parts, Fits(parts, list, T), NEW text, Holds(text, list, parts, T, m)
    PROVE  Holds(text \o Separator \o parts[m + 1], list, parts, T, m + 1)
<1>. DEFINE next == parts[m + 1]
            e    == Len(text)
            l    == Len(next)
            some == text \o Separator
            more == some \o next
<1>1. /\ Len(list) \in Nat /\ m \in 1 .. Len(list) /\ m + 1 \in 1 .. Len(list)
      /\ l \in Nat
  <2>1. Len(list) \in Nat /\ m \in 1 .. Len(list) /\ m + 1 \in 1 .. Len(list)
    BY LayoutsAreTyped
  <2>2. l = Len(list[m + 1].text)
    BY <2>1 DEF Fits
  <2>. QED  BY <2>1, <2>2, LayoutsAreTyped
<1>0. next \in Seq(T) /\ Separator \in Seq(T) /\ l = Len(list[m + 1].text)
  BY <1>1 DEF Fits
<1>2. /\ text \in Seq(T) /\ e \in Nat /\ e = list[m].end
      /\ list[m + 1].start = e + 2 /\ list[m + 1].end = e + 2 + l
  <2>1. text \in Seq(T) /\ e = list[m].end
    BY DEF Holds
  <2>2. e \in Nat
    BY <2>1, LenProperties
  <2>3. m + 1 # 1 /\ (m + 1) - 1 = m
    OBVIOUS
  <2>4. /\ list[m + 1].start = list[m].end + 2
        /\ list[m + 1].end = list[m + 1].start + l
    BY <1>0, <1>1, <2>3, LayoutsAreTyped
  <2>. QED  BY <1>1, <2>1, <2>2, <2>4
<1>3. /\ some \in Seq(T) /\ Len(some) = e + 2
      /\ \A i \in 1 .. e : some[i] = text[i]
      /\ \A i \in 1 .. 2 : some[e + i] = Separator[i]
  <2>1. text \in Seq(T) /\ Separator \in Seq(T) /\ Len(Separator) = 2
    BY <1>0, <1>2, SeparatorHasTwo
  <2>2. some \in Seq(T) /\ IsConcat(some, text, Separator)
    BY <2>1, ConcatHasBoth
  <2>. QED  BY <2>1, <2>2, Zenon DEF IsConcat
<1>. HIDE DEF some
<1>4. /\ more \in Seq(T) /\ Len(more) = e + 2 + l
      /\ \A i \in 1 .. e + 2 : more[i] = some[i]
      /\ \A i \in 1 .. l : more[(e + 2) + i] = next[i]
  <2>1. more \in Seq(T) /\ IsConcat(more, some, next)
    BY <1>0, <1>3, ConcatHasBoth
  <2>. QED  BY <1>3, <2>1, Zenon DEF IsConcat
<1>. HIDE DEF e, l, next, more
<1>5. ASSUME NEW p \in 1 .. e PROVE more[p] = text[p]
  <2>1. p \in 1 .. e + 2
    BY <1>2
  <2>. QED  BY <1>3, <1>4, <2>1
<1>6. ASSUME NEW i \in 1 .. 2 PROVE more[e + i] = " "
  <2>1. e + i \in 1 .. e + 2 /\ Separator[i] = " "
    <3>1. i = 1 \/ i = 2
      OBVIOUS
    <3>2. Separator[i] = " "
      BY <3>1, SeparatorHasTwo, Zenon
    <3>3. \A n \in Nat : n + i \in 1 .. n + 2
      OBVIOUS
    <3>4. e + i \in 1 .. e + 2
      BY <1>2, <3>3, Zenon
    <3>. QED  BY <3>2, <3>4
  <2>. QED  BY <1>3, <1>4, <2>1
<1>7. \A k \in 1 .. m : k \in 1 .. Len(list)
  BY <1>1
<1>8. ASSUME NEW k \in 1 .. m
      PROVE  /\ list[k].end <= e + 2 + l
             /\ \A i \in 1 .. Len(list[k].text) : more[list[k].start + i] = parts[k][i]
  <2>1. /\ list[k].start \in Nat /\ Len(list[k].text) \in Nat
        /\ list[k].end = list[k].start + Len(list[k].text)
    BY <1>7, LayoutsAreTyped
  <2>2. /\ list[k].end <= e
        /\ \A i \in 1 .. Len(list[k].text) : text[list[k].start + i] = parts[k][i]
    BY DEF Holds, e
  <2>3. ASSUME NEW i \in 1 .. Len(list[k].text) PROVE list[k].start + i \in 1 .. e
    <3>1. \A a, b, c \in Nat : a + b <= c => \A j \in 1 .. b : a + j \in 1 .. c
      OBVIOUS
    <3>2. list[k].start + Len(list[k].text) <= e
      BY <2>1, <2>2
    <3>. QED  BY <1>2, <2>1, <3>1, <3>2
  <2>4. list[k].end <= e + 2 + l
    <3>1. \A a, b, c \in Nat : a <= b => a <= b + 2 + c
      OBVIOUS
    <3>2. list[k].end \in Nat
      BY <2>1
    <3>3. l \in Nat /\ e \in Nat /\ list[k].end <= e
      BY <1>1, <1>2, <2>2, Zenon
    <3>. QED  BY <3>1, <3>2, <3>3, Zenon
  <2>. QED  BY <1>5, <2>2, <2>3, <2>4
<1>9. /\ list[m + 1].end <= e + 2 + l
      /\ \A i \in 1 .. Len(list[m + 1].text) : more[list[m + 1].start + i] = parts[m + 1][i]
  <2>1. list[m + 1].end <= e + 2 + l
    BY <1>1, <1>2
  <2>2. parts[m + 1] = next /\ Len(list[m + 1].text) = l
    BY <1>0 DEF next
  <2>3. list[m + 1].start = e + 2
    BY <1>2
  <2>. QED  BY <1>4, <2>1, <2>2, <2>3
<1>10. ASSUME NEW p \in 1 .. e + 2 + l
       PROVE  more[p] = " " \/ \E k \in 1 .. m + 1 : list[k].start < p /\ p <= list[k].end
  <2>1. CASE p <= e
    <3>1. p \in 1 .. e
      BY <1>1, <1>2, <2>1
    <3>2. text[p] = " " \/ \E k \in 1 .. m : list[k].start < p /\ p <= list[k].end
      BY <3>1 DEF Holds, e
    <3>3. \A k \in 1 .. m : k \in 1 .. m + 1
      OBVIOUS
    <3>. QED  BY <1>5, <3>1, <3>2, <3>3
  <2>2. CASE e < p /\ p <= e + 2
    <3>1. p - e \in 1 .. 2 /\ e + (p - e) = p
      BY <1>1, <1>2, <2>2, SMTT(20)
    <3>. QED  BY <1>6, <3>1
  <2>3. CASE p > e + 2
    <3>1. m + 1 \in 1 .. m + 1 /\ list[m + 1].start < p /\ p <= list[m + 1].end
      BY <1>1, <1>2, <2>3
    <3>. QED  BY <3>1
  <2>4. p <= e \/ (e < p /\ p <= e + 2) \/ p > e + 2
    BY <1>1, <1>2
  <2>. QED  BY <2>1, <2>2, <2>3, <2>4
<1>11. more \in Seq(T) /\ Len(more) = e + 2 + l /\ e + 2 + l = list[m + 1].end /\ m + 1 # 0
  BY <1>1, <1>2, <1>4
<1>12. \A k \in 1 .. m + 1 : k \in 1 .. m \/ k = m + 1
  OBVIOUS
<1>13. ASSUME NEW k \in 1 .. m + 1
       PROVE  /\ list[k].end <= Len(more)
              /\ \A i \in 1 .. Len(list[k].text) : more[list[k].start + i] = parts[k][i]
  BY <1>8, <1>9, <1>11, <1>12, Zenon
<1>14. ASSUME NEW p \in 1 .. Len(more)
       PROVE  more[p] = " " \/ \E k \in 1 .. m + 1 : list[k].start < p /\ p <= list[k].end
  BY <1>10, <1>11, Zenon
<1>15. Len(more) = IF m + 1 = 0 THEN 0 ELSE list[m + 1].end
  BY <1>11
<1>16. Holds(more, list, parts, T, m + 1)
  BY <1>11, <1>13, <1>14, <1>15, Zenon DEF Holds
<1>. QED  BY <1>16 DEF more, some, next

LEMMA JoinHoldsAll ==
    ASSUME NEW list \in Layouts, NEW T, NEW parts, Fits(parts, list, T)
    PROVE  Holds(Join(parts), list, parts, T, Len(list))
<1>. DEFINE n     == Len(list)
            All   == Seq(T)
            Joined(k, before) == CASE k = 0 -> <<>>
                                   [] k = 1 -> parts[1]
                                   [] k > 1 -> before \o Separator \o parts[k]
            step  == [k \in 1 .. n |-> [x \in All |-> Joined(k, x)]]
            none  == <<>>
            loop  == CHOOSE f : f = [k \in 0 .. n |-> Joined(k, f[k - 1])]
<1>1. n \in Nat /\ DOMAIN list = 1 .. n /\ \A k \in 1 .. n : parts[k] \in All
  BY LayoutsAreTyped DEF Fits
<1>2. none \in All
  BY EmptySeq
<1>3. ASSUME NEW k \in 1 .. n, NEW x \in All PROVE Joined(k, x) \in All
  <2>1. CASE k = 1
    BY <1>1, <2>1
  <2>2. CASE k # 1
    <3>1. k > 1 /\ Joined(k, x) = x \o Separator \o parts[k]
      <4>1. k > 1 /\ k # 0
        BY <1>1, <2>2
      <4>. QED  BY <2>2, <4>1
    <3>2. parts[k] \in All
      BY <1>1
    <3>3. x \o Separator \in All
      BY ConcatHasBoth DEF Fits, All
    <3>4. (x \o Separator) \o parts[k] \in All
      BY <3>2, <3>3, ConcatHasBoth DEF All
    <3>. QED  BY <3>1, <3>4
  <2>. QED  BY <2>1, <2>2
<1>4. Len(parts) = n
  BY <1>1 DEF Fits
<1>5. Join(parts) = loop[n]
  BY <1>4 DEF Join
<1>. HIDE DEF n, All, Joined, none
<1>6. step \in [1 .. n -> [All -> All]]
  BY <1>3
<1>7. \A k \in 1 .. n : \A x \in All : step[k][x] = Joined(k, x)
  OBVIOUS
<1>. HIDE DEF step
<1>8. PICK f : IsLoop(f, All, none, n, step)
  BY <1>1, <1>2, <1>6, LoopsHaveValues
<1>9. /\ f \in [0 .. n -> All] /\ f[0] = none
      /\ \A k \in 1 .. n : f[k] = Joined(k, f[k - 1])
  <2>1. f \in [0 .. n -> All] /\ f[0] = none /\ \A k \in 1 .. n : f[k] = step[k][f[k - 1]]
    BY <1>8 DEF IsLoop
  <2>2. \A k \in 1 .. n : f[k - 1] \in All
    BY <1>1, <2>1
  <2>. QED  BY <1>7, <2>1, <2>2
<1>10. f[0] = Joined(0, f[0 - 1])
  BY <1>9 DEF none, Joined
<1>11. f = [k \in 0 .. n |-> Joined(k, f[k - 1])]
  BY <1>1, <1>9, <1>10
<1>12. loop = [k \in 0 .. n |-> Joined(k, loop[k - 1])]
  BY <1>11
<1>. HIDE DEF loop
<1>. DEFINE R == {k \in Nat : k <= n => Holds(loop[k], list, parts, T, k)}
<1>13. 0 \in R
  <2>1. loop[0] = <<>>
    BY <1>1, <1>12 DEF Joined
  <2>2. loop[0] \in Seq(T) /\ Len(loop[0]) = 0
    BY <1>2, <2>1, EmptySeq DEF none, All
  <2>3. 1 .. 0 = {}
    OBVIOUS
  <2>4. Holds(loop[0], list, parts, T, 0)
    BY <2>2, <2>3 DEF Holds
  <2>. QED  BY <2>4
<1>14. ASSUME NEW k \in Nat, k \in R PROVE k + 1 \in R
  <2>1. SUFFICES ASSUME k + 1 <= n PROVE Holds(loop[k + 1], list, parts, T, k + 1)
    OBVIOUS
  <2>2. k + 1 \in 1 .. n /\ k + 1 \in 0 .. n /\ (k + 1) - 1 = k /\ Holds(loop[k], list, parts, T, k)
    BY <1>1, <1>14, <2>1
  <2>3. loop[k + 1] = Joined(k + 1, loop[(k + 1) - 1])
    BY <1>12, <2>2
  <2>4. CASE k = 0
    <3>1. loop[1] = parts[1]
      BY <2>2, <2>3, <2>4 DEF Joined
    <3>2. /\ 1 \in 1 .. n /\ parts[1] \in Seq(T) /\ Len(parts[1]) = Len(list[1].text)
          /\ list[1].start = 0 /\ Len(list[1].text) \in Nat
          /\ list[1].end = Len(list[1].text)
      BY <2>2, <2>4, LayoutsAreTyped DEF n, Fits
    <3>3. ASSUME NEW p \in 1 .. Len(loop[1])
          PROVE  \E j \in 1 .. 1 : list[j].start < p /\ p <= list[j].end
      <4>1. 1 \in 1 .. 1 /\ list[1].start < p /\ p <= list[1].end
        BY <3>1, <3>2
      <4>. QED  BY <4>1
    <3>4. \A j \in 1 .. 1 : j = 1
      OBVIOUS
    <3>5. \A i \in 1 .. Len(list[1].text) : list[1].start + i = i
      BY <3>2
    <3>6. Len(loop[1]) = IF 1 = 0 THEN 0 ELSE list[1].end
      BY <3>1, <3>2
    <3>7. ASSUME NEW j \in 1 .. 1
          PROVE  /\ list[j].end <= Len(loop[1])
                 /\ \A i \in 1 .. Len(list[j].text) : loop[1][list[j].start + i] = parts[j][i]
      <4>1. j = 1
        OBVIOUS
      <4>2. list[1].end <= Len(loop[1])
        BY <3>1, <3>2
      <4>. QED  BY <3>1, <3>5, <4>1, <4>2
    <3>8. Holds(loop[1], list, parts, T, 1)
      BY <3>1, <3>2, <3>3, <3>6, <3>7, Zenon DEF Holds
    <3>9. k + 1 = 1
      BY <2>4
    <3>. QED  BY <3>8, <3>9
  <2>5. CASE k # 0
    <3>1. loop[k + 1] = loop[k] \o Separator \o parts[k + 1]
      <4>1. k + 1 > 1 /\ k + 1 # 0 /\ k + 1 # 1
        BY <2>5
      <4>. QED  BY <2>2, <2>3, <4>1 DEF Joined
    <3>2. k \in Nat \ {0} /\ k + 1 <= Len(list)
      BY <2>1, <2>5 DEF n
    <3>. QED  BY <2>2, <3>1, <3>2, SeparatorsHold
  <2>. QED  BY <2>4, <2>5
<1>. HIDE DEF R
<1>15. n \in R
  BY <1>1, <1>13, <1>14, EveryNumberIsReached
<1>. QED  BY <1>1, <1>5, <1>15 DEF R, n

\* the text of all sections
TextOfAll(list) == Join([k \in DOMAIN list |-> list[k].text])

LEMMA TextHoldsAll ==
    ASSUME NEW list \in Layouts
    PROVE  Holds(TextOfAll(list), list, [k \in 1 .. Len(list) |-> list[k].text], Characters, Len(list))
<1>. DEFINE texts == [k \in 1 .. Len(list) |-> list[k].text]
<1>1. DOMAIN list = 1 .. Len(list) /\ \A k \in 1 .. Len(list) : list[k].text \in Seq(Characters)
  BY LayoutsAreTyped DEF Text
<1>2. Fits(texts, list, Characters)
  <2>1. Separator \in Seq(Characters)
    BY SeparatorIsAmong, Zenon DEF Characters
  <2>. QED  BY <1>1, <2>1 DEF Fits
<1>3. TextOfAll(list) = Join(texts)
  BY <1>1 DEF TextOfAll
<1>. HIDE DEF texts
<1>4. Holds(Join(texts), list, texts, Characters, Len(list))
  BY <1>2, JoinHoldsAll
<1>. QED  BY <1>3, <1>4 DEF texts
---------------------------------------------------------------------------
(* Positions in the text of all sections *)

LEMMA SectionsAreApart ==
    ASSUME NEW list \in Layouts, NEW j \in 1 .. Len(list), NEW k \in 1 .. Len(list), j < k
    PROVE  list[j].end + 2 <= list[k].start
<1>. DEFINE n == Len(list)
            R == {d \in Nat : j + d + 1 <= n => list[j].end + 2 <= list[j + d + 1].start}
<1>1. /\ n \in Nat
      /\ \A i \in 1 .. n : /\ list[i].start \in Nat /\ list[i].end \in Nat
                           /\ list[i].start <= list[i].end
                           /\ i # 1 => list[i].start = list[i - 1].end + 2
  <2>1. n \in Nat
    BY LayoutsAreTyped
  <2>. SUFFICES ASSUME NEW i \in 1 .. n
                PROVE  /\ list[i].start \in Nat /\ list[i].end \in Nat
                       /\ list[i].start <= list[i].end
                       /\ i # 1 => list[i].start = list[i - 1].end + 2
    BY <2>1
  <2>2. /\ Len(list[i].text) \in Nat /\ list[i].start \in Nat
        /\ list[i].end = list[i].start + Len(list[i].text)
        /\ list[i].start = IF i = 1 THEN 0 ELSE list[i - 1].end + 2
    BY LayoutsAreTyped
  <2>3. list[i].end \in Nat /\ list[i].start <= list[i].end
    BY <2>2
  <2>. QED  BY <2>2, <2>3
<1>2. 0 \in R
  <2>1. SUFFICES ASSUME j + 1 <= n PROVE list[j].end + 2 <= list[j + 1].start
    OBVIOUS
  <2>2. j + 1 \in 1 .. n /\ j + 1 # 1 /\ (j + 1) - 1 = j
    BY <1>1, <2>1
  <2>3. list[j + 1].start = list[j].end + 2
    BY <1>1, <2>2
  <2>. QED  BY <1>1, <2>2, <2>3
<1>3. ASSUME NEW d \in Nat, d \in R PROVE d + 1 \in R
  <2>1. SUFFICES ASSUME j + (d + 1) + 1 <= n PROVE list[j].end + 2 <= list[j + (d + 1) + 1].start
    OBVIOUS
  <2>. DEFINE i == j + d + 1
  <2>2. i \in 1 .. n /\ i + 1 \in 1 .. n /\ i + 1 # 1 /\ (i + 1) - 1 = i /\ j + (d + 1) + 1 = i + 1
    BY <1>1, <2>1
  <2>3. list[j].end + 2 <= list[i].start
    BY <1>3, <2>2
  <2>. HIDE DEF i
  <2>4. list[i + 1].start = list[i].end + 2 /\ list[i].start <= list[i].end
    BY <1>1, <2>2
  <2>5. list[i].start \in Nat /\ list[i].end \in Nat /\ list[j].end \in Nat
    BY <1>1, <2>2
  <2>6. \A a, b, c \in Nat : a + 2 <= b /\ b <= c => a + 2 <= c + 2
    OBVIOUS
  <2>7. list[j].end + 2 <= list[i + 1].start
    BY <2>3, <2>4, <2>5, <2>6, Zenon
  <2>. QED  BY <2>2, <2>7
<1>. HIDE DEF R
<1>4. k - j - 1 \in Nat
  BY <1>1
<1>5. k - j - 1 \in R
  BY <1>2, <1>3, <1>4, EveryNumberIsReached
<1>6. j + (k - j - 1) + 1 = k
  BY <1>1
<1>. QED  BY <1>1, <1>5, <1>6 DEF R

\* A character that is not blank is in a section, the last to start before it,
\* and the characters around a section are blank.
LEMMA MarksHaveSections ==
    ASSUME NEW list \in Layouts
    PROVE  LET text == TextOfAll(list)
           IN  /\ text \in Text /\ Len(text) \in Nat
               /\ \A i \in 0 .. Len(text) - 1 : text[i + 1] # " " =>
                      \E k \in 1 .. Len(list) : list[k].start <= i /\ i < list[k].end
               /\ \A k \in 1 .. Len(list) :
                      /\ list[k].end <= Len(text)
                      /\ list[k].start # 0 => text[list[k].start] = " "
                      /\ list[k].end < Len(text) => text[list[k].end + 1] = " "
                      /\ \A i \in 1 .. Len(list[k].text) : text[list[k].start + i] = list[k].text[i]
<1>. DEFINE text  == TextOfAll(list)
            n     == Len(list)
            texts == [k \in 1 .. n |-> list[k].text]
<1>1. Holds(text, list, texts, Characters, n)
  BY TextHoldsAll
<1>. HIDE DEF text
<1>2. /\ n \in Nat
      /\ \A k \in 1 .. n : /\ list[k].start \in Nat /\ list[k].end \in Nat
                           /\ list[k].start <= list[k].end
  BY LayoutsAreTyped
<1>3. text \in Text /\ Len(text) \in Nat
  BY <1>1, LenProperties DEF Holds, Text
<1>. HIDE DEF texts
<1>4. \A p \in 1 .. Len(text) :
        text[p] = " " \/ \E k \in 1 .. n : list[k].start < p /\ p <= list[k].end
  BY <1>1 DEF Holds
<1>5. \A k \in 1 .. n :
        /\ list[k].end <= Len(text)
        /\ \A i \in 1 .. Len(list[k].text) : text[list[k].start + i] = list[k].text[i]
  <2>1. \A k \in 1 .. n : texts[k] = list[k].text
    BY DEF texts
  <2>. QED  BY <1>1, <2>1 DEF Holds
<1>6. ASSUME NEW i \in 0 .. Len(text) - 1, text[i + 1] # " "
      PROVE  \E k \in 1 .. n : list[k].start <= i /\ i < list[k].end
  <2>1. i + 1 \in 1 .. Len(text)
    BY <1>3
  <2>2. PICK k \in 1 .. n : list[k].start < i + 1 /\ i + 1 <= list[k].end
    BY <1>4, <1>6, <2>1
  <2>3. list[k].start <= i /\ i < list[k].end
    BY <1>2, <2>2
  <2>. QED  BY <2>3
\* the two characters next to a section belong to no other
<1>7. ASSUME NEW k \in 1 .. n, NEW p \in 1 .. Len(text),
             p = list[k].start \/ p = list[k].end + 1
      PROVE  text[p] = " "
  <2>1. SUFFICES ASSUME NEW j \in 1 .. n, list[j].start < p, p <= list[j].end PROVE FALSE
    BY <1>4
  <2>2. /\ list[k].start \in Nat /\ list[k].end \in Nat /\ list[k].start <= list[k].end
        /\ list[j].start \in Nat /\ list[j].end \in Nat
    BY <1>2
  <2>3. CASE j < k
    <3>1. list[j].end + 2 <= list[k].start
      BY <2>3, SectionsAreApart
    <3>. QED  BY <1>7, <2>1, <2>2, <3>1
  <2>4. CASE k < j
    <3>1. list[k].end + 2 <= list[j].start
      BY <2>4, SectionsAreApart
    <3>. QED  BY <1>7, <2>1, <2>2, <3>1, SMTT(20)
  <2>5. CASE j = k
    BY <1>7, <2>1, <2>2, <2>5
  <2>. QED  BY <1>2, <2>3, <2>4, <2>5
<1>8. ASSUME NEW k \in 1 .. n
      PROVE  /\ list[k].start # 0 => text[list[k].start] = " "
             /\ list[k].end < Len(text) => text[list[k].end + 1] = " "
  <2>1. /\ list[k].start \in Nat /\ list[k].end \in Nat
        /\ list[k].start <= list[k].end /\ list[k].end <= Len(text)
    BY <1>2, <1>5
  <2>2. /\ list[k].start # 0 => list[k].start \in 1 .. Len(text)
        /\ list[k].end < Len(text) => list[k].end + 1 \in 1 .. Len(text)
    BY <1>3, <2>1
  <2>. QED  BY <1>7, <2>2
<1>. QED  BY <1>3, <1>5, <1>6, <1>8 DEF text

\* a slice of a section is the slice of the whole text at its offsets
LEMMA SlicesShift ==
    ASSUME NEW list \in Layouts, NEW k \in 1 .. Len(list),
           NEW a \in Nat, NEW b \in Nat, b <= Len(list[k].text)
    PROVE  Slice(TextOfAll(list), list[k].start + a, list[k].start + b) = Slice(list[k].text, a, b)
<1>. DEFINE s    == list[k].start
            part == list[k].text
            full == TextOfAll(list)
<1>1. s \in Nat /\ part \in Text /\ Len(part) \in Nat
  BY LayoutsAreTyped
<1>2. \A i \in 1 .. Len(part) : full[s + i] = part[i]
  BY MarksHaveSections
<1>3. full \in Text /\ Len(full) \in Nat /\ s + Len(part) <= Len(full)
  <2>1. full \in Text /\ Len(full) \in Nat /\ list[k].end <= Len(full)
    BY MarksHaveSections
  <2>2. list[k].end = s + Len(part)
    BY LayoutsAreTyped
  <2>. QED  BY <2>1, <2>2
<1>4. b <= Len(part)
  OBVIOUS
<1>. DEFINE whole == SubSeq(full, s + a + 1, s + b)
            piece == SubSeq(part, a + 1, b)
<1>. HIDE DEF s, part, full
<1>5. /\ \A i \in a + 1 .. b : part[i] \in Characters
      /\ \A i \in s + a + 1 .. s + b : full[i] \in Characters
  <2>1. part \in Seq(Characters) /\ full \in Seq(Characters)
    BY <1>1, <1>3 DEF Text
  <2>2. /\ \A i \in a + 1 .. b : i \in 1 .. Len(part)
        /\ \A i \in s + a + 1 .. s + b : i \in 1 .. Len(full)
    BY <1>1, <1>3, <1>4
  <2>. QED  BY <2>1, <2>2, ElementOfSeq
<1>6. /\ piece \in Seq(Characters) /\ Len(piece) = IF a + 1 <= b THEN b - (a + 1) + 1 ELSE 0
      /\ \A i \in 1 .. b - (a + 1) + 1 : piece[i] = part[(a + 1) + i - 1]
  <2>1. a + 1 \in Int /\ b \in Int
    OBVIOUS
  <2>. QED  BY <1>5, <2>1, SubSeqProperties
<1>7. /\ whole \in Seq(Characters)
      /\ Len(whole) = IF s + a + 1 <= s + b THEN (s + b) - (s + a + 1) + 1 ELSE 0
      /\ \A i \in 1 .. (s + b) - (s + a + 1) + 1 : whole[i] = full[(s + a + 1) + i - 1]
  <2>1. s + a + 1 \in Int /\ s + b \in Int
    BY <1>1
  <2>. QED  BY <1>5, <2>1, SubSeqProperties, SMTT(20)
<1>. HIDE DEF whole, piece
<1>8. Len(whole) = Len(piece)
  BY <1>1, <1>6, <1>7
<1>9. ASSUME NEW i \in 1 .. Len(whole) PROVE whole[i] = piece[i]
  <2>1. /\ i \in 1 .. b - (a + 1) + 1 /\ i \in 1 .. (s + b) - (s + a + 1) + 1
        /\ a + i \in 1 .. Len(part)
        /\ (a + 1) + i - 1 = a + i /\ (s + a + 1) + i - 1 = s + (a + i)
    BY <1>1, <1>4, <1>7
  <2>2. whole[i] = full[s + (a + i)]
    BY <1>7, <2>1
  <2>3. piece[i] = part[a + i]
    BY <1>6, <2>1
  <2>. QED  BY <1>2, <2>1, <2>2, <2>3
<1>10. whole = piece
  BY <1>6, <1>7, <1>8, <1>9, SeqEqual
<1>. QED  BY <1>10 DEF Slice, whole, piece, s, part, full
---------------------------------------------------------------------------
(* Chunks *)

LEMMA WindowsAreInside ==
    ASSUME Sized, NEW text \in Text, NEW p \in 1 .. Len(Windows(text))
    PROVE  LET window == Windows(text)[p]
           IN  /\ window.start \in TokenStarts(text) /\ window.start \in Nat /\ window.end \in Nat
               /\ window.start < window.end /\ window.end <= Len(text)
               /\ window.text = Slice(text, window.start, window.end)
<1>. DEFINE tokens == Tokens(text)
            count  == Len(tokens)
            a      == First(p)
            b      == Final(p, count)
            window == Windows(text)[p]
<1>1. /\ a \in 1 .. count /\ b \in a .. count
      /\ window = [text  |-> Slice(text, tokens[a].start, tokens[b].end),
                   start |-> tokens[a].start, end |-> tokens[b].end]
  BY WindowsAreRuns DEF AreWindows
<1>2. /\ count \in Nat /\ tokens \in [1 .. count -> [start : Nat, end : Nat]]
      /\ \A k \in 1 .. count : /\ tokens[k].start \in TokenStarts(text)
                               /\ tokens[k].start < tokens[k].end /\ tokens[k].end <= Len(text)
      /\ \A j, k \in 1 .. count : j < k => tokens[j].end <= tokens[k].start
  BY TokensAreInOrder DEF AreTokens
<1>3. Len(text) \in Nat
  BY TokensStart
<1>. HIDE DEF window, a, b, count, tokens
<1>4. /\ window.start = tokens[a].start /\ window.end = tokens[b].end
      /\ window.text = Slice(text, window.start, window.end)
  BY <1>1
<1>5. b \in 1 .. count
  BY <1>1, <1>2
<1>6. /\ tokens[a].start \in Nat /\ tokens[a].end \in Nat
      /\ tokens[b].start \in Nat /\ tokens[b].end \in Nat
  BY <1>1, <1>2, <1>5
<1>7. tokens[a].start < tokens[b].end
  <2>1. CASE a = b
    BY <1>2, <1>5, <2>1
  <2>2. CASE a # b
    <3>1. a < b
      BY <1>1, <1>2, <2>2
    <3>. QED  BY <1>1, <1>2, <1>5, <1>6, <3>1
  <2>. QED  BY <2>1, <2>2
<1>. QED  BY <1>1, <1>2, <1>4, <1>5, <1>6, <1>7 DEF window

\* what the offsets of a chunk say
IsLocated(chunk, list) ==
    LET section == list[chunk.section]
    IN  /\ Slice(TextOfAll(list), chunk.start, chunk.end) = chunk.text
        /\ section.start <= chunk.start /\ chunk.start < section.end
        /\ strategy = "section_aware" => Within(chunk, section)

\* a window of the whole text is cited as of the section it begins in
LEMMA FixedWindowsAreLocated ==
    ASSUME Sized, strategy = "fixed_window", NEW list \in Layouts,
           NEW p \in 1 .. Len(Windows(TextOfAll(list)))
    PROVE  LET window == Windows(TextOfAll(list))[p]
           IN  IsLocated(Locate(window, SectionAt(list, window.start), 0), list)
<1>. DEFINE full   == TextOfAll(list)
            n      == Len(list)
            window == Windows(full)[p]
            offset == window.start
            before == {k \in DOMAIN list : list[k].start <= offset}
            at     == SectionAt(list, offset)
            chunk  == Locate(window, at, 0)
<1>1. full \in Text /\ Len(full) \in Nat
  BY MarksHaveSections
<1>2. /\ offset \in TokenStarts(full) /\ offset \in Nat /\ window.end \in Nat
      /\ window.text = Slice(full, offset, window.end)
  BY <1>1, WindowsAreInside
<1>3. offset \in 0 .. Len(full) - 1 /\ full[offset + 1] # " "
  <2>1. /\ offset \in 0 .. Len(full) - 1
        /\ full[offset + 1] = "." \/ full[offset + 1] = "a"
    BY <1>1, <1>2, TokensStart
  <2>. QED  BY <2>1
<1>4. PICK k \in 1 .. n : list[k].start <= offset /\ offset < list[k].end
  BY <1>3, MarksHaveSections
<1>5. n \in Nat /\ DOMAIN list = 1 .. n
  BY LayoutsAreTyped
<1>6. at = Max(before)
  BY DEF SectionAt
<1>7. k \in before /\ before \in SUBSET Nat /\ \A j \in before : j <= n
  BY <1>4, <1>5
<1>8. Max(before) \in before /\ \A j \in before : j <= Max(before)
  BY <1>5, <1>7, ExtremesExist
<1>9. at \in 1 .. n /\ list[at].start <= offset /\ k <= at
  BY <1>5, <1>6, <1>7, <1>8
<1>10. ~ (k < at)
  <2>1. SUFFICES ASSUME k < at PROVE FALSE
    OBVIOUS
  <2>2. list[k].end + 2 <= list[at].start
    BY <1>9, <2>1, SectionsAreApart
  <2>3. \A j \in 1 .. n : list[j].start \in Nat /\ list[j].end \in Nat
    BY LayoutsAreTyped, SMTT(20)
  <2>. QED  BY <1>2, <1>4, <1>9, <2>2, <2>3, SMTT(20)
<1>. HIDE DEF at, offset, window, full
<1>11. at = k
  BY <1>5, <1>9, <1>10
<1>12. /\ chunk.section = at /\ chunk.text = window.text
       /\ chunk.start = 0 + window.start /\ chunk.end = 0 + window.end
  BY DEF Locate
<1>13. chunk.start = offset /\ chunk.end = window.end
  BY <1>2, <1>12 DEF offset
<1>. HIDE DEF chunk
<1>14. IsLocated(chunk, list)
  BY <1>2, <1>4, <1>11, <1>12, <1>13 DEF IsLocated, full
<1>. QED  BY <1>14 DEF chunk, at, offset, window, full

\* a window of a section, shifted by where the section starts
LEMMA SectionWindowsAreLocated ==
    ASSUME Sized, NEW list \in Layouts, NEW k \in 1 .. Len(list),
           NEW p \in 1 .. Len(Windows(list[k].text))
    PROVE  IsLocated(Locate(Windows(list[k].text)[p], k, list[k].start), list)
<1>. DEFINE window == Windows(list[k].text)[p]
            s      == list[k].start
            chunk  == Locate(window, k, s)
            a      == window.start
            b      == window.end
<1>1. /\ list[k].text \in Text /\ Len(list[k].text) \in Nat /\ s \in Nat
      /\ list[k].end = s + Len(list[k].text)
  BY LayoutsAreTyped
<1>2. /\ a \in Nat /\ b \in Nat /\ a < b /\ b <= Len(list[k].text)
      /\ window.text = Slice(list[k].text, a, b)
  BY <1>1, WindowsAreInside
<1>3. chunk.section = k /\ chunk.text = window.text /\ chunk.start = s + a /\ chunk.end = s + b
  BY DEF Locate
<1>. HIDE DEF window, a, b, chunk
<1>4. Slice(TextOfAll(list), s + a, s + b) = Slice(list[k].text, a, b)
  BY <1>2, SlicesShift
<1>. HIDE DEF s
<1>5. s <= s + a /\ s + a < s + Len(list[k].text) /\ s + b <= s + Len(list[k].text)
  BY <1>1, <1>2
<1>6. Within(chunk, list[k])
  BY <1>1, <1>3, <1>5 DEF Within, s
<1>7. list[k].start <= chunk.start /\ chunk.start < list[k].end
  BY <1>1, <1>3, <1>5 DEF s
<1>8. IsLocated(chunk, list)
  BY <1>2, <1>3, <1>4, <1>6, <1>7 DEF IsLocated
<1>. QED  BY <1>8 DEF chunk, s, window

\* window p of the section that the chunk names
IsWindow(chunk, list, p) ==
    /\ chunk.section \in 1 .. Len(list) /\ p \in 1 .. Len(Windows(list[chunk.section].text))
    /\ chunk = Locate(Windows(list[chunk.section].text)[p], chunk.section, list[chunk.section].start)

\* windows of the first m sections; one after another of its section is the next
AreSectionWindows(found, list, m) ==
    \A i \in 1 .. Len(found) :
        /\ found[i].section \in 1 .. m
        /\ \E p \in Nat :
            /\ IsWindow(found[i], list, p)
            /\ i > 1 /\ found[i].section = found[i - 1].section =>
                   p > 1 /\ IsWindow(found[i - 1], list, p - 1)

\* all of their windows
HasAllWindows(found, list, m) ==
    \A k \in 1 .. m : \A p \in 1 .. Len(Windows(list[k].text)) :
        \E i \in 1 .. Len(found) : found[i] = Locate(Windows(list[k].text)[p], k, list[k].start)

LEMMA SectionWindowsAreAppended ==
    ASSUME NEW list, NEW m \in Nat, m + 1 <= Len(list), Len(list) \in Nat,
           NEW T, NEW found \in Seq(T), NEW more \in Seq(T),
           AreSectionWindows(found, list, m),
           Len(more) = Len(Windows(list[m + 1].text)),
           \A p \in 1 .. Len(more) :
               more[p] = Locate(Windows(list[m + 1].text)[p], m + 1, list[m + 1].start)
    PROVE  AreSectionWindows(found \o more, list, m + 1)
<1>. DEFINE e   == Len(found)
            l   == Len(more)
            all == found \o more
<1>1. /\ Len(all) = e + l
      /\ \A i \in 1 .. e + l : all[i] = IF i <= e THEN found[i] ELSE more[i - e]
  <2>1. \A S : \A x, y \in Seq(S) :
          /\ Len(x \o y) = Len(x) + Len(y)
          /\ \A i \in 1 .. Len(x) + Len(y) : (x \o y)[i] = IF i <= Len(x) THEN x[i] ELSE y[i - Len(x)]
    BY ConcatProperties
  <2>. QED  BY <2>1
<1>2. e \in Nat /\ l \in Nat
  BY LenProperties, Zenon
<1>. HIDE DEF e, l, all
<1>3. ASSUME NEW p \in 1 .. l PROVE IsWindow(more[p], list, p) /\ more[p].section = m + 1
  <2>1. more[p] = Locate(Windows(list[m + 1].text)[p], m + 1, list[m + 1].start)
    BY DEF l
  <2>2. more[p].section = m + 1
    BY <2>1 DEF Locate
  <2>3. m + 1 \in 1 .. Len(list) /\ p \in 1 .. Len(Windows(list[m + 1].text))
    BY DEF l
  <2>. QED  BY <2>1, <2>2, <2>3, Zenon DEF IsWindow
<1>4. SUFFICES ASSUME NEW i \in 1 .. e + l
               PROVE  /\ all[i].section \in 1 .. m + 1
                      /\ \E p \in Nat :
                          /\ IsWindow(all[i], list, p)
                          /\ i > 1 /\ all[i].section = all[i - 1].section =>
                                 p > 1 /\ IsWindow(all[i - 1], list, p - 1)
  <2>1. all = found \o more
    BY DEF all
  <2>. QED  BY <1>1, <2>1, Zenon DEF AreSectionWindows
<1>5. CASE i <= e
  <2>1. i \in 1 .. e /\ all[i] = found[i] /\ (i > 1 => all[i - 1] = found[i - 1])
    BY <1>1, <1>2, <1>5
  <2>2. /\ found[i].section \in 1 .. m
        /\ \E p \in Nat :
            /\ IsWindow(found[i], list, p)
            /\ i > 1 /\ found[i].section = found[i - 1].section =>
                   p > 1 /\ IsWindow(found[i - 1], list, p - 1)
    BY <2>1, Zenon DEF AreSectionWindows, e
  <2>3. \A k \in 1 .. m : k \in 1 .. m + 1
    OBVIOUS
  <2>. QED  BY <2>1, <2>2, <2>3, Zenon
<1>6. CASE i > e
  <2>. DEFINE p == i - e
  <2>1. p \in 1 .. l /\ p \in Nat /\ ~ (i <= e) /\ all[i] = more[p]
    BY <1>1, <1>2, <1>6
  <2>. HIDE DEF p
  <2>2. IsWindow(all[i], list, p) /\ all[i].section = m + 1 /\ m + 1 \in 1 .. m + 1
    BY <1>3, <2>1
  <2>3. ASSUME i > 1, all[i].section = all[i - 1].section
        PROVE  p > 1 /\ IsWindow(all[i - 1], list, p - 1)
    <3>1. CASE p = 1
      <4>1. i - 1 \in 1 .. e /\ all[i - 1] = found[i - 1]
        BY <1>1, <1>2, <2>1, <2>3, <3>1 DEF p
      <4>2. found[i - 1].section \in 1 .. m
        BY <4>1 DEF AreSectionWindows, e
      <4>3. m + 1 \notin 1 .. m
        OBVIOUS
      <4>. QED  BY <2>2, <2>3, <4>1, <4>2, <4>3
    <3>2. CASE p # 1
      <4>1. p > 1 /\ p - 1 \in 1 .. l /\ all[i - 1] = more[p - 1]
        BY <1>1, <1>2, <2>1, <2>3, <3>2 DEF p
      <4>. QED  BY <1>3, <4>1
    <3>. QED  BY <3>1, <3>2
  <2>. QED  BY <2>1, <2>2, <2>3
<1>7. i <= e \/ i > e
  BY <1>2
<1>. QED  BY <1>5, <1>6, <1>7

LEMMA AllWindowsAreAppended ==
    ASSUME NEW list, NEW m \in Nat, NEW T, NEW found \in Seq(T), NEW more \in Seq(T),
           HasAllWindows(found, list, m),
           Len(more) = Len(Windows(list[m + 1].text)),
           \A p \in 1 .. Len(more) :
               more[p] = Locate(Windows(list[m + 1].text)[p], m + 1, list[m + 1].start)
    PROVE  HasAllWindows(found \o more, list, m + 1)
<1>. DEFINE e   == Len(found)
            l   == Len(more)
            all == found \o more
<1>1. /\ Len(all) = e + l
      /\ \A i \in 1 .. e + l : all[i] = IF i <= e THEN found[i] ELSE more[i - e]
  <2>1. \A S : \A x, y \in Seq(S) :
          /\ Len(x \o y) = Len(x) + Len(y)
          /\ \A i \in 1 .. Len(x) + Len(y) : (x \o y)[i] = IF i <= Len(x) THEN x[i] ELSE y[i - Len(x)]
    BY ConcatProperties
  <2>. QED  BY <2>1
<1>2. e \in Nat /\ l \in Nat
  BY LenProperties, Zenon
<1>3. l = Len(Windows(list[m + 1].text))
  OBVIOUS
<1>4. \A p \in 1 .. l : more[p] = Locate(Windows(list[m + 1].text)[p], m + 1, list[m + 1].start)
  OBVIOUS
<1>. HIDE DEF e, l, all
<1>5. SUFFICES ASSUME NEW k \in 1 .. m + 1, NEW p \in 1 .. Len(Windows(list[k].text))
               PROVE  \E i \in 1 .. e + l : all[i] = Locate(Windows(list[k].text)[p], k, list[k].start)
  <2>1. all = found \o more
    BY DEF all
  <2>. QED  BY <1>1, <2>1, Zenon DEF HasAllWindows
<1>6. CASE k \in 1 .. m
  <2>1. PICK i \in 1 .. e : found[i] = Locate(Windows(list[k].text)[p], k, list[k].start)
    BY <1>6 DEF HasAllWindows, e
  <2>2. i \in 1 .. e + l /\ all[i] = found[i]
    <3>1. i \in 1 .. e + l /\ i <= e
      BY <1>2
    <3>. QED  BY <1>1, <3>1
  <2>. QED  BY <2>1, <2>2, Zenon
<1>7. CASE k = m + 1
  <2>1. p \in 1 .. l
    BY <1>3, <1>7
  <2>2. e + p \in 1 .. e + l /\ ~ (e + p <= e) /\ (e + p) - e = p
    BY <1>2, <2>1
  <2>3. all[e + p] = more[p]
    BY <1>1, <2>2
  <2>. QED  BY <1>4, <1>7, <2>1, <2>2, <2>3
<1>8. k \in 1 .. m \/ k = m + 1
  OBVIOUS
<1>. QED  BY <1>6, <1>7, <1>8

Spans == [text : Text, section : Nat, start : Nat, end : Nat]

LEMMA SlicesAreText ==
    ASSUME NEW text \in Text, NEW a \in Nat, NEW b \in Nat, b <= Len(text)
    PROVE  Slice(text, a, b) \in Text
<1>1. text \in Seq(Characters) /\ Len(text) \in Nat
  BY LenProperties DEF Text
<1>2. \A i \in a + 1 .. b : text[i] \in Characters
  <2>1. \A i \in a + 1 .. b : i \in 1 .. Len(text)
    BY <1>1
  <2>. QED  BY <1>1, <2>1, ElementOfSeq
<1>3. a + 1 \in Int /\ b \in Int
  OBVIOUS
<1>. QED  BY <1>2, <1>3, SubSeqProperties DEF Slice, Text

LEMMA LocatedAreSpans ==
    ASSUME NEW window, NEW section \in Nat, NEW base \in Nat,
           window.start \in Nat, window.end \in Nat, window.text \in Text
    PROVE  Locate(window, section, base) \in Spans
<1>1. base + window.start \in Nat /\ base + window.end \in Nat
  OBVIOUS
<1>. QED  BY <1>1, Zenon DEF Locate, Spans

LEMMA SectionChunksAreWindows ==
    ASSUME Sized, NEW list \in Layouts
    PROVE  /\ SectionAwareChunks(list) \in Seq(Spans)
           /\ AreSectionWindows(SectionAwareChunks(list), list, Len(list))
           /\ HasAllWindows(SectionAwareChunks(list), list, Len(list))
<1>. DEFINE n == Len(list)
            Of(k) == [i \in DOMAIN Windows(list[k].text) |->
                         Locate(Windows(list[k].text)[i], k, list[k].start)]
            seqs == [k \in DOMAIN list |-> Of(k)]
<1>1. n \in Nat /\ DOMAIN list = 1 .. n
  BY LayoutsAreTyped
<1>2. SectionAwareChunks(list) = FlattenSeq(seqs)
  BY DEF SectionAwareChunks
<1>3. ASSUME NEW k \in 1 .. n
      PROVE  /\ Of(k) \in Seq(Spans) /\ Len(Of(k)) = Len(Windows(list[k].text))
             /\ \A p \in 1 .. Len(Of(k)) : Of(k)[p] = Locate(Windows(list[k].text)[p], k, list[k].start)
  <2>. DEFINE windows == Windows(list[k].text)
              l       == Len(windows)
  <2>1. list[k].text \in Text /\ Len(list[k].text) \in Nat /\ list[k].start \in Nat /\ k \in Nat
    BY <1>1, LayoutsAreTyped
  <2>2. l \in Nat /\ DOMAIN windows = 1 .. l
    BY <2>1, WindowsAreRuns DEF AreWindows
  <2>3. ASSUME NEW p \in 1 .. l PROVE Locate(windows[p], k, list[k].start) \in Spans
    <3>1. /\ windows[p].start \in Nat /\ windows[p].end \in Nat /\ windows[p].text \in Text
      <4>1. /\ windows[p].start \in Nat /\ windows[p].end \in Nat
            /\ windows[p].end <= Len(list[k].text)
            /\ windows[p].text = Slice(list[k].text, windows[p].start, windows[p].end)
        BY <2>1, WindowsAreInside
      <4>. QED  BY <2>1, <4>1, SlicesAreText
    <3>. HIDE DEF windows
    <3>. QED  BY <2>1, <3>1, LocatedAreSpans
  <2>4. Of(k) = [i \in 1 .. l |-> Locate(windows[i], k, list[k].start)]
    BY <2>2
  <2>. HIDE DEF Of, windows, l, n
  <2>5. Of(k) \in [1 .. l -> Spans]
    BY <2>3, <2>4
  <2>6. Of(k) \in Seq(Spans) /\ Len(Of(k)) = l
    BY <2>2, <2>5
  <2>7. \A p \in 1 .. l : Of(k)[p] = Locate(windows[p], k, list[k].start)
    BY <2>4
  <2>. QED  BY <2>6, <2>7 DEF windows, l
<1>. HIDE DEF Of
<1>4. seqs = [k \in 1 .. n |-> Of(k)]
  BY <1>1
<1>. HIDE DEF seqs, n
<1>5. Len(seqs) = n /\ (n = 0 => seqs = <<>>)
  BY <1>1, <1>4
<1>6. \A k \in 1 .. n : seqs[k] = Of(k) /\ seqs[k] \in Seq(Spans)
  BY <1>3, <1>4, Zenon
<1>7. PICK f : Appends(f, Spans, n, seqs) /\ FlattenSeq(seqs) = f[n]
  BY <1>1, <1>5, <1>6, FlattenIsALoop
<1>8. /\ f[0] = <<>> /\ \A k \in 0 .. n : f[k] \in Seq(Spans)
      /\ \A k \in 1 .. n : f[k] = f[k - 1] \o seqs[k]
  BY <1>7 DEF Appends
<1>. DEFINE R == {k \in Nat : k <= n => AreSectionWindows(f[k], list, k) /\ HasAllWindows(f[k], list, k)}
<1>9. 0 \in R
  <2>1. 1 .. Len(f[0]) = {}
    BY <1>8
  <2>2. AreSectionWindows(f[0], list, 0) /\ HasAllWindows(f[0], list, 0)
    <3>1. 1 .. 0 = {}
      OBVIOUS
    <3>. QED  BY <2>1, <3>1, Zenon DEF AreSectionWindows, HasAllWindows
  <2>. QED  BY <2>2
<1>10. ASSUME NEW k \in Nat, k \in R PROVE k + 1 \in R
  <2>1. SUFFICES ASSUME k + 1 <= n
                PROVE  AreSectionWindows(f[k + 1], list, k + 1) /\ HasAllWindows(f[k + 1], list, k + 1)
    OBVIOUS
  <2>2. /\ k + 1 \in 1 .. n /\ k \in 0 .. n /\ (k + 1) - 1 = k
        /\ AreSectionWindows(f[k], list, k) /\ HasAllWindows(f[k], list, k)
    BY <1>1, <1>10, <2>1
  <2>3. f[k + 1] = f[k] \o Of(k + 1) /\ f[k] \in Seq(Spans)
    BY <1>6, <1>8, <2>2
  <2>4. /\ Of(k + 1) \in Seq(Spans) /\ Len(Of(k + 1)) = Len(Windows(list[k + 1].text))
        /\ \A p \in 1 .. Len(Of(k + 1)) :
            Of(k + 1)[p] = Locate(Windows(list[k + 1].text)[p], k + 1, list[k + 1].start)
    BY <1>3, <2>2
  <2>5. k + 1 <= Len(list) /\ Len(list) \in Nat
    BY <1>1, <2>1 DEF n
  <2>6. AreSectionWindows(f[k] \o Of(k + 1), list, k + 1)
    BY <2>2, <2>3, <2>4, <2>5, SectionWindowsAreAppended
  <2>7. HasAllWindows(f[k] \o Of(k + 1), list, k + 1)
    BY <2>2, <2>3, <2>4, AllWindowsAreAppended
  <2>. QED  BY <2>3, <2>6, <2>7
<1>. HIDE DEF R
<1>11. n \in R
  BY <1>1, <1>9, <1>10, EveryNumberIsReached
<1>12. n \in 0 .. n
  BY <1>1
<1>. QED  BY <1>1, <1>2, <1>7, <1>8, <1>11, <1>12 DEF R, n
---------------------------------------------------------------------------
(* Extraction *)

Line == [line : Nat, piece : Text]
SourceLine == [level : 0 .. 6, pieces : Seq(Text)]

\* what the parser makes of a Markdown file
IsMarkdown(file) ==
    /\ file \in Seq(SourceLine)
    /\ \A i \in DOMAIN file : file[i].pieces # <<>>

\* A line of the source becomes as many lines as it has pieces, at least one.
LEMMA LinesAreTyped ==
    ASSUME NEW file, IsMarkdown(file)
    PROVE  Lines(file) \in Seq(Line) /\ Len(file) \in Nat /\ Len(file) <= Len(Lines(file))
<1>. DEFINE n == Len(file)
            Of(i) == [k \in DOMAIN file[i].pieces |-> [line |-> i, piece |-> file[i].pieces[k]]]
            seqs == [i \in DOMAIN file |-> Of(i)]
<1>1. n \in Nat /\ DOMAIN file = 1 .. n /\ \A i \in 1 .. n : file[i] \in SourceLine
  BY LenProperties, ElementOfSeq DEF IsMarkdown
<1>2. Lines(file) = FlattenSeq(seqs)
  BY DEF Lines
<1>3. ASSUME NEW i \in 1 .. n PROVE Of(i) \in Seq(Line) /\ Len(Of(i)) \in Nat /\ Len(Of(i)) >= 1
  <2>. DEFINE pieces == file[i].pieces
              l      == Len(pieces)
  <2>1. pieces \in Seq(Text) /\ pieces # <<>> /\ i \in Nat
    BY <1>1, SMTT(20) DEF SourceLine, IsMarkdown
  <2>2. l \in Nat /\ DOMAIN pieces = 1 .. l /\ l >= 1 /\ \A k \in 1 .. l : pieces[k] \in Text
    BY <2>1, LenProperties, EmptySeq, ElementOfSeq
  <2>3. Of(i) = [k \in 1 .. l |-> [line |-> i, piece |-> pieces[k]]]
    BY <2>2
  <2>. HIDE DEF Of, pieces, l, n
  <2>4. ASSUME NEW k \in 1 .. l PROVE [line |-> i, piece |-> pieces[k]] \in Line
    BY <2>1, <2>2 DEF Line
  <2>5. Of(i) \in [1 .. l -> Line]
    BY <2>3, <2>4
  <2>. QED  BY <2>2, <2>5
<1>. HIDE DEF Of
<1>4. seqs = [i \in 1 .. n |-> Of(i)]
  BY <1>1
<1>. HIDE DEF seqs, n
<1>5. Len(seqs) = n /\ (n = 0 => seqs = <<>>)
  BY <1>1, <1>4
<1>6. \A k \in 1 .. n : seqs[k] = Of(k) /\ seqs[k] \in Seq(Line)
  BY <1>3, <1>4, Zenon
<1>7. PICK f : Appends(f, Line, n, seqs) /\ FlattenSeq(seqs) = f[n]
  BY <1>1, <1>5, <1>6, FlattenIsALoop
<1>8. /\ f[0] = <<>> /\ \A k \in 0 .. n : f[k] \in Seq(Line)
      /\ \A k \in 1 .. n : f[k] = f[k - 1] \o seqs[k]
  BY <1>7 DEF Appends
<1>. DEFINE R == {k \in Nat : k <= n => k <= Len(f[k])}
<1>9. 0 \in R
  BY <1>8
<1>10. ASSUME NEW k \in Nat, k \in R PROVE k + 1 \in R
  <2>1. SUFFICES ASSUME k + 1 <= n PROVE k + 1 <= Len(f[k + 1])
    OBVIOUS
  <2>2. k + 1 \in 1 .. n /\ k \in 0 .. n /\ (k + 1) - 1 = k /\ k <= Len(f[k])
    BY <1>1, <1>10, <2>1
  <2>3. f[k + 1] = f[k] \o Of(k + 1) /\ f[k] \in Seq(Line) /\ Of(k + 1) \in Seq(Line)
    BY <1>3, <1>6, <1>8, <2>2
  <2>4. Len(f[k + 1]) = Len(f[k]) + Len(Of(k + 1)) /\ Len(f[k]) \in Nat
    BY <2>3, ConcatProperties, LenProperties
  <2>5. Len(Of(k + 1)) \in Nat /\ Len(Of(k + 1)) >= 1
    BY <1>3, <2>2
  <2>6. \A a, b, c \in Nat : a <= b /\ c >= 1 => a + 1 <= b + c
    OBVIOUS
  <2>. QED  BY <2>2, <2>4, <2>5, <2>6
<1>. HIDE DEF R
<1>11. n \in R
  BY <1>1, <1>9, <1>10, EveryNumberIsReached
<1>12. n \in 0 .. n
  BY <1>1
<1>13. n <= Len(f[n]) /\ f[n] \in Seq(Line)
  BY <1>1, <1>8, <1>11, <1>12 DEF R
<1>14. Lines(file) = f[n]
  BY <1>2, <1>7
<1>. QED  BY <1>1, <1>13, <1>14 DEF n

HeadingRecord(file) == [line : 1 .. Len(file), level : 0 .. 6, piece : Text]

LEMMA HeadingsAreTyped ==
    ASSUME NEW file, IsMarkdown(file)
    PROVE  /\ Headings(file) \in Seq(HeadingRecord(file))
           /\ \A j, k \in 1 .. Len(Headings(file)) : j < k => Headings(file)[j].line < Headings(file)[k].line
           /\ \A k \in 1 .. Len(Headings(file)) :
                LET heading == Headings(file)[k]
                IN  /\ heading.level > 0 /\ heading.level = file[heading.line].level
                    /\ heading.piece = FlattenSeq(file[heading.line].pieces)
           /\ \A i \in DOMAIN file : file[i].level > 0 =>
                \E k \in 1 .. Len(Headings(file)) : Headings(file)[k].line = i
<1>. DEFINE n     == Len(file)
            S     == {i \in DOMAIN file : file[i].level > 0}
            found == Ascending(S)
            m     == Cardinality(S)
            Of(k) == [line |-> found[k], level |-> file[found[k]].level,
                      piece |-> FlattenSeq(file[found[k]].pieces)]
<1>1. n \in Nat /\ DOMAIN file = 1 .. n /\ \A i \in 1 .. n : file[i] \in SourceLine
  BY LenProperties, ElementOfSeq DEF IsMarkdown
<1>2. S \in SUBSET (0 .. n) /\ S \in SUBSET (1 .. n)
  BY <1>1
<1>3. Headings(file) = [k \in DOMAIN found |-> Of(k)]
  BY DEF Headings
<1>12. /\ \A i \in S : file[i].level > 0
       /\ \A i \in DOMAIN file : file[i].level > 0 => i \in S
  OBVIOUS
<1>. HIDE DEF S
<1>4. /\ m \in Nat /\ found \in [1 .. m -> S]
      /\ \A i \in S : \E p \in 1 .. m : found[p] = i
      /\ \A p, q \in 1 .. m : p < q <=> found[p] < found[q]
  BY <1>1, <1>2, AscendingIsSorted
<1>. HIDE DEF found, m
<1>5. ASSUME NEW i \in 1 .. n PROVE FlattenSeq(file[i].pieces) \in Text
  <2>. DEFINE pieces == file[i].pieces
              l      == Len(pieces)
  <2>1. pieces \in Seq(Text)
    BY <1>1 DEF SourceLine
  <2>2. l \in Nat /\ (l = 0 => pieces = <<>>) /\ \A k \in 1 .. l : pieces[k] \in Text
    BY <2>1, LenProperties, EmptySeq, ElementOfSeq
  <2>. HIDE DEF pieces, l
  <2>3. FlattenSeq(pieces) \in Text
    <3>1. \A k \in 1 .. l : pieces[k] \in Seq(Characters)
      BY <2>2 DEF Text
    <3>2. Len(pieces) = l
      BY DEF l
    <3>3. FlattenSeq(pieces) \in Seq(Characters)
      BY <2>2, <3>1, <3>2, FlattenIsTyped
    <3>. QED  BY <3>3 DEF Text
  <2>. QED  BY <2>3 DEF pieces
<1>6. ASSUME NEW k \in 1 .. m PROVE Of(k) \in HeadingRecord(file)
  <2>1. found[k] \in 1 .. n
    BY <1>2, <1>4
  <2>2. file[found[k]].level \in 0 .. 6 /\ FlattenSeq(file[found[k]].pieces) \in Text
    BY <1>1, <1>5, <2>1 DEF SourceLine
  <2>. QED  BY <2>1, <2>2 DEF HeadingRecord
<1>7. Headings(file) = [k \in 1 .. m |-> Of(k)]
  BY <1>3, <1>4
<1>8. \A k \in 1 .. m : /\ Of(k).line = found[k] /\ Of(k).level = file[found[k]].level
                        /\ Of(k).piece = FlattenSeq(file[found[k]].pieces)
  OBVIOUS
<1>. HIDE DEF Of
<1>9. Headings(file) \in [1 .. m -> HeadingRecord(file)]
  BY <1>6, <1>7
<1>10. Headings(file) \in Seq(HeadingRecord(file)) /\ Len(Headings(file)) = m
  BY <1>4, <1>9
<1>11. \A j, k \in 1 .. m : j < k => Headings(file)[j].line < Headings(file)[k].line
  BY <1>4, <1>7, <1>8
<1>13. ASSUME NEW k \in 1 .. m
       PROVE  LET heading == Headings(file)[k]
              IN  /\ heading.level > 0 /\ heading.level = file[heading.line].level
                  /\ heading.piece = FlattenSeq(file[heading.line].pieces)
  <2>1. Headings(file)[k] = Of(k) /\ file[found[k]].level > 0
    BY <1>4, <1>7, <1>12
  <2>. QED  BY <1>8, <2>1
<1>14. ASSUME NEW i \in DOMAIN file, file[i].level > 0
       PROVE  \E k \in 1 .. m : Headings(file)[k].line = i
  <2>1. PICK k \in 1 .. m : found[k] = i
    BY <1>4, <1>12, <1>14
  <2>. QED  BY <1>7, <1>8, <2>1
<1>. QED  BY <1>10, <1>11, <1>13, <1>14

\* the sections of a file, whatever headings they are under
SectionOf(paths) == [path : paths, page : Nat, lines : Seq(Line)]

LEMMA LinesAreCut ==
    ASSUME NEW lines \in Seq(Line), NEW a \in Nat \ {0}, NEW b \in Nat, b <= Len(lines)
    PROVE  SubSeq(lines, a, b) \in Seq(Line)
<1>1. Len(lines) \in Nat
  BY LenProperties
<1>2. \A i \in a .. b : i \in 1 .. Len(lines)
  BY <1>1
<1>3. \A i \in a .. b : lines[i] \in Line
  BY <1>2, ElementOfSeq
<1>. QED  BY <1>3, SubSeqProperties

LEMMA MarkdownSectionsAreTyped ==
    ASSUME NEW file, IsMarkdown(file)
    PROVE  \E paths : MarkdownSections(file) \in Seq(SectionOf(paths))
<1>. DEFINE lines    == Lines(file)
            headings == Headings(file)
            n        == Len(headings)
            paths    == {<<>>} \union {HeadingPath(headings, k) : k \in 1 .. n}
            T        == SectionOf(paths)
            under    == [k \in DOMAIN headings |-> UnderHeading(headings, k, lines)]
<1>1. lines \in Seq(Line) /\ Len(file) \in Nat /\ Len(file) <= Len(lines) /\ Len(lines) \in Nat
  BY LinesAreTyped, LenProperties
<1>2. /\ headings \in Seq(HeadingRecord(file))
      /\ \A j, k \in 1 .. n : j < k => headings[j].line < headings[k].line
  BY HeadingsAreTyped
<1>3. n \in Nat /\ DOMAIN headings = 1 .. n /\ (n = 0 <=> headings = <<>>)
  BY <1>2, LenProperties, EmptySeq
<1>4. ASSUME NEW k \in 1 .. n
      PROVE  headings[k].line \in 1 .. Len(file) /\ headings[k].piece \in Text
  <2>1. headings[k] \in HeadingRecord(file)
    BY <1>2, ElementOfSeq
  <2>. QED  BY <2>1 DEF HeadingRecord
<1>5. <<>> \in paths /\ \A k \in 1 .. n : HeadingPath(headings, k) \in paths
  OBVIOUS
<1>. HIDE DEF lines, headings, n, paths
<1>6. ASSUME NEW path \in paths, NEW body \in Seq(Line)
      PROVE  <<[path |-> path, page |-> NoPage, lines |-> body]>> \in Seq(T)
  <2>. DEFINE section == [path |-> path, page |-> NoPage, lines |-> body]
  <2>1. section \in T
    BY DEF SectionOf, NoPage
  <2>. HIDE DEF section, T
  <2>2. <<section>> \in Seq(T)
    BY <2>1
  <2>. QED  BY <2>2 DEF section
<1>7. <<>> \in Seq(T)
  BY EmptySeq
<1>. HIDE DEF T
<1>8. CASE headings = <<>>
  <2>1. MarkdownSections(file) = <<[path |-> <<>>, page |-> NoPage, lines |-> lines]>>
    BY <1>8 DEF MarkdownSections, lines, headings
  <2>2. MarkdownSections(file) \in Seq(T)
    BY <1>1, <1>5, <1>6, <2>1
  <2>. QED  BY <2>2 DEF T
<1>9. CASE headings # <<>>
  <2>1. MarkdownSections(file) = Preamble(headings, lines) \o FlattenSeq(under)
    BY <1>9 DEF MarkdownSections, lines, headings
  <2>2. Preamble(headings, lines) \in Seq(T)
    <3>. DEFINE last == headings[1].line - 1
                body == SubSeq(lines, 1, last)
    <3>1. 1 \in 1 .. n
      BY <1>3, <1>9
    <3>2. last \in Nat /\ last <= Len(lines)
      <4>1. headings[1].line \in 1 .. Len(file)
        BY <1>4, <3>1
      <4>. QED  BY <1>1, <4>1
    <3>3. body \in Seq(Line)
      <4>1. 1 \in Nat \ {0}
        OBVIOUS
      <4>. HIDE DEF last
      <4>. QED  BY <1>1, <3>2, <4>1, LinesAreCut
    <3>4. Preamble(headings, lines) =
              IF HasText(body) THEN <<[path |-> <<>>, page |-> NoPage, lines |-> body]>> ELSE <<>>
      BY DEF Preamble
    <3>. HIDE DEF body
    <3>. QED  BY <1>5, <1>6, <1>7, <3>3, <3>4
  <2>3. ASSUME NEW k \in 1 .. n PROVE UnderHeading(headings, k, lines) \in Seq(T)
    <3>. DEFINE heading == headings[k]
                next    == NextLine(headings, k, lines)
                body    == SubSeq(lines, heading.line + 1, next - 1)
                first   == <<[line |-> heading.line, piece |-> heading.piece]>>
    <3>1. heading.line \in 1 .. Len(file) /\ heading.piece \in Text
      BY <1>4
    <3>2. next - 1 \in Nat /\ next - 1 <= Len(lines)
      <4>1. CASE k < n
        <5>1. k + 1 \in 1 .. n
          BY <1>3, <4>1
        <5>2. headings[k + 1].line \in 1 .. Len(file)
          BY <1>4, <5>1
        <5>3. next = headings[k + 1].line
          BY <4>1 DEF NextLine, n
        <5>. HIDE DEF next
        <5>. QED  BY <1>1, <5>2, <5>3
      <4>2. CASE ~ (k < n)
        <5>1. next = Len(lines) + 1
          BY <4>2 DEF NextLine, n
        <5>. HIDE DEF next
        <5>. QED  BY <1>1, <5>1
      <4>. QED  BY <4>1, <4>2
    <3>3. body \in Seq(Line)
      <4>. DEFINE a == heading.line + 1
                  b == next - 1
      <4>1. a \in Nat \ {0}
        BY <1>1, <3>1
      <4>2. b \in Nat /\ b <= Len(lines)
        BY <3>2
      <4>. HIDE DEF a, b
      <4>3. SubSeq(lines, a, b) \in Seq(Line)
        BY <1>1, <4>1, <4>2, LinesAreCut
      <4>. QED  BY <4>3 DEF a, b
    <3>4. first \in Seq(Line)
      <4>. DEFINE line == [line |-> heading.line, piece |-> heading.piece]
      <4>1. line \in Line
        BY <1>1, <3>1 DEF Line
      <4>. HIDE DEF line
      <4>2. <<line>> \in Seq(Line)
        BY <4>1
      <4>. QED  BY <4>2 DEF line
    <3>5. UnderHeading(headings, k, lines) =
              IF HasText(body)
              THEN <<[path |-> HeadingPath(headings, k), page |-> NoPage, lines |-> first \o body]>>
              ELSE <<>>
      BY DEF UnderHeading
    <3>. HIDE DEF body, first
    <3>6. first \o body \in Seq(Line)
      BY <3>3, <3>4, ConcatProperties
    <3>. DEFINE whole == first \o body
    <3>7. UnderHeading(headings, k, lines) =
              IF HasText(body)
              THEN <<[path |-> HeadingPath(headings, k), page |-> NoPage, lines |-> whole]>>
              ELSE <<>>
      BY <3>5
    <3>8. whole \in Seq(Line)
      BY <3>6
    <3>. HIDE DEF whole
    <3>. QED  BY <1>5, <1>6, <1>7, <3>7, <3>8
  <2>4. under = [k \in 1 .. n |-> UnderHeading(headings, k, lines)]
    BY <1>3
  <2>. HIDE DEF under
  <2>5. Len(under) = n /\ (n = 0 => under = <<>>)
    BY <1>3, <2>4
  <2>6. \A k \in 1 .. n : under[k] \in Seq(T)
    BY <2>3, <2>4
  <2>7. FlattenSeq(under) \in Seq(T)
    BY <1>3, <2>5, <2>6, FlattenIsTyped
  <2>8. MarkdownSections(file) \in Seq(T)
    BY <2>1, <2>2, <2>7, ConcatProperties
  <2>. QED  BY <2>8 DEF T
<1>. QED  BY <1>8, <1>9

LEMMA PdfSectionsAreTyped ==
    ASSUME NEW file \in Seq({Broken} \union Text), Broken \notin ToSet(file)
    PROVE  \E paths : PdfSections(file) \in Seq(SectionOf(paths))
<1>. DEFINE n     == Len(file)
            paths == {<<>>}
            T     == SectionOf(paths)
            pages == [page \in DOMAIN file |-> PageSection(page, file[page])]
<1>1. n \in Nat /\ DOMAIN file = 1 .. n
  BY LenProperties
<1>2. \A k \in 1 .. n : file[k] \in Text
  BY <1>1, ElementOfSeq DEF ToSet
<1>3. ASSUME NEW k \in 1 .. n PROVE PageSection(k, file[k]) \in Seq(T)
  <2>. DEFINE line    == [line |-> k, piece |-> file[k]]
              lines   == <<line>>
              section == [path |-> <<>>, page |-> k, lines |-> lines]
  <2>1. PageSection(k, file[k]) = IF Blank(file[k]) THEN <<>> ELSE <<section>>
    BY DEF PageSection
  <2>2. line \in Line
    BY <1>1, <1>2 DEF Line
  <2>. HIDE DEF line
  <2>3. lines \in Seq(Line)
    BY <2>2
  <2>. HIDE DEF lines
  <2>4. section \in T
    BY <1>1, <2>3 DEF SectionOf
  <2>. HIDE DEF section, T
  <2>5. <<section>> \in Seq(T) /\ <<>> \in Seq(T)
    BY <2>4, EmptySeq
  <2>. QED  BY <2>1, <2>5
<1>4. PdfSections(file) = FlattenSeq(pages)
  BY DEF PdfSections
<1>5. pages = [k \in 1 .. n |-> PageSection(k, file[k])]
  BY <1>1
<1>. HIDE DEF pages, n, T
<1>6. Len(pages) = n /\ (n = 0 => pages = <<>>) /\ \A k \in 1 .. n : pages[k] \in Seq(T)
  BY <1>1, <1>3, <1>5
<1>7. FlattenSeq(pages) \in Seq(T)
  BY <1>1, <1>6, FlattenIsTyped
<1>. QED  BY <1>4, <1>7 DEF T

LEMMA SectionTextIsText ==
    ASSUME NEW section, section.lines \in Seq(Line)
    PROVE  SectionText(section) \in Text
<1>. DEFINE lines == section.lines
            n     == Len(lines)
            break == <<" ">>
            seqs  == [k \in DOMAIN lines |-> lines[k].piece \o break]
<1>1. n \in Nat /\ DOMAIN lines = 1 .. n
  BY LenProperties
<1>2. \A k \in 1 .. n : lines[k].piece \in Text
  <2>1. \A k \in 1 .. n : lines[k] \in Line
    BY ElementOfSeq
  <2>. QED  BY <2>1 DEF Line
<1>3. break \in Text
  <2>1. " " \in Characters
    BY DEF Characters
  <2>2. \A C : \A x \in C : <<x>> \in Seq(C)
    OBVIOUS
  <2>. QED  BY <2>1, <2>2 DEF Text
<1>4. SectionText(section) = FlattenSeq(seqs)
  BY DEF SectionText
<1>5. seqs = [k \in 1 .. n |-> lines[k].piece \o break]
  BY <1>1
<1>. HIDE DEF seqs, n, lines, break
<1>6. \A k \in 1 .. n : seqs[k] \in Text
  BY <1>2, <1>3, <1>5, ConcatIsText
<1>7. Len(seqs) = n /\ (n = 0 => seqs = <<>>) /\ \A k \in 1 .. n : seqs[k] \in Seq(Characters)
  BY <1>1, <1>5, <1>6 DEF Text
<1>8. FlattenSeq(seqs) \in Seq(Characters)
  BY <1>1, <1>7, FlattenIsTyped
<1>. QED  BY <1>4, <1>8 DEF Text
---------------------------------------------------------------------------
(* What every step keeps *)

AreExtracted(found) == \E paths : found \in Seq(SectionOf(paths))

\* what the chunkers make of a list of sections
Found(list) ==
    IF strategy = "fixed_window" THEN FixedWindowChunks(list) ELSE SectionAwareChunks(list)

SettingsFit == Sized /\ strategy \in {"fixed_window", "section_aware"}

SourceFits ==
    outcome = "none" =>
        \/ media = "markdown" /\ IsMarkdown(source)
        \/ media = "pdf" /\ source \in Seq({Broken} \union Text)

SectionsFit == outcome = "sections" => AreExtracted(sections)

ChunksFit ==
    /\ outcome \in {"none", "sections", "normalized"} => chunks = <<>>
    /\ chunks = <<>> \/ chunks = Found(normalized)
    /\ outcome = "none" => normalized = <<>>
    /\ outcome \in {"chunks", "no_extractable_text"} => normalized = <<>> \/ chunks = Found(normalized)

PipelineInv == SettingsFit /\ SourceFits /\ SectionsFit /\ normalized \in Layouts /\ ChunksFit

LEMMA NoSectionsAreLaidOut == <<>> \in Layouts
<1>. DEFINE none == <<>>
<1>1. none \in Seq(SectionRecord) /\ Len(none) = 0
  BY EmptySeq
<1>2. 1 .. 0 = {}
  OBVIOUS
<1>. HIDE DEF none
<1>3. none \in Layouts
  BY <1>1, <1>2 DEF Layouts, IsLaidOut
<1>. QED  BY <1>3 DEF none

LEMMA ExtractedAreNormalized ==
    ASSUME AreExtracted(sections)
    PROVE  NormalizeSections([s \in DOMAIN sections |-> SectionText(sections[s])]) \in Layouts
<1>. DEFINE n     == Len(sections)
            texts == [s \in DOMAIN sections |-> SectionText(sections[s])]
<1>1. PICK paths : sections \in Seq(SectionOf(paths))
  BY DEF AreExtracted
<1>. DEFINE T == SectionOf(paths)
<1>2. \A x \in T : x.lines \in Seq(Line)
  BY DEF SectionOf
<1>3. sections \in Seq(T)
  BY <1>1
<1>. HIDE DEF T
<1>4. n \in Nat /\ DOMAIN sections = 1 .. n /\ \A s \in 1 .. n : sections[s] \in T
  BY <1>3, LenProperties, ElementOfSeq
<1>5. ASSUME NEW s \in 1 .. n PROVE SectionText(sections[s]) \in Text
  BY <1>2, <1>4, SectionTextIsText
<1>6. texts = [s \in 1 .. n |-> SectionText(sections[s])]
  BY <1>4
<1>. HIDE DEF texts, n
<1>7. texts \in [1 .. n -> Text]
  BY <1>5, <1>6
<1>8. texts \in Seq(Text)
  BY <1>4, <1>7, SeqDef
<1>9. NormalizeSections(texts) \in Layouts
  BY <1>8, SectionsAreLaidOut
<1>. QED  BY <1>9 DEF texts

LEMMA PipelineStarts == Init => PipelineInv
<1>. SUFFICES ASSUME Init PROVE PipelineInv
  OBVIOUS
<1>1. SettingsFit
  BY ChunkingAssumption DEF Init, ChunkingInit, SettingsFit, Sized
<1>2. SourceFits
  <2>1. CASE media = "markdown" /\ source \in MarkdownFiles
    BY <2>1, ExtractionAssumption DEF SourceFits, IsMarkdown, SourceLine
  <2>2. CASE media = "pdf" /\ source \in PdfFiles
    BY <2>2, ExtractionAssumption DEF SourceFits
  <2>. QED  BY <2>1, <2>2 DEF Init, ExtractionInit
<1>3. outcome = "none" /\ normalized = <<>> /\ chunks = <<>>
  BY DEF Init, ExtractionInit, ChunkingInit
<1>. QED  BY <1>1, <1>2, <1>3, NoSectionsAreLaidOut DEF PipelineInv, SectionsFit, ChunksFit

LEMMA PipelineGoesOn == PipelineInv /\ [Next]_vars => PipelineInv'
<1>. SUFFICES ASSUME PipelineInv, [Next]_vars PROVE PipelineInv'
  OBVIOUS
<1>1. CASE Extract
  <2>1. /\ UNCHANGED <<strategy, size, overlap, normalized, chunks>>
        /\ outcome = "none" /\ chunks = <<>> /\ normalized = <<>>
    BY <1>1 DEF Extract, ExtractMarkdown, ExtractPdf, chunkingVars, settings, PipelineInv, ChunksFit
  <2>2. outcome' # "none"
    BY <1>1 DEF Extract, ExtractMarkdown, ExtractPdf, Refuse, Extracted
  <2>3. outcome' = "sections" => AreExtracted(sections')
    <3>. SUFFICES ASSUME outcome' = "sections" PROVE AreExtracted(sections')
      OBVIOUS
    <3>1. CASE media = "markdown"
      <4>1. sections' = MarkdownSections(source)
        BY <1>1, <3>1 DEF Extract, ExtractMarkdown, ExtractPdf, Refuse, Extracted
      <4>2. IsMarkdown(source)
        BY <2>1, <3>1 DEF PipelineInv, SourceFits
      <4>. QED  BY <4>1, <4>2, MarkdownSectionsAreTyped DEF AreExtracted
    <3>2. CASE media = "pdf"
      <4>1. source \in Seq({Broken} \union Text)
        BY <2>1, <3>2 DEF PipelineInv, SourceFits
      <4>2. Len(source) \in Nat /\ MaxPdfPages \in Nat
        BY <4>1, LenProperties, ExtractionAssumption
      <4>3. ExtractPdf
        BY <1>1, <3>2 DEF Extract, ExtractMarkdown
      <4>4. CASE Len(source) > MaxPdfPages
        BY <4>2, <4>3, <4>4 DEF ExtractPdf, Refuse
      <4>5. CASE Len(source) <= MaxPdfPages /\ Broken \in ToSet(source)
        BY <4>2, <4>3, <4>5 DEF ExtractPdf, Refuse
      <4>6. CASE Len(source) <= MaxPdfPages /\ Broken \notin ToSet(source)
        <5>1. sections' = PdfSections(source)
          BY <4>2, <4>3, <4>6 DEF ExtractPdf, Refuse, Extracted
        <5>. QED  BY <4>1, <4>6, <5>1, PdfSectionsAreTyped DEF AreExtracted
      <4>. QED  BY <4>2, <4>4, <4>5, <4>6
    <3>. QED  BY <2>1, <3>1, <3>2 DEF PipelineInv, SourceFits
  <2>4. SettingsFit' /\ normalized' \in Layouts
    BY <2>1 DEF PipelineInv, SettingsFit, Sized
  <2>5. SourceFits' /\ SectionsFit' /\ ChunksFit'
    BY <2>1, <2>2, <2>3 DEF SourceFits, SectionsFit, ChunksFit
  <2>. QED  BY <2>4, <2>5 DEF PipelineInv
<1>2. CASE NormalizeExtracted
  <2>1. /\ UNCHANGED <<strategy, size, overlap, chunks>>
        /\ outcome = "sections" /\ chunks = <<>>
        /\ outcome' = "normalized" \/ (outcome' = "no_extractable_text" /\ normalized' = <<>>)
        /\ normalized' = NormalizeSections([s \in DOMAIN sections |-> SectionText(sections[s])])
    BY <1>2 DEF NormalizeExtracted, Normalize, settings, PipelineInv, ChunksFit
  <2>2. normalized' \in Layouts
    BY <2>1, ExtractedAreNormalized DEF PipelineInv, SectionsFit
  <2>3. SettingsFit'
    BY <2>1 DEF PipelineInv, SettingsFit, Sized
  <2>4. SourceFits' /\ SectionsFit' /\ ChunksFit'
    BY <2>1 DEF SourceFits, SectionsFit, ChunksFit
  <2>. QED  BY <2>2, <2>3, <2>4 DEF PipelineInv
<1>3. CASE ChunkNormalized
  <2>1. /\ UNCHANGED <<strategy, size, overlap, normalized>>
        /\ outcome' \in {"no_extractable_text", "chunks"}
        /\ chunks' = Found(normalized)
    BY <1>3 DEF ChunkNormalized, Chunk, settings, Found
  <2>2. Found(normalized)' = Found(normalized)
    <3>1. strategy' = strategy /\ size' = size /\ overlap' = overlap /\ normalized' = normalized
      BY <2>1
    <3>. QED  BY <3>1 DEF Found, FixedWindowChunks, SectionAwareChunks, Windows, Step
  <2>3. SettingsFit' /\ normalized' \in Layouts
    BY <2>1 DEF PipelineInv, SettingsFit, Sized
  <2>4. SourceFits' /\ SectionsFit' /\ ChunksFit'
    BY <2>1, <2>2 DEF SourceFits, SectionsFit, ChunksFit
  <2>. QED  BY <2>3, <2>4 DEF PipelineInv
<1>4. CASE UNCHANGED vars
  <2>1. UNCHANGED <<strategy, size, overlap, normalized, chunks, media, source, outcome, sections>>
    BY <1>4 DEF vars, extractionVars, chunkingVars, settings
  <2>2. Found(normalized)' = Found(normalized)
    BY <2>1 DEF Found, FixedWindowChunks, SectionAwareChunks, Windows, Step
  <2>3. SettingsFit' /\ normalized' \in Layouts
    BY <2>1 DEF PipelineInv, SettingsFit, Sized
  <2>4. SourceFits' /\ SectionsFit' /\ ChunksFit'
    BY <2>1, <2>2 DEF PipelineInv, SourceFits, SectionsFit, ChunksFit
  <2>. QED  BY <2>3, <2>4 DEF PipelineInv
<1>. QED  BY <1>1, <1>2, <1>3, <1>4 DEF Next

LEMMA FoundAreLocated == PipelineInv => ChunksAreLocated
<1>. DEFINE list == normalized
<1>0. FullText = TextOfAll(normalized)
  BY DEF FullText, TextOfAll
<1>. SUFFICES ASSUME PipelineInv, NEW i \in DOMAIN chunks PROVE IsLocated(chunks[i], normalized)
  BY <1>0, Zenon DEF ChunksAreLocated, IsLocated
<1>1. Sized /\ normalized \in Layouts /\ chunks = Found(normalized)
  BY DEF PipelineInv, SettingsFit, ChunksFit
<1>2. CASE strategy = "fixed_window"
  <2>. DEFINE windows == Windows(TextOfAll(normalized))
  <2>1. chunks = [k \in DOMAIN windows |-> Locate(windows[k], SectionAt(normalized, windows[k].start), 0)]
    BY <1>1, <1>2 DEF Found, FixedWindowChunks, TextOfAll
  <2>2. TextOfAll(normalized) \in Text
    BY <1>1, MarksHaveSections
  <2>3. DOMAIN windows = 1 .. Len(windows)
    BY <1>1, <2>2, WindowsAreRuns DEF AreWindows
  <2>4. i \in 1 .. Len(windows) /\ chunks[i] = Locate(windows[i], SectionAt(normalized, windows[i].start), 0)
    BY <2>1, <2>3
  <2>. QED  BY <1>1, <1>2, <2>4, FixedWindowsAreLocated
<1>3. CASE strategy # "fixed_window"
  <2>1. chunks = SectionAwareChunks(normalized)
    BY <1>1, <1>3 DEF Found
  <2>2. chunks \in Seq(Spans) /\ AreSectionWindows(chunks, normalized, Len(normalized))
    BY <1>1, <2>1, SectionChunksAreWindows
  <2>3. i \in 1 .. Len(chunks)
    BY <2>2, LenProperties
  <2>4. PICK p \in Nat : IsWindow(chunks[i], normalized, p)
    BY <2>2, <2>3, Zenon DEF AreSectionWindows
  <2>5. PICK k \in 1 .. Len(normalized) : k = chunks[i].section
    BY <2>4 DEF IsWindow
  <2>6. /\ p \in 1 .. Len(Windows(normalized[k].text))
        /\ chunks[i] = Locate(Windows(normalized[k].text)[p], k, normalized[k].start)
    BY <2>4, <2>5 DEF IsWindow
  <2>. QED  BY <1>1, <2>6, SectionWindowsAreLocated
<1>. QED  BY <1>2, <1>3

\* A citation points at its text, in every file and with any settings: the
\* offsets of a chunk, in the text of all sections, give back its excerpt.
THEOREM ChunksPointAtTheirText == Spec => []ChunksAreLocated
<1>1. Init => PipelineInv
  BY PipelineStarts
<1>2. PipelineInv /\ [Next]_vars => PipelineInv'
  BY PipelineGoesOn
<1>3. PipelineInv => ChunksAreLocated
  BY FoundAreLocated
<1>. QED  BY <1>1, <1>2, <1>3, PTL DEF Spec
---------------------------------------------------------------------------
(* Tokens in chunks *)

\* tokens in order, apart from each other
IsRun(tok, n) ==
    /\ n \in Nat /\ tok \in [1 .. n -> [start : Nat, end : Nat]]
    /\ \A q \in 1 .. n : tok[q].start < tok[q].end
    /\ \A j, k \in 1 .. n : j < k => tok[j].end <= tok[k].start

Part(tok, a, b) == {tok[q] : q \in a .. b}

LEMMA RunsAreOrdered ==
    ASSUME NEW tok, NEW n, IsRun(tok, n)
    PROVE  /\ \A q \in 1 .. n : /\ tok[q].start \in Nat /\ tok[q].end \in Nat
                                /\ tok[q].start < tok[q].end
           /\ \A j, k \in 1 .. n : j < k => /\ tok[j].start < tok[k].start
                                            /\ tok[j].end < tok[k].end
                                            /\ tok[j].end <= tok[k].start
           /\ \A j, k \in 1 .. n : tok[j] = tok[k] => j = k
<1>1. \A q \in 1 .. n : /\ tok[q].start \in Nat /\ tok[q].end \in Nat
                        /\ tok[q].start < tok[q].end
  BY DEF IsRun
<1>2. n \in Nat /\ \A j, k \in 1 .. n : j < k => tok[j].end <= tok[k].start
  BY DEF IsRun
<1>3. ASSUME NEW j \in 1 .. n, NEW k \in 1 .. n, j < k
      PROVE  tok[j].start < tok[k].start /\ tok[j].end < tok[k].end
  <2>1. tok[j].end <= tok[k].start
    BY <1>2, <1>3
  <2>2. \A a, b, c, d \in Nat : a < b /\ b <= c /\ c < d => a < c /\ b < d
    OBVIOUS
  <2>. QED  BY <1>1, <2>1, <2>2
<1>4. ASSUME NEW j \in 1 .. n, NEW k \in 1 .. n, tok[j] = tok[k] PROVE j = k
  <2>1. ~ (j < k)
    <3>1. SUFFICES ASSUME j < k PROVE FALSE
      OBVIOUS
    <3>2. tok[j].start < tok[k].start /\ tok[j].start \in Nat
      BY <1>1, <1>3, <3>1
    <3>. QED  BY <1>4, <3>2
  <2>2. ~ (k < j)
    <3>1. SUFFICES ASSUME k < j PROVE FALSE
      OBVIOUS
    <3>2. tok[k].start < tok[j].start /\ tok[k].start \in Nat
      BY <1>1, <1>3, <3>1
    <3>. QED  BY <1>4, <3>2
  <2>. QED  BY <1>2, <2>1, <2>2
<1>. QED  BY <1>1, <1>2, <1>3, <1>4

LEMMA PartsAreCounted ==
    ASSUME NEW tok, NEW n, IsRun(tok, n), NEW a \in 1 .. n + 1, NEW b \in 0 .. n, a <= b + 1
    PROVE  Cardinality(Part(tok, a, b)) = b - a + 1
<1>1. n \in Nat
  BY DEF IsRun
<1>2. \A q \in a .. b : q \in 1 .. n
  BY <1>1
<1>. DEFINE f == [q \in a .. b |-> tok[q]]
            P == Part(tok, a, b)
<1>3. f \in [a .. b -> P] /\ \A t \in P : \E q \in a .. b : f[q] = t
  BY DEF Part
<1>4. \A j, k \in a .. b : f[j] = f[k] => j = k
  BY <1>2, RunsAreOrdered
<1>. HIDE DEF f, P
<1>5. f \in Bijection(a .. b, P)
  BY <1>3, <1>4 DEF Bijection, Injection, Surjection, IsInjective
<1>6. ExistsBijection(a .. b, P)
  BY <1>5 DEF ExistsBijection
<1>7. IsFiniteSet(a .. b) /\ Cardinality(a .. b) = IF a > b THEN 0 ELSE b - a + 1
  <2>1. a \in Int /\ b \in Int
    BY <1>1
  <2>. QED  BY <2>1, FS_Interval
<1>8. Cardinality(P) = Cardinality(a .. b)
  BY <1>6, <1>7, FS_Bijection
<1>9. Cardinality(P) = b - a + 1
  BY <1>1, <1>7, <1>8
<1>. QED  BY <1>9 DEF P

\* two parts have their overlap in common
LEMMA PartsMeet ==
    ASSUME NEW tok, NEW n, IsRun(tok, n), NEW a \in 1 .. n, NEW b \in 1 .. n,
           NEW c \in 1 .. n, NEW d \in 1 .. n, a <= c, b <= d
    PROVE  Part(tok, c, d) \intersect Part(tok, a, b) = Part(tok, c, b)
<1>1. n \in Nat /\ \A j, k \in 1 .. n : tok[j] = tok[k] => j = k
  BY RunsAreOrdered DEF IsRun
<1>2. ASSUME NEW t \in Part(tok, c, d), t \in Part(tok, a, b) PROVE t \in Part(tok, c, b)
  <2>1. PICK j \in c .. d : t = tok[j]
    BY DEF Part
  <2>2. PICK k \in a .. b : t = tok[k]
    BY <1>2 DEF Part
  <2>3. j \in 1 .. n /\ k \in 1 .. n
    BY <1>1
  <2>4. j = k
    BY <1>1, <2>1, <2>2, <2>3
  <2>5. j \in c .. b
    BY <1>1, <2>4
  <2>. QED  BY <2>1, <2>5 DEF Part
<1>3. ASSUME NEW t \in Part(tok, c, b) PROVE t \in Part(tok, c, d) /\ t \in Part(tok, a, b)
  <2>1. PICK j \in c .. b : t = tok[j]
    BY DEF Part
  <2>2. j \in c .. d /\ j \in a .. b
    BY <1>1
  <2>. QED  BY <2>1, <2>2 DEF Part
<1>. QED  BY <1>2, <1>3

\* the tokens between the start of one and the end of another are those from
\* the one to the other
LEMMA PartsAreWithin ==
    ASSUME NEW tok, NEW n, IsRun(tok, n), NEW a \in 1 .. n, NEW b \in 1 .. n, a <= b,
           NEW chunk, chunk.start = tok[a].start, chunk.end = tok[b].end,
           NEW All, \A q \in 1 .. n : tok[q] \in All,
           \A t \in All : Within(t, chunk) => \E q \in 1 .. n : tok[q] = t
    PROVE  {t \in All : Within(t, chunk)} = Part(tok, a, b)
<1>1. n \in Nat
  BY DEF IsRun
<1>2. ASSUME NEW q \in a .. b PROVE q \in 1 .. n /\ Within(tok[q], chunk)
  <2>1. q \in 1 .. n
    BY <1>1
  <2>2. tok[a].start <= tok[q].start
    <3>1. tok[a].start \in Nat /\ tok[q].start \in Nat
      BY <2>1, RunsAreOrdered
    <3>2. a < q => tok[a].start < tok[q].start
      BY <2>1, RunsAreOrdered
    <3>3. CASE a = q
      BY <3>1, <3>3
    <3>4. CASE a # q
      BY <1>1, <3>1, <3>2, <3>4
    <3>. QED  BY <3>3, <3>4
  <2>3. tok[q].end <= tok[b].end
    <3>1. tok[b].end \in Nat /\ tok[q].end \in Nat
      BY <2>1, RunsAreOrdered
    <3>2. q < b => tok[q].end < tok[b].end
      BY <2>1, RunsAreOrdered
    <3>3. CASE b = q
      BY <3>1, <3>3
    <3>4. CASE b # q
      BY <1>1, <3>1, <3>2, <3>4
    <3>. QED  BY <3>3, <3>4
  <2>. QED  BY <2>1, <2>2, <2>3 DEF Within
<1>3. ASSUME NEW q \in 1 .. n, Within(tok[q], chunk) PROVE q \in a .. b
  <2>1. tok[a].start <= tok[q].start /\ tok[q].end <= tok[b].end
    BY <1>3 DEF Within
  <2>2. /\ tok[a].start \in Nat /\ tok[q].start \in Nat /\ tok[q].end \in Nat /\ tok[b].end \in Nat
    BY RunsAreOrdered
  <2>3. q < a => tok[q].start < tok[a].start
    BY RunsAreOrdered
  <2>4. b < q => tok[b].end < tok[q].end
    BY RunsAreOrdered
  <2>5. ~ (q < a) /\ ~ (b < q)
    BY <2>1, <2>2, <2>3, <2>4
  <2>. QED  BY <1>1, <2>5
<1>. QED  BY <1>2, <1>3 DEF Part

\* a chunk that is window p of a run of tokens
IsCounted(chunk, tok, n, p) ==
    /\ IsRun(tok, n) /\ p \in Nat \ {0}
    /\ First(p) \in 1 .. n /\ Final(p, n) \in First(p) .. n
    /\ Final(p, n) <= First(p) + size - 1
    /\ chunk.start = tok[First(p)].start /\ chunk.end = tok[Final(p, n)].end
    /\ TokensIn(chunk) = Part(tok, First(p), Final(p, n))

LEMMA WindowsAreCounted ==
    ASSUME Sized, NEW chunk, NEW tok, NEW n, NEW p, IsCounted(chunk, tok, n, p)
    PROVE  Cardinality(TokensIn(chunk)) \in 1 .. size
<1>. DEFINE a == First(p)
            b == Final(p, n)
<1>1. /\ n \in Nat /\ a \in 1 .. n /\ b \in a .. n /\ b <= a + size - 1
      /\ TokensIn(chunk) = Part(tok, a, b) /\ IsRun(tok, n)
  BY DEF IsCounted, IsRun
<1>. HIDE DEF a, b
<1>2. a \in 1 .. n + 1 /\ b \in 0 .. n /\ a <= b + 1 /\ a <= b
  BY <1>1
<1>3. Cardinality(TokensIn(chunk)) = b - a + 1
  BY <1>1, <1>2, PartsAreCounted
<1>4. size \in Nat
  BY DEF Sized
<1>. QED  BY <1>1, <1>2, <1>3, <1>4

LEMMA WindowsOverlap ==
    ASSUME Sized, NEW chunk, NEW before, NEW tok, NEW n, NEW p,
           IsCounted(chunk, tok, n, p + 1), IsCounted(before, tok, n, p), p \in Nat \ {0},
           Final(p, n) = First(p) + size - 1, Final(p, n) < n
    PROVE  /\ Cardinality(TokensIn(chunk) \intersect TokensIn(before)) = overlap
           /\ before.end < chunk.end
<1>. DEFINE a == First(p)
            b == Final(p, n)
            c == First(p + 1)
            d == Final(p + 1, n)
<1>1. /\ n \in Nat /\ IsRun(tok, n) /\ a \in 1 .. n /\ b \in a .. n
      /\ TokensIn(before) = Part(tok, a, b) /\ before.end = tok[b].end
  BY DEF IsCounted, IsRun
<1>2. /\ c \in 1 .. n /\ d \in c .. n
      /\ TokensIn(chunk) = Part(tok, c, d) /\ chunk.end = tok[d].end
  BY DEF IsCounted
<1>3. c = a + (size - overlap) /\ size \in Nat \ {0} /\ overlap \in 0 .. size - 1
  BY FirstsGrow DEF Sized
<1>4. d = c + size - 1 \/ d = n
  <2>1. p + 1 \in Nat \ {0} /\ First(p + 1) <= n
    BY <1>1, <1>2
  <2>. QED  BY <1>1, <2>1, FinalIsTheSmaller
<1>5. b = a + size - 1 /\ b < n
  OBVIOUS
<1>. HIDE DEF a, b, c, d
<1>6. b \in 1 .. n /\ d \in 1 .. n /\ a <= c /\ b < d /\ b <= d
  BY <1>1, <1>2, <1>3, <1>4, <1>5
<1>7. TokensIn(chunk) \intersect TokensIn(before) = Part(tok, c, b)
  BY <1>1, <1>2, <1>6, PartsMeet
<1>8. c \in 1 .. n + 1 /\ b \in 0 .. n /\ c <= b + 1 /\ b - c + 1 = overlap
  BY <1>1, <1>2, <1>3, <1>5
<1>9. Cardinality(Part(tok, c, b)) = b - c + 1
  BY <1>1, <1>8, PartsAreCounted
<1>10. tok[b].end < tok[d].end
  BY <1>1, <1>6, RunsAreOrdered
<1>. QED  BY <1>1, <1>2, <1>7, <1>8, <1>9, <1>10

\* the tokens of section k, where the text of all sections has them
Moved(k) ==
    LET tokens == Tokens(normalized[k].text)
    IN  [q \in 1 .. Len(tokens) |-> [start |-> normalized[k].start + tokens[q].start,
                                     end   |-> normalized[k].start + tokens[q].end]]

AllTokens == UNION {TokensOf(k) : k \in DOMAIN normalized}

LEMMA TokensAreRuns ==
    ASSUME NEW text \in Text
    PROVE  IsRun(Tokens(text), Len(Tokens(text)))
BY TokensAreInOrder DEF AreTokens, IsRun

LEMMA MovedAreRuns ==
    ASSUME normalized \in Layouts, NEW k \in 1 .. Len(normalized)
    PROVE  LET n == Len(Tokens(normalized[k].text))
           IN  /\ IsRun(Moved(k), n) /\ n \in Nat
               /\ \A t \in TokensOf(k) : \E q \in 1 .. n : Moved(k)[q] = t
               /\ \A q \in 1 .. n : /\ Moved(k)[q] \in TokensOf(k)
                                    /\ normalized[k].start <= Moved(k)[q].start
                                    /\ Moved(k)[q].end <= normalized[k].end
<1>. DEFINE tokens == Tokens(normalized[k].text)
            n      == Len(tokens)
            s      == normalized[k].start
            l      == Len(normalized[k].text)
            Moves(t) == [start |-> s + t.start, end |-> s + t.end]
            moved  == [q \in 1 .. n |-> Moves(tokens[q])]
<1>1. /\ normalized[k].text \in Text /\ s \in Nat /\ l \in Nat /\ normalized[k].end = s + l
  BY LayoutsAreTyped
<1>2. /\ n \in Nat /\ tokens \in [1 .. n -> [start : Nat, end : Nat]]
      /\ \A q \in 1 .. n : tokens[q].start < tokens[q].end /\ tokens[q].end <= l
      /\ \A i, j \in 1 .. n : i < j => tokens[i].end <= tokens[j].start
  BY <1>1, TokensAreInOrder DEF AreTokens
<1>3. Moved(k) = moved
  BY DEF Moved
<1>4. TokensOf(k) = {Moves(t) : t \in ToSet(tokens)}
  BY DEF TokensOf
<1>5. ToSet(tokens) = {tokens[q] : q \in 1 .. n}
  BY <1>2 DEF ToSet
<1>. HIDE DEF tokens, n, s, l
<1>6. ASSUME NEW q \in 1 .. n
      PROVE  /\ tokens[q].start \in Nat /\ tokens[q].end \in Nat
             /\ moved[q].start = s + tokens[q].start /\ moved[q].end = s + tokens[q].end
             /\ moved[q] = Moves(tokens[q]) /\ moved[q] \in [start : Nat, end : Nat]
  BY <1>1, <1>2
<1>7. moved \in [1 .. n -> [start : Nat, end : Nat]]
  BY <1>6
<1>. HIDE DEF moved
<1>8. ASSUME NEW q \in 1 .. n
      PROVE  moved[q].start < moved[q].end /\ s <= moved[q].start /\ moved[q].end <= s + l
  <2>1. \A x, y \in Nat : x < y /\ y <= l => s + x < s + y /\ s <= s + x /\ s + y <= s + l
    BY <1>1
  <2>2. tokens[q].start < tokens[q].end /\ tokens[q].end <= l
    BY <1>2
  <2>. QED  BY <1>6, <2>1, <2>2
<1>9. ASSUME NEW i \in 1 .. n, NEW j \in 1 .. n, i < j PROVE moved[i].end <= moved[j].start
  <2>1. tokens[i].end <= tokens[j].start
    BY <1>2, <1>9
  <2>2. \A x, y \in Nat : x <= y => s + x <= s + y
    BY <1>1
  <2>. QED  BY <1>6, <2>1, <2>2
<1>10. IsRun(moved, n)
  BY <1>2, <1>7, <1>8, <1>9 DEF IsRun
<1>11. \A t \in TokensOf(k) : \E q \in 1 .. n : moved[q] = t
  BY <1>4, <1>5, <1>6
<1>12. \A q \in 1 .. n : moved[q] \in TokensOf(k)
  BY <1>4, <1>5, <1>6, ZenonT(30)
<1>. QED  BY <1>1, <1>2, <1>3, <1>8, <1>10, <1>11, <1>12 DEF n, tokens, s

LEMMA SectionWindowsAreCounted ==
    ASSUME Sized, normalized \in Layouts, NEW k \in 1 .. Len(normalized),
           NEW p \in 1 .. Len(Windows(normalized[k].text))
    PROVE  IsCounted(Locate(Windows(normalized[k].text)[p], k, normalized[k].start),
                     Moved(k), Len(Tokens(normalized[k].text)), p)
<1>. DEFINE tokens == Tokens(normalized[k].text)
            n      == Len(tokens)
            s      == normalized[k].start
            a      == First(p)
            b      == Final(p, n)
            window == Windows(normalized[k].text)[p]
            chunk  == Locate(window, k, s)
<1>1. /\ normalized[k].text \in Text /\ s \in Nat
  BY LayoutsAreTyped
<1>2. /\ Len(Windows(normalized[k].text)) \in Nat
      /\ a \in 1 .. n /\ b \in a .. n /\ b <= a + size - 1
      /\ window = [text  |-> Slice(normalized[k].text, tokens[a].start, tokens[b].end),
                   start |-> tokens[a].start, end |-> tokens[b].end]
  BY <1>1, WindowsAreRuns DEF AreWindows
<1>3. /\ IsRun(Moved(k), n) /\ n \in Nat
      /\ \A t \in TokensOf(k) : \E q \in 1 .. n : Moved(k)[q] = t
      /\ \A q \in 1 .. n : /\ Moved(k)[q] \in TokensOf(k)
                           /\ normalized[k].start <= Moved(k)[q].start
                           /\ Moved(k)[q].end <= normalized[k].end
  BY MovedAreRuns
<1>4. \A q \in 1 .. n : /\ Moved(k)[q].start = s + tokens[q].start
                        /\ Moved(k)[q].end = s + tokens[q].end
  BY DEF Moved
<1>5. chunk.start = s + window.start /\ chunk.end = s + window.end
  BY DEF Locate
<1>6. DOMAIN normalized = 1 .. Len(normalized) /\ Len(normalized) \in Nat
  BY LayoutsAreTyped
<1>. HIDE DEF n, tokens, a, b, window, chunk
<1>7. a \in 1 .. n /\ b \in 1 .. n /\ a <= b
  BY <1>2, <1>3
<1>8. chunk.start = Moved(k)[a].start /\ chunk.end = Moved(k)[b].end
  BY <1>2, <1>4, <1>5, <1>7
<1>9. \A q \in 1 .. n : Moved(k)[q] \in AllTokens
  BY <1>3, <1>6 DEF AllTokens
<1>10. ASSUME NEW t \in AllTokens, Within(t, chunk) PROVE \E q \in 1 .. n : Moved(k)[q] = t
  <2>1. PICK j \in 1 .. Len(normalized) : t \in TokensOf(j)
    BY <1>6 DEF AllTokens
  <2>2. CASE j = k
    BY <1>3, <2>1, <2>2
  <2>3. CASE j # k
    \* t lies in section j, and chunk in section k
    <3>1. /\ t.start \in Nat /\ t.end \in Nat /\ t.start < t.end
          /\ normalized[j].start <= t.start /\ t.end <= normalized[j].end
      <4>. DEFINE m == Len(Tokens(normalized[j].text))
      <4>1. PICK q \in 1 .. m : Moved(j)[q] = t
        BY <2>1, MovedAreRuns
      <4>2. IsRun(Moved(j), m) /\ normalized[j].start <= t.start /\ t.end <= normalized[j].end
        BY <4>1, MovedAreRuns
      <4>. HIDE DEF m
      <4>. QED  BY <4>1, <4>2, RunsAreOrdered
    <3>2. normalized[k].start <= t.start /\ t.end <= normalized[k].end
      <4>1. chunk.start <= t.start /\ t.end <= chunk.end
        BY <1>10 DEF Within
      <4>2. normalized[k].start <= chunk.start /\ chunk.end <= normalized[k].end
        BY <1>3, <1>7, <1>8
      <4>3. chunk.start \in Nat /\ chunk.end \in Nat
        BY <1>3, <1>7, <1>8, RunsAreOrdered
      <4>4. normalized[k].start \in Nat /\ normalized[k].end \in Nat
        BY LayoutsAreTyped
      <4>5. \A x, y, z \in Nat : x <= y /\ y <= z => x <= z
        OBVIOUS
      <4>. QED  BY <3>1, <4>1, <4>2, <4>3, <4>4, <4>5, Zenon
    <3>3. ASSUME NEW i \in 1 .. Len(normalized)
          PROVE  normalized[i].start \in Nat /\ normalized[i].end \in Nat
      <4>1. /\ normalized[i].start \in Nat /\ Len(normalized[i].text) \in Nat
            /\ normalized[i].end = normalized[i].start + Len(normalized[i].text)
        BY LayoutsAreTyped
      <4>. QED  BY <4>1
    <3>4. CASE j < k
      <4>1. normalized[j].end + 2 <= normalized[k].start
        BY <3>4, SectionsAreApart
      <4>. QED  BY <3>1, <3>2, <3>3, <4>1, SMTT(20)
    <3>5. CASE k < j
      <4>1. normalized[k].end + 2 <= normalized[j].start
        BY <3>5, SectionsAreApart
      <4>. QED  BY <3>1, <3>2, <3>3, <4>1, SMTT(20)
    <3>. QED  BY <2>3, <3>4, <3>5
  <2>. QED  BY <2>2, <2>3
<1>11. {t \in AllTokens : Within(t, chunk)} = Part(Moved(k), a, b)
  <2>. DEFINE tok == Moved(k)
              all == AllTokens
  <2>1. IsRun(tok, n) /\ \A q \in 1 .. n : tok[q] \in all
    BY <1>3, <1>9
  <2>2. chunk.start = tok[a].start /\ chunk.end = tok[b].end
    BY <1>8
  <2>3. \A t \in all : Within(t, chunk) => \E q \in 1 .. n : tok[q] = t
    BY <1>10
  <2>. HIDE DEF tok, all
  <2>4. {t \in all : Within(t, chunk)} = Part(tok, a, b)
    BY <1>7, <2>1, <2>2, <2>3, PartsAreWithin
  <2>. QED  BY <2>4 DEF tok, all
<1>12. TokensIn(chunk) = Part(Moved(k), a, b)
  BY <1>11 DEF TokensIn, AllTokens
<1>13. p \in Nat \ {0}
  BY <1>2
<1>14. IsCounted(chunk, Moved(k), n, p)
  BY <1>2, <1>3, <1>8, <1>12, <1>13 DEF IsCounted, a, b
<1>. QED  BY <1>14 DEF chunk, window, s, n, tokens

LEMMA TokensEndOnce ==
    ASSUME NEW text \in Text, NEW i \in TokenStarts(text), NEW e \in i + 1 .. Len(text),
           text[i + 1] = "." => e = i + 1,
           text[i + 1] = "a" => \A j \in i + 1 .. e : text[j] = "a",
           text[i + 1] = "a" /\ e < Len(text) => text[e + 1] # "a"
    PROVE  TokenEnd(text, i) = e
<1>. DEFINE f == TokenEnd(text, i)
<1>1. /\ i \in Nat /\ Len(text) \in Nat /\ f \in i + 1 .. Len(text)
      /\ text[i + 1] = "." => f = i + 1
      /\ text[i + 1] = "a" => \A j \in i + 1 .. f : text[j] = "a"
      /\ text[i + 1] = "a" /\ f < Len(text) => text[f + 1] # "a"
      /\ text[i + 1] = "." \/ text[i + 1] = "a"
  <2>1. /\ Len(text) \in Nat /\ i \in 0 .. Len(text) - 1
        /\ text[i + 1] = "." \/ text[i + 1] = "a"
    BY TokensStart
  <2>. QED  BY <2>1, TokensEnd
<1>. HIDE DEF f
<1>2. CASE text[i + 1] = "."
  BY <1>1, <1>2 DEF f
<1>3. CASE text[i + 1] = "a"
  <2>1. ~ (e < f)
    <3>1. SUFFICES ASSUME e < f PROVE FALSE
      OBVIOUS
    <3>2. e + 1 \in i + 1 .. f /\ e < Len(text)
      BY <1>1, <3>1
    <3>. QED  BY <1>1, <1>3, <3>2
  <2>2. ~ (f < e)
    <3>1. SUFFICES ASSUME f < e PROVE FALSE
      OBVIOUS
    <3>2. f + 1 \in i + 1 .. e /\ f < Len(text)
      BY <1>1, <3>1
    <3>. QED  BY <1>1, <1>3, <3>2
  <2>3. e = f
    BY <1>1, <2>1, <2>2
  <2>. QED  BY <2>3 DEF f
<1>. QED  BY <1>1, <1>2, <1>3

\* The text of all sections has their tokens, moved, and no other.
LEMMA TokensMove ==
    ASSUME NEW list \in Layouts, NEW k \in 1 .. Len(list), NEW i \in TokenStarts(list[k].text)
    PROVE  /\ list[k].start + i \in TokenStarts(TextOfAll(list))
           /\ TokenEnd(TextOfAll(list), list[k].start + i) = list[k].start + TokenEnd(list[k].text, i)
<1>. DEFINE part == list[k].text
            full == TextOfAll(list)
            s    == list[k].start
            l    == Len(part)
            e    == TokenEnd(part, i)
<1>1. part \in Text /\ l \in Nat /\ s \in Nat /\ list[k].end = s + l
  BY LayoutsAreTyped
<1>2. /\ full \in Text /\ Len(full) \in Nat /\ s + l <= Len(full)
      /\ s # 0 => full[s] = " "
      /\ s + l < Len(full) => full[(s + l) + 1] = " "
      /\ \A j \in 1 .. l : full[s + j] = part[j]
  BY <1>1, MarksHaveSections, ZenonT(30)
<1>3. /\ i \in 0 .. l - 1 /\ e \in i + 1 .. l
      /\ part[i + 1] = "." \/ part[i + 1] = "a"
      /\ part[i + 1] = "." => e = i + 1
      /\ part[i + 1] = "a" => \A j \in i + 1 .. e : part[j] = "a"
      /\ part[i + 1] = "a" /\ e < l => part[e + 1] # "a"
  <2>1. i \in 0 .. l - 1 /\ (part[i + 1] = "." \/ part[i + 1] = "a")
    BY <1>1, TokensStart
  <2>. QED  BY <1>1, <2>1, TokensEnd
<1>4. part[i + 1] = "a" => i = 0 \/ part[i] # "a"
  BY DEF TokenStarts
<1>. HIDE DEF part, full, s, l, e
<1>. DEFINE m == Len(full)
<1>4a. i \in Nat /\ e \in Nat /\ i < e /\ e <= l /\ m \in Nat /\ s + l <= m
  <2>1. i \in 0 .. l - 1 /\ e \in i + 1 .. l
    BY <1>3
  <2>2. i \in Nat
    BY <1>1, <2>1
  <2>3. e \in Nat /\ i < e /\ e <= l
    BY <1>1, <2>1, <2>2
  <2>4. m \in Nat /\ s + l <= m
    BY <1>2
  <2>. QED  BY <2>2, <2>3, <2>4
<1>. HIDE DEF m
<1>5. i + 1 \in 1 .. l /\ full[(s + i) + 1] = part[i + 1] /\ s + i \in 0 .. Len(full) - 1
  <2>1. i + 1 \in 1 .. l /\ (s + i) + 1 = s + (i + 1) /\ s + i \in 0 .. m - 1
    BY <1>1, <1>4a
  <2>2. full[s + (i + 1)] = part[i + 1]
    BY <1>2, <2>1
  <2>. QED  BY <2>1, <2>2 DEF m
<1>6. part[i + 1] = "a" => s + i = 0 \/ full[s + i] # "a"
  <2>1. CASE i = 0
    <3>1. s + i = s
      BY <1>1, <2>1
    <3>. QED  BY <1>2, <3>1
  <2>2. CASE i # 0
    <3>1. i \in 1 .. l
      BY <1>1, <1>3, <2>2
    <3>. QED  BY <1>2, <1>4, <2>2, <3>1
  <2>. QED  BY <2>1, <2>2
<1>7. s + i \in TokenStarts(full)
  BY <1>3, <1>5, <1>6 DEF TokenStarts
<1>8. s + e \in (s + i) + 1 .. Len(full)
  <2>1. s + e \in (s + i) + 1 .. m
    BY <1>1, <1>4a
  <2>. QED  BY <2>1 DEF m
<1>9. part[i + 1] = "." => s + e = (s + i) + 1
  BY <1>1, <1>3
<1>10. ASSUME part[i + 1] = "a", NEW j \in (s + i) + 1 .. s + e PROVE full[j] = "a"
  <2>1. j - s \in i + 1 .. e /\ j - s \in 1 .. l /\ s + (j - s) = j
    BY <1>1, <1>3
  <2>2. part[j - s] = "a"
    BY <1>3, <1>10, <2>1
  <2>. QED  BY <1>2, <2>1, <2>2
<1>11. ASSUME part[i + 1] = "a", s + e < Len(full) PROVE full[(s + e) + 1] # "a"
  <2>1. CASE e = l
    <3>1. full[(s + l) + 1] = " "
      BY <1>2, <1>11, <2>1
    <3>. QED  BY <2>1, <3>1
  <2>2. CASE e # l
    <3>1. e < l /\ e + 1 \in 1 .. l /\ (s + e) + 1 = s + (e + 1)
      BY <1>1, <1>3, <2>2
    <3>2. full[s + (e + 1)] = part[e + 1]
      BY <1>2, <3>1
    <3>. QED  BY <1>3, <1>11, <3>1, <3>2
  <2>. QED  BY <2>1, <2>2
<1>12. TokenEnd(full, s + i) = s + e
  BY <1>2, <1>5, <1>7, <1>8, <1>9, <1>10, <1>11, TokensEndOnce
<1>. QED  BY <1>7, <1>12 DEF full, s, e, part

LEMMA NoTokenIsElsewhere ==
    ASSUME NEW list \in Layouts, NEW i \in TokenStarts(TextOfAll(list))
    PROVE  \E k \in 1 .. Len(list) : \E j \in TokenStarts(list[k].text) : i = list[k].start + j
<1>. DEFINE full == TextOfAll(list)
<1>1. full \in Text /\ Len(full) \in Nat
  BY MarksHaveSections
<1>2. /\ i \in 0 .. Len(full) - 1
      /\ full[i + 1] = "." \/ (full[i + 1] = "a" /\ (i = 0 \/ full[i] # "a"))
  BY DEF TokenStarts
<1>3. full[i + 1] # " "
  BY <1>2
<1>4. PICK k \in 1 .. Len(list) : list[k].start <= i /\ i < list[k].end
  BY <1>2, <1>3, MarksHaveSections
<1>. DEFINE part == list[k].text
            s    == list[k].start
            l    == Len(part)
            j    == i - s
<1>5. part \in Text /\ l \in Nat /\ s \in Nat /\ list[k].end = s + l
  BY LayoutsAreTyped
<1>6. \A p \in 1 .. l : full[s + p] = part[p]
  BY MarksHaveSections
<1>7. s <= i /\ i < s + l
  BY <1>4, <1>5
<1>8. j \in 0 .. l - 1 /\ j + 1 \in 1 .. l /\ s + (j + 1) = i + 1 /\ s + j = i
  <2>1. i \in Nat
    BY <1>1, <1>2
  <2>. HIDE DEF s, l
  <2>. QED  BY <1>5, <1>7, <2>1
<1>. HIDE DEF full, part, s, l, j
<1>9. part[j + 1] = full[i + 1]
  <2>1. full[s + (j + 1)] = part[j + 1]
    BY <1>6, <1>8
  <2>. QED  BY <1>8, <2>1
<1>10. full[i + 1] = "a" => j = 0 \/ part[j] # "a"
  <2>1. SUFFICES ASSUME full[i + 1] = "a", j # 0 PROVE part[j] # "a"
    OBVIOUS
  <2>2. j \in 1 .. l /\ i # 0
    BY <1>5, <1>8, <2>1
  <2>3. full[s + j] = part[j]
    BY <1>6, <2>2
  <2>4. full[i] # "a"
    BY <1>2, <2>1, <2>2
  <2>. QED  BY <1>8, <2>3, <2>4
<1>11. j \in TokenStarts(part)
  BY <1>2, <1>8, <1>9, <1>10 DEF TokenStarts, l
<1>. QED  BY <1>8, <1>11 DEF part, s

LEMMA AllTokensAreInText ==
    ASSUME normalized \in Layouts
    PROVE  LET tokens == Tokens(TextOfAll(normalized))
           IN  /\ \A q \in 1 .. Len(tokens) : tokens[q] \in AllTokens
               /\ \A t \in AllTokens : \E q \in 1 .. Len(tokens) : tokens[q] = t
<1>. DEFINE full   == TextOfAll(normalized)
            tokens == Tokens(full)
            n      == Len(tokens)
            N      == Len(normalized)
            Piece(k) == Tokens(normalized[k].text)
<1>1. full \in Text
  BY MarksHaveSections
<1>2. /\ n \in Nat /\ tokens \in [1 .. n -> [start : Nat, end : Nat]]
      /\ \A q \in 1 .. n : /\ tokens[q].start \in TokenStarts(full)
                           /\ tokens[q].end = TokenEnd(full, tokens[q].start)
      /\ \A i \in TokenStarts(full) : \E q \in 1 .. n : tokens[q].start = i
  BY <1>1, TokensAreInOrder DEF AreTokens
<1>3. N \in Nat /\ DOMAIN normalized = 1 .. N
  BY LayoutsAreTyped
<1>4. ASSUME NEW k \in 1 .. N
      PROVE  /\ Len(Piece(k)) \in Nat /\ Piece(k) \in [1 .. Len(Piece(k)) -> [start : Nat, end : Nat]]
             /\ ToSet(Piece(k)) = {Piece(k)[q] : q \in 1 .. Len(Piece(k))}
             /\ \A q \in 1 .. Len(Piece(k)) :
                 /\ Piece(k)[q].start \in TokenStarts(normalized[k].text)
                 /\ Piece(k)[q].end = TokenEnd(normalized[k].text, Piece(k)[q].start)
             /\ \A i \in TokenStarts(normalized[k].text) :
                 \E q \in 1 .. Len(Piece(k)) : Piece(k)[q].start = i
  <2>1. normalized[k].text \in Text
    BY LayoutsAreTyped
  <2>2. /\ Len(Piece(k)) \in Nat /\ Piece(k) \in [1 .. Len(Piece(k)) -> [start : Nat, end : Nat]]
        /\ \A q \in 1 .. Len(Piece(k)) :
            /\ Piece(k)[q].start \in TokenStarts(normalized[k].text)
            /\ Piece(k)[q].end = TokenEnd(normalized[k].text, Piece(k)[q].start)
        /\ \A i \in TokenStarts(normalized[k].text) :
            \E q \in 1 .. Len(Piece(k)) : Piece(k)[q].start = i
    BY <2>1, TokensAreInOrder DEF AreTokens
  <2>3. ToSet(Piece(k)) = {Piece(k)[q] : q \in 1 .. Len(Piece(k))}
    BY <2>2 DEF ToSet
  <2>. QED  BY <2>2, <2>3
<1>5. \A k \in 1 .. N : TokensOf(k) = {[start |-> normalized[k].start + t.start,
                                        end |-> normalized[k].start + t.end] : t \in ToSet(Piece(k))}
  BY DEF TokensOf
<1>. HIDE DEF full, tokens, n, N, Part
<1>6. ASSUME NEW q \in 1 .. n PROVE tokens[q] \in AllTokens
  <2>1. PICK k \in 1 .. N : \E j \in TokenStarts(normalized[k].text) :
                                tokens[q].start = normalized[k].start + j
    BY <1>2, NoTokenIsElsewhere DEF full, N
  <2>2. PICK j \in TokenStarts(normalized[k].text) : tokens[q].start = normalized[k].start + j
    BY <2>1
  <2>3. PICK r \in 1 .. Len(Piece(k)) : Piece(k)[r].start = j
    BY <1>4, <2>2
  <2>4. Piece(k)[r].end = TokenEnd(normalized[k].text, j)
    BY <1>4, <2>3
  <2>5. tokens[q].end = normalized[k].start + TokenEnd(normalized[k].text, j)
    <3>1. TokenEnd(full, normalized[k].start + j) = normalized[k].start + TokenEnd(normalized[k].text, j)
      BY TokensMove DEF full, N
    <3>2. tokens[q].end = TokenEnd(full, tokens[q].start)
      BY <1>2
    <3>. QED  BY <2>2, <3>1, <3>2, Zenon
  <2>6. tokens[q] = [start |-> tokens[q].start, end |-> tokens[q].end]
    BY <1>2
  <2>7. tokens[q] = [start |-> normalized[k].start + Piece(k)[r].start,
                     end |-> normalized[k].start + Piece(k)[r].end]
    BY <2>2, <2>3, <2>4, <2>5, <2>6, Zenon
  <2>8. Piece(k)[r] \in ToSet(Piece(k))
    <3>1. ToSet(Piece(k)) = {Piece(k)[x] : x \in 1 .. Len(Piece(k))}
      BY <1>4
    <3>. QED  BY <3>1, Zenon
  <2>9. tokens[q] \in TokensOf(k)
    BY <1>5, <2>7, <2>8
  <2>. QED  BY <1>3, <2>9 DEF AllTokens
<1>7. ASSUME NEW t \in AllTokens PROVE \E q \in 1 .. n : tokens[q] = t
  <2>1. PICK k \in 1 .. N : t \in TokensOf(k)
    BY <1>3 DEF AllTokens
  <2>2. PICK u \in ToSet(Piece(k)) : t = [start |-> normalized[k].start + u.start,
                                         end |-> normalized[k].start + u.end]
    BY <1>5, <2>1
  <2>3. PICK r \in 1 .. Len(Piece(k)) : u = Piece(k)[r]
    <3>1. ToSet(Piece(k)) = {Piece(k)[x] : x \in 1 .. Len(Piece(k))}
      BY <1>4
    <3>. QED  BY <3>1, Zenon
  <2>4. u.start \in TokenStarts(normalized[k].text) /\ u.end = TokenEnd(normalized[k].text, u.start)
    BY <1>4, <2>3
  <2>5. /\ t.start \in TokenStarts(full)
        /\ t.end = TokenEnd(full, t.start)
    <3>1. /\ normalized[k].start + u.start \in TokenStarts(full)
          /\ TokenEnd(full, normalized[k].start + u.start) = normalized[k].start + u.end
      BY <2>4, TokensMove DEF full, N
    <3>2. t.start = normalized[k].start + u.start /\ t.end = normalized[k].start + u.end
      BY <2>2
    <3>. QED  BY <3>1, <3>2
  <2>6. PICK q \in 1 .. n : tokens[q].start = t.start
    BY <1>2, <2>5
  <2>7. tokens[q].end = t.end
    BY <1>2, <2>5, <2>6
  <2>8. tokens[q] = [start |-> tokens[q].start, end |-> tokens[q].end]
    BY <1>2
  <2>9. t = [start |-> t.start, end |-> t.end]
    BY <2>2
  <2>10. tokens[q] = t
    BY <2>6, <2>7, <2>8, <2>9, Zenon
  <2>. QED  BY <2>10
<1>. QED  BY <1>6, <1>7 DEF tokens, full, n

LEMMA FixedWindowsAreCounted ==
    ASSUME Sized, normalized \in Layouts, NEW p \in 1 .. Len(Windows(TextOfAll(normalized))),
           NEW at
    PROVE  IsCounted(Locate(Windows(TextOfAll(normalized))[p], at, 0),
                     Tokens(TextOfAll(normalized)), Len(Tokens(TextOfAll(normalized))), p)
<1>. DEFINE full   == TextOfAll(normalized)
            tokens == Tokens(full)
            n      == Len(tokens)
            a      == First(p)
            b      == Final(p, n)
            window == Windows(full)[p]
            chunk  == Locate(window, at, 0)
<1>1. full \in Text
  BY MarksHaveSections
<1>2. /\ Len(Windows(full)) \in Nat
      /\ a \in 1 .. n /\ b \in a .. n /\ b <= a + size - 1
      /\ window = [text  |-> Slice(full, tokens[a].start, tokens[b].end),
                   start |-> tokens[a].start, end |-> tokens[b].end]
  BY <1>1, WindowsAreRuns DEF AreWindows
<1>3. IsRun(tokens, n) /\ n \in Nat
  BY <1>1, TokensAreRuns DEF IsRun
<1>4. /\ \A q \in 1 .. n : tokens[q] \in AllTokens
      /\ \A t \in AllTokens : \E q \in 1 .. n : tokens[q] = t
  BY AllTokensAreInText
<1>5. chunk.start = 0 + window.start /\ chunk.end = 0 + window.end
  BY DEF Locate
<1>6. p \in Nat \ {0}
  BY <1>2
<1>. HIDE DEF n, tokens, a, b, window, chunk, full
<1>7. a \in 1 .. n /\ b \in 1 .. n /\ a <= b
  BY <1>2, <1>3
<1>8. tokens[a].start \in Nat /\ tokens[b].end \in Nat
  BY <1>3, <1>7, RunsAreOrdered
<1>9. chunk.start = tokens[a].start /\ chunk.end = tokens[b].end
  BY <1>2, <1>5, <1>8
<1>10. {t \in AllTokens : Within(t, chunk)} = Part(tokens, a, b)
  <2>1. \A t \in AllTokens : Within(t, chunk) => \E q \in 1 .. n : tokens[q] = t
    BY <1>4
  <2>. HIDE DEF AllTokens
  <2>. QED  BY <1>3, <1>4, <1>7, <1>9, <2>1, PartsAreWithin
<1>11. TokensIn(chunk) = Part(tokens, a, b)
  BY <1>10 DEF TokensIn, AllTokens
<1>12. IsCounted(chunk, tokens, n, p)
  BY <1>2, <1>3, <1>6, <1>9, <1>11 DEF IsCounted, a, b
<1>. QED  BY <1>12 DEF chunk, window, full, n, tokens

LEMMA FoundAdvance == PipelineInv => WindowsAdvance
<1>. SUFFICES ASSUME PipelineInv, NEW i \in DOMAIN chunks
     PROVE  /\ Cardinality(TokensIn(chunks[i])) \in 1 .. size
            /\ i > 1 /\ (strategy = "fixed_window" \/ chunks[i].section = chunks[i - 1].section) =>
                   /\ Cardinality(TokensIn(chunks[i]) \intersect TokensIn(chunks[i - 1])) = overlap
                   /\ chunks[i - 1].end < chunks[i].end
  BY Zenon DEF WindowsAdvance
<1>1. Sized /\ normalized \in Layouts /\ chunks = Found(normalized)
  BY DEF PipelineInv, SettingsFit, ChunksFit
<1>2. CASE strategy = "fixed_window"
  <2>. DEFINE full    == TextOfAll(normalized)
              windows == Windows(full)
              tokens  == Tokens(full)
              n       == Len(tokens)
              w       == Len(windows)
  <2>1. chunks = [k \in DOMAIN windows |-> Locate(windows[k], SectionAt(normalized, windows[k].start), 0)]
    BY <1>1, <1>2 DEF Found, FixedWindowChunks, TextOfAll
  <2>2. full \in Text
    BY <1>1, MarksHaveSections
  <2>3. /\ w \in Nat /\ DOMAIN windows = 1 .. w
        /\ \A p \in 1 .. w - 1 : Final(p, n) = First(p) + size - 1 /\ Final(p, n) < n
    BY <1>1, <2>2, WindowsAreRuns DEF AreWindows
  <2>4. ASSUME NEW k \in 1 .. w PROVE IsCounted(chunks[k], tokens, n, k)
    <3>1. chunks[k] = Locate(windows[k], SectionAt(normalized, windows[k].start), 0)
      BY <2>1, <2>3
    <3>. QED  BY <1>1, <3>1, FixedWindowsAreCounted
  <2>5. DOMAIN chunks = 1 .. w
    BY <2>1, <2>3
  <2>. HIDE DEF tokens, n, w, windows, full
  <2>6. i \in 1 .. w
    BY <2>5
  <2>7. Cardinality(TokensIn(chunks[i])) \in 1 .. size
    BY <1>1, <2>4, <2>6, WindowsAreCounted
  <2>8. ASSUME i > 1
        PROVE  /\ Cardinality(TokensIn(chunks[i]) \intersect TokensIn(chunks[i - 1])) = overlap
               /\ chunks[i - 1].end < chunks[i].end
    <3>. DEFINE p == i - 1
    <3>1. p \in 1 .. w /\ p \in 1 .. w - 1 /\ p \in Nat \ {0} /\ p + 1 = i
      BY <2>3, <2>6, <2>8
    <3>. HIDE DEF p
    <3>2. IsCounted(chunks[i], tokens, n, p + 1) /\ IsCounted(chunks[p], tokens, n, p)
      BY <2>4, <2>6, <3>1
    <3>3. Final(p, n) = First(p) + size - 1 /\ Final(p, n) < n
      BY <2>3, <3>1
    <3>4. /\ Cardinality(TokensIn(chunks[i]) \intersect TokensIn(chunks[p])) = overlap
          /\ chunks[p].end < chunks[i].end
      BY <1>1, <3>1, <3>2, <3>3, WindowsOverlap
    <3>. QED  BY <3>4 DEF p
  <2>. QED  BY <2>7, <2>8
<1>3. CASE strategy # "fixed_window"
  <2>1. chunks = SectionAwareChunks(normalized)
    BY <1>1, <1>3 DEF Found
  <2>2. chunks \in Seq(Spans) /\ AreSectionWindows(chunks, normalized, Len(normalized))
    BY <1>1, <2>1, SectionChunksAreWindows
  <2>3. i \in 1 .. Len(chunks)
    BY <2>2, LenProperties
  <2>4. PICK p \in Nat :
          /\ IsWindow(chunks[i], normalized, p)
          /\ i > 1 /\ chunks[i].section = chunks[i - 1].section =>
                 p > 1 /\ IsWindow(chunks[i - 1], normalized, p - 1)
    BY <2>2, <2>3, Zenon DEF AreSectionWindows
  <2>5. PICK k \in 1 .. Len(normalized) : k = chunks[i].section
    BY <2>4 DEF IsWindow
  <2>. DEFINE windows == Windows(normalized[k].text)
              n       == Len(Tokens(normalized[k].text))
              w       == Len(windows)
  <2>6. ASSUME NEW chunk, NEW r, IsWindow(chunk, normalized, r), chunk.section = k
        PROVE  r \in 1 .. w /\ IsCounted(chunk, Moved(k), n, r)
    <3>1. r \in 1 .. w /\ chunk = Locate(windows[r], k, normalized[k].start)
      BY <2>6 DEF IsWindow
    <3>. QED  BY <1>1, <3>1, SectionWindowsAreCounted
  <2>7. /\ w \in Nat
        /\ \A q \in 1 .. w - 1 : Final(q, n) = First(q) + size - 1 /\ Final(q, n) < n
    <3>1. normalized[k].text \in Text
      BY <1>1, LayoutsAreTyped
    <3>. QED  BY <1>1, <3>1, WindowsAreRuns DEF AreWindows
  <2>. HIDE DEF n, w, windows
  <2>8. p \in 1 .. w /\ IsCounted(chunks[i], Moved(k), n, p)
    BY <2>4, <2>5, <2>6
  <2>9. Cardinality(TokensIn(chunks[i])) \in 1 .. size
    BY <1>1, <2>8, WindowsAreCounted
  <2>10. ASSUME i > 1, chunks[i].section = chunks[i - 1].section
         PROVE  /\ Cardinality(TokensIn(chunks[i]) \intersect TokensIn(chunks[i - 1])) = overlap
                /\ chunks[i - 1].end < chunks[i].end
    <3>. DEFINE r == p - 1
    <3>1. p > 1 /\ IsWindow(chunks[i - 1], normalized, r)
      BY <2>4, <2>10
    <3>2. r \in 1 .. w - 1 /\ r \in Nat \ {0} /\ r + 1 = p
      BY <2>7, <2>8, <3>1
    <3>. HIDE DEF r
    <3>3. chunks[i - 1].section = k
      BY <2>5, <2>10
    <3>4. IsCounted(chunks[i - 1], Moved(k), n, r) /\ IsCounted(chunks[i], Moved(k), n, r + 1)
      BY <2>6, <2>8, <3>1, <3>2, <3>3
    <3>5. Final(r, n) = First(r) + size - 1 /\ Final(r, n) < n
      BY <2>7, <3>2
    <3>. QED  BY <1>1, <3>2, <3>4, <3>5, WindowsOverlap
  <2>. QED  BY <1>3, <2>9, <2>10
<1>. QED  BY <1>2, <1>3

\* Consecutive chunks of a text share the overlap and nothing else, and each
\* goes beyond the one before: no text is indexed twice for nothing, with any
\* size and overlap that the settings let through.
THEOREM ChunksOverlapAsSet == Spec => []WindowsAdvance
<1>1. Init => PipelineInv
  BY PipelineStarts
<1>2. PipelineInv /\ [Next]_vars => PipelineInv'
  BY PipelineGoesOn
<1>3. PipelineInv => WindowsAdvance
  BY FoundAdvance
<1>. QED  BY <1>1, <1>2, <1>3, PTL DEF Spec
---------------------------------------------------------------------------
(* Every token in a chunk *)

LEMMA WindowsCover ==
    ASSUME Sized, NEW text \in Text, NEW q \in 1 .. Len(Tokens(text))
    PROVE  \E p \in 1 .. Len(Windows(text)) :
               First(p) <= q /\ q <= Final(p, Len(Tokens(text)))
<1>. DEFINE n == Len(Tokens(text))
            w == Len(Windows(text))
            R == {p \in 1 .. w : q <= Final(p, n)}
<1>1. n \in Nat
  BY TokensAreInOrder
<1>2. /\ w \in Nat /\ (w = 0 => n = 0) /\ (w # 0 => Final(w, n) = n)
      /\ \A p \in 1 .. w : First(p) \in 1 .. n /\ Final(p, n) \in First(p) .. n
      /\ \A p \in 1 .. w - 1 : /\ Final(p, n) = First(p) + size - 1
                               /\ First(p + 1) = First(p) + Step
  BY WindowsAreRuns DEF AreWindows
<1>3. q \in 1 .. n
  OBVIOUS
<1>. HIDE DEF n, w
<1>4. w # 0 /\ w \in R
  BY <1>1, <1>2, <1>3
<1>5. R \in SUBSET Nat /\ \A p \in R : p <= w
  BY <1>2
<1>. DEFINE m == Min(R)
<1>6. m \in R /\ \A p \in R : m <= p
  BY <1>2, <1>4, <1>5, ExtremesExist
<1>. HIDE DEF m
<1>7. CASE m = 1
  <2>1. First(m) <= q
    BY <1>1, <1>3, <1>7, FirstsGrow
  <2>. QED  BY <1>6, <2>1 DEF w, n
<1>8. CASE m # 1
  <2>. DEFINE p == m - 1
  <2>1. p \in 1 .. w /\ p \in 1 .. w - 1 /\ p < m /\ p + 1 = m
    BY <1>2, <1>6, <1>8
  <2>. HIDE DEF p
  <2>2. ~ (q <= Final(p, n))
    BY <1>2, <1>6, <2>1
  <2>3. Final(p, n) = First(p) + size - 1 /\ First(m) = First(p) + Step /\ First(p) \in 1 .. n
    BY <1>2, <2>1
  <2>4. Step <= size /\ Step \in Nat /\ size \in Nat
    BY FirstsGrow DEF Sized
  <2>5. First(m) <= q
    BY <1>1, <1>3, <2>2, <2>3, <2>4
  <2>. QED  BY <1>6, <2>5 DEF w, n
<1>. QED  BY <1>7, <1>8

\* a token of a run is within every window that it belongs to
LEMMA CountedTokensAreWithin ==
    ASSUME NEW chunk, NEW tok, NEW n, NEW p, IsCounted(chunk, tok, n, p),
           NEW q \in 1 .. n, First(p) <= q, q <= Final(p, n)
    PROVE  Within(tok[q], chunk)
<1>1. n \in Nat /\ q \in First(p) .. Final(p, n)
  BY DEF IsCounted, IsRun
<1>2. tok[q] \in TokensIn(chunk)
  BY <1>1 DEF IsCounted, Part
<1>. QED  BY <1>2 DEF TokensIn

LEMMA FoundCover ==
    ASSUME PipelineInv, chunks = Found(normalized),
           NEW t \in ToSet(Tokens(TextOfAll(normalized)))
    PROVE  \E i \in DOMAIN chunks : Within(t, chunks[i])
<1>. DEFINE full   == TextOfAll(normalized)
            tokens == Tokens(full)
            n      == Len(tokens)
<1>1. Sized /\ normalized \in Layouts
  BY DEF PipelineInv, SettingsFit
<1>2. full \in Text
  BY <1>1, MarksHaveSections
<1>3. tokens \in [1 .. n -> [start : Nat, end : Nat]]
  BY <1>2, TokensAreInOrder DEF AreTokens
<1>4. PICK q \in 1 .. n : t = tokens[q]
  BY <1>3 DEF ToSet
<1>5. CASE strategy = "fixed_window"
  <2>. DEFINE windows == Windows(full)
  <2>1. chunks = [k \in DOMAIN windows |-> Locate(windows[k], SectionAt(normalized, windows[k].start), 0)]
    BY <1>5 DEF Found, FixedWindowChunks, TextOfAll
  <2>2. DOMAIN windows = 1 .. Len(windows)
    BY <1>1, <1>2, WindowsAreRuns DEF AreWindows
  <2>3. PICK p \in 1 .. Len(windows) : First(p) <= q /\ q <= Final(p, n)
    BY <1>1, <1>2, WindowsCover
  <2>4. p \in DOMAIN chunks /\ chunks[p] = Locate(windows[p], SectionAt(normalized, windows[p].start), 0)
    BY <2>1, <2>2
  <2>5. IsCounted(chunks[p], tokens, n, p)
    BY <1>1, <2>4, FixedWindowsAreCounted
  <2>. HIDE DEF tokens, n, windows
  <2>6. Within(tokens[q], chunks[p])
    BY <2>3, <2>5, CountedTokensAreWithin
  <2>. QED  BY <1>4, <2>4, <2>6
<1>6. CASE strategy # "fixed_window"
  <2>1. chunks = SectionAwareChunks(normalized)
    BY <1>6 DEF Found
  <2>2. chunks \in Seq(Spans) /\ HasAllWindows(chunks, normalized, Len(normalized))
    BY <1>1, <2>1, SectionChunksAreWindows
  <2>3. Len(normalized) \in Nat /\ DOMAIN normalized = 1 .. Len(normalized)
    BY <1>1, LayoutsAreTyped
  <2>4. t \in AllTokens
    BY <1>1, <1>4, AllTokensAreInText
  <2>5. PICK k \in 1 .. Len(normalized) : t \in TokensOf(k)
    BY <2>3, <2>4 DEF AllTokens
  <2>. DEFINE m       == Len(Tokens(normalized[k].text))
              windows == Windows(normalized[k].text)
  <2>6. PICK r \in 1 .. m : Moved(k)[r] = t
    BY <1>1, <2>5, MovedAreRuns
  <2>7. normalized[k].text \in Text
    BY <1>1, LayoutsAreTyped
  <2>8. PICK p \in 1 .. Len(windows) : First(p) <= r /\ r <= Final(p, m)
    BY <1>1, <2>7, WindowsCover
  <2>9. PICK i \in 1 .. Len(chunks) : chunks[i] = Locate(windows[p], k, normalized[k].start)
    BY <2>2 DEF HasAllWindows
  <2>10. IsCounted(chunks[i], Moved(k), m, p)
    BY <1>1, <2>9, SectionWindowsAreCounted
  <2>11. i \in DOMAIN chunks
    BY <2>2, LenProperties
  <2>. HIDE DEF m, windows
  <2>12. Within(Moved(k)[r], chunks[i])
    BY <2>8, <2>10, CountedTokensAreWithin
  <2>. QED  BY <2>6, <2>11, <2>12
<1>. QED  BY <1>5, <1>6

LEMMA EndedCover == PipelineInv => ChunksCoverTheText
<1>1. FullText = TextOfAll(normalized)
  BY DEF FullText, TextOfAll
<1>. SUFFICES ASSUME PipelineInv, outcome \in {"chunks", "no_extractable_text"},
                     NEW t \in ToSet(Tokens(TextOfAll(normalized)))
              PROVE  \E i \in DOMAIN chunks : Within(t, chunks[i])
  BY <1>1, Zenon DEF ChunksCoverTheText
<1>2. CASE normalized = <<>>
  <2>1. normalized \in Layouts /\ DOMAIN normalized = {}
    BY <1>2 DEF PipelineInv
  <2>2. TextOfAll(normalized) \in Text
    BY <2>1, MarksHaveSections
  <2>3. DOMAIN Tokens(TextOfAll(normalized)) = 1 .. Len(Tokens(TextOfAll(normalized)))
    BY <2>2, TokensAreInOrder DEF AreTokens
  <2>4. t \in AllTokens
    BY <2>1, <2>3, AllTokensAreInText DEF ToSet
  <2>. QED  BY <2>1, <2>4 DEF AllTokens
<1>3. CASE normalized # <<>>
  <2>1. chunks = Found(normalized)
    BY <1>3 DEF PipelineInv, ChunksFit
  <2>. QED  BY <2>1, FoundCover
<1>. QED  BY <1>2, <1>3

\* Whatever a file says can be found: every token of its text is in a chunk,
\* with any settings, and a document that is refused in the end has none.
THEOREM ChunksLeaveNothingOut == Spec => []ChunksCoverTheText
<1>1. Init => PipelineInv
  BY PipelineStarts
<1>2. PipelineInv /\ [Next]_vars => PipelineInv'
  BY PipelineGoesOn
<1>3. PipelineInv => ChunksCoverTheText
  BY EndedCover
<1>. QED  BY <1>1, <1>2, <1>3, PTL DEF Spec
---------------------------------------------------------------------------
(* The headings around a line *)

\* what the path of headings is that encloses line i, which has none above 0
IsPath(path, i) ==
    /\ path \in Seq(HeadingRecord(source))
    /\ \A p \in 1 .. Len(path) : /\ path[p].level = source[path[p].line].level
                                 /\ Encloses(path[p].line, i)
    /\ \A p, q \in 1 .. Len(path) : p < q => /\ path[p].line < path[q].line
                                             /\ path[p].level < path[q].level
    /\ \A j \in DOMAIN source : Encloses(j, i) => \E p \in 1 .. Len(path) : path[p].line = j

LEMMA LevelsAreTyped ==
    ASSUME IsMarkdown(source)
    PROVE  /\ Len(source) \in Nat /\ DOMAIN source = 1 .. Len(source)
           /\ \A i \in 1 .. Len(source) : source[i].level \in 0 .. 6
<1>1. Len(source) \in Nat /\ DOMAIN source = 1 .. Len(source) /\ \A i \in 1 .. Len(source) : source[i] \in SourceLine
  BY LenProperties, ElementOfSeq DEF IsMarkdown
<1>. QED  BY <1>1 DEF SourceLine

LEMMA PathsAreTyped ==
    ASSUME IsMarkdown(source), NEW path \in Seq(HeadingRecord(source))
    PROVE  /\ Len(path) \in Nat /\ DOMAIN path = 1 .. Len(path)
           /\ \A p \in 1 .. Len(path) : /\ path[p] \in HeadingRecord(source)
                                        /\ path[p].line \in 1 .. Len(source) /\ path[p].level \in 0 .. 6
<1>1. Len(path) \in Nat /\ DOMAIN path = 1 .. Len(path) /\ \A p \in 1 .. Len(path) : path[p] \in HeadingRecord(source)
  BY LenProperties, ElementOfSeq
<1>. QED  BY <1>1 DEF HeadingRecord

\* the lines under a heading have the headings around it around them
LEMMA EnclosureStays ==
    ASSUME IsMarkdown(source), NEW i \in Nat, NEW j \in i .. Len(source),
           \A l \in i + 1 .. j : source[l].level = 0, NEW x \in DOMAIN source
    PROVE  Encloses(x, i) <=> Encloses(x, j)
<1>1. x \in 1 .. Len(source) /\ source[x].level \in 0 .. 6 /\ Len(source) \in Nat
  BY LevelsAreTyped
<1>2. CASE x <= i
  <2>1. \A k \in x + 1 .. j : k \in x + 1 .. i \/ k \in i + 1 .. j
    BY <1>1
  <2>2. \A k \in x + 1 .. i : k \in x + 1 .. j
    BY <1>1
  <2>. QED  BY <1>1, <1>2, <2>1, <2>2 DEF Encloses
<1>3. CASE i < x
  <2>1. ~ Encloses(x, i)
    BY <1>1, <1>3 DEF Encloses
  <2>2. x <= j => source[x].level = 0
    BY <1>1, <1>3
  <2>3. ~ Encloses(x, j)
    BY <1>1, <2>2 DEF Encloses
  <2>. QED  BY <2>1, <2>3
<1>. QED  BY <1>1, <1>2, <1>3

\* what Push leaves of a path, and adds
LEMMA PushKeepsTheHigher ==
    ASSUME IsMarkdown(source), NEW path \in Seq(HeadingRecord(source)), NEW heading \in HeadingRecord(source),
           \A p, q \in 1 .. Len(path) : p < q => path[p].level < path[q].level
    PROVE  \E depth \in 0 .. Len(path) :
               /\ \A p \in 1 .. Len(path) : p <= depth <=> path[p].level < heading.level
               /\ Push(path, heading) \in Seq(HeadingRecord(source))
               /\ Len(Push(path, heading)) = depth + 1
               /\ \A p \in 1 .. depth : Push(path, heading)[p] = path[p]
               /\ Push(path, heading)[depth + 1] = heading
<1>. DEFINE n     == Len(path)
            D     == {0} \union {k \in DOMAIN path : path[k].level < heading.level}
            depth == Max(D)
            kept  == SubSeq(path, 1, depth)
            HR    == HeadingRecord(source)
<1>1. /\ n \in Nat /\ DOMAIN path = 1 .. n
      /\ \A p \in 1 .. n : path[p] \in HR /\ path[p].level \in 0 .. 6
  BY PathsAreTyped
<1>2. heading.level \in 0 .. 6
  BY DEF HeadingRecord
<1>. HIDE DEF HR
<1>3. D \in SUBSET Nat /\ D # {} /\ \A x \in D : x <= n
  BY <1>1
<1>4. depth \in D /\ \A x \in D : x <= depth
  BY <1>1, <1>3, ExtremesExist
<1>5. Push(path, heading) = Append(kept, heading)
  BY DEF Push
<1>. HIDE DEF depth
<1>6. depth \in 0 .. n
  BY <1>1, <1>3, <1>4
<1>7. ASSUME NEW p \in 1 .. n PROVE p <= depth <=> path[p].level < heading.level
  <2>1. path[p].level < heading.level => p <= depth
    BY <1>1, <1>4
  <2>2. ASSUME p <= depth PROVE path[p].level < heading.level
    <3>1. depth \in 1 .. n /\ path[depth].level < heading.level
      BY <1>1, <1>4, <1>6, <2>2
    <3>2. p = depth \/ path[p].level < path[depth].level
      BY <1>1, <2>2, <3>1
    <3>3. path[p].level \in Nat /\ path[depth].level \in Nat /\ heading.level \in Nat
      BY <1>1, <1>2, <3>1
    <3>. QED  BY <3>1, <3>2, <3>3
  <2>. QED  BY <2>1, <2>2
<1>8. kept \in Seq(HR) /\ Len(kept) = depth /\ \A p \in 1 .. depth : kept[p] = path[p]
  <2>1. 1 \in Int /\ depth \in Int /\ \A i \in 1 .. depth : i \in 1 .. n
    BY <1>1, <1>6
  <2>2. \A i \in 1 .. depth : path[i] \in HR
    BY <1>1, <2>1
  <2>3. /\ kept \in Seq(HR) /\ Len(kept) = IF 1 <= depth THEN depth - 1 + 1 ELSE 0
        /\ \A i \in 1 .. depth - 1 + 1 : kept[i] = path[1 + i - 1]
    BY <2>1, <2>2, SubSeqProperties
  <2>. HIDE DEF kept
  <2>4. Len(kept) = depth
    BY <1>1, <1>6, <2>3
  <2>5. ASSUME NEW p \in 1 .. depth PROVE kept[p] = path[p]
    <3>1. p \in 1 .. depth - 1 + 1 /\ 1 + p - 1 = p
      BY <1>1, <1>6
    <3>. QED  BY <2>3, <3>1
  <2>. QED  BY <2>3, <2>4, <2>5
<1>. HIDE DEF kept
<1>9. heading \in HR
  BY DEF HR
<1>10. /\ Append(kept, heading) \in Seq(HR) /\ Len(Append(kept, heading)) = depth + 1
       /\ \A p \in 1 .. depth : Append(kept, heading)[p] = path[p]
       /\ Append(kept, heading)[depth + 1] = heading
  <2>1. /\ Append(kept, heading) \in Seq(HR) /\ Len(Append(kept, heading)) = Len(kept) + 1
        /\ \A p \in 1 .. Len(kept) : Append(kept, heading)[p] = kept[p]
        /\ Append(kept, heading)[Len(kept) + 1] = heading
    BY <1>8, <1>9, AppendProperties
  <2>. QED  BY <1>8, <2>1
<1>. QED  BY <1>5, <1>6, <1>7, <1>10 DEF HR

LEMMA PushIsPath ==
    ASSUME IsMarkdown(source), NEW i \in Nat, NEW path, IsPath(path, i),
           NEW heading \in HeadingRecord(source), i < heading.line,
           heading.level > 0, heading.level = source[heading.line].level,
           \A l \in i + 1 .. heading.line - 1 : source[l].level = 0
    PROVE  IsPath(Push(path, heading), heading.line)
<1>. DEFINE j    == heading.line
            more == Push(path, heading)
            n    == Len(path)
<1>1. /\ path \in Seq(HeadingRecord(source)) /\ n \in Nat
      /\ \A p \in 1 .. n : /\ path[p].line \in 1 .. Len(source) /\ path[p].level \in 0 .. 6
                           /\ path[p].level = source[path[p].line].level
                           /\ Encloses(path[p].line, i)
      /\ \A p, q \in 1 .. n : p < q => path[p].line < path[q].line /\ path[p].level < path[q].level
      /\ \A x \in DOMAIN source : Encloses(x, i) => \E p \in 1 .. n : path[p].line = x
  BY PathsAreTyped DEF IsPath
<1>2. /\ j \in 1 .. Len(source) /\ heading.level \in 0 .. 6
      /\ Len(source) \in Nat /\ DOMAIN source = 1 .. Len(source)
      /\ \A x \in 1 .. Len(source) : source[x].level \in 0 .. 6
  BY LevelsAreTyped DEF HeadingRecord
<1>3. PICK depth \in 0 .. n :
        /\ \A p \in 1 .. n : p <= depth <=> path[p].level < heading.level
        /\ more \in Seq(HeadingRecord(source))
        /\ Len(more) = depth + 1
        /\ \A p \in 1 .. depth : more[p] = path[p]
        /\ more[depth + 1] = heading
  BY <1>1, PushKeepsTheHigher
<1>. HIDE DEF more, n
<1>4. /\ depth \in Nat
      /\ \A p \in 1 .. depth + 1 : p \in 1 .. depth \/ p = depth + 1
      /\ \A p \in 1 .. depth : p \in 1 .. n /\ p \in 1 .. depth + 1
      /\ depth + 1 \in 1 .. depth + 1
  BY <1>1
<1>5. ASSUME NEW p \in 1 .. depth
      PROVE  /\ more[p].line \in 1 .. Len(source) /\ more[p].level \in 0 .. 6
             /\ more[p].level = source[more[p].line].level
             /\ more[p].line <= i /\ more[p].level < heading.level
             /\ Encloses(more[p].line, j)
  <2>1. more[p] = path[p] /\ p \in 1 .. n /\ p <= depth
    BY <1>3, <1>4
  <2>2. path[p].level < heading.level /\ Encloses(path[p].line, i)
    BY <1>1, <1>3, <2>1
  <2>. DEFINE x == path[p].line
  <2>3. x \in 1 .. Len(source) /\ path[p].level = source[x].level /\ path[p].level \in 0 .. 6
    BY <1>1, <2>1
  <2>. HIDE DEF x
  <2>4. x <= i /\ source[x].level > 0 /\ \A k \in x + 1 .. i : source[k].level = 0 \/ source[x].level < source[k].level
    BY <2>2 DEF Encloses, x
  <2>5. \A k \in x + 1 .. j : k \in x + 1 .. i \/ k \in i + 1 .. j - 1 \/ k = j
    BY <1>2, <2>3
  <2>6. source[x].level < source[j].level
    BY <2>2, <2>3
  <2>7. Encloses(x, j)
    <3>1. x <= j
      BY <1>2, <2>3, <2>4
    <3>2. ASSUME NEW k \in x + 1 .. j PROVE source[k].level = 0 \/ source[x].level < source[k].level
      BY <2>4, <2>5, <2>6
    <3>. QED  BY <2>4, <3>1, <3>2 DEF Encloses
  <2>. QED  BY <2>1, <2>2, <2>3, <2>4, <2>7 DEF x
<1>6. Encloses(j, j)
  <2>1. \A k \in j + 1 .. j : FALSE
    BY <1>2
  <2>2. j <= j /\ source[j].level > 0
    BY <1>2
  <2>. QED  BY <2>1, <2>2 DEF Encloses
<1>7. ASSUME NEW p \in 1 .. Len(more)
      PROVE  more[p].level = source[more[p].line].level /\ Encloses(more[p].line, j)
  <2>1. CASE p \in 1 .. depth
    BY <1>5, <2>1
  <2>2. CASE p = depth + 1
    BY <1>3, <1>6, <2>2
  <2>. QED  BY <1>3, <1>4, <2>1, <2>2
<1>8. ASSUME NEW p \in 1 .. Len(more), NEW q \in 1 .. Len(more), p < q
      PROVE  more[p].line < more[q].line /\ more[p].level < more[q].level
  <2>1. p \in 1 .. depth
    BY <1>3, <1>4, <1>8
  <2>2. CASE q \in 1 .. depth
    BY <1>1, <1>3, <1>4, <1>8, <2>1, <2>2
  <2>3. CASE q = depth + 1
    BY <1>2, <1>3, <1>5, <2>1, <2>3
  <2>. QED  BY <1>3, <1>4, <2>2, <2>3
<1>9. ASSUME NEW x \in DOMAIN source, Encloses(x, j)
      PROVE  \E p \in 1 .. Len(more) : more[p].line = x
  <2>1. CASE x = j
    BY <1>3, <1>4, <2>1
  <2>2. CASE x # j
    <3>1. /\ x \in 1 .. Len(source) /\ x < j /\ source[x].level > 0
          /\ \A k \in x + 1 .. j : source[k].level = 0 \/ source[x].level < source[k].level
      BY <1>2, <1>9, <2>2 DEF Encloses
    <3>2. x <= i
      <4>1. ~ (x \in i + 1 .. j - 1)
        BY <1>2, <3>1
      <4>. QED  BY <1>2, <3>1, <4>1
    <3>3. Encloses(x, i)
      <4>1. \A k \in x + 1 .. i : k \in x + 1 .. j
        BY <1>2, <3>1
      <4>. QED  BY <3>1, <3>2, <4>1 DEF Encloses
    <3>4. PICK p \in 1 .. n : path[p].line = x
      BY <1>1, <3>3
    <3>5. source[x].level < source[j].level
      <4>1. j \in x + 1 .. j
        BY <1>2, <3>1
      <4>2. source[j].level # 0
        BY <1>2
      <4>. QED  BY <3>1, <4>1, <4>2
    <3>6. p <= depth
      BY <1>1, <1>3, <3>4, <3>5
    <3>7. p \in 1 .. depth
      BY <1>1, <1>3, <3>6
    <3>. QED  BY <1>3, <1>4, <3>4, <3>7
  <2>. QED  BY <2>1, <2>2
<1>10. IsPath(more, j)
  BY <1>3, <1>7, <1>8, <1>9 DEF IsPath
<1>. QED  BY <1>10 DEF more

LEMMA PathsAreChains ==
    ASSUME IsMarkdown(source), NEW path, NEW i, IsPath(path, i)
    PROVE  [n \in DOMAIN path |-> path[n].line] = Chain(i)
<1>. DEFINE S == {j \in DOMAIN source : Encloses(j, i)}
            n == Len(source)
            m == Len(path)
            f == [p \in 1 .. m |-> path[p].line]
<1>1. n \in Nat /\ DOMAIN source = 1 .. n
  BY LevelsAreTyped
<1>2. /\ m \in Nat /\ DOMAIN path = 1 .. m
      /\ \A p \in 1 .. m : path[p].line \in 1 .. n /\ Encloses(path[p].line, i)
      /\ \A p, q \in 1 .. m : p < q => path[p].line < path[q].line
      /\ \A j \in DOMAIN source : Encloses(j, i) => \E p \in 1 .. m : path[p].line = j
  BY PathsAreTyped DEF IsPath
<1>3. S \in SUBSET (0 .. n)
  BY <1>1
<1>4. f \in [1 .. m -> S] /\ \A c \in S : \E p \in 1 .. m : f[p] = c
  BY <1>1, <1>2
<1>5. \A p, q \in 1 .. m : p < q => f[p] < f[q]
  BY <1>2
<1>6. Chain(i) = Ascending(S)
  BY DEF Chain
<1>7. [k \in DOMAIN path |-> path[k].line] = f
  BY <1>2
<1>9. n \in Nat /\ m \in Nat
  BY <1>1, <1>2
<1>. HIDE DEF S, f, n, m
<1>8. Ascending(S) = f
  BY <1>3, <1>4, <1>5, <1>9, AscendingIsUnique, Zenon
<1>. QED  BY <1>6, <1>7, <1>8

\* the line of the heading at a position, and before all of them
HeadingLine(position) == IF position = 0 THEN 0 ELSE Headings(source)[position].line

LEMMA NoHeadingBetween ==
    ASSUME IsMarkdown(source), NEW k \in 0 .. Len(Headings(source)), NEW l \in 1 .. Len(source),
           HeadingLine(k) < l, k < Len(Headings(source)) => l < HeadingLine(k + 1)
    PROVE  source[l].level = 0
<1>. DEFINE hs == Headings(source)
            n  == Len(hs)
<1>1. /\ hs \in Seq(HeadingRecord(source))
      /\ \A a, b \in 1 .. n : a < b => hs[a].line < hs[b].line
      /\ \A i \in DOMAIN source : source[i].level > 0 => \E a \in 1 .. n : hs[a].line = i
  BY HeadingsAreTyped
<1>2. n \in Nat /\ \A a \in 1 .. n : hs[a].line \in Nat
  BY <1>1, PathsAreTyped
<1>3. DOMAIN source = 1 .. Len(source) /\ source[l].level \in 0 .. 6
  BY LevelsAreTyped
<1>. HIDE DEF hs, n
<1>4. SUFFICES ASSUME source[l].level > 0 PROVE FALSE
  BY <1>3
<1>5. PICK a \in 1 .. n : hs[a].line = l
  BY <1>1, <1>3, <1>4
<1>6. k \in 0 .. n
  BY DEF n, hs
<1>7. CASE a <= k
  <2>1. k # 0 /\ k \in 1 .. n /\ HeadingLine(k) = hs[k].line
    BY <1>2, <1>6, <1>7 DEF HeadingLine, hs
  <2>2. a = k \/ hs[a].line < hs[k].line
    BY <1>1, <1>2, <1>7, <2>1
  <2>. QED  BY <1>2, <1>5, <2>1, <2>2
<1>8. CASE k < a
  <2>1. k < n /\ k + 1 \in 1 .. n /\ k + 1 # 0
    BY <1>2, <1>6, <1>8
  <2>2. HeadingLine(k + 1) = hs[k + 1].line /\ l < HeadingLine(k + 1)
    BY <2>1 DEF HeadingLine, hs, n
  <2>3. a = k + 1 \/ hs[k + 1].line < hs[a].line
    BY <1>1, <1>2, <1>6, <1>8, <2>1
  <2>. QED  BY <1>2, <1>5, <2>1, <2>2, <2>3
<1>. QED  BY <1>2, <1>6, <1>7, <1>8

\* The stack of headings is the chain at the heading that was pushed last.
LEMMA HeadingPathsAreChains ==
    ASSUME IsMarkdown(source), NEW position \in 0 .. Len(Headings(source))
    PROVE  IsPath(HeadingPath(Headings(source), position), HeadingLine(position))
<1>. DEFINE hs    == Headings(source)
            n     == Len(hs)
            HR    == HeadingRecord(source)
            P     == {path \in Seq(HR) : \A p, q \in 1 .. Len(path) : p < q => path[p].level < path[q].level}
            none  == <<>>
            step  == [k \in 1 .. position |-> [x \in P |-> Push(x, hs[k])]]
            Pushed(k, before) == IF k = 0 THEN <<>> ELSE Push(before, hs[k])
            stack == CHOOSE f : f = [k \in 0 .. position |-> Pushed(k, f[k - 1])]
<1>1. /\ hs \in Seq(HR) /\ n \in Nat /\ position \in 0 .. n
      /\ \A k \in 1 .. n : /\ hs[k] \in HR /\ hs[k].line \in 1 .. Len(source)
                           /\ hs[k].level > 0 /\ hs[k].level = source[hs[k].line].level
      /\ \A j, k \in 1 .. n : j < k => hs[j].line < hs[k].line
  <2>1. hs \in Seq(HR)
    BY HeadingsAreTyped
  <2>2. n \in Nat /\ \A k \in 1 .. n : hs[k] \in HR /\ hs[k].line \in 1 .. Len(source)
    BY <2>1, PathsAreTyped
  <2>. QED  BY <2>1, <2>2, HeadingsAreTyped
<1>2. HeadingPath(hs, position) = stack[position]
  BY DEF HeadingPath
<1>3. none \in P
  <2>1. none \in Seq(HR) /\ \A p \in 1 .. Len(none) : FALSE
    BY EmptySeq
  <2>. QED  BY <2>1
<1>4. ASSUME NEW k \in 1 .. position, NEW x \in P PROVE Push(x, hs[k]) \in P
  <2>. DEFINE more == Push(x, hs[k])
  <2>0. hs[k] \in HR /\ x \in Seq(HR) /\ \A p, q \in 1 .. Len(x) : p < q => x[p].level < x[q].level
    <3>1. k \in 1 .. n
      BY <1>1
    <3>. QED  BY <1>1, <3>1
  <2>1. PICK depth \in 0 .. Len(x) :
          /\ \A p \in 1 .. Len(x) : p <= depth <=> x[p].level < hs[k].level
          /\ more \in Seq(HR) /\ Len(more) = depth + 1
          /\ \A p \in 1 .. depth : more[p] = x[p]
          /\ more[depth + 1] = hs[k]
    BY <2>0, PushKeepsTheHigher
  <2>. HIDE DEF more, HR
  <2>2. Len(x) \in Nat
    BY <2>0, LenProperties
  <2>3. ASSUME NEW p \in 1 .. Len(more), NEW q \in 1 .. Len(more), p < q
        PROVE  more[p].level < more[q].level
    <3>1. p \in 1 .. depth /\ p \in 1 .. Len(x) /\ p <= depth
      BY <2>1, <2>2, <2>3
    <3>2. CASE q \in 1 .. depth
      BY <2>0, <2>1, <2>2, <2>3, <3>1, <3>2, SMTT(20)
    <3>3. CASE q = depth + 1
      BY <2>1, <3>1, <3>3
    <3>. QED  BY <2>1, <2>2, <3>2, <3>3
  <2>4. more \in P
    BY <2>1, <2>3
  <2>. QED  BY <2>4 DEF more
<1>. HIDE DEF P, none, hs, n, HR
<1>5. step \in [1 .. position -> [P -> P]] /\ \A k \in 1 .. position : \A x \in P : step[k][x] = Push(x, hs[k])
  BY <1>4
<1>. HIDE DEF step
<1>6. PICK f : IsLoop(f, P, none, position, step)
  BY <1>3, <1>5, LoopsHaveValues
<1>7. /\ f \in [0 .. position -> P] /\ f[0] = none
      /\ \A k \in 1 .. position : f[k] = Push(f[k - 1], hs[k])
  <2>1. /\ f \in [0 .. position -> P] /\ f[0] = none
        /\ \A k \in 1 .. position : f[k] = step[k][f[k - 1]]
    BY <1>6 DEF IsLoop
  <2>2. \A k \in 1 .. position : f[k - 1] \in P
    BY <1>1, <2>1
  <2>. QED  BY <1>5, <2>1, <2>2
<1>8. f = [k \in 0 .. position |-> Pushed(k, f[k - 1])]
  <2>1. ASSUME NEW k \in 0 .. position PROVE f[k] = Pushed(k, f[k - 1])
    <3>1. CASE k = 0
      BY <1>7, <3>1 DEF none
    <3>2. CASE k # 0
      BY <1>1, <1>7, <3>2
    <3>. QED  BY <3>1, <3>2
  <2>. HIDE DEF Pushed
  <2>. QED  BY <1>7, <2>1
<1>. HIDE DEF Pushed
<1>9. stack = [k \in 0 .. position |-> Pushed(k, stack[k - 1])]
  BY <1>8
<1>. HIDE DEF stack
<1>. DEFINE R == {k \in Nat : k <= position => IsPath(stack[k], HeadingLine(k))}
<1>10. 0 \in R
  <2>1. stack[0] = none
    BY <1>1, <1>9 DEF Pushed, none
  <2>2. none \in Seq(HR) /\ Len(none) = 0
    BY EmptySeq DEF none
  <2>3. \A x \in DOMAIN source : ~ Encloses(x, 0)
    BY LevelsAreTyped DEF Encloses
  <2>4. IsPath(none, 0)
    BY <2>2, <2>3 DEF IsPath, HR
  <2>5. HeadingLine(0) = 0
    BY DEF HeadingLine
  <2>. QED  BY <2>1, <2>4, <2>5
<1>11. ASSUME NEW k \in Nat, k \in R PROVE k + 1 \in R
  <2>. SUFFICES ASSUME k + 1 <= position PROVE IsPath(stack[k + 1], HeadingLine(k + 1))
    OBVIOUS
  <2>1. /\ k + 1 \in 0 .. position /\ k + 1 \in 1 .. n /\ k \in 0 .. n /\ k < n
        /\ (k + 1) - 1 = k /\ k + 1 # 0
    BY <1>1
  <2>2. IsPath(stack[k], HeadingLine(k))
    BY <1>11, <2>1
  <2>3. stack[k + 1] = Push(stack[k], hs[k + 1])
    BY <1>9, <2>1 DEF Pushed
  <2>. DEFINE i == HeadingLine(k)
              h == hs[k + 1]
  <2>4. /\ h \in HR /\ h.line \in 1 .. Len(source) /\ h.level > 0 /\ h.level = source[h.line].level
        /\ HeadingLine(k + 1) = h.line
    BY <1>1, <2>1 DEF HeadingLine, hs
  <2>5. i \in Nat /\ i < h.line
    <3>1. CASE k = 0
      BY <2>4, <3>1 DEF HeadingLine
    <3>2. CASE k # 0
      <4>1. k \in 1 .. n /\ k < k + 1 /\ i = hs[k].line
        BY <2>1, <3>2 DEF HeadingLine, hs
      <4>. QED  BY <1>1, <2>1, <4>1
    <3>. QED  BY <3>1, <3>2
  <2>6. ASSUME NEW l \in i + 1 .. h.line - 1 PROVE source[l].level = 0
    <3>0. Len(source) \in Nat
      BY LevelsAreTyped
    <3>1. l \in 1 .. Len(source) /\ i < l /\ l < h.line
      BY <2>4, <2>5, <3>0
    <3>. QED  BY <2>1, <2>4, <3>1, NoHeadingBetween DEF n, hs
  <2>. HIDE DEF i, h
  <2>7. IsPath(stack[k], i)
    BY <2>2 DEF i
  <2>8. IsPath(Push(stack[k], h), h.line)
    BY <2>4, <2>5, <2>6, <2>7, PushIsPath DEF HR
  <2>. QED  BY <2>3, <2>4, <2>8 DEF h
<1>. HIDE DEF R
<1>12. position \in R
  BY <1>1, <1>10, <1>11, EveryNumberIsReached
<1>. QED  BY <1>1, <1>2, <1>12 DEF R, hs
---------------------------------------------------------------------------
(* Sections are stretches of the source *)

PieceOf(i) == IF media = "pdf" THEN source[i] ELSE source[i].pieces[1]

Cites(section, i) ==
    IF media = "pdf" THEN section.page = i
    ELSE [n \in DOMAIN section.path |-> section.path[n].line] = Chain(i)

Top(section) == section.lines[1].line
Bottom(section) == Top(section) + Len(section.lines) - 1

\* consecutive lines of the source with text, each as the section cites it
IsStretch(section) ==
    /\ section.lines \in Seq(Line) /\ Len(section.lines) # 0
    /\ Top(section) \in 1 .. Len(source) /\ Bottom(section) <= Len(source)
    /\ \A k \in 1 .. Len(section.lines) : /\ section.lines[k].line = Top(section) + k - 1
                                          /\ section.lines[k].piece = PieceOf(Top(section) + k - 1)
    /\ HasText(section.lines)
    /\ \A i \in Top(section) .. Bottom(section) : Cites(section, i)

\* Sections follow each other up to line n and leave no text out.
Reach(list, n) ==
    /\ \A s \in 1 .. Len(list) : IsStretch(list[s]) /\ Bottom(list[s]) <= n
    /\ \A r, s \in 1 .. Len(list) : r < s => Bottom(list[r]) < Top(list[s])
    /\ \A i \in BodyLines : i <= n => \E s \in 1 .. Len(list) : Top(list[s]) <= i /\ i <= Bottom(list[s])

\* what of lines n + 1 to m becomes a section: none if there is no text
IsNext(more, n, m) ==
    \/ more = <<>> /\ \A i \in BodyLines : ~ (n < i /\ i <= m)
    \/ \E section : /\ more = <<section>> /\ IsStretch(section)
                    /\ n < Top(section) /\ Bottom(section) <= m
                    /\ \A i \in BodyLines : n < i /\ i <= m => Top(section) <= i /\ i <= Bottom(section)

LEMMA StretchesAreNumbers ==
    ASSUME NEW section, IsStretch(section), Len(source) \in Nat
    PROVE  /\ Top(section) \in Nat \ {0} /\ Bottom(section) \in Nat /\ Top(section) <= Bottom(section)
           /\ Len(section.lines) \in Nat
<1>1. Len(section.lines) \in Nat /\ Len(section.lines) # 0 /\ Top(section) \in 1 .. Len(source)
  BY LenProperties DEF IsStretch
<1>. QED  BY <1>1 DEF Bottom

LEMMA BodyLinesAreNumbers ==
    ASSUME Len(source) \in Nat, DOMAIN source = 1 .. Len(source)
    PROVE  \A i \in BodyLines : i \in 1 .. Len(source)
BY DEF BodyLines

LEMMA NextReaches ==
    ASSUME Len(source) \in Nat, DOMAIN source = 1 .. Len(source),
           NEW T, NEW list \in Seq(T), NEW more \in Seq(T), NEW n \in Nat, NEW m \in Nat, n <= m,
           Reach(list, n), IsNext(more, n, m)
    PROVE  Reach(list \o more, m)
<1>1. \A i \in BodyLines : i \in Nat
  BY BodyLinesAreNumbers
<1>2. Len(list) \in Nat
  BY LenProperties
<1>3. \A s \in 1 .. Len(list) : Top(list[s]) \in Nat /\ Bottom(list[s]) \in Nat /\ Bottom(list[s]) <= n
  BY StretchesAreNumbers DEF Reach
<1>4. CASE more = <<>> /\ \A i \in BodyLines : ~ (n < i /\ i <= m)
  <2>1. list \o more = list
    BY <1>4, ConcatEmptySeq
  <2>2. \A i \in BodyLines : i <= m => i <= n
    BY <1>1, <1>4
  <2>3. \A s \in 1 .. Len(list) : Bottom(list[s]) <= m
    BY <1>3
  <2>. QED  BY <2>1, <2>2, <2>3 DEF Reach
<1>5. ASSUME NEW section, more = <<section>>, IsStretch(section),
             n < Top(section), Bottom(section) <= m,
             \A i \in BodyLines : n < i /\ i <= m => Top(section) <= i /\ i <= Bottom(section)
      PROVE  Reach(list \o more, m)
  <2>. DEFINE l == Len(list)
              all == list \o more
  <2>1. /\ Len(all) = l + 1 /\ \A s \in 1 .. l : all[s] = list[s]
        /\ all[l + 1] = section
    <3>1. IsConcat(all, list, more)
      BY ConcatHasBoth
    <3>2. Len(more) = 1 /\ more[1] = section /\ 1 \in 1 .. 1
      BY <1>5
    <3>. QED  BY <3>1, <3>2 DEF IsConcat
  <2>. HIDE DEF all, l
  <2>2. l \in Nat /\ l = Len(list)
    BY <1>2 DEF l
  <2>3. \A s \in 1 .. l + 1 : s \in 1 .. l \/ s = l + 1
    BY <2>2
  <2>4. Top(section) \in Nat /\ Bottom(section) \in Nat
    BY <1>5, StretchesAreNumbers
  <2>5. ASSUME NEW s \in 1 .. l + 1 PROVE IsStretch(all[s]) /\ Bottom(all[s]) <= m
    <3>1. CASE s \in 1 .. l
      BY <1>3, <2>1, <2>2, <3>1 DEF Reach
    <3>2. CASE s = l + 1
      BY <1>5, <2>1, <3>2
    <3>. QED  BY <2>3, <3>1, <3>2
  <2>6. ASSUME NEW r \in 1 .. l + 1, NEW s \in 1 .. l + 1, r < s PROVE Bottom(all[r]) < Top(all[s])
    <3>1. r \in 1 .. l /\ all[r] = list[r]
      BY <2>1, <2>2, <2>3, <2>6
    <3>2. CASE s \in 1 .. l
      BY <2>1, <2>2, <2>6, <3>1, <3>2 DEF Reach
    <3>3. CASE s = l + 1
      <4>1. Bottom(list[r]) <= n /\ Bottom(list[r]) \in Nat
        BY <1>3, <2>2, <3>1
      <4>2. all[s] = section
        BY <2>1, <3>3
      <4>. QED  BY <1>5, <2>4, <3>1, <4>1, <4>2
    <3>. QED  BY <2>3, <3>2, <3>3
  <2>7. ASSUME NEW i \in BodyLines, i <= m
        PROVE  \E s \in 1 .. l + 1 : Top(all[s]) <= i /\ i <= Bottom(all[s])
    <3>1. CASE i <= n
      <4>1. PICK s \in 1 .. l : Top(list[s]) <= i /\ i <= Bottom(list[s])
        BY <2>2, <3>1 DEF Reach
      <4>2. s \in 1 .. l + 1 /\ all[s] = list[s]
        BY <2>1, <2>2
      <4>. QED  BY <4>1, <4>2
    <3>2. CASE n < i
      <4>1. Top(section) <= i /\ i <= Bottom(section)
        BY <1>5, <2>7, <3>2
      <4>2. l + 1 \in 1 .. l + 1
        BY <2>2
      <4>. QED  BY <2>1, <4>1, <4>2
    <3>. QED  BY <1>1, <3>1, <3>2
  <2>8. Reach(all, m)
    BY <2>1, <2>5, <2>6, <2>7 DEF Reach
  <2>. QED  BY <2>8 DEF all
<1>. QED  BY <1>4, <1>5, Zenon DEF IsNext

LEMMA NextReachesMore ==
    ASSUME Len(source) \in Nat, DOMAIN source = 1 .. Len(source),
           NEW T, NEW list \in Seq(T), NEW a \in Seq(T), NEW b \in Seq(T),
           NEW n \in Nat, NEW m \in Nat, n <= m,
           Reach(list \o a, n), IsNext(b, n, m)
    PROVE  Reach(list \o (a \o b), m)
<1>1. list \o a \in Seq(T)
  BY ConcatProperties
<1>2. Reach((list \o a) \o b, m)
  BY <1>1, NextReaches
<1>3. (list \o a) \o b = list \o (a \o b)
  BY ConcatAssociative, SMTT(20)
<1>. QED  BY <1>2, <1>3

\* one stretch of lines after the other, up to where each ends
LEMMA FlattenReaches ==
    ASSUME Len(source) \in Nat, DOMAIN source = 1 .. Len(source),
           NEW T, NEW n \in Nat, NEW at, NEW seqs,
           Len(seqs) = n, n = 0 => seqs = <<>>,
           at \in [0 .. n -> Nat],
           \A k \in 1 .. n : seqs[k] \in Seq(T) /\ at[k - 1] <= at[k] /\ IsNext(seqs[k], at[k - 1], at[k]),
           NEW list \in Seq(T), Reach(list, at[0])
    PROVE  list \o FlattenSeq(seqs) \in Seq(T) /\ Reach(list \o FlattenSeq(seqs), at[n])
<1>1. PICK f : Appends(f, T, n, seqs) /\ FlattenSeq(seqs) = f[n]
  BY FlattenIsALoop
<1>2. /\ f \in [0 .. n -> Seq(T)] /\ f[0] = <<>>
      /\ \A k \in 1 .. n : f[k] = f[k - 1] \o seqs[k]
  BY <1>1 DEF Appends
<1>. DEFINE R == {k \in Nat : k <= n => Reach(list \o f[k], at[k])}
<1>3. 0 \in R
  BY <1>2, ConcatEmptySeq, ZenonT(30)
<1>4. ASSUME NEW k \in Nat, k \in R PROVE k + 1 \in R
  <2>. SUFFICES ASSUME k + 1 <= n PROVE Reach(list \o f[k + 1], at[k + 1])
    OBVIOUS
  <2>1. k + 1 \in 1 .. n /\ (k + 1) - 1 = k /\ k \in 0 .. n /\ k + 1 \in 0 .. n
    OBVIOUS
  <2>2. Reach(list \o f[k], at[k])
    BY <1>4, <2>1
  <2>3. /\ f[k] \in Seq(T) /\ seqs[k + 1] \in Seq(T) /\ f[k + 1] = f[k] \o seqs[k + 1]
        /\ at[k] \in Nat /\ at[k + 1] \in Nat /\ at[k] <= at[k + 1]
        /\ IsNext(seqs[k + 1], at[k], at[k + 1])
    BY <1>2, <2>1
  <2>. QED  BY <2>2, <2>3, NextReachesMore
<1>. HIDE DEF R
<1>5. n \in R
  BY <1>3, <1>4, EveryNumberIsReached
<1>6. list \o f[n] \in Seq(T)
  BY <1>2, ConcatProperties
<1>. QED  BY <1>1, <1>5, <1>6 DEF R
---------------------------------------------------------------------------
(* Without foreign line breaks *)

LEMMA BlanksAreSequences == <<" ">> \in Text /\ Len(<<" ">>) = 1 /\ <<" ">>[1] = " "
<1>1. \A C : \A x \in C : <<x>> \in Seq(C) /\ Len(<<x>>) = 1 /\ <<x>>[1] = x
  OBVIOUS
<1>. QED  BY <1>1, Zenon DEF Text, Characters

LEMMA BlankEnds ==
    ASSUME NEW s \in Text
    PROVE  Blank(s \o <<" ">>) <=> Blank(s)
<1>. DEFINE break == <<" ">>
            all   == s \o break
            l     == Len(s)
<1>1. break \in Text /\ Len(break) = 1 /\ break[1] = " "
  BY BlanksAreSequences
<1>. HIDE DEF break
<1>2. /\ all \in Text /\ l \in Nat /\ Len(all) = l + Len(break)
      /\ \A i \in 1 .. l : all[i] = s[i]
      /\ \A i \in 1 .. Len(break) : all[l + i] = break[i]
  BY <1>1, ConcatIsText
<1>3. DOMAIN s = 1 .. l /\ DOMAIN all = 1 .. Len(all)
  BY <1>2, LenProperties DEF Text
<1>. HIDE DEF all, l
<1>4. Len(all) = l + 1 /\ 1 \in 1 .. 1
  <2>1. Len(all) = l + Len(break) /\ Len(break) = 1
    BY <1>1, <1>2, Zenon
  <2>. QED  BY <2>1
<1>5. all[l + 1] = " "
  BY <1>1, <1>2, <1>4, Zenon
<1>6. (\A k \in 1 .. l : k \in 1 .. l + 1) /\ (\A k \in 1 .. l + 1 : k \in 1 .. l \/ k = l + 1)
  BY <1>2
<1>7. Blank(all) <=> Blank(s)
  BY <1>2, <1>3, <1>4, <1>5, <1>6, Zenon DEF Blank
<1>. QED  BY <1>7 DEF all, break

LEMMA PiecesAreTyped ==
    ASSUME NEW file, IsMarkdown(file), Unbroken(file), NEW i \in DOMAIN file
    PROVE  /\ file[i].pieces[1] \in Text /\ DOMAIN file[i].pieces = 1 .. 1
           /\ file[i].pieces = <<file[i].pieces[1]>>
<1>. DEFINE pieces == file[i].pieces
<1>1. file[i] \in SourceLine
  BY LenProperties, ElementOfSeq DEF IsMarkdown
<1>2. pieces \in Seq(Text) /\ Len(pieces) = 1
  BY <1>1 DEF SourceLine, Unbroken
<1>. HIDE DEF pieces
<1>3. pieces[1] \in Text /\ DOMAIN pieces = 1 .. 1
  BY <1>2
<1>4. pieces = <<pieces[1]>>
  BY <1>2, <1>3
<1>. QED  BY <1>3, <1>4 DEF pieces

LEMMA TextsOfLines ==
    ASSUME media # "pdf", IsMarkdown(source), Unbroken(source), NEW i \in DOMAIN source
    PROVE  /\ PieceOf(i) \in Text /\ TextOf(i) = PieceOf(i) \o <<" ">>
           /\ FlattenSeq(source[i].pieces) = PieceOf(i)
<1>. DEFINE piece == source[i].pieces[1]
            ended == piece \o <<" ">>
<1>1. piece \in Text /\ DOMAIN source[i].pieces = 1 .. 1 /\ source[i].pieces = <<piece>>
  BY PiecesAreTyped
<1>2. PieceOf(i) = piece
  BY DEF PieceOf
<1>3. ended \in Text
  BY <1>1, BlanksAreSequences, ConcatIsText
<1>4. FlattenSeq(source[i].pieces) = piece
  BY <1>1, FlattenOfOne DEF Text
<1>5. TextOf(i) = FlattenSeq([k \in 1 .. 1 |-> source[i].pieces[k] \o <<" ">>])
  BY <1>1 DEF TextOf
<1>6. [k \in 1 .. 1 |-> source[i].pieces[k] \o <<" ">>] = <<ended>>
  <2>. DEFINE f == [k \in 1 .. 1 |-> source[i].pieces[k] \o <<" ">>]
  <2>1. DOMAIN f = 1 .. 1 /\ f[1] = ended
    <3>1. 1 \in 1 .. 1
      OBVIOUS
    <3>. QED  BY <3>1, Zenon
  <2>2. \A x, g : g = [k \in 1 .. 1 |-> g[k]] /\ g[1] = x => g = <<x>>
    OBVIOUS
  <2>3. f = [k \in 1 .. 1 |-> f[k]]
    BY Zenon
  <2>. HIDE DEF f
  <2>. QED  BY <2>1, <2>2, <2>3 DEF f
<1>. HIDE DEF ended
<1>7. FlattenSeq(<<ended>>) = ended
  BY <1>3, FlattenOfOne DEF Text
<1>. QED  BY <1>1, <1>2, <1>4, <1>5, <1>6, <1>7, Zenon DEF ended

\* line i of the file is line i of the text
LEMMA LinesAreTheSource ==
    ASSUME media # "pdf", IsMarkdown(source), Unbroken(source)
    PROVE  /\ Lines(source) \in Seq(Line) /\ Len(Lines(source)) = Len(source)
           /\ \A i \in 1 .. Len(source) : Lines(source)[i].line = i /\ Lines(source)[i].piece = PieceOf(i)
<1>. DEFINE n     == Len(source)
            Of(i) == [k \in DOMAIN source[i].pieces |-> [line |-> i, piece |-> source[i].pieces[k]]]
            seqs  == [i \in DOMAIN source |-> Of(i)]
            off   == [k \in 0 .. n |-> k]
<1>1. n \in Nat /\ DOMAIN source = 1 .. n
  BY LevelsAreTyped
<1>2. ASSUME NEW i \in 1 .. n
      PROVE  /\ Of(i) \in Seq(Line) /\ Len(Of(i)) = 1
             /\ Of(i)[1].line = i /\ Of(i)[1].piece = PieceOf(i)
  <2>. DEFINE line == [line |-> i, piece |-> PieceOf(i)]
  <2>1. /\ PieceOf(i) \in Text /\ DOMAIN source[i].pieces = 1 .. 1 /\ i \in Nat
        /\ source[i].pieces[1] = PieceOf(i)
    <3>1. i \in DOMAIN source /\ i \in Nat
      BY <1>1
    <3>2. PieceOf(i) = source[i].pieces[1]
      BY DEF PieceOf
    <3>3. DOMAIN source[i].pieces = 1 .. 1 /\ source[i].pieces[1] \in Text
      BY <3>1, PiecesAreTyped, Zenon
    <3>. QED  BY <3>1, <3>2, <3>3, Zenon
  <2>2. line \in Line /\ line.line = i /\ line.piece = PieceOf(i)
    BY <2>1 DEF Line
  <2>3. Of(i) = [k \in 1 .. 1 |-> line]
    BY <2>1
  <2>. HIDE DEF line, Of
  <2>. QED  BY <2>2, <2>3
<1>3. Lines(source) = FlattenSeq(seqs)
  BY DEF Lines
<1>4. seqs = [i \in 1 .. n |-> Of(i)]
  BY <1>1
<1>. HIDE DEF seqs, Of, n
<1>5. Len(seqs) = n /\ (n = 0 => seqs = <<>>) /\ \A i \in 1 .. n : seqs[i] = Of(i)
  BY <1>1, <1>4
<1>6. AreOffsets(off, n, seqs)
  <2>1. off \in [0 .. n -> Nat] /\ off[0] = 0 /\ \A k \in 1 .. n : off[k] = off[k - 1] + 1
    BY <1>1
  <2>2. \A k \in 1 .. n : Len(seqs[k]) = 1
    BY <1>2, <1>5
  <2>. HIDE DEF off
  <2>3. ASSUME NEW k \in 1 .. n PROVE Len(seqs[k]) \in Nat /\ off[k] = off[k - 1] + Len(seqs[k])
    <3>1. Len(seqs[k]) = 1 /\ off[k] = off[k - 1] + 1 /\ 1 \in Nat
      BY <2>1, <2>2
    <3>. QED  BY <3>1, Zenon
  <2>. QED  BY <2>1, <2>3 DEF AreOffsets
<1>7. Lines(source) \in Seq(Line) /\ IsSpread(Lines(source), off, n, seqs)
  BY <1>1, <1>2, <1>3, <1>5, <1>6, FlattenIsSpread
<1>8. Len(Lines(source)) = n
  BY <1>1, <1>7 DEF IsSpread
<1>9. ASSUME NEW i \in 1 .. n PROVE Lines(source)[i] = Of(i)[1]
  <2>1. off[i - 1] + 1 = i /\ 1 \in 1 .. Len(seqs[i])
    BY <1>1, <1>2, <1>5
  <2>2. Lines(source)[off[i - 1] + 1] = seqs[i][1]
    BY <1>7, <2>1 DEF IsSpread
  <2>. QED  BY <1>5, <2>1, <2>2
<1>. QED  BY <1>2, <1>7, <1>8, <1>9 DEF n

\* lines a to b
LEMMA CutsAreLines ==
    ASSUME media # "pdf", IsMarkdown(source), Unbroken(source),
           NEW a \in Nat \ {0}, NEW b \in 0 .. Len(source), a <= b + 1
    PROVE  LET body == SubSeq(Lines(source), a, b)
           IN  /\ body \in Seq(Line) /\ Len(body) = b - a + 1
               /\ \A k \in 1 .. Len(body) : body[k].line = a + k - 1 /\ body[k].piece = PieceOf(a + k - 1)
               /\ HasText(body) <=> \E i \in a .. b : ~ Blank(PieceOf(i))
<1>. DEFINE lines == Lines(source)
            body  == SubSeq(lines, a, b)
            n     == Len(source)
<1>1. /\ lines \in Seq(Line) /\ Len(lines) = n /\ n \in Nat /\ b \in 0 .. n
      /\ \A i \in 1 .. n : lines[i].line = i /\ lines[i].piece = PieceOf(i)
  BY LinesAreTheSource, LevelsAreTyped
<1>. HIDE DEF lines, n
<1>2. \A i \in a .. b : i \in 1 .. n
  BY <1>1
<1>3. \A i \in a .. b : lines[i] \in Line
  BY <1>1, <1>2, ElementOfSeq
<1>4. /\ body \in Seq(Line) /\ Len(body) = IF a <= b THEN b - a + 1 ELSE 0
      /\ \A k \in 1 .. b - a + 1 : body[k] = lines[a + k - 1]
  BY <1>1, <1>3, SubSeqProperties
<1>. HIDE DEF body
<1>5. Len(body) = b - a + 1 /\ DOMAIN body = 1 .. b - a + 1
  BY <1>1, <1>4, LenProperties
<1>6. ASSUME NEW k \in 1 .. b - a + 1 PROVE body[k].line = a + k - 1 /\ body[k].piece = PieceOf(a + k - 1)
  <2>1. a + k - 1 \in a .. b
    BY <1>1
  <2>. QED  BY <1>1, <1>2, <1>4, <2>1
<1>7. HasText(body) => \E i \in a .. b : ~ Blank(PieceOf(i))
  <2>. SUFFICES ASSUME NEW k \in 1 .. b - a + 1, ~ Blank(body[k].piece)
                PROVE  \E i \in a .. b : ~ Blank(PieceOf(i))
    BY <1>5 DEF HasText
  <2>1. a + k - 1 \in a .. b
    BY <1>1
  <2>. QED  BY <1>6, <2>1
<1>8. ASSUME NEW i \in a .. b, ~ Blank(PieceOf(i)) PROVE HasText(body)
  <2>1. i - a + 1 \in 1 .. b - a + 1 /\ a + (i - a + 1) - 1 = i
    BY <1>1
  <2>2. ~ Blank(body[i - a + 1].piece)
    BY <1>6, <1>8, <2>1
  <2>. QED  BY <1>5, <2>1, <2>2 DEF HasText
<1>9. HasText(body) <=> \E i \in a .. b : ~ Blank(PieceOf(i))
  BY <1>7, <1>8
<1>. QED  BY <1>4, <1>5, <1>6, <1>9 DEF body, lines
---------------------------------------------------------------------------
(* The sections of a file cover its text *)

\* what is written under a heading has its path
LEMMA PathsReachDown ==
    ASSUME IsMarkdown(source), NEW k \in 0 .. Len(Headings(source)), NEW i \in 0 .. Len(source),
           HeadingLine(k) <= i, k < Len(Headings(source)) => i < HeadingLine(k + 1)
    PROVE  LET path == HeadingPath(Headings(source), k)
           IN  path \in Seq(HeadingRecord(source)) /\ [n \in DOMAIN path |-> path[n].line] = Chain(i)
<1>. DEFINE path == HeadingPath(Headings(source), k)
            h    == HeadingLine(k)
<1>1. Len(source) \in Nat /\ DOMAIN source = 1 .. Len(source)
  BY LevelsAreTyped
<1>2. IsPath(path, h)
  BY HeadingPathsAreChains
<1>3. h \in Nat
  <2>1. CASE k = 0
    BY <2>1 DEF HeadingLine
  <2>2. CASE k # 0
    <3>1. Headings(source) \in Seq(HeadingRecord(source))
      BY HeadingsAreTyped
    <3>2. Len(Headings(source)) \in Nat /\ k \in 1 .. Len(Headings(source))
      BY <2>2, <3>1, PathsAreTyped
    <3>3. Headings(source)[k].line \in 1 .. Len(source)
      BY <3>1, <3>2, PathsAreTyped
    <3>. QED  BY <1>1, <2>2, <3>3 DEF HeadingLine
  <2>. QED  BY <2>1, <2>2
<1>. HIDE DEF path
<1>4. ASSUME NEW l \in h + 1 .. i PROVE source[l].level = 0
  <2>1. HeadingLine(k) < l /\ l \in 1 .. Len(source) /\ l <= i
    BY <1>1, <1>3
  <2>2. k < Len(Headings(source)) => l < HeadingLine(k + 1)
    <3>. SUFFICES ASSUME k < Len(Headings(source)) PROVE l < HeadingLine(k + 1)
      OBVIOUS
    <3>1. k + 1 # 0 /\ k + 1 \in 1 .. Len(Headings(source)) /\ i < HeadingLine(k + 1)
      OBVIOUS
    <3>2. HeadingLine(k + 1) \in 1 .. Len(source)
      BY <3>1, HeadingsAreTyped, PathsAreTyped DEF HeadingLine
    <3>. QED  BY <1>1, <2>1, <3>1, <3>2
  <2>. QED  BY <2>1, <2>2, NoHeadingBetween
<1>. HIDE DEF h
<1>5. h \in Nat /\ i \in h .. Len(source)
  BY <1>1, <1>3 DEF h
<1>6. \A x \in DOMAIN source : Encloses(x, h) <=> Encloses(x, i)
  BY <1>4, <1>5, EnclosureStays
<1>7. /\ path \in Seq(HeadingRecord(source))
      /\ \A p \in 1 .. Len(path) : path[p].line \in DOMAIN source
  BY <1>1, <1>2, PathsAreTyped DEF IsPath
<1>8. IsPath(path, i)
  BY <1>2, <1>6, <1>7 DEF IsPath
<1>9. [n \in DOMAIN path |-> path[n].line] = Chain(i)
  BY <1>8, PathsAreChains
<1>. QED  BY <1>7, <1>9 DEF path

\* before the first heading there is none
LEMMA TopPathIsEmpty ==
    ASSUME IsMarkdown(source)
    PROVE  HeadingPath(Headings(source), 0) = <<>>
<1>. DEFINE path == HeadingPath(Headings(source), 0)
<1>1. 0 \in 0 .. Len(Headings(source))
  BY HeadingsAreTyped, PathsAreTyped
<1>2. IsPath(path, HeadingLine(0))
  BY <1>1, HeadingPathsAreChains
<1>. HIDE DEF path
<1>3. HeadingLine(0) = 0
  BY DEF HeadingLine
<1>4. path \in Seq(HeadingRecord(source)) /\ \A p \in 1 .. Len(path) : path[p].line <= 0
  BY <1>2, <1>3 DEF IsPath, Encloses
<1>5. Len(path) \in Nat /\ \A p \in 1 .. Len(path) : path[p].line \in 1 .. Len(source)
  BY <1>4, PathsAreTyped
<1>6. Len(path) = 0
  <2>. SUFFICES ASSUME Len(path) # 0 PROVE FALSE
    OBVIOUS
  <2>1. 1 \in 1 .. Len(path)
    BY <1>5
  <2>. QED  BY <1>4, <1>5, <2>1
<1>7. path = <<>>
  BY <1>4, <1>6, EmptySeq
<1>. QED  BY <1>7 DEF path

LEMMA BodyLinesHaveText ==
    ASSUME media # "pdf", IsMarkdown(source), Unbroken(source), NEW i \in BodyLines
    PROVE  i \in 1 .. Len(source) /\ source[i].level = 0 /\ ~ Blank(PieceOf(i))
<1>1. i \in DOMAIN source /\ ~ Blank(TextOf(i)) /\ source[i].level = 0
  BY DEF BodyLines
<1>2. PieceOf(i) \in Text /\ TextOf(i) = PieceOf(i) \o <<" ">>
  BY <1>1, TextsOfLines
<1>3. ~ Blank(PieceOf(i))
  BY <1>1, <1>2, BlankEnds, ZenonT(30)
<1>. QED  BY <1>1, <1>3, LevelsAreTyped

\* lines that follow each other make a stretch
LEMMA LinesMakeAStretch ==
    ASSUME NEW section, NEW a \in Nat \ {0}, Len(source) \in Nat,
           section.lines \in Seq(Line), Len(section.lines) # 0,
           a + Len(section.lines) - 1 <= Len(source),
           \A k \in 1 .. Len(section.lines) : /\ section.lines[k].line = a + k - 1
                                              /\ section.lines[k].piece = PieceOf(a + k - 1),
           HasText(section.lines),
           \A i \in a .. a + Len(section.lines) - 1 : Cites(section, i)
    PROVE  IsStretch(section) /\ Top(section) = a /\ Bottom(section) = a + Len(section.lines) - 1
<1>1. Len(section.lines) \in Nat
  BY LenProperties
<1>2. 1 \in 1 .. Len(section.lines)
  BY <1>1
<1>3. Top(section) = a
  BY <1>2 DEF Top
<1>4. Bottom(section) = a + Len(section.lines) - 1
  BY <1>3 DEF Bottom
<1>5. a \in 1 .. Len(source)
  BY <1>1
<1>. QED  BY <1>3, <1>4, <1>5 DEF IsStretch

MarkdownSection == SectionOf(Seq(HeadingRecord(source)))

LEMMA OnesAreSequences == \A T : \A x \in T : <<x>> \in Seq(T) /\ <<>> \in Seq(T)
OBVIOUS

LEMMA PreambleIsNext ==
    ASSUME media # "pdf", IsMarkdown(source), Unbroken(source), Headings(source) # <<>>
    PROVE  LET more == Preamble(Headings(source), Lines(source))
           IN  more \in Seq(MarkdownSection) /\ IsNext(more, 0, Headings(source)[1].line - 1)
<1>. DEFINE hs   == Headings(source)
            b    == hs[1].line - 1
            body == SubSeq(Lines(source), 1, b)
            S    == [path |-> <<>>, page |-> NoPage, lines |-> body]
            more == Preamble(hs, Lines(source))
<1>1. /\ hs \in Seq(HeadingRecord(source)) /\ Len(hs) \in Nat /\ Len(hs) # 0 /\ 1 \in 1 .. Len(hs)
      /\ hs[1].line \in 1 .. Len(source) /\ Len(source) \in Nat
  <2>1. hs \in Seq(HeadingRecord(source)) /\ Len(source) \in Nat
    BY HeadingsAreTyped, LevelsAreTyped
  <2>2. Len(hs) \in Nat /\ Len(hs) # 0
    BY <2>1, PathsAreTyped, EmptySeq
  <2>3. 1 \in 1 .. Len(hs)
    BY <2>2
  <2>. QED  BY <2>1, <2>2, <2>3, PathsAreTyped
<1>2. b \in 0 .. Len(source) /\ 1 <= b + 1 /\ 1 \in Nat \ {0} /\ b - 1 + 1 = b
  BY <1>1
<1>3. HeadingLine(0) = 0 /\ HeadingLine(1) = b + 1 /\ 0 \in 0 .. Len(hs)
  BY <1>1 DEF HeadingLine
<1>4. more = IF HasText(body) THEN <<S>> ELSE <<>>
  BY DEF Preamble
<1>. HIDE DEF b, more
<1>5. /\ body \in Seq(Line) /\ Len(body) = b - 1 + 1
      /\ \A k \in 1 .. Len(body) : body[k].line = 1 + k - 1 /\ body[k].piece = PieceOf(1 + k - 1)
      /\ HasText(body) <=> \E i \in 1 .. b : ~ Blank(PieceOf(i))
  BY <1>2, CutsAreLines
<1>. HIDE DEF body
<1>6. ASSUME ~ HasText(body) PROVE more \in Seq(MarkdownSection) /\ IsNext(more, 0, b)
  <2>1. \A i \in 1 .. b : Blank(PieceOf(i))
    BY <1>5, <1>6
  <2>2. \A i \in BodyLines : ~ (0 < i /\ i <= b)
    BY <1>1, <1>2, <2>1, BodyLinesHaveText
  <2>3. more = <<>>
    BY <1>4, <1>6
  <2>4. more \in Seq(MarkdownSection)
    BY <2>3, EmptySeq
  <2>. QED  BY <2>2, <2>3, <2>4 DEF IsNext
<1>7. ASSUME HasText(body) PROVE more \in Seq(MarkdownSection) /\ IsNext(more, 0, b)
  <2>1. S.lines = body /\ S.path = <<>>
    OBVIOUS
  <2>2. S \in MarkdownSection
    <3>1. NoPage \in Nat /\ <<>> \in Seq(HeadingRecord(source))
      BY EmptySeq DEF NoPage
    <3>. QED  BY <1>5, <3>1 DEF MarkdownSection, SectionOf
  <2>. HIDE DEF S
  <2>3. b # 0
    BY <1>2, <1>5, <1>7
  <2>4. ASSUME NEW i \in 1 .. b PROVE Cites(S, i)
    <3>1. i \in 0 .. Len(source) /\ 0 <= i /\ i < b + 1 /\ 0 + 1 = 1
      BY <1>1, <1>2
    <3>2. LET path == HeadingPath(hs, 0) IN [n \in DOMAIN path |-> path[n].line] = Chain(i)
      BY <1>3, <3>1, PathsReachDown
    <3>3. HeadingPath(hs, 0) = <<>>
      BY TopPathIsEmpty
    <3>. QED  BY <2>1, <3>2, <3>3 DEF Cites
  <2>5. \A k \in 1 .. Len(body) : body[k].line = 1 + k - 1 /\ body[k].piece = PieceOf(1 + k - 1)
    BY <1>5
  <2>6. Len(body) = b /\ 1 + Len(body) - 1 = b /\ Len(body) # 0
    BY <1>2, <1>5, <2>3
  <2>7. IsStretch(S) /\ Top(S) = 1 /\ Bottom(S) = b
    <3>1. 1 \in Nat \ {0} /\ b <= Len(source)
      BY <1>1, <1>2
    <3>. QED  BY <1>1, <1>5, <1>7, <2>1, <2>4, <2>5, <2>6, <3>1, LinesMakeAStretch
  <2>8. more = <<S>> /\ more \in Seq(MarkdownSection)
    BY <1>4, <1>7, <2>2, OnesAreSequences
  <2>9. 0 < Top(S) /\ Bottom(S) <= b /\ \A i \in BodyLines : 0 < i /\ i <= b => Top(S) <= i /\ i <= Bottom(S)
    BY <1>1, <1>2, <2>7, BodyLinesHaveText
  <2>. QED  BY <2>7, <2>8, <2>9 DEF IsNext
<1>. QED  BY <1>6, <1>7 DEF more, b

\* a heading and the body under it, line after line
LEMMA HeadingsHeadTheirBodies ==
    ASSUME media # "pdf", IsMarkdown(source), Unbroken(source),
           NEW h \in 1 .. Len(source), NEW b \in h .. Len(source), NEW piece, piece = PieceOf(h)
    PROVE  LET body  == SubSeq(Lines(source), h + 1, b)
               whole == <<[line |-> h, piece |-> piece]>> \o body
           IN  /\ whole \in Seq(Line) /\ Len(whole) = b - h + 1
               /\ \A k \in 1 .. Len(whole) : whole[k].line = h + k - 1 /\ whole[k].piece = PieceOf(h + k - 1)
               /\ HasText(body) <=> \E i \in h + 1 .. b : ~ Blank(PieceOf(i))
               /\ HasText(body) => HasText(whole)
<1>. DEFINE body  == SubSeq(Lines(source), h + 1, b)
            line  == [line |-> h, piece |-> piece]
            head  == <<line>>
            whole == head \o body
<1>1. Len(source) \in Nat /\ DOMAIN source = 1 .. Len(source) /\ h \in Nat /\ b \in Nat
  BY LevelsAreTyped
<1>2. h + 1 \in Nat \ {0} /\ b \in 0 .. Len(source) /\ h + 1 <= b + 1 /\ b - (h + 1) + 1 = b - h
  BY <1>1
<1>3. /\ body \in Seq(Line) /\ Len(body) = b - (h + 1) + 1
      /\ \A k \in 1 .. Len(body) : /\ body[k].line = h + 1 + k - 1
                                   /\ body[k].piece = PieceOf(h + 1 + k - 1)
      /\ HasText(body) <=> \E i \in h + 1 .. b : ~ Blank(PieceOf(i))
  BY <1>2, CutsAreLines
<1>. HIDE DEF body
<1>4. line \in Line /\ line.line = h /\ line.piece = PieceOf(h)
  <2>1. PieceOf(h) \in Text
    BY <1>1, TextsOfLines
  <2>. QED  BY <1>1, <2>1 DEF Line
<1>. HIDE DEF line
<1>5. head \in Seq(Line) /\ Len(head) = 1 /\ head[1] = line
  BY <1>4
<1>. HIDE DEF head
<1>6. whole \in Seq(Line) /\ IsConcat(whole, head, body)
  BY <1>3, <1>5, ConcatHasBoth
<1>. HIDE DEF whole
<1>7. /\ Len(whole) = 1 + Len(body) /\ whole[1] = line
      /\ \A k \in 1 .. Len(body) : whole[1 + k] = body[k]
  <2>1. 1 \in 1 .. 1
    OBVIOUS
  <2>. QED  BY <1>5, <1>6, <2>1 DEF IsConcat
<1>8. Len(body) = b - h /\ Len(body) \in Nat
  BY <1>1, <1>2, <1>3
<1>9. ASSUME NEW k \in 1 .. Len(whole)
      PROVE  whole[k].line = h + k - 1 /\ whole[k].piece = PieceOf(h + k - 1)
  <2>1. CASE k = 1
    <3>1. h + k - 1 = h
      BY <1>1, <2>1
    <3>. QED  BY <1>4, <1>7, <2>1, <3>1
  <2>2. CASE k # 1
    <3>1. k - 1 \in 1 .. Len(body) /\ 1 + (k - 1) = k /\ h + 1 + (k - 1) - 1 = h + k - 1
      BY <1>1, <1>7, <1>8, <2>2
    <3>. QED  BY <1>3, <1>7, <3>1
  <2>. QED  BY <2>1, <2>2
<1>10. ASSUME HasText(body) PROVE HasText(whole)
  <2>1. DOMAIN body = 1 .. Len(body) /\ DOMAIN whole = 1 .. Len(whole)
    BY <1>3, <1>6, LenProperties
  <2>2. PICK k \in 1 .. Len(body) : ~ Blank(body[k].piece)
    BY <1>10, <2>1 DEF HasText
  <2>3. 1 + k \in DOMAIN whole /\ whole[1 + k] = body[k]
    BY <1>7, <1>8, <2>1
  <2>. QED  BY <2>2, <2>3 DEF HasText
<1>11. Len(whole) = b - h + 1
  BY <1>1, <1>7, <1>8
<1>. QED  BY <1>3, <1>6, <1>9, <1>10, <1>11 DEF whole, head, body, line

\* where a position's text ends
Until(k) ==
    IF k = 0 THEN HeadingLine(1) - 1
    ELSE NextLine(Headings(source), k, Lines(source)) - 1

LEMMA UntilsAreOrdered ==
    ASSUME media # "pdf", IsMarkdown(source), Unbroken(source), NEW k \in 1 .. Len(Headings(source))
    PROVE  /\ HeadingLine(k) \in 1 .. Len(source) /\ Until(k - 1) = HeadingLine(k) - 1
           /\ Until(k) \in HeadingLine(k) .. Len(source)
           /\ k < Len(Headings(source)) => HeadingLine(k + 1) = Until(k) + 1
           /\ k = Len(Headings(source)) => Until(k) = Len(source)
<1>. DEFINE hs == Headings(source)
            n  == Len(hs)
<1>1. /\ Len(source) \in Nat /\ n \in Nat
      /\ \A j \in 1 .. n : hs[j].line \in 1 .. Len(source) /\ HeadingLine(j) = hs[j].line
  <2>1. hs \in Seq(HeadingRecord(source)) /\ Len(source) \in Nat
    BY HeadingsAreTyped, LevelsAreTyped
  <2>2. n \in Nat /\ \A j \in 1 .. n : hs[j].line \in 1 .. Len(source)
    BY <2>1, PathsAreTyped
  <2>3. \A j \in 1 .. n : HeadingLine(j) = hs[j].line
    BY <2>2 DEF HeadingLine
  <2>. QED  BY <2>1, <2>2, <2>3
<1>2. \A i, j \in 1 .. n : i < j => hs[i].line < hs[j].line
  BY HeadingsAreTyped
<1>3. Len(Lines(source)) = Len(source)
  BY LinesAreTheSource
<1>4. \A j \in 1 .. n : j # 0 /\ Until(j) = NextLine(hs, j, Lines(source)) - 1
  BY <1>1 DEF Until
<1>5. \A j \in 1 .. n : j < n => Until(j) = HeadingLine(j + 1) - 1
  <2>. SUFFICES ASSUME NEW j \in 1 .. n, j < n PROVE Until(j) = HeadingLine(j + 1) - 1
    OBVIOUS
  <2>1. j + 1 \in 1 .. n
    BY <1>1
  <2>2. NextLine(hs, j, Lines(source)) = hs[j + 1].line
    BY DEF NextLine
  <2>. QED  BY <1>1, <1>4, <2>1, <2>2
<1>6. \A j \in 1 .. n : j = n => Until(j) = Len(source)
  <2>. SUFFICES ASSUME NEW j \in 1 .. n, j = n PROVE Until(j) = Len(source)
    OBVIOUS
  <2>1. NextLine(hs, j, Lines(source)) = Len(source) + 1
    BY <1>1, <1>3 DEF NextLine
  <2>. QED  BY <1>1, <1>4, <2>1
<1>7. Until(0) = HeadingLine(1) - 1
  BY DEF Until
<1>8. k \in 1 .. n
  BY DEF n, hs
<1>. HIDE DEF hs, n
<1>9. Until(k - 1) = HeadingLine(k) - 1
  <2>1. CASE k = 1
    BY <1>7, <2>1
  <2>2. CASE k # 1
    <3>1. k - 1 \in 1 .. n /\ k - 1 < n /\ (k - 1) + 1 = k
      BY <1>1, <1>8, <2>2
    <3>. QED  BY <1>5, <3>1
  <2>. QED  BY <2>1, <2>2
<1>10. CASE k < n
  <2>1. k + 1 \in 1 .. n /\ k < k + 1
    BY <1>1, <1>8, <1>10
  <2>2. HeadingLine(k) < HeadingLine(k + 1) /\ Until(k) = HeadingLine(k + 1) - 1
    BY <1>1, <1>2, <1>5, <1>8, <1>10, <2>1
  <2>3. HeadingLine(k) \in 1 .. Len(source) /\ HeadingLine(k + 1) \in 1 .. Len(source)
    BY <1>1, <1>8, <2>1
  <2>. QED  BY <1>1, <1>9, <1>10, <2>2, <2>3 DEF n, hs
<1>11. CASE k = n
  <2>1. HeadingLine(k) \in 1 .. Len(source) /\ Until(k) = Len(source)
    BY <1>1, <1>6, <1>8, <1>11
  <2>. QED  BY <1>1, <1>9, <1>11, <2>1 DEF n, hs
<1>. QED  BY <1>1, <1>8, <1>10, <1>11

LEMMA UnderHeadingIsNext ==
    ASSUME media # "pdf", IsMarkdown(source), Unbroken(source), NEW k \in 1 .. Len(Headings(source))
    PROVE  LET more == UnderHeading(Headings(source), k, Lines(source))
           IN  more \in Seq(MarkdownSection) /\ IsNext(more, Until(k - 1), Until(k))
<1>. DEFINE hs    == Headings(source)
            h     == HeadingLine(k)
            b     == Until(k)
            body  == SubSeq(Lines(source), h + 1, b)
            piece == hs[k].piece
            whole == <<[line |-> h, piece |-> piece]>> \o body
            S     == [path |-> HeadingPath(hs, k), page |-> NoPage, lines |-> whole]
            more  == UnderHeading(hs, k, Lines(source))
<1>1. /\ h \in 1 .. Len(source) /\ b \in h .. Len(source) /\ Until(k - 1) = h - 1
      /\ k < Len(hs) => HeadingLine(k + 1) = b + 1
      /\ Len(source) \in Nat /\ DOMAIN source = 1 .. Len(source)
  BY UntilsAreOrdered, LevelsAreTyped
<1>2. hs[k].line = h /\ hs[k].level > 0 /\ hs[k].level = source[h].level /\ hs[k].piece = PieceOf(h)
  <2>1. hs[k].line = h
    BY DEF HeadingLine
  <2>2. /\ hs[k].level > 0 /\ hs[k].level = source[hs[k].line].level
        /\ hs[k].piece = FlattenSeq(source[hs[k].line].pieces)
    BY HeadingsAreTyped
  <2>3. FlattenSeq(source[h].pieces) = PieceOf(h)
    BY <1>1, TextsOfLines
  <2>. QED  BY <2>1, <2>2, <2>3
<1>3. k # 0 /\ NextLine(hs, k, Lines(source)) - 1 = b /\ k \in 0 .. Len(hs)
  BY DEF Until
<1>4. more = IF HasText(body) THEN <<S>> ELSE <<>>
  BY <1>2, <1>3 DEF UnderHeading
<1>. HIDE DEF more, b, h
<1>10. piece = PieceOf(h)
  BY <1>2
<1>. HIDE DEF piece
<1>5. /\ whole \in Seq(Line) /\ Len(whole) = b - h + 1
      /\ \A j \in 1 .. Len(whole) : whole[j].line = h + j - 1 /\ whole[j].piece = PieceOf(h + j - 1)
      /\ HasText(body) <=> \E i \in h + 1 .. b : ~ Blank(PieceOf(i))
      /\ HasText(body) => HasText(whole)
  BY <1>1, <1>10, HeadingsHeadTheirBodies, ZenonT(30)
<1>. HIDE DEF whole, body
<1>6. \A i \in BodyLines : h - 1 < i /\ i <= b => HasText(body)
  <2>. SUFFICES ASSUME NEW i \in BodyLines, h - 1 < i, i <= b PROVE HasText(body)
    OBVIOUS
  <2>1. i \in 1 .. Len(source) /\ source[i].level = 0 /\ ~ Blank(PieceOf(i))
    BY BodyLinesHaveText
  <2>2. i # h
    BY <1>2, <2>1
  <2>3. i \in h + 1 .. b
    BY <1>1, <2>1, <2>2
  <2>. QED  BY <1>5, <2>1, <2>3
<1>7. ASSUME ~ HasText(body) PROVE more \in Seq(MarkdownSection) /\ IsNext(more, h - 1, b)
  <2>1. more = <<>>
    BY <1>4, <1>7
  <2>2. more \in Seq(MarkdownSection)
    BY <2>1, EmptySeq
  <2>. QED  BY <1>6, <1>7, <2>1, <2>2 DEF IsNext
<1>8. ASSUME HasText(body) PROVE more \in Seq(MarkdownSection) /\ IsNext(more, h - 1, b)
  <2>1. S.lines = whole /\ S.path = HeadingPath(hs, k)
    OBVIOUS
  <2>2. S \in MarkdownSection
    <3>1. h \in 0 .. Len(source) /\ h <= h /\ (k < Len(hs) => h < HeadingLine(k + 1)) /\ HeadingLine(k) <= h
      BY <1>1 DEF h
    <3>2. HeadingPath(hs, k) \in Seq(HeadingRecord(source))
      BY <1>3, <3>1, PathsReachDown
    <3>. QED  BY <1>5, <3>2 DEF MarkdownSection, SectionOf, NoPage
  <2>. HIDE DEF S
  <2>3. ASSUME NEW i \in h .. b PROVE Cites(S, i)
    <3>1. i \in 0 .. Len(source) /\ HeadingLine(k) <= i /\ (k < Len(hs) => i < HeadingLine(k + 1))
      BY <1>1 DEF h
    <3>2. LET path == HeadingPath(hs, k) IN [n \in DOMAIN path |-> path[n].line] = Chain(i)
      BY <1>3, <3>1, PathsReachDown
    <3>. QED  BY <2>1, <3>2 DEF Cites
  <2>4. h \in Nat \ {0} /\ Len(whole) # 0 /\ h + Len(whole) - 1 = b /\ b <= Len(source)
    <3>1. Len(whole) = b - h + 1
      BY <1>5
    <3>2. h \in Nat /\ b \in Nat /\ h <= b /\ h # 0 /\ b <= Len(source)
      BY <1>1
    <3>. QED  BY <3>1, <3>2
  <2>5. IsStretch(S) /\ Top(S) = h /\ Bottom(S) = b
    BY <1>1, <1>5, <1>8, <2>1, <2>3, <2>4, LinesMakeAStretch
  <2>6. more = <<S>> /\ more \in Seq(MarkdownSection)
    BY <1>4, <1>8, <2>2, OnesAreSequences
  <2>7. /\ h - 1 < Top(S) /\ Bottom(S) <= b
        /\ \A i \in BodyLines : h - 1 < i /\ i <= b => Top(S) <= i /\ i <= Bottom(S)
    <3>1. \A i \in BodyLines : i \in Nat
      BY <1>1, BodyLinesAreNumbers
    <3>. QED  BY <1>1, <2>5, <3>1
  <2>. QED  BY <2>5, <2>6, <2>7 DEF IsNext
<1>9. more \in Seq(MarkdownSection) /\ IsNext(more, h - 1, b)
  BY <1>7, <1>8
<1>. QED  BY <1>1, <1>9 DEF more, h, b

LEMMA FirstReaches ==
    ASSUME Len(source) \in Nat, DOMAIN source = 1 .. Len(source),
           NEW T, NEW more \in Seq(T), NEW m \in Nat, IsNext(more, 0, m)
    PROVE  Reach(more, m)
<1>. DEFINE none == <<>>
<1>1. none \in Seq(T) /\ Len(none) = 0 /\ none \o more = more
  BY EmptySeq, ConcatEmptySeq
<1>2. \A i \in BodyLines : ~ i <= 0
  BY BodyLinesAreNumbers
<1>3. \A s \in 1 .. 0 : FALSE
  OBVIOUS
<1>. HIDE DEF none
<1>4. Reach(none, 0)
  BY <1>1, <1>2, <1>3 DEF Reach
<1>5. Reach(none \o more, m)
  <2>1. 0 \in Nat /\ 0 <= m
    OBVIOUS
  <2>. QED  BY <1>1, <1>4, <2>1, NextReaches, Zenon
<1>. QED  BY <1>1, <1>5

\* The sections of a Markdown file follow its lines and leave no text out.
LEMMA MarkdownReaches ==
    ASSUME media # "pdf", IsMarkdown(source), Unbroken(source), HasText(Lines(source))
    PROVE  /\ MarkdownSections(source) \in Seq(MarkdownSection)
           /\ Reach(MarkdownSections(source), Len(source))
<1>. DEFINE hs    == Headings(source)
            n     == Len(hs)
            N     == Len(source)
            lines == Lines(source)
<1>1. /\ hs \in Seq(HeadingRecord(source)) /\ n \in Nat /\ N \in Nat /\ DOMAIN source = 1 .. N
      /\ DOMAIN hs = 1 .. n /\ (n = 0 <=> hs = <<>>)
  BY HeadingsAreTyped, LevelsAreTyped, PathsAreTyped, EmptySeq
<1>2. ASSUME hs = <<>>
      PROVE  MarkdownSections(source) \in Seq(MarkdownSection) /\ Reach(MarkdownSections(source), N)
  <2>. DEFINE S    == [path |-> <<>>, page |-> NoPage, lines |-> lines]
              more == <<S>>
  <2>1. MarkdownSections(source) = more
    BY <1>2 DEF MarkdownSections
  <2>2. S.lines = lines /\ S.path = <<>>
    OBVIOUS
  <2>3. /\ lines \in Seq(Line) /\ Len(lines) = N
        /\ \A k \in 1 .. Len(lines) : lines[k].line = 1 + k - 1 /\ lines[k].piece = PieceOf(1 + k - 1)
    <3>1. /\ lines \in Seq(Line) /\ Len(lines) = N
          /\ \A i \in 1 .. N : lines[i].line = i /\ lines[i].piece = PieceOf(i)
      BY LinesAreTheSource
    <3>2. \A k \in 1 .. N : 1 + k - 1 = k
      BY <1>1
    <3>. QED  BY <3>1, <3>2
  <2>4. S \in MarkdownSection
    <3>1. NoPage \in Nat /\ <<>> \in Seq(HeadingRecord(source))
      BY EmptySeq DEF NoPage
    <3>. QED  BY <2>3, <3>1 DEF MarkdownSection, SectionOf
  <2>5. HasText(lines)
    OBVIOUS
  <2>. HIDE DEF S, lines
  <2>6. N # 0
    <3>1. DOMAIN lines = 1 .. N
      BY <2>3, LenProperties
    <3>2. PICK k \in 1 .. N : ~ Blank(lines[k].piece)
      BY <2>5, <3>1 DEF HasText
    <3>. QED  BY <1>1
  <2>7. ASSUME NEW i \in 1 .. N PROVE Cites(S, i)
    <3>1. i \in 0 .. N /\ 0 <= i /\ HeadingLine(0) = 0 /\ 0 \in 0 .. Len(hs) /\ ~ 0 < Len(hs)
      BY <1>1, <1>2 DEF HeadingLine
    <3>2. LET path == HeadingPath(hs, 0) IN [p \in DOMAIN path |-> path[p].line] = Chain(i)
      BY <3>1, PathsReachDown
    <3>3. HeadingPath(hs, 0) = <<>>
      BY TopPathIsEmpty
    <3>. QED  BY <2>2, <3>2, <3>3 DEF Cites
  <2>8. IsStretch(S) /\ Top(S) = 1 /\ Bottom(S) = N
    <3>1. 1 \in Nat \ {0} /\ 1 + Len(lines) - 1 = N /\ Len(lines) # 0 /\ N <= N
      BY <1>1, <2>3, <2>6
    <3>. QED  BY <1>1, <2>2, <2>3, <2>5, <2>7, <3>1, LinesMakeAStretch
  <2>9. IsNext(more, 0, N)
    <3>1. 0 < Top(S) /\ Bottom(S) <= N /\ \A i \in BodyLines : Top(S) <= i /\ i <= Bottom(S)
      BY <1>1, <2>8, BodyLinesAreNumbers
    <3>. QED  BY <2>8, <3>1 DEF IsNext
  <2>10. more \in Seq(MarkdownSection)
    BY <2>4, OnesAreSequences
  <2>. QED  BY <1>1, <2>1, <2>9, <2>10, FirstReaches
<1>3. ASSUME hs # <<>>
      PROVE  MarkdownSections(source) \in Seq(MarkdownSection) /\ Reach(MarkdownSections(source), N)
  <2>. DEFINE top  == Preamble(hs, lines)
              seqs == [k \in DOMAIN hs |-> UnderHeading(hs, k, lines)]
              at   == [k \in 0 .. n |-> Until(k)]
  <2>1. MarkdownSections(source) = top \o FlattenSeq(seqs)
    BY <1>3 DEF MarkdownSections
  <2>2. n # 0 /\ 1 \in 1 .. n
    BY <1>1, <1>3
  <2>3. /\ \A k \in 1 .. n : /\ Until(k - 1) = HeadingLine(k) - 1 /\ Until(k) \in HeadingLine(k) .. N
                             /\ HeadingLine(k) \in 1 .. N
        /\ Until(n) = N
    <3>1. n \in 1 .. n
      BY <1>1, <2>2
    <3>. QED  BY <3>1, UntilsAreOrdered
  <2>4. Until(0) = HeadingLine(1) - 1 /\ HeadingLine(1) = hs[1].line
    BY DEF Until, HeadingLine
  <2>5. \A k \in 0 .. n : Until(k) \in Nat
    <3>1. ASSUME NEW k \in 1 .. n PROVE Until(k) \in Nat
      BY <1>1, <2>3
    <3>2. Until(0) \in Nat
      BY <1>1, <2>2, <2>3, <2>4
    <3>3. \A k \in 0 .. n : k = 0 \/ k \in 1 .. n
      BY <1>1
    <3>. QED  BY <3>1, <3>2, <3>3
  <2>6. top \in Seq(MarkdownSection) /\ IsNext(top, 0, Until(0))
    BY <1>3, <2>4, PreambleIsNext
  <2>7. \A k \in 1 .. n : UnderHeading(hs, k, lines) \in Seq(MarkdownSection)
                          /\ IsNext(UnderHeading(hs, k, lines), Until(k - 1), Until(k))
    BY UnderHeadingIsNext
  <2>8. /\ Len(seqs) = n
        /\ \A k \in 1 .. n : seqs[k] = UnderHeading(hs, k, lines)
    BY <1>1
  <2>9. Reach(top, Until(0))
    BY <1>1, <2>5, <2>6, FirstReaches
  <2>. HIDE DEF top, seqs, hs, n, N, lines
  <2>10. /\ at \in [0 .. n -> Nat] /\ at[0] = Until(0) /\ at[n] = N
         /\ \A k \in 1 .. n : at[k - 1] = Until(k - 1) /\ at[k] = Until(k)
    BY <1>1, <2>3, <2>5
  <2>. HIDE DEF at
  <2>11. \A k \in 1 .. n : seqs[k] \in Seq(MarkdownSection) /\ at[k - 1] <= at[k] /\ IsNext(seqs[k], at[k - 1], at[k])
    <3>. SUFFICES ASSUME NEW k \in 1 .. n
                  PROVE  seqs[k] \in Seq(MarkdownSection) /\ at[k - 1] <= at[k] /\ IsNext(seqs[k], at[k - 1], at[k])
      OBVIOUS
    <3>1. HeadingLine(k) - 1 <= Until(k)
      BY <1>1, <2>3
    <3>. QED  BY <2>3, <2>7, <2>8, <2>10, <3>1
  <2>12. Reach(top, at[0]) /\ Len(source) \in Nat /\ DOMAIN source = 1 .. Len(source)
    BY <1>1, <2>9, <2>10 DEF N
  <2>13. top \o FlattenSeq(seqs) \in Seq(MarkdownSection) /\ Reach(top \o FlattenSeq(seqs), at[n])
    BY <1>1, <2>2, <2>6, <2>8, <2>10, <2>11, <2>12, FlattenReaches
  <2>. QED  BY <2>1, <2>10, <2>13
<1>. QED  BY <1>2, <1>3

PdfSection == SectionOf({<<>>})

\* So do those of a PDF its pages.
LEMMA PdfReaches ==
    ASSUME media = "pdf", source \in Seq({Broken} \union Text), Broken \notin ToSet(source)
    PROVE  /\ PdfSections(source) \in Seq(PdfSection)
           /\ Reach(PdfSections(source), Len(source))
           /\ \A i \in DOMAIN source : source[i] \in Text
<1>. DEFINE n    == Len(source)
            seqs == [i \in DOMAIN source |-> PageSection(i, source[i])]
            at   == [k \in 0 .. n |-> k]
            none == <<>>
<1>1. n \in Nat /\ DOMAIN source = 1 .. n
  BY LenProperties
<1>2. \A i \in DOMAIN source : source[i] \in Text
  <2>. SUFFICES ASSUME NEW i \in DOMAIN source PROVE source[i] \in Text
    OBVIOUS
  <2>1. source[i] \in {Broken} \union Text
    BY ElementOfSeq
  <2>2. source[i] # Broken
    BY DEF ToSet
  <2>. QED  BY <2>1, <2>2
<1>3. ASSUME NEW i \in 1 .. n
      PROVE  PageSection(i, source[i]) \in Seq(PdfSection) /\ IsNext(PageSection(i, source[i]), i - 1, i)
  <2>. DEFINE line == [line |-> i, piece |-> source[i]]
              all  == <<line>>
              S    == [path |-> <<>>, page |-> i, lines |-> all]
              more == PageSection(i, source[i])
  <2>0. i \in Nat /\ i \in DOMAIN source
    BY <1>1
  <2>1. more = IF Blank(source[i]) THEN <<>> ELSE <<S>>
    BY DEF PageSection
  <2>2. line \in Line /\ line.line = i /\ line.piece = PieceOf(i) /\ PieceOf(i) = source[i]
    BY <1>2, <2>0 DEF Line, PieceOf
  <2>3. S.lines = all /\ S.page = i
    OBVIOUS
  <2>. HIDE DEF line
  <2>4. all \in Seq(Line) /\ Len(all) = 1 /\ all[1] = line /\ DOMAIN all = 1 .. 1
    BY <2>2
  <2>. HIDE DEF all
  <2>5. S \in PdfSection
    BY <2>0, <2>4 DEF PdfSection, SectionOf
  <2>. HIDE DEF S, more
  <2>6. \A x \in BodyLines : i - 1 < x /\ x <= i => x = i
    BY <1>1, BodyLinesAreNumbers
  <2>7. ASSUME Blank(source[i]) PROVE more \in Seq(PdfSection) /\ IsNext(more, i - 1, i)
    <3>1. i \notin BodyLines
      BY <2>7 DEF BodyLines, TextOf
    <3>2. more = <<>>
      BY <2>1, <2>7
    <3>3. more \in Seq(PdfSection)
      BY <3>2, EmptySeq
    <3>. QED  BY <2>6, <3>1, <3>2, <3>3 DEF IsNext
  <2>8. ASSUME ~ Blank(source[i]) PROVE more \in Seq(PdfSection) /\ IsNext(more, i - 1, i)
    <3>1. more = <<S>> /\ more \in Seq(PdfSection)
      BY <2>1, <2>5, <2>8, OnesAreSequences
    <3>2. HasText(all)
      <4>1. 1 \in DOMAIN all /\ ~ Blank(all[1].piece)
        BY <2>2, <2>4, <2>8
      <4>. QED  BY <4>1 DEF HasText
    <3>3. \A x \in i .. i : Cites(S, x)
      BY <2>0, <2>3 DEF Cites
    <3>4. /\ i + Len(all) - 1 = i /\ i <= Len(source) /\ i \in Nat \ {0} /\ Len(all) # 0
          /\ \A k \in 1 .. Len(all) : k = 1 /\ i + k - 1 = i
      BY <2>0, <2>4, <1>1
    <3>5. \A k \in 1 .. Len(all) : all[k].line = i + k - 1 /\ all[k].piece = PieceOf(i + k - 1)
      BY <2>2, <2>4, <3>4
    <3>6. IsStretch(S) /\ Top(S) = i /\ Bottom(S) = i
      BY <1>1, <2>3, <2>4, <3>2, <3>3, <3>4, <3>5, LinesMakeAStretch, ZenonT(30)
    <3>7. i - 1 < Top(S) /\ Bottom(S) <= i /\ \A x \in BodyLines : i - 1 < x /\ x <= i => Top(S) <= x /\ x <= Bottom(S)
      BY <2>0, <2>6, <3>6
    <3>. QED  BY <3>1, <3>6, <3>7 DEF IsNext
  <2>9. more \in Seq(PdfSection) /\ IsNext(more, i - 1, i)
    BY <2>7, <2>8
  <2>. QED  BY <2>9 DEF more
<1>4. PdfSections(source) = FlattenSeq(seqs)
  BY DEF PdfSections
<1>5. /\ Len(seqs) = n /\ (n = 0 => seqs = <<>>)
      /\ \A k \in 1 .. n : seqs[k] = PageSection(k, source[k])
  BY <1>1
<1>. HIDE DEF seqs
<1>6. /\ at \in [0 .. n -> Nat] /\ at[0] = 0 /\ at[n] = n
      /\ \A k \in 1 .. n : at[k - 1] = k - 1 /\ at[k] = k
  BY <1>1
<1>. HIDE DEF at
<1>7. \A k \in 1 .. n : seqs[k] \in Seq(PdfSection) /\ at[k - 1] <= at[k] /\ IsNext(seqs[k], at[k - 1], at[k])
  <2>. SUFFICES ASSUME NEW k \in 1 .. n
                PROVE  seqs[k] \in Seq(PdfSection) /\ at[k - 1] <= at[k] /\ IsNext(seqs[k], at[k - 1], at[k])
    OBVIOUS
  <2>1. k - 1 <= k
    BY <1>1
  <2>. QED  BY <1>3, <1>5, <1>6, <2>1
<1>8. none \in Seq(PdfSection) /\ Len(none) = 0
  BY EmptySeq
<1>. HIDE DEF none
<1>9. Reach(none, at[0])
  <2>1. \A i \in BodyLines : ~ i <= 0
    BY <1>1, BodyLinesAreNumbers
  <2>2. \A s \in 1 .. 0 : FALSE
    OBVIOUS
  <2>. QED  BY <1>6, <1>8, <2>1, <2>2 DEF Reach
<1>10. none \o FlattenSeq(seqs) \in Seq(PdfSection) /\ Reach(none \o FlattenSeq(seqs), at[n])
  BY <1>1, <1>5, <1>6, <1>7, <1>8, <1>9, FlattenReaches
<1>11. none \o FlattenSeq(seqs) = FlattenSeq(seqs)
  <2>1. FlattenSeq(seqs) \in Seq(PdfSection)
    BY <1>1, <1>5, <1>7, FlattenIsTyped
  <2>. QED  BY <2>1, ConcatEmptySeq DEF none
<1>. QED  BY <1>2, <1>4, <1>6, <1>10, <1>11
---------------------------------------------------------------------------
(* What becomes of the sections *)

\* a list holds the first m sections, those with text, in order
Takes(list, texts, m) ==
    /\ list \in Layouts
    /\ \A k \in 1 .. Len(list) :
        /\ list[k].section \in 1 .. m /\ Marks(texts[list[k].section]) # {}
        /\ list[k].text = Strip(texts[list[k].section])
    /\ \A j, k \in 1 .. Len(list) : j < k => list[j].section < list[k].section
    /\ \A s \in 1 .. m : Marks(texts[s]) # {} => \E k \in 1 .. Len(list) : list[k].section = s

LEMMA AddSectionTakes ==
    ASSUME NEW texts, NEW m \in Nat, NEW done, Takes(done, texts, m), texts[m + 1] \in Text
    PROVE  Takes(AddSection(done, m + 1, texts[m + 1]), texts, m + 1)
<1>. DEFINE n    == Len(done)
            text == texts[m + 1]
            more == AddSection(done, m + 1, text)
            new  == [section |-> m + 1, text |-> Strip(text),
                     start |-> Cursor(done), end |-> Cursor(done) + Len(Strip(text))]
<1>1. done \in Layouts /\ n \in Nat /\ done \in Seq(SectionRecord)
  BY LayoutsAreTyped DEF Takes
<1>2. /\ \A k \in 1 .. n : /\ done[k].section \in 1 .. m /\ Marks(texts[done[k].section]) # {}
                           /\ done[k].text = Strip(texts[done[k].section])
      /\ \A j, k \in 1 .. n : j < k => done[j].section < done[k].section
      /\ \A s \in 1 .. m : Marks(texts[s]) # {} => \E k \in 1 .. n : done[k].section = s
  BY DEF Takes
<1>3. more \in Layouts
  BY <1>1, AddSectionLaysOut
<1>4. /\ \A s \in 1 .. m : s \in 1 .. m + 1
      /\ \A s \in 1 .. m + 1 : s \in 1 .. m \/ s = m + 1
  OBVIOUS
<1>5. CASE Marks(text) = {}
  <2>1. more = done
    BY <1>5 DEF AddSection
  <2>. QED  BY <1>2, <1>3, <1>4, <1>5, <2>1 DEF Takes
<1>6. CASE Marks(text) # {}
  <2>1. more = Append(done, new)
    BY <1>6 DEF AddSection
  <2>2. new.section = m + 1 /\ new.text = Strip(text)
    OBVIOUS
  <2>3. new \in SectionRecord
    <3>1. Strip(text) \in Text /\ Len(Strip(text)) \in Nat
      BY <1>6, StripIsText
    <3>2. Cursor(done) \in Nat
      <4>1. n = 0 <=> done = <<>>
        BY <1>1, EmptySeq
      <4>2. n # 0 => done[n].end \in Nat
        <5>1. n # 0 => n \in 1 .. n
          BY <1>1
        <5>2. \A k \in 1 .. n : done[k].start \in Nat /\ Len(done[k].text) \in Nat /\ done[k].end = done[k].start + Len(done[k].text)
          BY <1>1, LayoutsAreTyped
        <5>. QED  BY <5>1, <5>2
      <4>3. Cursor(done) = IF n = 0 THEN 0 ELSE done[n].end + 2
        BY <1>1, <4>1 DEF Cursor, Last
      <4>. QED  BY <4>2, <4>3
    <3>. QED  BY <3>1, <3>2 DEF SectionRecord
  <2>. HIDE DEF new, more
  <2>4. /\ Len(more) = n + 1 /\ more[n + 1] = new
        /\ \A j \in 1 .. n : more[j] = done[j]
    BY <1>1, <2>1, <2>3, AppendProperties
  <2>. HIDE DEF n, text
  <2>5. \A k \in 1 .. n + 1 : k \in 1 .. n \/ k = n + 1
    BY <1>1
  <2>6. ASSUME NEW k \in 1 .. n + 1
        PROVE  /\ more[k].section \in 1 .. m + 1 /\ Marks(texts[more[k].section]) # {}
               /\ more[k].text = Strip(texts[more[k].section])
    <3>1. CASE k \in 1 .. n
      BY <1>2, <1>4, <2>4, <3>1
    <3>2. CASE k = n + 1
      <4>1. m + 1 \in 1 .. m + 1
        OBVIOUS
      <4>. QED  BY <1>6, <2>2, <2>4, <3>2, <4>1 DEF text
    <3>. QED  BY <2>5, <3>1, <3>2
  <2>7. ASSUME NEW j \in 1 .. n + 1, NEW k \in 1 .. n + 1, j < k
        PROVE  more[j].section < more[k].section
    <3>1. j \in 1 .. n
      BY <1>1, <2>7
    <3>2. CASE k \in 1 .. n
      BY <1>2, <2>4, <2>7, <3>1, <3>2
    <3>3. CASE k = n + 1
      <4>1. done[j].section \in 1 .. m
        BY <1>2, <3>1
      <4>2. more[j].section = done[j].section /\ more[k].section = m + 1
        BY <2>2, <2>4, <3>1, <3>3
      <4>. QED  BY <4>1, <4>2
    <3>. QED  BY <2>5, <3>2, <3>3
  <2>8. ASSUME NEW s \in 1 .. m + 1, Marks(texts[s]) # {}
        PROVE  \E k \in 1 .. n + 1 : more[k].section = s
    <3>1. CASE s \in 1 .. m
      <4>1. PICK k \in 1 .. n : done[k].section = s
        BY <1>2, <2>8, <3>1
      <4>2. k \in 1 .. n + 1 /\ more[k] = done[k]
        BY <1>1, <2>4
      <4>. QED  BY <4>1, <4>2
    <3>2. CASE s = m + 1
      <4>1. n + 1 \in 1 .. n + 1
        BY <1>1
      <4>. QED  BY <2>2, <2>4, <3>2, <4>1
    <3>. QED  BY <1>4, <3>1, <3>2
  <2>9. Len(more) = n + 1
    BY <2>4
  <2>10. Takes(more, texts, m + 1)
    BY <1>3, <2>6, <2>7, <2>8, <2>9 DEF Takes, more, text
  <2>. QED  BY <2>10 DEF more, text
<1>. QED  BY <1>5, <1>6

\* Normalization keeps the sections with text, and their order.
LEMMA NormalizedTakesAll ==
    ASSUME NEW texts \in Seq(Text)
    PROVE  Takes(NormalizeSections(texts), texts, Len(texts))
<1>. DEFINE n == Len(texts)
            step == [k \in 1 .. n |-> [done \in Layouts |-> AddSection(done, k, texts[k])]]
            none == <<>>
            loop == CHOOSE f : f = [k \in 0 .. n |-> IF k = 0 THEN <<>>
                                                     ELSE AddSection(f[k - 1], k, texts[k])]
<1>1. n \in Nat /\ \A k \in 1 .. n : texts[k] \in Text
  BY LenProperties, ElementOfSeq
<1>2. none \in Layouts /\ Len(none) = 0
  BY NoSectionsAreLaidOut
<1>3. step \in [1 .. n -> [Layouts -> Layouts]]
  <2>1. ASSUME NEW k \in 1 .. n, NEW done \in Layouts PROVE AddSection(done, k, texts[k]) \in Layouts
    BY <1>1, AddSectionLaysOut
  <2>. HIDE DEF n
  <2>. QED  BY <2>1
<1>4. ASSUME NEW k \in 1 .. n, NEW done \in Layouts PROVE step[k][done] = AddSection(done, k, texts[k])
  OBVIOUS
<1>. HIDE DEF n, step, none
<1>5. PICK f : IsLoop(f, Layouts, none, n, step)
  BY <1>1, <1>2, <1>3, LoopsHaveValues
<1>6. /\ f \in [0 .. n -> Layouts] /\ f[0] = none
      /\ \A k \in 1 .. n : f[k] = AddSection(f[k - 1], k, texts[k])
  <2>1. f \in [0 .. n -> Layouts] /\ f[0] = none /\ \A k \in 1 .. n : f[k] = step[k][f[k - 1]]
    BY <1>5 DEF IsLoop
  <2>2. \A k \in 1 .. n : f[k - 1] \in Layouts
    BY <1>1, <2>1
  <2>. QED  BY <1>4, <2>1, <2>2
<1>7. f = [k \in 0 .. n |-> IF k = 0 THEN <<>> ELSE AddSection(f[k - 1], k, texts[k])]
  BY <1>1, <1>6 DEF none
<1>8. loop = [k \in 0 .. n |-> IF k = 0 THEN <<>> ELSE AddSection(loop[k - 1], k, texts[k])]
  BY <1>7
<1>9. NormalizeSections(texts) = loop[n]
  BY DEF NormalizeSections, n
<1>. HIDE DEF loop
<1>. DEFINE R == {k \in Nat : k <= n => Takes(loop[k], texts, k)}
<1>10. 0 \in R
  <2>1. loop[0] = none
    BY <1>1, <1>8 DEF none
  <2>2. \A s \in 1 .. 0 : FALSE
    OBVIOUS
  <2>3. Takes(none, texts, 0)
    BY <1>2, <2>2 DEF Takes
  <2>. QED  BY <2>1, <2>3
<1>11. ASSUME NEW k \in Nat, k \in R PROVE k + 1 \in R
  <2>1. SUFFICES ASSUME k + 1 <= n PROVE Takes(loop[k + 1], texts, k + 1)
    OBVIOUS
  <2>2. k + 1 \in 1 .. n /\ (k + 1) - 1 = k /\ Takes(loop[k], texts, k)
    BY <1>1, <1>11, <2>1
  <2>3. loop[k + 1] = AddSection(loop[(k + 1) - 1], k + 1, texts[k + 1])
    <3>1. k + 1 \in 0 .. n /\ k + 1 # 0
      BY <2>2
    <3>. QED  BY <1>8, <3>1
  <2>. QED  BY <1>1, <2>2, <2>3, AddSectionTakes
<1>. HIDE DEF R
<1>12. n \in R
  BY <1>1, <1>10, <1>11, EveryNumberIsReached
<1>. QED  BY <1>1, <1>9, <1>12 DEF R, n
---------------------------------------------------------------------------
(* Lines in the text of a section *)

\* a text stands inside another, b characters in, and after a blank
Sits(part, whole, b) ==
    /\ b + Len(part) <= Len(whole)
    /\ \A j \in 1 .. Len(part) : whole[b + j] = part[j]
    /\ b # 0 => whole[b] = " "

Ended(piece) == piece \o <<" ">>

\* each line ends in the text where off says, and the characters name it
HasLines(section, off) ==
    LET n    == Len(section.lines)
        text == SectionText(section)
    IN  /\ off \in [0 .. n -> Nat] /\ off[0] = 0 /\ n \in Nat
        /\ text \in Text /\ Len(text) = off[n]
        /\ LineOrigins(section) \in Seq(Nat) /\ Len(LineOrigins(section)) = off[n]
        /\ \A q \in 1 .. n :
            /\ off[q] = off[q - 1] + Len(section.lines[q].piece) + 1
            /\ Ended(section.lines[q].piece) \in Text
            /\ Len(Ended(section.lines[q].piece)) = Len(section.lines[q].piece) + 1
            /\ Sits(Ended(section.lines[q].piece), text, off[q - 1])
            /\ \A x \in off[q - 1] + 1 .. off[q] : LineOrigins(section)[x] = section.lines[q].line
        /\ \A x \in 1 .. off[n] : \E q \in 1 .. n : off[q - 1] < x /\ x <= off[q]

LEMMA EndedIsText ==
    ASSUME NEW piece \in Text
    PROVE  /\ Ended(piece) \in Text /\ Len(piece) \in Nat /\ Len(Ended(piece)) = Len(piece) + 1
           /\ Ended(piece)[Len(piece) + 1] = " "
           /\ \A j \in 1 .. Len(piece) : Ended(piece)[j] = piece[j]
<1>. DEFINE break == <<" ">>
            l     == Len(piece)
<1>1. break \in Text /\ Len(break) = 1 /\ break[1] = " "
  BY BlanksAreSequences
<1>2. Ended(piece) = piece \o break
  BY DEF Ended
<1>. HIDE DEF break
<1>3. /\ piece \o break \in Text /\ l \in Nat /\ Len(piece \o break) = l + Len(break)
      /\ \A i \in 1 .. l : (piece \o break)[i] = piece[i]
      /\ \A i \in 1 .. Len(break) : (piece \o break)[l + i] = break[i]
  BY <1>1, ConcatIsText
<1>4. 1 \in 1 .. 1
  OBVIOUS
<1>. HIDE DEF l
<1>5. Ended(piece)[l + 1] = " "
  BY <1>1, <1>2, <1>3, <1>4, Zenon
<1>6. Len(Ended(piece)) = l + 1
  BY <1>1, <1>2, <1>3, Zenon
<1>7. Ended(piece) \in Text /\ \A i \in 1 .. l : Ended(piece)[i] = piece[i]
  BY <1>2, <1>3, Zenon
<1>. QED  BY <1>3, <1>5, <1>6, <1>7, Zenon DEF l

LEMMA SectionsHaveLines ==
    ASSUME NEW section, section.lines \in Seq(Line)
    PROVE  \E off : HasLines(section, off)
<1>. DEFINE n       == Len(section.lines)
            P(q)    == section.lines[q].piece
            text    == SectionText(section)
            origins == LineOrigins(section)
            Marked(q) == [c \in 1 .. Len(P(q)) + 1 |-> section.lines[q].line]
            pieces  == [k \in DOMAIN section.lines |-> P(k) \o <<" ">>]
            marked  == [k \in DOMAIN section.lines |-> Marked(k)]
<1>1. /\ n \in Nat /\ DOMAIN section.lines = 1 .. n
      /\ \A q \in 1 .. n : P(q) \in Text /\ section.lines[q].line \in Nat
  <2>1. n \in Nat /\ DOMAIN section.lines = 1 .. n /\ \A q \in 1 .. n : section.lines[q] \in Line
    BY LenProperties, ElementOfSeq
  <2>. QED  BY <2>1 DEF Line
<1>2. text = FlattenSeq(pieces) /\ origins = FlattenSeq(marked)
  BY DEF SectionText, LineOrigins
<1>3. pieces = [q \in 1 .. n |-> Ended(P(q))] /\ marked = [q \in 1 .. n |-> Marked(q)]
  BY <1>1, Zenon DEF Ended
<1>. HIDE DEF pieces, marked, text, origins
<1>4. /\ Len(pieces) = n /\ (n = 0 => pieces = <<>>) /\ \A q \in 1 .. n : pieces[q] = Ended(P(q))
      /\ Len(marked) = n /\ (n = 0 => marked = <<>>) /\ \A q \in 1 .. n : marked[q] = Marked(q)
  <2>1. \A f : \A k \in Nat : f = [q \in 1 .. k |-> f[q]] => Len(f) = k /\ (k = 0 => f = <<>>)
    OBVIOUS
  <2>. DEFINE f == [q \in 1 .. n |-> Ended(P(q))]
              g == [q \in 1 .. n |-> Marked(q)]
  <2>2. /\ f = [q \in 1 .. n |-> f[q]] /\ \A q \in 1 .. n : f[q] = Ended(P(q))
        /\ g = [q \in 1 .. n |-> g[q]] /\ \A q \in 1 .. n : g[q] = Marked(q)
    BY Zenon
  <2>. HIDE DEF f, g
  <2>3. pieces = f /\ marked = g
    BY <1>3 DEF f, g
  <2>4. n \in Nat
    BY <1>1
  <2>5. Len(f) = n /\ (n = 0 => f = <<>>) /\ Len(g) = n /\ (n = 0 => g = <<>>)
    BY <2>1, <2>2, <2>4, Zenon
  <2>. HIDE DEF Marked
  <2>. QED  BY <2>2, <2>3, <2>5, Zenon
<1>5. \A q \in 1 .. n : /\ Ended(P(q)) \in Text /\ Len(P(q)) \in Nat
                        /\ Len(Ended(P(q))) = Len(P(q)) + 1
  BY <1>1, EndedIsText
<1>18. \A q \in 1 .. n : Ended(P(q))[Len(P(q)) + 1] = " "
  BY <1>1, EndedIsText
<1>6. ASSUME NEW q \in 1 .. n
      PROVE  /\ Marked(q) \in Seq(Nat) /\ Len(Marked(q)) = Len(P(q)) + 1
             /\ \A c \in 1 .. Len(P(q)) + 1 : Marked(q)[c] = section.lines[q].line
  <2>. DEFINE m == Len(P(q)) + 1
              l == section.lines[q].line
  <2>1. m \in Nat /\ l \in Nat
    BY <1>1, <1>5
  <2>. HIDE DEF m, l
  <2>2. [c \in 1 .. m |-> l] \in Seq(Nat) /\ Len([c \in 1 .. m |-> l]) = m
        /\ \A c \in 1 .. m : [x \in 1 .. m |-> l][c] = l
    BY <2>1
  <2>. QED  BY <2>2 DEF m, l
<1>. HIDE DEF Marked
<1>7. \A q \in 1 .. n : pieces[q] \in Text /\ Len(pieces[q]) = Len(P(q)) + 1 /\ Len(pieces[q]) \in Nat
  <2>1. \A q \in 1 .. n : Len(P(q)) + 1 \in Nat
    BY <1>5
  <2>. QED  BY <1>4, <1>5, <2>1, Zenon
<1>8. PICK off : AreOffsets(off, n, pieces)
  BY <1>1, <1>7, OffsetsExist
<1>9. /\ off \in [0 .. n -> Nat] /\ off[0] = 0
      /\ \A q \in 1 .. n : off[q] = off[q - 1] + Len(P(q)) + 1 /\ off[q - 1] \in Nat /\ off[q] \in Nat
  <2>1. /\ off \in [0 .. n -> Nat] /\ off[0] = 0
        /\ \A q \in 1 .. n : off[q] = off[q - 1] + Len(pieces[q])
    BY <1>8 DEF AreOffsets
  <2>2. \A q \in 1 .. n : off[q - 1] \in Nat /\ off[q] \in Nat
    BY <1>1, <2>1, SMTT(20)
  <2>. QED  BY <1>5, <1>7, <2>1, <2>2, SMTT(20)
<1>10. AreOffsets(off, n, marked)
  <2>1. ASSUME NEW q \in 1 .. n PROVE Len(marked[q]) \in Nat /\ off[q] = off[q - 1] + Len(marked[q])
    <3>1. Len(marked[q]) = Len(pieces[q])
      BY <1>4, <1>6, <1>7
    <3>. QED  BY <1>8, <3>1, Zenon DEF AreOffsets
  <2>. QED  BY <1>9, <2>1 DEF AreOffsets
<1>11. text \in Text /\ IsSpread(text, off, n, pieces)
  <2>1. \A q \in 1 .. n : pieces[q] \in Seq(Characters)
    BY <1>7 DEF Text
  <2>2. FlattenSeq(pieces) \in Seq(Characters) /\ IsSpread(FlattenSeq(pieces), off, n, pieces)
    BY <1>1, <1>4, <1>8, <2>1, FlattenIsSpread
  <2>. QED  BY <1>2, <2>2, Zenon DEF Text
<1>12. origins \in Seq(Nat) /\ IsSpread(origins, off, n, marked)
  <2>1. \A q \in 1 .. n : marked[q] \in Seq(Nat)
    BY <1>4, <1>6
  <2>2. FlattenSeq(marked) \in Seq(Nat) /\ IsSpread(FlattenSeq(marked), off, n, marked)
    BY <1>1, <1>4, <1>10, <2>1, FlattenIsSpread
  <2>. QED  BY <1>2, <2>2, Zenon
<1>13. Len(text) = off[n] /\ Len(origins) = off[n]
  BY <1>11, <1>12 DEF IsSpread
<1>14. \A x \in 1 .. off[n] : \E q \in 1 .. n : off[q - 1] < x /\ x <= off[q]
  BY <1>11 DEF IsSpread
\* a line stands after the break of the one before
<1>15. ASSUME NEW q \in 1 .. n PROVE Sits(Ended(P(q)), text, off[q - 1])
  <2>1. /\ off[q] <= off[n] /\ off[q - 1] + Len(pieces[q]) = off[q]
        /\ \A i \in 1 .. Len(pieces[q]) : text[off[q - 1] + i] = pieces[q][i]
    BY <1>8, <1>11 DEF IsSpread, AreOffsets
  <2>2. off[q - 1] + Len(pieces[q]) <= Len(text)
    BY <1>13, <2>1
  <2>3. off[q - 1] # 0 => text[off[q - 1]] = " "
    <3>. SUFFICES ASSUME off[q - 1] # 0 PROVE text[off[q - 1]] = " "
      OBVIOUS
    <3>. DEFINE r == q - 1
                l == Len(P(r)) + 1
    <3>1. r \in 1 .. n
      BY <1>1, <1>9
    <3>. HIDE DEF r
    <3>2. Len(pieces[r]) = l /\ l \in 1 .. l /\ off[r] = off[r - 1] + l
      <4>1. Len(pieces[r]) = l /\ Len(P(r)) \in Nat
        BY <1>5, <1>7, <3>1
      <4>2. off[r] = off[r - 1] + Len(P(r)) + 1 /\ off[r - 1] \in Nat
        BY <1>9, <3>1
      <4>. DEFINE a == off[r - 1]
                  b == Len(P(r))
      <4>3. a \in Nat /\ b \in Nat /\ l = b + 1 /\ off[r] = a + b + 1
        BY <4>1, <4>2
      <4>. HIDE DEF a, b, l
      <4>4. off[r] = a + l /\ l \in 1 .. l
        BY <4>3
      <4>. QED  BY <4>1, <4>4 DEF a
    <3>3. pieces[r][l] = " "
      BY <1>4, <1>18, <3>1
    <3>4. text[off[r - 1] + l] = pieces[r][l]
      <4>1. \A i \in 1 .. Len(pieces[r]) : text[off[r - 1] + i] = pieces[r][i]
        BY <1>11, <3>1 DEF IsSpread
      <4>. QED  BY <3>2, <4>1
    <3>5. text[off[r]] = " "
      BY <3>2, <3>3, <3>4, Zenon
    <3>. QED  BY <3>5 DEF r
  <2>. QED  BY <1>4, <2>1, <2>2, <2>3, Zenon DEF Sits
<1>16. ASSUME NEW q \in 1 .. n, NEW x \in off[q - 1] + 1 .. off[q]
       PROVE  origins[x] = section.lines[q].line
  <2>1. x - off[q - 1] \in 1 .. Len(P(q)) + 1 /\ off[q - 1] + (x - off[q - 1]) = x
    <3>. DEFINE a == off[q - 1]
                b == off[q]
                l == Len(P(q))
    <3>1. a \in Nat /\ b \in Nat /\ l \in Nat /\ b = a + l + 1 /\ x \in a + 1 .. b
      BY <1>5, <1>9
    <3>. HIDE DEF a, b, l
    <3>2. x - a \in 1 .. l + 1 /\ a + (x - a) = x
      BY <3>1
    <3>. QED  BY <3>2 DEF a, l
  <2>2. \A i \in 1 .. Len(marked[q]) : origins[off[q - 1] + i] = marked[q][i]
    BY <1>12 DEF IsSpread
  <2>3. Len(marked[q]) = Len(P(q)) + 1 /\ \A i \in 1 .. Len(P(q)) + 1 : marked[q][i] = section.lines[q].line
    BY <1>4, <1>6
  <2>4. origins[off[q - 1] + (x - off[q - 1])] = section.lines[q].line
    BY <2>1, <2>2, <2>3
  <2>. QED  BY <2>1, <2>4, Zenon
<1>17. HasLines(section, off)
  BY <1>1, <1>5, <1>9, <1>11, <1>12, <1>13, <1>14, <1>15, <1>16, Zenon DEF HasLines, text, origins
<1>. QED  BY <1>17
---------------------------------------------------------------------------
(* Where the tokens of the text stand *)

\* what stands after a blank has its tokens there
LEMMA StartsShift ==
    ASSUME NEW part \in Text, NEW whole \in Text, NEW b \in Nat, Sits(part, whole, b),
           NEW j \in 0 .. Len(part) - 1
    PROVE  j \in TokenStarts(part) <=> b + j \in TokenStarts(whole)
<1>. DEFINE l == Len(part)
            m == Len(whole)
<1>1. /\ l \in Nat /\ m \in Nat /\ b + l <= m
      /\ \A i \in 1 .. l : whole[b + i] = part[i]
  BY LenProperties DEF Text, Sits
<1>2. b # 0 => whole[b] # "a"
  BY DEF Sits
<1>3. j \in 0 .. l - 1
  OBVIOUS
<1>. HIDE DEF l, m
<1>4. /\ j \in Nat /\ j + 1 \in 1 .. l /\ b + (j + 1) = (b + j) + 1 /\ b + j \in 0 .. m - 1
      /\ j # 0 => j \in 1 .. l /\ b + j # 0
  BY <1>1, <1>3
<1>5. whole[(b + j) + 1] = part[j + 1]
  <2>1. whole[b + (j + 1)] = part[j + 1]
    BY <1>1, <1>4
  <2>. QED  BY <1>4, <2>1
<1>6. (j = 0 \/ part[j] # "a") <=> (b + j = 0 \/ whole[b + j] # "a")
  <2>1. CASE j = 0
    <3>1. b + j = b
      BY <2>1
    <3>. QED  BY <1>2, <2>1, <3>1
  <2>2. CASE j # 0
    <3>1. whole[b + j] = part[j] /\ b + j # 0
      BY <1>1, <1>4, <2>2
    <3>. QED  BY <2>2, <3>1
  <2>. QED  BY <2>1, <2>2
<1>7. j \in TokenStarts(part) <=> part[j + 1] = "." \/ (part[j + 1] = "a" /\ (j = 0 \/ part[j] # "a"))
  BY <1>3 DEF TokenStarts, l
<1>8. b + j \in TokenStarts(whole) <=>
        whole[(b + j) + 1] = "." \/ (whole[(b + j) + 1] = "a" /\ (b + j = 0 \/ whole[b + j] # "a"))
  BY <1>4 DEF TokenStarts, m
<1>. QED  BY <1>5, <1>6, <1>7, <1>8

LEMMA TokensAreMarks ==
    ASSUME NEW text \in Text, NEW i \in TokenStarts(text)
    PROVE  i \in 0 .. Len(text) - 1 /\ i + 1 \in Marks(text)
<1>1. /\ Len(text) \in Nat /\ i \in 0 .. Len(text) - 1 /\ i + 1 \in 1 .. Len(text)
      /\ text[i + 1] = "." \/ text[i + 1] = "a"
  BY TokensStart
<1>2. DOMAIN text = 1 .. Len(text)
  BY LenProperties DEF Text
<1>3. text[i + 1] # " "
  BY <1>1
<1>. QED  BY <1>1, <1>2, <1>3, Zenon DEF Marks

\* a stripped text stands in its text, and has all its tokens
LEMMA StripSits ==
    ASSUME NEW text \in Text, Marks(text) # {}
    PROVE  LET min == Min(Marks(text))
               max == Max(Marks(text))
           IN  /\ min \in 1 .. Len(text) /\ max \in min .. Len(text) /\ Len(text) \in Nat
               /\ Strip(text) \in Text /\ Len(Strip(text)) = max - min + 1
               /\ Sits(Strip(text), text, min - 1)
               /\ \A i \in TokenStarts(text) : min - 1 <= i /\ i < max
<1>. DEFINE min == Min(Marks(text))
            max == Max(Marks(text))
            part == Strip(text)
            n    == Len(text)
            M    == Marks(text)
<1>1. /\ n \in Nat /\ M \in SUBSET (1 .. n) /\ min \in M /\ max \in M
      /\ \A k \in M : min <= k /\ k <= max
  BY MarksAreInside
<1>2. part \in Text /\ part = SubSeq(text, min, max)
  BY StripIsText DEF Strip
<1>. HIDE DEF part
<1>3. \A i \in TokenStarts(text) : i \in 0 .. n - 1 /\ i + 1 \in M
  BY TokensAreMarks
<1>4. \A i \in 1 .. n : i \notin M => text[i] = " "
  <2>1. DOMAIN text = 1 .. n
    BY LenProperties DEF Text
  <2>. QED  BY <2>1, Zenon DEF Marks
<1>8. \A i \in 1 .. n : text[i] \in Characters
  <2>1. text \in Seq(Characters)
    BY DEF Text
  <2>. QED  BY <2>1, ElementOfSeq
<1>. HIDE DEF min, max, n, M
<1>5. min \in 1 .. n /\ max \in min .. n
  BY <1>1
<1>6. Len(part) = max - min + 1 /\ \A i \in 1 .. max - min + 1 : part[i] = text[min + i - 1]
  <2>1. min \in Int /\ max \in Int /\ \A i \in min .. max : text[i] \in Characters
    BY <1>1, <1>5, <1>8
  <2>2. /\ Len(SubSeq(text, min, max)) = IF min <= max THEN max - min + 1 ELSE 0
        /\ \A i \in 1 .. max - min + 1 : SubSeq(text, min, max)[i] = text[min + i - 1]
    BY <2>1, SubSeqProperties
  <2>. QED  BY <1>2, <1>5, <2>2
<1>7. Sits(part, text, min - 1)
  <2>1. min - 1 + Len(part) <= n
    BY <1>1, <1>5, <1>6
  <2>2. ASSUME NEW i \in 1 .. Len(part) PROVE text[min - 1 + i] = part[i]
    <3>1. min - 1 + i = min + i - 1
      BY <1>1, <1>5, <1>6
    <3>. QED  BY <1>6, <3>1
  <2>3. ASSUME min - 1 # 0 PROVE text[min - 1] = " "
    <3>1. min - 1 \in 1 .. n /\ ~ min <= min - 1
      BY <1>1, <1>5, <2>3
    <3>. QED  BY <1>1, <1>4, <3>1
  <2>. QED  BY <2>1, <2>2, <2>3, Zenon DEF Sits, n
<1>9. \A i \in TokenStarts(text) : min - 1 <= i /\ i < max
  BY <1>1, <1>3, <1>5
<1>. QED  BY <1>1, <1>2, <1>5, <1>6, <1>7, <1>9 DEF part, min, max, n

\* a line break is no token
LEMMA BreaksAreNoTokens ==
    ASSUME NEW piece \in Text
    PROVE  TokenStarts(Ended(piece)) = TokenStarts(piece)
<1>. DEFINE l == Len(piece)
            whole == Ended(piece)
<1>1. /\ whole \in Text /\ l \in Nat /\ Len(whole) = l + 1
      /\ \A j \in 1 .. l : whole[j] = piece[j]
  BY EndedIsText
<1>2. whole[l + 1] = " "
  BY EndedIsText
<1>. HIDE DEF whole
<1>3. \A i \in TokenStarts(whole) : i \in 0 .. l - 1
  <2>. SUFFICES ASSUME NEW i \in TokenStarts(whole) PROVE i \in 0 .. l - 1
    OBVIOUS
  <2>1. i \in 0 .. Len(whole) - 1 /\ i + 1 \in Marks(whole)
    BY <1>1, TokensAreMarks
  <2>2. l + 1 \notin Marks(whole)
    BY <1>2, Zenon DEF Marks
  <2>. QED  BY <1>1, <2>1, <2>2
<1>4. \A i \in TokenStarts(piece) : i \in 0 .. l - 1
  BY TokensAreMarks
<1>5. Sits(piece, whole, 0)
  <2>1. 0 + Len(piece) <= Len(whole)
    BY <1>1
  <2>2. \A j \in 1 .. Len(piece) : 0 + j = j
    BY <1>1
  <2>3. \A j \in 1 .. Len(piece) : whole[0 + j] = piece[j]
    BY <1>1, <2>2
  <2>. QED  BY <2>1, <2>3, Zenon DEF Sits
<1>6. \A j \in 0 .. l - 1 : j \in TokenStarts(piece) <=> 0 + j \in TokenStarts(whole)
  BY <1>1, <1>5, StartsShift
<1>7. \A j \in 0 .. l - 1 : 0 + j = j
  BY <1>1
<1>. QED  BY <1>3, <1>4, <1>6, <1>7 DEF whole
---------------------------------------------------------------------------
(* Where the characters of the text come from *)

SectionTexts == [s \in DOMAIN sections |-> SectionText(sections[s])]

\* sections that cover the source, and the normalized ones made of them
InPlace ==
    /\ Len(source) \in Nat /\ DOMAIN source = 1 .. Len(source)
    /\ Len(sections) \in Nat /\ DOMAIN sections = 1 .. Len(sections)
    /\ Reach(sections, Len(source))
    /\ Takes(normalized, SectionTexts, Len(sections))

SectionAtPlace(k) == sections[normalized[k].section]

LEMMA SectionsAreInPlace ==
    ASSUME InPlace, NEW k \in 1 .. Len(normalized)
    PROVE  LET section == SectionAtPlace(k)
               text    == SectionText(section)
           IN  /\ normalized[k].section \in 1 .. Len(sections) /\ IsStretch(section)
               /\ section.lines \in Seq(Line)
               /\ text \in Text /\ Marks(text) # {} /\ normalized[k].text = Strip(text)
<1>. DEFINE s == normalized[k].section
<1>1. /\ s \in 1 .. Len(sections) /\ Marks(SectionTexts[s]) # {}
      /\ normalized[k].text = Strip(SectionTexts[s])
  BY DEF InPlace, Takes
<1>2. SectionTexts[s] = SectionText(sections[s])
  BY <1>1 DEF SectionTexts, InPlace
<1>3. IsStretch(sections[s]) /\ sections[s].lines \in Seq(Line)
  BY <1>1 DEF InPlace, Reach, IsStretch
<1>4. SectionText(sections[s]) \in Text
  BY <1>3, SectionTextIsText
<1>. QED  BY <1>1, <1>2, <1>3, <1>4 DEF SectionAtPlace

\* Each character of a section has its line.
LEMMA OriginsAreInPlace ==
    ASSUME InPlace, NEW k \in 1 .. Len(normalized)
    PROVE  LET section == SectionAtPlace(k)
               base    == Min(Marks(SectionText(section))) - 1
           IN  \A c \in 1 .. Len(normalized[k].text) :
                   Origins[normalized[k].start + c] = LineOrigins(section)[base + c]
<1>. DEFINE T     == Nat \union {" "}
            list  == normalized
            n     == Len(list)
            Own(j) == OriginsOf(SectionAtPlace(j))
            parts == [j \in 1 .. n |-> Own(j)]
            min(j) == Min(Marks(SectionText(SectionAtPlace(j))))
            max(j) == Max(Marks(SectionText(SectionAtPlace(j))))
            from(j) == LineOrigins(SectionAtPlace(j))
<1>1. list \in Layouts /\ n \in Nat /\ DOMAIN list = 1 .. n
  BY LayoutsAreTyped DEF InPlace, Takes
<1>2. Origins = Join(parts)
  BY <1>1 DEF Origins, SectionAtPlace
<1>3. ASSUME NEW j \in 1 .. n
      PROVE  /\ Own(j) \in Seq(T) /\ Len(Own(j)) = Len(list[j].text)
             /\ \A c \in 1 .. Len(list[j].text) : Own(j)[c] = from(j)[min(j) - 1 + c]
  <2>. DEFINE section == SectionAtPlace(j)
              text    == SectionText(section)
              a       == min(j)
              b       == max(j)
              f       == from(j)
  <2>1. section.lines \in Seq(Line) /\ text \in Text /\ Marks(text) # {} /\ list[j].text = Strip(text)
    BY SectionsAreInPlace
  <2>2. /\ a \in 1 .. Len(text) /\ b \in a .. Len(text) /\ Len(text) \in Nat
        /\ Len(list[j].text) = b - a + 1
    BY <2>1, StripSits
  <2>3. f \in Seq(Nat) /\ Len(f) = Len(text)
    <3>1. PICK off : HasLines(section, off)
      BY <2>1, SectionsHaveLines
    <3>. QED  BY <3>1, Zenon DEF HasLines
  <2>4. Own(j) = SubSeq(f, a, b)
    BY DEF OriginsOf
  <2>. HIDE DEF a, b, f, text, Own
  <2>5. a \in Int /\ b \in Int /\ a <= b /\ \A i \in a .. b : i \in 1 .. Len(f)
    BY <2>2, <2>3
  <2>6. \A i \in a .. b : f[i] \in T
    <3>1. \A i \in 1 .. Len(f) : f[i] \in Nat
      BY <2>3, ElementOfSeq
    <3>2. \A x \in Nat : x \in T
      BY Zenon
    <3>. QED  BY <2>5, <3>1, <3>2, Zenon
  <2>. HIDE DEF T
  <2>7. /\ SubSeq(f, a, b) \in Seq(T) /\ Len(SubSeq(f, a, b)) = b - a + 1
        /\ \A c \in 1 .. b - a + 1 : SubSeq(f, a, b)[c] = f[a + c - 1]
    BY <2>5, <2>6, SubSeqProperties
  <2>8. \A c \in 1 .. b - a + 1 : a + c - 1 = a - 1 + c
    BY <2>5
  <2>9. \A c \in 1 .. Len(list[j].text) : Own(j)[c] = f[a - 1 + c]
    BY <2>2, <2>4, <2>7, <2>8
  <2>10. Own(j) \in Seq(T) /\ Len(Own(j)) = Len(list[j].text)
    BY <2>2, <2>4, <2>7
  <2>. QED  BY <2>9, <2>10 DEF a, f
<1>. HIDE DEF Own
<1>4. DOMAIN parts = 1 .. n /\ \A j \in 1 .. n : parts[j] = Own(j)
  OBVIOUS
<1>5. Separator \in Seq(T)
  <2>1. " " \in T
    BY Zenon
  <2>. QED  BY <2>1, SeparatorIsAmong, Zenon
<1>. HIDE DEF T, parts, n
<1>6. Fits(parts, list, T)
  BY <1>3, <1>4, <1>5 DEF Fits, n
<1>7. Holds(Join(parts), list, parts, T, Len(list))
  BY <1>1, <1>6, JoinHoldsAll
<1>8. \A c \in 1 .. Len(list[k].text) : Join(parts)[list[k].start + c] = parts[k][c]
  BY <1>7, Zenon DEF Holds
<1>. QED  BY <1>2, <1>3, <1>4, <1>8, Zenon DEF n

\* A character of the text at an offset of a section comes from its line q.
IsFrom(k, off, q, p) ==
    LET section == SectionAtPlace(k)
        base    == Min(Marks(SectionText(section))) - 1
        x       == p - normalized[k].start + base
    IN  /\ q \in 1 .. Len(section.lines) /\ x \in Nat
        /\ off[q - 1] <= x /\ x < off[q]
        /\ Origins[p + 1] = section.lines[q].line

LEMMA CharactersComeFromLines ==
    ASSUME InPlace, NEW k \in 1 .. Len(normalized), NEW off, HasLines(SectionAtPlace(k), off),
           NEW p \in Nat, normalized[k].start <= p, p < normalized[k].end
    PROVE  \E q : IsFrom(k, off, q, p)
<1>. DEFINE section == SectionAtPlace(k)
            text    == SectionText(section)
            min     == Min(Marks(text))
            max     == Max(Marks(text))
            start   == normalized[k].start
            x       == p - start + (min - 1)
            l       == Len(section.lines)
            from    == LineOrigins(section)
<1>1. text \in Text /\ Marks(text) # {} /\ normalized[k].text = Strip(text)
  BY SectionsAreInPlace
<1>2. /\ min \in 1 .. Len(text) /\ max \in min .. Len(text) /\ Len(text) \in Nat
      /\ Len(normalized[k].text) = max - min + 1
  BY <1>1, StripSits
<1>3. start \in Nat /\ normalized[k].end = start + Len(normalized[k].text)
  BY LayoutsAreTyped DEF InPlace, Takes
<1>4. /\ Len(text) = off[l] /\ off \in [0 .. l -> Nat] /\ l \in Nat
      /\ \A y \in 1 .. off[l] : \E q \in 1 .. l : off[q - 1] < y /\ y <= off[q]
      /\ \A q \in 1 .. l : \A y \in off[q - 1] + 1 .. off[q] : from[y] = section.lines[q].line
  BY DEF HasLines
<1>5. \A c \in 1 .. Len(normalized[k].text) : Origins[start + c] = from[min - 1 + c]
  BY OriginsAreInPlace
<1>. HIDE DEF min, max, start, text, l, from
<1>6. /\ x \in Nat /\ x + 1 \in 1 .. Len(text)
      /\ p - start + 1 \in 1 .. Len(normalized[k].text)
      /\ start + (p - start + 1) = p + 1 /\ min - 1 + (p - start + 1) = x + 1
  <2>1. start <= p /\ p < start + (max - min + 1)
    BY <1>2, <1>3 DEF start
  <2>. QED  BY <1>2, <1>3, <2>1
<1>. HIDE DEF x
<1>7. PICK q \in 1 .. l : off[q - 1] < x + 1 /\ x + 1 <= off[q]
  BY <1>4, <1>6
<1>8. off[q - 1] \in Nat /\ off[q] \in Nat
  <2>1. q - 1 \in 0 .. l /\ q \in 0 .. l
    BY <1>4
  <2>. QED  BY <1>4, <2>1
<1>9. off[q - 1] <= x /\ x < off[q] /\ x + 1 \in off[q - 1] + 1 .. off[q]
  BY <1>6, <1>7, <1>8, SMTT(20)
<1>10. Origins[p + 1] = from[x + 1]
  <2>1. Origins[start + (p - start + 1)] = from[min - 1 + (p - start + 1)]
    BY <1>5, <1>6
  <2>. QED  BY <1>6, <2>1
<1>11. Origins[p + 1] = section.lines[q].line
  BY <1>4, <1>9, <1>10
<1>12. IsFrom(k, off, q, p)
  BY <1>6, <1>9, <1>11 DEF IsFrom, x, min, start, text, l
<1>. QED  BY <1>12

\* Every character of a section comes from a place that the section cites.
LEMMA PlacesAreCited ==
    ASSUME InPlace, NEW k \in 1 .. Len(normalized),
           NEW p \in Nat, normalized[k].start <= p, p < normalized[k].end
    PROVE  Cites(SectionAtPlace(k), Origins[p + 1])
<1>. DEFINE section == SectionAtPlace(k)
<1>1. IsStretch(section) /\ section.lines \in Seq(Line)
  BY SectionsAreInPlace
<1>2. PICK off : HasLines(section, off)
  BY <1>1, SectionsHaveLines
<1>3. PICK q : IsFrom(k, off, q, p)
  BY <1>2, CharactersComeFromLines
<1>4. q \in 1 .. Len(section.lines) /\ Origins[p + 1] = section.lines[q].line
  BY <1>3 DEF IsFrom
<1>. HIDE DEF section
<1>5. section.lines[q].line = Top(section) + q - 1
  BY <1>1, <1>4 DEF IsStretch
<1>6. /\ Top(section) \in Nat \ {0} /\ Len(section.lines) \in Nat
      /\ Bottom(section) = Top(section) + Len(section.lines) - 1
  BY <1>1, StretchesAreNumbers DEF InPlace, Bottom
<1>7. Top(section) + q - 1 \in Top(section) .. Bottom(section)
  BY <1>4, <1>6, SMTT(20)
<1>8. Cites(section, Top(section) + q - 1)
  BY <1>1, <1>7 DEF IsStretch
<1>. QED  BY <1>4, <1>5, <1>8 DEF section
---------------------------------------------------------------------------
(* From the file to its chunks *)

IsSource ==
    \/ media = "markdown" /\ source \in MarkdownFiles /\ IsMarkdown(source)
    \/ media = "pdf" /\ source \in Seq({Broken} \union Text)

SectionsAreSource ==
    outcome \in {"sections", "normalized", "chunks"} =>
        /\ media = "markdown" => sections = MarkdownSections(source) /\ HasText(Lines(source))
        /\ media = "pdf" => sections = PdfSections(source) /\ Broken \notin ToSet(source)

NormalizedAreSections ==
    outcome \in {"normalized", "chunks"} => normalized = NormalizeSections(SectionTexts)

ChunksAreLast ==
    /\ chunks # <<>> => outcome = "chunks"
    /\ outcome \in {"none", "sections", "normalized"} => chunks = <<>>

\* what is known of a file on its way is what the steps before made of it
PlacesInv == IsSource /\ SectionsAreSource /\ NormalizedAreSections /\ ChunksAreLast

LEMMA PlacesStart == Init => PlacesInv
<1>. SUFFICES ASSUME Init PROVE PlacesInv
  OBVIOUS
<1>1. IsSource
  <2>1. CASE media = "markdown" /\ source \in MarkdownFiles
    BY <2>1, ExtractionAssumption DEF IsSource, IsMarkdown, SourceLine
  <2>2. CASE media = "pdf" /\ source \in PdfFiles
    BY <2>2, ExtractionAssumption DEF IsSource
  <2>. QED  BY <2>1, <2>2 DEF Init, ExtractionInit
<1>2. outcome = "none" /\ chunks = <<>>
  BY DEF Init, ExtractionInit, ChunkingInit
<1>. QED  BY <1>1, <1>2 DEF PlacesInv, SectionsAreSource, NormalizedAreSections, ChunksAreLast

\* what extraction may do with a PDF
LEMMA PdfIsExtracted ==
    ASSUME ExtractPdf, media = "pdf", source \in Seq({Broken} \union Text)
    PROVE  \/ outcome' = "pdf_page_limit_exceeded" /\ Len(source) > MaxPdfPages
           \/ outcome' = "invalid_pdf" /\ Broken \in ToSet(source)
           \/ outcome' = "no_extractable_text" /\ PdfSections(source) = <<>> /\ Broken \notin ToSet(source)
           \/ outcome' = "sections" /\ sections' = PdfSections(source) /\ Broken \notin ToSet(source)
<1>1. Len(source) \in Nat /\ MaxPdfPages \in Nat
  BY LenProperties, ExtractionAssumption
<1>2. CASE Len(source) > MaxPdfPages
  BY <1>1, <1>2 DEF ExtractPdf, Refuse
<1>3. CASE Len(source) <= MaxPdfPages /\ Broken \in ToSet(source)
  BY <1>1, <1>3 DEF ExtractPdf, Refuse
<1>4. CASE Len(source) <= MaxPdfPages /\ Broken \notin ToSet(source)
  BY <1>1, <1>4 DEF ExtractPdf, Refuse, Extracted
<1>. QED  BY <1>1, <1>2, <1>3, <1>4

LEMMA PlacesGoOn == PlacesInv /\ [Next]_vars => PlacesInv'
<1>. SUFFICES ASSUME PlacesInv, [Next]_vars PROVE PlacesInv'
  OBVIOUS
<1>1. CASE Extract
  <2>1. /\ media' = media /\ source' = source /\ normalized' = normalized /\ chunks' = chunks
        /\ outcome = "none" /\ chunks = <<>>
    BY <1>1 DEF Extract, ExtractMarkdown, ExtractPdf, Refuse, Extracted, chunkingVars, PlacesInv, ChunksAreLast
  <2>2. IsSource'
    BY <2>1 DEF PlacesInv, IsSource, IsMarkdown
  <2>3. outcome' \in {"sections", "no_extractable_text", "pdf_page_limit_exceeded", "invalid_pdf"}
    BY <1>1 DEF Extract, ExtractMarkdown, ExtractPdf, Refuse, Extracted
  <2>4. CASE media = "markdown"
    <3>1. outcome' = "sections" => sections' = MarkdownSections(source) /\ HasText(Lines(source))
      BY <1>1, <2>4 DEF Extract, ExtractMarkdown, ExtractPdf, Refuse, Extracted
    <3>2. SectionsAreSource' /\ NormalizedAreSections' /\ ChunksAreLast'
      BY <2>1, <2>3, <2>4, <3>1 DEF SectionsAreSource, NormalizedAreSections, ChunksAreLast
    <3>. QED  BY <2>2, <3>2 DEF PlacesInv
  <2>5. CASE media = "pdf"
    <3>1. ExtractPdf /\ source \in Seq({Broken} \union Text)
      BY <1>1, <2>5 DEF Extract, ExtractMarkdown, PlacesInv, IsSource
    <3>2. outcome' = "sections" => sections' = PdfSections(source) /\ Broken \notin ToSet(source)
      BY <2>5, <3>1, PdfIsExtracted
    <3>3. SectionsAreSource' /\ NormalizedAreSections' /\ ChunksAreLast'
      BY <2>1, <2>3, <2>5, <3>2 DEF SectionsAreSource, NormalizedAreSections, ChunksAreLast
    <3>. QED  BY <2>2, <3>3 DEF PlacesInv
  <2>. QED  BY <2>4, <2>5 DEF PlacesInv, IsSource
<1>2. CASE NormalizeExtracted
  <2>1. /\ media' = media /\ source' = source /\ sections' = sections /\ chunks' = chunks
        /\ outcome = "sections" /\ chunks = <<>>
        /\ outcome' = "normalized" \/ outcome' = "no_extractable_text"
        /\ normalized' = NormalizeSections(SectionTexts)
    BY <1>2 DEF NormalizeExtracted, Normalize, SectionTexts, PlacesInv, ChunksAreLast
  <2>2. IsSource'
    BY <2>1 DEF PlacesInv, IsSource, IsMarkdown
  <2>3. SectionTexts' = SectionTexts
    BY <2>1 DEF SectionTexts
  <2>4. SectionsAreSource' /\ NormalizedAreSections' /\ ChunksAreLast'
    BY <2>1, <2>3 DEF PlacesInv, SectionsAreSource, NormalizedAreSections, ChunksAreLast
  <2>. QED  BY <2>2, <2>4 DEF PlacesInv
<1>3. CASE ChunkNormalized
  <2>1. /\ media' = media /\ source' = source /\ sections' = sections /\ normalized' = normalized
        /\ outcome = "normalized"
        /\ outcome' = IF chunks' = <<>> THEN "no_extractable_text" ELSE "chunks"
    BY <1>3 DEF ChunkNormalized, Chunk
  <2>2. IsSource'
    BY <2>1 DEF PlacesInv, IsSource, IsMarkdown
  <2>3. SectionTexts' = SectionTexts
    BY <2>1 DEF SectionTexts
  <2>4. SectionsAreSource' /\ NormalizedAreSections' /\ ChunksAreLast'
    BY <2>1, <2>3 DEF PlacesInv, SectionsAreSource, NormalizedAreSections, ChunksAreLast
  <2>. QED  BY <2>2, <2>4 DEF PlacesInv
<1>4. CASE UNCHANGED vars
  <2>1. /\ media' = media /\ source' = source /\ sections' = sections /\ normalized' = normalized
        /\ outcome' = outcome /\ chunks' = chunks
    BY <1>4 DEF vars, extractionVars, chunkingVars, settings
  <2>2. IsSource'
    BY <2>1 DEF PlacesInv, IsSource, IsMarkdown
  <2>3. SectionTexts' = SectionTexts
    BY <2>1 DEF SectionTexts
  <2>4. SectionsAreSource' /\ NormalizedAreSections' /\ ChunksAreLast'
    BY <2>1, <2>3 DEF PlacesInv, SectionsAreSource, NormalizedAreSections, ChunksAreLast
  <2>. QED  BY <2>2, <2>4 DEF PlacesInv
<1>. QED  BY <1>1, <1>2, <1>3, <1>4 DEF Next

LEMMA TextsAreTyped ==
    ASSUME NEW paths, sections \in Seq(SectionOf(paths))
    PROVE  /\ Len(sections) \in Nat /\ DOMAIN sections = 1 .. Len(sections)
           /\ SectionTexts \in Seq(Text) /\ Len(SectionTexts) = Len(sections)
           /\ \A s \in 1 .. Len(sections) : /\ sections[s].lines \in Seq(Line)
                                            /\ SectionTexts[s] = SectionText(sections[s])
<1>. DEFINE n == Len(sections)
            T == SectionOf(paths)
<1>1. \A x \in T : x.lines \in Seq(Line)
  BY DEF SectionOf
<1>. HIDE DEF T
<1>2. n \in Nat /\ DOMAIN sections = 1 .. n /\ \A s \in 1 .. n : sections[s] \in T
  <2>1. sections \in Seq(T)
    BY DEF T
  <2>. QED  BY <2>1, LenProperties, ElementOfSeq
<1>3. ASSUME NEW s \in 1 .. n PROVE SectionText(sections[s]) \in Text
  BY <1>1, <1>2, SectionTextIsText
<1>4. SectionTexts = [s \in 1 .. n |-> SectionText(sections[s])]
  BY <1>2 DEF SectionTexts
<1>. HIDE DEF n
<1>5. SectionTexts \in [1 .. n -> Text] /\ \A s \in 1 .. n : SectionTexts[s] = SectionText(sections[s])
  BY <1>3, <1>4
<1>6. SectionTexts \in Seq(Text) /\ Len(SectionTexts) = n
  <2>1. SectionTexts \in Seq(Text)
    BY <1>2, <1>5, SeqDef DEF n
  <2>2. \A f : \A k \in Nat : f = [q \in 1 .. k |-> f[q]] => Len(f) = k
    OBVIOUS
  <2>3. n \in Nat
    BY <1>2 DEF n
  <2>4. SectionTexts = [q \in 1 .. n |-> SectionTexts[q]]
    BY <1>5
  <2>5. Len(SectionTexts) = n
    BY <2>2, <2>3, <2>4, Zenon
  <2>. QED  BY <2>1, <2>5
<1>. QED  BY <1>1, <1>2, <1>5, <1>6 DEF n

LEMMA ChunkedIsInPlace ==
    ASSUME UnbrokenLines, PlacesInv, outcome \in {"normalized", "chunks"}
    PROVE  InPlace
<1>1. Len(source) \in Nat /\ DOMAIN source = 1 .. Len(source)
  BY LenProperties DEF PlacesInv, IsSource, IsMarkdown
<1>2. normalized = NormalizeSections(SectionTexts)
  BY DEF PlacesInv, NormalizedAreSections
<1>3. Reach(sections, Len(source)) /\ \E paths : sections \in Seq(SectionOf(paths))
  <2>1. CASE media = "markdown"
    <3>1. /\ IsMarkdown(source) /\ Unbroken(source) /\ media # "pdf"
          /\ sections = MarkdownSections(source) /\ HasText(Lines(source))
      BY <2>1 DEF PlacesInv, IsSource, SectionsAreSource, UnbrokenLines
    <3>. QED  BY <3>1, MarkdownReaches DEF MarkdownSection
  <2>2. CASE media = "pdf"
    <3>1. /\ source \in Seq({Broken} \union Text) /\ Broken \notin ToSet(source)
          /\ sections = PdfSections(source)
      BY <2>2 DEF PlacesInv, IsSource, SectionsAreSource
    <3>. QED  BY <2>2, <3>1, PdfReaches DEF PdfSection
  <2>. QED  BY <2>1, <2>2 DEF PlacesInv, IsSource
<1>4. PICK paths : sections \in Seq(SectionOf(paths))
  BY <1>3
<1>5. /\ Len(sections) \in Nat /\ DOMAIN sections = 1 .. Len(sections)
      /\ SectionTexts \in Seq(Text) /\ Len(SectionTexts) = Len(sections)
  BY <1>4, TextsAreTyped
<1>6. Takes(normalized, SectionTexts, Len(sections))
  BY <1>2, <1>5, NormalizedTakesAll
<1>. QED  BY <1>1, <1>3, <1>5, <1>6 DEF InPlace

\* where a chunk is, and that its section is one
LEMMA ChunksHaveSections ==
    ASSUME UnbrokenLines, PipelineInv, PlacesInv, NEW i \in DOMAIN chunks
    PROVE  /\ InPlace /\ chunks[i].section \in 1 .. Len(normalized)
           /\ chunks[i].start \in Nat /\ chunks[i].end \in Nat
<1>1. chunks # <<>>
  <2>1. \A f, x : f = <<>> => x \notin DOMAIN f
    OBVIOUS
  <2>. QED  BY <2>1
<1>2. InPlace
  BY <1>1, ChunkedIsInPlace DEF PlacesInv, ChunksAreLast
<1>3. Sized /\ normalized \in Layouts /\ chunks = Found(normalized)
  BY <1>1 DEF PipelineInv, SettingsFit, ChunksFit
<1>4. CASE strategy = "fixed_window"
  <2>. DEFINE text    == TextOfAll(normalized)
              windows == Windows(text)
  <2>1. chunks = [k \in DOMAIN windows |-> Locate(windows[k], SectionAt(normalized, windows[k].start), 0)]
    BY <1>3, <1>4 DEF Found, FixedWindowChunks, TextOfAll
  <2>2. text \in Text
    BY <1>3, MarksHaveSections
  <2>3. DOMAIN windows = 1 .. Len(windows)
    BY <1>3, <2>2, WindowsAreRuns DEF AreWindows
  <2>4. i \in 1 .. Len(windows) /\ chunks[i] = Locate(windows[i], SectionAt(normalized, windows[i].start), 0)
    BY <2>1, <2>3
  <2>5. windows[i].start \in TokenStarts(text) /\ windows[i].start \in Nat /\ windows[i].end \in Nat
    BY <1>3, <2>2, <2>4, WindowsAreInside
  <2>6. SectionAt(normalized, windows[i].start) \in 1 .. Len(normalized)
    <3>. DEFINE S == {k \in DOMAIN normalized : normalized[k].start <= windows[i].start}
    <3>1. Len(normalized) \in Nat /\ DOMAIN normalized = 1 .. Len(normalized)
      BY <1>3, LayoutsAreTyped
    <3>2. PICK k \in 1 .. Len(normalized) : \E j \in TokenStarts(normalized[k].text) :
                                                windows[i].start = normalized[k].start + j
      BY <1>3, <2>5, NoTokenIsElsewhere
    <3>3. PICK j \in TokenStarts(normalized[k].text) : windows[i].start = normalized[k].start + j
      BY <3>2
    <3>4. j \in Nat /\ normalized[k].start \in Nat
      BY <1>3, LayoutsAreTyped, TokensStart
    <3>5. S \in SUBSET Nat /\ S # {} /\ \A x \in S : x <= Len(normalized)
      BY <3>1, <3>3, <3>4
    <3>6. Max(S) \in S
      BY <3>1, <3>5, ExtremesExist
    <3>. QED  BY <3>1, <3>6 DEF SectionAt
  <2>. HIDE DEF windows
  <2>7. chunks[i].section \in 1 .. Len(normalized) /\ chunks[i].start \in Nat /\ chunks[i].end \in Nat
    BY <2>4, <2>5, <2>6 DEF Locate
  <2>. QED  BY <1>2, <2>7
<1>5. CASE strategy # "fixed_window"
  <2>1. chunks \in Seq(Spans) /\ AreSectionWindows(chunks, normalized, Len(normalized))
    BY <1>3, <1>5, SectionChunksAreWindows DEF Found
  <2>2. i \in 1 .. Len(chunks) /\ chunks[i] \in Spans
    BY <2>1, LenProperties, ElementOfSeq
  <2>3. chunks[i].section \in 1 .. Len(normalized)
    BY <2>1, <2>2 DEF AreSectionWindows
  <2>. QED  BY <1>2, <2>2, <2>3 DEF Spans
<1>. QED  BY <1>4, <1>5

LEMMA CitationsAreRight ==
    ASSUME UnbrokenLines, PipelineInv, PlacesInv
    PROVE  CitationsNameTheirPlace
<1>. SUFFICES ASSUME NEW i \in DOMAIN chunks
              PROVE  LET place == Origins[chunks[i].start + 1]
                         cited == sections[normalized[chunks[i].section].section]
                     IN  IF media = "pdf" THEN cited.page = place
                         ELSE [n \in DOMAIN cited.path |-> cited.path[n].line] = Chain(place)
  BY Zenon DEF CitationsNameTheirPlace
<1>1. InPlace /\ chunks[i].section \in 1 .. Len(normalized) /\ chunks[i].start \in Nat
  BY ChunksHaveSections
<1>2. /\ normalized[chunks[i].section].start <= chunks[i].start
      /\ chunks[i].start < normalized[chunks[i].section].end
  BY FoundAreLocated DEF ChunksAreLocated
<1>3. Cites(SectionAtPlace(chunks[i].section), Origins[chunks[i].start + 1])
  BY <1>1, <1>2, PlacesAreCited
<1>. QED  BY <1>3, Zenon DEF Cites, SectionAtPlace

LEMMA ChunksAreWithinHeadings ==
    ASSUME UnbrokenLines, PipelineInv, PlacesInv
    PROVE  ChunksKeepWithinHeadings
<1>. SUFFICES ASSUME strategy = "section_aware", NEW i \in DOMAIN chunks,
                     NEW p \in Places(chunks[i]), NEW q \in Places(chunks[i])
              PROVE  IF media = "pdf" THEN p = q ELSE Chain(p) = Chain(q)
  BY DEF ChunksKeepWithinHeadings
<1>. DEFINE chunk == chunks[i]
            k     == chunk.section
<1>1. InPlace /\ k \in 1 .. Len(normalized) /\ chunk.start \in Nat /\ chunk.end \in Nat
  BY ChunksHaveSections
<1>2. normalized[k].start <= chunk.start /\ chunk.end <= normalized[k].end
  BY FoundAreLocated DEF ChunksAreLocated, Within
<1>3. normalized[k].start \in Nat /\ normalized[k].end \in Nat
  <2>1. normalized[k].start \in Nat /\ Len(normalized[k].text) \in Nat
        /\ normalized[k].end = normalized[k].start + Len(normalized[k].text)
    BY <1>1, LayoutsAreTyped DEF PipelineInv
  <2>. QED  BY <2>1
<1>. HIDE DEF chunk, k
<1>4. \A place \in Places(chunk) : Cites(SectionAtPlace(k), place)
  <2>. SUFFICES ASSUME NEW place \in Places(chunk) PROVE Cites(SectionAtPlace(k), place)
    OBVIOUS
  <2>1. PICK x \in TokenStarts(FullText) : /\ chunk.start <= x /\ x < chunk.end
                                           /\ place = Origins[x + 1]
    BY DEF Places
  <2>2. x \in Nat
    <3>1. FullText = TextOfAll(normalized)
      BY DEF FullText, TextOfAll
    <3>2. FullText \in Text
      BY <3>1, MarksHaveSections DEF PipelineInv
    <3>. QED  BY <3>2, TokensStart
  <2>3. normalized[k].start <= x /\ x < normalized[k].end
    BY <1>1, <1>2, <1>3, <2>1, <2>2
  <2>. QED  BY <1>1, <2>1, <2>2, <2>3, PlacesAreCited
<1>5. Cites(SectionAtPlace(k), p) /\ Cites(SectionAtPlace(k), q)
  BY <1>4 DEF chunk
<1>. QED  BY <1>5 DEF Cites

\* Without foreign line breaks a citation names its place: the section path
\* of a chunk is the chain of headings around its first token, its page the
\* page of that token.
THEOREM CitationsAreCorrect ==
    ASSUME UnbrokenLines
    PROVE  Spec => []CitationsNameTheirPlace
<1>1. Init => PipelineInv /\ PlacesInv
  BY PipelineStarts, PlacesStart
<1>2. PipelineInv /\ PlacesInv /\ [Next]_vars => (PipelineInv /\ PlacesInv)'
  BY PipelineGoesOn, PlacesGoOn
<1>3. PipelineInv /\ PlacesInv => CitationsNameTheirPlace
  BY CitationsAreRight
<1>. QED  BY <1>1, <1>2, <1>3, PTL DEF Spec

\* Nor does a chunk of the section-aware chunker cross a heading or a page.
THEOREM ChunksCrossNoHeading ==
    ASSUME UnbrokenLines
    PROVE  Spec => []ChunksKeepWithinHeadings
<1>1. Init => PipelineInv /\ PlacesInv
  BY PipelineStarts, PlacesStart
<1>2. PipelineInv /\ PlacesInv /\ [Next]_vars => (PipelineInv /\ PlacesInv)'
  BY PipelineGoesOn, PlacesGoOn
<1>3. PipelineInv /\ PlacesInv => ChunksKeepWithinHeadings
  BY ChunksAreWithinHeadings
<1>. QED  BY <1>1, <1>2, <1>3, PTL DEF Spec
---------------------------------------------------------------------------
(* Tokens counted line by line *)

\* the tokens of a text stand in another, d further on, and are those in Q
Stand(part, full, d, Q) ==
    /\ \A j \in TokenStarts(part) : d + j \in TokenStarts(full) /\ d + j \in Q
    /\ \A p \in TokenStarts(full) : p \in Q => p - d \in TokenStarts(part)

TokensStarting(full, Q) == {t \in ToSet(Tokens(full)) : t.start \in Q}

LEMMA TokensAreMapped ==
    ASSUME NEW part \in Text, NEW full \in Text, NEW d \in Int, NEW Q, Stand(part, full, d, Q)
    PROVE  Cardinality(TokensStarting(full, Q)) = Len(Tokens(part))
<1>. DEFINE found == Tokens(full)
            A     == {t \in ToSet(found) : t.start \in Q}
            u     == Tokens(part)
            N     == Len(u)
            Tok(p) == [start |-> p, end |-> TokenEnd(full, p)]
            f     == [q \in 1 .. N |-> Tok(d + u[q].start)]
<1>0. /\ \A j \in TokenStarts(part) : d + j \in TokenStarts(full) /\ d + j \in Q
      /\ \A p \in TokenStarts(full) : p \in Q => p - d \in TokenStarts(part)
  BY DEF Stand
<1>1. /\ N \in Nat
      /\ \A q \in 1 .. N : u[q].start \in TokenStarts(part) /\ u[q].start \in Nat
      /\ \A i \in TokenStarts(part) : \E q \in 1 .. N : u[q].start = i
      /\ \A j, k \in 1 .. N : j < k => u[j].start < u[k].start
  <2>1. N \in Nat /\ AreTokens(u, part)
    BY TokensAreInOrder
  <2>2. \A q \in 1 .. N : u[q].start \in Nat /\ u[q].end \in Nat /\ u[q].start < u[q].end
    BY <2>1 DEF AreTokens
  <2>3. \A j, k \in 1 .. N : j < k => u[j].end <= u[k].start
    BY <2>1 DEF AreTokens
  <2>4. \A j, k \in 1 .. N : j < k => u[j].start < u[k].start
    BY <2>2, <2>3
  <2>. QED  BY <2>1, <2>2, <2>4 DEF AreTokens
<1>2. /\ \A t \in ToSet(found) : t.start \in TokenStarts(full) /\ t = Tok(t.start)
      /\ \A p \in TokenStarts(full) : Tok(p) \in ToSet(found)
  <2>. DEFINE n == Len(found)
  <2>1. n \in Nat /\ AreTokens(found, full)
    BY TokensAreInOrder
  <2>2. /\ found \in [1 .. n -> [start : Nat, end : Nat]]
        /\ \A q \in 1 .. n : found[q].start \in TokenStarts(full) /\ found[q].end = TokenEnd(full, found[q].start)
        /\ \A i \in TokenStarts(full) : \E q \in 1 .. n : found[q].start = i
    BY <2>1 DEF AreTokens
  <2>3. \A q \in 1 .. n : found[q] = [start |-> found[q].start, end |-> found[q].end]
    BY <2>2
  <2>4. \A q \in 1 .. n : found[q] = Tok(found[q].start)
    BY <2>2, <2>3, Zenon
  <2>5. ToSet(found) = {found[q] : q \in 1 .. n}
    BY <2>2 DEF ToSet
  <2>. HIDE DEF found, n, Tok
  <2>6. ASSUME NEW t \in ToSet(found) PROVE t.start \in TokenStarts(full) /\ t = Tok(t.start)
    <3>1. PICK q \in 1 .. n : t = found[q]
      BY <2>5
    <3>. QED  BY <2>2, <2>4, <3>1
  <2>7. ASSUME NEW p \in TokenStarts(full) PROVE Tok(p) \in ToSet(found)
    <3>1. PICK q \in 1 .. n : found[q].start = p
      BY <2>2
    <3>2. found[q] = Tok(p)
      BY <2>4, <3>1
    <3>. QED  BY <2>5, <3>2
  <2>. QED  BY <2>6, <2>7
<1>3. \A p, q : Tok(p) = Tok(q) => p = q
  <2>. SUFFICES ASSUME NEW p, NEW q, Tok(p) = Tok(q) PROVE p = q
    OBVIOUS
  <2>1. Tok(p).start = p /\ Tok(q).start = q
    OBVIOUS
  <2>. QED  BY <2>1, Zenon
<1>4. \A p : Tok(p).start = p
  OBVIOUS
<1>. HIDE DEF u, N, Tok, found
<1>5. f \in [1 .. N -> A] /\ \A q \in 1 .. N : f[q] = Tok(d + u[q].start)
  <2>1. ASSUME NEW q \in 1 .. N PROVE Tok(d + u[q].start) \in A
    <3>1. d + u[q].start \in TokenStarts(full) /\ d + u[q].start \in Q
      BY <1>0, <1>1
    <3>. QED  BY <1>2, <1>4, <3>1
  <2>. QED  BY <2>1
<1>. HIDE DEF f
<1>6. \A j, k \in 1 .. N : f[j] = f[k] => j = k
  <2>. SUFFICES ASSUME NEW j \in 1 .. N, NEW k \in 1 .. N, f[j] = f[k] PROVE j = k
    OBVIOUS
  <2>1. d + u[j].start = d + u[k].start
    BY <1>3, <1>5
  <2>2. u[j].start = u[k].start /\ u[j].start \in Nat
    BY <1>1, <2>1
  <2>3. ~ j < k /\ ~ k < j
    BY <1>1, <2>2
  <2>. QED  BY <1>1, <2>3
<1>7. \A t \in A : \E q \in 1 .. N : f[q] = t
  <2>. SUFFICES ASSUME NEW t \in A PROVE \E q \in 1 .. N : f[q] = t
    OBVIOUS
  <2>1. t.start \in TokenStarts(full) /\ t.start \in Q /\ t = Tok(t.start)
    BY <1>2
  <2>2. t.start \in Int
    <3>1. TokenStarts(full) \in SUBSET (0 .. Len(full)) /\ Len(full) \in Nat
      BY TokensStart
    <3>. QED  BY <2>1, <3>1
  <2>3. t.start - d \in TokenStarts(part)
    BY <1>0, <2>1
  <2>4. PICK q \in 1 .. N : u[q].start = t.start - d
    BY <1>1, <2>3
  <2>5. d + u[q].start = t.start
    BY <2>2, <2>4
  <2>6. f[q] = t
    BY <1>5, <2>1, <2>5
  <2>. QED  BY <2>6
<1>. HIDE DEF A
<1>8. f \in Bijection(1 .. N, A)
  BY <1>5, <1>6, <1>7 DEF Bijection, Injection, Surjection, IsInjective
<1>9. ExistsBijection(1 .. N, A)
  BY <1>8 DEF ExistsBijection
<1>10. IsFiniteSet(1 .. N) /\ Cardinality(1 .. N) = N
  <2>1. 1 \in Int /\ N \in Int /\ (IF 1 > N THEN 0 ELSE N - 1 + 1) = N
    BY <1>1
  <2>. QED  BY <2>1, FS_Interval
<1>. QED  BY <1>9, <1>10, FS_Bijection DEF A, N, u, found, TokensStarting

LEMMA SectionsHaveMarks ==
    ASSUME NEW section, section.lines \in Seq(Line), HasText(section.lines)
    PROVE  Marks(SectionText(section)) # {}
<1>. DEFINE text == SectionText(section)
<1>1. section.lines \in Seq(Line) /\ HasText(section.lines)
  OBVIOUS
<1>2. PICK off : HasLines(section, off)
  BY <1>1, SectionsHaveLines
<1>. DEFINE n == Len(section.lines)
<1>3. PICK q \in DOMAIN section.lines : ~ Blank(section.lines[q].piece)
  BY <1>1 DEF HasText
<1>. DEFINE piece == section.lines[q].piece
            l     == Len(piece)
            b     == off[q - 1]
<1>4. q \in 1 .. n /\ n \in Nat /\ piece \in Text
  <2>1. q \in 1 .. n /\ n \in Nat /\ section.lines[q] \in Line
    BY <1>1, LenProperties, ElementOfSeq
  <2>. QED  BY <2>1 DEF Line
<1>5. DOMAIN piece = 1 .. l /\ l \in Nat
  BY <1>4, LenProperties DEF Text
<1>6. PICK c \in 1 .. l : piece[c] # " "
  BY <1>3, <1>5, Zenon DEF Blank
<1>7. /\ text \in Text /\ b + Len(Ended(piece)) <= Len(text)
      /\ \A j \in 1 .. Len(Ended(piece)) : text[b + j] = Ended(piece)[j]
  BY <1>2, <1>4, Zenon DEF HasLines, Sits
<1>8. Len(Ended(piece)) = l + 1 /\ \A j \in 1 .. l : Ended(piece)[j] = piece[j]
  BY <1>4, EndedIsText
<1>9. b \in Nat
  <2>1. off \in [0 .. n -> Nat]
    BY <1>2 DEF HasLines
  <2>2. q - 1 \in 0 .. n
    BY <1>4
  <2>. QED  BY <2>1, <2>2
<1>10. DOMAIN text = 1 .. Len(text) /\ Len(text) \in Nat
  BY <1>7, LenProperties DEF Text
<1>. HIDE DEF text, b, l, piece
<1>11. c \in 1 .. Len(Ended(piece)) /\ b + c \in 1 .. Len(text)
  BY <1>5, <1>7, <1>8, <1>9, <1>10
<1>12. text[b + c] = piece[c]
  BY <1>7, <1>8, <1>11
<1>13. b + c \in Marks(text)
  BY <1>6, <1>10, <1>11, <1>12, Zenon DEF Marks
<1>. QED  BY <1>13 DEF text

\* No line is in two sections.
LEMMA LinesHaveOneSection ==
    ASSUME InPlace, NEW j \in 1 .. Len(normalized), NEW k \in 1 .. Len(normalized), NEW i \in Nat,
           Top(SectionAtPlace(j)) <= i, i <= Bottom(SectionAtPlace(j)),
           Top(SectionAtPlace(k)) <= i, i <= Bottom(SectionAtPlace(k))
    PROVE  j = k
<1>. DEFINE r == normalized[j].section
            s == normalized[k].section
<1>1. r \in 1 .. Len(sections) /\ s \in 1 .. Len(sections) /\ Len(sections) \in Nat
  BY DEF InPlace, Takes
<1>2. \A x \in 1 .. Len(sections) : Top(sections[x]) \in Nat /\ Bottom(sections[x]) \in Nat
  BY StretchesAreNumbers DEF InPlace, Reach
<1>3. \A x, y \in 1 .. Len(sections) : x < y => Bottom(sections[x]) < Top(sections[y])
  BY DEF InPlace, Reach
<1>4. /\ Top(sections[r]) <= i /\ i <= Bottom(sections[r])
      /\ Top(sections[s]) <= i /\ i <= Bottom(sections[s])
  BY DEF SectionAtPlace
<1>5. Len(normalized) \in Nat
  BY LayoutsAreTyped DEF InPlace, Takes
<1>6. /\ j < k => r < s
      /\ k < j => s < r
  BY DEF InPlace, Takes
<1>. HIDE DEF r, s
<1>7. ~ r < s /\ ~ s < r
  BY <1>1, <1>2, <1>3, <1>4
<1>. QED  BY <1>5, <1>6, <1>7

LEMMA BodyLinesHaveSections ==
    ASSUME InPlace, NEW i \in BodyLines
    PROVE  /\ i \in 1 .. Len(source)
           /\ \E k \in 1 .. Len(normalized) : Top(SectionAtPlace(k)) <= i /\ i <= Bottom(SectionAtPlace(k))
<1>1. i \in 1 .. Len(source) /\ Len(source) \in Nat
  BY BodyLinesAreNumbers DEF InPlace
<1>2. PICK s \in 1 .. Len(sections) : Top(sections[s]) <= i /\ i <= Bottom(sections[s])
  BY <1>1 DEF InPlace, Reach
<1>3. IsStretch(sections[s])
  BY DEF InPlace, Reach
<1>4. SectionTexts[s] = SectionText(sections[s])
  BY DEF InPlace, SectionTexts
<1>5. Marks(SectionTexts[s]) # {}
  BY <1>3, <1>4, SectionsHaveMarks DEF IsStretch
<1>6. PICK k \in 1 .. Len(normalized) : normalized[k].section = s
  BY <1>5 DEF InPlace, Takes
<1>. QED  BY <1>1, <1>2, <1>6 DEF SectionAtPlace

\* where the first character of a line would stand in the whole text: before
\* it if the line begins with blanks that normalization strips
Shift(k, off, q) ==
    normalized[k].start + off[q - 1] - (Min(Marks(SectionText(SectionAtPlace(k)))) - 1)

\* a section, its line q, and how they stand in each other
IsLine(k, off, q) ==
    LET section == SectionAtPlace(k)
        text    == SectionText(section)
        base    == Min(Marks(text)) - 1
        strip   == normalized[k].text
        whole   == Ended(section.lines[q].piece)
    IN  /\ text \in Text /\ strip \in Text /\ whole \in Text /\ Len(whole) \in Nat /\ Len(strip) \in Nat
        /\ base \in Nat /\ off[q - 1] \in Nat /\ off[q] = off[q - 1] + Len(whole)
        /\ normalized[k].start \in Nat
        /\ Sits(whole, text, off[q - 1]) /\ Sits(strip, text, base)
        /\ \A x \in TokenStarts(text) : base <= x /\ x < base + Len(strip)
        /\ \A x \in off[q - 1] + 1 .. off[q] : LineOrigins(section)[x] = section.lines[q].line

LEMMA LinesStand ==
    ASSUME InPlace, NEW k \in 1 .. Len(normalized), NEW off, HasLines(SectionAtPlace(k), off),
           NEW q \in 1 .. Len(SectionAtPlace(k).lines)
    PROVE  IsLine(k, off, q)
<1>. DEFINE section == SectionAtPlace(k)
            text    == SectionText(section)
            min     == Min(Marks(text))
            max     == Max(Marks(text))
            strip   == normalized[k].text
            piece   == section.lines[q].piece
            whole   == Ended(piece)
            n       == Len(section.lines)
<1>1. text \in Text /\ Marks(text) # {} /\ strip = Strip(text)
  BY SectionsAreInPlace
<1>2. /\ min \in 1 .. Len(text) /\ max \in min .. Len(text) /\ Len(text) \in Nat
      /\ strip \in Text /\ Len(strip) = max - min + 1
      /\ Sits(strip, text, min - 1)
      /\ \A i \in TokenStarts(text) : min - 1 <= i /\ i < max
  BY <1>1, StripSits
<1>3. normalized[k].start \in Nat
  BY LayoutsAreTyped DEF InPlace, Takes
<1>4. /\ off \in [0 .. n -> Nat] /\ n \in Nat
      /\ off[q] = off[q - 1] + Len(piece) + 1
      /\ whole \in Text /\ Len(whole) = Len(piece) + 1
      /\ Sits(whole, text, off[q - 1])
      /\ \A x \in off[q - 1] + 1 .. off[q] : LineOrigins(section)[x] = section.lines[q].line
  BY Zenon DEF HasLines
<1>5. off[q - 1] \in Nat /\ off[q] \in Nat /\ Len(whole) \in Nat
  <2>1. q - 1 \in 0 .. n /\ q \in 0 .. n
    BY <1>4
  <2>2. Len(whole) \in Nat
    BY <1>4, LenProperties DEF Text
  <2>. QED  BY <1>4, <2>1, <2>2
<1>6. off[q] = off[q - 1] + Len(whole)
  <2>1. section.lines \in Seq(Line)
    BY SectionsAreInPlace
  <2>2. piece \in Text
    <3>1. section.lines[q] \in Line
      BY <2>1, ElementOfSeq
    <3>. QED  BY <3>1 DEF Line
  <2>3. Len(piece) \in Nat
    BY <2>2, LenProperties DEF Text
  <2>4. off[q] = off[q - 1] + Len(piece) + 1 /\ Len(whole) = Len(piece) + 1
    BY <1>4
  <2>. DEFINE a == off[q - 1]
              b == off[q]
              l == Len(piece)
              w == Len(whole)
  <2>5. a \in Nat /\ b \in Nat /\ l \in Nat /\ w \in Nat /\ b = a + l + 1 /\ w = l + 1
    BY <1>5, <2>3, <2>4, Zenon
  <2>. HIDE DEF piece, whole, a, b, l, w
  <2>6. b = a + w
    BY <2>5
  <2>. QED  BY <2>6 DEF a, b, w
<1>. HIDE DEF min, max, text, strip, whole, piece
<1>7. min - 1 \in Nat /\ Len(strip) \in Nat /\ max = (min - 1) + Len(strip)
  BY <1>2
<1>8. \A x \in TokenStarts(text) : min - 1 <= x /\ x < (min - 1) + Len(strip)
  BY <1>2, <1>7
<1>. QED  BY <1>1, <1>2, <1>3, <1>4, <1>5, <1>6, <1>7, <1>8, Zenon DEF IsLine, min, text, strip, whole, piece

\* the tokens of a line are in the text
LEMMA LineTokensAreFound ==
    ASSUME InPlace, NEW k \in 1 .. Len(normalized), NEW off,
           NEW q \in 1 .. Len(SectionAtPlace(k).lines), IsLine(k, off, q),
           NEW j \in TokenStarts(Ended(SectionAtPlace(k).lines[q].piece))
    PROVE  /\ Shift(k, off, q) + j \in TokenStarts(TextOfAll(normalized))
           /\ Origins[Shift(k, off, q) + j + 1] = SectionAtPlace(k).lines[q].line
<1>. DEFINE section == SectionAtPlace(k)
            text    == SectionText(section)
            base    == Min(Marks(text)) - 1
            strip   == normalized[k].text
            whole   == Ended(section.lines[q].piece)
            start   == normalized[k].start
            o       == off[q - 1]
            line    == section.lines[q].line
            from    == LineOrigins(section)
            y       == o + j - base
<1>1. /\ text \in Text /\ strip \in Text /\ whole \in Text /\ Len(whole) \in Nat /\ Len(strip) \in Nat
      /\ base \in Nat /\ o \in Nat /\ off[q] = o + Len(whole)
      /\ start \in Nat
      /\ Sits(whole, text, o) /\ Sits(strip, text, base)
      /\ \A x \in TokenStarts(text) : base <= x /\ x < base + Len(strip)
      /\ \A x \in o + 1 .. off[q] : from[x] = line
  BY Zenon DEF IsLine
<1>2. Shift(k, off, q) = start + o - base
  BY DEF Shift
<1>3. j \in TokenStarts(whole)
  OBVIOUS
<1>4. \A c \in 1 .. Len(strip) : Origins[start + c] = from[base + c]
  BY OriginsAreInPlace
<1>. HIDE DEF base, o, start, text, strip, whole, from, line
<1>5. j \in 0 .. Len(whole) - 1
  BY <1>1, <1>3, TokensAreMarks
<1>6. o + j \in TokenStarts(text)
  BY <1>1, <1>3, <1>5, StartsShift
<1>7. y \in 0 .. Len(strip) - 1 /\ base + y = o + j /\ y \in Nat
  <2>1. base <= o + j /\ o + j < base + Len(strip)
    BY <1>1, <1>6
  <2>. QED  BY <1>1, <1>5, <2>1
<1>8. y \in TokenStarts(strip)
  <2>1. base + y \in TokenStarts(text)
    BY <1>6, <1>7
  <2>. HIDE DEF y
  <2>. QED  BY <1>1, <1>7, <2>1, StartsShift
<1>9. start + y \in TokenStarts(TextOfAll(normalized))
  <2>1. normalized \in Layouts
    BY DEF InPlace, Takes
  <2>. QED  BY <1>8, <2>1, TokensMove DEF start, strip
<1>10. Shift(k, off, q) + j = start + y /\ start + y + 1 = start + (y + 1)
  <2>1. /\ start \in Nat /\ o \in Nat /\ base \in Nat /\ j \in Int /\ y \in Nat
        /\ y = o + j - base
    <3>1. start \in Nat /\ o \in Nat /\ base \in Nat
      BY <1>1
    <3>2. j \in Int
      BY <1>1, <1>5
    <3>. QED  BY <1>7, <3>1, <3>2
  <2>. DEFINE d == Shift(k, off, q)
  <2>2. d = start + o - base
    BY <1>2
  <2>. HIDE DEF d, y
  <2>3. d + j = start + y /\ start + y + 1 = start + (y + 1)
    BY <2>1, <2>2
  <2>. QED  BY <2>3 DEF d
<1>11. y + 1 \in 1 .. Len(strip) /\ base + (y + 1) = o + j + 1 /\ o + j + 1 \in o + 1 .. off[q]
  BY <1>1, <1>5, <1>7
<1>12. Origins[start + (y + 1)] = line
  <2>1. Origins[start + (y + 1)] = from[base + (y + 1)]
    BY <1>4, <1>11
  <2>. QED  BY <1>1, <1>11, <2>1
<1>13. Shift(k, off, q) + j + 1 = start + (y + 1)
  BY <1>10
<1>. QED  BY <1>9, <1>10, <1>12, <1>13 DEF line

\* and what comes from it is one of its tokens
LEMMA FoundTokensAreOfLines ==
    ASSUME InPlace, NEW k \in 1 .. Len(normalized), NEW off, HasLines(SectionAtPlace(k), off),
           NEW q \in 1 .. Len(SectionAtPlace(k).lines), IsLine(k, off, q),
           NEW p \in TokenStarts(TextOfAll(normalized)), Origins[p + 1] = SectionAtPlace(k).lines[q].line
    PROVE  p - Shift(k, off, q) \in TokenStarts(Ended(SectionAtPlace(k).lines[q].piece))
<1>. DEFINE section == SectionAtPlace(k)
            text    == SectionText(section)
            base    == Min(Marks(text)) - 1
            strip   == normalized[k].text
            whole   == Ended(section.lines[q].piece)
            start   == normalized[k].start
            o       == off[q - 1]
<1>0. normalized \in Layouts
  BY DEF InPlace, Takes
<1>1. /\ text \in Text /\ strip \in Text /\ whole \in Text /\ Len(whole) \in Nat /\ Len(strip) \in Nat
      /\ base \in Nat /\ o \in Nat /\ off[q] = o + Len(whole)
      /\ start \in Nat
      /\ Sits(whole, text, o) /\ Sits(strip, text, base)
  BY Zenon DEF IsLine
<1>2. Shift(k, off, q) = start + o - base
  BY DEF Shift
<1>3. \A r \in 1 .. Len(normalized) : IsStretch(SectionAtPlace(r))
  BY SectionsAreInPlace
<1>4. PICK r \in 1 .. Len(normalized) : \E j \in TokenStarts(normalized[r].text) : p = normalized[r].start + j
  BY <1>0, NoTokenIsElsewhere
<1>5. PICK j \in TokenStarts(normalized[r].text) : p = normalized[r].start + j
  BY <1>4
<1>6. /\ normalized[r].text \in Text /\ Len(normalized[r].text) \in Nat /\ normalized[r].start \in Nat
      /\ normalized[r].end = normalized[r].start + Len(normalized[r].text)
  BY <1>0, LayoutsAreTyped
<1>7. j \in 0 .. Len(normalized[r].text) - 1
  BY <1>6, TokensAreMarks
<1>8. p \in Nat /\ normalized[r].start <= p /\ p < normalized[r].end
  BY <1>5, <1>6, <1>7, SMTT(20)
\* the token is in the section of the line
<1>9. r = k
  <2>. DEFINE other == SectionAtPlace(r)
  <2>1. other.lines \in Seq(Line)
    BY SectionsAreInPlace
  <2>2. PICK off2 : HasLines(other, off2)
    BY <2>1, SectionsHaveLines
  <2>3. PICK q2 : IsFrom(r, off2, q2, p)
    BY <1>8, <2>2, CharactersComeFromLines
  <2>4. q2 \in 1 .. Len(other.lines) /\ Origins[p + 1] = other.lines[q2].line
    BY <2>3 DEF IsFrom
  <2>. DEFINE i == Origins[p + 1]
  <2>5. i = Top(other) + q2 - 1 /\ i = Top(section) + q - 1
    BY <1>3, <2>4 DEF IsStretch
  <2>6. /\ Top(other) \in Nat /\ Len(other.lines) \in Nat /\ Bottom(other) = Top(other) + Len(other.lines) - 1
        /\ Top(section) \in Nat /\ Len(section.lines) \in Nat
        /\ Bottom(section) = Top(section) + Len(section.lines) - 1
    BY <1>3, StretchesAreNumbers DEF InPlace, Bottom
  <2>7. q \in 1 .. Len(section.lines)
    OBVIOUS
  <2>. HIDE DEF i, section, other
  <2>. DEFINE t == Top(other)
              u == Top(section)
              n == Len(other.lines)
              m == Len(section.lines)
              b == Bottom(other)
              c == Bottom(section)
  <2>9. /\ t \in Nat /\ u \in Nat /\ n \in Nat /\ m \in Nat /\ b = t + n - 1 /\ c = u + m - 1
        /\ q2 \in 1 .. n /\ q \in 1 .. m /\ i = t + q2 - 1 /\ i = u + q - 1
    BY <2>4, <2>5, <2>6, <2>7, Zenon
  <2>. HIDE DEF t, u, n, m, b, c
  <2>10. i \in Nat /\ t <= i /\ i <= b /\ u <= i /\ i <= c
    BY <2>9
  <2>8. i \in Nat /\ Top(other) <= i /\ i <= Bottom(other) /\ Top(section) <= i /\ i <= Bottom(section)
    BY <2>10 DEF t, u, b, c
  <2>. QED  BY <2>8, LinesHaveOneSection DEF section, other
<1>10. PICK q2 : IsFrom(k, off, q2, p)
  BY <1>8, <1>9, CharactersComeFromLines
<1>. DEFINE x == p - start + base
<1>11. /\ q2 \in 1 .. Len(section.lines) /\ x \in Nat /\ off[q2 - 1] <= x /\ x < off[q2]
       /\ Origins[p + 1] = section.lines[q2].line
  BY <1>10 DEF IsFrom
<1>12. q2 = q
  <2>1. section.lines[q2].line = Top(section) + q2 - 1 /\ section.lines[q].line = Top(section) + q - 1
    BY <1>3, <1>11 DEF IsStretch
  <2>2. Top(section) \in Nat
    BY <1>3, StretchesAreNumbers DEF InPlace
  <2>3. section.lines[q2].line = section.lines[q].line
    BY <1>11
  <2>4. q \in Nat /\ q2 \in Nat
    BY <1>11
  <2>. HIDE DEF section
  <2>. QED  BY <2>1, <2>2, <2>3, <2>4
<1>13. o <= x /\ x < o + Len(whole)
  BY <1>1, <1>11, <1>12
<1>14. j \in TokenStarts(strip) /\ p = start + j /\ j \in 0 .. Len(strip) - 1
  BY <1>5, <1>7, <1>9
<1>. HIDE DEF o, base, start, text, strip, whole, section
<1>15. x = base + j /\ x - o \in 0 .. Len(whole) - 1 /\ o + (x - o) = x /\ p - Shift(k, off, q) = x - o
  BY <1>1, <1>2, <1>13, <1>14
<1>16. x \in TokenStarts(text)
  <2>1. base + j \in TokenStarts(text)
    BY <1>1, <1>14, StartsShift
  <2>. QED  BY <1>15, <2>1
<1>17. x - o \in TokenStarts(whole)
  <2>1. o + (x - o) \in TokenStarts(text)
    BY <1>15, <1>16
  <2>. HIDE DEF x
  <2>. QED  BY <1>1, <1>15, <2>1, StartsShift
<1>. QED  BY <1>15, <1>17 DEF whole, section
---------------------------------------------------------------------------
(* No token is lost *)

LEMMA LineTextTokens ==
    ASSUME UnbrokenLines, PlacesInv, outcome \in {"sections", "normalized", "chunks"}, NEW i \in BodyLines
    PROVE  TextOf(i) \in Text /\ TokenStarts(TextOf(i)) = TokenStarts(Ended(PieceOf(i)))
<1>1. CASE media = "markdown"
  <2>1. IsMarkdown(source) /\ Unbroken(source) /\ media # "pdf"
    BY <1>1 DEF PlacesInv, IsSource, UnbrokenLines
  <2>2. i \in DOMAIN source
    BY DEF BodyLines
  <2>3. PieceOf(i) \in Text /\ TextOf(i) = PieceOf(i) \o <<" ">>
    BY <2>1, <2>2, TextsOfLines
  <2>4. Ended(PieceOf(i)) \in Text
    BY <2>3, EndedIsText
  <2>. QED  BY <2>3, <2>4, Zenon DEF Ended
<1>2. CASE media = "pdf"
  <2>1. source \in Seq({Broken} \union Text) /\ Broken \notin ToSet(source)
    BY <1>2 DEF PlacesInv, IsSource, SectionsAreSource
  <2>2. i \in DOMAIN source
    BY DEF BodyLines
  <2>3. TextOf(i) = source[i] /\ PieceOf(i) = source[i] /\ source[i] \in Text
    BY <1>2, <2>1, <2>2, PdfReaches DEF TextOf, PieceOf
  <2>. QED  BY <2>3, BreaksAreNoTokens
<1>. QED  BY <1>1, <1>2 DEF PlacesInv, IsSource

LEMMA LinesHaveTheirTokens ==
    ASSUME UnbrokenLines, PlacesInv, InPlace, outcome \in {"normalized", "chunks"}, NEW i \in BodyLines
    PROVE  Cardinality({t \in ToSet(Tokens(FullText)) : Origins[t.start + 1] = i}) = Len(Tokens(TextOf(i)))
<1>1. PICK k \in 1 .. Len(normalized) : Top(SectionAtPlace(k)) <= i /\ i <= Bottom(SectionAtPlace(k))
  BY BodyLinesHaveSections
<1>. DEFINE section == SectionAtPlace(k)
<1>2. section.lines \in Seq(Line) /\ IsStretch(section)
  BY SectionsAreInPlace
<1>3. PICK off : HasLines(section, off)
  BY <1>2, SectionsHaveLines
<1>. DEFINE q == i - Top(section) + 1
<1>4. q \in 1 .. Len(section.lines) /\ Top(section) + q - 1 = i
  <2>. DEFINE t == Top(section)
              b == Bottom(section)
              n == Len(section.lines)
  <2>1. t \in Nat /\ n \in Nat /\ b = t + n - 1 /\ t <= i /\ i <= b /\ i \in Nat
    <3>1. i \in 1 .. Len(source)
      BY BodyLinesHaveSections
    <3>2. t \in Nat /\ n \in Nat
      BY <1>2, StretchesAreNumbers DEF InPlace
    <3>. QED  BY <1>1, <3>1, <3>2 DEF Bottom
  <2>. HIDE DEF t, b, n
  <2>2. i - t + 1 \in 1 .. n /\ t + (i - t + 1) - 1 = i
    BY <2>1
  <2>. QED  BY <2>2 DEF t, n
<1>. HIDE DEF q
<1>5. section.lines[q].line = i /\ section.lines[q].piece = PieceOf(i)
  BY <1>2, <1>4 DEF IsStretch
<1>6. IsLine(k, off, q)
  BY <1>3, <1>4, LinesStand
<1>. DEFINE part == TextOf(i)
            full == TextOfAll(normalized)
            d    == Shift(k, off, q)
            Q    == {p \in TokenStarts(full) : Origins[p + 1] = i}
<1>7. part \in Text /\ TokenStarts(part) = TokenStarts(Ended(section.lines[q].piece))
  BY <1>5, LineTextTokens
<1>8. full \in Text /\ FullText = full
  <2>1. full \in Text
    BY MarksHaveSections DEF InPlace, Takes
  <2>. QED  BY <2>1 DEF FullText, TextOfAll
<1>9. d \in Int
  <2>. DEFINE b == Min(Marks(SectionText(SectionAtPlace(k)))) - 1
  <2>1. normalized[k].start \in Nat /\ off[q - 1] \in Nat /\ b \in Nat
    BY <1>6, Zenon DEF IsLine
  <2>2. d = normalized[k].start + off[q - 1] - b
    BY DEF Shift
  <2>. HIDE DEF b, d
  <2>. QED  BY <2>1, <2>2
<1>10. \A j \in TokenStarts(part) : d + j \in TokenStarts(full) /\ d + j \in Q
  <2>. SUFFICES ASSUME NEW j \in TokenStarts(part)
                PROVE  d + j \in TokenStarts(full) /\ d + j \in Q
    OBVIOUS
  <2>1. j \in TokenStarts(Ended(SectionAtPlace(k).lines[q].piece))
    BY <1>7
  <2>2. d + j \in TokenStarts(full) /\ Origins[d + j + 1] = i
    BY <1>4, <1>5, <1>6, <2>1, LineTokensAreFound
  <2>. QED  BY <2>2
<1>11. \A p \in TokenStarts(full) : p \in Q => p - d \in TokenStarts(part)
  <2>. SUFFICES ASSUME NEW p \in TokenStarts(full), p \in Q PROVE p - d \in TokenStarts(part)
    OBVIOUS
  <2>1. Origins[p + 1] = section.lines[q].line
    BY <1>5
  <2>. QED  BY <1>3, <1>4, <1>6, <1>7, <2>1, FoundTokensAreOfLines
<1>. HIDE DEF part, full, d
<1>12. Cardinality(TokensStarting(full, Q)) = Len(Tokens(part))
  <2>. HIDE DEF Q
  <2>1. Stand(part, full, d, Q)
    BY <1>10, <1>11 DEF Stand
  <2>. QED  BY <1>7, <1>8, <1>9, <2>1, TokensAreMapped
<1>13. \A t \in ToSet(Tokens(full)) : t.start \in TokenStarts(full)
  <2>. DEFINE found == Tokens(full)
  <2>1. Len(found) \in Nat /\ AreTokens(found, full)
    BY <1>8, TokensAreInOrder
  <2>2. DOMAIN found = 1 .. Len(found) /\ \A x \in 1 .. Len(found) : found[x].start \in TokenStarts(full)
    BY <2>1 DEF AreTokens
  <2>. HIDE DEF found
  <2>3. ToSet(found) = {found[x] : x \in 1 .. Len(found)}
    BY <2>2 DEF ToSet
  <2>. QED  BY <2>2, <2>3 DEF found
<1>14. TokensStarting(full, Q) = {t \in ToSet(Tokens(full)) : Origins[t.start + 1] = i}
  BY <1>13 DEF TokensStarting
<1>. QED  BY <1>8, <1>12, <1>14 DEF part

LEMMA TokensAreNotLost ==
    ASSUME UnbrokenLines, PlacesInv
    PROVE  NoTokenIsLost
<1>. SUFFICES ASSUME chunks # <<>>, NEW i \in BodyLines
              PROVE  Cardinality({t \in ToSet(Tokens(FullText)) : Origins[t.start + 1] = i}) = Len(Tokens(TextOf(i)))
  BY Zenon DEF NoTokenIsLost
<1>1. outcome = "chunks"
  BY DEF PlacesInv, ChunksAreLast
<1>2. InPlace
  BY <1>1, ChunkedIsInPlace
<1>. QED  BY <1>1, <1>2, LinesHaveTheirTokens

\* Every token of every line and page with text, other than headings, is in
\* the text of the document, and just once.
THEOREM EveryTokenIsKept ==
    ASSUME UnbrokenLines
    PROVE  Spec => []NoTokenIsLost
<1>1. Init => PlacesInv
  BY PlacesStart
<1>2. PlacesInv /\ [Next]_vars => PlacesInv'
  BY PlacesGoOn
<1>3. PlacesInv => NoTokenIsLost
  BY TokensAreNotLost
<1>. QED  BY <1>1, <1>2, <1>3, PTL DEF Spec
---------------------------------------------------------------------------
(* Only empty files are refused *)

\* a text of several is blank only if all of them are
LEMMA FlatTextHasPiece ==
    ASSUME NEW seqs, NEW n \in Nat, \A k \in 1 .. n : seqs[k] \in Text,
           Len(seqs) = n, n = 0 => seqs = <<>>, ~ Blank(FlattenSeq(seqs))
    PROVE  \E k \in 1 .. n : ~ Blank(seqs[k])
<1>1. \A k \in 1 .. n : seqs[k] \in Seq(Characters) /\ Len(seqs[k]) \in Nat
  BY LenProperties DEF Text
<1>2. PICK off : AreOffsets(off, n, seqs)
  BY <1>1, OffsetsExist
<1>. DEFINE flat == FlattenSeq(seqs)
<1>3. flat \in Seq(Characters) /\ IsSpread(flat, off, n, seqs)
  BY <1>1, <1>2, FlattenIsSpread
<1>. HIDE DEF flat
<1>4. DOMAIN flat = 1 .. off[n]
  BY <1>3, LenProperties DEF IsSpread
<1>5. PICK p \in 1 .. off[n] : flat[p] # " "
  BY <1>4, Zenon DEF Blank, flat
<1>6. PICK k \in 1 .. n : off[k - 1] < p /\ p <= off[k]
  BY <1>3 DEF IsSpread
<1>. DEFINE a == off[k - 1]
            b == off[k]
            l == Len(seqs[k])
            i == p - a
<1>7. a \in Nat /\ l \in Nat /\ b = a + l /\ p \in Nat
  <2>1. k - 1 \in 0 .. n /\ n \in 0 .. n
    OBVIOUS
  <2>2. /\ off \in [0 .. n -> Nat]
        /\ \A x \in 1 .. n : Len(seqs[x]) \in Nat /\ off[x] = off[x - 1] + Len(seqs[x])
    BY <1>2 DEF AreOffsets
  <2>3. off[n] \in Nat /\ off[k - 1] \in Nat
    BY <2>1, <2>2
  <2>4. p \in 1 .. off[n]
    BY <1>5, Zenon
  <2>. QED  BY <2>2, <2>3, <2>4
<1>. HIDE DEF a, b, l
<1>8. i \in 1 .. l /\ a + i = p
  BY <1>6, <1>7 DEF a, b
<1>. HIDE DEF i
<1>9. \A x \in 1 .. l : flat[a + x] = seqs[k][x]
  BY <1>3 DEF IsSpread, a, l
<1>10. seqs[k][i] # " "
  BY <1>5, <1>8, <1>9, Zenon
<1>11. DOMAIN seqs[k] = 1 .. l
  BY <1>1, LenProperties DEF l
<1>12. ~ Blank(seqs[k])
  BY <1>8, <1>10, <1>11, Zenon DEF Blank
<1>. QED  BY <1>12

\* a line with text has a row with text
LEMMA LinesHaveText ==
    ASSUME media # "pdf", IsMarkdown(source), NEW i \in DOMAIN source, ~ Blank(TextOf(i))
    PROVE  \E k \in DOMAIN source[i].pieces : ~ Blank(source[i].pieces[k])
<1>. DEFINE pieces == source[i].pieces
            l      == Len(pieces)
            ended  == [k \in DOMAIN pieces |-> Ended(pieces[k])]
<1>1. pieces \in Seq(Text)
  <2>1. source[i] \in SourceLine
    BY LenProperties, ElementOfSeq DEF IsMarkdown
  <2>. QED  BY <2>1 DEF SourceLine
<1>2. l \in Nat /\ DOMAIN pieces = 1 .. l /\ \A k \in 1 .. l : pieces[k] \in Text
  BY <1>1, LenProperties, ElementOfSeq
<1>3. TextOf(i) = FlattenSeq(ended)
  BY Zenon DEF TextOf, Ended
<1>. HIDE DEF pieces, l
<1>4. ended = [k \in 1 .. l |-> Ended(pieces[k])]
  BY <1>2
<1>5. \A k \in 1 .. l : Ended(pieces[k]) \in Text
  BY <1>2, EndedIsText
<1>6. Len(ended) = l /\ (l = 0 => ended = <<>>) /\ \A k \in 1 .. l : ended[k] = Ended(pieces[k])
  BY <1>2, <1>4
<1>. HIDE DEF ended
<1>7. PICK k \in 1 .. l : ~ Blank(ended[k])
  BY <1>2, <1>3, <1>5, <1>6, FlatTextHasPiece
<1>8. ~ Blank(Ended(pieces[k]))
  BY <1>6, <1>7
<1>9. ~ Blank(pieces[k])
  BY <1>2, <1>8, BlankEnds, Zenon DEF Ended
<1>. QED  BY <1>2, <1>9 DEF pieces

\* and so has a heading
LEMMA HeadingsHaveText ==
    ASSUME IsMarkdown(source), source \in MarkdownFiles, NEW i \in DOMAIN source, source[i].level > 0
    PROVE  \E k \in DOMAIN source[i].pieces : ~ Blank(source[i].pieces[k])
<1>. DEFINE pieces == source[i].pieces
            l      == Len(pieces)
<1>1. pieces \in Seq(Text)
  <2>1. source[i] \in SourceLine
    BY LenProperties, ElementOfSeq DEF IsMarkdown
  <2>. QED  BY <2>1 DEF SourceLine
<1>2. l \in Nat /\ DOMAIN pieces = 1 .. l /\ \A k \in 1 .. l : pieces[k] \in Text /\ (l = 0 => pieces = <<>>)
  BY <1>1, LenProperties, ElementOfSeq
<1>3. ~ Blank(FlattenSeq(pieces))
  BY ExtractionAssumption
<1>4. l = 0 => pieces = <<>>
  BY <1>1, EmptySeq
<1>. HIDE DEF pieces
<1>. QED  BY <1>2, <1>3, <1>4, FlatTextHasPiece DEF pieces

\* the rows of a line are among the rows
LEMMA RowsAreKept ==
    ASSUME IsMarkdown(source), NEW i \in DOMAIN source, NEW k \in DOMAIN source[i].pieces
    PROVE  \E p \in 1 .. Len(Lines(source)) : /\ Lines(source)[p].line = i
                                              /\ Lines(source)[p].piece = source[i].pieces[k]
<1>. DEFINE n     == Len(source)
            Of(x) == [y \in DOMAIN source[x].pieces |-> [line |-> x, piece |-> source[x].pieces[y]]]
            seqs  == [x \in DOMAIN source |-> Of(x)]
<1>1. n \in Nat /\ DOMAIN source = 1 .. n /\ \A x \in 1 .. n : source[x] \in SourceLine
  BY LenProperties, ElementOfSeq DEF IsMarkdown
<1>2. ASSUME NEW x \in 1 .. n
      PROVE  /\ Of(x) \in Seq(Line) /\ Len(Of(x)) \in Nat /\ DOMAIN source[x].pieces = 1 .. Len(Of(x))
             /\ \A y \in 1 .. Len(Of(x)) : Of(x)[y].line = x /\ Of(x)[y].piece = source[x].pieces[y]
  <2>. DEFINE pieces == source[x].pieces
              l      == Len(pieces)
  <2>1. pieces \in Seq(Text) /\ x \in Nat
    BY <1>1 DEF SourceLine
  <2>2. l \in Nat /\ DOMAIN pieces = 1 .. l /\ \A y \in 1 .. l : pieces[y] \in Text
    BY <2>1, LenProperties, ElementOfSeq
  <2>3. Of(x) = [y \in 1 .. l |-> [line |-> x, piece |-> pieces[y]]]
    BY <2>2
  <2>. HIDE DEF Of, pieces, l, n
  <2>4. ASSUME NEW y \in 1 .. l PROVE [line |-> x, piece |-> pieces[y]] \in Line
    BY <2>1, <2>2 DEF Line
  <2>5. Of(x) \in [1 .. l -> Line]
    BY <2>3, <2>4
  <2>6. Of(x) \in Seq(Line) /\ Len(Of(x)) = l
    BY <2>2, <2>5
  <2>7. \A y \in 1 .. l : Of(x)[y].line = x /\ Of(x)[y].piece = pieces[y]
    BY <2>3
  <2>. QED  BY <2>2, <2>6, <2>7 DEF pieces
<1>. HIDE DEF Of
<1>3. Lines(source) = FlattenSeq(seqs)
  BY DEF Lines, Of
<1>4. seqs = [x \in 1 .. n |-> Of(x)]
  BY <1>1
<1>. HIDE DEF seqs, n
<1>5. Len(seqs) = n /\ (n = 0 => seqs = <<>>) /\ \A x \in 1 .. n : seqs[x] = Of(x)
  BY <1>1, <1>4
<1>6. \A x \in 1 .. n : seqs[x] \in Seq(Line) /\ Len(seqs[x]) \in Nat
  BY <1>2, <1>5
<1>7. PICK off : AreOffsets(off, n, seqs)
  BY <1>1, <1>6, OffsetsExist
<1>. DEFINE flat == Lines(source)
<1>8. flat \in Seq(Line) /\ IsSpread(flat, off, n, seqs)
  BY <1>1, <1>3, <1>5, <1>6, <1>7, FlattenIsSpread
<1>. HIDE DEF flat
<1>9. i \in 1 .. n /\ k \in 1 .. Len(seqs[i]) /\ seqs[i] = Of(i)
  BY <1>1, <1>2, <1>5
<1>. DEFINE p == off[i - 1] + k
<1>10. flat[p] = seqs[i][k] /\ off[i] <= off[n] /\ Len(flat) = off[n]
  BY <1>8, <1>9 DEF IsSpread
<1>11. p \in 1 .. Len(flat)
  <2>. DEFINE a == off[i - 1]
              b == off[i]
              c == off[n]
              l == Len(seqs[i])
  <2>1. a \in Nat /\ b \in Nat /\ c \in Nat /\ l \in Nat /\ b = a + l /\ b <= c /\ k \in 1 .. l
    <3>1. i - 1 \in 0 .. n /\ i \in 0 .. n /\ n \in 0 .. n
      BY <1>1, <1>9
    <3>. QED  BY <1>6, <1>7, <1>9, <1>10, <3>1 DEF AreOffsets
  <2>. HIDE DEF a, b, c, l
  <2>2. a + k \in 1 .. c
    BY <2>1
  <2>. QED  BY <1>10, <2>2 DEF a, c
<1>12. flat[p].line = i /\ flat[p].piece = source[i].pieces[k]
  BY <1>2, <1>9, <1>10
<1>. QED  BY <1>11, <1>12 DEF flat
---------------------------------------------------------------------------
(* Rows without a section are headings *)

LEMMA CutsHaveText ==
    ASSUME NEW lines \in Seq(Line), NEW a \in Nat \ {0}, NEW b \in Nat, b <= Len(lines),
           NEW p \in a .. b, ~ Blank(lines[p].piece)
    PROVE  HasText(SubSeq(lines, a, b))
<1>. DEFINE body == SubSeq(lines, a, b)
            k    == p - a + 1
<1>1. Len(lines) \in Nat
  BY LenProperties
<1>2. \A i \in a .. b : i \in 1 .. Len(lines)
  BY <1>1
<1>3. \A i \in a .. b : lines[i] \in Line
  BY <1>2, ElementOfSeq
<1>4. /\ body \in Seq(Line) /\ Len(body) = b - a + 1
      /\ \A i \in 1 .. b - a + 1 : body[i] = lines[a + i - 1]
  <2>1. a <= b
    OBVIOUS
  <2>. QED  BY <1>3, <2>1, SubSeqProperties
<1>. HIDE DEF body
<1>5. k \in 1 .. b - a + 1 /\ a + k - 1 = p
  OBVIOUS
<1>6. DOMAIN body = 1 .. b - a + 1
  BY <1>4, LenProperties
<1>. HIDE DEF k
<1>7. ~ Blank(body[k].piece)
  BY <1>4, <1>5
<1>. QED  BY <1>5, <1>6, <1>7 DEF HasText, body

\* where the rows under a heading are
LEMMA RowsUnderHeading ==
    ASSUME IsMarkdown(source), NEW k \in 1 .. Len(Headings(source))
    PROVE  LET hs    == Headings(source)
               lines == Lines(source)
               end   == NextLine(hs, k, lines) - 1
           IN  /\ hs[k].line \in 1 .. Len(source) /\ hs[k].piece \in Text /\ hs[k].line \in Nat \ {0}
               /\ lines \in Seq(Line) /\ Len(lines) \in Nat /\ hs[k].line <= Len(lines)
               /\ end \in Nat /\ end <= Len(lines)
               /\ k < Len(hs) => end = hs[k + 1].line - 1
               /\ k = Len(hs) => end = Len(lines)
<1>. DEFINE hs    == Headings(source)
            n     == Len(hs)
            lines == Lines(source)
            next  == NextLine(hs, k, lines)
<1>1. lines \in Seq(Line) /\ Len(source) \in Nat /\ Len(source) <= Len(lines) /\ Len(lines) \in Nat
  BY LinesAreTyped, LenProperties
<1>2. hs \in Seq(HeadingRecord(source)) /\ n \in Nat
  BY HeadingsAreTyped, LenProperties
<1>3. ASSUME NEW j \in 1 .. n PROVE hs[j].line \in 1 .. Len(source) /\ hs[j].piece \in Text
  <2>1. hs[j] \in HeadingRecord(source)
    BY <1>2, ElementOfSeq
  <2>. QED  BY <2>1 DEF HeadingRecord
<1>4. k \in 1 .. n
  OBVIOUS
<1>5. k < n => next = hs[k + 1].line /\ k + 1 \in 1 .. n
  BY <1>2 DEF NextLine
<1>6. k = n => next = Len(lines) + 1
  BY <1>2 DEF NextLine
<1>. HIDE DEF hs, n, lines, next
<1>7. k < n \/ k = n
  BY <1>2, <1>4
<1>8. next - 1 \in Nat /\ next - 1 <= Len(lines)
  BY <1>1, <1>3, <1>5, <1>6, <1>7
<1>9. hs[k].line \in 1 .. Len(source) /\ hs[k].piece \in Text /\ hs[k].line \in Nat \ {0} /\ hs[k].line <= Len(lines)
  BY <1>1, <1>3, <1>4
<1>10. k = n => next - 1 = Len(lines)
  BY <1>1, <1>6
<1>. QED  BY <1>1, <1>5, <1>8, <1>9, <1>10 DEF hs, n, lines, next

Body(k) == SubSeq(Lines(source), Headings(source)[k].line + 1, NextLine(Headings(source), k, Lines(source)) - 1)
TopBody == SubSeq(Lines(source), 1, Headings(source)[1].line - 1)
FirstRow(k) == [line |-> Headings(source)[k].line, piece |-> Headings(source)[k].piece]

LEMMA BodiesAreLines ==
    ASSUME IsMarkdown(source), NEW k \in 1 .. Len(Headings(source))
    PROVE  /\ Body(k) \in Seq(Line) /\ <<FirstRow(k)>> \in Seq(Line)
           /\ k = 1 => TopBody \in Seq(Line)
<1>. DEFINE hs    == Headings(source)
            lines == Lines(source)
            end   == NextLine(hs, k, lines) - 1
            h     == hs[k].line
<1>1. /\ h \in Nat \ {0} /\ hs[k].piece \in Text
      /\ lines \in Seq(Line) /\ Len(lines) \in Nat /\ h <= Len(lines)
      /\ end \in Nat /\ end <= Len(lines)
  BY RowsUnderHeading
<1>2. FirstRow(k) \in Line
  BY <1>1 DEF FirstRow, Line
<1>3. Body(k) = SubSeq(lines, h + 1, end) /\ (k = 1 => TopBody = SubSeq(lines, 1, h - 1))
  BY DEF Body, TopBody
<1>. HIDE DEF lines, end, h
<1>4. h + 1 \in Nat \ {0} /\ h - 1 \in Nat /\ h - 1 <= Len(lines) /\ 1 \in Nat \ {0}
  BY <1>1
<1>5. SubSeq(lines, h + 1, end) \in Seq(Line) /\ SubSeq(lines, 1, h - 1) \in Seq(Line)
  BY <1>1, <1>4, LinesAreCut
<1>. QED  BY <1>2, <1>3, <1>5, OnesAreSequences

\* what there is of sections, all with text
TopSection == [path |-> <<>>, page |-> NoPage, lines |-> TopBody]
UnderSection(k) == [path  |-> HeadingPath(Headings(source), k), page |-> NoPage,
                    lines |-> <<FirstRow(k)>> \o Body(k)]
WithText == {section \in {TopSection} \union {UnderSection(k) : k \in 1 .. Len(Headings(source))} :
                section.lines \in Seq(Line) /\ HasText(section.lines)}

LEMMA UnderHeadingHasText ==
    ASSUME IsMarkdown(source), NEW k \in 1 .. Len(Headings(source))
    PROVE  LET more == UnderHeading(Headings(source), k, Lines(source))
           IN  /\ more \in Seq(WithText)
               /\ more = <<>> => ~ HasText(Body(k))
<1>. DEFINE more == UnderHeading(Headings(source), k, Lines(source))
            S    == UnderSection(k)
            row  == <<FirstRow(k)>>
            body == Body(k)
<1>1. body \in Seq(Line) /\ row \in Seq(Line)
  BY BodiesAreLines
<1>2. more = IF HasText(body) THEN <<S>> ELSE <<>>
  BY DEF UnderHeading, UnderSection, Body, FirstRow
<1>3. S.lines = row \o body
  BY DEF UnderSection
<1>4. ASSUME HasText(body) PROVE HasText(row \o body) /\ row \o body \in Seq(Line)
  <2>. HIDE DEF row, body
  <2>. DEFINE all == row \o body
              l   == Len(row)
  <2>1. /\ all \in Seq(Line) /\ l \in Nat /\ Len(body) \in Nat /\ Len(all) = l + Len(body)
        /\ \A i \in 1 .. Len(body) : all[l + i] = body[i]
    BY <1>1, ConcatHasBoth DEF IsConcat
  <2>2. DOMAIN body = 1 .. Len(body) /\ DOMAIN all = 1 .. Len(all)
    BY <1>1, <2>1, LenProperties
  <2>3. PICK i \in 1 .. Len(body) : ~ Blank(body[i].piece)
    BY <1>4, <2>2 DEF HasText
  <2>. HIDE DEF all, l
  <2>4. l + i \in 1 .. Len(all) /\ all[l + i] = body[i]
    BY <2>1
  <2>. QED  BY <2>1, <2>2, <2>3, <2>4 DEF HasText, all
<1>. HIDE DEF more, S, row, body
<1>5. ASSUME HasText(body) PROVE <<S>> \in Seq(WithText)
  <2>1. S \in WithText
    BY <1>3, <1>4, <1>5, Zenon DEF WithText, S
  <2>. QED  BY <2>1, OnesAreSequences
<1>6. <<>> \in Seq(WithText)
  BY EmptySeq
<1>7. <<S>> # <<>>
  OBVIOUS
<1>8. more \in Seq(WithText) /\ (more = <<>> => ~ HasText(body))
  BY <1>2, <1>5, <1>6, <1>7
<1>. QED  BY <1>8 DEF more, body

LEMMA PreambleHasText ==
    ASSUME IsMarkdown(source), 1 \in 1 .. Len(Headings(source))
    PROVE  LET more == Preamble(Headings(source), Lines(source))
           IN  /\ more \in Seq(WithText)
               /\ more = <<>> => ~ HasText(TopBody)
<1>. DEFINE more == Preamble(Headings(source), Lines(source))
            S    == TopSection
            body == TopBody
<1>1. body \in Seq(Line)
  BY BodiesAreLines
<1>2. more = IF HasText(body) THEN <<S>> ELSE <<>>
  BY DEF Preamble, TopSection, TopBody
<1>3. S.lines = body
  BY DEF TopSection
<1>. HIDE DEF more, S, body
<1>5. ASSUME HasText(body) PROVE <<S>> \in Seq(WithText)
  <2>1. S \in WithText
    BY <1>1, <1>3, <1>5, Zenon DEF WithText, S
  <2>. QED  BY <2>1, OnesAreSequences
<1>6. <<>> \in Seq(WithText)
  BY EmptySeq
<1>7. <<S>> # <<>>
  OBVIOUS
<1>8. more \in Seq(WithText) /\ (more = <<>> => ~ HasText(body))
  BY <1>2, <1>5, <1>6, <1>7
<1>. QED  BY <1>8 DEF more, body
---------------------------------------------------------------------------
(* A file without sections has no text but headings *)

\* nothing in a flat sequence means nothing in its parts
LEMMA FlattenOfNothing ==
    ASSUME NEW T, NEW n \in Nat, NEW seqs, \A k \in 1 .. n : seqs[k] \in Seq(T),
           Len(seqs) = n, n = 0 => seqs = <<>>, FlattenSeq(seqs) = <<>>
    PROVE  \A k \in 1 .. n : seqs[k] = <<>>
<1>1. \A k \in 1 .. n : Len(seqs[k]) \in Nat
  BY LenProperties
<1>2. PICK off : AreOffsets(off, n, seqs)
  BY <1>1, OffsetsExist
<1>3. IsSpread(FlattenSeq(seqs), off, n, seqs)
  BY <1>2, FlattenIsSpread
<1>4. off[n] = 0
  <2>1. Len(<<>>) = 0
    OBVIOUS
  <2>. QED  BY <1>3, <2>1 DEF IsSpread
<1>. SUFFICES ASSUME NEW k \in 1 .. n PROVE seqs[k] = <<>>
  OBVIOUS
<1>5. off[k] <= off[n] /\ off[k] = off[k - 1] + Len(seqs[k])
  <2>1. off[k] <= off[n]
    BY <1>3, Zenon DEF IsSpread
  <2>2. off[k] = off[k - 1] + Len(seqs[k])
    BY <1>2, Zenon DEF AreOffsets
  <2>. QED  BY <2>1, <2>2
<1>6. off[k] \in Nat /\ off[k - 1] \in Nat
  <2>1. k \in 0 .. n /\ k - 1 \in 0 .. n
    OBVIOUS
  <2>. QED  BY <1>2, <2>1 DEF AreOffsets
<1>7. Len(seqs[k]) = 0
  BY <1>1, <1>4, <1>5, <1>6
<1>. QED  BY <1>7, EmptySeq

\* the sections of a file under its headings
LEMMA SectionsUnderHeadings ==
    ASSUME IsMarkdown(source), Headings(source) # <<>>
    PROVE  LET n == Len(Headings(source))
           IN  /\ n \in Nat /\ 1 \in 1 .. n
               /\ MarkdownSections(source) \in Seq(WithText)
               /\ MarkdownSections(source) = <<>> =>
                    ~ HasText(TopBody) /\ \A k \in 1 .. n : ~ HasText(Body(k))
<1>. DEFINE hs   == Headings(source)
            n    == Len(hs)
            top  == Preamble(hs, Lines(source))
            seqs == [k \in DOMAIN hs |-> UnderHeading(hs, k, Lines(source))]
            flat == FlattenSeq(seqs)
<1>1. hs \in Seq(HeadingRecord(source))
  BY HeadingsAreTyped
<1>2. n \in Nat /\ DOMAIN hs = 1 .. n /\ n # 0
  BY <1>1, LenProperties, EmptySeq
<1>3. MarkdownSections(source) = top \o flat
  BY DEF MarkdownSections
<1>4. 1 \in 1 .. n
  BY <1>2
<1>5. top \in Seq(WithText) /\ (top = <<>> => ~ HasText(TopBody))
  BY <1>4, PreambleHasText
<1>6. /\ Len(seqs) = n /\ (n = 0 => seqs = <<>>)
      /\ \A k \in 1 .. n : seqs[k] = UnderHeading(hs, k, Lines(source))
  BY <1>2
<1>7. ASSUME NEW k \in 1 .. n PROVE seqs[k] \in Seq(WithText) /\ (seqs[k] = <<>> => ~ HasText(Body(k)))
  BY <1>6, UnderHeadingHasText
<1>. HIDE DEF top, seqs
<1>8. flat \in Seq(WithText)
  <2>. HIDE DEF n, hs
  <2>. QED  BY <1>2, <1>6, <1>7, FlattenIsTyped
<1>. HIDE DEF flat
<1>9. top \o flat \in Seq(WithText) /\ Len(top \o flat) = Len(top) + Len(flat) /\ Len(top) \in Nat /\ Len(flat) \in Nat
  BY <1>5, <1>8, ConcatHasBoth DEF IsConcat
<1>10. ASSUME MarkdownSections(source) = <<>>
       PROVE  ~ HasText(TopBody) /\ \A k \in 1 .. n : ~ HasText(Body(k))
  <2>1. Len(top \o flat) = 0
    BY <1>3, <1>10
  <2>2. Len(top) = 0 /\ Len(flat) = 0
    BY <1>9, <2>1
  <2>3. top = <<>> /\ flat = <<>>
    BY <1>5, <1>8, <2>2, EmptySeq
  <2>4. \A k \in 1 .. n : seqs[k] = <<>>
    <3>. HIDE DEF n, hs
    <3>. QED  BY <1>2, <1>6, <1>7, <2>3, FlattenOfNothing DEF flat
  <2>. QED  BY <1>5, <1>7, <2>3, <2>4
<1>. QED  BY <1>2, <1>3, <1>4, <1>9, <1>10 DEF n, hs

\* then only headings stand where rows have text
LEMMA OnlyHeadingsHaveText ==
    ASSUME IsMarkdown(source), Headings(source) # <<>>, MarkdownSections(source) = <<>>,
           NEW p \in 1 .. Len(Lines(source)), ~ Blank(Lines(source)[p].piece)
    PROVE  \E k \in 1 .. Len(Headings(source)) : Headings(source)[k].line = p
<1>. DEFINE hs    == Headings(source)
            n     == Len(hs)
            lines == Lines(source)
            H(k)  == hs[k].line
            End(k) == NextLine(hs, k, lines) - 1
<1>1. n \in Nat /\ 1 \in 1 .. n /\ ~ HasText(TopBody) /\ \A k \in 1 .. n : ~ HasText(Body(k))
  BY SectionsUnderHeadings
<1>2. ASSUME NEW k \in 1 .. n
      PROVE  /\ H(k) \in Nat \ {0} /\ H(k) <= Len(lines)
             /\ lines \in Seq(Line) /\ Len(lines) \in Nat
             /\ End(k) \in Nat /\ End(k) <= Len(lines)
             /\ k < n => End(k) = H(k + 1) - 1
             /\ k = n => End(k) = Len(lines)
  BY RowsUnderHeading
<1>3. \A k \in 1 .. n : Body(k) = SubSeq(lines, H(k) + 1, End(k))
  BY DEF Body
<1>4. TopBody = SubSeq(lines, 1, H(1) - 1)
  BY DEF TopBody
<1>5. p \in 1 .. Len(lines) /\ ~ Blank(lines[p].piece)
  OBVIOUS
<1>. SUFFICES ASSUME \A k \in 1 .. n : H(k) # p PROVE FALSE
  OBVIOUS
<1>. HIDE DEF hs, n, lines, H, End
<1>6. lines \in Seq(Line) /\ Len(lines) \in Nat /\ p \in Nat
  <2>1. lines \in Seq(Line) /\ Len(lines) \in Nat
    BY <1>1, <1>2
  <2>. QED  BY <1>5, <2>1
<1>7. CASE p < H(1)
  <2>1. H(1) - 1 \in Nat /\ H(1) - 1 <= Len(lines) /\ p \in 1 .. H(1) - 1 /\ 1 \in Nat \ {0}
    BY <1>1, <1>2, <1>5, <1>7
  <2>2. HasText(TopBody)
    BY <1>4, <1>5, <1>6, <2>1, CutsHaveText
  <2>. QED  BY <1>1, <2>2
<1>8. CASE ~ p < H(1)
  <2>. DEFINE S == {k \in 1 .. n : H(k) < p}
  <2>1. S \in SUBSET Nat /\ \A k \in S : k <= n
    BY <1>1
  <2>2. 1 \in S
    <3>1. H(1) \in Nat /\ H(1) # p
      BY <1>1, <1>2
    <3>. QED  BY <1>1, <1>6, <1>8, <3>1
  <2>3. PICK k \in S : \A x \in S : k >= x
    BY <1>1, <2>1, <2>2, LargestExists
  <2>4. k \in 1 .. n /\ H(k) < p
    OBVIOUS
  <2>5. p <= End(k)
    <3>1. CASE k < n
      <4>1. k + 1 \in 1 .. n /\ ~ k >= k + 1
        BY <1>1, <2>4, <3>1
      <4>2. ~ H(k + 1) < p /\ H(k + 1) # p /\ H(k + 1) \in Nat
        BY <1>2, <2>3, <4>1
      <4>. QED  BY <1>2, <1>6, <2>4, <3>1, <4>2
    <3>2. CASE k = n
      BY <1>2, <1>5, <2>4, <3>2
    <3>. QED  BY <1>1, <2>4, <3>1, <3>2
  <2>6. H(k) + 1 \in Nat \ {0} /\ p \in H(k) + 1 .. End(k) /\ End(k) \in Nat /\ End(k) <= Len(lines)
    BY <1>2, <1>6, <2>4, <2>5
  <2>7. HasText(Body(k))
    BY <1>3, <1>5, <1>6, <2>4, <2>6, CutsHaveText
  <2>. QED  BY <1>1, <2>4, <2>7
<1>. QED  BY <1>7, <1>8
---------------------------------------------------------------------------
(* Refused files *)

LEMMA FilesWithoutSections ==
    ASSUME media # "pdf", IsMarkdown(source), source \in MarkdownFiles,
           ~ HasText(Lines(source)) \/ MarkdownSections(source) = <<>>
    PROVE  BodyLines = {}
<1>. DEFINE lines == Lines(source)
            N == Len(source)
            L == Len(lines)
            Row(p) == lines[p].line
            P == {p \in 1 .. L : ~ Blank(lines[p].piece)}
            H == {i \in 1 .. N : source[i].level > 0}
            T == {Row(p) : p \in P}
            f == [p \in P |-> Row(p)]
<1>1. N \in Nat /\ DOMAIN source = 1 .. N /\ L \in Nat /\ DOMAIN lines = 1 .. L
  BY LinesAreTyped, LenProperties DEF IsMarkdown
\* a line with text has a row
<1>2. ASSUME NEW i \in DOMAIN source, \E k \in DOMAIN source[i].pieces : ~ Blank(source[i].pieces[k])
      PROVE  \E p \in P : lines[p].line = i
  <2>1. PICK k \in DOMAIN source[i].pieces : ~ Blank(source[i].pieces[k])
    BY <1>2
  <2>2. PICK p \in 1 .. L : lines[p].line = i /\ lines[p].piece = source[i].pieces[k]
    BY RowsAreKept
  <2>. QED  BY <2>1, <2>2
<1>3. \A i \in H : \E p \in P : lines[p].line = i
  BY <1>1, <1>2, HeadingsHaveText
<1>4. \A i \in BodyLines : i \in 1 .. N /\ i \notin H /\ \E p \in P : lines[p].line = i
  <2>. SUFFICES ASSUME NEW i \in BodyLines
                PROVE  i \in 1 .. N /\ i \notin H /\ \E p \in P : lines[p].line = i
    OBVIOUS
  <2>1. i \in DOMAIN source /\ ~ Blank(TextOf(i)) /\ source[i].level = 0
    BY DEF BodyLines
  <2>2. \E k \in DOMAIN source[i].pieces : ~ Blank(source[i].pieces[k])
    BY <2>1, LinesHaveText
  <2>. QED  BY <1>1, <1>2, <2>1, <2>2
<1>5. CASE ~ HasText(lines)
  <2>1. P = {}
    BY <1>1, <1>5 DEF HasText
  <2>. QED  BY <1>4, <2>1
<1>6. CASE MarkdownSections(source) = <<>>
  <2>1. Headings(source) # <<>>
    <3>1. \A x : <<x>> # <<>>
      OBVIOUS
    <3>. QED  BY <1>6, <3>1, Zenon DEF MarkdownSections
  <2>2. P \subseteq H
    <3>. SUFFICES ASSUME NEW p \in P PROVE p \in H
      OBVIOUS
    <3>1. PICK k \in 1 .. Len(Headings(source)) : Headings(source)[k].line = p
      BY <1>6, <2>1, OnlyHeadingsHaveText
    <3>2. Headings(source)[k].level > 0 /\ Headings(source)[k].level = source[Headings(source)[k].line].level
      BY HeadingsAreTyped
    <3>3. p \in 1 .. N
      BY <3>1, RowsUnderHeading
    <3>. QED  BY <3>1, <3>2, <3>3
  <2>3. IsFiniteSet(H)
    <3>1. IsFiniteSet(1 .. N)
      BY <1>1, FS_Interval
    <3>. QED  BY <3>1, FS_Subset
  <2>4. IsFiniteSet(P) /\ Cardinality(P) <= Cardinality(H)
    BY <2>2, <2>3, FS_Subset
  <2>5. IsFiniteSet(T) /\ Cardinality(T) <= Cardinality(P)
    <3>1. f \in Surjection(P, T)
      <4>1. f \in [P -> T] /\ \A t \in T : \E p \in P : f[p] = t
        OBVIOUS
      <4>. HIDE DEF f, T, P
      <4>. QED  BY <4>1 DEF Surjection
    <3>. HIDE DEF f, T, P
    <3>. QED  BY <2>4, <3>1, FS_Surjection
  <2>. SUFFICES ASSUME NEW b \in BodyLines PROVE FALSE
    OBVIOUS
  <2>6. H \union {b} \in SUBSET T
    BY <1>3, <1>4
  <2>7. b \notin H
    BY <1>4
  <2>. HIDE DEF T, P, H
  <2>8. Cardinality(H \union {b}) = Cardinality(H) + 1
    BY <2>3, <2>7, FS_AddElement
  <2>9. Cardinality(H \union {b}) <= Cardinality(T)
    BY <2>5, <2>6, FS_Subset
  <2>10. Cardinality(H) \in Nat /\ Cardinality(P) \in Nat /\ Cardinality(T) \in Nat
    BY <2>3, <2>4, <2>5, FS_CardinalityType
  <2>. QED  BY <2>4, <2>5, <2>8, <2>9, <2>10
<1>. QED  BY <1>5, <1>6

\* all that was extracted has text
LEMMA ExtractedHasText ==
    ASSUME PlacesInv, outcome = "sections"
    PROVE  /\ \E paths : sections \in Seq(SectionOf(paths))
           /\ \A s \in 1 .. Len(sections) : sections[s].lines \in Seq(Line) /\ HasText(sections[s].lines)
           /\ sections = <<>> => BodyLines = {}
<1>1. CASE media = "markdown"
  <2>1. /\ IsMarkdown(source) /\ source \in MarkdownFiles /\ media # "pdf"
        /\ sections = MarkdownSections(source) /\ HasText(Lines(source))
    BY <1>1 DEF PlacesInv, IsSource, SectionsAreSource
  <2>2. \E paths : sections \in Seq(SectionOf(paths))
    BY <2>1, MarkdownSectionsAreTyped
  <2>3. sections = <<>> => BodyLines = {}
    BY <2>1, FilesWithoutSections
  <2>4. CASE Headings(source) = <<>>
    <3>. DEFINE S == [path |-> <<>>, page |-> NoPage, lines |-> Lines(source)]
    <3>1. sections = <<S>>
      BY <2>1, <2>4 DEF MarkdownSections
    <3>2. S.lines = Lines(source) /\ Lines(source) \in Seq(Line)
      BY <2>1, LinesAreTyped
    <3>. HIDE DEF S
    <3>3. \A s \in 1 .. Len(sections) : sections[s] = S
      BY <3>1
    <3>. QED  BY <2>1, <2>2, <2>3, <3>2, <3>3
  <2>5. CASE Headings(source) # <<>>
    <3>1. sections \in Seq(WithText)
      BY <2>1, <2>5, SectionsUnderHeadings
    <3>2. \A s \in 1 .. Len(sections) : sections[s] \in WithText
      BY <3>1, ElementOfSeq
    <3>. QED  BY <2>2, <2>3, <3>2 DEF WithText
  <2>. QED  BY <2>4, <2>5
<1>2. CASE media = "pdf"
  <2>1. /\ source \in Seq({Broken} \union Text) /\ Broken \notin ToSet(source)
        /\ sections = PdfSections(source)
    BY <1>2 DEF PlacesInv, IsSource, SectionsAreSource
  <2>2. sections \in Seq(PdfSection) /\ Reach(sections, Len(source))
    BY <1>2, <2>1, PdfReaches
  <2>3. sections = <<>> => BodyLines = {}
    <3>1. Len(source) \in Nat /\ DOMAIN source = 1 .. Len(source)
      BY <2>1, LenProperties
    <3>2. \A i \in BodyLines : i <= Len(source)
      BY <3>1, BodyLinesAreNumbers
    <3>3. sections = <<>> => Len(sections) = 0
      OBVIOUS
    <3>. QED  BY <2>2, <3>2, <3>3 DEF Reach
  <2>. QED  BY <2>2, <2>3 DEF PdfSection, Reach, IsStretch
<1>. QED  BY <1>1, <1>2 DEF PlacesInv, IsSource

LEMMA StripsBeginWithToken ==
    ASSUME NEW text \in Text, Marks(text) # {}
    PROVE  0 \in TokenStarts(Strip(text))
<1>. DEFINE min   == Min(Marks(text))
            max   == Max(Marks(text))
            strip == Strip(text)
<1>1. /\ min \in 1 .. Len(text) /\ max \in min .. Len(text) /\ Len(text) \in Nat
      /\ strip \in Text /\ Len(strip) = max - min + 1
      /\ Sits(strip, text, min - 1)
  BY StripSits
<1>2. min \in Marks(text)
  BY MarksAreInside
<1>3. text[min] # " "
  BY <1>2, Zenon DEF Marks
<1>4. 1 \in 1 .. Len(strip) /\ (min - 1) + 1 = min
  BY <1>1
<1>5. strip[1] = text[min]
  BY <1>1, <1>4 DEF Sits
<1>6. strip[1] \in Characters
  <2>1. strip \in Seq(Characters)
    BY <1>1 DEF Text
  <2>. QED  BY <1>4, <2>1, ElementOfSeq
<1>. HIDE DEF strip, min, max
<1>7. strip[1] = "a" \/ strip[1] = "."
  BY <1>3, <1>5, <1>6, Zenon DEF Characters
<1>8. 0 \in 0 .. Len(strip) - 1 /\ 0 + 1 = 1
  BY <1>1
<1>9. 0 \in TokenStarts(strip)
  BY <1>7, <1>8 DEF TokenStarts
<1>. QED  BY <1>9 DEF strip

HasTokens == \E k \in 1 .. Len(normalized) : TokenStarts(normalized[k].text) # {}

\* A file is refused without text, or it would be without chunks of what it has.
RefusedInv ==
    /\ outcome = "normalized" => HasTokens
    /\ outcome = "no_extractable_text" => BodyLines = {} \/ (chunks = <<>> /\ HasTokens)

\* what is normalized of a file with text has tokens
LEMMA NormalizedHaveTokens ==
    ASSUME PlacesInv, outcome = "sections"
    PROVE  LET list == NormalizeSections(SectionTexts)
           IN  IF list = <<>> THEN BodyLines = {}
               ELSE \E k \in 1 .. Len(list) : TokenStarts(list[k].text) # {}
<1>. DEFINE list == NormalizeSections(SectionTexts)
            n    == Len(sections)
<1>1. /\ \E paths : sections \in Seq(SectionOf(paths))
      /\ \A s \in 1 .. n : sections[s].lines \in Seq(Line) /\ HasText(sections[s].lines)
      /\ sections = <<>> => BodyLines = {}
  BY ExtractedHasText
<1>2. PICK paths : sections \in Seq(SectionOf(paths))
  BY <1>1
<1>3. /\ n \in Nat /\ SectionTexts \in Seq(Text) /\ Len(SectionTexts) = n
      /\ \A s \in 1 .. n : SectionTexts[s] = SectionText(sections[s])
  BY <1>2, TextsAreTyped
<1>4. \A s \in 1 .. n : Marks(SectionTexts[s]) # {} /\ SectionTexts[s] \in Text
  BY <1>1, <1>3, SectionsHaveMarks, ElementOfSeq
<1>5. Takes(list, SectionTexts, n)
  BY <1>3, NormalizedTakesAll
<1>6. list \in Layouts /\ Len(list) \in Nat /\ list \in Seq(SectionRecord)
  BY <1>5, LayoutsAreTyped DEF Takes
<1>. HIDE DEF list
<1>7. CASE list = <<>>
  <2>1. Len(list) = 0
    BY <1>7
  <2>2. ~ 1 \in 1 .. n
    BY <1>4, <1>5, <2>1 DEF Takes
  <2>3. n = 0
    BY <1>3, <2>2
  <2>4. sections = <<>>
    BY <1>2, <2>3, EmptySeq
  <2>. QED  BY <1>1, <1>7, <2>4 DEF list
<1>8. CASE list # <<>>
  <2>1. 1 \in 1 .. Len(list)
    <3>1. Len(list) # 0
      BY <1>6, <1>8, EmptySeq
    <3>. QED  BY <1>6, <3>1
  <2>2. list[1].section \in 1 .. n /\ list[1].text = Strip(SectionTexts[list[1].section])
    BY <1>5, <2>1 DEF Takes
  <2>3. 0 \in TokenStarts(list[1].text)
    BY <1>4, <2>2, StripsBeginWithToken
  <2>. QED  BY <1>8, <2>1, <2>3 DEF list
<1>. QED  BY <1>7, <1>8

LEMMA RefusedStart == Init => RefusedInv
BY DEF Init, ExtractionInit, RefusedInv

LEMMA RefusedGoesOn == PlacesInv /\ RefusedInv /\ [Next]_vars => RefusedInv'
<1>. SUFFICES ASSUME PlacesInv, RefusedInv, [Next]_vars PROVE RefusedInv'
  OBVIOUS
<1>1. CASE Extract
  <2>1. /\ media' = media /\ source' = source
        /\ outcome' \in {"sections", "no_extractable_text", "pdf_page_limit_exceeded", "invalid_pdf"}
    BY <1>1 DEF Extract, ExtractMarkdown, ExtractPdf, Refuse, Extracted
  <2>2. BodyLines' = BodyLines
    BY <2>1 DEF BodyLines, TextOf
  <2>3. outcome' = "no_extractable_text" => BodyLines = {}
    <3>1. CASE media = "markdown"
      <4>1. outcome' = "no_extractable_text" => ~ HasText(Lines(source))
        BY <1>1, <3>1 DEF Extract, ExtractMarkdown, ExtractPdf, Refuse, Extracted
      <4>2. IsMarkdown(source) /\ source \in MarkdownFiles /\ media # "pdf"
        BY <3>1 DEF PlacesInv, IsSource
      <4>. QED  BY <4>1, <4>2, FilesWithoutSections
    <3>2. CASE media = "pdf"
      <4>1. ExtractPdf /\ source \in Seq({Broken} \union Text)
        BY <1>1, <3>2 DEF Extract, ExtractMarkdown, PlacesInv, IsSource
      <4>2. outcome' = "no_extractable_text" => PdfSections(source) = <<>> /\ Broken \notin ToSet(source)
        BY <3>2, <4>1, PdfIsExtracted
      <4>. SUFFICES ASSUME outcome' = "no_extractable_text" PROVE BodyLines = {}
        OBVIOUS
      <4>3. Reach(PdfSections(source), Len(source)) /\ Len(PdfSections(source)) = 0
        BY <3>2, <4>1, <4>2, PdfReaches
      <4>4. Len(source) \in Nat /\ DOMAIN source = 1 .. Len(source)
        BY <4>1, LenProperties
      <4>5. \A i \in BodyLines : i <= Len(source)
        BY <4>4, BodyLinesAreNumbers
      <4>. QED  BY <4>3, <4>5 DEF Reach
    <3>. QED  BY <3>1, <3>2 DEF PlacesInv, IsSource
  <2>. QED  BY <2>1, <2>2, <2>3 DEF RefusedInv
<1>2. CASE NormalizeExtracted
  <2>1. /\ media' = media /\ source' = source /\ outcome = "sections"
        /\ normalized' = NormalizeSections(SectionTexts)
        /\ outcome' = IF normalized' = <<>> THEN "no_extractable_text" ELSE "normalized"
    BY <1>2 DEF NormalizeExtracted, Normalize, SectionTexts
  <2>2. BodyLines' = BodyLines
    BY <2>1 DEF BodyLines, TextOf
  <2>3. IF normalized' = <<>> THEN BodyLines = {}
        ELSE \E k \in 1 .. Len(normalized') : TokenStarts(normalized'[k].text) # {}
    BY <2>1, NormalizedHaveTokens
  <2>. QED  BY <2>1, <2>2, <2>3 DEF RefusedInv, HasTokens
<1>3. CASE ChunkNormalized
  <2>1. /\ media' = media /\ source' = source /\ normalized' = normalized
        /\ outcome = "normalized"
        /\ outcome' = IF chunks' = <<>> THEN "no_extractable_text" ELSE "chunks"
    BY <1>3 DEF ChunkNormalized, Chunk
  <2>2. HasTokens' = HasTokens
    BY <2>1 DEF HasTokens
  <2>. QED  BY <2>1, <2>2 DEF RefusedInv
<1>4. CASE UNCHANGED vars
  <2>1. /\ media' = media /\ source' = source /\ normalized' = normalized
        /\ outcome' = outcome /\ chunks' = chunks
    BY <1>4 DEF vars, extractionVars, chunkingVars
  <2>2. HasTokens' = HasTokens /\ BodyLines' = BodyLines
    BY <2>1 DEF HasTokens, BodyLines, TextOf
  <2>. QED  BY <2>1, <2>2 DEF RefusedInv
<1>. QED  BY <1>1, <1>2, <1>3, <1>4 DEF Next

\* what has tokens has chunks
LEMMA RefusedHaveNoText ==
    ASSUME PipelineInv, RefusedInv
    PROVE  OnlyEmptyFilesAreRefused
<1>. SUFFICES ASSUME outcome = "no_extractable_text", chunks = <<>>, HasTokens PROVE FALSE
  BY DEF OnlyEmptyFilesAreRefused, RefusedInv
<1>. DEFINE full  == TextOfAll(normalized)
            found == Tokens(full)
<1>1. PICK k \in 1 .. Len(normalized) : TokenStarts(normalized[k].text) # {}
  BY DEF HasTokens
<1>2. PICK i : i \in TokenStarts(normalized[k].text)
  BY <1>1
<1>3. normalized \in Layouts /\ full \in Text
  BY MarksHaveSections DEF PipelineInv
<1>4. normalized[k].start + i \in TokenStarts(full)
  BY <1>2, <1>3, TokensMove
<1>5. normalized # <<>>
  <2>1. Len(<<>>) = 0
    OBVIOUS
  <2>2. Len(normalized) # 0
    BY <1>1
  <2>. QED  BY <2>1, <2>2
<1>6. chunks = Found(normalized)
  BY <1>5 DEF PipelineInv, ChunksFit
<1>. HIDE DEF full
<1>7. PICK q \in 1 .. Len(found) : found[q].start = normalized[k].start + i
  BY <1>3, <1>4, TokensAreInOrder DEF AreTokens
<1>8. found[q] \in ToSet(found)
  <2>1. DOMAIN found = 1 .. Len(found)
    BY <1>3, TokensAreInOrder DEF AreTokens
  <2>. HIDE DEF found
  <2>. QED  BY <2>1 DEF ToSet
<1>9. \E c \in DOMAIN chunks : Within(found[q], chunks[c])
  BY <1>6, <1>8, FoundCover DEF full
<1>10. DOMAIN chunks = {}
  OBVIOUS
<1>. QED  BY <1>9, <1>10

\* A file is refused for want of text only if no line or page has any, line
\* breaks of whatever kind included.
THEOREM RefusedFilesAreEmpty == Spec => []OnlyEmptyFilesAreRefused
<1>1. Init => PipelineInv /\ PlacesInv /\ RefusedInv
  BY PipelineStarts, PlacesStart, RefusedStart
<1>2. PipelineInv /\ PlacesInv /\ RefusedInv /\ [Next]_vars => (PipelineInv /\ PlacesInv /\ RefusedInv)'
  BY PipelineGoesOn, PlacesGoOn, RefusedGoesOn
<1>3. PipelineInv /\ RefusedInv => OnlyEmptyFilesAreRefused
  BY RefusedHaveNoText
<1>. QED  BY <1>1, <1>2, <1>3, PTL DEF Spec
=============================================================================
