---------------------------- MODULE MCPipeline ----------------------------
(* Every short file made of a few kinds of lines or pages. *)
EXTENDS Pipeline

CONSTANTS
    MaxLines, MaxPages,
    MaxLength,    \* characters of all pages together
    Breaks        \* whether a line may hold a foreign line break

Headings1To3 == [level : 1 .. 3, pieces : {<< <<"a">> >>}]
PlainLines   == [level : {0}, pieces : {<< <<"a", " ", "a">> >>, << <<" ">> >>}]
BrokenLines  == [level : {0}, pieces : {<< <<"a">>, <<"a">> >>}]

SomeLines == Headings1To3 \union PlainLines \union (IF Breaks THEN BrokenLines ELSE {})

Files(kinds, most) == UNION {[1 .. n -> kinds] : n \in 0 .. most}

SomeMarkdown == Files(SomeLines, MaxLines)

\* pages of every text, or many pages of little
Texts(most) == {text \in UNION {[1 .. n -> {"a", ".", " "}] : n \in 1 .. most} : ~Blank(text)}

SomePdfs ==
    {<<page>> : page \in Texts(MaxLength)} \union
    {pair \in Texts(MaxLength - 1) \X Texts(MaxLength - 1) :
        Len(pair[1]) + Len(pair[2]) <= MaxLength} \union
    {triple \in Texts(MaxLength - 2) \X Texts(MaxLength - 2) \X Texts(MaxLength - 2) :
        Len(triple[1]) + Len(triple[2]) + Len(triple[3]) <= MaxLength} \union
    Files({<<"a">>, <<" ">>, Broken}, MaxPages)

\* what the theorems about the lines of a file suppose
ASSUME UnbrokenInstance == ~Breaks => UnbrokenLines
===========================================================================
