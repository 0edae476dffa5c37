--------------------------- MODULE IndexProjection ---------------------------
(***************************************************************************)
(* loadIndex of index.mjs: the bounded projection of README.md that is     *)
(* injected into prompts.  A README longer than the budget is cut at an    *)
(* authored boundary and ends with a truncation marker.                    *)
(*                                                                         *)
(* Markdown is a sequence of lines, all but the last complete (ended by a  *)
(* newline); a line has a kind and a length in code points.  A line with a *)
(* run of backticks or tildes says where the run starts, how long it is    *)
(* and whether there are backticks behind it.  Two kinds of lines stand    *)
(* for those on which fenceDelimiter and CommonMark disagree: a run behind *)
(* a list marker, which the code takes for text, and a run of backticks    *)
(* with a backtick behind it, which CommonMark takes for text.  Lists in   *)
(* lists, block quotes and HTML blocks have no lines here.                 *)
(*                                                                         *)
(* The module has one variable, the README an author writes line by line.  *)
(***************************************************************************)
EXTENDS Naturals, Sequences, SequencesExt, FiniteSetsExt

CONSTANTS
    Line,           \* the lines an author may write
    MaxLines,       \* bound: lines of the README
    Maximum,        \* MAX_INJECTED_INDEX_CODE_POINTS
    MarkerBudget    \* code points of the marker with the newlines around it

VARIABLE readme

Plain(kind, len) ==
    [kind |-> kind, len |-> len, char |-> "none", size |-> 0, indent |-> 0, ticks |-> FALSE]

\* A run of size characters at column indent with more code points behind it; if ticks, the
\* last of them is a backtick.
Delimiter(kind, indent, char, size, more, ticks) ==
    [kind |-> kind, len |-> indent + size + more, char |-> char, size |-> size,
     indent |-> indent, ticks |-> ticks]

ListIndent == 2     \* the width of "- "
Fence(char, size, info) == Delimiter("fence", 0, char, size, info, FALSE)
Indented(char, size, info) == Delimiter("fence", ListIndent, char, size, info, FALSE)
Item(char, size, info) == Delimiter("item", ListIndent, char, size, info, FALSE)
Ticked(size, info) == Delimiter("fence", 0, "backtick", size, info, TRUE)
Blank == Plain("blank", 0)
Marker == Plain("text", MarkerBudget - 3)

WrapperLength == 13     \* fence lines of fencedBlockFallback with their newlines
Indent == 4

ASSUME ProjectionAssumption ==
    /\ MaxLines \in Nat /\ MarkerBudget \in Nat /\ MarkerBudget > 3
    /\ Maximum \in Nat /\ Maximum > MarkerBudget + WrapperLength + Indent
    /\ \A l \in Line :
          /\ l.len \in Nat /\ l.indent \in Nat
          /\ l.kind \in {"fence", "item"} => l.size \in Nat /\ l.size >= 3 /\ l.indent + l.size <= l.len
          /\ l.ticks => l.kind = "fence" /\ l.indent = 0 /\ l.char = "backtick" /\ l.size + 2 <= l.len

----------------------------------------------------------------------------
(* Text                                                                    *)

\* The code points before each line, and before the line that would follow the last one.
Starts(doc) ==
    LET start[i \in 1..Len(doc) + 1] == IF i = 1 THEN 0 ELSE start[i - 1] + doc[i - 1].len + 1 IN start
Start(doc, i) == Starts(doc)[i]
Length(doc) == IF doc = <<>> THEN 0 ELSE Start(doc, Len(doc) + 1) - 1

\* What is left of a line that is cut after n code points.
Cut(line, n) ==
    LET delimiter == line.kind \in {"fence", "item"}
        white == IF line.kind = "item" THEN 0 ELSE line.indent
        behind == n - line.indent
        run == Min({behind, line.size})
        kind == IF delimiter THEN "text"
                ELSE IF line.kind = "hashtag" /\ n = white + 1 THEN "heading" ELSE line.kind
    IN IF n >= line.len THEN line
       ELSE IF n <= white THEN Plain("blank", n)
       ELSE IF delimiter /\ behind >= 3
       THEN Delimiter(line.kind, line.indent, line.char, run, behind - run, FALSE)
       ELSE Delimiter(kind, white, "none", 0, n - white, FALSE)

\* unicodePrefix
UnicodePrefix(doc, n) ==
    IF n >= Length(doc) THEN doc
    ELSE LET i == Max({j \in DOMAIN doc : Start(doc, j) <= n})
         IN Append(SubSeq(doc, 1, i - 1), Cut(doc[i], n - Start(doc, i)))

\* trimEnd
TrimEnd(doc) == SubSeq(doc, 1, Max({0} \cup {i \in DOMAIN doc : doc[i].kind # "blank"}))
IsBlank(doc) == TrimEnd(doc) = <<>>

----------------------------------------------------------------------------
(* markdownBoundaries                                                      *)

\* Mutant: a fence is closed by any fence of its character.
ClosesAnyFence(line, fence) ==
    line.kind = "fence" /\ line.char = fence.char /\ line.len = line.indent + line.size

ClosesFence(line, fence) ==
    /\ line.kind = "fence" /\ line.char = fence.char
    /\ line.len = line.indent + line.size /\ line.size >= fence.size

\* The fence that is open before line i; a blank stands for null.
OpenFence(doc) ==
    LET open[i \in 1..Len(doc) + 1] ==
            IF i = 1 THEN Blank
            ELSE IF open[i - 1] # Blank
            THEN IF ClosesFence(doc[i - 1], open[i - 1]) THEN Blank ELSE open[i - 1]
            ELSE IF doc[i - 1].kind = "fence" THEN doc[i - 1] ELSE Blank
    IN open

Boundaries(doc) ==
    LET open == OpenFence(doc)
        Complete == 1..Len(doc) - 1
        Outside == {i \in DOMAIN doc : open[i] = Blank}
        Headings == {i \in Outside : doc[i].kind = "heading"}
        Closing == {i \in Complete \ Outside : ClosesFence(doc[i], open[i])}
        Ends(S) == {Start(doc, i + 1) : i \in S}
    IN [section  |-> {Start(doc, i) : i \in {j \in Headings : \E h \in Headings : h < j}},
        block    |-> Ends(Closing \cup {i \in Complete \cap Outside : doc[i].kind = "blank"}),
        line     |-> Ends(Closing \cup {i \in Complete \cap Outside : doc[i].kind # "fence"}),
        open     |-> open[Len(doc) + 1]]

----------------------------------------------------------------------------
(* projectIndex                                                            *)

\* latestNonWhitespaceBoundary; 0 stands for null.
LatestNonWhitespaceBoundary(doc, S) ==
    LET b == Max({0} \cup S) IN IF IsBlank(UnicodePrefix(doc, b)) THEN 0 ELSE b

Wrapper(fence) == IF fence.char = "backtick" THEN "tilde" ELSE "backtick"

\* fencedBlockFallback: an indented prefix of the source between two fences.
FencedBlockFallback(doc, budget, fence) ==
    LET Used(n) == WrapperLength + n + Indent * Cardinality({i \in DOMAIN doc : Start(doc, i) < n})
        taken == UnicodePrefix(doc, Max({n \in 0..Length(doc) : n = 0 \/ Used(n) <= budget}))
        dangling == IF Used(Length(taken)) + Indent <= budget THEN Indent ELSE 0
        Shifted(i) == IF i = Len(taken) /\ taken[i].len = 0 THEN Plain("blank", dangling)
                      ELSE Plain(IF taken[i].kind = "blank" THEN "blank" ELSE "text", taken[i].len + Indent)
    IN <<Fence(Wrapper(fence), 3, 4)>>
       \o [i \in DOMAIN taken |-> Shifted(i)]
       \o <<Fence(Wrapper(fence), 3, 0), Blank>>

AppendTruncationMarker(body) ==
    IF IsBlank(body) THEN <<Marker, Blank>> ELSE TrimEnd(body) \o <<Blank, Marker, Blank>>

\* The candidate prefix and where it is cut, in order of preference.
Candidate(doc) == UnicodePrefix(doc, Maximum - MarkerBudget)

Cutoff(doc) ==
    LET b == Boundaries(doc)
        Latest(S) == LatestNonWhitespaceBoundary(doc, S)
    IN IF Latest(b.section) # 0 THEN Latest(b.section)
       ELSE IF Latest(b.block) # 0 THEN Latest(b.block)
       ELSE Latest(b.line)

Body(doc) ==
    LET candidate == Candidate(doc)
        open == Boundaries(candidate).open
    IN IF Cutoff(candidate) # 0 THEN UnicodePrefix(candidate, Cutoff(candidate))
       ELSE IF open # Blank THEN FencedBlockFallback(candidate, Maximum - MarkerBudget, open)
       ELSE candidate

ProjectIndex(doc) == IF Length(doc) <= Maximum THEN doc ELSE AppendTruncationMarker(Body(doc))

\* Mutant: one code point less is read.
ReadLess(doc) == UnicodePrefix(doc, Maximum)

\* readUtf8Prefix
ReadUtf8Prefix(doc) == UnicodePrefix(doc, Maximum + 1)

LoadIndex(doc) == ProjectIndex(ReadUtf8Prefix(doc))

----------------------------------------------------------------------------
(* The author                                                              *)

ProjectionInit == readme = <<>>
Write == \E l \in Line : Len(readme) < MaxLines /\ readme' = Append(readme, l)
ProjectionSpec == ProjectionInit /\ [][Write]_readme

----------------------------------------------------------------------------
(* Properties                                                              *)

OverLimit == Length(readme) > Maximum

\* The projection of a README fits the budget ("internal projection exceeded
\* the injected-output budget" is never thrown).
ProjectionFits == Length(LoadIndex(readme)) <= Maximum

\* A prefix of one code point more than the budget is all that is needed: it is
\* projected as the whole README would be.
PrefixIsEnough == LoadIndex(readme) = ProjectIndex(readme)

\* The fences of CommonMark.  Before each line: the fence that is open (a blank stands for
\* none) and whether the line before belongs to a list item.  A fence of an item ends with the
\* item, at a line that is neither blank nor indented; a fence is closed by a run of its
\* character that is at least as long, with nothing behind it; what is behind an opening run of
\* backticks has no backtick.
AfterLine(before, l) ==
    LET inItem == before.item /\ l.kind # "item" /\ l.indent >= ListIndent
        open == IF before.item /\ ~inItem THEN Blank ELSE before.open
        closes == /\ l.kind = "fence" /\ l.char = open.char
                  /\ l.len = l.indent + l.size /\ l.size >= open.size
        opens == l.kind = "item" \/ (l.kind = "fence" /\ ~l.ticks)
    IN IF l.kind = "blank" THEN before
       ELSE IF open # Blank THEN [open |-> IF closes THEN Blank ELSE open, item |-> inItem]
       ELSE IF opens THEN [open |-> l, item |-> inItem \/ l.kind = "item"]
       ELSE [open |-> Blank, item |-> inItem]

CommonMark(doc) ==
    LET before[i \in 1..Len(doc) + 1] ==
            IF i = 1 THEN [open |-> Blank, item |-> FALSE] ELSE AfterLine(before[i - 1], doc[i - 1])
    IN before

EndsInFence(doc) == CommonMark(doc)[Len(doc) + 1].open # Blank

\* The lines on which fenceDelimiter and CommonMark disagree stand inside of fences only, where
\* they are text to both.
Disputed(l) == l.kind = "item" \/ l.ticks
FencesArePlain(doc) == \A i \in DOMAIN doc : Disputed(doc[i]) => CommonMark(doc)[i].open # Blank

\* The truncation marker of a README that is too long is outside of every fence of the
\* projection, wherever the cut falls, if what is read of the README has plain fences.
MarkerIsVisible ==
    (OverLimit /\ FencesArePlain(Candidate(readme))) => ~ EndsInFence(Front(LoadIndex(readme)))

\* "The generated Markdown remains structurally closed": the marker of any README that is too
\* long is outside of every fence.
MarkerAlwaysVisible ==
    OverLimit => ~ EndsInFence(Front(LoadIndex(readme)))

\* "Only later ATX headings prove that a complete authored section precedes
\* them": where the projection is cut at a section, the README has a heading.
CutsAtHeadings ==
    LET candidate == Candidate(readme)
        section == LatestNonWhitespaceBoundary(candidate, Boundaries(candidate).section)
    IN (OverLimit /\ section # 0) =>
            \E i \in DOMAIN readme : Start(readme, i) = section /\ readme[i].kind = "heading"
=============================================================================
