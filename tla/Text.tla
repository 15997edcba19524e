-------------------------------- MODULE Text --------------------------------
(* The text anchors of an article: paragraphs and sentences                 *)
(* (internal/reader: normalize.go, sentences.go) and the tokens and slices  *)
(* the analysis checks against them (internal/semantics/types.go).          *)
(*                                                                          *)
(* A text is a sequence of characters, one for each class the code tells    *)
(* apart; an offset counts the characters before it.  "w" is a letter       *)
(* outside the basic plane (two UTF-16 units), "'" the typographic          *)
(* apostrophe, which is a joiner and a closing quote, "^" a combining mark. *)
EXTENDS Integers, SequencesExt

CONSTANT Abbreviations   \* dotted words after which no sentence ends, in lower case

IsLetter(c) == c \in {"a", "A", "w"}
IsUpper(c)  == c = "A"
IsNumber(c) == c = "1"
IsMark(c)   == c = "^"
IsSpace(c)  == c \in {" ", "\n", "\r"}
Fold(c)     == IF c = "A" THEN "a" ELSE c

isWordRune(c) == IsLetter(c) \/ IsNumber(c)
isJoiner(c)   == c \in {"'", "-"}
isTerminatorPunctuation(c)  == c \in {".", "!"}
isClosingQuoteOrBracket(c)  == c \in {")", "'"}
isOpeningQuoteOrBracket(c)  == c = "("

Part(t, s, e) == SubSeq(t, s + 1, e)
Offsets(t, P(_), s, e) == {i \in s .. e - 1 : P(t[i + 1])}
\* The first offset from s on whose character does not satisfy P.
Skip(t, P(_), s) == Min((s .. Len(t)) \ Offsets(t, P, s, Len(t)))

-----------------------------------------------------------------------------
(* Browser offsets count UTF-16 units.                                      *)

utf16Len(t) == FoldLeft(LAMBDA n, c : n + IF c = "w" THEN 2 ELSE 1, 0, t)

NoOffset == -1
byteOffsetForUTF16(t, offset) ==
    LET at == {i \in 0 .. Len(t) : utf16Len(Part(t, 0, i)) = offset}
    IN  IF at = {} THEN NoOffset ELSE Min(at)

sliceForUTF16(t, s, e) == Part(t, byteOffsetForUTF16(t, s), byteOffsetForUTF16(t, e))

Span(t, s, e) ==
    [start |-> utf16Len(Part(t, 0, s)), end |-> utf16Len(Part(t, 0, s)) + utf16Len(Part(t, s, e)),
     text  |-> Part(t, s, e)]

-----------------------------------------------------------------------------
(* Tokens: a word is a run of letters, digits and marks; a joiner belongs   *)
(* to it only when a word character follows at once.                        *)

hasWordAfter(t, i) == i < Len(t) /\ isWordRune(t[i + 1])

Flush(t, scan) == Append(scan.tokens, Span(t, scan.start, scan.last))

Tokenize1(t, scan, i) ==
    LET c == t[i] IN
    CASE scan.start < 0 /\ isWordRune(c)             -> [scan EXCEPT !.start = i - 1, !.last = i]
      [] scan.start < 0 /\ ~isWordRune(c)            -> scan
      [] scan.start >= 0 /\ (isWordRune(c) \/ IsMark(c)) -> [scan EXCEPT !.last = i]
      [] scan.start >= 0 /\ isJoiner(c) /\ hasWordAfter(t, i) -> scan
      [] OTHER -> [tokens |-> Flush(t, scan), start |-> -1, last |-> -1]

tokenize(t) ==
    LET scan == FoldLeft(LAMBDA s, i : Tokenize1(t, s, i),
                         [tokens |-> <<>>, start |-> -1, last |-> -1],
                         [i \in 1 .. Len(t) |-> i])
    IN  IF scan.start < 0 THEN scan.tokens ELSE Flush(t, scan)

-----------------------------------------------------------------------------
(* Sentences.                                                               *)

IsWordDot(c) == c = "." \/ IsLetter(c)

\* The longest run of letters and periods that ends just before the period.
dottedTokenBefore(t, dot) ==
    Part(t, Min({s \in 0 .. dot : \A i \in s .. dot - 1 : IsWordDot(t[i + 1])}), dot)

\* "J.S.": at least two groups, each of a single letter.
Initialism(word) ==
    /\ Cardinality(Offsets(word, IsLetter, 0, Len(word))) >= 2
    /\ \A i \in 1 .. Len(word) - 1 : ~(IsLetter(word[i]) /\ IsLetter(word[i + 1]))

\* "J." before "S.": the next letter is followed by another period.
Continues(t, dot) ==
    LET next  == Skip(t, IsSpace, dot + 1)
        after == Skip(t, IsSpace, next + 1)
    IN  /\ next < Len(t) /\ IsLetter(t[next + 1])
        /\ after < Len(t) /\ t[after + 1] = "."

dottedWordStopsSentence(t, dot) ==
    LET word == dottedTokenBefore(t, dot) IN
    \/ [i \in 1 .. Len(word) |-> Fold(word[i])] \in Abbreviations
    \/ Initialism(word)
    \/ Continues(t, dot)

periodEndsSentence(t, dot) ==
    LET next == Skip(t, IsSpace, Skip(t, isClosingQuoteOrBracket, dot + 1)) IN
    /\ ~(dot > 0 /\ dot + 1 < Len(t) /\ IsNumber(t[dot]) /\ IsNumber(t[dot + 2]))
    /\ ~dottedWordStopsSentence(t, dot)
    /\ \/ next = Len(t)
       \/ IsUpper(t[next + 1]) \/ IsNumber(t[next + 1]) \/ isOpeningQuoteOrBracket(t[next + 1])

\* A closing apostrophe is kept for the next word when a letter follows it.
ClosingRun(t, s) ==
    Min({e \in s .. Len(t) :
            /\ \A i \in s .. e - 1 : isTerminatorPunctuation(t[i + 1]) \/ isClosingQuoteOrBracket(t[i + 1])
            /\ \/ e = Len(t)
               \/ ~(isTerminatorPunctuation(t[e + 1]) \/ isClosingQuoteOrBracket(t[e + 1]))
               \/ t[e + 1] = "'" /\ e + 1 < Len(t) /\ IsLetter(t[e + 2])})

\* The unit from s to e without the white space at its edges, if anything is left.
Trimmed(t, s, e) ==
    LET ink == (s .. e - 1) \ Offsets(t, IsSpace, s, e)
    IN  IF ink = {} THEN <<>> ELSE <<Span(t, Min(ink), Max(ink) + 1)>>

\* Faulty: a unit begins again at the character being read.
RestartAtTerminator(flushed, reading) == reading

\* The next unit starts where the last one was flushed.
NextUnit(flushed, reading) == flushed

RECURSIVE Segment(_, _, _, _)
Segment(t, i, unitStart, sawNonWhitespace) ==
    IF i >= Len(t) THEN Trimmed(t, unitStart, Len(t))
    ELSE LET c == t[i + 1]
             ends == /\ isTerminatorPunctuation(c) /\ sawNonWhitespace
                     /\ c = "." => periodEndsSentence(t, i)
             end  == ClosingRun(t, i + 1)
         IN  IF ends
             THEN Trimmed(t, unitStart, end)
                  \o Segment(t, Skip(t, IsSpace, end), NextUnit(end, i), FALSE)
             ELSE Segment(t, i + 1, unitStart, sawNonWhitespace \/ ~IsSpace(c))

SegmentSentences(t) == Segment(t, 0, 0, FALSE)

\* What every validation of an article asks of its stored sentences.
validateSourceSentenceAnchors(t, sentences) ==
    \A i \in 1 .. Len(sentences) :
        LET s == sentences[i] IN
        /\ 0 <= s.start /\ s.start < s.end
        /\ byteOffsetForUTF16(t, s.start) # NoOffset /\ byteOffsetForUTF16(t, s.end) # NoOffset
        /\ sliceForUTF16(t, s.start, s.end) = s.text
        /\ i > 1 => sentences[i - 1].end <= s.start

-----------------------------------------------------------------------------
(* Paragraphs: maximal runs of nonblank lines, kept byte for byte.          *)

\* A line ends before a line feed, a carriage return or the pair of them.
LineEnd(t, s) == Min({e \in s .. Len(t) : e = Len(t) \/ t[e + 1] \in {"\n", "\r"}})
NextLine(t, e) ==
    IF e + 1 < Len(t) /\ t[e + 1] = "\r" /\ t[e + 2] = "\n" THEN e + 2 ELSE e + 1

Blank(t, s, e) == \A i \in s .. e - 1 : IsSpace(t[i + 1])

\* Block is the open paragraph's start and the end of its last line.
RECURSIVE Paragraphs(_, _, _)
Paragraphs(t, s, block) ==
    LET e      == LineEnd(t, s)
        closed == IF block = <<>> THEN <<>> ELSE <<Part(t, block[1], block[2])>>
    IN  CASE s >= Len(t)   -> closed
          [] s < Len(t) /\ Blank(t, s, e) -> closed \o Paragraphs(t, NextLine(t, e), <<>>)
          [] OTHER -> Paragraphs(t, NextLine(t, e), <<IF block = <<>> THEN s ELSE block[1], e>>)

ParseParagraphs(t) == Paragraphs(t, 0, <<>>)

-----------------------------------------------------------------------------
(* Properties.                                                              *)

\* A word by its neighbours, without a scan.
RECURSIVE InWord(_, _)
InWord(t, i) ==
    /\ i >= 1
    /\ \/ isWordRune(t[i])
       \/ /\ InWord(t, i - 1)
          /\ IsMark(t[i]) \/ (isJoiner(t[i]) /\ hasWordAfter(t, i))

\* The sentences stored with a paragraph pass the check every analysis of the
\* article makes of them, and each token that the analysis explains lies in
\* exactly one of them: otherwise no answer could ever be accepted.
AnchorsHold(t) ==
    LET sentences == SegmentSentences(t)
        tokens    == tokenize(t)
    IN  /\ validateSourceSentenceAnchors(t, sentences)
        /\ \A k \in 1 .. Len(tokens) :
               /\ sliceForUTF16(t, tokens[k].start, tokens[k].end) = tokens[k].text
               /\ Cardinality({i \in 1 .. Len(sentences) :
                      /\ sentences[i].start <= tokens[k].start
                      /\ tokens[k].end <= sentences[i].end}) = 1
        /\ FoldLeft(LAMBDA n, s : n + Len(s.text), 0, tokens)
               = Cardinality({i \in 1 .. Len(t) : InWord(t, i)})

\* No paragraph holds a blank line, none loses text, and the line ending an
\* author's system writes makes no difference.
ParagraphsKeepText(t) ==
    LET ink(s)  == SelectSeq(s, LAMBDA c : ~IsSpace(c))
        crlf(s) == FlattenSeq([i \in 1 .. Len(s) |-> IF s[i] = "\n" THEN <<"\r", "\n">> ELSE <<s[i]>>])
        feeds   == SelectSeq(t, LAMBDA c : c # "\r")
    IN  /\ ink(FlattenSeq(ParseParagraphs(t))) = ink(t)
        /\ \A k \in 1 .. Len(ParseParagraphs(t)) : Len(ParseParagraphs(ParseParagraphs(t)[k])) = 1
        /\ Len(ParseParagraphs(crlf(feeds))) = Len(ParseParagraphs(feeds))
=============================================================================
