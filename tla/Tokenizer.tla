------------------------------- MODULE Tokenizer -------------------------------
(***************************************************************************)
(* QwenTokenizer: a prompt is cut at the added tokens, each segment between *)
(* them into pieces, and each piece, in the alphabet the vocabulary shows     *)
(* bytes in, is merged by rank.  A text is a sequence of characters; the       *)
(* vocabulary holds every byte and what every merge makes.                     *)
(***************************************************************************)
EXTENDS Work, Integers, FiniteSets, SequencesExt

CONSTANTS
    Character,      \* of each character: its kind, its bytes and its lower case
    Composed,       \* characters that Unicode's normal form C makes one of
    Tokenizers      \* bounds: characters, length of the prompt, marks, merges, added tokens

KindAt(text, i) == Character[text[i]].kind
Encoding(text) == FlattenSeq([i \in DOMAIN text |-> Character[text[i]].bytes])

-----------------------------------------------------------------------------
(* split_text_for_bpe.                                                      *)

Contractions == {<<"r", "e">>, <<"v", "e">>, <<"l", "l">>, <<"s">>, <<"t">>, <<"m">>, <<"d">>}
Blanks == {"space", "blank", "newline"}

\* The end of the run of characters of these kinds that begins at i.
RunEnd(text, i, kinds) ==
    Min({k \in i..Len(text) : KindAt(text, k) \notin kinds} \cup {Max({i, Len(text) + 1})})

WordKinds(marks) == IF marks THEN {"letter", "mark"} ELSE {"letter"}
PunctKinds(marks) == {"other", "mark"} \ WordKinds(marks)

\* The contraction behind an apostrophe.
Contracted(text, i) ==
    {s \in Contractions : /\ text[i] = "'" /\ i + Len(s) <= Len(text)
                          /\ \A j \in DOMAIN s : Character[text[i + j]].lower = s[j]}

\* A word takes one character in front of it that is no line end, letter or digit.
WordBegin(text, i) == IF KindAt(text, i) \in {"newline", "letter", "digit"} THEN i ELSE i + 1

\* (Fault) A run of blanks keeps the one that belongs to the word behind it.
BlanksEnd_Greedy(text, i) == RunEnd(text, i, Blanks)

\* Several blanks in front of something leave it the last one.
BlanksEnd(text, i) ==
    LET j == RunEnd(text, i, Blanks) IN IF j <= Len(text) /\ j > i + 1 THEN j - 1 ELSE j

\* The end of the piece that begins at i.
PieceEnd(text, i, marks) ==
    LET word == RunEnd(text, WordBegin(text, i), WordKinds(marks))
        punct == IF text[i] = " " THEN i + 1 ELSE i
        puncts == RunEnd(text, punct, PunctKinds(marks))
        lines == {k \in i..(RunEnd(text, i, Blanks) - 1) : KindAt(text, k) = "newline"}
    IN  IF Contracted(text, i) # {} THEN i + 1 + Len(CHOOSE s \in Contracted(text, i) : TRUE)
        ELSE IF word > WordBegin(text, i) THEN word
        ELSE IF KindAt(text, i) = "digit" THEN i + 1
        ELSE IF puncts > punct THEN RunEnd(text, puncts, {"newline"})
        ELSE IF lines # {} THEN Max(lines) + 1
        ELSE IF KindAt(text, i) \in Blanks THEN BlanksEnd(text, i)
        ELSE i + 1

RECURSIVE TextPieces(_, _)
TextPieces(text, marks) ==
    IF text = <<>> THEN <<>>
    ELSE LET end == PieceEnd(text, 1, marks)
         IN  <<SubSeq(text, 1, end - 1)>> \o TextPieces(SubSeq(text, end, Len(text)), marks)

-----------------------------------------------------------------------------
(* apply_bpe, encode and decode.                                            *)

\* build_byte_level_maps: a byte that does not print is shown by a code point of its own.
Printable == (33..126) \cup (161..172) \cup (174..255)
ShownAs ==
    [b \in 0..255 |-> IF b \in Printable THEN b ELSE 256 + Cardinality((0..(b - 1)) \ Printable)]
ByteShown == [s \in {ShownAs[b] : b \in 0..255} |-> CHOOSE b \in 0..255 : ShownAs[b] = s]

\* All occurrences of a pair of symbols, from the left.
RECURSIVE JoinAll(_, _)
JoinAll(symbols, pair) ==
    IF Len(symbols) < 2 THEN symbols
    ELSE IF SubSeq(symbols, 1, 2) = pair
         THEN <<pair[1] \o pair[2]>> \o JoinAll(SubSeq(symbols, 3, Len(symbols)), pair)
         ELSE <<Head(symbols)>> \o JoinAll(Tail(symbols), pair)

\* The ranks of the neighbours that a merge joins.
RanksIn(merges, symbols) ==
    {r \in DOMAIN merges : \E i \in 1..(Len(symbols) - 1) : SubSeq(symbols, i, i + 1) = merges[r]}

RECURSIVE Bpe(_, _)
Bpe(merges, symbols) ==
    LET ranks == RanksIn(merges, symbols)
    IN  IF ranks = {} THEN symbols ELSE Bpe(merges, JoinAll(symbols, merges[Min(ranks)]))

Symbols(piece) == LET bytes == Encoding(piece) IN [i \in DOMAIN bytes |-> <<ShownAs[bytes[i]]>>]

\* Normal form C: a character and the mark behind it become one.
RECURSIVE Normalized(_)
Normalized(text) ==
    IF Len(text) < 2 THEN text
    ELSE IF SubSeq(text, 1, 2) \in DOMAIN Composed
         THEN Normalized(<<Composed[SubSeq(text, 1, 2)]>> \o SubSeq(text, 3, Len(text)))
         ELSE <<Head(text)>> \o Normalized(Tail(text))

\* encode_text_segment
SegmentTokens(t, text) ==
    LET pieces == TextPieces(Normalized(text), t.marks)
        parts == FlattenSeq([i \in DOMAIN pieces |-> Bpe(t.merges, Symbols(pieces[i]))])
    IN  [i \in DOMAIN parts |-> [added |-> FALSE, text |-> parts[i]]]

AddedAt(t, text, i) == {a \in t.added : IsPrefix(a, SubSeq(text, i, Len(text)))}
Longest(texts) == CHOOSE a \in texts : \A b \in texts : Len(b) <= Len(a)

\* The rest of the prompt from i, of which the segment that begins at `begin` is not encoded.
RECURSIVE EncodedFrom(_, _, _, _)
EncodedFrom(t, text, begin, i) ==
    IF i > Len(text) THEN SegmentTokens(t, SubSeq(text, begin, Len(text)))
    ELSE IF AddedAt(t, text, i) = {} THEN EncodedFrom(t, text, begin, i + 1)
    ELSE LET longest == Longest(AddedAt(t, text, i))
         IN  SegmentTokens(t, SubSeq(text, begin, i - 1)) \o <<[added |-> TRUE, text |-> longest]>>
                \o EncodedFrom(t, text, i + Len(longest), i + Len(longest))

EncodedText(t, text) == EncodedFrom(t, text, 1, 1)

\* decode: an added token is its text, another one the bytes it shows.
DecodedBytes(tokens) ==
    FlattenSeq([i \in DOMAIN tokens |->
        IF tokens[i].added THEN Encoding(tokens[i].text)
        ELSE [k \in DOMAIN tokens[i].text |-> ByteShown[tokens[i].text[k]]]])

-----------------------------------------------------------------------------
(* A prompt, one character longer with each step.                           *)

TokenizerInit == \E t \in Tokenizers : work = [part |-> "prompt", from |-> t, text |-> <<>>]

TokenizerNext ==
    /\ Is("prompt") /\ Len(work.text) < work.from.length
    /\ \E c \in work.from.characters : work' = [work EXCEPT !.text = Append(@, c)]

-----------------------------------------------------------------------------
(* Properties.                                                              *)

\* The ends of the matches that each alternative of the profile's expression has
\* for the beginning of a text:
\*     '(re|ve|ll|s|t|m|d)  |  [^\r\n\p{L}\p{N}]?[\p{L}\p{M}]+  |  \p{N}
\*     |  ?[^\s\p{L}\p{M}\p{N}]+[\r\n]*  |  \s*[\r\n]+  |  \s+(?!\S)  |  \s+
Alternatives(text, marks) ==
    LET All(a, b, kinds) == \A i \in a..b : KindAt(text, i) \in kinds
        Not(kinds) == {"letter", "mark", "digit", "space", "blank", "newline", "other"} \ kinds
        n == Len(text)
        word == IF marks THEN {"letter", "mark"} ELSE {"letter"}
        punct == Not(Blanks \cup word \cup {"digit"})
    IN  << {1 + Len(s) : s \in Contracted(text, 1)},
           {k \in 1..n : \E o \in {0, 1} : /\ o < k /\ All(o + 1, k, word)
                                           /\ All(1, o, Not({"newline", "letter", "digit"}))},
           {k \in {1} : All(1, 1, {"digit"})},
           {k \in 1..n : \E o \in {0, 1}, e \in 1..k :
                            /\ o < e /\ (o = 1 => text[1] = " ") /\ All(o + 1, e, punct)
                            /\ All(e + 1, k, {"newline"})},
           {k \in 1..n : All(1, k, Blanks) /\ KindAt(text, k) = "newline"},
           {k \in 1..n : All(1, k, Blanks) /\ (k < n => KindAt(text, k + 1) \in Blanks)},
           {k \in 1..n : All(1, k, Blanks)} >>

\* The pieces the expression finds, each by its first alternative that matches;
\* what none matches stays between them.
RECURSIVE Found(_, _)
Found(text, marks) ==
    IF text = <<>> THEN <<>>
    ELSE LET ends == SelectSeq(Alternatives(text, marks), LAMBDA matches : matches # {})
             end == IF ends = <<>> THEN 1 ELSE Max(Head(ends))
         IN  <<SubSeq(text, 1, end)>> \o Found(SubSeq(text, end + 1, Len(text)), marks)

\* Merging one pair of neighbours at a time, of the lowest rank the leftmost.
RECURSIVE MergedSingly(_, _)
MergedSingly(merges, symbols) ==
    LET ranks == RanksIn(merges, symbols)
        pair == merges[Min(ranks)]
        at == Min({i \in 1..(Len(symbols) - 1) : SubSeq(symbols, i, i + 1) = pair})
    IN  IF ranks = {} THEN symbols
        ELSE MergedSingly(merges, SubSeq(symbols, 1, at - 1) \o <<pair[1] \o pair[2]>>
                                    \o SubSeq(symbols, at + 2, Len(symbols)))

\* A prompt's text with its added tokens as they are and the rest in normal form.
RECURSIVE NormalPrompt(_, _)
NormalPrompt(t, text) ==
    LET added == AddedAt(t, text, 1)
        Behind(n) == NormalPrompt(t, SubSeq(text, n + 1, Len(text)))
    IN  IF text = <<>> THEN <<>>
        ELSE IF added # {} THEN Longest(added) \o Behind(Len(Longest(added)))
        ELSE IF Len(text) > 1 /\ SubSeq(text, 1, 2) \in DOMAIN Composed THEN <<Composed[SubSeq(text, 1, 2)]>> \o Behind(2)
        ELSE <<Head(text)>> \o Behind(1)

\* The tokens of a prompt decode to the prompt, its pieces are those the profile's
\* expression finds, and merging every occurrence of a pair at once is merging them
\* singly.
PromptIsWhole ==
    Is("prompt") =>
      LET t == work.from
          text == work.text
          tokens == EncodedText(t, text)
          pieces == TextPieces(text, t.marks)
      IN  /\ DecodedBytes(tokens) = Encoding(NormalPrompt(t, text))
          /\ pieces = Found(text, t.marks)
          /\ \A i \in DOMAIN pieces :
                Bpe(t.merges, Symbols(pieces[i])) = MergedSingly(t.merges, Symbols(pieces[i]))
=============================================================================
