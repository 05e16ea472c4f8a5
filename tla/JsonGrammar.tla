------------------------------ MODULE JsonGrammar ------------------------------
(***************************************************************************)
(* Constrained output: a byte grammar with persistent pushdown states, the  *)
(* grammars that are built from a JSON schema, and the constraint that      *)
(* masks the logits of the tokens the grammar does not allow.               *)
(*                                                                         *)
(* A byte is a one-character string.  Of each class of bytes the bounds     *)
(* name a few; names and strings are literals.                              *)
(***************************************************************************)
EXTENDS Work, Integers, FiniteSets, SequencesExt

CONSTANTS
    Schemas,        \* bounds: the schemas,
    Vocabulary,     \* the pieces of the tokens, by ID,
    EndTokens,      \* the IDs that end a generation,
    Rankings,       \* the logits, 0 for one that is not finite,
    MaxText         \* the length of a text by the type of its schema,
CONSTANTS
    Spaces, Digits, Hex, Plain,     \* the bytes of each class
    MaxDigits                       \* and the digits behind the first (17)

Nonzero == Digits \ {"0"}

-----------------------------------------------------------------------------
(* ByteGrammar: a symbol is a set of bytes or a rule, here the tree of what  *)
(* the rule leads to; many is the rule that repeats its body.                *)

Terminal(S) == [kind |-> "bytes", bytes |-> S, alternatives |-> {}, body |-> <<>>]
Rule(alternatives) == [kind |-> "rule", bytes |-> {}, alternatives |-> alternatives, body |-> <<>>]
Many(value) == [kind |-> "many", bytes |-> {}, alternatives |-> {}, body |-> <<value>>]
Ch(c) == Terminal({c})
Sequence(symbols) == Rule({symbols})
Optional(symbol) == Rule({<<>>, <<symbol>>})
Literal(text) == Sequence([i \in DOMAIN text |-> Ch(text[i])])

\* A state is a set of stacks, the next symbol first; each begins with bytes.
RECURSIVE Expand(_)
Expand(stack) ==
    IF stack = <<>> \/ Head(stack).kind = "bytes" THEN {stack}
    ELSE LET symbol == Head(stack)
             next == IF symbol.kind = "many" THEN {<<>>, symbol.body \o <<symbol>>}
                                            ELSE symbol.alternatives
         IN  UNION {Expand(a \o Tail(stack)) : a \in next}

Advance(state, byte) ==
    UNION {Expand(Tail(stack)) : stack \in {s \in state : s # <<>> /\ byte \in Head(s).bytes}}

CompleteState(state) == <<>> \in state

Consume(state, text) == FoldLeft(Advance, state, text)

-----------------------------------------------------------------------------
(* JsonGrammarBuilder.                                                      *)

Ws == Many(Terminal(Spaces))

\* Up to n digits.
DigitRun[n \in Nat] ==
    IF n = 0 THEN Rule({<<>>}) ELSE Rule({<<>>, <<Terminal(Digits), DigitRun[n - 1]>>})

IntegerRule ==
    Sequence(<<Optional(Ch("-")),
               Rule({<<Ch("0")>>, <<Terminal(Nonzero), DigitRun[MaxDigits]>>})>>)

NumberRule ==
    LET fraction == Sequence(<<Ch("."), Terminal(Digits), DigitRun[MaxDigits]>>)
        exponent == Sequence(<<Terminal({"e", "E"}), Optional(Terminal({"+", "-"})),
                               Terminal(Digits), Optional(Terminal(Digits))>>)
    IN  Sequence(<<IntegerRule, Optional(fraction), Optional(exponent)>>)

\* The four digits behind \u, and the second half a high surrogate needs.
CodepointRule ==
    LET h == Terminal(Hex)
        d == Terminal({"d", "D"})
    IN  Rule({<<Terminal(Hex \ {"d", "D"}), h, h, h>>,
              <<d, Terminal(Hex \cap {"0", "7"}), h, h>>,
              <<d, Terminal(Hex \cap {"8", "b"}), h, h,
                Ch("\\"), Ch("u"), d, Terminal(Hex \cap {"c", "d"}), h, h>>})

StringRule ==
    LET character == Rule({<<Terminal(Plain)>>, <<Ch("\\"), Ch("n")>>})
    IN  Sequence(<<Ch("\""), Many(character), Ch("\"")>>)

\* (Fault) The comma in front of an item also counts when none came before.
ArrayRule_CommaFirst(item, min, max) ==
    LET tail[n \in 0..max] ==
            IF n = max THEN Rule({<<>>})
            ELSE Rule({<<Ch(","), Ws, item, Ws, tail[n + 1]>>}
                        \cup IF n >= min THEN {<<>>} ELSE {})
    IN  Sequence(<<Ch("["), Ws, tail[0], Ch("]")>>)

\* Between min and max items: behind item n comes another, with its comma, or none.
ArrayRule(item, min, max) ==
    LET tail[n \in 0..max] ==
            IF n = max THEN Rule({<<>>})
            ELSE Rule({(IF n > 0 THEN <<Ch(","), Ws>> ELSE <<>>) \o <<item, Ws, tail[n + 1]>>}
                        \cup IF n >= min THEN {<<>>} ELSE {})
    IN  Sequence(<<Ch("["), Ws, tail[0], Ch("]")>>)

\* Two continuations of each property: no property came before it, or one did.
\* Properties come in the schema's order, and the optional ones may be left out.
ObjectRule(properties) ==
    LET rest[i \in 1..(Len(properties) + 1), some \in BOOLEAN] ==
            IF i > Len(properties) THEN Rule({<<>>})
            ELSE LET p == properties[i]
                     member == <<Literal(p.name), Ws, Ch(":"), Ws, p.value, Ws, rest[i + 1, TRUE]>>
                 IN  Rule({(IF some THEN <<Ch(","), Ws>> ELSE <<>>) \o member}
                            \cup IF p.required THEN {} ELSE {<<rest[i + 1, some]>>})
    IN  Sequence(<<Ch("{"), Ws, rest[1, FALSE], Ch("}")>>)

RECURSIVE SchemaRule(_)
SchemaRule(s) ==
    CASE s.type = "anyOf" -> Rule({<<SchemaRule(s.parts[i])>> : i \in DOMAIN s.parts})
      [] s.type = "enum" -> Rule({<<Literal(v)>> : v \in s.values})
      [] s.type = "number" -> NumberRule
      [] s.type = "integer" -> IntegerRule
      [] s.type = "string" -> StringRule
      [] s.type = "codepoint" -> CodepointRule
      [] s.type = "array" -> ArrayRule(SchemaRule(s.items), s.min, s.max)
      [] s.type = "object" ->
           ObjectRule([i \in DOMAIN s.properties |->
                          [s.properties[i] EXCEPT !.value = SchemaRule(@)]])

Initial(s) == Expand(<<Sequence(<<Ws, SchemaRule(s), Ws>>)>>)

-----------------------------------------------------------------------------
(* TokenVocabulary and JsonConstraint.                                      *)

TokenIds == DOMAIN Vocabulary
Pieces == {id \in TokenIds : id \notin EndTokens /\ Vocabulary[id] # <<>>}

\* A node of the trie is the bytes that lead to it.
Trie == UNION {{SubSeq(Vocabulary[id], 1, n) : n \in 0..Len(Vocabulary[id])} : id \in Pieces}

Allows(state, id) ==
    IF id \in EndTokens THEN CompleteState(state)
    ELSE id \in Pieces /\ Consume(state, Vocabulary[id]) # {}

\* walk: what the trie leads to from this node without leaving the grammar.
RECURSIVE Walk(_, _)
Walk(node, state) ==
    LET bytes == {b \in Spaces \cup {Last(n) : n \in Trie \ {<<>>}} :
                    Append(node, b) \in Trie /\ Advance(state, b) # {}}
    IN  {id \in Pieces : Vocabulary[id] = node}
            \cup UNION {Walk(Append(node, b), Advance(state, b)) : b \in bytes}

\* The mask of a sampled generation.
Allowed(state) == Walk(<<>>, state) \cup IF CompleteState(state) THEN EndTokens ELSE {}

NoToken == -1

\* The greedy one takes candidates by their logit, and of two equal the lower ID.
RECURSIVE Greedy(_, _, _)
Greedy(state, logits, candidates) ==
    LET first == CHOOSE a \in candidates :
                    \A b \in candidates : logits[a] > logits[b] \/ (logits[a] = logits[b] /\ a <= b)
    IN  IF candidates = {} THEN NoToken
        ELSE IF logits[first] = 0 THEN NoToken
        ELSE IF Allows(state, first) THEN first
        ELSE Greedy(state, logits, candidates \ {first})

\* apply: the tokens that keep a finite logit.
Applied(state, logits, greedy) ==
    IF greedy THEN {Greedy(state, logits, TokenIds)} \ {NoToken}
              ELSE {id \in Allowed(state) : logits[id] # 0}

-----------------------------------------------------------------------------
(* One constrained generation; text is history.                             *)

GrammarInit ==
    \E s \in Schemas, greedy \in BOOLEAN :
        work = [part |-> "grammar", schema |-> s, greedy |-> greedy, state |-> Initial(s),
                text |-> <<>>, ended |-> FALSE]

\* A token is sampled from what apply left, and accepted.
TokenSampled ==
    /\ Is("grammar") /\ ~work.ended
    /\ \E logits \in Rankings : \E id \in Applied(work.state, logits, work.greedy) :
          IF id \in EndTokens THEN work' = [work EXCEPT !.ended = TRUE]
          ELSE /\ Len(work.text) + Len(Vocabulary[id]) <= MaxText[work.schema.type]
               /\ work' = [work EXCEPT !.state = Consume(@, Vocabulary[id]), !.text = @ \o Vocabulary[id]]

-----------------------------------------------------------------------------
(* Properties.                                                              *)

WordsOf(S, n, m) == UNION {[1..k -> S] : k \in n..m}
Joined(A, B) == {a \o b : a \in A, b \in B}

Integers_ ==
    Joined({<<>>, <<"-">>}, {<<"0">>} \cup Joined(WordsOf(Nonzero, 1, 1), WordsOf(Digits, 0, MaxDigits)))

Numbers ==
    LET fraction == Joined({<<".">>}, WordsOf(Digits, 1, MaxDigits + 1))
        exponent == Joined(Joined({<<"e">>, <<"E">>}, {<<>>, <<"+">>, <<"-">>}), WordsOf(Digits, 1, 2))
    IN  Joined(Joined(Integers_, {<<>>} \cup fraction), {<<>>} \cup exponent)

\* Four digits that are no surrogate, or the two halves of one character.
Codepoints ==
    LET four == WordsOf(Hex, 4, 4)
        high == {w \in four : w[1] \in {"d", "D"} /\ w[2] \in {"8", "b"}}
        low == {w \in four : w[1] \in {"d", "D"} /\ w[2] \in {"c", "d"}}
    IN  (four \ (high \cup low)) \cup Joined(high, Joined({<<"\\", "u">>}, low))

Strings ==
    {<<"\"">> \o FoldLeft(LAMBDA a, b : a \o b, <<>>, w) \o <<"\"">> :
        w \in WordsOf({<<c>> : c \in Plain} \cup {<<"\\", "n">>}, 0, MaxText["string"] - 1)}

\* The documents of a schema, as sequences of words between which there may be
\* spaces: what JSON Schema says, without the grammar.
RECURSIVE Documents(_)
Documents(s) ==
    LET list(n) ==
            LET d == Documents(s.items)
                more[k \in 1..n] ==
                    IF k = 1 THEN d ELSE Joined(Joined(more[k - 1], {<<<<",">>>>}), d)
            IN  IF n = 0 THEN {<<>>} ELSE more[n]
        member(i) == Joined({<<s.properties[i].name, <<":">>>>}, Documents(s.properties[i].value))
        members(chosen) ==
            FoldLeft(LAMBDA all, i : Joined(IF all = {<<>>} THEN all ELSE Joined(all, {<<<<",">>>>}), member(i)),
                     {<<>>}, SetToSortSeq(chosen, <))
        needed == {i \in DOMAIN s.properties : s.properties[i].required}
    IN  CASE s.type = "anyOf" -> UNION {Documents(s.parts[i]) : i \in DOMAIN s.parts}
          [] s.type = "enum" -> {<<v>> : v \in s.values}
          [] s.type = "number" -> {<<w>> : w \in Numbers}
          [] s.type = "integer" -> {<<w>> : w \in Integers_}
          [] s.type = "string" -> {<<w>> : w \in Strings}
          [] s.type = "codepoint" -> {<<w>> : w \in Codepoints}
          [] s.type = "array" ->
               {<<<<"[">>>> \o d \o <<<<"]">>>> : d \in UNION {list(n) : n \in s.min..s.max}}
          [] s.type = "object" ->
               {<<<<"{">>>> \o d \o <<<<"}">>>> :
                  d \in UNION {members(c) : c \in {c \in SUBSET DOMAIN s.properties : needed \subseteq c}}}

DocumentsOf == [s \in Schemas |-> Documents(s)]

\* The text is the document, or the beginning of one, with spaces between its words.
RECURSIVE Spells(_, _), Begins(_, _)
Spells(text, document) ==
    IF text = <<>> THEN document = <<>>
    ELSE \/ Head(text) \in Spaces /\ Spells(Tail(text), document)
         \/ /\ document # <<>> /\ IsPrefix(Head(document), text)
            /\ Spells(SubSeq(text, Len(Head(document)) + 1, Len(text)), Tail(document))

Begins(text, document) ==
    IF text = <<>> THEN TRUE
    ELSE \/ Head(text) \in Spaces /\ Begins(Tail(text), document)
         \/ /\ document # <<>>
            /\ \/ IsPrefix(text, Head(document))
               \/ /\ IsPrefix(Head(document), text)
                  /\ Begins(SubSeq(text, Len(Head(document)) + 1, Len(text)), Tail(document))

\* A generation is never led where no document of the schema can be completed, and
\* may end exactly where one is complete, also when a token spans several parts of
\* the document.  Both samplers see the same tokens, and the greedy one finds the
\* best of them.
ConstraintIsExact ==
    Is("grammar") =>
      LET possible == {d \in DocumentsOf[work.schema] : Begins(work.text, d)}
          allowed == {id \in TokenIds : Allows(work.state, id)}
      IN  /\ possible # {}
          /\ CompleteState(work.state) <=> \E d \in possible : Spells(work.text, d)
          /\ \A id \in Pieces : Len(work.text) + Len(Vocabulary[id]) <= MaxText[work.schema.type] =>
                (id \in allowed <=> \E d \in possible : Begins(work.text \o Vocabulary[id], d))
          /\ Allowed(work.state) = allowed
          /\ \A logits \in Rankings :
               LET finite == {id \in allowed : logits[id] # 0}
                   chosen == Applied(work.state, logits, TRUE)
               IN  IF finite = {} THEN chosen = {}
                   ELSE chosen = {Min({a \in finite : \A b \in finite : logits[a] >= logits[b]})}
=============================================================================
