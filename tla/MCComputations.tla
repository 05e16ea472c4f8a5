----------------------------- MODULE MCComputations -----------------------------
(***************************************************************************)
(* Small instances of each computation.                                     *)
(***************************************************************************)
EXTENDS Computations

\* ReplyText: no stop sequence and every kind of byte; overlapping ones; one that begins
\* inside a character; one that is its own prefix and suffix.
SmallTexts ==
    {[stops |-> <<>>, bytes |-> {97, 195, 169, 224, 128, 160, 237, 240, 159, 245}, length |-> 4],
     [stops |-> <<<<97, 98>>, <<98, 98, 97>>>>, bytes |-> {97, 98, 195, 169}, length |-> 5],
     [stops |-> <<<<195, 169, 97>>, <<97>>>>, bytes |-> {97, 195, 169}, length |-> 5],
     [stops |-> <<<<97, 98, 97>>, <<98>>>>, bytes |-> {97, 98}, length |-> 5]}

\* Tokenizer: every kind of character in front of every other; merges that overlap, of
\* bytes of one character and across a blank; an added token that begins another; a
\* mark behind an added token.
Low(c, bytes) == [kind |-> "letter", bytes |-> bytes, lower |-> c]
Other(kind, bytes) == [kind |-> kind, bytes |-> bytes, lower |-> ""]
SmallCharacters ==
    ("a" :> Low("a", <<97>>)) @@ ("b" :> Low("b", <<98>>)) @@ ("s" :> Low("s", <<115>>)) @@ ("S" :> Low("s", <<83>>))
    @@ ("l" :> Low("l", <<108>>)) @@ ("e" :> Low("e", <<101>>)) @@ ("1" :> Other("digit", <<49>>))
    @@ ("'" :> Other("other", <<39>>)) @@ ("." :> Other("other", <<46>>)) @@ ("<" :> Other("other", <<60>>))
    @@ (">" :> Other("other", <<62>>)) @@ (" " :> Other("space", <<32>>)) @@ ("tab" :> Other("blank", <<9>>))
    @@ ("line" :> Other("newline", <<10>>)) @@ ("acute" :> Other("mark", <<204, 129>>))
    @@ ("stroke" :> Other("mark", <<204, 184>>)) @@ ("e acute" :> Low("e acute", <<195, 169>>))
    @@ ("no greater" :> Other("other", <<226, 137, 175>>))
SmallComposed == (<<"e", "acute">> :> "e acute") @@ (<<">", "stroke">> :> "no greater")
Unmerged(characters, length, marks) ==
    [characters |-> characters, length |-> length, marks |-> marks, merges |-> <<>>, added |-> {}]
SymbolA == <<97>>
SymbolB == <<98>>
Blank == <<288>>
SmallTokenizers ==
    {Unmerged({"'", "S", "l", " ", "."}, 4, TRUE), Unmerged({"a", " ", "tab", "line", "1", "."}, 4, TRUE),
     Unmerged({"acute", "e", " ", "line", "."}, 4, FALSE), Unmerged({"acute", "e", " ", "line", "."}, 4, TRUE),
     [Unmerged({"a", "b", " "}, 6, TRUE) EXCEPT
        !.merges = <<<<SymbolA, SymbolB>>, <<Blank, SymbolA>>, <<SymbolA, SymbolA>>,
                     <<SymbolA \o SymbolB, SymbolA \o SymbolB>>, <<SymbolA \o SymbolA, SymbolA>>,
                     <<SymbolB, SymbolB>>, <<Blank \o SymbolA, SymbolB>>>>],
     [Unmerged({"e", "acute", "b"}, 4, TRUE) EXCEPT
        !.merges = <<<<<<195>>, <<169>>>>, <<<<195, 169>>, SymbolB>>, <<<<101>>, SymbolB>>>>],
     [Unmerged({"<", "s", ">", "stroke"}, 5, TRUE) EXCEPT
        !.added = {<<"<", "s", ">">>, <<"<", "s", ">", ">">>}, !.merges = <<<<<<60>>, <<115>>>>>>]}

\* JsonGrammar: tokens of one byte and of several, within a value and across its end, and
\* rankings that put each token first.
Tokens ==
    << <<>>, <<>>, <<"[">>, <<"]">>, <<"{">>, <<"}">>, <<",">>, <<" ">>, <<"0">>, <<"1">>,
       <<"a", ":">>, <<"b", ":", "0">>, <<"\"">>, <<"[", "0">>, <<",", "0">>, <<"0", ",">>, <<".">>, <<"e">>, <<"-">>,
       <<"\\">>, <<"n">>, <<"0", "]">>, <<"d">>, <<"8">>, <<"\\", "u", "d">> >>
SmallRankings ==
    {[i \in DOMAIN Tokens |-> IF i = k THEN 1 ELSE 0] : k \in DOMAIN Tokens} \cup {[i \in DOMAIN Tokens |-> i]}
Digit == [type |-> "enum", values |-> {<<"0">>}]
Digits01 == [type |-> "enum", values |-> {<<"0">>, <<"0", "1">>}]
Property(name, value, required) == [name |-> <<name>>, value |-> value, required |-> required]
SmallSchemas ==
    {[type |-> "array", items |-> Digits01, min |-> 0, max |-> 2],
     [type |-> "array", items |-> Digit, min |-> 1, max |-> 1],
     [type |-> "object", properties |-> <<Property("a", Digit, FALSE), Property("b", Digit, TRUE)>>],
     [type |-> "object", properties |-> <<Property("a", Digit, FALSE), Property("b", Digits01, FALSE)>>],
     [type |-> "anyOf", parts |-> <<Digits01, [type |-> "array", items |-> Digit, min |-> 2, max |-> 2]>>],
     [type |-> "number"], [type |-> "string"], [type |-> "codepoint"], [type |-> "integer"]}
TextLimits ==
    [t \in {"anyOf", "array", "object", "number", "integer", "string", "codepoint"} |->
        IF t = "codepoint" THEN 10 ELSE 5]

\* GgufFile: sizes and counts below, at and beyond what a file of a few hundred bytes holds.
Key(name, length) == [name |-> name, length |-> length]
SmallKeys ==
    {Key("", 0), Key("general.alignment", 17), Key("tokenizer.ggml.tokens", 21), Key("other", 5),
     Key("general.architecture", 20), Key("qwen35.rope.dimension_sections", 30)}
Claim(type, element, count, length, number) ==
    [type |-> type, element |-> element, count |-> count, length |-> length, number |-> number]
SmallValues ==
    {Claim("uint32", "", 0, 0, n) : n \in {0, 3, 8, 64}}
    \cup {Claim("uint64", "", 0, 0, 0), Claim("invalid", "", 0, 0, 0)}
    \cup {Claim("string", "", 0, l, 0) : l \in {4, 1200, 4095}}
    \cup {Claim("array", e, c, 6, 0) : e \in {"string", "int32", "array", "invalid"}, c \in {0, 4, 1024, 4095}}
SmallNames == {Key("", 0), Key("a", 1), Key("b", 1)}
SmallShapes == {<<>>, <<0, 32>>, <<8>>, <<32>>, <<64, 256>>, <<256>>, <<2047, 2, 1>>, <<4095>>, <<1, 1, 1, 1, 1>>}

\* ArtifactFile: no tensor, equal names, padding, each encoding.
Stored3(name, encoding, shape) == [name |-> name, encoding |-> encoding, shape |-> shape]
SmallPlans ==
    {<<>>, <<Stored3(1, "f32", <<4>>), Stored3(1, "f32", <<4>>)>>, <<Stored3(2, "f32", <<600, 2>>)>>,
     <<Stored3(2, "q4_0", <<4, 33>>)>>,
     <<Stored3(3, "q4_0_cpu_dot4", <<8, 32>>), Stored3(2, "f32", <<4>>), Stored3(9, "q8_0", <<2, 32>>)>>,
     <<Stored3(3, "q4_h128_g16_cpu_dot4", <<8, 128>>), Stored3(2, "q4_h128", <<4, 128>>)>>,
     <<Stored3(3, "q4_h128_cpu_dot4", <<8, 128>>), Stored3(2, "q4_h128_cpu_dot4", <<8, 128>>)>>}

\* Weights: tensors of a few rows; every pair of layouts of what is merged.
SmallRowPlans ==
    {[embed |-> 10, gate |-> 4, up |-> 4, down |-> 6, qkv |-> 6, z |-> 2, b |-> n, a |-> n, out |-> 6,
      q |-> 4, k |-> 2, v |-> 2, o |-> 6] : n \in {1, 2}}
Typed(x, y) ==
    [embed |-> y, gate |-> x, up |-> y, down |-> x, qkv |-> x, z |-> y, b |-> x, a |-> x, out |-> y,
     q |-> y, k |-> x, v |-> x, o |-> x]
SmallTypePlans == {Typed("q4_0", "q4_0"), Typed("k", "k"), Typed("k", "q8"), Typed("q8", "k"), Typed("q4_0", "k")}

\* Readout: the whole vocabulary in tiles of one or two tokens.
SmallLogits == {-2, 2, 4}
SmallHeads == {[tile |-> 1, tiles |-> 4], [tile |-> 2, tiles |-> 2]}
\* The exponential of the lowest value has underflowed to zero.
SmallExp == [v \in -4..4 |-> IF v < 0 THEN (v + 4) \div 2 ELSE 2 + v]
SmallTopPs == {<<1, 2>>, <<4, 5>>, <<1, 1>>}
SmallPicks == {<<3, 0, 1>>, <<2, 2>>, <<1>>, <<2, 3, 0, 2>>}

\* Attention: heads that share keys among four, none and two.
SmallHeadPlans == {[heads |-> 4, kv_heads |-> 1], [heads |-> 2, kv_heads |-> 2], [heads |-> 4, kv_heads |-> 2]}

\* Forward: two prompts with a common beginning, through both kinds of layer.
SmallPrompts == <<<<"x", "y", "x", "z", "y">>, <<"x", "y", "z", "z">>>>
SmallLayers == <<"linear", "full", "linear">>
=============================================================================
