------------------------------ MODULE Computations ------------------------------
(***************************************************************************)
(* The computations between a file and an answer, each one call of the       *)
(* program that nothing else interleaves with.  They share no state, so one   *)
(* variable holds whichever is under way, and a behaviour is one of them.     *)
(***************************************************************************)
EXTENDS Tokenizer, ReplyText, JsonGrammar, GgufFile, ArtifactFile, Weights, Readout, Attention, Forward, QuantizedDot

Init ==
    \/ GgufInit \/ ArtifactInit \/ WeightsInit
    \/ ForwardInit \/ AttentionInit \/ DotInit
    \/ ReadoutInit \/ GrammarInit \/ TextInit \/ TokenizerInit

Next ==
    \/ GgufNext \/ ArtifactNext \/ WeightsNext
    \/ ForwardNext \/ AttentionNext \/ DotNext
    \/ ReadoutNext \/ TokenSampled \/ TextNext \/ TokenizerNext

Spec == Init /\ [][Next]_work

\* What goes in as text is what the tokens say, and what the tokens say comes out as
\* text: the tokenizer splits and merges prompts as the vocabulary was learned, and
\* the decoder and the stop matcher lose and leak nothing of a reply.
TextIsWhole == PromptIsWhole /\ ReplyIsWhole
=============================================================================
