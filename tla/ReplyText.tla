------------------------------- MODULE ReplyText -------------------------------
(***************************************************************************)
(* From the bytes of the generated tokens to the text of a reply: the UTF-8 *)
(* decoder and the matcher of stop sequences, both of which hold back what  *)
(* the next bytes may complete.  A token may end anywhere in a character    *)
(* and anywhere in a stop sequence.                                         *)
(***************************************************************************)
EXTENDS Work, Integers, FiniteSets, SequencesExt

CONSTANT Texts      \* bounds: the stop sequences, and the bytes and length of the input

Replacement == <<239, 191, 189>>

Length(lead) ==
    CASE lead < 128 -> 1 [] lead \in 194..223 -> 2 [] lead \in 224..239 -> 3
      [] lead \in 240..244 -> 4 [] OTHER -> 0

\* What may follow as byte j of a character.
Continuations(lead, j) ==
    CASE j = 2 /\ lead = 224 -> 160..191 [] j = 2 /\ lead = 237 -> 128..159
      [] j = 2 /\ lead = 240 -> 144..191 [] j = 2 /\ lead = 244 -> 128..143
      [] OTHER -> 128..191

\* The bytes at the front that may belong to one character.
Good(bytes) ==
    LET n == Length(bytes[1])
        fits == {k \in 1..Len(bytes) : k <= n /\ \A j \in 2..k : bytes[j] \in Continuations(bytes[1], j)}
    IN  IF n = 0 THEN 1 ELSE Max(fits)

\* Utf8Decoder::push: the text of the pending bytes, and those that stay pending.
RECURSIVE Decoded(_, _)
Decoded(bytes, final) ==
    IF bytes = <<>> THEN [text |-> <<>>, rest |-> <<>>]
    ELSE LET n == Length(bytes[1])
             good == Good(bytes)
             after == Decoded(SubSeq(bytes, good + 1, Len(bytes)), final)
         IN  IF n > good /\ good = Len(bytes) /\ ~final THEN [text |-> <<>>, rest |-> bytes]
             ELSE [after EXCEPT !.text =
                     (IF good = n THEN SubSeq(bytes, 1, n) ELSE Replacement) \o @]

-----------------------------------------------------------------------------
NotFound == 10000

\* Where the pattern begins in the text, counted from 0.
Find(text, pattern) ==
    LET at == {i \in 0..(Len(text) - Len(pattern)) : SubSeq(text, i + 1, i + Len(pattern)) = pattern}
    IN  IF at = {} THEN NotFound ELSE Min(at)

\* HeldSuffix: how much of the text's end may begin the pattern.
HeldSuffix(text, pattern) ==
    LET held == {n \in 0..(Len(pattern) - 1) : n <= Len(text)
                    /\ SubSeq(text, Len(text) - n + 1, Len(text)) = SubSeq(pattern, 1, n)}
    IN  Max(held)

\* A matcher and what it last returned.
Matcher(stops) == [stops |-> stops, pending |-> <<>>, stopped |-> FALSE, matched |-> <<>>, output |-> <<>>]

\* (Fault) A match that begins in the bytes held back is overlooked.
Push_Fresh(m, text) ==
    LET first == Min({NotFound} \cup {Find(text, m.stops[i]) : i \in DOMAIN m.stops})
        all == m.pending \o text
        hold == Max({0} \cup {HeldSuffix(all, m.stops[i]) : i \in DOMAIN m.stops})
    IN  IF m.stopped THEN [m EXCEPT !.output = <<>>]
        ELSE IF first # NotFound
        THEN [m EXCEPT !.stopped = TRUE, !.pending = <<>>,
                       !.matched = SelectSeq(m.stops, LAMBDA s : Find(text, s) = first)[1],
                       !.output = m.pending \o SubSeq(text, 1, first)]
        ELSE [m EXCEPT !.pending = SubSeq(all, Len(all) - hold + 1, Len(all)),
                       !.output = SubSeq(all, 1, Len(all) - hold)]

\* StopMatcher::Push: the stop that begins first ends the text, of two the first listed.
Push(m, text) ==
    LET all == m.pending \o text
        first == Min({NotFound} \cup {Find(all, m.stops[i]) : i \in DOMAIN m.stops})
        hold == Max({0} \cup {HeldSuffix(all, m.stops[i]) : i \in DOMAIN m.stops})
    IN  IF m.stopped THEN [m EXCEPT !.output = <<>>]
        ELSE IF first # NotFound
        THEN [m EXCEPT !.stopped = TRUE, !.pending = <<>>,
                       !.matched = SelectSeq(m.stops, LAMBDA s : Find(all, s) = first)[1],
                       !.output = SubSeq(all, 1, first)]
        ELSE [m EXCEPT !.pending = SubSeq(all, Len(all) - hold + 1, Len(all)),
                       !.output = SubSeq(all, 1, Len(all) - hold)]

\* StopMatcher::Finish
Finished(m) ==
    [m EXCEPT !.pending = <<>>, !.output = IF m.stopped THEN <<>> ELSE m.pending]

-----------------------------------------------------------------------------
(* The service at work on one reply; given, decoded and shown are history.  *)

TextInit ==
    \E t \in Texts :
        work = [part |-> "text", from |-> t, given |-> <<>>, pending |-> <<>>, decoded |-> <<>>,
                matcher |-> Matcher(t.stops), shown |-> <<>>, over |-> FALSE]

\* The bytes of one token.
TokenText(bytes) ==
    /\ Is("text") /\ ~work.over /\ ~work.matcher.stopped
    /\ Len(work.given) + Len(bytes) <= work.from.length
    /\ LET d == Decoded(work.pending \o bytes, FALSE)
           m == Push(work.matcher, d.text)
       IN  work' = [work EXCEPT !.given = @ \o bytes, !.pending = d.rest, !.decoded = @ \o d.text,
                                !.matcher = m, !.shown = @ \o m.output]

\* The reply ends: the decoder is flushed into the matcher, and the matcher.
TextEnds ==
    /\ Is("text") /\ ~work.over
    /\ LET d == Decoded(work.pending, TRUE)
           m == Push(work.matcher, d.text)
           last == Finished(m)
       IN  work' = [work EXCEPT !.pending = d.rest, !.decoded = @ \o d.text, !.matcher = last,
                                !.shown = @ \o m.output \o last.output, !.over = TRUE]

TextNext ==
    \/ \E bytes \in IF Is("text") THEN UNION {[1..n -> work.from.bytes] : n \in 1..2} ELSE {} :
          TokenText(bytes)
    \/ TextEnds

-----------------------------------------------------------------------------
(* Properties.                                                              *)

\* The well-formed characters (the Unicode standard's table 3-7).
WellFormed ==
    LET t == 128..191 IN
    {<<0..127>>, <<194..223, t>>, <<{224}, 160..191, t>>, <<225..236, t, t>>,
     <<{237}, 128..159, t>>, <<238..239, t, t>>, <<{240}, 144..191, t, t>>,
     <<241..243, t, t, t>>, <<{244}, 128..143, t, t>>}

\* A text with each maximal part that begins no character replaced.
RECURSIVE Utf8(_)
Utf8(bytes) ==
    IF bytes = <<>> THEN <<>>
    ELSE LET begins == {k \in 1..Min({4, Len(bytes)}) :
                          \E w \in WellFormed : k <= Len(w) /\ \A j \in 1..k : bytes[j] \in w[j]}
             k == Max({1} \cup begins)
             whole == \E w \in WellFormed : Len(w) = k /\ \A j \in 1..k : bytes[j] \in w[j]
         IN  (IF whole THEN SubSeq(bytes, 1, k) ELSE Replacement) \o Utf8(SubSeq(bytes, k + 1, Len(bytes)))

Occurs(stop, text) == {i \in 0..(Len(text) - Len(stop)) : SubSeq(text, i + 1, i + Len(stop)) = stop}

\* However the bytes are cut into tokens, the text is the one of all the bytes
\* together, no byte of a stop sequence in it is ever shown, nothing in front of
\* the stop is lost, and without a stop everything is shown in the end.
ReplyIsWhole ==
    Is("text") =>
      LET m == work.matcher
          hidden == \A i \in DOMAIN m.stops : \A at \in Occurs(m.stops[i], work.decoded) : at >= Len(work.shown)
      IN  /\ Utf8(work.given) = work.decoded \o Utf8(work.pending)
          /\ hidden
          /\ IF m.stopped THEN IsPrefix(work.shown \o m.matched, work.decoded)
                          ELSE work.decoded = work.shown \o m.pending
          /\ work.over => work.pending = <<>> /\ m.pending = <<>>
=============================================================================
