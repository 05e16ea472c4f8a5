---------------------------- MODULE OutputTokens ----------------------------
(***************************************************************************)
(* The output of one request of CpuEngine, as pure functions of the token   *)
(* sequence: where a stop condition cuts it, and how much of it is already  *)
(* certain to survive every later cut.  Shared by the engine's state        *)
(* machine and by the theorem that a token handed out is never taken back.  *)
(***************************************************************************)
EXTENDS Integers, Sequences

\* Least element of a non-empty set of naturals.
Least(S) == CHOOSE x \in S : \A y \in S : x <= y

\* Whether out ends with the (non-empty) sequence s.
EndsWith(out, s) ==
    /\ Len(s) \in 1..Len(out)
    /\ SubSeq(out, Len(out) - Len(s) + 1, Len(out)) = s

\* What follows the first k tokens of out.
After(out, k) == SubSeq(out, k + 1, Len(out))

\* The lengths at which a stop condition that matches the end of out cuts it:
\* a stop token is withheld, and so is every stop sequence as a whole.
Cuts(out, stopIds, stops) ==
    {Len(out) - 1 : t \in {out[Len(out)]} \cap stopIds}
      \cup {Len(out) - Len(s) : s \in {t \in stops : EndsWith(out, t)}}

\* The length left by the longest cut.
Kept(out, stopIds, stops) == Least({Len(out)} \cup Cuts(out, stopIds, stops))

\* (Fault) The last token in front of a full match is not withheld.
Pending_OneShort(out, k, stops) ==
    \E s \in stops : /\ Len(out) - k \in 1..(Len(s) - 2)
                     /\ After(out, k) = SubSeq(s, 1, Len(out) - k)

\* Whether the tail of out behind position k may still grow into a stop
\* sequence: it is a proper, non-empty prefix of one.
Pending(out, k, stops) ==
    \E s \in stops : /\ Len(out) - k \in 1..(Len(s) - 1)
                     /\ After(out, k) = SubSeq(s, 1, Len(out) - k)

\* (Fault) Nothing is withheld.
Confirmed_Everything(out, stops) == Len(out)

\* How many tokens of a running request's output no stop sequence can retract:
\* everything in front of the longest tail that may still become one.
Confirmed(out, stops) ==
    Least({k \in 0..Len(out) : k = Len(out) \/ Pending(out, k, stops)})
=============================================================================
