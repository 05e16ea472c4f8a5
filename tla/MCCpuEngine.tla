---------------------------- MODULE MCCpuEngine ----------------------------
(***************************************************************************)
(* Small instances of CpuEngine.                                            *)
(***************************************************************************)
EXTENDS CpuEngine

Plain(prompt, maxNew) ==
    [prompt |-> prompt, maxNew |-> maxNew, stopIds |-> {}, stops |-> {},
     ns |-> "a", reg |-> 0]

Building(prompt, reg, ns) ==
    [prompt |-> prompt, maxNew |-> 1, stopIds |-> {}, stops |-> {},
     ns |-> ns, reg |-> reg]

\* A long and a short prompt, for the turns of prefill and decode.
TurnSpecs == {Plain(<<1, 1, 1>>, 2), Plain(<<1>>, 2)}

\* Requests that share two leading tokens: one extends them, one consists of
\* them and has a decode forward, before which a reader may stop.
SharedSpecs ==
    {Building(<<1, 1, 2>>, 2, "a"), [Building(<<1, 1>>, 2, "a") EXCEPT !.maxNew = 2]}

\* The first of them and one of another namespace, and prefixes of two lengths.
StoreSpecs == {Building(<<1, 1, 2>>, 2, "a"), Building(<<1, 1>>, 2, "b")}

SharedRegistrations == {[ns |-> "a", tokens |-> <<1, 1>>],
                        [ns |-> "a", tokens |-> <<1>>]}

\* Every reader drains its request's output except the first request's, which
\* may stop.
FairReaders == Ids \ {1}
LiveSpec == Spec /\ StepFairness /\ \A i \in FairReaders : ReaderFairness(i)
EveryRequestFinishes == Finishes(FairReaders)

OneEach == [n \in 0..MaxContext |-> n]
Half == [n \in 0..MaxContext |-> n \div 2]
NoRegistrations == {}
NoneLent == {}
\* A snapshot a request may start from and still build a longer one; two
\* snapshots of the right namespace and one of another.
LentShort == {[obj |-> 3, ns |-> "b", tokens |-> <<1>>, config |-> Config]} \cup
    {[obj |-> n, ns |-> "a", tokens |-> [k \in 1..n |-> 1], config |-> Config] : n \in 1..2}
LentTwo == {[obj |-> 1, ns |-> "a", tokens |-> <<1>>, config |-> Config],
            [obj |-> 4, ns |-> "a", tokens |-> <<1>>, config |-> "other"]}
=============================================================================
