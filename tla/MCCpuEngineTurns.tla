-------------------------- MODULE MCCpuEngineTurns --------------------------
(***************************************************************************)
(* Small instances of CpuEngineTurns.                                       *)
(***************************************************************************)
EXTENDS CpuEngineTurns, MCCpuEngine

\* A prompt of three chunks among requests that are done after one.
LongAmongShort == {Plain(<<1, 1, 1>>, 1), Plain(<<1>>, 1)}

\* A prompt of two chunks; one with two decode forwards and overlapping stop
\* sequences, of which every token may begin one; one whose stop sequence could
\* fill the buffer.  Token 2 ends the others.
Ending(spec, stops) == [spec EXCEPT !.stopIds = {2}, !.stops = stops]
LongAndShort ==
    {Ending(Plain(<<1, 1, 1>>, 1), {}), Ending(Plain(<<1>>, 3), {<<1, 1, 2>>}),
     [Plain(<<1>>, 3) EXCEPT !.stops = {<<1, 2>>, <<2>>}]}
=============================================================================
