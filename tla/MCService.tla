------------------------------ MODULE MCService ------------------------------
(***************************************************************************)
(* Small instances of Service.                                              *)
(***************************************************************************)
EXTENDS Service

Mixed == {<<"tools", "decision", "none">>, <<"stream", "plain", "none">>,
          <<"messages", "none", "none">>, <<"count", "count", "count">>}

Tokens == [k \in {"plain", "stream", "tools", "messages"} |-> IF k = "stream" THEN 2 ELSE 1]
=============================================================================
