------------------------------ MODULE MCBrowser ------------------------------
(***************************************************************************)
(* Small instances of Browser.                                              *)
(***************************************************************************)
EXTENDS Browser, TLC

TwoFiles == <<"tokenizer.json", "model.q35h">>

\* Nothing; a wrong checksum beside weights of the right size that are damaged; and a
\* sound copy beside weights that were cut off, or are damaged.
Leftovers == {[f \in {"tokenizer.json", "model.q35h"} |-> "absent"]}
    \cup {("tokenizer.json" :> pair[1]) @@ ("model.q35h" :> pair[2]) :
              pair \in {<<"corrupt", "corrupt">>, <<"good", "short">>, <<"good", "corrupt">>}}
=============================================================================
