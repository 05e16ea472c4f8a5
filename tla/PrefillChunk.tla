---------------------------- MODULE PrefillChunk ----------------------------
(***************************************************************************)
(* How a prompt is cut into prefill chunks.  The engine evaluates one chunk *)
(* per step; a chunk must end at every multiple of the chunk size and at    *)
(* the position where row attention hands over to tiled attention, also     *)
(* when a restored prefix starts the request in the middle of a chunk.      *)
(***************************************************************************)
EXTENDS Integers

\* prefill_attention_row_limit
RowLimit == 128

Smaller(a, b) == IF a <= b THEN a ELSE b

\* prefill_chunk_token_count
PrefillCount(position, remaining, chunk) ==
    IF remaining = 0 \/ chunk = 0 THEN 0
    ELSE LET aligned == Smaller(chunk - (position % chunk), remaining)
         IN  IF position < RowLimit THEN Smaller(aligned, RowLimit - position)
                                    ELSE aligned

\* The chunk size of a request: the configured one, or by prompt length.
ChunkSize(configured, promptLength) ==
    IF configured # 0 THEN configured
    ELSE IF promptLength <= 128 THEN 64 ELSE 128
=============================================================================
