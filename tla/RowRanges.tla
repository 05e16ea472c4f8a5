----------------------------- MODULE RowRanges -----------------------------
(***************************************************************************)
(* How CpuExecutor cuts the rows 0..rows-1 of a job into one contiguous     *)
(* range per participating thread: the first rows % parts ranges get one    *)
(* row more than the others.                                                *)
(***************************************************************************)
EXTENDS Integers

\* (Fault) The rows that do not divide evenly are forgotten.
Begin_NoRemainder(rows, parts, p) == p * (rows \div parts)

\* static_row_range(rows, parts, p).begin; its end is where the next one begins.
Begin(rows, parts, p) ==
    p * (rows \div parts) + (IF p <= rows % parts THEN p ELSE rows % parts)

RowRange(rows, parts, p) == Begin(rows, parts, p) .. (Begin(rows, parts, p + 1) - 1)
=============================================================================
