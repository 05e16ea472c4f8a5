-------------------------------- MODULE GgufFile --------------------------------
(***************************************************************************)
(* GgufReader: the index of a GGUF file is parsed record by record with     *)
(* every size checked, and payloads are read later, from the file as it     *)
(* then is.  The contents are whatever the file holds: each record read is  *)
(* a choice.                                                                *)
(***************************************************************************)
EXTENDS Work, Words, FiniteSets

CONSTANTS
    FileSizes,      \* bounds: how long a file is,
    Keys,           \* the keys of its metadata, with their lengths,
    Values,         \* and its values: types, and the counts and lengths they claim,
    Counts,         \* the numbers of records it claims,
    Names, Shapes, Offsets      \* and the names, shapes and offsets of its tensors

MaxString == Word \div 4            \* the reader's bound on a serialized string
Widths == [uint8 |-> 1, uint32 |-> 4, int32 |-> 4, float32 |-> 4, uint64 |-> 8]
ValueTypes == DOMAIN Widths \cup {"string", "array", "invalid"}

ASSUME GgufAssumption ==
    /\ FileSizes \cup Counts \cup Offsets \subseteq Nat /\ Shapes \subseteq Seq(Nat)
    /\ \A name \in Keys \cup Names : name.length \in Nat
    /\ \A v \in Values : v.type \in ValueTypes /\ v.count \in Nat /\ v.length \in Nat /\ v.number \in Nat

\* The supported payloads: values and bytes of a block.
Payloads ==
    [f32 |-> [values |-> 1, bytes |-> 4], q4_0 |-> [values |-> 32, bytes |-> 18],
     q8_0 |-> [values |-> 32, bytes |-> 34], q4_k |-> [values |-> 256, bytes |-> 144],
     q5_k |-> [values |-> 256, bytes |-> 176], q6_k |-> [values |-> 256, bytes |-> 210]]

-----------------------------------------------------------------------------
(* FileCursor.  None is a read that failed.                                 *)

Skip(at, n) ==
    IF at = None \/ n = None THEN None
    ELSE IF n <= work.size - at /\ n < Word \div 2 THEN at + n ELSE None

\* A string, behind its length.
Text(at, length) == IF length > MaxString THEN None ELSE Skip(Skip(at, 8), length)

\* skip_array_payload
ArrayEnd(at, v) ==
    IF at = None \/ v.element \in {"array", "invalid"} THEN None
    ELSE IF v.element \in DOMAIN Widths THEN Skip(at, CheckedMul(v.count, Widths[v.element]))
    ELSE IF v.count > (work.size - at) \div 8 \/ v.length > MaxString THEN None
    ELSE Skip(at, v.count * (8 + v.length))

\* skip_metadata_value
ValueEnd(at, v) ==
    CASE v.type \in DOMAIN Widths -> Skip(at, Widths[v.type])
      [] v.type = "string" -> Text(at, v.length)
      [] v.type = "array" -> ArrayEnd(Skip(at, 12), v)
      [] v.type = "invalid" -> None

\* What open reads itself must have the type it expects; the rest is skipped.
Expected(key, v) ==
    CASE key = "general.alignment" -> v.type = "uint32"
      [] key = "general.architecture" -> v.type = "string"
      [] key = "tokenizer.ggml.tokens" -> v.type = "array" /\ v.element = "string"
      [] key = "qwen35.rope.dimension_sections" ->
           v.type = "array" /\ v.element = "int32" /\ v.count = 4
      [] OTHER -> TRUE

\* compute_tensor_layout
Layout(shape, type) ==
    LET elements == CheckedProduct(shape)
    IN  IF \/ type \notin DOMAIN Payloads \/ elements = None
           \/ \E d \in DOMAIN shape : shape[d] >= Word \div 2
        THEN None
        ELSE LET p == Payloads[type]
             IN  IF p.values > 1 /\ (shape = <<>> \/ shape[1] % p.values # 0) THEN None
                 ELSE CheckedMul(elements \div p.values, p.bytes)

-----------------------------------------------------------------------------
Closed == [tensors |-> <<>>, data |-> 0]
Nothing == [tensor |-> 0, room |-> 0, from |-> 0, bytes |-> 0]

GgufInit ==
    \E size \in FileSizes :
        work = [part |-> "gguf", size |-> size, phase |-> "header", at |-> 0, left |-> 0, wanted |-> 0,
                keys |-> {}, alignment |-> 32, next |-> 0, index |-> Closed, got |-> Nothing]

Rejected == work' = [work EXCEPT !.phase = "rejected", !.index = Closed]

HeaderRead ==
    /\ Is("gguf") /\ work.phase = "header"
    /\ \E version \in {2, 3}, tensors, metadata \in Counts :
          IF Skip(0, 24) = None \/ version # 3 \/ tensors > work.size \div 24 \/ metadata > work.size \div 13
          THEN Rejected
          ELSE work' = [work EXCEPT !.phase = "metadata", !.at = 24, !.left = metadata, !.wanted = tensors]

MetadataRead ==
    /\ Is("gguf") /\ work.phase = "metadata" /\ work.left > 0
    /\ \E key \in Keys, v \in Values :
          LET end == ValueEnd(Skip(Text(work.at, key.length), 4), v)
          IN  IF \/ key.length = 0 \/ key.name \in work.keys \/ end = None
                 \/ ~Expected(key.name, v)
              THEN Rejected
              ELSE work' = [work EXCEPT !.at = end, !.left = @ - 1, !.keys = @ \cup {key.name},
                               !.alignment = IF key.name = "general.alignment" THEN v.number ELSE @]

MetadataEnds ==
    /\ Is("gguf") /\ work.phase = "metadata" /\ work.left = 0
    /\ IF IsPowerOfTwo(work.alignment) THEN work' = [work EXCEPT !.phase = "tensors"] ELSE Rejected

TensorRead ==
    /\ Is("gguf") /\ work.phase = "tensors" /\ Len(work.index.tensors) < work.wanted
    /\ \E name \in Names, shape \in Shapes, type \in DOMAIN Payloads \cup {"other"},
          offset \in Offsets \cup {work.next} :
          LET end == Skip(Text(work.at, name.length), 4 + 8 * Len(shape) + 12)
              size == Layout(shape, type)
              next == AlignUp(CheckedAdd(offset, size), work.alignment)
          IN  IF \/ end = None \/ name.length = 0 \/ Len(shape) > 4 \/ size = None
                 \/ offset % work.alignment # 0 \/ offset # work.next \/ next = None
                 \/ \E i \in DOMAIN work.index.tensors : work.index.tensors[i].name = name.name
              THEN Rejected
              ELSE work' = [work EXCEPT !.at = end, !.next = next,
                               !.index.tensors = Append(@, [name |-> name.name, type |-> type, shape |-> shape,
                                                           relative |-> offset, size |-> size])]

\* The payloads must lie inside the file.
IndexEnds ==
    /\ Is("gguf") /\ work.phase = "tensors" /\ Len(work.index.tensors) = work.wanted
    /\ LET data == IF work.wanted = 0 THEN work.at ELSE AlignUp(work.at, work.alignment)
           fits(t) == LET end == CheckedAdd(CheckedAdd(data, t.relative), t.size)
                      IN  end # None /\ end <= work.size
       IN  IF data = None \/ data > work.size \/ \E i \in DOMAIN work.index.tensors : ~fits(work.index.tensors[i])
           THEN Rejected
           ELSE work' = [work EXCEPT !.phase = "open", !.index.data = data]

\* read_tensor_bytes, read_f32_tensor, read_q8_0_tensor and read_q4_0_tensor: how
\* many items of how many bytes are allocated, and what is read into them from the
\* file of this moment.
PayloadRead ==
    /\ Is("gguf") /\ work.phase = "open" /\ work.got = Nothing
    /\ \E i \in DOMAIN work.index.tensors, as \in {"bytes", "f32", "q8_0", "q4_0"}, now \in FileSizes :
          LET t == work.index.tensors[i]
              width == IF as = "bytes" THEN 1 ELSE Payloads[as].bytes
              items == IF as = "f32" THEN Layout(t.shape, "f32") \div 4 ELSE t.size \div width
              from == work.index.data + t.relative
          IN  /\ as \in {"bytes", t.type} /\ (t.size = 0 \/ from + t.size <= now)
              /\ work' = [work EXCEPT !.got =
                             [tensor |-> i, room |-> items * width, from |-> from, bytes |-> t.size]]

GgufNext ==
    HeaderRead \/ MetadataRead \/ MetadataEnds \/ TensorRead \/ IndexEnds \/ PayloadRead

GgufSpec == GgufInit /\ [][GgufNext]_work

-----------------------------------------------------------------------------
(* Properties.                                                              *)

\* The bytes a tensor needs, in numbers without a limit.
ValuesOf(shape) ==
    LET upto[k \in 0..Len(shape)] == IF k = 0 THEN 1 ELSE upto[k - 1] * shape[k]
    IN  upto[Len(shape)]
Bytes(t) == (ValuesOf(t.shape) \div Payloads[t.type].values) * Payloads[t.type].bytes

\* Whatever the file claims: the cursor stays inside it and each record consumed its
\* share of it, so that no claimed count drives a loop; every tensor of an accepted
\* index has the bytes its shape needs, aligned, behind the index, inside the file,
\* and shared with no other; and a payload fills exactly what was allocated for it.
GgufIsSafe ==
    Is("gguf") =>
      LET ts == work.index.tensors
          start(i) == work.index.data + ts[i].relative
      IN  /\ work.at <= work.size
          /\ work.phase \notin {"header", "rejected"} =>
                24 + 13 * Cardinality(work.keys) + 24 * Len(ts) <= work.at
          /\ work.phase = "open" =>
                /\ \A i \in DOMAIN ts :
                      /\ ts[i].size = Bytes(ts[i]) /\ ts[i].relative % work.alignment = 0
                      /\ start(i) >= work.at /\ start(i) + ts[i].size <= work.size
                /\ \A i, j \in DOMAIN ts : i < j =>
                      ts[i].name # ts[j].name /\ start(i) + ts[i].size <= start(j)
          /\ work.got # Nothing => work.got.room = work.got.bytes /\ work.got.from = start(work.got.tensor)
=============================================================================
