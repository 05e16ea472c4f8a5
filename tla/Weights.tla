-------------------------------- MODULE Weights --------------------------------
(***************************************************************************)
(* The way of a weight: from the model directory through the converter's    *)
(* artifact, or from a GGUF file, into the fused tensors of the runtime, and  *)
(* from there into the products of a batch, cut into jobs of the executor.    *)
(* A weight is the row it came from, the basis it is in and its packing.      *)
(***************************************************************************)
EXTENDS Work, RowRanges, FiniteSets, SequencesExt

CONSTANTS
    RowPlans,       \* bounds: the rows of each projection,
    TypePlans,      \* the types of each in a GGUF file,
    Batches,        \* the vectors of one product
    Threads         \* and the threads of the executor

\* The code's tile of 8 rows, its 4 packed vectors, and the 16 vectors and 32 tiles of a G16 task.
CONSTANTS Tile, Vectors, TokenGroup, TileGroup

\* One layer of each kind; the parts of a layer that are projections, as listed in a source.
Kinds == <<"linear", "full">>
Parts(kind) ==
    <<"gate", "up", "down">> \o (IF kind = "linear" THEN <<"qkv", "z", "b", "a", "out">> ELSE <<"q", "k", "v", "o">>)
Embedding == <<0, "embed">>
ProjectionNames == <<Embedding>> \o FlattenSeq([l \in DOMAIN Kinds |-> [i \in DOMAIN Parts(Kinds[l]) |-> <<l, Parts(Kinds[l])[i]>>]])

\* The slices the forward pass takes from a fused tensor, in their order.
Slices ==
    [all |-> <<"qkv", "z", "b", "a">>, gate_up |-> <<"gate", "up">>, qkv_proj |-> <<"q", "k", "v">>,
     down |-> <<"down">>, out |-> <<"out">>, o |-> <<"o">>, embed |-> <<"embed">>]

RowSum(parts, plan) == FoldLeft(LAMBDA n, p : n + plan[p], 0, parts)

Cell(name, i, basis, form) == [of |-> <<name, i>>, basis |-> basis, form |-> form]
Cells(name, rows, basis, form) == [i \in 1..rows |-> Cell(name, i, basis, form)]

NotLoaded == [format |-> "refused"]

-----------------------------------------------------------------------------
(* The converter's artifact: from names to encoding and content.            *)

Options ==
    {o \in [q8_gates : BOOLEAN, q8_head : BOOLEAN, basis : {"identity", "h128"}, g16 : BOOLEAN] :
        o.q8_head => o.basis = "identity" /\ ~o.g16}

\* append_required_tensors and the options that change an encoding.
SourceEncoding(part, options) ==
    CASE part = "embed" /\ options.q8_head -> "q8_0"
      [] part \in {"a", "b"} /\ options.q8_gates -> "q8_0"
      [] part = "embed" /\ options.basis = "identity" -> "q4_0"
      [] OTHER -> "q4_h128"

Merged(part, encoding) ==
    CASE encoding = "q8_0" -> IF part \in {"a", "b"} THEN "ba" ELSE part
      [] part \in {"gate", "up"} -> "gate_up"
      [] part \in {"qkv", "z", "b", "a"} -> "all"
      [] part \in {"q", "k", "v"} -> "qkv_proj"
      [] OTHER -> part

\* plan_conversion: sources of one name follow each other in the output.
Conversion(options) ==
    LET add(plan, name) ==
            LET encoding == SourceEncoding(name[2], options)
                output == <<name[1], Merged(name[2], encoding)>>
                same == {i \in DOMAIN plan : plan[i].name = output}
            IN  IF same # {} THEN [plan EXCEPT ![CHOOSE i \in same : TRUE].sources = Append(@, name)]
                ELSE Append(plan, [name |-> output, sources |-> <<name>>, g16 |-> name = Embedding /\ options.g16,
                                   encoding |-> CASE encoding = "q4_h128" -> "q4_h128_cpu_dot4"
                                                  [] encoding = "q4_0" -> "q4_0_cpu_dot4" [] OTHER -> encoding])
    IN  FoldLeft(add, <<>>, ProjectionNames)

\* convert_tensor: what is written of an output.
Converted(item, plan) ==
    LET basis == IF item.encoding = "q4_h128_cpu_dot4" THEN "h128" ELSE "identity"
        form == CASE item.g16 -> "g16" [] item.encoding = "q8_0" -> "q8" [] OTHER -> "dot4"
        content(name) == Cells(name, plan[name[2]], basis, form)
    IN  FlattenSeq([i \in DOMAIN item.sources |-> content(item.sources[i])])

\* Rows that fill no tile cannot be packed.
Convertible(item, plan) ==
    item.encoding # "q8_0" => \A i \in DOMAIN item.sources : plan[item.sources[i][2]] % Tile = 0

Artifact(options, plan) ==
    LET items == Conversion(options) IN
    [name \in {items[i].name : i \in DOMAIN items} |->
        LET item == items[CHOOSE i \in DOMAIN items : items[i].name = name] IN
        [encoding |-> IF item.g16 THEN "g16" ELSE item.encoding, content |-> Converted(item, plan),
         h128 |-> item.encoding = "q4_h128_cpu_dot4"]]

-----------------------------------------------------------------------------
(* Into the runtime: tensors of one format, with a Q8 tail or of GGUF parts. *)

Tensor(format, h128, content) == [format |-> format, h128 |-> h128, content |-> content, gates |-> <<>>, parts |-> <<>>]

RowCount(w) == Len(w.content) + Len(w.gates)

\* load_q4_h128_quantized_checked
Checked(artifact, name, rows, expect) ==
    IF name \notin DOMAIN artifact \/ Len(artifact[name].content) # rows THEN NotLoaded
    ELSE LET t == artifact[name] IN
         CASE t.encoding = "g16" /\ name = Embedding -> Tensor("g16", t.h128, t.content)
           [] t.encoding = "q8_0" /\ ~expect -> Tensor("q8", FALSE, t.content)
           [] t.encoding = (IF expect THEN "q4_h128_cpu_dot4" ELSE "q4_0_cpu_dot4") -> Tensor("q4", expect, t.content)
           [] OTHER -> NotLoaded

\* load_model_weights_from_q4_h128: the gates of a layer may be a tensor of their own.
FromArtifact(artifact, plan, name) ==
    LET ba == <<name[1], "ba">>
        mixed == name[2] = "all" /\ ba \in DOMAIN artifact
        gate_rows == IF mixed THEN 2 * plan.b ELSE 0
        w == Checked(artifact, name, RowSum(Slices[name[2]], plan) - gate_rows, name # Embedding \/ artifact[name].h128)
        gate == Checked(artifact, ba, gate_rows, FALSE)
    IN  IF ~mixed \/ w = NotLoaded THEN w
        ELSE IF artifact[ba].encoding # "q8_0" \/ gate = NotLoaded THEN NotLoaded
        ELSE [w EXCEPT !.gates = gate.content]

\* load_gguf_quantized_checked; a K-quant keeps its bytes.
GgufTensor(name, type, plan) ==
    LET rows == plan[name[2]] IN
    IF type = "q4_0"
    THEN IF rows % Tile # 0 THEN NotLoaded ELSE Tensor("q4", FALSE, Cells(name, rows, "identity", "dot4"))
    ELSE [Tensor("gguf", FALSE, Cells(name, rows, "identity", type)) EXCEPT !.parts = <<[type |-> type, rows |-> rows]>>]

\* pack_quantized_row_concat: all parts of the first one's format.
RowConcat(parts) ==
    IF NotLoaded \in ToSet(parts) \/ \E i \in DOMAIN parts : parts[i].format # parts[1].format THEN NotLoaded
    ELSE [parts[1] EXCEPT !.content = FlattenSeq([i \in DOMAIN parts |-> parts[i].content]),
                          !.parts = FlattenSeq([i \in DOMAIN parts |-> parts[i].parts])]

\* load_model_weights_from_quantized_gguf; the types of a layer's input projections may differ.
FromGguf(types, plan, name) ==
    LET slices == Slices[name[2]]
        parts == [i \in DOMAIN slices |-> GgufTensor(<<name[1], slices[i]>>, types[slices[i]], plan)]
    IN  IF Len(parts) = 1 THEN parts[1] ELSE RowConcat(parts)

RuntimeNames == {Embedding} \cup UNION {
    {<<l, p>> : p \in {"gate_up", "down"} \cup (IF Kinds[l] = "linear" THEN {"all", "out"} ELSE {"qkv_proj", "o"})} :
        l \in DOMAIN Kinds}

-----------------------------------------------------------------------------
(* Products.  A job covers the vectors first..first+count-1.                *)

CeilDiv(a, b) == (a + b - 1) \div b

Job(kind, first, count, tasks) == [kind |-> kind, first |-> first, count |-> count, tasks |-> tasks]

\* matvec_2d, and matmul_2d_quantized_batch for a batch: full groups of vectors
\* first, the tail as one job or one job a vector, the Q8 rows last.
Jobs(w, count, decode, merge) ==
    LET tiles == Len(w.content) \div Tile
        packed == IF decode THEN 0 ELSE count - (count % Vectors)
        tail == count - packed
        groups == IF packed = 0 THEN <<>> ELSE <<Job("packed", 0, packed, tiles)>>
        rest == IF merge /\ ~decode /\ tail > 1 THEN <<Job("single", packed, tail, tiles)>>
                ELSE [i \in 1..tail |-> Job("single", packed + i - 1, 1, tiles)]
        gates == IF w.gates = <<>> THEN <<>> ELSE <<Job("gates", 0, count, 1)>>
    IN  CASE w.format = "q4" -> groups \o rest \o gates
          [] w.format = "q8" -> <<Job("rows", 0, count, Len(w.content))>>
          [] w.format = "g16" -> <<Job("g16", 0, count, CeilDiv(count, TokenGroup) * CeilDiv(tiles, TileGroup))>>
          [] w.format = "gguf" -> <<Job("gguf", 0, count, CeilDiv(Len(w.content), Tile) * CeilDiv(count, Vectors))>>

\* The rows and vectors of one task.
TaskRows(w, job, task) ==
    LET rows == Len(w.content)
        from(n, size) == {r \in 1..rows : r > n * size /\ r <= (n + 1) * size}
    IN  CASE job.kind \in {"packed", "single"} -> from(task, Tile)
          [] job.kind = "rows" -> {task + 1}
          [] job.kind = "gates" -> (rows + 1)..RowCount(w)
          [] job.kind = "g16" -> from(task % CeilDiv(rows \div Tile, TileGroup), TileGroup * Tile)
          [] job.kind = "gguf" -> from(task % CeilDiv(rows, Tile), Tile)

\* (Fault) The last group of a task's vectors is taken for a full one of the one before.
TaskTokens_RowMajor(w, job, task) ==
    LET group(n, size) == {t \in 1..job.count : t > n * size /\ t <= (n + 1) * size}
    IN  CASE job.kind = "g16" -> group(task \div CeilDiv(Len(w.content) \div Tile, TileGroup), TokenGroup)
          [] job.kind = "gguf" -> group(task \div CeilDiv(job.count, Vectors), Vectors)
          [] OTHER -> (job.first + 1)..(job.first + job.count)

TaskTokens(w, job, task) ==
    LET group(n, size) == {t \in 1..job.count : t > n * size /\ t <= (n + 1) * size}
    IN  CASE job.kind = "g16" -> group(task \div CeilDiv(Len(w.content) \div Tile, TileGroup), TokenGroup)
          [] job.kind = "gguf" -> group(task \div CeilDiv(Len(w.content), Tile), Vectors)
          [] OTHER -> (job.first + 1)..(job.first + job.count)

\* The part of a GGUF tensor a row lies in: its type and the rows in front.
PartOf(parts, row) ==
    LET before(i) == FoldLeft(LAMBDA n, p : n + p.rows, 0, SubSeq(parts, 1, i - 1))
        i == CHOOSE j \in DOMAIN parts : before(j) < row /\ row <= before(j) + parts[j].rows
    IN  parts[i].type

\* How the vectors were prepared for a row.
Prepared(w, job, row) ==
    [basis |-> IF w.h128 /\ job.kind # "gates" THEN "h128" ELSE "identity",
     form |-> CASE job.kind \in {"packed", "single"} -> "dot4" [] job.kind \in {"gates", "rows"} -> "q8"
                [] job.kind = "g16" -> "g16" [] job.kind = "gguf" -> PartOf(w.parts, row)]

\* What a task writes: a weight row and a vector, for each place of the output.
Written(w, job, task) ==
    {[token |-> t, row |-> r, weight |-> (w.content \o w.gates)[r], vector |-> Prepared(w, job, r)] :
        t \in TaskTokens(w, job, task), r \in TaskRows(w, job, task)}

\* dequantize_embedding_row
EmbeddingRow(w, row) ==
    LET c == w.content[row] IN
    [of |-> c.of, basis |-> IF w.format \in {"q4", "g16"} /\ w.h128 /\ c.basis = "h128" THEN "identity" ELSE c.basis]

-----------------------------------------------------------------------------
(* One model, and products with its tensors.                                *)

WeightsInit ==
    \E plan \in RowPlans :
        work = [part |-> "weights", plan |-> plan, phase |-> "source", artifact |-> <<>>, tensors |-> <<>>,
                name |-> <<>>, count |-> 0, jobs |-> <<>>, threads |-> 1, done |-> {}, written |-> {}, twice |-> FALSE]

ModelConverted ==
    /\ Is("weights") /\ work.phase = "source"
    /\ \E options \in Options :
          LET items == Conversion(options) IN
          work' = IF \A i \in DOMAIN items : Convertible(items[i], work.plan)
                  THEN [work EXCEPT !.phase = "artifact", !.artifact = Artifact(options, work.plan)]
                  ELSE [work EXCEPT !.phase = "refused"]

Loaded(tensors) ==
    IF \E name \in RuntimeNames : tensors[name] = NotLoaded THEN [work EXCEPT !.phase = "refused"]
    ELSE [work EXCEPT !.phase = "ready", !.tensors = tensors, !.artifact = <<>>]

ArtifactLoaded ==
    /\ Is("weights") /\ work.phase = "artifact"
    /\ work' = Loaded([name \in RuntimeNames |-> FromArtifact(work.artifact, work.plan, name)])

GgufLoaded ==
    /\ Is("weights") /\ work.phase = "source"
    /\ \E types \in TypePlans :
          work' = Loaded([name \in RuntimeNames |-> FromGguf(types, work.plan, name)])

ProductBegins ==
    /\ Is("weights") /\ work.phase = "ready"
    /\ \E name \in RuntimeNames, count \in Batches, threads \in Threads, decode, merge \in BOOLEAN :
          /\ decode => count = 1 /\ ~merge
          /\ work' = [work EXCEPT !.phase = "product", !.name = name, !.count = count, !.threads = threads,
                                  !.jobs = Jobs(work.tensors[name], count, decode, merge)]

\* One participant of the job in front; the last one ends the job.
PartitionWrites ==
    /\ Is("weights") /\ work.phase = "product" /\ work.jobs # <<>>
    /\ LET job == Head(work.jobs)
           w == work.tensors[work.name]
           parts == Min({work.threads, job.tasks})
       IN  \E p \in (0..(parts - 1)) \ work.done :
             LET tasks == RowRange(job.tasks, parts, p)
                 new == UNION {Written(w, job, task) : task \in tasks}
                 over == work.done \cup {p} = 0..(parts - 1)
             IN  work' = [work EXCEPT !.done = IF over THEN {} ELSE @ \cup {p},
                                      !.jobs = IF over THEN Tail(@) ELSE @,
                                      !.written = @ \cup new,
                                      !.twice = @ \/ \E a \in new, b \in work.written : a.token = b.token /\ a.row = b.row]

WeightsNext == ModelConverted \/ ArtifactLoaded \/ GgufLoaded \/ ProductBegins \/ PartitionWrites

-----------------------------------------------------------------------------
(* Properties.                                                              *)

\* The source row the forward pass means by a row of a fused tensor.
Meant(name, row) ==
    LET slices == Slices[name[2]]
        before(i) == RowSum(SubSeq(slices, 1, i - 1), work.plan)
        i == CHOOSE j \in DOMAIN slices : before(j) < row /\ row <= before(j) + work.plan[slices[j]]
    IN  <<<<name[1], slices[i]>>, row - before(i)>>

\* Whatever the options of the conversion or the types of a GGUF file: an artifact the
\* converter made loads, and a product writes every place of its output exactly once,
\* from the source row the forward pass takes it for, with the vector in the basis and
\* the form of that row.  A row read back as an embedding is in the original basis.
WeightsArrive ==
    Is("weights") =>
      LET w == work.tensors[work.name] IN
      /\ work.phase = "artifact" => \A name \in RuntimeNames : FromArtifact(work.artifact, work.plan, name) # NotLoaded
      /\ ~work.twice
      /\ work.phase = "ready" =>
            \A row \in 1..work.plan.embed :
                EmbeddingRow(work.tensors[Embedding], row) = [of |-> <<Embedding, row>>, basis |-> "identity"]
      /\ work.phase = "product" =>
            \A out \in work.written :
                /\ out.weight.of = Meant(work.name, out.row)
                /\ out.vector = [basis |-> out.weight.basis, form |-> out.weight.form]
      /\ work.phase = "product" /\ work.jobs = <<>> =>
            {<<out.token, out.row>> : out \in work.written}
                = (1..work.count) \X (1..RowSum(Slices[work.name[2]], work.plan))
=============================================================================
