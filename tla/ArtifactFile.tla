------------------------------ MODULE ArtifactFile ------------------------------
(***************************************************************************)
(* A converted model as a file: the converter writes it beside its place,   *)
(* publishes it under its name when it is complete, and a reader checks it   *)
(* in every respect before it lets a payload through.  The process may be    *)
(* killed in the middle of any write, and a file may be damaged later.       *)
(***************************************************************************)
EXTENDS Work, Words, FiniteSets, SequencesExt

CONSTANT Plans      \* bounds: the tensors of an artifact

HeaderSize == 96
Alignment == 64
Seed == 7           \* the sign seed of an artifact
NameLengths == 1..4096

Transformed == {"q4_h128", "q4_h128_cpu_x8", "q4_h128_cpu_dot4", "q4_h128_g16_cpu_dot4"}
G16 == {"q4_g16_cpu_dot4", "q4_h128_g16_cpu_dot4"}
CpuPacked == {"q4_0_cpu_x8", "q4_0_cpu_dot4", "q4_h128_cpu_x8", "q4_h128_cpu_dot4"}
Encodings == Transformed \cup G16 \cup CpuPacked \cup {"f32", "q4_0", "q8_0"}

ASSUME ArtifactAssumption ==
    Plans \subseteq Seq([name : Nat, encoding : Encodings, shape : Seq(Nat)])

Elements(shape) == CheckedProduct(shape)

\* q4_h128_payload_size, None where there is none.
PayloadSize(encoding, shape) ==
    LET n == Elements(shape)
        tiled(rows, columns) == Len(shape) = 2 /\ shape[1] % rows = 0 /\ shape[2] % columns = 0
        blocks(ok, bytes) == IF ok THEN CheckedMul(n \div 32, bytes) ELSE None
    IN  IF n = None \/ Len(shape) \notin 1..8 \/ 0 \in {shape[d] : d \in DOMAIN shape} THEN None
        ELSE CASE encoding \in G16 -> blocks(tiled(8, 128), 20)
               [] encoding \in CpuPacked -> blocks(tiled(8, IF encoding \in Transformed THEN 128 ELSE 32), 18)
               [] encoding = "q8_0" -> blocks(tiled(1, 32), 34)
               [] encoding = "q4_0" -> blocks(n % 32 = 0, 18)
               [] encoding = "q4_h128" -> blocks(Last(shape) % 128 = 0, 18)
               [] encoding = "f32" -> CheckedMul(n, 4)

Group(encoding) == IF encoding \in G16 THEN 16 ELSE 32

\* What the writer and the reader ask of an entry's quantization.
Consistent(e) ==
    /\ IF e.encoding \in Transformed THEN e.transform = 128 /\ e.group = Group(e.encoding) /\ e.seed = Seed
                                     ELSE e.transform = 0 /\ e.seed = 0
    /\ e.encoding \in G16 \cup CpuPacked \cup {"q8_0"} => e.group = Group(e.encoding)

EntrySize(e) == 64 + e.name + 8 * Len(e.shape)
DirectorySize(entries) == CheckedSum([i \in DOMAIN entries |-> EntrySize(entries[i])])

Distinct(entries) == Cardinality({entries[i].name : i \in DOMAIN entries}) = Len(entries)

\* Payloads: i is the data of tensor i, a checksum is the data's own; 0 is no checksum.
Zeros == -1
Torn == -2
Damaged == -3
NoFile == [entries |-> <<>>]

\* Where payloads of these sizes end, each behind the one before it.
Ends(sizes, data) ==
    LET ends[i \in 0..Len(sizes)] ==
            IF i = 0 THEN data ELSE CheckedAdd(AlignUp(ends[i - 1], Alignment), sizes[i])
    IN  ends

\* Q4H128ArtifactWriter::open: the file as it is laid out before any data is there.
Laid(plan) ==
    LET entry(t) ==
            [name |-> t.name, encoding |-> t.encoding, shape |-> t.shape, group |-> Group(t.encoding),
             transform |-> IF t.encoding \in Transformed THEN 128 ELSE 0,
             seed |-> IF t.encoding \in Transformed THEN Seed ELSE 0, checksum |-> 0,
             elements |-> Elements(t.shape), size |-> PayloadSize(t.encoding, t.shape), offset |-> 0]
        directory == DirectorySize(plan)
        data == AlignUp(CheckedAdd(HeaderSize, directory), Alignment)
        ends == Ends([i \in DOMAIN plan |-> entry(plan[i]).size], data)
        entries == [i \in DOMAIN plan |-> [entry(plan[i]) EXCEPT !.offset = AlignUp(ends[i - 1], Alignment)]]
    IN  [header |-> TRUE, size |-> ends[Len(plan)], directory |-> directory, data |-> data,
         entries |-> entries, payload |-> [i \in DOMAIN plan |-> Zeros],
         extent |-> [i \in DOMAIN plan |-> <<entries[i].offset, entries[i].size>>]]

Refused(plan) ==
    LET f == Laid(plan) IN
    \/ plan = <<>> \/ ~Distinct(f.entries) \/ f.size = None
    \/ \E i \in DOMAIN plan :
          plan[i].name \notin NameLengths \/ f.entries[i].size \in {None, 0} \/ ~Consistent(f.entries[i])

-----------------------------------------------------------------------------
(* Q4H128ArtifactReader                                                     *)

\* open: the entry's own checks,
EntryAccepted(f, e) ==
    /\ e.name \in NameLengths /\ e.checksum # 0 /\ Consistent(e)
    /\ e.size = PayloadSize(e.encoding, e.shape) /\ e.elements = Elements(e.shape)
    /\ e.offset >= f.data /\ e.offset % Alignment = 0
    /\ LET end == CheckedAdd(e.offset, e.size) IN end # None /\ end <= f.size

\* and those of the file; neighbours are compared in the order of their places.
Before(entries, i, j) ==
    entries[i].offset < entries[j].offset \/ (entries[i].offset = entries[j].offset /\ i < j)
Neighbours(entries, i, j) ==
    /\ Before(entries, i, j)
    /\ ~\E k \in DOMAIN entries : Before(entries, i, k) /\ Before(entries, k, j)

Accepted(f) ==
    LET end == CheckedAdd(HeaderSize, f.directory)
    IN  /\ f.size >= HeaderSize /\ f.header /\ f.entries # <<>>
        /\ end # None /\ end <= f.data /\ f.data <= f.size
        /\ \A i \in DOMAIN f.entries : EntryAccepted(f, f.entries[i])
        /\ Distinct(f.entries) /\ DirectorySize(f.entries) = f.directory
        /\ \A i, j \in DOMAIN f.entries :
              Neighbours(f.entries, i, j) => f.entries[j].offset >= f.entries[i].offset + f.entries[i].size

\* What lies at an entry's place.
Content(f, e) ==
    LET there == {j \in DOMAIN f.payload : f.extent[j] = <<e.offset, e.size>>}
    IN  IF there = {} \/ e.offset + e.size > f.size THEN Damaged ELSE f.payload[CHOOSE j \in there : TRUE]

\* (Fault) What was read is not compared with the directory.
Delivers_Unchecked(f, i) == TRUE

\* read_tensor_into: the payload is let through.
Delivers(f, i) == Content(f, f.entries[i]) = f.entries[i].checksum

-----------------------------------------------------------------------------
(* The converter.                                                           *)

Idle == [part |-> "artifact", phase |-> "ready", file |-> NoFile, final |-> NoFile, written |-> 0,
         read |-> NoFile, got |-> 0, from |-> 0]

ArtifactInit == work = Idle

\* The artifact is created under a name of its own; an existing output is left alone.
ArtifactCreated ==
    /\ Is("artifact") /\ work.phase = "ready" /\ work.final = NoFile
    /\ \E plan \in Plans :
          IF Refused(plan) THEN work' = [work EXCEPT !.phase = "failed"]
                           ELSE work' = [work EXCEPT !.phase = "writing", !.file = Laid(plan)]

\* convert_tensor and write_tensor, one tensor after the other.
TensorWritten ==
    /\ Is("artifact") /\ work.phase = "writing" /\ work.written < Len(work.file.entries)
    /\ work' = [work EXCEPT !.written = @ + 1, !.file.payload[work.written + 1] = work.written + 1]

\* The source is missing, of another shape, or cannot be quantized; or the disk is full.
ConversionFails ==
    /\ Is("artifact") /\ work.phase \in {"writing", "finalized"}
    /\ work' = [work EXCEPT !.phase = "failed", !.file = NoFile]

\* The directory with the checksums of the first n payloads, and what became of the next.
Checksums(f, n, next) ==
    [f EXCEPT !.entries = [i \in DOMAIN f.entries |->
        [f.entries[i] EXCEPT !.checksum = IF i <= n THEN i ELSE IF i = n + 1 THEN next ELSE 0]]]

ArtifactFinalized ==
    /\ Is("artifact") /\ work.phase = "writing" /\ work.written = Len(work.file.entries)
    /\ work' = [work EXCEPT !.phase = "finalized", !.file = Checksums(@, Len(@.entries), 0)]

ArtifactPublished ==
    /\ Is("artifact") /\ work.phase = "finalized"
    /\ work' = [work EXCEPT !.phase = "published", !.final = work.file, !.file = NoFile]

\* The process ends in the middle of laying out the file, of a payload, or of the
\* directory that finalize writes over the first one.
ConverterKilled ==
    /\ Is("artifact") /\ work.phase = "writing"
    /\ LET n == Len(work.file.entries) IN
       \/ /\ work.written = 0
          /\ \E size \in {0, work.file.data - 1, work.file.data} :
                work' = [work EXCEPT !.phase = "killed", !.file.size = size]
       \/ /\ work.written < n
          /\ \E payload \in {Zeros, Torn, work.written + 1} :
                work' = [work EXCEPT !.phase = "killed", !.file.payload[work.written + 1] = payload]
       \/ /\ work.written = n
          /\ \E k \in 0..n, next \in {0, Torn} :
                work' = [work EXCEPT !.phase = "killed", !.file = Checksums(@, k, next)]

\* One thing about a file that may have changed since: in an entry of its directory,
EntryAltered(f, e) ==
    {[e EXCEPT !.checksum = c] : c \in {0, Damaged}} \cup {[e EXCEPT !.encoding = c] : c \in Encodings}
    \cup {[e EXCEPT !.size = @ + n] : n \in {-64, 64, Word - 1 - e.size}}
    \cup {[e EXCEPT !.offset = @ + n] : n \in {-64, -1, 64, Word - 64 - e.offset}}
    \cup {[e EXCEPT !.shape = s] : s \in {<<0, 32>>, <<Word - 1, 32>>, e.shape \o <<1>>}}
    \cup {[e EXCEPT !.elements = 0], [e EXCEPT !.seed = 1], [e EXCEPT !.transform = 64], [e EXCEPT !.group = 8]}
    \cup {[e EXCEPT !.name = n] : n \in {0} \cup {f.entries[i].name : i \in DOMAIN f.entries}}

\* or elsewhere.
Altered(f) ==
    {f, [f EXCEPT !.header = FALSE]} \cup {[f EXCEPT !.size = n] : n \in {f.data, f.size - 1}}
    \cup {[f EXCEPT !.directory = @ + n] : n \in {-8, 8, Word - 1 - f.directory}} \cup {[f EXCEPT !.data = @ + 64]}
    \cup {[f EXCEPT !.payload[i] = Damaged] : i \in DOMAIN f.payload}
    \cup UNION {{[f EXCEPT !.entries[i] = e] : e \in EntryAltered(f, f.entries[i])} : i \in DOMAIN f.entries}

\* A reader opens what is there under either name: the converter's own verification
\* or a later program.
ArtifactOpened ==
    /\ Is("artifact") /\ work.phase \in {"killed", "published"}
    /\ \E f \in UNION {Altered(g) : g \in {work.file, work.final} \ {NoFile}} :
          /\ Accepted(f)
          /\ work' = [work EXCEPT !.phase = "opened", !.read = f]

PayloadDelivered ==
    /\ Is("artifact") /\ work.phase = "opened"
    /\ \E i \in DOMAIN work.read.entries :
          /\ Delivers(work.read, i)
          /\ work' = [work EXCEPT !.phase = "read", !.from = i, !.got = Content(work.read, work.read.entries[i])]

ArtifactNext ==
    \/ ArtifactCreated \/ TensorWritten \/ ConversionFails \/ ArtifactFinalized \/ ArtifactPublished
    \/ ConverterKilled \/ ArtifactOpened \/ PayloadDelivered

ArtifactSpec == ArtifactInit /\ [][ArtifactNext]_work

-----------------------------------------------------------------------------
(* Properties.                                                              *)

\* What has the artifact's name can be opened and read completely; a file that opens,
\* whatever happened to it, has every tensor in a place of its own behind the directory
\* and inside the file; and what a reader gets is the tensor as it was written, never
\* the rest of an interrupted conversion.
ArtifactIsWhole ==
    Is("artifact") =>
      /\ work.final # NoFile =>
            Accepted(work.final) /\ \A i \in DOMAIN work.final.entries :
                Delivers(work.final, i) /\ Content(work.final, work.final.entries[i]) = i
      /\ work.read # NoFile =>
            LET es == work.read.entries IN
            \A i, j \in DOMAIN es :
                /\ HeaderSize + DirectorySize(es) <= es[i].offset /\ es[i].offset + es[i].size <= work.read.size
                /\ i # j => es[i].offset + es[i].size <= es[j].offset \/ es[j].offset + es[j].size <= es[i].offset
      /\ work.phase = "read" => work.got = work.from
=============================================================================
