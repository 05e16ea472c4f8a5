----------------------------- MODULE KernelDispatch -----------------------------
(***************************************************************************)
(* Which instructions a kernel may use: the backend a caller asks for is     *)
(* resolved against the capabilities of the processor, first when the model   *)
(* is loaded and again in every call, and each operation picks its kernel.    *)
(***************************************************************************)
EXTENDS Work, Integers, FiniteSets

Features == {"avx2", "avx_vnni", "avx512", "avx512_vnni", "wasm_simd"}
Backends == Features \cup {"auto_select", "scalar"}

\* What the runtime checks let through: the wider sets only on top of AVX2.
Capabilities ==
    {has \in SUBSET Features :
        /\ has \cap {"avx_vnni", "avx512"} # {} => "avx2" \in has
        /\ "avx512_vnni" \in has => "avx512" \in has
        /\ "wasm_simd" \in has => has = {"wasm_simd"}}

Resolved(requested, has) ==
    IF requested \in {"auto_select", "wasm_simd"} /\ "wasm_simd" \in has THEN "wasm_simd"
    ELSE IF requested = "scalar" \/ "avx2" \notin has THEN "scalar"
    ELSE IF requested \in {"auto_select", "avx512_vnni"} /\ {"avx512", "avx512_vnni"} \subseteq has THEN "avx512_vnni"
    ELSE IF requested \in {"auto_select", "avx512", "avx512_vnni"} /\ "avx512" \in has THEN "avx512"
    ELSE IF requested \in {"auto_select", "avx_vnni", "avx512", "avx512_vnni"} /\ "avx_vnni" \in has THEN "avx_vnni"
    ELSE "avx2"

DotBackend(requested, has) ==
    LET resolved == Resolved(requested, has)
    IN  IF resolved \in {"wasm_simd", "scalar", "avx2"} THEN resolved
        ELSE IF "avx_vnni" \in has THEN "avx_vnni" ELSE "avx2"

UsesAvx2(requested, has) == Resolved(requested, has) \notin {"scalar", "wasm_simd"}
UsesVnni(requested, has) == DotBackend(requested, has) = "avx_vnni"

-----------------------------------------------------------------------------
\* The kernel of each operation.
Q8Kernel(requested, has) ==
    IF UsesVnni(requested, has) THEN "avx_vnni"
    ELSE IF Resolved(requested, has) = "avx2" THEN "avx2" ELSE "scalar"

Avx2OrScalar(requested, has) == IF UsesAvx2(requested, has) THEN "avx2" ELSE "scalar"

X8Kernel(requested, has) ==
    IF Resolved(requested, has) = "avx512_vnni" THEN "avx512_vnni"
    ELSE IF UsesVnni(requested, has) THEN "avx_vnni" ELSE Avx2OrScalar(requested, has)

Dot4Kernel(requested, has) ==
    IF Resolved(requested, has) = "wasm_simd" THEN "wasm_simd" ELSE X8Kernel(requested, has)

G16Kernel(requested, has) ==
    IF Resolved(requested, has) = "avx512_vnni" THEN "avx512_vnni" ELSE Avx2OrScalar(requested, has)

QuantizeKernel(requested, has) ==
    IF Resolved(requested, has) = "wasm_simd" THEN "wasm_simd" ELSE Avx2OrScalar(requested, has)

Chosen(requested, has) ==
    {Q8Kernel(requested, has), Avx2OrScalar(requested, has), X8Kernel(requested, has),
     Dot4Kernel(requested, has), G16Kernel(requested, has), QuantizeKernel(requested, has)}

\* What the processor must have for the kernels of each name.
Needs(kernel) ==
    CASE kernel = "scalar" -> {} [] kernel = "avx_vnni" -> {"avx2", "avx_vnni"}
      [] kernel = "avx512_vnni" -> {"avx2", "avx512", "avx512_vnni"} [] OTHER -> {kernel}

-----------------------------------------------------------------------------
DispatchInit == work = [part |-> "dispatch", requested |-> "scalar", has |-> {}]

KernelsChosen ==
    /\ Is("dispatch")
    /\ \E requested \in Backends, has \in Capabilities :
           work' = [work EXCEPT !.requested = requested, !.has = has]

DispatchSpec == DispatchInit /\ [][KernelsChosen]_work

\* No operation runs an instruction the processor lacks, whatever is asked for; and a backend
\* that was resolved once, as the loaders do, resolves to itself in every later call.
DispatchIsSupported ==
    Is("dispatch") =>
        /\ \A kernel \in Chosen(work.requested, work.has) : Needs(kernel) \subseteq work.has
        /\ LET resolved == Resolved(work.requested, work.has)
           IN  /\ Resolved(resolved, work.has) = resolved
               /\ Chosen(resolved, work.has) = Chosen(work.requested, work.has)

\* The test of the resolution says that on x86 the Q8 dots run AVX-VNNI where there is any and
\* AVX2 otherwise: so should the Q8 products.
DotBackendIsUsed ==
    Is("dispatch") /\ work.requested = "auto_select" /\ "avx2" \in work.has =>
        Q8Kernel(work.requested, work.has) = IF "avx_vnni" \in work.has THEN "avx_vnni" ELSE "avx2"
=============================================================================
