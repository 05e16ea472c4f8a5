---------------------------- MODULE Browser_proofs ----------------------------
(***************************************************************************)
(* The protocol between the browser's worker and its two clients.           *)
(*                                                                         *)
(* What keeps the worker's handlers apart is that a client has at most one  *)
(* question in flight: in the inbox, at a handler, or answered in the       *)
(* outbox.  The worker's flags, the session and what the page shows follow  *)
(* from where that question is.                                             *)
(***************************************************************************)
EXTENDS Browser, TLAPS, SequenceTheorems, FiniteSetTheorems

-----------------------------------------------------------------------------
(* What the variables hold.                                                 *)

Sessions == [loaded : BOOLEAN, engine : BOOLEAN, questions : Nat, question : Nat,
             active : BOOLEAN, held : Int, undefined : BOOLEAN]
WorkerFlags == [module : BOOLEAN, loading : BOOLEAN, running : BOOLEAN, cancelled : BOOLEAN]
Questions == [type : {"load", "decide", "prepare", "tune", "cancel"}, id : Nat]
Reasons == {"", "protocol", "runtime", "file", "weights", "engine", "request", "step", "cancelled",
            "complete", "rejected", "fails", "ok"}
Answers == [owner : Nat, type : {"ready", "error", "result", "prepared"}, id : Nat, why : Reasons]
AllHandlers == [type : {"load", "decide"}, id : Nat, at : {"module", "file", "writing", "yield"},
                file : Int, store : {"opfs", "cache-api", "none"}, weights : Contents]
Jobs == [id : Nat, revision : Nat, apply : BOOLEAN, discard : BOOLEAN, auto : BOOLEAN]
Pages == [revision : Nat, game : BOOLEAN, over : BOOLEAN, ready : BOOLEAN, busy : BOOLEAN,
          pending : Jobs, auto : BOOLEAN, timer : BOOLEAN, remaining : Int]

Typed ==
    /\ owner \in Nat /\ worker \in WorkerFlags /\ session \in Sessions
    /\ inbox \in Seq(Questions) /\ outbox \in Seq(Answers)
    /\ page \in Pages /\ nextId \in Nat /\ workers \in Nat
    /\ dropped \subseteq 1..nextId /\ applied \in Seq(1..nextId)
    /\ calls \in Nat /\ client \in {"page", "harness"}

-----------------------------------------------------------------------------
(* One question at a time: it is in the inbox, or a handler works on it, or *)
(* its answer is in the outbox.                                             *)

\* The engine can be asked.
Usable == worker.module /\ session.loaded /\ session.engine

\* No handler is at work.
Still == handlers = {} /\ ~worker.loading /\ ~worker.running /\ session.questions = 0

NoQuestion == \A k \in 1..Len(inbox) : inbox[k].type = "cancel"
NoAnswer == \A k \in 1..Len(outbox) : outbox[k].owner # owner

\* What the client waits for.  A page that gave up waiting, because of an exception
\* in the worker, is not ready.
Expected(type, id) ==
    /\ client = "page" => type \in {"load", "decide"}
    /\ client = "page" /\ page.ready => type = "decide" /\ page.pending.id = id
    /\ client = "harness" => type = (IF rpc = "cancel" THEN "decide" ELSE rpc)

Quiet == NoQuestion /\ Still /\ NoAnswer

AskedAt(k) ==
    /\ k \in 1..Len(inbox) /\ inbox[k].type # "cancel" /\ Still /\ NoAnswer
    /\ \A j \in 1..Len(inbox) : j # k => inbox[j].type = "cancel"
    /\ Expected(inbox[k].type, inbox[k].id)
    /\ IF inbox[k].type = "load" THEN ~worker.module /\ session = NoSession ELSE Usable
    /\ client = "page" /\ inbox[k].type = "decide" /\ k < Len(inbox) => inbox[k].id \in dropped

ServedBy(h) ==
    /\ handlers = {h} /\ h \in AllHandlers /\ NoQuestion /\ NoAnswer
    /\ Expected(h.type, h.id)
    /\ h.type = "load" =>
         /\ worker.loading /\ ~worker.running /\ session = NoSession
         /\ worker.module <=> h.at # "module"
         /\ h.at = "writing" => h.store # "none"
    /\ h.type = "decide" =>
         /\ ~worker.loading /\ worker.running /\ session.questions # 0 /\ Usable
         /\ client = "page" /\ (worker.cancelled \/ inbox # <<>>) => h.id \in dropped

AnsweredAt(k) ==
    /\ k \in 1..Len(outbox) /\ outbox[k].owner = owner /\ NoQuestion /\ Still
    /\ \A j \in 1..Len(outbox) : j # k => outbox[j].owner # owner
    /\ outbox[k].type # "error" \/ outbox[k].why \in {"request", "rejected"} => Usable
    /\ client = "page" /\ page.ready => outbox[k].type # "ready"

Phase ==
    \/ Quiet
    \/ \E k \in 1..Len(inbox) : AskedAt(k)
    \/ \E h \in handlers : ServedBy(h)
    \/ \E k \in 1..Len(outbox) : AnsweredAt(k)

\* The engine's requests are those of the session's decision.
SoundSession(s) ==
    /\ ~s.undefined
    /\ s.active <=> s.questions # 0
    /\ s.held = IF s.active THEN 1 ELSE 0

\* What the answers say.
AnswersOk ==
    \A k \in 1..Len(outbox) :
       /\ outbox[k].why = "file" => server # "good"
       /\ client = "page" /\ outbox[k].why = "cancelled" => outbox[k].id \in dropped
       /\ client = "page" => outbox[k].owner \in 1..workers
       /\ client = "harness" => outbox[k].owner = owner

\* A page waits for the last decision it asked for, which is new to it.
JobOk ==
    page.pending # NoJob =>
      /\ page.ready /\ page.busy /\ page.pending.id = nextId /\ nextId # 0
      /\ nextId \in dropped => page.pending.discard
      /\ \A k \in 1..Len(applied) : applied[k] # nextId

\* Autoplay is on while its timer runs or it waits for its decision.
LoopOk(p) ==
    /\ p.timer => p.auto
    /\ p.auto <=> (p.timer # (p.pending.auto /\ ~p.pending.discard))

\* A page is ready, or waits for a question, only of an engine that can be asked.
PageOk ==
    client = "page" =>
       /\ owner \in {0, workers}
       /\ owner = 0 => Quiet /\ ~page.ready
       /\ page.ready => Usable
       /\ page.ready /\ page.pending = NoJob => Quiet
       /\ JobOk /\ LoopOk(page)

HarnessOk ==
    client = "harness" =>
       /\ rpc \in {"new", "over"} => owner = 0 /\ Quiet
       /\ rpc \notin {"new", "over"} => owner = 1
       /\ rpc = "idle" => Quiet /\ Usable

Inv == Typed /\ Phase /\ SoundSession(session) /\ AnswersOk /\ PageOk /\ HarnessOk

-----------------------------------------------------------------------------
(* The session's calls.                                                     *)

(* Its fields.                                                              *)
LEMMA FieldsAre ==
    ASSUME NEW s \in Sessions
    PROVE  /\ s.loaded \in BOOLEAN /\ s.engine \in BOOLEAN /\ s.questions \in Nat
           /\ s.active \in BOOLEAN /\ s.held \in Int /\ s.undefined \in BOOLEAN
           /\ s.held - 1 \in Int /\ s.held + 1 \in Int
BY DEF Sessions

(* What the calls assign keeps the session's type.                          *)
LEMMA AssignedIs ==
    ASSUME NEW s \in Sessions, NEW h \in Int
    PROVE  /\ [s EXCEPT !.held = h, !.active = FALSE, !.questions = 0] \in Sessions
           /\ [s EXCEPT !.active = TRUE, !.held = h] \in Sessions
           /\ [s EXCEPT !.held = h, !.active = FALSE] \in Sessions
BY DEF Sessions

(* Cancelling leaves no decision and no request.                            *)
LEMMA CancelledIs ==
    ASSUME NEW s \in Sessions
    PROVE  LET t == Cancelled(s) IN
           /\ t \in Sessions /\ t.questions = 0 /\ ~t.active
           /\ t.loaded = s.loaded /\ t.engine = s.engine /\ t.undefined = s.undefined
           /\ t.held = IF s.active THEN s.held - 1 ELSE s.held
           /\ SoundSession(s) => SoundSession(t)
<1> DEFINE t == Cancelled(s)
           h == IF s.active THEN s.held - 1 ELSE s.held
<1>1. h \in Int
  BY FieldsAre
<1>2. t = [s EXCEPT !.held = h, !.active = FALSE, !.questions = 0]
  BY DEF Cancelled
<1>3. /\ t.questions = 0 /\ ~t.active /\ t.held = h
      /\ t.loaded = s.loaded /\ t.engine = s.engine /\ t.undefined = s.undefined
  BY DEF Cancelled, Sessions
<1> HIDE DEF h
<1>4. t \in Sessions
  BY <1>1, <1>2, AssignedIs
<1> HIDE DEF t
<1>5. SoundSession(s) => SoundSession(t)
  BY <1>3 DEF SoundSession, h
<1> QED
  BY <1>3, <1>4, <1>5 DEF t, h

(* An engine that exists takes a request.                                   *)
LEMMA SubmittedIs ==
    ASSUME NEW s \in Sessions, s.engine
    PROVE  LET t == Submitted(s) IN
           /\ t \in Sessions /\ t.active /\ t.held = s.held + 1
           /\ t.loaded = s.loaded /\ t.engine = s.engine /\ t.undefined = s.undefined
           /\ t.questions = s.questions
<1> DEFINE t == Submitted(s)
           h == s.held + 1
<1>1. h \in Int
  BY FieldsAre
<1>2. t = [s EXCEPT !.active = TRUE, !.held = h]
  BY DEF Submitted
<1>3. /\ t.active /\ t.held = h
      /\ t.loaded = s.loaded /\ t.engine = s.engine /\ t.undefined = s.undefined
      /\ t.questions = s.questions
  BY DEF Submitted, Sessions
<1> HIDE DEF h
<1>4. t \in Sessions
  BY <1>1, <1>2, AssignedIs
<1> QED
  BY <1>3, <1>4 DEF h

\* A session that can be asked.
Idle(s) == s \in Sessions /\ SoundSession(s) /\ s.loaded /\ s.engine /\ s.questions = 0

\* A session that serves a decision.
Busy(s) == s \in Sessions /\ SoundSession(s) /\ s.loaded /\ s.engine /\ s.questions # 0

(* qev_begin begins a decision, or leaves everything as it was.             *)
LEMMA BeginIs ==
    ASSUME NEW s, Idle(s), NEW body \in Bodies
    PROVE  LET r == Begin(s, body) IN
           /\ r.reply \in {"error", "running"}
           /\ r.reply = "error" => Idle(r.session)
           /\ r.reply = "running" => Busy(r.session)
<1>1. s \in Sessions /\ SoundSession(s) /\ s.loaded /\ s.engine /\ s.questions = 0
  BY DEF Idle
<1>2. body.questions \in Nat \ {0}
  BY WorkerAssumption DEF Bodies
<1> DEFINE t == [s EXCEPT !.questions = body.questions]
           u == [s EXCEPT !.questions = body.questions, !.question = 1]
<1>3. /\ t \in Sessions /\ t.loaded /\ t.engine /\ ~t.active /\ t.held = 0 /\ ~t.undefined
      /\ u \in Sessions /\ u.loaded /\ u.engine /\ u.held = 0 /\ ~u.undefined
      /\ u.questions = body.questions
  BY <1>1, <1>2 DEF Sessions, SoundSession
<1>4. Begin(s, body) \in {Failure(s), Failure(t), Answer(Submitted(u), "running")}
  BY <1>1 DEF Begin
<1> HIDE DEF t, u
<1>5. Idle(Cancelled(s)) /\ Idle(Cancelled(t))
  BY <1>1, <1>3, CancelledIs DEF Idle, SoundSession
<1>6. Busy(Submitted(u))
  BY <1>2, <1>3, SubmittedIs DEF Busy, SoundSession
<1> QED
  BY <1>4, <1>5, <1>6 DEF Failure, Answer

(* qev_step goes on with the decision, or ends it.                          *)
LEMMA StepIs ==
    ASSUME NEW s, Busy(s), NEW outcome \in {"running", "answered", "failed"}
    PROVE  LET r == Step(s, outcome) IN
           /\ r.reply \in {"error", "running", "complete"}
           /\ r.reply = "running" => Busy(r.session)
           /\ r.reply # "running" => Idle(r.session)
<1>1. s \in Sessions /\ SoundSession(s) /\ s.loaded /\ s.engine /\ s.questions # 0
  BY DEF Busy
<1> DEFINE t == [Released(s) EXCEPT !.question = @ + 1]
           u == [Released(s) EXCEPT !.questions = 0]
<1>2. /\ Released(s).held = 0 /\ ~Released(s).active
      /\ Released(s).loaded /\ Released(s).engine /\ ~Released(s).undefined
      /\ Released(s).questions = s.questions
  BY <1>1 DEF Released, Sessions, SoundSession
<1>7. Released(s) \in Sessions
  <2> DEFINE h == s.held - 1
  <2>1. h \in Int
    BY <1>1, FieldsAre
  <2>2. Released(s) = [s EXCEPT !.held = h, !.active = FALSE]
    BY DEF Released
  <2> HIDE DEF h
  <2> QED
    BY <1>1, <2>1, <2>2, AssignedIs
<1>3. /\ t \in Sessions /\ t.loaded /\ t.engine /\ t.held = 0 /\ ~t.undefined
      /\ t.questions = s.questions
      /\ u \in Sessions /\ u.loaded /\ u.engine /\ u.held = 0 /\ ~u.undefined /\ ~u.active
      /\ u.questions = 0
  BY <1>2, <1>7 DEF Sessions
<1>4. Step(s, outcome) \in {Failure(s), Answer(s, "running"), Answer(Submitted(t), "running"),
                            Answer(u, "complete")}
  BY <1>1 DEF Step
<1> HIDE DEF t, u
<1>5. Idle(Cancelled(s)) /\ Idle(u)
  BY <1>1, <1>3, CancelledIs DEF Idle, SoundSession
<1>6. Busy(Submitted(t))
  BY <1>1, <1>3, SubmittedIs DEF Busy, SoundSession
<1> QED
  BY <1>4, <1>5, <1>6 DEF Failure, Answer

(* qev_cancel ends it.                                                      *)
LEMMA CancelIs ==
    ASSUME NEW s, Busy(s)
    PROVE  Cancel(s).reply = "cancelled" /\ Idle(Cancel(s).session)
BY CancelledIs DEF Cancel, Answer, Busy, Idle

(* qev_tune keeps the engine or replaces it; where it fails to, there is    *)
(* none.                                                                    *)
LEMMA TuneIs ==
    ASSUME NEW s, Idle(s), NEW outcome \in {"rejected", "fails", "ok"}
    PROVE  LET r == Tune(s, outcome) IN
           /\ r.reply \in {"error", "ready"}
           /\ r.session \in Sessions /\ SoundSession(r.session) /\ r.session.questions = 0
           /\ r.reply = "ready" \/ outcome = "rejected" => Idle(r.session)
<1>1. s \in Sessions /\ SoundSession(s) /\ s.loaded /\ s.engine /\ s.questions = 0
  BY DEF Idle
<1> DEFINE t == [s EXCEPT !.engine = FALSE, !.held = 0]
           u == [s EXCEPT !.engine = s.loaded, !.held = 0]
<1>2. /\ t \in Sessions /\ ~t.active /\ t.held = 0 /\ ~t.undefined /\ t.questions = 0
      /\ u \in Sessions /\ u.loaded /\ u.engine /\ ~u.active /\ u.held = 0 /\ ~u.undefined
      /\ u.questions = 0
  BY <1>1 DEF Sessions, SoundSession
<1>3. IF outcome = "rejected" THEN Tune(s, outcome) = Failure(s)
      ELSE IF outcome = "fails" THEN Tune(s, outcome) = Failure(t)
      ELSE Tune(s, outcome) = Answer(u, "ready")
  BY <1>1 DEF Tune
<1> HIDE DEF t, u
<1>4. Idle(Cancelled(s)) /\ Idle(u)
  BY <1>1, <1>2, CancelledIs DEF Idle, SoundSession
<1>5. /\ Cancelled(t) \in Sessions /\ SoundSession(Cancelled(t)) /\ Cancelled(t).questions = 0
  BY <1>2, CancelledIs DEF SoundSession
<1> QED
  BY <1>3, <1>4, <1>5 DEF Failure, Answer, Idle

(* qev_load leaves a session that can be asked, or none.                    *)
LEMMA LoadIs ==
    ASSUME NEW outcome \in {"ok", "fails", "rejected"}
    PROVE  LET r == Load(NoSession, outcome) IN
           /\ r.reply \in {"error", "ready"}
           /\ r.reply = "ready" => Idle(r.session)
<1>1. Idle(Loaded)
  <2>1. NoSession \in Sessions
    BY DEF NoSession, Sessions
  <2>2. Loaded \in Sessions
    BY <2>1 DEF Loaded, Sessions
  <2>3. /\ Loaded.loaded /\ Loaded.engine /\ Loaded.questions = 0 /\ ~Loaded.active
        /\ Loaded.held = 0 /\ ~Loaded.undefined
    BY DEF Loaded, NoSession
  <2> HIDE DEF Loaded
  <2> QED
    BY <2>2, <2>3 DEF Idle, SoundSession
<1>2. Load(NoSession, outcome) \in
        {Failure(NoSession), Answer(Loaded, "ready"), Answer(NoSession, "error")}
  BY DEF Load
<1> QED
  BY <1>1, <1>2 DEF Failure, Answer

(* There is no session.                                                     *)
LEMMA NoSessionIs ==
    /\ NoSession \in Sessions /\ SoundSession(NoSession) /\ NoSession.questions = 0
    /\ ~NoSession.loaded /\ ~NoSession.active
BY DEF NoSession, Sessions, SoundSession

-----------------------------------------------------------------------------
(* Queues.                                                                  *)

(* Taking the first message of a queue.                                     *)
LEMMA TailIs ==
    ASSUME NEW S, NEW s \in Seq(S), s # <<>>
    PROVE  /\ Len(s) \in Nat /\ Len(s) > 0 /\ 1 \in 1..Len(s) /\ Head(s) = s[1] /\ s[1] \in S
           /\ Tail(s) \in Seq(S) /\ Len(Tail(s)) = Len(s) - 1
           /\ \A k \in 1..Len(Tail(s)) : k + 1 \in 1..Len(s) /\ k + 1 # 1 /\ Tail(s)[k] = s[k + 1]
<1>1. /\ Tail(s) \in Seq(S) /\ Len(Tail(s)) = Len(s) - 1
      /\ \A k \in 1..Len(Tail(s)) : Tail(s)[k] = s[k + 1]
  BY HeadTailProperties
<1>2. Len(s) \in Nat /\ Len(s) # 0
  BY EmptySeq, LenProperties
<1>3. s[1] \in S /\ Head(s) = s[1]
  BY <1>2, ElementOfSeq, HeadTailProperties
<1> QED
  BY <1>1, <1>2, <1>3

(* Putting a message at its end.                                            *)
LEMMA AppendIs ==
    ASSUME NEW S, NEW s \in Seq(S), NEW m \in S
    PROVE  /\ Append(s, m) \in Seq(S) /\ Len(Append(s, m)) = Len(s) + 1 /\ Len(s) \in Nat
           /\ Append(s, m)[Len(s) + 1] = m /\ Append(s, m) # <<>>
           /\ Len(s) + 1 \in 1..Len(Append(s, m))
           /\ \A k \in 1..Len(s) : Append(s, m)[k] = s[k]
           /\ \A k \in 1..Len(Append(s, m)) : k = Len(s) + 1 \/ k \in 1..Len(s)
<1>1. /\ Append(s, m) \in Seq(S) /\ Len(Append(s, m)) = Len(s) + 1
      /\ \A k \in 1..Len(s) : Append(s, m)[k] = s[k]
      /\ Append(s, m)[Len(s) + 1] = m
  BY AppendProperties
<1>2. Len(s) \in Nat
  BY LenProperties
<1>3. Append(s, m) # <<>>
  BY <1>1, <1>2, EmptySeq
<1> QED
  BY <1>1, <1>2, <1>3

-----------------------------------------------------------------------------
(* Where the question is.                                                   *)

\* What a step of the worker leaves alone.
ClientWaits == UNCHANGED <<owner, server, pageVars, harnessVars, client>>

(* While a handler is at an await, it is the only one and has the question. *)
LEMMA HandlerServed ==
    ASSUME Phase, NEW h \in handlers
    PROVE  ServedBy(h) /\ handlers = {h} /\ ~Quiet
<1>1. handlers # {}
  OBVIOUS
<1>2. ~Quiet /\ (\A k \in 1..Len(inbox) : ~AskedAt(k)) /\ (\A k \in 1..Len(outbox) : ~AnsweredAt(k))
  BY <1>1 DEF Quiet, AskedAt, AnsweredAt, Still
<1>3. PICK g \in handlers : ServedBy(g)
  BY <1>2 DEF Phase
<1>4. handlers = {g}
  BY <1>3 DEF ServedBy
<1>5. h = g
  BY <1>4
<1> QED
  BY <1>2, <1>3, <1>4, <1>5

(* The only message that is not a cancellation is the question.             *)
LEMMA QuestionAsked ==
    ASSUME Phase, NEW k \in 1..Len(inbox), inbox[k].type # "cancel"
    PROVE  AskedAt(k) /\ ~Quiet
<1>1. ~NoQuestion
  BY DEF NoQuestion
<1>2. ~Quiet /\ (\A h \in handlers : ~ServedBy(h)) /\ (\A j \in 1..Len(outbox) : ~AnsweredAt(j))
  BY <1>1 DEF Quiet, ServedBy, AnsweredAt
<1>3. PICK j \in 1..Len(inbox) : AskedAt(j)
  BY <1>2 DEF Phase
<1>4. j = k
  BY <1>3 DEF AskedAt
<1> QED
  BY <1>2, <1>3, <1>4

(* A message that starts with a question is followed by cancellations only. *)
LEMMA HeadAsked ==
    ASSUME Phase, inbox \in Seq(Questions), inbox # <<>>, Head(inbox).type # "cancel"
    PROVE  /\ AskedAt(1) /\ ~Quiet /\ Head(inbox) = inbox[1] /\ inbox[1] \in Questions
           /\ Tail(inbox) \in Seq(Questions)
           /\ \A k \in 1..Len(Tail(inbox)) : Tail(inbox)[k].type = "cancel"
           /\ Tail(inbox) # <<>> => 1 < Len(inbox)
<1>1. /\ 1 \in 1..Len(inbox) /\ Head(inbox) = inbox[1] /\ inbox[1] \in Questions
      /\ Tail(inbox) \in Seq(Questions) /\ Len(Tail(inbox)) = Len(inbox) - 1
      /\ \A k \in 1..Len(Tail(inbox)) :
            k + 1 \in 1..Len(inbox) /\ k + 1 # 1 /\ Tail(inbox)[k] = inbox[k + 1]
  BY TailIs
<1>2. AskedAt(1) /\ ~Quiet
  BY <1>1, QuestionAsked
<1>3. \A k \in 1..Len(Tail(inbox)) : Tail(inbox)[k].type = "cancel"
  BY <1>1, <1>2 DEF AskedAt
<1>4. Tail(inbox) # <<>> => 1 < Len(inbox)
  <2>1. Tail(inbox) # <<>> => Len(Tail(inbox)) \in Nat /\ Len(Tail(inbox)) > 0
    BY <1>1, TailIs
  <2>2. Len(inbox) \in Nat
    BY LenProperties
  <2> QED
    BY <1>1, <2>1, <2>2
<1> QED
  BY <1>1, <1>2, <1>3, <1>4

(* An answer of the worker that the client has is the one it waits for.     *)
LEMMA AnswerHeard ==
    ASSUME Phase, NEW k \in 1..Len(outbox), outbox[k].owner = owner
    PROVE  AnsweredAt(k) /\ ~Quiet
<1>1. ~NoAnswer
  BY DEF NoAnswer
<1>2. ~Quiet /\ (\A h \in handlers : ~ServedBy(h)) /\ (\A j \in 1..Len(inbox) : ~AskedAt(j))
  BY <1>1 DEF Quiet, ServedBy, AskedAt
<1>3. PICK j \in 1..Len(outbox) : AnsweredAt(j)
  BY <1>2 DEF Phase
<1>4. j = k
  BY <1>3 DEF AnsweredAt
<1> QED
  BY <1>2, <1>3, <1>4

(* While a question is under way, the worker only has to keep a ready       *)
(* page's engine.                                                           *)
LEMMA ClientKept ==
    ASSUME Inv, ~Quiet, ClientWaits, client = "page" /\ page.ready => Usable'
    PROVE  PageOk' /\ HarnessOk'
<1>1. client = "page" => PageOk'
  <2>1. client = "page" => owner # 0 /\ owner \in {0, workers} /\ ~(page.ready /\ page.pending = NoJob)
    BY DEF Inv, PageOk
  <2>2. UNCHANGED <<owner, page, workers, nextId, dropped, applied, client>>
    BY DEF ClientWaits, pageVars
  <2>3. client = "page" => JobOk' /\ LoopOk(page)'
    <3>1. JobOk' <=> JobOk
      BY <2>2 DEF JobOk
    <3>2. LoopOk(page)' <=> LoopOk(page)
      BY <2>2 DEF LoopOk
    <3> QED
      BY <3>1, <3>2 DEF Inv, PageOk
  <2> QED
    BY <2>1, <2>2, <2>3 DEF PageOk
<1>2. client = "harness" => HarnessOk'
  BY DEF Inv, HarnessOk, ClientWaits, harnessVars
<1>3. client \in {"page", "harness"} /\ client' = client
  BY DEF Inv, Typed, ClientWaits
<1> QED
  BY <1>1, <1>2, <1>3 DEF PageOk, HarnessOk

(* A handler that ends with an answer.                                      *)
LEMMA Answered ==
    ASSUME Inv, ~Quiet, NoAnswer, ClientWaits,
           NEW type \in {"ready", "error", "result", "prepared"}, NEW id \in Nat, NEW why \in Reasons,
           Send(type, id, why), handlers' = {},
           worker' \in WorkerFlags, ~worker'.loading, ~worker'.running,
           session' \in Sessions, SoundSession(session'), session'.questions = 0,
           inbox' \in Seq(Questions), NoQuestion',
           type # "error" \/ why \in {"request", "rejected"} => Usable',
           client = "page" /\ page.ready => type # "ready" /\ Usable',
           why = "file" => server # "good",
           client = "page" /\ why = "cancelled" => id \in dropped
    PROVE  Inv'
<1>1. PICK n \in Nat : n = Len(outbox)
  BY LenProperties DEF Inv, Typed
<1> DEFINE m == [owner |-> owner, type |-> type, id |-> id, why |-> why]
<1>2. /\ owner' = owner /\ owner \in Nat /\ outbox \in Seq(Answers) /\ m \in Answers
      /\ outbox' = Append(outbox, m) /\ client' = client /\ server' = server
      /\ page' = page /\ dropped' = dropped /\ workers' = workers
  BY DEF Inv, Typed, Answers, ClientWaits, pageVars, Send
<1>3. m.owner = owner /\ m.type = type /\ m.id = id /\ m.why = why
  OBVIOUS
<1> HIDE DEF m
<1>4. /\ outbox' \in Seq(Answers) /\ n + 1 \in 1..Len(outbox') /\ outbox'[n + 1] = m
      /\ \A k \in 1..n : outbox'[k] = outbox[k]
      /\ \A k \in 1..Len(outbox') : k = n + 1 \/ k \in 1..Len(outbox)
      /\ \A k \in 1..Len(outbox) : k # n + 1
  BY <1>1, <1>2, AppendIs
<1>5. Still'
  BY DEF Still
<1>6. Phase'
  <2>1. \A j \in 1..Len(outbox') : j # n + 1 => outbox'[j].owner # owner'
    BY <1>1, <1>2, <1>4 DEF NoAnswer
  <2>2. /\ outbox'[n + 1].owner = owner' /\ outbox'[n + 1].type = type
        /\ outbox'[n + 1].why = why
    BY <1>2, <1>3, <1>4
  <2>3. client' = "page" /\ page'.ready => client = "page" /\ page.ready
    BY <1>2
  <2>4. AnsweredAt(n + 1)'
    BY <1>4, <1>5, <2>1, <2>2, <2>3 DEF AnsweredAt
  <2> QED
    BY <1>4, <2>4 DEF Phase
<1>7. AnswersOk'
  <2>1. /\ m.why = "file" => server' # "good"
        /\ client' = "page" /\ m.why = "cancelled" => m.id \in dropped'
        /\ client' = "page" => m.owner \in 1..workers'
        /\ client' = "harness" => m.owner = owner'
    <3>1. client = "page" => owner \in 1..workers
      BY DEF Inv, Typed, PageOk
    <3> QED
      BY <1>2, <1>3, <3>1
  <2>2. \A k \in 1..Len(outbox) :
          /\ outbox[k].why = "file" => server # "good"
          /\ client = "page" /\ outbox[k].why = "cancelled" => outbox[k].id \in dropped
          /\ client = "page" => outbox[k].owner \in 1..workers
          /\ client = "harness" => outbox[k].owner = owner
    BY DEF Inv, AnswersOk
  <2> QED
    BY <1>1, <1>2, <1>4, <2>1, <2>2 DEF AnswersOk
<1>8. Typed'
  BY <1>2, <1>4 DEF Inv, Typed, ClientWaits, pageVars, harnessVars
<1>9. PageOk' /\ HarnessOk'
  BY ClientKept
<1> QED
  BY <1>6, <1>7, <1>8, <1>9 DEF Inv

(* A handler that starts, or goes on, with the question.                    *)
LEMMA Serves ==
    ASSUME Inv, ~Quiet, ClientWaits, outbox' = outbox,
           worker' \in WorkerFlags, session' \in Sessions, SoundSession(session'),
           inbox' \in Seq(Questions), NEW h, ServedBy(h)',
           client = "page" /\ page.ready => Usable'
    PROVE  Inv'
<1>1. Phase'
  <2>1. h \in handlers'
    BY DEF ServedBy
  <2> QED
    BY <2>1 DEF Phase
<1>2. AnswersOk'
  BY DEF Inv, AnswersOk, ClientWaits, pageVars
<1>3. Typed'
  BY DEF Inv, Typed, ClientWaits, pageVars, harnessVars
<1>4. PageOk' /\ HarnessOk'
  BY ClientKept
<1> QED
  BY <1>1, <1>2, <1>3, <1>4 DEF Inv

-----------------------------------------------------------------------------
(* The steps of the worker.                                                 *)

(* The flags of the worker, of which one or two change.                     *)
LEMMA FlagsIs ==
    ASSUME NEW w \in WorkerFlags
    PROVE  /\ [w EXCEPT !.loading = TRUE] \in WorkerFlags
           /\ [w EXCEPT !.module = TRUE] \in WorkerFlags
           /\ [w EXCEPT !.cancelled = TRUE] \in WorkerFlags
           /\ [w EXCEPT !.cancelled = FALSE] \in WorkerFlags
           /\ [w EXCEPT !.running = FALSE] \in WorkerFlags
           /\ [w EXCEPT !.loading = FALSE] \in WorkerFlags
           /\ [w EXCEPT !.running = TRUE, !.cancelled = FALSE] \in WorkerFlags
           /\ [w EXCEPT !.running = FALSE, !.loading = FALSE] \in WorkerFlags
           /\ [w EXCEPT !.running = FALSE, !.loading = FALSE, !.cancelled = FALSE] \in WorkerFlags
BY DEF WorkerFlags

(* Cancelling a session that serves none changes nothing that matters.      *)
LEMMA IdleCancelled ==
    ASSUME NEW s, Idle(s)
    PROVE  Idle(Cancelled(s))
BY CancelledIs DEF Idle

(* A handler's catch clause answers with an error.                          *)
LEMMA Thrown ==
    ASSUME NEW w \in WorkerFlags, worker = w, NEW id, NEW why, NEW s, Throw(id, why, s)
    PROVE  /\ worker' \in WorkerFlags /\ ~worker'.loading /\ ~worker'.running
           /\ worker'.module = w.module
           /\ session' = IF w.running /\ w.module THEN Cancelled(s) ELSE s
           /\ Send("error", id, why)
<1>1. /\ worker' = [w EXCEPT !.running = FALSE, !.loading = FALSE]
      /\ session' = IF w.running /\ w.module THEN Cancelled(s) ELSE s
      /\ Send("error", id, why)
  BY DEF Throw
<1>2. worker' \in WorkerFlags
  BY <1>1, FlagsIs
<1>3. ~worker'.loading /\ ~worker'.running /\ worker'.module = w.module
  BY <1>1 DEF WorkerFlags
<1> QED
  BY <1>1, <1>2, <1>3

(* A load starts.                                                           *)
LEMMA LoadStartsKeeps ==
    ASSUME Inv, LoadStarts, ClientWaits
    PROVE  Inv'
<1>1. /\ inbox # <<>> /\ Head(inbox).type = "load" /\ inbox' = Tail(inbox)
      /\ inbox \in Seq(Questions) /\ worker \in WorkerFlags /\ Phase
  BY DEF Inv, Typed, LoadStarts, Received
<1>2. /\ AskedAt(1) /\ ~Quiet /\ Head(inbox) = inbox[1] /\ inbox' \in Seq(Questions)
      /\ \A k \in 1..Len(inbox') : inbox'[k].type = "cancel"
  BY <1>1, HeadAsked
<1>3. /\ ~worker.module /\ session = NoSession /\ Still /\ NoAnswer
      /\ Expected("load", inbox[1].id)
  BY <1>1, <1>2 DEF AskedAt
<1> DEFINE h == LoadAt("module", 1, "none", "absent")
<1>4. /\ worker' = [worker EXCEPT !.loading = TRUE] /\ handlers' = {h}
      /\ session' = session /\ outbox' = outbox
  BY <1>3 DEF LoadStarts, Still
<1>5. /\ worker' \in WorkerFlags /\ worker'.loading /\ ~worker'.running /\ ~worker'.module
  <2>1. worker' \in WorkerFlags
    BY <1>1, <1>4, FlagsIs
  <2> QED
    BY <1>1, <1>3, <1>4, <2>1 DEF WorkerFlags, Still
<1>6. h \in AllHandlers /\ h.type = "load" /\ h.at = "module"
  BY DEF LoadAt, AllHandlers, Contents
<1> HIDE DEF h
<1>7. client' = client /\ page' = page /\ rpc' = rpc /\ owner' = owner
  BY DEF ClientWaits, pageVars, harnessVars
<1>8. ~(client = "page" /\ page.ready) /\ Expected("load", h.id)'
  BY <1>3, <1>7 DEF Expected
<1>9. ServedBy(h)'
  <2>1. NoAnswer' /\ NoQuestion'
    BY <1>2, <1>3, <1>4, <1>7 DEF NoAnswer, NoQuestion
  <2> QED
    BY <1>3, <1>4, <1>5, <1>6, <1>8, <2>1 DEF ServedBy
<1> QED
  BY <1>2, <1>3, <1>4, <1>5, <1>8, <1>9, Serves, NoSessionIs

\* A question that the worker can begin: it is the first message, and nothing else is
\* under way.
Beginning(id) ==
    /\ inbox # <<>> /\ Head(inbox).id = id /\ inbox' = Tail(inbox) /\ inbox' \in Seq(Questions)
    /\ ~Quiet /\ NoQuestion' /\ NoAnswer
    /\ worker \in WorkerFlags /\ worker.module /\ ~worker.loading /\ ~worker.running
    /\ Idle(session) /\ handlers = {}

(* The first message, if it is no load, finds the worker free and a session *)
(* that can be asked.                                                       *)
LEMMA BeginningIs ==
    ASSUME Inv, inbox # <<>>, Received, Head(inbox).type \notin {"load", "cancel"}
    PROVE  \E id \in Nat :
              /\ Beginning(id) /\ Expected(Head(inbox).type, id)
              /\ client = "page" /\ inbox' # <<>> => id \in dropped
<1>1. /\ inbox # <<>> /\ inbox' = Tail(inbox)
      /\ inbox \in Seq(Questions) /\ worker \in WorkerFlags /\ Phase
      /\ session \in Sessions /\ SoundSession(session)
  BY DEF Inv, Typed, Received
<1>2. /\ AskedAt(1) /\ ~Quiet /\ Head(inbox) = inbox[1] /\ inbox' \in Seq(Questions)
      /\ inbox[1] \in Questions
      /\ \A k \in 1..Len(inbox') : inbox'[k].type = "cancel"
      /\ inbox' # <<>> => 1 < Len(inbox)
  BY <1>1, HeadAsked
<1>3. PICK id \in Nat : id = inbox[1].id
  BY <1>2 DEF Questions
<1>4. Beginning(id)
  <2>1. NoQuestion'
    BY <1>2 DEF NoQuestion
  <2>2. Idle(session) /\ worker.module /\ ~worker.loading /\ ~worker.running /\ handlers = {}
        /\ NoAnswer
    BY <1>1, <1>2 DEF AskedAt, Usable, Still, Idle
  <2> QED
    BY <1>1, <1>2, <1>3, <2>1, <2>2 DEF Beginning
<1>5. Expected(Head(inbox).type, id)
  BY <1>2, <1>3 DEF AskedAt
<1>6. client = "page" /\ inbox' # <<>> => id \in dropped
  <2>1. client = "page" => inbox[1].type = "decide"
    BY <1>2 DEF AskedAt, Expected
  <2> QED
    BY <1>2, <1>3, <2>1 DEF AskedAt
<1> QED
  BY <1>4, <1>5, <1>6

(* A request that cannot be begun is answered with an error.                *)
LEMMA BeginsKeeps ==
    ASSUME Inv, ClientWaits, NEW id \in Nat, Beginning(id), NEW body \in Bodies,
           Begins(id, body), UNCHANGED handlers
    PROVE  Inv'
<1>1. PICK w \in WorkerFlags : w = worker
  BY DEF Beginning
<1>2. w.module /\ ~w.loading /\ ~w.running /\ Idle(session)
  BY <1>1 DEF Beginning
<1> DEFINE r == Begin(session, body)
<1>3. /\ r.reply = "error" /\ session' = Cancelled(r.session)
      /\ worker' = [w EXCEPT !.running = FALSE, !.loading = FALSE, !.cancelled = FALSE]
      /\ Send("error", id, "request")
  BY <1>1, <1>2 DEF Begins
<1>4. Idle(r.session)
  BY <1>2, <1>3, BeginIs
<1> HIDE DEF r
<1>5. Idle(session')
  BY <1>3, <1>4, IdleCancelled
<1>6. /\ worker' \in WorkerFlags /\ ~worker'.running /\ ~worker'.loading /\ worker'.module
  <2>1. worker' \in WorkerFlags
    BY <1>3, FlagsIs
  <2> QED
    BY <1>2, <1>3, <2>1 DEF WorkerFlags
<1>7. /\ Usable' /\ session' \in Sessions /\ SoundSession(session') /\ session'.questions = 0
  BY <1>5, <1>6 DEF Usable, Idle
<1>8. /\ ~Quiet /\ NoAnswer /\ NoQuestion' /\ inbox' \in Seq(Questions) /\ handlers' = {}
  BY DEF Beginning
<1>9. /\ "request" \in Reasons /\ "error" \in {"ready", "error", "result", "prepared"}
      /\ "request" # "file" /\ "request" # "cancelled" /\ "error" # "ready"
  BY DEF Reasons
<1>10. Send("error", id, "request")
  BY <1>3
<1> QED
  BY <1>6, <1>7, <1>8, <1>9, <1>10, Answered

(* A handler that throws answers with an error.                             *)
LEMMA ThrownKeeps ==
    ASSUME Inv, ~Quiet, NoAnswer, ClientWaits, NEW id \in Nat, NEW why \in Reasons, NEW s,
           Throw(id, why, s), handlers' = {}, inbox' \in Seq(Questions), NoQuestion',
           session' \in Sessions, SoundSession(session'), session'.questions = 0,
           why # "cancelled", why = "file" => server # "good",
           why \in {"request", "rejected"} \/ (client = "page" /\ page.ready) =>
              worker.module /\ session'.loaded /\ session'.engine
    PROVE  Inv'
<1>1. PICK w \in WorkerFlags : worker = w
  BY DEF Inv, Typed
<1>2. /\ worker' \in WorkerFlags /\ ~worker'.loading /\ ~worker'.running
      /\ worker'.module = worker.module /\ Send("error", id, why)
  BY <1>1, Thrown
<1>3. why \in {"request", "rejected"} \/ (client = "page" /\ page.ready) => Usable'
  BY <1>2 DEF Usable
<1>4. "error" \in {"ready", "error", "result", "prepared"} /\ "error" # "ready"
  OBVIOUS
<1> QED
  BY <1>2, <1>3, <1>4, Answered

(* A decision is begun, or answered with an error.                          *)
LEMMA DecideKeeps ==
    ASSUME Inv, Decide, ClientWaits
    PROVE  Inv'
<1>1. inbox # <<>> /\ Head(inbox).type = "decide" /\ Received
  BY DEF Decide
<1>2. PICK id \in Nat :
         /\ Beginning(id) /\ Expected("decide", id)
         /\ client = "page" /\ inbox' # <<>> => id \in dropped
  BY <1>1, BeginningIs
<1>3. id = Head(inbox).id /\ handlers = {} /\ Idle(session) /\ worker.module /\ ~worker.loading
      /\ worker \in WorkerFlags /\ ~Quiet /\ NoAnswer /\ NoQuestion' /\ inbox' \in Seq(Questions)
  BY <1>2 DEF Beginning
<1>4. CASE \E body \in Bodies : Begins(id, body) /\ UNCHANGED <<handlers, steps>>
  BY <1>2, <1>4, BeginsKeeps
<1>5. CASE /\ \E body \in Bodies :
                LET r == Begin(session, body) IN r.reply = "running" /\ session' = r.session
           /\ worker' = [worker EXCEPT !.running = TRUE, !.cancelled = FALSE]
           /\ handlers' = handlers \cup {Deciding(id)}
           /\ UNCHANGED outbox
  <2> DEFINE h == Deciding(id)
  <2>1. h \in AllHandlers /\ h.type = "decide" /\ h.id = id
    BY DEF Deciding, AllHandlers, Contents
  <2>2. handlers' = {h} /\ outbox' = outbox
    BY <1>3, <1>5
  <2> HIDE DEF h
  <2>3. Busy(session')
    BY <1>3, <1>5, BeginIs
  <2>4. worker' \in WorkerFlags
    BY <1>3, <1>5, FlagsIs
  <2>5. worker'.running /\ ~worker'.cancelled /\ worker'.module /\ ~worker'.loading
    BY <1>3, <1>5 DEF WorkerFlags
  <2>6. Usable' /\ session' \in Sessions /\ SoundSession(session') /\ session'.questions # 0
    BY <2>3, <2>5 DEF Usable, Busy
  <2>7. client' = client /\ page' = page /\ rpc' = rpc /\ owner' = owner /\ dropped' = dropped
    BY DEF ClientWaits, pageVars, harnessVars
  <2>8. Expected("decide", h.id)'
    BY <1>2, <2>1, <2>7 DEF Expected
  <2>9. NoAnswer'
    BY <1>3, <2>2, <2>7 DEF NoAnswer
  <2>10. ServedBy(h)'
    BY <1>2, <1>3, <2>1, <2>2, <2>5, <2>6, <2>7, <2>8, <2>9 DEF ServedBy
  <2> QED
    BY <1>3, <2>2, <2>4, <2>6, <2>10, Serves
<1> QED
  BY <1>3, <1>4, <1>5 DEF Decide

(* A prepared request leaves the session as it found it.                    *)
LEMMA PrepareKeeps ==
    ASSUME Inv, Prepare, ClientWaits
    PROVE  Inv'
<1>1. inbox # <<>> /\ Head(inbox).type = "prepare" /\ Received /\ UNCHANGED handlers
  BY DEF Prepare
<1>2. PICK id \in Nat : Beginning(id) /\ Expected("prepare", id)
  BY <1>1, BeginningIs
<1>3. id = Head(inbox).id /\ handlers = {} /\ Idle(session) /\ worker.module /\ ~worker.loading
      /\ ~worker.running
      /\ worker \in WorkerFlags /\ ~Quiet /\ NoAnswer /\ NoQuestion' /\ inbox' \in Seq(Questions)
  BY <1>2 DEF Beginning
<1>4. CASE \E body \in Bodies : Begins(id, body)
  BY <1>1, <1>2, <1>4, BeginsKeeps
<1>5. CASE /\ \E body \in Bodies :
                LET r == Begin(session, body) IN
                r.reply = "running" /\ session' = Cancel(r.session).session
           /\ worker' = [worker EXCEPT !.cancelled = FALSE]
           /\ Send("prepared", id, "")
  <2>1. PICK body \in Bodies : /\ Begin(session, body).reply = "running"
                               /\ session' = Cancel(Begin(session, body).session).session
    BY <1>5
  <2>2. Idle(session')
    <3>1. Busy(Begin(session, body).session)
      BY <1>3, <2>1, BeginIs
    <3> QED
      BY <2>1, <3>1, CancelIs
  <2>3. worker' \in WorkerFlags
    BY <1>3, <1>5, FlagsIs
  <2>4. ~worker'.running /\ worker'.module /\ ~worker'.loading
    BY <1>3, <1>5 DEF WorkerFlags
  <2>5. Usable' /\ session' \in Sessions /\ SoundSession(session') /\ session'.questions = 0
    BY <2>2, <2>4 DEF Usable, Idle
  <2>6. /\ "" \in Reasons /\ "" # "file" /\ "" # "cancelled" /\ "prepared" # "ready"
        /\ "prepared" \in {"ready", "error", "result", "prepared"}
    BY DEF Reasons
  <2> QED
    BY <1>1, <1>3, <1>5, <2>3, <2>4, <2>5, <2>6, Answered
<1> QED
  BY <1>3, <1>4, <1>5 DEF Prepare

(* A tuning that fails leaves the engine absent, and its client, the        *)
(* benchmark, gives up; a rejected one keeps it.                            *)
LEMMA RetuneKeeps ==
    ASSUME Inv, Retune, ClientWaits
    PROVE  Inv'
<1>1. inbox # <<>> /\ Head(inbox).type = "tune" /\ Received
  BY DEF Retune
<1>2. PICK id \in Nat : Beginning(id) /\ Expected("tune", id)
  BY <1>1, BeginningIs
<1>3. id = Head(inbox).id /\ handlers = {} /\ Idle(session) /\ worker.module /\ ~worker.loading
      /\ ~worker.running
      /\ worker \in WorkerFlags /\ ~Quiet /\ NoAnswer /\ NoQuestion' /\ inbox' \in Seq(Questions)
  BY <1>2 DEF Beginning
<1>4. client # "page"
  BY <1>2 DEF Expected
<1>5. PICK outcome \in {"rejected", "fails", "ok"} :
         IF Tune(session, outcome).reply = "error"
         THEN Throw(id, outcome, Tune(session, outcome).session)
         ELSE session' = Tune(session, outcome).session /\ Send("ready", 0, "") /\ UNCHANGED worker
  BY <1>3 DEF Retune
<1>6. handlers' = {}
  BY <1>3 DEF Retune
<1> DEFINE r == Tune(session, outcome)
<1>7. /\ r.session \in Sessions /\ SoundSession(r.session) /\ r.session.questions = 0
      /\ r.reply = "ready" \/ outcome = "rejected" => Idle(r.session)
      /\ r.reply \in {"error", "ready"}
  BY <1>3, TuneIs
<1>8. IF r.reply = "error" THEN Throw(id, outcome, r.session)
      ELSE session' = r.session /\ Send("ready", 0, "") /\ UNCHANGED worker
  BY <1>5
<1> HIDE DEF r
<1>9. CASE r.reply = "error"
  <2>1. PICK s : s = r.session
    OBVIOUS
  <2>2. Throw(id, outcome, s)
    BY <1>8, <1>9, <2>1
  <2>3. PICK w \in WorkerFlags : worker = w
    BY <1>3
  <2>4. session' = s
    BY <1>3, <2>2, <2>3, Thrown
  <2>5. outcome \in Reasons /\ outcome # "cancelled" /\ outcome # "file" /\ outcome # "request"
    BY DEF Reasons
  <2>6. outcome = "rejected" => session'.loaded /\ session'.engine
    BY <1>7, <2>1, <2>4 DEF Idle
  <2>7. session' \in Sessions /\ SoundSession(session') /\ session'.questions = 0
    BY <1>7, <2>1, <2>4
  <2> QED
    BY <1>3, <1>4, <1>6, <2>2, <2>5, <2>6, <2>7, ThrownKeeps
<1>10. CASE r.reply = "ready"
  <2>1. session' = r.session /\ Send("ready", 0, "") /\ worker' = worker
    BY <1>8, <1>10
  <2>2. Usable' /\ session' \in Sessions /\ SoundSession(session') /\ session'.questions = 0
    BY <1>3, <1>7, <1>10, <2>1 DEF Usable, Idle
  <2>3. /\ "" \in Reasons /\ "" # "file" /\ "" # "cancelled"
        /\ "ready" \in {"ready", "error", "result", "prepared"} /\ 0 \in Nat
    BY DEF Reasons
  <2> QED
    BY <1>3, <1>4, <1>6, <2>1, <2>2, <2>3, Answered
<1> QED
  BY <1>7, <1>9, <1>10

(* A cancellation concerns the decision that runs, which the client has     *)
(* dropped, or none.                                                        *)
LEMMA CancelReceivedKeeps ==
    ASSUME Inv, CancelReceived, ClientWaits
    PROVE  Inv'
<1>1. /\ inbox # <<>> /\ Head(inbox).type = "cancel" /\ inbox' = Tail(inbox)
      /\ worker' = [worker EXCEPT !.cancelled = TRUE]
      /\ UNCHANGED <<owner, handlers, session, outbox>>
      /\ inbox \in Seq(Questions) /\ worker \in WorkerFlags /\ Phase
  BY DEF Inv, Typed, CancelReceived, Received
<1>2. /\ 1 \in 1..Len(inbox) /\ inbox[1].type = "cancel" /\ Len(inbox) \in Nat
      /\ inbox' \in Seq(Questions) /\ Len(inbox') = Len(inbox) - 1
      /\ \A k \in 1..Len(inbox') :
            k + 1 \in 1..Len(inbox) /\ k + 1 # 1 /\ inbox'[k] = inbox[k + 1]
  BY <1>1, TailIs
<1>3. /\ worker' \in WorkerFlags /\ worker'.module = worker.module
      /\ worker'.loading = worker.loading /\ worker'.running = worker.running
  <2>1. worker' \in WorkerFlags
    BY <1>1, FlagsIs
  <2> QED
    BY <1>1, <2>1 DEF WorkerFlags
<1>4. /\ client' = client /\ page' = page /\ rpc' = rpc /\ owner' = owner /\ dropped' = dropped
      /\ workers' = workers /\ nextId' = nextId /\ applied' = applied /\ server' = server
  BY DEF ClientWaits, pageVars, harnessVars
<1>5. (Still' <=> Still) /\ (Usable' <=> Usable) /\ (NoAnswer' <=> NoAnswer)
  BY <1>1, <1>3, <1>4 DEF Still, Usable, NoAnswer
<1>6. NoQuestion => NoQuestion'
  BY <1>2 DEF NoQuestion
<1>7. \A type, id : Expected(type, id)' <=> Expected(type, id)
  BY <1>4 DEF Expected
<1>8. Quiet => Quiet'
  BY <1>5, <1>6 DEF Quiet
<1>9. Phase'
  <2>1. CASE Quiet
    BY <1>8, <2>1 DEF Phase
  <2>2. ASSUME NEW k \in 1..Len(inbox), AskedAt(k)
        PROVE  Phase'
    <3>1. PICK j \in Int : j = k - 1
      OBVIOUS
    <3>2. k # 1
      BY <1>2, <2>2 DEF AskedAt
    <3>3. j \in 1..Len(inbox') /\ inbox'[j] = inbox[k] /\ (j < Len(inbox') => k < Len(inbox))
      BY <1>2, <3>1, <3>2
    <3>4. \A i \in 1..Len(inbox') : i # j => inbox'[i].type = "cancel"
      <4>1. \A i \in 1..Len(inbox) : i # k => inbox[i].type = "cancel"
        BY <2>2 DEF AskedAt
      <4> QED
        BY <1>2, <3>1, <4>1
    <3>5. Expected(inbox[j].type, inbox[j].id)'
      <4>1. PICK type, id : type = inbox[k].type /\ id = inbox[k].id
        OBVIOUS
      <4>2. Expected(type, id)'
        BY <1>7, <2>2, <4>1 DEF AskedAt
      <4>3. inbox'[j].type = type /\ inbox'[j].id = id
        BY <3>3, <4>1
      <4> QED
        BY <4>2, <4>3 DEF Expected
    <3>6. IF inbox'[j].type = "load" THEN ~worker'.module /\ session' = NoSession ELSE Usable'
      BY <1>1, <1>3, <1>5, <2>2, <3>3 DEF AskedAt
    <3>7. AskedAt(j)'
      BY <1>4, <1>5, <2>2, <3>3, <3>4, <3>5, <3>6 DEF AskedAt
    <3> QED
      BY <3>3, <3>7 DEF Phase
  <2>3. ASSUME NEW h \in handlers, ServedBy(h)
        PROVE  Phase'
    <3>1. inbox # <<>>
      BY <1>1
    <3>2. ServedBy(h)'
      BY <1>1, <1>3, <1>4, <1>5, <1>6, <1>7, <2>3, <3>1 DEF ServedBy
    <3> QED
      BY <1>1, <2>3, <3>2 DEF Phase
  <2>4. ASSUME NEW k \in 1..Len(outbox), AnsweredAt(k)
        PROVE  Phase'
    <3>1. AnsweredAt(k)'
      BY <1>1, <1>4, <1>5, <1>6, <2>4 DEF AnsweredAt
    <3> QED
      BY <1>1, <2>4, <3>1 DEF Phase
  <2> QED
    BY <1>1, <2>1, <2>2, <2>3, <2>4 DEF Phase
<1>10. Typed'
  BY <1>1, <1>2, <1>3, <1>4 DEF Inv, Typed, ClientWaits, harnessVars
<1>11. AnswersOk' /\ SoundSession(session')
  BY <1>1, <1>4 DEF Inv, AnswersOk
<1>12. JobOk' /\ LoopOk(page') <=> JobOk /\ LoopOk(page)
  BY <1>4 DEF JobOk, LoopOk
<1>13. PageOk'
  BY <1>4, <1>5, <1>8, <1>12 DEF Inv, PageOk
<1>14. HarnessOk'
  BY <1>4, <1>5, <1>8 DEF Inv, HarnessOk
<1> QED
  BY <1>9, <1>10, <1>11, <1>13, <1>14 DEF Inv

\* A load at an await.
LoadServed(h) ==
    /\ ServedBy(h) /\ h.type = "load" /\ handlers = {h} /\ ~Quiet
    /\ worker \in WorkerFlags /\ inbox \in Seq(Questions)
    /\ ~(client = "page" /\ page.ready)
    /\ session \in Sessions /\ SoundSession(session) /\ session.questions = 0 /\ session = NoSession

(* Where the handler of a load is found.                                    *)
LEMMA LoadServedIs ==
    ASSUME Inv, NEW h \in handlers, h.type = "load"
    PROVE  LoadServed(h)
<1>1. ServedBy(h) /\ handlers = {h} /\ ~Quiet
  BY HandlerServed DEF Inv
<1>2. ~(client = "page" /\ page.ready)
  BY <1>1 DEF ServedBy, Expected
<1>3. session = NoSession
  BY <1>1 DEF ServedBy
<1> QED
  BY <1>1, <1>2, <1>3, NoSessionIs DEF LoadServed, Inv, Typed

(* A load that fails is answered; the file it fails for is one the server   *)
(* does not have.                                                           *)
LEMMA LoadFailsKeeps ==
    ASSUME Inv, ClientWaits, UNCHANGED inbox, NEW h, LoadServed(h),
           NEW why \in {"runtime", "file", "weights", "engine"}, LoadFails(h, why),
           why = "file" => server # "good"
    PROVE  Inv'
<1>1. /\ ServedBy(h) /\ h.type = "load" /\ handlers = {h} /\ ~Quiet
      /\ worker \in WorkerFlags /\ inbox \in Seq(Questions)
      /\ ~(client = "page" /\ page.ready)
      /\ session \in Sessions /\ SoundSession(session) /\ session.questions = 0
  BY DEF LoadServed
<1>2. ~worker.running /\ NoQuestion /\ NoAnswer
  BY <1>1 DEF ServedBy
<1>3. Throw(0, why, session) /\ handlers' = {}
  BY <1>1 DEF LoadFails
<1>4. PICK s : s = session
  OBVIOUS
<1>5. Throw(0, why, s)
  BY <1>3, <1>4
<1>6. PICK w \in WorkerFlags : worker = w
  BY <1>1
<1>7. session' = session
  BY <1>2, <1>4, <1>5, <1>6, Thrown
<1>8. why \in Reasons /\ why # "cancelled" /\ why # "request" /\ why # "rejected" /\ 0 \in Nat
  BY DEF Reasons
<1>9. NoQuestion' /\ inbox' \in Seq(Questions)
  BY <1>1, <1>2 DEF NoQuestion
<1> QED
  BY <1>1, <1>2, <1>3, <1>5, <1>7, <1>8, <1>9, ThrownKeeps

(* A load goes on to its next await.                                        *)
LEMMA LoadGoesOn ==
    ASSUME Inv, ClientWaits, UNCHANGED <<inbox, session, outbox>>, NEW h, LoadServed(h),
           NEW g \in AllHandlers, g.type = "load", handlers' = {g},
           worker' \in WorkerFlags, worker'.loading, ~worker'.running,
           worker'.module <=> g.at # "module",
           g.at = "writing" => g.store # "none"
    PROVE  Inv'
<1>1. /\ ServedBy(h) /\ h.type = "load" /\ ~Quiet /\ ~(client = "page" /\ page.ready)
      /\ inbox \in Seq(Questions) /\ session \in Sessions /\ SoundSession(session)
      /\ session = NoSession
  BY DEF LoadServed
<1>2. client' = client /\ page' = page /\ rpc' = rpc /\ owner' = owner
  BY DEF ClientWaits, pageVars, harnessVars
<1>3. Expected("load", g.id)'
  BY <1>1, <1>2 DEF ServedBy, Expected
<1>4. NoQuestion' /\ NoAnswer'
  BY <1>1, <1>2 DEF ServedBy, NoQuestion, NoAnswer
<1>5. ServedBy(g)'
  BY <1>1, <1>3, <1>4 DEF ServedBy
<1> QED
  BY <1>1, <1>5, Serves

(* The module is made, or the load fails.                                   *)
LEMMA ModuleMadeKeeps ==
    ASSUME Inv, ClientWaits, NEW h \in handlers, ModuleMade(h)
    PROVE  Inv'
<1>1. h.type = "load" /\ h.at = "module" /\ inbox' = inbox
  BY DEF ModuleMade
<1>2. LoadServed(h)
  BY <1>1, LoadServedIs
<1>3. ServedBy(h) /\ handlers = {h} /\ worker \in WorkerFlags
  BY <1>2 DEF LoadServed
<1>4. CASE LoadFails(h, "runtime")
  BY <1>1, <1>2, <1>4, LoadFailsKeeps
<1>5. ASSUME NEW store \in Stores, worker' = [worker EXCEPT !.module = TRUE],
             handlers' = (handlers \ {h}) \cup {LoadAt("file", 1, store, "absent")},
             UNCHANGED <<session, outbox>>
      PROVE  Inv'
  <2> DEFINE g == LoadAt("file", 1, store, "absent")
  <2>1. g \in AllHandlers /\ g.type = "load" /\ g.at = "file"
    BY WorkerAssumption DEF LoadAt, AllHandlers, Contents
  <2> HIDE DEF g
  <2>2. handlers' = {g}
    BY <1>3, <1>5 DEF g
  <2>3. worker' \in WorkerFlags
    BY <1>3, <1>5, FlagsIs
  <2>4. worker'.loading /\ ~worker'.running /\ worker'.module
    BY <1>1, <1>3, <1>5 DEF WorkerFlags, ServedBy
  <2> QED
    BY <1>1, <1>2, <1>5, <2>1, <2>2, <2>3, <2>4, LoadGoesOn
<1> QED
  BY <1>4, <1>5 DEF ModuleMade

(* A file that fails ends the load only where no cache is in between and    *)
(* the server does not have it.                                             *)
LEMMA FileFailsKeeps ==
    ASSUME Inv, ClientWaits, UNCHANGED inbox, NEW h, LoadServed(h), h.at # "module",
           FileFails(h), h.store = "none" => server # "good"
    PROVE  Inv'
<1>1. ServedBy(h) /\ handlers = {h} /\ worker \in WorkerFlags /\ h.type = "load"
  BY DEF LoadServed
<1>2. CASE h.store = "none"
  BY <1>2, LoadFailsKeeps DEF FileFails
<1>3. CASE h.store # "none"
  <2> DEFINE g == LoadAt("file", h.file, "none", h.weights)
  <2>1. g \in AllHandlers /\ g.type = "load" /\ g.at = "file"
    BY <1>1 DEF LoadAt, AllHandlers, ServedBy
  <2> HIDE DEF g
  <2>2. handlers' = {g} /\ UNCHANGED <<worker, session, outbox>>
    BY <1>1, <1>3 DEF FileFails, g
  <2>3. worker' \in WorkerFlags /\ worker'.loading /\ ~worker'.running /\ worker'.module
    BY <1>1, <2>2 DEF ServedBy
  <2> QED
    BY <2>1, <2>2, <2>3, LoadGoesOn
<1> QED
  BY <1>2, <1>3

(* A file that was read is taken, or fails.                                 *)
LEMMA BlobKeeps ==
    ASSUME Inv, ClientWaits, UNCHANGED inbox, NEW h, LoadServed(h), h.at # "module",
           NEW content, NEW copy, Blob(h, content, copy),
           h.store = "none" => content = server
    PROVE  Inv'
<1>1. ServedBy(h) /\ handlers = {h} /\ worker \in WorkerFlags /\ h.type = "load"
  BY DEF LoadServed
<1>2. CASE ~Accepted(h, content)
  <2>1. content # "good"
    BY <1>2 DEF Accepted
  <2> QED
    BY <1>2, <2>1, FileFailsKeeps DEF Blob
<1>3. CASE Accepted(h, content)
  <2> DEFINE g == LoadAt("file", h.file + 1, h.store, WeightsWith(h, content))
  <2>1. g \in AllHandlers /\ g.type = "load" /\ g.at = "file"
    BY <1>1, <1>3 DEF LoadAt, AllHandlers, ServedBy, WeightsWith, Accepted, Contents
  <2> HIDE DEF g
  <2>2. handlers' = {g} /\ UNCHANGED <<worker, session, outbox>>
    BY <1>1, <1>3 DEF Blob, g
  <2>3. worker' \in WorkerFlags /\ worker'.loading /\ ~worker'.running /\ worker'.module
    BY <1>1, <2>2 DEF ServedBy
  <2> QED
    BY <2>1, <2>2, <2>3, LoadGoesOn
<1> QED
  BY <1>2, <1>3

(* The cache has the file, or cannot be read.                               *)
LEMMA FileCachedKeeps ==
    ASSUME Inv, ClientWaits, NEW h \in handlers, FileCached(h)
    PROVE  Inv'
<1>1. h.type = "load" /\ h.at = "file" /\ h.store # "none" /\ inbox' = inbox
  BY DEF FileCached, Loading
<1>2. LoadServed(h)
  BY <1>1, LoadServedIs
<1>3. PICK content, copy : content = Copy(h) /\ copy = (IF Copy(h) = "short" THEN "absent" ELSE Copy(h))
  OBVIOUS
<1>4. Blob(h, content, copy) \/ FileFails(h)
  BY <1>3 DEF FileCached
<1> QED
  BY <1>1, <1>2, <1>4, BlobKeeps, FileFailsKeeps

(* The file is fetched.                                                     *)
LEMMA FileFetchedKeeps ==
    ASSUME Inv, ClientWaits, NEW h \in handlers, FileFetched(h)
    PROVE  Inv'
<1>1. h.type = "load" /\ h.at = "file" /\ inbox' = inbox
  BY DEF FileFetched, Loading
<1>2. LoadServed(h)
  BY <1>1, LoadServedIs
<1>3. CASE server = "down"
  BY <1>1, <1>2, <1>3, FileFailsKeeps DEF FileFetched
<1>4. CASE server # "down"
  <2>1. PICK content : content = server
    OBVIOUS
  <2>2. \E copy : Blob(h, content, copy)
    BY <1>4, <2>1 DEF FileFetched
  <2> QED
    BY <1>1, <1>2, <2>1, <2>2, BlobKeeps
<1> QED
  BY <1>3, <1>4

(* The file is written, into the private file system.                       *)
LEMMA FileWritingKeeps ==
    ASSUME Inv, ClientWaits, NEW h \in handlers, FileWriting(h)
    PROVE  Inv'
<1>1. h.type = "load" /\ h.at = "file" /\ h.store = "opfs" /\ inbox' = inbox
  BY DEF FileWriting, Loading
<1>2. LoadServed(h)
  BY <1>1, LoadServedIs
<1>3. CASE server = "down"
  BY <1>1, <1>2, <1>3, FileFailsKeeps DEF FileWriting
<1>4. CASE server # "down"
  <2>1. ServedBy(h) /\ handlers = {h} /\ worker \in WorkerFlags /\ h \in AllHandlers
    BY <1>2 DEF LoadServed, ServedBy
  <2> DEFINE g == [h EXCEPT !.at = "writing"]
  <2>2. g \in AllHandlers /\ g.type = "load" /\ g.at = "writing" /\ g.store # "none"
    BY <1>1, <2>1 DEF AllHandlers
  <2> HIDE DEF g
  <2>3. handlers' = {g} /\ UNCHANGED <<worker, session, outbox>>
    BY <1>4, <2>1 DEF FileWriting, g
  <2>4. worker' \in WorkerFlags /\ worker'.loading /\ ~worker'.running /\ worker'.module
    BY <1>1, <2>1, <2>3 DEF ServedBy
  <2> QED
    BY <1>1, <1>2, <2>2, <2>3, <2>4, LoadGoesOn
<1> QED
  BY <1>3, <1>4

(* It was written, or could not be.                                         *)
LEMMA FileWrittenKeeps ==
    ASSUME Inv, ClientWaits, NEW h \in handlers, FileWritten(h)
    PROVE  Inv'
<1>1. h.type = "load" /\ h.at = "writing" /\ inbox' = inbox
  BY DEF FileWritten
<1>2. LoadServed(h)
  BY <1>1, LoadServedIs
<1>3. h.store # "none"
  BY <1>1, <1>2 DEF LoadServed, ServedBy
<1>4. PICK content : content = server
  OBVIOUS
<1>5. Blob(h, content, content) \/ FileFails(h)
  BY <1>4 DEF FileWritten
<1> QED
  BY <1>1, <1>2, <1>3, <1>5, BlobKeeps, FileFailsKeeps

(* The session is loaded, or the load fails.                                *)
LEMMA LoadEndsKeeps ==
    ASSUME Inv, ClientWaits, NEW h \in handlers, LoadEnds(h)
    PROVE  Inv'
<1>1. h.type = "load" /\ h.at = "file" /\ inbox' = inbox
  BY DEF LoadEnds
<1>2. LoadServed(h)
  BY <1>1, LoadServedIs
<1>3. /\ ServedBy(h) /\ handlers = {h} /\ worker \in WorkerFlags /\ session = NoSession
      /\ inbox \in Seq(Questions) /\ ~Quiet /\ ~(client = "page" /\ page.ready)
  BY <1>2 DEF LoadServed
<1>4. PICK outcome \in {"ok", "fails", "rejected"} :
         IF Load(NoSession, outcome).reply = "error"
         THEN \E why \in {"weights", "engine"} : LoadFails(h, why)
         ELSE /\ session' = Load(NoSession, outcome).session
              /\ worker' = [worker EXCEPT !.loading = FALSE]
              /\ handlers' = handlers \ {h} /\ Send("ready", 0, "")
  BY <1>3 DEF LoadEnds
<1> DEFINE r == Load(NoSession, outcome)
<1>5. r.reply \in {"error", "ready"} /\ (r.reply = "ready" => Idle(r.session))
  BY LoadIs
<1>6. IF r.reply = "error" THEN \E why \in {"weights", "engine"} : LoadFails(h, why)
      ELSE /\ session' = r.session /\ worker' = [worker EXCEPT !.loading = FALSE]
           /\ handlers' = handlers \ {h} /\ Send("ready", 0, "")
  BY <1>4
<1> HIDE DEF r
<1>7. CASE r.reply = "error"
  <2>1. PICK why \in {"weights", "engine"} : LoadFails(h, why)
    BY <1>6, <1>7
  <2> QED
    BY <1>1, <1>2, <2>1, LoadFailsKeeps
<1>8. CASE r.reply = "ready"
  <2>1. /\ session' = r.session /\ worker' = [worker EXCEPT !.loading = FALSE]
        /\ handlers' = {} /\ Send("ready", 0, "")
    BY <1>3, <1>6, <1>8
  <2>2. worker' \in WorkerFlags
    BY <1>3, <2>1, FlagsIs
  <2>3. ~worker'.loading /\ ~worker'.running /\ worker'.module
    BY <1>1, <1>3, <2>1 DEF WorkerFlags, ServedBy
  <2>4. Usable' /\ session' \in Sessions /\ SoundSession(session') /\ session'.questions = 0
    BY <1>5, <1>8, <2>1, <2>3 DEF Usable, Idle
  <2>5. /\ "" \in Reasons /\ "" # "file" /\ "" # "cancelled"
        /\ "ready" \in {"ready", "error", "result", "prepared"} /\ 0 \in Nat
    BY DEF Reasons
  <2>6. NoAnswer /\ NoQuestion' /\ inbox' \in Seq(Questions)
    BY <1>1, <1>3 DEF ServedBy, NoQuestion
  <2> QED
    BY <1>3, <2>1, <2>2, <2>3, <2>4, <2>5, <2>6, Answered
<1> QED
  BY <1>5, <1>7, <1>8

(* A decision goes on, or is answered.                                      *)
LEMMA ResumedKeeps ==
    ASSUME Inv, ClientWaits, NEW h \in handlers, Resumed(h)
    PROVE  Inv'
<1>1. ServedBy(h) /\ handlers = {h} /\ ~Quiet
  BY HandlerServed DEF Inv
<1>2. /\ h.type = "decide" /\ inbox' = inbox /\ inbox \in Seq(Questions) /\ worker \in WorkerFlags
      /\ session \in Sessions /\ SoundSession(session)
  BY DEF Inv, Typed, Resumed
<1>3. /\ h \in AllHandlers /\ NoQuestion /\ NoAnswer /\ Expected("decide", h.id)
      /\ ~worker.loading /\ worker.running /\ worker.module
      /\ client = "page" /\ worker.cancelled => h.id \in dropped
  BY <1>1, <1>2 DEF ServedBy, Usable
<1>4. Busy(session)
  BY <1>1, <1>2 DEF ServedBy, Usable, Busy
<1>5. NoQuestion' /\ inbox' \in Seq(Questions) /\ h.id \in Nat
  BY <1>2, <1>3 DEF NoQuestion, AllHandlers
<1>6. PICK outcome \in {"running", "answered", "failed"} :
        LET r == IF worker.cancelled THEN Cancel(session) ELSE Step(session, outcome) IN
        CASE r.reply = "running" -> session' = r.session /\ UNCHANGED <<handlers, worker, outbox>>
          [] r.reply = "error" -> Throw(h.id, "step", r.session) /\ handlers' = handlers \ {h}
          [] OTHER -> /\ session' = r.session /\ handlers' = handlers \ {h}
                      /\ worker' = [worker EXCEPT !.running = FALSE]
                      /\ Send("result", h.id, r.reply)
  BY DEF Resumed
<1> DEFINE r == IF worker.cancelled THEN Cancel(session) ELSE Step(session, outcome)
<1>7. /\ r.reply \in {"error", "running", "complete", "cancelled"}
      /\ r.reply = "running" => Busy(r.session)
      /\ r.reply # "running" => Idle(r.session)
      /\ r.reply = "cancelled" => worker.cancelled
  <2>1. CASE worker.cancelled
    BY <1>4, <2>1, CancelIs
  <2>2. CASE ~worker.cancelled
    BY <1>4, <2>2, StepIs
  <2> QED
    BY <2>1, <2>2
<1>8. /\ r.reply = "running" => session' = r.session /\ UNCHANGED <<handlers, worker, outbox>>
      /\ r.reply = "error" => Throw(h.id, "step", r.session) /\ handlers' = {}
      /\ r.reply \in {"complete", "cancelled"} =>
            /\ session' = r.session /\ handlers' = {}
            /\ worker' = [worker EXCEPT !.running = FALSE] /\ Send("result", h.id, r.reply)
  BY <1>1, <1>6
<1> HIDE DEF r
<1>9. CASE r.reply = "running"
  <2>1. session' = r.session /\ UNCHANGED <<handlers, worker, outbox>> /\ Busy(r.session)
    BY <1>7, <1>8, <1>9
  <2>2. /\ Usable' /\ session' \in Sessions /\ SoundSession(session') /\ session'.questions # 0
    BY <1>3, <2>1 DEF Usable, Busy
  <2>3. client' = client /\ page' = page /\ rpc' = rpc /\ owner' = owner /\ dropped' = dropped
    BY DEF ClientWaits, pageVars, harnessVars
  <2>4. Expected("decide", h.id)' /\ NoAnswer'
    BY <1>3, <2>1, <2>3 DEF Expected, NoAnswer
  <2>5. ServedBy(h)'
    BY <1>1, <1>2, <1>5, <2>1, <2>2, <2>3, <2>4 DEF ServedBy
  <2> QED
    BY <1>1, <1>2, <1>5, <2>1, <2>2, <2>5, Serves
<1>10. CASE r.reply = "error"
  <2>1. PICK s : s = r.session
    OBVIOUS
  <2>2. Throw(h.id, "step", s) /\ handlers' = {} /\ Idle(s)
    BY <1>7, <1>8, <1>10, <2>1
  <2>3. PICK w \in WorkerFlags : worker = w
    BY <1>2
  <2>4. session' = Cancelled(s)
    BY <1>3, <2>2, <2>3, Thrown
  <2>5. Idle(session')
    BY <2>2, <2>4, IdleCancelled
  <2>6. /\ session' \in Sessions /\ SoundSession(session') /\ session'.questions = 0
        /\ session'.loaded /\ session'.engine
    BY <2>5 DEF Idle
  <2>7. /\ "step" \in Reasons /\ "step" # "cancelled" /\ "step" # "file"
    BY DEF Reasons
  <2> QED
    BY <1>1, <1>3, <1>5, <2>2, <2>6, <2>7, ThrownKeeps
<1>11. CASE r.reply \in {"complete", "cancelled"}
  <2>1. PICK reply \in {"complete", "cancelled"} : reply = r.reply
    BY <1>11
  <2>2. /\ session' = r.session /\ handlers' = {} /\ Idle(r.session)
        /\ worker' = [worker EXCEPT !.running = FALSE] /\ Send("result", h.id, reply)
    BY <1>7, <1>8, <2>1
  <2>3. worker' \in WorkerFlags
    BY <1>2, <2>2, FlagsIs
  <2>4. ~worker'.loading /\ ~worker'.running /\ worker'.module
    BY <1>2, <1>3, <2>2 DEF WorkerFlags
  <2>5. Usable' /\ session' \in Sessions /\ SoundSession(session') /\ session'.questions = 0
    BY <2>2, <2>4 DEF Usable, Idle
  <2>6. /\ reply \in Reasons /\ reply # "file" /\ "result" # "ready" /\ "result" # "error"
        /\ "result" \in {"ready", "error", "result", "prepared"}
    BY DEF Reasons
  <2>7. client = "page" /\ reply = "cancelled" => h.id \in dropped
    BY <1>3, <1>7, <2>1
  <2> QED
    BY <1>1, <1>3, <1>5, <2>2, <2>3, <2>4, <2>5, <2>6, <2>7, Answered
<1> QED
  BY <1>7, <1>9, <1>10, <1>11

(* Every step of the worker.                                                *)
LEMMA WorkerKeeps ==
    ASSUME Inv, Receive \/ Resume, UNCHANGED <<pageVars, harnessVars, client>>
    PROVE  Inv'
<1>1. ClientWaits
  BY DEF ClientWaits, Receive, Resume, LoadStarts, Decide, Prepare, CancelReceived, Retune,
         ModuleMade, FileCached, FileFetched, FileWriting, FileWritten, LoadEnds, Resumed
<1>2. CASE Receive
  BY <1>1, <1>2, LoadStartsKeeps, DecideKeeps, PrepareKeeps, CancelReceivedKeeps, RetuneKeeps
     DEF Receive
<1>3. CASE Resume
  BY <1>1, <1>3, ModuleMadeKeeps, FileCachedKeeps, FileFetchedKeeps, FileWritingKeeps,
     FileWrittenKeeps, LoadEndsKeeps, ResumedKeeps DEF Resume
<1> QED
  BY <1>2, <1>3

-----------------------------------------------------------------------------
(* The client's steps, as far as they concern the question.                 *)

(* A question is posted when none is under way.                             *)
LEMMA Posted ==
    ASSUME Quiet, Usable, inbox \in Seq(Questions),
           NEW type \in {"decide", "prepare", "tune"}, NEW id \in Nat,
           inbox' = Append(inbox, [type |-> type, id |-> id]), Expected(type, id)',
           UNCHANGED <<owner, worker, handlers, session, outbox>>
    PROVE  Phase' /\ inbox' \in Seq(Questions)
<1>1. PICK n \in Nat : n = Len(inbox)
  BY LenProperties
<1> DEFINE m == [type |-> type, id |-> id]
<1>2. m \in Questions /\ m.type = type /\ m.id = id
  BY DEF Questions
<1> HIDE DEF m
<1>3. /\ inbox' \in Seq(Questions) /\ n + 1 \in 1..Len(inbox') /\ inbox'[n + 1] = m
      /\ Len(inbox') = n + 1
      /\ \A k \in 1..Len(inbox) : inbox'[k] = inbox[k]
      /\ \A k \in 1..Len(inbox') : k = n + 1 \/ k \in 1..Len(inbox)
  BY <1>1, <1>2, AppendIs DEF m
<1>4. \A j \in 1..Len(inbox') : j # n + 1 => inbox'[j].type = "cancel"
  BY <1>3 DEF Quiet, NoQuestion
<1>5. inbox'[n + 1].type = type /\ inbox'[n + 1].id = id
  BY <1>2, <1>3
<1>6. Expected(inbox[n + 1].type, inbox[n + 1].id)'
  BY <1>5 DEF Expected
<1>7. Still' /\ NoAnswer' /\ Usable'
  BY DEF Quiet, Still, NoAnswer, Usable
<1>8. AskedAt(n + 1)'
  BY <1>3, <1>4, <1>5, <1>6, <1>7 DEF AskedAt
<1> QED
  BY <1>3, <1>8 DEF Phase

(* A load is the first message of a new worker.                             *)
LEMMA LoadPosted ==
    ASSUME inbox' = <<[type |-> "load", id |-> 0]>>, worker' = Fresh, handlers' = {},
           session' = NoSession, NoAnswer', Expected("load", 0)'
    PROVE  /\ Phase' /\ inbox' \in Seq(Questions) /\ worker' \in WorkerFlags
           /\ session' \in Sessions /\ SoundSession(session')
<1> DEFINE m == [type |-> "load", id |-> 0]
<1>1. m \in Questions /\ m.type = "load" /\ m.id = 0
  BY DEF Questions
<1> HIDE DEF m
<1>2. inbox' \in Seq(Questions) /\ Len(inbox') = 1 /\ inbox'[1] = m
  BY <1>1 DEF m
<1>3. /\ worker' \in WorkerFlags /\ ~worker'.module /\ ~worker'.loading /\ ~worker'.running
  BY DEF Fresh, WorkerFlags
<1>4. Still'
  BY <1>3, NoSessionIs DEF Still
<1>5. Expected(inbox[1].type, inbox[1].id)'
  BY <1>1, <1>2 DEF Expected
<1>6. AskedAt(1)'
  BY <1>1, <1>2, <1>3, <1>4, <1>5 DEF AskedAt
<1>7. 1 \in 1..Len(inbox')
  BY <1>2
<1> QED
  BY <1>2, <1>3, <1>6, <1>7, NoSessionIs DEF Phase

(* A worker that is gone has nothing to do.                                 *)
LEMMA WorkerGone ==
    ASSUME inbox' = <<>>, worker' = Fresh, handlers' = {}, session' = NoSession, NoAnswer'
    PROVE  /\ Phase' /\ Quiet' /\ inbox' \in Seq(Questions) /\ worker' \in WorkerFlags
           /\ session' \in Sessions /\ SoundSession(session')
<1>1. /\ worker' \in WorkerFlags /\ ~worker'.loading /\ ~worker'.running
  BY DEF Fresh, WorkerFlags
<1>2. Still' /\ NoQuestion'
  BY <1>1, NoSessionIs DEF Still, NoQuestion
<1> QED
  BY <1>1, <1>2, NoSessionIs DEF Quiet, Phase

\* What the client waits for, and what the page dropped, at least, stays.
StillExpected ==
    /\ client' = client
    /\ \A type, id : Expected(type, id) => Expected(type, id)'
    /\ dropped \subseteq dropped'
    /\ client = "page" /\ page'.ready => page.ready

(* A step of the client that sends nothing.                                 *)
LEMMA PhaseKept ==
    ASSUME Phase, UNCHANGED <<owner, worker, handlers, session, inbox, outbox>>, StillExpected
    PROVE  Phase' /\ (Quiet => Quiet')
<1>1. /\ client' = client /\ \A type, id : Expected(type, id) => Expected(type, id)'
      /\ dropped \subseteq dropped'
      /\ client = "page" /\ page'.ready => page.ready
  BY DEF StillExpected
<1>2. /\ Still' <=> Still
      /\ Usable' <=> Usable
      /\ NoAnswer' <=> NoAnswer
      /\ NoQuestion => NoQuestion'
  BY DEF Still, Usable, NoAnswer, NoQuestion
<1>7. /\ owner' = owner /\ worker' = worker /\ handlers' = handlers
      /\ session' = session /\ inbox' = inbox /\ outbox' = outbox
  OBVIOUS
<1>3. Quiet => Quiet'
  BY <1>2 DEF Quiet
<1>4. ASSUME NEW k \in 1..Len(inbox), AskedAt(k)
      PROVE  AskedAt(k)'
  <2>1. Expected(inbox[k].type, inbox[k].id)'
    <3>1. PICK type, id : type = inbox[k].type /\ id = inbox[k].id
      OBVIOUS
    <3>2. Expected(type, id)'
      BY <1>1, <1>4, <3>1 DEF AskedAt
    <3>3. inbox'[k].type = type /\ inbox'[k].id = id
      BY <3>1
    <3> QED
      BY <3>2, <3>3 DEF Expected
  <2> QED
    BY <1>1, <1>2, <1>4, <1>7, <2>1 DEF AskedAt
<1>5. ASSUME NEW h \in handlers, ServedBy(h)
      PROVE  ServedBy(h)'
  BY <1>1, <1>2, <1>5, <1>7 DEF ServedBy
<1>6. ASSUME NEW k \in 1..Len(outbox), AnsweredAt(k)
      PROVE  AnsweredAt(k)'
  BY <1>1, <1>2, <1>6, <1>7 DEF AnsweredAt
<1> QED
  BY <1>3, <1>4, <1>5, <1>6 DEF Phase

(* A cancellation is sent, for a decision that is dropped.                  *)
LEMMA CancelPosted ==
    ASSUME Phase, inbox \in Seq(Questions), StillExpected,
           inbox' = Append(inbox, [type |-> "cancel", id |-> 0]),
           UNCHANGED <<owner, worker, handlers, session, outbox>>,
           client = "page" => page.ready /\ page.pending.id \in dropped'
    PROVE  Phase' /\ (Quiet => Quiet') /\ inbox' \in Seq(Questions)
<1>1. /\ client' = client /\ \A type, id : Expected(type, id) => Expected(type, id)'
      /\ dropped \subseteq dropped'
      /\ client = "page" /\ page'.ready => page.ready
  BY DEF StillExpected
<1>2. PICK n \in Nat : n = Len(inbox)
  BY LenProperties
<1> DEFINE m == [type |-> "cancel", id |-> 0]
<1>3. m \in Questions /\ m.type = "cancel"
  BY DEF Questions
<1> HIDE DEF m
<1>4. /\ inbox' \in Seq(Questions) /\ inbox'[n + 1] = m /\ Len(inbox') = n + 1
      /\ \A k \in 1..Len(inbox) : inbox'[k] = inbox[k] /\ k \in 1..Len(inbox')
      /\ \A k \in 1..Len(inbox') : k = n + 1 \/ k \in 1..Len(inbox)
  BY <1>2, <1>3, AppendIs DEF m
<1>5. /\ Still' <=> Still
      /\ Usable' <=> Usable
      /\ NoAnswer' <=> NoAnswer
      /\ NoQuestion => NoQuestion'
  BY <1>3, <1>4 DEF Still, Usable, NoAnswer, NoQuestion
<1>6. Quiet => Quiet'
  BY <1>5 DEF Quiet
<1>7. ASSUME NEW k \in 1..Len(inbox), AskedAt(k)
      PROVE  AskedAt(k)' /\ k \in 1..Len(inbox')
  <2>1. inbox'[k] = inbox[k] /\ k \in 1..Len(inbox')
    BY <1>4, <1>7
  <2>2. Expected(inbox[k].type, inbox[k].id)'
    <3>1. PICK type, id : type = inbox[k].type /\ id = inbox[k].id
      OBVIOUS
    <3>2. Expected(type, id)'
      BY <1>1, <1>7, <3>1 DEF AskedAt
    <3>3. inbox'[k].type = type /\ inbox'[k].id = id
      BY <2>1, <3>1
    <3> QED
      BY <3>2, <3>3 DEF Expected
  <2>3. \A j \in 1..Len(inbox') : j # k => inbox'[j].type = "cancel"
    BY <1>3, <1>4, <1>7 DEF AskedAt
  <2>4. client = "page" /\ inbox[k].type = "decide" => inbox[k].id \in dropped'
    BY <1>7 DEF AskedAt, Expected
  <2> QED
    BY <1>1, <1>5, <1>7, <2>1, <2>2, <2>3, <2>4 DEF AskedAt
<1>8. ASSUME NEW h \in handlers, ServedBy(h)
      PROVE  ServedBy(h)'
  <2>1. client = "page" /\ h.type = "decide" => h.id \in dropped'
    BY <1>8 DEF ServedBy, Expected
  <2>2. Expected(h.type, h.id)'
    BY <1>1, <1>8 DEF ServedBy
  <2> QED
    BY <1>1, <1>5, <1>8, <2>1, <2>2 DEF ServedBy
<1>9. ASSUME NEW k \in 1..Len(outbox), AnsweredAt(k)
      PROVE  AnsweredAt(k)'
  BY <1>1, <1>5, <1>9 DEF AnsweredAt
<1> QED
  BY <1>4, <1>6, <1>7, <1>8, <1>9 DEF Phase

(* The client takes the answer it waits for.                                *)
LEMMA AnswerTaken ==
    ASSUME Phase, outbox \in Seq(Answers), outbox # <<>>, Head(outbox).owner = owner,
           outbox' = Tail(outbox), UNCHANGED <<owner, worker, handlers, session, inbox>>
    PROVE  /\ AnsweredAt(1) /\ ~Quiet /\ Head(outbox) = outbox[1] /\ outbox[1] \in Answers
           /\ Phase' /\ Quiet'
<1>1. /\ 1 \in 1..Len(outbox) /\ Head(outbox) = outbox[1] /\ outbox[1] \in Answers
      /\ \A k \in 1..Len(outbox') :
            k + 1 \in 1..Len(outbox) /\ k + 1 # 1 /\ outbox'[k] = outbox[k + 1]
  BY TailIs
<1>2. AnsweredAt(1) /\ ~Quiet
  BY <1>1, AnswerHeard
<1>3. Still' /\ NoQuestion'
  BY <1>2 DEF AnsweredAt, Still, NoQuestion
<1>4. NoAnswer'
  BY <1>1, <1>2 DEF AnsweredAt, NoAnswer
<1> QED
  BY <1>1, <1>2, <1>3, <1>4 DEF Phase, Quiet

(* What the answers say does not change when the first one is taken.        *)
LEMMA AnswersTaken ==
    ASSUME AnswersOk, outbox \in Seq(Answers), outbox # <<>>, outbox' = Tail(outbox),
           UNCHANGED <<owner, server, client, workers>>, dropped \subseteq dropped'
    PROVE  AnswersOk' /\ outbox' \in Seq(Answers)
<1>1. /\ outbox' \in Seq(Answers)
      /\ \A k \in 1..Len(outbox') : k + 1 \in 1..Len(outbox) /\ outbox'[k] = outbox[k + 1]
  BY TailIs
<1> QED
  BY <1>1 DEF AnswersOk

-----------------------------------------------------------------------------
(* The benchmark.                                                           *)

\* What a step of the benchmark leaves alone.
PageWaits == client = "harness" /\ UNCHANGED <<pageVars, client>>

(* What is left to show of a step of the benchmark.                         *)
LEMMA HarnessKept ==
    ASSUME Inv, PageWaits, Phase', owner' \in Nat, worker' \in WorkerFlags, session' \in Sessions,
           SoundSession(session'), inbox' \in Seq(Questions), outbox' \in Seq(Answers),
           calls' \in Nat, AnswersOk', HarnessOk'
    PROVE  Inv'
<1>1. Typed'
  BY DEF Inv, Typed, PageWaits, pageVars
<1>2. PageOk'
  BY DEF PageOk, PageWaits
<1> QED
  BY <1>1, <1>2 DEF Inv

(* The benchmark loads the model.                                           *)
LEMMA OpenedKeeps ==
    ASSUME Inv, Opened, PageWaits
    PROVE  Inv'
<1>1. /\ rpc = "new" /\ rpc' = "load" /\ owner' = 1 /\ worker' = Fresh /\ handlers' = {}
      /\ session' = NoSession /\ inbox' = <<[type |-> "load", id |-> 0]>>
      /\ UNCHANGED <<outbox, calls, server>> /\ client = "harness" /\ client' = client
  BY DEF Opened, Restart, PageWaits
<1>2. owner = 0 /\ NoAnswer
  BY <1>1 DEF Inv, HarnessOk, Quiet
<1>3. \A k \in 1..Len(outbox) : FALSE
  BY <1>1, <1>2 DEF Inv, AnswersOk, NoAnswer
<1>4. NoAnswer' /\ AnswersOk'
  BY <1>1, <1>3 DEF NoAnswer, AnswersOk
<1>5. Expected("load", 0)'
  BY <1>1 DEF Expected
<1>6. /\ Phase' /\ inbox' \in Seq(Questions) /\ worker' \in WorkerFlags
      /\ session' \in Sessions /\ SoundSession(session')
  BY <1>1, <1>4, <1>5, LoadPosted
<1>7. HarnessOk'
  BY <1>1 DEF HarnessOk
<1>8. owner' \in Nat /\ outbox' \in Seq(Answers) /\ calls' \in Nat
  BY <1>1 DEF Inv, Typed
<1> QED
  BY <1>4, <1>6, <1>7, <1>8, HarnessKept

(* It makes a call of the idle worker.                                      *)
LEMMA CalledKeeps ==
    ASSUME Inv, NEW type \in {"decide", "prepare", "tune"}, Called(type), PageWaits
    PROVE  Inv'
<1>1. /\ rpc = "idle" /\ rpc' = type /\ calls \in Nat /\ calls' = calls + 1
      /\ inbox' = Append(inbox, [type |-> type, id |-> calls'])
      /\ UNCHANGED <<owner, worker, handlers, session, outbox, server>>
      /\ client = "harness" /\ client' = client /\ inbox \in Seq(Questions)
  BY DEF Called, Post, HarnessOnly, PageWaits, Inv, Typed
<1>2. Quiet /\ Usable /\ owner = 1
  BY <1>1 DEF Inv, HarnessOk
<1>3. PICK id \in Nat : id = calls'
  BY <1>1
<1>4. Expected(type, id)'
  BY <1>1 DEF Expected
<1>5. Phase' /\ inbox' \in Seq(Questions)
  BY <1>1, <1>2, <1>3, <1>4, Posted
<1>6. AnswersOk' /\ HarnessOk'
  BY <1>1, <1>2 DEF Inv, AnswersOk, HarnessOk, PageWaits, pageVars
<1>7. /\ owner' \in Nat /\ outbox' \in Seq(Answers) /\ calls' \in Nat /\ worker' \in WorkerFlags
      /\ session' \in Sessions /\ SoundSession(session')
  BY <1>1 DEF Inv, Typed
<1> QED
  BY <1>5, <1>6, <1>7, HarnessKept

(* It cancels the decision it waits for.                                    *)
LEMMA CallCancelledKeeps ==
    ASSUME Inv, CallCancelled, PageWaits
    PROVE  Inv'
<1>1. /\ rpc = "decide" /\ rpc' = "cancel" /\ inbox' = Append(inbox, [type |-> "cancel", id |-> 0])
      /\ UNCHANGED <<owner, calls, worker, handlers, session, outbox, server, page, dropped>>
      /\ client = "harness" /\ client' = client /\ inbox \in Seq(Questions) /\ Phase
  BY DEF CallCancelled, Post, HarnessOnly, PageWaits, pageVars, Inv, Typed
<1>2. StillExpected
  BY <1>1 DEF StillExpected, Expected
<1>3. Phase' /\ inbox' \in Seq(Questions)
  BY <1>1, <1>2, CancelPosted
<1>4. AnswersOk' /\ HarnessOk'
  BY <1>1 DEF Inv, AnswersOk, HarnessOk
<1>5. /\ owner' \in Nat /\ outbox' \in Seq(Answers) /\ calls' \in Nat /\ worker' \in WorkerFlags
      /\ session' \in Sessions /\ SoundSession(session')
  BY <1>1 DEF Inv, Typed
<1> QED
  BY <1>3, <1>4, <1>5, HarnessKept

(* It hears the answer to its call, and ends if that is an error it does    *)
(* not expect.                                                              *)
LEMMA CallEndsKeeps ==
    ASSUME Inv, CallEnds, PageWaits
    PROVE  Inv'
<1>1. /\ outbox # <<>> /\ rpc \notin {"new", "idle", "over"} /\ calls' = calls
      /\ client = "harness" /\ client' = client /\ workers' = workers /\ dropped' = dropped
      /\ Phase /\ outbox \in Seq(Answers)
  BY DEF CallEnds, PageWaits, pageVars, Inv, Typed
<1>2. owner = 1 /\ Head(outbox) = outbox[1] /\ outbox[1].owner = owner
  <2>1. 1 \in 1..Len(outbox) /\ Head(outbox) = outbox[1]
    BY <1>1, TailIs
  <2> QED
    BY <1>1, <2>1 DEF Inv, AnswersOk, HarnessOk
<1>3. CASE outbox[1].type = "error" /\ ~Survives(outbox[1])
  <2>1. /\ rpc' = "over" /\ outbox' = <<>> /\ inbox' = <<>> /\ owner' = 0 /\ worker' = Fresh
        /\ handlers' = {} /\ session' = NoSession
    BY <1>2, <1>3 DEF CallEnds, Restart
  <2>2. NoAnswer' /\ AnswersOk' /\ outbox' \in Seq(Answers)
    BY <2>1 DEF NoAnswer, AnswersOk
  <2>3. /\ Phase' /\ Quiet' /\ inbox' \in Seq(Questions) /\ worker' \in WorkerFlags
        /\ session' \in Sessions /\ SoundSession(session')
    BY <2>1, <2>2, WorkerGone
  <2>4. HarnessOk'
    BY <2>1, <2>3 DEF HarnessOk
  <2>5. owner' \in Nat /\ calls' \in Nat
    BY <1>1, <2>1 DEF Inv, Typed
  <2> QED
    BY <2>2, <2>3, <2>4, <2>5, HarnessKept
<1>4. CASE ~(outbox[1].type = "error" /\ ~Survives(outbox[1]))
  <2>1. /\ rpc' = "idle" /\ outbox' = Tail(outbox)
        /\ UNCHANGED <<owner, worker, handlers, session, inbox, server>>
    BY <1>2, <1>4 DEF CallEnds
  <2>2. AnsweredAt(1) /\ Phase' /\ Quiet'
    BY <1>1, <1>2, <2>1, AnswerTaken
  <2>3. Usable'
    <3>1. outbox[1].type # "error" \/ outbox[1].why \in {"request", "rejected"}
      BY <1>4 DEF Survives
    <3>2. Usable
      BY <2>2, <3>1 DEF AnsweredAt
    <3> QED
      BY <2>1, <3>2 DEF Usable
  <2>4. AnswersOk' /\ outbox' \in Seq(Answers)
    BY <1>1, <2>1, AnswersTaken DEF Inv
  <2>5. HarnessOk'
    BY <1>2, <2>1, <2>2, <2>3 DEF HarnessOk
  <2>6. /\ owner' \in Nat /\ calls' \in Nat /\ worker' \in WorkerFlags
        /\ inbox' \in Seq(Questions) /\ session' \in Sessions /\ SoundSession(session')
    BY <1>1, <2>1 DEF Inv, Typed
  <2> QED
    BY <2>2, <2>4, <2>5, <2>6, HarnessKept
<1> QED
  BY <1>3, <1>4

(* Every step of the benchmark.                                             *)
LEMMA HarnessKeeps ==
    ASSUME Inv, client = "harness", HarnessStep, UNCHANGED <<pageVars, client>>
    PROVE  Inv'
<1>1. PageWaits
  BY DEF PageWaits
<1> QED
  BY <1>1, OpenedKeeps, CalledKeeps, CallCancelledKeeps, CallEndsKeeps DEF HarnessStep

-----------------------------------------------------------------------------
(* The page's own functions.                                                *)

(* Its fields.                                                              *)
LEMMA PageFields ==
    ASSUME NEW p \in Pages
    PROVE  /\ p.revision \in Nat /\ p.revision + 1 \in Nat /\ p.game \in BOOLEAN /\ p.over \in BOOLEAN
           /\ p.ready \in BOOLEAN /\ p.busy \in BOOLEAN /\ p.pending \in Jobs
           /\ p.auto \in BOOLEAN /\ p.timer \in BOOLEAN
           /\ p.remaining \in Int /\ p.remaining - 1 \in Int
BY DEF Pages

(* No job.                                                                  *)
LEMMA NoJobIs ==
    /\ NoJob \in Jobs /\ ~NoJob.auto /\ ~NoJob.discard /\ ~NoJob.apply /\ NoJob.id = 0
BY DEF NoJob, Jobs

(* What the page's handlers assign keeps its type.                          *)
LEMMA PagesClosed ==
    ASSUME NEW p \in Pages
    PROVE  /\ [p EXCEPT !.auto = FALSE, !.timer = FALSE] \in Pages
           /\ [p EXCEPT !.busy = TRUE] \in Pages
           /\ [p EXCEPT !.timer = FALSE] \in Pages
           /\ [p EXCEPT !.ready = TRUE, !.busy = FALSE] \in Pages
           /\ \A r \in Int : /\ [p EXCEPT !.remaining = r, !.timer = TRUE] \in Pages
                             /\ [p EXCEPT !.auto = TRUE, !.remaining = r] \in Pages
BY DEF Pages

(* So does a change of the scene.                                           *)
LEMMA SceneClosed ==
    ASSUME NEW p \in Pages, NEW n \in Nat, NEW b \in BOOLEAN
    PROVE  /\ [p EXCEPT !.revision = n, !.over = b] \in Pages
           /\ [p EXCEPT !.revision = n, !.game = b, !.over = FALSE] \in Pages
BY DEF Pages

(* And another job.                                                         *)
LEMMA JobClosed ==
    ASSUME NEW p \in Pages, NEW j \in Jobs
    PROVE  /\ [p EXCEPT !.busy = TRUE, !.pending = j] \in Pages
           /\ [p EXCEPT !.pending = j] \in Pages
           /\ [p EXCEPT !.pending = j, !.busy = FALSE] \in Pages
           /\ [p EXCEPT !.pending = j, !.ready = FALSE, !.busy = FALSE] \in Pages
           /\ [p EXCEPT !.pending = j, !.busy = FALSE, !.ready = FALSE] \in Pages
BY DEF Pages

(* The loop of autoplay, by its timer.                                      *)
LEMMA LoopIs ==
    ASSUME NEW p \in Pages
    PROVE  LoopOk(p) <=>
             /\ p.timer => p.auto /\ ~(p.pending.auto /\ ~p.pending.discard)
             /\ ~p.timer => (p.auto <=> p.pending.auto /\ ~p.pending.discard)
<1>1. p.auto \in BOOLEAN /\ p.timer \in BOOLEAN
  BY PageFields
<1>2. CASE p.timer
  BY <1>1, <1>2 DEF LoopOk
<1>3. CASE ~p.timer
  BY <1>1, <1>3 DEF LoopOk
<1> QED
  BY <1>2, <1>3

\* Two states of the page between which only its autoplay differs, or its scene.
SamePage(p, q) ==
    /\ q \in Pages /\ q.revision = p.revision /\ q.ready = p.ready /\ q.busy = p.busy
    /\ q.pending = p.pending

(* stopAuto.                                                                *)
LEMMA StoppedIs ==
    ASSUME NEW p \in Pages
    PROVE  SamePage(p, Stopped(p)) /\ ~Stopped(p).auto /\ ~Stopped(p).timer
<1>1. Stopped(p) = [p EXCEPT !.auto = FALSE, !.timer = FALSE]
  BY DEF Stopped
<1>2. Stopped(p) \in Pages
  BY <1>1, PagesClosed
<1>3. /\ ~Stopped(p).auto /\ ~Stopped(p).timer /\ Stopped(p).revision = p.revision
      /\ Stopped(p).ready = p.ready /\ Stopped(p).busy = p.busy /\ Stopped(p).pending = p.pending
  BY DEF Stopped, Pages
<1> QED
  BY <1>2, <1>3 DEF SamePage

(* A job of autoplay that is over starts its timer or ends it.              *)
LEMMA ResolvedIs ==
    ASSUME NEW p \in Pages, NEW job, NEW moved
    PROVE  LET q == Resolved(p, job, moved) IN
           /\ SamePage(p, q)
           /\ IF job.auto /\ p.auto THEN q.auto <=> q.timer
                                    ELSE q.auto = p.auto /\ q.timer = p.timer
           /\ job.auto /\ p.auto /\ ~moved => ~q.auto /\ ~q.timer
<1> DEFINE c == [p EXCEPT !.remaining = p.remaining - 1, !.timer = TRUE]
<1>1. Resolved(p, job, moved) \in {p, c, Stopped(p)}
  BY DEF Resolved, Continued
<1>2. /\ ~job.auto \/ ~p.auto => Resolved(p, job, moved) = p
      /\ job.auto /\ p.auto /\ ~moved => Resolved(p, job, moved) = Stopped(p)
      /\ job.auto /\ p.auto => Resolved(p, job, moved) \in {c, Stopped(p)}
  BY DEF Resolved, Continued
<1>3. c \in Pages
  BY PageFields, PagesClosed
<1>4. /\ c.revision = p.revision /\ c.ready = p.ready /\ c.busy = p.busy /\ c.pending = p.pending
      /\ c.auto = p.auto /\ c.timer
  BY DEF Pages
<1> HIDE DEF c
<1>5. SamePage(p, c) /\ SamePage(p, p)
  BY <1>3, <1>4 DEF SamePage
<1>6. p.auto \in BOOLEAN
  BY PageFields
<1> QED
  BY <1>1, <1>2, <1>4, <1>5, <1>6, StoppedIs

-----------------------------------------------------------------------------
(* The page.                                                                *)

\* What a step of the page leaves alone.
HarnessWaits == client = "page" /\ UNCHANGED <<harnessVars, client>>

(* What is left to show of a step of the page.                              *)
LEMMA PageKept ==
    ASSUME Inv, HarnessWaits, Phase', owner' \in Nat, worker' \in WorkerFlags, session' \in Sessions,
           SoundSession(session'), inbox' \in Seq(Questions), outbox' \in Seq(Answers),
           page' \in Pages, nextId' \in Nat, workers' \in Nat,
           dropped' \subseteq 1..nextId', applied' \in Seq(1..nextId'), AnswersOk', PageOk'
    PROVE  Inv'
<1>1. Typed'
  BY DEF Inv, Typed, HarnessWaits, harnessVars
<1>2. HarnessOk'
  BY DEF HarnessOk, HarnessWaits
<1> QED
  BY <1>1, <1>2 DEF Inv

(* A step that concerns the scene and autoplay only.                        *)
LEMMA PageLocal ==
    ASSUME Inv, HarnessWaits,
           UNCHANGED <<owner, worker, handlers, session, inbox, outbox, server, nextId, workers,
                       dropped, applied>>,
           page' \in Pages, page'.ready = page.ready, page'.busy = page.busy,
           page'.pending = page.pending, LoopOk(page')
    PROVE  Inv'
<1>1. client = "page" /\ client' = client /\ UNCHANGED <<rpc, calls>>
  BY DEF HarnessWaits, harnessVars
<1>2. StillExpected
  BY <1>1 DEF StillExpected, Expected
<1>3. Phase' /\ (Quiet => Quiet')
  BY <1>2, PhaseKept DEF Inv
<1>4. Usable' <=> Usable
  BY DEF Usable
<1>5. JobOk'
  BY <1>1 DEF Inv, PageOk, JobOk
<1>6. PageOk'
  BY <1>1, <1>3, <1>4, <1>5 DEF Inv, PageOk
<1>7. AnswersOk'
  BY <1>1 DEF Inv, AnswersOk
<1> QED
  BY <1>3, <1>6, <1>7, PageKept DEF Inv, Typed

(* The page asks for a decision, or cannot.                                 *)
LEMMA AskedKeeps ==
    ASSUME Inv, HarnessWaits, NEW p \in Pages, p.ready = page.ready, p.busy = page.busy,
           p.pending = page.pending, NEW apply \in BOOLEAN, NEW auto \in BOOLEAN,
           Asked(p, apply, auto), UNCHANGED <<owner, worker, outbox, workers, dropped, applied>>,
           UserOnly, ~p.timer, p.auto <=> auto, ~(p.pending.auto /\ ~p.pending.discard)
    PROVE  Inv' /\ page'.revision = p.revision
<1>1. /\ client = "page" /\ client' = client /\ UNCHANGED <<rpc, calls>>
      /\ UNCHANGED <<owner, worker, handlers, session, outbox, server, workers, dropped, applied>>
  BY DEF HarnessWaits, harnessVars, UserOnly
<1>2. CASE ~p.ready \/ p.busy \/ p.pending # NoJob
  <2>1. PICK job : job = [NoJob EXCEPT !.auto = auto]
    OBVIOUS
  <2>2. page' = Resolved(p, job, FALSE) /\ UNCHANGED <<nextId, inbox>>
    BY <1>2, <2>1 DEF Asked
  <2>3. job.auto <=> auto
    BY <2>1 DEF NoJob
  <2>4. SamePage(p, page') /\ ~page'.auto /\ ~page'.timer
    <3> DEFINE q == Resolved(p, job, FALSE)
    <3>3. /\ SamePage(p, q)
          /\ ~(job.auto /\ p.auto) => q.auto = p.auto /\ q.timer = p.timer
          /\ job.auto /\ p.auto => ~q.auto /\ ~q.timer
      BY ResolvedIs
    <3>4. page' = q
      BY <2>2
    <3> HIDE DEF q
    <3>1. CASE auto
      <4>1. job.auto /\ p.auto
        BY <2>3, <3>1
      <4> QED
        BY <3>3, <3>4, <4>1
    <3>2. CASE ~auto
      <4>1. ~job.auto /\ ~p.auto
        BY <2>3, <3>2
      <4> QED
        BY <3>3, <3>4, <4>1
    <3> QED
      BY <3>1, <3>2
  <2>5. /\ page' \in Pages /\ page'.ready = page.ready /\ page'.busy = page.busy
        /\ page'.pending = page.pending /\ page'.revision = p.revision
    BY <2>4 DEF SamePage
  <2>6. LoopOk(page')
    BY <2>4, <2>5, LoopIs
  <2> QED
    BY <1>1, <2>2, <2>5, <2>6, PageLocal
<1>3. CASE ~(~p.ready \/ p.busy \/ p.pending # NoJob)
  <2>1. PICK id \in Nat : id = nextId + 1
    BY DEF Inv, Typed
  <2> DEFINE j == [id |-> id, revision |-> p.revision, apply |-> apply, discard |-> FALSE,
                   auto |-> auto]
  <2>2. /\ nextId' = id /\ page' = [p EXCEPT !.busy = TRUE, !.pending = j]
        /\ inbox' = Append(inbox, [type |-> "decide", id |-> id])
    BY <1>3, <2>1 DEF Asked, Post
  <2>3. j \in Jobs /\ j.id = id /\ ~j.discard /\ j.auto = auto
    BY PageFields DEF Jobs
  <2> HIDE DEF j
  <2>4. page' \in Pages
    BY <2>2, <2>3, JobClosed
  <2>5. /\ page'.ready /\ page'.busy /\ page'.pending = j /\ page'.auto = p.auto
        /\ ~page'.timer /\ page'.revision = p.revision
    BY <1>3, <2>2 DEF Pages
  <2>6. Quiet /\ Usable /\ inbox \in Seq(Questions)
    BY <1>1, <1>3 DEF Inv, PageOk, Typed
  <2>7. Expected("decide", id)'
    BY <1>1, <2>3, <2>5 DEF Expected
  <2>8. Phase' /\ inbox' \in Seq(Questions)
    BY <1>1, <2>2, <2>6, <2>7, Posted
  <2>9. /\ nextId \in Nat /\ 1..nextId \subseteq 1..id /\ id \notin 1..nextId /\ id # 0
        /\ dropped \subseteq 1..nextId /\ applied \in Seq(1..nextId)
    BY <2>1 DEF Inv, Typed
  <2>10. \A k \in 1..Len(applied) : applied[k] # id
    <3>1. \A k \in 1..Len(applied) : applied[k] \in 1..nextId
      BY <2>9, ElementOfSeq
    <3> QED
      BY <2>9, <3>1
  <2>11. applied' \in Seq(1..nextId') /\ dropped' \subseteq 1..nextId'
    <3>1. applied \in Seq(1..id)
      BY <2>9, SeqMonotonic
    <3> QED
      BY <1>1, <2>2, <2>9, <3>1
  <2>12. JobOk' /\ LoopOk(page')
    <3>1. JobOk'
      BY <1>1, <2>2, <2>3, <2>5, <2>9, <2>10 DEF JobOk
    <3>2. LoopOk(page')
      BY <2>3, <2>4, <2>5, LoopIs
    <3> QED
      BY <3>1, <3>2
  <2>13. Usable'
    BY <1>1, <2>6 DEF Usable
  <2>14. page'.pending # NoJob
    BY <2>3, <2>5, <2>9, NoJobIs
  <2>15. owner' \in {0, workers'} /\ owner' # 0
    BY <1>1, <1>3 DEF Inv, PageOk
  <2>16. PageOk'
    BY <2>12, <2>13, <2>14, <2>15 DEF PageOk
  <2>17. AnswersOk'
    BY <1>1 DEF Inv, AnswersOk
  <2> QED
    BY <1>1, <2>2, <2>4, <2>5, <2>8, <2>11, <2>16, <2>17, PageKept DEF Inv, Typed
<1> QED
  BY <1>2, <1>3

-----------------------------------------------------------------------------
(* The user's steps.                                                        *)

\* What DroppedIsNotApplied says of one step.
MoveIsWanted ==
    /\ applied' # applied =>
         LET id == applied'[Len(applied')] IN
         id \notin dropped /\ \A i \in 1..Len(applied) : applied[i] # id
    /\ Pending /\ page'.pending = page.pending => page'.revision = page.revision

(* A step that applies nothing and leaves the scene.                        *)
LEMMA NothingMoved ==
    ASSUME applied' = applied, Pending => page'.revision = page.revision
    PROVE  MoveIsWanted
BY DEF MoveIsWanted

(* What is known of the page.                                               *)
LEMMA PageIs ==
    ASSUME Inv, client = "page"
    PROVE  /\ page \in Pages /\ LoopOk(page) /\ Phase /\ AnswersOk
           /\ owner \in {0, workers} /\ (owner = 0 => Quiet /\ ~page.ready)
           /\ page.ready => Usable
           /\ page.ready /\ page.pending = NoJob => Quiet
           /\ Pending => /\ page.ready /\ page.busy /\ page.pending.id = nextId /\ nextId # 0
                         /\ nextId \in dropped => page.pending.discard
                         /\ \A k \in 1..Len(applied) : applied[k] # nextId
           /\ Pending => nextId \in 1..nextId
           /\ ~Pending => page.pending = NoJob
<1>1. nextId \in Nat
  BY DEF Inv, Typed
<1> QED
  BY <1>1 DEF Inv, Typed, PageOk, JobOk, Pending

(* A loop that is on when no decision is wanted has a timer.                *)
LEMMA LoopOff ==
    ASSUME NEW p \in Pages, LoopOk(p)
    PROVE  /\ ~p.auto => ~p.timer /\ ~(p.pending.auto /\ ~p.pending.discard)
           /\ p.timer => p.auto /\ ~(p.pending.auto /\ ~p.pending.discard)
BY LoopIs

(* A model is loaded into a new worker.                                     *)
LEMMA LoadClickedKeeps ==
    ASSUME Inv, HarnessWaits, LoadClicked
    PROVE  Inv' /\ MoveIsWanted
<1>1. /\ client = "page" /\ client' = client /\ ~page.ready
      /\ page' = [page EXCEPT !.busy = TRUE] /\ workers' = workers + 1 /\ owner' = workers'
      /\ worker' = Fresh /\ handlers' = {} /\ session' = NoSession
      /\ inbox' = <<[type |-> "load", id |-> 0]>>
      /\ UNCHANGED <<server, nextId, dropped, applied, outbox>>
  BY DEF LoadClicked, Restart, HarnessWaits
<1>2. page \in Pages /\ workers \in Nat /\ outbox \in Seq(Answers)
  BY DEF Inv, Typed
<1>3. page' \in Pages
  BY <1>1, <1>2, PagesClosed
<1>4. ~page'.ready /\ SamePage([page EXCEPT !.busy = TRUE], page') /\ page'.pending = page.pending
      /\ page'.auto = page.auto /\ page'.timer = page.timer /\ page'.revision = page.revision
  BY <1>1, <1>2, <1>3 DEF SamePage, Pages
<1>5. ~Pending /\ LoopOk(page)
  BY <1>1, PageIs
<1>6. \A k \in 1..Len(outbox) : outbox[k].owner \in 1..workers
  BY <1>1 DEF Inv, AnswersOk
<1>7. NoAnswer' /\ AnswersOk'
  BY <1>1, <1>2, <1>6 DEF NoAnswer, AnswersOk, Inv
<1>8. Expected("load", 0)'
  BY <1>1, <1>4 DEF Expected
<1>9. /\ Phase' /\ inbox' \in Seq(Questions) /\ worker' \in WorkerFlags
      /\ session' \in Sessions /\ SoundSession(session')
  BY <1>1, <1>7, <1>8, LoadPosted
<1>10. LoopOk(page')
  BY <1>4, <1>5 DEF LoopOk
<1>11. PageOk'
  <2>1. JobOk'
    BY <1>4, <1>5 DEF JobOk, Pending
  <2>2. owner' \in {0, workers'} /\ owner' # 0
    BY <1>1, <1>2
  <2> QED
    BY <1>4, <1>10, <2>1, <2>2 DEF PageOk
<1>12. Inv'
  BY <1>1, <1>2, <1>3, <1>7, <1>9, <1>11, PageKept DEF Inv, Typed
<1> QED
  BY <1>1, <1>4, <1>12, NothingMoved

\* What the clicks that ask leave alone.
Asking == UNCHANGED <<owner, worker, outbox, workers, dropped, applied>> /\ UserOnly

(* A decision is asked for by its button.                                   *)
LEMMA RunClickedKeeps ==
    ASSUME Inv, HarnessWaits, RunClicked
    PROVE  Inv' /\ MoveIsWanted
<1>1. /\ client = "page" /\ ~page.auto /\ Asking /\ applied' = applied
      /\ \E apply \in BOOLEAN : Asked(page, apply, FALSE)
  <2>1. page.game \in BOOLEAN
    BY PageFields DEF Inv, Typed
  <2> QED
    BY <2>1 DEF RunClicked, HarnessWaits, Asking
<1>2. page \in Pages /\ ~page.timer /\ ~(page.pending.auto /\ ~page.pending.discard)
  BY <1>1, PageIs, LoopOff
<1>3. UNCHANGED <<owner, worker, outbox, workers, dropped, applied>> /\ UserOnly
  BY <1>1 DEF Asking
<1>4. PICK p \in Pages : p = page
  BY <1>2
<1>5. PICK apply \in BOOLEAN : Asked(p, apply, FALSE)
  BY <1>1, <1>4
<1>6. FALSE \in BOOLEAN /\ (p.auto <=> FALSE)
  BY <1>1, <1>4
<1>7. Inv' /\ page'.revision = page.revision
  BY <1>2, <1>3, <1>4, <1>5, <1>6, AskedKeeps
<1> QED
  BY <1>1, <1>7, NothingMoved

(* The loop of autoplay asks, or ends.                                      *)
LEMMA AutoStepKeeps ==
    ASSUME Inv, HarnessWaits, NEW p \in Pages, p.ready = page.ready, p.busy = page.busy,
           p.pending = page.pending, p.revision = page.revision, p.auto, ~p.timer,
           ~(p.pending.auto /\ ~p.pending.discard), AutoStep(p), Asking
    PROVE  Inv' /\ page'.revision = page.revision
<1>1. UNCHANGED <<owner, worker, outbox, workers, dropped, applied>> /\ UserOnly
  BY DEF Asking
<1>2. CASE page' = Stopped(p) /\ UNCHANGED <<nextId, inbox>>
  <2>1. SamePage(p, page') /\ ~page'.auto /\ ~page'.timer
    BY <1>2, StoppedIs
  <2>2. /\ page' \in Pages /\ page'.ready = page.ready /\ page'.busy = page.busy
        /\ page'.pending = page.pending /\ page'.revision = page.revision
    BY <2>1 DEF SamePage
  <2>3. LoopOk(page')
    BY <2>1, <2>2, LoopIs
  <2>4. UNCHANGED <<owner, worker, handlers, session, inbox, outbox, server, nextId, workers,
                    dropped, applied>>
    BY <1>1, <1>2 DEF UserOnly
  <2> QED
    BY <2>2, <2>3, <2>4, PageLocal
<1>3. CASE Asked(p, p.game, TRUE)
  <2>1. PICK apply \in BOOLEAN : apply = p.game
    BY PageFields
  <2>2. Asked(p, apply, TRUE) /\ TRUE \in BOOLEAN /\ (p.auto <=> TRUE)
    BY <1>3, <2>1
  <2> QED
    BY <1>1, <2>2, AskedKeeps
<1> QED
  BY <1>2, <1>3 DEF AutoStep

(* Autoplay starts.                                                         *)
LEMMA AutoplayClickedKeeps ==
    ASSUME Inv, HarnessWaits, AutoplayClicked
    PROVE  Inv' /\ MoveIsWanted
<1>1. /\ client = "page" /\ ~page.auto /\ Asking /\ applied' = applied
      /\ AutoStep([page EXCEPT !.auto = TRUE, !.remaining = Turns])
  BY DEF AutoplayClicked, HarnessWaits, Asking
<1>2. page \in Pages /\ ~page.timer /\ ~(page.pending.auto /\ ~page.pending.discard)
  BY <1>1, PageIs, LoopOff
<1>3. PICK p : p = [page EXCEPT !.auto = TRUE, !.remaining = Turns]
  OBVIOUS
<1>4. p \in Pages
  <2>1. Turns \in Int
    BY PageAssumption
  <2> QED
    BY <1>2, <1>3, <2>1, PagesClosed
<1>5. /\ p.ready = page.ready /\ p.busy = page.busy /\ p.pending = page.pending
      /\ p.revision = page.revision /\ p.auto /\ ~p.timer
  BY <1>2, <1>3 DEF Pages
<1>6. AutoStep(p) /\ ~(p.pending.auto /\ ~p.pending.discard)
  BY <1>1, <1>2, <1>3, <1>5
<1>7. Inv' /\ page'.revision = page.revision
  BY <1>1, <1>4, <1>5, <1>6, AutoStepKeeps
<1> QED
  BY <1>1, <1>7, NothingMoved

(* The timer of autoplay expires.                                           *)
LEMMA TimeoutKeeps ==
    ASSUME Inv, HarnessWaits, Timeout
    PROVE  Inv' /\ MoveIsWanted
<1>1. /\ client = "page" /\ page.timer /\ Asking /\ applied' = applied
      /\ AutoStep([page EXCEPT !.timer = FALSE])
  BY DEF Timeout, HarnessWaits, Asking
<1>2. page \in Pages /\ page.auto /\ ~(page.pending.auto /\ ~page.pending.discard)
  BY <1>1, PageIs, LoopOff
<1>3. PICK p : p = [page EXCEPT !.timer = FALSE]
  OBVIOUS
<1>4. p \in Pages
  BY <1>2, <1>3, PagesClosed
<1>5. /\ p.ready = page.ready /\ p.busy = page.busy /\ p.pending = page.pending
      /\ p.revision = page.revision /\ p.auto = page.auto /\ ~p.timer
  BY <1>2, <1>3 DEF Pages
<1>6. AutoStep(p) /\ ~(p.pending.auto /\ ~p.pending.discard)
  BY <1>1, <1>2, <1>3, <1>5
<1>7. Inv' /\ page'.revision = page.revision
  BY <1>1, <1>2, <1>4, <1>5, <1>6, AutoStepKeeps
<1> QED
  BY <1>1, <1>7, NothingMoved

(* The user edits the scene, chooses another demo or clears the cache.      *)
LEMMA SceneKeeps ==
    ASSUME Inv, HarnessWaits, Edited \/ DemoSelected \/ CacheCleared
    PROVE  Inv' /\ MoveIsWanted
<1>1. /\ ~Pending \/ page' = page
      /\ UNCHANGED <<owner, worker, handlers, session, inbox, outbox, server, nextId, workers,
                     dropped, applied>>
      /\ \/ page' = page
         \/ \E over \in BOOLEAN : page' = [page EXCEPT !.revision = page.revision + 1, !.over = over]
         \/ page' = [page EXCEPT !.revision = page.revision + 1, !.game = ~page.game, !.over = FALSE]
  <2>1. CASE Edited
    BY <2>1, PageIs DEF Edited, UserOnly, pageVars, HarnessWaits
  <2>2. CASE DemoSelected
    BY <2>2, PageIs DEF DemoSelected, UserOnly, pageVars, HarnessWaits
  <2>3. CASE CacheCleared
    BY <2>3, PageIs DEF CacheCleared, UserOnly, pageVars, HarnessWaits
  <2> QED BY <2>1, <2>2, <2>3
<1>2. page \in Pages /\ LoopOk(page)
  BY PageIs DEF HarnessWaits
<1>3. page.revision + 1 \in Nat /\ (~page.game) \in BOOLEAN
  BY <1>2, PageFields
<1>4. page' \in Pages
  <2> DEFINE n == page.revision + 1
             g == ~page.game
  <2>1. n \in Nat /\ g \in BOOLEAN /\ page \in Pages
    BY <1>2, <1>3
  <2>2. \/ page' = page
        \/ \E over \in BOOLEAN : page' = [page EXCEPT !.revision = n, !.over = over]
        \/ page' = [page EXCEPT !.revision = n, !.game = g, !.over = FALSE]
    BY <1>1
  <2> HIDE DEF n, g
  <2>3. [page EXCEPT !.revision = n, !.game = g, !.over = FALSE] \in Pages
    BY <2>1, SceneClosed
  <2>4. \A over \in BOOLEAN : [page EXCEPT !.revision = n, !.over = over] \in Pages
    BY <2>1, SceneClosed
  <2> QED BY <2>1, <2>2, <2>3, <2>4
<1>5. /\ page'.ready = page.ready /\ page'.busy = page.busy /\ page'.pending = page.pending
      /\ page'.auto = page.auto /\ page'.timer = page.timer
  BY <1>1, <1>2 DEF Pages
<1>6. LoopOk(page')
  BY <1>2, <1>5 DEF LoopOk
<1>7. Inv'
  BY <1>1, <1>4, <1>5, <1>6, PageLocal
<1>8. Pending => page'.revision = page.revision
  BY <1>1
<1> QED
  BY <1>1, <1>7, <1>8, NothingMoved

(* The job of a page is over: its loop starts its timer, or ends, if it is  *)
(* on.                                                                      *)
LEMMA JobResolved ==
    ASSUME NEW p \in Pages, LoopOk(p), NEW q \in Pages, q.pending = NoJob,
           (q.auto = p.auto /\ q.timer = p.timer) \/ (~q.auto /\ ~q.timer), NEW moved
    PROVE  LET r == Resolved(q, p.pending, moved) IN SamePage(q, r) /\ LoopOk(r)
<1> DEFINE r == Resolved(q, p.pending, moved)
<1>1. /\ SamePage(q, r)
      /\ IF p.pending.auto /\ q.auto THEN r.auto <=> r.timer
                                     ELSE r.auto = q.auto /\ r.timer = q.timer
  BY ResolvedIs
<1> HIDE DEF r
<1>2. r \in Pages /\ r.pending = NoJob
  BY <1>1 DEF SamePage
<1>3. /\ p.timer => p.auto
      /\ p.auto /\ ~p.pending.auto => p.timer
  BY LoopIs
<1>4. r.auto <=> r.timer
  BY <1>1, <1>3
<1>5. LoopOk(r)
  BY <1>2, <1>4, NoJobIs, LoopIs
<1> QED
  BY <1>1, <1>5 DEF r

(* The user cancels the decision, or pauses autoplay.                       *)
LEMMA CancelClickedKeeps ==
    ASSUME Inv, HarnessWaits, CancelClicked
    PROVE  Inv' /\ MoveIsWanted
<1>1. /\ client = "page" /\ client' = client /\ applied' = applied
      /\ UNCHANGED <<owner, worker, handlers, session, outbox, server, nextId, workers, applied>>
      /\ page \in Pages /\ inbox \in Seq(Questions) /\ nextId \in Nat /\ dropped \subseteq 1..nextId
  BY DEF CancelClicked, UserOnly, HarnessWaits, Inv, Typed
<1>2. Phase /\ LoopOk(page) /\ AnswersOk
  BY <1>1, PageIs
<1>3. CASE ~Pending
  <2>1. page' = Stopped(page) /\ UNCHANGED <<inbox, dropped>> /\ page.pending = NoJob
    BY <1>3 DEF CancelClicked, Pending
  <2>2. SamePage(page, page') /\ ~page'.auto /\ ~page'.timer
    BY <1>1, <2>1, StoppedIs
  <2>3. /\ page' \in Pages /\ page'.ready = page.ready /\ page'.busy = page.busy
        /\ page'.pending = page.pending /\ page'.revision = page.revision
    BY <2>2 DEF SamePage
  <2>4. LoopOk(page')
    BY <2>1, <2>2, <2>3, NoJobIs, LoopIs
  <2>5. Inv'
    BY <1>1, <2>1, <2>3, <2>4, PageLocal
  <2> QED
    BY <1>1, <2>3, <2>5, NothingMoved
<1>4. CASE Pending
  <2> DEFINE s == Stopped(page)
             j == [page.pending EXCEPT !.discard = TRUE]
  <2>1. /\ page' = [Stopped(page) EXCEPT !.pending.discard = TRUE]
        /\ inbox' = Append(inbox, [type |-> "cancel", id |-> 0])
        /\ dropped' = dropped \cup {page.pending.id}
    BY <1>4 DEF CancelClicked, Post
  <2>2. /\ page.ready /\ page.busy /\ page.pending.id = nextId /\ nextId # 0
        /\ nextId \in 1..nextId /\ page.pending # NoJob
        /\ \A k \in 1..Len(applied) : applied[k] # nextId
    BY <1>1, <1>4, PageIs DEF Pending
  <2>3. SamePage(page, s) /\ ~s.auto /\ ~s.timer
    BY <1>1, StoppedIs
  <2>4. s \in Pages /\ s.pending = page.pending /\ s.ready = page.ready /\ s.busy = page.busy
        /\ s.revision = page.revision /\ page.pending \in Jobs
    BY <1>1, <2>3, PageFields DEF SamePage
  <2>5. j \in Jobs /\ j.discard /\ j.id = page.pending.id
    BY <2>4 DEF Jobs
  <2> HIDE DEF s
  <2>6. page' = [s EXCEPT !.pending = j]
    BY <2>1, <2>4 DEF s
  <2> HIDE DEF j
  <2>7. page' \in Pages
    BY <2>4, <2>5, <2>6, JobClosed
  <2>8. /\ page'.ready /\ page'.busy /\ page'.pending = j /\ ~page'.auto /\ ~page'.timer
        /\ page'.revision = page.revision
    BY <2>2, <2>3, <2>4, <2>6 DEF Pages
  <2>9. StillExpected
    BY <1>1, <2>1, <2>2, <2>5, <2>8 DEF StillExpected, Expected, HarnessWaits, harnessVars
  <2>10. Phase' /\ (Quiet => Quiet') /\ inbox' \in Seq(Questions)
    BY <1>1, <1>2, <2>1, <2>2, <2>9, CancelPosted
  <2>11. j # NoJob
    BY <2>5, NoJobIs
  <2>12. JobOk' /\ LoopOk(page')
    <3>1. JobOk'
      BY <1>1, <2>2, <2>5, <2>8 DEF JobOk
    <3>2. LoopOk(page')
      BY <2>5, <2>7, <2>8, LoopIs
    <3> QED
      BY <3>1, <3>2
  <2>13. Usable' /\ owner' \in {0, workers'} /\ owner' # 0
    BY <1>1, <2>2, PageIs DEF Usable
  <2>14. PageOk'
    BY <2>8, <2>11, <2>12, <2>13 DEF PageOk
  <2>15. AnswersOk'
    BY <1>1, <1>2, <2>1 DEF AnswersOk
  <2>16. dropped' \subseteq 1..nextId'
    BY <1>1, <2>1, <2>2
  <2>17. Inv'
    BY <1>1, <2>7, <2>10, <2>14, <2>15, <2>16, PageKept DEF Inv, Typed
  <2> QED
    BY <1>1, <2>8, <2>17, NothingMoved
<1> QED
  BY <1>3, <1>4

(* The page drops its worker.                                               *)
LEMMA ResetClickedKeeps ==
    ASSUME Inv, HarnessWaits, ResetClicked
    PROVE  Inv' /\ MoveIsWanted
<1> DEFINE s == Stopped(page)
           q == [s EXCEPT !.pending = NoJob, !.ready = FALSE, !.busy = FALSE]
<1>1. /\ client = "page" /\ client' = client /\ page' = Resolved(q, page.pending, FALSE)
      /\ dropped' = (IF Pending THEN dropped \cup {page.pending.id} ELSE dropped)
      /\ owner' = 0 /\ worker' = Fresh /\ handlers' = {} /\ session' = NoSession /\ inbox' = <<>>
      /\ UNCHANGED <<server, outbox, nextId, workers, applied>>
      /\ page \in Pages /\ nextId \in Nat /\ dropped \subseteq 1..nextId
  BY DEF ResetClicked, Restart, HarnessWaits, Inv, Typed
<1>2. LoopOk(page) /\ (Pending => page.pending.id \in 1..nextId)
  BY <1>1, PageIs
<1>3. s \in Pages /\ ~s.auto /\ ~s.timer /\ s.revision = page.revision
  BY <1>1, StoppedIs DEF SamePage
<1> HIDE DEF s
<1>4. q \in Pages
  BY <1>3, NoJobIs, JobClosed
<1>5. ~q.auto /\ ~q.timer /\ q.pending = NoJob /\ ~q.ready /\ q.revision = page.revision
  BY <1>3 DEF Pages
<1> HIDE DEF q
<1>6. SamePage(q, page') /\ LoopOk(page')
  BY <1>1, <1>2, <1>4, <1>5, JobResolved
<1>7. page' \in Pages /\ page'.pending = NoJob /\ ~page'.ready /\ page'.revision = page.revision
  BY <1>5, <1>6 DEF SamePage
<1>8. AnswersOk'
  BY <1>1 DEF Inv, AnswersOk
<1>9. NoAnswer'
  BY <1>1 DEF Inv, AnswersOk, NoAnswer
<1>10. /\ Phase' /\ Quiet' /\ inbox' \in Seq(Questions) /\ worker' \in WorkerFlags
       /\ session' \in Sessions /\ SoundSession(session')
  BY <1>1, <1>9, WorkerGone
<1>11. PageOk'
  BY <1>1, <1>6, <1>7, <1>10 DEF PageOk, JobOk
<1>12. Inv'
  BY <1>1, <1>2, <1>7, <1>8, <1>10, <1>11, PageKept DEF Inv, Typed
<1> QED
  BY <1>1, <1>7, <1>12, NothingMoved

(* The page no longer trusts its worker.                                    *)
LEMMA WorkerErrsKeeps ==
    ASSUME Inv, HarnessWaits, WorkerErrs
    PROVE  Inv' /\ MoveIsWanted
<1> DEFINE i == [page EXCEPT !.pending = NoJob, !.busy = FALSE, !.ready = FALSE]
           q == Stopped(i)
<1>1. /\ client = "page" /\ client' = client /\ page' = Resolved(q, page.pending, FALSE)
      /\ dropped' = (IF Pending THEN dropped \cup {page.pending.id} ELSE dropped)
      /\ UNCHANGED <<owner, worker, handlers, session, inbox, server, outbox, nextId, workers,
                     applied>>
      /\ page \in Pages /\ nextId \in Nat /\ dropped \subseteq 1..nextId /\ owner # 0
  BY DEF WorkerErrs, PageOnly, HarnessWaits, Inv, Typed
<1>2. LoopOk(page) /\ (Pending => page.pending.id \in 1..nextId) /\ owner \in {0, workers}
  BY <1>1, PageIs
<1>3. i \in Pages
  BY <1>1, NoJobIs, JobClosed
<1>4. i.pending = NoJob /\ ~i.ready /\ i.revision = page.revision
  BY <1>1 DEF Pages
<1> HIDE DEF i
<1>5. /\ q \in Pages /\ ~q.auto /\ ~q.timer /\ q.pending = NoJob /\ ~q.ready
      /\ q.revision = page.revision
  BY <1>3, <1>4, StoppedIs DEF SamePage
<1> HIDE DEF q
<1>6. SamePage(q, page') /\ LoopOk(page')
  BY <1>1, <1>2, <1>5, JobResolved
<1>7. page' \in Pages /\ page'.pending = NoJob /\ ~page'.ready /\ page'.revision = page.revision
  BY <1>5, <1>6 DEF SamePage
<1>8. StillExpected
  BY <1>1, <1>7 DEF StillExpected, Expected
<1>9. Phase'
  BY <1>1, <1>8, PhaseKept DEF Inv
<1>10. AnswersOk'
  BY <1>1 DEF Inv, AnswersOk
<1>11. PageOk'
  BY <1>1, <1>2, <1>6, <1>7 DEF PageOk, JobOk
<1>12. Inv'
  BY <1>1, <1>2, <1>7, <1>9, <1>10, <1>11, PageKept DEF Inv, Typed
<1> QED
  BY <1>1, <1>7, <1>12, NothingMoved

-----------------------------------------------------------------------------
(* What the worker sends.                                                   *)

\* A message of the worker that the page hears.
Heard ==
    /\ outbox # <<>> /\ Head(outbox).owner = owner /\ outbox' = Tail(outbox)
    /\ UNCHANGED <<owner, worker, handlers, session, inbox, server, nextId, workers, dropped>>

(* An answer leaves nothing under way.                                      *)
LEMMA HeardIs ==
    ASSUME Inv, HarnessWaits, Heard
    PROVE  /\ AnsweredAt(1) /\ Head(outbox) = outbox[1] /\ ~Quiet /\ Phase' /\ Quiet'
           /\ AnswersOk' /\ outbox' \in Seq(Answers)
           /\ owner \in {0, workers} /\ owner # 0
<1>1. /\ Phase /\ AnswersOk /\ outbox \in Seq(Answers) /\ client = "page" /\ client' = client
      /\ outbox # <<>> /\ Head(outbox).owner = owner /\ outbox' = Tail(outbox)
      /\ UNCHANGED <<owner, worker, handlers, session, inbox, server, nextId, workers, dropped>>
  BY DEF Inv, Typed, HarnessWaits, Heard
<1>2. AnsweredAt(1) /\ ~Quiet /\ Head(outbox) = outbox[1] /\ Phase' /\ Quiet'
  BY <1>1, AnswerTaken
<1>3. AnswersOk' /\ outbox' \in Seq(Answers)
  BY <1>1, AnswersTaken
<1>4. owner \in {0, workers} /\ owner # 0
  BY <1>1, <1>2, PageIs
<1> QED
  BY <1>2, <1>3, <1>4

(* What is left to show of an answer that ends what the page waits for.     *)
LEMMA HeardKept ==
    ASSUME Inv, HarnessWaits, Heard, page' \in Pages, page'.pending = NoJob,
           page'.ready => Usable, LoopOk(page'), applied' \in Seq(1..nextId)
    PROVE  Inv'
<1>1. UNCHANGED <<owner, worker, handlers, session, inbox, server, nextId, workers, dropped>>
  BY DEF Heard
<1>2. /\ Phase' /\ Quiet' /\ AnswersOk' /\ outbox' \in Seq(Answers)
      /\ owner \in {0, workers} /\ owner # 0
  BY HeardIs
<1>3. Usable' <=> Usable
  BY <1>1 DEF Usable
<1>4. PageOk'
  BY <1>1, <1>2, <1>3 DEF PageOk, JobOk
<1> QED
  BY <1>1, <1>2, <1>4, PageKept DEF Inv, Typed

(* A message of a worker that is gone is dropped.                           *)
LEMMA StaleDroppedKeeps ==
    ASSUME Inv, HarnessWaits, StaleDropped
    PROVE  Inv' /\ MoveIsWanted
<1>1. /\ outbox # <<>> /\ Head(outbox).owner # owner /\ outbox' = Tail(outbox)
      /\ UNCHANGED <<owner, worker, handlers, session, inbox, server>>
      /\ UNCHANGED <<page, nextId, workers, dropped, applied>>
      /\ client = "page" /\ client' = client /\ UNCHANGED <<rpc, calls>>
      /\ outbox \in Seq(Answers) /\ Phase /\ AnswersOk
  BY DEF StaleDropped, PageOnly, pageVars, HarnessWaits, harnessVars, Inv, Typed
<1>2. /\ Head(outbox) = outbox[1] /\ Len(outbox) \in Nat /\ Len(outbox') = Len(outbox) - 1
      /\ \A k \in 1..Len(outbox') :
            k + 1 \in 1..Len(outbox) /\ k + 1 # 1 /\ outbox'[k] = outbox[k + 1]
  BY <1>1, TailIs
<1>3. /\ Still' <=> Still
      /\ Usable' <=> Usable
      /\ NoQuestion' <=> NoQuestion
      /\ NoAnswer => NoAnswer'
  BY <1>1, <1>2 DEF Still, Usable, NoQuestion, NoAnswer
<1>4. Quiet => Quiet'
  BY <1>3 DEF Quiet
<1>5. ASSUME NEW k \in 1..Len(inbox), AskedAt(k)
      PROVE  AskedAt(k)'
  <2>1. Expected(inbox[k].type, inbox[k].id)'
    BY <1>1, <1>5 DEF AskedAt, Expected
  <2> QED
    BY <1>1, <1>3, <1>5, <2>1 DEF AskedAt
<1>6. ASSUME NEW h \in handlers, ServedBy(h)
      PROVE  ServedBy(h)'
  <2>1. Expected(h.type, h.id)'
    BY <1>1, <1>6 DEF ServedBy, Expected
  <2> QED
    BY <1>1, <1>3, <1>6, <2>1 DEF ServedBy
<1>7. ASSUME NEW k \in 1..Len(outbox), AnsweredAt(k)
      PROVE  \E j \in 1..Len(outbox') : AnsweredAt(j)'
  <2>1. k # 1 /\ k \in Int
    BY <1>1, <1>2, <1>7 DEF AnsweredAt
  <2>2. PICK j \in Int : j = k - 1
    BY <2>1
  <2>3. j \in 1..Len(outbox') /\ outbox'[j] = outbox[k]
    BY <1>2, <1>7, <2>1, <2>2
  <2>4. \A i \in 1..Len(outbox') : i # j => outbox'[i].owner # owner'
    <3>1. \A i \in 1..Len(outbox) : i # k => outbox[i].owner # owner
      BY <1>7 DEF AnsweredAt
    <3> QED
      BY <1>1, <1>2, <2>2, <3>1
  <2>5. AnsweredAt(j)'
    BY <1>1, <1>3, <1>7, <2>3, <2>4 DEF AnsweredAt
  <2> QED
    BY <2>3, <2>5
<1>8. Phase'
  BY <1>1, <1>4, <1>5, <1>6, <1>7 DEF Phase
<1>9. AnswersOk' /\ outbox' \in Seq(Answers)
  BY <1>1, AnswersTaken
<1>10. JobOk' /\ LoopOk(page') <=> JobOk /\ LoopOk(page)
  BY <1>1 DEF JobOk, LoopOk
<1>11. PageOk'
  BY <1>1, <1>3, <1>4, <1>10 DEF Inv, PageOk
<1>12. Inv'
  BY <1>1, <1>8, <1>9, <1>11, PageKept DEF Inv, Typed
<1> QED
  BY <1>1, <1>12, NothingMoved

(* The model is loaded.                                                     *)
LEMMA ReadyHeardKeeps ==
    ASSUME Inv, HarnessWaits, ReadyHeard
    PROVE  Inv' /\ MoveIsWanted
<1>1. /\ Heard /\ Head(outbox).type = "ready" /\ applied' = applied /\ client = "page"
      /\ page' = [page EXCEPT !.ready = TRUE, !.busy = FALSE]
      /\ page \in Pages /\ applied \in Seq(1..nextId)
  BY DEF ReadyHeard, Heard, PageOnly, HarnessWaits, Inv, Typed
<1>2. AnsweredAt(1) /\ outbox[1].type = "ready"
  BY <1>1, HeardIs
<1>3. Usable /\ ~page.ready
  BY <1>1, <1>2 DEF AnsweredAt
<1>4. page.pending = NoJob /\ LoopOk(page)
  BY <1>1, <1>3, PageIs
<1>5. page' \in Pages
  BY <1>1, PagesClosed
<1>6. /\ page'.pending = page.pending /\ page'.auto = page.auto /\ page'.timer = page.timer
      /\ page'.revision = page.revision
  BY <1>1 DEF Pages
<1>7. LoopOk(page')
  BY <1>4, <1>6 DEF LoopOk
<1>8. Inv'
  BY <1>1, <1>3, <1>4, <1>5, <1>6, <1>7, HeardKept
<1> QED
  BY <1>1, <1>6, <1>8, NothingMoved

(* An error ends what the page waits for.                                   *)
LEMMA ErrorHeardKeeps ==
    ASSUME Inv, HarnessWaits, ErrorHeard
    PROVE  Inv' /\ MoveIsWanted
<1> DEFINE i == [page EXCEPT !.pending = NoJob, !.busy = FALSE]
           q == Stopped(i)
<1>1. /\ Heard /\ applied' = applied /\ client = "page"
      /\ page' = Resolved(q, page.pending, FALSE)
      /\ page \in Pages /\ applied \in Seq(1..nextId)
  BY DEF ErrorHeard, Heard, PageOnly, HarnessWaits, Inv, Typed
<1>2. LoopOk(page) /\ (page.ready => Usable)
  BY <1>1, PageIs
<1>3. i \in Pages
  BY <1>1, NoJobIs, JobClosed
<1>4. i.pending = NoJob /\ i.ready = page.ready /\ i.revision = page.revision
  BY <1>1 DEF Pages
<1> HIDE DEF i
<1>5. /\ q \in Pages /\ ~q.auto /\ ~q.timer /\ q.pending = NoJob /\ q.ready = page.ready
      /\ q.revision = page.revision
  BY <1>3, <1>4, StoppedIs DEF SamePage
<1> HIDE DEF q
<1>6. SamePage(q, page') /\ LoopOk(page')
  BY <1>1, <1>2, <1>5, JobResolved
<1>7. /\ page' \in Pages /\ page'.pending = NoJob /\ page'.ready = page.ready
      /\ page'.revision = page.revision
  BY <1>5, <1>6 DEF SamePage
<1>8. Inv'
  BY <1>1, <1>2, <1>6, <1>7, HeardKept
<1> QED
  BY <1>1, <1>7, <1>8, NothingMoved

(* A move changes the scene, and may end autoplay.                          *)
LEMMA MovedIs ==
    ASSUME NEW p \in Pages, NEW move
    PROVE  LET m == Moved(p, move) IN
           /\ m \in Pages /\ m.ready = p.ready /\ m.pending = p.pending
           /\ (m.auto = p.auto /\ m.timer = p.timer) \/ (~m.auto /\ ~m.timer)
<1> DEFINE last == move = "last"
           c == [p EXCEPT !.revision = p.revision + 1, !.over = last]
<1>1. c \in Pages
  <2>1. last \in BOOLEAN /\ p.revision + 1 \in Nat
    BY PageFields
  <2> HIDE DEF last
  <2> QED
    BY <2>1, SceneClosed
<1>2. c.ready = p.ready /\ c.pending = p.pending /\ c.auto = p.auto /\ c.timer = p.timer
  BY DEF Pages
<1>3. Moved(p, move) \in {p, c, Stopped(p), Stopped(c)}
  BY DEF Moved
<1> HIDE DEF c
<1>4. /\ Stopped(c) \in Pages /\ Stopped(c).ready = p.ready /\ Stopped(c).pending = p.pending
      /\ ~Stopped(c).auto /\ ~Stopped(c).timer
      /\ Stopped(p) \in Pages /\ Stopped(p).ready = p.ready /\ Stopped(p).pending = p.pending
      /\ ~Stopped(p).auto /\ ~Stopped(p).timer
  BY <1>1, <1>2, StoppedIs DEF SamePage
<1> QED
  BY <1>1, <1>2, <1>3, <1>4

(* A decision is answered: it is applied, used, or neither.                 *)
LEMMA ResultHeardKeeps ==
    ASSUME Inv, HarnessWaits, ResultHeard
    PROVE  Inv' /\ MoveIsWanted
<1>1. /\ outbox # <<>> /\ Head(outbox).owner = owner /\ outbox' = Tail(outbox)
      /\ PageOnly /\ client = "page" /\ client' = client
      /\ page \in Pages /\ applied \in Seq(1..nextId) /\ dropped \subseteq 1..nextId
      /\ nextId \in Nat
  BY DEF ResultHeard, HarnessWaits, Inv, Typed
<1>2. LoopOk(page) /\ (page.ready => Usable)
  BY <1>1, PageIs
<1>3. CASE page.pending.id # Head(outbox).id
  <2>1. UNCHANGED <<page, nextId, workers, dropped, applied>>
    BY <1>3 DEF ResultHeard, pageVars
  <2>2. Heard
    BY <1>1, <2>1 DEF Heard, PageOnly
  <2>3. /\ Phase' /\ Quiet' /\ AnswersOk' /\ outbox' \in Seq(Answers)
        /\ owner \in {0, workers} /\ owner # 0
    BY <2>2, HeardIs
  <2>4. JobOk' /\ LoopOk(page') <=> JobOk /\ LoopOk(page)
    BY <1>1, <2>1 DEF JobOk, LoopOk
  <2>5. (Usable' <=> Usable) /\ UNCHANGED <<owner, worker, session, inbox>>
    BY <1>1 DEF Usable, PageOnly
  <2>6. PageOk'
    BY <1>1, <2>1, <2>3, <2>4, <2>5 DEF Inv, PageOk
  <2>7. Inv'
    BY <2>1, <2>3, <2>5, <2>6, PageKept DEF Inv, Typed
  <2> QED
    BY <2>1, <2>7, NothingMoved
<1>4. CASE page.pending.id = Head(outbox).id
  <2> DEFINE i == [page EXCEPT !.pending = NoJob, !.busy = FALSE]
             job == page.pending
  <2>1. i \in Pages
    BY <1>1, NoJobIs, JobClosed
  <2>2. i.pending = NoJob /\ i.ready = page.ready /\ i.auto = page.auto /\ i.timer = page.timer
    BY <1>1 DEF Pages
  <2>3. /\ UNCHANGED <<nextId, workers, dropped>>
        /\ \/ applied' = applied /\ \E moved \in BOOLEAN : page' = Resolved(i, job, moved)
           \/ /\ Wanted(job, Head(outbox).why) /\ job.apply /\ applied' = Append(applied, job.id)
              /\ \E move \in Moves :
                    page' = Resolved(Moved(i, move), job, move \in {"turn", "last"})
    BY <1>4 DEF ResultHeard
  <2> HIDE DEF i
  <2>4. Heard
    BY <1>1, <2>3 DEF Heard, PageOnly
  <2>5. CASE applied' = applied /\ \E moved \in BOOLEAN : page' = Resolved(i, job, moved)
    <3>1. SamePage(i, page') /\ LoopOk(page')
      BY <1>1, <1>2, <2>1, <2>2, <2>5, JobResolved
    <3>2. page' \in Pages /\ page'.pending = NoJob /\ page'.ready = page.ready
      BY <2>2, <3>1 DEF SamePage
    <3>3. Inv'
      BY <1>1, <1>2, <2>4, <2>5, <3>1, <3>2, HeardKept
    <3>4. MoveIsWanted
      BY <2>5, <3>2 DEF MoveIsWanted, Pending
    <3> QED
      BY <3>3, <3>4
  <2>6. CASE /\ Wanted(job, Head(outbox).why) /\ job.apply /\ applied' = Append(applied, job.id)
             /\ \E move \in Moves :
                   page' = Resolved(Moved(i, move), job, move \in {"turn", "last"})
    <3>1. PICK move \in Moves :
             page' = Resolved(Moved(i, move), job, move \in {"turn", "last"})
      BY <2>6
    <3>2. PICK m, moved : m = Moved(i, move) /\ moved = (move \in {"turn", "last"})
      OBVIOUS
    <3>3. /\ m \in Pages /\ m.ready = i.ready /\ m.pending = i.pending
          /\ (m.auto = i.auto /\ m.timer = i.timer) \/ (~m.auto /\ ~m.timer)
      BY <2>1, <3>2, MovedIs
    <3>4. page' = Resolved(m, page.pending, moved)
      BY <3>1, <3>2
    <3>5. SamePage(m, page') /\ LoopOk(page')
      BY <1>1, <1>2, <2>2, <3>3, <3>4, JobResolved
    <3>6. page' \in Pages /\ page'.pending = NoJob /\ page'.ready = page.ready
      BY <2>2, <3>3, <3>5 DEF SamePage
    <3>7. Pending /\ ~job.discard
      BY <2>6, NoJobIs DEF Pending, Wanted
    <3>8. /\ job.id = nextId /\ nextId \in 1..nextId /\ nextId \notin dropped
          /\ \A k \in 1..Len(applied) : applied[k] # nextId
      BY <1>1, <3>7, PageIs
    <3>9. /\ applied' \in Seq(1..nextId) /\ applied'[Len(applied')] = nextId
      <4> DEFINE S == 1..nextId
      <4>1. nextId \in S /\ applied \in Seq(S)
        BY <1>1, <3>8
      <4> HIDE DEF S
      <4>2. /\ Append(applied, nextId) \in Seq(S)
            /\ Append(applied, nextId)[Len(Append(applied, nextId))] = nextId
        BY <4>1, AppendIs
      <4> QED
        BY <2>6, <3>8, <4>2 DEF S
    <3>10. Inv'
      BY <1>1, <1>2, <2>4, <3>5, <3>6, <3>9, HeardKept
    <3>11. MoveIsWanted
      BY <3>6, <3>7, <3>8, <3>9 DEF MoveIsWanted, Pending
    <3> QED
      BY <3>10, <3>11
  <2> QED
    BY <2>3, <2>5, <2>6
<1> QED
  BY <1>3, <1>4

(* Every step of the page.                                                  *)
LEMMA PageKeeps ==
    ASSUME Inv, client = "page", UserStep \/ PageStep \/ WorkerErrs,
           UNCHANGED <<harnessVars, client>>
    PROVE  Inv' /\ MoveIsWanted
<1>1. HarnessWaits
  BY DEF HarnessWaits
<1>2. CASE UserStep
  BY <1>1, <1>2, LoadClickedKeeps, RunClickedKeeps, AutoplayClickedKeeps, CancelClickedKeeps,
     ResetClickedKeeps, SceneKeeps DEF UserStep
<1>3. CASE PageStep
  BY <1>1, <1>3, TimeoutKeeps, StaleDroppedKeeps, ReadyHeardKeeps, ResultHeardKeeps,
     ErrorHeardKeeps DEF PageStep
<1>4. CASE WorkerErrs
  BY <1>1, <1>4, WorkerErrsKeeps
<1> QED
  BY <1>2, <1>3, <1>4

-----------------------------------------------------------------------------
(* The protocol.                                                            *)

(* A step that changes nothing.                                             *)
LEMMA NothingKeeps ==
    ASSUME Inv, UNCHANGED vars
    PROVE  Inv' /\ MoveIsWanted
<1>1. /\ UNCHANGED <<owner, worker, handlers, session, inbox, outbox, server, nextId, workers,
                     dropped, applied>>
      /\ UNCHANGED <<page, pageVars, harnessVars, client, rpc, calls>>
  BY DEF vars, workerVars, pageVars, harnessVars, visitVars
<1>2. CASE client = "page"
  <2>1. HarnessWaits
    BY <1>1, <1>2 DEF HarnessWaits
  <2>2. page' \in Pages /\ LoopOk(page')
    BY <1>1, <1>2, PageIs
  <2> QED
    BY <1>1, <2>1, <2>2, PageLocal, NothingMoved
<1>3. CASE client = "harness"
  <2>1. PageWaits
    BY <1>1, <1>3 DEF PageWaits
  <2>2. StillExpected
    BY <1>1, <1>3 DEF StillExpected, Expected
  <2>3. Phase' /\ (Quiet => Quiet')
    BY <1>1, <2>2, PhaseKept DEF Inv
  <2>4. Usable' <=> Usable
    BY <1>1 DEF Usable
  <2>5. AnswersOk' /\ HarnessOk'
    BY <1>1, <1>3, <2>3, <2>4 DEF Inv, AnswersOk, HarnessOk
  <2>6. Inv'
    BY <1>1, <2>1, <2>3, <2>5, HarnessKept DEF Inv, Typed
  <2> QED
    BY <1>1, <2>6, NothingMoved
<1> QED
  BY <1>2, <1>3 DEF Inv, Typed

(* Initially there is no worker, and nobody has asked.                      *)
LEMMA InitKeeps == Init => Inv
<1> SUFFICES ASSUME Init PROVE Inv
  OBVIOUS
<1>1. /\ owner = 0 /\ worker = Fresh /\ handlers = {} /\ session = NoSession
      /\ inbox = <<>> /\ outbox = <<>> /\ nextId = 0 /\ workers = 0 /\ dropped = {}
      /\ applied = <<>> /\ rpc = "new" /\ calls = 0 /\ client \in {"page", "harness"}
      /\ page = [revision |-> 0, game |-> TRUE, over |-> FALSE, ready |-> FALSE, busy |-> FALSE,
                 pending |-> NoJob, auto |-> FALSE, timer |-> FALSE, remaining |-> 0]
  BY DEF Init, InitWorker, InitPage, InitHarness
<1>2. /\ page \in Pages /\ ~page.ready /\ ~page.auto /\ ~page.timer /\ page.pending = NoJob
  BY <1>1, NoJobIs DEF Pages
<1>3. worker \in WorkerFlags /\ ~worker.loading /\ ~worker.running
  BY <1>1 DEF Fresh, WorkerFlags
<1>4. inbox \in Seq(Questions) /\ outbox \in Seq(Answers) /\ applied \in Seq(1..nextId)
  BY <1>1
<1>5. Typed
  BY <1>1, <1>2, <1>3, <1>4, NoSessionIs DEF Typed
<1>6. Quiet
  BY <1>1, <1>3, NoSessionIs DEF Quiet, NoQuestion, NoAnswer, Still
<1>7. LoopOk(page)
  BY <1>2, NoJobIs, LoopIs
<1>8. PageOk /\ HarnessOk /\ AnswersOk
  BY <1>1, <1>2, <1>6, <1>7 DEF PageOk, HarnessOk, AnswersOk, JobOk
<1> QED
  BY <1>1, <1>5, <1>6, <1>8, NoSessionIs DEF Inv, Phase

(* Every step keeps the invariant, and applies only what is wanted.         *)
LEMMA NextKeeps ==
    ASSUME Inv, [Next]_vars
    PROVE  Inv' /\ MoveIsWanted
<1>1. CASE (Receive \/ Resume) /\ UNCHANGED <<pageVars, harnessVars, visitVars>>
  <2>1. Inv'
    BY <1>1, WorkerKeeps DEF visitVars
  <2>2. UNCHANGED <<page, applied>>
    BY <1>1 DEF pageVars
  <2> QED
    BY <2>1, <2>2, NothingMoved
<1>2. CASE /\ client = "page" /\ (UserStep \/ PageStep \/ WorkerErrs)
           /\ UNCHANGED <<harnessVars, visitVars>>
  BY <1>2, PageKeeps DEF visitVars
<1>3. CASE client = "harness" /\ HarnessStep /\ UNCHANGED <<pageVars, visitVars>>
  <2>1. Inv'
    BY <1>3, HarnessKeeps DEF visitVars
  <2>2. UNCHANGED <<page, applied>>
    BY <1>3 DEF pageVars
  <2> QED
    BY <2>1, <2>2, NothingMoved
<1>4. CASE UNCHANGED vars
  BY <1>4, NothingKeeps
<1> QED
  BY <1>1, <1>2, <1>3, <1>4 DEF Next

(* The invariant: one question at a time, and what everyone knows of it     *)
(* (worker.js, app.js, benchmark-wasm.mjs).                                 *)
THEOREM OneQuestion == Spec => []Inv
<1>1. Init => Inv
  BY InitKeeps
<1>2. Inv /\ [Next]_vars => Inv'
  BY NextKeeps
<1> QED
  BY <1>1, <1>2, PTL DEF Spec

(* The worker's flags say what its handlers do and what the session serves: *)
(* no two handlers are at an await, and no message fails in a way that      *)
(* resets the flags of another operation (worker.js:167).                   *)
THEOREM FlagsAreTrueAlways == Spec => []FlagsAreTrue
<1>1. Inv => FlagsAreTrue
  <2> SUFFICES ASSUME Inv PROVE FlagsAreTrue
    OBVIOUS
  <2>1. CASE handlers = {}
    <3>1. Still
      BY <2>1 DEF Inv, Phase, Quiet, AskedAt, AnsweredAt
    <3>2. Cardinality(handlers) = 0
      BY <2>1, FS_EmptySet
    <3>3. Handlers("decide") = {} /\ Handlers("load") = {}
      BY <2>1 DEF Handlers
    <3> QED
      BY <3>1, <3>2, <3>3 DEF FlagsAreTrue, Still
  <2>2. CASE handlers # {}
    <3>1. PICK h \in handlers : TRUE
      BY <2>2
    <3>2. ServedBy(h) /\ handlers = {h} /\ h \in AllHandlers
      BY HandlerServed DEF Inv, ServedBy
    <3>3. Cardinality(handlers) = 1
      BY <3>2, FS_Singleton
    <3>4. h.type \in {"load", "decide"}
      BY <3>2 DEF AllHandlers
    <3>5. CASE h.type = "load"
      <4>1. Handlers("decide") = {} /\ Handlers("load") # {}
        BY <3>2, <3>5 DEF Handlers
      <4>2. worker.loading /\ ~worker.running /\ session.questions = 0
        BY <3>2, <3>5, NoSessionIs DEF ServedBy
      <4> QED
        BY <3>3, <4>1, <4>2 DEF FlagsAreTrue
    <3>6. CASE h.type = "decide"
      <4>1. Handlers("decide") # {} /\ Handlers("load") = {}
        BY <3>2, <3>6 DEF Handlers
      <4>2. ~worker.loading /\ worker.running /\ session.questions # 0
        BY <3>2, <3>6 DEF ServedBy
      <4> QED
        BY <3>3, <4>1, <4>2 DEF FlagsAreTrue
    <3> QED
      BY <3>4, <3>5, <3>6
  <2> QED
    BY <2>1, <2>2
<1> QED
  BY <1>1, OneQuestion, PTL

(* The engine keeps the request of the question that is answered and no     *)
(* other, and no call uses an engine that does not exist                    *)
(* (decision.cpp:124).                                                      *)
THEOREM EngineIsCleanAlways == Spec => []EngineIsClean
<1>1. Inv => EngineIsClean
  BY DEF Inv, SoundSession, EngineIsClean
<1> QED
  BY <1>1, OneQuestion, PTL

(* Autoplay has one loop: its timer runs or it waits for its decision       *)
(* (app.js:113).                                                            *)
THEOREM OneLoopAlways == Spec => []OneLoop
<1>1. Inv => OneLoop
  BY DEF Inv, PageOk, LoopOk, OneLoop
<1> QED
  BY <1>1, OneQuestion, PTL

(* A decision that ends cancelled is one that the user dropped: a           *)
(* cancellation does not outlive the decision it was sent to.               *)
THEOREM OnlyCancelledIfAskedAlways == Spec => []OnlyCancelledIfAsked
<1>1. Inv => OnlyCancelledIfAsked
  BY DEF Inv, AnswersOk, OnlyCancelledIfAsked
<1> QED
  BY <1>1, OneQuestion, PTL

(* A decision that was dropped is never applied, none is applied twice, and *)
(* the scene does not change under one.                                     *)
THEOREM DroppedIsNotAppliedEver == Spec => DroppedIsNotApplied
<1>1. Inv /\ [Next]_vars => [MoveIsWanted]_vars
  BY NextKeeps
<1> QED
  BY <1>1, OneQuestion, PTL DEF Spec, DroppedIsNotApplied, MoveIsWanted

-----------------------------------------------------------------------------
(* Damaged weights.  While the server's are sound, those that a load uses   *)
(* and those in the cache are damaged only if they were found so.           *)

FoundDamaged == found[Weights] = "corrupt"

CopyOk == DOMAIN cache = FileNames /\ (cache[Weights] = "corrupt" => FoundDamaged)
LoadsOk == \A h \in handlers : h.weights = "corrupt" => FoundDamaged
SentOk == \A k \in 1..Len(outbox) : outbox[k].why = "weights" => FoundDamaged

DamageOk == server = "good" => CopyOk /\ LoadsOk /\ SentOk

\* A step of a visit whose server has the files.
Visit ==
    /\ CopyOk /\ LoadsOk /\ SentOk /\ server = "good" /\ found' = found
    /\ outbox \in Seq(Answers)

(* Only an answer that says so blames the weights.                          *)
LEMMA SentKept ==
    ASSUME Visit, NEW type, NEW id, NEW why, Send(type, id, why), why = "weights" => FoundDamaged
    PROVE  SentOk'
<1> DEFINE m == [owner |-> owner, type |-> type, id |-> id, why |-> why]
           S == Answers \cup {m}
<1>1. outbox \in Seq(S) /\ m \in S /\ outbox' = Append(outbox, m) /\ m.why = why
  BY DEF Visit, Send
<1> HIDE DEF m, S
<1>2. /\ \A k \in 1..Len(outbox) : outbox'[k] = outbox[k]
      /\ outbox'[Len(outbox) + 1] = m
      /\ \A k \in 1..Len(outbox') : k = Len(outbox) + 1 \/ k \in 1..Len(outbox)
  BY <1>1, AppendIs
<1> QED
  BY <1>1, <1>2 DEF SentOk, Visit, FoundDamaged

(* A handler that fails leaves no load behind.                              *)
LEMMA ThrowSound ==
    ASSUME Visit, NEW id, NEW why, NEW s, Throw(id, why, s), why = "weights" => FoundDamaged
    PROVE  SentOk'
BY SentKept DEF Throw

(* A load that fails.                                                       *)
LEMMA LoadFailsSound ==
    ASSUME Visit, NEW h, NEW why, LoadFails(h, why), why = "weights" => FoundDamaged
    PROVE  LoadsOk' /\ SentOk'
<1>1. Throw(0, why, session) /\ handlers' = handlers \ {h}
  BY DEF LoadFails
<1>2. SentOk'
  BY <1>1, ThrowSound
<1>3. LoadsOk'
  BY <1>1 DEF LoadsOk, Visit, FoundDamaged
<1> QED
  BY <1>2, <1>3

(* A load that goes on, with no more damage than the visit knows of.        *)
LEMMA LoadOnSound ==
    ASSUME Visit, UNCHANGED outbox, NEW h, NEW g,
           handlers' = (handlers \ {h}) \cup {g}, g.weights = "corrupt" => FoundDamaged
    PROVE  LoadsOk' /\ SentOk'
BY DEF LoadsOk, SentOk, Visit, FoundDamaged

(* A file that cannot be had through the cache.                             *)
LEMMA FileFailsSound ==
    ASSUME Visit, NEW h \in handlers, FileFails(h)
    PROVE  LoadsOk' /\ SentOk'
<1>1. CASE h.store = "none"
  BY <1>1, LoadFailsSound DEF FileFails
<1>2. CASE h.store # "none"
  <2> DEFINE g == LoadAt("file", h.file, "none", h.weights)
  <2>1. g.weights = "corrupt" => FoundDamaged
    BY DEF LoadAt, Visit, LoadsOk
  <2> HIDE DEF g
  <2> QED
    BY <1>2, <2>1, LoadOnSound DEF FileFails, g
<1> QED
  BY <1>1, <1>2

(* A file that was read: what it holds is known to the visit, and so is the *)
(* copy that stays.                                                         *)
LEMMA BlobSound ==
    ASSUME Visit, NEW h \in handlers, NEW content, NEW copy, Blob(h, content, copy),
           Files[h.file] = Weights => (content = "corrupt" => FoundDamaged)
                                      /\ (copy = "corrupt" => FoundDamaged)
    PROVE  CopyOk' /\ LoadsOk' /\ SentOk'
<1>1. CopyOk'
  BY WorkerAssumption DEF Blob, CopyOk, Visit, FoundDamaged, FileNames
<1>2. CASE Accepted(h, content)
  <2> DEFINE g == LoadAt("file", h.file + 1, h.store, WeightsWith(h, content))
  <2>1. g.weights = "corrupt" => FoundDamaged
    BY DEF LoadAt, WeightsWith, Visit, LoadsOk
  <2> HIDE DEF g
  <2> QED
    BY <1>1, <1>2, <2>1, LoadOnSound DEF Blob, g
<1>3. CASE ~Accepted(h, content)
  BY <1>1, <1>3, FileFailsSound DEF Blob
<1> QED
  BY <1>2, <1>3

(* What a step leaves alone stays sound.                                    *)
LEMMA CopyStays ==
    ASSUME Visit, UNCHANGED cache
    PROVE  CopyOk'
BY DEF CopyOk, Visit, FoundDamaged

LEMMA LoadsStay ==
    ASSUME Visit, handlers' \subseteq handlers
    PROVE  LoadsOk'
BY DEF LoadsOk, Visit, FoundDamaged

LEMMA SentStays ==
    ASSUME Visit, UNCHANGED outbox
    PROVE  SentOk'
BY DEF SentOk, Visit, FoundDamaged

(* A message that was heard is gone.                                        *)
LEMMA HeardSound ==
    ASSUME Visit, outbox # <<>>, outbox' = Tail(outbox)
    PROVE  SentOk'
<1>1. \A k \in 1..Len(outbox') : k + 1 \in 1..Len(outbox) /\ outbox'[k] = outbox[k + 1]
  BY TailIs DEF Visit
<1> QED
  BY <1>1 DEF SentOk, Visit, FoundDamaged

(* The steps of a load.                                                     *)
LEMMA LoadingSound ==
    ASSUME Visit, NEW h \in handlers, h \in AllHandlers,
           \/ ModuleMade(h) \/ FileCached(h) \/ FileFetched(h) \/ FileWriting(h)
           \/ FileWritten(h) \/ LoadEnds(h)
    PROVE  CopyOk' /\ LoadsOk' /\ SentOk'
<1>1. CASE ModuleMade(h)
  <2>1. CASE LoadFails(h, "runtime")
    BY <1>1, <2>1, LoadFailsSound, CopyStays DEF ModuleMade
  <2>2. ASSUME NEW store \in Stores, UNCHANGED outbox,
               handlers' = (handlers \ {h}) \cup {LoadAt("file", 1, store, "absent")}
        PROVE  LoadsOk' /\ SentOk'
    <3> DEFINE g == LoadAt("file", 1, store, "absent")
    <3>1. g.weights # "corrupt"
      BY DEF LoadAt
    <3> HIDE DEF g
    <3> QED
      BY <2>2, <3>1, LoadOnSound DEF g
  <2> QED
    BY <1>1, <2>1, <2>2, CopyStays DEF ModuleMade
<1>2. CASE FileCached(h)
  <2>1. CASE FileFails(h) /\ UNCHANGED cache
    BY <2>1, FileFailsSound, CopyStays
  <2>2. PICK content, copy : /\ content = Copy(h)
                             /\ copy = (IF Copy(h) = "short" THEN "absent" ELSE Copy(h))
    OBVIOUS
  <2>3. CASE Blob(h, content, copy)
    <3>1. Files[h.file] = Weights => (content = "corrupt" => FoundDamaged)
                                     /\ (copy = "corrupt" => FoundDamaged)
      BY <2>2 DEF Copy, Visit, CopyOk
    <3> QED
      BY <2>3, <3>1, BlobSound
  <2> QED
    BY <1>2, <2>1, <2>2, <2>3 DEF FileCached
<1>3. CASE FileFetched(h)
  <2>1. PICK content, copy : /\ content = server /\ copy \in {Copy(h), server}
                             /\ Blob(h, content, copy)
    BY <1>3 DEF FileFetched, Visit
  <2>2. Files[h.file] = Weights => (content = "corrupt" => FoundDamaged)
                                   /\ (copy = "corrupt" => FoundDamaged)
    BY <2>1 DEF Copy, Visit, CopyOk
  <2> QED
    BY <2>1, <2>2, BlobSound
<1>4. CASE FileWriting(h)
  <2>1. /\ cache' = [cache EXCEPT ![Files[h.file]] = "short"] /\ UNCHANGED outbox
        /\ handlers' = (handlers \ {h}) \cup {[h EXCEPT !.at = "writing"]}
    BY <1>4 DEF FileWriting, Visit
  <2>2. CopyOk'
    BY <2>1, WorkerAssumption DEF CopyOk, Visit, FoundDamaged, FileNames
  <2> DEFINE g == [h EXCEPT !.at = "writing"]
  <2>3. g.weights = h.weights
    BY DEF AllHandlers
  <2>4. g.weights = "corrupt" => FoundDamaged
    BY <2>3 DEF Visit, LoadsOk
  <2>5. handlers' = (handlers \ {h}) \cup {g}
    BY <2>1
  <2> HIDE DEF g
  <2> QED
    BY <2>1, <2>2, <2>4, <2>5, LoadOnSound
<1>5. CASE FileWritten(h)
  <2>1. CASE cache' = [cache EXCEPT ![Files[h.file]] = "absent"] /\ FileFails(h)
    <3>1. CopyOk'
      BY <2>1, WorkerAssumption DEF CopyOk, Visit, FoundDamaged, FileNames
    <3> QED
      BY <2>1, <3>1, FileFailsSound
  <2>2. CASE Blob(h, server, server)
    BY <2>2, BlobSound DEF Visit
  <2> QED
    BY <1>5, <2>1, <2>2 DEF FileWritten
<1>6. CASE LoadEnds(h)
  <2>1. UNCHANGED cache
    BY <1>6 DEF LoadEnds
  <2>2. \/ \E why \in {"weights", "engine"} :
              LoadFails(h, why) /\ (why = "weights" => h.weights = "corrupt")
        \/ handlers' = handlers \ {h} /\ Send("ready", 0, "")
    BY <1>6 DEF LoadEnds
  <2>3. CASE handlers' = handlers \ {h} /\ Send("ready", 0, "")
    BY <2>1, <2>3, CopyStays, LoadsStay, SentKept
  <2>4. ASSUME NEW why \in {"weights", "engine"}, LoadFails(h, why),
               why = "weights" => h.weights = "corrupt"
        PROVE  LoadsOk' /\ SentOk'
    BY <2>4, LoadFailsSound DEF Visit, LoadsOk
  <2> QED
    BY <2>1, <2>2, <2>3, <2>4, CopyStays
<1> QED
  BY <1>1, <1>2, <1>3, <1>4, <1>5, <1>6

(* The other steps of the worker: no reason they give is the weights.       *)
LEMMA WorkerSound ==
    ASSUME Inv, Visit, Receive \/ Resume
    PROVE  CopyOk' /\ LoadsOk' /\ SentOk'
<1>1. CASE LoadStarts
  <2>1. CASE Refuse(0)
    BY <1>1, <2>1, CopyStays, LoadsStay, ThrowSound DEF Refuse
  <2>2. CASE /\ handlers' = handlers \cup {LoadAt("module", 1, "none", "absent")}
             /\ UNCHANGED <<outbox, cache>>
    <3> DEFINE g == LoadAt("module", 1, "none", "absent")
    <3>1. g.weights # "corrupt"
      BY DEF LoadAt
    <3> HIDE DEF g
    <3>2. LoadsOk'
      BY <2>2, <3>1 DEF LoadsOk, Visit, FoundDamaged, g
    <3> QED
      BY <2>2, <3>2, CopyStays, SentStays
  <2> QED
    BY <1>1, <2>1, <2>2 DEF LoadStarts
<1>2. ASSUME NEW id, NEW body, Begins(id, body)
      PROVE  SentOk'
  <2>1. CASE Throw(id, "protocol", session)
    BY <2>1, ThrowSound
  <2>2. CASE Send("error", id, "request")
    BY <2>2, SentKept
  <2> QED
    BY <1>2, <2>1, <2>2 DEF Begins
<1>3. CASE Decide
  <2>1. PICK id : \/ \E body \in Bodies : Begins(id, body) /\ UNCHANGED handlers
                  \/ handlers' = handlers \cup {Deciding(id)} /\ UNCHANGED outbox
    BY <1>3 DEF Decide
  <2>2. UNCHANGED cache
    BY <1>3 DEF Decide
  <2>3. CASE handlers' = handlers \cup {Deciding(id)} /\ UNCHANGED outbox
    <3>1. Deciding(id).weights # "corrupt"
      BY DEF Deciding
    <3>2. LoadsOk'
      BY <2>3, <3>1 DEF LoadsOk, Visit, FoundDamaged
    <3> QED
      BY <2>2, <2>3, <3>2, CopyStays, SentStays
  <2> QED
    BY <1>2, <2>1, <2>2, <2>3, CopyStays, LoadsStay
<1>4. CASE Prepare
  <2>1. UNCHANGED <<handlers, cache>>
    BY <1>4 DEF Prepare
  <2>2. PICK id : (\E body \in Bodies : Begins(id, body)) \/ Send("prepared", id, "")
    BY <1>4 DEF Prepare
  <2>3. SentOk'
    BY <1>2, <2>2, SentKept
  <2> QED
    BY <2>1, <2>3, CopyStays, LoadsStay
<1>5. CASE CancelReceived
  BY <1>5, CopyStays, LoadsStay, SentStays DEF CancelReceived
<1>6. CASE Retune
  <2>1. PICK id : \/ Refuse(id)
                  \/ /\ UNCHANGED <<handlers, cache>>
                     /\ \E outcome \in {"rejected", "fails", "ok"} :
                           \/ \E s : Throw(id, outcome, s)
                           \/ Send("ready", 0, "")
    BY <1>6 DEF Retune
  <2>2. SentOk'
    BY <2>1, ThrowSound, SentKept DEF Refuse
  <2>3. UNCHANGED <<handlers, cache>>
    BY <2>1 DEF Refuse
  <2> QED
    BY <2>2, <2>3, CopyStays, LoadsStay
<1>7. ASSUME NEW h \in handlers, Resumed(h)
      PROVE  CopyOk' /\ LoadsOk' /\ SentOk'
  <2>1. ServedBy(h) /\ worker \in WorkerFlags /\ session \in Sessions /\ SoundSession(session)
    BY HandlerServed DEF Inv, Typed
  <2>2. Busy(session)
    BY <1>7, <2>1 DEF Resumed, ServedBy, Usable, Busy
  <2>3. PICK outcome \in {"running", "answered", "failed"} :
          LET r == IF worker.cancelled THEN Cancel(session) ELSE Step(session, outcome) IN
          CASE r.reply = "running" -> UNCHANGED <<handlers, outbox>>
            [] r.reply = "error" -> Throw(h.id, "step", r.session) /\ handlers' = handlers \ {h}
            [] OTHER -> handlers' = handlers \ {h} /\ Send("result", h.id, r.reply)
    BY <1>7 DEF Resumed
  <2> DEFINE r == IF worker.cancelled THEN Cancel(session) ELSE Step(session, outcome)
  <2>4. r.reply \in {"error", "running", "complete", "cancelled"}
    BY <2>2, CancelIs, StepIs
  <2>5. /\ handlers' \subseteq handlers
        /\ \/ UNCHANGED outbox
           \/ Throw(h.id, "step", r.session)
           \/ Send("result", h.id, r.reply)
    BY <2>3
  <2> HIDE DEF r
  <2>6. PICK reply : reply = r.reply
    OBVIOUS
  <2>7. SentOk'
    BY <2>4, <2>5, <2>6, SentStays, ThrowSound, SentKept
  <2>8. UNCHANGED cache
    BY <1>7 DEF Resumed
  <2> QED
    BY <2>5, <2>7, <2>8, CopyStays, LoadsStay
<1>8. CASE Resume
  <2>1. \A h \in handlers : h \in AllHandlers
    BY HandlerServed DEF Inv, ServedBy
  <2> QED
    BY <1>7, <1>8, <2>1, LoadingSound DEF Resume
<1> QED
  BY <1>1, <1>3, <1>4, <1>5, <1>6, <1>8 DEF Receive

(* The clients only take messages, replace the worker or clear the cache.   *)
LEMMA ClientSound ==
    ASSUME Inv, Visit, UserStep \/ PageStep \/ WorkerErrs \/ HarnessStep
    PROVE  CopyOk' /\ LoadsOk' /\ SentOk'
<1>1. CopyOk'
  <2>1. cache' = cache \/ cache' = [f \in FileNames |-> "absent"]
    BY DEF UserStep, PageStep, WorkerErrs, HarnessStep, LoadClicked, RunClicked, AutoplayClicked,
       CancelClicked, ResetClicked, Edited, DemoSelected, CacheCleared, Timeout, StaleDropped,
       ReadyHeard, ResultHeard, ErrorHeard, Opened, Called, CallCancelled, CallEnds,
       UserOnly, PageOnly, HarnessOnly, Restart
  <2>2. CASE cache' = [f \in FileNames |-> "absent"]
    BY <2>2, WorkerAssumption DEF CopyOk, FileNames
  <2> QED
    BY <2>1, <2>2, CopyStays
<1>2. LoadsOk'
  <2>1. handlers' = handlers \/ handlers' = {}
    BY DEF UserStep, PageStep, WorkerErrs, HarnessStep, LoadClicked, RunClicked, AutoplayClicked,
       CancelClicked, ResetClicked, Edited, DemoSelected, CacheCleared, Timeout, StaleDropped,
       ReadyHeard, ResultHeard, ErrorHeard, Opened, Called, CallCancelled, CallEnds,
       UserOnly, PageOnly, HarnessOnly, Restart
  <2> QED
    BY <2>1, LoadsStay
<1>3. SentOk'
  <2>1. outbox' = outbox \/ outbox' = <<>> \/ (outbox # <<>> /\ outbox' = Tail(outbox))
    BY DEF UserStep, PageStep, WorkerErrs, HarnessStep, LoadClicked, RunClicked, AutoplayClicked,
       CancelClicked, ResetClicked, Edited, DemoSelected, CacheCleared, Timeout, StaleDropped,
       ReadyHeard, ResultHeard, ErrorHeard, Opened, Called, CallCancelled, CallEnds,
       PageOnly, HarnessOnly
  <2>2. CASE outbox' = <<>>
    BY <2>2 DEF SentOk
  <2> QED
    BY <2>1, <2>2, SentStays, HeardSound
<1> QED
  BY <1>1, <1>2, <1>3

(* While the server has the files, a load fails for a file never, and for   *)
(* the weights only where an earlier visit left a copy of the right size    *)
(* that is damaged, whatever the cache refuses, loses, cuts off or holds    *)
(* otherwise (worker.js:65, :116, :131).                                    *)
THEOREM OnlyDamagedWeightsHinderAlways == Spec => []OnlyDamagedWeightsHinder
<1>1. Init => DamageOk
  <2> SUFFICES ASSUME Init PROVE DamageOk
    OBVIOUS
  <2>1. /\ cache \in Found /\ found = cache /\ handlers = {} /\ outbox = <<>>
    BY DEF Init, InitWorker
  <2>2. DOMAIN cache = FileNames
    BY <2>1, WorkerAssumption DEF FileNames
  <2> QED
    BY <2>1, <2>2 DEF DamageOk, CopyOk, LoadsOk, SentOk, FoundDamaged
<1>2. Inv /\ DamageOk /\ [Next]_vars => DamageOk'
  <2> SUFFICES ASSUME Inv, DamageOk, [Next]_vars, server' = "good" PROVE (CopyOk /\ LoadsOk /\ SentOk)'
    BY DEF DamageOk
  <2>1. server' = server /\ found' = found
    BY DEF Next, vars, visitVars, workerVars, Receive, Resume, LoadStarts, Decide, Prepare,
       CancelReceived, Retune, ModuleMade, FileCached, FileFetched, FileWriting, FileWritten,
       LoadEnds, Resumed, UserStep, PageStep, WorkerErrs, HarnessStep, LoadClicked, RunClicked,
       AutoplayClicked, CancelClicked, ResetClicked, Edited, DemoSelected, CacheCleared, Timeout,
       StaleDropped, ReadyHeard, ResultHeard, ErrorHeard, Opened, Called, CallCancelled, CallEnds,
       UserOnly, PageOnly, HarnessOnly, Restart
  <2>2. Visit
    BY <2>1 DEF Visit, DamageOk, Inv, Typed
  <2>3. CASE UNCHANGED vars
    BY <2>2, <2>3, CopyStays, LoadsStay, SentStays DEF vars, workerVars
  <2> QED
    BY <2>2, <2>3, WorkerSound, ClientSound DEF Next
<1>3. Inv /\ DamageOk => OnlyDamagedWeightsHinder
  BY DEF Inv, AnswersOk, DamageOk, SentOk, FoundDamaged, OnlyDamagedWeightsHinder
<1> QED
  BY <1>1, <1>2, <1>3, OneQuestion, PTL DEF Spec
=============================================================================
