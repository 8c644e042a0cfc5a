--------------------------- MODULE AgentPipeline ---------------------------
(* ai/pipeline.py with the Runner that drives it: a model's turn wrapped in  *)
(* middlewares, the first outermost.  Each layer hands on a Response: some   *)
(* attach an after-hook with then(), some await it whole, some pass it on.   *)
(* The consumer streams the chunks and may stop at any of them, or awaits    *)
(* the message.  Response r is what layer r makes; the last is the model's.  *)
EXTENDS Naturals, Sequences, FiniteSets

CONSTANTS Layers,     \* how many middlewares
          Chunks      \* bound: chunks the model sends

VARIABLES kind,       \* what each middleware does: "then", "await" or "pass"
          mode,       \* how the consumer takes the outermost response
          sent,       \* chunks the model has sent
          phase,      \* the turn: open, ending, failing, or over for the consumer
          at,         \* the response whose iteration ends next
          merged,     \* what each response has accumulated
          hooks       \* what each layer's after-hook was called with

vars == <<kind, mode, sent, phase, at, merged, hooks>>

Model     == Layers + 1
Responses == 1 .. Model
Awaited(r) == IF r = 1 THEN mode = "await" ELSE kind[r - 1] = "await"
\* The responses a chunk passes on its way out: those inside every layer that
\* awaits the whole.
Waiting(r)  == {l \in r .. Layers : kind[l] = "await"}
Passes      == {r \in Responses : Waiting(r) = {}}
Streaming   == mode = "stream" /\ 1 \in Passes

Init ==
    /\ kind \in [1 .. Layers -> {"then", "await", "pass"}]
    /\ mode \in {"stream", "await"}
    /\ sent = 0 /\ phase = "open" /\ at = Model
    /\ merged = [r \in Responses |-> 0]
    /\ hooks = [l \in 1 .. Layers |-> <<>>]

Chunk ==
    /\ phase = "open" /\ sent < Chunks
    /\ sent' = sent + 1
    /\ merged' = [r \in Responses |-> IF r \in Passes THEN merged[r] + 1 ELSE merged[r]]
    /\ UNCHANGED <<kind, mode, phase, at, hooks>>

\* The model's stream is exhausted, or it raises (or the task is cancelled)
\* while a chunk is awaited.
Exhausted == phase = "open" /\ phase' = "ending"
             /\ UNCHANGED <<kind, mode, sent, at, merged, hooks>>
Raises    == phase = "open" /\ phase' = "failing"
             /\ UNCHANGED <<kind, mode, sent, at, merged, hooks>>

\* _finish(): the hook that layer r - 1 attached to the response it was given.
Finish(r) == hooks' = IF r > 1 /\ kind[r - 1] = "then"
                      THEN [hooks EXCEPT ![r - 1] = Append(@, merged[r])] ELSE hooks
\* A careless form of the next definition: "finished" is set after the hooks,
\* so a hook that raises runs again on the way out.
AgainOnFailure(r) == phase' = "failing" /\ at' = r
\* The source is drained and the hooks run.  A response that was awaited
\* comes out of its layer as one chunk.  A hook that raises ends it too.
HookRaises(r) == phase' = "failing" /\ at' = r - 1
Outward(r) == IF r > 1 /\ kind[r - 1] = "await"
              THEN [q \in Responses |-> IF q < r /\ \A l \in q .. r - 2 : kind[l] # "await"
                                        THEN sent ELSE merged[q]]
              ELSE merged
Ends ==
    /\ phase = "ending" /\ at > 0
    /\ Finish(at)
    /\ \/ phase' = phase /\ at' = at - 1 /\ merged' = Outward(at)
       \/ at > 1 /\ kind[at - 1] = "then" /\ merged' = merged /\ HookRaises(at)
    /\ UNCHANGED <<kind, mode, sent>>

\* An exception passes through a response: an iteration runs the hooks in its
\* "finally", an await does not.
Unwinds ==
    /\ phase = "failing" /\ at > 0
    /\ IF Awaited(at) THEN UNCHANGED hooks ELSE Finish(at)
    /\ at' = at - 1
    /\ UNCHANGED <<kind, mode, sent, phase, merged>>

\* The consumer breaks off at a chunk: the outermost iteration runs its hooks,
\* the generators inside are dropped and closed later by the event loop, from
\* the outside in.
Close ==
    /\ phase = "open" /\ Streaming /\ sent > 0
    /\ phase' = "closed" /\ at' = 2
    /\ Finish(1)
    /\ UNCHANGED <<kind, mode, sent, merged>>
ClosedInside(r) == Finish(r)
LoopCloses ==
    /\ phase = "closed" /\ at <= Model
    /\ ClosedInside(at)
    /\ at' = at + 1
    /\ UNCHANGED <<kind, mode, sent, phase, merged>>

Next == Chunk \/ Exhausted \/ Raises \/ Ends \/ Unwinds \/ Close \/ LoopCloses
\* The event loop runs what it was given; the model ends or raises some time.
Fairness == WF_vars(Chunk \/ Exhausted) /\ WF_vars(Ends \/ Unwinds) /\ WF_vars(LoopCloses)
Spec == Init /\ [][Next]_vars /\ Fairness

----------------------------------------------------------------------------
HookDone(l) == Len(hooks[l]) = 1 /\ (Waiting(l + 1) = {} \/ phase = "ending" => hooks[l][1] = sent)

\* However a turn ends (drained, broken off by its consumer, failed in the
\* model or in another hook), every after-hook of it runs at last, never twice,
\* and is given all that its response let through ("they fire exactly once
\* either way", pipeline.py Response.__aiter__).
HooksRunOnce == \A l \in 1 .. Layers : kind[l] = "then" ~> []HookDone(l)
=============================================================================
