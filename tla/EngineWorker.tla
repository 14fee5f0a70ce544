---------------------------- MODULE EngineWorker ----------------------------
(***************************************************************************)
(* One pooled engine instance: worker.serve and serveStreamingBody         *)
(* (src/runtime/enginepool/worker.go) and the guest side they talk to      *)
(* (js/glue.js).  The pool gives the instance to one request at a          *)
(* time; what one request leaves behind in the guest (promises, timers,    *)
(* stream pumps) is still there when the next one is served.               *)
(*                                                                         *)
(* What the guest left pending runs only while the host drives the event   *)
(* loop (RunUntil), which gives up when the request's context is done.     *)
(* Three waits of serve look at no context: the read of the request body,  *)
(* the methods of the guest's own Response (headers.entries, getReader)    *)
(* that the host calls once the handler has settled, and a write to a      *)
(* client that does not read.  main.go:225 sets no server timeout either.  *)
(*                                                                         *)
(* A handler awaits an operation of the loop (a timer, a fetch), or a      *)
(* promise kept in module state, which the code of any request on the same *)
(* instance may resolve.                                                   *)
(***************************************************************************)
EXTENDS Naturals

CONSTANTS
    Requests,  \* the requests the instance is given, one after another
    Null       \* null

\* A response being streamed, a settled handler, what a client got.
Sink == [rw : Requests, by : Requests, done : BOOLEAN, failed : BOOLEAN]
Result == [by : Requests, kind : {"buffered", "stream", "error"}]
Reply == [by : Requests \cup {Null}, as : {"complete", "failed", "aborted"}]

ASSUME NullAssumption == Null \notin Requests \cup Sink \cup Result \cup Reply

VARIABLES
    cur,        \* the request being served, or Null
    phase,      \* where serve is, see below
    ctxDone,    \* its context is done
    result,     \* the guest's state.result: Null (pending), or whose and what
    wait,       \* request -> what its handler awaits
    ops,        \* the requests with a pending operation on the loop
    pump,       \* request -> its __fbw_stream_body pump
    gen,        \* request -> the gen its pump was given
    streamGen,  \* worker.streamGen
    sink,       \* worker.sink: Null, or the response being streamed
    written,    \* request -> the requests whose pumps wrote into its response
    lost,       \* the requests some chunk of whose pump was not written
    answer      \* request -> what its client got, Null before that

workerVars ==
    <<cur, phase, ctxDone, result, wait, ops, pump, gen, streamGen, sink, written, lost, answer>>
guestVars == <<result, wait>>
streamVars == <<pump, gen, streamGen, written, lost>>

WorkerInit ==
    /\ cur = Null /\ phase = "idle" /\ ctxDone = FALSE
    /\ result = Null
    /\ wait = [r \in Requests |-> "none"]
    /\ ops = {}
    /\ pump = [r \in Requests |-> "none"]
    /\ gen = [r \in Requests |-> 0]
    /\ streamGen = 0
    /\ sink = Null
    /\ written = [r \in Requests |-> {}]
    /\ lost = {}
    /\ answer = [r \in Requests |-> Null]

\* serve reads the body, drives the handler, takes the Response apart and
\* writes it; a stream is driven in turns, and a write of it may block.
Phases == {"idle", "body", "run", "reply", "stream", "write"}

\* The host is inside RunUntil, and not in a callback.
LoopRuns == phase \in {"run", "stream"}

\* Where serve waits for a client, or for the guest, without its context.
Uncancelled == {"body", "reply", "write"}

\* The context of the request ends.
ContextEnds ==
    /\ phase # "idle" /\ ~ctxDone
    /\ ctxDone' = TRUE
    /\ UNCHANGED <<cur, phase, guestVars, ops, streamVars, sink, answer>>

\* serve returns or panics.  Its deferred function, and the one of
\* serveStreamingBody, run on every path: the loop is reset, the sink cleared.
Return(a) ==
    /\ answer' = [answer EXCEPT ![cur] = a]
    /\ cur' = Null /\ phase' = "idle" /\ ctxDone' = FALSE
    /\ ops' = {}
    /\ sink' = Null

Failed == [by |-> Null, as |-> "failed"]

(***************************************************************************)
(* serve.                                                                  *)
(***************************************************************************)

\* The pool hands the instance to a request, whose body is read first, for
\* as long as its client takes to send it (io.ReadAll).
Serve(r) ==
    /\ phase = "idle" /\ answer[r] = Null
    /\ cur' = r /\ phase' = "body"
    /\ UNCHANGED <<ctxDone, guestVars, ops, streamVars, sink, answer>>

\* The body is too large, or the Request cannot be built or handed over.
RequestFails ==
    /\ phase = "body"
    /\ Return(Failed)
    /\ UNCHANGED <<guestVars, streamVars>>

\* __fbw_run: the result is reset and the handler queued as a microtask.
Run ==
    /\ phase = "body"
    /\ result' = Null
    /\ wait' = [wait EXCEPT ![cur] = "ready"]
    /\ phase' = "run"
    /\ UNCHANGED <<cur, ctxDone, ops, streamVars, sink, answer>>

\* The code of a handler executes: it may resolve promises that others await,
\* and then settles, which sets the result, or awaits again.
Execute(r) ==
    /\ LoopRuns
    /\ wait[r] = "ready" \/ (wait[r] = "op" /\ r \in ops)
    /\ \E woken \in SUBSET {s \in Requests \ {r} : wait[s] = "shared"},
          next \in {"op", "shared", "over"} :
          /\ wait' = [s \in Requests |-> IF s = r THEN next
                                      ELSE IF s \in woken THEN "ready" ELSE wait[s]]
          /\ ops' = IF next = "op" THEN ops \cup {r} ELSE ops \ {r}
          /\ IF next = "over"
             THEN \E k \in {"buffered", "stream", "error"} : result' = [by |-> r, kind |-> k]
             ELSE UNCHANGED result
    /\ UNCHANGED <<cur, phase, ctxDone, streamVars, sink, answer>>

\* RunUntil gives up: its context is done, or the loop is idle and the
\* promise pending ("handler never settled").
RunGivesUp ==
    /\ phase = "run"
    /\ \/ ctxDone
       \/ result = Null /\ ops = {} /\ \A r \in Requests : wait[r] # "ready"
    /\ Return(Failed)
    /\ UNCHANGED <<guestVars, streamVars>>

\* RunUntil saw the status flip: an error is answered 500, a value is asked
\* for its status, its headers and its body.
Settle ==
    /\ phase = "run" /\ result # Null
    /\ \/ result.kind = "error" /\ Return(Failed)
       \/ /\ result.kind # "error"
          /\ phase' = "reply"
          /\ UNCHANGED <<cur, ctxDone, ops, sink, answer>>
    /\ UNCHANGED <<guestVars, streamVars>>

\* The guest's methods have returned and a buffered body is written, or the
\* value is no Response (500).
Respond ==
    /\ phase = "reply"
    /\ \/ result.kind = "buffered" /\ Return([by |-> result.by, as |-> "complete"])
       \/ Return(Failed)
    /\ UNCHANGED <<guestVars, streamVars>>

(***************************************************************************)
(* serveStreamingBody.                                                     *)
(***************************************************************************)

\* Status and headers go out, the sink is armed under a new generation, and
\* the guest starts the pump of the result's stream.
StreamStart ==
    /\ phase = "reply" /\ result.kind = "stream"
    /\ phase' = "stream"
    /\ streamGen' = streamGen + 1
    /\ sink' = [rw |-> cur, by |-> result.by, done |-> FALSE, failed |-> FALSE]
    /\ pump' = [pump EXCEPT ![cur] = "reading"]
    /\ gen' = [gen EXCEPT ![cur] = streamGen + 1]
    /\ UNCHANGED <<cur, ctxDone, guestVars, ops, written, lost, answer>>

\* Mutant: any armed sink will do.
AcceptsAny(r) == sink # Null

\* The test of hostWrite, hostDone and hostFail: the pump's generation is
\* the one of the response being streamed.
Accepts(r) == sink # Null /\ gen[r] = streamGen

\* The guest's fail(gen, msg) after a throw: the pump is over.
PumpThrows(r) ==
    /\ pump' = [pump EXCEPT ![r] = "over"]
    /\ sink' = IF Accepts(r) THEN [sink EXCEPT !.done = TRUE, !.failed = TRUE] ELSE sink

\* A pump, of this request or a stale one, has a chunk: hostWrite writes it
\* to the sink, or throws because the pump is stale.
PumpChunk(r) ==
    /\ LoopRuns /\ pump[r] = "reading"
    /\ \/ /\ Accepts(r)
          /\ pump' = [pump EXCEPT ![r] = "writing"]
          /\ phase' = "write"
          /\ UNCHANGED <<sink, lost>>
       \/ /\ ~Accepts(r)
          /\ lost' = lost \cup {r}
          /\ PumpThrows(r)
          /\ UNCHANGED phase
    /\ UNCHANGED <<cur, ctxDone, guestVars, ops, gen, streamGen, written, answer>>

\* The client has taken the chunk.
WriteDone(r) ==
    /\ phase = "write" /\ pump[r] = "writing"
    /\ written' = [written EXCEPT ![sink.rw] = @ \cup {r}]
    /\ pump' = [pump EXCEPT ![r] = "reading"]
    /\ phase' = "stream"
    /\ UNCHANGED <<cur, ctxDone, guestVars, ops, gen, streamGen, sink, lost, answer>>

\* Mutant: hostWrite does not report a failed write to the guest.
WriteFailsSilently(r) ==
    /\ phase = "write" /\ pump[r] = "writing"
    /\ lost' = lost \cup {r}
    /\ pump' = [pump EXCEPT ![r] = "reading"]
    /\ phase' = "stream"
    /\ UNCHANGED <<cur, ctxDone, guestVars, ops, gen, streamGen, sink, written, answer>>

\* The client is gone: hostWrite throws into the pump.
WriteFails(r) ==
    /\ phase = "write" /\ pump[r] = "writing"
    /\ lost' = lost \cup {r}
    /\ PumpThrows(r)
    /\ phase' = "stream"
    /\ UNCHANGED <<cur, ctxDone, guestVars, ops, gen, streamGen, written, answer>>

\* The stream ends: done(gen).
PumpEof(r) ==
    /\ LoopRuns /\ pump[r] = "reading"
    /\ pump' = [pump EXCEPT ![r] = "over"]
    /\ sink' = IF Accepts(r) THEN [sink EXCEPT !.done = TRUE] ELSE sink
    /\ UNCHANGED <<cur, phase, ctxDone, guestVars, ops, gen, streamGen, written, lost, answer>>

\* The stream errors, or its chunk is neither a string nor bytes.
PumpError(r) ==
    /\ LoopRuns /\ pump[r] = "reading"
    /\ PumpThrows(r)
    /\ UNCHANGED <<cur, phase, ctxDone, guestVars, ops, gen, streamGen, written, lost, answer>>

\* The pump is done: the response ends cleanly.
StreamDone ==
    /\ phase = "stream" /\ sink.done /\ ~sink.failed
    /\ Return([by |-> sink.by, as |-> "complete"])
    /\ UNCHANGED <<guestVars, streamVars>>

\* Mutant: the wait for the pump ignores the deadline.
StreamAbortWaits ==
    /\ phase = "stream" /\ sink.failed
    /\ Return([by |-> sink.by, as |-> "aborted"])
    /\ UNCHANGED <<guestVars, streamVars>>

\* The pump failed, the context is done, or the loop went idle under an
\* unfinished pump: the connection is aborted (panic ErrAbortHandler).
StreamAbort ==
    /\ phase = "stream" /\ (sink.failed \/ ~sink.done)
    /\ Return([by |-> sink.by, as |-> "aborted"])
    /\ UNCHANGED <<guestVars, streamVars>>

\* Every request has been answered.
WorkerQuiescent ==
    /\ \A r \in Requests : answer[r] # Null
    /\ UNCHANGED workerVars

-----------------------------------------------------------------------------

WorkerNext ==
    \/ \E r \in Requests : Serve(r)
    \/ ContextEnds
    \/ RequestFails \/ Run \/ RunGivesUp \/ Settle \/ Respond
    \/ \E r \in Requests : Execute(r)
    \/ StreamStart \/ StreamDone \/ StreamAbort
    \/ \E r \in Requests : PumpChunk(r) \/ PumpEof(r) \/ PumpError(r)
    \/ \E r \in Requests : WriteDone(r) \/ WriteFails(r)
    \/ WorkerQuiescent

(***************************************************************************)
(* Fairness.  The deadline of an invocation fires, and RunUntil notices it *)
(* however long the guest keeps the loop busy: between two writes of a     *)
(* stream it looks at the context each time, hence SF.  Nothing is assumed *)
(* of the phases in Uncancelled, whose steps may never come.               *)
(***************************************************************************)
WorkerFairness ==
    /\ WF_workerVars(ContextEnds)
    /\ WF_workerVars(ctxDone /\ (RunGivesUp \/ Settle))
    /\ SF_workerVars(ctxDone /\ (StreamDone \/ StreamAbort))

WorkerSpec == WorkerInit /\ [][WorkerNext]_workerVars

WorkerFairSpec == WorkerSpec /\ WorkerFairness

-----------------------------------------------------------------------------
(***************************************************************************)
(* Properties.                                                             *)
(***************************************************************************)

WorkerTypeOK ==
    /\ cur \in Requests \cup {Null}
    /\ phase \in Phases
    /\ ctxDone \in BOOLEAN
    /\ result \in Result \cup {Null}
    /\ wait \in [Requests -> {"none", "ready", "op", "shared", "over"}]
    /\ ops \subseteq Requests
    /\ pump \in [Requests -> {"none", "reading", "writing", "over"}]
    /\ gen \in [Requests -> Nat]
    /\ streamGen \in Nat
    /\ sink \in Sink \cup {Null}
    /\ written \in [Requests -> SUBSET Requests]
    /\ lost \subseteq Requests
    /\ answer \in [Requests -> Reply \cup {Null}]

\* The chunks of a response come from the pump started for it: a pump left
\* over from an earlier request never writes into a later response.
StreamsNeverMix == \A r \in Requests : written[r] \subseteq {r}

\* A streamed response that ends cleanly is whole: a chunk that could not be
\* written always shows as an aborted connection.
CleanEndIsWhole ==
    \A r \in Requests : pump[r] # "none" /\ answer[r] # Null /\ answer[r].as = "complete"
        => r \notin lost

\* Between two requests nothing is left on the loop and no response writer is
\* kept, whichever way the first one ended.
NothingLeftBehind == phase \in {"idle", "body"} => ops = {} /\ sink = Null

\* Generations number the pumps, and the armed sink is the current request's.
GenInv ==
    /\ phase \in {"stream", "write"} <=> sink # Null
    /\ phase = "idle" <=> cur = Null
    /\ sink # Null => sink.rw = cur /\ gen[cur] = streamGen
    /\ \A r \in Requests : gen[r] <= streamGen
    /\ \A r \in Requests : pump[r] = "none" <=> gen[r] = 0
    /\ \A r, s \in Requests : gen[r] = gen[s] /\ gen[r] # 0 => r = s

\* What a pump says of its request: one that lost a chunk is over and its
\* response failed; one whose request is not being streamed is stale.
PumpInv ==
    /\ cur # Null => answer[cur] = Null
    /\ phase \in {"body", "run", "reply"} => pump[cur] = "none"
    /\ phase = "reply" => result # Null
    /\ phase = "write" => pump[cur] = "writing"
    /\ \A r \in Requests : pump[r] = "writing" => phase = "write" /\ r = cur
    /\ sink # Null => (sink.done <=> pump[cur] = "over") /\ (sink.failed => sink.done)
    /\ sink # Null /\ cur \in lost => sink.failed
    /\ \A r \in Requests \ {cur} : pump[r] # "none" => answer[r] # Null
    /\ \A r \in Requests :
          pump[r] # "none" /\ answer[r] # Null /\ answer[r].as = "complete" => pump[r] = "over"
    /\ \A r \in lost : pump[r] = "over"

\* The inductive invariant.
WorkerInv ==
    /\ WorkerTypeOK
    /\ GenInv
    /\ PumpInv
    /\ StreamsNeverMix
    /\ CleanEndIsWhole
    /\ NothingLeftBehind

\* Every request leaves the instance in the end, whatever its handler and its
\* stream do: only a client that neither sends nor reads, or a method of the
\* guest's Response that never returns, keeps the instance for ever.
InstanceComesBack ==
    phase # "idle" ~> (phase = "idle" \/ [](phase \in Uncancelled))

\* What the comment on serve's deferred function says: one request's
\* un-awaited work cannot fire during the next, so what a client gets is the
\* result of its own request's handler.
AnswerIsOwn == \A r \in Requests : answer[r] # Null => answer[r].by \in {r, Null}
=============================================================================
