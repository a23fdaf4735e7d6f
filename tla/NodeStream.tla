----------------------------- MODULE NodeStream -----------------------------
(***************************************************************************)
(* node:stream: a source made of an iterable is piped through a transform  *)
(* into a sink under stream/promises' pipeline, while another reader       *)
(* iterates over the source.  Nothing is buffered between the streams: a   *)
(* chunk runs from push to the sink's write unless the transform answers   *)
(* later.  Whether pause was called is asked nowhere, so it is left out.   *)
(* Source: src/e-agent-node-runtime/src/runtime.rs (node:stream).          *)
(***************************************************************************)
EXTENDS Naturals, Sequences

CONSTANT MaxFed   \* bound: chunks the iterable has

ASSUME NodeStreamConstants == MaxFed \in Nat

VARIABLES
  slow,          \* which of the script's functions answer later
  fed,           \* chunks pushed by the source: 1..fed
  source,        \* "unmade", "open", "ending" (its end is queued), "ended" or "failed"
  transforming,  \* chunks whose transform has not answered
  through,       \* the transform: "open", "ending" or "ended"
  piped,         \* is the transform still piped into the sink?
  handed,        \* chunks the sink's write was called with, in order
  written,       \* those whose write has answered
  failing,       \* those whose write has failed
  sink,          \* "open", "finishing", "finished" or "failed"
  destroyed,     \* which of "through" and "sink" are
  pipelined,     \* the pipeline's promise: "none", "pending", "resolved" or "rejected"
  reader         \* the iterator: where it is, what it holds, what it has given

nodeStreamVars == <<slow, fed, source, transforming, through, piped, handed, written, failing,
                    sink, destroyed, pipelined, reader>>
sinkVars == <<handed, written, failing, sink>>
throughVars == <<transforming, through, piped, destroyed>>

ScriptFunctions == {"transform", "write", "final"}

NodeStreamInit ==
  /\ slow = {} /\ fed = 0 /\ source = "unmade"
  /\ transforming = {} /\ through = "open" /\ piped = TRUE
  /\ handed = <<>> /\ written = {} /\ failing = {} /\ sink = "open" /\ destroyed = {}
  /\ pipelined = "none"
  /\ reader = [at |-> "none", from |-> 0, held |-> <<>>, given |-> <<>>, over |-> "no"]

\* The script makes the streams and calls pipeline.
StartPipeline ==
  /\ source = "unmade" /\ source' = "open"
  /\ slow' \in SUBSET ScriptFunctions
  /\ pipelined' = "pending"
  /\ UNCHANGED <<fed, throughVars, sinkVars, reader>>

\* settleResolve, settleReject: the first one counts.
Settled(how) == IF pipelined = "pending" THEN how ELSE pipelined

(***************************************************************************)
(* The sink.                                                               *)
(***************************************************************************)

\* Writable.write, called by the pipe.  An error rejects the pipeline and stops
\* nothing.  Once the sink has ended nothing is piped into it.
Write(chunk) ==
  /\ handed' = Append(handed, chunk)
  /\ \/ /\ "write" \in slow
        /\ UNCHANGED <<written, failing, pipelined>>
     \/ /\ "write" \notin slow
        /\ written' = written \union {chunk}
        /\ UNCHANGED <<failing, pipelined>>
     \/ /\ "write" \notin slow
        /\ failing' = failing \union {chunk} /\ pipelined' = Settled("rejected")
        /\ UNCHANGED written
  /\ UNCHANGED sink

\* Transform's push: who is not piped any more hears nothing.
PushOn(chunk) ==
  IF piped THEN Write(chunk) ELSE UNCHANGED <<sinkVars, pipelined>>

\* The sink's final function answers.
Finishes ==
  \/ sink' = "finished" /\ pipelined' = Settled("resolved")
  \/ sink' = "failed" /\ pipelined' = Settled("rejected")

WriteReturns(chunk) ==
  /\ \E i \in 1..Len(handed) : handed[i] = chunk
  /\ chunk \notin written \union failing
  /\ \/ written' = written \union {chunk} /\ UNCHANGED <<failing, pipelined>>
     \/ failing' = failing \union {chunk} /\ pipelined' = Settled("rejected") /\ UNCHANGED written
  /\ UNCHANGED <<slow, fed, source, throughVars, handed, sink, reader>>

FinalReturns ==
  /\ sink = "finishing" /\ Finishes
  /\ UNCHANGED <<slow, fed, source, throughVars, handed, written, failing, reader>>

\* The script destroys the sink: its close resolves the pipeline.
DestroySink ==
  /\ source # "unmade" /\ "sink" \notin destroyed
  /\ destroyed' = destroyed \union {"sink"}
  /\ pipelined' = Settled("resolved")
  /\ UNCHANGED <<slow, fed, source, transforming, through, piped, sinkVars, reader>>

(***************************************************************************)
(* The transform.                                                          *)
(***************************************************************************)

\* An error of the transform, its own or the source's: the pipe is cleaned up and
\* the sink destroyed.
ThroughFails ==
  /\ piped' = FALSE
  /\ pipelined' = Settled("rejected")
  /\ UNCHANGED sinkVars

\* The transform answers with the chunk or an error.
Transformed(chunk) ==
  \/ /\ PushOn(chunk)
     /\ UNCHANGED <<through, piped, destroyed>>
  \/ /\ ThroughFails
     /\ destroyed' = IF piped THEN destroyed \union {"sink"} ELSE destroyed
     /\ UNCHANGED through

TransformReturns(chunk) ==
  /\ chunk \in transforming
  /\ transforming' = transforming \ {chunk}
  /\ Transformed(chunk)
  /\ UNCHANGED <<slow, fed, source, reader>>

\* The end event of the transform reaches the pipe, which ends the sink.
ThroughEnds ==
  /\ through = "ending" /\ through' = "ended"
  /\ piped' = FALSE
  /\ IF ~piped THEN UNCHANGED <<sink, pipelined>>
     ELSE IF "final" \in slow THEN sink' = "finishing" /\ UNCHANGED pipelined
     ELSE Finishes
  /\ UNCHANGED <<slow, fed, source, transforming, destroyed, handed, written, failing, reader>>

(***************************************************************************)
(* The reader: for await over the source, one next at a time.              *)
(***************************************************************************)
Attach ==
  /\ source # "unmade" /\ reader.at = "none"
  /\ reader' = [reader EXCEPT !.at = "running", !.from = fed]
  /\ UNCHANGED <<slow, fed, source, throughVars, sinkVars, pipelined>>

\* next: what is held, then the failure, then the end, or it waits.
ReadNext ==
  /\ reader.at = "running"
  /\ reader' = IF reader.held # <<>>
               THEN [reader EXCEPT !.held = Tail(@), !.given = Append(@, Head(reader.held))]
               ELSE [reader EXCEPT !.at = CASE reader.over = "error" -> "threw"
                                            [] reader.over = "end" -> "done"
                                            [] OTHER -> "waiting"]
  /\ UNCHANGED <<slow, fed, source, throughVars, sinkVars, pipelined>>

\* return: the loop is left early.
ReaderLeaves ==
  /\ reader.at = "running"
  /\ reader' = [reader EXCEPT !.at = "left"]
  /\ UNCHANGED <<slow, fed, source, throughVars, sinkVars, pipelined>>

Listening == reader.at \in {"running", "waiting"}

Hears(chunk) ==
  CASE reader.at = "waiting" ->
         [reader EXCEPT !.at = "running", !.given = Append(@, chunk)]
    [] reader.at = "running" -> [reader EXCEPT !.held = Append(@, chunk)]
    [] OTHER -> reader

HearsTheEnd(over, at) ==
  CASE reader.at = "waiting" -> [reader EXCEPT !.at = at, !.over = over]
    [] reader.at = "running" -> [reader EXCEPT !.over = over]
    [] OTHER -> reader

(***************************************************************************)
(* The source: Readable.from.                                              *)
(***************************************************************************)
Feed ==
  /\ source = "open" /\ fed < MaxFed
  /\ fed' = fed + 1
  /\ IF "transform" \in slow
     THEN /\ transforming' = transforming \union {fed + 1}
          /\ UNCHANGED <<through, piped, destroyed, sinkVars, pipelined>>
     ELSE Transformed(fed + 1) /\ UNCHANGED transforming
  /\ reader' = Hears(fed + 1)
  /\ UNCHANGED <<slow, source>>

\* push(null): the event comes with a microtask.
PushEnd ==
  /\ source = "open" /\ source' = "ending"
  /\ UNCHANGED <<slow, fed, throughVars, sinkVars, pipelined, reader>>

\* end: the pipe ends the transform, which queues an end of its own.
SourceEnds ==
  /\ source = "ending" /\ source' = "ended"
  /\ through' = "ending"
  /\ reader' = HearsTheEnd("end", "done")
  /\ UNCHANGED <<slow, fed, transforming, piped, destroyed, sinkVars, pipelined>>

\* Mutant: the pipe is cleaned up and what is behind it not destroyed.
SourceFailsAlone ==
  /\ source = "open" /\ source' = "failed"
  /\ pipelined' = Settled("rejected")
  /\ reader' = HearsTheEnd("error", "threw")
  /\ UNCHANGED <<slow, fed, throughVars, sinkVars>>

\* The iterable throws: the error destroys the transform and, through it, the sink.
SourceFails ==
  /\ source = "open" /\ source' = "failed"
  /\ ThroughFails
  /\ destroyed' = destroyed \union {"through"} \union (IF piped THEN {"sink"} ELSE {})
  /\ reader' = HearsTheEnd("error", "threw")
  /\ UNCHANGED <<slow, fed, transforming, through>>

NodeStreamNext ==
  \/ StartPipeline
  \/ Feed \/ PushEnd \/ SourceEnds \/ SourceFails
  \/ \E chunk \in 1..MaxFed : TransformReturns(chunk) \/ WriteReturns(chunk)
  \/ ThroughEnds \/ FinalReturns \/ DestroySink
  \/ Attach \/ ReadNext \/ ReaderLeaves

\* An iterable ends or throws, microtasks run, and the loop over the source goes on.
\* Of the script's functions only final is said to answer.
NodeStreamFairness ==
  /\ WF_nodeStreamVars(Feed \/ PushEnd \/ SourceEnds \/ SourceFails \/ ThroughEnds \/ FinalReturns)
  /\ WF_nodeStreamVars(ReadNext)

NodeStreamSpec == NodeStreamInit /\ [][NodeStreamNext]_nodeStreamVars /\ NodeStreamFairness

(***************************************************************************)
(* Properties.                                                             *)
(***************************************************************************)
NodeStreamTypeOK ==
  /\ fed \in 0..MaxFed /\ transforming \subseteq 1..fed
  /\ source \in {"unmade", "open", "ending", "ended", "failed"}
  /\ through \in {"open", "ending", "ended"}
  /\ handed \in Seq(1..fed) /\ written \union failing \subseteq {handed[i] : i \in 1..Len(handed)}
  /\ sink \in {"open", "finishing", "finished", "failed"} /\ destroyed \subseteq {"through", "sink"}
  /\ pipelined \in {"none", "pending", "resolved", "rejected"}
  /\ reader.at \in {"none", "running", "waiting", "done", "threw", "left"}

\* The sink gets each chunk at most once and nothing after its end was asked for;
\* in the source's order when the transform answers at once.
SinkIsServedInOrder ==
  /\ \A i, j \in 1..Len(handed) : i # j => handed[i] # handed[j]
  /\ sink # "open" => ~piped
  /\ "transform" \notin slow => \A i \in 1..Len(handed) : handed[i] = i

\* A pipeline resolves only if the source has ended, every chunk reached the sink and
\* its final function agreed; every write has answered too.  That is what tests of
\* pipeline rely on, whose functions answer at once: with a slow transform chunks are
\* lost, with a slow write they may still be under way, and a sink that is destroyed
\* resolves it too.
ResolvedMeansWritten ==
  pipelined = "resolved" /\ "sink" \notin destroyed
    => /\ source = "ended" /\ through = "ended" /\ sink = "finished"
       /\ "transform" \notin slow => Len(handed) = fed
       /\ {"transform", "write"} \intersect slow = {} => written = 1..fed

\* The reader gets every chunk from where it came in, in order and once, and is not
\* told the end before it has had them all.
ReaderMissesNothing ==
  /\ \A i \in 1..Len(reader.given) : reader.given[i] = reader.from + i
  /\ \A i \in 1..Len(reader.held) : reader.held[i] = reader.from + Len(reader.given) + i
  /\ reader.at \in {"running", "waiting", "done", "threw"}
       => reader.from + Len(reader.given) + Len(reader.held) = fed
  /\ reader.at \in {"done", "threw"} => reader.held = <<>>

\* When the source or the transform has failed, nothing more reaches the sink, which
\* is destroyed, however many transforms still answer.
FailureStopsThePipe ==
  [][source = "failed" => handed' = handed /\ "sink" \in destroyed /\ pipelined # "pending"]_nodeStreamVars

\* A pipeline settles although the writes and transforms never answer, and a loop that
\* began before the source's end is over some day: it is told the end or the error.
StreamsSettle ==
  LET Unfinished == \/ pipelined = "pending"
                    \/ Listening /\ (source \in {"open", "ending"} \/ reader.over # "no")
  IN  Unfinished ~> ~Unfinished

\* A pipeline delivers in order, resolves for a reason and stops at a failure, the
\* reader beside it misses nothing, and both come to an end.
PipelinesAreSound ==
  /\ [](NodeStreamTypeOK /\ SinkIsServedInOrder /\ ResolvedMeansWritten /\ ReaderMissesNothing)
  /\ FailureStopsThePipe /\ StreamsSettle
=============================================================================
