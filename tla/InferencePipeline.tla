---------------------------- MODULE InferencePipeline ----------------------------
(***************************************************************************)
(* InferencePipelineJob: counts are sent to the model server without       *)
(* blocking the operator, and become predictions as they are answered.     *)
(*                                                                         *)
(* A count stands for its position in the topic.  Flink's asynchronous     *)
(* operator is external: the first completion of a request wins, its timer *)
(* asks whether there has been one and then calls timeout, a checkpoint    *)
(* keeps the counts whose predictions have not been emitted.               *)
(***************************************************************************)
EXTENDS IcebergMaintenance

CONSTANTS MaxCounts,  \* bound: counts CountsArePredicted looks at
          ServeSettings

Labels == {"label", "error"}

ASSUME ServeAssumption ==
    /\ MaxCounts \in Nat /\ None \notin Labels
    /\ ServeSettings \subseteq [runs : BOOLEAN, badUrl : BOOLEAN, crashes : BOOLEAN, capacity : Nat \ {0}]

VARIABLES serve,      \* whether the job runs, MODEL_SERVER_URL is no URL, it crashes; ASYNC_MAX_CONCURRENT
          infer,      \* the job
          inferSaved, \* its last checkpoint
          unsentPredictions, predictions  \* <<count, label>> in the producer's buffer and in user.event.predictions

sinkVars == <<unsentPredictions, predictions>>
inferVars == <<serve, infer, inferSaved, sinkVars>>

\* waiting: counts in the operator's queue and how they were completed;
\* open: requests without an answer; expired: timers past their question;
\* predicted: what was emitted, as the checkpoints know it; fresh: what was
\* emitted since the job was last started.
NewPipeline == [pc |-> "running", pos |-> 0, waiting |-> <<>>, open |-> {}, expired |-> {}, predicted |-> <<>>,
                fresh |-> {}, requests |-> 0, errors |-> 0]

InferInit ==
    /\ serve \in ServeSettings /\ infer = NewPipeline /\ inferSaved = NewPipeline
    /\ unsentPredictions = {} /\ predictions = {}

Serving == serve.runs /\ infer.pc = "running"
Set(f, x, v) == [y \in DOMAIN f \cup {x} |-> IF y = x THEN v ELSE f[y]]

\* ResultFuture.complete: only the first one counts.
Completed(i, label) == IF i \in DOMAIN infer.waiting /\ infer.waiting[i] = None
                       THEN Set(infer.waiting, i, label) ELSE infer.waiting

\* Mutant: a flag instead of a counter.
ErrorsOnce(n, label) == IF label = "error" THEN 1 ELSE n

Errors(n, label) == IF label = "error" THEN n + 1 ELSE n

\* asyncInvoke; a request that cannot be built is answered at once.
Invoke ==
    /\ Serving /\ infer.pos < Len(counts) /\ Cardinality(DOMAIN infer.waiting) < serve.capacity
    /\ LET i == infer.pos + 1
           first == IF serve.badUrl THEN "error" ELSE None
       IN infer' = [infer EXCEPT !.pos = i, !.requests = @ + 1, !.errors = Errors(@, first),
                        !.waiting = Set(@, i, first), !.open = IF serve.badUrl THEN @ ELSE @ \cup {i}]
    /\ UNCHANGED <<serve, inferSaved, sinkVars>>

\* The response or its failure arrives, however late: another status than 200,
\* an exception and a body that is no JSON are errors.
Respond ==
    \E i \in infer.open, label \in Labels :
       /\ Serving
       /\ infer' = [infer EXCEPT !.open = @ \ {i}, !.errors = Errors(@, label), !.waiting = Completed(i, label)]
       /\ UNCHANGED <<serve, inferSaved, sinkVars>>

\* The timer finds a request that has not been completed.
TimerFires ==
    \E i \in DOMAIN infer.waiting \ infer.expired :
       /\ Serving /\ infer.waiting[i] = None
       /\ infer' = [infer EXCEPT !.expired = @ \cup {i}]
       /\ UNCHANGED <<serve, inferSaved, sinkVars>>

\* Mutant: the timeout waits for the request it is to give up.
TimeoutAwaitsAnswer ==
    \E i \in infer.expired \ infer.open :
       /\ Serving
       /\ infer' = [infer EXCEPT !.expired = @ \ {i}, !.errors = @ + 1, !.waiting = Completed(i, "error")]
       /\ UNCHANGED <<serve, inferSaved, sinkVars>>

\* timeout; an answer may have come since the timer asked.
Timeout ==
    \E i \in infer.expired :
       /\ Serving
       /\ infer' = [infer EXCEPT !.expired = @ \ {i}, !.errors = @ + 1, !.waiting = Completed(i, "error")]
       /\ UNCHANGED <<serve, inferSaved, sinkVars>>

\* unorderedWait: in the order of completion, to the producer of the sink.
Emit ==
    \E i \in DOMAIN infer.waiting \ infer.expired :
       /\ Serving /\ infer.waiting[i] # None
       /\ LET prediction == <<i, infer.waiting[i]>>
          IN /\ infer' = [infer EXCEPT !.waiting = Without(@, {i}), !.predicted = Set(@, i, infer.waiting[i]),
                                       !.fresh = @ \cup {prediction}]
             /\ unsentPredictions' = unsentPredictions \cup {prediction}
       /\ UNCHANGED <<serve, inferSaved, predictions>>

\* The producer sends in the background; the sink sets no delivery guarantee.
SendPrediction ==
    \E prediction \in unsentPredictions :
       /\ predictions' = predictions \cup {prediction} /\ unsentPredictions' = unsentPredictions \ {prediction}
       /\ UNCHANGED <<serve, infer, inferSaved>>

InferCheckpoint ==
    /\ Serving /\ serve.crashes /\ infer # inferSaved
    /\ inferSaved' = infer
    /\ UNCHANGED <<serve, infer, sinkVars>>

InferCrash ==
    /\ Serving /\ serve.crashes /\ fails < MaxFails
    /\ fails' = fails + 1 /\ infer' = [infer EXCEPT !.pc = "down"] /\ unsentPredictions' = {}
    /\ UNCHANGED <<serve, inferSaved, predictions>>

\* The counts of the queue are sent again, and the metrics start again.  The
\* predictions that were sent stay.
InferRestart ==
    /\ infer.pc = "down"
    /\ LET queue == DOMAIN inferSaved.waiting
           first == IF serve.badUrl THEN "error" ELSE None
       IN infer' = [inferSaved EXCEPT !.waiting = [i \in queue |-> first], !.expired = {}, !.fresh = {},
                        !.open = IF serve.badUrl THEN {} ELSE queue,
                        !.requests = Cardinality(queue), !.errors = IF serve.badUrl THEN Cardinality(queue) ELSE 0]
    /\ UNCHANGED <<serve, inferSaved, sinkVars>>

\* What Flink does whether the model server answers or not.
FlinkStep == Invoke \/ TimerFires \/ Timeout \/ Emit \/ InferRestart

InferNext ==
    \/ (FlinkStep \/ Respond \/ SendPrediction \/ InferCheckpoint) /\ UNCHANGED fails
    \/ InferCrash

-----------------------------------------------------------------------------
(* Properties                                                              *)

\* The counts that wait as errors or were emitted as such since the start.
Failing == {i \in 1..infer.pos : (i \in DOMAIN infer.waiting /\ infer.waiting[i] = "error") \/ <<i, "error">> \in infer.fresh}
Written == unsentPredictions \cup predictions

\* Every count that was read waits or has been emitted, as the checkpoints know
\* it, and not both; no more wait than the capacity allows.  Whatever was
\* answered as an error since the job was started, whether it waits or has been
\* emitted, has been counted as one, and no request more than twice.  What a
\* running job has emitted is in the topic or on its way; a prediction is there
\* beyond that only where a job has crashed, and always one of a count.
PredictionsAddUp ==
    /\ infer.pos \in 0..Len(counts)
    /\ DOMAIN infer.waiting \cup DOMAIN infer.predicted = 1..infer.pos
    /\ DOMAIN infer.waiting \cap DOMAIN infer.predicted = {}
    /\ Cardinality(DOMAIN infer.waiting) <= serve.capacity
    /\ infer.expired \subseteq DOMAIN infer.waiting /\ infer.open \subseteq 1..infer.pos
    /\ infer.errors <= 2 * infer.requests
    /\ Cardinality(Failing) <= infer.errors
    /\ \A x \in infer.fresh : x[1] \in DOMAIN infer.predicted /\ x[2] = infer.predicted[x[1]]
    /\ infer.pc = "running" => infer.fresh \subseteq Written
    /\ fails = 0 => Written = {<<i, infer.predicted[i]>> : i \in DOMAIN infer.predicted}
    /\ Written \subseteq (1..Len(counts)) \X Labels

\* Every count in the topic is predicted in the end, be it as an error: the
\* job's own timeout suffices, whatever the model server does.  So the operator
\* emits it; the producer may lose it in a crash.
CountsArePredicted ==
    \A i \in 1..MaxCounts : (serve.runs /\ i <= Len(counts)) ~> (i \in DOMAIN infer.predicted)
=============================================================================
