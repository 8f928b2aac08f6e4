------------------------------ MODULE StreamProofs ------------------------------
(***************************************************************************)
(* Proofs about the stream processor: the predictions that are made of the *)
(* counts, the signals of the drift monitor, the maintenance of the table, *)
(* and the counts themselves, for any feed, any settings and any number of *)
(* crashes.                                                                *)
(***************************************************************************)
EXTENDS StreamProcessor, FiniteSetTheorems, WellFoundedInduction, TLAPS

LEMMA LeastNumber ==
    ASSUME NEW T, T \subseteq Nat, T # {}
    PROVE  \E x \in T : \A y \in T : x <= y
<1>1. PICK x \in T : \A y \in T : ~(<<y, x>> \in OpToRel(<, Nat))
  BY WFMin, NatLessThanWellFounded
<1>2. \A y \in T : ~(y < x)
  BY <1>1 DEF OpToRel
<1> QED  BY <1>2

-----------------------------------------------------------------------------
(* The topic of counts                                                     *)

\* Whatever rows are: the topic and the producers' buffers hold sequences of them.
CountsInv == \E S : counts \in Seq(S) /\ unsent \in [StreamJob -> Seq(S)]

LEMMA CountsStart == Init => CountsInv
<1> SUFFICES ASSUME Init PROVE CountsInv
  OBVIOUS
<1>1. counts = <<>> /\ unsent = [j \in StreamJob |-> <<>>]
  BY DEF Init, JobInit
<1>2. counts \in Seq({}) /\ unsent \in [StreamJob -> Seq({})]
  BY <1>1
<1> QED  BY <1>2 DEF CountsInv

\* Nothing is taken out of the topic.
LEMMA CountsGrow ==
    ASSUME CountsInv, [Next]_vars
    PROVE  CountsInv' /\ Len(counts) \in Nat /\ Len(counts') \in Nat /\ Len(counts) <= Len(counts')
<1>1. PICK S : counts \in Seq(S) /\ unsent \in [StreamJob -> Seq(S)]
  BY DEF CountsInv
<1> DEFINE Grown(T) == /\ counts' \in Seq(T) /\ unsent' \in [StreamJob -> Seq(T)]
                       /\ Len(counts) <= Len(counts')
<1>2. CASE UNCHANGED <<counts, unsent>>
  BY <1>1, <1>2 DEF CountsInv
<1>3. ASSUME NEW j \in StreamJob, Fire(j)
      PROVE  \E T : Grown(T)
  <2>1. PICK row : unsent' = [unsent EXCEPT ![j] = Append(@, row)] /\ counts' = counts
    BY <1>3 DEF Fire
  <2> DEFINE T == S \cup {row}
  <2>2. counts \in Seq(T) /\ unsent \in [StreamJob -> Seq(T)] /\ row \in T
    <3>1. \A s \in Seq(S) : s \in Seq(T)
      OBVIOUS
    <3> QED  BY <1>1, <3>1
  <2> HIDE DEF T
  <2>3. Append(unsent[j], row) \in Seq(T)
    BY <2>2
  <2>4. unsent' \in [StreamJob -> Seq(T)]
    BY <2>1, <2>2, <2>3
  <2>5. Len(counts) <= Len(counts')
    BY <1>1, <2>1
  <2> QED  BY <2>1, <2>2, <2>4, <2>5
<1>4. ASSUME NEW j \in StreamJob, Send(j)
      PROVE  Grown(S)
  <2>1. /\ unsent[j] \in Seq(S) /\ unsent[j] # <<>>
        /\ counts' = Append(counts, Head(unsent[j])) /\ unsent' = [unsent EXCEPT ![j] = Tail(@)]
    BY <1>1, <1>4 DEF Send
  <2>2. Head(unsent[j]) \in S /\ Tail(unsent[j]) \in Seq(S)
    BY <2>1
  <2>3. counts' \in Seq(S) /\ Len(counts') = Len(counts) + 1
    BY <1>1, <2>1, <2>2
  <2> QED  BY <1>1, <2>1, <2>2, <2>3
<1>5. ASSUME NEW j \in StreamJob, Finish(j)
      PROVE  Grown(S)
  <2>1. /\ unsent[j] \in Seq(S) /\ counts' = counts \o unsent[j] /\ unsent' = [unsent EXCEPT ![j] = <<>>]
    BY <1>1, <1>5 DEF Finish
  <2>2. counts' \in Seq(S) /\ Len(counts') = Len(counts) + Len(unsent[j])
    BY <1>1, <2>1
  <2> QED  BY <1>1, <2>1, <2>2
<1>6. ASSUME NEW j \in StreamJob, Crash(j)
      PROVE  Grown(S)
  BY <1>1, <1>6 DEF Crash
<1>7. CASE CareNext
  <2>1. Others
    BY <1>7 DEF CareNext, Load, DryExpire, Expire, Compact, Scan
  <2> QED  BY <1>2, <2>1 DEF Others
<1>8. CASE JobNext
  <2>1. CASE Produce \/ Tick \/ DlqStart \/ DlqRead \/ SendSignal
    BY <1>2, <2>1 DEF Produce, Tick, DlqStart, DlqRead, SendSignal
  <2>2. ASSUME NEW j \in StreamJob,
               \/ Submit(j) \/ CreateTable(j) \/ Skip(j) \/ Reject(j) \/ Quarantine(j) \/ Count(j)
               \/ Advance(j) \/ EndOfInput(j) \/ Monitor(j) \/ Flush(j) \/ Checkpoint(j) \/ Restart(j)
        PROVE  UNCHANGED <<counts, unsent>>
    BY <2>2 DEF Submit, CreateTable, Skip, Reject, Quarantine, Count, Advance, EndOfInput, Monitor, Flush, Checkpoint, Restart
  <2> QED  BY <1>2, <1>3, <1>4, <1>5, <1>6, <1>8, <2>1, <2>2 DEF JobNext, CountsInv
<1> QED  BY <1>1, <1>2, <1>7, <1>8 DEF Next, vars, jobVars

-----------------------------------------------------------------------------
(* Predictions                                                             *)

Answers == UNION {[S -> Labels \cup {None}] : S \in SUBSET Nat}

PipeRecords ==
    [pc : {"running", "down"}, pos : Nat, waiting : Answers, open : SUBSET Nat, expired : SUBSET Nat,
     predicted : Answers, fresh : SUBSET (Nat \X Labels), requests : Nat, errors : Nat]

\* Counts that may still time out, and those that wait or were emitted as errors.
Undone(r) == {i \in DOMAIN r.waiting : r.waiting[i] = None} \cup r.expired
Failed(r) == {i \in 1..r.pos : (i \in DOMAIN r.waiting /\ r.waiting[i] = "error") \/ <<i, "error">> \in r.fresh}

\* A request is an error at most once by its answer and once by its timeout:
\* what is open and what may time out are the errors that may still come.
AddsUp(r, n, most) ==
    /\ r \in PipeRecords
    /\ r.pos <= n
    /\ DOMAIN r.waiting \cup DOMAIN r.predicted = 1..r.pos
    /\ DOMAIN r.waiting \cap DOMAIN r.predicted = {}
    /\ {y[1] : y \in r.fresh} \subseteq DOMAIN r.predicted
    /\ Cardinality(DOMAIN r.waiting) <= most
    /\ r.expired \subseteq DOMAIN r.waiting /\ r.open \subseteq 1..r.pos
    /\ r.errors + Cardinality(r.open) + Cardinality(Undone(r)) <= 2 * r.requests
    /\ Cardinality(Failed(r)) <= r.errors

PredictInv ==
    /\ serve \in ServeSettings
    /\ AddsUp(infer, Len(counts), serve.capacity) /\ AddsUp(inferSaved, Len(counts), serve.capacity)

\* The sets of a pipeline are finite, and what it waits for is a function.
LEMMA PipeFacts ==
    ASSUME NEW r, NEW n, NEW most, AddsUp(r, n, most)
    PROVE  /\ r.pos \in Nat /\ r.requests \in Nat /\ r.errors \in Nat
           /\ r.waiting \in [DOMAIN r.waiting -> Labels \cup {None}]
           /\ r.predicted \in [DOMAIN r.predicted -> Labels \cup {None}]
           /\ IsFiniteSet(1..r.pos)
           /\ DOMAIN r.waiting \subseteq 1..r.pos /\ IsFiniteSet(DOMAIN r.waiting)
           /\ IsFiniteSet(r.open) /\ IsFiniteSet(Undone(r)) /\ IsFiniteSet(Failed(r))
           /\ Undone(r) \subseteq DOMAIN r.waiting /\ Failed(r) \subseteq 1..r.pos
           /\ Cardinality(DOMAIN r.waiting) \in Nat /\ Cardinality(r.open) \in Nat
           /\ Cardinality(Undone(r)) \in Nat /\ Cardinality(Failed(r)) \in Nat
<1>1. r.pos \in Nat /\ r.requests \in Nat /\ r.errors \in Nat /\ r.waiting \in Answers /\ r.predicted \in Answers
  BY DEF AddsUp, PipeRecords
<1>2. IsFiniteSet(1..r.pos)
  <2>1. 1 \in Int /\ r.pos \in Int
    BY <1>1
  <2> QED  BY <2>1, FS_Interval
<1>3. /\ r.waiting \in [DOMAIN r.waiting -> Labels \cup {None}]
      /\ r.predicted \in [DOMAIN r.predicted -> Labels \cup {None}]
  BY <1>1 DEF Answers
<1>4. DOMAIN r.waiting \subseteq 1..r.pos /\ r.open \subseteq 1..r.pos /\ r.expired \subseteq DOMAIN r.waiting
  BY DEF AddsUp
<1>5. Undone(r) \subseteq DOMAIN r.waiting /\ Failed(r) \subseteq 1..r.pos
  BY <1>4 DEF Undone, Failed
<1>6. IsFiniteSet(DOMAIN r.waiting) /\ IsFiniteSet(r.open)
  BY <1>2, <1>4, FS_Subset
<1>7. IsFiniteSet(Undone(r)) /\ IsFiniteSet(Failed(r))
  BY <1>2, <1>5, <1>6, FS_Subset
<1> QED  BY <1>1, <1>2, <1>3, <1>4, <1>5, <1>6, <1>7, FS_CardinalityType

LEMMA CardinalityShrinks ==
    ASSUME NEW T, IsFiniteSet(T), NEW S, S \subseteq T
    PROVE  IsFiniteSet(S) /\ Cardinality(S) \in Nat /\ Cardinality(S) <= Cardinality(T)
BY FS_Subset, FS_CardinalityType

LEMMA CardinalityAdds ==
    ASSUME NEW T, IsFiniteSet(T), NEW x, NEW S, S \subseteq T \cup {x}
    PROVE  IsFiniteSet(S) /\ Cardinality(S) \in Nat /\ Cardinality(S) <= Cardinality(T) + 1
<1>1. IsFiniteSet(T \cup {x}) /\ Cardinality(T) \in Nat /\ Cardinality(T \cup {x}) <= Cardinality(T) + 1
  BY FS_AddElement, FS_CardinalityType
<1>2. Cardinality(T \cup {x}) \in Nat
  BY <1>1, FS_CardinalityType
<1>3. IsFiniteSet(S) /\ Cardinality(S) \in Nat /\ Cardinality(S) <= Cardinality(T \cup {x})
  BY <1>1, FS_Subset, FS_CardinalityType
<1> QED  BY <1>1, <1>2, <1>3

LEMMA CardinalityDrops ==
    ASSUME NEW T, IsFiniteSet(T), NEW x \in T, NEW S, S \subseteq T \ {x}
    PROVE  IsFiniteSet(S) /\ Cardinality(S) \in Nat /\ Cardinality(S) + 1 <= Cardinality(T)
<1>1. /\ IsFiniteSet(T \ {x}) /\ Cardinality(T) \in Nat /\ Cardinality(T \ {x}) = Cardinality(T) - 1
  BY FS_RemoveElement, FS_CardinalityType
<1>2. IsFiniteSet(S) /\ Cardinality(S) \in Nat /\ Cardinality(S) <= Cardinality(T \ {x})
  BY <1>1, FS_Subset, FS_CardinalityType
<1> QED  BY <1>1, <1>2

LEMMA PredictStarts == Init => PredictInv
<1> SUFFICES ASSUME Init PROVE PredictInv
  OBVIOUS
<1>1. serve \in ServeSettings /\ infer = NewPipeline /\ inferSaved = NewPipeline /\ counts = <<>>
  BY StreamSettingsAssumption DEF Init, InferInit, JobInit
<1>2. serve.capacity \in Nat
  BY <1>1, ServeAssumption
<1>3. NewPipeline \in PipeRecords
  <2>1. DOMAIN <<>> = {}
    OBVIOUS
  <2>2. <<>> \in [{} -> Labels \cup {None}]
    BY <2>1
  <2>3. <<>> \in Answers
    BY <2>2 DEF Answers
  <2> QED  BY <2>3 DEF NewPipeline, PipeRecords
<1>4. AddsUp(NewPipeline, Len(counts), serve.capacity)
  <2>1. /\ NewPipeline.pos = 0 /\ DOMAIN NewPipeline.waiting = {} /\ DOMAIN NewPipeline.predicted = {}
        /\ NewPipeline.open = {} /\ NewPipeline.expired = {} /\ NewPipeline.requests = 0 /\ NewPipeline.errors = 0
        /\ NewPipeline.fresh = {}
    BY DEF NewPipeline
  <2>2. Undone(NewPipeline) = {} /\ Failed(NewPipeline) = {}
    BY <2>1 DEF Undone, Failed
  <2>3. Cardinality({}) = 0 /\ Len(counts) = 0 /\ 1..0 = {}
    BY <1>1, FS_EmptySet
  <2> QED  BY <1>2, <1>3, <2>1, <2>2, <2>3 DEF AddsUp
<1> QED  BY <1>1, <1>4 DEF PredictInv

\* Counts that arrive change nothing of a pipeline.
LEMMA StillAddsUp ==
    ASSUME NEW r, NEW n \in Nat, NEW m \in Nat, NEW most, AddsUp(r, n, most), n <= m
    PROVE  AddsUp(r, m, most)
<1>1. r.pos \in Nat
  BY PipeFacts
<1> QED  BY <1>1 DEF AddsUp

LEMMA AnswersChange ==
    ASSUME NEW f \in Answers, NEW i \in Nat, NEW label \in Labels \cup {None}
    PROVE  /\ Set(f, i, label) \in Answers /\ DOMAIN Set(f, i, label) = DOMAIN f \cup {i}
           /\ Without(f, {i}) \in Answers /\ DOMAIN Without(f, {i}) = DOMAIN f \ {i}
<1>1. PICK S \in SUBSET Nat : f \in [S -> Labels \cup {None}]
  BY DEF Answers
<1>2. /\ Set(f, i, label) \in [S \cup {i} -> Labels \cup {None}]
      /\ Without(f, {i}) \in [S \ {i} -> Labels \cup {None}]
      /\ S \cup {i} \in SUBSET Nat /\ S \ {i} \in SUBSET Nat
  BY <1>1 DEF Set, Without
<1>3. Set(f, i, label) \in Answers /\ Without(f, {i}) \in Answers
  BY <1>2 DEF Answers
<1> QED  BY <1>1, <1>3 DEF Set, Without

LEMMA InvokeKeeps ==
    ASSUME NEW n \in Nat, PredictInv, n = Len(counts), Invoke
    PROVE  AddsUp(infer', n, serve.capacity)
<1> DEFINE i == infer.pos + 1
           first == IF serve.badUrl THEN "error" ELSE None
           w == Set(infer.waiting, i, first)
           o == IF serve.badUrl THEN infer.open ELSE infer.open \cup {i}
           e == Errors(infer.errors, first)
           rec == [infer EXCEPT !.pos = i, !.requests = infer.requests + 1, !.errors = e, !.waiting = w, !.open = o]
<1>1. AddsUp(infer, n, serve.capacity) /\ infer \in PipeRecords /\ infer.pos < n
  BY DEF PredictInv, AddsUp, Invoke
<1>2. /\ infer.pos \in Nat /\ infer.requests \in Nat /\ infer.errors \in Nat
      /\ IsFiniteSet(DOMAIN infer.waiting) /\ DOMAIN infer.waiting \subseteq 1..infer.pos
      /\ IsFiniteSet(infer.open) /\ IsFiniteSet(Undone(infer)) /\ IsFiniteSet(Failed(infer))
      /\ Cardinality(DOMAIN infer.waiting) \in Nat /\ Cardinality(infer.open) \in Nat
      /\ Cardinality(Undone(infer)) \in Nat /\ Cardinality(Failed(infer)) \in Nat
      /\ infer.waiting \in Answers /\ infer.open \subseteq 1..infer.pos
  BY <1>1, PipeFacts DEF PipeRecords, AddsUp
<1>3. first \in Labels \cup {None} /\ serve.badUrl \in BOOLEAN /\ serve.capacity \in Nat
  BY ServeAssumption DEF Labels, PredictInv
<1>4. i \in Nat /\ i \notin 1..infer.pos /\ 1..i = 1..infer.pos \cup {i}
  BY <1>2
<1>5. /\ w \in Answers /\ DOMAIN w = DOMAIN infer.waiting \cup {i}
      /\ \A k \in DOMAIN w : w[k] = IF k = i THEN first ELSE infer.waiting[k]
  <2> HIDE DEF i, first
  <2>0. infer.waiting \in Answers /\ i \in Nat /\ first \in Labels \cup {None}
    BY <1>2, <1>3, <1>4
  <2>1. /\ w \in Answers /\ DOMAIN w = DOMAIN infer.waiting \cup {i}
        /\ \A k \in DOMAIN infer.waiting \cup {i} : w[k] = IF k = i THEN first ELSE infer.waiting[k]
    <3>1. PICK f \in Answers, l \in Labels \cup {None}, k \in Nat : f = infer.waiting /\ l = first /\ k = i
      BY <2>0
    <3>2. w = Set(f, k, l)
      BY <3>1 DEF w
    <3>3. Set(f, k, l) \in Answers
      BY AnswersChange
    <3>4. DOMAIN Set(f, k, l) = DOMAIN f \cup {k}
      BY AnswersChange
    <3>5. \A x \in DOMAIN f \cup {k} : Set(f, k, l)[x] = IF x = k THEN l ELSE f[x]
      BY DEF Set
    <3> QED  BY <3>1, <3>2, <3>3, <3>4, <3>5
  <2> QED  BY <2>1
<1>6. e \in Nat /\ o \in SUBSET Nat
  BY <1>2, <1>4 DEF Errors
<1>7. infer' = rec /\ Cardinality(DOMAIN infer.waiting) < serve.capacity
  BY DEF Invoke
<1>e. e = IF serve.badUrl THEN infer.errors + 1 ELSE infer.errors
  BY <1>3, ServeAssumption DEF Errors, Labels
<1>o. o = IF serve.badUrl THEN infer.open ELSE infer.open \cup {i}
  OBVIOUS
<1>f. first = IF serve.badUrl THEN "error" ELSE None
  OBVIOUS
<1> HIDE DEF w, o, e, first
<1>8. /\ rec \in PipeRecords /\ rec.pos = i /\ rec.requests = infer.requests + 1 /\ rec.errors = e
      /\ rec.waiting = w /\ rec.open = o /\ rec.expired = infer.expired /\ rec.predicted = infer.predicted
      /\ rec.fresh = infer.fresh
  <2> HIDE DEF i
  <2>1. infer.requests + 1 \in Nat
    BY <1>2
  <2> QED  BY <1>1, <1>4, <1>5, <1>6, <2>1 DEF PipeRecords
<1> HIDE DEF rec
<1>9. /\ infer.expired \subseteq DOMAIN infer.waiting
      /\ DOMAIN infer.waiting \cup DOMAIN infer.predicted = 1..infer.pos
      /\ DOMAIN infer.waiting \cap DOMAIN infer.predicted = {}
      /\ {y[1] : y \in infer.fresh} \subseteq DOMAIN infer.predicted
      /\ infer.errors + Cardinality(infer.open) + Cardinality(Undone(infer)) <= 2 * infer.requests
      /\ Cardinality(Failed(infer)) <= infer.errors
  BY <1>1 DEF AddsUp
<1>r. <<i, "error">> \notin infer.fresh
  <2>1. i \notin DOMAIN infer.predicted
    BY <1>4, <1>9
  <2> HIDE DEF i
  <2>2. ASSUME <<i, "error">> \in infer.fresh PROVE <<i, "error">>[1] \in DOMAIN infer.predicted
    BY <1>9, <2>2
  <2> QED  BY <2>1, <2>2
<1>n. /\ infer.requests \in Nat /\ infer.errors \in Nat /\ Cardinality(infer.open) \in Nat
      /\ Cardinality(Undone(infer)) \in Nat /\ Cardinality(Failed(infer)) \in Nat
  BY <1>2
<1>q. /\ infer.errors + Cardinality(infer.open) + Cardinality(Undone(infer)) <= 2 * infer.requests
      /\ Cardinality(Failed(infer)) <= infer.errors
  BY <1>9
<1>p. i <= n
  BY <1>1, <1>2
<1>10. /\ DOMAIN rec.waiting \cup DOMAIN rec.predicted = 1..rec.pos
       /\ DOMAIN rec.waiting \cap DOMAIN rec.predicted = {}
       /\ rec.expired \subseteq DOMAIN rec.waiting
       /\ {y[1] : y \in rec.fresh} \subseteq DOMAIN rec.predicted
  BY <1>4, <1>5, <1>8, <1>9
<1>11. rec.open \subseteq 1..rec.pos
  BY <1>2, <1>4, <1>8, <1>o
<1>12. Cardinality(DOMAIN rec.waiting) <= serve.capacity
  <2>1. /\ Cardinality(DOMAIN w) <= Cardinality(DOMAIN infer.waiting) + 1 /\ Cardinality(DOMAIN w) \in Nat
    BY <1>2, <1>5, CardinalityAdds
  <2> QED  BY <1>2, <1>3, <1>7, <1>8, <2>1
<1>13. CASE serve.badUrl
  <2>1. Undone(rec) \subseteq Undone(infer) /\ Failed(rec) \subseteq Failed(infer) \cup {i} /\ rec.open = infer.open
    BY <1>2, <1>3, <1>4, <1>5, <1>8, <1>13, <1>f, <1>o, ServeAssumption DEF Undone, Failed, Labels
  <2>2. /\ Cardinality(Undone(rec)) <= Cardinality(Undone(infer)) /\ Cardinality(Undone(rec)) \in Nat
        /\ Cardinality(Failed(rec)) <= Cardinality(Failed(infer)) + 1 /\ Cardinality(Failed(rec)) \in Nat
    BY <1>2, <2>1, CardinalityShrinks, CardinalityAdds
  <2>3. /\ rec.errors + Cardinality(rec.open) + Cardinality(Undone(rec)) <= 2 * rec.requests
        /\ Cardinality(Failed(rec)) <= rec.errors
    <3>1. e = infer.errors + 1
      BY <1>13, <1>e
    <3>2. /\ e + Cardinality(rec.open) + Cardinality(Undone(rec)) <= 2 * (infer.requests + 1)
          /\ Cardinality(Failed(rec)) <= e
      <4>1. e \in Nat /\ Cardinality(rec.open) \in Nat
        BY <1>n, <2>1, <2>2, <3>1
      <4>2. e + Cardinality(rec.open) + Cardinality(Undone(rec)) <= 2 * (infer.requests + 1)
        <5>1. PICK a \in Nat, b \in Nat, c \in Nat, d \in Nat :
                  a = infer.errors /\ b = Cardinality(infer.open) /\ c = Cardinality(Undone(infer)) /\ d = infer.requests
          BY <1>n
        <5>2. PICK x \in Nat, y \in Nat, z \in Nat :
                  x = e /\ y = Cardinality(rec.open) /\ z = Cardinality(Undone(rec))
          BY <2>2, <4>1
        <5>3. a + b + c <= 2 * d
          BY <1>q, <5>1
        <5>4. x <= a + 1 /\ y <= b /\ z <= c
          BY <2>1, <2>2, <3>1, <5>1, <5>2
        <5>5. x + y + z <= 2 * (d + 1)
          BY <5>3, <5>4
        <5> QED  BY <5>1, <5>2, <5>5
      <4> QED  BY <1>n, <1>q, <2>2, <3>1, <4>2
    <3> QED  BY <1>8, <3>2
  <2> HIDE DEF i
  <2> QED  BY <1>7, <1>8, <1>p, <1>10, <1>11, <1>12, <2>3 DEF AddsUp
<1>14. CASE ~serve.badUrl
  <2>1. Undone(rec) \subseteq Undone(infer) \cup {i} /\ Failed(rec) \subseteq Failed(infer) /\ rec.open = infer.open \cup {i}
    <3>1. <<i, "error">> \notin infer.fresh
      BY <1>r
    <3> QED  BY <1>2, <1>3, <1>4, <1>5, <3>1, <1>8, <1>14, <1>f, <1>o, ServeAssumption DEF Undone, Failed, Labels
  <2>2. /\ Cardinality(Undone(rec)) <= Cardinality(Undone(infer)) + 1 /\ Cardinality(Undone(rec)) \in Nat
        /\ Cardinality(Failed(rec)) <= Cardinality(Failed(infer)) /\ Cardinality(Failed(rec)) \in Nat
        /\ Cardinality(rec.open) <= Cardinality(infer.open) + 1 /\ Cardinality(rec.open) \in Nat
    BY <1>2, <2>1, CardinalityShrinks, CardinalityAdds
  <2>3. /\ rec.errors + Cardinality(rec.open) + Cardinality(Undone(rec)) <= 2 * rec.requests
        /\ Cardinality(Failed(rec)) <= rec.errors
    <3>1. e = infer.errors
      BY <1>14, <1>e
    <3>2. /\ e + Cardinality(rec.open) + Cardinality(Undone(rec)) <= 2 * (infer.requests + 1)
          /\ Cardinality(Failed(rec)) <= e
      <4>1. e \in Nat /\ Cardinality(rec.open) \in Nat
        BY <1>n, <2>1, <2>2, <3>1
      <4>2. e + Cardinality(rec.open) + Cardinality(Undone(rec)) <= 2 * (infer.requests + 1)
        <5>1. PICK a \in Nat, b \in Nat, c \in Nat, d \in Nat :
                  a = infer.errors /\ b = Cardinality(infer.open) /\ c = Cardinality(Undone(infer)) /\ d = infer.requests
          BY <1>n
        <5>2. PICK x \in Nat, y \in Nat, z \in Nat :
                  x = e /\ y = Cardinality(rec.open) /\ z = Cardinality(Undone(rec))
          BY <2>2, <4>1
        <5>3. a + b + c <= 2 * d
          BY <1>q, <5>1
        <5>4. x = a /\ y <= b + 1 /\ z <= c + 1
          BY <2>1, <2>2, <3>1, <5>1, <5>2
        <5>5. x + y + z <= 2 * (d + 1)
          BY <5>3, <5>4
        <5> QED  BY <5>1, <5>2, <5>5
      <4> QED  BY <1>n, <1>q, <2>2, <3>1, <4>2
    <3> QED  BY <1>8, <3>2
  <2> HIDE DEF i
  <2> QED  BY <1>7, <1>8, <1>p, <1>10, <1>11, <1>12, <2>3 DEF AddsUp
<1> QED  BY <1>13, <1>14

\* A step that neither reads a count nor restarts: an error more is an answer
\* less to come or a timeout less.
LEMMA SettlingKeeps ==
    ASSUME NEW r, NEW n \in Nat, NEW most \in Nat, AddsUp(r, n, most),
           NEW s \in PipeRecords, s.pos = r.pos, s.requests = r.requests,
           DOMAIN s.waiting \cup DOMAIN s.predicted = 1..r.pos, DOMAIN s.waiting \cap DOMAIN s.predicted = {},
           {y[1] : y \in s.fresh} \subseteq DOMAIN s.predicted,
           DOMAIN s.waiting \subseteq DOMAIN r.waiting, s.expired \subseteq DOMAIN s.waiting,
           s.open \subseteq r.open, Undone(s) \subseteq Undone(r), NEW i, Failed(s) \subseteq Failed(r) \cup {i},
           \/ s.errors = r.errors /\ Failed(s) \subseteq Failed(r)
           \/ /\ s.errors = r.errors + 1
              /\ i \in r.open \ s.open \/ i \in Undone(r) \ Undone(s)
    PROVE  AddsUp(s, n, most)
<1>1. /\ r.pos \in Nat /\ r.requests \in Nat /\ r.errors \in Nat
      /\ IsFiniteSet(DOMAIN r.waiting) /\ Cardinality(DOMAIN r.waiting) \in Nat
      /\ IsFiniteSet(r.open) /\ IsFiniteSet(Undone(r)) /\ IsFiniteSet(Failed(r))
      /\ Cardinality(r.open) \in Nat /\ Cardinality(Undone(r)) \in Nat /\ Cardinality(Failed(r)) \in Nat
  BY PipeFacts
<1>2. Cardinality(DOMAIN s.waiting) <= most
  <2>1. Cardinality(DOMAIN s.waiting) <= Cardinality(DOMAIN r.waiting) /\ Cardinality(DOMAIN s.waiting) \in Nat
    BY <1>1, CardinalityShrinks
  <2> QED  BY <1>1, <2>1 DEF AddsUp
<1>3. /\ Cardinality(s.open) <= Cardinality(r.open) /\ Cardinality(s.open) \in Nat
      /\ Cardinality(Undone(s)) <= Cardinality(Undone(r)) /\ Cardinality(Undone(s)) \in Nat
      /\ Cardinality(Failed(s)) <= Cardinality(Failed(r)) + 1 /\ Cardinality(Failed(s)) \in Nat
      /\ Failed(s) \subseteq Failed(r) => Cardinality(Failed(s)) <= Cardinality(Failed(r))
  BY <1>1, CardinalityShrinks, CardinalityAdds
<1>4. /\ i \in r.open \ s.open => Cardinality(s.open) + 1 <= Cardinality(r.open)
      /\ i \in Undone(r) \ Undone(s) => Cardinality(Undone(s)) + 1 <= Cardinality(Undone(r))
  <2>1. ASSUME i \in r.open \ s.open PROVE Cardinality(s.open) + 1 <= Cardinality(r.open)
    <3>1. s.open \subseteq r.open \ {i}
      BY <2>1
    <3> QED  BY <1>1, <2>1, <3>1, CardinalityDrops
  <2>2. ASSUME i \in Undone(r) \ Undone(s) PROVE Cardinality(Undone(s)) + 1 <= Cardinality(Undone(r))
    <3>1. Undone(s) \subseteq Undone(r) \ {i}
      BY <2>2
    <3> QED  BY <1>1, <2>2, <3>1, CardinalityDrops
  <2> QED  BY <2>1, <2>2
<1>5. /\ r.errors + Cardinality(r.open) + Cardinality(Undone(r)) <= 2 * r.requests
      /\ Cardinality(Failed(r)) <= r.errors
  BY DEF AddsUp
<1>6. PICK a \in Nat, b \in Nat, c \in Nat, d \in Nat, f \in Nat :
         /\ a = r.errors /\ b = Cardinality(r.open) /\ c = Cardinality(Undone(r)) /\ d = r.requests
         /\ f = Cardinality(Failed(r))
  BY <1>1
<1>7. PICK x \in Nat, y \in Nat, z \in Nat, g \in Nat :
         /\ x = s.errors /\ y = Cardinality(s.open) /\ z = Cardinality(Undone(s)) /\ g = Cardinality(Failed(s))
  BY <1>1, <1>3
<1>8. a + b + c <= 2 * d /\ f <= a
  BY <1>5, <1>6
<1>9. /\ y <= b /\ z <= c /\ g <= f + 1
      /\ \/ x = a /\ g <= f
         \/ x = a + 1 /\ (y + 1 <= b \/ z + 1 <= c)
  BY <1>3, <1>4, <1>6, <1>7
<1>10. x + y + z <= 2 * d /\ g <= x
  BY <1>8, <1>9
<1>11. /\ s.errors + Cardinality(s.open) + Cardinality(Undone(s)) <= 2 * s.requests
       /\ Cardinality(Failed(s)) <= s.errors
  BY <1>6, <1>7, <1>10
<1>12. s.pos <= n /\ s.open \subseteq 1..s.pos
  BY DEF AddsUp
<1> QED  BY <1>2, <1>11, <1>12 DEF AddsUp

LEMMA CompletedFacts ==
    ASSUME PredictInv, NEW i, NEW label \in Labels
    PROVE  /\ Completed(i, label) \in Answers /\ DOMAIN Completed(i, label) = DOMAIN infer.waiting
           /\ \A k \in DOMAIN infer.waiting :
                 \/ Completed(i, label)[k] = infer.waiting[k]
                 \/ infer.waiting[k] = None /\ k = i /\ Completed(i, label)[k] = label
           /\ i \in DOMAIN infer.waiting => Completed(i, label)[i] # None
<1>1. infer.waiting \in Answers /\ None \notin Labels
  BY ServeAssumption DEF PredictInv, AddsUp, PipeRecords
<1>2. CASE i \in DOMAIN infer.waiting /\ infer.waiting[i] = None
  <2>1. i \in Nat
    BY <1>1, <1>2 DEF Answers
  <2>2. Completed(i, label) = Set(infer.waiting, i, label)
    BY <1>2 DEF Completed
  <2>3. Set(infer.waiting, i, label) \in Answers /\ DOMAIN Set(infer.waiting, i, label) = DOMAIN infer.waiting \cup {i}
    BY <1>1, <2>1, AnswersChange
  <2> QED  BY <1>1, <1>2, <2>2, <2>3 DEF Set
<1>3. CASE ~(i \in DOMAIN infer.waiting /\ infer.waiting[i] = None)
  BY <1>1, <1>3 DEF Completed
<1> QED  BY <1>2, <1>3

LEMMA RespondKeeps ==
    ASSUME NEW n \in Nat, PredictInv, n = Len(counts), Respond
    PROVE  AddsUp(infer', n, serve.capacity)
<1>1. PICK i \in infer.open, label \in Labels :
         infer' = [infer EXCEPT !.open = @ \ {i}, !.errors = Errors(@, label), !.waiting = Completed(i, label)]
  BY DEF Respond
<1>2. AddsUp(infer, n, serve.capacity) /\ infer \in PipeRecords /\ serve.capacity \in Nat
  BY ServeAssumption DEF PredictInv, AddsUp
<1> DEFINE w == Completed(i, label)
           o == infer.open \ {i}
           e == Errors(infer.errors, label)
<1>3. /\ w \in Answers /\ DOMAIN w = DOMAIN infer.waiting
      /\ \A k \in DOMAIN infer.waiting :
            w[k] = infer.waiting[k] \/ (infer.waiting[k] = None /\ k = i /\ w[k] = label)
  BY CompletedFacts
<1>4. infer.errors \in Nat /\ e = IF label = "error" THEN infer.errors + 1 ELSE infer.errors
  BY <1>2 DEF PipeRecords, Errors
<1>5. e \in Nat /\ o \in SUBSET Nat
  BY <1>2, <1>4 DEF PipeRecords
<1>6. infer' = [infer EXCEPT !.open = o, !.errors = e, !.waiting = w]
  BY <1>1
<1> HIDE DEF w, e
<1>7. /\ infer' \in PipeRecords /\ infer'.pos = infer.pos /\ infer'.requests = infer.requests
      /\ infer'.errors = e /\ infer'.waiting = w /\ infer'.open = o /\ infer'.expired = infer.expired
      /\ infer'.predicted = infer.predicted /\ infer'.fresh = infer.fresh
  BY <1>2, <1>3, <1>5, <1>6 DEF PipeRecords
<1>8. /\ Undone(infer') \subseteq Undone(infer) /\ Failed(infer') \subseteq Failed(infer) \cup {i}
      /\ label # "error" => Failed(infer') \subseteq Failed(infer)
  <2>1. None \notin Labels /\ label # None
    BY ServeAssumption
  <2> QED  BY <1>3, <1>7, <2>1 DEF Undone, Failed
<1>9. /\ DOMAIN infer'.waiting \cup DOMAIN infer'.predicted = 1..infer.pos
      /\ DOMAIN infer'.waiting \cap DOMAIN infer'.predicted = {}
      /\ {y[1] : y \in infer'.fresh} \subseteq DOMAIN infer'.predicted
      /\ DOMAIN infer'.waiting \subseteq DOMAIN infer.waiting /\ infer'.expired \subseteq DOMAIN infer'.waiting
      /\ infer'.open \subseteq infer.open /\ i \in infer.open \ infer'.open
  BY <1>2, <1>3, <1>7 DEF AddsUp
<1>10. PICK r : r = infer
  OBVIOUS
<1>11. PICK s : s = infer'
  OBVIOUS
<1>12. \/ infer'.errors = infer.errors /\ Failed(infer') \subseteq Failed(infer)
       \/ infer'.errors = infer.errors + 1 /\ i \in infer.open \ infer'.open
  BY <1>4, <1>7, <1>8, <1>9
<1> QED  BY <1>2, <1>7, <1>8, <1>9, <1>10, <1>11, <1>12, SettlingKeeps

LEMMA TimerFiresKeeps ==
    ASSUME NEW n \in Nat, PredictInv, n = Len(counts), TimerFires
    PROVE  AddsUp(infer', n, serve.capacity)
<1>1. PICK i \in DOMAIN infer.waiting \ infer.expired :
         infer.waiting[i] = None /\ infer' = [infer EXCEPT !.expired = @ \cup {i}]
  BY DEF TimerFires
<1>2. AddsUp(infer, n, serve.capacity) /\ infer \in PipeRecords /\ serve.capacity \in Nat
  BY ServeAssumption DEF PredictInv, AddsUp
<1> DEFINE x == infer.expired \cup {i}
<1>3. x \in SUBSET Nat /\ infer.expired \subseteq DOMAIN infer.waiting
  BY <1>1, <1>2 DEF PipeRecords, AddsUp
<1>4. infer' = [infer EXCEPT !.expired = x]
  BY <1>1
<1> HIDE DEF x
<1>5. /\ infer' \in PipeRecords /\ infer'.pos = infer.pos /\ infer'.requests = infer.requests
      /\ infer'.errors = infer.errors /\ infer'.waiting = infer.waiting /\ infer'.open = infer.open
      /\ infer'.expired = x /\ infer'.predicted = infer.predicted /\ infer'.fresh = infer.fresh
  BY <1>2, <1>3, <1>4 DEF PipeRecords
<1>6. /\ Undone(infer') \subseteq Undone(infer) /\ Failed(infer') \subseteq Failed(infer)
      /\ infer'.expired \subseteq DOMAIN infer'.waiting
  BY <1>1, <1>3, <1>5 DEF Undone, Failed, x
<1>7. /\ DOMAIN infer'.waiting \cup DOMAIN infer'.predicted = 1..infer.pos
      /\ DOMAIN infer'.waiting \cap DOMAIN infer'.predicted = {}
      /\ {y[1] : y \in infer'.fresh} \subseteq DOMAIN infer'.predicted
  BY <1>2, <1>5 DEF AddsUp
<1>8. PICK r, s : r = infer /\ s = infer'
  OBVIOUS
<1> QED  BY <1>2, <1>5, <1>6, <1>7, <1>8, SettlingKeeps

LEMMA TimeoutKeeps ==
    ASSUME NEW n \in Nat, PredictInv, n = Len(counts), Timeout
    PROVE  AddsUp(infer', n, serve.capacity)
<1>1. PICK i \in infer.expired :
         infer' = [infer EXCEPT !.expired = @ \ {i}, !.errors = @ + 1, !.waiting = Completed(i, "error")]
  BY DEF Timeout
<1>2. AddsUp(infer, n, serve.capacity) /\ infer \in PipeRecords /\ serve.capacity \in Nat
  BY ServeAssumption DEF PredictInv, AddsUp
<1> DEFINE w == Completed(i, "error")
           x == infer.expired \ {i}
           e == infer.errors + 1
<1>3. /\ w \in Answers /\ DOMAIN w = DOMAIN infer.waiting
      /\ \A k \in DOMAIN infer.waiting :
            w[k] = infer.waiting[k] \/ (infer.waiting[k] = None /\ k = i /\ w[k] = "error")
      /\ i \in DOMAIN infer.waiting => w[i] # None
  <2>1. "error" \in Labels
    BY DEF Labels
  <2> QED  BY <2>1, CompletedFacts
<1>4. e \in Nat /\ x \in SUBSET Nat /\ infer.expired \subseteq DOMAIN infer.waiting
  BY <1>2 DEF PipeRecords, AddsUp
<1>5. infer' = [infer EXCEPT !.expired = x, !.errors = e, !.waiting = w]
  BY <1>1
<1> HIDE DEF w, e
<1>6. /\ infer' \in PipeRecords /\ infer'.pos = infer.pos /\ infer'.requests = infer.requests
      /\ infer'.errors = e /\ infer'.waiting = w /\ infer'.open = infer.open /\ infer'.expired = x
      /\ infer'.predicted = infer.predicted /\ infer'.fresh = infer.fresh
  BY <1>2, <1>3, <1>4, <1>5 DEF PipeRecords
<1>7. Undone(infer') \subseteq Undone(infer) /\ i \in Undone(infer) \ Undone(infer')
  BY <1>3, <1>4, <1>6, ServeAssumption DEF Undone, Labels
<1>8. Failed(infer') \subseteq Failed(infer) \cup {i}
  BY <1>3, <1>6 DEF Failed
<1>9. /\ DOMAIN infer'.waiting \cup DOMAIN infer'.predicted = 1..infer.pos
      /\ DOMAIN infer'.waiting \cap DOMAIN infer'.predicted = {}
      /\ {y[1] : y \in infer'.fresh} \subseteq DOMAIN infer'.predicted
      /\ DOMAIN infer'.waiting \subseteq DOMAIN infer.waiting /\ infer'.expired \subseteq DOMAIN infer'.waiting
      /\ infer'.errors = infer.errors + 1
  BY <1>2, <1>3, <1>4, <1>6 DEF AddsUp, e
<1>10. PICK r, s : r = infer /\ s = infer'
  OBVIOUS
<1> QED  BY <1>2, <1>6, <1>7, <1>8, <1>9, <1>10, SettlingKeeps

LEMMA EmitKeeps ==
    ASSUME NEW n \in Nat, PredictInv, n = Len(counts), Emit
    PROVE  AddsUp(infer', n, serve.capacity)
<1>1. PICK i \in DOMAIN infer.waiting \ infer.expired :
         /\ infer.waiting[i] # None
         /\ infer' = [infer EXCEPT !.waiting = Without(@, {i}), !.predicted = Set(@, i, infer.waiting[i]),
                                   !.fresh = @ \cup {<<i, infer.waiting[i]>>}]
  BY DEF Emit
<1>2. AddsUp(infer, n, serve.capacity) /\ infer \in PipeRecords /\ serve.capacity \in Nat
  BY ServeAssumption DEF PredictInv, AddsUp
<1> DEFINE label == infer.waiting[i]
           w == Without(infer.waiting, {i})
           p == Set(infer.predicted, i, label)
           g == infer.fresh \cup {<<i, label>>}
<1>3. infer.waiting \in Answers /\ infer.predicted \in Answers /\ i \in Nat /\ label \in Labels \cup {None}
  <2>1. infer.waiting \in Answers /\ infer.predicted \in Answers
    BY <1>2 DEF PipeRecords
  <2>2. PICK S \in SUBSET Nat : infer.waiting \in [S -> Labels \cup {None}]
    BY <2>1 DEF Answers
  <2> QED  BY <1>1, <2>1, <2>2
<1>4. w \in Answers /\ DOMAIN w = DOMAIN infer.waiting \ {i}
  <2>1. PICK f \in Answers, k \in Nat, l \in Labels \cup {None} : f = infer.waiting /\ k = i /\ l = label
    BY <1>3
  <2>2. Without(f, {k}) \in Answers /\ DOMAIN Without(f, {k}) = DOMAIN f \ {k}
    BY AnswersChange
  <2> QED  BY <2>1, <2>2
<1>5. p \in Answers /\ DOMAIN p = DOMAIN infer.predicted \cup {i}
  <2>1. PICK f \in Answers, k \in Nat, l \in Labels \cup {None} : f = infer.predicted /\ k = i /\ l = label
    BY <1>3
  <2>2. Set(f, k, l) \in Answers /\ DOMAIN Set(f, k, l) = DOMAIN f \cup {k}
    BY AnswersChange
  <2> QED  BY <2>1, <2>2
<1>6. \A k \in DOMAIN w : w[k] = infer.waiting[k]
  BY DEF Without
<1>7. infer' = [infer EXCEPT !.waiting = w, !.predicted = p, !.fresh = g] /\ g \in SUBSET (Nat \X Labels)
  <2>1. label \in Labels /\ infer.fresh \in SUBSET (Nat \X Labels)
    BY <1>1, <1>2, <1>3 DEF PipeRecords
  <2> QED  BY <1>1, <1>3, <2>1
<1> HIDE DEF w, p, g
<1>8. /\ infer' \in PipeRecords /\ infer'.pos = infer.pos /\ infer'.requests = infer.requests
      /\ infer'.errors = infer.errors /\ infer'.waiting = w /\ infer'.open = infer.open
      /\ infer'.expired = infer.expired /\ infer'.predicted = p
      /\ infer'.fresh = g
  BY <1>2, <1>4, <1>5, <1>7 DEF PipeRecords
<1>9. Undone(infer') \subseteq Undone(infer) /\ Failed(infer') \subseteq Failed(infer)
  <2>1. Undone(infer') \subseteq Undone(infer)
    BY <1>4, <1>6, <1>8 DEF Undone
  <2>2. ASSUME NEW k \in Failed(infer') PROVE k \in Failed(infer)
    <3>1. \/ k \in DOMAIN w /\ w[k] = "error"
          \/ <<k, "error">> \in infer.fresh
          \/ k = i /\ infer.waiting[i] = "error"
      BY <1>8 DEF Failed, g
    <3>2. k \in 1..infer.pos
      BY <1>8 DEF Failed
    <3> QED  BY <1>1, <1>4, <1>6, <3>1, <3>2 DEF Failed
  <2> QED  BY <2>1, <2>2
<1>10. /\ DOMAIN infer.waiting \cup DOMAIN infer.predicted = 1..infer.pos
       /\ DOMAIN infer.waiting \cap DOMAIN infer.predicted = {} /\ infer.expired \subseteq DOMAIN infer.waiting
       /\ {y[1] : y \in infer.fresh} \subseteq DOMAIN infer.predicted
  BY <1>2 DEF AddsUp
<1>11. /\ DOMAIN infer'.waiting \cup DOMAIN infer'.predicted = 1..infer.pos
       /\ DOMAIN infer'.waiting \cap DOMAIN infer'.predicted = {}
       /\ DOMAIN infer'.waiting \subseteq DOMAIN infer.waiting /\ infer'.expired \subseteq DOMAIN infer'.waiting
  BY <1>1, <1>4, <1>5, <1>8, <1>10
<1>13. {y[1] : y \in infer'.fresh} \subseteq DOMAIN infer'.predicted
  BY <1>5, <1>8, <1>10 DEF g
<1>12. PICK r, s : r = infer /\ s = infer'
  OBVIOUS
<1> QED  BY <1>2, <1>8, <1>9, <1>11, <1>12, <1>13, SettlingKeeps

LEMMA InferCrashKeeps ==
    ASSUME NEW n \in Nat, PredictInv, n = Len(counts), InferCrash
    PROVE  AddsUp(infer', n, serve.capacity)
<1>1. AddsUp(infer, n, serve.capacity) /\ infer \in PipeRecords /\ infer' = [infer EXCEPT !.pc = "down"]
  BY DEF PredictInv, AddsUp, InferCrash
<1>2. /\ infer' \in PipeRecords /\ infer'.pos = infer.pos /\ infer'.requests = infer.requests
      /\ infer'.errors = infer.errors /\ infer'.waiting = infer.waiting /\ infer'.open = infer.open
      /\ infer'.expired = infer.expired /\ infer'.predicted = infer.predicted /\ infer'.fresh = infer.fresh
  BY <1>1 DEF PipeRecords
<1>3. Undone(infer') = Undone(infer) /\ Failed(infer') = Failed(infer)
  BY <1>2 DEF Undone, Failed
<1> QED  BY <1>1, <1>2, <1>3 DEF AddsUp

LEMMA InferRestartKeeps ==
    ASSUME NEW n \in Nat, PredictInv, n = Len(counts), InferRestart
    PROVE  AddsUp(infer', n, serve.capacity)
<1> DEFINE queue == DOMAIN inferSaved.waiting
           first == IF serve.badUrl THEN "error" ELSE None
           w == [i \in queue |-> first]
           o == IF serve.badUrl THEN {} ELSE queue
           q == Cardinality(queue)
           e == IF serve.badUrl THEN q ELSE 0
<1>1. /\ AddsUp(inferSaved, n, serve.capacity) /\ inferSaved \in PipeRecords
      /\ serve.badUrl \in BOOLEAN
  BY ServeAssumption DEF PredictInv, AddsUp
<1>2. queue \subseteq 1..inferSaved.pos /\ IsFiniteSet(queue) /\ q \in Nat /\ inferSaved.pos \in Nat
  BY <1>1, PipeFacts
<1>3. w \in Answers
  <2>1. queue \in SUBSET Nat /\ first \in Labels \cup {None}
    BY <1>2 DEF Labels
  <2>2. w \in [queue -> Labels \cup {None}]
    BY <2>1
  <2> QED  BY <2>1, <2>2 DEF Answers
<1>4. o \in SUBSET Nat /\ e \in Nat /\ o \subseteq queue
  BY <1>2
<1>5. infer' = [inferSaved EXCEPT !.waiting = w, !.expired = {}, !.fresh = {}, !.open = o,
                                 !.requests = q, !.errors = e]
  BY DEF InferRestart
<1>6. DOMAIN w = queue /\ \A i \in queue : w[i] = first
  OBVIOUS
<1>7. /\ serve.badUrl => first = "error" /\ o = {} /\ e = q
      /\ ~serve.badUrl => first = None /\ o = queue /\ e = 0
  BY <1>1
<1>8. /\ DOMAIN inferSaved.waiting \cup DOMAIN inferSaved.predicted = 1..inferSaved.pos
      /\ DOMAIN inferSaved.waiting \cap DOMAIN inferSaved.predicted = {}
      /\ inferSaved.pos <= n /\ q <= serve.capacity
  BY <1>1 DEF AddsUp
<1> HIDE DEF w, o, e, q, first
<1>9. /\ infer' \in PipeRecords /\ infer'.pos = inferSaved.pos /\ infer'.requests = q
      /\ infer'.errors = e /\ infer'.waiting = w /\ infer'.open = o /\ infer'.expired = {}
      /\ infer'.predicted = inferSaved.predicted /\ infer'.fresh = {}
  BY <1>1, <1>2, <1>3, <1>4, <1>5 DEF PipeRecords
<1>10. /\ serve.badUrl => Undone(infer') = {} /\ Failed(infer') = queue
       /\ ~serve.badUrl => Undone(infer') = queue /\ Failed(infer') = {}
  <2>1. None # "error"
    BY ServeAssumption DEF Labels
  <2> QED  BY <1>2, <1>6, <1>7, <1>9, <2>1 DEF Undone, Failed
<1>11. /\ infer'.errors + Cardinality(infer'.open) + Cardinality(Undone(infer')) <= 2 * infer'.requests
       /\ Cardinality(Failed(infer')) <= infer'.errors
  <2>1. Cardinality({}) = 0 /\ Cardinality(queue) = q
    BY FS_EmptySet DEF q
  <2>2. CASE serve.badUrl
    <3>1. /\ Cardinality(infer'.open) = 0 /\ Cardinality(Undone(infer')) = 0
          /\ Cardinality(Failed(infer')) = q /\ infer'.errors = q /\ infer'.requests = q
      BY <1>7, <1>9, <1>10, <2>1, <2>2
    <3> QED  BY <1>2, <3>1
  <2>3. CASE ~serve.badUrl
    <3>1. /\ Cardinality(infer'.open) = q /\ Cardinality(Undone(infer')) = q
          /\ Cardinality(Failed(infer')) = 0 /\ infer'.errors = 0 /\ infer'.requests = q
      BY <1>7, <1>9, <1>10, <2>1, <2>3
    <3> QED  BY <1>2, <3>1
  <2> QED  BY <2>2, <2>3
<1>12. Cardinality(DOMAIN infer'.waiting) <= serve.capacity
  BY <1>6, <1>8, <1>9 DEF q
<1>13. infer'.open \subseteq 1..infer'.pos /\ infer'.expired \subseteq DOMAIN infer'.waiting
  BY <1>2, <1>4, <1>9
<1> QED  BY <1>6, <1>8, <1>9, <1>11, <1>12, <1>13 DEF AddsUp

LEMMA PredictKeeps ==
    ASSUME CountsInv, PredictInv, [Next]_vars
    PROVE  PredictInv'
<1>1. Len(counts) \in Nat /\ Len(counts') \in Nat /\ Len(counts) <= Len(counts')
  BY CountsGrow
<1>2. CASE UNCHANGED inferVars
  <2>1. UNCHANGED <<serve, infer, inferSaved>>
    BY <1>2 DEF inferVars
  <2>2. PICK r, s, n, m, most : r = infer /\ s = inferSaved /\ n = Len(counts) /\ m = Len(counts') /\ most = serve.capacity
    OBVIOUS
  <2>3. AddsUp(r, m, most) /\ AddsUp(s, m, most)
    BY <1>1, <2>2, StillAddsUp DEF PredictInv
  <2> QED  BY <2>1, <2>2, <2>3 DEF PredictInv
<1>3. CASE InferNext /\ UNCHANGED counts
  <2>1. ASSUME Invoke \/ Respond \/ TimerFires \/ Timeout \/ Emit \/ InferCrash \/ InferRestart
        PROVE  AddsUp(infer', Len(counts), serve.capacity) /\ UNCHANGED <<serve, inferSaved>>
    <3>1. PICK n \in Nat : n = Len(counts)
      BY <1>1
    <3>2. AddsUp(infer', n, serve.capacity)
      BY <2>1, <3>1, InvokeKeeps, RespondKeeps, TimerFiresKeeps, TimeoutKeeps, EmitKeeps, InferCrashKeeps, InferRestartKeeps
    <3>3. UNCHANGED <<serve, inferSaved>>
      BY <2>1 DEF Invoke, Respond, TimerFires, Timeout, Emit, InferCrash, InferRestart
    <3> QED  BY <3>1, <3>2, <3>3
  <2>2. ASSUME InferCheckpoint
        PROVE  inferSaved' = infer /\ UNCHANGED <<serve, infer>>
    BY <2>2 DEF InferCheckpoint
  <2>3. ASSUME SendPrediction
        PROVE  UNCHANGED <<serve, infer, inferSaved>>
    BY <2>3 DEF SendPrediction
  <2> QED  BY <1>3, <2>1, <2>2, <2>3 DEF InferNext, FlinkStep, PredictInv
<1> QED  BY <1>2, <1>3 DEF Next, vars

-----------------------------------------------------------------------------
(* What the sink of the predictions has been given                         *)

Emitted(f) == {<<i, f[i]>> : i \in DOMAIN f}

\* A pipeline that is down has crashed; what one that runs has emitted has been
\* given to the producer, and before the first crash nothing else has.
PlacedInv ==
    /\ fails \in Nat
    /\ infer.pc # "running" => fails > 0
    /\ \A x \in infer.fresh : x[1] \in DOMAIN infer.predicted /\ x[2] = infer.predicted[x[1]]
    /\ infer.pc = "running" => infer.fresh \subseteq Written
    /\ fails = 0 => Written = Emitted(infer.predicted)
    /\ Written \subseteq (1..Len(counts)) \X Labels

LEMMA PlacedStarts == Init => PlacedInv
<1> SUFFICES ASSUME Init PROVE PlacedInv
  OBVIOUS
<1>1. infer = NewPipeline /\ unsentPredictions = {} /\ predictions = {} /\ fails = 0
  BY DEF Init, InferInit, JobInit
<1>2. infer.pc = "running" /\ infer.fresh = {} /\ infer.predicted = <<>>
  BY <1>1 DEF NewPipeline
<1>3. Emitted(infer.predicted) = {} /\ Written = {}
  BY <1>1, <1>2 DEF Emitted, Written
<1> QED  BY <1>1, <1>2, <1>3 DEF PlacedInv

\* Steps of the jobs and of the maintenance.
LEMMA PlacedStays ==
    ASSUME CountsInv, PlacedInv, [Next]_vars, UNCHANGED inferVars
    PROVE  PlacedInv'
<1>1. Len(counts) \in Nat /\ Len(counts') \in Nat /\ Len(counts) <= Len(counts')
  BY CountsGrow
<1>2. UNCHANGED infer /\ UNCHANGED Written
  BY DEF inferVars, sinkVars, Written
<1>3. fails' \in Nat /\ fails' >= fails
  <2>1. fails \in Nat
    BY DEF PlacedInv
  <2>2. fails' = fails \/ fails' = fails + 1
    <3>1. CASE UNCHANGED vars
      BY <3>1 DEF vars, jobVars
    <3>2. CASE JobNext
      <4>1. CASE Produce \/ Tick \/ DlqStart \/ DlqRead \/ SendSignal
        BY <4>1 DEF Produce, Tick, DlqStart, DlqRead, SendSignal
      <4>2. ASSUME NEW j \in StreamJob,
                   \/ Submit(j) \/ CreateTable(j) \/ Skip(j) \/ Reject(j) \/ Quarantine(j) \/ Count(j)
                   \/ Advance(j) \/ EndOfInput(j) \/ Fire(j) \/ Monitor(j) \/ Flush(j) \/ Send(j)
                   \/ Checkpoint(j) \/ Finish(j) \/ Restart(j)
            PROVE  UNCHANGED fails
        BY <4>2 DEF Submit, CreateTable, Skip, Reject, Quarantine, Count, Advance, EndOfInput, Fire, Monitor,
                    Flush, Send, Checkpoint, Finish, Restart
      <4>3. ASSUME NEW j \in StreamJob, Crash(j)
            PROVE  fails' = fails + 1
        BY <4>3 DEF Crash
      <4> QED  BY <3>2, <4>1, <4>2, <4>3 DEF JobNext
    <3>3. CASE CareNext
      <4>1. Others
        BY <3>3 DEF CareNext, Load, DryExpire, Expire, Compact, Scan
      <4> QED  BY <4>1 DEF Others
    <3>4. CASE InferNext
      BY <3>4 DEF InferNext, InferCrash
    <3> QED  BY <3>1, <3>2, <3>3, <3>4 DEF Next
  <2> QED  BY <2>1, <2>2
<1>4. Written' \subseteq (1..Len(counts')) \X Labels
  <2>1. 1..Len(counts) \subseteq 1..Len(counts')
    BY <1>1
  <2> QED  BY <1>2, <2>1 DEF PlacedInv
<1> QED  BY <1>2, <1>3, <1>4 DEF PlacedInv

\* Steps of the pipeline that give the producer nothing.
LEMMA PlacedWaits ==
    ASSUME PlacedInv, UNCHANGED <<counts, fails, Written>>,
           infer' = infer \/ \/ infer'.pc = infer.pc /\ infer'.fresh = infer.fresh /\ infer'.predicted = infer.predicted
    PROVE  PlacedInv'
BY DEF PlacedInv

LEMMA PlacedEmits ==
    ASSUME PlacedInv, PredictInv, Emit, UNCHANGED <<counts, fails>>, Len(counts) \in Nat
    PROVE  PlacedInv'
<1>1. PICK i \in DOMAIN infer.waiting \ infer.expired :
         /\ infer.waiting[i] # None
         /\ infer' = [infer EXCEPT !.waiting = Without(@, {i}), !.predicted = Set(@, i, infer.waiting[i]),
                                   !.fresh = @ \cup {<<i, infer.waiting[i]>>}]
         /\ unsentPredictions' = unsentPredictions \cup {<<i, infer.waiting[i]>>}
         /\ UNCHANGED predictions
  BY DEF Emit
<1>2. PICK label : label = infer.waiting[i]
  OBVIOUS
<1>3. AddsUp(infer, Len(counts), serve.capacity) /\ infer \in PipeRecords
  BY DEF PredictInv, AddsUp
<1>4. label \in Labels /\ i \in 1..Len(counts) /\ i \notin DOMAIN infer.predicted
  <2>1. /\ infer.waiting \in [DOMAIN infer.waiting -> Labels \cup {None}]
        /\ DOMAIN infer.waiting \subseteq 1..infer.pos /\ infer.pos \in Nat
    BY <1>3, PipeFacts
  <2>2. infer.pos <= Len(counts) /\ DOMAIN infer.waiting \cap DOMAIN infer.predicted = {}
    BY <1>3 DEF AddsUp
  <2> QED  BY <1>1, <1>2, <2>1, <2>2
<1> DEFINE p == Set(infer.predicted, i, label)
<1>5. infer'.pc = infer.pc /\ infer'.fresh = infer.fresh \cup {<<i, label>>} /\ infer'.predicted = p
  BY <1>1, <1>2, <1>3 DEF PipeRecords
<1>6. DOMAIN p = DOMAIN infer.predicted \cup {i} /\ p[i] = label /\ \A k \in DOMAIN infer.predicted : p[k] = infer.predicted[k]
  BY <1>4 DEF Set
<1> HIDE DEF p
<1>7. Written' = Written \cup {<<i, label>>}
  BY <1>1, <1>2 DEF Written
<1>8. Emitted(p) = Emitted(infer.predicted) \cup {<<i, label>>}
  BY <1>6 DEF Emitted
<1>9. \A x \in infer'.fresh : x[1] \in DOMAIN infer'.predicted /\ x[2] = infer'.predicted[x[1]]
  BY <1>5, <1>6 DEF PlacedInv
<1>10. fails' = 0 => Written' = Emitted(infer'.predicted)
  BY <1>5, <1>7, <1>8 DEF PlacedInv
<1>11. Written' \subseteq (1..Len(counts')) \X Labels
  BY <1>4, <1>7 DEF PlacedInv
<1>12. infer'.pc = "running" => infer'.fresh \subseteq Written'
  BY <1>5, <1>7 DEF PlacedInv
<1> QED  BY <1>5, <1>9, <1>10, <1>11, <1>12 DEF PlacedInv

LEMMA PlacedKeeps ==
    ASSUME CountsInv, PredictInv, PlacedInv, [Next]_vars
    PROVE  PlacedInv'
<1>1. CASE UNCHANGED inferVars
  BY <1>1, PlacedStays
<1>2. CASE InferNext /\ UNCHANGED counts
  <2>0. Len(counts) \in Nat /\ infer \in PipeRecords /\ inferSaved \in PipeRecords /\ fails \in Nat
    BY CountsGrow DEF PredictInv, AddsUp, PlacedInv
  <2>1. CASE (Invoke \/ Respond \/ TimerFires \/ Timeout) /\ UNCHANGED fails
    <3>1. infer'.pc = infer.pc /\ infer'.fresh = infer.fresh /\ infer'.predicted = infer.predicted
      BY <2>0, <2>1 DEF Invoke, Respond, TimerFires, Timeout, PipeRecords
    <3>2. UNCHANGED Written
      BY <2>1 DEF Invoke, Respond, TimerFires, Timeout, sinkVars, Written
    <3> QED  BY <1>2, <2>1, <3>1, <3>2, PlacedWaits
  <2>2. CASE Emit /\ UNCHANGED fails
    BY <1>2, <2>0, <2>2, PlacedEmits
  <2>3. CASE (SendPrediction \/ InferCheckpoint) /\ UNCHANGED fails
    <3>1. UNCHANGED <<infer, Written>>
      BY <2>3 DEF SendPrediction, InferCheckpoint, sinkVars, Written
    <3> QED  BY <1>2, <2>3, <3>1, PlacedWaits
  <2>4. CASE InferRestart /\ UNCHANGED fails
    <3>1. UNCHANGED Written /\ infer.pc # "running"
      BY <2>4 DEF InferRestart, sinkVars, Written
    <3>2. infer'.fresh = {}
      BY <2>0, <2>4 DEF InferRestart, PipeRecords
    <3> QED  BY <1>2, <2>0, <2>4, <3>1, <3>2 DEF PlacedInv
  <2>5. CASE InferCrash
    <3>1. fails' = fails + 1 /\ Written' \subseteq Written
      BY <2>5 DEF InferCrash, Written
    <3>2. infer'.pc = "down" /\ infer'.fresh = infer.fresh /\ infer'.predicted = infer.predicted
      BY <2>0, <2>5 DEF InferCrash, PipeRecords
    <3> QED  BY <1>2, <2>0, <3>1, <3>2 DEF PlacedInv
  <2> QED  BY <1>2, <2>1, <2>2, <2>3, <2>4, <2>5 DEF InferNext, FlinkStep
<1> QED  BY <1>1, <1>2 DEF Next, vars

LEMMA PredictAlways == Spec => [](CountsInv /\ PredictInv /\ PlacedInv)
<1>1. Init => CountsInv /\ PredictInv /\ PlacedInv
  BY CountsStart, PredictStarts, PlacedStarts
<1>2. CountsInv /\ PredictInv /\ PlacedInv /\ [Next]_vars => (CountsInv /\ PredictInv /\ PlacedInv)'
  BY CountsGrow, PredictKeeps, PlacedKeeps
<1> QED  BY <1>1, <1>2, PTL DEF Spec

\* For any number of counts, any capacity and any answers, lost, late and
\* repeated, through timeouts, crashes and restarts: every count that was read
\* waits or has been emitted, whatever was answered as an error is counted as
\* one, also when it has left the queue, and the topic of predictions has what
\* was emitted, unless a job has crashed.
THEOREM PredictionsHold == Spec => []PredictionsAddUp
<1>1. CountsInv /\ PredictInv /\ PlacedInv => PredictionsAddUp
  <2> SUFFICES ASSUME CountsInv, PredictInv, PlacedInv PROVE PredictionsAddUp
    OBVIOUS
  <2>1. AddsUp(infer, Len(counts), serve.capacity)
    BY DEF PredictInv
  <2>2. /\ infer.pos \in Nat /\ infer.requests \in Nat /\ infer.errors \in Nat
        /\ Cardinality(infer.open) \in Nat /\ Cardinality(Undone(infer)) \in Nat
    BY <2>1, PipeFacts
  <2>3. Len(counts) \in Nat
    BY DEF CountsInv
  <2>4. infer.pos \in 0..Len(counts)
    BY <2>1, <2>2, <2>3 DEF AddsUp
  <2>5. infer.errors <= 2 * infer.requests
    <3>1. PICK a \in Nat, b \in Nat, c \in Nat, d \in Nat :
             /\ a = infer.errors /\ b = Cardinality(infer.open) /\ c = Cardinality(Undone(infer))
             /\ d = infer.requests /\ a + b + c <= 2 * d
      BY <2>1, <2>2 DEF AddsUp
    <3>2. a <= 2 * d
      BY <3>1
    <3> QED  BY <3>1, <3>2
  <2>6. Cardinality(Failing) <= infer.errors
    BY <2>1 DEF AddsUp, Failing, Failed
  <2> QED  BY <2>1, <2>4, <2>5, <2>6 DEF AddsUp, PredictionsAddUp, PlacedInv, Emitted
<1> QED  BY <1>1, PredictAlways, PTL

-----------------------------------------------------------------------------
(* What the steps of a job do to its state                                 *)

\* A job's state has the fields of NewJob, whatever is in them.
JobFields(r) ==
    r \in [pc : {r.pc}, from : {r.from}, pos : {r.pos}, end : {r.end}, top : {r.top}, mark : {r.mark},
           panes : {r.panes}, late : {r.late}, rows : {r.rows}, held : {r.held},
           seen : {r.seen}, prev : {r.prev}, totals : {r.totals}, alerts : {r.alerts},
           users : {r.users}, timers : {r.timers}, flushed : {r.flushed}]

JobShape ==
    /\ job = [j \in StreamJob |-> job[j]] /\ saved = [j \in StreamJob |-> saved[j]]
    /\ \A j \in StreamJob : JobFields(job[j]) /\ JobFields(saved[j])

SameSignals(r, s) == s.totals = r.totals /\ s.prev = r.prev /\ s.alerts = r.alerts

\* There is a table, or nothing that needs one.
Ready == bus.iceberg => created

\* A job's step leaves the drift monitor alone; rows become more, or are committed.
Moves(j, rec) ==
    /\ job' = [job EXCEPT ![j] = rec] /\ JobFields(rec)
    /\ SameSignals(job[j], rec)
    /\ rec.pc = "running" => job[j].pc = "running" \/ Ready'

LEMMA ReadingMoves ==
    ASSUME JobShape, NEW j \in StreamJob,
           \/ Skip(j) \/ Reject(j) \/ Quarantine(j) \/ Count(j) \/ Advance(j) \/ EndOfInput(j)
    PROVE  /\ \E rec : Moves(j, rec) /\ rec.rows = job[j].rows /\ rec.pc = "running"
           /\ UNCHANGED <<saved, created, table, commits>> /\ job[j].pc = "running"
<1>0. JobFields(job[j])
  BY DEF JobShape
<1>1. UNCHANGED <<saved, created, table, commits>> /\ job[j].pc = "running"
  BY DEF Skip, Reject, Quarantine, Count, Advance, EndOfInput, Reading, Runs, lakeVars
<1>2. CASE Skip(j)
  <2> DEFINE rec == [job[j] EXCEPT !.pos = job[j].pos + 1]
  <2>1. job' = [job EXCEPT ![j] = rec]
    BY <1>2 DEF Skip, Goes
  <2>2. JobFields(rec) /\ SameSignals(job[j], rec) /\ rec.pc = job[j].pc /\ rec.rows = job[j].rows
    BY <1>0 DEF JobFields, SameSignals
  <2> QED  BY <1>1, <2>1, <2>2 DEF Moves
<1>3. CASE Advance(j) \/ EndOfInput(j)
  <2> DEFINE rec(m) == [job[j] EXCEPT !.mark = m]
  <2>1. \E m : job' = [job EXCEPT ![j] = rec(m)]
    BY <1>3 DEF Advance, EndOfInput, Goes
  <2>2. PICK m : job' = [job EXCEPT ![j] = rec(m)]
    BY <2>1
  <2>3. JobFields(rec(m)) /\ SameSignals(job[j], rec(m)) /\ rec(m).pc = job[j].pc /\ rec(m).rows = job[j].rows
    BY <1>0 DEF JobFields, SameSignals
  <2> QED  BY <1>1, <2>2, <2>3 DEF Moves
<1> DEFINE read(t) == [job[j] EXCEPT !.pos = job[j].pos + 1, !.top = t]
<1>4. PICK t : Read(j) = read(t)
  BY DEF Read
<1>5. JobFields(read(t)) /\ SameSignals(job[j], read(t)) /\ read(t).pc = job[j].pc /\ read(t).rows = job[j].rows
  BY <1>0 DEF JobFields, SameSignals
<1>6. PICK next : next = Read(j) /\ JobFields(next) /\ SameSignals(job[j], next)
                  /\ next.pc = job[j].pc /\ next.rows = job[j].rows
  BY <1>4, <1>5
<1>7. CASE Reject(j)
  <2>1. job' = [job EXCEPT ![j] = next]
    BY <1>6, <1>7 DEF Reject, Goes
  <2> QED  BY <1>1, <1>6, <2>1 DEF Moves
<1>8. CASE Quarantine(j)
  <2> DEFINE rec(h) == [next EXCEPT !.held = h]
  <2>1. PICK h : job' = [job EXCEPT ![j] = rec(h)]
    BY <1>6, <1>8 DEF Quarantine, Goes
  <2>2. JobFields(rec(h)) /\ SameSignals(job[j], rec(h)) /\ rec(h).pc = job[j].pc /\ rec(h).rows = job[j].rows
    BY <1>6 DEF JobFields, SameSignals
  <2> QED  BY <1>1, <2>1, <2>2 DEF Moves
<1>9. CASE Count(j)
  <2> DEFINE rec(p, l, s) == [next EXCEPT !.panes = p, !.late = l, !.seen = s]
  <2>1. PICK p, l, s : job' = [job EXCEPT ![j] = rec(p, l, s)]
    BY <1>6, <1>9 DEF Count, Goes
  <2>2. /\ JobFields(rec(p, l, s)) /\ SameSignals(job[j], rec(p, l, s)) /\ rec(p, l, s).pc = job[j].pc
        /\ rec(p, l, s).rows = job[j].rows
    BY <1>6 DEF JobFields, SameSignals
  <2> QED  BY <1>1, <2>1, <2>2 DEF Moves
<1> QED  BY <1>2, <1>3, <1>7, <1>8, <1>9

LEMMA SubmissionMoves ==
    ASSUME JobShape, NEW j \in StreamJob, Submit(j) \/ CreateTable(j)
    PROVE  /\ \E rec : Moves(j, rec) /\ rec.rows = job[j].rows /\ saved' = [saved EXCEPT ![j] = rec]
           /\ created => created'
           /\ UNCHANGED <<bus, table, commits>>
<1>0. JobFields(job[j]) /\ job = [k \in StreamJob |-> job[k]]
  BY DEF JobShape
<1>1. CASE Submit(j)
  <2> DEFINE rec(p, f, o, e) == [job[j] EXCEPT !.pc = p, !.from = f, !.pos = o, !.end = e]
             failed == [job[j] EXCEPT !.pc = "failed"]
  <2>1. UNCHANGED <<bus, created, table, commits>> /\ saved' = [saved EXCEPT ![j] = job'[j]]
    BY <1>1 DEF Submit, inputVars, lakeVars
  <2>2. CASE Refused(j)
    <3>1. job' = [job EXCEPT ![j] = failed]
      BY <1>1, <2>2 DEF Submit, Goes
    <3>2. JobFields(failed) /\ SameSignals(job[j], failed) /\ failed.pc # "running" /\ failed.rows = job[j].rows
      BY <1>0 DEF JobFields, SameSignals
    <3>3. job'[j] = failed
      BY <1>0, <3>1
    <3> QED  BY <2>1, <3>1, <3>2, <3>3 DEF Moves
  <2>3. CASE ~Refused(j)
    <3>1. PICK p, f, o, e : /\ job' = [job EXCEPT ![j] = rec(p, f, o, e)] /\ p = IF Ready THEN "running" ELSE "creating"
      BY <1>1, <2>3 DEF Submit, Goes, Ready
    <3>2. /\ JobFields(rec(p, f, o, e)) /\ SameSignals(job[j], rec(p, f, o, e))
          /\ rec(p, f, o, e).pc = p /\ rec(p, f, o, e).rows = job[j].rows
      BY <1>0 DEF JobFields, SameSignals
    <3>3. job'[j] = rec(p, f, o, e)
      BY <1>0, <3>1
    <3>4. p = "running" => Ready'
      BY <2>1, <3>1 DEF Ready
    <3> QED  BY <2>1, <3>1, <3>2, <3>3, <3>4 DEF Moves
  <2> QED  BY <2>2, <2>3
<1>2. CASE CreateTable(j)
  <2> DEFINE rec(p) == [job[j] EXCEPT !.pc = p]
  <2>1. /\ created' = TRUE /\ UNCHANGED <<bus, table, commits>> /\ saved' = [saved EXCEPT ![j] = job'[j]]
        /\ \E p : job' = [job EXCEPT ![j] = rec(p)]
    BY <1>2 DEF CreateTable, Goes, inputVars
  <2>2. PICK p : job' = [job EXCEPT ![j] = rec(p)]
    BY <2>1
  <2>3. JobFields(rec(p)) /\ SameSignals(job[j], rec(p)) /\ rec(p).rows = job[j].rows
    BY <1>0 DEF JobFields, SameSignals
  <2>4. job'[j] = rec(p)
    BY <1>0, <2>2
  <2> QED  BY <2>1, <2>2, <2>3, <2>4 DEF Moves, Ready
<1> QED  BY <1>1, <1>2

LEMMA FiringMoves ==
    ASSUME JobShape, NEW j \in StreamJob, Fire(j) \/ Flush(j)
    PROVE  /\ \E rec : /\ Moves(j, rec) /\ rec.pc = job[j].pc
                       /\ rec.rows = job[j].rows \/ (bus.iceberg /\ \E row : rec.rows = Append(job[j].rows, row))
           /\ UNCHANGED <<saved, created, table, commits>>
<1>0. JobFields(job[j])
  BY DEF JobShape
<1>1. UNCHANGED <<saved, created, table, commits>> /\ job[j].pc = "running"
  BY DEF Fire, Flush, lakeVars, Runs
<1>2. CASE Fire(j)
  <2> DEFINE fired(p, r) == [job[j] EXCEPT !.panes = p, !.rows = r]
             told(p, r, u, m) == [fired(p, r) EXCEPT !.users = u, !.timers = m]
  <2>1. PICK p, r : /\ r = job[j].rows \/ (bus.iceberg /\ \E row : r = Append(job[j].rows, row))
                    /\ \/ job' = [job EXCEPT ![j] = fired(p, r)]
                       \/ \E u, m : job' = [job EXCEPT ![j] = told(p, r, u, m)]
    <3>1. PICK q \in DOMAIN job[j].panes :
             LET row == [user |-> q[1], win |-> q[2], n |-> job[j].panes[q], by |-> j]
                 f == [job[j] EXCEPT !.panes = Without(@, {q}), !.rows = IF bus.iceberg THEN Append(@, row) ELSE @]
             IN Goes(j, IF j = "backfill" THEN f
                        ELSE [f EXCEPT !.users = [x \in DOMAIN @ \cup {q} |-> IF x = q THEN row.n ELSE @[x]],
                                       !.timers = @ \cup {q[2]}])
      BY <1>2 DEF Fire
    <3> DEFINE row == [user |-> q[1], win |-> q[2], n |-> job[j].panes[q], by |-> j]
               R == IF bus.iceberg THEN Append(job[j].rows, row) ELSE job[j].rows
               f == fired(Without(job[j].panes, {q}), R)
               U == [x \in DOMAIN f.users \cup {q} |-> IF x = q THEN row.n ELSE f.users[x]]
               M == f.timers \cup {q[2]}
    <3>0. R = job[j].rows \/ (bus.iceberg /\ \E w : R = Append(job[j].rows, w))
      OBVIOUS
    <3>2. CASE j = "backfill"
      <4>1. job' = [job EXCEPT ![j] = f]
        BY <3>1, <3>2 DEF Goes
      <4> QED  BY <3>0, <4>1
    <3>3. CASE j # "backfill"
      <4>1. job' = [job EXCEPT ![j] = told(Without(job[j].panes, {q}), R, U, M)]
        BY <3>1, <3>3 DEF Goes
      <4> QED  BY <3>0, <4>1
    <3> QED  BY <3>2, <3>3
  <2>2. /\ JobFields(fired(p, r)) /\ SameSignals(job[j], fired(p, r)) /\ fired(p, r).pc = job[j].pc
        /\ fired(p, r).rows = r
    BY <1>0 DEF JobFields, SameSignals
  <2>3. CASE job' = [job EXCEPT ![j] = fired(p, r)]
    BY <1>1, <2>1, <2>2, <2>3 DEF Moves
  <2>4. ASSUME NEW u, NEW m, job' = [job EXCEPT ![j] = told(p, r, u, m)]
        PROVE  \E rec : Moves(j, rec) /\ rec.pc = job[j].pc /\ rec.rows = r
    <3>1. PICK f : f = fired(p, r)
      OBVIOUS
    <3>2. PICK rec : rec = [f EXCEPT !.users = u, !.timers = m]
      OBVIOUS
    <3>3. JobFields(f) /\ SameSignals(job[j], f) /\ f.pc = job[j].pc /\ f.rows = r
      BY <2>2, <3>1
    <3>4. JobFields(rec) /\ SameSignals(job[j], rec) /\ rec.pc = job[j].pc /\ rec.rows = r
      BY <3>2, <3>3 DEF JobFields, SameSignals
    <3>5. job' = [job EXCEPT ![j] = rec]
      BY <2>4, <3>1, <3>2
    <3> QED  BY <1>1, <3>4, <3>5 DEF Moves
  <2> QED  BY <1>1, <2>1, <2>3, <2>4
<1>3. CASE Flush(j)
  <2> DEFINE rec(m, u, f) == [job[j] EXCEPT !.timers = m, !.users = u, !.flushed = f]
  <2>1. PICK m, u, f : job' = [job EXCEPT ![j] = rec(m, u, f)]
    BY <1>3 DEF Flush, Goes
  <2>2. /\ JobFields(rec(m, u, f)) /\ SameSignals(job[j], rec(m, u, f)) /\ rec(m, u, f).pc = job[j].pc
        /\ rec(m, u, f).rows = job[j].rows
    BY <1>0 DEF JobFields, SameSignals
  <2> QED  BY <1>1, <2>1, <2>2 DEF Moves
<1> QED  BY <1>2, <1>3

LEMMA CommitMoves ==
    ASSUME JobShape, NEW j \in StreamJob, Checkpoint(j) \/ Finish(j)
    PROVE  /\ \E rec : /\ Moves(j, rec) /\ rec.rows = <<>>
                       /\ saved' = saved \/ saved' = [saved EXCEPT ![j] = rec]
           /\ Commit(j) /\ job[j].pc = "running"
<1>0. JobFields(job[j]) /\ job = [k \in StreamJob |-> job[k]]
  BY DEF JobShape
<1>1. Commit(j) /\ job[j].pc = "running"
  BY DEF Checkpoint, Finish, Runs
<1> DEFINE rec(p) == [job[j] EXCEPT !.rows = <<>>, !.pc = p]
<1>2. [job[j] EXCEPT !.rows = <<>>] = rec(job[j].pc)
  BY <1>0 DEF JobFields
<1>3. PICK p : /\ job' = [job EXCEPT ![j] = rec(p)]
               /\ saved' = saved \/ saved' = [saved EXCEPT ![j] = job'[j]]
  BY <1>2 DEF Checkpoint, Finish, Goes
<1>4. JobFields(rec(p)) /\ SameSignals(job[j], rec(p)) /\ rec(p).rows = <<>>
  BY <1>0 DEF JobFields, SameSignals
<1>5. job'[j] = rec(p)
  BY <1>0, <1>3
<1> QED  BY <1>1, <1>3, <1>4, <1>5 DEF Moves

LEMMA CrashMoves ==
    ASSUME JobShape, NEW j \in StreamJob, Crash(j)
    PROVE  /\ \E rec : Moves(j, rec) /\ rec.rows = job[j].rows /\ rec.pc = "down"
           /\ UNCHANGED <<saved, created, table, commits>>
<1>0. JobFields(job[j])
  BY DEF JobShape
<1> DEFINE rec == [job[j] EXCEPT !.pc = "down"]
<1>1. job' = [job EXCEPT ![j] = rec] /\ UNCHANGED <<saved, created, table, commits>>
  BY DEF Crash, Goes, lakeVars
<1>2. JobFields(rec) /\ SameSignals(job[j], rec) /\ rec.rows = job[j].rows /\ rec.pc = "down"
  BY <1>0 DEF JobFields, SameSignals
<1> QED  BY <1>1, <1>2 DEF Moves

\* A restart takes the signals and the rows back from the checkpoint.
LEMMA RestartMoves ==
    ASSUME JobShape, NEW j \in StreamJob, Restart(j)
    PROVE  /\ \E rec : /\ job' = [job EXCEPT ![j] = rec] /\ JobFields(rec)
                       /\ SameSignals(saved[j], rec) /\ rec.rows = saved[j].rows /\ rec.pc = saved[j].pc
           /\ UNCHANGED <<saved, created, table, commits>>
<1>0. JobFields(saved[j])
  BY DEF JobShape
<1> DEFINE rec(m) == [saved[j] EXCEPT !.top = NoTime, !.mark = m]
<1>1. /\ job' = [job EXCEPT ![j] = rec(MarkOf(NoTime))] /\ UNCHANGED <<saved, created, table, commits>>
  BY DEF Restart, Goes, lakeVars
<1>2. PICK m : m = MarkOf(NoTime)
  OBVIOUS
<1>3. JobFields(rec(m)) /\ SameSignals(saved[j], rec(m)) /\ rec(m).rows = saved[j].rows /\ rec(m).pc = saved[j].pc
  BY <1>0 DEF JobFields, SameSignals
<1> QED  BY <1>1, <1>2, <1>3

\* A window fired: its total is remembered, with an alert when it calls for one.
LEMMA MonitorMoves ==
    ASSUME JobShape, NEW j \in StreamJob, Monitor(j)
    PROVE  /\ \E rec, total, alert :
                 /\ job' = [job EXCEPT ![j] = rec] /\ JobFields(rec)
                 /\ rec.totals = Append(job[j].totals, total) /\ rec.prev = total
                 /\ alert.at = Len(job[j].totals) + 1 /\ alert.prev = job[j].prev
                 /\ alert.delta = Exceeds(total, job[j].prev)
                 /\ \/ rec.alerts = job[j].alerts \cup {alert}
                    \/ rec.alerts = job[j].alerts /\ ~(total >= MinCount /\ alert.delta)
                 /\ rec.rows = job[j].rows /\ rec.pc = job[j].pc
           /\ UNCHANGED <<saved, created, table, commits>> /\ job[j].pc = "running"
<1>0. JobFields(job[j])
  BY DEF JobShape
<1>1. PICK w : LET perUser == InWindow(job[j].seen, w)
                   total == SumOf(perUser)
                   alert == [at |-> Len(job[j].totals) + 1, prev |-> job[j].prev,
                             delta |-> Exceeds(total, job[j].prev), skew |-> Skewed(perUser, total)]
                   quiet == [job[j] EXCEPT !.seen = Without(@, {q \in DOMAIN @ : q[2] = w}),
                                           !.totals = Append(@, total), !.prev = total]
               IN Goes(j, IF total >= MinCount /\ (alert.delta \/ alert.skew)
                          THEN [quiet EXCEPT !.alerts = @ \cup {alert}] ELSE quiet)
  BY DEF Monitor
<1>2. UNCHANGED <<saved, created, table, commits>> /\ job[j].pc = "running"
  BY DEF Monitor, lakeVars, Runs
<1>3. PICK perUser, total : perUser = InWindow(job[j].seen, w) /\ total = SumOf(perUser)
  OBVIOUS
<1>4. PICK alert : alert = [at |-> Len(job[j].totals) + 1, prev |-> job[j].prev,
                            delta |-> Exceeds(total, job[j].prev), skew |-> Skewed(perUser, total)]
  OBVIOUS
<1>5. PICK seen : seen = Without(job[j].seen, {q \in DOMAIN job[j].seen : q[2] = w})
  OBVIOUS
<1>6. PICK quiet : quiet = [job[j] EXCEPT !.seen = seen, !.totals = Append(job[j].totals, total), !.prev = total]
  OBVIOUS
<1>7. job' = [job EXCEPT ![j] = IF total >= MinCount /\ (alert.delta \/ alert.skew)
                                THEN [quiet EXCEPT !.alerts = quiet.alerts \cup {alert}] ELSE quiet]
  BY <1>1, <1>3, <1>4, <1>5, <1>6 DEF Goes
<1>8. /\ JobFields(quiet) /\ quiet.totals = Append(job[j].totals, total) /\ quiet.prev = total
      /\ quiet.alerts = job[j].alerts /\ quiet.rows = job[j].rows /\ quiet.pc = job[j].pc
  BY <1>0, <1>6 DEF JobFields
<1>9. /\ alert.at = Len(job[j].totals) + 1 /\ alert.prev = job[j].prev
      /\ alert.delta = Exceeds(total, job[j].prev)
  BY <1>4
<1>10. CASE total >= MinCount /\ (alert.delta \/ alert.skew)
  <2>1. PICK a : a = quiet.alerts \cup {alert}
    OBVIOUS
  <2>2. PICK rec : rec = [quiet EXCEPT !.alerts = a]
    OBVIOUS
  <2>3. /\ JobFields(rec) /\ rec.totals = quiet.totals /\ rec.prev = quiet.prev
        /\ rec.alerts = a /\ rec.rows = quiet.rows /\ rec.pc = quiet.pc
    BY <1>8, <2>2 DEF JobFields
  <2>4. job' = [job EXCEPT ![j] = rec]
    BY <1>7, <1>10, <2>1, <2>2
  <2> QED  BY <1>2, <1>8, <1>9, <2>1, <2>3, <2>4
<1>11. CASE ~(total >= MinCount /\ (alert.delta \/ alert.skew))
  <2>1. job' = [job EXCEPT ![j] = quiet]
    BY <1>7, <1>11
  <2> QED  BY <1>2, <1>8, <1>9, <1>11, <2>1
<1> QED  BY <1>10, <1>11

-----------------------------------------------------------------------------
(* Drift signals                                                           *)

Preceding(totals, i) == IF i = 1 THEN None ELSE totals[i - 1]

\* The monitor remembers the last total, and its alerts and totals agree.
SignalsAgree(r) ==
    /\ \E S : r.totals \in Seq(S)
    /\ r.prev = Preceding(r.totals, Len(r.totals) + 1)
    /\ \A a \in r.alerts : a.at \in DOMAIN r.totals /\ a.prev = Preceding(r.totals, a.at)
    /\ \A i \in DOMAIN r.totals :
          r.totals[i] >= MinCount /\ Exceeds(r.totals[i], Preceding(r.totals, i)) => \E a \in r.alerts : a.at = i /\ a.delta

SignalInv == JobShape /\ \A j \in StreamJob : SignalsAgree(job[j]) /\ SignalsAgree(saved[j])

LEMMA SignalsStart == Init => SignalInv
<1> SUFFICES ASSUME Init PROVE SignalInv
  OBVIOUS
<1>1. job = [j \in StreamJob |-> NewJob] /\ saved = [j \in StreamJob |-> NewJob]
  BY DEF Init, JobInit
<1>2. JobFields(NewJob)
  BY DEF JobFields, NewJob
<1>3. SignalsAgree(NewJob)
  <2>1. NewJob.totals = <<>> /\ NewJob.prev = None /\ NewJob.alerts = {}
    BY DEF NewJob
  <2>2. <<>> \in Seq({}) /\ Len(<<>>) = 0 /\ DOMAIN <<>> = {}
    OBVIOUS
  <2> QED  BY <2>1, <2>2 DEF SignalsAgree, Preceding
<1> QED  BY <1>1, <1>2, <1>3 DEF SignalInv, JobShape

LEMMA SameSignalsAgree ==
    ASSUME NEW r, NEW s, SignalsAgree(r), SameSignals(r, s)
    PROVE  SignalsAgree(s)
BY DEF SignalsAgree, SameSignals

LEMMA FiredSignalsAgree ==
    ASSUME NEW r, SignalsAgree(r), NEW s, NEW total, NEW alert,
           s.totals = Append(r.totals, total), s.prev = total,
           alert.at = Len(r.totals) + 1, alert.prev = r.prev, alert.delta = Exceeds(total, r.prev),
           \/ s.alerts = r.alerts \cup {alert}
           \/ s.alerts = r.alerts /\ ~(total >= MinCount /\ alert.delta)
    PROVE  SignalsAgree(s)
<1>1. PICK S : r.totals \in Seq(S)
  BY DEF SignalsAgree
<1> DEFINE n == Len(r.totals)
<1>2. /\ s.totals \in Seq(S \cup {total}) /\ Len(s.totals) = n + 1 /\ n \in Nat
      /\ DOMAIN s.totals = 1..(n + 1) /\ DOMAIN r.totals = 1..n
      /\ \A i \in 1..n : s.totals[i] = r.totals[i]
      /\ s.totals[n + 1] = total
  <2>1. r.totals \in Seq(S \cup {total})
    BY <1>1
  <2> QED  BY <1>1, <2>1
<1> HIDE DEF n
<1>3. \A i \in 1..(n + 1) : Preceding(s.totals, i) = Preceding(r.totals, i)
  BY <1>2 DEF Preceding
<1>4. s.prev = Preceding(s.totals, Len(s.totals) + 1)
  BY <1>2 DEF Preceding
<1>5. r.prev = Preceding(r.totals, n + 1) /\ alert.at = n + 1
  BY DEF SignalsAgree, n
<1>6. \A a \in r.alerts : a.at \in 1..n /\ a.prev = Preceding(r.totals, a.at)
  BY <1>2 DEF SignalsAgree
<1>7. \A a \in s.alerts : a.at \in DOMAIN s.totals /\ a.prev = Preceding(s.totals, a.at)
  <2> SUFFICES ASSUME NEW a \in s.alerts
               PROVE  a.at \in DOMAIN s.totals /\ a.prev = Preceding(s.totals, a.at)
    OBVIOUS
  <2>1. CASE a \in r.alerts
    <3>1. a.at \in 1..n /\ a.at \in 1..(n + 1)
      BY <1>2, <1>6, <2>1
    <3> QED  BY <1>2, <1>3, <1>6, <2>1, <3>1
  <2>2. CASE a = alert
    <3>1. n + 1 \in 1..(n + 1)
      BY <1>2
    <3> QED  BY <1>2, <1>3, <1>5, <2>2, <3>1
  <2> QED  BY <2>1, <2>2
<1>8. ASSUME NEW i \in DOMAIN s.totals, s.totals[i] >= MinCount, Exceeds(s.totals[i], Preceding(s.totals, i))
      PROVE  \E a \in s.alerts : a.at = i /\ a.delta
  <2>1. CASE i \in 1..n
    <3>1. r.totals[i] >= MinCount /\ Exceeds(r.totals[i], Preceding(r.totals, i))
      BY <1>2, <1>3, <1>8, <2>1
    <3>2. \E a \in r.alerts : a.at = i /\ a.delta
      BY <1>2, <2>1, <3>1 DEF SignalsAgree
    <3> QED  BY <3>2
  <2>2. CASE i = n + 1
    <3>1. total >= MinCount /\ alert.delta
      <4>1. total >= MinCount /\ Exceeds(total, r.prev)
        BY <1>2, <1>3, <1>5, <1>8, <2>2
      <4> QED  BY <4>1
    <3> QED  BY <1>5, <2>2, <3>1
  <2> QED  BY <1>2, <2>1, <2>2
<1> QED  BY <1>2, <1>4, <1>7, <1>8 DEF SignalsAgree

\* One job's state is replaced, and perhaps kept as its checkpoint.
LEMMA ReplacedKeeps ==
    ASSUME SignalInv, NEW j \in StreamJob, NEW rec, job' = [job EXCEPT ![j] = rec], JobFields(rec), SignalsAgree(rec),
           saved' = saved \/ saved' = [saved EXCEPT ![j] = rec]
    PROVE  SignalInv'
<1>1. JobShape /\ \A k \in StreamJob : SignalsAgree(job[k]) /\ SignalsAgree(saved[k])
  BY DEF SignalInv
<1>2. job' = [k \in StreamJob |-> job'[k]] /\ saved' = [k \in StreamJob |-> saved'[k]]
  BY <1>1 DEF JobShape
<1>3. ASSUME NEW k \in StreamJob
      PROVE  /\ job'[k] = rec \/ job'[k] = job[k]
             /\ saved'[k] = rec \/ saved'[k] = saved[k]
  BY <1>1 DEF JobShape
<1>4. ASSUME NEW k \in StreamJob
      PROVE  /\ JobFields(job'[k]) /\ JobFields(saved'[k]) /\ SignalsAgree(job'[k]) /\ SignalsAgree(saved'[k])
  <2>1. JobFields(job[k]) /\ JobFields(saved[k]) /\ SignalsAgree(job[k]) /\ SignalsAgree(saved[k])
    BY <1>1 DEF JobShape
  <2> QED  BY <1>3, <2>1
<1> QED  BY <1>2, <1>4 DEF SignalInv, JobShape

LEMMA SignalsKeep ==
    ASSUME SignalInv, [Next]_vars
    PROVE  SignalInv'
<1>0. JobShape /\ \A k \in StreamJob : SignalsAgree(job[k]) /\ SignalsAgree(saved[k])
  BY DEF SignalInv
<1>1. CASE UNCHANGED <<job, saved>>
  BY <1>1 DEF SignalInv, JobShape
<1>2. ASSUME NEW j \in StreamJob, NEW rec, Moves(j, rec), saved' = saved \/ saved' = [saved EXCEPT ![j] = rec]
      PROVE  SignalInv'
  <2>1. PICK r : r = job[j]
    OBVIOUS
  <2>2. SignalsAgree(r) /\ SameSignals(r, rec)
    BY <1>0, <1>2, <2>1 DEF Moves
  <2>3. SignalsAgree(rec)
    BY <2>2, SameSignalsAgree
  <2> QED  BY <1>2, <2>3, ReplacedKeeps DEF Moves
<1>3. ASSUME NEW j \in StreamJob, Restart(j)
      PROVE  SignalInv'
  <2>1. PICK r, rec : r = saved[j] /\ job' = [job EXCEPT ![j] = rec] /\ JobFields(rec) /\ SameSignals(r, rec) /\ saved' = saved
    BY <1>0, <1>3, RestartMoves
  <2>2. SignalsAgree(rec)
    BY <1>0, <2>1, SameSignalsAgree
  <2> QED  BY <2>1, <2>2, ReplacedKeeps
<1>4. ASSUME NEW j \in StreamJob, Monitor(j)
      PROVE  SignalInv'
  <2>1. PICK rec, total, alert :
                 /\ job' = [job EXCEPT ![j] = rec] /\ JobFields(rec)
                 /\ rec.totals = Append(job[j].totals, total) /\ rec.prev = total
                 /\ alert.at = Len(job[j].totals) + 1 /\ alert.prev = job[j].prev
                 /\ alert.delta = Exceeds(total, job[j].prev)
                 /\ \/ rec.alerts = job[j].alerts \cup {alert}
                    \/ rec.alerts = job[j].alerts /\ ~(total >= MinCount /\ alert.delta)
    BY <1>0, <1>4, MonitorMoves
  <2>2. PICK r : r = job[j]
    OBVIOUS
  <2>3. SignalsAgree(rec)
    BY <1>0, <2>1, <2>2, FiredSignalsAgree
  <2>4. saved' = saved
    BY <1>0, <1>4, MonitorMoves
  <2> QED  BY <2>1, <2>3, <2>4, ReplacedKeeps
<1>5. CASE JobNext
  <2>1. CASE Produce \/ Tick \/ DlqStart \/ DlqRead \/ SendSignal
    BY <1>1, <2>1 DEF Produce, Tick, DlqStart, DlqRead, SendSignal
  <2>2. ASSUME NEW j \in StreamJob, Send(j)
        PROVE  SignalInv'
    BY <1>1, <2>2 DEF Send
  <2>3. ASSUME NEW j \in StreamJob,
               \/ Submit(j) \/ CreateTable(j) \/ Skip(j) \/ Reject(j) \/ Quarantine(j) \/ Count(j)
               \/ Advance(j) \/ EndOfInput(j) \/ Fire(j) \/ Flush(j) \/ Checkpoint(j) \/ Finish(j) \/ Crash(j)
        PROVE  SignalInv'
    <3>1. \E rec : Moves(j, rec) /\ (saved' = saved \/ saved' = [saved EXCEPT ![j] = rec])
      BY <1>0, <2>3, SubmissionMoves, ReadingMoves, FiringMoves, CommitMoves, CrashMoves
    <3> QED  BY <1>2, <3>1
  <2> QED  BY <1>3, <1>4, <1>5, <2>1, <2>2, <2>3 DEF JobNext
<1>6. CASE CareNext
  <2>1. Others
    BY <1>6 DEF CareNext, Load, DryExpire, Expire, Compact, Scan
  <2> QED  BY <1>1, <2>1 DEF Others
<1> QED  BY <1>1, <1>5, <1>6 DEF Next, vars, jobVars

LEMMA SignalsAlways == Spec => []SignalInv
BY SignalsStart, SignalsKeep, PTL DEF Spec

\* For any feed, any windows and any thresholds, through crashes and restarts:
\* a drift signal compares a window with the one fired before it, and every
\* window that differs enough has its signal.
THEOREM DeltasHold == Spec => []DeltasFollowTheWindows
<1>1. SignalInv => DeltasFollowTheWindows
  <2> SUFFICES ASSUME SignalInv PROVE DeltasFollowTheWindows
    OBVIOUS
  <2>1. "live" \in StreamJob
    BY DEF StreamJob
  <2>2. SignalsAgree(job["live"])
    BY <2>1 DEF SignalInv
  <2> QED  BY <2>2 DEF SignalsAgree, Preceding, DeltasFollowTheWindows
<1> QED  BY <1>1, SignalsAlways, PTL

-----------------------------------------------------------------------------
(* Sums over a set, by the units they are made of                          *)

Units(val, S) == {p \in S \X Nat : p[2] \in 1..val[p[1]]}
Total(val, S) == Cardinality(Units(val, S))
Chosen(S) == CHOOSE x \in S : TRUE

LEMMA UnitsFinite ==
    ASSUME NEW val, NEW x, val[x] \in Nat
    PROVE  IsFiniteSet(Units(val, {x})) /\ Total(val, {x}) = val[x]
<1> DEFINE f == [k \in 1..val[x] |-> <<x, k>>]
<1>1. f \in Bijection(1..val[x], Units(val, {x}))
  <2>1. \A p : p \in Units(val, {x}) <=> \E k \in 1..val[x] : p = <<x, k>>
    BY DEF Units
  <2>2. f \in [1..val[x] -> Units(val, {x})]
    BY <2>1
  <2>3. \A k, l \in 1..val[x] : f[k] = f[l] => k = l
    OBVIOUS
  <2>4. \A p \in Units(val, {x}) : \E k \in 1..val[x] : f[k] = p
    BY <2>1
  <2> QED  BY <2>2, <2>3, <2>4 DEF Bijection, Injection, Surjection, IsInjective
<1> HIDE DEF f
<1>2. IsFiniteSet(1..val[x]) /\ Cardinality(1..val[x]) = val[x]
  BY FS_Interval, val[x] + 1 > 1 \/ val[x] = 0
<1>3. ExistsBijection(1..val[x], Units(val, {x}))
  BY <1>1 DEF ExistsBijection
<1> QED  BY <1>2, <1>3, FS_Bijection DEF Total

LEMMA UnitsOfTwo ==
    ASSUME NEW val, NEW S, NEW T
    PROVE Units(val, S \cup T) = Units(val, S) \cup Units(val, T)
BY DEF Units

LEMMA TotalAdds ==
    ASSUME NEW val, NEW S, IsFiniteSet(Units(val, S)), NEW x, x \notin S, val[x] \in Nat
    PROVE  /\ IsFiniteSet(Units(val, S \cup {x}))
           /\ Total(val, S \cup {x}) = Total(val, S) + val[x]
<1>1. Units(val, S \cup {x}) = Units(val, S) \cup Units(val, {x})
  BY UnitsOfTwo
<1> DEFINE old == Units(val, S)
           new == Units(val, {x})
<1>2. old \cap new = {}
  BY DEF Units
<1>3. IsFiniteSet(new) /\ Cardinality(new) = val[x]
  BY UnitsFinite DEF Total
<1>4. IsFiniteSet(old) /\ Cardinality(old) \in Nat
  BY FS_CardinalityType
<1> HIDE DEF old, new
<1>5. /\ IsFiniteSet(old \cup new)
      /\ Cardinality(old \cup new) = Cardinality(old) + Cardinality(new) - Cardinality(old \cap new)
  BY <1>3, <1>4, FS_Union
<1>6. Cardinality(old \cup new) = Cardinality(old) + val[x]
  BY <1>2, <1>3, <1>4, <1>5, FS_EmptySet
<1> QED  BY <1>1, <1>5, <1>6 DEF Total, old, new

\* Sets of n elements have a finite number of units.
LEMMA TotalNatural ==
    ASSUME NEW S, IsFiniteSet(S), NEW val, \A x \in S : val[x] \in Nat
    PROVE  IsFiniteSet(Units(val, S)) /\ Total(val, S) \in Nat
<1> DEFINE bad == {n \in Nat : \E T \in SUBSET S : Cardinality(T) = n /\ ~IsFiniteSet(Units(val, T))}
<1>1. ASSUME bad # {} PROVE FALSE
  <2>1. bad \subseteq Nat
    OBVIOUS
  <2>2. PICK n \in bad : \A m \in bad : n <= m
    BY <1>1, <2>1, LeastNumber
  <2>3. PICK T \in SUBSET S : Cardinality(T) = n /\ ~IsFiniteSet(Units(val, T))
    BY <2>2
  <2>4. IsFiniteSet(T)
    BY FS_Subset
  <2>5. T # {}
    <3>1. Units(val, {}) = {}
      BY DEF Units
    <3> QED  BY <2>3, <3>1, FS_EmptySet
  <2>6. PICK x \in T : TRUE
    BY <2>5
  <2>7. IsFiniteSet(T \ {x}) /\ Cardinality(T \ {x}) = n - 1 /\ n \in Nat
    BY <2>2, <2>3, <2>4, FS_RemoveElement
  <2>8. n - 1 \in Nat /\ T \ {x} \in SUBSET S
    BY <2>7, FS_CardinalityType
  <2>9. IsFiniteSet(Units(val, T \ {x}))
    BY <2>2, <2>7, <2>8
  <2>10. IsFiniteSet(Units(val, (T \ {x}) \cup {x}))
    BY <2>9, TotalAdds
  <2>11. (T \ {x}) \cup {x} = T
    BY <2>6
  <2> QED  BY <2>3, <2>10, <2>11
<1>2. IsFiniteSet(Units(val, S))
  <2>1. Cardinality(S) \in Nat /\ S \in SUBSET S
    BY FS_CardinalityType
  <2> QED  BY <1>1, <2>1
<1> QED  BY <1>2, FS_CardinalityType DEF Total

LEMMA TotalRemoves ==
    ASSUME NEW T, IsFiniteSet(T), NEW val, \A y \in T : val[y] \in Nat, NEW x \in T
    PROVE  Total(val, T) = val[x] + Total(val, T \ {x})
<1>1. /\ IsFiniteSet(T \ {x}) /\ (T \ {x}) \cup {x} = T /\ val[x] \in Nat
  BY FS_Subset
<1>2. IsFiniteSet(Units(val, T \ {x})) /\ Total(val, T \ {x}) \in Nat
  BY <1>1, TotalNatural
<1>3. Total(val, (T \ {x}) \cup {x}) = Total(val, T \ {x}) + val[x]
  BY <1>1, <1>2, TotalAdds
<1>4. Total(val, T) = Total(val, T \ {x}) + val[x]
  BY <1>1, <1>3
<1> QED  BY <1>1, <1>2, <1>4

\* A fold that is defined by recursion over the subsets of the places of a sequence.
LEMMA RecursionIsTotal ==
    ASSUME NEW S, IsFiniteSet(S), NEW val, \A x \in S : val[x] \in Nat, NEW iter,
           \A T \in SUBSET S : iter[T] = IF T = {} THEN 0 ELSE val[Chosen(T)] + iter[T \ {Chosen(T)}]
    PROVE  iter[S] = Total(val, S)
<1>0. \A T \in SUBSET S : IsFiniteSet(T)
  BY FS_Subset
<1>1. \A T \in SUBSET S : T # {} => Chosen(T) \in T
  BY DEF Chosen
<1>2. Total(val, {}) = 0
  <2>1. Units(val, {}) = {}
    BY DEF Units
  <2> QED  BY <2>1, FS_EmptySet DEF Total
<1>3. \A T \in SUBSET S : T # {} => Total(val, T) = val[Chosen(T)] + Total(val, T \ {Chosen(T)})
  BY <1>0, <1>1, TotalRemoves
<1> DEFINE bad == {n \in Nat : \E T \in SUBSET S : Cardinality(T) = n /\ iter[T] # Total(val, T)}
<1>6. ASSUME bad # {} PROVE FALSE
  <2>2. PICK n \in bad : \A m \in bad : n <= m
    <3>1. bad \subseteq Nat
      OBVIOUS
    <3> QED  BY <1>6, <3>1, LeastNumber
  <2>3. PICK T \in SUBSET S : Cardinality(T) = n /\ iter[T] # Total(val, T)
    BY <2>2
  <2>4. iter[T] = IF T = {} THEN 0 ELSE val[Chosen(T)] + iter[T \ {Chosen(T)}]
    OBVIOUS
  <2>5. T # {}
    BY <1>2, <2>3, <2>4
  <2>6. PICK x \in T : x = Chosen(T)
    BY <1>1, <2>5
  <2>7. IsFiniteSet(T \ {x}) /\ Cardinality(T \ {x}) = n - 1 /\ n \in Nat
    BY <1>0, <2>2, <2>3, FS_RemoveElement
  <2>8. n - 1 \in Nat /\ T \ {x} \in SUBSET S
    BY <2>7, FS_CardinalityType
  <2>9. iter[T \ {x}] = Total(val, T \ {x})
    <3>1. ASSUME n - 1 \in bad PROVE FALSE
      <4>1. n <= n - 1
        BY <2>2, <3>1
      <4> QED  BY <2>7, <4>1
    <3> QED  BY <2>7, <2>8, <3>1
  <2> QED  BY <1>3, <2>3, <2>4, <2>5, <2>6, <2>9
<1>7. Cardinality(S) \in Nat /\ S \in SUBSET S
  BY FS_CardinalityType
<1> QED  BY <1>6, <1>7

\* A recursive sum over the subsets of a finite set is the total, whatever it chooses.
LEMMA FoldIsTotal ==
    ASSUME NEW S, IsFiniteSet(S), NEW val, \A x \in S : val[x] \in Nat,
           NEW iter,
           iter = CHOOSE g : g = [T \in SUBSET S |-> IF T = {} THEN 0
                                  ELSE val[Chosen(T)] + g[T \ {Chosen(T)}]]
    PROVE  iter[S] = Total(val, S)
<1> DEFINE step(g) == [T \in SUBSET S |-> IF T = {} THEN 0
                                  ELSE val[Chosen(T)] + g[T \ {Chosen(T)}]]
           sum == [T \in SUBSET S |-> Total(val, T)]
<1>0. \A T \in SUBSET S : IsFiniteSet(T)
  BY FS_Subset
<1>1. \A T \in SUBSET S : T # {} => Chosen(T) \in T
  BY DEF Chosen
<1>2. Total(val, {}) = 0
  <2>1. Units(val, {}) = {}
    BY DEF Units
  <2> QED  BY <2>1, FS_EmptySet DEF Total
<1>3. \A T \in SUBSET S : T # {} => Total(val, T) = val[Chosen(T)] + Total(val, T \ {Chosen(T)})
  BY <1>0, <1>1, TotalRemoves
<1>4. sum = step(sum)
  <2> SUFFICES ASSUME NEW T \in SUBSET S PROVE sum[T] = step(sum)[T]
    OBVIOUS
  <2> QED  BY <1>1, <1>2, <1>3
<1>5. iter = step(iter)
  BY <1>4
<1> DEFINE bad == {n \in Nat : \E T \in SUBSET S : Cardinality(T) = n /\ iter[T] # Total(val, T)}
<1>6. ASSUME bad # {} PROVE FALSE
  <2>2. PICK n \in bad : \A m \in bad : n <= m
    <3>1. bad \subseteq Nat
      OBVIOUS
    <3> QED  BY <1>6, <3>1, LeastNumber
  <2>3. PICK T \in SUBSET S : Cardinality(T) = n /\ iter[T] # Total(val, T)
    BY <2>2
  <2>4. iter[T] = IF T = {} THEN 0 ELSE val[Chosen(T)] + iter[T \ {Chosen(T)}]
    BY <1>5
  <2>5. T # {}
    BY <1>2, <2>3, <2>4
  <2>6. PICK x \in T : x = Chosen(T)
    BY <1>1, <2>5
  <2>7. IsFiniteSet(T \ {x}) /\ Cardinality(T \ {x}) = n - 1 /\ n \in Nat
    BY <1>0, <2>2, <2>3, FS_RemoveElement
  <2>8. n - 1 \in Nat /\ T \ {x} \in SUBSET S
    BY <2>7, FS_CardinalityType
  <2>9. iter[T \ {x}] = Total(val, T \ {x})
    <3>1. ASSUME n - 1 \in bad PROVE FALSE
      <4>1. n <= n - 1
        BY <2>2, <3>1
      <4> QED  BY <2>7, <4>1
    <3> QED  BY <2>7, <2>8, <3>1
  <2> QED  BY <1>3, <2>3, <2>4, <2>5, <2>6, <2>9
<1>7. Cardinality(S) \in Nat /\ S \in SUBSET S
  BY FS_CardinalityType
<1> QED  BY <1>6, <1>7

LEMMA FilesTotal ==
    ASSUME NEW s \in Seq(Nat)
    PROVE  FoldSeq(LAMBDA n, sum : n + sum, 0, s) = Total(s, 1..Len(s))
<1>1. IsFiniteSet(1..Len(s)) /\ DOMAIN s = 1..Len(s) /\ \A i \in DOMAIN s : s[i] \in Nat
  BY FS_Interval
<1> QED  BY <1>1, FoldIsTotal DEF FoldSeq, FoldFunction, FoldFunctionOnSet, MapThenFoldSet, Chosen

LEMMA TotalAppends ==
    ASSUME NEW s \in Seq(Nat), NEW n \in Nat
    PROVE  Total(Append(s, n), 1..Len(Append(s, n))) = Total(s, 1..Len(s)) + n
<1> DEFINE t == Append(s, n)
           k == Len(s)
<1>1. /\ IsFiniteSet(1..k) /\ k \in Nat /\ Len(t) = k + 1 /\ 1..(k + 1) = (1..k) \cup {k + 1} /\ k + 1 \notin 1..k
      /\ t[k + 1] = n /\ \A i \in 1..k : t[i] = s[i] /\ t[i] \in Nat
  <2>1. k \in Nat /\ Len(t) = k + 1 /\ t[k + 1] = n /\ \A i \in 1..k : t[i] = s[i] /\ t[i] \in Nat
    OBVIOUS
  <2> HIDE DEF t, k
  <2>2. IsFiniteSet(1..k)
    BY <2>1, FS_Interval
  <2> QED  BY <2>1, <2>2
<1> HIDE DEF t, k
<1>2. Units(t, 1..k) = Units(s, 1..k)
  BY <1>1 DEF Units
<1>3. IsFiniteSet(Units(t, 1..k))
  BY <1>1, TotalNatural
<1>4. Total(t, (1..k) \cup {k + 1}) = Total(t, 1..k) + n
  <2>1. PICK K, x : K = 1..k /\ x = k + 1
    OBVIOUS
  <2>2. IsFiniteSet(Units(t, K)) /\ x \notin K /\ t[x] \in Nat /\ t[x] = n
    BY <1>1, <1>3, <2>1
  <2>3. Total(t, K \cup {x}) = Total(t, K) + t[x]
    BY <2>2, TotalAdds
  <2> QED  BY <2>1, <2>2, <2>3
<1>5. Total(t, 1..Len(t)) = Total(s, 1..k) + n
  BY <1>1, <1>2, <1>4 DEF Total
<1> QED  BY <1>5 DEF t, k

-----------------------------------------------------------------------------
(* Sums of sequences                                                       *)

Sum(s) == Total(s, 1..Len(s))

LEMMA SumNatural == ASSUME NEW s \in Seq(Nat) PROVE Sum(s) \in Nat
<1>1. PICK n \in Nat : n = Len(s)
  OBVIOUS
<1>2. IsFiniteSet(1..n)
  BY FS_Interval
<1>3. \A i \in 1..n : s[i] \in Nat
  BY <1>1
<1> QED  BY <1>1, <1>2, <1>3, TotalNatural DEF Sum

LEMMA SumOfNone == Sum(<<>>) = 0
<1>1. Units(<<>>, 1..0) = {}
  BY DEF Units
<1>2. Len(<<>>) = 0
  OBVIOUS
<1> QED  BY <1>1, <1>2, FS_EmptySet DEF Sum, Total

LEMMA SumAppends ==
    ASSUME NEW s \in Seq(Nat), NEW n \in Nat
    PROVE  Sum(Append(s, n)) = Sum(s) + n
BY TotalAppends DEF Sum

LEMMA AppendedLast ==
    ASSUME NEW S, NEW s \in Seq(S), s # <<>>
    PROVE  \E c \in Seq(S), x \in S : s = Append(c, x) /\ Len(s) = Len(c) + 1
<1> DEFINE n == Len(s)
           c == [i \in 1..(n - 1) |-> s[i]]
<1>1. n \in Nat \ {0} /\ s[n] \in S
  OBVIOUS
<1>2. c \in Seq(S) /\ Len(c) = n - 1
  BY <1>1
<1>3. s = Append(c, s[n]) /\ n = (n - 1) + 1
  BY <1>1, <1>2
<1>4. PICK d \in Seq(S), x \in S : s = Append(d, x)
  BY <1>1, <1>2, <1>3
<1> QED  BY <1>4

LEMMA SumConcat ==
    ASSUME NEW a \in Seq(Nat), NEW b \in Seq(Nat)
    PROVE  Sum(a \o b) = Sum(a) + Sum(b)
<1> DEFINE bad == {n \in Nat : \E c \in Seq(Nat) : Len(c) = n /\ Sum(a \o c) # Sum(a) + Sum(c)}
<1>1. ASSUME bad # {} PROVE FALSE
  <2>1. PICK n \in bad : \A m \in bad : n <= m
    <3>1. bad \subseteq Nat
      OBVIOUS
    <3> QED  BY <1>1, <3>1, LeastNumber
  <2>2. PICK c \in Seq(Nat) : Len(c) = n /\ Sum(a \o c) # Sum(a) + Sum(c)
    BY <2>1
  <2>3. c # <<>>
    <3>1. a \o <<>> = a /\ Sum(a) \in Nat
      BY SumNatural
    <3>2. PICK p \in Nat : p = Sum(a)
      BY <3>1
    <3>3. ASSUME c = <<>> PROVE Sum(a \o c) = Sum(a) + Sum(c)
      BY <3>1, <3>2, <3>3, SumOfNone
    <3> QED  BY <2>2, <3>3
  <2>4. PICK d \in Seq(Nat), x \in Nat : c = Append(d, x) /\ Len(c) = Len(d) + 1
    BY <2>3, AppendedLast
  <2>5. Sum(a \o d) = Sum(a) + Sum(d)
    <3>1. Len(d) \in Nat /\ Len(d) < n /\ n \in Nat
      BY <2>1, <2>2, <2>4
    <3>2. Len(d) \notin bad
      BY <2>1, <3>1
    <3> QED  BY <3>1, <3>2
  <2>6. a \o c = Append(a \o d, x) /\ a \o d \in Seq(Nat)
    BY <2>4
  <2>7. Sum(c) = Sum(d) + x /\ Sum(a \o c) = Sum(a \o d) + x
    BY <2>4, <2>6, SumAppends
  <2>8. Sum(a) \in Nat /\ Sum(d) \in Nat
    BY SumNatural
  <2> QED  BY <2>2, <2>5, <2>7, <2>8
<1>2. Len(b) \in Nat /\ Len(b) \notin bad
  BY <1>1
<1> QED  BY <1>2

-----------------------------------------------------------------------------
(* Retention                                                               *)

LEMMA GreatestNumber ==
    ASSUME NEW L \in Nat, NEW T, T \subseteq 1..L, T # {}
    PROVE  Max(T) \in T /\ \A y \in T : Max(T) >= y
<1> DEFINE below == {n \in Nat : \E x \in T : n = L - x}
<1>1. below # {} /\ below \subseteq Nat
  <2>1. PICK x \in T : TRUE
    OBVIOUS
  <2>2. L - x \in Nat
    BY <2>1
  <2> QED  BY <2>2
<1>2. PICK n \in below : \A m \in below : n <= m
  BY <1>1, LeastNumber
<1>3. PICK x \in T : n = L - x
  BY <1>2
<1>4. \A y \in T : x >= y
  <2> SUFFICES ASSUME NEW y \in T PROVE x >= y
    OBVIOUS
  <2>1. L - y \in below /\ x \in 1..L /\ y \in 1..L
    OBVIOUS
  <2>2. n <= L - y
    BY <1>2, <2>1
  <2> QED  BY <1>3, <2>1, <2>2
<1> QED  BY <1>4 DEF Max

Lesser(a, b) == IF a <= b THEN a ELSE b
Room(s) == IF Len(s) > RetainLast THEN Len(s) - RetainLast ELSE 0
Old(s, T, before) == {i \in T : s[i].at < before}

\* The dry run's count is that of the old snapshots, until only RetainLast are left.
LEMMA CountOfOld ==
    ASSUME NEW S, NEW s \in Seq(S), NEW before
    PROVE  DryCount(s, before) = Lesser(Cardinality(Old(s, 1..Len(s), before)), Room(s))
<1> DEFINE L == Len(s)
           R == 1..L
           step(g) == [T \in SUBSET R |-> IF T = {} THEN 0
                          ELSE IF s[Max(T)].at < before /\ L - g[T \ {Max(T)}] > RetainLast
                               THEN g[T \ {Max(T)}] + 1 ELSE g[T \ {Max(T)}]]
           closed == [T \in SUBSET R |-> Lesser(Cardinality(Old(s, T, before)), Room(s))]
           iter == CHOOSE g : g = step(g)
<1>1. L \in Nat /\ DOMAIN s = R /\ IsFiniteSet(R)
  BY FS_Interval
<1>2. Room(s) \in Nat /\ RetainLast \in Nat /\ (L > RetainLast => Room(s) = L - RetainLast) /\ (~(L > RetainLast) => Room(s) = 0)
  <2>1. RetainLast \in Nat
    BY CareAssumption
  <2>2. L \in Nat
    BY <1>1
  <2> HIDE DEF L
  <2>3. Room(s) = IF L > RetainLast THEN L - RetainLast ELSE 0
    BY DEF Room, L
  <2>4. L > RetainLast => L - RetainLast \in Nat
    BY <2>1, <2>2
  <2> QED  BY <2>1, <2>3, <2>4
<1>3. \A T \in SUBSET R : /\ IsFiniteSet(T) /\ IsFiniteSet(Old(s, T, before))
                          /\ Cardinality(Old(s, T, before)) \in Nat
  <2> SUFFICES ASSUME NEW T \in SUBSET R
               PROVE  /\ IsFiniteSet(T) /\ IsFiniteSet(Old(s, T, before))
                      /\ Cardinality(Old(s, T, before)) \in Nat
    OBVIOUS
  <2>1. IsFiniteSet(T) /\ Old(s, T, before) \subseteq T
    BY <1>1, FS_Subset DEF Old
  <2> QED  BY <2>1, FS_Subset, FS_CardinalityType
<1>4. \A T \in SUBSET R : T # {} => Max(T) \in T
  BY <1>1, GreatestNumber
<1>5. ASSUME NEW T \in SUBSET R, T # {}
      PROVE  closed[T] = IF s[Max(T)].at < before /\ L - closed[T \ {Max(T)}] > RetainLast
                         THEN closed[T \ {Max(T)}] + 1 ELSE closed[T \ {Max(T)}]
  <2>1. PICK x \in T : x = Max(T)
    BY <1>4, <1>5
  <2>2. T \ {x} \in SUBSET R
    OBVIOUS
  <2>3. PICK c \in Nat, d \in Nat : c = Cardinality(Old(s, T, before)) /\ d = Cardinality(Old(s, T \ {x}, before))
    BY <1>3, <2>2
  <2>4. closed[T] = Lesser(c, Room(s)) /\ closed[T \ {x}] = Lesser(d, Room(s))
    BY <2>2, <2>3
  <2>5. CASE s[x].at < before
    <3>1. Old(s, T \ {x}, before) = Old(s, T, before) \ {x} /\ x \in Old(s, T, before)
      BY <2>5 DEF Old
    <3>2. c = d + 1
      <4>1. PICK O : O = Old(s, T, before)
        OBVIOUS
      <4>2. IsFiniteSet(O) /\ x \in O /\ Cardinality(O) = c /\ Cardinality(O \ {x}) = d
        BY <1>3, <2>3, <3>1, <4>1
      <4>3. Cardinality(O \ {x}) = Cardinality(O) - 1
        BY <4>2, FS_RemoveElement
      <4> QED  BY <2>3, <4>2, <4>3
    <3>3. Lesser(c, Room(s)) = IF L - Lesser(d, Room(s)) > RetainLast THEN Lesser(d, Room(s)) + 1 ELSE Lesser(d, Room(s))
      BY <1>1, <1>2, <3>2 DEF Lesser
    <3> QED  BY <2>1, <2>4, <2>5, <3>3
  <2>6. CASE ~(s[x].at < before)
    <3>1. Old(s, T \ {x}, before) = Old(s, T, before)
      BY <2>6 DEF Old
    <3> QED  BY <2>1, <2>3, <2>4, <2>6, <3>1
  <2> QED  BY <2>5, <2>6
<1>6. closed[{}] = 0
  <2>1. Old(s, {}, before) = {}
    BY DEF Old
  <2>2. {} \in SUBSET R
    OBVIOUS
  <2>3. closed[{}] = Lesser(Cardinality({}), Room(s))
    BY <2>1, <2>2
  <2> QED  BY <1>2, <2>3, FS_EmptySet DEF Lesser
<1> HIDE DEF closed
<1>7. closed = step(closed)
  <2>1. closed = [T \in SUBSET R |-> closed[T]]
    BY DEF closed
  <2>2. ASSUME NEW T \in SUBSET R PROVE closed[T] = step(closed)[T]
    BY <1>5, <1>6
  <2> QED  BY <2>1, <2>2
<1>8. iter = step(iter)
  BY <1>7
<1>9. DryCount(s, before) = iter[R]
  BY <1>1 DEF DryCount, FoldLeft, MapThenFoldSet
<1> HIDE DEF iter
<1> DEFINE bad == {n \in Nat : \E T \in SUBSET R : Cardinality(T) = n /\ iter[T] # closed[T]}
<1>10. ASSUME bad # {} PROVE FALSE
  <2>1. PICK n \in bad : \A m \in bad : n <= m
    <3>1. bad \subseteq Nat
      OBVIOUS
    <3> QED  BY <1>10, <3>1, LeastNumber
  <2>2. PICK T \in SUBSET R : Cardinality(T) = n /\ iter[T] # closed[T]
    BY <2>1
  <2>3. T # {}
    BY <1>6, <1>8, <2>2
  <2>4. PICK x \in T : x = Max(T)
    BY <1>4, <2>3
  <2>5. IsFiniteSet(T \ {x}) /\ Cardinality(T \ {x}) = n - 1 /\ n \in Nat
    BY <1>3, <2>1, <2>2, FS_RemoveElement
  <2>6. n - 1 \in Nat /\ T \ {x} \in SUBSET R
    BY <2>5, FS_CardinalityType
  <2>7. iter[T \ {x}] = closed[T \ {x}]
    <3>1. ASSUME n - 1 \in bad PROVE FALSE
      <4>1. n <= n - 1
        BY <2>1, <3>1
      <4> QED  BY <2>5, <4>1
    <3> QED  BY <2>5, <2>6, <3>1
  <2>8. iter[T] = IF s[x].at < before /\ L - iter[T \ {x}] > RetainLast THEN iter[T \ {x}] + 1 ELSE iter[T \ {x}]
    BY <1>8, <2>3, <2>4
  <2> QED  BY <1>5, <2>2, <2>3, <2>4, <2>7, <2>8
<1>11. Cardinality(R) \in Nat /\ R \in SUBSET R
  BY <1>1, FS_CardinalityType
<1>12. iter[R] = closed[R]
  BY <1>10, <1>11
<1> QED  BY <1>9, <1>11, <1>12 DEF closed

\* Among the first numbers a set that goes down with each of its members is an interval.
LEMMA GoesDown ==
    ASSUME NEW L \in Nat, NEW D, D \subseteq 1..L, \A i \in D : \A k \in 1..L : k < i => k \in D
    PROVE  D = 1..Cardinality(D) /\ Cardinality(D) \in 0..L
<1> DEFINE out == {n \in Nat : n + 1 \notin D}
<1>1. L \in out
  OBVIOUS
<1>2. PICK m \in out : \A n \in out : m <= n
  <2>1. out \subseteq Nat
    OBVIOUS
  <2> QED  BY <1>1, <2>1, LeastNumber
<1>3. m <= L /\ m \in Nat
  BY <1>1, <1>2
<1>4. \A i \in 1..m : i \in D
  <2> SUFFICES ASSUME NEW i \in 1..m PROVE i \in D
    OBVIOUS
  <2>1. i - 1 \in Nat /\ i - 1 < m /\ (i - 1) + 1 = i
    BY <1>3
  <2>2. i - 1 \notin out
    BY <1>2, <1>3, <2>1
  <2> QED  BY <2>1, <2>2
<1>5. \A i \in D : i \in 1..m
  <2> SUFFICES ASSUME NEW i \in D, i > m PROVE FALSE
    BY <1>3
  <2>1. m + 1 \notin D /\ m + 1 \in 1..L /\ m + 1 <= i
    BY <1>2, <1>3
  <2> QED  BY <2>1
<1>6. D = 1..m
  BY <1>4, <1>5
<1>7. Cardinality(1..m) = m
  <2>1. 1 \in Int /\ m \in Int
    BY <1>3
  <2>2. Cardinality(1..m) = IF 1 > m THEN 0 ELSE m - 1 + 1
    BY <2>1, FS_Interval
  <2> QED  BY <1>3, <2>2
<1> QED  BY <1>3, <1>6, <1>7

Snaps == [id : Nat, at : Nat, manifests : Nat, files : Seq(Nat)]

\* Snapshots in the order of their commits.
Ordered(s) ==
    \A i \in DOMAIN s : \A k \in DOMAIN s : i < k => s[i].id < s[k].id /\ s[i].at <= s[k].at

\* What expires of ordered snapshots is what the dry run counts, and the newest stays.
LEMMA KeptFacts ==
    ASSUME NEW s \in Seq(Snaps), Ordered(s), NEW before \in Int
    PROVE  /\ Kept(s, before) \in Seq(Snaps) /\ Ordered(Kept(s, before))
           /\ DryCount(s, before) \in Nat /\ Len(Kept(s, before)) = Len(s) - DryCount(s, before)
           /\ s # <<>> => Kept(s, before) # <<>> /\ Last(Kept(s, before)) = Last(s)
           /\ s = <<>> => Kept(s, before) = <<>>
           /\ \A i \in DOMAIN Kept(s, before) : \E k \in DOMAIN s : Kept(s, before)[i] = s[k]
<1> DEFINE old == {i \in DOMAIN s : s[i].at < before /\ Len(s) - i >= RetainLast}
           aged == Old(s, 1..Len(s), before)
<1>1. PICK L \in Nat : L = Len(s) /\ DOMAIN s = 1..L
  OBVIOUS
<1>2. PICK keep \in Nat : keep = RetainLast /\ keep >= 1
  BY CareAssumption
<1>3. \A i \in 1..L : s[i].at \in Nat
  <2>1. \A i \in 1..L : s[i] \in Snaps
    BY <1>1
  <2> QED  BY <2>1 DEF Snaps
<1>4. aged = 1..Cardinality(aged) /\ Cardinality(aged) \in 0..L
  <2>1. aged \subseteq 1..L
    BY <1>1 DEF Old
  <2>2. ASSUME NEW i \in aged, NEW k \in 1..L, k < i PROVE k \in aged
    <3>1. s[k].at <= s[i].at /\ s[i].at < before /\ s[k].at \in Nat /\ s[i].at \in Nat
      BY <1>1, <1>3, <2>2 DEF Ordered, Old
    <3>2. s[k].at < before
      BY <3>1
    <3> QED  BY <1>1, <3>2 DEF Old
  <2> HIDE DEF aged
  <2> QED  BY <2>1, <2>2, GoesDown
<1>5. PICK a \in 0..L : a = Cardinality(aged)
  BY <1>4
<1>6. old = {i \in aged : L - i >= keep}
  BY <1>1, <1>2 DEF Old
<1> DEFINE room == IF L > keep THEN L - keep ELSE 0
<1>7. Room(s) = room /\ room \in Nat
  <2>1. L > keep => L - keep \in Nat
    OBVIOUS
  <2> QED  BY <1>1, <1>2, <2>1 DEF Room
<1>8. old = 1..Lesser(a, room)
  <2>1. \A i : i \in old <=> i \in 1..a /\ L - i >= keep
    BY <1>4, <1>5, <1>6
  <2>2. \A i \in 1..a : L - i >= keep <=> i <= room
    OBVIOUS
  <2>3. \A i : i \in 1..a /\ i <= room <=> i \in 1..Lesser(a, room)
    BY <1>7 DEF Lesser
  <2> QED  BY <2>1, <2>2, <2>3
<1>9. PICK c \in Nat : c = Lesser(a, room) /\ c <= L /\ (L > 0 => c <= L - 1)
  <2>1. PICK r \in Nat : r = room
    BY <1>7
  <2>2. (L > 0 => r <= L - 1) /\ r <= L
    BY <1>2, <2>1
  <2> HIDE DEF room
  <2>3. a \in Nat /\ Lesser(a, r) \in Nat /\ Lesser(a, r) <= r
    BY DEF Lesser
  <2>4. Lesser(a, r) <= L /\ (L > 0 => Lesser(a, r) <= L - 1)
    BY <2>2, <2>3
  <2> QED  BY <2>1, <2>3, <2>4
<1>10. Cardinality(old) = c
  <2>1. 1 \in Int /\ c \in Int
    OBVIOUS
  <2>2. Cardinality(1..c) = IF 1 > c THEN 0 ELSE c - 1 + 1
    BY <2>1, FS_Interval
  <2>3. Cardinality(1..c) = c
    BY <2>2
  <2>4. old = 1..c
    BY <1>8, <1>9
  <2> HIDE DEF old
  <2> QED  BY <2>3, <2>4
<1>11. DryCount(s, before) = c
  BY <1>5, <1>7, <1>9, CountOfOld
<1>12. Kept(s, before) = [i \in 1..(L - c) |-> s[i + c]]
  BY <1>1, <1>10 DEF Kept
<1>13. PICK K : K = Kept(s, before)
  OBVIOUS
<1>14. L - c \in Nat /\ \A i \in 1..(L - c) : i + c \in 1..L
  BY <1>9
<1>15. /\ DOMAIN K = 1..(L - c) /\ \A i \in 1..(L - c) : K[i] = s[i + c] /\ K[i] \in Snaps
  BY <1>1, <1>12, <1>13, <1>14
<1>16. K \in Seq(Snaps) /\ Len(K) = L - c
  BY <1>12, <1>13, <1>14, <1>15
<1>17. Ordered(K)
  <2> SUFFICES ASSUME NEW i \in DOMAIN K, NEW k \in DOMAIN K, i < k
               PROVE  K[i].id < K[k].id /\ K[i].at <= K[k].at
    BY DEF Ordered
  <2>1. i + c \in DOMAIN s /\ k + c \in DOMAIN s /\ i + c < k + c
    BY <1>1, <1>14, <1>15
  <2> QED  BY <1>15, <2>1 DEF Ordered
<1>18. ASSUME s # <<>> PROVE K # <<>> /\ Last(K) = Last(s)
  <2>1. L > 0
    BY <1>1, <1>18
  <2>2. L - c \in 1..(L - c) /\ (L - c) + c = L
    BY <1>9, <2>1
  <2> QED  BY <1>1, <1>15, <1>16, <2>2 DEF Last
<1>19. s = <<>> => K = <<>>
  BY <1>1, <1>9, <1>16
<1>20. \A i \in DOMAIN K : \E k \in DOMAIN s : K[i] = s[k]
  BY <1>1, <1>14, <1>15
<1> QED  BY <1>1, <1>11, <1>13, <1>16, <1>17, <1>18, <1>19, <1>20

-----------------------------------------------------------------------------
(* The table and its snapshots                                             *)

Filed(s) == IF s = <<>> THEN 0 ELSE Total(Last(s).files, 1..Len(Last(s).files))

\* Whatever rows are: the table and the jobs have sequences of them.
RowsInv == \E S : table \in Seq(S) /\ \A j \in StreamJob : job[j].rows \in Seq(S) /\ saved[j].rows \in Seq(S)

Ledger(s, now) ==
    s \in Seq(Snaps) /\ Ordered(s) /\ \A i \in DOMAIN s : s[i].at <= now

\* The newest snapshot has the rows of the table, and is not newer than the clock.
TableInv ==
    /\ clock \in Nat /\ Ledger(commits, clock)
    /\ commits # <<>> => created
    /\ \A j \in StreamJob :
          /\ job[j].pc = "running" \/ saved[j].pc = "running" => Ready
          /\ ~bus.iceberg => job[j].rows = <<>> /\ saved[j].rows = <<>>
    /\ RowsInv
    /\ Len(table) = Filed(commits)

LEMMA LastSnap ==
    ASSUME NEW s \in Seq(Snaps), s # <<>>
    PROVE  /\ Last(s) \in Snaps /\ Last(s) = s[Len(s)] /\ Len(s) \in DOMAIN s
           /\ Last(s).files \in Seq(Nat) /\ Last(s).id \in Nat /\ Last(s).manifests \in Nat
<1>1. Last(s) \in Snaps /\ Last(s) = s[Len(s)] /\ Len(s) \in DOMAIN s
  BY DEF Last
<1> QED  BY <1>1 DEF Snaps

LEMMA LedgerAppends ==
    ASSUME NEW s, NEW now \in Nat, Ledger(s, now), NEW snap \in Snaps, snap.at = now,
           s # <<>> => snap.id > Last(s).id
    PROVE  /\ Ledger(Append(s, snap), now) /\ Append(s, snap) # <<>> /\ Last(Append(s, snap)) = snap
<1>1. PICK n \in Nat : n = Len(s) /\ s \in Seq(Snaps) /\ DOMAIN s = 1..n
  BY DEF Ledger
<1>2. PICK t : t = Append(s, snap)
  OBVIOUS
<1>3. /\ t \in Seq(Snaps) /\ Len(t) = n + 1 /\ DOMAIN t = 1..(n + 1) /\ t[n + 1] = snap
      /\ \A i \in 1..n : t[i] = s[i]
  BY <1>1, <1>2
<1>4. \A i \in 1..n : s[i] \in Snaps /\ s[i].id \in Nat /\ s[i].at \in Nat /\ s[i].at <= now
  <2>1. \A i \in 1..n : s[i] \in Snaps
    BY <1>1
  <2> QED  BY <1>1, <2>1 DEF Snaps, Ledger
<1>5. snap.id \in Nat
  BY DEF Snaps
<1>6. ASSUME NEW i \in 1..n PROVE s[i].id < snap.id
  <2>1. n \in 1..n /\ Last(s) = s[n] /\ s # <<>>
    BY <1>1, <1>6 DEF Last
  <2>2. s[i].id <= s[n].id
    <3>1. CASE i = n
      BY <1>4, <3>1
    <3>2. CASE i < n
      <4>1. s[i].id < s[n].id
        BY <1>1, <1>6, <2>1, <3>2 DEF Ledger, Ordered
      <4> QED  BY <1>4, <1>6, <2>1, <4>1
    <3> QED  BY <3>1, <3>2
  <2> QED  BY <1>4, <1>5, <1>6, <2>1, <2>2
<1>7. Ordered(t)
  <2> SUFFICES ASSUME NEW i \in DOMAIN t, NEW k \in DOMAIN t, i < k
               PROVE  t[i].id < t[k].id /\ t[i].at <= t[k].at
    BY DEF Ordered
  <2>1. i \in 1..n
    BY <1>3
  <2>2. CASE k \in 1..n
    BY <1>1, <1>3, <2>1, <2>2 DEF Ledger, Ordered
  <2>3. CASE k = n + 1
    BY <1>3, <1>4, <1>6, <2>1, <2>3
  <2> QED  BY <1>3, <2>2, <2>3
<1>8. \A i \in DOMAIN t : t[i].at <= now
  BY <1>3, <1>4
<1> QED  BY <1>2, <1>3, <1>7, <1>8 DEF Ledger, Last

LEMMA LedgerWaits ==
    ASSUME NEW s, NEW now \in Nat, NEW later \in Nat, Ledger(s, now), now <= later
    PROVE  Ledger(s, later)
<1>1. \A i \in DOMAIN s : s[i] \in Snaps
  BY DEF Ledger
<1>2. \A i \in DOMAIN s : s[i].at \in Nat /\ s[i].at <= now
  BY <1>1 DEF Ledger, Snaps
<1>3. \A i \in DOMAIN s : s[i].at <= later
  BY <1>2
<1> QED  BY <1>3 DEF Ledger

\* A commit adds a file of as many rows as it adds to the table.
LEMMA CommitFiles ==
    ASSUME Ledger(commits, clock), clock \in Nat, NEW S, NEW rows \in Seq(S), rows # <<>>
    PROVE  /\ Ledger(Append(commits, Snapshot(rows)), clock)
           /\ Filed(Append(commits, Snapshot(rows))) = Filed(commits) + Len(rows)
<1>1. PICK n \in Nat : n = Len(rows)
  OBVIOUS
<1>2. PICK snap : snap = Snapshot(rows)
  OBVIOUS
<1>3. commits \in Seq(Snaps)
  BY DEF Ledger
<1>4. CASE commits = <<>>
  <2>1. snap = [id |-> 1, at |-> clock, manifests |-> 1, files |-> <<n>>]
    BY <1>1, <1>2, <1>4 DEF Snapshot
  <2>2. snap \in Snaps /\ snap.at = clock /\ snap.files = <<n>>
    BY <2>1 DEF Snaps
  <2>3. Append(<<>>, n) = <<n>> /\ <<>> \in Seq(Nat) /\ Len(<<>>) = 0 /\ Len(<<n>>) = 1
    OBVIOUS
  <2>4. Units(<<>>, 1..0) = {}
    BY DEF Units
  <2>5. Total(<<>>, 1..0) = 0
    BY <2>4, FS_EmptySet DEF Total
  <2>6. Total(Append(<<>>, n), 1..Len(Append(<<>>, n))) = Total(<<>>, 1..Len(<<>>)) + n
    BY <2>3, TotalAppends
  <2>7. Total(<<n>>, 1..Len(<<n>>)) = n
    BY <2>3, <2>5, <2>6
  <2>8. Ledger(Append(commits, snap), clock) /\ Append(commits, snap) # <<>> /\ Last(Append(commits, snap)) = snap
    <3>1. PICK s : s = commits
      OBVIOUS
    <3>2. PICK now \in Nat : now = clock
      OBVIOUS
    <3> QED  BY <1>4, <2>2, <3>1, <3>2, LedgerAppends
  <2> QED  BY <1>1, <1>2, <1>4, <2>2, <2>7, <2>8 DEF Filed
<1>5. CASE commits # <<>>
  <2>1. PICK last : last = Last(commits)
    OBVIOUS
  <2>2. last \in Snaps /\ last.files \in Seq(Nat) /\ last.id \in Nat /\ last.manifests \in Nat
    BY <1>3, <1>5, <2>1, LastSnap
  <2>3. snap = [id |-> last.id + 1, at |-> clock, manifests |-> last.manifests + 1, files |-> Append(last.files, n)]
    BY <1>1, <1>2, <1>5, <2>1 DEF Snapshot
  <2>4. Append(last.files, n) \in Seq(Nat)
    BY <2>2
  <2>5. snap \in Snaps /\ snap.at = clock /\ snap.files = Append(last.files, n) /\ snap.id > last.id
    BY <2>2, <2>3, <2>4 DEF Snaps
  <2>6. Ledger(Append(commits, snap), clock) /\ Append(commits, snap) # <<>> /\ Last(Append(commits, snap)) = snap
    <3>1. PICK s : s = commits
      OBVIOUS
    <3>2. PICK now \in Nat : now = clock
      OBVIOUS
    <3> QED  BY <2>1, <2>5, <3>1, <3>2, LedgerAppends
  <2>7. PICK f \in Seq(Nat) : f = last.files
    BY <2>2
  <2>8. Total(Append(f, n), 1..Len(Append(f, n))) = Total(f, 1..Len(f)) + n
    BY TotalAppends
  <2> QED  BY <1>1, <1>2, <1>5, <2>1, <2>5, <2>6, <2>7, <2>8 DEF Filed
<1> QED  BY <1>4, <1>5

LEMMA TableStarts == Init => JobShape /\ TableInv
<1> SUFFICES ASSUME Init PROVE JobShape /\ TableInv
  OBVIOUS
<1>1. PICK c \in StreamSettings : bus = c.bus
  BY DEF Init
<1>2. c.bus \in JobSettings
  BY StreamSettingsAssumption
<1>3. bus.start \in Nat
  BY <1>1, <1>2, StreamAssumption DEF JobCircumstances
<1>4. /\ clock = bus.start /\ table = <<>> /\ commits = <<>>
      /\ job = [j \in StreamJob |-> NewJob] /\ saved = [j \in StreamJob |-> NewJob]
  BY DEF Init, JobInit
<1>5. NewJob.pc = "off" /\ NewJob.rows = <<>>
  BY DEF NewJob
<1>6. RowsInv
  <2>0. <<>> \in Seq({}) /\ \A j \in StreamJob : job[j] = NewJob /\ saved[j] = NewJob
    BY <1>4
  <2>1. table \in Seq({}) /\ \A j \in StreamJob : job[j].rows \in Seq({}) /\ saved[j].rows \in Seq({})
    BY <1>4, <1>5, <2>0, Zenon
  <2> QED  BY <2>1 DEF RowsInv
<1>7. Ledger(commits, clock)
  BY <1>4 DEF Ledger, Ordered
<1>8. Len(table) = Filed(commits)
  BY <1>4 DEF Filed
<1>9. JobShape
  BY SignalsStart DEF SignalInv
<1> QED  BY <1>3, <1>4, <1>5, <1>6, <1>7, <1>8, <1>9 DEF TableInv

LEMMA RowsChange ==
    ASSUME RowsInv, JobShape, NEW j \in StreamJob, NEW rec, job' = [job EXCEPT ![j] = rec],
           saved' = saved \/ saved' = [saved EXCEPT ![j] = rec],
           \/ rec.rows \in {job[j].rows, saved[j].rows, <<>>}
           \/ \E row : rec.rows = Append(job[j].rows, row),
           table' = table \/ table' = table \o job[j].rows
    PROVE  RowsInv'
<1>1. PICK S : table \in Seq(S) /\ \A k \in StreamJob : job[k].rows \in Seq(S) /\ saved[k].rows \in Seq(S)
  BY DEF RowsInv
<1>2. PICK T : S \subseteq T /\ rec.rows \in Seq(T)
  <2>1. CASE rec.rows \in {job[j].rows, saved[j].rows, <<>>}
    <3>1. <<>> \in Seq(S) /\ job[j].rows \in Seq(S) /\ saved[j].rows \in Seq(S)
      BY <1>1
    <3>2. rec.rows \in Seq(S)
      BY <2>1, <3>1, Zenon
    <3> QED  BY <3>2
  <2>2. ASSUME NEW row, rec.rows = Append(job[j].rows, row)
        PROVE  \E T : S \subseteq T /\ rec.rows \in Seq(T)
    <3>1. PICK T : T = S \cup {row}
      OBVIOUS
    <3>2. job[j].rows \in Seq(T) /\ row \in T
      BY <1>1, <3>1
    <3>3. rec.rows \in Seq(T)
      BY <2>2, <3>2
    <3> QED  BY <3>1, <3>3
  <2> QED  BY <2>1, <2>2
<1>3. \A s : s \in Seq(S) => s \in Seq(T)
  BY <1>2
<1>4. table' \in Seq(T)
  <2>1. \A a, b \in Seq(S) : a \o b \in Seq(S)
    OBVIOUS
  <2>2. table \in Seq(S) /\ table \o job[j].rows \in Seq(S)
    BY <1>1, <2>1, Zenon
  <2>3. table' \in Seq(S)
    BY <2>2, Zenon
  <2> QED  BY <1>3, <2>3, Zenon
<1>5. ASSUME NEW k \in StreamJob
      PROVE  job'[k].rows \in Seq(T) /\ saved'[k].rows \in Seq(T)
  <2>1. job'[k] \in {rec, job[k]} /\ saved'[k] \in {rec, saved[k]}
    BY DEF JobShape
  <2>2. job[k].rows \in Seq(T) /\ saved[k].rows \in Seq(T)
    BY <1>1, <1>3
  <2> QED  BY <1>2, <2>1, <2>2
<1> QED  BY <1>4, <1>5 DEF RowsInv

\* A running job has its table, before and after; without one there are no rows.
LEMMA RunsOnATable ==
    ASSUME TableInv, JobShape, NEW j \in StreamJob, NEW rec, job' = [job EXCEPT ![j] = rec],
           saved' = saved \/ saved' = [saved EXCEPT ![j] = rec], ~bus.iceberg => rec.rows = <<>>,
           rec.pc = "running" => Ready', created => created', UNCHANGED bus
    PROVE  \A k \in StreamJob :
              /\ job'[k].pc = "running" \/ saved'[k].pc = "running" => Ready'
              /\ ~bus'.iceberg => job'[k].rows = <<>> /\ saved'[k].rows = <<>>
<1> SUFFICES ASSUME NEW k \in StreamJob
             PROVE  /\ job'[k].pc = "running" \/ saved'[k].pc = "running" => Ready'
                    /\ ~bus'.iceberg => job'[k].rows = <<>> /\ saved'[k].rows = <<>>
  OBVIOUS
<1>1. job'[k] \in {rec, job[k]} /\ saved'[k] \in {rec, saved[k]}
  BY DEF JobShape
<1>2. /\ job[k].pc = "running" \/ saved[k].pc = "running" => Ready
      /\ ~bus.iceberg => job[k].rows = <<>> /\ saved[k].rows = <<>>
  BY DEF TableInv
<1>3. Ready => Ready'
  BY DEF Ready
<1> QED  BY <1>1, <1>2, <1>3

\* A job's step that commits nothing.
LEMMA StepsWithoutCommit ==
    ASSUME TableInv, JobShape, NEW j \in StreamJob, NEW rec, job' = [job EXCEPT ![j] = rec],
           saved' = saved \/ saved' = [saved EXCEPT ![j] = rec],
           \/ rec.rows \in {job[j].rows, saved[j].rows}
           \/ bus.iceberg /\ \E row : rec.rows = Append(job[j].rows, row),
           rec.pc = "running" => Ready', created => created', UNCHANGED <<bus, clock, table, commits>>
    PROVE  TableInv'
<1>1. RowsInv'
  BY RowsChange DEF TableInv
<1>2. \A k \in StreamJob :
         /\ job'[k].pc = "running" \/ saved'[k].pc = "running" => Ready'
         /\ ~bus'.iceberg => job'[k].rows = <<>> /\ saved'[k].rows = <<>>
  <2>1. ~bus.iceberg => rec.rows = <<>>
    BY DEF TableInv
  <2> QED  BY <2>1, RunsOnATable
<1> QED  BY <1>1, <1>2 DEF TableInv

LEMMA CommitsKeep ==
    ASSUME TableInv, JobShape, NEW j \in StreamJob, Checkpoint(j) \/ Finish(j)
    PROVE  TableInv' /\ (commits # <<>> => commits' # <<>>)
<1>1. PICK rec : /\ Moves(j, rec) /\ rec.rows = <<>>
                 /\ saved' = saved \/ saved' = [saved EXCEPT ![j] = rec]
  BY CommitMoves
<1>2. Commit(j) /\ job[j].pc = "running" /\ UNCHANGED <<bus, clock>>
  BY CommitMoves DEF Checkpoint, Finish, inputVars
<1>3. created' = created /\ Ready /\ Ready' /\ (job[j].rows # <<>> => created)
  BY <1>2 DEF TableInv, Commit, Ready
<1>4. RowsInv'
  BY <1>1, <1>2, RowsChange DEF TableInv, Moves, Commit
<1>5. \A k \in StreamJob :
         /\ job'[k].pc = "running" \/ saved'[k].pc = "running" => Ready'
         /\ ~bus'.iceberg => job'[k].rows = <<>> /\ saved'[k].rows = <<>>
  BY <1>1, <1>2, <1>3, RunsOnATable DEF Moves
<1>6. PICK S : table \in Seq(S) /\ job[j].rows \in Seq(S)
  BY DEF TableInv, RowsInv
<1>7. PICK rows \in Seq(S) : rows = job[j].rows
  BY <1>6
<1>8. Len(table') = Len(table) + Len(rows)
  BY <1>2, <1>6, <1>7 DEF Commit
<1>9. CASE rows = <<>>
  <2>1. commits' = commits /\ Len(table') = Len(table)
    BY <1>2, <1>6, <1>7, <1>8, <1>9 DEF Commit
  <2> QED  BY <1>2, <1>3, <1>4, <1>5, <2>1 DEF TableInv
<1>10. CASE rows # <<>>
  <2>1. commits' = Append(commits, Snapshot(rows))
    BY <1>2, <1>7, <1>10 DEF Commit
  <2>2. Ledger(commits, clock) /\ clock \in Nat /\ Len(table) = Filed(commits)
    BY DEF TableInv
  <2>3. Ledger(commits', clock) /\ Filed(commits') = Filed(commits) + Len(rows)
    BY <1>10, <2>1, <2>2, CommitFiles
  <2>4. commits' # <<>>
    BY <2>1, <2>2 DEF Ledger
  <2> QED  BY <1>2, <1>3, <1>4, <1>5, <1>7, <1>8, <1>10, <2>2, <2>3, <2>4 DEF TableInv
<1> QED  BY <1>9, <1>10

LEMMA JobsKeepTable ==
    ASSUME TableInv, JobShape, JobNext
    PROVE  TableInv' /\ (commits # <<>> => commits' # <<>>)
<1>1. CASE Produce \/ DlqStart \/ DlqRead \/ SendSignal \/ \E j \in StreamJob : Send(j)
  BY <1>1 DEF Produce, DlqStart, DlqRead, SendSignal, Send, inputVars, lakeVars, TableInv, RowsInv, Ready
<1>2. CASE Tick
  <2>1. clock' = clock + 1 /\ UNCHANGED <<bus, job, saved, created, table, commits>>
    BY <1>2 DEF Tick, lakeVars
  <2>2. PICK now \in Nat, later \in Nat : now = clock /\ later = clock' /\ now <= later
    BY <2>1 DEF TableInv
  <2>3. PICK s : s = commits /\ Ledger(s, now)
    BY <2>2 DEF TableInv
  <2>4. Ledger(s, later)
    BY <2>2, <2>3, LedgerWaits
  <2> QED  BY <2>1, <2>2, <2>3, <2>4 DEF TableInv, RowsInv, Ready
<1>3. ASSUME NEW j \in StreamJob, Skip(j) \/ Reject(j) \/ Quarantine(j) \/ Count(j) \/ Advance(j) \/ EndOfInput(j)
      PROVE  TableInv' /\ (commits # <<>> => commits' # <<>>)
  <2>1. PICK rec : Moves(j, rec) /\ rec.rows = job[j].rows
    BY <1>3, ReadingMoves
  <2>2. UNCHANGED <<saved, created, table, commits>> /\ job[j].pc = "running"
    BY <1>3, ReadingMoves
  <2>3. UNCHANGED <<bus, clock>> /\ Ready'
    BY <1>3, <2>2 DEF Skip, Reject, Quarantine, Count, Advance, EndOfInput, inputVars, TableInv, Ready
  <2> QED  BY <2>1, <2>2, <2>3, StepsWithoutCommit DEF Moves
<1>4. ASSUME NEW j \in StreamJob, Submit(j) \/ CreateTable(j)
      PROVE  TableInv' /\ (commits # <<>> => commits' # <<>>)
  <2>1. PICK rec : Moves(j, rec) /\ rec.rows = job[j].rows /\ saved' = [saved EXCEPT ![j] = rec]
    BY <1>4, SubmissionMoves
  <2>2. UNCHANGED <<table, commits>> /\ (created => created')
    BY <1>4, SubmissionMoves
  <2>3. UNCHANGED <<bus, clock>>
    BY <1>4 DEF Submit, CreateTable, inputVars
  <2>4. rec.pc = "running" => Ready'
    BY <2>1, <2>2, <2>3 DEF Moves, TableInv, Ready
  <2> QED  BY <2>1, <2>2, <2>3, <2>4, StepsWithoutCommit DEF Moves
<1>5. ASSUME NEW j \in StreamJob, Fire(j) \/ Flush(j)
      PROVE  TableInv' /\ (commits # <<>> => commits' # <<>>)
  <2>1. PICK rec : /\ Moves(j, rec) /\ rec.pc = job[j].pc
                   /\ rec.rows = job[j].rows \/ (bus.iceberg /\ \E row : rec.rows = Append(job[j].rows, row))
    BY <1>5, FiringMoves
  <2>2. UNCHANGED <<saved, created, table, commits>>
    BY <1>5, FiringMoves
  <2>3. UNCHANGED <<bus, clock>>
    BY <1>5 DEF Fire, Flush, inputVars
  <2>4. rec.pc = "running" => Ready'
    BY <2>1, <2>2, <2>3 DEF TableInv, Ready
  <2> QED  BY <2>1, <2>2, <2>3, <2>4, StepsWithoutCommit DEF Moves
<1>6. ASSUME NEW j \in StreamJob, Monitor(j)
      PROVE  TableInv' /\ (commits # <<>> => commits' # <<>>)
  <2>1. PICK rec : job' = [job EXCEPT ![j] = rec] /\ rec.rows = job[j].rows /\ rec.pc = job[j].pc
    BY <1>6, MonitorMoves
  <2>2. UNCHANGED <<saved, created, table, commits>>
    BY <1>6, MonitorMoves
  <2>3. UNCHANGED <<bus, clock>>
    BY <1>6 DEF Monitor, inputVars
  <2>4. rec.pc = "running" => Ready'
    BY <2>1, <2>2, <2>3 DEF TableInv, Ready
  <2> QED  BY <2>1, <2>2, <2>3, <2>4, StepsWithoutCommit
<1>7. ASSUME NEW j \in StreamJob, Crash(j)
      PROVE  TableInv' /\ (commits # <<>> => commits' # <<>>)
  <2>1. PICK rec : Moves(j, rec) /\ rec.rows = job[j].rows /\ rec.pc = "down"
    BY <1>7, CrashMoves
  <2>2. UNCHANGED <<saved, created, table, commits>>
    BY <1>7, CrashMoves
  <2>3. UNCHANGED <<bus, clock>>
    BY <1>7 DEF Crash, inputVars
  <2> QED  BY <2>1, <2>2, <2>3, StepsWithoutCommit DEF Moves
<1>8. ASSUME NEW j \in StreamJob, Restart(j)
      PROVE  TableInv' /\ (commits # <<>> => commits' # <<>>)
  <2>1. PICK rec : job' = [job EXCEPT ![j] = rec] /\ rec.rows = saved[j].rows /\ rec.pc = saved[j].pc
    BY <1>8, RestartMoves
  <2>2. UNCHANGED <<saved, created, table, commits>>
    BY <1>8, RestartMoves
  <2>3. UNCHANGED <<bus, clock>>
    BY <1>8 DEF Restart, inputVars
  <2>4. rec.pc = "running" => Ready'
    BY <2>1, <2>2, <2>3 DEF TableInv, Ready
  <2> QED  BY <2>1, <2>2, <2>3, <2>4, StepsWithoutCommit
<1> QED  BY <1>1, <1>2, <1>3, <1>4, <1>5, <1>6, <1>7, <1>8, CommitsKeep DEF JobNext

-----------------------------------------------------------------------------
(* The maintenance of the table                                            *)

CareFields(r) ==
    r \in [pc : {r.pc}, loaded : {r.loaded}, before : {r.before}, expired : {r.expired}, left : {r.left},
           missed : {r.missed}, due : {r.due}, manifests : {r.manifests}, files : {r.files}, small : {r.small}]

\* What a run reports, from when it has looked for what is to expire.
Reports(r, dry) ==
    /\ r.pc = "off" => r.expired = 0 /\ r.missed = 0 /\ r.due = 0 /\ r.loaded = <<>>
    /\ r.pc \in {"manifests", "scan", "done"} =>
           IF dry THEN r.expired = Len(r.loaded) - Len(Kept(r.loaded, r.before))
           ELSE r.expired + r.missed = r.due

\* What a run has loaded are snapshots of the table, in their order.
Loaded(r) == /\ r.before \in Int /\ r.loaded \in Seq(Snaps) /\ Ordered(r.loaded) /\ r.left \in Seq(Snaps)

CareInv ==
    /\ CareFields(care) /\ Loaded(care) /\ Reports(care, order.dryRun)
    /\ care.loaded # <<>> \/ care.left # <<>> => commits # <<>>

LEMMA CareStarts == Init => CareInv
<1> SUFFICES ASSUME Init PROVE CareInv
  OBVIOUS
<1>1. care = [pc |-> "off", loaded |-> <<>>, before |-> 0, expired |-> 0, left |-> <<>>,
              missed |-> 0, due |-> 0, manifests |-> <<0, 0>>, files |-> 0, small |-> 0]
  BY DEF Init, CareInit
<1> QED  BY <1>1 DEF CareInv, CareFields, Loaded, Reports, Ordered

LEMMA LoadKeeps ==
    ASSUME TableInv, CareInv, Load
    PROVE  TableInv' /\ CareInv'
<1> DEFINE rec(p, b) == [care EXCEPT !.pc = p, !.loaded = commits, !.before = b]
<1>1. /\ care' = rec(IF created THEN "expire" ELSE "done", clock - MaxAge) /\ care.pc = "off"
      /\ UNCHANGED <<commits, bus, clock, job, saved, created, table, order>>
  BY DEF Load, Others, inputVars
<1>2. PICK p, b : p = (IF created THEN "expire" ELSE "done") /\ b = clock - MaxAge /\ b \in Int
  BY CareAssumption DEF TableInv
<1>3. PICK r : r = rec(p, b)
  OBVIOUS
<1>4. /\ CareFields(r) /\ r.pc = p /\ r.loaded = commits /\ r.before = b /\ r.left = care.left
      /\ r.expired = care.expired /\ r.missed = care.missed /\ r.due = care.due
  BY <1>3 DEF CareInv, CareFields
<1>5. Loaded(r) /\ (r.loaded # <<>> \/ r.left # <<>> => commits # <<>>)
  BY <1>2, <1>4 DEF CareInv, Loaded, TableInv, Ledger
<1>6. Reports(r, order.dryRun)
  <2>1. care.expired = 0 /\ care.missed = 0 /\ care.due = 0
    BY <1>1 DEF CareInv, Reports
  <2>2. CASE created
    BY <1>2, <1>4, <2>2 DEF Reports
  <2>3. CASE ~created
    <3>1. commits = <<>>
      BY <2>3 DEF TableInv
    <3>2. PICK s \in Seq(Snaps) : s = commits /\ Ordered(s)
      BY DEF TableInv, Ledger
    <3>3. Kept(s, b) = <<>>
      BY <1>2, <3>1, <3>2, KeptFacts
    <3>4. Kept(r.loaded, r.before) = <<>> /\ r.loaded = <<>>
      BY <1>4, <3>1, <3>2, <3>3
    <3> QED  BY <1>2, <1>4, <2>1, <2>3, <3>4 DEF Reports
  <2> QED  BY <2>2, <2>3
<1>7. care' = r
  BY <1>1, <1>2, <1>3
<1>8. TableInv'
  BY <1>1 DEF TableInv, RowsInv, Ready
<1> QED  BY <1>1, <1>4, <1>5, <1>6, <1>7, <1>8 DEF CareInv

LEMMA DryExpireKeeps ==
    ASSUME TableInv, CareInv, DryExpire
    PROVE  TableInv' /\ CareInv'
<1> DEFINE rec(n) == [care EXCEPT !.pc = "manifests", !.expired = n, !.left = care.loaded]
<1>1. /\ care' = rec(DryCount(care.loaded, care.before)) /\ order.dryRun
      /\ UNCHANGED <<commits, bus, clock, job, saved, created, table, order>>
  BY DEF DryExpire, Others, inputVars
<1>2. PICK n : n = DryCount(care.loaded, care.before)
  OBVIOUS
<1>3. PICK r : r = rec(n)
  OBVIOUS
<1>4. /\ CareFields(r) /\ r.pc = "manifests" /\ r.loaded = care.loaded /\ r.before = care.before
      /\ r.left = care.loaded /\ r.expired = n
  BY <1>3 DEF CareInv, CareFields
<1>5. Loaded(r) /\ (r.loaded # <<>> \/ r.left # <<>> => commits # <<>>)
  BY <1>4 DEF CareInv, Loaded
<1>6. n = Len(r.loaded) - Len(Kept(r.loaded, r.before))
  <2>1. PICK s \in Seq(Snaps), b \in Int : s = r.loaded /\ b = r.before /\ Ordered(s)
    BY <1>5 DEF Loaded
  <2>2. DryCount(s, b) \in Nat /\ Len(Kept(s, b)) = Len(s) - DryCount(s, b)
    BY <2>1, KeptFacts
  <2>3. n = DryCount(s, b)
    BY <1>2, <1>4, <2>1
  <2> QED  BY <2>1, <2>2, <2>3
<1>7. Reports(r, order.dryRun)
  BY <1>1, <1>4, <1>6 DEF Reports
<1>8. care' = r
  BY <1>1, <1>2, <1>3
<1>9. TableInv'
  BY <1>1 DEF TableInv, RowsInv, Ready
<1> QED  BY <1>1, <1>4, <1>5, <1>7, <1>8, <1>9 DEF CareInv

LEMMA ExpireKeeps ==
    ASSUME TableInv, CareInv, Expire
    PROVE  TableInv' /\ CareInv'
<1> DEFINE rec(l, e, m, d) == [care EXCEPT !.pc = "manifests", !.left = l, !.expired = e, !.missed = m, !.due = d]
<1>1. /\ commits' = Kept(commits, care.before) /\ ~order.dryRun
      /\ care' = rec(commits', Len(care.loaded) - Len(commits'), Len(commits) - Len(care.loaded),
                     DryCount(commits, care.before))
      /\ UNCHANGED <<bus, clock, job, saved, created, table, order>>
  BY DEF Expire, Others, inputVars
<1>2. PICK s \in Seq(Snaps), b \in Int : s = commits /\ b = care.before /\ Ordered(s)
  BY DEF TableInv, CareInv, Ledger, Loaded
<1>3. PICK k : k = Kept(s, b)
  OBVIOUS
<1>4. /\ k \in Seq(Snaps) /\ Ordered(k) /\ DryCount(s, b) \in Nat /\ Len(k) = Len(s) - DryCount(s, b)
      /\ s # <<>> => k # <<>> /\ Last(k) = Last(s)
      /\ s = <<>> => k = <<>>
      /\ \A i \in DOMAIN k : \E x \in DOMAIN s : k[i] = s[x]
  BY <1>2, <1>3, KeptFacts
<1>5. Ledger(k, clock) /\ Filed(k) = Filed(s)
  <2>1. \A i \in DOMAIN s : s[i].at <= clock
    BY <1>2 DEF TableInv, Ledger
  <2>2. \A i \in DOMAIN k : k[i].at <= clock
    BY <1>4, <2>1
  <2>3. Filed(k) = Filed(s)
    BY <1>4 DEF Filed
  <2> QED  BY <1>4, <2>2, <2>3 DEF Ledger
<1>6. commits' = k
  BY <1>1, <1>2, <1>3
<1>7. TableInv'
  <2>1. commits' # <<>> => created'
    BY <1>1, <1>2, <1>4, <1>6 DEF TableInv
  <2>2. Len(table') = Filed(commits')
    BY <1>1, <1>2, <1>5, <1>6 DEF TableInv
  <2>3. Ledger(commits', clock')
    BY <1>1, <1>5, <1>6
  <2> QED  BY <1>1, <2>1, <2>2, <2>3 DEF TableInv, RowsInv, Ready
<1>8. PICK l, e, m, d : /\ l = k /\ e = Len(care.loaded) - Len(k) /\ m = Len(s) - Len(care.loaded) /\ d = DryCount(s, b)
                        /\ e + m = d
  <2>1. PICK x \in Nat, y \in Nat, z \in Nat, d \in Nat : x = Len(care.loaded) /\ y = Len(k) /\ z = Len(s) /\ d = DryCount(s, b)
    BY <1>2, <1>4 DEF CareInv, Loaded
  <2>2. y = z - d
    BY <1>4, <2>1
  <2>3. (x - y) + (z - x) = d
    BY <2>2
  <2> QED  BY <2>1, <2>3
<1>9. PICK r : r = rec(l, e, m, d)
  OBVIOUS
<1>10. /\ CareFields(r) /\ r.pc = "manifests" /\ r.loaded = care.loaded /\ r.before = care.before
       /\ r.left = k /\ r.expired = e /\ r.missed = m /\ r.due = d
  BY <1>8, <1>9 DEF CareInv, CareFields
<1>11. Loaded(r) /\ (r.loaded # <<>> \/ r.left # <<>> => commits' # <<>>)
  BY <1>2, <1>4, <1>6, <1>10 DEF CareInv, Loaded
<1>12. Reports(r, order.dryRun)
  BY <1>1, <1>8, <1>10 DEF Reports
<1>13. care' = r
  BY <1>1, <1>2, <1>6, <1>8, <1>9
<1> QED  BY <1>1, <1>7, <1>10, <1>11, <1>12, <1>13 DEF CareInv

\* Reports stay as they are after the expiry.
LEMMA LaterReports ==
    ASSUME NEW r, NEW s, NEW dry, Reports(r, dry), r.pc \in {"manifests", "scan"}, s.pc \in {"scan", "done"},
           s.loaded = r.loaded, s.before = r.before, s.expired = r.expired, s.missed = r.missed, s.due = r.due
    PROVE  Reports(s, dry)
BY DEF Reports

LEMMA CompactKeeps ==
    ASSUME TableInv, CareInv, Compact
    PROVE  TableInv' /\ CareInv'
<1> DEFINE rec(l, m) == [care EXCEPT !.pc = "scan", !.left = l, !.manifests = m]
<1>1. care.pc = "manifests" /\ UNCHANGED <<bus, clock, job, saved, created, table, order>>
  BY DEF Compact, Others, inputVars
<1>2. CareFields(care) /\ Loaded(care) /\ Reports(care, order.dryRun)
  BY DEF CareInv
<1>3. PICK c : c = care
  OBVIOUS
<1>4. ASSUME NEW l, NEW m, care' = rec(l, m), l \in Seq(Snaps),
             care.loaded # <<>> \/ l # <<>> => commits' # <<>>
      PROVE  CareInv'
  <2>1. PICK r : r = rec(l, m)
    OBVIOUS
  <2>2. /\ CareFields(r) /\ r.pc = "scan" /\ r.loaded = c.loaded /\ r.before = c.before
        /\ r.left = l /\ r.expired = c.expired /\ r.missed = c.missed /\ r.due = c.due
    BY <1>2, <1>3, <2>1 DEF CareFields
  <2>3. Reports(r, order.dryRun)
    BY <1>1, <1>2, <1>3, <2>2, LaterReports
  <2>4. Loaded(r)
    BY <1>2, <1>3, <1>4, <2>2 DEF Loaded
  <2> QED  BY <1>1, <1>3, <1>4, <2>1, <2>2, <2>3, <2>4 DEF CareInv
<1>5. CASE UNCHANGED commits /\ \E m : care' = [care EXCEPT !.pc = "scan", !.manifests = m]
  <2>1. PICK m : care' = [care EXCEPT !.pc = "scan", !.manifests = m]
    BY <1>5
  <2>2. [care EXCEPT !.pc = "scan", !.manifests = m] = rec(care.left, m)
    BY <1>2 DEF CareFields
  <2>3. care.left \in Seq(Snaps) /\ (care.loaded # <<>> \/ care.left # <<>> => commits' # <<>>)
    BY <1>2, <1>5 DEF CareInv, Loaded
  <2>4. CareInv'
    BY <1>4, <2>1, <2>2, <2>3
  <2> QED  BY <1>1, <1>5, <2>4 DEF TableInv, RowsInv, Ready
<1>6. CASE Manifests(care.left) > 1 /\ ~order.dryRun
  <2>1. care.left # <<>> /\ commits # <<>>
    BY <1>6 DEF Manifests, CareInv
  <2>2. commits \in Seq(Snaps) /\ Ledger(commits, clock) /\ clock \in Nat
    BY DEF TableInv, Ledger
  <2>3. PICK n \in {1, Manifests(commits)} :
           /\ commits' = Append(commits, [Last(commits) EXCEPT !.id = @ + 1, !.at = clock, !.manifests = n])
           /\ care' = rec(commits', <<Manifests(care.left), n>>)
    BY <1>6 DEF Compact
  <2>4. PICK last : last = Last(commits)
    OBVIOUS
  <2>5. last \in Snaps /\ last.files \in Seq(Nat) /\ last.id \in Nat /\ last.manifests \in Nat
    BY <2>1, <2>2, <2>4, LastSnap
  <2>6. n \in Nat
    BY <2>1, <2>4, <2>5 DEF Manifests
  <2>7. PICK snap : snap = [last EXCEPT !.id = last.id + 1, !.at = clock, !.manifests = n]
    OBVIOUS
  <2>8. snap \in Snaps /\ snap.at = clock /\ snap.files = last.files /\ snap.id > last.id
    <3>1. PICK time \in Nat : time = clock
      BY <2>2
    <3>2. PICK i \in Nat : i = last.id
      BY <2>5
    <3>3. snap = [id |-> i + 1, at |-> time, manifests |-> n, files |-> last.files]
      BY <2>5, <2>7, <3>1, <3>2 DEF Snaps
    <3> QED  BY <2>5, <2>6, <3>1, <3>2, <3>3 DEF Snaps
  <2>9. PICK s : s = commits
    OBVIOUS
  <2>10. PICK now \in Nat : now = clock
    BY <2>2
  <2>11. PICK t : t = Append(s, snap)
    OBVIOUS
  <2>12. Ledger(t, now) /\ t # <<>> /\ Last(t) = snap
    BY <2>2, <2>4, <2>8, <2>9, <2>10, <2>11, LedgerAppends
  <2>13. commits' = t
    BY <2>3, <2>4, <2>7, <2>9, <2>11
  <2>14. Filed(t) = Filed(s)
    BY <2>1, <2>4, <2>8, <2>9, <2>12 DEF Filed
  <2>15. TableInv'
    <3>1. created
      BY <2>1 DEF TableInv
    <3>2. Len(table') = Filed(commits')
      BY <1>1, <2>9, <2>13, <2>14 DEF TableInv
    <3> QED  BY <1>1, <2>10, <2>12, <2>13, <3>1, <3>2 DEF TableInv, RowsInv, Ready
  <2>16. t \in Seq(Snaps)
    BY <2>12 DEF Ledger
  <2>17. CareInv'
    BY <1>4, <2>3, <2>12, <2>13, <2>16
  <2> QED  BY <2>15, <2>17
<1> QED  BY <1>5, <1>6 DEF Compact

LEMMA ScanKeeps ==
    ASSUME TableInv, CareInv, Scan
    PROVE  TableInv' /\ CareInv'
<1> DEFINE rec(f, s) == [care EXCEPT !.pc = "done", !.files = f, !.small = s]
<1>1. care.pc = "scan" /\ UNCHANGED <<commits, bus, clock, job, saved, created, table, order>>
  BY DEF Scan, Others, inputVars
<1>2. PICK f, s : care' = rec(f, s)
  BY DEF Scan
<1>3. PICK r, c : r = rec(f, s) /\ c = care
  OBVIOUS
<1>4. CareFields(c) /\ Loaded(c) /\ Reports(c, order.dryRun) /\ (c.loaded # <<>> \/ c.left # <<>> => commits # <<>>)
  BY <1>3 DEF CareInv
<1>5. /\ CareFields(r) /\ r.pc = "done" /\ r.loaded = c.loaded /\ r.before = c.before
      /\ r.left = c.left /\ r.expired = c.expired /\ r.missed = c.missed /\ r.due = c.due
  BY <1>3, <1>4 DEF CareFields
<1>6. Reports(r, order.dryRun)
  <2>1. c.pc = "scan"
    BY <1>1, <1>3
  <2>2. PICK dry : dry = order.dryRun
    OBVIOUS
  <2>3. Reports(r, dry)
    BY <1>4, <1>5, <2>1, <2>2, LaterReports
  <2> QED  BY <2>2, <2>3
<1>7. Loaded(r)
  BY <1>4, <1>5 DEF Loaded
<1>8. TableInv'
  BY <1>1 DEF TableInv, RowsInv, Ready
<1> QED  BY <1>1, <1>2, <1>3, <1>4, <1>5, <1>6, <1>7, <1>8 DEF CareInv

LEMMA MaintenanceKeeps ==
    ASSUME SignalInv, TableInv, CareInv, [Next]_vars
    PROVE  TableInv' /\ CareInv'
<1>1. CASE UNCHANGED <<bus, clock, job, saved, created, table, commits, order, care>>
  BY <1>1 DEF TableInv, RowsInv, CareInv, Ready
<1>2. CASE JobNext /\ UNCHANGED careVars
  <2>1. TableInv' /\ (commits # <<>> => commits' # <<>>)
    BY <1>2, JobsKeepTable DEF SignalInv
  <2>2. UNCHANGED <<care, order>>
    BY <1>2 DEF careVars
  <2>3. CareInv'
    BY <2>1, <2>2 DEF CareInv
  <2> QED  BY <2>1, <2>3
<1>3. CASE CareNext
  BY <1>3, LoadKeeps, DryExpireKeeps, ExpireKeeps, CompactKeeps, ScanKeeps DEF CareNext
<1>4. CASE UNCHANGED vars \/ UNCHANGED <<inputVars, job, saved, lakeVars, unsent, counts, dlqVars, signalVars, careVars>>
  BY <1>1, <1>4 DEF vars, jobVars, inputVars, lakeVars, careVars
<1> QED  BY <1>2, <1>3, <1>4 DEF Next

\* For any table, any retention and whatever the jobs commit meanwhile: a run
\* of the maintenance expires what a dry run would have told of, its report is
\* short of that by the commits it has not seen, and the newest snapshot has a
\* file for every committed row.
THEOREM MaintenanceHolds == Spec => []MaintenanceKeepsItsWord
<1>1. TableInv /\ CareInv => MaintenanceKeepsItsWord
  <2> SUFFICES ASSUME TableInv, CareInv PROVE MaintenanceKeepsItsWord
    OBVIOUS
  <2>1. care.pc \in {"manifests", "scan", "done"} =>
            IF order.dryRun THEN care.expired = Len(care.loaded) - Len(Kept(care.loaded, care.before))
            ELSE care.expired + care.missed = care.due
    BY DEF CareInv, Reports
  <2>2. ASSUME commits # <<>>
        PROVE  Filed(commits) = FoldSeq(LAMBDA n, sum : n + sum, 0, Last(commits).files)
    <3>1. PICK f \in Seq(Nat) : f = Last(commits).files
      BY <2>2, LastSnap DEF TableInv, Ledger
    <3>2. FoldSeq(LAMBDA n, sum : n + sum, 0, f) = Total(f, 1..Len(f))
      BY FilesTotal
    <3> QED  BY <2>2, <3>1, <3>2 DEF Filed
  <2>3. Len(table) = Filed(commits) /\ (commits = <<>> => Filed(commits) = 0)
    BY DEF TableInv, Filed
  <2> QED  BY <2>1, <2>2, <2>3 DEF MaintenanceKeepsItsWord
<1>2. Init => TableInv /\ CareInv
  BY TableStarts, CareStarts
<1>3. SignalInv /\ TableInv /\ CareInv /\ [Next]_vars => TableInv' /\ CareInv'
  BY MaintenanceKeeps
<1> QED  BY <1>1, <1>2, <1>3, SignalsAlways, PTL DEF Spec

-----------------------------------------------------------------------------
(* Rows of counts                                                          *)

\* What is a sequence of counts.
LEMMA CountsOfSeq ==
    ASSUME NEW S, NEW s \in Seq(S), \A i \in DOMAIN s : IsCount(s[i])
    PROVE  AreCounts(s)
<1>1. s \in Seq(Range(s))
  <2>1. PICK n \in Nat : s \in [1..n -> S] /\ n = Len(s)
    OBVIOUS
  <2>2. \A i \in 1..n : s[i] \in Range(s)
    BY <2>1 DEF Range
  <2>3. s \in [1..n -> Range(s)]
    BY <2>1, <2>2
  <2> QED  BY <2>1, <2>3
<1> QED  BY <1>1 DEF AreCounts

LEMMA CountsOfNone == AreCounts(<<>>)
<1>1. <<>> \in Seq({}) /\ DOMAIN <<>> = {}
  OBVIOUS
<1> QED  BY <1>1, CountsOfSeq

\* Sequences of counts that are put together, or lose their first.
LEMMA CountsAppend ==
    ASSUME NEW s, AreCounts(s), NEW x, IsCount(x)
    PROVE  AreCounts(Append(s, x))
<1>1. PICK S : S = Range(s) \cup {x}
  OBVIOUS
<1>2. s \in Seq(S) /\ x \in S
  BY <1>1 DEF AreCounts
<1>3. Append(s, x) \in Seq(S) /\ DOMAIN Append(s, x) = DOMAIN s \cup {Len(s) + 1}
  BY <1>2
<1>4. \A i \in DOMAIN s : Append(s, x)[i] = s[i] /\ Append(s, x)[Len(s) + 1] = x
  BY <1>2
<1>5. Append(s, x)[Len(s) + 1] = x
  BY <1>2
<1>6. \A i \in DOMAIN Append(s, x) : IsCount(Append(s, x)[i])
  BY <1>3, <1>4, <1>5 DEF AreCounts
<1> QED  BY <1>3, <1>6, CountsOfSeq

LEMMA CountsConcat ==
    ASSUME NEW a, AreCounts(a), NEW b, AreCounts(b)
    PROVE  AreCounts(a \o b)
<1>1. PICK S : S = Range(a) \cup Range(b)
  OBVIOUS
<1>2. a \in Seq(S) /\ b \in Seq(S)
  BY <1>1 DEF AreCounts
<1>3. PICK m \in Nat, n \in Nat : m = Len(a) /\ n = Len(b) /\ DOMAIN a = 1..m /\ DOMAIN b = 1..n
  BY <1>2
<1>4. /\ a \o b \in Seq(S) /\ Len(a \o b) = m + n
      /\ \A i \in 1..m : (a \o b)[i] = a[i]
      /\ \A i \in (m + 1)..(m + n) : (a \o b)[i] = b[i - m]
  BY <1>2, <1>3
<1>5. PICK c \in Seq(S) : c = a \o b
  BY <1>4
<1>6. DOMAIN c = 1..(m + n)
  BY <1>4, <1>5
<1>7. ASSUME NEW i \in 1..(m + n) PROVE IsCount(c[i])
  <2>1. CASE i <= m
    <3>1. i \in 1..m
      BY <1>3, <2>1
    <3> QED  BY <1>3, <1>4, <1>5, <3>1 DEF AreCounts
  <2>2. CASE i > m
    <3>1. i - m \in 1..n /\ i \in (m + 1)..(m + n)
      BY <1>3, <2>2
    <3>2. IsCount(b[i - m])
      BY <1>3, <3>1 DEF AreCounts
    <3> QED  BY <1>4, <1>5, <3>1, <3>2
  <2> QED  BY <1>3, <2>1, <2>2
<1> QED  BY <1>5, <1>6, <1>7, CountsOfSeq

LEMMA CountsTail ==
    ASSUME NEW s, AreCounts(s), s # <<>>
    PROVE  AreCounts(Tail(s)) /\ IsCount(Head(s))
<1>1. s \in Seq(Range(s))
  BY DEF AreCounts
<1>2. PICK n \in Nat : n = Len(s) - 1 /\ DOMAIN s = 1..(n + 1) /\ Head(s) = s[1]
  BY <1>1
<1>3. Tail(s) \in Seq(Range(s)) /\ DOMAIN Tail(s) = 1..n /\ \A i \in 1..n : Tail(s)[i] = s[i + 1]
  BY <1>1, <1>2
<1>4. \A i \in 1..n : i + 1 \in 1..(n + 1)
  BY <1>2
<1>5. 1 \in 1..(n + 1)
  BY <1>2
<1>6. \A i \in DOMAIN Tail(s) : IsCount(Tail(s)[i])
  BY <1>2, <1>3, <1>4 DEF AreCounts
<1>7. IsCount(Head(s))
  BY <1>2, <1>5 DEF AreCounts
<1> QED  BY <1>3, <1>6, <1>7, CountsOfSeq

\* What the rows of a job say of a user's window; None stands for every user.
Says(r, j, u, w) == IF r.by = j /\ u \in {r.user, None} /\ r.win = w THEN r.n ELSE 0
Told(s, j, u, w) == [i \in 1..Len(s) |-> Says(s[i], j, u, w)]

LEMMA CountSays ==
    ASSUME NEW r, IsCount(r), NEW j, NEW u, NEW w
    PROVE  Says(r, j, u, w) \in Nat
BY DEF IsCount, Says

LEMMA ToldNumbers ==
    ASSUME NEW s, AreCounts(s), NEW j, NEW u, NEW w
    PROVE  Told(s, j, u, w) \in Seq(Nat) /\ Len(Told(s, j, u, w)) = Len(s)
<1>1. PICK n \in Nat : n = Len(s) /\ DOMAIN s = 1..n
  BY DEF AreCounts
<1>2. \A i \in 1..n : Says(s[i], j, u, w) \in Nat
  BY <1>1, CountSays DEF AreCounts
<1>3. Told(s, j, u, w) \in [1..n -> Nat]
  BY <1>1, <1>2 DEF Told
<1> QED  BY <1>1, <1>3

\* Sequences by their places.
LEMMA SeqByPlace ==
    ASSUME NEW S, NEW s \in Seq(S), NEW n \in Nat, n = Len(s)
    PROVE  s = [i \in 1..n |-> s[i]]
<1>1. s \in [1..n -> S]
  OBVIOUS
<1> QED  BY <1>1

LEMMA ConcatPlaces ==
    ASSUME NEW S, NEW a \in Seq(S), NEW b \in Seq(S), NEW m \in Nat, NEW n \in Nat, m = Len(a), n = Len(b)
    PROVE  /\ Len(a \o b) = m + n
           /\ \A i \in 1..(m + n) : (a \o b)[i] = IF i <= m THEN a[i] ELSE b[i - m]
OBVIOUS

\* What is told of a window adds up along the rows.
LEMMA ToldAppend ==
    ASSUME NEW s, AreCounts(s), NEW x, IsCount(x), NEW j, NEW u, NEW w
    PROVE  Sum(Told(Append(s, x), j, u, w)) = Sum(Told(s, j, u, w)) + Says(x, j, u, w)
<1>1. PICK S : S = Range(s) \cup {x}
  OBVIOUS
<1>2. s \in Seq(S) /\ x \in S
  BY <1>1 DEF AreCounts
<1>3. PICK n \in Nat : n = Len(s)
  BY <1>2
<1>4. Len(Append(s, x)) = n + 1 /\ Append(s, x)[n + 1] = x /\ \A i \in 1..n : Append(s, x)[i] = s[i]
  BY <1>2, <1>3
<1>5. PICK t \in Seq(Nat), k \in Nat : t = Told(s, j, u, w) /\ Len(t) = n /\ k = Says(x, j, u, w)
  BY <1>3, ToldNumbers, CountSays
<1>6. \A i \in 1..n : t[i] = Says(s[i], j, u, w)
  BY <1>3, <1>5 DEF Told
<1>7. Told(Append(s, x), j, u, w) = [i \in 1..(n + 1) |-> Says(Append(s, x)[i], j, u, w)]
  BY <1>4 DEF Told
<1>8. Append(t, k) = [i \in 1..(n + 1) |-> IF i = n + 1 THEN k ELSE t[i]]
  <2>0. Append(t, k) \in Seq(Nat)
    OBVIOUS
  <2>1. PICK c \in Seq(Nat) : c = Append(t, k)
    BY <2>0
  <2>2. Len(c) = n + 1 /\ \A i \in 1..(n + 1) : c[i] = IF i = n + 1 THEN k ELSE t[i]
    BY <1>5, <2>1
  <2>3. c = [i \in 1..(n + 1) |-> c[i]]
    BY <2>2, SeqByPlace
  <2> QED  BY <2>1, <2>2, <2>3
<1>9. \A i \in 1..(n + 1) : Says(Append(s, x)[i], j, u, w) = IF i = n + 1 THEN k ELSE t[i]
  <2> SUFFICES ASSUME NEW i \in 1..(n + 1)
               PROVE  Says(Append(s, x)[i], j, u, w) = IF i = n + 1 THEN k ELSE t[i]
    OBVIOUS
  <2>1. CASE i = n + 1
    BY <1>4, <1>5, <2>1
  <2>2. CASE i # n + 1
    <3>1. i \in 1..n
      BY <2>2
    <3> QED  BY <1>4, <1>6, <2>2, <3>1
  <2> QED  BY <2>1, <2>2
<1>10. Told(Append(s, x), j, u, w) = Append(t, k)
  BY <1>7, <1>8, <1>9
<1> QED  BY <1>5, <1>10, SumAppends

LEMMA ToldConcat ==
    ASSUME NEW a, AreCounts(a), NEW b, AreCounts(b), NEW j, NEW u, NEW w
    PROVE  Sum(Told(a \o b, j, u, w)) = Sum(Told(a, j, u, w)) + Sum(Told(b, j, u, w))
<1>1. PICK S : S = Range(a) \cup Range(b)
  OBVIOUS
<1>2. a \in Seq(S) /\ b \in Seq(S)
  BY <1>1 DEF AreCounts
<1>3. PICK m \in Nat, n \in Nat : m = Len(a) /\ n = Len(b)
  BY <1>2
<1>4. /\ Len(a \o b) = m + n
      /\ \A i \in 1..m : (a \o b)[i] = a[i]
      /\ \A i \in (m + 1)..(m + n) : (a \o b)[i] = b[i - m]
  BY <1>2, <1>3
<1>5. PICK s \in Seq(Nat), t \in Seq(Nat) : /\ s = Told(a, j, u, w) /\ t = Told(b, j, u, w)
                                            /\ Len(s) = m /\ Len(t) = n
  BY <1>3, ToldNumbers
<1>6. /\ \A i \in 1..m : s[i] = Says(a[i], j, u, w)
      /\ \A i \in 1..n : t[i] = Says(b[i], j, u, w)
  BY <1>3, <1>5 DEF Told
<1>7. PICK c : c = a \o b
  OBVIOUS
<1>8. Told(c, j, u, w) = [i \in 1..(m + n) |-> Says(c[i], j, u, w)]
  BY <1>4, <1>7 DEF Told
<1>9. s \o t = [i \in 1..(m + n) |-> IF i <= m THEN s[i] ELSE t[i - m]]
  <2>0. s \o t \in Seq(Nat)
    OBVIOUS
  <2>1. PICK d \in Seq(Nat) : d = s \o t
    BY <2>0
  <2>2. Len(d) = m + n /\ \A i \in 1..(m + n) : d[i] = IF i <= m THEN s[i] ELSE t[i - m]
    BY <1>5, <2>1, ConcatPlaces
  <2>3. d = [i \in 1..(m + n) |-> d[i]]
    BY <2>2, SeqByPlace
  <2> QED  BY <2>1, <2>2, <2>3
<1>10. ASSUME NEW i \in 1..(m + n)
       PROVE  Says(c[i], j, u, w) = IF i <= m THEN s[i] ELSE t[i - m]
  <2>1. CASE i <= m
    <3>1. i \in 1..m
      BY <2>1
    <3> QED  BY <1>4, <1>6, <1>7, <2>1, <3>1
  <2>2. CASE ~(i <= m)
    <3>1. i - m \in 1..n /\ i \in (m + 1)..(m + n)
      BY <2>2
    <3> QED  BY <1>4, <1>6, <1>7, <2>2, <3>1
  <2> QED  BY <2>1, <2>2
<1>11. Told(c, j, u, w) = s \o t
  BY <1>8, <1>9, <1>10
<1> QED  BY <1>5, <1>7, <1>11, SumConcat

\* Another job's rows tell nothing.
LEMMA ToldByOthers ==
    ASSUME NEW s, NEW j, NEW u, NEW w, \A i \in 1..Len(s) : s[i].by # j
    PROVE  Sum(Told(s, j, u, w)) = 0
<1>1. PICK t : t = Told(s, j, u, w)
  OBVIOUS
<1>2. DOMAIN t = 1..Len(s) /\ \A i \in 1..Len(s) : t[i] = 0
  BY <1>1 DEF Told, Says
<1>3. Units(t, 1..Len(s)) = {} /\ Len(t) = Len(s)
  BY <1>2 DEF Units
<1> QED  BY <1>1, <1>3, FS_EmptySet DEF Sum, Total

\* The fold over the rows is their sum, whatever it chooses first.
LEMMA RecursionOfRows ==
    ASSUME NEW s, AreCounts(s), NEW j, NEW u, NEW w, NEW iter,
           \A T \in SUBSET (DOMAIN s) : iter[T] = IF T = {} THEN 0
                                        ELSE Says(s[Chosen(T)], j, u, w) + iter[T \ {Chosen(T)}]
    PROVE  iter[DOMAIN s] = Sum(Told(s, j, u, w))
<1>1. PICK val, S : val = Told(s, j, u, w) /\ S = DOMAIN s
  OBVIOUS
<1>2. /\ IsFiniteSet(S) /\ S = 1..Len(s) /\ Len(val) = Len(s)
      /\ \A x \in S : val[x] \in Nat /\ val[x] = Says(s[x], j, u, w)
  <2>1. PICK n \in Nat : n = Len(s) /\ S = 1..n
    BY <1>1 DEF AreCounts
  <2>2. IsFiniteSet(1..n)
    BY FS_Interval
  <2>3. val \in Seq(Nat) /\ Len(val) = n
    BY <1>1, <2>1, ToldNumbers
  <2>4. \A x \in 1..n : val[x] = Says(s[x], j, u, w)
    BY <1>1, <2>1 DEF Told
  <2> QED  BY <2>1, <2>2, <2>3, <2>4
<1>3. \A T \in SUBSET S : T # {} => Chosen(T) \in T
  BY DEF Chosen
<1>4. \A T \in SUBSET S : iter[T] = IF T = {} THEN 0 ELSE val[Chosen(T)] + iter[T \ {Chosen(T)}]
  <2> SUFFICES ASSUME NEW T \in SUBSET S
               PROVE  iter[T] = IF T = {} THEN 0 ELSE val[Chosen(T)] + iter[T \ {Chosen(T)}]
    OBVIOUS
  <2>1. T # {} => val[Chosen(T)] = Says(s[Chosen(T)], j, u, w)
    BY <1>2, <1>3
  <2> QED  BY <1>1, <2>1
<1>5. iter[S] = Total(val, S)
  BY <1>2, <1>4, RecursionIsTotal
<1> QED  BY <1>1, <1>2, <1>5 DEF Sum

\* The fold of a job's rows is the sum of what they say.
LEMMA FoldIsSum ==
    ASSUME NEW s, AreCounts(s), NEW j, NEW u, NEW w, u # None
    PROVE  FoldSeq(LAMBDA r, n : (IF r.by = j /\ r.user = u /\ r.win = w THEN r.n ELSE 0) + n, 0, s)
               = Sum(Told(s, j, u, w))
<1> DEFINE step(g) == [T \in SUBSET (DOMAIN s) |->
                           IF T = {} THEN 0
                           ELSE (IF s[Chosen(T)].by = j /\ s[Chosen(T)].user = u /\ s[Chosen(T)].win = w
                                 THEN s[Chosen(T)].n ELSE 0) + g[T \ {Chosen(T)}]]
<1>1. PICK val : val = Told(s, j, u, w)
  OBVIOUS
<1>2. /\ IsFiniteSet(DOMAIN s) /\ \A x \in DOMAIN s : val[x] \in Nat /\ val[x] = Says(s[x], j, u, w)
  <2>1. PICK n \in Nat : n = Len(s) /\ DOMAIN s = 1..n
    BY DEF AreCounts
  <2>2. IsFiniteSet(1..n)
    BY FS_Interval
  <2>3. val \in Seq(Nat) /\ Len(val) = n
    BY <1>1, <2>1, ToldNumbers
  <2>4. \A x \in 1..n : val[x] = Says(s[x], j, u, w)
    BY <1>1, <2>1 DEF Told
  <2> QED  BY <2>1, <2>2, <2>3, <2>4
<1>4. \A T \in SUBSET (DOMAIN s) : IsFiniteSet(T)
  BY <1>2, FS_Subset
<1>5. \A T \in SUBSET (DOMAIN s) : T # {} => Chosen(T) \in T
  BY DEF Chosen
<1>6. Total(val, {}) = 0
  <2>1. Units(val, {}) = {}
    BY DEF Units
  <2> QED  BY <2>1, FS_EmptySet DEF Total
<1>7. \A T \in SUBSET (DOMAIN s) : T # {} => Total(val, T) = val[Chosen(T)] + Total(val, T \ {Chosen(T)})
  BY <1>2, <1>4, <1>5, TotalRemoves
<1> DEFINE sum == [T \in SUBSET (DOMAIN s) |-> Total(val, T)]
<1>8. sum = step(sum)
  <2> SUFFICES ASSUME NEW T \in SUBSET (DOMAIN s) PROVE sum[T] = step(sum)[T]
    OBVIOUS
  <2>1. CASE T = {}
    BY <1>6, <2>1
  <2>2. CASE T # {}
    <3>1. PICK x \in T : x = Chosen(T)
      BY <1>5, <2>2
    <3>2. sum[T] = val[x] + sum[T \ {x}]
      BY <1>7, <2>2, <3>1
    <3>3. val[x] = IF s[x].by = j /\ s[x].user = u /\ s[x].win = w THEN s[x].n ELSE 0
      BY <1>2 DEF Says
    <3> QED  BY <2>2, <3>1, <3>2, <3>3
  <2> QED  BY <2>1, <2>2
<1>9. PICK iter : /\ iter = step(iter)
                  /\ FoldSeq(LAMBDA r, n : (IF r.by = j /\ r.user = u /\ r.win = w THEN r.n ELSE 0) + n, 0, s)
                         = iter[DOMAIN s]
  <2>1. PICK iter : /\ FoldSeq(LAMBDA r, n : (IF r.by = j /\ r.user = u /\ r.win = w THEN r.n ELSE 0) + n, 0, s)
                           = iter[DOMAIN s]
                    /\ iter = CHOOSE g : g = step(g)
    BY DEF FoldSeq, FoldFunction, FoldFunctionOnSet, MapThenFoldSet, Chosen
  <2>2. iter = step(iter)
    BY <1>8, <2>1
  <2> QED  BY <2>1, <2>2
<1>10. \A T \in SUBSET (DOMAIN s) : iter[T] = IF T = {} THEN 0
                                        ELSE Says(s[Chosen(T)], j, u, w) + iter[T \ {Chosen(T)}]
  BY <1>9 DEF Says
<1>11. iter[DOMAIN s] = Sum(Told(s, j, u, w))
  <2> HIDE DEF step, sum
  <2> QED  BY <1>10, RecursionOfRows
<1> QED  BY <1>9, <1>11

-----------------------------------------------------------------------------
(* One job's state: its place in the topic, its windows, its time, its rows *)

\* The operations a job counts; what it has read, and what it holds back.
Takes(b, j, op) == op = "c" \/ (j = "backfill" /\ b.mode = "cdc_snapshot" /\ op = "r")
ReadOf(r) == (r.from + 1)..r.pos
HeldOf(r) == {h.at : h \in r.held}

\* Whether a message is to be counted for a user's window.
Adds(b, m, j, u, w) == m # None /\ m.of = u /\ WindowOf(m.ts) = w /\ Takes(b, j, m.op)
Wanted(b, tp, r, j, u, w) == {i \in ReadOf(r) \ HeldOf(r) : Adds(b, tp[i], j, u, w)}

\* A job is within its range of the topic.
PlaceOk(tp, r) ==
    /\ r.pc \in {"off", "creating", "failed", "running", "down", "done"}
    /\ r.from \in Nat /\ r.pos \in Nat /\ r.from <= r.pos /\ r.pos <= Len(tp)
    /\ r.end = None \/ (r.end \in Int /\ r.end <= Len(tp))
    /\ HeldOf(r) \subseteq ReadOf(r)
    /\ r.pc = "off" => r.from = r.pos /\ r.end = None

\* Open windows have counts, per user and window.
PanesOk(f) == f \in Tally(DOMAIN f) /\ \A k \in DOMAIN f : k = <<k[1], k[2]>> /\ k[2] \in Nat
WindowsOk(r) == PanesOk(r.panes) /\ PanesOk(r.late) /\ PanesOk(r.seen)

\* A message that is older than one before it, by more than the allowed disorder.
Disordered(tp, r) ==
    \E i, k \in ReadOf(r) : i < k /\ tp[i] # None /\ tp[k] # None /\ ~(tp[i].ts - Lag <= tp[k].ts)

\* The watermark follows the newest time read, until the input has ended.
TimeOk(tp, r) ==
    /\ r.top = NoTime \/ \E i \in ReadOf(r) : tp[i] # None /\ r.top = tp[i].ts
    /\ r.mark \in Int /\ (r.mark <= MarkOf(r.top) \/ (r.end # None /\ r.pos = r.end))
    /\ r.late # <<>> => Disordered(tp, r)

\* A job writes its own rows, and none before it runs.
RowsOk(r, j) ==
    /\ AreCounts(r.rows) /\ \A i \in 1..Len(r.rows) : r.rows[i].by = j
    /\ r.pc \in {"off", "creating"} => r.rows = <<>>

RecOk(tp, r, j) == PlaceOk(tp, r) /\ WindowsOk(r) /\ TimeOk(tp, r) /\ RowsOk(r, j)

\* The topic is made of messages of the feed.
TopicOk(b, tp) == b \in JobSettings /\ tp \in Seq(Range(b.feed))

\* The account of a job: what it has committed, written and holds is what it has read.
Balance(b, tp, tb, r, j) ==
    \A u, w : u # None =>
        Sum(Told(tb, j, u, w)) + Sum(Told(r.rows, j, u, w)) + At(r.panes, <<u, w>>) + At(r.late, <<u, w>>)
            = Cardinality(Wanted(b, tp, r, j, u, w))

\* A message of the topic has a time, within its window.
LEMMA MessageTimes ==
    ASSUME NEW b, NEW tp, TopicOk(b, tp), NEW i \in 1..Len(tp), tp[i] # None
    PROVE  tp[i].ts \in Nat /\ WindowOf(tp[i].ts) \in Nat /\ tp[i].ts < EndOf(WindowOf(tp[i].ts))
<1>1. tp[i] \in Range(b.feed)
  BY DEF TopicOk
<1>2. PICK t \in Nat : t = tp[i].ts
  BY <1>1, StreamAssumption DEF TopicOk
<1>3. PICK W \in Nat \ {0} : W = Window
  BY StreamAssumption
<1>4. t % W \in 0..(W - 1) /\ t % W <= t
  BY <1>2, <1>3
<1> QED  BY <1>2, <1>3, <1>4 DEF WindowOf, EndOf

LEMMA WantedFinite ==
    ASSUME NEW b, NEW tp, NEW r, NEW j, NEW u, NEW w, PlaceOk(tp, r)
    PROVE  IsFiniteSet(Wanted(b, tp, r, j, u, w)) /\ Cardinality(Wanted(b, tp, r, j, u, w)) \in Nat
<1>1. PICK m \in Nat, n \in Nat : m = r.from + 1 /\ n = r.pos
  BY DEF PlaceOk
<1>2. IsFiniteSet(m..n)
  BY FS_Interval
<1>3. Wanted(b, tp, r, j, u, w) \subseteq m..n
  BY <1>1 DEF Wanted, ReadOf
<1> QED  BY <1>2, <1>3, FS_Subset, FS_CardinalityType

\* The next message, that is wanted or is not.
LEMMA WantedGrows ==
    ASSUME NEW b, NEW tp, NEW r, NEW rec, NEW j, NEW u, NEW w, PlaceOk(tp, r), NEW n, n = r.pos + 1,
           rec.from = r.from, rec.pos = n,
           HeldOf(rec) = HeldOf(r) \/ HeldOf(rec) = HeldOf(r) \cup {n}
    PROVE  Cardinality(Wanted(b, tp, rec, j, u, w))
               = Cardinality(Wanted(b, tp, r, j, u, w))
                     + IF n \notin HeldOf(rec) /\ Adds(b, tp[n], j, u, w) THEN 1 ELSE 0
<1>1. ReadOf(rec) = ReadOf(r) \cup {n} /\ n \notin ReadOf(r)
  BY DEF PlaceOk, ReadOf
<1>2. n \notin HeldOf(r)
  BY <1>1 DEF PlaceOk
<1>3. PICK A, B : A = Wanted(b, tp, r, j, u, w) /\ B = Wanted(b, tp, rec, j, u, w)
  OBVIOUS
<1>4. IsFiniteSet(A) /\ Cardinality(A) \in Nat
  BY <1>3, WantedFinite
<1>5. n \notin A
  BY <1>1, <1>3 DEF Wanted
<1>6. CASE n \notin HeldOf(rec) /\ Adds(b, tp[n], j, u, w)
  <2>1. B = A \cup {n}
    BY <1>1, <1>2, <1>3, <1>6 DEF Wanted
  <2>2. Cardinality(B) = Cardinality(A) + 1
    BY <1>4, <1>5, <2>1, FS_AddElement
  <2> QED  BY <1>3, <1>6, <2>2
<1>7. CASE ~(n \notin HeldOf(rec) /\ Adds(b, tp[n], j, u, w))
  <2>1. B = A
    BY <1>1, <1>2, <1>3, <1>7 DEF Wanted
  <2> QED  BY <1>3, <1>4, <1>7, <2>1
<1> QED  BY <1>6, <1>7

\* Open windows: one count more, and windows that are taken out.
LEMMA TallyGrows ==
    ASSUME NEW f, PanesOk(f), NEW u, NEW w \in Nat
    PROVE  /\ PanesOk(Plus(f, <<u, w>>, 1)) /\ Plus(f, <<u, w>>, 1) # <<>>
           /\ \A x : At(Plus(f, <<u, w>>, 1), x) = At(f, x) + IF x = <<u, w>> THEN 1 ELSE 0
<1>1. PICK key, g : key = <<u, w>> /\ g = Plus(f, key, 1)
  OBVIOUS
<1>2. DOMAIN g = DOMAIN f \cup {key} /\ \A x \in DOMAIN g : g[x] = (IF x \in DOMAIN f THEN f[x] ELSE 0) + (IF x = key THEN 1 ELSE 0)
  BY <1>1 DEF Plus
<1>3. \A x \in DOMAIN f : f[x] \in Nat /\ f[x] > 0
  BY DEF PanesOk, Tally
<1>4. \A x \in DOMAIN g : g[x] \in Nat /\ g[x] > 0
  BY <1>2, <1>3
<1>5. g = [x \in DOMAIN g |-> g[x]]
  BY <1>1 DEF Plus
<1>6. g \in Tally(DOMAIN g)
  BY <1>4, <1>5 DEF Tally
<1>7. key = <<key[1], key[2]>> /\ key[2] \in Nat
  BY <1>1
<1>8. PanesOk(g)
  BY <1>2, <1>6, <1>7 DEF PanesOk
<1>9. g # <<>>
  <2>1. DOMAIN <<>> = {}
    OBVIOUS
  <2> QED  BY <1>2, <2>1
<1>10. ASSUME NEW x PROVE At(g, x) = At(f, x) + IF x = key THEN 1 ELSE 0
  BY <1>2, <1>3 DEF At
<1> QED  BY <1>1, <1>8, <1>9, <1>10

LEMMA TallyShrinks ==
    ASSUME NEW f, PanesOk(f), NEW keys
    PROVE  /\ PanesOk(Without(f, keys))
           /\ \A x : At(Without(f, keys), x) = IF x \in keys THEN 0 ELSE At(f, x)
<1>1. PICK g : g = Without(f, keys)
  OBVIOUS
<1>2. DOMAIN g = DOMAIN f \ keys /\ (\A x \in DOMAIN g : g[x] = f[x]) /\ g = [x \in DOMAIN g |-> g[x]]
  BY <1>1 DEF Without
<1>3. \A x \in DOMAIN g : g[x] \in Nat /\ g[x] > 0
  BY <1>2 DEF PanesOk, Tally
<1>4. g \in Tally(DOMAIN g)
  BY <1>2, <1>3 DEF Tally
<1>5. PanesOk(g)
  BY <1>2, <1>4 DEF PanesOk
<1>6. \A x : At(g, x) = IF x \in keys THEN 0 ELSE At(f, x)
  BY <1>2 DEF At
<1> QED  BY <1>1, <1>5, <1>6

LEMMA TallyNatural ==
    ASSUME NEW f, PanesOk(f), NEW x
    PROVE  At(f, x) \in Nat
BY DEF PanesOk, Tally, At

LEMMA NoPanes == PanesOk(<<>>) /\ \A x : At(<<>>, x) = 0
<1>1. DOMAIN <<>> = {} /\ <<>> = [x \in {} |-> x]
  OBVIOUS
<1>2. <<>> \in Tally({})
  BY <1>1 DEF Tally
<1> QED  BY <1>1, <1>2 DEF PanesOk, At

-----------------------------------------------------------------------------
(* What a step does to the account of a job                                *)

\* What was read stays where it is when the topic grows.
LEMMA TopicGrows ==
    ASSUME NEW b, NEW tp, TopicOk(b, tp), NEW m \in Range(b.feed), NEW r, NEW j, RecOk(tp, r, j)
    PROVE  /\ TopicOk(b, Append(tp, m)) /\ RecOk(Append(tp, m), r, j)
           /\ \A u, w : Wanted(b, Append(tp, m), r, j, u, w) = Wanted(b, tp, r, j, u, w)
<1>0. PICK tq : tq = Append(tp, m)
  OBVIOUS
<1>1. PICK n \in Nat : tq = Append(tp, m) /\ n = Len(tp)
  BY <1>0 DEF TopicOk
<1>2. tq \in Seq(Range(b.feed)) /\ Len(tq) = n + 1 /\ \A i \in 1..n : tq[i] = tp[i]
  BY <1>1 DEF TopicOk
<1>3. \A i \in ReadOf(r) : i \in 1..n /\ tq[i] = tp[i]
  BY <1>1, <1>2 DEF RecOk, PlaceOk, ReadOf
<1>4. PlaceOk(tq, r)
  BY <1>1, <1>2 DEF RecOk, PlaceOk
<1>5. TimeOk(tq, r)
  BY <1>3 DEF RecOk, TimeOk, Disordered
<1>6. \A u, w : Wanted(b, tq, r, j, u, w) = Wanted(b, tp, r, j, u, w)
  BY <1>3 DEF Wanted
<1> QED  BY <1>1, <1>2, <1>4, <1>5, <1>6 DEF TopicOk, RecOk

\* The snapshots and what waits for the next one stay, or a window's is emitted.
SameSnaps(r, rec) == rec.users = r.users /\ rec.flushed = r.flushed /\ rec.timers = r.timers
Emits(r, rec) == \E w : /\ rec.users = Without(r.users, {q \in DOMAIN r.users : q[2] = w})
                        /\ rec.flushed = Plus(r.flushed, w, SumOf(InWindow(r.users, w)))

\* A step that reads the next message.
Took(r, rec) ==
    /\ rec.pc = r.pc /\ rec.from = r.from /\ rec.end = r.end /\ rec.pos = r.pos + 1
    /\ rec.mark = r.mark /\ rec.rows = r.rows /\ SameSnaps(r, rec)

\* The message a running job reads next.
NextMessage(tp, r) == tp[r.pos + 1]
HasNext(tp, r) == r.pc = "running" /\ r.pos < IF r.end = None THEN Len(tp) ELSE r.end

\* Reading the next message: the place, the time, the account.
LEMMA ReadingPlace ==
    ASSUME NEW b, NEW tp, TopicOk(b, tp), NEW r, NEW rec, PlaceOk(tp, r), HasNext(tp, r), Took(r, rec),
           HeldOf(rec) = HeldOf(r) \/ HeldOf(rec) = HeldOf(r) \cup {r.pos + 1}
    PROVE  /\ PlaceOk(tp, rec) /\ ReadOf(rec) = ReadOf(r) \cup {r.pos + 1} /\ r.pos + 1 \in 1..Len(tp)
           /\ \A i \in ReadOf(r) : i < r.pos + 1
           /\ ~(r.end # None /\ r.pos = r.end)
<1>1. PICK n \in Nat, from \in Nat, pos \in Nat : n = Len(tp) /\ from = r.from /\ pos = r.pos /\ from <= pos /\ pos <= n
  BY DEF TopicOk, PlaceOk
<1>2. pos < n /\ ~(r.end # None /\ pos = r.end)
  BY <1>1 DEF HasNext, PlaceOk
<1>3. ReadOf(rec) = ReadOf(r) \cup {pos + 1} /\ \A i \in ReadOf(r) : i < pos + 1
  BY <1>1 DEF ReadOf, Took
<1>4. HeldOf(rec) \subseteq ReadOf(rec)
  BY <1>1, <1>3 DEF PlaceOk
<1>5. PlaceOk(tp, rec)
  BY <1>1, <1>2, <1>4 DEF PlaceOk, Took, HasNext
<1> QED  BY <1>1, <1>2, <1>3, <1>5

\* The newest time read is a number.
LEMMA TopNumber ==
    ASSUME NEW b, NEW tp, TopicOk(b, tp), NEW r, PlaceOk(tp, r), TimeOk(tp, r)
    PROVE  r.top \in Int
<1>1. CASE r.top = NoTime
  BY <1>1 DEF NoTime
<1>2. ASSUME NEW i \in ReadOf(r), tp[i] # None, r.top = tp[i].ts
      PROVE  r.top \in Int
  <2>1. i \in 1..Len(tp)
    BY DEF ReadOf, PlaceOk, TopicOk
  <2> QED  BY <1>2, <2>1, MessageTimes
<1> QED  BY <1>1, <1>2 DEF TimeOk

LEMMA ReadingTime ==
    ASSUME NEW b, NEW tp, TopicOk(b, tp), NEW r, NEW rec, PlaceOk(tp, r), TimeOk(tp, r), HasNext(tp, r), Took(r, rec),
           HeldOf(rec) = HeldOf(r) \/ HeldOf(rec) = HeldOf(r) \cup {r.pos + 1},
           rec.top # r.top => NextMessage(tp, r) # None /\ rec.top = NextMessage(tp, r).ts /\ rec.top > r.top,
           rec.late # r.late => NextMessage(tp, r) # None /\ EndOf(WindowOf(NextMessage(tp, r).ts)) - 1 <= r.mark
    PROVE  TimeOk(tp, rec)
<1>1. PICK n \in Nat : n = r.pos + 1 /\ n \in 1..Len(tp) /\ ReadOf(rec) = ReadOf(r) \cup {n}
  BY ReadingPlace DEF PlaceOk
<1>2. /\ ~(r.end # None /\ r.pos = r.end) /\ \A i \in ReadOf(r) : i < n
  BY <1>1, ReadingPlace
<1>3. r.mark <= MarkOf(r.top) /\ r.mark \in Int
  BY <1>2 DEF TimeOk
<1>4. Lag \in Nat /\ Window \in Nat
  BY StreamAssumption
<1>5. tp[n] # None => tp[n].ts \in Nat /\ WindowOf(tp[n].ts) \in Nat /\ tp[n].ts < EndOf(WindowOf(tp[n].ts))
  BY <1>1, MessageTimes
<1>6. r.top \in Int
  BY TopNumber
<1>7. rec.top = NoTime \/ \E i \in ReadOf(rec) : tp[i] # None /\ rec.top = tp[i].ts
  BY <1>1 DEF TimeOk, NextMessage
<1>8. rec.mark <= MarkOf(rec.top)
  <2>0. rec.top = r.top \/ (rec.top \in Nat /\ rec.top > r.top)
    BY <1>1, <1>5 DEF NextMessage
  <2>1. PICK new \in Int, old \in Int : new = rec.top /\ old = r.top
    BY <1>6, <2>0
  <2>2. new = old \/ (new \in Nat /\ new > old)
    BY <2>0, <2>1
  <2> QED  BY <1>3, <1>4, <2>1, <2>2 DEF Took, MarkOf
<1>9. ASSUME rec.late # <<>> PROVE Disordered(tp, rec)
  <2>1. CASE rec.late = r.late
    BY <1>1, <1>9, <2>1 DEF TimeOk, Disordered
  <2>2. CASE rec.late # r.late
    <3>1. tp[n] # None /\ EndOf(WindowOf(tp[n].ts)) - 1 <= r.mark
      BY <1>1, <2>2 DEF NextMessage
    <3>2. PICK t \in Nat, w \in Nat, mark \in Int, top \in Int :
             t = tp[n].ts /\ w = WindowOf(t) /\ mark = r.mark /\ top = r.top
      BY <1>3, <1>5, <1>6, <3>1
    <3>3. t < EndOf(w) /\ EndOf(w) - 1 <= mark /\ mark <= top - Lag - 1 /\ EndOf(w) \in Nat
      BY <1>3, <1>4, <1>5, <3>1, <3>2 DEF MarkOf, EndOf
    <3>4. ~(top - Lag <= t) /\ top # NoTime
      BY <1>4, <3>2, <3>3 DEF NoTime
    <3>5. PICK i \in ReadOf(r) : tp[i] # None /\ top = tp[i].ts
      BY <3>2, <3>4 DEF TimeOk
    <3>6. i \in ReadOf(rec) /\ n \in ReadOf(rec) /\ i < n
      BY <1>1, <1>2
    <3> QED  BY <3>1, <3>2, <3>4, <3>5, <3>6 DEF Disordered
  <2> QED  BY <2>1, <2>2
<1> QED  BY <1>3, <1>7, <1>8, <1>9 DEF TimeOk, Took

LEMMA ReadingBalance ==
    ASSUME NEW b, NEW tp, NEW tb, TopicOk(b, tp), NEW r, NEW rec, NEW j, PlaceOk(tp, r), HasNext(tp, r), Took(r, rec),
           AreCounts(tb), AreCounts(r.rows), WindowsOk(r), Balance(b, tp, tb, r, j),
           HeldOf(rec) = HeldOf(r) \/ HeldOf(rec) = HeldOf(r) \cup {r.pos + 1},
           \A u, w : u # None =>
              At(rec.panes, <<u, w>>) + At(rec.late, <<u, w>>)
                 = At(r.panes, <<u, w>>) + At(r.late, <<u, w>>)
                     + IF r.pos + 1 \notin HeldOf(rec) /\ Adds(b, NextMessage(tp, r), j, u, w) THEN 1 ELSE 0,
           WindowsOk(rec)
    PROVE  Balance(b, tp, tb, rec, j)
<1> SUFFICES ASSUME NEW u, NEW w, u # None
             PROVE  Sum(Told(tb, j, u, w)) + Sum(Told(rec.rows, j, u, w)) + At(rec.panes, <<u, w>>) + At(rec.late, <<u, w>>)
                      = Cardinality(Wanted(b, tp, rec, j, u, w))
  BY DEF Balance
<1>1. PICK s \in Nat, t \in Nat : s = Sum(Told(tb, j, u, w)) /\ t = Sum(Told(r.rows, j, u, w))
  <2>1. Told(tb, j, u, w) \in Seq(Nat) /\ Told(r.rows, j, u, w) \in Seq(Nat)
    BY ToldNumbers
  <2> QED  BY <2>1, SumNatural
<1>2. PICK p \in Nat, l \in Nat, p2 \in Nat, l2 \in Nat :
         /\ p = At(r.panes, <<u, w>>) /\ l = At(r.late, <<u, w>>)
         /\ p2 = At(rec.panes, <<u, w>>) /\ l2 = At(rec.late, <<u, w>>)
  BY TallyNatural DEF WindowsOk
<1>3. s + t + p + l = Cardinality(Wanted(b, tp, r, j, u, w))
  BY <1>1, <1>2 DEF Balance
<1>4. PICK n : n = r.pos + 1
  OBVIOUS
<1>5. Cardinality(Wanted(b, tp, rec, j, u, w))
         = Cardinality(Wanted(b, tp, r, j, u, w))
              + IF n \notin HeldOf(rec) /\ Adds(b, tp[n], j, u, w) THEN 1 ELSE 0
  BY <1>4, WantedGrows DEF Took
<1>6. p2 + l2 = p + l + IF n \notin HeldOf(rec) /\ Adds(b, tp[n], j, u, w) THEN 1 ELSE 0
  BY <1>2, <1>4 DEF NextMessage
<1>7. rec.rows = r.rows
  BY DEF Took
<1> QED  BY <1>1, <1>2, <1>3, <1>5, <1>6, <1>7

\* A step that reads nothing and moves no count.
SameAccount(r, rec) ==
    /\ rec.from = r.from /\ rec.pos = r.pos /\ rec.held = r.held
    /\ rec.panes = r.panes /\ rec.late = r.late /\ rec.rows = r.rows

LEMMA SameBalance ==
    ASSUME NEW b, NEW tp, NEW tb, NEW r, NEW rec, NEW j, SameAccount(r, rec), Balance(b, tp, tb, r, j)
    PROVE  Balance(b, tp, tb, rec, j)
<1>1. \A u, w : Wanted(b, tp, rec, j, u, w) = Wanted(b, tp, r, j, u, w)
  BY DEF Wanted, ReadOf, HeldOf, SameAccount
<1> QED  BY <1>1 DEF Balance, SameAccount

LEMMA SamePlace ==
    ASSUME NEW tp, NEW r, NEW rec, NEW j, RecOk(tp, r, j), SameAccount(r, rec), PanesOk(rec.seen),
           rec.pc \in {"off", "creating", "failed", "running", "down", "done"}, 
           rec.pc \in {"off", "creating"} => r.pc = rec.pc,
           rec.end = r.end, rec.top \in {r.top, NoTime}, rec.mark \in Int,
           rec.mark <= MarkOf(rec.top) \/ (r.end # None /\ r.pos = r.end)
    PROVE  RecOk(tp, rec, j)
<1>1. ReadOf(rec) = ReadOf(r) /\ HeldOf(rec) = HeldOf(r)
  BY DEF SameAccount, ReadOf, HeldOf
<1>2. PlaceOk(tp, rec)
  BY <1>1 DEF RecOk, PlaceOk, SameAccount
<1>3. TimeOk(tp, rec)
  BY <1>1 DEF RecOk, TimeOk, SameAccount, Disordered
<1>4. WindowsOk(rec) /\ RowsOk(rec, j)
  BY DEF RecOk, WindowsOk, RowsOk, SameAccount
<1> QED  BY <1>2, <1>3, <1>4 DEF RecOk

\* A job that is submitted has read nothing, and nothing is told of it.
LEMMA SubmittedAccount ==
    ASSUME NEW b, NEW tp, NEW tb, NEW r, NEW rec, NEW j, RecOk(tp, r, j), r.pc = "off",
           rec.held = r.held, rec.panes = r.panes, rec.late = r.late, rec.seen = r.seen, rec.rows = r.rows,
           rec.top = r.top, rec.mark = r.mark, rec.pc \in {"creating", "failed", "running"},
           rec.from \in Nat, rec.pos = rec.from, rec.from <= Len(tp), rec.end = None \/ (rec.end \in Int /\ rec.end <= Len(tp))
    PROVE  RecOk(tp, rec, j) /\ (Balance(b, tp, tb, r, j) => Balance(b, tp, tb, rec, j))
<1>1. ReadOf(r) = {} /\ ReadOf(rec) = {}
  BY DEF ReadOf, RecOk, PlaceOk
<1>2. HeldOf(rec) = {}
  BY <1>1 DEF RecOk, PlaceOk, HeldOf
<1>3. PlaceOk(tp, rec)
  BY <1>2 DEF RecOk, PlaceOk
<1>4. TimeOk(tp, rec)
  BY <1>1 DEF RecOk, PlaceOk, TimeOk, Disordered
<1>5. WindowsOk(rec) /\ RowsOk(rec, j)
  BY DEF RecOk, WindowsOk, RowsOk
<1>6. \A u, w : Wanted(b, tp, rec, j, u, w) = {} /\ Wanted(b, tp, r, j, u, w) = {}
  BY <1>1 DEF Wanted
<1>7. Balance(b, tp, tb, r, j) => Balance(b, tp, tb, rec, j)
  BY <1>6 DEF Balance
<1> QED  BY <1>3, <1>4, <1>5, <1>7 DEF RecOk

\* A window's count becomes a row, where the rows are kept.
LEMMA FiredAccount ==
    ASSUME NEW b, NEW tp, NEW tb, NEW r, NEW rec, NEW j \in StreamJob, RecOk(tp, r, j), AreCounts(tb), NEW p \in DOMAIN r.panes,
           NEW row, row = [user |-> p[1], win |-> p[2], n |-> r.panes[p], by |-> j],
           r.pc = "running", rec.pc = r.pc, rec.from = r.from, rec.pos = r.pos, rec.end = r.end, rec.top = r.top, rec.mark = r.mark,
           rec.held = r.held, rec.late = r.late, rec.seen = r.seen,
           rec.panes = Without(r.panes, {p}), rec.rows = Append(r.rows, row) \/ (~b.iceberg /\ rec.rows = r.rows)
    PROVE  /\ RecOk(tp, rec, j) /\ IsCount(row)
           /\ b.iceberg /\ Balance(b, tp, tb, r, j) => Balance(b, tp, tb, rec, j)
<1>1. p = <<p[1], p[2]>> /\ p[2] \in Nat /\ r.panes[p] \in Nat \ {0}
  BY DEF RecOk, WindowsOk, PanesOk, Tally
<1>2. IsCount(row) /\ row.by = j
  BY <1>1 DEF IsCount
<1>3. AreCounts(r.rows) /\ AreCounts(rec.rows)
  <2>1. AreCounts(r.rows) /\ AreCounts(Append(r.rows, row))
    BY <1>2, CountsAppend DEF RecOk, RowsOk
  <2> QED  BY <2>1
<1>4. \A i \in 1..Len(rec.rows) : rec.rows[i].by = j
  <2> CASE rec.rows = r.rows
    BY DEF RecOk, RowsOk
  <2> SUFFICES ASSUME rec.rows = Append(r.rows, row) PROVE \A i \in 1..Len(rec.rows) : rec.rows[i].by = j
    OBVIOUS
  <2>1. PICK S : S = Range(r.rows) \cup {row}
    OBVIOUS
  <2>2. r.rows \in Seq(S) /\ row \in S
    BY <1>3, <2>1 DEF AreCounts
  <2>3. PICK s \in Seq(S), n \in Nat : s = r.rows /\ n = Len(s) /\ \A i \in 1..n : s[i].by = j
    BY <2>2 DEF RecOk, RowsOk
  <2>4. Len(Append(s, row)) = n + 1 /\ Append(s, row)[n + 1] = row /\ \A i \in 1..n : Append(s, row)[i] = s[i]
    BY <2>2, <2>3
  <2>5. PICK t : t = Append(s, row)
    OBVIOUS
  <2>6. \A i \in 1..(n + 1) : t[i].by = j
    BY <1>2, <2>3, <2>4, <2>5
  <2> QED  BY <2>3, <2>4, <2>5, <2>6
<1>5. ReadOf(rec) = ReadOf(r) /\ HeldOf(rec) = HeldOf(r)
  BY DEF ReadOf, HeldOf
<1>6. PlaceOk(tp, rec) /\ TimeOk(tp, rec)
  BY <1>5 DEF RecOk, PlaceOk, TimeOk, Disordered
<1>7. PanesOk(rec.panes) /\ \A x : At(rec.panes, x) = IF x = p THEN 0 ELSE At(r.panes, x)
  BY TallyShrinks DEF RecOk, WindowsOk
<1>8. RecOk(tp, rec, j)
  BY <1>3, <1>4, <1>6, <1>7 DEF RecOk, WindowsOk, RowsOk
<1>9. ASSUME b.iceberg, Balance(b, tp, tb, r, j), NEW u, NEW w, u # None
      PROVE  Sum(Told(tb, j, u, w)) + Sum(Told(rec.rows, j, u, w)) + At(rec.panes, <<u, w>>) + At(rec.late, <<u, w>>)
               = Cardinality(Wanted(b, tp, rec, j, u, w))
  <2>1. PICK s \in Nat, t \in Nat : s = Sum(Told(tb, j, u, w)) /\ t = Sum(Told(r.rows, j, u, w))
    <3>1. Told(tb, j, u, w) \in Seq(Nat) /\ Told(r.rows, j, u, w) \in Seq(Nat)
      BY <1>3, ToldNumbers
    <3> QED  BY <3>1, SumNatural
  <2>2. PICK x \in Nat, l \in Nat, y \in Nat :
           x = At(r.panes, <<u, w>>) /\ l = At(r.late, <<u, w>>) /\ y = At(rec.panes, <<u, w>>)
    BY <1>7, TallyNatural DEF RecOk, WindowsOk
  <2>3. s + t + x + l = Cardinality(Wanted(b, tp, r, j, u, w))
    BY <1>9, <2>1, <2>2 DEF Balance
  <2>4. Wanted(b, tp, rec, j, u, w) = Wanted(b, tp, r, j, u, w)
    BY <1>5 DEF Wanted
  <2>5. Sum(Told(rec.rows, j, u, w)) = t + Says(row, j, u, w)
    <3>1. rec.rows = Append(r.rows, row)
      BY <1>9
    <3> QED  BY <1>2, <1>3, <2>1, <3>1, ToldAppend
  <2>6. x = y + Says(row, j, u, w) /\ Says(row, j, u, w) \in Nat
    <3>1. CASE <<u, w>> = p
      <4>1. p[1] = u /\ p[2] = w
        BY <3>1
      <4>2. Says(row, j, u, w) = r.panes[p] /\ At(r.panes, <<u, w>>) = r.panes[p]
        BY <3>1, <4>1 DEF Says, At
      <4>3. y = 0
        BY <1>7, <2>2, <3>1
      <4> QED  BY <1>1, <2>2, <4>2, <4>3
    <3>2. CASE <<u, w>> # p
      <4>1. ~(p[1] = u /\ p[2] = w)
        BY <1>1, <3>2
      <4>2. Says(row, j, u, w) = 0
        BY <1>9, <4>1 DEF Says
      <4>3. y = x
        BY <1>7, <2>2, <3>2
      <4> QED  BY <4>2, <4>3
    <3> QED  BY <3>1, <3>2
  <2>7. PICK k \in Nat : k = Says(row, j, u, w)
    BY <2>6
  <2> QED  BY <2>1, <2>2, <2>3, <2>4, <2>5, <2>6, <2>7
<1> QED  BY <1>2, <1>8, <1>9 DEF Balance

\* A checkpoint moves a job's rows to the table, where they are not another job's.
LEMMA CommittedAccount ==
    ASSUME NEW b, NEW tp, NEW tb, NEW r, NEW rec, NEW j, AreCounts(tb), AreCounts(r.rows), RecOk(tp, r, j),
           rec.from = r.from, rec.pos = r.pos, rec.held = r.held, rec.panes = r.panes, rec.late = r.late,
           rec.rows = <<>>, Balance(b, tp, tb, r, j)
    PROVE  Balance(b, tp, tb \o r.rows, rec, j)
<1> SUFFICES ASSUME NEW u, NEW w, u # None
             PROVE  Sum(Told(tb \o r.rows, j, u, w)) + Sum(Told(rec.rows, j, u, w))
                        + At(rec.panes, <<u, w>>) + At(rec.late, <<u, w>>)
                      = Cardinality(Wanted(b, tp, rec, j, u, w))
  BY DEF Balance
<1>1. PICK s \in Nat, t \in Nat : s = Sum(Told(tb, j, u, w)) /\ t = Sum(Told(r.rows, j, u, w))
  <2>1. Told(tb, j, u, w) \in Seq(Nat) /\ Told(r.rows, j, u, w) \in Seq(Nat)
    BY ToldNumbers
  <2> QED  BY <2>1, SumNatural
<1>2. Sum(Told(tb \o r.rows, j, u, w)) = s + t
  BY <1>1, ToldConcat
<1>3. Sum(Told(rec.rows, j, u, w)) = 0
  <2>1. Told(<<>>, j, u, w) = <<>>
    <3>1. PICK e : e = <<>> /\ Len(e) = 0
      OBVIOUS
    <3>2. Told(e, j, u, w) = <<>>
      BY <3>1 DEF Told
    <3> QED  BY <3>1, <3>2
  <2> QED  BY <2>1, SumOfNone
<1>4. PICK x \in Nat, l \in Nat : x = At(r.panes, <<u, w>>) /\ l = At(r.late, <<u, w>>)
  BY TallyNatural DEF RecOk, WindowsOk
<1>5. Wanted(b, tp, rec, j, u, w) = Wanted(b, tp, r, j, u, w)
  BY DEF Wanted, ReadOf, HeldOf
<1>6. s + t + x + l = Cardinality(Wanted(b, tp, r, j, u, w))
  BY <1>1, <1>4 DEF Balance
<1> QED  BY <1>1, <1>2, <1>3, <1>4, <1>5, <1>6

\* Another job's commit leaves a job's account as it is.
LEMMA OthersAccount ==
    ASSUME NEW b, NEW tp, NEW tb, NEW rows, NEW r, NEW j, NEW k, AreCounts(tb), RecOk(tp, r, k),
           AreCounts(rows), \A i \in 1..Len(rows) : rows[i].by = j, j # k, Balance(b, tp, tb, r, k)
    PROVE  Balance(b, tp, tb \o rows, r, k)
<1> SUFFICES ASSUME NEW u, NEW w
             PROVE  Sum(Told(tb \o rows, k, u, w)) = Sum(Told(tb, k, u, w))
  BY DEF Balance
<1>1. PICK s \in Nat : s = Sum(Told(tb, k, u, w))
  <2>1. Told(tb, k, u, w) \in Seq(Nat)
    BY ToldNumbers
  <2> QED  BY <2>1, SumNatural
<1>2. Sum(Told(rows, k, u, w)) = 0
  BY ToldByOthers
<1> QED  BY <1>1, <1>2, ToldConcat

\* A committed job is where it was.
LEMMA CommittedPlace ==
    ASSUME NEW tp, NEW r, NEW rec, NEW j, RecOk(tp, r, j), rec.rows = <<>>, rec.pc \in {"running", "done"},
           rec.from = r.from, rec.pos = r.pos, rec.end = r.end, rec.top = r.top, rec.mark = r.mark, rec.held = r.held,
           rec.panes = r.panes, rec.late = r.late, rec.seen = r.seen
    PROVE  RecOk(tp, rec, j)
<1>1. ReadOf(rec) = ReadOf(r) /\ HeldOf(rec) = HeldOf(r)
  BY DEF ReadOf, HeldOf
<1>2. PlaceOk(tp, rec) /\ TimeOk(tp, rec) /\ WindowsOk(rec)
  BY <1>1 DEF RecOk, PlaceOk, TimeOk, Disordered, WindowsOk
<1>3. RowsOk(rec, j)
  <2>1. Len(<<>>) = 0 /\ 1..0 = {}
    OBVIOUS
  <2> QED  BY <2>1, CountsOfNone DEF RowsOk
<1> QED  BY <1>2, <1>3 DEF RecOk

-----------------------------------------------------------------------------
(* What becomes of one message                                             *)

\* The feed says of every message with a row which user the jobs find in it.
FeedTells ==
    \A b \in JobSettings : \A m \in Range(b.feed) :
        m # None =>
          LET e == Handle(m, WithDefaults(b.aliases))
          IN e # None /\ (CarriesRow(m) => m.of = IF LacksUserId(e) THEN None ELSE e.after.user)

LEMMA HandledEvent ==
    ASSUME NEW m, NEW aliases
    PROVE  LET e == Copied(Handle(m, aliases))
           IN /\ e.op = m.op /\ e.ts = m.ts /\ e.changes = {}
              /\ e.after = Handle(m, aliases).after /\ LacksUserId(e) = LacksUserId(Handle(m, aliases))
<1>1. PICK a, c, v : Handle(m, aliases) = [op |-> m.op, ts |-> m.ts, after |-> a, changes |-> c, version |-> v]
  <2>1. PICK event : event = [op |-> m.op, ts |-> m.ts, after |-> None, changes |-> {}, version |-> "UNKNOWN"]
    OBVIOUS
  <2>2. PICK a, c, v : Handle(m, aliases) = IF m.after = None THEN event
                          ELSE [event EXCEPT !.after = a, !.changes = c, !.version = v]
    BY <2>1 DEF Handle
  <2>3. CASE m.after = None
    BY <2>1, <2>2, <2>3
  <2>4. CASE m.after # None
    <3>1. Handle(m, aliases) = [op |-> m.op, ts |-> m.ts, after |-> a, changes |-> c, version |-> v]
      BY <2>1, <2>2, <2>4
    <3> QED  BY <3>1
  <2> QED  BY <2>3, <2>4
<1>2. PICK h : h = Handle(m, aliases) /\ h = [op |-> m.op, ts |-> m.ts, after |-> a, changes |-> c, version |-> v]
  BY <1>1
<1>3. Copied(h).op = m.op /\ Copied(h).ts = m.ts /\ Copied(h).changes = {} /\ Copied(h).after = h.after
  <2>1. h \in [op : {m.op}, ts : {m.ts}, after : {a}, changes : {c}, version : {v}]
    BY <1>2
  <2> QED  BY <2>1 DEF Copied
<1> QED  BY <1>2, <1>3 DEF LacksUserId

\* An event that is copied has no change left: what is rejected has no user.
LEMMA RejectedEvent ==
    ASSUME NEW e, e.changes = {}, Classify(e) # None
    PROVE  CarriesRow(e) /\ LacksUserId(e) /\ Classify(e).raw = Identity
<1>1. {c \in e.changes : c.level = "BREAKING"} = {}
  OBVIOUS
<1>2. CarriesRow(e) /\ LacksUserId(e) /\ Classify(e) = DeadLetter(e, Change("DROP_COLUMN", "user_id", "BREAKING"))
  BY <1>1 DEF Classify
<1> QED  BY <1>2 DEF DeadLetter

\* What each of the four steps that read does to the job.
LEMMA ReadingSteps ==
    ASSUME JobShape, NEW j \in StreamJob, Skip(j) \/ Reject(j) \/ Quarantine(j) \/ Count(j)
    PROVE  /\ HasNext(topic, job[j])
           /\ \E rec : /\ job' = [job EXCEPT ![j] = rec] /\ JobFields(rec) /\ Took(job[j], rec)
                       /\ HeldOf(rec) = HeldOf(job[j]) \cup IF Quarantine(j) THEN {job[j].pos + 1} ELSE {}
                       /\ rec.top # job[j].top => Parsed(j) # None /\ rec.top = Event(j).ts /\ rec.top > job[j].top
                       /\ ~Count(j) => rec.panes = job[j].panes /\ rec.late = job[j].late /\ rec.seen = job[j].seen
                       /\ Count(j) =>
                            LET e == Event(j)
                                key == <<e.after.user, WindowOf(e.ts)>>
                                onTime == ~Passed(j, WindowOf(e.ts))
                                counted == AcceptedOp(j, e.op) /\ ~LacksUserId(e)
                            IN /\ Parsed(j) # None
                               /\ rec.panes = IF counted /\ onTime THEN Plus(job[j].panes, key, 1) ELSE job[j].panes
                               /\ rec.late = IF counted /\ ~onTime THEN Plus(job[j].late, key, 1) ELSE job[j].late
                               /\ rec.seen \in {job[j].seen, Plus(job[j].seen, key, 1)}
<1>0. PICK r : r = job[j]
  OBVIOUS
<1>1. JobFields(r) /\ HasNext(topic, r)
  BY <1>0 DEF JobShape, Skip, Reject, Quarantine, Count, Reading, Runs, Limit, HasNext
<1>2. \/ Skip(j) /\ ~Count(j) /\ ~Quarantine(j)
      \/ Reject(j) /\ ~Count(j) /\ ~Quarantine(j)
      \/ Quarantine(j) /\ ~Count(j)
      \/ Count(j) /\ ~Quarantine(j)
  BY DEF Skip, Reject, Quarantine, Count
<1>3. CASE Skip(j) /\ ~Count(j) /\ ~Quarantine(j)
  <2> DEFINE rec == [r EXCEPT !.pos = r.pos + 1]
  <2>1. job' = [job EXCEPT ![j] = rec]
    BY <1>0, <1>3 DEF Skip, Goes
  <2>2. /\ JobFields(rec) /\ Took(r, rec) /\ rec.held = r.held /\ rec.top = r.top
        /\ rec.panes = r.panes /\ rec.late = r.late /\ rec.seen = r.seen
    BY <1>1 DEF JobFields, Took, SameSnaps
  <2> QED  BY <1>0, <1>1, <1>3, <2>1, <2>2 DEF HeldOf
<1> DEFINE read(t) == [r EXCEPT !.pos = r.pos + 1, !.top = t]
<1>4. PICK t : /\ Read(j) = read(t) /\ t = IF Event(j).ts > r.top THEN Event(j).ts ELSE r.top
  BY <1>0 DEF Read
<1>5. PICK next : /\ next = Read(j) /\ JobFields(next) /\ Took(r, next) /\ next.held = r.held /\ next.top = t
                  /\ next.panes = r.panes /\ next.late = r.late /\ next.seen = r.seen
  <2>1. /\ JobFields(read(t)) /\ Took(r, read(t)) /\ read(t).held = r.held /\ read(t).top = t
        /\ read(t).panes = r.panes /\ read(t).late = r.late /\ read(t).seen = r.seen
    BY <1>1 DEF JobFields, Took, SameSnaps
  <2> QED  BY <1>4, <2>1
<1>6. next.top # r.top => next.top = Event(j).ts /\ next.top > r.top
  BY <1>4, <1>5
<1>7. CASE Reject(j) /\ ~Count(j) /\ ~Quarantine(j)
  <2>1. job' = [job EXCEPT ![j] = next] /\ Parsed(j) # None
    BY <1>5, <1>7 DEF Reject, Goes
  <2> QED  BY <1>0, <1>1, <1>5, <1>6, <1>7, <2>1 DEF HeldOf
<1>8. CASE Quarantine(j) /\ ~Count(j)
  <2> DEFINE rec(h) == [next EXCEPT !.held = h]
  <2>1. PICK x : /\ x.at = r.pos + 1 /\ job' = [job EXCEPT ![j] = rec(next.held \cup {x})]
                 /\ Parsed(j) # None
    <3>1. PICK x : x = [at |-> job[j].pos + 1, raw |-> ToJson(Event(j)), type |-> Violation(j)]
      OBVIOUS
    <3>2. job' = [job EXCEPT ![j] = [next EXCEPT !.held = @ \cup {x}]] /\ Parsed(j) # None
      BY <1>5, <1>8, <3>1 DEF Quarantine, Goes
    <3>3. x.at = r.pos + 1
      BY <1>0, <3>1
    <3> QED  BY <3>2, <3>3
  <2>2. PICK h : h = next.held \cup {x}
    OBVIOUS
  <2>3. /\ JobFields(rec(h)) /\ Took(r, rec(h)) /\ rec(h).held = h /\ rec(h).top = next.top
        /\ rec(h).panes = r.panes /\ rec(h).late = r.late /\ rec(h).seen = r.seen
    BY <1>5 DEF JobFields, Took, SameSnaps
  <2>4. HeldOf(rec(h)) = HeldOf(r) \cup {r.pos + 1}
    BY <1>5, <2>1, <2>2, <2>3 DEF HeldOf
  <2> QED  BY <1>0, <1>1, <1>6, <1>8, <2>1, <2>2, <2>3, <2>4
<1>9. CASE Count(j) /\ ~Quarantine(j)
  <2> DEFINE rec(p, l, s) == [next EXCEPT !.panes = p, !.late = l, !.seen = s]
             e == Event(j)
             key == <<e.after.user, WindowOf(e.ts)>>
             onTime == ~Passed(j, WindowOf(e.ts))
             counted == AcceptedOp(j, e.op) /\ ~LacksUserId(e)
  <2>1. PICK p, l, s : /\ job' = [job EXCEPT ![j] = rec(p, l, s)] /\ Parsed(j) # None
                       /\ p = IF counted /\ onTime THEN Plus(next.panes, key, 1) ELSE next.panes
                       /\ l = IF counted /\ ~onTime THEN Plus(next.late, key, 1) ELSE next.late
                       /\ s \in {next.seen, Plus(next.seen, key, 1)}
    BY <1>5, <1>9 DEF Count, Goes
  <2>2. /\ JobFields(rec(p, l, s)) /\ Took(r, rec(p, l, s)) /\ rec(p, l, s).held = r.held
        /\ rec(p, l, s).top = next.top
        /\ rec(p, l, s).panes = p /\ rec(p, l, s).late = l /\ rec(p, l, s).seen = s
    BY <1>5 DEF JobFields, Took, SameSnaps
  <2>3. PICK rc : rc = rec(p, l, s)
    OBVIOUS
  <2>4. HeldOf(rc) = HeldOf(r)
    BY <2>2, <2>3 DEF HeldOf
  <2> HIDE DEF rec
  <2> QED  BY <1>0, <1>1, <1>5, <1>6, <1>9, <2>1, <2>2, <2>3, <2>4
<1> QED  BY <1>2, <1>3, <1>7, <1>8, <1>9

\* A message that is read is counted, held back or not wanted.
LEMMA ReadingKeeps ==
    ASSUME JobShape, NEW j \in StreamJob, Skip(j) \/ Reject(j) \/ Quarantine(j) \/ Count(j),
           TopicOk(bus, topic), RecOk(topic, job[j], j), AreCounts(table)
    PROVE  \E rec : /\ job' = [job EXCEPT ![j] = rec] /\ RecOk(topic, rec, j) /\ rec.pos = job[j].pos + 1
                    /\ rec.pc = job[j].pc
                    /\ FeedTells /\ Balance(bus, topic, table, job[j], j) => Balance(bus, topic, table, rec, j)
<1>1. PICK r : r = job[j] /\ RecOk(topic, r, j) /\ HasNext(topic, r)
  BY ReadingSteps
<1>2. PICK rec : /\ job' = [job EXCEPT ![j] = rec] /\ JobFields(rec) /\ Took(r, rec)
                 /\ HeldOf(rec) = HeldOf(r) \cup IF Quarantine(j) THEN {r.pos + 1} ELSE {}
                 /\ rec.top # r.top => Parsed(j) # None /\ rec.top = Event(j).ts /\ rec.top > r.top
                 /\ ~Count(j) => rec.panes = r.panes /\ rec.late = r.late /\ rec.seen = r.seen
                 /\ Count(j) =>
                      LET e == Event(j)
                          key == <<e.after.user, WindowOf(e.ts)>>
                          onTime == ~Passed(j, WindowOf(e.ts))
                          counted == AcceptedOp(j, e.op) /\ ~LacksUserId(e)
                      IN /\ Parsed(j) # None
                         /\ rec.panes = IF counted /\ onTime THEN Plus(r.panes, key, 1) ELSE r.panes
                         /\ rec.late = IF counted /\ ~onTime THEN Plus(r.late, key, 1) ELSE r.late
                         /\ rec.seen \in {r.seen, Plus(r.seen, key, 1)}
  BY <1>1, ReadingSteps
<1>3. PlaceOk(topic, r) /\ TimeOk(topic, r) /\ WindowsOk(r) /\ RowsOk(r, j)
  BY <1>1 DEF RecOk
<1>4. PICK n, m : n = r.pos + 1 /\ m = topic[n]
  OBVIOUS
<1>5. HeldOf(rec) = HeldOf(r) \/ HeldOf(rec) = HeldOf(r) \cup {n}
  BY <1>2, <1>4
<1>6. PlaceOk(topic, rec) /\ n \in 1..Len(topic)
  <2>1. HeldOf(rec) = HeldOf(r) \/ HeldOf(rec) = HeldOf(r) \cup {r.pos + 1}
    BY <1>4, <1>5
  <2>2. PICK b, tp : b = bus /\ tp = topic
    OBVIOUS
  <2>3. TopicOk(b, tp) /\ HasNext(tp, r) /\ PlaceOk(tp, r)
    BY <1>1, <1>3, <2>2
  <2> QED  BY <1>2, <1>4, <2>1, <2>2, <2>3, ReadingPlace
<1>7. m # None => m.ts \in Nat /\ WindowOf(m.ts) \in Nat
  BY <1>4, <1>6, MessageTimes
<1>8. Parsed(j) = IF m = None THEN None ELSE Handle(m, WithDefaults(bus.aliases))
  BY <1>1, <1>4 DEF Parsed, Deserialize
<1>9. PICK e : e = Event(j)
  OBVIOUS
<1>10. Parsed(j) # None =>
         /\ m # None /\ e.op = m.op /\ e.ts = m.ts /\ e.changes = {}
         /\ e.after = Handle(m, WithDefaults(bus.aliases)).after
         /\ LacksUserId(e) = LacksUserId(Handle(m, WithDefaults(bus.aliases)))
  BY <1>8, <1>9, HandledEvent DEF Event
<1>11. PICK u, w : u = e.after.user /\ w = WindowOf(e.ts)
  OBVIOUS
<1>12. Count(j) =>
         /\ Parsed(j) # None /\ w \in Nat /\ w = WindowOf(m.ts)
         /\ rec.panes = IF AcceptedOp(j, m.op) /\ ~LacksUserId(e) /\ ~Passed(j, w) THEN Plus(r.panes, <<u, w>>, 1) ELSE r.panes
         /\ rec.late = IF AcceptedOp(j, m.op) /\ ~LacksUserId(e) /\ Passed(j, w) THEN Plus(r.late, <<u, w>>, 1) ELSE r.late
         /\ rec.seen \in {r.seen, Plus(r.seen, <<u, w>>, 1)}
  BY <1>2, <1>7, <1>9, <1>10, <1>11
<1>13. WindowsOk(rec)
  <2>1. CASE ~Count(j)
    BY <1>2, <1>3, <2>1 DEF WindowsOk
  <2>2. CASE Count(j)
    <3>1. PICK W \in Nat : W = w
      BY <1>12, <2>2
    <3>2. \A f : PanesOk(f) => PanesOk(Plus(f, <<u, W>>, 1))
      BY TallyGrows
    <3> QED  BY <1>3, <1>12, <2>2, <3>1, <3>2 DEF WindowsOk
  <2> QED  BY <2>1, <2>2
<1>14. TimeOk(topic, rec)
  <2>1. rec.top # r.top => NextMessage(topic, r) # None /\ rec.top = NextMessage(topic, r).ts /\ rec.top > r.top
    BY <1>2, <1>4, <1>9, <1>10 DEF NextMessage
  <2>2. ASSUME rec.late # r.late PROVE NextMessage(topic, r) # None /\ EndOf(WindowOf(NextMessage(topic, r).ts)) - 1 <= r.mark
    <3>1. Count(j)
      BY <1>2, <2>2
    <3>2. Passed(j, w)
      BY <1>12, <2>2, <3>1
    <3> QED  BY <1>1, <1>4, <1>10, <1>12, <3>1, <3>2 DEF Passed, NextMessage
  <2>3. PICK b, tp : b = bus /\ tp = topic
    OBVIOUS
  <2>4. TopicOk(b, tp) /\ HasNext(tp, r) /\ PlaceOk(tp, r) /\ TimeOk(tp, r)
    BY <1>1, <1>3, <2>3
  <2>5. HeldOf(rec) = HeldOf(r) \/ HeldOf(rec) = HeldOf(r) \cup {r.pos + 1}
    BY <1>4, <1>5
  <2> QED  BY <1>2, <2>1, <2>2, <2>3, <2>4, <2>5, ReadingTime
<1>15. RecOk(topic, rec, j)
  BY <1>2, <1>3, <1>6, <1>13, <1>14 DEF RecOk, RowsOk, Took
<1>16. ASSUME FeedTells, Balance(bus, topic, table, r, j) PROVE Balance(bus, topic, table, rec, j)
  <2>1. m # None =>
          /\ Handle(m, WithDefaults(bus.aliases)) # None
          /\ CarriesRow(m) => m.of = IF LacksUserId(e) THEN None ELSE u
    <3>1. m \in Range(bus.feed) /\ bus \in JobSettings
      BY <1>4, <1>6 DEF TopicOk
    <3>2. m # None =>
          /\ Handle(m, WithDefaults(bus.aliases)) # None
          /\ CarriesRow(m) => m.of = IF LacksUserId(Handle(m, WithDefaults(bus.aliases))) THEN None
                                     ELSE Handle(m, WithDefaults(bus.aliases)).after.user
      BY <1>16, <3>1 DEF FeedTells
    <3> QED  BY <1>8, <1>10, <1>11, <3>2
  <2>2. Parsed(j) = None <=> m = None
    BY <1>8, <2>1
  <2>3. \A op : Takes(bus, j, op) = AcceptedOp(j, op)
    BY DEF Takes, AcceptedOp
  <2>4. n \notin HeldOf(r)
    BY <1>3, <1>4 DEF PlaceOk, ReadOf
  <2>5. ASSUME NEW v, NEW x, v # None
        PROVE  At(rec.panes, <<v, x>>) + At(rec.late, <<v, x>>)
                 = At(r.panes, <<v, x>>) + At(r.late, <<v, x>>)
                     + IF n \notin HeldOf(rec) /\ Adds(bus, m, j, v, x) THEN 1 ELSE 0
    <3>1. PICK p \in Nat, l \in Nat : p = At(r.panes, <<v, x>>) /\ l = At(r.late, <<v, x>>)
      BY <1>3, TallyNatural DEF WindowsOk
    <3>2. CASE ~Count(j)
      <4>1. ~(n \notin HeldOf(rec) /\ Adds(bus, m, j, v, x))
        <5>1. CASE Skip(j)
          <6>1. m = None
            BY <2>2, <5>1 DEF Skip
          <6> QED  BY <6>1 DEF Adds
        <5>2. CASE Reject(j)
          <6>1. Parsed(j) # None /\ Classify(e) # None
            BY <1>9, <5>2 DEF Reject
          <6>2. CarriesRow(e) /\ LacksUserId(e)
            BY <1>10, <6>1, RejectedEvent
          <6>3. m.of = None
            BY <1>10, <2>1, <6>1, <6>2 DEF CarriesRow
          <6> QED  BY <2>5, <6>3 DEF Adds
        <5>3. CASE Quarantine(j)
          BY <1>2, <1>4, <5>3
        <5> QED  BY <3>2, <5>1, <5>2, <5>3
      <4> QED  BY <1>2, <3>1, <3>2, <4>1
    <3>3. CASE Count(j)
      <4>1. n \notin HeldOf(rec) /\ m # None
        <5>1. ~Quarantine(j) \/ HeldOf(rec) = HeldOf(r) \cup {n}
          BY <1>2, <1>4
        <5>2. ~Quarantine(j)
          BY <3>3 DEF Count, Quarantine
        <5> QED  BY <1>2, <1>10, <1>12, <2>4, <3>3, <5>2
      <4>2. Adds(bus, m, j, v, x) <=> AcceptedOp(j, m.op) /\ ~LacksUserId(e) /\ v = u /\ x = w
        <5>1. AcceptedOp(j, m.op) => CarriesRow(m)
          BY DEF AcceptedOp, CarriesRow
        <5> QED  BY <1>12, <2>1, <2>3, <2>5, <3>3, <4>1, <5>1 DEF Adds
      <4>3. PICK W \in Nat : W = w
        BY <1>12, <3>3
      <4>4. <<v, x>> = <<u, w>> <=> v = u /\ x = w
        OBVIOUS
      <4>5. \A f : PanesOk(f) => At(Plus(f, <<u, W>>, 1), <<v, x>>) = At(f, <<v, x>>) + IF <<v, x>> = <<u, W>> THEN 1 ELSE 0
        BY TallyGrows
      <4>6. CASE AcceptedOp(j, m.op) /\ ~LacksUserId(e)
        <5>1. CASE Passed(j, w)
          <6>1. rec.panes = r.panes /\ rec.late = Plus(r.late, <<u, W>>, 1)
            BY <1>12, <3>3, <4>3, <4>6, <5>1
          <6>2. At(rec.late, <<v, x>>) = l + IF v = u /\ x = w THEN 1 ELSE 0
            BY <1>3, <3>1, <4>3, <4>4, <4>5, <6>1 DEF WindowsOk
          <6> QED  BY <3>1, <4>1, <4>2, <4>6, <6>1, <6>2
        <5>2. CASE ~Passed(j, w)
          <6>1. rec.late = r.late /\ rec.panes = Plus(r.panes, <<u, W>>, 1)
            BY <1>12, <3>3, <4>3, <4>6, <5>2
          <6>2. At(rec.panes, <<v, x>>) = p + IF v = u /\ x = w THEN 1 ELSE 0
            BY <1>3, <3>1, <4>3, <4>4, <4>5, <6>1 DEF WindowsOk
          <6> QED  BY <3>1, <4>1, <4>2, <4>6, <6>1, <6>2
        <5> QED  BY <5>1, <5>2
      <4>7. CASE ~(AcceptedOp(j, m.op) /\ ~LacksUserId(e))
        <5>1. rec.panes = r.panes /\ rec.late = r.late
          BY <1>12, <3>3, <4>7
        <5> QED  BY <3>1, <4>2, <4>7, <5>1
      <4> QED  BY <4>6, <4>7
    <3> QED  BY <3>2, <3>3
  <2>6. PICK b, tp, tb : b = bus /\ tp = topic /\ tb = table
    OBVIOUS
  <2>7. /\ TopicOk(b, tp) /\ PlaceOk(tp, r) /\ HasNext(tp, r) /\ AreCounts(tb) /\ AreCounts(r.rows)
        /\ Balance(b, tp, tb, r, j)
    BY <1>1, <1>3, <1>16, <2>6 DEF RowsOk
  <2>8. HeldOf(rec) = HeldOf(r) \/ HeldOf(rec) = HeldOf(r) \cup {r.pos + 1}
    BY <1>4, <1>5
  <2>9. \A v, x : v # None =>
              At(rec.panes, <<v, x>>) + At(rec.late, <<v, x>>)
                 = At(r.panes, <<v, x>>) + At(r.late, <<v, x>>)
                     + IF r.pos + 1 \notin HeldOf(rec) /\ Adds(b, NextMessage(tp, r), j, v, x) THEN 1 ELSE 0
    BY <1>4, <2>5, <2>6 DEF NextMessage
  <2>10. Balance(b, tp, tb, rec, j)
    BY <1>2, <1>3, <1>13, <2>7, <2>8, <2>9, ReadingBalance
  <2> QED  BY <2>6, <2>10
<1> QED  BY <1>1, <1>2, <1>15, <1>16 DEF Took

\* Watermarks, the drift monitor and its snapshots, and crashes move no count.
LEMMA WaitingKeeps ==
    ASSUME JobShape, NEW j \in StreamJob, \/ Advance(j) \/ EndOfInput(j) \/ Monitor(j) \/ Flush(j) \/ Crash(j),
           TopicOk(bus, topic), RecOk(topic, job[j], j)
    PROVE  \E rec : /\ job' = [job EXCEPT ![j] = rec] /\ RecOk(topic, rec, j) /\ SameAccount(job[j], rec)
                    /\ rec.pc \in {"running", "down"} /\ job[j].pc = "running"
                    /\ SameSnaps(job[j], rec) \/ (Flush(j) /\ Emits(job[j], rec))
                    /\ job[j].mark <= rec.mark /\ (rec.pc = "down" => fails' = fails + 1)
<1>1. PICK r : r = job[j] /\ RecOk(topic, r, j) /\ JobFields(r) /\ r.pc = "running"
  BY DEF JobShape, Advance, EndOfInput, Monitor, Flush, Crash, Runs
<1>2. PlaceOk(topic, r) /\ TimeOk(topic, r) /\ WindowsOk(r)
  BY <1>1 DEF RecOk
<1>0. r.mark \in Int /\ r.mark <= r.mark
  BY <1>2 DEF TimeOk
<1> DEFINE Alike(s) == /\ s.from = r.from /\ s.pos = r.pos /\ s.end = r.end /\ s.held = r.held
                       /\ s.panes = r.panes /\ s.late = r.late /\ s.rows = r.rows
<1>3. ASSUME NEW s, Alike(s), s.pc \in {"running", "down"}, PanesOk(s.seen), s.top = r.top,
             s.mark = r.mark \/ (s.mark \in Int /\ (s.mark <= MarkOf(r.top) \/ (r.end # None /\ r.pos = r.end)))
      PROVE  RecOk(topic, s, j) /\ SameAccount(r, s)
  <2>1. SameAccount(r, s)
    BY <1>3 DEF SameAccount
  <2>2. s.mark \in Int /\ (s.mark <= MarkOf(s.top) \/ (r.end # None /\ r.pos = r.end))
    BY <1>2, <1>3 DEF TimeOk
  <2>3. PICK tp : tp = topic
    OBVIOUS
  <2> QED  BY <1>1, <1>3, <2>1, <2>2, <2>3, SamePlace
<1>4. PanesOk(r.seen) /\ \A keys : PanesOk(Without(r.seen, keys))
  BY <1>2, TallyShrinks DEF WindowsOk
<1>5. CASE Advance(j) \/ EndOfInput(j)
  <2> DEFINE rec(m) == [r EXCEPT !.mark = m]
  <2>1. PICK m : /\ job' = [job EXCEPT ![j] = rec(m)] /\ r.mark <= m
                 /\ m \in Int /\ (m <= MarkOf(r.top) \/ (r.end # None /\ r.pos = r.end))
    <3>1. CASE Advance(j)
      <4>1. job' = [job EXCEPT ![j] = rec(MarkOf(r.top))]
        BY <1>1, <3>1 DEF Advance, Goes
      <4>2. PICK top \in Int : top = r.top
        BY <1>2, TopNumber
      <4>3. MarkOf(top) \in Int
        BY StreamAssumption DEF MarkOf
      <4>4. PICK m \in Int : m = MarkOf(r.top)
        BY <4>2, <4>3
      <4>5. job' = [job EXCEPT ![j] = rec(m)] /\ m <= MarkOf(r.top)
        BY <4>1, <4>4
      <4>6. r.mark < m
        BY <1>1, <3>1, <4>4 DEF Advance
      <4>7. r.mark <= m
        BY <1>0, <4>4, <4>6
      <4> QED  BY <4>5, <4>7
    <3>2. CASE EndOfInput(j)
      <4>1. job' = [job EXCEPT ![j] = rec(EndOf(Horizon))] /\ r.pos = r.end
        BY <1>1, <3>2 DEF EndOfInput, Goes
      <4>2. EndOf(Horizon) \in Int
        BY StreamAssumption DEF EndOf
      <4>3. r.end # None
        BY <1>2, <4>1, StreamAssumption DEF PlaceOk
      <4>4. PICK e \in Int : e = EndOf(Horizon)
        BY <4>2
      <4>5. r.mark < e
        BY <1>1, <3>2, <4>4 DEF EndOfInput
      <4>6. r.mark <= e
        BY <1>0, <4>5
      <4> QED  BY <4>1, <4>2, <4>3, <4>4, <4>6
    <3> QED  BY <1>5, <3>1, <3>2
  <2>2. /\ Alike(rec(m)) /\ rec(m).pc = r.pc /\ rec(m).seen = r.seen /\ rec(m).top = r.top /\ rec(m).mark = m
        /\ SameSnaps(r, rec(m))
    BY <1>1 DEF JobFields, SameSnaps
  <2>3. PICK s : s = rec(m)
    OBVIOUS
  <2> HIDE DEF rec
  <2> QED  BY <1>0, <1>1, <1>3, <1>4, <2>1, <2>2, <2>3
<1>6. CASE Crash(j)
  <2> DEFINE rec == [r EXCEPT !.pc = "down"]
  <2>1. job' = [job EXCEPT ![j] = rec] /\ fails' = fails + 1
    BY <1>1, <1>6 DEF Crash, Goes
  <2>2. /\ Alike(rec) /\ rec.pc = "down" /\ rec.seen = r.seen /\ rec.top = r.top /\ rec.mark = r.mark
        /\ SameSnaps(r, rec)
    BY <1>1 DEF JobFields, SameSnaps
  <2>3. PICK s : s = rec
    OBVIOUS
  <2> HIDE DEF rec
  <2> QED  BY <1>0, <1>1, <1>3, <1>4, <2>1, <2>2, <2>3
<1>7. CASE Flush(j)
  <2> DEFINE rec(m, u, f) == [r EXCEPT !.timers = m, !.users = u, !.flushed = f]
  <2>0. PICK w : Goes(j, [job[j] EXCEPT !.timers = @ \ {w}, !.users = Without(@, {q \in DOMAIN @ : q[2] = w}),
                                        !.flushed = Plus(@, w, SumOf(InWindow(job[j].users, w)))])
    BY <1>7 DEF Flush
  <2>5. PICK m, u, f : /\ m = r.timers \ {w} /\ u = Without(r.users, {q \in DOMAIN r.users : q[2] = w})
                       /\ f = Plus(r.flushed, w, SumOf(InWindow(r.users, w)))
    OBVIOUS
  <2>1. job' = [job EXCEPT ![j] = rec(m, u, f)]
    BY <1>1, <2>0, <2>5 DEF Goes
  <2>2. /\ Alike(rec(m, u, f)) /\ rec(m, u, f).users = u /\ rec(m, u, f).flushed = f /\ rec(m, u, f).pc = r.pc /\ rec(m, u, f).seen = r.seen
        /\ rec(m, u, f).top = r.top /\ rec(m, u, f).mark = r.mark
    BY <1>1 DEF JobFields
  <2>3. PICK s : s = rec(m, u, f)
    OBVIOUS
  <2> HIDE DEF rec
  <2>4. Emits(r, s)
    BY <2>2, <2>3, <2>5 DEF Emits
  <2> QED  BY <1>7, <1>0, <1>1, <1>3, <1>4, <2>1, <2>2, <2>3, <2>4
<1>8. CASE Monitor(j)
  <2>1. PICK w : LET perUser == InWindow(r.seen, w)
                     total == SumOf(perUser)
                     alert == [at |-> Len(r.totals) + 1, prev |-> r.prev,
                               delta |-> Exceeds(total, r.prev), skew |-> Skewed(perUser, total)]
                     quiet == [r EXCEPT !.seen = Without(@, {q \in DOMAIN @ : q[2] = w}),
                                        !.totals = Append(@, total), !.prev = total]
                 IN Goes(j, IF total >= MinCount /\ (alert.delta \/ alert.skew)
                            THEN [quiet EXCEPT !.alerts = @ \cup {alert}] ELSE quiet)
    BY <1>1, <1>8 DEF Monitor
  <2>2. PICK total, alert, bad :
           /\ total = SumOf(InWindow(r.seen, w))
           /\ alert = [at |-> Len(r.totals) + 1, prev |-> r.prev, delta |-> Exceeds(total, r.prev),
                       skew |-> Skewed(InWindow(r.seen, w), total)]
           /\ bad = (total >= MinCount /\ (alert.delta \/ alert.skew))
    OBVIOUS
  <2>3. PICK seen, totals : seen = Without(r.seen, {q \in DOMAIN r.seen : q[2] = w}) /\ totals = Append(r.totals, total)
    OBVIOUS
  <2>4. PICK quiet : quiet = [r EXCEPT !.seen = seen, !.totals = totals, !.prev = total]
    OBVIOUS
  <2>5. job' = [job EXCEPT ![j] = IF bad THEN [quiet EXCEPT !.alerts = quiet.alerts \cup {alert}] ELSE quiet]
    BY <2>1, <2>2, <2>3, <2>4 DEF Goes
  <2>6. /\ JobFields(quiet) /\ Alike(quiet) /\ quiet.pc = r.pc /\ quiet.seen = seen
        /\ quiet.top = r.top /\ quiet.mark = r.mark /\ SameSnaps(r, quiet)
    BY <1>1, <2>4 DEF JobFields, SameSnaps
  <2>7. PanesOk(seen)
    BY <1>4, <2>3
  <2>8. CASE bad
    <3>1. PICK a : a = quiet.alerts \cup {alert}
      OBVIOUS
    <3>2. PICK rec : rec = [quiet EXCEPT !.alerts = a]
      OBVIOUS
    <3>3. /\ Alike(rec) /\ rec.pc = r.pc /\ rec.seen = seen /\ rec.top = r.top /\ rec.mark = r.mark
          /\ SameSnaps(r, rec)
      BY <2>6, <3>2 DEF JobFields, SameSnaps
    <3>4. job' = [job EXCEPT ![j] = rec]
      BY <2>5, <2>8, <3>1, <3>2
    <3> QED  BY <1>0, <1>1, <1>3, <2>7, <3>3, <3>4
  <2>9. CASE ~bad
    <3>1. job' = [job EXCEPT ![j] = quiet]
      BY <2>5, <2>9
    <3> QED  BY <1>0, <1>1, <1>3, <2>6, <2>7, <3>1
  <2> QED  BY <2>8, <2>9
<1> QED  BY <1>5, <1>6, <1>7, <1>8

\* A restart goes back to the account of the checkpoint.
LEMMA RestartKeeps ==
    ASSUME JobShape, NEW j \in StreamJob, Restart(j), RecOk(topic, saved[j], j)
    PROVE  \E rec : /\ job' = [job EXCEPT ![j] = rec] /\ RecOk(topic, rec, j) /\ SameAccount(saved[j], rec)
                    /\ SameSnaps(saved[j], rec)
<1>1. PICK r, tp : r = saved[j] /\ tp = topic /\ JobFields(r) /\ RecOk(tp, r, j)
  BY DEF JobShape
<1>2. PICK m \in Int : m = MarkOf(NoTime)
  BY StreamAssumption DEF MarkOf, NoTime
<1>3. PICK rec : rec = [r EXCEPT !.top = NoTime, !.mark = m]
  OBVIOUS
<1>4. job' = [job EXCEPT ![j] = rec]
  BY <1>1, <1>2, <1>3 DEF Restart, Goes
<1>5. /\ SameAccount(r, rec) /\ rec.pc = r.pc /\ rec.end = r.end /\ rec.seen = r.seen
      /\ rec.top = NoTime /\ rec.mark = m /\ SameSnaps(r, rec)
  BY <1>1, <1>3 DEF JobFields, SameAccount, SameSnaps
<1>6. /\ PanesOk(rec.seen) /\ rec.pc \in {"off", "creating", "failed", "running", "down", "done"}
      /\ rec.mark \in Int /\ rec.mark <= MarkOf(rec.top)
  BY <1>1, <1>2, <1>5 DEF RecOk, WindowsOk, PlaceOk
<1>7. RecOk(tp, rec, j)
  BY <1>1, <1>5, <1>6, SamePlace
<1> QED  BY <1>1, <1>4, <1>5, <1>7

\* Where a job begins and ends is in the topic.
LEMMA RangeOfTopic ==
    ASSUME NEW j \in StreamJob, TopicOk(bus, topic), ~Refused(j)
    PROVE  /\ Offsets(j).from \in Nat /\ Offsets(j).from <= Len(topic)
           /\ Offsets(j).end = None \/ (Offsets(j).end \in Int /\ Offsets(j).end <= Len(topic))
<1>1. PICK n \in Nat : n = Len(topic)
  BY DEF TopicOk
<1>2. bus.from \in Nat /\ bus.to \in Nat /\ bus.mode \in {"kafka_range", "cdc_snapshot"}
  BY StreamAssumption DEF TopicOk, JobCircumstances
<1>3. \A t \in Nat : Before(t) \in Int /\ Before(t) <= n /\ (t # 0 => Before(t) \in Nat)
  BY <1>1 DEF Before
<1>4. CASE j = "live"
  <2>1. Offsets(j).from = 0 /\ Offsets(j).end = None
    BY <1>4 DEF Offsets
  <2> QED  BY <1>1, <2>1
<1>5. CASE j = "backfill" /\ bus.mode = "cdc_snapshot"
  <2>1. Offsets(j).from = 0 /\ Offsets(j).end = n
    BY <1>1, <1>5 DEF Offsets
  <2> QED  BY <1>1, <2>1
<1>6. CASE j = "backfill" /\ bus.mode # "cdc_snapshot"
  <2>1. Offsets(j).from = Before(bus.from) /\ Offsets(j).end = Before(bus.to)
    BY <1>6 DEF Offsets
  <2>2. bus.from # 0
    BY <1>2, <1>6 DEF Refused
  <2> QED  BY <1>1, <1>2, <1>3, <2>1, <2>2
<1> QED  BY <1>4, <1>5, <1>6 DEF StreamJob

\* A submitted job begins with nothing read.
LEMMA SubmissionKeeps ==
    ASSUME JobShape, NEW j \in StreamJob, Submit(j) \/ CreateTable(j), TopicOk(bus, topic), RecOk(topic, job[j], j)
    PROVE  \E rec : /\ job' = [job EXCEPT ![j] = rec] /\ saved' = [saved EXCEPT ![j] = rec]
                    /\ RecOk(topic, rec, j) /\ rec.rows = <<>> /\ rec.pc \notin {"done", "down"}
                    /\ job[j].rows = <<>> /\ rec.panes = job[j].panes /\ rec.mark = job[j].mark /\ SameSnaps(job[j], rec)
                    /\ Balance(bus, topic, table, job[j], j) => Balance(bus, topic, table, rec, j)
<1>1. PICK r : r = job[j] /\ JobFields(r) /\ RecOk(topic, r, j) /\ job = [k \in StreamJob |-> job[k]]
  BY DEF JobShape
<1>2. PICK b, tp, tb : b = bus /\ tp = topic /\ tb = table
  OBVIOUS
<1>3. r.pc \in {"off", "creating"} /\ r.rows = <<>>
  BY <1>1 DEF Submit, CreateTable, RecOk, RowsOk
<1>4. CASE Submit(j) /\ Refused(j)
  <2>1. PICK rec : rec = [r EXCEPT !.pc = "failed"]
    OBVIOUS
  <2>2. job' = [job EXCEPT ![j] = rec]
    BY <1>1, <1>4, <2>1 DEF Submit, Goes
  <2>3. saved' = [saved EXCEPT ![j] = rec]
    BY <1>1, <1>4, <2>2 DEF Submit
  <2>4. /\ SameAccount(r, rec) /\ rec.pc = "failed" /\ rec.end = r.end /\ rec.seen = r.seen
        /\ rec.top = r.top /\ rec.mark = r.mark /\ SameSnaps(r, rec)
    BY <1>1, <2>1 DEF JobFields, SameAccount, SameSnaps
  <2>5. PanesOk(rec.seen) /\ rec.mark \in Int /\ (rec.mark <= MarkOf(rec.top) \/ (r.end # None /\ r.pos = r.end))
    BY <1>1, <2>4 DEF RecOk, WindowsOk, TimeOk
  <2>6. RecOk(tp, rec, j)
    BY <1>1, <1>2, <2>4, <2>5, SamePlace
  <2>7. Balance(b, tp, tb, r, j) => Balance(b, tp, tb, rec, j)
    BY <2>4, SameBalance
  <2> QED  BY <1>1, <1>2, <1>3, <2>2, <2>3, <2>4, <2>6, <2>7 DEF SameAccount
<1>5. CASE CreateTable(j)
  <2>1. PICK pc \in {"failed", "running"} : Goes(j, [job[j] EXCEPT !.pc = pc]) /\ saved' = [saved EXCEPT ![j] = job'[j]]
    BY <1>5 DEF CreateTable
  <2>2. PICK rec : rec = [r EXCEPT !.pc = pc]
    OBVIOUS
  <2>3. job' = [job EXCEPT ![j] = rec]
    BY <1>1, <2>1, <2>2 DEF Goes
  <2>4. saved' = [saved EXCEPT ![j] = rec]
    BY <1>1, <2>1, <2>3
  <2>5. /\ SameAccount(r, rec) /\ rec.pc = pc /\ rec.end = r.end /\ rec.seen = r.seen
        /\ rec.top = r.top /\ rec.mark = r.mark /\ SameSnaps(r, rec)
    BY <1>1, <2>2 DEF JobFields, SameAccount, SameSnaps
  <2>6. PanesOk(rec.seen) /\ rec.mark \in Int /\ (rec.mark <= MarkOf(rec.top) \/ (r.end # None /\ r.pos = r.end))
    BY <1>1, <2>5 DEF RecOk, WindowsOk, TimeOk
  <2>7. rec.pc \in {"off", "creating", "failed", "running", "down", "done"} /\ rec.pc \notin {"off", "creating", "done", "down"}
    BY <2>5
  <2>8. RecOk(tp, rec, j)
    BY <1>1, <1>2, <2>5, <2>6, <2>7, SamePlace
  <2>9. Balance(b, tp, tb, r, j) => Balance(b, tp, tb, rec, j)
    BY <2>5, SameBalance
  <2> QED  BY <1>1, <1>2, <1>3, <2>3, <2>4, <2>5, <2>7, <2>8, <2>9 DEF SameAccount
<1>6. CASE Submit(j) /\ ~Refused(j)
  <2>1. PICK from, end, pc : from = Offsets(j).from /\ end = Offsets(j).end /\ pc = IF Ready THEN "running" ELSE "creating"
    OBVIOUS
  <2>2. PICK rec : rec = [r EXCEPT !.pc = pc, !.from = from, !.pos = from, !.end = end]
    OBVIOUS
  <2>3. job' = [job EXCEPT ![j] = rec]
    BY <1>1, <1>6, <2>1, <2>2 DEF Submit, Goes, Ready
  <2>4. saved' = [saved EXCEPT ![j] = rec]
    BY <1>1, <1>6, <2>3 DEF Submit
  <2>5. /\ rec.held = r.held /\ rec.panes = r.panes /\ rec.late = r.late /\ rec.seen = r.seen /\ rec.rows = r.rows
        /\ rec.top = r.top /\ rec.mark = r.mark /\ rec.pc = pc /\ rec.from = from /\ rec.pos = from /\ rec.end = end
        /\ SameSnaps(r, rec)
    BY <1>1, <2>2 DEF JobFields, SameSnaps
  <2>6. from \in Nat /\ from <= Len(tp) /\ (end = None \/ (end \in Int /\ end <= Len(tp)))
    BY <1>2, <1>6, <2>1, RangeOfTopic
  <2>7. rec.pc \in {"creating", "failed", "running"} /\ rec.pc \notin {"done", "down"} /\ r.pc = "off"
    BY <1>1, <1>6, <2>1, <2>5 DEF Submit
  <2>8. RecOk(tp, rec, j) /\ (Balance(b, tp, tb, r, j) => Balance(b, tp, tb, rec, j))
    BY <1>1, <1>2, <2>5, <2>6, <2>7, SubmittedAccount
  <2> QED  BY <1>1, <1>2, <1>3, <2>3, <2>4, <2>5, <2>7, <2>8
<1> QED  BY <1>4, <1>5, <1>6

\* A window that is due becomes a row; the live job's next snapshot has its count.
Fired(r, rec, row, j) ==
    \E p \in DOMAIN r.panes :
       /\ p = <<row.user, row.win>> /\ EndOf(row.win) - 1 <= r.mark /\ row.by = j
       /\ rec.panes = Without(r.panes, {p}) /\ (bus.iceberg => rec.rows = Append(r.rows, row))
       /\ rec.mark = r.mark /\ rec.flushed = r.flushed
       /\ IF j = "live" THEN rec.users = [x \in DOMAIN r.users \cup {p} |-> IF x = p THEN row.n ELSE r.users[x]]
          ELSE rec.timers = r.timers

LEMMA FiringKeeps ==
    ASSUME JobShape, NEW j \in StreamJob, Fire(j), RecOk(topic, job[j], j), AreCounts(table)
    PROVE  \E rec, row : /\ job' = [job EXCEPT ![j] = rec] /\ unsent' = [unsent EXCEPT ![j] = Append(@, row)]
                         /\ RecOk(topic, rec, j) /\ IsCount(row) /\ rec.pos = job[j].pos /\ rec.pc = job[j].pc
                         /\ bus.iceberg /\ Balance(bus, topic, table, job[j], j) => Balance(bus, topic, table, rec, j)
                         /\ Fired(job[j], rec, row, j)
<1>1. PICK r : r = job[j] /\ JobFields(r) /\ RecOk(topic, r, j)
  BY DEF JobShape
<1>2. PICK b, tp, tb : b = bus /\ tp = topic /\ tb = table
  OBVIOUS
<1>3. PICK p \in {q \in DOMAIN job[j].panes : q[2] \in First(Due(j, job[j].panes))} :
         LET row == [user |-> p[1], win |-> p[2], n |-> job[j].panes[p], by |-> j]
             fired == [job[j] EXCEPT !.panes = Without(@, {p}), !.rows = IF bus.iceberg THEN Append(@, row) ELSE @]
         IN /\ job[j].pc = "running"
            /\ Goes(j, IF j = "backfill" THEN fired
                       ELSE [fired EXCEPT !.users = [x \in DOMAIN @ \cup {p} |-> IF x = p THEN row.n ELSE @[x]],
                                          !.timers = @ \cup {p[2]}])
            /\ unsent' = [unsent EXCEPT ![j] = Append(@, row)]
  BY DEF Fire, Runs
<1>4. PICK row : row = [user |-> p[1], win |-> p[2], n |-> r.panes[p], by |-> j]
  OBVIOUS
<1>5. PICK panes, rows : panes = Without(r.panes, {p}) /\ rows = IF b.iceberg THEN Append(r.rows, row) ELSE r.rows
  OBVIOUS
<1>6. PICK fired : fired = [r EXCEPT !.panes = panes, !.rows = rows]
  OBVIOUS
<1> DEFINE Alike(s) == /\ s.pc = r.pc /\ s.from = r.from /\ s.pos = r.pos /\ s.end = r.end /\ s.top = r.top /\ s.mark = r.mark
                       /\ s.held = r.held /\ s.late = r.late /\ s.seen = r.seen /\ s.panes = panes /\ s.rows = rows
                       /\ s.flushed = r.flushed
<1>7. JobFields(fired) /\ Alike(fired) /\ fired.users = r.users /\ fired.timers = r.timers
  BY <1>1, <1>6 DEF JobFields
<1>8. PICK rec : /\ job' = [job EXCEPT ![j] = rec] /\ Alike(rec)
                 /\ IF j = "live" THEN rec.users = [x \in DOMAIN r.users \cup {p} |-> IF x = p THEN row.n ELSE r.users[x]]
                    ELSE rec.timers = r.timers
  <2>1. CASE j = "backfill"
    <3>1. job' = [job EXCEPT ![j] = fired]
      BY <1>1, <1>2, <1>3, <1>4, <1>5, <1>6, <2>1 DEF Goes
    <3> QED  BY <1>7, <2>1, <3>1
  <2>2. CASE j # "backfill"
    <3>1. PICK users, timers : /\ users = [x \in DOMAIN fired.users \cup {p} |-> IF x = p THEN row.n ELSE fired.users[x]]
                               /\ timers = fired.timers \cup {p[2]}
      OBVIOUS
    <3>2. PICK s : s = [fired EXCEPT !.users = users, !.timers = timers]
      OBVIOUS
    <3>3. job' = [job EXCEPT ![j] = s]
      BY <1>1, <1>2, <1>3, <1>4, <1>5, <1>6, <2>2, <3>1, <3>2 DEF Goes
    <3>4. Alike(s) /\ s.users = users
      BY <1>7, <3>2 DEF JobFields
    <3> QED  BY <1>7, <2>2, <3>1, <3>3, <3>4 DEF StreamJob
  <2> QED  BY <2>1, <2>2
<1>9. /\ RecOk(tp, r, j) /\ AreCounts(tb) /\ r.pc = "running" /\ p \in DOMAIN r.panes
      /\ row = [user |-> p[1], win |-> p[2], n |-> r.panes[p], by |-> j]
      /\ rec.pc = r.pc /\ rec.from = r.from /\ rec.pos = r.pos /\ rec.end = r.end /\ rec.top = r.top /\ rec.mark = r.mark
      /\ rec.held = r.held /\ rec.late = r.late /\ rec.seen = r.seen
      /\ rec.panes = Without(r.panes, {p}) /\ (rec.rows = Append(r.rows, row) \/ (~b.iceberg /\ rec.rows = r.rows))
  BY <1>1, <1>2, <1>3, <1>4, <1>5, <1>8
<1>10. RecOk(tp, rec, j) /\ IsCount(row) /\ (b.iceberg /\ Balance(b, tp, tb, r, j) => Balance(b, tp, tb, rec, j))
  BY <1>9, FiredAccount
<1>12. EndOf(p[2]) - 1 <= r.mark
  BY <1>1, <1>3 DEF First, Due, Passed
<1>13. p = <<p[1], p[2]>>
  BY <1>1, <1>3 DEF RecOk, WindowsOk, PanesOk
<1>14. PICK u, w : u = p[1] /\ w = p[2] /\ p = <<u, w>>
  BY <1>13
<1>15. row.user = u /\ row.win = w /\ row.by = j
  BY <1>4, <1>14
<1>16. Fired(r, rec, row, j)
  <2>1. p \in DOMAIN r.panes /\ p = <<row.user, row.win>> /\ EndOf(row.win) - 1 <= r.mark /\ row.by = j
    BY <1>9, <1>12, <1>14, <1>15
  <2>2. bus.iceberg => rec.rows = Append(r.rows, row)
    BY <1>2, <1>9
  <2> QED  BY <1>8, <1>9, <2>1, <2>2 DEF Fired
<1>11. unsent' = [unsent EXCEPT ![j] = Append(@, row)]
  BY <1>1, <1>3, <1>4
<1> QED  BY <1>1, <1>2, <1>8, <1>9, <1>10, <1>11, <1>16

\* Rows that are committed move to the table.
LEMMA CommittingKeeps ==
    ASSUME JobShape, NEW j \in StreamJob, Checkpoint(j) \/ Finish(j), RecOk(topic, job[j], j), AreCounts(table)
    PROVE  /\ table' = table \o job[j].rows
           /\ \E rec : /\ job' = [job EXCEPT ![j] = rec] /\ RecOk(topic, rec, j)
                       /\ rec.rows = <<>> /\ rec.pos = job[j].pos /\ rec.pc \in {"running", "done"}
                       /\ rec.panes = job[j].panes /\ rec.mark = job[j].mark /\ SameSnaps(job[j], rec)
                       /\ \/ saved' = [saved EXCEPT ![j] = rec]
                          \/ saved' = saved /\ rec.pc = "done"
                       /\ Balance(bus, topic, table, job[j], j) => Balance(bus, topic, table', rec, j)
           /\ job[j].pc = "running"
<1>1. PICK r : r = job[j] /\ JobFields(r) /\ RecOk(topic, r, j) /\ job = [k \in StreamJob |-> job[k]]
  BY DEF JobShape
<1>2. PICK b, tp, tb : b = bus /\ tp = topic /\ tb = table
  OBVIOUS
<1>3. table' = tb \o r.rows /\ r.pc = "running"
  BY <1>1, <1>2 DEF Checkpoint, Finish, Commit, Runs
<1>4. PICK rec, pc :
         /\ pc \in {"running", "done"}
         /\ rec = [r EXCEPT !.rows = <<>>, !.pc = pc] /\ job' = [job EXCEPT ![j] = rec]
         /\ saved' = [saved EXCEPT ![j] = job'[j]] \/ (saved' = saved /\ pc = "done")
  <2>1. [r EXCEPT !.rows = <<>>] = [r EXCEPT !.rows = <<>>, !.pc = r.pc]
    BY <1>1 DEF JobFields
  <2>2. CASE Checkpoint(j)
    <3>1. job' = [job EXCEPT ![j] = [r EXCEPT !.rows = <<>>, !.pc = r.pc]]
      BY <1>1, <2>1, <2>2 DEF Checkpoint, Goes
    <3>2. saved' = [saved EXCEPT ![j] = job'[j]]
      BY <2>2 DEF Checkpoint
    <3> QED  BY <1>3, <3>1, <3>2
  <2>3. CASE Finish(j)
    <3>1. job' = [job EXCEPT ![j] = [r EXCEPT !.rows = <<>>, !.pc = "done"]] /\ saved' = saved
      BY <1>1, <2>3 DEF Finish, Goes
    <3> QED  BY <3>1
  <2> QED  BY <2>2, <2>3
<1>5. /\ rec.from = r.from /\ rec.pos = r.pos /\ rec.end = r.end /\ rec.top = r.top /\ rec.mark = r.mark /\ rec.held = r.held
      /\ rec.panes = r.panes /\ rec.late = r.late /\ rec.seen = r.seen /\ rec.rows = <<>> /\ rec.pc = pc
      /\ SameSnaps(r, rec)
  BY <1>1, <1>4 DEF JobFields, SameSnaps
<1>6. RecOk(tp, rec, j)
  <2>1. RecOk(tp, r, j) /\ rec.pc \in {"running", "done"}
    BY <1>1, <1>2, <1>4, <1>5
  <2> QED  BY <1>5, <2>1, CommittedPlace
<1>7. ASSUME Balance(b, tp, tb, r, j) PROVE Balance(b, tp, tb \o r.rows, rec, j)
  <2>1. AreCounts(tb) /\ AreCounts(r.rows) /\ RecOk(tp, r, j)
    BY <1>1, <1>2 DEF RecOk, RowsOk
  <2> QED  BY <1>5, <1>7, <2>1, CommittedAccount
<1>8. job'[j] = rec
  BY <1>1, <1>4
<1> QED  BY <1>1, <1>2, <1>3, <1>4, <1>5, <1>6, <1>7, <1>8

-----------------------------------------------------------------------------
(* Every step keeps the accounts                                           *)

\* Every job, and its checkpoint, is well placed.
AccountInv ==
    /\ TopicOk(bus, topic) /\ AreCounts(table)
    /\ \A j \in StreamJob : /\ RecOk(topic, job[j], j) /\ RecOk(topic, saved[j], j)
                            /\ saved[j].rows = <<>> /\ saved[j].pos <= job[j].pos

\* A finished job has handed over what its checkpoint does not have.
BalanceInv ==
    bus.iceberg =>
      \A j \in StreamJob : /\ Balance(bus, topic, table, job[j], j)
                           /\ job[j].pc # "done" => Balance(bus, topic, table, saved[j], j)

\* The dead letters are identities, which no repair can read.
LettersInv ==
    /\ dlq \in [at : Nat, end : Nat] /\ dlq.at <= dlq.end /\ dlq.end <= Len(dead)
    /\ \E S : dead \in Seq(S)
    /\ \A i \in 1..Len(dead) : dead[i].raw = Identity
    /\ unresolved = <<>>

\* A step keeps the jobs in place, and their accounts balanced.
AccountsKept == AccountInv' /\ (FeedTells /\ BalanceInv => BalanceInv')

\* At first nothing is read and nothing is told.
LEMMA AccountStarts == Init => AccountInv /\ BalanceInv /\ LettersInv
<1> SUFFICES ASSUME Init PROVE AccountInv /\ BalanceInv /\ LettersInv
  OBVIOUS
<1>1. bus \in JobSettings
  <2>1. PICK c \in StreamSettings : bus = c.bus
    BY DEF Init
  <2> QED  BY <2>1, StreamSettingsAssumption
<1>2. TopicOk(bus, topic)
  <2>1. PICK S : bus.feed \in Seq(S) /\ bus.present \in Nat /\ bus.present <= Len(bus.feed)
    BY <1>1, StreamAssumption DEF JobCircumstances
  <2>2. PICK s \in Seq(S), n \in Nat, k \in Nat : s = bus.feed /\ n = Len(s) /\ k = bus.present /\ k <= n
    BY <2>1
  <2>3. topic = [i \in 1..k |-> s[i]]
    BY <2>2 DEF Init, JobInit
  <2>4. \A i \in 1..k : s[i] \in Range(bus.feed)
    BY <2>2 DEF Range
  <2>5. topic \in [1..k -> Range(bus.feed)]
    BY <2>3, <2>4
  <2> QED  BY <1>1, <2>5 DEF TopicOk
<1>3. table = <<>> /\ \A j \in StreamJob : job[j] = NewJob /\ saved[j] = NewJob
  BY DEF Init, JobInit
<1>4. PICK tp : tp = topic /\ tp \in Seq(Range(bus.feed))
  BY <1>2 DEF TopicOk
<1>5. PICK r : r = NewJob
  OBVIOUS
<1>6. /\ r.pc = "off" /\ r.from = 0 /\ r.pos = 0 /\ r.end = None /\ r.top = NoTime /\ r.mark = MarkOf(NoTime)
      /\ r.panes = <<>> /\ r.late = <<>> /\ r.seen = <<>> /\ r.rows = <<>> /\ r.held = {}
  BY <1>5 DEF NewJob
<1>7. ReadOf(r) = {} /\ HeldOf(r) = {}
  BY <1>6 DEF ReadOf, HeldOf
<1>8. PlaceOk(tp, r)
  <2>1. PICK n \in Nat : n = Len(tp)
    BY <1>4
  <2> QED  BY <1>6, <1>7, <2>1 DEF PlaceOk
<1>9. TimeOk(tp, r)
  <2>1. MarkOf(NoTime) \in Int
    BY StreamAssumption DEF MarkOf, NoTime
  <2> QED  BY <1>6, <2>1 DEF TimeOk
<1>10. WindowsOk(r)
  BY <1>6, NoPanes DEF WindowsOk
<1>11. Len(<<>>) = 0
  OBVIOUS
<1>12. RowsOk(r, "live") /\ RowsOk(r, "backfill")
  BY <1>6, <1>11, CountsOfNone DEF RowsOk
<1>13. \A j \in StreamJob : RecOk(tp, r, j)
  BY <1>8, <1>9, <1>10, <1>12 DEF RecOk, StreamJob
<1>14. AccountInv
  <2>1. AreCounts(table)
    BY <1>3, CountsOfNone
  <2>2. saved["live"].pos <= job["live"].pos /\ \A j \in StreamJob : saved[j].rows = <<>> /\ saved[j].pos <= job[j].pos
    BY <1>3, <1>5, <1>6 DEF StreamJob
  <2> QED  BY <1>2, <1>3, <1>4, <1>5, <1>13, <2>1, <2>2 DEF AccountInv
<1>15. ASSUME NEW j \in StreamJob PROVE Balance(bus, topic, table, r, j)
  <2> SUFFICES ASSUME NEW u, NEW w
               PROVE  Sum(Told(table, j, u, w)) + Sum(Told(r.rows, j, u, w)) + At(r.panes, <<u, w>>) + At(r.late, <<u, w>>)
                        = Cardinality(Wanted(bus, topic, r, j, u, w))
    BY DEF Balance
  <2>1. Sum(Told(table, j, u, w)) = 0 /\ Sum(Told(r.rows, j, u, w)) = 0
    BY <1>3, <1>6, <1>11, ToldByOthers
  <2>2. At(r.panes, <<u, w>>) = 0 /\ At(r.late, <<u, w>>) = 0
    BY <1>6, NoPanes
  <2>3. Wanted(bus, topic, r, j, u, w) = {}
    BY <1>7 DEF Wanted
  <2> QED  BY <2>1, <2>2, <2>3, FS_EmptySet
<1>16. BalanceInv
  BY <1>3, <1>5, <1>15 DEF BalanceInv
<1>17. LettersInv
  <2>1. dead = <<>> /\ dlq = [at |-> 0, end |-> 0] /\ unresolved = <<>>
    BY DEF Init, JobInit
  <2>2. <<>> \in Seq({})
    OBVIOUS
  <2> QED  BY <1>11, <2>1, <2>2 DEF LettersInv
<1> QED  BY <1>14, <1>16, <1>17

\* The topic may grow while no job moves.
LEMMA TopicKeeps ==
    ASSUME AccountInv, UNCHANGED <<bus, job, saved, table>>,
           topic' = topic \/ \E m \in Range(bus.feed) : topic' = Append(topic, m)
    PROVE  AccountsKept
<1>1. CASE topic' = topic
  <2>1. AccountInv'
    BY <1>1 DEF AccountInv
  <2>2. BalanceInv => BalanceInv'
    BY <1>1 DEF BalanceInv
  <2> QED  BY <2>1, <2>2 DEF AccountsKept
<1>2. ASSUME NEW m \in Range(bus.feed), topic' = Append(topic, m)
      PROVE  AccountsKept
  <2>1. PICK b, tp, tq, tb : b = bus /\ tp = topic /\ tq = Append(tp, m) /\ tb = table
    OBVIOUS
  <2>2. TopicOk(b, tp) /\ m \in Range(b.feed)
    BY <2>1 DEF AccountInv
  <2>3. ASSUME NEW r, NEW j, RecOk(tp, r, j)
        PROVE  /\ TopicOk(b, tq) /\ RecOk(tq, r, j)
               /\ Balance(b, tp, tb, r, j) => Balance(b, tq, tb, r, j)
    <3>1. /\ TopicOk(b, tq) /\ RecOk(tq, r, j)
          /\ \A u, w : Wanted(b, tq, r, j, u, w) = Wanted(b, tp, r, j, u, w)
      BY <2>1, <2>2, <2>3, TopicGrows
    <3> QED  BY <3>1 DEF Balance
  <2>4. ASSUME NEW j \in StreamJob
        PROVE  /\ RecOk(tp, job[j], j) /\ RecOk(tp, saved[j], j)
               /\ saved[j].rows = <<>> /\ saved[j].pos <= job[j].pos
    BY <2>1 DEF AccountInv
  <2>5. "live" \in StreamJob
    BY DEF StreamJob
  <2>6. TopicOk(b, tq) /\ \A j \in StreamJob : RecOk(tq, job[j], j) /\ RecOk(tq, saved[j], j)
    BY <2>3, <2>4, <2>5
  <2>7. b = bus' /\ tq = topic' /\ tb = table' /\ AreCounts(tb)
    BY <1>2, <2>1 DEF AccountInv
  <2>8. AccountInv'
    BY <2>4, <2>6, <2>7 DEF AccountInv
  <2>9. ASSUME BalanceInv, b.iceberg PROVE BalanceInv'
    <3>1. ASSUME NEW j \in StreamJob
          PROVE  /\ Balance(b, tq, tb, job[j], j) /\ (job[j].pc # "done" => Balance(b, tq, tb, saved[j], j))
      <4>1. Balance(b, tp, tb, job[j], j) /\ (job[j].pc # "done" => Balance(b, tp, tb, saved[j], j))
        BY <2>1, <2>9 DEF BalanceInv
      <4> QED  BY <2>3, <2>4, <4>1
    <3> QED  BY <2>7, <3>1 DEF BalanceInv
  <2>10. ASSUME ~b.iceberg PROVE BalanceInv'
    BY <2>7, <2>10 DEF BalanceInv
  <2> QED  BY <2>8, <2>9, <2>10 DEF AccountsKept
<1> QED  BY <1>1, <1>2

\* One job moves, and commits nothing.
LEMMA MovesKeep ==
    ASSUME JobShape, AccountInv, NEW j \in StreamJob, NEW rec, job' = [job EXCEPT ![j] = rec], RecOk(topic, rec, j),
           job[j].pc # "done", UNCHANGED <<bus, topic, table>>,
           \/ saved' = saved /\ saved[j].pos <= rec.pos
           \/ saved' = [saved EXCEPT ![j] = rec] /\ rec.rows = <<>>,
           bus.iceberg /\ FeedTells /\ BalanceInv => Balance(bus, topic, table, rec, j)
    PROVE  AccountsKept
<1>1. ASSUME NEW k \in StreamJob
      PROVE  /\ job'[k] = (IF k = j THEN rec ELSE job[k])
             /\ saved'[k] = saved[k] \/ (k = j /\ saved'[k] = rec /\ rec.rows = <<>>)
             /\ k = j => saved'[k] = rec \/ (saved'[k] = saved[k] /\ saved[k].pos <= rec.pos)
  BY DEF JobShape
<1>2. PlaceOk(topic, rec) /\ rec.pos \in Nat
  BY DEF RecOk, PlaceOk
<1>3. ASSUME NEW k \in StreamJob
      PROVE  /\ RecOk(topic, job'[k], k) /\ RecOk(topic, saved'[k], k)
             /\ saved'[k].rows = <<>> /\ saved'[k].pos <= job'[k].pos
  <2>1. RecOk(topic, job[k], k) /\ RecOk(topic, saved[k], k) /\ saved[k].rows = <<>> /\ saved[k].pos <= job[k].pos
    BY DEF AccountInv
  <2>2. rec.pos <= rec.pos
    BY <1>2
  <2>3. CASE k = j
    BY <1>1, <2>1, <2>2, <2>3
  <2>4. CASE k # j
    BY <1>1, <2>1, <2>4
  <2> QED  BY <2>3, <2>4
<1>4. AccountInv'
  <2>1. TopicOk(bus, topic) /\ AreCounts(table)
    BY DEF AccountInv
  <2> QED  BY <1>3, <2>1 DEF AccountInv
<1>5. ASSUME FeedTells, BalanceInv PROVE BalanceInv'
  <2> SUFFICES ASSUME bus.iceberg PROVE BalanceInv'
    BY DEF BalanceInv
  <2>1. ASSUME NEW k \in StreamJob
        PROVE  /\ Balance(bus, topic, table, job'[k], k)
               /\ job'[k].pc # "done" => Balance(bus, topic, table, saved'[k], k)
    <3>1. Balance(bus, topic, table, job[k], k) /\ (job[k].pc # "done" => Balance(bus, topic, table, saved[k], k))
      BY <1>5 DEF BalanceInv
    <3>2. CASE k = j
      BY <1>1, <1>5, <3>1, <3>2
    <3>3. CASE k # j
      BY <1>1, <3>1, <3>3
    <3> QED  BY <3>2, <3>3
  <2> QED  BY <2>1 DEF BalanceInv
<1> QED  BY <1>4, <1>5 DEF AccountsKept

\* A commit moves one job's rows and tells nothing of the other job.
LEMMA CommitsKeepAccounts ==
    ASSUME JobShape, AccountInv, NEW j \in StreamJob, Checkpoint(j) \/ Finish(j)
    PROVE  AccountsKept
<1>1. PICK rec, rows :
         /\ rows = job[j].rows /\ table' = table \o rows
         /\ job' = [job EXCEPT ![j] = rec] /\ RecOk(topic, rec, j) /\ rec.rows = <<>> /\ rec.pos = job[j].pos
         /\ saved' = [saved EXCEPT ![j] = rec] \/ (saved' = saved /\ rec.pc = "done")
         /\ Balance(bus, topic, table, job[j], j) => Balance(bus, topic, table', rec, j)
  BY CommittingKeeps DEF AccountInv
<1>2. UNCHANGED <<bus, topic>> /\ job[j].pc = "running"
  BY DEF Checkpoint, Finish, inputVars, Runs
<1>3. AreCounts(table) /\ AreCounts(rows) /\ \A i \in 1..Len(rows) : rows[i].by = j
  BY <1>1 DEF AccountInv, RecOk, RowsOk
<1>4. AreCounts(table')
  BY <1>1, <1>3, CountsConcat
<1>5. ASSUME NEW k \in StreamJob
      PROVE  /\ job'[k] = (IF k = j THEN rec ELSE job[k])
             /\ k # j => saved'[k] = saved[k]
             /\ k = j => saved'[k] = rec \/ (saved'[k] = saved[k] /\ rec.pc = "done")
  BY <1>1 DEF JobShape
<1>6. ASSUME NEW k \in StreamJob
      PROVE  /\ RecOk(topic, job'[k], k) /\ RecOk(topic, saved'[k], k)
             /\ saved'[k].rows = <<>> /\ saved'[k].pos <= job'[k].pos
  <2>1. RecOk(topic, job[k], k) /\ RecOk(topic, saved[k], k) /\ saved[k].rows = <<>> /\ saved[k].pos <= job[k].pos
    BY DEF AccountInv
  <2>2. rec.pos \in Nat /\ rec.pos <= rec.pos
    BY <1>1 DEF RecOk, PlaceOk
  <2>3. CASE k = j
    BY <1>1, <1>5, <2>1, <2>2, <2>3
  <2>4. CASE k # j
    BY <1>5, <2>1, <2>4
  <2> QED  BY <2>3, <2>4
<1>7. AccountInv'
  <2>1. TopicOk(bus, topic)
    BY DEF AccountInv
  <2> QED  BY <1>2, <1>4, <1>6, <2>1 DEF AccountInv
<1>8. ASSUME BalanceInv PROVE BalanceInv'
  <2> SUFFICES ASSUME bus.iceberg PROVE BalanceInv'
    BY <1>2 DEF BalanceInv
  <2>1. PICK b, tp, tb, tc : b = bus /\ tp = topic /\ tb = table /\ tc = tb \o rows /\ tc = table'
    BY <1>1
  <2>2. ASSUME NEW k \in StreamJob
        PROVE  /\ Balance(b, tp, tc, job'[k], k)
               /\ job'[k].pc # "done" => Balance(b, tp, tc, saved'[k], k)
    <3>1. Balance(b, tp, tb, job[k], k) /\ (job[k].pc # "done" => Balance(b, tp, tb, saved[k], k))
      BY <1>8, <2>1 DEF BalanceInv
    <3>2. CASE k = j
      <4>1. Balance(b, tp, tc, rec, j)
        BY <1>1, <2>1, <3>1, <3>2
      <4> QED  BY <1>5, <3>2, <4>1
    <3>3. CASE k # j
      <4>1. RecOk(tp, job[k], k) /\ RecOk(tp, saved[k], k) /\ AreCounts(tb)
        BY <1>3, <2>1 DEF AccountInv
      <4>2. ASSUME NEW r, RecOk(tp, r, k), Balance(b, tp, tb, r, k)
            PROVE  Balance(b, tp, tc, r, k)
        <5>1. Balance(b, tp, tb \o rows, r, k)
          BY <1>3, <3>3, <4>1, <4>2, OthersAccount
        <5> QED  BY <2>1, <5>1
      <4> QED  BY <1>5, <3>1, <3>3, <4>1, <4>2
    <3> QED  BY <3>2, <3>3
  <2> QED  BY <1>2, <2>1, <2>2 DEF BalanceInv
<1> QED  BY <1>7, <1>8 DEF AccountsKept

LEMMA LettersStay ==
    ASSUME LettersInv, UNCHANGED dlqVars
    PROVE  LettersInv'
BY DEF LettersInv, dlqVars

\* What the filter rejects is appended to the dead letters.
LEMMA RejectKeepsLetters ==
    ASSUME LettersInv, NEW j \in StreamJob, Reject(j)
    PROVE  LettersInv'
<1>1. PICK letter : letter = Classify(Event(j)) /\ dead' = Append(dead, letter) /\ UNCHANGED <<dlq, unresolved>>
  BY DEF Reject
<1>2. Parsed(j) # None /\ Classify(Event(j)) # None
  BY DEF Reject
<1>3. PICK m, aliases : Event(j) = Copied(Handle(m, aliases))
  BY <1>2 DEF Event, Parsed, Deserialize
<1>4. PICK e : e = Event(j) /\ e.changes = {} /\ Classify(e) # None
  BY <1>2, <1>3, HandledEvent
<1>5. letter.raw = Identity
  BY <1>1, <1>4, RejectedEvent
<1>6. PICK S : dead \in Seq(S)
  BY DEF LettersInv
<1>7. PICK T : T = S \cup {letter}
  OBVIOUS
<1>8. PICK s \in Seq(T), n \in Nat : s = dead /\ n = Len(s) /\ DOMAIN s = 1..n
  BY <1>6, <1>7
<1>9. PICK t : t = Append(s, letter)
  OBVIOUS
<1>10. t \in Seq(T) /\ Len(t) = n + 1 /\ t[n + 1] = letter /\ \A i \in 1..n : t[i] = s[i]
  BY <1>7, <1>8, <1>9
<1>11. \A i \in 1..(n + 1) : t[i].raw = Identity
  <2>1. \A i \in 1..n : s[i].raw = Identity
    BY <1>8 DEF LettersInv
  <2> QED  BY <1>5, <1>10, <2>1
<1>12. PICK at \in Nat, end \in Nat : at = dlq.at /\ end = dlq.end /\ at <= end /\ end <= n
  BY <1>8 DEF LettersInv
<1>13. dlq.end <= n + 1
  BY <1>12
<1> QED  BY <1>1, <1>8, <1>9, <1>10, <1>11, <1>13 DEF LettersInv

\* The reprocessing job passes every letter over: an identity is no JSON.
LEMMA ReprocessingKeepsLetters ==
    ASSUME LettersInv, NEW S, topic \in Seq(S), DlqStart \/ DlqRead
    PROVE  LettersInv' /\ topic' = topic
<1>1. CASE DlqStart
  <2>1. PICK T : dead \in Seq(T)
    BY DEF LettersInv
  <2>2. PICK n \in Nat : n = Len(dead)
    BY <2>1
  <2>3. dlq' = [at |-> 0, end |-> n] /\ UNCHANGED <<topic, dead, unresolved>>
    BY <1>1, <2>2 DEF DlqStart, inputVars
  <2>4. dlq' \in [at : Nat, end : Nat] /\ dlq'.at <= dlq'.end /\ dlq'.end <= Len(dead)
    BY <2>2, <2>3
  <2> QED  BY <2>3, <2>4 DEF LettersInv
<1>2. CASE DlqRead
  <2>1. PICK at \in Nat, end \in Nat, n \in Nat :
           dlq = [at |-> at, end |-> end] /\ at < end /\ end <= n /\ n = Len(dead)
    <3>1. PICK T : dead \in Seq(T)
      BY DEF LettersInv
    <3>2. PICK at \in Nat, end \in Nat : dlq = [at |-> at, end |-> end]
      BY DEF LettersInv
    <3>3. PICK n \in Nat : n = Len(dead)
      BY <3>1
    <3>4. at < end /\ end <= n
      BY <1>2, <3>2, <3>3 DEF DlqRead, LettersInv
    <3> QED  BY <3>2, <3>3, <3>4
  <2>2. dlq' = [at |-> at + 1, end |-> end]
    BY <1>2, <2>1 DEF DlqRead
  <2>3. PICK letter : letter = dead[dlq.at + 1] /\ letter.raw = Identity
    <3>1. at + 1 \in 1..n
      BY <2>1
    <3> QED  BY <2>1, <3>1 DEF LettersInv
  <2>4. Reparsed(letter) = None
    BY <2>3 DEF Reparsed
  <2>5. Repaired(None) = <<>> /\ Unrepaired(None) = <<>>
    BY DEF Repaired, Unrepaired
  <2>6. topic' = topic \o <<>> /\ unresolved' = unresolved \o <<>> /\ UNCHANGED dead
    BY <1>2, <2>3, <2>4, <2>5 DEF DlqRead
  <2>7. topic' = topic
    BY <2>6
  <2>8. unresolved' = <<>>
    <3>1. <<>> \o <<>> = <<>>
      OBVIOUS
    <3> QED  BY <2>6, <3>1 DEF LettersInv
  <2>9. dlq' \in [at : Nat, end : Nat] /\ dlq'.at <= dlq'.end /\ dlq'.end <= Len(dead)
    BY <2>1, <2>2
  <2> QED  BY <2>6, <2>7, <2>8, <2>9 DEF LettersInv
<1> QED  BY <1>1, <1>2

\* Every step of the jobs, of the maintenance and of the pipeline.
LEMMA AccountsStep ==
    ASSUME JobShape, AccountInv, LettersInv, fed \in Nat, [Next]_vars
    PROVE  AccountsKept /\ LettersInv'
<1>1. CASE UNCHANGED <<bus, topic, job, saved, table, dlqVars>>
  BY <1>1, TopicKeeps, LettersStay DEF dlqVars
<1>2. CASE Produce
  <2>1. /\ topic' = Append(topic, bus.feed[fed + 1]) /\ fed < Len(bus.feed)
        /\ UNCHANGED <<bus, job, saved, table>> /\ UNCHANGED dlqVars
    BY <1>2 DEF Produce, lakeVars
  <2>2. bus.feed[fed + 1] \in Range(bus.feed)
    <3>1. PICK S : bus.feed \in Seq(S)
      BY StreamAssumption DEF AccountInv, TopicOk, JobCircumstances
    <3>2. PICK s \in Seq(S), n \in Nat : s = bus.feed /\ n = Len(s) /\ DOMAIN s = 1..n
      BY <3>1
    <3>3. fed + 1 \in 1..n
      BY <2>1, <3>2
    <3> QED  BY <3>2, <3>3 DEF Range
  <2> QED  BY <2>1, <2>2, TopicKeeps, LettersStay
<1>3. CASE DlqStart \/ DlqRead
  <2>1. PICK S : topic \in Seq(S)
    BY DEF AccountInv, TopicOk
  <2>2. LettersInv' /\ topic' = topic
    BY <1>3, <2>1, ReprocessingKeepsLetters
  <2>3. UNCHANGED <<bus, job, saved, table>>
    BY <1>3 DEF DlqStart, DlqRead, inputVars, lakeVars
  <2> QED  BY <2>2, <2>3, TopicKeeps
<1>4. ASSUME NEW j \in StreamJob
      PROVE  /\ RecOk(topic, job[j], j) /\ RecOk(topic, saved[j], j) /\ saved[j].pos <= job[j].pos /\ saved[j].rows = <<>>
             /\ job[j].pos \in Nat /\ saved[j].pos \in Nat
             /\ bus.iceberg /\ BalanceInv => /\ Balance(bus, topic, table, job[j], j)
                                             /\ job[j].pc # "done" => Balance(bus, topic, table, saved[j], j)
             /\ TopicOk(bus, topic) /\ AreCounts(table)
  <2>1. RecOk(topic, job[j], j) /\ RecOk(topic, saved[j], j) /\ saved[j].pos <= job[j].pos /\ saved[j].rows = <<>>
    BY DEF AccountInv
  <2> QED  BY <2>1 DEF AccountInv, BalanceInv, RecOk, PlaceOk
<1>5. ASSUME NEW j \in StreamJob, Skip(j) \/ Reject(j) \/ Quarantine(j) \/ Count(j)
      PROVE  AccountsKept /\ LettersInv'
  <2>1. PICK rec : /\ job' = [job EXCEPT ![j] = rec] /\ RecOk(topic, rec, j) /\ rec.pos = job[j].pos + 1
                   /\ rec.pc = job[j].pc
                   /\ FeedTells /\ Balance(bus, topic, table, job[j], j) => Balance(bus, topic, table, rec, j)
    BY <1>4, <1>5, ReadingKeeps
  <2>2. UNCHANGED <<bus, topic, table, saved>> /\ job[j].pc = "running"
    BY <1>5 DEF Skip, Reject, Quarantine, Count, Reading, Runs, inputVars, lakeVars
  <2>3. saved[j].pos <= rec.pos
    BY <1>4, <2>1
  <2>4. AccountsKept
    BY <1>4, <2>1, <2>2, <2>3, MovesKeep
  <2>5. Reject(j) \/ UNCHANGED dlqVars
    BY <1>5 DEF Skip, Quarantine, Count
  <2> QED  BY <2>4, <2>5, RejectKeepsLetters, LettersStay
<1>6. ASSUME NEW j \in StreamJob, Advance(j) \/ EndOfInput(j) \/ Monitor(j) \/ Flush(j) \/ Crash(j)
      PROVE  AccountsKept /\ LettersInv'
  <2>1. PICK rec : /\ job' = [job EXCEPT ![j] = rec] /\ RecOk(topic, rec, j) /\ SameAccount(job[j], rec)
                   /\ rec.pc \in {"running", "down"} /\ job[j].pc = "running"
    BY <1>4, <1>6, WaitingKeeps
  <2>2. UNCHANGED <<bus, topic, table, saved>> /\ UNCHANGED dlqVars
    BY <1>6 DEF Advance, EndOfInput, Monitor, Flush, Crash, inputVars, lakeVars
  <2>3. PICK b, tp, tb, r : b = bus /\ tp = topic /\ tb = table /\ r = job[j]
    OBVIOUS
  <2>4. Balance(b, tp, tb, r, j) => Balance(b, tp, tb, rec, j)
    BY <2>1, <2>3, SameBalance
  <2>5. rec.pos = job[j].pos
    BY <2>1 DEF SameAccount
  <2> QED  BY <1>4, <2>1, <2>2, <2>3, <2>4, <2>5, MovesKeep, LettersStay
<1>7. ASSUME NEW j \in StreamJob, Restart(j)
      PROVE  AccountsKept /\ LettersInv'
  <2>1. PICK rec : job' = [job EXCEPT ![j] = rec] /\ RecOk(topic, rec, j) /\ SameAccount(saved[j], rec)
    BY <1>4, <1>7, RestartKeeps
  <2>2. UNCHANGED <<bus, topic, table, saved>> /\ UNCHANGED dlqVars /\ job[j].pc = "down"
    BY <1>7 DEF Restart, inputVars, lakeVars
  <2>3. PICK b, tp, tb, r : b = bus /\ tp = topic /\ tb = table /\ r = saved[j]
    OBVIOUS
  <2>4. Balance(b, tp, tb, r, j) => Balance(b, tp, tb, rec, j)
    BY <2>1, <2>3, SameBalance
  <2>5. rec.pos = saved[j].pos /\ saved[j].pos <= rec.pos
    BY <1>4, <2>1 DEF SameAccount
  <2>6. bus.iceberg /\ BalanceInv => Balance(bus, topic, table, rec, j)
    BY <1>4, <2>2, <2>3, <2>4
  <2> QED  BY <2>1, <2>2, <2>5, <2>6, MovesKeep, LettersStay
<1>8. ASSUME NEW j \in StreamJob, Submit(j) \/ CreateTable(j)
      PROVE  AccountsKept /\ LettersInv'
  <2>1. PICK rec : /\ job' = [job EXCEPT ![j] = rec] /\ saved' = [saved EXCEPT ![j] = rec]
                   /\ RecOk(topic, rec, j) /\ rec.rows = <<>> /\ rec.pc \notin {"done", "down"}
                   /\ Balance(bus, topic, table, job[j], j) => Balance(bus, topic, table, rec, j)
    BY <1>4, <1>8, SubmissionKeeps
  <2>2. UNCHANGED <<bus, topic, table>> /\ UNCHANGED dlqVars /\ job[j].pc # "done"
    BY <1>8 DEF Submit, CreateTable, inputVars, lakeVars
  <2> QED  BY <1>4, <2>1, <2>2, MovesKeep, LettersStay
<1>9. ASSUME NEW j \in StreamJob, Fire(j)
      PROVE  AccountsKept /\ LettersInv'
  <2>1. PICK rec : /\ job' = [job EXCEPT ![j] = rec] /\ RecOk(topic, rec, j)
                   /\ rec.pos = job[j].pos /\ rec.pc = job[j].pc
                   /\ bus.iceberg /\ Balance(bus, topic, table, job[j], j) => Balance(bus, topic, table, rec, j)
    BY <1>4, <1>9, FiringKeeps
  <2>2. UNCHANGED <<bus, topic, table, saved>> /\ UNCHANGED dlqVars /\ job[j].pc = "running"
    BY <1>9 DEF Fire, Runs, inputVars, lakeVars
  <2> QED  BY <1>4, <2>1, <2>2, MovesKeep, LettersStay
<1>10. ASSUME NEW j \in StreamJob, Checkpoint(j) \/ Finish(j)
       PROVE  AccountsKept /\ LettersInv'
  <2>1. UNCHANGED dlqVars
    BY <1>10 DEF Checkpoint, Finish
  <2> QED  BY <1>10, <2>1, CommitsKeepAccounts, LettersStay
<1>11. CASE JobNext
  <2>1. ASSUME NEW j \in StreamJob, Send(j) PROVE AccountsKept /\ LettersInv'
    BY <1>1, <2>1 DEF Send, inputVars, lakeVars
  <2>2. CASE Tick \/ SendSignal
    BY <1>1, <2>2 DEF Tick, SendSignal, inputVars, lakeVars
  <2> QED  BY <1>2, <1>3, <1>5, <1>6, <1>7, <1>8, <1>9, <1>10, <1>11, <2>1, <2>2 DEF JobNext
<1>12. CASE CareNext
  <2>1. Others
    BY <1>12 DEF CareNext, Load, DryExpire, Expire, Compact, Scan
  <2> QED  BY <1>1, <2>1 DEF Others, inputVars
<1> QED  BY <1>1, <1>11, <1>12 DEF Next, vars, jobVars, inputVars, lakeVars

-----------------------------------------------------------------------------
(* The types, and the counts                                               *)

\* The counters stay within their bounds, the counts that are sent and those
\* that wait are rows.
CountersInv ==
    /\ fed \in 0..Len(bus.feed) /\ fails \in 0..MaxFails /\ created \in BOOLEAN
    /\ AreCounts(counts) /\ \A j \in StreamJob : AreCounts(unsent[j])

LEMMA CountersStart == Init => CountersInv
<1> SUFFICES ASSUME Init PROVE CountersInv
  OBVIOUS
<1>1. bus \in JobSettings
  <2>1. PICK c \in StreamSettings : bus = c.bus
    BY DEF Init
  <2> QED  BY <2>1, StreamSettingsAssumption
<1>2. PICK n \in Nat, k \in Nat : n = Len(bus.feed) /\ k = bus.present /\ k <= n
  <2>1. PICK S : bus.feed \in Seq(S) /\ bus.present \in Nat /\ bus.present <= Len(bus.feed)
    BY <1>1, StreamAssumption DEF JobCircumstances
  <2> QED  BY <2>1
<1>3. fed = k /\ fails = 0 /\ created = FALSE /\ counts = <<>> /\ \A j \in StreamJob : unsent[j] = <<>>
  BY <1>2 DEF Init, JobInit
<1>4. k \in 0..n /\ 0 \in 0..MaxFails
  BY <1>2, StreamAssumption
<1>5. AreCounts(counts) /\ \A j \in StreamJob : AreCounts(unsent[j])
  BY <1>3, CountsOfNone
<1> QED  BY <1>2, <1>3, <1>4, <1>5 DEF CountersInv

LEMMA CountersKeep ==
    ASSUME JobShape, AccountInv, CountsInv, CountersInv, [Next]_vars
    PROVE  CountersInv'
<1>0. /\ fed \in 0..Len(bus.feed) /\ fails \in 0..MaxFails /\ created \in BOOLEAN
      /\ AreCounts(counts) /\ \A j \in StreamJob : AreCounts(unsent[j])
      /\ unsent = [j \in StreamJob |-> unsent[j]]
  <2>1. unsent = [j \in StreamJob |-> unsent[j]]
    BY DEF CountsInv
  <2> QED  BY <2>1 DEF CountersInv
<1>1. PICK n \in Nat : n = Len(bus.feed)
  <2>1. PICK S : bus.feed \in Seq(S)
    BY StreamAssumption DEF AccountInv, TopicOk, JobCircumstances
  <2> QED  BY <2>1
<1>2. CASE UNCHANGED <<bus, fed, fails, created, counts, unsent>>
  BY <1>2 DEF CountersInv
<1>3. ASSUME fails' = fails + 1, fails < MaxFails, UNCHANGED <<bus, fed, created, counts>>,
             \A j \in StreamJob : unsent'[j] \in {unsent[j], <<>>}
      PROVE  CountersInv'
  <2>1. fails' \in 0..MaxFails
    BY <1>0, <1>3, StreamAssumption
  <2>2. \A j \in StreamJob : AreCounts(unsent'[j])
    BY <1>0, <1>3, CountsOfNone
  <2> QED  BY <1>0, <1>3, <2>1, <2>2 DEF CountersInv
<1>4. CASE Produce
  <2>1. fed' = fed + 1 /\ fed < n /\ UNCHANGED <<bus, fails, created, counts, unsent>>
    BY <1>1, <1>4 DEF Produce, lakeVars
  <2>2. fed' \in 0..n
    BY <1>0, <1>1, <2>1
  <2> QED  BY <1>1, <2>1, <2>2 DEF CountersInv
<1>5. ASSUME NEW j \in StreamJob, CreateTable(j)
      PROVE  CountersInv'
  <2>1. created' = TRUE /\ UNCHANGED <<bus, fed, fails, counts, unsent>>
    BY <1>5 DEF CreateTable, inputVars
  <2> QED  BY <2>1 DEF CountersInv
<1>6. ASSUME NEW j \in StreamJob, Fire(j)
      PROVE  CountersInv'
  <2>1. PICK row : unsent' = [unsent EXCEPT ![j] = Append(@, row)] /\ IsCount(row)
    BY <1>6, FiringKeeps DEF AccountInv
  <2>2. UNCHANGED <<bus, fed, fails, created, counts>>
    BY <1>6 DEF Fire, inputVars, lakeVars
  <2>3. ASSUME NEW k \in StreamJob PROVE AreCounts(unsent'[k])
    <3>1. CASE k = j
      <4>1. unsent'[k] = Append(unsent[j], row)
        BY <1>0, <2>1, <3>1
      <4> QED  BY <1>0, <2>1, <4>1, CountsAppend
    <3>2. CASE k # j
      BY <1>0, <2>1, <3>2
    <3> QED  BY <3>1, <3>2
  <2> QED  BY <2>2, <2>3 DEF CountersInv
<1>7. ASSUME NEW j \in StreamJob, Send(j)
      PROVE  CountersInv'
  <2>1. /\ unsent[j] # <<>> /\ counts' = Append(counts, Head(unsent[j])) /\ unsent' = [unsent EXCEPT ![j] = Tail(unsent[j])]
        /\ UNCHANGED <<bus, fed, fails, created>>
    BY <1>7 DEF Send, inputVars, lakeVars
  <2>2. PICK s : s = unsent[j] /\ AreCounts(s)
    BY <1>0
  <2>3. AreCounts(Tail(s)) /\ IsCount(Head(s))
    BY <2>1, <2>2, CountsTail
  <2>4. AreCounts(counts')
    BY <1>0, <2>1, <2>2, <2>3, CountsAppend
  <2>5. ASSUME NEW k \in StreamJob PROVE AreCounts(unsent'[k])
    <3>1. unsent'[k] = IF k = j THEN Tail(s) ELSE unsent[k]
      BY <1>0, <2>1, <2>2
    <3> QED  BY <1>0, <2>3, <3>1
  <2> QED  BY <2>1, <2>4, <2>5 DEF CountersInv
<1>8. ASSUME NEW j \in StreamJob, Finish(j)
      PROVE  CountersInv'
  <2>1. /\ counts' = counts \o unsent[j] /\ unsent' = [unsent EXCEPT ![j] = <<>>]
        /\ UNCHANGED <<bus, fed, fails, created>>
    BY <1>8 DEF Finish, Commit, inputVars
  <2>2. AreCounts(counts')
    BY <1>0, <2>1, CountsConcat
  <2>3. ASSUME NEW k \in StreamJob PROVE AreCounts(unsent'[k])
    <3>1. unsent'[k] = IF k = j THEN <<>> ELSE unsent[k]
      BY <1>0, <2>1
    <3> QED  BY <1>0, <3>1, CountsOfNone
  <2> QED  BY <2>1, <2>2, <2>3 DEF CountersInv
<1>9. ASSUME NEW j \in StreamJob, Crash(j)
      PROVE  CountersInv'
  <2>1. /\ fails' = fails + 1 /\ fails < MaxFails /\ unsent' = [unsent EXCEPT ![j] = <<>>]
        /\ UNCHANGED <<bus, fed, created, counts>>
    BY <1>9 DEF Crash, inputVars, lakeVars
  <2>2. \A k \in StreamJob : unsent'[k] \in {unsent[k], <<>>}
    BY <1>0, <2>1
  <2> QED  BY <1>3, <2>1, <2>2
<1>10. CASE JobNext
  <2>1. CASE Tick \/ DlqStart \/ DlqRead \/ SendSignal
    <3>1. UNCHANGED <<bus, fed, fails, created, counts, unsent>>
      BY <2>1 DEF Tick, DlqStart, DlqRead, SendSignal, inputVars, lakeVars
    <3> QED  BY <1>2, <3>1
  <2>2. ASSUME NEW j \in StreamJob,
               \/ Submit(j) \/ Skip(j) \/ Reject(j) \/ Quarantine(j) \/ Count(j) \/ Advance(j) \/ EndOfInput(j)
               \/ Monitor(j) \/ Flush(j) \/ Checkpoint(j) \/ Restart(j)
        PROVE  CountersInv'
    <3>1. UNCHANGED <<bus, fed, fails, created, counts, unsent>>
      BY <2>2 DEF Submit, Skip, Reject, Quarantine, Count, Advance, EndOfInput, Monitor, Flush, Checkpoint, Commit,
                  Restart, inputVars, lakeVars
    <3> QED  BY <1>2, <3>1
  <2> QED  BY <1>4, <1>5, <1>6, <1>7, <1>8, <1>9, <1>10, <2>1, <2>2 DEF JobNext
<1>11. CASE CareNext
  <2>1. Others
    BY <1>11 DEF CareNext, Load, DryExpire, Expire, Compact, Scan
  <2>2. UNCHANGED <<bus, fed, fails, created, counts, unsent>>
    BY <2>1 DEF Others, inputVars
  <2> QED  BY <1>2, <2>2
<1>12. CASE InferNext /\ UNCHANGED <<inputVars, job, saved, lakeVars, unsent, counts, dlqVars, signalVars, careVars>>
  <2>1. UNCHANGED <<bus, fed, created, counts, unsent>>
    BY <1>12 DEF inputVars, lakeVars
  <2>2. fails' = fails \/ (fails' = fails + 1 /\ fails < MaxFails)
    BY <1>12 DEF InferNext, InferCrash
  <2> QED  BY <1>2, <1>3, <2>1, <2>2
<1>13. CASE UNCHANGED vars
  BY <1>2, <1>13 DEF vars, jobVars, inputVars, lakeVars
<1> QED  BY <1>10, <1>11, <1>12, <1>13 DEF Next

\* The run of the maintenance goes through its phases, and its report has its type.
ReportInv ==
    /\ care.pc \in {"off", "expire", "manifests", "scan", "done"}
    /\ care.expired \in Int /\ care.files \in Nat /\ care.small \in 0..care.files

LEMMA ReportStarts == Init => ReportInv
<1> SUFFICES ASSUME Init PROVE ReportInv
  OBVIOUS
<1>1. care = [pc |-> "off", loaded |-> <<>>, before |-> 0, expired |-> 0, left |-> <<>>,
              missed |-> 0, due |-> 0, manifests |-> <<0, 0>>, files |-> 0, small |-> 0]
  BY DEF Init, CareInit
<1> QED  BY <1>1 DEF ReportInv

LEMMA ReportKeeps ==
    ASSUME TableInv, CareInv, ReportInv, [Next]_vars
    PROVE  ReportInv'
<1>0. PICK c : c = care /\ CareFields(c) /\ ReportInv
  BY DEF CareInv
<1>1. CASE UNCHANGED care
  BY <1>1 DEF ReportInv
<1>2. CASE Load
  <2> DEFINE rec(p, l, b) == [c EXCEPT !.pc = p, !.loaded = l, !.before = b]
  <2>1. PICK p, l, b : care' = rec(p, l, b) /\ p \in {"expire", "done"}
    BY <1>0, <1>2 DEF Load
  <2>2. care'.pc = p /\ care'.expired = c.expired /\ care'.files = c.files /\ care'.small = c.small
    BY <1>0, <2>1 DEF CareFields
  <2> QED  BY <1>0, <2>1, <2>2 DEF ReportInv
<1>3. CASE DryExpire
  <2> DEFINE rec(n) == [c EXCEPT !.pc = "manifests", !.expired = n, !.left = c.loaded]
  <2>1. PICK s \in Seq(Snaps), b \in Int : s = c.loaded /\ b = c.before /\ Ordered(s)
    BY <1>0 DEF CareInv, Loaded
  <2>2. PICK n : n = DryCount(s, b) /\ n \in Nat
    BY <2>1, KeptFacts
  <2>3. care' = rec(n)
    BY <1>0, <1>3, <2>1, <2>2 DEF DryExpire
  <2>4. care'.pc = "manifests" /\ care'.expired = n /\ care'.files = c.files /\ care'.small = c.small
    BY <1>0, <2>3 DEF CareFields
  <2> QED  BY <1>0, <2>2, <2>4 DEF ReportInv
<1>4. CASE Expire
  <2> DEFINE rec(l, e, m, d) == [c EXCEPT !.pc = "manifests", !.left = l, !.expired = e, !.missed = m, !.due = d]
  <2>1. PICK s \in Seq(Snaps), b \in Int : s = commits /\ b = c.before /\ Ordered(s)
    BY <1>0 DEF TableInv, Ledger, CareInv, Loaded
  <2>2. PICK k : k = Kept(s, b) /\ k \in Seq(Snaps)
    BY <2>1, KeptFacts
  <2>3. c.loaded \in Seq(Snaps)
    BY <1>0 DEF CareInv, Loaded
  <2>4. PICK e, m, d : care' = rec(k, e, m, d) /\ e = Len(c.loaded) - Len(k)
    BY <1>0, <1>4, <2>1, <2>2 DEF Expire
  <2>5. e \in Int
    BY <2>2, <2>3, <2>4
  <2>6. care'.pc = "manifests" /\ care'.expired = e /\ care'.files = c.files /\ care'.small = c.small
    BY <1>0, <2>4 DEF CareFields
  <2> QED  BY <1>0, <2>5, <2>6 DEF ReportInv
<1>5. CASE Compact
  <2> DEFINE rec(l, m) == [c EXCEPT !.pc = "scan", !.left = l, !.manifests = m]
  <2>1. \A m : [c EXCEPT !.pc = "scan", !.manifests = m] = rec(c.left, m)
    BY <1>0 DEF CareFields
  <2>2. \E l, m : care' = rec(l, m)
    <3>1. CASE Manifests(care.left) > 1 /\ ~order.dryRun
      BY <1>0, <1>5, <3>1 DEF Compact
    <3>2. CASE ~(Manifests(care.left) > 1 /\ ~order.dryRun)
      <4>1. PICK m : m = <<Manifests(care.left), Manifests(care.left)>>
        OBVIOUS
      <4>2. care' = [c EXCEPT !.pc = "scan", !.manifests = m]
        BY <1>0, <1>5, <3>2, <4>1 DEF Compact
      <4>3. care' = rec(c.left, m)
        BY <2>1, <4>2
      <4> QED  BY <4>3
    <3> QED  BY <3>1, <3>2
  <2>3. care'.pc = "scan" /\ care'.expired = c.expired /\ care'.files = c.files /\ care'.small = c.small
    BY <1>0, <2>2 DEF CareFields
  <2> QED  BY <1>0, <2>3 DEF ReportInv
<1>6. CASE Scan
  <2> DEFINE rec(f, s) == [c EXCEPT !.pc = "done", !.files = f, !.small = s]
  <2>1. PICK files, read, small : /\ files = (IF c.left = <<>> THEN <<>> ELSE Last(c.left).files)
                                  /\ read \subseteq DOMAIN files /\ small \subseteq read
                                  /\ care' = rec(Cardinality(read), Cardinality(small))
    BY <1>0, <1>6 DEF Scan
  <2>2. files \in Seq(Nat)
    <3>1. c.left \in Seq(Snaps) /\ <<>> \in Seq(Nat)
      BY <1>0 DEF CareInv, Loaded
    <3> QED  BY <2>1, <3>1, LastSnap
  <2>3. PICK n \in Nat : n = Len(files) /\ DOMAIN files = 1..n
    BY <2>2
  <2>4. Cardinality(read) \in Nat /\ Cardinality(small) \in 0..Cardinality(read)
    <3>1. IsFiniteSet(1..n)
      BY FS_Interval
    <3>2. IsFiniteSet(read) /\ Cardinality(read) \in Nat
      BY <2>1, <2>3, <3>1, CardinalityShrinks
    <3>3. Cardinality(small) \in Nat /\ Cardinality(small) <= Cardinality(read)
      BY <2>1, <3>2, CardinalityShrinks
    <3> QED  BY <3>2, <3>3
  <2>5. /\ care'.pc = "done" /\ care'.expired = c.expired /\ care'.files = Cardinality(read)
        /\ care'.small = Cardinality(small)
    BY <1>0, <2>1 DEF CareFields
  <2> QED  BY <1>0, <2>4, <2>5 DEF ReportInv
<1> QED  BY <1>1, <1>2, <1>3, <1>4, <1>5, <1>6 DEF Next, CareNext, vars, careVars

\* The invariants together.
ShapeInv == CountsInv /\ SignalInv /\ TableInv /\ CareInv
StreamInv == ShapeInv /\ AccountInv /\ LettersInv /\ CountersInv /\ ReportInv

LEMMA ShapeAlways == Spec => []ShapeInv
<1>1. Init => TableInv /\ CareInv
  BY TableStarts, CareStarts
<1>2. SignalInv /\ TableInv /\ CareInv /\ [Next]_vars => TableInv' /\ CareInv'
  BY MaintenanceKeeps
<1>3. CountsInv /\ SignalInv /\ TableInv /\ CareInv => ShapeInv
  BY DEF ShapeInv
<1> QED  BY <1>1, <1>2, <1>3, SignalsAlways, PredictAlways, PTL DEF Spec

LEMMA StreamStarts == Init => AccountInv /\ LettersInv /\ CountersInv /\ ReportInv
BY AccountStarts, CountersStart, ReportStarts

LEMMA StreamKeeps ==
    ASSUME ShapeInv, AccountInv, LettersInv, CountersInv, ReportInv, [Next]_vars
    PROVE  AccountsKept /\ LettersInv' /\ CountersInv' /\ ReportInv'
<1>1. JobShape /\ CountsInv /\ TableInv /\ CareInv
  BY DEF ShapeInv, SignalInv
<1>2. fed \in Nat
  <2>1. PICK S : bus.feed \in Seq(S)
    BY StreamAssumption DEF AccountInv, TopicOk, JobCircumstances
  <2>2. PICK n \in Nat : n = Len(bus.feed)
    BY <2>1
  <2> QED  BY <2>2 DEF CountersInv
<1>3. AccountsKept /\ LettersInv'
  BY <1>1, <1>2, AccountsStep
<1>4. CountersInv'
  BY <1>1, CountersKeep
<1>5. ReportInv'
  BY <1>1, ReportKeeps
<1> QED  BY <1>3, <1>4, <1>5

LEMMA StreamAlways == Spec => []StreamInv
<1>1. ShapeInv /\ AccountInv /\ LettersInv /\ CountersInv /\ ReportInv /\ [Next]_vars
        => AccountInv' /\ LettersInv' /\ CountersInv' /\ ReportInv'
  BY StreamKeeps DEF AccountsKept
<1>2. ShapeInv /\ AccountInv /\ LettersInv /\ CountersInv /\ ReportInv => StreamInv
  BY DEF StreamInv
<1> QED  BY <1>1, <1>2, StreamStarts, ShapeAlways, PTL DEF Spec

LEMMA BalanceAlways ==
    ASSUME FeedTells
    PROVE  Spec => []BalanceInv
<1>1. StreamInv /\ BalanceInv /\ [Next]_vars => BalanceInv'
  BY StreamKeeps DEF AccountsKept, StreamInv
<1>2. Init => BalanceInv
  BY AccountStarts
<1> QED  BY <1>1, <1>2, StreamAlways, PTL DEF Spec

\* For any feed, any settings and any number of crashes the stream jobs'
\* variables have their types: no job is beyond the topic, or behind its
\* checkpoint, a table that does not exist has no row, and no dead letter is
\* read twice.
THEOREM StreamTypes == Spec => []StreamTypeOK
<1>1. StreamInv => StreamTypeOK
  <2> SUFFICES ASSUME StreamInv PROVE StreamTypeOK
    OBVIOUS
  <2>1. TableInv /\ CareInv /\ AccountInv /\ LettersInv /\ CountersInv /\ ReportInv
    BY DEF StreamInv, ShapeInv
  <2>2. clock \in Nat /\ AreCounts(table)
    BY <2>1 DEF TableInv, AccountInv
  <2>3. ASSUME NEW j \in StreamJob
        PROVE  /\ job[j].pc \in {"off", "creating", "failed", "running", "down", "done"}
               /\ job[j].from <= job[j].pos /\ job[j].pos <= Len(topic)
               /\ job[j].panes \in Tally(DOMAIN job[j].panes) /\ job[j].seen \in Tally(DOMAIN job[j].seen)
               /\ saved[j].rows = <<>> /\ saved[j].pos <= job[j].pos
               /\ AreCounts(job[j].rows) /\ AreCounts(unsent[j])
    BY <2>1 DEF AccountInv, RecOk, PlaceOk, WindowsOk, PanesOk, RowsOk, CountersInv
  <2>4. created \/ table = <<>>
    <3>1. SUFFICES ASSUME ~created PROVE table = <<>>
      OBVIOUS
    <3>2. commits = <<>> /\ Len(table) = 0
      BY <2>1, <3>1 DEF TableInv, Filed
    <3> QED  BY <2>2, <3>2 DEF AreCounts
  <2>5. dlq.at <= dlq.end /\ dlq.end <= Len(dead) /\ Len(unresolved) <= dlq.at
    BY <2>1 DEF LettersInv
  <2>6. JobTypeOK
    BY <2>1, <2>2, <2>3, <2>4, <2>5 DEF JobTypeOK, CountersInv
  <2>7. CareTypeOK
    BY <2>1 DEF CareTypeOK, ReportInv, TableInv, Ledger, Ordered
  <2> QED  BY <2>6, <2>7 DEF StreamTypeOK
<1> QED  BY <1>1, StreamAlways, PTL

\* For any feed that says whose its messages are, any windows, any disorder and
\* any number of crashes and restarts, where Iceberg is enabled: what the jobs
\* have committed, written and hold open for a user's window is the number of
\* that user's messages they have read, each once, and none is late while times
\* step back by no more than the allowed disorder.
THEOREM CountsHold ==
    ASSUME FeedTells
    PROVE  Spec => []CountsAddUp
<1>1. StreamInv /\ BalanceInv => CountsAddUp
  <2> SUFFICES ASSUME StreamInv, BalanceInv, bus.iceberg, NEW j \in StreamJob,
                      NEW events, events = {i \in ReadBy(j) : topic[i] # None}
               PROVE  /\ \A i \in events : topic[i].of # None =>
                           LET u == topic[i].of
                               w == WindowOf(topic[i].ts)
                           IN CountIn(j, u, w) + At(job[j].panes, <<u, w>>) + At(job[j].late, <<u, w>>)
                                = Cardinality(ToCount(j, u, w))
                      /\ (\A i, k \in events : i < k => topic[i].ts - Lag <= topic[k].ts) => job[j].late = <<>>
    BY DEF CountsAddUp
  <2>1. RecOk(topic, job[j], j) /\ AreCounts(table) /\ AreCounts(job[j].rows)
    BY DEF StreamInv, AccountInv, RecOk, RowsOk
  <2>2. ReadBy(j) = ReadOf(job[j])
    BY DEF ReadBy, ReadOf
  <2>3. ASSUME NEW u, NEW w, u # None
        PROVE  CountIn(j, u, w) + At(job[j].panes, <<u, w>>) + At(job[j].late, <<u, w>>) = Cardinality(ToCount(j, u, w))
    <3>1. PICK s : s = table \o job[j].rows /\ AreCounts(s)
      BY <2>1, CountsConcat
    <3>2. FoldSeq(LAMBDA r, n : (IF r.by = j /\ r.user = u /\ r.win = w THEN r.n ELSE 0) + n, 0, s) = Sum(Told(s, j, u, w))
      BY <2>3, <3>1, FoldIsSum
    <3>3. CountIn(j, u, w) = Sum(Told(s, j, u, w))
      BY <3>1, <3>2 DEF CountIn, RowsFor
    <3>4. Sum(Told(s, j, u, w)) = Sum(Told(table, j, u, w)) + Sum(Told(job[j].rows, j, u, w))
      BY <2>1, <3>1, ToldConcat
    <3>5. Wanted(bus, topic, job[j], j, u, w) = ToCount(j, u, w)
      BY <2>2 DEF Wanted, ToCount, HeldOf, HeldBy, Adds, Takes, AcceptedOp
    <3>6. Balance(bus, topic, table, job[j], j)
      BY DEF BalanceInv
    <3>7. Sum(Told(table, j, u, w)) + Sum(Told(job[j].rows, j, u, w)) + At(job[j].panes, <<u, w>>)
             + At(job[j].late, <<u, w>>) = Cardinality(Wanted(bus, topic, job[j], j, u, w))
      BY <2>3, <3>6 DEF Balance
    <3> QED  BY <3>3, <3>4, <3>5, <3>7
  <2>4. ASSUME \A i, k \in events : i < k => topic[i].ts - Lag <= topic[k].ts
        PROVE  job[j].late = <<>>
    BY <2>1, <2>2, <2>4 DEF RecOk, TimeOk, Disordered
  <2> QED  BY <2>3, <2>4
<1> QED  BY <1>1, StreamAlways, BalanceAlways, PTL

-----------------------------------------------------------------------------
(* Sums per window                                                         *)

LEMMA SumOfIsTotal ==
    ASSUME NEW f, IsFiniteSet(DOMAIN f), \A x \in DOMAIN f : f[x] \in Nat
    PROVE  SumOf(f) = Total(f, DOMAIN f) /\ SumOf(f) \in Nat
<1>1. SumOf(f) = Total(f, DOMAIN f)
  BY FoldIsTotal DEF SumOf, FoldFunction, FoldFunctionOnSet, MapThenFoldSet, Chosen
<1> QED  BY <1>1, TotalNatural

\* Totals depend on the values alone.
LEMMA TotalAgrees ==
    ASSUME NEW f, NEW g, NEW S, \A x \in S : f[x] = g[x]
    PROVE  Total(f, S) = Total(g, S)
<1>1. Units(f, S) = Units(g, S)
  BY DEF Units
<1> QED  BY <1>1 DEF Total

\* The parts of a pair.
LEMMA PairParts ==
    ASSUME NEW u, NEW v
    PROVE  \E p : p = <<u, v>> /\ p[1] = u /\ p[2] = v
<1>1. <<u, v>>[1] = u /\ <<u, v>>[2] = v
  OBVIOUS
<1>2. PICK p : p = <<u, v>>
  OBVIOUS
<1>3. p[1] = u /\ p[2] = v
  BY <1>1, <1>2
<1> QED  BY <1>2, <1>3

\* Counts per user and window, one of which is set.
Settles(f, g, key, n) == DOMAIN g = DOMAIN f \cup {key} /\ \A x \in DOMAIN g : g[x] = IF x = key THEN n ELSE f[x]
UsersOk(f) == IsFiniteSet(DOMAIN f) /\ PanesOk(f)
Members(f, w) == {u \in {p[1] : p \in DOMAIN f} : <<u, w>> \in DOMAIN f}

\* A window's users, and their sum.
LEMMA WindowMembers ==
    ASSUME NEW f, UsersOk(f), NEW w
    PROVE  /\ DOMAIN InWindow(f, w) = Members(f, w) /\ IsFiniteSet(Members(f, w))
           /\ \A u \in Members(f, w) : InWindow(f, w)[u] = f[<<u, w>>] /\ f[<<u, w>>] \in Nat
           /\ SumOf(InWindow(f, w)) = Total(InWindow(f, w), Members(f, w))
           /\ SumOf(InWindow(f, w)) \in Nat
<1>1. \A p \in DOMAIN f : p = <<p[1], p[2]>> /\ f[p] \in Nat
  BY DEF UsersOk, PanesOk, Tally
<1>2. {p[1] : p \in {q \in DOMAIN f : q[2] = w}} = Members(f, w)
  <2>1. ASSUME NEW u \in Members(f, w) PROVE u \in {p[1] : p \in {q \in DOMAIN f : q[2] = w}}
    <3>1. PICK p : p = <<u, w>> /\ p \in DOMAIN f /\ p[1] = u /\ p[2] = w
      BY DEF Members
    <3> QED  BY <3>1
  <2>2. ASSUME NEW p \in DOMAIN f, p[2] = w PROVE p[1] \in Members(f, w)
    <3>1. <<p[1], w>> \in DOMAIN f
      BY <1>1, <2>2
    <3> QED  BY <3>1 DEF Members
  <2> QED  BY <2>1, <2>2
<1>3. PICK g : g = InWindow(f, w) /\ g = [u \in Members(f, w) |-> f[<<u, w>>]]
  BY <1>2 DEF InWindow
<1>4. \A u \in Members(f, w) : <<u, w>> \in DOMAIN f
  BY DEF Members
<1>5. DOMAIN g = Members(f, w) /\ \A u \in Members(f, w) : g[u] = f[<<u, w>>] /\ f[<<u, w>>] \in Nat
  BY <1>1, <1>3, <1>4
<1>6. IsFiniteSet(Members(f, w))
  <2>1. PICK T : T = {p[1] : p \in DOMAIN f}
    OBVIOUS
  <2>2. [p \in DOMAIN f |-> p[1]] \in Surjection(DOMAIN f, T)
    BY <2>1 DEF Surjection
  <2>3. IsFiniteSet(T)
    BY <2>2, FS_Surjection DEF UsersOk
  <2>4. Members(f, w) \subseteq T
    BY <2>1 DEF Members
  <2> QED  BY <2>3, <2>4, FS_Subset
<1>7. SumOf(g) = Total(g, DOMAIN g) /\ SumOf(g) \in Nat
  BY <1>5, <1>6, SumOfIsTotal
<1> QED  BY <1>3, <1>5, <1>6, <1>7

\* What a window's users sum up to when one of them is set to a number.
LEMMA SettledWindow ==
    ASSUME NEW f, UsersOk(f), NEW u, NEW w \in Nat, NEW n \in Nat \ {0}, NEW g, Settles(f, g, <<u, w>>, n),
           g = [x \in DOMAIN g |-> g[x]]
    PROVE  /\ UsersOk(g)
           /\ \A v : v # w => SumOf(InWindow(g, v)) = SumOf(InWindow(f, v))
           /\ SumOf(InWindow(g, w)) = n + SumOf(InWindow(f, w)) - At(f, <<u, w>>)
<1>1. PICK key : key = <<u, w>> /\ key[1] = u /\ key[2] = w
  BY PairParts
<1>2. \A x \in DOMAIN f : x = <<x[1], x[2]>> /\ x[2] \in Nat /\ f[x] \in Nat /\ f[x] > 0
  BY DEF UsersOk, PanesOk, Tally
<1>3. UsersOk(g)
  <2>1. IsFiniteSet(DOMAIN g)
    BY <1>1, FS_AddElement DEF Settles, UsersOk
  <2>2. \A x \in DOMAIN g : x = <<x[1], x[2]>> /\ x[2] \in Nat /\ g[x] \in Nat /\ g[x] > 0
    BY <1>1, <1>2 DEF Settles
  <2> QED  BY <2>1, <2>2 DEF UsersOk, PanesOk, Tally
<1>4. ASSUME NEW v
      PROVE  /\ v # w => Members(g, v) = Members(f, v)
             /\ v = w => Members(g, v) = Members(f, v) \cup {u}
             /\ \A x \in Members(g, v) : g[<<x, v>>] = IF x = u /\ v = w THEN n ELSE f[<<x, v>>]
  <2>1. \A x : <<x, v>> = <<u, w>> <=> x = u /\ v = w
    OBVIOUS
  <2>2. ASSUME NEW x PROVE x \in Members(f, v) <=> <<x, v>> \in DOMAIN f
    <3>1. PICK p : p = <<x, v>> /\ p[1] = x
      BY PairParts
    <3> QED  BY <3>1 DEF Members
  <2>3. ASSUME NEW x PROVE x \in Members(g, v) <=> <<x, v>> \in DOMAIN g
    <3>1. PICK p : p = <<x, v>> /\ p[1] = x
      BY PairParts
    <3> QED  BY <3>1 DEF Members
  <2>4. ASSUME NEW x PROVE <<x, v>> \in DOMAIN g <=> <<x, v>> \in DOMAIN f \/ (x = u /\ v = w)
    BY <2>1 DEF Settles
  <2>5. \A x : x \in Members(g, v) <=> x \in Members(f, v) \/ (x = u /\ v = w)
    BY <2>2, <2>3, <2>4
  <2>6. ASSUME NEW x \in Members(g, v) PROVE g[<<x, v>>] = IF x = u /\ v = w THEN n ELSE f[<<x, v>>]
    BY <2>1, <2>3, <2>6 DEF Settles
  <2> QED  BY <2>5, <2>6
<1>5. ASSUME NEW v, v # w PROVE SumOf(InWindow(g, v)) = SumOf(InWindow(f, v))
  <2>1. PICK S, a, b : S = Members(f, v) /\ a = InWindow(f, v) /\ b = InWindow(g, v)
    OBVIOUS
  <2>2. S = Members(g, v) /\ \A x \in S : g[<<x, v>>] = f[<<x, v>>]
    BY <1>4, <1>5, <2>1
  <2>3. /\ \A x \in S : a[x] = f[<<x, v>>] /\ b[x] = g[<<x, v>>]
        /\ SumOf(a) = Total(a, S) /\ SumOf(b) = Total(b, S)
    BY <1>3, <2>1, <2>2, WindowMembers
  <2>4. \A x \in S : a[x] = b[x]
    BY <2>2, <2>3
  <2>5. Total(a, S) = Total(b, S)
    BY <2>4, TotalAgrees
  <2> QED  BY <2>1, <2>3, <2>5
<1>6. SumOf(InWindow(g, w)) = n + SumOf(InWindow(f, w)) - At(f, <<u, w>>)
  <2>1. PICK S, R, a, b : S = Members(f, w) /\ R = S \ {u} /\ a = InWindow(f, w) /\ b = InWindow(g, w)
    OBVIOUS
  <2>2. /\ IsFiniteSet(S) /\ \A x \in S : a[x] = f[<<x, w>>] /\ a[x] \in Nat
        /\ SumOf(a) = Total(a, S) /\ SumOf(a) \in Nat
    BY <2>1, WindowMembers
  <2>3. /\ IsFiniteSet(S \cup {u}) /\ \A x \in S \cup {u} : b[x] = g[<<x, w>>] /\ b[x] \in Nat
        /\ SumOf(b) = Total(b, S \cup {u})
    BY <1>3, <1>4, <2>1, WindowMembers
  <2>4. b[u] = n /\ \A x \in R : b[x] = a[x]
    BY <1>4, <2>1, <2>2, <2>3
  <2>5. Total(b, S \cup {u}) = n + Total(b, R)
    <3>1. PICK T : T = S \cup {u}
      OBVIOUS
    <3>2. u \in T /\ T \ {u} = R
      BY <2>1, <3>1
    <3>3. IsFiniteSet(T) /\ \A x \in T : b[x] \in Nat
      BY <2>3, <3>1
    <3>4. Total(b, T) = b[u] + Total(b, T \ {u})
      BY <3>2, <3>3, TotalRemoves
    <3> QED  BY <2>4, <3>1, <3>2, <3>4
  <2>6. Total(b, R) = Total(a, R)
    BY <2>4, TotalAgrees
  <2>7. IsFiniteSet(R) /\ Total(a, R) \in Nat
    <3>1. IsFiniteSet(R) /\ \A x \in R : a[x] \in Nat
      BY <2>1, <2>2, FS_Subset
    <3> QED  BY <3>1, TotalNatural
  <2>8. Total(a, S) = At(f, <<u, w>>) + Total(a, R) /\ At(f, <<u, w>>) \in Nat
    <3>1. CASE u \in S
      <4>1. <<u, w>> \in DOMAIN f
        BY <2>1, <3>1 DEF Members
      <4>2. At(f, <<u, w>>) = a[u] /\ a[u] \in Nat
        BY <2>2, <3>1, <4>1 DEF At
      <4>3. Total(a, S) = a[u] + Total(a, S \ {u})
        BY <2>2, <3>1, TotalRemoves
      <4> QED  BY <2>1, <4>2, <4>3
    <3>2. CASE u \notin S
      <4>1. <<u, w>> \notin DOMAIN f
        <5>1. PICK p : p = <<u, w>> /\ p[1] = u
          BY PairParts
        <5> QED  BY <2>1, <3>2, <5>1 DEF Members
      <4>2. At(f, <<u, w>>) = 0 /\ R = S
        BY <2>1, <3>2, <4>1 DEF At
      <4> QED  BY <2>7, <4>2
    <3> QED  BY <3>1, <3>2
  <2> QED  BY <2>1, <2>2, <2>3, <2>5, <2>6, <2>7, <2>8
<1> QED  BY <1>3, <1>5, <1>6

\* The keys of a window.
OfWindow(f, w) == {q \in DOMAIN f : q[2] = w}

\* A window whose users are taken out sums up to nothing, the others stay.
LEMMA EmptiedWindow ==
    ASSUME NEW f, UsersOk(f), NEW w, NEW g, g = Without(f, OfWindow(f, w))
    PROVE  /\ UsersOk(g) /\ DOMAIN g \subseteq DOMAIN f
           /\ \A v : SumOf(InWindow(g, v)) = IF v = w THEN 0 ELSE SumOf(InWindow(f, v))
<1>1. DOMAIN g = DOMAIN f \ {q \in DOMAIN f : q[2] = w} /\ \A x \in DOMAIN g : g[x] = f[x]
  BY DEF Without, OfWindow
<1>2. UsersOk(g)
  <2>1. IsFiniteSet(DOMAIN g)
    BY <1>1, FS_Subset DEF UsersOk
  <2>2. PanesOk(g)
    BY TallyShrinks DEF UsersOk
  <2> QED  BY <2>1, <2>2 DEF UsersOk
<1>3. ASSUME NEW v, NEW u PROVE (u \in Members(f, v) <=> <<u, v>> \in DOMAIN f) /\ (u \in Members(g, v) <=> <<u, v>> \in DOMAIN g)
  <2>1. PICK p : p = <<u, v>> /\ p[1] = u
    BY PairParts
  <2> QED  BY <2>1 DEF Members
<1>4. ASSUME NEW v PROVE SumOf(InWindow(g, v)) = IF v = w THEN 0 ELSE SumOf(InWindow(f, v))
  <2>1. PICK a, b : a = InWindow(f, v) /\ b = InWindow(g, v)
    OBVIOUS
  <2>2. /\ \A u \in Members(f, v) : a[u] = f[<<u, v>>]
        /\ \A u \in Members(g, v) : b[u] = g[<<u, v>>]
        /\ SumOf(a) = Total(a, Members(f, v)) /\ SumOf(b) = Total(b, Members(g, v))
    BY <1>2, <2>1, WindowMembers
  <2>3. \A u : <<u, v>>[2] = v
    OBVIOUS
  <2>4. CASE v = w
    <3>1. \A u : <<u, v>> \notin DOMAIN g
      BY <1>1, <2>3, <2>4
    <3>2. Members(g, v) = {}
      BY <1>3, <3>1
    <3>3. Units(b, {}) = {}
      BY DEF Units
    <3> QED  BY <2>1, <2>2, <2>4, <3>2, <3>3, FS_EmptySet DEF Total
  <2>5. CASE v # w
    <3>1. \A u : <<u, v>> \in DOMAIN g <=> <<u, v>> \in DOMAIN f
      BY <1>1, <2>3, <2>5
    <3>2. PICK S, T : S = Members(f, v) /\ T = Members(g, v)
      OBVIOUS
    <3>4. \A x : x \in S <=> x \in T
      BY <1>3, <3>1, <3>2
    <3>5. S = T
      BY <3>4
    <3>3. \A u \in S : a[u] = b[u]
      BY <1>1, <1>3, <2>2, <3>2, <3>5
    <3>6. Total(a, S) = Total(b, S)
      BY <3>3, TotalAgrees
    <3> QED  BY <2>1, <2>2, <2>5, <3>2, <3>5, <3>6
  <2> QED  BY <2>4, <2>5
<1> QED  BY <1>1, <1>2, <1>4

-----------------------------------------------------------------------------
(* What the live job's rows say of a window                                *)

\* A row of the live job; a window with one, and one with two of a user; what
\* the rows of a window add up to.
Live(x, u, w) == x.by = "live" /\ x.user = u /\ x.win = w
Has(s, u, w) == \E i \in 1..Len(s) : Live(s[i], u, w)
Twice(s, w) == \E i, k \in 1..Len(s) : i # k /\ \E u : Live(s[i], u, w) /\ Live(s[k], u, w)
Left(s, w) == Sum(Told(s, "live", None, w))
SameRows(s, t) ==
    /\ \A u, w : Has(s, u, w) <=> Has(t, u, w)
    /\ \A w : (Twice(s, w) <=> Twice(t, w)) /\ Left(s, w) = Left(t, w)

LEMMA LeftNatural == ASSUME NEW s, AreCounts(s), NEW w PROVE Left(s, w) \in Nat
BY ToldNumbers, SumNatural DEF Left

\* Rows put together: a user is there twice if it is in both.
LEMMA LiveConcat ==
    ASSUME NEW a, AreCounts(a), NEW b, AreCounts(b)
    PROVE  /\ \A u, w : Has(a \o b, u, w) <=> Has(a, u, w) \/ Has(b, u, w)
           /\ \A w : Twice(a \o b, w) <=> Twice(a, w) \/ Twice(b, w) \/ \E u : Has(a, u, w) /\ Has(b, u, w)
           /\ \A w : Left(a \o b, w) = Left(a, w) + Left(b, w)
<1>1. PICK S : S = Range(a) \cup Range(b)
  OBVIOUS
<1>2. a \in Seq(S) /\ b \in Seq(S)
  BY <1>1 DEF AreCounts
<1>3. PICK m \in Nat, n \in Nat : m = Len(a) /\ n = Len(b)
  BY <1>2
<1>0. PICK c : c = a \o b
  OBVIOUS
<1>4. c = a \o b /\ Len(c) = m + n /\ \A i \in 1..(m + n) : c[i] = IF i <= m THEN a[i] ELSE b[i - m]
  BY <1>0, <1>2, <1>3, ConcatPlaces
<1>5. /\ \A i \in 1..m : i \in 1..(m + n) /\ c[i] = a[i]
      /\ \A i \in 1..n : i + m \in 1..(m + n) /\ i + m \notin 1..m /\ c[i + m] = b[i]
  <2>1. ASSUME NEW i \in 1..n PROVE i + m \in 1..(m + n) /\ i + m \notin 1..m /\ c[i + m] = b[i]
    <3>1. i + m \in 1..(m + n) /\ ~(i + m <= m) /\ (i + m) - m = i
      OBVIOUS
    <3> QED  BY <1>4, <3>1
  <2>2. ASSUME NEW i \in 1..m PROVE i \in 1..(m + n) /\ c[i] = a[i]
    BY <1>4
  <2> QED  BY <2>1, <2>2
<1>6. \A i \in 1..(m + n) : (i \in 1..m /\ c[i] = a[i]) \/ (i - m \in 1..n /\ c[i] = b[i - m])
  BY <1>4
<1>7. ASSUME NEW u, NEW w PROVE Has(c, u, w) <=> Has(a, u, w) \/ Has(b, u, w)
  <2>1. Has(c, u, w) => Has(a, u, w) \/ Has(b, u, w)
    BY <1>3, <1>4, <1>6 DEF Has
  <2>2. Has(a, u, w) \/ Has(b, u, w) => Has(c, u, w)
    BY <1>3, <1>4, <1>5 DEF Has
  <2> QED  BY <2>1, <2>2
<1>8. ASSUME NEW w PROVE Twice(c, w) <=> Twice(a, w) \/ Twice(b, w) \/ \E u : Has(a, u, w) /\ Has(b, u, w)
  <2>0. ASSUME NEW i \in 1..(m + n), NEW k \in 1..(m + n), NEW u, i # k, Live(c[i], u, w), Live(c[k], u, w)
        PROVE  Twice(c, w)
    BY <1>4, <2>0 DEF Twice
  <2>1. ASSUME Twice(c, w) PROVE Twice(a, w) \/ Twice(b, w) \/ \E u : Has(a, u, w) /\ Has(b, u, w)
    <3>1. PICK i, k, u : /\ i \in 1..(m + n) /\ k \in 1..(m + n) /\ i # k /\ Live(c[i], u, w) /\ Live(c[k], u, w)
      BY <1>4, <2>1 DEF Twice
    <3>2. CASE i \in 1..m /\ c[i] = a[i] /\ k \in 1..m /\ c[k] = a[k]
      BY <1>3, <3>1, <3>2 DEF Twice
    <3>3. CASE i - m \in 1..n /\ c[i] = b[i - m] /\ k - m \in 1..n /\ c[k] = b[k - m]
      <4>1. i - m # k - m
        BY <3>1
      <4> QED  BY <1>3, <3>1, <3>3, <4>1 DEF Twice
    <3>4. CASE i \in 1..m /\ c[i] = a[i] /\ k - m \in 1..n /\ c[k] = b[k - m]
      BY <1>3, <3>1, <3>4 DEF Has
    <3>5. CASE i - m \in 1..n /\ c[i] = b[i - m] /\ k \in 1..m /\ c[k] = a[k]
      BY <1>3, <3>1, <3>5 DEF Has
    <3> QED  BY <1>6, <3>1, <3>2, <3>3, <3>4, <3>5
  <2>2. ASSUME Twice(a, w) PROVE Twice(c, w)
    <3>1. PICK i, k, u : /\ i \in 1..m /\ k \in 1..m /\ i # k /\ Live(a[i], u, w) /\ Live(a[k], u, w)
      BY <1>3, <2>2 DEF Twice
    <3> QED  BY <1>5, <2>0, <3>1
  <2>3. ASSUME Twice(b, w) PROVE Twice(c, w)
    <3>1. PICK i, k, u : /\ i \in 1..n /\ k \in 1..n /\ i # k /\ Live(b[i], u, w) /\ Live(b[k], u, w)
      BY <1>3, <2>3 DEF Twice
    <3>2. i + m # k + m
      BY <3>1
    <3> QED  BY <1>5, <2>0, <3>1, <3>2
  <2>4. ASSUME NEW u, Has(a, u, w), Has(b, u, w) PROVE Twice(c, w)
    <3>1. PICK i \in 1..m, k \in 1..n : Live(a[i], u, w) /\ Live(b[k], u, w)
      BY <1>3, <2>4 DEF Has
    <3>2. i # k + m
      BY <1>5
    <3>3. /\ i \in 1..(m + n) /\ c[i] = a[i]
          /\ k + m \in 1..(m + n) /\ c[k + m] = b[k]
      BY <1>5
    <3> QED  BY <2>0, <3>1, <3>2, <3>3
  <2> QED  BY <2>1, <2>2, <2>3, <2>4
<1>9. \A w : Left(a \o b, w) = Left(a, w) + Left(b, w)
  BY ToldConcat DEF Left
<1> QED  BY <1>4, <1>7, <1>8, <1>9

\* One more row of the live job.
LEMMA LiveAppend ==
    ASSUME NEW s, AreCounts(s), NEW x, IsCount(x), x.by = "live"
    PROVE  /\ \A u, w : Has(Append(s, x), u, w) <=> Has(s, u, w) \/ (u = x.user /\ w = x.win)
           /\ \A w : Twice(Append(s, x), w) <=> Twice(s, w) \/ (w = x.win /\ Has(s, x.user, w))
           /\ \A w : Left(Append(s, x), w) = Left(s, w) + IF w = x.win THEN x.n ELSE 0
<1>1. PICK S : S = Range(s) \cup {x}
  OBVIOUS
<1>2. s \in Seq(S) /\ x \in S
  BY <1>1 DEF AreCounts
<1>3. PICK n \in Nat : n = Len(s)
  BY <1>2
<1>0. PICK c : c = Append(s, x)
  OBVIOUS
<1>4. c = Append(s, x) /\ Len(c) = n + 1 /\ c[n + 1] = x /\ \A i \in 1..n : c[i] = s[i]
  BY <1>0, <1>2, <1>3
<1>5. n + 1 \in 1..(n + 1) /\ n + 1 \notin 1..n /\ \A i \in 1..(n + 1) : i \in 1..n \/ i = n + 1
  OBVIOUS
<1>6. \A i \in 1..n : i \in 1..(n + 1)
  OBVIOUS
<1>7. \A u, w : Live(x, u, w) <=> u = x.user /\ w = x.win
  BY DEF Live
<1>8. \A u, w : Has(c, u, w) <=> Has(s, u, w) \/ (u = x.user /\ w = x.win)
  BY <1>3, <1>4, <1>5, <1>6, <1>7 DEF Has
<1>9. ASSUME NEW w PROVE Twice(c, w) <=> Twice(s, w) \/ (w = x.win /\ Has(s, x.user, w))
  <2>1. ASSUME Twice(c, w) PROVE Twice(s, w) \/ (w = x.win /\ Has(s, x.user, w))
    <3>1. PICK i, k, u : /\ i \in 1..(n + 1) /\ k \in 1..(n + 1) /\ i # k /\ Live(c[i], u, w) /\ Live(c[k], u, w)
      BY <1>4, <2>1 DEF Twice
    <3>2. CASE i \in 1..n /\ k \in 1..n
      BY <1>3, <1>4, <3>1, <3>2 DEF Twice
    <3>3. CASE i = n + 1 /\ k \in 1..n
      BY <1>3, <1>4, <1>7, <3>1, <3>3 DEF Has
    <3>4. CASE k = n + 1 /\ i \in 1..n
      BY <1>3, <1>4, <1>7, <3>1, <3>4 DEF Has
    <3> QED  BY <1>5, <3>1, <3>2, <3>3, <3>4
  <2>2. Twice(s, w) => Twice(c, w)
    BY <1>3, <1>4, <1>6 DEF Twice
  <2>3. ASSUME w = x.win, Has(s, x.user, w) PROVE Twice(c, w)
    <3>1. PICK i \in 1..n : Live(s[i], x.user, w)
      BY <1>3, <2>3 DEF Has
    <3>2. i # n + 1 /\ Live(c[n + 1], x.user, w) /\ Live(c[i], x.user, w)
      BY <1>4, <1>5, <1>7, <2>3, <3>1
    <3> QED  BY <1>4, <1>5, <1>6, <3>2 DEF Twice
  <2> QED  BY <2>1, <2>2, <2>3
<1>10. \A w : Says(x, "live", None, w) = IF w = x.win THEN x.n ELSE 0
  BY DEF Says
<1>11. \A w : Left(Append(s, x), w) = Left(s, w) + IF w = x.win THEN x.n ELSE 0
  BY <1>10, ToldAppend DEF Left
<1> QED  BY <1>4, <1>8, <1>9, <1>11

\* No rows, and another job's, say nothing.
LEMMA LiveForeign ==
    ASSUME NEW s, \A i \in 1..Len(s) : s[i].by # "live"
    PROVE  \A u, w : ~Has(s, u, w) /\ ~Twice(s, w) /\ Left(s, w) = 0
<1>1. \A u, w : ~Has(s, u, w) /\ ~Twice(s, w)
  BY DEF Has, Twice, Live
<1> QED  BY <1>1, ToldByOthers DEF Left

\* Rows that a job hands over say what they said.
LEMMA RowsHandedOver ==
    ASSUME NEW tb, AreCounts(tb), NEW rs, AreCounts(rs)
    PROVE  SameRows(tb \o rs, (tb \o rs) \o <<>>) /\ SameRows(tb \o <<>>, tb)
<1>1. \A u, w : ~Has(<<>>, u, w) /\ ~Twice(<<>>, w) /\ Left(<<>>, w) = 0
  <2>1. Len(<<>>) = 0 /\ \A i \in 1..Len(<<>>) : <<>>[i].by # "live"
    OBVIOUS
  <2> QED  BY <2>1, LiveForeign
<1>2. AreCounts(<<>>) /\ AreCounts(tb \o rs)
  BY CountsOfNone, CountsConcat
<1>3. ASSUME NEW s, AreCounts(s) PROVE SameRows(s \o <<>>, s) /\ SameRows(s, s \o <<>>)
  <2>1. \A w : Left(s, w) \in Nat
    BY <1>3, LeftNatural
  <2> QED  BY <1>1, <1>2, <1>3, <2>1, LiveConcat DEF SameRows
<1> QED  BY <1>2, <1>3

\* Another job's rows that are committed in between.
LEMMA RowsOfOthers ==
    ASSUME NEW tb, AreCounts(tb), NEW rs, AreCounts(rs), NEW xs, AreCounts(xs), \A i \in 1..Len(xs) : xs[i].by # "live"
    PROVE  SameRows(tb \o rs, (tb \o xs) \o rs) /\ SameRows(tb, tb \o xs)
<1>1. \A u, w : ~Has(xs, u, w) /\ ~Twice(xs, w) /\ Left(xs, w) = 0
  BY LiveForeign
<1>2. AreCounts(tb \o xs)
  BY CountsConcat
<1>3. \A w : Left(tb, w) \in Nat /\ Left(rs, w) \in Nat
  BY LeftNatural
<1>4. SameRows(tb, tb \o xs)
  BY <1>1, <1>3, LiveConcat DEF SameRows
<1>5. PICK t : t = tb \o xs
  OBVIOUS
<1>6. /\ \A u, w : Has(t \o rs, u, w) <=> Has(t, u, w) \/ Has(rs, u, w)
      /\ \A w : Twice(t \o rs, w) <=> Twice(t, w) \/ Twice(rs, w) \/ \E u : Has(t, u, w) /\ Has(rs, u, w)
      /\ \A w : Left(t \o rs, w) = Left(t, w) + Left(rs, w)
  BY <1>2, <1>5, LiveConcat
<1>7. /\ \A u, w : Has(tb \o rs, u, w) <=> Has(tb, u, w) \/ Has(rs, u, w)
      /\ \A w : Twice(tb \o rs, w) <=> Twice(tb, w) \/ Twice(rs, w) \/ \E u : Has(tb, u, w) /\ Has(rs, u, w)
      /\ \A w : Left(tb \o rs, w) = Left(tb, w) + Left(rs, w)
  BY LiveConcat
<1>8. SameRows(tb \o rs, t \o rs)
  BY <1>4, <1>5, <1>6, <1>7 DEF SameRows
<1> QED  BY <1>4, <1>5, <1>8

-----------------------------------------------------------------------------
(* What the snapshots tell of the windows                                  *)

\* What is told of a window: in the snapshots, and for the next one.
Snapped(r, w) == At(r.flushed, w) + SumOf(InWindow(r.users, w))

\* The snapshots tell of what has left a window, and nothing else; a user that
\* waits for the next one has a row.
SnapOk(r, s) ==
    /\ UsersOk(r.users) /\ \A w \in DOMAIN r.flushed : r.flushed[w] \in Nat
    /\ \A w : Snapped(r, w) <= Left(s, w) /\ (Twice(s, w) \/ Snapped(r, w) = Left(s, w))
    /\ \A p \in DOMAIN r.users : Has(s, p[1], p[2])

\* Before the first crash: what has a row is over, and is not counted again.
FirstRun(r, s) ==
    /\ r.pc # "down" /\ r.mark \in Int
    /\ \A w : ~Twice(s, w)
    /\ \A u, w : Has(s, u, w) => w \in Nat /\ EndOf(w) - 1 <= r.mark
    /\ \A p \in DOMAIN r.panes : ~Has(s, p[1], p[2])

LEMMA SnappedNatural ==
    ASSUME NEW r, NEW s, SnapOk(r, s), NEW w
    PROVE  Snapped(r, w) \in Nat /\ At(r.flushed, w) \in Nat /\ SumOf(InWindow(r.users, w)) \in Nat
<1>1. PICK f : f = r.users /\ UsersOk(f)
  BY DEF SnapOk
<1>2. SumOf(InWindow(f, w)) \in Nat
  BY <1>1, WindowMembers
<1>3. At(r.flushed, w) \in Nat
  BY DEF SnapOk, At
<1> QED  BY <1>1, <1>2, <1>3 DEF Snapped

\* A step that moves neither snapshots nor rows.
LEMMA SnapsStay ==
    ASSUME NEW r, NEW s, SnapOk(r, s), NEW rec, NEW t, SameRows(s, t), rec.users = r.users, rec.flushed = r.flushed
    PROVE  SnapOk(rec, t)
BY DEF SnapOk, SameRows, Snapped

\* A step in which time passes and no window that is over is opened.
LEMMA FirstStays ==
    ASSUME NEW r, NEW s, FirstRun(r, s), NEW rec, NEW t, SameRows(s, t), rec.pc # "down",
           rec.mark \in Int, r.mark <= rec.mark,
           \A p \in DOMAIN rec.panes : p \in DOMAIN r.panes \/ ~(EndOf(p[2]) - 1 <= r.mark)
    PROVE  FirstRun(rec, t)
<1>1. \A w : ~Twice(t, w)
  BY DEF FirstRun, SameRows
<1>2. ASSUME NEW u, NEW w, Has(t, u, w) PROVE w \in Nat /\ EndOf(w) - 1 <= rec.mark
  <2>1. w \in Nat /\ EndOf(w) - 1 <= r.mark
    BY <1>2 DEF FirstRun, SameRows
  <2>2. PICK e \in Int : e = EndOf(w)
    BY <2>1, StreamAssumption DEF EndOf
  <2> QED  BY <2>1, <2>2 DEF FirstRun
<1>3. ASSUME NEW p \in DOMAIN rec.panes PROVE ~Has(t, p[1], p[2])
  <2>1. Has(t, p[1], p[2]) => Has(s, p[1], p[2])
    BY DEF SameRows
  <2> QED  BY <2>1 DEF FirstRun
<1> QED  BY <1>1, <1>2, <1>3 DEF FirstRun

\* A number is added to one place.
LEMMA AtPlus ==
    ASSUME NEW f, \A x \in DOMAIN f : f[x] \in Nat, NEW key, NEW n \in Nat
    PROVE  /\ \A x \in DOMAIN Plus(f, key, n) : Plus(f, key, n)[x] \in Nat
           /\ \A x : At(Plus(f, key, n), x) = At(f, x) + IF x = key THEN n ELSE 0
<1>1. PICK g : g = Plus(f, key, n)
  OBVIOUS
<1>2. DOMAIN g = DOMAIN f \cup {key}
      /\ \A x \in DOMAIN g : g[x] = (IF x \in DOMAIN f THEN f[x] ELSE 0) + (IF x = key THEN n ELSE 0)
  BY <1>1 DEF Plus
<1>3. \A x \in DOMAIN g : g[x] \in Nat
  BY <1>2
<1>4. ASSUME NEW x PROVE At(g, x) = At(f, x) + IF x = key THEN n ELSE 0
  BY <1>2 DEF At
<1> QED  BY <1>1, <1>3, <1>4

\* A snapshot is emitted.
LEMMA SnapFlushed ==
    ASSUME NEW r, NEW s, SnapOk(r, s), NEW rec, NEW w,
           rec.users = Without(r.users, {q \in DOMAIN r.users : q[2] = w}),
           rec.flushed = Plus(r.flushed, w, SumOf(InWindow(r.users, w)))
    PROVE  SnapOk(rec, s)
<1>1. PICK f, g, n : f = r.users /\ g = rec.users /\ n = SumOf(InWindow(f, w))
  OBVIOUS
<1>2. UsersOk(f) /\ g = Without(f, OfWindow(f, w))
  BY <1>1 DEF SnapOk, OfWindow
<1>3. /\ UsersOk(g) /\ DOMAIN g \subseteq DOMAIN f
      /\ \A v : SumOf(InWindow(g, v)) = IF v = w THEN 0 ELSE SumOf(InWindow(f, v))
  BY <1>2, EmptiedWindow
<1>4. PICK a, c : a = r.flushed /\ c = rec.flushed
  OBVIOUS
<1>5. n \in Nat /\ c = Plus(a, w, n) /\ \A x \in DOMAIN a : a[x] \in Nat
  BY <1>1, <1>4, SnappedNatural DEF SnapOk
<1>6. /\ \A x \in DOMAIN c : c[x] \in Nat
      /\ \A v : At(c, v) = At(a, v) + IF v = w THEN n ELSE 0
  BY <1>5, AtPlus
<1>7. ASSUME NEW v PROVE Snapped(rec, v) = Snapped(r, v)
  <2>1. At(a, v) \in Nat /\ SumOf(InWindow(f, v)) \in Nat
    BY <1>1, <1>4, SnappedNatural
  <2>2. Snapped(rec, v) = At(c, v) + SumOf(InWindow(g, v)) /\ Snapped(r, v) = At(a, v) + SumOf(InWindow(f, v))
    BY <1>1, <1>4 DEF Snapped
  <2>3. CASE v = w
    BY <1>1, <1>3, <1>5, <1>6, <2>1, <2>2, <2>3
  <2>4. CASE v # w
    BY <1>3, <1>6, <2>1, <2>2, <2>4
  <2> QED  BY <2>3, <2>4
<1>8. \A p \in DOMAIN g : Has(s, p[1], p[2])
  BY <1>1, <1>3 DEF SnapOk
<1> QED  BY <1>1, <1>3, <1>4, <1>6, <1>7, <1>8 DEF SnapOk

\* A window's count becomes a row and, for the next snapshot, its user's count.
LEMMA SnapFired ==
    ASSUME NEW r, NEW s, SnapOk(r, s), AreCounts(s), NEW rec, NEW t, NEW x, IsCount(x), x.by = "live",
           NEW p, p = <<x.user, x.win>>, SameRows(Append(s, x), t), rec.flushed = r.flushed,
           rec.users = [q \in DOMAIN r.users \cup {p} |-> IF q = p THEN x.n ELSE r.users[q]]
    PROVE  SnapOk(rec, t)
<1>0. PICK f, g, u : f = r.users /\ g = rec.users /\ u = x.user
  OBVIOUS
<1>1. PICK w \in Nat, n \in Nat : f = r.users /\ g = rec.users /\ u = x.user /\ w = x.win /\ n = x.n /\ n # 0
  BY <1>0 DEF IsCount
<1>2. UsersOk(f) /\ p = <<u, w>>
  BY <1>1 DEF SnapOk
<1>3. DOMAIN g = DOMAIN f \cup {p} /\ (\A q \in DOMAIN g : g[q] = IF q = p THEN n ELSE f[q]) /\ g = [q \in DOMAIN g |-> g[q]]
  BY <1>1
<1>4. Settles(f, g, <<u, w>>, n)
  BY <1>2, <1>3 DEF Settles
<1>5. /\ UsersOk(g) /\ \A v : v # w => SumOf(InWindow(g, v)) = SumOf(InWindow(f, v))
      /\ SumOf(InWindow(g, w)) = n + SumOf(InWindow(f, w)) - At(f, <<u, w>>)
  <2>1. n \in Nat \ {0}
    BY <1>1
  <2> QED  BY <1>2, <1>3, <1>4, <2>1, SettledWindow
<1>6. /\ \A y, v : Has(t, y, v) <=> Has(s, y, v) \/ (y = u /\ v = w)
      /\ \A v : Twice(t, v) <=> Twice(s, v) \/ (v = w /\ Has(s, u, v))
      /\ \A v : Left(t, v) = Left(s, v) + IF v = w THEN n ELSE 0
  BY <1>1, LiveAppend DEF SameRows
<1>7. At(f, p) \in Nat /\ (At(f, p) # 0 => Has(s, u, w))
  <2>1. p[1] = u /\ p[2] = w
    BY <1>2
  <2>2. p \in DOMAIN f => Has(s, u, w) /\ f[p] \in Nat
    BY <1>1, <1>2, <2>1 DEF SnapOk, UsersOk, PanesOk, Tally
  <2> QED  BY <2>2 DEF At
<1>8. ASSUME NEW v PROVE Snapped(rec, v) <= Left(t, v) /\ (Twice(t, v) \/ Snapped(rec, v) = Left(t, v))
  <2>1. PICK a \in Nat, c \in Nat, l \in Nat : a = At(r.flushed, v) /\ c = SumOf(InWindow(f, v)) /\ l = Left(s, v)
    BY <1>1, SnappedNatural, LeftNatural
  <2>2. a + c <= l /\ (Twice(s, v) \/ a + c = l)
    BY <1>1, <2>1 DEF SnapOk, Snapped
  <2>3. Snapped(rec, v) = a + SumOf(InWindow(g, v))
    BY <1>1, <2>1 DEF Snapped
  <2>4. CASE v # w
    <3>1. Snapped(rec, v) = a + c /\ Left(t, v) = l /\ (Twice(t, v) <=> Twice(s, v))
      BY <1>5, <1>6, <2>1, <2>3, <2>4
    <3> QED  BY <2>2, <3>1
  <2>5. CASE v = w
    <3>1. PICK k \in Nat : k = At(f, p) /\ (k # 0 => Has(s, u, w))
      BY <1>7
    <3>2. Snapped(rec, v) = a + (n + c - k) /\ Left(t, v) = l + n /\ (Twice(t, v) <=> Twice(s, v) \/ Has(s, u, w))
      BY <1>2, <1>5, <1>6, <2>1, <2>3, <2>5, <3>1
    <3> QED  BY <2>2, <3>1, <3>2
  <2> QED  BY <2>4, <2>5
<1>9. ASSUME NEW q \in DOMAIN g PROVE Has(t, q[1], q[2])
  <2>1. CASE q \in DOMAIN f
    BY <1>1, <1>6, <2>1 DEF SnapOk
  <2>2. CASE q = p
    <3>1. q[1] = u /\ q[2] = w
      BY <1>2, <2>2
    <3> QED  BY <1>6, <3>1
  <2> QED  BY <1>3, <2>1, <2>2
<1>10. \A v \in DOMAIN rec.flushed : rec.flushed[v] \in Nat
  BY DEF SnapOk
<1> QED  BY <1>1, <1>5, <1>8, <1>9, <1>10 DEF SnapOk

\* Before the first crash a window that is fired had no row of its user.
LEMMA FirstFired ==
    ASSUME NEW r, NEW s, FirstRun(r, s), AreCounts(s), PanesOk(r.panes), NEW rec, NEW t, NEW x, IsCount(x), x.by = "live",
           NEW p \in DOMAIN r.panes, p = <<x.user, x.win>>, SameRows(Append(s, x), t), EndOf(x.win) - 1 <= r.mark,
           rec.pc # "down", rec.mark = r.mark, rec.panes = Without(r.panes, {p})
    PROVE  FirstRun(rec, t)
<1>0. PICK u : u = x.user
  OBVIOUS
<1>1. PICK w \in Nat : u = x.user /\ w = x.win /\ p = <<u, w>>
  BY <1>0 DEF IsCount
<1>2. /\ \A y, v : Has(t, y, v) <=> Has(s, y, v) \/ (y = u /\ v = w)
      /\ \A v : Twice(t, v) <=> Twice(s, v) \/ (v = w /\ Has(s, u, v))
  BY <1>1, LiveAppend DEF SameRows
<1>3. p[1] = u /\ p[2] = w
  BY <1>1
<1>4. ~Has(s, u, w)
  BY <1>3 DEF FirstRun
<1>5. \A v : ~Twice(t, v)
  BY <1>2, <1>4 DEF FirstRun
<1>6. \A y, v : Has(t, y, v) => v \in Nat /\ EndOf(v) - 1 <= rec.mark
  BY <1>1, <1>2 DEF FirstRun
<1>7. ASSUME NEW q \in DOMAIN rec.panes PROVE ~Has(t, q[1], q[2])
  <2>1. q \in DOMAIN r.panes /\ q # p
    BY DEF Without
  <2>2. q = <<q[1], q[2]>>
    BY <2>1 DEF PanesOk
  <2>3. ~(q[1] = u /\ q[2] = w)
    BY <1>1, <2>1, <2>2
  <2> QED  BY <1>2, <2>1, <2>3 DEF FirstRun
<1> QED  BY <1>5, <1>6, <1>7 DEF FirstRun

\* Rows in the table and those to come: one more of the live job.
LEMMA RowToCome ==
    ASSUME NEW tb, AreCounts(tb), NEW rs, AreCounts(rs), NEW x, IsCount(x), x.by = "live"
    PROVE  SameRows(Append(tb \o rs, x), tb \o Append(rs, x))
<1>1. AreCounts(tb \o rs) /\ AreCounts(Append(rs, x))
  BY CountsConcat, CountsAppend
<1>2. PICK s, t, a : s = tb \o rs /\ t = Append(rs, x) /\ a = tb \o t
  OBVIOUS
<1>3. /\ \A u, w : Has(Append(s, x), u, w) <=> Has(s, u, w) \/ (u = x.user /\ w = x.win)
      /\ \A w : Twice(Append(s, x), w) <=> Twice(s, w) \/ (w = x.win /\ Has(s, x.user, w))
      /\ \A w : Left(Append(s, x), w) = Left(s, w) + IF w = x.win THEN x.n ELSE 0
  BY <1>1, <1>2, LiveAppend
<1>4. /\ \A u, w : Has(t, u, w) <=> Has(rs, u, w) \/ (u = x.user /\ w = x.win)
      /\ \A w : Twice(t, w) <=> Twice(rs, w) \/ (w = x.win /\ Has(rs, x.user, w))
      /\ \A w : Left(t, w) = Left(rs, w) + IF w = x.win THEN x.n ELSE 0
  BY <1>2, LiveAppend
<1>5. /\ \A u, w : Has(a, u, w) <=> Has(tb, u, w) \/ Has(t, u, w)
      /\ \A w : Twice(a, w) <=> Twice(tb, w) \/ Twice(t, w) \/ \E u : Has(tb, u, w) /\ Has(t, u, w)
      /\ \A w : Left(a, w) = Left(tb, w) + Left(t, w)
  BY <1>1, <1>2, LiveConcat
<1>6. /\ \A u, w : Has(s, u, w) <=> Has(tb, u, w) \/ Has(rs, u, w)
      /\ \A w : Twice(s, w) <=> Twice(tb, w) \/ Twice(rs, w) \/ \E u : Has(tb, u, w) /\ Has(rs, u, w)
      /\ \A w : Left(s, w) = Left(tb, w) + Left(rs, w)
  BY <1>2, LiveConcat
<1>7. \A u, w : Has(Append(s, x), u, w) <=> Has(a, u, w)
  BY <1>3, <1>4, <1>5, <1>6
<1>8. \A w : Twice(Append(s, x), w) <=> Twice(a, w)
  BY <1>3, <1>4, <1>5, <1>6
<1>9. ASSUME NEW w PROVE Left(Append(s, x), w) = Left(a, w)
  <2>1. Left(tb, w) \in Nat /\ Left(rs, w) \in Nat /\ x.n \in Nat
    BY LeftNatural DEF IsCount
  <2> QED  BY <1>3, <1>4, <1>5, <1>6, <2>1
<1> QED  BY <1>2, <1>7, <1>8, <1>9 DEF SameRows

-----------------------------------------------------------------------------
(* The snapshots through the steps of the live job                         *)

\* The live job, its checkpoint, the table and the number of crashes.  A
\* finished job has handed over what its checkpoint does not have.
SnapState(r, k, tb, n) ==
    /\ n \in Nat /\ SnapOk(r, tb \o r.rows)
    /\ r.pc # "done" => SnapOk(k, tb)
    /\ n = 0 => FirstRun(r, tb \o r.rows)
TellInv == SnapState(job["live"], saved["live"], table, fails)
SnapInv == bus.iceberg => TellInv

LEMMA SameRowsTwice == \A s : SameRows(s, s)
BY DEF SameRows

\* Rows stay: messages are read, time passes, a snapshot is emitted, the job
\* is submitted or crashes.
LEMMA SnapWaits ==
    ASSUME NEW r, NEW k, NEW tb, NEW n, SnapState(r, k, tb, n), AreCounts(tb), AreCounts(r.rows),
           NEW rec, NEW c, NEW m \in Nat, r.pc # "done", rec.rows = r.rows,
           SameSnaps(r, rec) \/ Emits(r, rec),
           m = n \/ m = n + 1, rec.pc = "down" => m = n + 1,
           rec.mark \in Int, r.mark <= rec.mark,
           \A p \in DOMAIN rec.panes : p \in DOMAIN r.panes \/ ~(EndOf(p[2]) - 1 <= r.mark),
           c = k \/ (c = rec /\ rec.rows = <<>>)
    PROVE  SnapState(rec, c, tb, m)
<1>1. PICK s : s = tb \o r.rows /\ s = tb \o rec.rows
  OBVIOUS
<1>2. SnapOk(r, s) /\ SnapOk(k, tb) /\ n \in Nat
  BY <1>1 DEF SnapState
<1>3. SnapOk(rec, s)
  <2>1. CASE SameSnaps(r, rec)
    BY <1>2, <2>1, SnapsStay, SameRowsTwice DEF SameSnaps
  <2>2. ASSUME NEW w, rec.users = Without(r.users, {q \in DOMAIN r.users : q[2] = w}),
               rec.flushed = Plus(r.flushed, w, SumOf(InWindow(r.users, w)))
        PROVE  SnapOk(rec, s)
    BY <1>2, <2>2, SnapFlushed
  <2> QED  BY <2>1, <2>2 DEF Emits
<1>4. SnapOk(c, tb)
  <2>1. CASE c = k
    BY <1>2, <2>1
  <2>2. CASE c = rec /\ rec.rows = <<>>
    <3>1. SameRows(tb \o <<>>, tb)
      BY CountsOfNone, RowsHandedOver
    <3>2. SameRows(s, tb) /\ rec.users = rec.users /\ rec.flushed = rec.flushed
      BY <1>1, <2>2, <3>1
    <3>3. SnapOk(rec, tb)
      BY <1>3, <3>2, SnapsStay
    <3> QED  BY <2>2, <3>3
  <2> QED  BY <2>1, <2>2
<1>5. ASSUME m = 0 PROVE FirstRun(rec, s)
  <2>1. n = 0 /\ m # n + 1
    BY <1>2, <1>5
  <2>2. FirstRun(r, s) /\ rec.pc # "down"
    BY <1>1, <2>1 DEF SnapState
  <2> QED  BY <2>2, FirstStays, SameRowsTwice
<1> QED  BY <1>1, <1>3, <1>4, <1>5 DEF SnapState

\* A restart goes back to the checkpoint.
LEMMA SnapRestarts ==
    ASSUME NEW r, NEW k, NEW tb, NEW n, SnapState(r, k, tb, n), AreCounts(tb), r.pc = "down",
           NEW rec, rec.rows = <<>>, SameSnaps(k, rec)
    PROVE  SnapState(rec, k, tb, n)
<1>1. SnapOk(k, tb) /\ n \in Nat /\ n # 0
  BY DEF SnapState, FirstRun
<1>2. PICK s : s = tb \o <<>>
  OBVIOUS
<1>3. SameRows(s, tb)
  BY <1>2, CountsOfNone, RowsHandedOver
<1>4. SameRows(tb, s)
  BY <1>3 DEF SameRows
<1>5. SnapOk(rec, s)
  BY <1>1, <1>4, SnapsStay DEF SameSnaps
<1> QED  BY <1>1, <1>2, <1>5 DEF SnapState

\* A window of the live job is fired.
LEMMA SnapFires ==
    ASSUME NEW r, NEW k, NEW tb, NEW n, SnapState(r, k, tb, n), AreCounts(tb), AreCounts(r.rows), PanesOk(r.panes),
           NEW rec, NEW x, IsCount(x), Fired(r, rec, x, "live"), bus.iceberg, r.pc = "running", rec.pc = "running"
    PROVE  SnapState(rec, k, tb, n)
<1>1. PICK p \in DOMAIN r.panes :
         /\ p = <<x.user, x.win>> /\ EndOf(x.win) - 1 <= r.mark /\ x.by = "live"
         /\ rec.panes = Without(r.panes, {p}) /\ rec.rows = Append(r.rows, x)
         /\ rec.mark = r.mark /\ rec.flushed = r.flushed
         /\ rec.users = [q \in DOMAIN r.users \cup {p} |-> IF q = p THEN x.n ELSE r.users[q]]
  BY DEF Fired
<1>2. PICK s, t : s = tb \o r.rows /\ t = tb \o Append(r.rows, x)
  OBVIOUS
<1>3. SameRows(Append(s, x), t) /\ AreCounts(s)
  BY <1>1, <1>2, RowToCome, CountsConcat
<1>4. SnapOk(r, s) /\ SnapOk(k, tb) /\ n \in Nat /\ (n = 0 => FirstRun(r, s))
  BY <1>2 DEF SnapState
<1>5. SnapOk(rec, t)
  BY <1>1, <1>3, <1>4, SnapFired
<1>6. n = 0 => FirstRun(rec, t)
  <2>1. rec.pc # "down"
    OBVIOUS
  <2> QED  BY <1>1, <1>3, <1>4, <2>1, FirstFired
<1> QED  BY <1>1, <1>2, <1>4, <1>5, <1>6 DEF SnapState

\* The live job's rows are committed.
LEMMA SnapCommits ==
    ASSUME NEW r, NEW k, NEW tb, NEW n, SnapState(r, k, tb, n), AreCounts(tb), AreCounts(r.rows),
           NEW rec, NEW c, rec.rows = <<>>, rec.pc \in {"running", "done"},
           rec.panes = r.panes, rec.mark = r.mark, SameSnaps(r, rec),
           c = rec \/ (c = k /\ rec.pc = "done")
    PROVE  SnapState(rec, c, tb \o r.rows, n)
<1>1. PICK s, t : s = tb \o r.rows /\ t = s \o <<>>
  OBVIOUS
<1>2. SameRows(s, t)
  BY <1>1, RowsHandedOver
<1>3. SnapOk(r, s) /\ n \in Nat /\ (n = 0 => FirstRun(r, s))
  BY <1>1 DEF SnapState
<1>4. SnapOk(rec, t) /\ SnapOk(rec, s)
  BY <1>2, <1>3, SnapsStay, SameRowsTwice DEF SameSnaps
<1>5. ASSUME n = 0 PROVE FirstRun(rec, t)
  <2>1. FirstRun(r, s) /\ rec.pc # "down"
    BY <1>3, <1>5
  <2>2. PICK mark \in Int : mark = r.mark /\ mark <= mark
    BY <2>1 DEF FirstRun
  <2>3. rec.mark \in Int /\ r.mark <= rec.mark /\ \A p \in DOMAIN rec.panes : p \in DOMAIN r.panes
    BY <2>2
  <2> QED  BY <1>2, <2>1, <2>3, FirstStays
<1> QED  BY <1>1, <1>3, <1>4, <1>5 DEF SnapState

\* The other job's rows are committed.
LEMMA SnapsOfOthers ==
    ASSUME NEW r, NEW k, NEW tb, NEW n, SnapState(r, k, tb, n), AreCounts(tb), AreCounts(r.rows),
           NEW xs, AreCounts(xs), \A i \in 1..Len(xs) : xs[i].by # "live"
    PROVE  SnapState(r, k, tb \o xs, n)
<1>1. PICK s, t : s = tb \o r.rows /\ t = (tb \o xs) \o r.rows
  OBVIOUS
<1>2. SameRows(s, t) /\ SameRows(tb, tb \o xs)
  BY <1>1, RowsOfOthers
<1>3. SnapOk(r, s) /\ n \in Nat /\ (n = 0 => FirstRun(r, s)) /\ (r.pc # "done" => SnapOk(k, tb))
  BY <1>1 DEF SnapState
<1>4. SnapOk(r, t) /\ (r.pc # "done" => SnapOk(k, tb \o xs))
  <2>1. r.users = r.users /\ r.flushed = r.flushed /\ k.users = k.users /\ k.flushed = k.flushed
    OBVIOUS
  <2> QED  BY <1>2, <1>3, <2>1, SnapsStay
<1>5. ASSUME n = 0 PROVE FirstRun(r, t)
  <2>1. FirstRun(r, s) /\ r.pc # "down"
    BY <1>3, <1>5 DEF FirstRun
  <2>2. r.mark \in Int /\ r.mark <= r.mark
    BY <2>1 DEF FirstRun
  <2> QED  BY <1>2, <2>1, <2>2, FirstStays
<1> QED  BY <1>1, <1>3, <1>4, <1>5 DEF SnapState

\* At first there is no row and no snapshot.
LEMMA SnapStarts == Init => TellInv
<1> SUFFICES ASSUME Init PROVE TellInv
  OBVIOUS
<1>1. table = <<>> /\ fails = 0 /\ job["live"] = NewJob /\ saved["live"] = NewJob
  BY DEF Init, JobInit, StreamJob
<1>2. PICK r : r = NewJob
  OBVIOUS
<1>3. r.pc = "off" /\ r.rows = <<>> /\ r.panes = <<>> /\ r.users = <<>> /\ r.flushed = <<>> /\ r.mark = MarkOf(NoTime)
  BY <1>2 DEF NewJob
<1>4. r.mark \in Int
  BY <1>3, StreamAssumption DEF MarkOf, NoTime
<1>5. Len(<<>>) = 0 /\ DOMAIN <<>> = {} /\ <<>> \o <<>> = <<>>
  OBVIOUS
<1>6. \A u, w : ~Has(<<>>, u, w) /\ ~Twice(<<>>, w) /\ Left(<<>>, w) = 0
  BY <1>5, LiveForeign
<1>7. UsersOk(<<>>) /\ \A w : SumOf(InWindow(<<>>, w)) = 0
  <2>1. UsersOk(<<>>)
    BY <1>5, NoPanes, FS_EmptySet DEF UsersOk
  <2>2. PICK f : f = <<>> /\ UsersOk(f) /\ DOMAIN f = {}
    BY <1>5, <2>1
  <2>3. ASSUME NEW w PROVE SumOf(InWindow(f, w)) = 0
    <3>1. PICK g, S : g = InWindow(f, w) /\ S = Members(f, w)
      OBVIOUS
    <3>2. SumOf(g) = Total(g, S)
      BY <2>2, <3>1, WindowMembers
    <3>3. S = {}
      BY <2>2, <3>1 DEF Members
    <3>4. Units(g, S) = {}
      BY <3>3 DEF Units
    <3> QED  BY <3>1, <3>2, <3>4, FS_EmptySet DEF Total
  <2> QED  BY <2>1, <2>2, <2>3
<1>8. \A w : Snapped(r, w) = 0
  BY <1>3, <1>7, NoPanes DEF Snapped
<1>9. SnapOk(r, <<>>)
  BY <1>3, <1>5, <1>6, <1>7, <1>8 DEF SnapOk
<1>10. FirstRun(r, <<>>)
  BY <1>3, <1>4, <1>5, <1>6 DEF FirstRun
<1> QED  BY <1>1, <1>2, <1>3, <1>5, <1>9, <1>10 DEF TellInv, SnapState

\* The sum over the rows of a window is what they say.
Mine(s, w) == {i \in DOMAIN s : s[i].by = "live" /\ s[i].win = w}

LEMMA LeftIsSum ==
    ASSUME NEW s, AreCounts(s), NEW w
    PROVE  /\ SumOf([i \in Mine(s, w) |-> s[i].n]) = Left(s, w)
           /\ (\E i, k \in Mine(s, w) : i # k /\ s[i].user = s[k].user) <=> Twice(s, w)
<1>0. PICK mine : mine = Mine(s, w) /\ mine = {i \in DOMAIN s : s[i].by = "live" /\ s[i].win = w}
  BY DEF Mine
<1>1. PICK n \in Nat : n = Len(s) /\ DOMAIN s = 1..n
  BY DEF AreCounts
<1>2. PICK f, val : f = [i \in mine |-> s[i].n] /\ val = Told(s, "live", None, w)
  OBVIOUS
<1>3. DOMAIN f = mine /\ mine \subseteq 1..n /\ \A i \in mine : f[i] = s[i].n /\ f[i] \in Nat
  BY <1>0, <1>1, <1>2 DEF AreCounts, IsCount
<1>4. \A i \in 1..n : val[i] = IF i \in mine THEN f[i] ELSE 0
  BY <1>0, <1>1, <1>2, <1>3 DEF Told, Says
<1>5. IsFiniteSet(mine)
  <2>1. IsFiniteSet(1..n)
    BY FS_Interval
  <2> QED  BY <1>3, <2>1, FS_Subset
<1>6. SumOf(f) = Total(f, mine)
  BY <1>3, <1>5, SumOfIsTotal
<1>7. Units(val, 1..n) = Units(f, mine)
  <2>1. ASSUME NEW i \in 1..n, NEW k \in Nat
        PROVE  k \in 1..val[i] <=> i \in mine /\ k \in 1..f[i]
    <3>1. CASE i \in mine
      BY <1>4, <3>1
    <3>2. CASE i \notin mine
      <4>1. val[i] = 0
        BY <1>4, <3>2
      <4> QED  BY <3>2, <4>1
    <3> QED  BY <3>1, <3>2
  <2> QED  BY <1>3, <2>1 DEF Units
<1>8. SumOf(f) = Left(s, w)
  <2>1. Len(val) = n
    BY <1>1, <1>2, ToldNumbers
  <2> QED  BY <1>2, <1>6, <1>7, <2>1 DEF Left, Sum, Total
<1>9. (\E i, k \in mine : i # k /\ s[i].user = s[k].user) <=> Twice(s, w)
  BY <1>0, <1>1 DEF Twice, Live
<1> QED  BY <1>0, <1>2, <1>8, <1>9

\* Every step of the jobs, of the maintenance and of the pipeline.
LEMMA SnapsKeep ==
    ASSUME JobShape, AccountInv, TellInv, bus.iceberg, [Next]_vars
    PROVE  TellInv'
<1>1. PICK r, k, tb, n : /\ r = job["live"] /\ k = saved["live"] /\ tb = table /\ n = fails
                         /\ SnapState(r, k, tb, n)
  BY DEF TellInv
<1>2. /\ RecOk(topic, r, "live") /\ k.rows = <<>> /\ AreCounts(tb) /\ AreCounts(r.rows) /\ PanesOk(r.panes)
      /\ r.mark \in Int /\ r.mark <= r.mark /\ TopicOk(bus, topic) /\ n \in Nat
  BY <1>1 DEF AccountInv, StreamJob, RecOk, RowsOk, WindowsOk, TimeOk, SnapState
<1>3. CASE UNCHANGED <<job, saved, table, fails>>
  BY <1>3 DEF TellInv
<1>4. "live" \in StreamJob
  BY DEF StreamJob
<1>5. ASSUME NEW rec, NEW m, job' = [job EXCEPT !["live"] = rec], table' = table, m = fails', m = n \/ m = n + 1,
             r.pc # "done", rec.rows = r.rows, SameSnaps(r, rec) \/ Emits(r, rec),
             rec.pc = "down" => m = n + 1, rec.mark \in Int, r.mark <= rec.mark,
             \A p \in DOMAIN rec.panes : p \in DOMAIN r.panes \/ ~(EndOf(p[2]) - 1 <= r.mark),
             saved' = saved \/ (saved' = [saved EXCEPT !["live"] = rec] /\ rec.rows = <<>>)
      PROVE  TellInv'
  <2>1. PICK c : c = saved'["live"] /\ (c = k \/ (c = rec /\ rec.rows = <<>>))
    BY <1>1, <1>4, <1>5 DEF JobShape
  <2>2. job'["live"] = rec
    BY <1>4, <1>5 DEF JobShape
  <2>3. m \in Nat
    BY <1>2, <1>5
  <2>4. SnapState(rec, c, tb, m)
    BY <1>1, <1>2, <1>5, <2>1, <2>3, SnapWaits
  <2> QED  BY <1>1, <1>5, <2>1, <2>2, <2>4 DEF TellInv
<1>6. ASSUME NEW rec, NEW rec2, job' = [job EXCEPT !["backfill"] = rec], table' = table, fails' = n \/ fails' = n + 1,
             saved' = saved \/ saved' = [saved EXCEPT !["backfill"] = rec2]
      PROVE  TellInv'
  <2>1. job'["live"] = r /\ saved'["live"] = k
    BY <1>1, <1>4, <1>6 DEF JobShape
  <2>2. PICK m : m = fails' /\ m \in Nat /\ (m = 0 => n = 0)
    BY <1>2, <1>6
  <2>3. SnapState(r, k, tb, m)
    BY <1>1, <2>2 DEF SnapState
  <2> QED  BY <1>1, <1>6, <2>1, <2>2, <2>3 DEF TellInv
<1>7. ASSUME NEW j \in StreamJob, Skip(j) \/ Reject(j) \/ Quarantine(j) \/ Count(j)
      PROVE  TellInv'
  <2>1. UNCHANGED <<table, saved, fails>> /\ job[j].pc = "running"
    BY <1>7 DEF Skip, Reject, Quarantine, Count, Reading, Runs, lakeVars
  <2>2. PICK rec : /\ job' = [job EXCEPT ![j] = rec] /\ Took(job[j], rec)
                   /\ ~Count(j) => rec.panes = job[j].panes
                   /\ Count(j) =>
                        LET e == Event(j)
                            key == <<e.after.user, WindowOf(e.ts)>>
                            onTime == ~Passed(j, WindowOf(e.ts))
                            counted == AcceptedOp(j, e.op) /\ ~LacksUserId(e)
                        IN rec.panes = IF counted /\ onTime THEN Plus(job[j].panes, key, 1) ELSE job[j].panes
    BY <1>7, ReadingSteps
  <2>3. CASE j = "live"
    <3>1. \A p \in DOMAIN rec.panes : p \in DOMAIN r.panes \/ ~(EndOf(p[2]) - 1 <= r.mark)
      <4>1. CASE rec.panes = r.panes
        BY <4>1
      <4>2. ASSUME NEW u, NEW w, rec.panes = Plus(r.panes, <<u, w>>, 1), ~Passed("live", w)
            PROVE  \A p \in DOMAIN rec.panes : p \in DOMAIN r.panes \/ ~(EndOf(p[2]) - 1 <= r.mark)
        <5>1. \A p \in DOMAIN rec.panes : p \in DOMAIN r.panes \/ p = <<u, w>>
          BY <4>2 DEF Plus
        <5>2. ~(EndOf(w) - 1 <= r.mark)
          BY <1>1, <4>2 DEF Passed
        <5>3. <<u, w>>[2] = w
          OBVIOUS
        <5> QED  BY <5>1, <5>2, <5>3
      <4> QED  BY <1>1, <2>2, <2>3, <4>1, <4>2
    <3>2. /\ rec.rows = r.rows /\ SameSnaps(r, rec) /\ rec.mark = r.mark /\ rec.pc = "running" /\ r.pc = "running"
      BY <1>1, <2>1, <2>2, <2>3 DEF Took
    <3> QED  BY <1>1, <1>2, <1>5, <2>1, <2>2, <2>3, <3>1, <3>2
  <2>4. CASE j = "backfill"
    BY <1>1, <1>6, <2>1, <2>2, <2>4
  <2> QED  BY <2>3, <2>4 DEF StreamJob
<1>8. ASSUME NEW j \in StreamJob, Advance(j) \/ EndOfInput(j) \/ Monitor(j) \/ Flush(j) \/ Crash(j)
      PROVE  TellInv'
  <2>1. UNCHANGED <<table, saved>> /\ (fails' = n \/ fails' = n + 1)
    BY <1>1, <1>8 DEF Advance, EndOfInput, Monitor, Flush, Crash, lakeVars
  <2>2. RecOk(topic, job[j], j)
    BY DEF AccountInv
  <2>3. PICK rec : /\ job' = [job EXCEPT ![j] = rec] /\ RecOk(topic, rec, j) /\ SameAccount(job[j], rec)
                   /\ job[j].pc = "running" /\ (SameSnaps(job[j], rec) \/ Emits(job[j], rec))
                   /\ job[j].mark <= rec.mark /\ (rec.pc = "down" => fails' = fails + 1)
    BY <1>2, <1>8, <2>2, WaitingKeeps
  <2>4. CASE j = "live"
    <3>1. rec.mark \in Int /\ rec.rows = r.rows /\ rec.panes = r.panes
      BY <1>1, <2>3, <2>4 DEF RecOk, TimeOk, SameAccount
    <3>2. \A p \in DOMAIN rec.panes : p \in DOMAIN r.panes
      BY <3>1
    <3> QED  BY <1>1, <1>5, <2>1, <2>3, <2>4, <3>1, <3>2
  <2>5. CASE j = "backfill"
    BY <1>6, <2>1, <2>3, <2>5
  <2> QED  BY <2>4, <2>5 DEF StreamJob
<1>9. ASSUME NEW j \in StreamJob, Restart(j)
      PROVE  TellInv'
  <2>1. UNCHANGED <<table, saved, fails>> /\ job[j].pc = "down"
    BY <1>9 DEF Restart, lakeVars
  <2>2. RecOk(topic, saved[j], j) /\ saved[j].rows = <<>>
    BY DEF AccountInv
  <2>3. PICK rec : job' = [job EXCEPT ![j] = rec] /\ SameAccount(saved[j], rec) /\ SameSnaps(saved[j], rec)
    BY <1>9, <2>2, RestartKeeps
  <2>4. CASE j = "live"
    <3>1. rec.rows = <<>> /\ SameSnaps(k, rec) /\ r.pc = "down"
      BY <1>1, <2>1, <2>2, <2>3, <2>4 DEF SameAccount
    <3>2. SnapState(rec, k, tb, n)
      BY <1>1, <1>2, <3>1, SnapRestarts
    <3>3. job'["live"] = rec /\ saved'["live"] = k
      BY <1>1, <1>4, <2>1, <2>3, <2>4 DEF JobShape
    <3> QED  BY <1>1, <2>1, <3>2, <3>3 DEF TellInv
  <2>5. CASE j = "backfill"
    BY <1>1, <1>6, <2>1, <2>3, <2>5
  <2> QED  BY <2>4, <2>5 DEF StreamJob
<1>10. ASSUME NEW j \in StreamJob, Submit(j) \/ CreateTable(j)
       PROVE  TellInv'
  <2>1. UNCHANGED <<table, fails>> /\ job[j].pc # "done"
    BY <1>10 DEF Submit, CreateTable, lakeVars
  <2>2. RecOk(topic, job[j], j)
    BY DEF AccountInv
  <2>3. PICK rec : /\ job' = [job EXCEPT ![j] = rec] /\ saved' = [saved EXCEPT ![j] = rec]
                   /\ rec.rows = <<>> /\ rec.pc \notin {"done", "down"} /\ job[j].rows = <<>>
                   /\ rec.panes = job[j].panes /\ rec.mark = job[j].mark /\ SameSnaps(job[j], rec)
    BY <1>2, <1>10, <2>2, SubmissionKeeps
  <2>4. CASE j = "live"
    <3>1. /\ rec.rows = r.rows /\ rec.panes = r.panes /\ rec.mark = r.mark /\ SameSnaps(r, rec)
          /\ rec.pc # "down" /\ r.pc # "done"
      BY <1>1, <2>1, <2>3, <2>4
    <3>2. \A p \in DOMAIN rec.panes : p \in DOMAIN r.panes
      BY <3>1
    <3> QED  BY <1>1, <1>2, <1>5, <2>1, <2>3, <2>4, <3>1, <3>2
  <2>5. CASE j = "backfill"
    BY <1>1, <1>6, <2>1, <2>3, <2>5
  <2> QED  BY <2>4, <2>5 DEF StreamJob
<1>11. ASSUME NEW j \in StreamJob, Fire(j)
       PROVE  TellInv'
  <2>1. UNCHANGED <<table, saved, fails>> /\ job[j].pc = "running"
    BY <1>11 DEF Fire, Runs, lakeVars
  <2>2. RecOk(topic, job[j], j) /\ AreCounts(table)
    BY DEF AccountInv
  <2>3. PICK rec, row : /\ job' = [job EXCEPT ![j] = rec] /\ IsCount(row) /\ rec.pc = job[j].pc
                        /\ Fired(job[j], rec, row, j)
    BY <1>11, <2>2, FiringKeeps
  <2>4. CASE j = "live"
    <3>1. Fired(r, rec, row, "live") /\ r.pc = "running" /\ rec.pc = "running"
      BY <1>1, <2>1, <2>3, <2>4
    <3>2. SnapState(rec, k, tb, n)
      BY <1>1, <1>2, <2>3, <3>1, SnapFires
    <3>3. job'["live"] = rec /\ saved'["live"] = k
      BY <1>1, <1>4, <2>1, <2>3, <2>4 DEF JobShape
    <3> QED  BY <1>1, <2>1, <3>2, <3>3 DEF TellInv
  <2>5. CASE j = "backfill"
    BY <1>1, <1>6, <2>1, <2>3, <2>5
  <2> QED  BY <2>4, <2>5 DEF StreamJob
<1>12. ASSUME NEW j \in StreamJob, Checkpoint(j) \/ Finish(j)
       PROVE  TellInv'
  <2>1. fails' = fails
    BY <1>12 DEF Checkpoint, Finish
  <2>2. RecOk(topic, job[j], j) /\ AreCounts(table)
    BY DEF AccountInv
  <2>6. PICK rows : rows = job[j].rows
    OBVIOUS
  <2>3. PICK rec : /\ table' = table \o rows /\ job' = [job EXCEPT ![j] = rec]
                   /\ rec.rows = <<>> /\ rec.pc \in {"running", "done"}
                   /\ rec.panes = job[j].panes /\ rec.mark = job[j].mark /\ SameSnaps(job[j], rec)
                   /\ saved' = [saved EXCEPT ![j] = rec] \/ (saved' = saved /\ rec.pc = "done")
    BY <1>12, <2>2, <2>6, CommittingKeeps
  <2>4. CASE j = "live"
    <3>1. PICK c : c = saved'["live"] /\ (c = rec \/ (c = k /\ rec.pc = "done"))
      BY <1>1, <1>4, <2>3, <2>4 DEF JobShape
    <3>2. rec.panes = r.panes /\ rec.mark = r.mark /\ SameSnaps(r, rec)
      BY <1>1, <2>3, <2>4
    <3>3. SnapState(rec, c, tb \o r.rows, n)
      BY <1>1, <1>2, <2>3, <3>1, <3>2, SnapCommits
    <3>4. job'["live"] = rec
      BY <1>4, <2>3, <2>4 DEF JobShape
    <3> QED  BY <1>1, <2>1, <2>3, <2>4, <2>6, <3>1, <3>3, <3>4 DEF TellInv
  <2>5. CASE j = "backfill"
    <3>1. AreCounts(rows) /\ \A i \in 1..Len(rows) : rows[i].by # "live"
      BY <2>2, <2>5, <2>6 DEF RecOk, RowsOk
    <3>2. SnapState(r, k, tb \o rows, n)
      BY <1>1, <1>2, <3>1, SnapsOfOthers
    <3>3. job'["live"] = r /\ saved'["live"] = k
      BY <1>1, <1>4, <2>3, <2>5 DEF JobShape
    <3> QED  BY <1>1, <2>1, <2>3, <3>2, <3>3 DEF TellInv
  <2> QED  BY <2>4, <2>5 DEF StreamJob
<1>13. CASE JobNext
  <2>1. ASSUME NEW j \in StreamJob, Send(j) PROVE TellInv'
    BY <1>3, <2>1 DEF Send, lakeVars
  <2>2. CASE Produce \/ Tick \/ DlqStart \/ DlqRead \/ SendSignal
    BY <1>3, <2>2 DEF Produce, Tick, DlqStart, DlqRead, SendSignal, lakeVars
  <2> QED  BY <1>7, <1>8, <1>9, <1>10, <1>11, <1>12, <1>13, <2>1, <2>2 DEF JobNext
<1>14. CASE CareNext
  <2>1. Others
    BY <1>14 DEF CareNext, Load, DryExpire, Expire, Compact, Scan
  <2> QED  BY <1>3, <2>1 DEF Others
<1>15. CASE InferNext /\ UNCHANGED <<job, saved, table>>
  <2>1. PICK m : m = fails' /\ (m = n \/ m = n + 1)
    BY <1>1, <1>15 DEF InferNext, InferCrash
  <2>2. SnapState(r, k, tb, m)
    BY <1>1, <1>2, <2>1 DEF SnapState
  <2> QED  BY <1>1, <1>15, <2>1, <2>2 DEF TellInv
<1> QED  BY <1>3, <1>13, <1>14, <1>15 DEF Next, vars, jobVars, lakeVars

\* The circumstances stay.
LEMMA BusStays ==
    ASSUME [Next]_vars
    PROVE  bus' = bus
<1>1. CASE JobNext
  <2>1. ASSUME NEW j \in StreamJob,
               \/ Submit(j) \/ CreateTable(j) \/ Skip(j) \/ Reject(j) \/ Quarantine(j) \/ Count(j)
               \/ Advance(j) \/ EndOfInput(j)
        PROVE  bus' = bus
    BY <2>1 DEF Submit, CreateTable, Skip, Reject, Quarantine, Count, Advance, EndOfInput, inputVars
  <2>2. ASSUME NEW j \in StreamJob,
               \/ Fire(j) \/ Monitor(j) \/ Flush(j) \/ Send(j) \/ Checkpoint(j) \/ Finish(j) \/ Crash(j) \/ Restart(j)
        PROVE  bus' = bus
    BY <2>2 DEF Fire, Monitor, Flush, Send, Checkpoint, Finish, Crash, Restart, inputVars
  <2>3. CASE Produce \/ Tick \/ DlqStart \/ DlqRead \/ SendSignal
    BY <2>3 DEF Produce, Tick, DlqStart, DlqRead, SendSignal, inputVars
  <2> QED  BY <1>1, <2>1, <2>2, <2>3 DEF JobNext
<1>2. CASE CareNext
  <2>1. Others
    BY <1>2 DEF CareNext, Load, DryExpire, Expire, Compact, Scan
  <2> QED  BY <2>1 DEF Others, inputVars
<1> QED  BY <1>1, <1>2 DEF Next, vars, jobVars, inputVars

LEMMA SnapsAlways == Spec => []SnapInv
<1>1. StreamInv /\ SnapInv /\ [Next]_vars => SnapInv'
  BY SnapsKeep, BusStays DEF StreamInv, ShapeInv, SignalInv, SnapInv
<1>2. Init => SnapInv
  BY SnapStarts DEF SnapInv
<1> QED  BY <1>1, <1>2, StreamAlways, PTL DEF Spec

-----------------------------------------------------------------------------
(* The topic of the snapshots                                              *)

\* Snapshots in their topic or in the producer, and what they say of a window.
AreSignals(s) == s \in Seq(Range(s)) /\ \A i \in DOMAIN s : s[i].n \in Nat
Shows(x, w) == IF x.win = w THEN x.n ELSE 0
Heard(s, w) == [i \in 1..Len(s) |-> Shows(s[i], w)]

LEMMA SignalsOfSeq ==
    ASSUME NEW S, NEW s \in Seq(S), \A i \in DOMAIN s : s[i].n \in Nat
    PROVE  AreSignals(s)
<1>1. s \in Seq(Range(s))
  <2>1. PICK n \in Nat : s \in [1..n -> S] /\ n = Len(s)
    OBVIOUS
  <2>2. \A i \in 1..n : s[i] \in Range(s)
    BY <2>1 DEF Range
  <2>3. s \in [1..n -> Range(s)]
    BY <2>1, <2>2
  <2> QED  BY <2>1, <2>3
<1> QED  BY <1>1 DEF AreSignals

LEMMA HeardNumbers ==
    ASSUME NEW s, AreSignals(s), NEW w
    PROVE  Heard(s, w) \in Seq(Nat) /\ Len(Heard(s, w)) = Len(s)
<1>1. PICK n \in Nat : n = Len(s) /\ DOMAIN s = 1..n
  BY DEF AreSignals
<1>2. \A i \in 1..n : Shows(s[i], w) \in Nat
  BY <1>1 DEF AreSignals, Shows
<1>3. Heard(s, w) \in [1..n -> Nat]
  BY <1>1, <1>2 DEF Heard
<1> QED  BY <1>1, <1>3

\* One more snapshot.
LEMMA SignalsAppend ==
    ASSUME NEW s, AreSignals(s), NEW x, x.n \in Nat
    PROVE  /\ AreSignals(Append(s, x))
           /\ \A w : Sum(Heard(Append(s, x), w)) = Sum(Heard(s, w)) + Shows(x, w)
<1>1. PICK S : S = Range(s) \cup {x}
  OBVIOUS
<1>2. s \in Seq(S) /\ x \in S
  BY <1>1 DEF AreSignals
<1>3. PICK n \in Nat : n = Len(s) /\ DOMAIN s = 1..n
  BY <1>2
<1>0. /\ Append(s, x) \in Seq(S) /\ Len(Append(s, x)) = n + 1 /\ Append(s, x)[n + 1] = x
      /\ \A i \in 1..n : Append(s, x)[i] = s[i]
  BY <1>2, <1>3
<1>4. PICK c \in Seq(S) : c = Append(s, x) /\ Len(c) = n + 1 /\ c[n + 1] = x /\ \A i \in 1..n : c[i] = s[i]
  BY <1>0
<1>5. DOMAIN c = 1..(n + 1) /\ \A i \in 1..(n + 1) : i \in 1..n \/ i = n + 1
  BY <1>4
<1>6. AreSignals(c)
  <2>1. \A i \in 1..(n + 1) : c[i].n \in Nat
    BY <1>3, <1>4, <1>5 DEF AreSignals
  <2> QED  BY <1>5, <2>1, SignalsOfSeq
<1>7. ASSUME NEW w PROVE Sum(Heard(c, w)) = Sum(Heard(s, w)) + Shows(x, w)
  <2>1. PICK t \in Seq(Nat), k \in Nat : t = Heard(s, w) /\ Len(t) = n /\ k = Shows(x, w)
    BY <1>3, HeardNumbers DEF Shows
  <2>2. \A i \in 1..n : t[i] = Shows(s[i], w)
    BY <1>3, <2>1 DEF Heard
  <2>3. Append(t, k) = [i \in 1..(n + 1) |-> IF i = n + 1 THEN k ELSE t[i]]
    <3>0. Append(t, k) \in Seq(Nat)
      OBVIOUS
    <3>1. PICK d \in Seq(Nat) : d = Append(t, k)
      BY <3>0
    <3>2. Len(d) = n + 1 /\ \A i \in 1..(n + 1) : d[i] = IF i = n + 1 THEN k ELSE t[i]
      BY <2>1, <3>1
    <3>3. d = [i \in 1..(n + 1) |-> d[i]]
      BY <3>2, SeqByPlace
    <3> QED  BY <3>1, <3>2, <3>3
  <2>4. \A i \in 1..(n + 1) : Shows(c[i], w) = IF i = n + 1 THEN k ELSE t[i]
    BY <1>4, <1>5, <2>1, <2>2
  <2>5. Heard(c, w) = [i \in 1..(n + 1) |-> Shows(c[i], w)]
    BY <1>4 DEF Heard
  <2>6. Heard(c, w) = Append(t, k)
    BY <2>3, <2>4, <2>5
  <2> QED  BY <2>1, <2>6, SumAppends
<1> QED  BY <1>4, <1>6, <1>7

\* A snapshot that is sent goes from the producer to the topic.
LEMMA SignalsSent ==
    ASSUME NEW a, AreSignals(a), NEW b, AreSignals(b), b # <<>>
    PROVE  /\ AreSignals(Append(a, Head(b))) /\ AreSignals(Tail(b))
           /\ Append(a, Head(b)) \o Tail(b) = a \o b
<1>1. PICK S : S = Range(a) \cup Range(b)
  OBVIOUS
<1>2. a \in Seq(S) /\ b \in Seq(S)
  BY <1>1 DEF AreSignals
<1>3. PICK n \in Nat : n = Len(b) - 1 /\ DOMAIN b = 1..(n + 1) /\ Head(b) = b[1]
  BY <1>2
<1>0. Tail(b) \in Seq(S) /\ Len(Tail(b)) = n /\ \A i \in 1..n : Tail(b)[i] = b[i + 1]
  BY <1>2, <1>3
<1>4. PICK c \in Seq(S) : c = Tail(b) /\ Len(c) = n /\ \A i \in 1..n : c[i] = b[i + 1]
  BY <1>0
<1>5. \A i \in 1..n : i + 1 \in 1..(n + 1)
  BY <1>3
<1>6. DOMAIN c = 1..n
  BY <1>4
<1>7. \A i \in 1..n : c[i].n \in Nat
  BY <1>3, <1>4, <1>5 DEF AreSignals
<1>8. AreSignals(c)
  BY <1>6, <1>7, SignalsOfSeq
<1>9. b[1].n \in Nat
  <2>1. 1 \in 1..(n + 1)
    BY <1>3
  <2> QED  BY <1>3, <2>1 DEF AreSignals
<1>10. AreSignals(Append(a, b[1]))
  BY <1>9, SignalsAppend
<1>11. Append(a, Head(b)) \o Tail(b) = a \o b
  BY <1>2
<1> QED  BY <1>3, <1>4, <1>8, <1>10, <1>11

LEMMA SignalsConcat ==
    ASSUME NEW a, AreSignals(a), NEW b, AreSignals(b)
    PROVE  AreSignals(a \o b)
<1>1. PICK S : S = Range(a) \cup Range(b)
  OBVIOUS
<1>2. a \in Seq(S) /\ b \in Seq(S)
  BY <1>1 DEF AreSignals
<1>3. PICK m \in Nat, n \in Nat : m = Len(a) /\ n = Len(b) /\ DOMAIN a = 1..m /\ DOMAIN b = 1..n
  BY <1>2
<1>0. a \o b \in Seq(S)
  BY <1>2
<1>4. PICK c \in Seq(S) : c = a \o b
  BY <1>0
<1>5. Len(c) = m + n /\ DOMAIN c = 1..(m + n) /\ \A i \in 1..(m + n) : c[i] = IF i <= m THEN a[i] ELSE b[i - m]
  BY <1>2, <1>3, <1>4, ConcatPlaces
<1>6. ASSUME NEW i \in 1..(m + n) PROVE c[i].n \in Nat
  <2>1. CASE i <= m
    <3>1. i \in 1..m
      BY <2>1
    <3> QED  BY <1>3, <1>5, <2>1, <3>1 DEF AreSignals
  <2>2. CASE ~(i <= m)
    <3>1. i - m \in 1..n
      BY <2>2
    <3> QED  BY <1>3, <1>5, <2>2, <3>1 DEF AreSignals
  <2> QED  BY <2>1, <2>2
<1> QED  BY <1>4, <1>5, <1>6, SignalsOfSeq

\* The sum over the snapshots of a window is what they say.
LEMMA HeardIsSum ==
    ASSUME NEW s, AreSignals(s), NEW w, NEW mine, mine = {i \in DOMAIN s : s[i].win = w}
    PROVE  SumOf([i \in mine |-> s[i].n]) = Sum(Heard(s, w))
<1>1. PICK n \in Nat : n = Len(s) /\ DOMAIN s = 1..n
  BY DEF AreSignals
<1>2. PICK f, val : f = [i \in mine |-> s[i].n] /\ val = Heard(s, w)
  OBVIOUS
<1>3. DOMAIN f = mine /\ mine \subseteq 1..n /\ \A i \in mine : f[i] = s[i].n /\ f[i] \in Nat
  BY <1>1, <1>2 DEF AreSignals
<1>4. \A i \in 1..n : val[i] = IF i \in mine THEN f[i] ELSE 0
  BY <1>1, <1>2, <1>3 DEF Heard, Shows
<1>5. IsFiniteSet(mine)
  <2>1. IsFiniteSet(1..n)
    BY FS_Interval
  <2> QED  BY <1>3, <2>1, FS_Subset
<1>6. SumOf(f) = Total(f, mine)
  BY <1>3, <1>5, SumOfIsTotal
<1>7. Units(val, 1..n) = Units(f, mine)
  <2>1. ASSUME NEW i \in 1..n, NEW k \in Nat
        PROVE  k \in 1..val[i] <=> i \in mine /\ k \in 1..f[i]
    <3>1. CASE i \in mine
      BY <1>4, <3>1
    <3>2. CASE i \notin mine
      <4>1. val[i] = 0
        BY <1>4, <3>2
      <4> QED  BY <3>2, <4>1
    <3> QED  BY <3>1, <3>2
  <2> QED  BY <1>3, <2>1 DEF Units
<1>8. Len(val) = n
  BY <1>1, <1>2, HeardNumbers
<1> QED  BY <1>2, <1>6, <1>7, <1>8 DEF Sum, Total

\* Before the first crash what the producer has taken is what was emitted.  Only
\* the live job has timers for snapshots.
HeardState(r, timers, a, b) ==
    /\ timers = {} /\ UsersOk(r.users) /\ \A w \in DOMAIN r.flushed : r.flushed[w] \in Nat
    /\ AreSignals(a) /\ AreSignals(b) /\ \A w : Sum(Heard(a \o b, w)) = At(r.flushed, w)
HeardInv ==
    fails = 0 => /\ \A j \in StreamJob : job[j].pc # "down"
                 /\ HeardState(job["live"], job["backfill"].timers, signals, unsentSignals)

\* At first nothing is emitted and nothing is taken.
LEMMA HeardStarts == Init => HeardInv
<1> SUFFICES ASSUME Init PROVE HeardInv
  OBVIOUS
<1>1. signals = <<>> /\ unsentSignals = <<>> /\ \A j \in StreamJob : job[j] = NewJob
  BY DEF Init, JobInit
<1>2. PICK r : r = NewJob
  OBVIOUS
<1>3. r.pc = "off" /\ r.users = <<>> /\ r.flushed = <<>> /\ r.timers = {}
  BY <1>2 DEF NewJob
<1>4. PICK e : e = <<>>
  OBVIOUS
<1>5. Len(e) = 0 /\ DOMAIN e = {} /\ e \o e = e /\ e \in Seq({})
  BY <1>4
<1>6. UsersOk(r.users) /\ \A w : At(r.flushed, w) = 0
  BY <1>3, <1>4, <1>5, NoPanes, FS_EmptySet DEF UsersOk
<1>7. AreSignals(e)
  BY <1>5, SignalsOfSeq
<1>8. ASSUME NEW w PROVE Sum(Heard(e \o e, w)) = 0
  <2>1. Heard(e, w) = <<>>
    BY <1>5 DEF Heard
  <2> QED  BY <1>5, <2>1, SumOfNone
<1>9. HeardState(r, r.timers, e, e)
  BY <1>3, <1>4, <1>5, <1>6, <1>7, <1>8 DEF HeardState
<1> QED  BY <1>1, <1>2, <1>3, <1>4, <1>9 DEF HeardInv, StreamJob

\* A snapshot is emitted: it leaves the waiting counts and goes to the producer.
LEMMA HeardFlushed ==
    ASSUME NEW r, NEW timers, NEW a, NEW b, HeardState(r, timers, a, b), NEW rec, NEW w, NEW x,
           rec.users = Without(r.users, {q \in DOMAIN r.users : q[2] = w}),
           rec.flushed = Plus(r.flushed, w, SumOf(InWindow(r.users, w))),
           x = [win |-> w, n |-> SumOf(InWindow(r.users, w))]
    PROVE  HeardState(rec, timers, a, Append(b, x))
<1>1. PICK f, g, n, p, c : f = r.users /\ g = rec.users /\ n = SumOf(InWindow(f, w)) /\ p = r.flushed /\ c = rec.flushed
  OBVIOUS
<1>2. UsersOk(f) /\ g = Without(f, OfWindow(f, w)) /\ (\A v \in DOMAIN p : p[v] \in Nat) /\ AreSignals(a) /\ AreSignals(b)
  BY <1>1 DEF HeardState, OfWindow
<1>3. UsersOk(g) /\ n \in Nat
  BY <1>1, <1>2, EmptiedWindow, WindowMembers
<1>4. /\ \A v \in DOMAIN c : c[v] \in Nat
      /\ \A v : At(c, v) = At(p, v) + IF v = w THEN n ELSE 0
  BY <1>1, <1>2, <1>3, AtPlus
<1>5. x.win = w /\ x.n = n
  BY <1>1
<1>6. AreSignals(Append(b, x)) /\ AreSignals(a \o b)
  BY <1>2, <1>3, <1>5, SignalsAppend, SignalsConcat
<1>7. a \o Append(b, x) = Append(a \o b, x)
  <2>1. PICK S : S = Range(a) \cup Range(b) \cup {x}
    OBVIOUS
  <2>2. a \in Seq(S) /\ b \in Seq(S) /\ x \in S
    BY <1>2, <2>1 DEF AreSignals
  <2> QED  BY <2>2
<1>8. ASSUME NEW v PROVE Sum(Heard(a \o Append(b, x), v)) = At(c, v)
  <2>1. Sum(Heard(Append(a \o b, x), v)) = Sum(Heard(a \o b, v)) + Shows(x, v)
    BY <1>3, <1>5, <1>6, SignalsAppend
  <2>2. Shows(x, v) = IF v = w THEN n ELSE 0
    BY <1>5 DEF Shows
  <2>3. Sum(Heard(a \o b, v)) = At(p, v)
    BY <1>1 DEF HeardState
  <2> QED  BY <1>4, <1>7, <2>1, <2>2, <2>3
<1> QED  BY <1>1, <1>2, <1>3, <1>4, <1>6, <1>8 DEF HeardState

\* A window of the live job is fired: its user's count waits for the next snapshot.
LEMMA HeardFired ==
    ASSUME NEW r, NEW timers, NEW a, NEW b, HeardState(r, timers, a, b), NEW rec, NEW x, IsCount(x), Fired(r, rec, x, "live")
    PROVE  HeardState(rec, timers, a, b)
<1>1. PICK p : /\ p = <<x.user, x.win>> /\ rec.flushed = r.flushed
               /\ rec.users = [q \in DOMAIN r.users \cup {p} |-> IF q = p THEN x.n ELSE r.users[q]]
  BY DEF Fired
<1>2. PICK f, g, u : f = r.users /\ g = rec.users /\ u = x.user
  OBVIOUS
<1>3. PICK w \in Nat, n \in Nat \ {0} : w = x.win /\ n = x.n
  BY DEF IsCount
<1>4. UsersOk(f) /\ p = <<u, w>>
  BY <1>1, <1>2, <1>3 DEF HeardState
<1>5. DOMAIN g = DOMAIN f \cup {p} /\ (\A q \in DOMAIN g : g[q] = IF q = p THEN n ELSE f[q]) /\ g = [q \in DOMAIN g |-> g[q]]
  BY <1>1, <1>2, <1>3
<1>6. Settles(f, g, <<u, w>>, n)
  BY <1>4, <1>5 DEF Settles
<1>7. UsersOk(g)
  BY <1>4, <1>5, <1>6, SettledWindow
<1> QED  BY <1>1, <1>2, <1>7 DEF HeardState

\* Every step of the jobs, of the maintenance and of the pipeline.
LEMMA HeardKeeps ==
    ASSUME JobShape, AccountInv, fails \in Nat, HeardInv, [Next]_vars
    PROVE  HeardInv'
<1> SUFFICES ASSUME fails' = 0 PROVE HeardInv'
  BY DEF HeardInv
<1>1. fails' = fails
  <2>1. \A j \in StreamJob : fails' = fails + 1 \/ ~Crash(j)
    BY DEF Crash
  <2>2. ~(fails' = fails + 1)
    OBVIOUS
  <2>3. CASE JobNext
    <3>1. ASSUME NEW j \in StreamJob,
                 \/ Submit(j) \/ CreateTable(j) \/ Skip(j) \/ Reject(j) \/ Quarantine(j) \/ Count(j)
                 \/ Advance(j) \/ EndOfInput(j)
          PROVE  fails' = fails
      BY <3>1 DEF Submit, CreateTable, Skip, Reject, Quarantine, Count, Advance, EndOfInput
    <3>2. ASSUME NEW j \in StreamJob,
                 \/ Fire(j) \/ Monitor(j) \/ Flush(j) \/ Send(j) \/ Checkpoint(j) \/ Finish(j) \/ Restart(j)
          PROVE  fails' = fails
      BY <3>2 DEF Fire, Monitor, Flush, Send, Checkpoint, Finish, Restart
    <3>3. CASE Produce \/ Tick \/ DlqStart \/ DlqRead \/ SendSignal
      BY <3>3 DEF Produce, Tick, DlqStart, DlqRead, SendSignal
    <3> QED  BY <2>1, <2>2, <2>3, <3>1, <3>2, <3>3 DEF JobNext
  <2>4. CASE CareNext
    <3>1. Others
      BY <2>4 DEF CareNext, Load, DryExpire, Expire, Compact, Scan
    <3> QED  BY <3>1 DEF Others
  <2>5. CASE InferNext
    BY <2>2, <2>5 DEF InferNext, InferCrash
  <2> QED  BY <2>3, <2>4, <2>5 DEF Next, vars, jobVars
<1>2. PICK r, t, a, b : /\ r = job["live"] /\ t = job["backfill"].timers /\ a = signals /\ b = unsentSignals
                        /\ HeardState(r, t, a, b)
  BY <1>1 DEF HeardInv
<1>3. \A j \in StreamJob : job[j].pc # "down"
  BY <1>1 DEF HeardInv
<1>4. "live" \in StreamJob /\ "backfill" \in StreamJob /\ \A j \in StreamJob : j = "live" \/ j = "backfill"
  BY DEF StreamJob
<1>5. CASE UNCHANGED <<job, signals, unsentSignals>>
  BY <1>1, <1>5 DEF HeardInv
<1>6. ASSUME NEW j \in StreamJob, NEW rec, job' = [job EXCEPT ![j] = rec], SameSnaps(job[j], rec), rec.pc # "down",
             UNCHANGED signalVars
      PROVE  HeardInv'
  <2>1. \A k \in StreamJob : job'[k] = IF k = j THEN rec ELSE job[k]
    BY <1>6 DEF JobShape
  <2>2. \A k \in StreamJob : job'[k].pc # "down"
    BY <1>3, <1>6, <2>1
  <2>3. job'["live"].users = r.users /\ job'["live"].flushed = r.flushed /\ job'["backfill"].timers = t
    BY <1>2, <1>4, <1>6, <2>1 DEF SameSnaps
  <2>4. HeardState(job'["live"], job'["backfill"].timers, signals', unsentSignals')
    BY <1>2, <1>6, <2>3 DEF HeardState, signalVars
  <2> QED  BY <2>2, <2>4 DEF HeardInv
<1>7. ASSUME NEW j \in StreamJob PROVE RecOk(topic, job[j], j) /\ TopicOk(bus, topic) /\ AreCounts(table)
  BY DEF AccountInv
<1>8. ASSUME NEW j \in StreamJob, Skip(j) \/ Reject(j) \/ Quarantine(j) \/ Count(j)
      PROVE  HeardInv'
  <2>1. PICK rec : job' = [job EXCEPT ![j] = rec] /\ Took(job[j], rec)
    BY <1>8, ReadingSteps
  <2>2. UNCHANGED signalVars
    BY <1>8 DEF Skip, Reject, Quarantine, Count
  <2> QED  BY <1>3, <1>6, <2>1, <2>2 DEF Took
<1>9. ASSUME NEW j \in StreamJob, Advance(j) \/ EndOfInput(j) \/ Monitor(j)
      PROVE  HeardInv'
  <2>1. PICK rec : /\ job' = [job EXCEPT ![j] = rec] /\ (SameSnaps(job[j], rec) \/ Flush(j))
                   /\ rec.pc \in {"running", "down"} /\ (rec.pc = "down" => fails' = fails + 1)
    BY <1>7, <1>9, WaitingKeeps
  <2>2. rec.pc # "down"
    BY <1>1, <2>1
  <2>3. UNCHANGED signalVars
    BY <1>9 DEF Advance, EndOfInput, Monitor
  <2>4. ~Flush(j)
    <3>1. Flush(j) => unsentSignals' # unsentSignals
      <4>1. AreSignals(b) /\ \A x : Append(b, x) # b
        <5>1. AreSignals(b)
          BY <1>2 DEF HeardState
        <5>2. PICK n \in Nat : n = Len(b)
          BY <5>1 DEF AreSignals
        <5>3. ASSUME NEW x PROVE Append(b, x) # b
          <6>1. PICK S : S = Range(b) \cup {x}
            OBVIOUS
          <6>2. b \in Seq(S) /\ x \in S
            BY <5>1, <6>1 DEF AreSignals
          <6>3. Len(Append(b, x)) = n + 1
            BY <5>2, <6>2
          <6> QED  BY <5>2, <6>3
        <5> QED  BY <5>1, <5>3
      <4> QED  BY <1>2, <4>1 DEF Flush
    <3> QED  BY <2>3, <3>1 DEF signalVars
  <2> QED  BY <1>6, <2>1, <2>2, <2>3, <2>4
<1>10. ASSUME NEW j \in StreamJob, Flush(j)
       PROVE  HeardInv'
  <2>1. PICK w \in job[j].timers :
           /\ Goes(j, [job[j] EXCEPT !.timers = @ \ {w}, !.users = Without(@, {q \in DOMAIN @ : q[2] = w}),
                                     !.flushed = Plus(@, w, SumOf(InWindow(job[j].users, w)))])
           /\ unsentSignals' = Append(unsentSignals, [win |-> w, n |-> SumOf(InWindow(job[j].users, w))])
           /\ UNCHANGED signals
    BY <1>10 DEF Flush
  <2>2. j = "live"
    BY <1>2, <1>4, <2>1 DEF HeardState
  <2>3. PICK m, u, f : /\ m = r.timers \ {w} /\ u = Without(r.users, {q \in DOMAIN r.users : q[2] = w})
                       /\ f = Plus(r.flushed, w, SumOf(InWindow(r.users, w)))
    OBVIOUS
  <2>4. PICK rec : rec = [r EXCEPT !.timers = m, !.users = u, !.flushed = f]
    OBVIOUS
  <2>5. job' = [job EXCEPT !["live"] = rec]
    BY <1>2, <2>1, <2>2, <2>3, <2>4 DEF Goes
  <2>6. JobFields(r)
    BY <1>2, <1>4 DEF JobShape
  <2>7. rec.users = u /\ rec.flushed = f /\ rec.pc = r.pc
    BY <2>4, <2>6 DEF JobFields
  <2>8. PICK x : x = [win |-> w, n |-> SumOf(InWindow(r.users, w))]
    OBVIOUS
  <2>9. HeardState(rec, t, a, Append(b, x))
    BY <1>2, <2>3, <2>7, <2>8, HeardFlushed
  <2>10. \A k \in StreamJob : job'[k] = IF k = "live" THEN rec ELSE job[k]
    BY <2>5 DEF JobShape
  <2>11. \A k \in StreamJob : job'[k].pc # "down"
    BY <1>2, <1>3, <1>4, <2>7, <2>10
  <2>12. job'["live"] = rec /\ job'["backfill"].timers = t
    BY <1>2, <1>4, <2>10
  <2>13. signals' = a /\ unsentSignals' = Append(b, x)
    BY <1>2, <2>1, <2>2, <2>8
  <2> QED  BY <2>9, <2>11, <2>12, <2>13 DEF HeardInv
<1>11. ASSUME NEW j \in StreamJob, Submit(j) \/ CreateTable(j)
       PROVE  HeardInv'
  <2>1. PICK rec : job' = [job EXCEPT ![j] = rec] /\ rec.pc \notin {"done", "down"} /\ SameSnaps(job[j], rec)
    BY <1>7, <1>11, SubmissionKeeps
  <2>2. UNCHANGED signalVars
    BY <1>11 DEF Submit, CreateTable
  <2> QED  BY <1>6, <2>1, <2>2
<1>12. ASSUME NEW j \in StreamJob, Fire(j)
       PROVE  HeardInv'
  <2>1. PICK rec, row : job' = [job EXCEPT ![j] = rec] /\ IsCount(row) /\ rec.pc = job[j].pc /\ Fired(job[j], rec, row, j)
    BY <1>7, <1>12, FiringKeeps
  <2>2. UNCHANGED signalVars
    BY <1>12 DEF Fire
  <2>3. \A k \in StreamJob : job'[k] = IF k = j THEN rec ELSE job[k]
    BY <2>1 DEF JobShape
  <2>4. \A k \in StreamJob : job'[k].pc # "down"
    BY <1>3, <2>1, <2>3
  <2>5. CASE j = "live"
    <3>1. HeardState(rec, t, a, b)
      BY <1>2, <2>1, <2>5, HeardFired
    <3>2. job'["live"] = rec /\ job'["backfill"].timers = t
      BY <1>2, <1>4, <2>3, <2>5
    <3> QED  BY <1>2, <2>2, <2>4, <3>1, <3>2 DEF HeardInv, signalVars
  <2>6. CASE j = "backfill"
    <3>1. rec.timers = t
      BY <1>2, <2>1, <2>6 DEF Fired
    <3>2. job'["live"] = r /\ job'["backfill"].timers = t
      BY <1>2, <1>4, <2>3, <2>6, <3>1
    <3> QED  BY <1>2, <2>2, <2>4, <3>2 DEF HeardInv, signalVars
  <2> QED  BY <1>4, <2>5, <2>6
<1>13. ASSUME NEW j \in StreamJob, Checkpoint(j) \/ Finish(j)
       PROVE  HeardInv'
  <2>1. PICK rec : job' = [job EXCEPT ![j] = rec] /\ rec.pc \in {"running", "done"} /\ SameSnaps(job[j], rec)
    BY <1>7, <1>13, CommittingKeeps
  <2>2. UNCHANGED signalVars
    BY <1>13 DEF Checkpoint, Finish
  <2> QED  BY <1>6, <2>1, <2>2
<1>14. CASE SendSignal
  <2>1. b # <<>> /\ signals' = Append(a, Head(b)) /\ unsentSignals' = Tail(b) /\ UNCHANGED job
    BY <1>2, <1>14 DEF SendSignal
  <2>2. /\ AreSignals(Append(a, Head(b))) /\ AreSignals(Tail(b)) /\ Append(a, Head(b)) \o Tail(b) = a \o b
    BY <1>2, <2>1, SignalsSent DEF HeardState
  <2>3. HeardState(r, t, Append(a, Head(b)), Tail(b))
    BY <1>2, <2>2 DEF HeardState
  <2> QED  BY <1>2, <1>3, <2>1, <2>3 DEF HeardInv
<1>15. CASE JobNext
  <2>1. ASSUME NEW j \in StreamJob, Send(j) PROVE HeardInv'
    BY <1>5, <2>1 DEF Send, signalVars
  <2>2. CASE Produce \/ Tick \/ DlqStart \/ DlqRead
    BY <1>5, <2>2 DEF Produce, Tick, DlqStart, DlqRead, signalVars
  <2>3. ASSUME NEW j \in StreamJob, Crash(j) \/ Restart(j) PROVE FALSE
    BY <1>1, <1>3, <2>3 DEF Crash, Restart
  <2> QED  BY <1>8, <1>9, <1>10, <1>11, <1>12, <1>13, <1>14, <1>15, <2>1, <2>2, <2>3 DEF JobNext
<1>16. CASE CareNext
  <2>1. Others
    BY <1>16 DEF CareNext, Load, DryExpire, Expire, Compact, Scan
  <2> QED  BY <1>5, <2>1 DEF Others, signalVars
<1>17. CASE UNCHANGED <<job, signalVars>>
  BY <1>5, <1>17 DEF signalVars
<1> QED  BY <1>15, <1>16, <1>17 DEF Next, vars, jobVars

LEMMA HeardAlways == Spec => []HeardInv
<1>1. StreamInv /\ HeardInv /\ [Next]_vars => HeardInv'
  <2> SUFFICES ASSUME StreamInv, HeardInv, [Next]_vars PROVE HeardInv'
    OBVIOUS
  <2>1. fails \in Nat
    BY StreamAssumption DEF StreamInv, CountersInv
  <2> QED  BY <2>1, HeardKeeps DEF StreamInv, ShapeInv, SignalInv
<1> QED  BY <1>1, HeardStarts, StreamAlways, PTL DEF Spec

\* For any feed, any windows and any number of crashes: the snapshots of a window
\* and what waits for the next one tell of no more than has left the window, of
\* all of it unless a user's window was fired twice, and that takes a crash; and
\* until the first crash the producer of the topic has taken what was emitted,
\* window by window, no less and no more.
THEOREM SnapshotsHold == Spec => []SnapshotsAddUp
<1>1. StreamInv /\ SnapInv /\ HeardInv => SnapshotsAddUp
  <2> SUFFICES ASSUME StreamInv, SnapInv, HeardInv PROVE SnapshotsAddUp
    OBVIOUS
  <2>1. ASSUME bus.iceberg, NEW w
        PROVE  LET rows == RowsFor("live")
                   left == SumOf([i \in Mine(rows, w) |-> rows[i].n])
                   told == At(job["live"].flushed, w) + SumOf(InWindow(job["live"].users, w))
                   twice == \E i, k \in Mine(rows, w) : i # k /\ rows[i].user = rows[k].user
               IN  told <= left /\ (twice \/ told = left) /\ (twice => fails > 0)
    <3>1. PICK s : s = RowsFor("live") /\ AreCounts(s)
      <4>1. AreCounts(table) /\ AreCounts(job["live"].rows)
        BY DEF StreamInv, AccountInv, RecOk, RowsOk, StreamJob
      <4> QED  BY <4>1, CountsConcat DEF RowsFor
    <3>2. /\ SumOf([i \in Mine(s, w) |-> s[i].n]) = Left(s, w)
          /\ (\E i, k \in Mine(s, w) : i # k /\ s[i].user = s[k].user) <=> Twice(s, w)
      BY <3>1, LeftIsSum
    <3>3. PICK r, n : r = job["live"] /\ n = fails /\ SnapState(r, saved["live"], table, n) /\ s = table \o r.rows
      BY <2>1, <3>1 DEF SnapInv, TellInv, RowsFor
    <3>4. n \in Nat /\ SnapOk(r, s) /\ (n = 0 => FirstRun(r, s))
      BY <3>3 DEF SnapState
    <3>5. Snapped(r, w) <= Left(s, w) /\ (Twice(s, w) \/ Snapped(r, w) = Left(s, w)) /\ (Twice(s, w) => n > 0)
      BY <3>4 DEF SnapOk, FirstRun
    <3> QED  BY <3>1, <3>2, <3>3, <3>5 DEF Snapped
  <2>2. ASSUME fails = 0, NEW w PROVE Received(w) = At(job["live"].flushed, w)
    <3>1. PICK s : s = Taken /\ AreSignals(s) /\ Sum(Heard(s, w)) = At(job["live"].flushed, w)
      BY <2>2, SignalsConcat DEF HeardInv, HeardState, Taken
    <3>2. PICK mine : mine = {i \in DOMAIN s : s[i].win = w}
      OBVIOUS
    <3>3. SumOf([i \in mine |-> s[i].n]) = Sum(Heard(s, w))
      BY <3>1, <3>2, HeardIsSum
    <3> QED  BY <3>1, <3>2, <3>3 DEF Received
  <2> QED  BY <2>1, <2>2 DEF SnapshotsAddUp, Mine
<1> QED  BY <1>1, StreamAlways, SnapsAlways, HeardAlways, PTL
=============================================================================
