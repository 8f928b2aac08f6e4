--------------------------- MODULE FeatureLakeProofs ---------------------------
(***************************************************************************)
(* Proofs about the programs around the bucket, each of them inside        *)
(* FeatureLake: what the runs of the prefetch engine count and what the    *)
(* lineage file tells of them; the row the feature store serves for a user *)
(* and the user's history, however pushes and the Kafka writer fall        *)
(* together; the reads of the offline reader; the range reads, retrieval   *)
(* jobs and answers of the feature store; and what the training jobs of    *)
(* one cache directory train on.                                           *)
(***************************************************************************)
EXTENDS FeatureLake, FiniteSetTheorems, WellFoundedInduction, TLAPS

-----------------------------------------------------------------------------
(* Counting                                                                *)

Hits(s, x) == Cardinality({n \in DOMAIN s : s[n] = x})

\* How often a value occurs in a sequence is a number.
LEMMA HitsFinite ==
    ASSUME NEW S, NEW s \in Seq(S), NEW x
    PROVE  IsFiniteSet({n \in DOMAIN s : s[n] = x}) /\ Hits(s, x) \in Nat
<1>1. IsFiniteSet(1..Len(s))
  BY FS_Interval
<1>2. {n \in DOMAIN s : s[n] = x} \subseteq 1..Len(s)
  OBVIOUS
<1> QED  BY <1>1, <1>2, FS_Subset, FS_CardinalityType DEF Hits

\* An element that is appended occurs once more, every other as often as before.
LEMMA HitsAppend ==
    ASSUME NEW S, NEW s \in Seq(S), NEW e \in S, NEW x
    PROVE  Hits(Append(s, e), x) = IF e = x THEN Hits(s, x) + 1 ELSE Hits(s, x)
<1> DEFINE old == {n \in DOMAIN s : s[n] = x}
           new == {n \in DOMAIN Append(s, e) : Append(s, e)[n] = x}
<1>0. IsFiniteSet(old)
  BY HitsFinite
<1>1. IsFiniteSet(old) /\ Len(s) + 1 \notin old
  BY <1>0
<1>2. new = IF e = x THEN old \cup {Len(s) + 1} ELSE old
  OBVIOUS
<1>3. Cardinality(old \cup {Len(s) + 1}) = Cardinality(old) + 1
  BY <1>1, FS_AddElement
<1> QED  BY <1>2, <1>3 DEF Hits

-----------------------------------------------------------------------------
(* The prefetch engine                                                     *)

Copying == {"prefetch", "copy"}
Counted == {"upload", "push", "complete"}

\* What a run has counted, at each stage: the hot files it has not looked at
\* yet are still to come, and what it prefetched stays in the cache.
CountInv(r) ==
    /\ eng[r].pc \in {"start", "manifest", "write"} => eng[r].prefetched = 0 /\ eng[r].skipped = 0
    /\ eng[r].pc \in Copying =>
          /\ eng[r].todo \subseteq eng[r].hot
          /\ eng[r].prefetched + eng[r].skipped + Cardinality(eng[r].todo) = Cardinality(eng[r].hot)
          /\ eng[r].prefetched <= Cardinality(Cached(r) \ eng[r].todo)
    /\ eng[r].pc \in {"job", "build"} \cup Counted =>
          eng[r].prefetched + eng[r].skipped = Cardinality(eng[r].hot)
    /\ eng[r].pc = "job" => eng[r].prefetched <= Cardinality(Cached(r))
    /\ eng[r].pc = "build" => eng[r].prefetched <= eng[r].hits /\ eng[r].hits <= Cardinality(Cached(r))
    /\ eng[r].pc \in Counted => eng[r].prefetched <= eng[r].hits /\ eng[r].hits <= Cardinality(eng[r].records)

Alone(r) == setting.minio /\ \A s \in Runs \ {r} : setting.id[s] # setting.id[r]

\* What the lineage file has of a run at each stage, as far as the emitter did
\* not fail, and where the records of a run that got there are.
LineInv(r) ==
    /\ eng[r].pc = "start" => Count(r, "START") = 0 /\ Count(r, "COMPLETE") = 0 /\ Count(r, "FAIL") = 0
    /\ eng[r].pc \notin {"start", "ended", "killed"} /\ ~eng[r].unsure =>
          Count(r, "START") = 1 /\ Count(r, "COMPLETE") = 0 /\ Count(r, "FAIL") = 0
    /\ eng[r].pc = "ended" /\ ~eng[r].unsure =>
          Count(r, "START") = 1 /\ Count(r, "COMPLETE") + Count(r, "FAIL") = 1
    /\ Alone(r) /\ eng[r].pc \in {"push", "complete"} => outputs[setting.id[r]] = r
    /\ Alone(r) /\ eng[r].pc = "ended" /\ ~eng[r].unsure /\ Count(r, "COMPLETE") = 1 => outputs[setting.id[r]] = r

EngineInv == EngineTypeOK /\ \A r \in Runs : CountInv(r) /\ LineInv(r)

Stages == {"start", "manifest", "write", "prefetch", "copy", "job", "build", "upload", "push",
           "complete", "failing", "ended", "killed"}
RunRecords == [pc : Stages, todo : SUBSET Sources, hot : SUBSET Sources, records : SUBSET Sources,
               prefetched : Nat, skipped : Nat, hits : Nat, unsure : BOOLEAN]

\* The settings' part of the type invariant, and the finite sets of a run.
LEMMA EngineTypes ==
    ASSUME EngineTypeOK
    PROVE  /\ eng \in [Runs -> RunRecords] /\ setting.id \in [Runs -> RunIds] /\ None \notin Runs
           /\ \A X \in SUBSET Sources : IsFiniteSet(X) /\ Cardinality(X) \in Nat
<1>1. setting \in EngineCircumstances /\ IsFiniteSet(Sources)
  BY EngineAssumption DEF EngineTypeOK
<1>2. \A X \in SUBSET Sources : IsFiniteSet(X) /\ Cardinality(X) \in Nat
  BY <1>1, FS_Subset, FS_CardinalityType
<1> QED  BY <1>1, <1>2, EngineAssumption DEF EngineTypeOK, EngineCircumstances, RunRecords, Stages

\* A file in the cache stays there; a step of another run or of the cleaner
\* leaves what a run has counted as it was.
LEMMA CountStays ==
    ASSUME EngineTypeOK, NEW r \in Runs, CountInv(r), eng'[r] = eng[r],
           \A f \in Sources : copied[f] # "absent" => copied'[f] # "absent"
    PROVE  CountInv(r)'
<1>0. eng[r] \in RunRecords
  BY EngineTypes
<1>1. Cached(r) \subseteq Cached(r)' /\ Cached(r)' \subseteq Sources
  BY <1>0 DEF Cached, RunRecords
<1>2. /\ Cardinality(Cached(r)) <= Cardinality(Cached(r)')
      /\ Cardinality(Cached(r) \ eng[r].todo) <= Cardinality(Cached(r)' \ eng[r].todo)
  <2>1. IsFiniteSet(Cached(r)') /\ IsFiniteSet(Cached(r)' \ eng[r].todo)
    BY <1>1, EngineTypes
  <2>2. Cached(r) \ eng[r].todo \subseteq Cached(r)' \ eng[r].todo
    BY <1>1
  <2> QED  BY <1>1, <2>1, <2>2, FS_Subset
<1>3. /\ Cardinality(Cached(r)) \in Nat /\ Cardinality(Cached(r)') \in Nat
      /\ Cardinality(Cached(r) \ eng[r].todo) \in Nat /\ Cardinality(Cached(r)' \ eng[r].todo) \in Nat
      /\ eng[r].prefetched \in Nat /\ eng[r].hits \in Nat
  BY <1>0, <1>1, EngineTypes DEF RunRecords
<1> QED  BY <1>0, <1>2, <1>3 DEF CountInv

EventTypes == {"START", "COMPLETE", "FAIL"}

\* An event of a run adds one to its count.
LEMMA CountAfter ==
    ASSUME EngineTypeOK, NEW t \in EventTypes, NEW q \in Runs, NEW r \in Runs, NEW x \in EventTypes
    PROVE  /\ Count(r, x) \in Nat
           /\ events' = events => Count(r, x)' = Count(r, x)
           /\ events' = Append(events, <<t, q>>) =>
                 Count(r, x)' = IF t = x /\ q = r THEN Count(r, x) + 1 ELSE Count(r, x)
<1>1. events \in Seq(EventTypes \X Runs) /\ <<t, q>> \in EventTypes \X Runs
  BY DEF EngineTypeOK, EventTypes
<1>2. Count(r, x) = Hits(events, <<x, r>>) /\ Count(r, x)' = Hits(events', <<x, r>>)
  BY DEF Count, Hits
<1>3. Hits(events, <<x, r>>) \in Nat
  BY <1>1, HitsFinite
<1>4. Hits(Append(events, <<t, q>>), <<x, r>>) =
         IF <<t, q>> = <<x, r>> THEN Hits(events, <<x, r>>) + 1 ELSE Hits(events, <<x, r>>)
  BY <1>1, HitsAppend
<1> QED  BY <1>2, <1>3, <1>4

\* What another run does leaves what the file has of a run, and its records
\* when it is the only one with its id.
LEMMA LineStays ==
    ASSUME EngineTypeOK, NEW r \in Runs, LineInv(r), eng'[r] = eng[r], setting' = setting,
           NEW q \in Runs, q # r,
           events' \in {events} \cup {Append(events, <<t, q>>) : t \in EventTypes},
           outputs' \in {outputs, [outputs EXCEPT ![setting.id[q]] = q]}
    PROVE  LineInv(r)'
<1>1. \A x \in EventTypes : Count(r, x)' = Count(r, x)
  BY CountAfter
<1>2. Count(r, "START")' = Count(r, "START") /\ Count(r, "COMPLETE")' = Count(r, "COMPLETE")
      /\ Count(r, "FAIL")' = Count(r, "FAIL")
  BY <1>1 DEF EventTypes
<1>3. Alone(r)' <=> Alone(r)
  BY DEF Alone
<1>4. Alone(r) => outputs'[setting.id[r]] = outputs[setting.id[r]]
  BY EngineTypes DEF Alone, EngineTypeOK
<1> QED  BY <1>2, <1>3, <1>4 DEF LineInv

\* The steps between the two events of a run.
LEMMA LineMoves ==
    ASSUME EngineTypeOK, NEW r \in Runs, LineInv(r), setting' = setting, events' = events,
           eng'[r].unsure = eng[r].unsure, eng[r].pc \notin {"start", "ended", "killed"},
           eng'[r].pc \notin {"start", "push", "complete", "ended"}
    PROVE  LineInv(r)'
<1>1. Count(r, "START")' = Count(r, "START") /\ Count(r, "COMPLETE")' = Count(r, "COMPLETE")
      /\ Count(r, "FAIL")' = Count(r, "FAIL")
  BY DEF Count
<1> QED  BY <1>1 DEF LineInv

SameSource == [Sources -> {"absent", "begun", "whole"}]

\* A step of one run keeps the invariant when it keeps it for that run.
LEMMA RunStep ==
    ASSUME EngineInv, NEW q \in Runs, NEW rec \in RunRecords, Step(q, rec), setting' = setting,
           source' \in SameSource, copied' \in SameSource,
           \A f \in Sources : copied[f] # "absent" => copied'[f] # "absent",
           events' \in {events} \cup {Append(events, <<t, q>>) : t \in EventTypes},
           outputs' \in {outputs, [outputs EXCEPT ![setting.id[q]] = q]},
           CountInv(q)', LineInv(q)'
    PROVE  EngineInv'
<1>0. EngineTypeOK /\ eng' = [eng EXCEPT ![q] = rec] /\ eng \in [Runs -> RunRecords] /\ setting.id[q] \in RunIds
  BY EngineTypes DEF EngineInv, Step
<1>1. EngineTypeOK'
  <2>1. eng' \in [Runs -> RunRecords] /\ setting' \in EngineSettings
    BY <1>0 DEF EngineTypeOK
  <2>2. events' \in Seq(EventTypes \X Runs)
    <3>1. events \in Seq(EventTypes \X Runs)
      BY <1>0 DEF EngineTypeOK, EventTypes
    <3>2. \A t \in EventTypes : Append(events, <<t, q>>) \in Seq(EventTypes \X Runs)
      <4>1. \A e \in EventTypes \X Runs : Append(events, e) \in Seq(EventTypes \X Runs)
        BY <3>1
      <4>2. \A t \in EventTypes : <<t, q>> \in EventTypes \X Runs
        OBVIOUS
      <4> QED  BY <4>1, <4>2
    <3> QED  BY <3>1, <3>2
  <2>3. outputs' \in [RunIds -> Runs \cup {None}]
    BY <1>0 DEF EngineTypeOK
  <2> QED  BY <2>1, <2>2, <2>3 DEF EngineTypeOK, SameSource, EventTypes, RunRecords, Stages
<1>2. ASSUME NEW r \in Runs, r # q
      PROVE  CountInv(r)' /\ LineInv(r)'
  <2>1. eng'[r] = eng[r] /\ CountInv(r) /\ LineInv(r)
    BY <1>0, <1>2 DEF EngineInv
  <2> QED  BY <1>0, <1>2, <2>1, CountStays, LineStays
<1> QED  BY <1>1, <1>2 DEF EngineInv
\* What holds of the run that takes a step.
LEMMA RunFacts ==
    ASSUME EngineInv, NEW r \in Runs
    PROVE  /\ EngineTypeOK /\ eng \in [Runs -> RunRecords] /\ eng[r] \in RunRecords
           /\ CountInv(r) /\ LineInv(r)
           /\ source \in SameSource /\ copied \in SameSource /\ setting.id[r] \in RunIds
           /\ \A rec : Step(r, rec) => eng'[r] = rec
BY EngineTypes DEF EngineInv, EngineTypeOK, SameSource, Step

\* The record of a run after an event was emitted.
LEMMA EmitStep ==
    ASSUME EngineInv, NEW r \in Runs, NEW t \in EventTypes, NEW good \in Stages, NEW bad \in Stages,
           Emit(r, t, good, bad)
    PROVE  \E rec \in RunRecords :
              /\ Step(r, rec)
              /\ rec.prefetched = eng[r].prefetched /\ rec.skipped = eng[r].skipped
              /\ \/ rec.pc = good /\ rec.unsure = eng[r].unsure /\ events' = Append(events, <<t, r>>)
                 \/ rec.pc = bad /\ rec.unsure /\ events' \in {events, Append(events, <<t, r>>)}
<1>1. eng[r] \in RunRecords
  BY RunFacts
<1>2. CASE events' = Append(events, <<t, r>>) /\ To(r, good)
  <2>1. [eng[r] EXCEPT !.pc = good] \in RunRecords
    BY <1>1 DEF RunRecords
  <2> QED  BY <1>1, <1>2, <2>1 DEF To, RunRecords
<1>3. CASE /\ events' \in {events, Append(events, <<t, r>>)}
           /\ Step(r, [eng[r] EXCEPT !.pc = bad, !.unsure = TRUE])
  <2>1. [eng[r] EXCEPT !.pc = bad, !.unsure = TRUE] \in RunRecords
    BY <1>1 DEF RunRecords
  <2> QED  BY <1>1, <1>3, <2>1 DEF RunRecords
<1> QED  BY <1>2, <1>3 DEF Emit

LEMMA StartKeeps ==
    ASSUME EngineInv, NEW r \in Runs, Start(r)
    PROVE  EngineInv'
<1>1. PICK rec \in RunRecords :
         /\ Step(r, rec)
         /\ rec.prefetched = eng[r].prefetched /\ rec.skipped = eng[r].skipped
         /\ \/ rec.pc = "manifest" /\ rec.unsure = eng[r].unsure /\ events' = Append(events, <<"START", r>>)
            \/ rec.pc = "ended" /\ rec.unsure /\ events' \in {events, Append(events, <<"START", r>>)}
  <2>1. "START" \in EventTypes /\ "manifest" \in Stages /\ "ended" \in Stages
    BY DEF EventTypes, Stages
  <2> QED  BY <2>1, EmitStep DEF Start
<1>2. eng[r].pc = "start" /\ eng'[r] = rec
  BY <1>1, RunFacts DEF Start, In
<1>3. CountInv(r)'
  BY <1>1, <1>2, RunFacts DEF CountInv, Copying, Counted
<1>4. LineInv(r)'
  <2>1. \A x \in EventTypes : events' = Append(events, <<"START", r>>) =>
           Count(r, x)' = IF x = "START" THEN Count(r, x) + 1 ELSE Count(r, x)
    BY CountAfter, RunFacts DEF EventTypes
  <2> QED  BY <1>1, <1>2, <2>1, RunFacts DEF LineInv, EventTypes
<1> QED
  <2>1. events' \in {events} \cup {Append(events, <<t, r>>) : t \in EventTypes}
    BY <1>1 DEF EventTypes
  <2> QED  BY <1>1, <1>3, <1>4, <2>1, RunFacts, RunStep DEF Start

LEMMA CompleteKeeps ==
    ASSUME EngineInv, NEW r \in Runs, Complete(r)
    PROVE  EngineInv'
<1>1. PICK rec \in RunRecords :
         /\ Step(r, rec)
         /\ rec.prefetched = eng[r].prefetched /\ rec.skipped = eng[r].skipped
         /\ \/ rec.pc = "ended" /\ rec.unsure = eng[r].unsure /\ events' = Append(events, <<"COMPLETE", r>>)
            \/ rec.pc = "failing" /\ rec.unsure /\ events' \in {events, Append(events, <<"COMPLETE", r>>)}
  <2>1. "COMPLETE" \in EventTypes /\ "ended" \in Stages /\ "failing" \in Stages
    BY DEF EventTypes, Stages
  <2> QED  BY <2>1, EmitStep DEF Complete
<1>2. eng[r].pc = "complete" /\ eng'[r] = rec
  BY <1>1, RunFacts DEF Complete, In
<1>3. CountInv(r)'
  BY <1>1, <1>2 DEF CountInv, Copying, Counted
<1>4. LineInv(r)'
  <2>1. \A x \in EventTypes : events' = Append(events, <<"COMPLETE", r>>) =>
           Count(r, x)' = IF x = "COMPLETE" THEN Count(r, x) + 1 ELSE Count(r, x)
    BY CountAfter, RunFacts DEF EventTypes
  <2>2. (Alone(r)' <=> Alone(r)) /\ outputs' = outputs /\ setting' = setting
    BY DEF Complete, Alone
  <2> QED  BY <1>1, <1>2, <2>1, <2>2, RunFacts DEF LineInv, EventTypes
<1> QED
  <2>1. events' \in {events} \cup {Append(events, <<t, r>>) : t \in EventTypes}
    BY <1>1 DEF EventTypes
  <2> QED  BY <1>1, <1>3, <1>4, <2>1, RunFacts, RunStep DEF Complete

LEMMA FailKeeps ==
    ASSUME EngineInv, NEW r \in Runs, Fail(r)
    PROVE  EngineInv'
<1>1. PICK rec \in RunRecords :
         /\ Step(r, rec)
         /\ rec.prefetched = eng[r].prefetched /\ rec.skipped = eng[r].skipped
         /\ \/ rec.pc = "ended" /\ rec.unsure = eng[r].unsure /\ events' = Append(events, <<"FAIL", r>>)
            \/ rec.pc = "ended" /\ rec.unsure /\ events' \in {events, Append(events, <<"FAIL", r>>)}
  <2>1. "FAIL" \in EventTypes /\ "ended" \in Stages
    BY DEF EventTypes, Stages
  <2> QED  BY <2>1, EmitStep DEF Fail
<1>2. eng[r].pc = "failing" /\ eng'[r] = rec
  BY <1>1, RunFacts DEF Fail, In
<1>3. CountInv(r)'
  BY <1>1, <1>2 DEF CountInv, Copying, Counted
<1>4. LineInv(r)'
  <2>1. \A x \in EventTypes : events' = Append(events, <<"FAIL", r>>) =>
           Count(r, x)' = IF x = "FAIL" THEN Count(r, x) + 1 ELSE Count(r, x)
    BY CountAfter, RunFacts DEF EventTypes
  <2> QED  BY <1>1, <1>2, <2>1, RunFacts DEF LineInv, EventTypes
<1> QED
  <2>1. events' \in {events} \cup {Append(events, <<t, r>>) : t \in EventTypes}
    BY <1>1 DEF EventTypes
  <2> QED  BY <1>1, <1>3, <1>4, <2>1, RunFacts, RunStep DEF Fail

\* A file of a set is one of it, and leaving it out makes the set smaller by one.
LEMMA OneLess ==
    ASSUME EngineTypeOK, NEW X \in SUBSET Sources, NEW f \in Hotter(X)
    PROVE  f \in X /\ Cardinality(X \ {f}) = Cardinality(X) - 1 /\ Cardinality(X) \in Nat \ {0}
<1>1. f \in X /\ IsFiniteSet(X) /\ Cardinality(X) \in Nat
  BY EngineTypes DEF Hotter
<1>2. Cardinality(X \ {f}) = Cardinality(X) - 1 /\ Cardinality(X \ {f}) \in Nat
  BY <1>1, FS_RemoveElement, FS_Subset, FS_CardinalityType
<1> QED  BY <1>1, <1>2

LEMMA ManifestKeeps ==
    ASSUME EngineInv, NEW r \in Runs, OpenSource(r) \/ WriteSource(r)
    PROVE  EngineInv'
<1>1. PICK f \in Sources, rec \in RunRecords :
         /\ Step(r, rec) /\ eng[r].pc \in {"manifest", "write"} /\ rec.pc \in {"manifest", "write"}
         /\ rec.prefetched = eng[r].prefetched /\ rec.skipped = eng[r].skipped /\ rec.unsure = eng[r].unsure
         /\ source' \in {source, [source EXCEPT ![f] = "begun"], [source EXCEPT ![f] = "whole"]}
  <2>1. CASE OpenSource(r)
    <3>1. PICK f \in Hotter(eng[r].todo) : source' = [source EXCEPT ![f] = "begun"]
      BY <2>1 DEF OpenSource
    <3>2. f \in Sources /\ [eng[r] EXCEPT !.pc = "write"] \in RunRecords
      BY RunFacts DEF Hotter, RunRecords, Stages
    <3> QED  BY <2>1, <3>1, <3>2, RunFacts DEF OpenSource, In, To, RunRecords
  <2>2. CASE WriteSource(r)
    <3>1. PICK f \in Hotter(eng[r].todo) :
             /\ source' = IF source[f] = "absent" THEN source ELSE [source EXCEPT ![f] = "whole"]
             /\ Step(r, [eng[r] EXCEPT !.pc = "manifest", !.todo = @ \ {f}])
      BY <2>2 DEF WriteSource
    <3>2. f \in Sources /\ [eng[r] EXCEPT !.pc = "manifest", !.todo = @ \ {f}] \in RunRecords
      BY RunFacts DEF Hotter, RunRecords, Stages
    <3> QED  BY <2>2, <3>1, <3>2, RunFacts DEF WriteSource, In, RunRecords
  <2> QED  BY <2>1, <2>2
<1>2. /\ setting' = setting /\ copied' = copied /\ events' = events /\ outputs' = outputs
  BY DEF OpenSource, WriteSource
<1>3. CountInv(r)'
  BY <1>1, RunFacts DEF CountInv, Copying, Counted
<1>4. LineInv(r)'
  BY <1>1, <1>2, RunFacts, LineMoves
<1>5. source' \in SameSource
  BY <1>1, RunFacts DEF SameSource
<1> QED  BY <1>1, <1>2, <1>3, <1>4, <1>5, RunFacts, RunStep

\* A step that only moves the run that takes it between the two events.
LEMMA QuietStep ==
    ASSUME EngineInv, NEW r \in Runs, NEW rec \in RunRecords, Step(r, rec),
           setting' = setting, source' = source, events' = events, outputs' = outputs,
           copied' \in SameSource, \A f \in Sources : copied[f] # "absent" => copied'[f] # "absent",
           rec.unsure = eng[r].unsure, eng[r].pc \notin {"start", "ended", "killed"},
           rec.pc \notin {"start", "push", "complete", "ended"}, CountInv(r)'
    PROVE  EngineInv'
<1>1. LineInv(r)'
  BY RunFacts, LineMoves
<1> QED  BY <1>1, RunFacts, RunStep

LEMMA SelectHotKeeps ==
    ASSUME EngineInv, NEW r \in Runs, SelectHot(r)
    PROVE  EngineInv'
<1> DEFINE hot == {f \in Sources : Cardinality({g \in Sources : g > f}) < KeepHot}
           rec == [eng[r] EXCEPT !.pc = "prefetch", !.hot = hot, !.todo = hot]
<1>1. /\ Step(r, rec) /\ rec \in RunRecords /\ rec.pc = "prefetch" /\ rec.hot = hot /\ rec.todo = hot
      /\ rec.prefetched = 0 /\ rec.skipped = 0 /\ rec.unsure = eng[r].unsure /\ eng[r].pc = "manifest"
  BY RunFacts DEF SelectHot, In, CountInv, RunRecords, Stages
<1>2. eng'[r] = rec /\ copied' = copied
  BY <1>1, RunFacts DEF SelectHot
<1>3. \A X \in SUBSET Sources : Cardinality(X) \in Nat
  BY RunFacts, EngineTypes
<1>4. Cached(r)' \ eng'[r].todo \in SUBSET Sources
  BY <1>1, <1>2 DEF Cached
<1> HIDE DEF hot, rec
<1>5. CountInv(r)'
  <2>1. hot \in SUBSET Sources
    BY DEF hot
  <2> QED  BY <1>1, <1>2, <1>3, <1>4, <2>1 DEF CountInv, Copying, Counted
<1> QED  BY <1>1, <1>2, <1>5, RunFacts, QuietStep DEF SelectHot

LEMMA CheckSourceKeeps ==
    ASSUME EngineInv, NEW r \in Runs, CheckSource(r)
    PROVE  EngineInv'
<1>0. /\ setting' = setting /\ source' = source /\ copied' = copied /\ events' = events /\ outputs' = outputs
      /\ eng[r].pc = "prefetch" /\ eng[r] \in RunRecords /\ CountInv(r) /\ EngineTypeOK
  BY RunFacts DEF CheckSource, In
<1>1. CASE eng[r].todo = {}
  <2> DEFINE rec == [eng[r] EXCEPT !.pc = "job"]
  <2>1. Step(r, rec) /\ eng'[r] = rec /\ rec \in RunRecords
    BY <1>0, <1>1, RunFacts DEF CheckSource, To, RunRecords, Stages
  <2>2. Cached(r)' = Cached(r) /\ Cached(r) \ {} = Cached(r) /\ Cardinality({}) = 0
    BY <1>0, <2>1, FS_EmptySet DEF Cached, RunRecords
  <2>3. CountInv(r)'
    BY <1>0, <1>1, <2>1, <2>2 DEF CountInv, Copying, Counted, RunRecords
  <2> QED  BY <1>0, <2>1, <2>3, RunFacts, QuietStep DEF RunRecords
<1>2. CASE eng[r].todo # {}
  <2>1. PICK f \in Hotter(eng[r].todo) :
           Step(r, IF source[f] = "absent" THEN [eng[r] EXCEPT !.todo = @ \ {f}, !.skipped = @ + 1]
                   ELSE [eng[r] EXCEPT !.pc = "copy"])
    BY <1>2 DEF CheckSource
  <2>2. CASE source[f] # "absent"
    <3> DEFINE rec == [eng[r] EXCEPT !.pc = "copy"]
    <3>1. Step(r, rec) /\ eng'[r] = rec /\ rec \in RunRecords
      BY <1>0, <2>1, <2>2, RunFacts DEF RunRecords, Stages
    <3>2. Cached(r)' = Cached(r)
      BY <1>0, <3>1 DEF Cached, RunRecords
    <3>3. CountInv(r)'
      BY <1>0, <3>1, <3>2 DEF CountInv, Copying, Counted, RunRecords
    <3> QED  BY <1>0, <3>1, <3>3, RunFacts, QuietStep DEF RunRecords
  <2>3. CASE source[f] = "absent"
    <3> DEFINE rec == [eng[r] EXCEPT !.todo = @ \ {f}, !.skipped = @ + 1]
    <3>1. Step(r, rec) /\ eng'[r] = rec /\ rec \in RunRecords
      <4>1. rec \in RunRecords
        <5>1. eng[r].skipped + 1 \in Nat /\ eng[r].todo \ {f} \in SUBSET Sources
          BY <1>0 DEF RunRecords
        <5> QED  BY <1>0, <5>1 DEF RunRecords
      <4>2. Step(r, rec)
        BY <2>1, <2>3
      <4> QED  BY <4>1, <4>2, RunFacts
    <3>2. /\ rec.pc = "prefetch" /\ rec.todo = eng[r].todo \ {f} /\ rec.skipped = eng[r].skipped + 1
          /\ rec.hot = eng[r].hot /\ rec.prefetched = eng[r].prefetched /\ rec.unsure = eng[r].unsure
      BY <1>0 DEF RunRecords
    <3>3. Cached(r)' = Cached(r) /\ Cached(r) \in SUBSET Sources
      BY <1>0, <3>1 DEF Cached, RunRecords
    <3> HIDE DEF rec
    <3>4. /\ Cardinality(Cached(r) \ eng[r].todo) <= Cardinality(Cached(r) \ (eng[r].todo \ {f}))
          /\ Cardinality(Cached(r) \ eng[r].todo) \in Nat
          /\ Cardinality(Cached(r) \ (eng[r].todo \ {f})) \in Nat
      <4>1. /\ Cached(r) \ eng[r].todo \subseteq Cached(r) \ (eng[r].todo \ {f})
            /\ Cached(r) \ eng[r].todo \in SUBSET Sources
            /\ Cached(r) \ (eng[r].todo \ {f}) \in SUBSET Sources
        BY <3>3
      <4> QED  BY <1>0, <4>1, EngineTypes, FS_Subset
    <3>5. Cardinality(eng[r].todo \ {f}) = Cardinality(eng[r].todo) - 1 /\ Cardinality(eng[r].todo) \in Nat
      BY <1>0, OneLess DEF RunRecords
    <3>6. CountInv(r)'
      BY <1>0, <3>1, <3>2, <3>3, <3>4, <3>5 DEF CountInv, Copying, Counted, RunRecords
    <3> QED  BY <1>0, <3>1, <3>2, <3>6, RunFacts, QuietStep
  <2> QED  BY <2>2, <2>3
<1> QED  BY <1>1, <1>2

\* What is copied is in the cache and no longer to be done.
LEMMA CopyKeeps ==
    ASSUME EngineInv, NEW r \in Runs, Copy(r)
    PROVE  EngineInv'
<1>0. /\ setting' = setting /\ source' = source /\ events' = events /\ outputs' = outputs
      /\ eng[r].pc = "copy" /\ eng[r] \in RunRecords /\ CountInv(r) /\ EngineTypeOK
      /\ source \in SameSource /\ copied \in SameSource
  BY RunFacts DEF Copy, In
<1>1. PICK f \in Hotter(eng[r].todo) :
         IF source[f] = "absent" THEN To(r, "failing") /\ UNCHANGED copied
         ELSE /\ Step(r, [eng[r] EXCEPT !.pc = "prefetch", !.todo = @ \ {f}, !.prefetched = @ + 1])
              /\ copied' = [copied EXCEPT ![f] = source[f]]
  BY DEF Copy
<1>2. CASE source[f] = "absent"
  <2> DEFINE rec == [eng[r] EXCEPT !.pc = "failing"]
  <2>1. Step(r, rec) /\ eng'[r] = rec /\ rec \in RunRecords /\ copied' = copied
    BY <1>0, <1>1, <1>2, RunFacts DEF To, RunRecords, Stages
  <2>2. CountInv(r)'
    BY <1>0, <2>1 DEF CountInv, Copying, Counted, RunRecords
  <2> QED  BY <1>0, <2>1, <2>2, QuietStep DEF RunRecords
<1>3. CASE source[f] # "absent"
  <2> DEFINE rec == [eng[r] EXCEPT !.pc = "prefetch", !.todo = @ \ {f}, !.prefetched = @ + 1]
  <2>1. Step(r, rec) /\ eng'[r] = rec /\ rec \in RunRecords
    <3>1. rec \in RunRecords
      <4>1. eng[r].prefetched + 1 \in Nat /\ eng[r].todo \ {f} \in SUBSET Sources /\ "prefetch" \in Stages
        BY <1>0 DEF RunRecords, Stages
      <4> QED  BY <1>0, <4>1 DEF RunRecords
    <3>2. Step(r, rec)
      BY <1>1, <1>3
    <3> QED  BY <3>1, <3>2, RunFacts
  <2>2. /\ rec.pc = "prefetch" /\ rec.todo = eng[r].todo \ {f} /\ rec.prefetched = eng[r].prefetched + 1
        /\ rec.hot = eng[r].hot /\ rec.skipped = eng[r].skipped /\ rec.unsure = eng[r].unsure
    BY <1>0 DEF RunRecords
  <2> HIDE DEF rec
  <2>3. f \in eng[r].todo /\ Cardinality(eng[r].todo \ {f}) = Cardinality(eng[r].todo) - 1
        /\ Cardinality(eng[r].todo) \in Nat
    BY <1>0, OneLess DEF RunRecords
  <2>4. f \in Sources /\ eng[r].todo \subseteq eng[r].hot /\ eng[r].hot \in SUBSET Sources
    BY <1>0, <2>3 DEF CountInv, Copying, RunRecords
  <2>5. copied' \in SameSource /\ (\A g \in Sources : copied[g] # "absent" => copied'[g] # "absent")
        /\ copied'[f] # "absent"
    BY <1>0, <1>1, <1>3, <2>4 DEF SameSource
  <2>6. /\ Cardinality(Cached(r) \ eng[r].todo) \in Nat
        /\ Cardinality(Cached(r) \ eng[r].todo) + 1 <= Cardinality(Cached(r)' \ (eng[r].todo \ {f}))
        /\ Cardinality(Cached(r)' \ (eng[r].todo \ {f})) \in Nat
    <3> DEFINE X == Cached(r) \ eng[r].todo
               Y == Cached(r)' \ (eng[r].todo \ {f})
    <3>1. X \in SUBSET Sources /\ Y \in SUBSET Sources /\ f \notin X
      BY <2>1, <2>2, <2>3, <2>4 DEF Cached
    <3>2. X \cup {f} \subseteq Y
      BY <2>1, <2>2, <2>3, <2>4, <2>5 DEF Cached
    <3> HIDE DEF X, Y
    <3>3. IsFiniteSet(X) /\ IsFiniteSet(Y) /\ Cardinality(X) \in Nat /\ Cardinality(Y) \in Nat
      BY <1>0, <3>1, EngineTypes
    <3>4. Cardinality(X \cup {f}) = Cardinality(X) + 1
      BY <3>1, <3>3, FS_AddElement
    <3>5. Cardinality(X \cup {f}) <= Cardinality(Y)
      BY <3>2, <3>3, FS_Subset
    <3> QED  BY <3>3, <3>4, <3>5 DEF X, Y
  <2>7. CountInv(r)'
    BY <1>0, <2>1, <2>2, <2>3, <2>6 DEF CountInv, Copying, Counted, RunRecords
  <2> QED  BY <1>0, <2>1, <2>2, <2>5, <2>7, QuietStep
<1> QED  BY <1>2, <1>3

\* The job and the records count what is in the cache by then.
LEMMA LookKeeps ==
    ASSUME EngineInv, NEW r \in Runs, RunJob(r) \/ BuildRecords(r)
    PROVE  EngineInv'
<1>0. /\ setting' = setting /\ source' = source /\ copied' = copied /\ events' = events /\ outputs' = outputs
      /\ eng[r] \in RunRecords /\ CountInv(r) /\ EngineTypeOK /\ copied \in SameSource
  BY RunFacts DEF RunJob, BuildRecords
<1>1. Cached(r) \in SUBSET Sources /\ Cardinality(Cached(r)) \in Nat
  <2>1. Cached(r) \in SUBSET Sources
    BY <1>0 DEF Cached, RunRecords
  <2> QED  BY <1>0, <2>1, EngineTypes
<1>2. CASE RunJob(r)
  <2> DEFINE rec == [eng[r] EXCEPT !.pc = "build", !.hits = Cardinality(Cached(r))]
  <2>1. Step(r, rec) /\ eng'[r] = rec /\ rec \in RunRecords /\ eng[r].pc = "job"
    <3>1. rec \in RunRecords
      BY <1>0, <1>1 DEF RunRecords, Stages
    <3> QED  BY <1>2, <3>1, RunFacts DEF RunJob, In
  <2>2. /\ rec.pc = "build" /\ rec.hits = Cardinality(Cached(r)) /\ rec.hot = eng[r].hot
        /\ rec.prefetched = eng[r].prefetched /\ rec.skipped = eng[r].skipped /\ rec.unsure = eng[r].unsure
    BY <1>0 DEF RunRecords
  <2>3. Cached(r)' = Cached(r)
    BY <1>0, <2>1, <2>2 DEF Cached
  <2> HIDE DEF rec
  <2>4. CountInv(r)'
    BY <1>0, <1>1, <2>1, <2>2, <2>3 DEF CountInv, Copying, Counted, RunRecords
  <2> QED  BY <1>0, <2>1, <2>2, <2>4, QuietStep
<1>3. CASE BuildRecords(r)
  <2> DEFINE rec == [eng[r] EXCEPT !.pc = "upload", !.records = Cached(r)]
  <2>1. Step(r, rec) /\ eng'[r] = rec /\ rec \in RunRecords /\ eng[r].pc = "build"
    <3>1. rec \in RunRecords
      BY <1>0, <1>1 DEF RunRecords, Stages
    <3> QED  BY <1>3, <3>1, RunFacts DEF BuildRecords, In
  <2>2. /\ rec.pc = "upload" /\ rec.records = Cached(r) /\ rec.hot = eng[r].hot /\ rec.hits = eng[r].hits
        /\ rec.prefetched = eng[r].prefetched /\ rec.skipped = eng[r].skipped /\ rec.unsure = eng[r].unsure
    BY <1>0 DEF RunRecords
  <2> HIDE DEF rec
  <2>3. CountInv(r)'
    BY <1>0, <1>1, <2>1, <2>2 DEF CountInv, Copying, Counted, RunRecords
  <2> QED  BY <1>0, <2>1, <2>2, <2>3, QuietStep
<1> QED  BY <1>2, <1>3

\* The records are where a run without a namesake has put them.
LEMMA UploadKeeps ==
    ASSUME EngineInv, NEW r \in Runs, UploadRecords(r)
    PROVE  EngineInv'
<1>0. /\ setting' = setting /\ source' = source /\ copied' = copied /\ events' = events
      /\ eng[r].pc = "upload" /\ eng[r] \in RunRecords /\ CountInv(r) /\ LineInv(r) /\ EngineTypeOK
      /\ setting.id[r] \in RunIds /\ outputs \in [RunIds -> Runs \cup {None}]
  BY RunFacts DEF UploadRecords, In, EngineTypeOK
<1>1. PICK ok \in BOOLEAN :
         /\ To(r, IF ok THEN "push" ELSE "failing")
         /\ outputs' = IF ok /\ setting.minio THEN [outputs EXCEPT ![setting.id[r]] = r] ELSE outputs
  BY DEF UploadRecords, Outcomes
<1> DEFINE rec == [eng[r] EXCEPT !.pc = IF ok THEN "push" ELSE "failing"]
<1>2. Step(r, rec) /\ eng'[r] = rec /\ rec \in RunRecords
  <2>1. rec \in RunRecords
    BY <1>0 DEF RunRecords, Stages
  <2> QED  BY <1>1, <2>1, RunFacts DEF To
<1>3. /\ rec.pc = IF ok THEN "push" ELSE "failing"
      /\ rec.hot = eng[r].hot /\ rec.hits = eng[r].hits /\ rec.records = eng[r].records
      /\ rec.prefetched = eng[r].prefetched /\ rec.skipped = eng[r].skipped /\ rec.unsure = eng[r].unsure
  BY <1>0 DEF RunRecords
<1> HIDE DEF rec
<1>4. CountInv(r)'
  BY <1>0, <1>2, <1>3 DEF CountInv, Copying, Counted
<1>5. LineInv(r)'
  <2>1. \A x \in EventTypes : Count(r, x)' = Count(r, x)
    BY <1>0 DEF Count
  <2>2. Alone(r)' => setting.minio
    BY <1>0 DEF Alone
  <2>3. Alone(r)' /\ ok => outputs'[setting.id[r]] = r
    BY <1>0, <1>1, <2>2
  <2> QED  BY <1>0, <1>2, <1>3, <2>1, <2>3 DEF LineInv, EventTypes
<1> QED  BY <1>0, <1>1, <1>2, <1>4, <1>5, RunFacts, RunStep

LEMMA PushMetricsKeeps ==
    ASSUME EngineInv, NEW r \in Runs, PushMetrics(r)
    PROVE  EngineInv'
<1>0. /\ setting' = setting /\ source' = source /\ copied' = copied /\ events' = events /\ outputs' = outputs
      /\ eng[r].pc = "push" /\ eng[r] \in RunRecords /\ CountInv(r) /\ LineInv(r)
  BY RunFacts DEF PushMetrics, In
<1>1. PICK to \in {"complete", "failing"} : To(r, to)
  BY DEF PushMetrics
<1> DEFINE rec == [eng[r] EXCEPT !.pc = to]
<1>2. Step(r, rec) /\ eng'[r] = rec /\ rec \in RunRecords
  <2>1. rec \in RunRecords
    BY <1>0 DEF RunRecords, Stages
  <2> QED  BY <1>1, <2>1, RunFacts DEF To
<1>3. CountInv(r)'
  BY <1>0, <1>2 DEF CountInv, Copying, Counted, RunRecords
<1>4. LineInv(r)'
  <2>1. \A x \in EventTypes : Count(r, x)' = Count(r, x)
    BY <1>0 DEF Count
  <2>2. Alone(r)' <=> Alone(r)
    BY <1>0 DEF Alone
  <2> QED  BY <1>0, <1>2, <2>1, <2>2 DEF LineInv, EventTypes, RunRecords
<1> QED  BY <1>0, <1>2, <1>3, <1>4, RunFacts, RunStep

LEMMA KillRunKeeps ==
    ASSUME EngineInv, NEW r \in Runs, KillRun(r)
    PROVE  EngineInv'
<1> DEFINE rec == [eng[r] EXCEPT !.pc = "killed"]
<1>1. Step(r, rec) /\ eng'[r] = rec /\ rec \in RunRecords /\ rec.pc = "killed"
  <2>1. rec \in RunRecords /\ rec.pc = "killed"
    BY RunFacts DEF RunRecords, Stages
  <2> QED  BY <2>1, RunFacts DEF KillRun, To
<1>2. CountInv(r)' /\ LineInv(r)'
  BY <1>1 DEF CountInv, LineInv, Copying, Counted
<1> QED  BY <1>1, <1>2, RunFacts, RunStep DEF KillRun

\* The file a run has counted on goes, or another program of the lake acts: what
\* the run has counted and told stays as it was.
LEMMA OthersKeep ==
    ASSUME EngineInv, setting' = setting, copied' = copied, eng' = eng, events' = events, outputs' = outputs,
           source' \in SameSource
    PROVE  EngineInv'
<1>1. EngineTypeOK'
  BY DEF EngineInv, EngineTypeOK, SameSource
<1>2. ASSUME NEW r \in Runs
      PROVE  CountInv(r)' /\ LineInv(r)'
  <2>1. CountInv(r)'
    BY RunFacts, CountStays
  <2>2. /\ Count(r, "START")' = Count(r, "START") /\ Count(r, "COMPLETE")' = Count(r, "COMPLETE")
        /\ Count(r, "FAIL")' = Count(r, "FAIL")
    BY DEF Count
  <2>3. (Alone(r)' <=> Alone(r)) /\ eng'[r] = eng[r] /\ outputs'[setting'.id[r]] = outputs[setting.id[r]]
    BY DEF Alone
  <2>4. LineInv(r)'
    BY RunFacts, <2>2, <2>3 DEF LineInv
  <2> QED  BY <2>1, <2>4
<1> QED  BY <1>1, <1>2 DEF EngineInv

LEMMA RemoveKeeps ==
    ASSUME EngineInv, NEW f \in Sources, Remove(f)
    PROVE  EngineInv'
<1>1. source' \in SameSource
  BY DEF EngineInv, EngineTypeOK, SameSource, Remove
<1> QED  BY <1>1, OthersKeep DEF Remove

LEMMA EngineStutters ==
    ASSUME EngineInv, UNCHANGED engineVars
    PROVE  EngineInv'
<1>1. source' \in SameSource
  BY DEF EngineInv, EngineTypeOK, SameSource, engineVars
<1> QED  BY <1>1, OthersKeep DEF engineVars

LEMMA EngineStarts ==
    ASSUME Init
    PROVE  EngineInv
<1>1. EngineInit
  BY DEF Init
<1>2. EngineTypeOK
  BY <1>1 DEF EngineInit, EngineTypeOK, NewRun
<1>3. ASSUME NEW r \in Runs
      PROVE  CountInv(r) /\ LineInv(r)
  <2>1. eng[r].pc = "start" /\ eng[r].prefetched = 0 /\ eng[r].skipped = 0
    BY <1>1 DEF EngineInit, NewRun
  <2>2. \A x \in EventTypes : Count(r, x) = 0
    <3>1. ASSUME NEW x \in EventTypes
          PROVE  {n \in DOMAIN events : events[n] = <<x, r>>} = {}
      BY <1>1 DEF EngineInit
    <3> QED  BY <3>1, FS_EmptySet DEF Count
  <2> QED  BY <2>1, <2>2 DEF CountInv, LineInv, Copying, Counted, EventTypes
<1> QED  BY <1>2, <1>3 DEF EngineInv

LEMMA EngineKeeps ==
    ASSUME EngineInv, [Next]_vars
    PROVE  EngineInv'
<1>1. CASE UNCHANGED vars
  BY <1>1, EngineStutters DEF vars
<1>2. CASE StoreNext /\ UNCHANGED <<fills, trainVars, engineVars, batchVars>>
  BY <1>2, EngineStutters
<1>3. CASE TrainNext /\ UNCHANGED <<fills, storeVars, engineVars, batchVars>>
  BY <1>3, EngineStutters
<1>4. CASE \E f \in LakeFiles : Arrive(f)
  BY <1>4, EngineStutters DEF Arrive
<1>5. ASSUME NEW r \in Runs,
             \/ Start(r) \/ OpenSource(r) \/ WriteSource(r) \/ SelectHot(r) \/ CheckSource(r) \/ Copy(r)
             \/ RunJob(r) \/ BuildRecords(r) \/ UploadRecords(r) \/ PushMetrics(r) \/ Complete(r) \/ Fail(r) \/ KillRun(r)
      PROVE  EngineInv'
  BY <1>5, StartKeeps, ManifestKeeps, SelectHotKeeps, CheckSourceKeeps, CopyKeeps, LookKeeps, UploadKeeps,
     PushMetricsKeeps, CompleteKeeps, FailKeeps, KillRunKeeps
<1>6. ASSUME NEW f \in Sources, Remove(f)
      PROVE  EngineInv'
  BY <1>6, RemoveKeeps
<1>7. CASE BatchNext /\ UNCHANGED <<fills, storeVars, trainVars, engineVars>>
  BY <1>7, EngineStutters
<1> QED  BY <1>1, <1>2, <1>3, <1>4, <1>5, <1>6, <1>7 DEF Next, EngineNext

LEMMA EngineAlways == Spec => []EngineInv
BY EngineStarts, EngineKeeps, PTL DEF Spec

\* The variables of the prefetch engine keep their types in the whole lake,
\* whatever the stores and the training jobs do beside it.
THEOREM EngineTypesHold == Spec => []EngineTypeOK
<1>1. EngineInv => EngineTypeOK
  BY DEF EngineInv
<1> QED  BY <1>1, EngineAlways, PTL

\* For any number of runs and files, and whenever the manifest's files are removed: a
\* run that uploads has prefetched or skipped each hot file, has hit at least
\* what it has prefetched, and records no fewer files than it has hit.
THEOREM EngineCounts == Spec => []EngineCountsAgree
<1>1. EngineInv => EngineCountsAgree
  BY DEF EngineInv, CountInv, Counted, EngineCountsAgree
<1> QED  BY <1>1, EngineAlways, PTL

\* For any number of runs that share the file and may share an id: a run that ended
\* and whose emitter lost nothing has a START and one end, and one that says
\* COMPLETE has its records in the bucket unless it has a namesake.
THEOREM LineageIsTrue == Spec => []LineageTellsTheEnd
<1>1. EngineInv => LineageTellsTheEnd
  BY DEF EngineInv, LineInv, LineageTellsTheEnd, Alone
<1> QED  BY <1>1, EngineAlways, PTL

-----------------------------------------------------------------------------
(* The feature store: what is served for a user                             *)

\* The shape of what a process is doing; the fields that pushes do not depend on
\* have any value.
IsRead(c) == c \in [op : {"materialize", "fetch"}, lo : {c.lo}, hi : {c.hi}, day : {c.day}, todo : {c.todo},
                    rows : SUBSET Rows, due : {c.due}, failed : {c.failed}]

IsPush(c) == c \in [op : {"push"}, queue : SUBSET Rows, half : Rows \cup {None}]

IsGet(c) == c \in [op : {"get"}, parsed : {c.parsed}, keys : {c.keys}, replies : {c.replies}]

IsCall(c) == c = Idle \/ IsRead(c) \/ IsPush(c) \/ IsGet(c)

\* Functions with their domains; a process that has no store does nothing.
Shape ==
    /\ world \in StoreSettings
    /\ hash \in [Stores -> [Users -> Rows \cup {None}]]
    /\ hist \in [Stores -> [Users -> SUBSET Rows]]
    /\ \A s \in Stores, u \in Users : hash[s][u] # None => hash[s][u].user = u
    /\ proc = [p \in Procs |-> proc[p]] /\ call = [p \in Procs |-> call[p]]
    /\ \A p \in Procs : IsCall(call[p]) /\ (proc[p] = None => call[p] = Idle)

\* Some process has put this row and not yet added it to the history.
Owed(r) == \E p \in Procs : ToRedis(p) /\ call[p].half = r

ServedInv ==
    \A s \in Stores, u \in Users :
        \/ hash[s][u] = None \/ hash[s][u] \in hist[s][u]
        \/ s = "redis" /\ (u \in cut \/ Owed(hash[s][u]))
        \/ s = "redis" /\ hash[s][u].by = "stream" /\ Outranked(hash[s][u], hist[s][u])

StoreInv == Shape /\ ServedInv

-----------------------------------------------------------------------------
(* Calls                                                                   *)

LEMMA CallOps ==
    ASSUME NEW c
    PROVE  /\ Idle.op \notin {"push", "materialize", "fetch", "get"} /\ IsCall(Idle)
           /\ IsRead(c) => c.op # "push"
           /\ IsGet(c) => c.op # "push"
           /\ IsCall(c) /\ c.op = "push" => IsPush(c)
           /\ IsCall(c) /\ c.op \in {"materialize", "fetch"} => IsRead(c)
           /\ IsCall(c) /\ c.op = "get" => IsGet(c)
BY DEF IsCall, IsRead, IsPush, IsGet, Idle

LEMMA PushingIsCall ==
    ASSUME NEW rows \in SUBSET Rows
    PROVE  IsCall(Pushing(rows)) /\ (Pushing(rows).op = "push" => Pushing(rows).half = None)
BY DEF Pushing, IsCall, IsPush, Idle

\* A call that is not a push gives way to one that is not, or to a push that has
\* put no row yet: nothing that Redis serves is affected.
LEMMA CallChanges ==
    ASSUME StoreInv, NEW p \in Procs, NEW c, IsCall(c), c.op = "push" => c.half = None,
           call[p].op # "push", call' = [call EXCEPT ![p] = c], proc[p] # None,
           world' = world, hash' = hash, hist' = hist, cut' = cut, proc' = proc
    PROVE  StoreInv'
<1>1. /\ call'[p] = c /\ \A q \in Procs \ {p} : call'[q] = call[q]
      /\ call' = [q \in Procs |-> call'[q]]
  BY DEF StoreInv, Shape
<1>2. Shape'
  BY <1>1 DEF StoreInv, Shape
<1>3. ASSUME NEW r, Owed(r)
      PROVE  Owed(r)'
  BY <1>1, <1>3 DEF Owed, ToRedis
<1>4. ServedInv'
  BY <1>3 DEF StoreInv, ServedInv
<1> QED  BY <1>2, <1>4 DEF StoreInv

\* The steps of requests and range reads.
LEMMA RequestsKeep ==
    ASSUME StoreInv, NEW p \in Procs,
           \/ \E objs \in world.applies : Apply(p, objs)
           \/ \E range \in world.ranges : Materialize(p, range[1], range[2])
           \/ \E frame \in world.frames : Historical(p, frame)
           \/ Fetch(p) \/ Fetched(p)
           \/ \E pushed \in world.batches : Push(p, pushed)
           \/ \E a \in world.asked : GetOnline(p, a[1], a[2])
           \/ GetDone(p)
    PROVE  StoreInv'
<1>0. /\ IsCall(call[p]) /\ (proc[p] = None => call[p] = Idle) /\ world \in StoreSettings
      /\ call = [q \in Procs |-> call[q]]
  BY DEF StoreInv, Shape
<1>1. ASSUME UNCHANGED <<world, online, proc, call>>
      PROVE  StoreInv'
  BY <1>1 DEF StoreInv, Shape, ServedInv, Owed, ToRedis, online
<1>2. CASE \E objs \in world.applies : Apply(p, objs)
  BY <1>1, <1>2 DEF Apply, shared
<1>3. CASE \E frame \in world.frames : Historical(p, frame)
  BY <1>1, <1>3 DEF Historical, shared
<1>4. \A kind, lo, hi : IsCall(RangeRead("materialize", kind, lo, hi)) /\ IsCall(RangeRead("fetch", kind, lo, hi))
  <2>1. DemoRows \subseteq Rows
    BY FeatureStoreAssumption DEF DemoRows, Rows
  <2>2. \A kind, lo, hi : IsRead(RangeRead("materialize", kind, lo, hi)) /\ IsRead(RangeRead("fetch", kind, lo, hi))
    BY <2>1 DEF RangeRead, IsRead
  <2> QED  BY <2>2 DEF IsCall
<1>5. \A kind, lo, hi : RangeRead("materialize", kind, lo, hi).op # "push" /\ RangeRead("fetch", kind, lo, hi).op # "push"
  BY DEF RangeRead
<1>6. CASE \E range \in world.ranges : Materialize(p, range[1], range[2])
  <2>1. PICK lo, hi : Materialize(p, lo, hi)
    BY <1>6
  <2> QED  BY <1>4, <1>5, <2>1, CallOps, CallChanges DEF Materialize, Ready, Begin, shared, online
<1>7. CASE Fetch(p)
  <2>1. PICK lo, hi : Begin(p, RangeRead("fetch", proc[p].offline, lo, hi))
    BY <1>7 DEF Fetch
  <2> QED  BY <1>4, <1>5, <1>7, <2>1, CallOps, CallChanges DEF Fetch, Ready, Begin, shared, online
<1>8. CASE Fetched(p)
  <2>1. call[p].op = "fetch" /\ proc[p] # None
    BY <1>0, <1>8 DEF Fetched, ReadDone, Idle
  <2> QED  BY <1>8, <2>1, CallOps, CallChanges DEF Fetched, Begin, shared, online
<1>9. CASE \E pushed \in world.batches : Push(p, pushed)
  <2>1. PICK pushed \in world.batches : Push(p, pushed)
    BY <1>9
  <2>2. pushed \in SUBSET Rows
    BY <1>0, <2>1, FeatureStoreAssumption DEF StoreCircumstances
  <2> QED  BY <2>1, <2>2, PushingIsCall, CallOps, CallChanges DEF Push, Ready, Begin, shared, online
<1>10. CASE \E a \in world.asked : GetOnline(p, a[1], a[2])
  <2>1. PICK refs, keys : GetOnline(p, refs, keys)
    BY <1>10
  <2> DEFINE c == [op |-> "get", parsed |-> Parsed(refs, registry[p]), keys |-> keys, replies |-> <<>>]
  <2>2. IsCall(c) /\ c.op # "push"
    BY DEF IsCall, IsGet
  <2> QED  BY <2>1, <2>2, CallOps, CallChanges DEF GetOnline, Ready, Begin, shared, online
<1>11. CASE GetDone(p)
  <2>1. call[p].op = "get" /\ proc[p] # None
    BY <1>0, <1>11 DEF GetDone, Idle
  <2> QED  BY <1>11, <2>1, CallOps, CallChanges DEF GetDone, Begin, shared, online
<1> QED  BY <1>2, <1>3, <1>6, <1>7, <1>8, <1>9, <1>10, <1>11

LEMMA ReadsKeep ==
    ASSUME StoreInv, NEW p \in Procs,
           ListDay(p) \/ (\E f \in LakeFiles : ReadFile(p, f)) \/ SelectLatest(p) \/ Lookup(p)
    PROVE  StoreInv'
<1>0. IsCall(call[p]) /\ (proc[p] = None => call[p] = Idle)
  BY DEF StoreInv, Shape
<1>1. CASE ListDay(p)
  <2>1. IsRead(call[p]) /\ proc[p] # None
    BY <1>0, <1>1, CallOps DEF ListDay, Reading
  <2>2. PICK part, ok :
           Begin(p, [call[p] EXCEPT !.day = @ + 1, !.todo = @ \cup part, !.failed = @ \/ ~ok])
    BY <1>1 DEF ListDay
  <2> DEFINE c == [call[p] EXCEPT !.day = @ + 1, !.todo = @ \cup part, !.failed = @ \/ ~ok]
  <2>3. IsRead(c)
    BY <2>1 DEF IsRead
  <2>4. call' = [call EXCEPT ![p] = c]
    BY <2>2 DEF Begin
  <2> HIDE DEF c
  <2> QED  BY <1>1, <2>1, <2>3, <2>4, CallOps, CallChanges DEF ListDay, IsCall, shared, online
<1>2. CASE \E f \in LakeFiles : ReadFile(p, f)
  <2>1. IsRead(call[p]) /\ proc[p] # None
    BY <1>0, <1>2, CallOps DEF ReadFile, Reading
  <2>2. PICK f \in LakeFiles : ReadFile(p, f)
    BY <1>2
  <2>3. PICK ok :
           Begin(p, [call[p] EXCEPT !.todo = @ \ {f}, !.failed = @ \/ ~ok,
                                    !.rows = IF ok THEN @ \cup RowsIn(f, call[p].lo, call[p].hi) ELSE @])
    BY <2>2 DEF ReadFile
  <2> DEFINE c == [call[p] EXCEPT !.todo = @ \ {f}, !.failed = @ \/ ~ok,
                                  !.rows = IF ok THEN @ \cup RowsIn(f, call[p].lo, call[p].hi) ELSE @]
  <2>4. RowsIn(f, call[p].lo, call[p].hi) \subseteq Rows
    BY FeatureStoreAssumption DEF RowsIn
  <2>5. IsRead(c)
    BY <2>1, <2>4 DEF IsRead
  <2>6. call' = [call EXCEPT ![p] = c]
    BY <2>3 DEF Begin
  <2> HIDE DEF c
  <2> QED  BY <2>1, <2>2, <2>5, <2>6, CallOps, CallChanges DEF ReadFile, IsCall, shared, online
<1>3. CASE SelectLatest(p)
  <2>1. IsRead(call[p]) /\ proc[p] # None
    BY <1>0, <1>3, CallOps DEF SelectLatest, ReadDone, Idle
  <2>2. PICK pick \in SUBSET call[p].rows : Begin(p, Pushing(pick))
    BY <1>3 DEF SelectLatest
  <2>3. pick \in SUBSET Rows
    BY <2>1 DEF IsRead
  <2> QED  BY <1>3, <2>1, <2>2, <2>3, PushingIsCall, CallOps, CallChanges DEF SelectLatest, Begin, shared, online
<1>4. CASE Lookup(p)
  <2>1. IsGet(call[p]) /\ proc[p] # None
    BY <1>0, <1>4, CallOps DEF Lookup, Idle
  <2>2. PICK got : Begin(p, [call[p] EXCEPT !.replies = Append(@, got)])
    BY <1>4 DEF Lookup
  <2> DEFINE c == [call[p] EXCEPT !.replies = Append(@, got)]
  <2>3. IsGet(c)
    BY <2>1 DEF IsGet
  <2>4. call' = [call EXCEPT ![p] = c]
    BY <2>2 DEF Begin
  <2> HIDE DEF c
  <2> QED  BY <1>4, <2>1, <2>3, <2>4, CallOps, CallChanges DEF Lookup, IsCall, shared, online
<1> QED  BY <1>1, <1>2, <1>3, <1>4
-----------------------------------------------------------------------------
(* Writes                                                                  *)

LEMMA OutrankedGrows ==
    ASSUME NEW x, NEW h, NEW g, h \subseteq g, Outranked(x, h)
    PROVE  Outranked(x, g)
BY DEF Outranked

\* The cap takes nothing but old members: what it takes is outranked by the rest.
LEMMA CapOutranks ==
    ASSUME NEW h, NEW kept \in Capped(h), NEW x \in h
    PROVE  kept \subseteq h /\ (x \in kept \/ Outranked(x, kept))
<1>1. kept \subseteq h
  BY DEF Capped
<1>2. CASE Cardinality(h) <= MaxHist + 1
  BY <1>2 DEF Capped
<1>3. CASE ~(Cardinality(h) <= MaxHist + 1)
  <2>1. Cardinality(kept) = MaxHist + 1 /\ \A m \in kept, y \in h \ kept : Newer(m, y)
    BY <1>3 DEF Capped
  <2> QED  BY <1>1, <2>1 DEF Outranked
<1> QED  BY <1>1, <1>2, <1>3

LEMMA StandInRows ==
    ASSUME NEW u \in Users
    PROVE  /\ StandIn(u) \subseteq Rows /\ (CHOOSE r \in StandIn(u) : TRUE) \in StandIn(u)
           /\ \A r \in StandIn(u) : r.user = u
<1>1. [user |-> u, win |-> LastWin, by |-> "demo"] \in StandIn(u)
  BY DEF StandIn, DemoRows
<1>2. DemoRows \subseteq Rows
  BY FeatureStoreAssumption DEF DemoRows, Rows
<1> QED  BY <1>1, <1>2 DEF StandIn

\* A store whose two parts are written afresh, each row with its history.
LEMMA OwnStoreWritten ==
    ASSUME StoreInv, NEW p \in Procs, NEW h \in [Users -> Rows \cup {None}], NEW m \in [Users -> SUBSET Rows],
           \A u \in Users : h[u] # None => h[u].user = u,
           hash' = [hash EXCEPT ![p] = h], hist' = [hist EXCEPT ![p] = m]
    PROVE  /\ hash' \in [Stores -> [Users -> Rows \cup {None}]] /\ hist' \in [Stores -> [Users -> SUBSET Rows]]
           /\ \A s \in Stores, u \in Users : hash'[s][u] # None => hash'[s][u].user = u
           /\ p # "redis" /\ hash'[p] = h /\ hist'[p] = m
           /\ \A s \in Stores \ {p} : hash'[s] = hash[s] /\ hist'[s] = hist[s]
BY FeatureStoreAssumption DEF StoreInv, Shape, Stores

LEMMA OpenKeeps ==
    ASSUME StoreInv, NEW p \in Procs, Open(p)
    PROVE  StoreInv'
<1> DEFINE h == [u \in Users |-> CHOOSE r \in StandIn(u) : TRUE]
           m == [u \in Users |-> StandIn(u)]
<1>1. /\ h \in [Users -> Rows \cup {None}] /\ m \in [Users -> SUBSET Rows]
      /\ \A u \in Users : h[u] \in m[u] /\ h[u].user = u
  BY StandInRows
<1>2. hash' = [hash EXCEPT ![p] = h] /\ hist' = [hist EXCEPT ![p] = m] /\ call' = call /\ cut' = cut /\ world' = world
  BY DEF Open, shared
<1> HIDE DEF h, m
<1>3. /\ hash' \in [Stores -> [Users -> Rows \cup {None}]] /\ hist' \in [Stores -> [Users -> SUBSET Rows]]
      /\ \A s \in Stores, u \in Users : hash'[s][u] # None => hash'[s][u].user = u
      /\ p # "redis" /\ hash'[p] = h /\ hist'[p] = m
      /\ \A s \in Stores \ {p} : hash'[s] = hash[s] /\ hist'[s] = hist[s]
  BY <1>1, <1>2, OwnStoreWritten
<1>4. /\ proc[p] = None /\ call[p] = Idle
      /\ proc' = [q \in Procs |-> proc'[q]] /\ \A q \in Procs \ {p} : proc'[q] = proc[q]
  BY DEF Open, StoreInv, Shape
<1>5. Shape'
  <2>1. \A q \in Procs : IsCall(call'[q]) /\ (proc'[q] = None => call'[q] = Idle)
    BY <1>2, <1>4 DEF StoreInv, Shape
  <2> QED  BY <1>2, <1>3, <1>4, <2>1 DEF StoreInv, Shape
<1>6. \A q \in Procs : ToRedis(q) => ToRedis(q)' /\ call'[q] = call[q]
  BY <1>2, <1>4, CallOps DEF ToRedis
<1>7. ServedInv'
  <2>1. \A u \in Users : hash'[p][u] \in hist'[p][u]
    BY <1>1, <1>3
  <2>2. \A s \in Stores \ {p}, u \in Users : Owed(hash[s][u]) => Owed(hash[s][u])'
    BY <1>3, <1>6 DEF Owed
  <2> QED  BY <1>2, <1>3, <2>1, <2>2 DEF StoreInv, ServedInv
<1> QED  BY <1>5, <1>7 DEF StoreInv

\* A push that ends here leaves the user whose row is not in the history in cut.
LEMMA StopKeeps ==
    ASSUME StoreInv, NEW p \in Procs, Stop(p)
    PROVE  StoreInv'
<1> DEFINE h == [u \in Users |-> None]
           m == [u \in Users |-> {}]
<1>1. /\ hash' = [hash EXCEPT ![p] = h] /\ hist' = [hist EXCEPT ![p] = m] /\ world' = world
      /\ proc' = [proc EXCEPT ![p] = None] /\ call' = [call EXCEPT ![p] = Idle]
      /\ cut' = IF call[p].op = "push" /\ call[p].half # None THEN cut \cup {call[p].half.user} ELSE cut
  BY DEF Stop, shared
<1>2. h \in [Users -> Rows \cup {None}] /\ m \in [Users -> SUBSET Rows] /\ \A u \in Users : h[u] = None
  OBVIOUS
<1> HIDE DEF h, m
<1>3. /\ hash' \in [Stores -> [Users -> Rows \cup {None}]] /\ hist' \in [Stores -> [Users -> SUBSET Rows]]
      /\ \A s \in Stores, u \in Users : hash'[s][u] # None => hash'[s][u].user = u
      /\ p # "redis" /\ hash'[p] = h /\ hist'[p] = m
      /\ \A s \in Stores \ {p} : hash'[s] = hash[s] /\ hist'[s] = hist[s]
  BY <1>1, <1>2, OwnStoreWritten
<1>4. /\ proc' = [q \in Procs |-> proc'[q]] /\ call' = [q \in Procs |-> call'[q]] /\ call'[p] = Idle
      /\ \A q \in Procs \ {p} : proc'[q] = proc[q] /\ call'[q] = call[q]
  BY <1>1 DEF StoreInv, Shape
<1>5. Shape'
  <2>1. \A q \in Procs : IsCall(call'[q]) /\ (proc'[q] = None => call'[q] = Idle)
    BY <1>4, CallOps DEF StoreInv, Shape
  <2> QED  BY <1>1, <1>3, <1>4, <2>1 DEF StoreInv, Shape
<1>6. \A q \in Procs \ {p} : ToRedis(q) => ToRedis(q)' /\ call'[q] = call[q]
  BY <1>4 DEF ToRedis
<1>7. ASSUME NEW s \in Stores \ {p}, NEW u \in Users, hash[s][u] # None, Owed(hash[s][u])
      PROVE  u \in cut' \/ Owed(hash[s][u])'
  <2>1. PICK q \in Procs : ToRedis(q) /\ call[q].half = hash[s][u]
    BY <1>7 DEF Owed
  <2>2. CASE q = p
    BY <1>1, <1>7, <2>1, <2>2 DEF ToRedis, StoreInv, Shape
  <2>3. CASE q # p
    BY <1>3, <1>6, <2>1, <2>3 DEF Owed
  <2> QED  BY <2>2, <2>3
<1>8. ServedInv'
  <2>1. \A u \in Users : hash'[p][u] = None
    BY <1>2, <1>3
  <2>2. cut \subseteq cut'
    BY <1>1
  <2> QED  BY <1>3, <1>7, <2>1, <2>2 DEF StoreInv, ServedInv
<1> QED  BY <1>5, <1>8 DEF StoreInv

LEMMA PushFailsKeeps ==
    ASSUME StoreInv, NEW p \in Procs, PushFails(p)
    PROVE  StoreInv'
<1>1. /\ hash' = hash /\ hist' = hist /\ world' = world /\ proc' = proc /\ call' = [call EXCEPT ![p] = Idle]
      /\ cut' = IF call[p].half # None THEN cut \cup {call[p].half.user} ELSE cut
  BY DEF PushFails, shared, Begin
<1>2. /\ call' = [q \in Procs |-> call'[q]] /\ call'[p] = Idle /\ \A q \in Procs \ {p} : call'[q] = call[q]
  BY <1>1 DEF StoreInv, Shape
<1>3. Shape'
  <2>1. \A q \in Procs : IsCall(call'[q]) /\ (proc'[q] = None => call'[q] = Idle)
    BY <1>1, <1>2, CallOps DEF StoreInv, Shape
  <2> QED  BY <1>1, <1>2, <2>1 DEF StoreInv, Shape
<1>4. ASSUME NEW s \in Stores, NEW u \in Users, hash[s][u] # None, Owed(hash[s][u])
      PROVE  u \in cut' \/ Owed(hash[s][u])'
  <2>1. PICK q \in Procs : ToRedis(q) /\ call[q].half = hash[s][u]
    BY <1>4 DEF Owed
  <2>2. CASE q = p
    BY <1>1, <1>4, <2>1, <2>2 DEF StoreInv, Shape
  <2>3. CASE q # p
    BY <1>1, <1>2, <2>1, <2>3 DEF Owed, ToRedis
  <2> QED  BY <2>2, <2>3
<1>5. ServedInv'
  BY <1>1, <1>4 DEF StoreInv, ServedInv
<1> QED  BY <1>3, <1>5 DEF StoreInv

\* The first command serves the row and owes it to the history; the second one
\* pays.
LEMMA PushRowKeeps ==
    ASSUME StoreInv, NEW p \in Procs, NEW r \in Rows, PushRow(p, r)
    PROVE  StoreInv'
<1>0. /\ ToRedis(p) /\ r \in call[p].queue /\ IsPush(call[p]) /\ proc[p] # None
      /\ world' = world /\ proc' = proc /\ "redis" \in Stores /\ r.user \in Users /\ r # None
  <2>1. IsPush(call[p]) /\ proc[p] # None
    BY CallOps DEF PushRow, ToRedis, StoreInv, Shape
  <2> QED  BY <2>1, FeatureStoreAssumption DEF PushRow, shared, Stores, Rows
<1>1. CASE call[p].half = None
  <2> DEFINE c == [call[p] EXCEPT !.half = r]
  <2>1. hash' = [hash EXCEPT !["redis"][r.user] = r] /\ hist' = hist /\ cut' = cut \ {r.user}
        /\ call' = [call EXCEPT ![p] = c]
    BY <1>1 DEF PushRow, Put, Begin
  <2>2. IsPush(c) /\ c.op = "push" /\ c.half = r
    BY <1>0 DEF IsPush
  <2> HIDE DEF c
  <2>3. /\ hash' \in [Stores -> [Users -> Rows \cup {None}]] /\ hash'["redis"][r.user] = r
        /\ \A s \in Stores, u \in Users : ~(s = "redis" /\ u = r.user) => hash'[s][u] = hash[s][u]
    BY <1>0, <2>1 DEF StoreInv, Shape
  <2>4. /\ call' = [q \in Procs |-> call'[q]] /\ call'[p] = c /\ \A q \in Procs \ {p} : call'[q] = call[q]
    BY <2>1 DEF StoreInv, Shape
  <2>5. Shape'
    <3>1. \A q \in Procs : IsCall(call'[q]) /\ (proc'[q] = None => call'[q] = Idle)
      BY <1>0, <2>2, <2>4 DEF StoreInv, Shape, IsCall
    <3>2. \A s \in Stores, u \in Users : hash'[s][u] # None => hash'[s][u].user = u
      BY <2>3 DEF StoreInv, Shape
    <3> QED  BY <1>0, <2>1, <2>3, <2>4, <3>1, <3>2 DEF StoreInv, Shape
  <2>6. Owed(hash["redis"][r.user])'
    BY <1>0, <2>2, <2>3, <2>4 DEF Owed, ToRedis
  <2>7. ASSUME NEW x, x # None, Owed(x)
        PROVE  \E q \in Procs : ToRedis(q)' /\ call'[q].half = x
    BY <1>0, <1>1, <2>4, <2>7 DEF Owed, ToRedis
  <2>8. ASSUME NEW s \in Stores, NEW u \in Users, ~(s = "redis" /\ u = r.user), hash[s][u] # None, Owed(hash[s][u])
        PROVE  Owed(hash[s][u])'
    BY <2>3, <2>7, <2>8 DEF Owed
  <2>9. ServedInv'
    BY <2>1, <2>3, <2>6, <2>8 DEF StoreInv, ServedInv
  <2> QED  BY <2>5, <2>9 DEF StoreInv
<1>2. CASE call[p].half # None
  <2> DEFINE c == Pushing(call[p].queue \ {r})
  <2>1. hist' = [hist EXCEPT !["redis"][r.user] = @ \cup {r}] /\ hash' = hash /\ cut' = cut /\ r = call[p].half
        /\ call' = [call EXCEPT ![p] = c]
    BY <1>2 DEF PushRow, Add, Begin
  <2>2. IsCall(c)
    BY <1>0, PushingIsCall DEF IsPush
  <2> HIDE DEF c
  <2>3. /\ hist' \in [Stores -> [Users -> SUBSET Rows]] /\ r \in hist'["redis"][r.user]
        /\ \A s \in Stores, u \in Users : hist[s][u] \subseteq hist'[s][u]
    BY <1>0, <2>1 DEF StoreInv, Shape
  <2>4. /\ call' = [q \in Procs |-> call'[q]] /\ call'[p] = c /\ \A q \in Procs \ {p} : call'[q] = call[q]
    BY <2>1 DEF StoreInv, Shape
  <2>5. Shape'
    <3>1. \A q \in Procs : IsCall(call'[q]) /\ (proc'[q] = None => call'[q] = Idle)
      BY <1>0, <2>2, <2>4 DEF StoreInv, Shape
    <3> QED  BY <1>0, <2>1, <2>3, <2>4, <3>1 DEF StoreInv, Shape
  <2>6. ASSUME NEW u \in Users, hash["redis"][u] # None, Owed(hash["redis"][u])
        PROVE  hash["redis"][u] \in hist'["redis"][u] \/ Owed(hash["redis"][u])'
    <3>1. PICK q \in Procs : ToRedis(q) /\ call[q].half = hash["redis"][u]
      BY <2>6 DEF Owed
    <3>2. CASE q = p
      <4>1. r = hash["redis"][u] /\ r.user = u
        BY <1>0, <2>1, <2>6, <3>1, <3>2 DEF StoreInv, Shape
      <4> QED  BY <2>3, <4>1
    <3>3. CASE q # p
      BY <1>0, <2>1, <2>4, <3>1, <3>3 DEF Owed, ToRedis
    <3> QED  BY <3>2, <3>3
  <2>7. ServedInv'
    <3>1. \A s \in Stores, u \in Users :
              Outranked(hash[s][u], hist[s][u]) => Outranked(hash[s][u], hist'[s][u])
      BY <2>3, OutrankedGrows
    <3> QED  BY <1>0, <2>1, <2>3, <2>6, <3>1 DEF StoreInv, ServedInv
  <2> QED  BY <2>5, <2>7 DEF StoreInv
<1> QED  BY <1>1, <1>2

\* The stand-in takes all rows at once, the history with them.
LEMMA PushToStubKeeps ==
    ASSUME StoreInv, NEW p \in Procs, PushToStub(p)
    PROVE  StoreInv'
<1> DEFINE of(u) == {r \in call[p].queue : r.user = u}
           h == [u \in Users |-> IF of(u) = {} THEN hash[p][u] ELSE CHOOSE r \in of(u) : TRUE]
           m == [u \in Users |-> hist[p][u] \cup of(u)]
<1>0. /\ IsPush(call[p]) /\ proc[p] # None /\ world' = world /\ proc' = proc /\ cut' = cut
      /\ proc[p].online = p /\ p # "redis" /\ p \in Stores /\ call' = [call EXCEPT ![p] = Idle]
  <2>1. IsPush(call[p]) /\ proc[p] # None
    BY CallOps DEF PushToStub, StoreInv, Shape
  <2> QED  BY <2>1, FeatureStoreAssumption DEF PushToStub, shared, Stores, Begin
<1>1. \A u \in Users : of(u) \in SUBSET Rows /\ \A r \in of(u) : r.user = u
  BY <1>0 DEF IsPush
<1>2. hash[p] \in [Users -> Rows \cup {None}] /\ hist[p] \in [Users -> SUBSET Rows]
  BY <1>0 DEF StoreInv, Shape
<1>3. /\ h \in [Users -> Rows \cup {None}] /\ m \in [Users -> SUBSET Rows]
      /\ \A u \in Users : h[u] # None => h[u].user = u
      /\ \A u \in Users : h[u] = hash[p][u] \/ h[u] \in m[u]
      /\ \A u \in Users : hist[p][u] \subseteq m[u]
  <2>1. \A u \in Users : of(u) # {} => (CHOOSE r \in of(u) : TRUE) \in of(u)
    OBVIOUS
  <2>2. \A u \in Users : hash[p][u] # None => hash[p][u].user = u
    BY <1>0 DEF StoreInv, Shape
  <2> HIDE DEF of
  <2> QED  BY <1>1, <1>2, <2>1, <2>2
<1>4. hash' = [hash EXCEPT ![p] = h] /\ hist' = [hist EXCEPT ![p] = m]
  <2>1. /\ hash' = [hash EXCEPT ![p] = [u \in Users |-> IF of(u) = {} THEN @[u] ELSE CHOOSE r \in of(u) : TRUE]]
        /\ hist' = [hist EXCEPT ![p] = [u \in Users |-> @[u] \cup of(u)]]
    BY DEF PushToStub
  <2> QED  BY <2>1
<1> HIDE DEF h, m
<1>5. /\ hash' \in [Stores -> [Users -> Rows \cup {None}]] /\ hist' \in [Stores -> [Users -> SUBSET Rows]]
      /\ \A s \in Stores, u \in Users : hash'[s][u] # None => hash'[s][u].user = u
      /\ hash'[p] = h /\ hist'[p] = m
      /\ \A s \in Stores \ {p} : hash'[s] = hash[s] /\ hist'[s] = hist[s]
  <2>1. /\ h \in [Users -> Rows \cup {None}] /\ m \in [Users -> SUBSET Rows]
        /\ \A u \in Users : h[u] # None => h[u].user = u
    BY <1>3
  <2> QED  BY <1>0, <1>4, <2>1 DEF StoreInv, Shape
<1>6. /\ call' = [q \in Procs |-> call'[q]] /\ call'[p] = Idle /\ \A q \in Procs \ {p} : call'[q] = call[q]
  BY <1>0 DEF StoreInv, Shape
<1>7. Shape'
  <2>1. \A q \in Procs : IsCall(call'[q]) /\ (proc'[q] = None => call'[q] = Idle)
    BY <1>0, <1>6, CallOps DEF StoreInv, Shape
  <2> QED  BY <1>0, <1>5, <1>6, <2>1 DEF StoreInv, Shape
<1>8. \A q \in Procs : ToRedis(q) => ToRedis(q)' /\ call'[q] = call[q]
  BY <1>0, <1>6 DEF ToRedis
<1>9. ServedInv'
  <2>1. \A u \in Users : hash'[p][u] = None \/ hash'[p][u] \in hist'[p][u]
    BY <1>0, <1>3, <1>5 DEF StoreInv, ServedInv
  <2>2. \A s \in Stores \ {p}, u \in Users : Owed(hash[s][u]) => Owed(hash[s][u])'
    BY <1>5, <1>8 DEF Owed
  <2> QED  BY <1>0, <1>5, <2>1, <2>2 DEF StoreInv, ServedInv
<1> QED  BY <1>7, <1>9 DEF StoreInv

\* The transaction of the Kafka writer: the pruning by age spares the row it has put,
\* that by rank takes it only when enough others outrank it.
LEMMA StreamWriteKeeps ==
    ASSUME StoreInv, NEW r \in world.streamed, StreamWrite(r)
    PROVE  StoreInv'
<1>0. /\ r \in Rows /\ r.by = "stream" /\ r.user \in Users /\ "redis" \in Stores
      /\ world' = world /\ proc' = proc /\ call' = call /\ cut' = cut \ {r.user}
      /\ hash' = [hash EXCEPT !["redis"][r.user] = r]
  <2>1. r \in Rows /\ r.by = "stream"
    BY FeatureStoreAssumption DEF StoreInv, Shape, StoreCircumstances
  <2> QED  BY <2>1 DEF StreamWrite, Put, shared, local, Rows, Stores
<1> DEFINE young == {m \in hist["redis"][r.user] \cup {r} : m.win + HistSpan > r.win}
<1>1. PICK kept \in Capped(young) : hist' = [hist EXCEPT !["redis"][r.user] = kept]
  BY DEF StreamWrite
<1>2. r.win + HistSpan > r.win
  BY <1>0, FeatureStoreAssumption DEF Rows
<1>3. young \subseteq Rows /\ r \in young
  BY <1>0, <1>2 DEF StoreInv, Shape
<1> HIDE DEF young
<1>4. kept \in SUBSET Rows /\ (r \in kept \/ Outranked(r, kept))
  BY <1>1, <1>3, CapOutranks
<1>5. /\ hash' \in [Stores -> [Users -> Rows \cup {None}]] /\ hash'["redis"][r.user] = r
      /\ \A s \in Stores, u \in Users : ~(s = "redis" /\ u = r.user) => hash'[s][u] = hash[s][u]
  BY <1>0 DEF StoreInv, Shape
<1>6. /\ hist' \in [Stores -> [Users -> SUBSET Rows]] /\ hist'["redis"][r.user] = kept
      /\ \A s \in Stores, u \in Users : ~(s = "redis" /\ u = r.user) => hist'[s][u] = hist[s][u]
  BY <1>0, <1>1, <1>4 DEF StoreInv, Shape
<1>7. Shape'
  <2>1. \A s \in Stores, u \in Users : hash'[s][u] # None => hash'[s][u].user = u
    BY <1>5 DEF StoreInv, Shape
  <2> QED  BY <1>0, <1>5, <1>6, <2>1 DEF StoreInv, Shape
<1>8. \A s \in Stores, u \in Users : ~(s = "redis" /\ u = r.user) => (Owed(hash[s][u]) => Owed(hash[s][u])')
  BY <1>0, <1>5 DEF Owed, ToRedis
<1>9. ServedInv'
  <2>1. \/ hash'["redis"][r.user] \in hist'["redis"][r.user]
        \/ hash'["redis"][r.user].by = "stream" /\ Outranked(hash'["redis"][r.user], hist'["redis"][r.user])
    BY <1>0, <1>4, <1>5, <1>6
  <2> QED  BY <1>0, <1>5, <1>6, <1>8, <2>1 DEF StoreInv, ServedInv
<1> QED  BY <1>7, <1>9 DEF StoreInv

LEMMA ExpireKeeps ==
    ASSUME StoreInv, NEW v \in Users, Expire(v)
    PROVE  StoreInv'
<1>0. /\ world' = world /\ proc' = proc /\ call' = call /\ "redis" \in Stores
      /\ \/ hist' = [hist EXCEPT !["redis"][v] = {}] /\ cut' = cut \cup {v} /\ hash' = hash
         \/ hash' = [hash EXCEPT !["redis"][v] = None] /\ hist' = hist /\ cut' = cut
  BY DEF Expire, shared, local, Stores
<1>1. /\ hash' \in [Stores -> [Users -> Rows \cup {None}]] /\ hist' \in [Stores -> [Users -> SUBSET Rows]]
      /\ \A s \in Stores, u \in Users : hash'[s][u] = None \/ hash'[s][u] = hash[s][u]
      /\ \A s \in Stores, u \in Users : hist'[s][u] = hist[s][u] \/ (s = "redis" /\ u = v /\ u \in cut')
      /\ cut \subseteq cut'
  <2>1. hash \in [Stores -> [Users -> Rows \cup {None}]] /\ hist \in [Stores -> [Users -> SUBSET Rows]]
    BY DEF StoreInv, Shape
  <2>2. CASE hist' = [hist EXCEPT !["redis"][v] = {}] /\ cut' = cut \cup {v} /\ hash' = hash
    BY <1>0, <2>1, <2>2
  <2>3. CASE hash' = [hash EXCEPT !["redis"][v] = None] /\ hist' = hist /\ cut' = cut
    BY <1>0, <2>1, <2>3
  <2> QED  BY <1>0, <2>2, <2>3
<1>2. Shape'
  BY <1>0, <1>1 DEF StoreInv, Shape
<1>3. \A s \in Stores, u \in Users : hash'[s][u] = hash[s][u] => (Owed(hash[s][u]) => Owed(hash[s][u])')
  BY <1>0 DEF Owed, ToRedis
<1>4. ServedInv'
  BY <1>0, <1>1, <1>3 DEF StoreInv, ServedInv
<1> QED  BY <1>2, <1>4 DEF StoreInv

\* Neither a manifest nor another program of the lake touches Redis.
LEMMA StoreStutters ==
    ASSUME StoreInv, UNCHANGED <<world, online, proc, call>>
    PROVE  StoreInv'
BY DEF StoreInv, Shape, ServedInv, Owed, ToRedis, online

LEMMA StoreStarts ==
    ASSUME Init
    PROVE  StoreInv
<1>1. StoreInit /\ world \in StoreSettings
  BY LakeSettingsAssumption DEF Init
<1>2. Shape
  BY <1>1, CallOps DEF StoreInit, Shape
<1>3. ServedInv
  BY <1>1 DEF StoreInit, ServedInv
<1> QED  BY <1>2, <1>3 DEF StoreInv

LEMMA StoreKeeps ==
    ASSUME StoreInv, [Next]_vars
    PROVE  StoreInv'
<1>1. CASE UNCHANGED vars
  BY <1>1, StoreStutters DEF vars, storeVars, local
<1>2. CASE TrainNext /\ UNCHANGED <<fills, storeVars, engineVars, batchVars>>
  BY <1>2, StoreStutters DEF storeVars, local
<1>3. CASE EngineNext /\ UNCHANGED <<fills, storeVars, trainVars, batchVars>>
  BY <1>3, StoreStutters DEF storeVars, local
<1>4. CASE \E f \in LakeFiles : Arrive(f)
  BY <1>4, StoreStutters DEF Arrive, storeVars, local
<1>5. CASE \E d \in Days : PutManifest(d)
  BY <1>5, StoreStutters DEF PutManifest, local
<1>6. CASE \E r \in world.streamed : StreamWrite(r)
  BY <1>6, StreamWriteKeeps
<1>7. CASE \E u \in Users : Expire(u)
  BY <1>7, ExpireKeeps
<1>8. ASSUME NEW p \in Procs, StoreStep(p)
      PROVE  StoreInv'
  <2>1. CASE Open(p) \/ Stop(p) \/ PushFails(p) \/ PushToStub(p)
    BY <2>1, OpenKeeps, StopKeeps, PushFailsKeeps, PushToStubKeeps
  <2>2. CASE \E r \in Rows : PushRow(p, r)
    BY <2>2, PushRowKeeps
  <2>3. CASE ListDay(p) \/ (\E f \in LakeFiles : ReadFile(p, f)) \/ SelectLatest(p) \/ Lookup(p)
    BY <2>3, ReadsKeep
  <2>4. CASE \/ \E objs \in world.applies : Apply(p, objs)
             \/ \E range \in world.ranges : Materialize(p, range[1], range[2])
             \/ \E frame \in world.frames : Historical(p, frame)
             \/ Fetch(p) \/ Fetched(p)
             \/ \E pushed \in world.batches : Push(p, pushed)
             \/ \E a \in world.asked : GetOnline(p, a[1], a[2])
             \/ GetDone(p)
    BY <2>4, RequestsKeep
  <2> QED  BY <1>8, <2>1, <2>2, <2>3, <2>4 DEF StoreStep
<1>9. CASE BatchNext /\ UNCHANGED <<fills, storeVars, trainVars, engineVars>>
  BY <1>9, StoreStutters DEF storeVars, local
<1> QED  BY <1>1, <1>2, <1>3, <1>4, <1>5, <1>6, <1>7, <1>8, <1>9 DEF Next, StoreNext

\* For any number of processes, users and rows: the row Redis serves for a user
\* is in the user's history unless a push is between its two commands, was cut
\* short there, or the history expired, or the row is a late window of the Kafka writer
\* and the history has its cap's worth of members no older; a stand-in's always is.
THEOREM ServedRowIsInHistory == Spec => []LatestIsInHistory
<1>1. StoreInv => LatestIsInHistory
  <2> SUFFICES ASSUME StoreInv, NEW s \in Stores, NEW u \in Users, hash[s][u] # None,
                      ~(s = "redis" /\ (Halfway(u) \/ u \in cut))
               PROVE  \/ hash[s][u] \in hist[s][u]
                      \/ s = "redis" /\ hash[s][u].by = "stream" /\ Outranked(hash[s][u], hist[s][u])
    BY DEF LatestIsInHistory
  <2>1. Owed(hash[s][u]) => Halfway(u)
    BY DEF Owed, Halfway, StoreInv, Shape
  <2> QED  BY <2>1 DEF StoreInv, ServedInv
<1>2. Spec => []StoreInv
  BY StoreStarts, StoreKeeps, PTL DEF Spec
<1> QED  BY <1>1, <1>2, PTL

-----------------------------------------------------------------------------
(* The offline reader                                                      *)

SinkRecords == UNION {Dated(f) : f \in LakeFiles}

ReaderType ==
    /\ batch \in BatchSettings /\ objects \subseteq LakeFiles
    /\ reader \in [pc : {"new", "ready", "scan", "list", "make"}, backend : BackEnds \cup {None},
                   asked : BackEnds \cup {None}, lo : Nat, hi : Nat, day : Nat, todo : SUBSET LakeFiles,
                   rows : SUBSET SinkRecords, due : SUBSET SinkRecords, failed : BOOLEAN, reads : Nat]
    /\ reader.pc = "new" => last = None
    /\ reader.pc = "ready" => reader.backend \in BackEnds

\* A record that is due has been read, or is still to come: its object is listed, or
\* in the folder of a day ahead.
DueIsAhead ==
    \A x \in reader.due :
        \/ x \in reader.rows
        \/ \E f \in reader.todo : x \in Dated(f)
        \/ \E f \in objects : x \in Dated(f) /\ reader.day <= SinkDay[f] /\ SinkDay[f] <= reader.hi

\* What the last read returned is as the property has it, ready or not.
Told ==
    last # None =>
        /\ last.backend = reader.backend
        /\ \A r \in last.rows : r.id = None <=> last.backend = "synthetic"
        /\ last.backend = "iceberg" => last.asked = "iceberg"
        /\ last.backend = "minio" /\ ~last.failed => last.due \subseteq last.rows
        /\ last.backend = "synthetic" /\ last.asked # "synthetic" /\ batch.minio /\ ~last.failed =>
              last.due = {}

ReadInv ==
    /\ reader.pc = "scan" => reader.backend = "iceberg" /\ reader.asked = "iceberg"
    /\ reader.pc = "list" => reader.backend = "minio"
    /\ reader.pc \in {"scan", "list"} /\ ~reader.failed => DueIsAhead
    /\ reader.pc = "make" => /\ reader.backend = "synthetic"
                             /\ reader.asked # "synthetic" /\ batch.minio /\ ~reader.failed => reader.due = {}
    /\ reader.pc = "scan" => Told

BatchInv == ReaderType /\ ReadInv /\ BatchReadsTellTheirSource

\* Records parsed out of an object have an id.
LEMMA RecordsHaveIds == \A x \in SinkRecords : x.id # None
<1> SUFFICES ASSUME NEW x \in SinkRecords
             PROVE  x.id # None
  OBVIOUS
<1>0. PICK f \in LakeFiles : x \in Dated(f)
  BY DEF SinkRecords
<1>1. PICK r \in SinkRows[f] : x = [r EXCEPT !.date = IF @ = None THEN SinkDay[f] ELSE @]
  BY <1>0 DEF Dated
<1>2. r \in [id : {r.id}, date : Nat \cup {None}] /\ r.id # None
  BY BatchAssumption DEF RecordsOf
<1> QED  BY <1>1, <1>2

\* The steps of the other programs leave the reader alone; the bucket only grows.
LEMMA BatchStutters ==
    ASSUME BatchInv, UNCHANGED batchVars, objects \subseteq objects', objects' \subseteq LakeFiles
    PROVE  BatchInv'
<1> USE DEF batchVars
<1>1. ReaderType'
  BY DEF BatchInv, ReaderType
<1>2. DueIsAhead => DueIsAhead'
  BY DEF DueIsAhead, Dated
<1>3. ReadInv'
  BY <1>2 DEF BatchInv, ReadInv, Told
<1>4. BatchReadsTellTheirSource'
  BY DEF BatchInv, BatchReadsTellTheirSource
<1> QED  BY <1>1, <1>3, <1>4 DEF BatchInv

LEMMA BatchStarts ==
    ASSUME Init
    PROVE  BatchInv
BY LakeSettingsAssumption DEF Init, BatchInit, BatchInv, ReaderType, ReadInv, BatchReadsTellTheirSource

LEMMA ReadBegins ==
    ASSUME BatchInv, batch # None, NEW range \in batch.ranges, ReadDateRange(range[1], range[2])
    PROVE  BatchInv'
<1> DEFINE lo == range[1]
           hi == range[2]
           due == UNION {Dated(f) : f \in UNION {Folder(d) : d \in lo..hi}}
<1>1. lo \in Nat /\ hi \in Nat
  BY BatchAssumption DEF BatchInv, ReaderType, BatchCircumstances
<1>2. reader.pc = "ready" /\ reader.backend \in BackEnds
  BY DEF BatchInv, ReaderType, ReadDateRange
<1>3. Folder(1) \subseteq LakeFiles /\ \A d : Folder(d) \subseteq LakeFiles
  BY DEF Folder, BatchInv, ReaderType
<1>4. due \subseteq SinkRecords
  BY <1>3 DEF SinkRecords
<1>5. \A x \in due : \E f \in objects : x \in Dated(f) /\ lo <= SinkDay[f] /\ SinkDay[f] <= hi
  BY <1>1 DEF Folder
<1> HIDE DEF due
<1>6. reader' = [reader EXCEPT !.pc = FirstStep(reader.backend), !.asked = reader.backend, !.lo = lo, !.hi = hi, !.day = lo, !.todo = {},
                !.rows = {}, !.due = due, !.failed = FALSE, !.reads = @ + 1] /\ UNCHANGED <<batch, objects, last>>
  BY DEF ReadDateRange, ReaderGoes, due
<1>7. FirstStep(reader.backend) \in {"scan", "list", "make"}
  BY DEF FirstStep
<1>8. ReaderType'
  <2>1. reader.reads + 1 \in Nat /\ {} \in SUBSET LakeFiles /\ {} \in SUBSET SinkRecords /\ due \in SUBSET SinkRecords
    BY <1>4 DEF BatchInv, ReaderType
  <2>2. reader'.pc \notin {"new"} /\ (reader'.pc = "ready" => reader'.backend \in BackEnds)
    BY <1>2, <1>6, <1>7 DEF BatchInv, ReaderType
  <2> HIDE DEF lo, hi
  <2> QED  BY <1>1, <1>2, <1>6, <1>7, <2>1, <2>2 DEF BatchInv, ReaderType
<1>9. /\ reader'.pc = FirstStep(reader.backend) /\ reader'.backend = reader.backend /\ reader'.asked = reader.backend
      /\ reader'.due = due /\ reader'.day = lo /\ reader'.hi = hi
  BY <1>6 DEF BatchInv, ReaderType
<1>10. DueIsAhead'
  BY <1>5, <1>6, <1>9 DEF DueIsAhead, Dated
<1>11. ReadInv'
  <2>1. Told'
    BY <1>2, <1>6, <1>9 DEF BatchInv, BatchReadsTellTheirSource, Told
  <2> QED  BY <1>2, <1>9, <1>10, <2>1 DEF ReadInv, FirstStep, BackEnds
<1>12. BatchReadsTellTheirSource'
  BY <1>7, <1>9 DEF BatchReadsTellTheirSource
<1> QED  BY <1>8, <1>11, <1>12 DEF BatchInv

\* A read that ends: what it returned is what its back-end had.
LEMMA ReadReturns ==
    ASSUME BatchInv, NEW rows, Returns(rows), reader.backend \in BackEnds,
           \A r \in rows : r.id = None <=> reader.backend = "synthetic",
           reader.backend = "iceberg" => reader.asked = "iceberg",
           reader.backend = "minio" /\ ~reader.failed => reader.due \subseteq rows,
           reader.backend = "synthetic" /\ reader.asked # "synthetic" /\ batch.minio /\ ~reader.failed => reader.due = {}
    PROVE  BatchInv'
<1>1. ReaderType' /\ reader'.pc = "ready" /\ reader'.backend = reader.backend
  BY DEF BatchInv, ReaderType, Returns
<1>2. ReadInv'
  BY <1>1 DEF ReadInv
<1>3. BatchReadsTellTheirSource'
  BY <1>1 DEF BatchReadsTellTheirSource, Returns
<1> QED  BY <1>1, <1>2, <1>3 DEF BatchInv

\* A read that goes on: the reader is not ready, so nothing has been returned anew.
LEMMA ReadGoesOn ==
    ASSUME BatchInv, ReaderType', ReadInv', reader'.pc \notin {"ready"}
    PROVE  BatchInv'
BY DEF BatchInv, BatchReadsTellTheirSource

LEMMA ScanKeeps ==
    ASSUME BatchInv, ScanTable
    PROVE  BatchInv'
<1>1. reader.pc = "scan" /\ reader.backend = "iceberg" /\ reader.asked = "iceberg"
  BY DEF BatchInv, ReadInv, ScanTable
<1>2. CASE Returns({r \in TableRows : r.date \in reader.lo..reader.hi})
  BY <1>1, <1>2, ReadReturns, BatchAssumption DEF BackEnds
<1>3. CASE ReaderGoes(FallsBack("minio"))
  <2>1. ReaderType'
    BY <1>3 DEF BatchInv, ReaderType, ReaderGoes, FallsBack, FirstStep, BackEnds
  <2>2. reader'.pc = "list" /\ reader'.backend = "minio"
    BY <1>3 DEF BatchInv, ReaderType, ReaderGoes, FallsBack, FirstStep
  <2>3. reader'.failed = reader.failed /\ (DueIsAhead => DueIsAhead')
    BY <1>3 DEF BatchInv, ReaderType, ReaderGoes, FallsBack, DueIsAhead, Dated
  <2>4. ReadInv'
    BY <1>1, <2>2, <2>3 DEF BatchInv, ReadInv
  <2> QED  BY <2>1, <2>2, <2>4, ReadGoesOn
<1> QED  BY <1>2, <1>3 DEF ScanTable

\* What the planning raises leaves the reader as it was before the read.
LEMMA PlanRaisesKeeps ==
    ASSUME BatchInv, PlanRaises
    PROVE  BatchInv'
<1>1. reader.pc = "scan" /\ Told /\ reader.backend = "iceberg"
  BY DEF BatchInv, ReadInv, PlanRaises
<1>2. reader' = [reader EXCEPT !.pc = "ready"] /\ UNCHANGED <<batch, objects, last>>
  BY DEF PlanRaises, ReaderGoes
<1>3. ReaderType' /\ reader'.pc = "ready" /\ reader'.backend = reader.backend
  BY <1>1, <1>2 DEF BatchInv, ReaderType, BackEnds
<1>4. ReadInv'
  BY <1>3 DEF ReadInv
<1>5. BatchReadsTellTheirSource'
  BY <1>1, <1>2, <1>3 DEF Told, BatchReadsTellTheirSource
<1> QED  BY <1>3, <1>4, <1>5 DEF BatchInv

\* The reader gives up on its back-end and makes its rows up.
LEMMA MakingUpKeeps ==
    ASSUME BatchInv, ReaderGoes(FallsBack("synthetic")), reader.pc = "list",
           batch.minio /\ ~reader.failed => reader.due = {}
    PROVE  BatchInv'
<1>1. ReaderType'
  BY DEF BatchInv, ReaderType, ReaderGoes, FallsBack, FirstStep, BackEnds
<1>2. /\ reader'.pc = "make" /\ reader'.backend = "synthetic" /\ batch' = batch
      /\ reader'.failed = reader.failed /\ reader'.due = reader.due
  BY DEF BatchInv, ReaderType, ReaderGoes, FallsBack, FirstStep
<1>3. ReadInv'
  BY <1>2 DEF ReadInv
<1> QED  BY <1>1, <1>2, <1>3, ReadGoesOn

LEMMA ListFolderKeeps ==
    ASSUME BatchInv, ListFolder
    PROVE  BatchInv'
<1>1. CASE ~batch.minio
  BY <1>1, MakingUpKeeps DEF ListFolder
<1>2. ASSUME NEW ok \in BOOLEAN,
             ReaderGoes([reader EXCEPT !.day = @ + 1, !.todo = IF ok THEN Folder(reader.day) ELSE {}, !.failed = @ \/ ~ok])
      PROVE  BatchInv'
  <2>0. Folder(reader.day) \subseteq LakeFiles
    BY DEF Folder, BatchInv, ReaderType
  <2>1. ReaderType'
    <3> DEFINE todo == IF ok THEN Folder(reader.day) ELSE {}
               failed == reader.failed \/ ~ok
    <3>1. todo \in SUBSET LakeFiles
      BY <2>0
    <3>2. failed \in BOOLEAN
      BY Zenon DEF BatchInv, ReaderType
    <3>3. reader' = [reader EXCEPT !.day = @ + 1, !.todo = todo, !.failed = failed] /\ UNCHANGED <<batch, objects, last>>
      BY <1>2 DEF ReaderGoes
    <3>4. reader.pc = "list"
      BY DEF ListFolder
    <3> HIDE DEF todo, failed
    <3>5. reader.day + 1 \in Nat
      BY DEF BatchInv, ReaderType
    <3> QED  BY <3>1, <3>2, <3>3, <3>4, <3>5 DEF BatchInv, ReaderType
  <2>2. /\ reader'.pc = "list" /\ reader'.backend = "minio" /\ objects' = objects
        /\ reader'.due = reader.due /\ reader'.rows = reader.rows /\ reader'.hi = reader.hi
        /\ reader'.day = reader.day + 1 /\ reader'.failed = (reader.failed \/ ~ok)
        /\ reader'.todo = IF ok THEN Folder(reader.day) ELSE {}
    BY <1>2 DEF BatchInv, ReaderType, ReadInv, ReaderGoes, ListFolder
  <2>3. ASSUME ~reader'.failed
        PROVE  DueIsAhead'
    <3>1. DueIsAhead /\ ok /\ reader.todo = {}
      BY <2>2, <2>3 DEF BatchInv, ReadInv, ListFolder
    <3>2. SinkDay \in [LakeFiles -> Nat] /\ objects \subseteq LakeFiles /\ reader.day \in Nat /\ reader.hi \in Nat
      BY BatchAssumption DEF BatchInv, ReaderType
    <3>3. ASSUME NEW x \in reader.due, x \notin reader.rows
          PROVE  \/ \E f \in Folder(reader.day) : x \in Dated(f)
                 \/ \E f \in objects : x \in Dated(f) /\ reader.day + 1 <= SinkDay[f] /\ SinkDay[f] <= reader.hi
      <4>1. PICK f \in objects : x \in Dated(f) /\ reader.day <= SinkDay[f] /\ SinkDay[f] <= reader.hi
        BY <3>1, <3>3 DEF DueIsAhead
      <4>2. SinkDay[f] = reader.day => f \in Folder(reader.day)
        BY DEF Folder
      <4>3. SinkDay[f] \in Nat
        BY <3>2
      <4>4. SinkDay[f] # reader.day => reader.day + 1 <= SinkDay[f]
        BY <3>2, <4>1, <4>3
      <4> QED  BY <4>1, <4>2, <4>4
    <3> QED  BY <2>2, <3>1, <3>3 DEF DueIsAhead, Dated
  <2>4. ReadInv'
    BY <2>2, <2>3 DEF ReadInv
  <2> QED  BY <2>1, <2>2, <2>4, ReadGoesOn
<1> QED  BY <1>1, <1>2 DEF ListFolder, Outcomes

LEMMA GetObjectKeeps ==
    ASSUME BatchInv, NEW f \in LakeFiles, GetObject(f)
    PROVE  BatchInv'
<1>1. PICK ok \in BOOLEAN : ReaderGoes([reader EXCEPT !.todo = @ \ {f}, !.failed = @ \/ ~ok,
                   !.rows = IF ok THEN @ \cup Dated(f) ELSE @])
  BY DEF GetObject, Outcomes
<1>2. ReaderType'
  <2> DEFINE rows == IF ok THEN reader.rows \cup Dated(f) ELSE reader.rows
             failed == reader.failed \/ ~ok
  <2>1. rows \in SUBSET SinkRecords
    BY DEF BatchInv, ReaderType, SinkRecords
  <2>2. failed \in BOOLEAN
    BY Zenon DEF BatchInv, ReaderType
  <2>3. reader' = [reader EXCEPT !.todo = @ \ {f}, !.failed = failed, !.rows = rows] /\ UNCHANGED <<batch, objects, last>>
    BY <1>1 DEF ReaderGoes
  <2>4. reader.pc = "list"
    BY DEF GetObject
  <2> HIDE DEF rows, failed
  <2> QED  BY <2>1, <2>2, <2>3, <2>4 DEF BatchInv, ReaderType
<1>3. /\ reader'.pc = "list" /\ reader'.backend = "minio" /\ objects' = objects
      /\ reader'.due = reader.due /\ reader'.hi = reader.hi /\ reader'.day = reader.day
      /\ reader'.failed = (reader.failed \/ ~ok) /\ reader'.todo = reader.todo \ {f}
      /\ reader'.rows = IF ok THEN reader.rows \cup Dated(f) ELSE reader.rows
  BY <1>1 DEF BatchInv, ReaderType, ReadInv, ReaderGoes, GetObject
<1>4. ASSUME ~reader'.failed
      PROVE  DueIsAhead'
  <2>1. DueIsAhead /\ ok
    BY <1>3, <1>4 DEF BatchInv, ReadInv, GetObject
  <2> QED  BY <1>3, <2>1 DEF DueIsAhead, Dated
<1>5. ReadInv'
  BY <1>3, <1>4 DEF ReadInv
<1> QED  BY <1>2, <1>3, <1>5, ReadGoesOn

LEMMA ListingDoneKeeps ==
    ASSUME BatchInv, ListingDone
    PROVE  BatchInv'
<1>1. ~reader.failed => reader.due \subseteq reader.rows
  <2> SUFFICES ASSUME ~reader.failed
               PROVE  reader.due \subseteq reader.rows
    OBVIOUS
  <2>1. DueIsAhead /\ reader.todo = {} /\ reader.day > reader.hi /\ reader.day \in Nat /\ reader.hi \in Nat
    BY DEF BatchInv, ReadInv, ReaderType, ListingDone
  <2>2. \A f \in objects : SinkDay[f] \in Nat
    BY BatchAssumption DEF BatchInv, ReaderType
  <2>3. \A f \in objects : ~(reader.day <= SinkDay[f] /\ SinkDay[f] <= reader.hi)
    BY <2>1, <2>2
  <2> QED  BY <2>1, <2>3 DEF DueIsAhead
<1>2. CASE reader.rows = {}
  BY <1>1, <1>2, MakingUpKeeps DEF ListingDone
<1>3. CASE reader.rows # {}
  <2>1. reader.backend = "minio" /\ reader.rows \subseteq SinkRecords
    BY DEF BatchInv, ReadInv, ReaderType, ListingDone
  <2>2. \A r \in reader.rows : r.id # None
    BY <2>1, RecordsHaveIds
  <2>3. Returns(reader.rows)
    BY <1>3 DEF ListingDone
  <2> QED  BY <1>1, <2>1, <2>2, <2>3, ReadReturns DEF BackEnds
<1> QED  BY <1>2, <1>3

LEMMA MakeUpKeeps ==
    ASSUME BatchInv, MakeUp
    PROVE  BatchInv'
<1> DEFINE rows == {[id |-> None, date |-> d] : d \in reader.lo..reader.hi}
<1>1. \A r \in rows : r.id = None
  OBVIOUS
<1>2. Returns(rows)
  BY DEF MakeUp
<1> HIDE DEF rows
<1> QED  BY <1>1, <1>2, ReadReturns DEF BatchInv, ReadInv, MakeUp, BackEnds

LEMMA ConstructKeeps ==
    ASSUME BatchInv, batch # None, Construct
    PROVE  BatchInv'
<1>1. batch \in BatchCircumstances
  BY BatchAssumption DEF BatchInv, ReaderType
<1>2. Resolved \in BackEnds
  BY <1>1 DEF Resolved, BackEnds, BatchCircumstances
<1>3. ReaderType' /\ reader'.pc = "ready"
  BY <1>2 DEF BatchInv, ReaderType, Construct, ReaderGoes
<1>4. last' = None
  BY DEF BatchInv, ReaderType, Construct, ReaderGoes
<1> QED  BY <1>3, <1>4 DEF BatchInv, ReadInv, BatchReadsTellTheirSource

\* The bucket only grows, by whatever step.
LEMMA BucketGrows ==
    ASSUME objects \subseteq LakeFiles, [Next]_vars
    PROVE  objects \subseteq objects' /\ objects' \subseteq LakeFiles
<1>1. StoreNext => objects' = objects
  BY DEF StoreNext, StoreStep, PutManifest, StreamWrite, Expire, shared, Open, Stop, Apply, Materialize, Historical, Fetch,
     ListDay, ReadFile, Fetched, SelectLatest, Push, PushRow, PushFails, PushToStub, GetOnline, Lookup, GetDone
<1>2. TrainNext => objects' = objects
  BY DEF TrainNext, Discover, Connect, Stage, Measure, Read, Gather, FallBack, Train, Save, Upload, Kill
<1>3. EngineNext => objects' = objects
  BY DEF EngineNext, Start, OpenSource, WriteSource, SelectHot, CheckSource, Copy, RunJob, BuildRecords, UploadRecords,
     PushMetrics, Complete, Fail, KillRun, Remove
<1>4. BatchNext => objects' = objects
  BY DEF BatchNext, Construct, ReadDateRange, ScanTable, PlanRaises, ListFolder, GetObject, ListingDone, MakeUp, ReaderGoes, Returns
<1> QED  BY <1>1, <1>2, <1>3, <1>4 DEF Next, Arrive, AddObject, vars

LEMMA BatchKeeps ==
    ASSUME BatchInv, [Next]_vars
    PROVE  BatchInv'
<1>1. CASE UNCHANGED batchVars
  <2>1. objects \subseteq LakeFiles
    BY DEF BatchInv, ReaderType
  <2> QED  BY <1>1, <2>1, BucketGrows, BatchStutters
<1>2. CASE BatchNext
  BY <1>2, ConstructKeeps, ReadBegins, ScanKeeps, PlanRaisesKeeps, ListFolderKeeps, GetObjectKeeps, ListingDoneKeeps, MakeUpKeeps DEF BatchNext
<1> QED  BY <1>1, <1>2 DEF Next, vars, Arrive

\* For any bucket, table and reader: a read's rows are those of the back-end its
\* statistics name; from the bucket it has every record that was there when it
\* began unless a call failed, and it made rows up only for want of records.
THEOREM BatchReadsHonest == Spec => []BatchReadsTellTheirSource
<1>1. BatchInv => BatchReadsTellTheirSource
  BY DEF BatchInv
<1> QED  BY <1>1, BatchStarts, BatchKeeps, PTL DEF Spec

-----------------------------------------------------------------------------
(* Least and greatest numbers; functions defined step by step              *)

\* A set of numbers has a least one: induction without a predicate as parameter.
LEMMA LeastNumber ==
    ASSUME NEW T, T \subseteq Nat, T # {}
    PROVE  \E x \in T : \A y \in T : x <= y
<1>1. PICK x \in T : \A y \in T : ~(<<y, x>> \in OpToRel(<, Nat))
  BY WFMin, NatLessThanWellFounded
<1>2. \A y \in T : ~(y < x)
  BY <1>1 DEF OpToRel
<1> QED  BY <1>2

LEMMA MinMember ==
    ASSUME NEW T, T \subseteq Nat, T # {}
    PROVE  Min(T) \in T /\ \A y \in T : Min(T) <= y
BY LeastNumber DEF Min

LEMMA MaxMember ==
    ASSUME NEW T, NEW N \in Nat, T \subseteq 0..N, T # {}
    PROVE  Max(T) \in T /\ \A y \in T : Max(T) >= y
<1> DEFINE U == {N - x : x \in T}
<1>0. \A x \in T : x \in 0..N
  OBVIOUS
<1>1. U \subseteq Nat /\ U # {}
  <2>1. \A x \in T : N - x \in Nat
    BY <1>0
  <2> QED  BY <2>1
<1>2. PICK z \in U : \A y \in U : z <= y
  BY <1>1, LeastNumber
<1>3. PICK x \in T : z = N - x
  BY <1>2
<1>4. \A y \in T : N - y \in U
  OBVIOUS
<1>5. ASSUME NEW y \in T
      PROVE  x >= y
  <2>1. N - x <= N - y
    BY <1>2, <1>3, <1>4
  <2> QED  BY <1>0, <2>1
<1> QED  BY <1>5 DEF Max

\* A function that is built step by step exists.
Built(f, k, base, step) == f[0] = base /\ \A n \in 1..k : f[n] = step[n][f[n - 1]]

LEMMA StepByStep ==
    ASSUME NEW N \in Nat, NEW T, NEW base \in T, NEW step \in [1..N -> [T -> T]]
    PROVE  \E f \in [0..N -> T] : Built(f, N, base, step)
<1> DEFINE Ok(k) == \E f \in [0..k -> T] : Built(f, k, base, step)
           bad == {k \in 0..N : ~Ok(k)}
<1>1. Ok(0)
  <2>1. [i \in 0..0 |-> base] \in [0..0 -> T]
    OBVIOUS
  <2>2. Built([i \in 0..0 |-> base], 0, base, step)
    BY DEF Built
  <2> QED  BY <2>1, <2>2
<1>2. ASSUME NEW k \in 1..N, Ok(k - 1)
      PROVE  Ok(k)
  <2>1. PICK f \in [0..(k - 1) -> T] : Built(f, k - 1, base, step)
    BY <1>2
  <2>2. k - 1 \in 0..(k - 1) /\ f[k - 1] \in T /\ step[k] \in [T -> T]
    OBVIOUS
  <2>3. step[k][f[k - 1]] \in T
    BY <2>2
  <2> DEFINE g == [i \in 0..k |-> IF i = k THEN step[k][f[k - 1]] ELSE f[i]]
  <2>4. ASSUME NEW i \in 0..k
        PROVE  (IF i = k THEN step[k][f[k - 1]] ELSE f[i]) \in T
    <3>1. i # k => i \in 0..(k - 1)
      OBVIOUS
    <3> QED  BY <2>3, <3>1
  <2>5. g \in [0..k -> T]
    BY <2>4
  <2>6. g[0] = base /\ g[k] = step[k][f[k - 1]] /\ \A n \in 1..(k - 1) : g[n] = f[n] /\ g[n - 1] = f[n - 1]
    BY <2>1 DEF Built
  <2>7. g[k - 1] = f[k - 1]
    OBVIOUS
  <2> HIDE DEF g
  <2>8. Built(g, k, base, step)
    <3> SUFFICES ASSUME NEW n \in 1..k
                 PROVE  g[n] = step[n][g[n - 1]]
      BY <2>6 DEF Built
    <3>1. CASE n = k
      BY <2>6, <2>7, <3>1
    <3>2. CASE n # k
      <4>1. n \in 1..(k - 1)
        BY <3>2
      <4> QED  BY <2>1, <2>6, <4>1 DEF Built
    <3> QED  BY <3>1, <3>2
  <2> QED  BY <2>5, <2>8
<1> HIDE DEF Ok
<1>3. ASSUME bad # {}
      PROVE  FALSE
  <2>1. bad \subseteq Nat
    OBVIOUS
  <2>2. PICK k \in bad : \A j \in bad : k <= j
    BY <1>3, <2>1, LeastNumber
  <2>3. k # 0
    BY <1>1, <2>2
  <2>4. k \in 1..N /\ k - 1 \in 0..N /\ ~(k <= k - 1)
    BY <2>3
  <2>5. Ok(k - 1)
    BY <2>2, <2>4
  <2> QED  BY <1>2, <2>4, <2>5
<1>4. Ok(N)
  BY <1>3
<1> QED  BY <1>4 DEF Ok
-----------------------------------------------------------------------------
(* Entity rows and their users                                             *)

LEMMA WithUserType ==
    ASSUME NEW keys \in Seq(Users \cup {None})
    PROVE  WithUser(keys) \in Seq(Users) /\ Len(WithUser(keys)) <= Len(keys)
<1> DEFINE N == Len(keys)
           T == Seq(Users)
           next(n, s) == IF keys[n] = None THEN s ELSE Append(s, keys[n])
           step == [n \in 1..N |-> [s \in T |-> next(n, s)]]
           Defines(f) == f = [n \in 0..N |-> IF n = 0 THEN <<>> ELSE next(n, f[n - 1])]
           ids == CHOOSE f : Defines(f)
<1>1. N \in Nat /\ \A n \in 1..N : keys[n] = None \/ keys[n] \in Users
  OBVIOUS
<1>2. \A n \in 1..N, s \in T : next(n, s) \in T /\ Len(next(n, s)) <= Len(s) + 1 /\ Len(s) \in Nat
  BY <1>1
<1>3. <<>> \in T /\ Len(<<>>) = 0
  OBVIOUS
<1> HIDE DEF N, T, next
<1>4. step \in [1..N -> [T -> T]] /\ \A n \in 1..N, s \in T : step[n][s] = next(n, s)
  BY <1>2
<1> HIDE DEF step
<1>5. PICK f \in [0..N -> T] : Built(f, N, <<>>, step)
  BY <1>1, <1>3, <1>4, StepByStep
<1>6. f[0] = <<>> /\ \A n \in 1..N : f[n] = next(n, f[n - 1])
  <2>1. \A n \in 1..N : n - 1 \in 0..N
    BY <1>1
  <2> QED  BY <1>4, <1>5, <2>1 DEF Built
<1>7. Defines(f)
  <2>1. \A n \in 0..N : n = 0 \/ n \in 1..N
    BY <1>1
  <2>2. \A n \in 0..N : f[n] = IF n = 0 THEN <<>> ELSE next(n, f[n - 1])
    BY <1>6, <2>1
  <2>3. f = [n \in 0..N |-> f[n]]
    OBVIOUS
  <2> QED  BY <2>2, <2>3
<1>8. Defines(ids)
  BY <1>7
<1> HIDE DEF ids
<1>9. ids[0] = <<>> /\ \A n \in 1..N : ids[n] = next(n, ids[n - 1])
  <2>1. 0 \in 0..N /\ \A n \in 1..N : n \in 0..N /\ n # 0
    BY <1>1
  <2> QED  BY <1>8, <2>1
<1> DEFINE Ok(n) == ids[n] \in T /\ Len(ids[n]) <= n
           bad == {n \in 0..N : ~Ok(n)}
<1>10. Ok(0)
  BY <1>3, <1>9
<1>11. ASSUME NEW n \in 1..N, Ok(n - 1)
       PROVE  Ok(n)
  <2>1. ids[n - 1] \in T /\ Len(ids[n - 1]) <= n - 1
    BY <1>11
  <2>2. /\ ids[n] = next(n, ids[n - 1]) /\ ids[n] \in T
        /\ Len(ids[n]) <= Len(ids[n - 1]) + 1 /\ Len(ids[n - 1]) \in Nat
    BY <1>2, <1>9, <2>1
  <2>3. Len(ids[n]) \in Nat /\ n \in Nat
    BY <1>1, <2>2 DEF T
  <2>4. Len(ids[n]) <= n
    BY <2>1, <2>2, <2>3
  <2> QED  BY <2>2, <2>4
<1> HIDE DEF Ok
<1>12. ASSUME bad # {}
       PROVE  FALSE
  <2>1. bad \subseteq Nat
    BY <1>1
  <2>2. PICK k \in bad : \A j \in bad : k <= j
    BY <1>12, <2>1, LeastNumber
  <2>3. k # 0
    BY <1>10, <2>2
  <2>4. k \in 1..N /\ k - 1 \in 0..N /\ ~(k <= k - 1)
    BY <1>1, <2>3
  <2>5. Ok(k - 1)
    BY <2>2, <2>4
  <2> QED  BY <1>11, <2>4, <2>5
<1>13. WithUser(keys) = ids[N]
  BY DEF WithUser, ids, N, next
<1>14. Ok(N)
  BY <1>1, <1>12
<1> QED  BY <1>13, <1>14 DEF T, N, Ok

-----------------------------------------------------------------------------
(* The feature store: range reads, retrieval jobs and answers              *)

BackEndType(p) == [offline : {"manifest", "scan", "demo"}, online : {"redis", p}]

BucketInv ==
    /\ objects \subseteq LakeFiles
    /\ manifest = [d \in Days |-> manifest[d]]
    /\ \A d \in Days : manifest[d] = None \/ manifest[d] \subseteq {f \in objects : FileDay[f] = d}

\* A row that is due has been read, or its file is listed, or lies under a day that is
\* still to be listed.
Ahead(c, kind, r) ==
    \/ r \in c.rows
    \/ /\ DayOf(r.win) \in c.lo..c.hi
       /\ \/ \E f \in c.todo : r \in RowsOf[f]
          \/ \E d \in c.lo..c.hi : c.day <= d /\ \E f \in Listed(kind, d) : r \in RowsOf[f]

RangeOk(c, kind) ==
    /\ kind = "demo" => c.day > c.hi /\ c.todo = {} /\ c.due = {}
    /\ kind # "demo" => \A r \in c.rows : r.by = "lake" /\ DayOf(r.win) \in c.lo..c.hi
    /\ kind # "demo" /\ ~c.failed => \A r \in c.due : Ahead(c, kind, r)

\* A reply is the row of the user it was asked for.
RepliesOk(ids, replies) ==
    \A n \in 1..Len(replies) : n <= Len(ids) /\ (replies[n] # None => replies[n].user = ids[n])

CallOk(c, p) ==
    /\ IsCall(c) /\ CallType(c)
    /\ c.op \in {"materialize", "fetch"} => RangeOk(c, proc[p].offline)
    /\ c.op = "get" => RepliesOk(WithUser(c.keys), c.replies)
    /\ c.op = "fetch" => job[p] # None /\ ~job[p].fetched

\* What a job has given is nothing, or the rows of one read.
JobOk(j) ==
    /\ j.frame.days \subseteq Days \ {0}
    /\ j \in [frame : {j.frame}, fetched : BOOLEAN, given : SUBSET SUBSET Rows]
    /\ j.given = {} \/ (j.fetched /\ \E rows \in SUBSET Rows : j.given = {rows})
    /\ \A rows \in j.given : \A r \in rows : r.user \in j.frame.users

AnswerOk(a) == \A n \in DOMAIN a : a[n].data # None => a[n].key # None /\ a[n].data.user = a[n].key

ProcInv(p) ==
    /\ proc[p] # None => proc[p] \in BackEndType(p)
    /\ proc[p] = None => call[p] = Idle
    /\ registry[p] \subseteq Views
    /\ CallOk(call[p], p)
    /\ job[p] # None => JobOk(job[p])
    /\ AnswerOk(answer[p])

RequestInv ==
    /\ BucketInv
    /\ registry = [p \in Procs |-> registry[p]] /\ job = [p \in Procs |-> job[p]]
    /\ answer = [p \in Procs |-> answer[p]]
    /\ \A p \in Procs : ProcInv(p)

-----------------------------------------------------------------------------
(* Files and days                                                          *)

LEMMA DayMonotone ==
    ASSUME NEW w \in 1..LastWin
    PROVE  DayOf(w) \in 0..DayOf(LastWin) /\ DayOf(w) \in Nat /\ \A v \in 1..LastWin : v <= w => DayOf(v) <= DayOf(w)
<1>1. LastWin \in Nat \ {0} /\ DayLength \in Nat \ {0}
  BY FeatureStoreAssumption
<1> QED  BY <1>1 DEF DayOf

LEMMA FileRows ==
    ASSUME NEW f \in LakeFiles, NEW r \in RowsOf[f]
    PROVE  r \in Rows /\ r.by = "lake" /\ DayOf(r.win) \in Days /\ FileDay[f] \in Days /\ r.win \in 1..LastWin
<1>1. RowsOf[f] \subseteq Rows /\ FileDay[f] \in Days
  BY FeatureStoreAssumption
<1>2. r.win \in 1..LastWin
  BY <1>1 DEF Rows
<1>3. DayOf(r.win) \in Days
  BY <1>2, DayMonotone DEF Days
<1> QED  BY <1>1, <1>2, <1>3, FeatureStoreAssumption

\* The days of an object's first and last window enclose those of all its rows: the
\* range check of the manifest reader passes over no file with a row in the range.
LEMMA DueFilesOverlap ==
    ASSUME NEW f \in LakeFiles, NEW r \in RowsOf[f], NEW lo \in Nat, NEW hi \in Nat, DayOf(r.win) \in lo..hi
    PROVE  Overlaps(f, lo, hi)
<1> DEFINE wins == {x.win : x \in RowsOf[f]}
<1>1. LastWin \in Nat /\ wins \subseteq 1..LastWin /\ r.win \in wins
  BY FileRows, FeatureStoreAssumption
<1>2. wins \subseteq Nat /\ wins \subseteq 0..LastWin /\ wins # {}
  BY <1>1
<1> HIDE DEF wins
<1>3. /\ Min(wins) \in wins /\ \A w \in wins : Min(wins) <= w
      /\ Max(wins) \in wins /\ \A w \in wins : w <= Max(wins)
  BY <1>1, <1>2, MinMember, MaxMember
<1>4. DayOf(Min(wins)) <= DayOf(r.win) /\ DayOf(r.win) <= DayOf(Max(wins))
  BY <1>1, <1>3, DayMonotone
<1>5. DayOf(Min(wins)) \in Nat /\ DayOf(Max(wins)) \in Nat /\ DayOf(r.win) \in Nat
  BY <1>1, <1>3, DayMonotone
<1>6. DayOf(Min(wins)) <= hi /\ DayOf(Max(wins)) >= lo
  BY <1>4, <1>5
<1> QED  BY <1>6 DEF Overlaps, wins

LEMMA DaysBetween ==
    ASSUME NEW lo \in Days, NEW hi \in Days
    PROVE  lo \in Nat /\ hi \in Nat /\ (\A d \in lo..hi : d \in Days) /\ (\A d \in Nat : d <= hi => d \in Days)
<1>1. DayOf(LastWin) \in Int
  BY FeatureStoreAssumption DEF DayOf
<1> QED  BY <1>1 DEF Days

LEMMA ListedFiles ==
    ASSUME BucketInv, NEW kind, NEW d \in Days, NEW f \in Listed(kind, d)
    PROVE  f \in LakeFiles /\ FileDay[f] = d
BY DEF Listed, BucketInv

\* The bucket and its manifests only grow.
Grown == objects \subseteq objects' /\ \A d \in Days : manifest[d] = None \/ manifest'[d] = manifest[d]

LEMMA ListingsGrow ==
    ASSUME BucketInv, objects \subseteq objects', objects' \subseteq LakeFiles,
           manifest' = manifest \/ \E d \in Days : PutManifest(d)
    PROVE  BucketInv' /\ Grown
<1>1. CASE manifest' = manifest
  BY <1>1 DEF BucketInv, Grown
<1>2. ASSUME NEW d \in Days, PutManifest(d)
      PROVE  BucketInv' /\ Grown
  <2> DEFINE files == {f \in objects : FileDay[f] = d}
  <2>1. manifest[d] = None /\ manifest' = [manifest EXCEPT ![d] = files] /\ objects' = objects
    BY <1>2 DEF PutManifest
  <2>2. files \subseteq {f \in objects' : FileDay[f] = d}
    BY <2>1
  <2> HIDE DEF files
  <2>3. manifest'[d] = files /\ (\A e \in Days \ {d} : manifest'[e] = manifest[e]) /\ manifest' = [e \in Days |-> manifest'[e]]
    BY <2>1 DEF BucketInv
  <2>4. BucketInv'
    BY <2>1, <2>2, <2>3 DEF BucketInv
  <2> QED  BY <2>1, <2>3, <2>4 DEF Grown
<1> QED  BY <1>1, <1>2

-----------------------------------------------------------------------------
(* Frames                                                                  *)

LEMMA RangeStays ==
    ASSUME BucketInv, Grown, NEW c, NEW kind, CallType(c), c.op \in {"materialize", "fetch"}, RangeOk(c, kind)
    PROVE  RangeOk(c, kind)'
<1>1. c.lo \in Days /\ c.hi \in Days
  BY DEF CallType, Idle
<1>2. \A d \in c.lo..c.hi : d \in Days
  BY <1>1, DaysBetween
<1>3. ASSUME NEW r, Ahead(c, kind, r)
      PROVE  Ahead(c, kind, r)'
  <2>1. CASE r \in c.rows
    BY <2>1 DEF Ahead
  <2>2. CASE DayOf(r.win) \in c.lo..c.hi /\ \E f \in c.todo : r \in RowsOf[f]
    BY <2>2 DEF Ahead
  <2>3. CASE DayOf(r.win) \in c.lo..c.hi /\ \E d \in c.lo..c.hi : c.day <= d /\ \E f \in Listed(kind, d) : r \in RowsOf[f]
    <3>1. \A d \in c.lo..c.hi : Listed(kind, d) \subseteq Listed(kind, d)'
      BY <1>2 DEF Grown, Listed
    <3> QED  BY <2>3, <3>1 DEF Ahead
  <2> QED  BY <1>3, <2>1, <2>2, <2>3 DEF Ahead
<1> QED  BY <1>3 DEF RangeOk

\* What a step does not touch stays as it was.
LEMMA ProcStays ==
    ASSUME RequestInv, Grown, NEW q \in Procs, proc'[q] = proc[q], call'[q] = call[q], job'[q] = job[q],
           answer'[q] = answer[q], registry'[q] = registry[q]
    PROVE  ProcInv(q)'
<1>1. ProcInv(q) /\ BucketInv
  BY DEF RequestInv
<1>2. CallOk(call[q], q)
  BY <1>1 DEF ProcInv
<1>3. PICK c, kind : c = call[q] /\ kind = proc[q].offline
  OBVIOUS
<1>4. c.op \in {"materialize", "fetch"} => RangeOk(c, kind)'
  BY <1>1, <1>2, <1>3, RangeStays DEF CallOk
<1>5. call'[q] = c /\ proc'[q].offline = kind
  BY <1>3
<1>6. c.op \in {"materialize", "fetch"} => RangeOk(call[q], proc[q].offline)'
  BY <1>4, <1>5 DEF RangeOk, Ahead, Listed
<1>7. CallOk(call[q], q)'
  BY <1>2, <1>3, <1>5, <1>6 DEF CallOk
<1> QED  BY <1>1, <1>7 DEF ProcInv
\* Nothing a store holds is touched: the bucket grows, or Redis is written.
LEMMA RequestStutters ==
    ASSUME RequestInv, Grown, BucketInv', UNCHANGED <<proc, registry, call, job, answer>>
    PROVE  RequestInv'
<1>1. \A q \in Procs : ProcInv(q)'
  BY ProcStays
<1> QED  BY <1>1 DEF RequestInv

\* A process goes on to another call.
LEMMA CallStep ==
    ASSUME StoreInv, RequestInv, NEW p \in Procs, NEW c, call' = [call EXCEPT ![p] = c], proc[p] # None,
           UNCHANGED <<shared, proc, registry, job, answer>>, CallOk(c, p)
    PROVE  RequestInv'
<1>1. Grown /\ BucketInv'
  BY ListingsGrow DEF RequestInv, shared, BucketInv
<1>2. call'[p] = c /\ \A q \in Procs \ {p} : call'[q] = call[q]
  BY DEF StoreInv, Shape
<1>3. ASSUME NEW q \in Procs
      PROVE  ProcInv(q)'
  <2>1. CASE q # p
    BY <1>1, <1>2, <2>1, ProcStays
  <2>2. CASE q = p
    <3>1. CallOk(call[p], p)'
      BY <1>2 DEF CallOk, RangeOk, Ahead, Listed, shared
    <3> QED  BY <2>2, <3>1 DEF ProcInv, RequestInv
  <2> QED  BY <2>1, <2>2
<1> QED  BY <1>1, <1>3 DEF RequestInv

\* Calls that read no range and get nothing need only be of their type.
LEMMA PlainCalls ==
    ASSUME NEW c, NEW p, IsCall(c), CallType(c), c.op \notin {"materialize", "fetch", "get"}
    PROVE  CallOk(c, p)
BY DEF CallOk

LEMMA IdleIsCall == IsCall(Idle) /\ CallType(Idle) /\ \A p : CallOk(Idle, p)
<1>1. IsCall(Idle) /\ CallType(Idle) /\ Idle.op \notin {"materialize", "fetch", "get"}
  BY DEF IsCall, CallType, Idle
<1> QED  BY <1>1, PlainCalls

LEMMA PushingCall ==
    ASSUME NEW rows \in SUBSET Rows
    PROVE  \A p : CallOk(Pushing(rows), p)
<1>1. CASE rows = {}
  BY <1>1, IdleIsCall DEF Pushing
<1>2. CASE rows # {}
  <2>1. IsCall(Pushing(rows))
    BY PushingIsCall
  <2>2. CallType(Pushing(rows)) /\ Pushing(rows).op \notin {"materialize", "fetch", "get"}
    BY <1>2 DEF Pushing, CallType
  <2> QED  BY <2>1, <2>2, PlainCalls
<1> QED  BY <1>1, <1>2

-----------------------------------------------------------------------------
(* Range reads                                                             *)

\* A range read begins with nothing read, and everything due ahead.
LEMMA RangeBegins ==
    ASSUME RequestInv, NEW p \in Procs, NEW op \in {"materialize", "fetch"}, proc[p] # None,
           NEW lo \in Days, NEW hi \in Days, op = "fetch" => job[p] # None /\ ~job[p].fetched
    PROVE  CallOk(RangeRead(op, proc[p].offline, lo, hi), p)
<1> DEFINE kind == proc[p].offline
           due == Due(kind, lo, hi)
           c == RangeRead(op, kind, lo, hi)
<1>1. lo \in Nat /\ hi \in Nat /\ \A d \in lo..hi : d \in Days
  BY DaysBetween
<1>2. ASSUME NEW r \in due
      PROVE  /\ r \in Rows /\ kind # "demo"
             /\ DayOf(r.win) \in lo..hi
             /\ \E d \in lo..hi : lo <= d /\ \E f \in Listed(kind, d) : r \in RowsOf[f]
  <2>1. PICK d, f : d \in lo..hi /\ f \in Listed(kind, d) /\ r \in RowsOf[f] /\ DayOf(r.win) \in lo..hi
    BY DEF Due
  <2>2. f \in LakeFiles /\ lo <= d
    BY <1>1, ListedFiles, <2>1 DEF RequestInv
  <2>3. r \in Rows
    BY <2>1, <2>2, FileRows
  <2>4. kind # "demo"
    BY DEF Due
  <2> QED  BY <1>1, <2>1, <2>2, <2>3, <2>4
<1>3. DemoRows \subseteq Rows
  BY FeatureStoreAssumption DEF DemoRows, Rows
<1>4. due \subseteq Rows
  BY <1>2
<1>5. kind = "demo" => due = {}
  BY DEF Due
<1> HIDE DEF due, kind
<1>6. /\ c.op = op /\ c.lo = lo /\ c.hi = hi /\ c.day = (IF kind = "demo" THEN hi + 1 ELSE lo) /\ c.todo = {}
      /\ c.rows = (IF kind = "demo" THEN DemoRows ELSE {}) /\ c.due = due /\ c.failed = FALSE
  BY DEF RangeRead, due
<1>7. IsCall(c)
  <2>1. IsRead(c)
    BY <1>3 DEF RangeRead, IsRead
  <2> QED  BY <2>1 DEF IsCall
<1> HIDE DEF c
<1>8. CallType(c)
  <2>1. c.day \in Nat
    BY <1>1, <1>6
  <2>2. c.rows \subseteq Rows /\ c.todo \subseteq LakeFiles /\ c.due \subseteq Rows
    BY <1>3, <1>4, <1>6
  <2>3. c.op \in {"materialize", "fetch"} /\ c.lo \in Days /\ c.hi \in Days /\ c.failed \in BOOLEAN
    BY <1>6
  <2> QED  BY <2>1, <2>2, <2>3, Zenon DEF CallType
<1>9. RangeOk(c, kind)
  BY <1>1, <1>2, <1>5, <1>6 DEF RangeOk, Ahead
<1> QED  BY <1>6, <1>7, <1>8, <1>9 DEF CallOk, kind, c
LEMMA ReadingCall ==
    ASSUME StoreInv, RequestInv, NEW p \in Procs, Reading(p)
    PROVE  /\ proc[p] # None /\ proc[p] \in BackEndType(p) /\ IsRead(call[p]) /\ call[p].op \in {"materialize", "fetch"}
           /\ call[p].lo \in Days /\ call[p].hi \in Days /\ call[p].lo \in Nat /\ call[p].hi \in Nat /\ call[p].day \in Nat
           /\ call[p].todo \subseteq LakeFiles /\ call[p].rows \subseteq Rows /\ call[p].due \subseteq Rows /\ call[p].failed \in BOOLEAN
           /\ RangeOk(call[p], proc[p].offline)
           /\ call[p].op = "fetch" => job[p] # None /\ ~job[p].fetched
<1>1. call[p].op \in {"materialize", "fetch"} /\ ProcInv(p) /\ IsCall(call[p])
  BY DEF Reading, RequestInv, StoreInv, Shape
<1>2. call[p] # Idle
  BY <1>1 DEF Idle
<1>3. proc[p] # None /\ proc[p] \in BackEndType(p) /\ IsRead(call[p])
  BY <1>1, <1>2, CallOps DEF ProcInv
<1>4. CallOk(call[p], p)
  BY <1>1 DEF ProcInv
<1>5. /\ call[p].lo \in Days /\ call[p].hi \in Days /\ call[p].day \in Nat
      /\ call[p].todo \subseteq LakeFiles /\ call[p].rows \subseteq Rows /\ call[p].due \subseteq Rows
      /\ call[p].failed \in BOOLEAN
  BY <1>1, <1>2, <1>4 DEF CallOk, CallType
<1>6. call[p].lo \in Nat /\ call[p].hi \in Nat
  BY <1>5, DaysBetween
<1> QED  BY <1>1, <1>3, <1>4, <1>5, <1>6 DEF CallOk

\* A call that reads on keeps its range; its fields are those given.
ReadsOn(c, d, day, todo, rows, failed) ==
    /\ IsRead(d) /\ d.op = c.op /\ d.lo = c.lo /\ d.hi = c.hi /\ d.due = c.due
    /\ d.day = day /\ d.todo = todo /\ d.rows = rows /\ d.failed = failed

LEMMA ReadOn ==
    ASSUME StoreInv, RequestInv, NEW p \in Procs, Reading(p), NEW day \in Nat, NEW todo \in SUBSET LakeFiles,
           NEW rows \in SUBSET Rows, NEW failed \in BOOLEAN, NEW d,
           ReadsOn(call[p], d, day, todo, rows, failed), RangeOk(d, proc[p].offline)
    PROVE  CallOk(d, p)
<1>1. IsCall(d)
  BY DEF ReadsOn, IsCall
<1>2. CallType(d)
  BY ReadingCall, Zenon DEF ReadsOn, CallType
<1>3. d.op \in {"materialize", "fetch"} /\ (d.op = "fetch" => job[p] # None /\ ~job[p].fetched)
  BY ReadingCall DEF ReadsOn
<1> QED  BY <1>1, <1>2, <1>3 DEF CallOk

LEMMA ListDayKeeps ==
    ASSUME StoreInv, RequestInv, NEW p \in Procs, ListDay(p)
    PROVE  RequestInv'
<1> DEFINE c == call[p]
           kind == proc[p].offline
           found == {f \in Listed(kind, c.day) : kind = "scan" \/ Overlaps(f, c.lo, c.hi)}
<1>0. PICK ok \in BOOLEAN : \E part \in IF ok THEN {found} ELSE IF kind = "scan" THEN SUBSET found ELSE {{}} :
        Begin(p, [c EXCEPT !.day = @ + 1, !.todo = @ \cup part, !.failed = @ \/ ~ok])
  BY DEF ListDay, Outcomes
<1>1. PICK part \in IF ok THEN {found} ELSE IF kind = "scan" THEN SUBSET found ELSE {{}} :
        Begin(p, [c EXCEPT !.day = @ + 1, !.todo = @ \cup part, !.failed = @ \/ ~ok])
  BY <1>0
<1>2. Reading(p) /\ c.day <= c.hi /\ UNCHANGED <<shared, proc, registry, job, answer>>
  BY DEF ListDay
<1>3. kind # "demo"
  BY <1>2, ReadingCall DEF RangeOk
<1>4. c.day \in Days /\ BucketInv
  BY <1>2, ReadingCall, DaysBetween DEF RequestInv
<1>5. found \subseteq LakeFiles /\ part \subseteq LakeFiles /\ (ok => part = found)
  <2>1. found \subseteq LakeFiles
    BY <1>4, ListedFiles
  <2>2. part \subseteq found
    BY <1>1
  <2>3. ok => part = found
    BY <1>1
  <2> QED  BY <2>1, <2>2, <2>3
<1> DEFINE failed == c.failed \/ ~ok
           d == [c EXCEPT !.day = @ + 1, !.todo = @ \cup part, !.failed = failed]
<1>6. failed \in BOOLEAN
  BY <1>2, ReadingCall
<1>7. ReadsOn(c, d, c.day + 1, c.todo \cup part, c.rows, failed)
  <2>1. IsRead(c)
    BY <1>2, ReadingCall
  <2> HIDE DEF failed
  <2> QED  BY <2>1 DEF IsRead, ReadsOn
<1> HIDE DEF d
<1>8. RangeOk(d, kind)
  <2>1. RangeOk(c, kind)
    BY <1>2, ReadingCall
  <2>2. ASSUME ~failed, NEW r \in c.due
        PROVE  Ahead(d, kind, r)
    <3>1. Ahead(c, kind, r) /\ part = found
      BY <1>3, <1>5, <2>1, <2>2 DEF RangeOk
    <3>2. CASE DayOf(r.win) \in c.lo..c.hi /\ \E f \in Listed(kind, c.day) : r \in RowsOf[f]
      <4>1. PICK f \in Listed(kind, c.day) : r \in RowsOf[f]
        BY <3>2
      <4>2. f \in found
        BY <1>2, <1>4, <3>2, <4>1, ListedFiles, DueFilesOverlap, ReadingCall
      <4> QED  BY <1>7, <3>1, <3>2, <4>1, <4>2 DEF Ahead, ReadsOn
    <3>3. CASE ~(DayOf(r.win) \in c.lo..c.hi /\ \E f \in Listed(kind, c.day) : r \in RowsOf[f])
      <4>1. c.lo \in Nat /\ c.hi \in Nat /\ c.day \in Nat
        BY <1>2, ReadingCall
      <4>2. ASSUME DayOf(r.win) \in c.lo..c.hi, NEW e \in c.lo..c.hi, c.day <= e, \E f \in Listed(kind, e) : r \in RowsOf[f]
            PROVE  c.day + 1 <= e
        <5>1. e # c.day /\ e \in Nat
          BY <3>3, <4>1, <4>2
        <5> QED  BY <4>1, <4>2, <5>1
      <4> QED  BY <1>7, <3>1, <4>2 DEF Ahead, ReadsOn
    <3> QED  BY <3>2, <3>3
  <2> QED  BY <1>3, <1>7, <2>1, <2>2 DEF RangeOk, ReadsOn
<1>9. CallOk(d, p)
  <2>1. c.day + 1 \in Nat /\ c.todo \cup part \in SUBSET LakeFiles /\ c.rows \in SUBSET Rows
    BY <1>2, <1>5, ReadingCall
  <2> HIDE DEF failed
  <2> QED  BY <1>2, <1>6, <1>7, <1>8, <2>1, ReadOn
<1>10. call' = [call EXCEPT ![p] = d]
  BY <1>1 DEF Begin, d
<1> QED  BY <1>2, <1>9, <1>10, ReadingCall, CallStep

LEMMA ReadFileKeeps ==
    ASSUME StoreInv, RequestInv, NEW p \in Procs, NEW f \in LakeFiles, ReadFile(p, f)
    PROVE  RequestInv'
<1> DEFINE c == call[p]
           kind == proc[p].offline
<1>1. PICK ok \in BOOLEAN :
          Begin(p, [c EXCEPT !.todo = @ \ {f}, !.failed = @ \/ ~ok,
                             !.rows = IF ok THEN @ \cup RowsIn(f, c.lo, c.hi) ELSE @])
  BY DEF ReadFile, Outcomes
<1>2. Reading(p) /\ f \in c.todo /\ UNCHANGED <<shared, proc, registry, job, answer>>
  BY DEF ReadFile
<1>3. kind # "demo"
  BY <1>2, ReadingCall DEF RangeOk
<1> DEFINE failed == c.failed \/ ~ok
           rows == IF ok THEN c.rows \cup RowsIn(f, c.lo, c.hi) ELSE c.rows
           d == [c EXCEPT !.todo = @ \ {f}, !.failed = failed, !.rows = rows]
<1>4. failed \in BOOLEAN
  BY <1>2, ReadingCall
<1>5. \A r \in RowsOf[f] : r \in RowsIn(f, c.lo, c.hi) <=> DayOf(r.win) \in c.lo..c.hi
  <2> SUFFICES ASSUME NEW r \in RowsOf[f]
               PROVE  r \in RowsIn(f, c.lo, c.hi) <=> DayOf(r.win) \in c.lo..c.hi
    OBVIOUS
  <2>1. r.win \in 1..LastWin /\ DayOf(r.win) \in Nat /\ c.lo \in Nat /\ c.hi \in Nat
    BY <1>2, FileRows, DayMonotone, ReadingCall
  <2> QED  BY <2>1 DEF RowsIn, WindowsOf
<1>6. rows \in SUBSET Rows
  BY <1>2, FileRows, ReadingCall DEF RowsIn
<1>7. ReadsOn(c, d, c.day, c.todo \ {f}, rows, failed)
  <2>1. IsRead(c)
    BY <1>2, ReadingCall
  <2> HIDE DEF failed, rows
  <2> QED  BY <1>6, <2>1 DEF IsRead, ReadsOn
<1> HIDE DEF d
<1>8. RangeOk(d, kind)
  <2>1. RangeOk(c, kind)
    BY <1>2, ReadingCall
  <2>2. ASSUME ~failed, NEW r \in c.due
        PROVE  Ahead(d, kind, r)
    <3>1. Ahead(c, kind, r) /\ rows = c.rows \cup RowsIn(f, c.lo, c.hi)
      BY <1>3, <2>1, <2>2 DEF RangeOk
    <3> HIDE DEF failed, rows
    <3>2. d.rows = rows /\ d.todo = c.todo \ {f} /\ d.day = c.day /\ d.lo = c.lo /\ d.hi = c.hi
      BY <1>7 DEF ReadsOn
    <3>3. CASE DayOf(r.win) \in c.lo..c.hi /\ r \in RowsOf[f]
      BY <1>5, <3>1, <3>2, <3>3 DEF Ahead
    <3>4. CASE ~(DayOf(r.win) \in c.lo..c.hi /\ r \in RowsOf[f])
      BY <3>1, <3>2, <3>4 DEF Ahead
    <3> QED  BY <3>3, <3>4
  <2>3. ASSUME NEW r \in rows
        PROVE  r.by = "lake" /\ DayOf(r.win) \in c.lo..c.hi
    <3>1. CASE r \in c.rows
      BY <1>3, <2>1, <3>1 DEF RangeOk
    <3>2. CASE r \in RowsIn(f, c.lo, c.hi)
      BY <1>5, <3>2, FileRows DEF RowsIn
    <3> QED  BY <2>3, <3>1, <3>2
  <2> HIDE DEF failed, rows
  <2> QED  BY <1>3, <1>7, <2>2, <2>3 DEF RangeOk, ReadsOn
<1>9. CallOk(d, p)
  <2>1. c.day \in Nat /\ c.todo \ {f} \in SUBSET LakeFiles
    BY <1>2, ReadingCall
  <2> HIDE DEF failed, rows
  <2> QED  BY <1>2, <1>4, <1>6, <1>7, <1>8, <2>1, ReadOn
<1>10. call' = [call EXCEPT ![p] = d]
  BY <1>1 DEF Begin, d
<1> QED  BY <1>2, <1>9, <1>10, ReadingCall, CallStep
LEMMA MaterializeKeeps ==
    ASSUME StoreInv, RequestInv, NEW p \in Procs, NEW range \in world.ranges, Materialize(p, range[1], range[2])
    PROVE  RequestInv'
<1>1. range[1] \in Days /\ range[2] \in Days
  BY FeatureStoreAssumption DEF StoreInv, Shape, StoreCircumstances
<1>2. /\ proc[p] # None /\ UNCHANGED <<shared, proc, registry, job, answer>>
      /\ call' = [call EXCEPT ![p] = RangeRead("materialize", proc[p].offline, range[1], range[2])]
  BY DEF Materialize, Ready, Begin
<1>3. CallOk(RangeRead("materialize", proc[p].offline, range[1], range[2]), p)
  BY <1>1, <1>2, RangeBegins
<1> QED  BY <1>2, <1>3, CallStep

\* The range of a job: from a day before its first timestamp to its last.
LEMMA FetchKeeps ==
    ASSUME StoreInv, RequestInv, NEW p \in Procs, Fetch(p)
    PROVE  RequestInv'
<1> DEFINE ts == job[p].frame.days
<1>1. /\ proc[p] # None /\ UNCHANGED <<shared, proc, registry, job, answer>> /\ job[p] # None /\ ~job[p].fetched
  BY DEF Fetch, Ready
<1>2. JobOk(job[p])
  BY <1>1 DEF RequestInv, ProcInv
<1>3. PICK lo \in Days, hi \in Days : call' = [call EXCEPT ![p] = RangeRead("fetch", proc[p].offline, lo, hi)]
  <2>0. DayOf(LastWin) \in Nat /\ 0 \in Days /\ DayOf(LastWin) \in Days
    <3>1. DayOf(LastWin) \in Nat
      BY FeatureStoreAssumption DEF DayOf
    <3> QED  BY <3>1 DEF Days
  <2>1. CASE ts = {}
    BY <2>0, <2>1 DEF Fetch, Begin
  <2>2. CASE ts # {}
    <3>1. ts \subseteq Days \ {0}
      BY <1>2 DEF JobOk
    <3>2. ts \subseteq Nat /\ ts \subseteq 0..DayOf(LastWin)
      BY <3>1, <2>0 DEF Days
    <3>3. Min(ts) \in ts /\ Max(ts) \in ts
      BY <2>0, <2>2, <3>2, MinMember, MaxMember
    <3>4. Min(ts) - 1 \in Days /\ Max(ts) \in Days
      BY <2>0, <3>1, <3>2, <3>3 DEF Days
    <3> QED  BY <2>2, <3>4 DEF Fetch, Begin
  <2> QED  BY <2>1, <2>2
<1>4. CallOk(RangeRead("fetch", proc[p].offline, lo, hi), p)
  BY <1>1, RangeBegins
<1> QED  BY <1>1, <1>3, <1>4, CallStep

LEMMA SelectLatestKeeps ==
    ASSUME StoreInv, RequestInv, NEW p \in Procs, SelectLatest(p)
    PROVE  RequestInv'
<1>1. Reading(p) /\ UNCHANGED <<shared, proc, registry, job, answer>>
  BY DEF SelectLatest, ReadDone, Reading
<1>2. PICK pick : pick \subseteq call[p].rows /\ call' = [call EXCEPT ![p] = Pushing(pick)]
  BY DEF SelectLatest, Begin
<1>3. CallOk(Pushing(pick), p)
  BY <1>1, <1>2, ReadingCall, PushingCall
<1> QED  BY <1>1, <1>2, <1>3, ReadingCall, CallStep

LEMMA PushKeeps ==
    ASSUME StoreInv, RequestInv, NEW p \in Procs, NEW pushed \in world.batches, Push(p, pushed)
    PROVE  RequestInv'
<1>1. pushed \subseteq Rows
  BY FeatureStoreAssumption DEF StoreInv, Shape, StoreCircumstances
<1>2. proc[p] # None /\ UNCHANGED <<shared, proc, registry, job, answer>> /\ call' = [call EXCEPT ![p] = Pushing(pushed)]
  BY DEF Push, Ready, Begin
<1> QED  BY <1>1, <1>2, PushingCall, CallStep

\* A push goes on with its rows, or ends.
LEMMA PushesKeep ==
    ASSUME StoreInv, RequestInv, NEW p \in Procs,
           (\E r \in Rows : PushRow(p, r)) \/ PushFails(p) \/ PushToStub(p)
    PROVE  RequestInv'
<1> DEFINE c == call[p]
<1>1. c.op = "push" /\ UNCHANGED <<shared, proc, registry, job, answer>>
  BY DEF PushRow, PushFails, PushToStub, ToRedis
<1>2. proc[p] # None /\ IsPush(c)
  <2>1. IsCall(c) /\ ProcInv(p)
    BY DEF RequestInv, StoreInv, Shape
  <2>2. c # Idle
    BY <1>1 DEF Idle
  <2> QED  BY <1>1, <2>1, <2>2, CallOps DEF ProcInv
<1>3. c.queue \in SUBSET Rows
  BY <1>2 DEF IsPush
<1>4. ASSUME NEW r \in Rows, PushRow(p, r)
      PROVE  RequestInv'
  <2>1. CASE c.half = None
    <3> DEFINE d == [c EXCEPT !.half = r]
    <3>1. IsPush(d) /\ d.op = "push" /\ d.queue = c.queue /\ d.half = r /\ r \in c.queue
      BY <1>2, <1>4 DEF IsPush, PushRow
    <3>2. call' = [call EXCEPT ![p] = d]
      BY <1>4, <2>1 DEF PushRow, Begin
    <3> HIDE DEF d
    <3>3. IsCall(d) /\ CallType(d) /\ d.op \notin {"materialize", "fetch", "get"}
      BY <1>3, <3>1 DEF IsCall, CallType
    <3> QED  BY <1>1, <1>2, <3>2, <3>3, PlainCalls, CallStep
  <2>2. CASE c.half # None
    <3>1. call' = [call EXCEPT ![p] = Pushing(c.queue \ {r})]
      BY <1>4, <2>2 DEF PushRow, Begin
    <3>2. c.queue \ {r} \in SUBSET Rows
      BY <1>3
    <3> QED  BY <1>1, <1>2, <3>1, <3>2, PushingCall, CallStep
  <2> QED  BY <2>1, <2>2
<1>5. ASSUME call' = [call EXCEPT ![p] = Idle]
      PROVE  RequestInv'
  BY <1>1, <1>2, <1>5, IdleIsCall, CallStep
<1> QED  BY <1>4, <1>5 DEF PushFails, PushToStub, Begin

-----------------------------------------------------------------------------
(* Online requests                                                         *)

LEMMA GetOnlineKeeps ==
    ASSUME StoreInv, RequestInv, NEW p \in Procs, NEW a \in world.asked, GetOnline(p, a[1], a[2])
    PROVE  RequestInv'
<1> DEFINE keys == a[2]
           d == [op |-> "get", parsed |-> Parsed(a[1], registry[p]), keys |-> keys, replies |-> <<>>]
<1>1. keys \in Seq(Users \cup {None})
  BY FeatureStoreAssumption DEF StoreInv, Shape, StoreCircumstances
<1>2. proc[p] # None /\ UNCHANGED <<shared, proc, registry, job, answer>> /\ call' = [call EXCEPT ![p] = d]
  BY DEF GetOnline, Ready, Begin
<1>3. IsCall(d) /\ d.op = "get" /\ d.keys = keys /\ d.replies = <<>>
  BY DEF IsCall, IsGet
<1> HIDE DEF d, keys
<1>4. CallType(d)
  <2>1. <<>> \in Seq(Rows \cup {None}) /\ Len(<<>>) = 0 /\ Len(keys) \in Nat
    BY <1>1
  <2> QED  BY <1>1, <1>3, <2>1 DEF CallType
<1>5. RepliesOk(WithUser(d.keys), d.replies)
  BY <1>3 DEF RepliesOk
<1>6. CallOk(d, p)
  BY <1>3, <1>4, <1>5 DEF CallOk
<1> QED  BY <1>2, <1>6, CallStep

LEMMA GettingCall ==
    ASSUME StoreInv, RequestInv, NEW p \in Procs, call[p].op = "get"
    PROVE  /\ proc[p] # None /\ proc[p] \in BackEndType(p) /\ IsGet(call[p])
           /\ call[p].keys \in Seq(Users \cup {None}) /\ call[p].replies \in Seq(Rows \cup {None})
           /\ RepliesOk(WithUser(call[p].keys), call[p].replies)
<1>1. ProcInv(p) /\ IsCall(call[p]) /\ call[p] # Idle
  BY DEF RequestInv, StoreInv, Shape, Idle
<1>2. CallOk(call[p], p) /\ proc[p] # None /\ proc[p] \in BackEndType(p) /\ IsGet(call[p])
  BY <1>1, CallOps DEF ProcInv
<1> QED  BY <1>1, <1>2 DEF CallOk, CallType

LEMMA LookupKeeps ==
    ASSUME StoreInv, RequestInv, NEW p \in Procs, Lookup(p)
    PROVE  RequestInv'
<1> DEFINE c == call[p]
           n == Len(c.replies) + 1
           ids == WithUser(c.keys)
           got == hash[proc[p].online][ids[n]]
           d == [c EXCEPT !.replies = Append(@, got)]
<1>1. c.op = "get" /\ n <= Len(ids) /\ UNCHANGED <<shared, proc, registry, job, answer>> /\ call' = [call EXCEPT ![p] = d]
  BY DEF Lookup, Begin
<1>2. /\ proc[p] # None /\ proc[p] \in BackEndType(p) /\ IsGet(c) /\ c.keys \in Seq(Users \cup {None})
      /\ c.replies \in Seq(Rows \cup {None}) /\ RepliesOk(ids, c.replies)
  BY <1>1, GettingCall
<1>3. ids \in Seq(Users) /\ Len(ids) <= Len(c.keys) /\ Len(ids) \in Nat
  BY <1>2, WithUserType
<1>4. n \in Nat /\ Len(c.replies) \in Nat /\ n \in 1..Len(ids)
  BY <1>1, <1>2, <1>3
<1>5. ids[n] \in Users
  BY <1>3, <1>4
<1>6. got \in Rows \cup {None} /\ (got # None => got.user = ids[n])
  <2>1. proc[p].online \in Stores
    BY <1>2 DEF BackEndType, Stores
  <2> QED  BY <1>5, <2>1 DEF StoreInv, Shape
<1>7. IsGet(d) /\ d.op = "get" /\ d.keys = c.keys /\ d.replies = Append(c.replies, got)
  <2> HIDE DEF got
  <2> QED  BY <1>2 DEF IsGet
<1> HIDE DEF d, got, ids
<1>8. /\ Append(c.replies, got) \in Seq(Rows \cup {None}) /\ Len(Append(c.replies, got)) = n
      /\ Append(c.replies, got)[n] = got /\ \A k \in 1..(n - 1) : Append(c.replies, got)[k] = c.replies[k]
  BY <1>2, <1>4, <1>6
<1>9. CallType(d)
  <2>1. n <= Len(c.keys)
    BY <1>1, <1>2, <1>3, <1>4
  <2> HIDE DEF n
  <2> QED  BY <1>2, <1>7, <1>8, <2>1 DEF CallType
<1>10. RepliesOk(ids, d.replies)
  <2> SUFFICES ASSUME NEW k \in 1..n
               PROVE  k <= Len(ids) /\ (d.replies[k] # None => d.replies[k].user = ids[k])
    BY <1>7, <1>8 DEF RepliesOk
  <2>1. CASE k = n
    BY <1>1, <1>6, <1>7, <1>8, <2>1
  <2>2. CASE k # n
    <3>1. k \in 1..Len(c.replies) /\ k \in 1..(n - 1)
      BY <1>4, <2>2
    <3> QED  BY <1>2, <1>7, <1>8, <3>1 DEF RepliesOk
  <2> QED  BY <2>1, <2>2
<1>11. CallOk(d, p)
  BY <1>7, <1>9, <1>10 DEF CallOk, IsCall, ids
<1> QED  BY <1>1, <1>2, <1>11, CallStep
\* An answer's rows are those of its keys.
LEMMA JoinedRows ==
    ASSUME NEW keys \in Seq(Users \cup {None}), NEW replies \in Seq(Rows \cup {None}), RepliesOk(WithUser(keys), replies),
           NEW n \in 1..Len(keys), Joined(keys, replies)[n] # None
    PROVE  keys[n] # None /\ Joined(keys, replies)[n].user = keys[n]
<1> DEFINE ids == WithUser(keys)
           at(u) == {k \in 1..Len(replies) : ids[k] = u /\ replies[k] # None}
<1>1. Joined(keys, replies)[n] = IF keys[n] = None \/ at(keys[n]) = {} THEN None ELSE replies[Max(at(keys[n]))]
  BY DEF Joined
<1>2. keys[n] # None /\ at(keys[n]) # {}
  BY <1>1
<1>3. Len(replies) \in Nat /\ at(keys[n]) \subseteq 0..Len(replies)
  OBVIOUS
<1>4. Max(at(keys[n])) \in at(keys[n])
  BY <1>2, <1>3, MaxMember
<1> QED  BY <1>1, <1>2, <1>4 DEF RepliesOk

-----------------------------------------------------------------------------
(* Steps that change what a process holds                                  *)

LEMMA ProcStep ==
    ASSUME RequestInv, UNCHANGED <<objects, manifest>>, NEW p \in Procs,
           registry' = [q \in Procs |-> registry'[q]], job' = [q \in Procs |-> job'[q]], answer' = [q \in Procs |-> answer'[q]],
           \A q \in Procs \ {p} : /\ proc'[q] = proc[q] /\ call'[q] = call[q] /\ job'[q] = job[q]
                                  /\ answer'[q] = answer[q] /\ registry'[q] = registry[q],
           ProcInv(p)'
    PROVE  RequestInv'
<1>1. Grown /\ BucketInv'
  BY ListingsGrow DEF RequestInv, BucketInv
<1>2. \A q \in Procs \ {p} : ProcInv(q)'
  BY <1>1, ProcStays
<1> QED  BY <1>1, <1>2 DEF RequestInv

\* While the process is idle, or becomes so, its call is in order.
LEMMA IdleProc ==
    ASSUME RequestInv, NEW p \in Procs, call'[p] = Idle,
           proc'[p] = proc[p] \/ proc'[p] = None \/ proc'[p] \in BackEndType(p),
           registry'[p] \subseteq Views, job'[p] = None \/ JobOk(job'[p]), AnswerOk(answer'[p])
    PROVE  ProcInv(p)'
<1>1. ProcInv(p)
  BY DEF RequestInv
<1>2. IsCall(Idle) /\ CallType(Idle) /\ Idle.op \notin {"materialize", "fetch", "get"}
  BY IdleIsCall DEF Idle
<1>3. CallOk(call[p], p)'
  BY <1>2 DEF CallOk
<1>4. proc'[p] # None => proc'[p] \in BackEndType(p)
  BY <1>1 DEF ProcInv
<1>5. (job[p] # None => JobOk(job[p]))'
  BY DEF JobOk
<1>6. AnswerOk(answer[p])'
  BY DEF AnswerOk
<1> QED  BY <1>3, <1>4, <1>5, <1>6 DEF ProcInv, BackEndType

LEMMA OpenKeepsRequests ==
    ASSUME StoreInv, RequestInv, NEW p \in Procs, Open(p)
    PROVE  RequestInv'
<1>1. PICK f \in OfflineBackEnds, n \in OnlineBackEnds(p) : proc' = [proc EXCEPT ![p] = [offline |-> f, online |-> n]]
  BY DEF Open
<1>2. f \in {"manifest", "scan", "demo"} /\ n \in {"redis", p}
  BY DEF OfflineBackEnds, OnlineBackEnds
<1>3. proc'[p] \in BackEndType(p) /\ \A q \in Procs \ {p} : proc'[q] = proc[q]
  <2>1. proc'[p] = [offline |-> f, online |-> n]
    BY <1>1 DEF StoreInv, Shape
  <2> QED  BY <1>1, <1>2, <2>1 DEF StoreInv, Shape, BackEndType
<1>4. ProcInv(p) /\ call[p] = Idle
  BY DEF RequestInv, ProcInv, Open
<1>5. UNCHANGED <<objects, manifest, registry, call, job, answer>>
  BY DEF Open, shared
<1>6. ProcInv(p)'
  BY <1>3, <1>4, <1>5, IdleProc DEF ProcInv
<1> QED  BY <1>3, <1>5, <1>6, ProcStep DEF RequestInv

LEMMA StopKeepsRequests ==
    ASSUME StoreInv, RequestInv, NEW p \in Procs, Stop(p)
    PROVE  RequestInv'
<1>1. /\ proc'[p] = None /\ registry'[p] = {} /\ call'[p] = Idle /\ job'[p] = None /\ answer'[p] = <<>>
      /\ registry' = [q \in Procs |-> registry'[q]] /\ job' = [q \in Procs |-> job'[q]] /\ answer' = [q \in Procs |-> answer'[q]]
      /\ \A q \in Procs \ {p} : /\ proc'[q] = proc[q] /\ call'[q] = call[q] /\ job'[q] = job[q]
                               /\ answer'[q] = answer[q] /\ registry'[q] = registry[q]
  BY DEF Stop, StoreInv, Shape, RequestInv
<1>2. AnswerOk(<<>>)
  BY DEF AnswerOk
<1>3. ProcInv(p)'
  BY <1>1, <1>2, IdleProc
<1> QED  BY <1>1, <1>3, ProcStep DEF Stop, shared

LEMMA ApplyKeeps ==
    ASSUME StoreInv, RequestInv, NEW p \in Procs, NEW objs \in world.applies, Apply(p, objs)
    PROVE  RequestInv'
<1> DEFINE taken == {objs[n] : n \in {k \in 1..Len(objs) : \A j \in 1..k : objs[j] # None}}
<1>1. objs \in Seq(Views \cup {None})
  BY FeatureStoreAssumption DEF StoreInv, Shape, StoreCircumstances
<1>2. taken \subseteq Views
  <2> SUFFICES ASSUME NEW k \in 1..Len(objs), \A j \in 1..k : objs[j] # None
               PROVE  objs[k] \in Views
    OBVIOUS
  <2>1. Len(objs) \in Nat /\ k \in 1..k
    BY <1>1
  <2> QED  BY <1>1, <2>1
<1>3. registry' = [registry EXCEPT ![p] = @ \cup taken]
  BY DEF Apply
<1> HIDE DEF taken
<1>4. /\ registry'[p] = registry[p] \cup taken /\ \A q \in Procs \ {p} : registry'[q] = registry[q]
      /\ registry' = [q \in Procs |-> registry'[q]]
  BY <1>3 DEF RequestInv
<1>5. ProcInv(p) /\ call[p] = Idle /\ UNCHANGED <<objects, manifest, proc, call, job, answer>>
  BY DEF RequestInv, Apply, Ready, shared
<1>6. ProcInv(p)'
  BY <1>2, <1>4, <1>5, IdleProc DEF ProcInv
<1> QED  BY <1>4, <1>5, <1>6, ProcStep DEF RequestInv

LEMMA HistoricalKeeps ==
    ASSUME StoreInv, RequestInv, NEW p \in Procs, NEW frame \in world.frames, Historical(p, frame)
    PROVE  RequestInv'
<1> DEFINE j == [frame |-> frame, fetched |-> FALSE, given |-> {}]
<1>1. frame.days \subseteq Days \ {0}
  BY FeatureStoreAssumption DEF StoreInv, Shape, StoreCircumstances
<1>2. JobOk(j)
  BY <1>1 DEF JobOk
<1>3. job' = [job EXCEPT ![p] = j]
  BY DEF Historical
<1> HIDE DEF j
<1>4. job'[p] = j /\ (\A q \in Procs \ {p} : job'[q] = job[q]) /\ job' = [q \in Procs |-> job'[q]]
  BY <1>3 DEF RequestInv
<1>5. ProcInv(p) /\ call[p] = Idle /\ UNCHANGED <<objects, manifest, proc, call, registry, answer>>
  BY DEF RequestInv, Historical, Ready, shared
<1>6. ProcInv(p)'
  BY <1>2, <1>4, <1>5, IdleProc DEF ProcInv
<1> QED  BY <1>4, <1>5, <1>6, ProcStep DEF RequestInv

LEMMA FetchedKeeps ==
    ASSUME StoreInv, RequestInv, NEW p \in Procs, Fetched(p)
    PROVE  RequestInv'
<1> DEFINE mine == {r \in call[p].rows : r.user \in job[p].frame.users}
           j == [job[p] EXCEPT !.fetched = TRUE, !.given = @ \cup {mine}]
<1>1. Reading(p) /\ call[p].op = "fetch"
  BY DEF Fetched, ReadDone, Reading
<1>2. job[p] # None /\ ~job[p].fetched /\ JobOk(job[p]) /\ mine \subseteq Rows
  BY <1>1, ReadingCall DEF RequestInv, ProcInv
<1>3. job[p].given = {}
  BY <1>2 DEF JobOk
<1>4. job' = [job EXCEPT ![p].fetched = TRUE, ![p].given = @ \cup {mine}] /\ call' = [call EXCEPT ![p] = Idle]
  BY DEF Fetched, Begin
<1>5. job' = [job EXCEPT ![p] = j]
  BY <1>2, <1>4 DEF JobOk, RequestInv
<1>6. JobOk(j)
  <2>1. \A r \in mine : r.user \in job[p].frame.users
    OBVIOUS
  <2> HIDE DEF mine
  <2>2. /\ j.frame = job[p].frame /\ j.fetched = TRUE /\ j.given = {mine}
        /\ j \in [frame : {job[p].frame}, fetched : BOOLEAN, given : SUBSET SUBSET Rows]
    BY <1>2, <1>3 DEF JobOk
  <2> QED  BY <1>2, <2>1, <2>2 DEF JobOk
<1> HIDE DEF j
<1>7. job'[p] = j /\ (\A q \in Procs \ {p} : job'[q] = job[q]) /\ job' = [q \in Procs |-> job'[q]]
  BY <1>5 DEF RequestInv
<1>8. call'[p] = Idle /\ \A q \in Procs \ {p} : call'[q] = call[q]
  BY <1>4 DEF StoreInv, Shape
<1>9. ProcInv(p) /\ UNCHANGED <<objects, manifest, proc, registry, answer>>
  BY DEF RequestInv, Fetched, shared
<1>10. ProcInv(p)'
  BY <1>6, <1>7, <1>8, <1>9, IdleProc DEF ProcInv
<1> QED  BY <1>7, <1>8, <1>9, <1>10, ProcStep DEF RequestInv

LEMMA GetDoneKeeps ==
    ASSUME StoreInv, RequestInv, NEW p \in Procs, GetDone(p)
    PROVE  RequestInv'
<1> DEFINE c == call[p]
           computed == {ref[1] : ref \in c.parsed} \cap OnDemand \cap registry[p]
<1>1. /\ c.op = "get" /\ c.keys \in Seq(Users \cup {None}) /\ c.replies \in Seq(Rows \cup {None})
      /\ RepliesOk(WithUser(c.keys), c.replies)
  BY GettingCall DEF GetDone
<1>2. <<>> \in Seq(Rows \cup {None}) /\ RepliesOk(WithUser(c.keys), <<>>)
  BY DEF RepliesOk
<1>3. PICK replies \in Seq(Rows \cup {None}) : RepliesOk(WithUser(c.keys), replies) /\ Answer(p, replies)
  BY <1>1, <1>2 DEF GetDone
<1> DEFINE data == Joined(c.keys, replies)
           a == [n \in 1..Len(data) |-> [key |-> c.keys[n], data |-> data[n], computed |-> computed]]
<1>4. answer' = [answer EXCEPT ![p] = a]
  BY <1>3 DEF Answer
<1>5. AnswerOk(a)
  <2>1. Len(data) = Len(c.keys)
    BY <1>1 DEF Joined
  <2>2. \A n \in 1..Len(c.keys) : data[n] # None => c.keys[n] # None /\ data[n].user = c.keys[n]
    BY <1>1, <1>3, JoinedRows
  <2> HIDE DEF data, computed
  <2>3. DOMAIN a = 1..Len(c.keys) /\ \A n \in 1..Len(c.keys) : a[n].key = c.keys[n] /\ a[n].data = data[n]
    BY <2>1
  <2> HIDE DEF a
  <2> QED  BY <2>2, <2>3 DEF AnswerOk
<1> HIDE DEF a
<1>6. answer'[p] = a /\ (\A q \in Procs \ {p} : answer'[q] = answer[q]) /\ answer' = [q \in Procs |-> answer'[q]]
  BY <1>4 DEF RequestInv
<1>7. call'[p] = Idle /\ \A q \in Procs \ {p} : call'[q] = call[q]
  BY DEF StoreInv, Shape, GetDone, Begin
<1>8. ProcInv(p) /\ UNCHANGED <<objects, manifest, proc, registry, job>>
  BY DEF RequestInv, GetDone, shared
<1>9. ProcInv(p)'
  BY <1>5, <1>6, <1>7, <1>8, IdleProc DEF ProcInv
<1> QED  BY <1>6, <1>7, <1>8, <1>9, ProcStep DEF RequestInv

-----------------------------------------------------------------------------

LEMMA RequestsStart ==
    ASSUME Init
    PROVE  RequestInv
<1>1. StoreInit /\ objects \subseteq LakeFiles
  BY LakeSettingsAssumption DEF Init
<1>2. BucketInv
  BY <1>1 DEF StoreInit, BucketInv
<1>3. ASSUME NEW p \in Procs
      PROVE  ProcInv(p)
  BY <1>1, IdleIsCall DEF StoreInit, ProcInv, AnswerOk
<1> QED  BY <1>1, <1>2, <1>3 DEF StoreInit, RequestInv

LEMMA RequestsStep ==
    ASSUME StoreInv, RequestInv, [Next]_vars
    PROVE  RequestInv'
<1>1. objects \subseteq objects' /\ objects' \subseteq LakeFiles
  BY BucketGrows DEF RequestInv, BucketInv
<1>2. CASE UNCHANGED <<manifest, proc, registry, call, job, answer>> \/ \E d \in Days : PutManifest(d)
  <2>1. UNCHANGED <<proc, registry, call, job, answer>> /\ (manifest' = manifest \/ \E d \in Days : PutManifest(d))
    BY <1>2 DEF PutManifest, local
  <2> QED  BY <1>1, <2>1, ListingsGrow, RequestStutters DEF RequestInv
<1>3. ASSUME NEW p \in Procs, StoreStep(p)
      PROVE  RequestInv'
  BY <1>3, OpenKeepsRequests, StopKeepsRequests, ApplyKeeps, MaterializeKeeps, HistoricalKeeps, FetchKeeps, ListDayKeeps,
     ReadFileKeeps, FetchedKeeps, SelectLatestKeeps, PushKeeps, PushesKeep, GetOnlineKeeps, LookupKeeps, GetDoneKeeps DEF StoreStep
<1> QED  BY <1>2, <1>3 DEF Next, StoreNext, StreamWrite, Expire, Arrive, vars, storeVars, shared, local

LEMMA RequestsAlways == Spec => [](StoreInv /\ RequestInv)
BY StoreStarts, StoreKeeps, RequestsStart, RequestsStep, PTL DEF Spec

\* For any bucket, objects under any days and processes: a range read without a failed
\* call has found every row of the days asked for in the objects it could list under
\* them when it began, and no rows of other days.
THEOREM RangeReadsHold == Spec => []RangeReadsAreExact
<1>1. StoreInv /\ RequestInv => RangeReadsAreExact
  <2> SUFFICES ASSUME StoreInv, RequestInv, NEW p \in Procs, Reading(p), call[p].day > call[p].hi, call[p].todo = {}, ~call[p].failed
               PROVE  /\ call[p].due \subseteq call[p].rows
                      /\ proc[p].offline # "demo" =>
                            \A r \in call[p].rows : r.by = "lake" /\ DayOf(r.win) \in call[p].lo..call[p].hi
    BY DEF RangeReadsAreExact
  <2>1. RangeOk(call[p], proc[p].offline) /\ call[p].lo \in Nat /\ call[p].hi \in Nat /\ call[p].day \in Nat
    BY ReadingCall
  <2>2. \A d \in call[p].lo..call[p].hi : ~(call[p].day <= d)
    BY <2>1
  <2> QED  BY <2>1, <2>2 DEF RangeOk, Ahead
<1> QED  BY <1>1, RequestsAlways, PTL

\* For any entity rows, with missing and repeated users, and whatever is written to
\* the store between the lookups: the row in an answer is a row of its own entity.
THEOREM AnswersMatch == Spec => []AnswersFollowTheirKeys
<1>1. RequestInv => AnswersFollowTheirKeys
  BY DEF RequestInv, ProcInv, AnswerOk, AnswersFollowTheirKeys
<1> QED  BY <1>1, RequestsAlways, PTL

\* For any processes and entity frames: a RetrievalJob gives one set of rows, of the users asked for,
\* however often it is asked.
THEOREM JobsAreFetchedOnce == Spec => []JobsAnswerOnce
<1>1. RequestInv => JobsAnswerOnce
  <2> SUFFICES ASSUME RequestInv, NEW p \in Procs, job[p] # None
               PROVE  /\ Cardinality(job[p].given) <= 1
                      /\ \A rows \in job[p].given : \A r \in rows : r.user \in job[p].frame.users
    BY DEF JobsAnswerOnce
  <2>1. JobOk(job[p])
    BY DEF RequestInv, ProcInv
  <2>2. Cardinality(job[p].given) <= 1
    <3>1. CASE job[p].given = {}
      BY <3>1, FS_EmptySet
    <3>2. CASE \E rows \in SUBSET Rows : job[p].given = {rows}
      <4>1. PICK rows : job[p].given = {rows}
        BY <3>2
      <4>2. Cardinality({rows}) = 1
        BY FS_Singleton
      <4> QED  BY <4>1, <4>2
    <3> QED  BY <2>1, <3>1, <3>2 DEF JobOk
  <2> QED  BY <2>1, <2>2 DEF JobOk
<1> QED  BY <1>1, RequestsAlways, PTL
-----------------------------------------------------------------------------
(* Types                                                                   *)

HistoryInv == cut \subseteq Users /\ \A s \in Stores, u \in Users : \A m \in hist[s][u] : m.user = u

LEMMA HistEntry ==
    ASSUME StoreInv, NEW u \in Users, NEW entry, NEW other,
           other = hist \/ other = [hist EXCEPT !["redis"][u] = entry],
           NEW s \in Stores, NEW v \in Users
    PROVE  other = hist \/ (s = "redis" /\ v = u /\ other[s][v] = entry) \/ other[s][v] = hist[s][v]
<1>1. "redis" \in Stores /\ DOMAIN hist = Stores /\ DOMAIN hist["redis"] = Users /\ DOMAIN hist[s] = Users
  BY DEF StoreInv, Shape, Stores
<1> QED  BY <1>1

LEMMA HistoryStep ==
    ASSUME StoreInv, RequestInv, StoreInv', HistoryInv, [Next]_vars
    PROVE  HistoryInv'
<1>1. CASE UNCHANGED <<hist, cut>>
  BY <1>1 DEF HistoryInv
<1>2. ASSUME NEW p \in Procs, Open(p)
      PROVE  HistoryInv'
  BY <1>2 DEF StoreInv, Shape, HistoryInv, Open, StandIn
<1>3. ASSUME NEW p \in Procs, Stop(p)
      PROVE  HistoryInv'
  <2>1. call[p].op = "push" => call[p].half \in Rows \cup {None}
    BY CallOps DEF StoreInv, Shape, IsPush
  <2>2. cut' \subseteq Users
    BY <1>3, <2>1 DEF Stop, HistoryInv, Rows
  <2> QED  BY <1>3, <2>2 DEF StoreInv, Shape, HistoryInv, Stop
<1>4. ASSUME NEW p \in Procs, NEW r \in Rows, PushRow(p, r)
      PROVE  HistoryInv'
  <2>1. r.user \in Users /\ "redis" \in Stores /\ cut' \subseteq Users
    BY <1>4 DEF Rows, Stores, PushRow, HistoryInv
  <2>2. hist' = hist \/ hist' = [hist EXCEPT !["redis"][r.user] = @ \cup {r}]
    BY <1>4 DEF PushRow, Add
  <2>3. ASSUME NEW s \in Stores, NEW u \in Users, NEW m \in hist'[s][u]
        PROVE  m \in hist[s][u] \/ (m = r /\ u = r.user)
    <3>1. hist' = hist \/ (s = "redis" /\ u = r.user /\ hist'[s][u] = hist[s][u] \cup {r}) \/ hist'[s][u] = hist[s][u]
      <4> PICK entry : entry = hist["redis"][r.user] \cup {r}
        OBVIOUS
      <4>1. hist' = hist \/ hist' = [hist EXCEPT !["redis"][r.user] = entry]
        BY <2>1, <2>2
      <4>2. hist' = hist \/ (s = "redis" /\ u = r.user /\ hist'[s][u] = entry) \/ hist'[s][u] = hist[s][u]
        <5>1. DOMAIN hist = Stores /\ DOMAIN hist["redis"] = Users /\ DOMAIN hist[s] = Users
          BY <2>1 DEF StoreInv, Shape
        <5> QED  BY <2>1, <4>1, <5>1
      <4> QED  BY <4>2
    <3> QED  BY <2>3, <3>1
  <2>4. \A s \in Stores, u \in Users : \A m \in hist'[s][u] : m.user = u
    BY <2>3 DEF HistoryInv
  <2> QED  BY <2>1, <2>4 DEF HistoryInv
<1>5. ASSUME NEW p \in Procs, PushFails(p)
      PROVE  HistoryInv'
  <2>1. call[p].half \in Rows \cup {None}
    BY <1>5, CallOps DEF StoreInv, Shape, IsPush, PushFails, ToRedis
  <2> QED  BY <1>5, <2>1 DEF PushFails, HistoryInv, Rows
<1>6. ASSUME NEW p \in Procs, PushToStub(p)
      PROVE  HistoryInv'
  BY <1>6 DEF StoreInv, Shape, HistoryInv, PushToStub, shared
<1>7. ASSUME NEW r \in world.streamed, StreamWrite(r)
      PROVE  HistoryInv'
  <2>1. r \in Rows
    BY FeatureStoreAssumption DEF StoreInv, Shape, StoreCircumstances
  <2>2. r.user \in Users /\ "redis" \in Stores
    BY <2>1 DEF Rows, Stores
  <2> DEFINE young == {m \in hist["redis"][r.user] \cup {r} : m.win + HistSpan > r.win}
  <2>3. PICK kept \in Capped(young) : hist' = [hist EXCEPT !["redis"][r.user] = kept]
    BY <1>7 DEF StreamWrite
  <2>4. \A m \in young : m.user = r.user
    BY <2>2 DEF HistoryInv
  <2>5. kept \subseteq young
    BY <2>3 DEF Capped
  <2> HIDE DEF young
  <2>6. cut' \subseteq Users
    BY <1>7 DEF StreamWrite, HistoryInv
  <2>7. \A s \in Stores, u \in Users : \A m \in hist'[s][u] : m.user = u
    BY <2>2, <2>3, <2>4, <2>5, HistEntry DEF HistoryInv
  <2> QED  BY <2>6, <2>7 DEF HistoryInv
<1>8. ASSUME NEW u \in Users, Expire(u)
      PROVE  HistoryInv'
  <2>1. "redis" \in Stores
    BY DEF Stores
  <2>2. hist' = hist \/ hist' = [hist EXCEPT !["redis"][u] = {}]
    BY <1>8 DEF Expire
  <2>3. \A s \in Stores, v \in Users : hist'[s][v] \subseteq hist[s][v]
    <3> SUFFICES ASSUME NEW s \in Stores, NEW v \in Users
                 PROVE  hist'[s][v] \subseteq hist[s][v]
      OBVIOUS
    <3>1. hist' = hist \/ (s = "redis" /\ v = u /\ hist'[s][v] = {}) \/ hist'[s][v] = hist[s][v]
      BY <2>1, <2>2, HistEntry
    <3> QED  BY <3>1
  <2>4. cut' \subseteq Users
    BY <1>8 DEF Expire, HistoryInv
  <2> QED  BY <2>3, <2>4 DEF HistoryInv
<1>9. ASSUME NEW p \in Procs, StoreStep(p)
      PROVE  HistoryInv'
  <2>1. CASE Open(p) \/ Stop(p) \/ (\E r \in Rows : PushRow(p, r)) \/ PushFails(p) \/ PushToStub(p)
    BY <2>1, <1>2, <1>3, <1>4, <1>5, <1>6
  <2>2. CASE UNCHANGED online
    BY <1>1, <2>2 DEF online
  <2> QED  BY <1>9, <2>1, <2>2 DEF StoreStep, Apply, Materialize, Historical, Fetch, ListDay, ReadFile, Fetched, SelectLatest, Push,
             GetOnline, Lookup, GetDone
<1> QED  BY <1>1, <1>7, <1>8, <1>9 DEF Next, StoreNext, PutManifest, Arrive, vars, storeVars, online

\* The stores, the bucket and Redis keep their types, whatever the other programs do.
THEOREM StoreTypesHold == Spec => []StoreTypeOK
<1>1. Init => HistoryInv
  BY DEF Init, StoreInit, HistoryInv
<1>2. StoreInv /\ RequestInv /\ HistoryInv => StoreTypeOK
  <2> SUFFICES ASSUME StoreInv, RequestInv, HistoryInv
               PROVE  StoreTypeOK
    OBVIOUS
  <2>1. \A d \in Days : manifest[d] = None \/ manifest[d] \subseteq objects
    BY DEF RequestInv, BucketInv
  <2>2. \A p \in Procs : proc[p] = None \/ proc[p] \in [offline : {"manifest", "scan", "demo"}, online : {"redis", p}]
    BY DEF RequestInv, ProcInv, BackEndType
  <2>3. \A s \in Stores, u \in Users : /\ hash[s][u] \in {r \in Rows : r.user = u} \cup {None}
                                      /\ hist[s][u] \subseteq {r \in Rows : r.user = u}
    BY DEF StoreInv, Shape, HistoryInv
  <2>4. \A p \in Procs : registry[p] \subseteq Views /\ CallType(call[p])
    BY DEF RequestInv, ProcInv, CallOk
  <2>5. \A p \in Procs : job[p] = None \/ \A rows \in job[p].given : rows \subseteq Rows
    BY DEF RequestInv, ProcInv, JobOk
  <2>6. world \in StoreSettings /\ cut \subseteq Users
    BY DEF StoreInv, Shape, HistoryInv
  <2> QED  BY <2>1, <2>2, <2>3, <2>4, <2>5, <2>6, Zenon DEF StoreTypeOK
<1> QED  BY <1>1, <1>2, RequestsAlways, HistoryStep, PTL DEF Spec
-----------------------------------------------------------------------------
(* Sums over a set, by the units they are made of                          *)

Units(val, S) == {p \in S \X Nat : p[2] \in 1..val[p[1]]}
Total(val, S) == Cardinality(Units(val, S))
Chosen(S) == CHOOSE x \in S : TRUE

LEMMA UnitsFinite ==
    ASSUME NEW val, NEW x, val[x] \in Nat
    PROVE  IsFiniteSet(Units(val, {x})) /\ Total(val, {x}) = val[x]
<1> DEFINE f == [k \in 1..val[x] |-> <<x, k>>]
<1>1. f \in Bijection(1..val[x], Units(val, {x}))
  <2>1. \A p : p \in Units(val, {x}) <=> \E k \in 1..val[x] : p = <<x, k>>
    BY DEF Units
  <2>2. f \in [1..val[x] -> Units(val, {x})]
    BY <2>1
  <2>3. \A k, l \in 1..val[x] : f[k] = f[l] => k = l
    OBVIOUS
  <2>4. \A p \in Units(val, {x}) : \E k \in 1..val[x] : f[k] = p
    BY <2>1
  <2> QED  BY <2>2, <2>3, <2>4 DEF Bijection, Injection, Surjection, IsInjective
<1> HIDE DEF f
<1>2. IsFiniteSet(1..val[x]) /\ Cardinality(1..val[x]) = val[x]
  BY FS_Interval, val[x] + 1 > 1 \/ val[x] = 0
<1>3. ExistsBijection(1..val[x], Units(val, {x}))
  BY <1>1 DEF ExistsBijection
<1> QED  BY <1>2, <1>3, FS_Bijection DEF Total

LEMMA UnitsOfTwo ==
    ASSUME NEW val, NEW S, NEW T
    PROVE Units(val, S \cup T) = Units(val, S) \cup Units(val, T)
BY DEF Units

LEMMA TotalAdds ==
    ASSUME NEW val, NEW S, IsFiniteSet(Units(val, S)), NEW x, x \notin S, val[x] \in Nat
    PROVE  /\ IsFiniteSet(Units(val, S \cup {x}))
           /\ Total(val, S \cup {x}) = Total(val, S) + val[x]
<1>1. Units(val, S \cup {x}) = Units(val, S) \cup Units(val, {x})
  BY UnitsOfTwo
<1> DEFINE old == Units(val, S)
           new == Units(val, {x})
<1>2. old \cap new = {}
  BY DEF Units
<1>3. IsFiniteSet(new) /\ Cardinality(new) = val[x]
  BY UnitsFinite DEF Total
<1>4. IsFiniteSet(old) /\ Cardinality(old) \in Nat
  BY FS_CardinalityType
<1> HIDE DEF old, new
<1>5. /\ IsFiniteSet(old \cup new)
      /\ Cardinality(old \cup new) = Cardinality(old) + Cardinality(new) - Cardinality(old \cap new)
  BY <1>3, <1>4, FS_Union
<1>6. Cardinality(old \cup new) = Cardinality(old) + val[x]
  BY <1>2, <1>3, <1>4, <1>5, FS_EmptySet
<1> QED  BY <1>1, <1>5, <1>6 DEF Total, old, new

\* Sets of n elements have a finite number of units.
LEMMA TotalNatural ==
    ASSUME NEW S, IsFiniteSet(S), NEW val, \A x \in S : val[x] \in Nat
    PROVE  IsFiniteSet(Units(val, S)) /\ Total(val, S) \in Nat
<1> DEFINE bad == {n \in Nat : \E T \in SUBSET S : Cardinality(T) = n /\ ~IsFiniteSet(Units(val, T))}
<1>1. ASSUME bad # {} PROVE FALSE
  <2>1. bad \subseteq Nat
    OBVIOUS
  <2>2. PICK n \in bad : \A m \in bad : n <= m
    BY <1>1, <2>1, LeastNumber
  <2>3. PICK T \in SUBSET S : Cardinality(T) = n /\ ~IsFiniteSet(Units(val, T))
    BY <2>2
  <2>4. IsFiniteSet(T)
    BY FS_Subset
  <2>5. T # {}
    <3>1. Units(val, {}) = {}
      BY DEF Units
    <3> QED  BY <2>3, <3>1, FS_EmptySet
  <2>6. PICK x \in T : TRUE
    BY <2>5
  <2>7. IsFiniteSet(T \ {x}) /\ Cardinality(T \ {x}) = n - 1 /\ n \in Nat
    BY <2>2, <2>3, <2>4, FS_RemoveElement
  <2>8. n - 1 \in Nat /\ T \ {x} \in SUBSET S
    BY <2>7, FS_CardinalityType
  <2>9. IsFiniteSet(Units(val, T \ {x}))
    BY <2>2, <2>7, <2>8
  <2>10. IsFiniteSet(Units(val, (T \ {x}) \cup {x}))
    BY <2>9, TotalAdds
  <2>11. (T \ {x}) \cup {x} = T
    BY <2>6
  <2> QED  BY <2>3, <2>10, <2>11
<1>2. IsFiniteSet(Units(val, S))
  <2>1. Cardinality(S) \in Nat /\ S \in SUBSET S
    BY FS_CardinalityType
  <2> QED  BY <1>1, <2>1
<1> QED  BY <1>2, FS_CardinalityType DEF Total

LEMMA TotalRemoves ==
    ASSUME NEW T, IsFiniteSet(T), NEW val, \A y \in T : val[y] \in Nat, NEW x \in T
    PROVE  Total(val, T) = val[x] + Total(val, T \ {x})
<1>1. /\ IsFiniteSet(T \ {x}) /\ (T \ {x}) \cup {x} = T /\ val[x] \in Nat
  BY FS_Subset
<1>2. IsFiniteSet(Units(val, T \ {x})) /\ Total(val, T \ {x}) \in Nat
  BY <1>1, TotalNatural
<1>3. Total(val, (T \ {x}) \cup {x}) = Total(val, T \ {x}) + val[x]
  BY <1>1, <1>2, TotalAdds
<1>4. Total(val, T) = Total(val, T \ {x}) + val[x]
  BY <1>1, <1>3
<1> QED  BY <1>1, <1>2, <1>4

\* A recursive sum over the subsets of a finite set is the total, whatever it chooses.
LEMMA FoldIsTotal ==
    ASSUME NEW S, IsFiniteSet(S), NEW val, \A x \in S : val[x] \in Nat,
           NEW iter,
           iter = CHOOSE g : g = [T \in SUBSET S |-> IF T = {} THEN 0
                                  ELSE val[Chosen(T)] + g[T \ {Chosen(T)}]]
    PROVE  iter[S] = Total(val, S)
<1> DEFINE step(g) == [T \in SUBSET S |-> IF T = {} THEN 0
                                  ELSE val[Chosen(T)] + g[T \ {Chosen(T)}]]
           sum == [T \in SUBSET S |-> Total(val, T)]
<1>0. \A T \in SUBSET S : IsFiniteSet(T)
  BY FS_Subset
<1>1. \A T \in SUBSET S : T # {} => Chosen(T) \in T
  BY DEF Chosen
<1>2. Total(val, {}) = 0
  <2>1. Units(val, {}) = {}
    BY DEF Units
  <2> QED  BY <2>1, FS_EmptySet DEF Total
<1>3. \A T \in SUBSET S : T # {} => Total(val, T) = val[Chosen(T)] + Total(val, T \ {Chosen(T)})
  BY <1>0, <1>1, TotalRemoves
<1>4. sum = step(sum)
  <2> SUFFICES ASSUME NEW T \in SUBSET S PROVE sum[T] = step(sum)[T]
    OBVIOUS
  <2> QED  BY <1>1, <1>2, <1>3
<1>5. iter = step(iter)
  BY <1>4
<1> DEFINE bad == {n \in Nat : \E T \in SUBSET S : Cardinality(T) = n /\ iter[T] # Total(val, T)}
<1>6. ASSUME bad # {} PROVE FALSE
  <2>2. PICK n \in bad : \A m \in bad : n <= m
    <3>1. bad \subseteq Nat
      OBVIOUS
    <3> QED  BY <1>6, <3>1, LeastNumber
  <2>3. PICK T \in SUBSET S : Cardinality(T) = n /\ iter[T] # Total(val, T)
    BY <2>2
  <2>4. iter[T] = IF T = {} THEN 0 ELSE val[Chosen(T)] + iter[T \ {Chosen(T)}]
    BY <1>5
  <2>5. T # {}
    BY <1>2, <2>3, <2>4
  <2>6. PICK x \in T : x = Chosen(T)
    BY <1>1, <2>5
  <2>7. IsFiniteSet(T \ {x}) /\ Cardinality(T \ {x}) = n - 1 /\ n \in Nat
    BY <1>0, <2>2, <2>3, FS_RemoveElement
  <2>8. n - 1 \in Nat /\ T \ {x} \in SUBSET S
    BY <2>7, FS_CardinalityType
  <2>9. iter[T \ {x}] = Total(val, T \ {x})
    <3>1. ASSUME n - 1 \in bad PROVE FALSE
      <4>1. n <= n - 1
        BY <2>2, <3>1
      <4> QED  BY <2>7, <4>1
    <3> QED  BY <2>7, <2>8, <3>1
  <2> QED  BY <1>3, <2>3, <2>4, <2>5, <2>6, <2>9
<1>7. Cardinality(S) \in Nat /\ S \in SUBSET S
  BY FS_CardinalityType
<1> QED  BY <1>6, <1>7

LEMMA RecordsAddUp ==
    ASSUME NEW S \in SUBSET Files, IsFiniteSet(S)
    PROVE  MapThenSumSet(LAMBDA f : Records[f], S) = Total(Records, S)
<1>1. \A x \in S : Records[x] \in Nat
  BY TrainingAssumption
<1> QED  BY <1>1, FoldIsTotal DEF MapThenSumSet, MapThenFoldSet, Chosen

-----------------------------------------------------------------------------
(* The training jobs and the cache they share                              *)

\* Of a listing that stops there is only so much: infinite or not, no set of
\* numbers has endlessly many members with few below them.
LEMMA ListingFinite ==
    ASSUME NEW X, X \subseteq Nat
    PROVE  IsFiniteSet(FirstListed(X))
<1> DEFINE F == FirstListed(X)
           below(f) == {g \in F : g < f}
<1>1. /\ F \subseteq Nat /\ F \subseteq X
      /\ \A f \in F : Cardinality({g \in X : g < f}) < MaxFiles
  BY DEF FirstListed
<1> HIDE DEF F
<1>2. \A f \in Nat : IsFiniteSet(below(f)) /\ Cardinality(below(f)) \in Nat
  <2> SUFFICES ASSUME NEW f \in Nat PROVE IsFiniteSet(below(f)) /\ Cardinality(below(f)) \in Nat
    OBVIOUS
  <2>1. 0 \in Int /\ f \in Int
    OBVIOUS
  <2>2. IsFiniteSet(0..f)
    BY <2>1, FS_Interval
  <2>3. below(f) \subseteq 0..f
    <3> SUFFICES ASSUME NEW g \in F, g < f PROVE g \in 0..f
      OBVIOUS
    <3>1. g \in Nat
      BY <1>1
    <3> QED  BY <3>1
  <2> QED  BY <2>2, <2>3, FS_Subset, FS_CardinalityType
<1>3. \A f \in Nat : IsFiniteSet({g \in X : g < f})
  <2> SUFFICES ASSUME NEW f \in Nat PROVE IsFiniteSet({g \in X : g < f})
    OBVIOUS
  <2>1. 0 \in Int /\ f \in Int
    OBVIOUS
  <2>2. IsFiniteSet(0..f)
    BY <2>1, FS_Interval
  <2>3. {g \in X : g < f} \subseteq 0..f
    <3> SUFFICES ASSUME NEW g \in X, g < f PROVE g \in 0..f
      OBVIOUS
    <3>1. g \in Nat
      OBVIOUS
    <3> QED  BY <3>1
  <2> QED  BY <2>2, <2>3, FS_Subset
<1>4. MaxFiles \in Nat
  BY TrainingAssumption
<1> SUFFICES ASSUME ~IsFiniteSet(F) PROVE FALSE
  BY DEF F
<1>5. \A n \in Nat : \E f \in F : f > n
  <2> SUFFICES ASSUME NEW n \in Nat, \A f \in F : ~(f > n) PROVE FALSE
    OBVIOUS
  <2>1. F \in SUBSET Nat /\ \A f \in F : f <= n
    BY <1>1
  <2> QED  BY <2>1, FS_BoundedSetOfNaturals
<1> DEFINE bad == {k \in Nat : ~\E f \in F : Cardinality(below(f)) >= k}
<1>6. MaxFiles \in bad
  <2> SUFFICES ASSUME NEW f \in F, Cardinality(below(f)) >= MaxFiles PROVE FALSE
    BY <1>4
  <2>1. below(f) \subseteq {g \in X : g < f} /\ f \in Nat
    BY <1>1
  <2>2. IsFiniteSet({g \in X : g < f})
    BY <1>3, <2>1
  <2>3. Cardinality(below(f)) <= Cardinality({g \in X : g < f})
    BY <2>1, <2>2, FS_Subset
  <2>4. Cardinality({g \in X : g < f}) \in Nat /\ Cardinality(below(f)) \in Nat
    BY <1>2, <2>1, <2>2, FS_CardinalityType
  <2> QED  BY <1>1, <1>4, <2>3, <2>4
<1>7. PICK k \in bad : \A m \in bad : k <= m
  BY <1>6, LeastNumber
<1>8. k # 0
  <2>1. PICK f \in F : f > 0
    BY <1>5
  <2>2. Cardinality(below(f)) >= 0
    BY <1>1, <1>2
  <2> QED  BY <1>7, <2>1, <2>2
<1>9. k - 1 \in Nat /\ k - 1 \notin bad
  BY <1>7, <1>8
<1>10. PICK f \in F : Cardinality(below(f)) >= k - 1
  BY <1>9
<1>11. PICK g \in F : g > f
  BY <1>1, <1>5
<1>12. below(f) \cup {f} \subseteq below(g) /\ f \notin below(f)
  <2>1. f \in Nat /\ g \in Nat /\ F \subseteq Nat
    BY <1>1
  <2>2. \A h \in F : h < f => h < g
    BY <1>11, <2>1
  <2>3. f \in below(g) /\ f \notin below(f)
    BY <1>11, <2>1
  <2> QED  BY <2>2, <2>3
<1>13. /\ IsFiniteSet(below(g)) /\ IsFiniteSet(below(f)) /\ Cardinality(below(g)) \in Nat
       /\ Cardinality(below(f)) \in Nat
  BY <1>1, <1>2
<1>14. /\ Cardinality(below(f) \cup {f}) = Cardinality(below(f)) + 1
       /\ Cardinality(below(f) \cup {f}) <= Cardinality(below(g))
  BY <1>12, <1>13, FS_AddElement, FS_Subset
<1>15. Cardinality(below(g)) >= k
  BY <1>7, <1>10, <1>13, <1>14
<1> QED  BY <1>7, <1>11, <1>15
\* What a name of the cache holds is the file of that name.
NamesTrue == \A name \in DOMAIN cache : LocalName(cache[name]) = name

InDirectory(W) == \A f \in W : LocalName(f) \in DOMAIN cache

\* Every name of a file in A is that of a file in B.
NamedIn(A, B) == \A f \in A : \E g \in B : LocalName(g) = LocalName(f)

FromCache == {"gather", "read_done", "train", "save", "upload", "done"}

\* Files of the selection that were staged and are there still: no fewer than
\* the job has counted, and all it has looked at when it skipped none.
Staged(j, W) ==
    /\ W \subseteq train[j].hot \ train[j].todo /\ InDirectory(W)
    /\ train[j].warmed <= Cardinality(W)
    /\ train[j].skipped = 0 => W = train[j].hot \ train[j].todo

\* The same while they are read: the job's data has a file for the name of each one
\* already read.
Fed(j, W) ==
    /\ W \subseteq train[j].hot /\ InDirectory(W)
    /\ train[j].warmed <= Cardinality(W)
    /\ train[j].skipped = 0 => W = train[j].hot
    /\ NamedIn(W \ train[j].todo, train[j].data)

Backed(j) ==
    train[j].pc \in FromCache /\ train[j].source = "cache" =>
        /\ \E W \in SUBSET Files : Fed(j, W)
        /\ IsFiniteSet(train[j].data) /\ NamedIn(train[j].data, train[j].hot \ train[j].todo)
        /\ NamesApart(train[j].hot) => train[j].count = Total(Records, train[j].data)
        /\ train[j].pc # "gather" => train[j].todo = {}
        /\ train[j].warmed <= train[j].hits

JobKept(j) ==
    /\ IsFiniteSet(train[j].hot) /\ train[j].todo \subseteq train[j].hot
    /\ train[j].pc \in {"start", "connect", "stage", "read"} =>
          train[j].source = "none" /\ train[j].data = {} /\ train[j].count = 0
    /\ train[j].pc \in {"start", "connect"} =>
          train[j].warmed = 0 /\ train[j].skipped = 0 /\ train[j].todo = train[j].hot
    /\ train[j].pc = "gather" => train[j].source = "cache"
    /\ train[j].pc = "stage" => \E W \in SUBSET Files : Staged(j, W)
    /\ train[j].pc = "read" =>
          /\ train[j].todo = {} /\ train[j].warmed <= train[j].hits
          /\ \E W \in SUBSET Files : Staged(j, W)
    /\ Backed(j)

TrainInv == TrainTypeOK /\ NamesTrue /\ \A j \in Jobs : JobKept(j)

JobRecords ==
    [pc : {"start", "connect", "stage", "read", "gather", "read_done", "train", "raised", "save", "upload", "done", "killed"},
     live : BOOLEAN, key : BOOLEAN, hot : SUBSET Files, todo : SUBSET Files, data : SUBSET Files,
     warmed : Nat, skipped : Nat, hits : Nat, count : Nat, source : {"none", "cache", "table", "synthetic"},
     mode : {"none", "live-minio", "live-iceberg", "synthetic"}]

LEMMA TrainStarts == Init => TrainInv
<1> SUFFICES ASSUME Init PROVE TrainInv
  OBVIOUS
<1>1. TrainInit
  BY DEF Init
<1>2. /\ trial \in TrainSettings /\ cache = <<>> /\ train = [j \in Jobs |-> Fresh]
      /\ disk = [i \in Ids |-> None] /\ models = [i \in Ids |-> None]
  BY <1>1 DEF TrainInit
<1>3. DOMAIN cache = {}
  BY <1>2
<1>4. Fresh \in JobRecords
  BY DEF Fresh, JobRecords
<1>5. train \in [Jobs -> JobRecords]
  BY <1>2, <1>4
<1>6. TrainTypeOK
  BY <1>2, <1>3, <1>5 DEF TrainTypeOK, JobRecords
<1>7. ASSUME NEW j \in Jobs PROVE JobKept(j)
  <2>1. train[j] = Fresh
    BY <1>2
  <2> QED  BY <2>1, FS_EmptySet DEF JobKept, Backed, Fresh, FromCache
<1> QED  BY <1>3, <1>6, <1>7 DEF TrainInv, NamesTrue

\* A job keeps what it has while others write: the cache only grows.
LEMMA OtherJobsKeep ==
    ASSUME NEW j \in Jobs, JobKept(j), train'[j] = train[j], DOMAIN cache \subseteq DOMAIN cache'
    PROVE  JobKept(j)'
<1>1. \A W : InDirectory(W) => InDirectory(W)'
  BY DEF InDirectory
<1>2. \A W : (Staged(j, W) => Staged(j, W)') /\ (Fed(j, W) => Fed(j, W)')
  BY <1>1 DEF Staged, Fed, NamedIn
<1>3. Backed(j)'
  BY <1>2 DEF JobKept, Backed, NamedIn, NamesApart
<1>4. /\ train'[j].pc = "stage" => \E W \in SUBSET Files : Staged(j, W)'
      /\ train'[j].pc = "read" =>
            /\ train'[j].todo = {} /\ train'[j].warmed <= train'[j].hits
            /\ \E W \in SUBSET Files : Staged(j, W)'
  BY <1>2 DEF JobKept
<1>5. /\ IsFiniteSet(train'[j].hot) /\ train'[j].todo \subseteq train'[j].hot
      /\ train'[j].pc \in {"start", "connect", "stage", "read"} =>
            train'[j].source = "none" /\ train'[j].data = {} /\ train'[j].count = 0
      /\ train'[j].pc \in {"start", "connect"} =>
            train'[j].warmed = 0 /\ train'[j].skipped = 0 /\ train'[j].todo = train'[j].hot
      /\ train'[j].pc = "gather" => train'[j].source = "cache"
  BY DEF JobKept
<1> QED  BY <1>3, <1>4, <1>5 DEF JobKept

LEMMA TrainStutters ==
    ASSUME TrainInv, UNCHANGED trainVars
    PROVE  TrainInv'
<1>1. UNCHANGED <<trial, cache, train, disk, models>>
  BY DEF trainVars
<1>2. TrainTypeOK'
  BY <1>1 DEF TrainInv, TrainTypeOK
<1>3. ASSUME NEW j \in Jobs PROVE JobKept(j)'
  <2>1. JobKept(j) /\ train'[j] = train[j] /\ DOMAIN cache \subseteq DOMAIN cache'
    BY <1>1 DEF TrainInv
  <2> QED  BY <2>1, OtherJobsKeep
<1> QED  BY <1>1, <1>2, <1>3 DEF TrainInv, NamesTrue

\* A step of one job: its record, and at most one more name in the cache.
LEMMA JobSteps ==
    ASSUME TrainInv, NEW j \in Jobs, NEW rec \in JobRecords, train' = [train EXCEPT ![j] = rec],
           UNCHANGED trial, disk' \in [Ids -> Jobs \cup {None}], models' \in [Ids -> Jobs \cup {None}],
           \/ cache' = cache
           \/ \E f \in Files : cache' = Holding(LocalName(f), f),
           JobKept(j)'
    PROVE  TrainInv'
<1>1. train \in [Jobs -> JobRecords]
  BY DEF TrainInv, TrainTypeOK, JobRecords
<1>2. train' \in [Jobs -> JobRecords] /\ \A k \in Jobs : k # j => train'[k] = train[k]
  BY <1>1
<1>3. /\ DOMAIN cache \subseteq {LocalName(f) : f \in Files} /\ \A name \in DOMAIN cache : cache[name] \in Files
      /\ \A name \in DOMAIN cache : LocalName(cache[name]) = name
  BY DEF TrainInv, TrainTypeOK, NamesTrue
<1>4. /\ DOMAIN cache' \subseteq {LocalName(f) : f \in Files} /\ \A name \in DOMAIN cache' : cache'[name] \in Files
      /\ \A name \in DOMAIN cache' : LocalName(cache'[name]) = name
      /\ DOMAIN cache \subseteq DOMAIN cache'
  <2>1. CASE cache' = cache
    BY <1>3, <2>1
  <2>2. ASSUME NEW f \in Files, cache' = Holding(LocalName(f), f)
        PROVE  /\ DOMAIN cache' \subseteq {LocalName(g) : g \in Files}
               /\ \A name \in DOMAIN cache' : cache'[name] \in Files
               /\ \A name \in DOMAIN cache' : LocalName(cache'[name]) = name
               /\ DOMAIN cache \subseteq DOMAIN cache'
    <3>1. /\ DOMAIN cache' = DOMAIN cache \cup {LocalName(f)}
          /\ \A x \in DOMAIN cache' : cache'[x] = IF x = LocalName(f) THEN f ELSE cache[x]
      BY <2>2 DEF Holding
    <3> QED  BY <1>3, <3>1
  <2> QED  BY <2>1, <2>2
<1>5. TrainTypeOK'
  BY <1>2, <1>4 DEF TrainInv, TrainTypeOK, JobRecords
<1>6. ASSUME NEW k \in Jobs, k # j PROVE JobKept(k)'
  <2>1. JobKept(k) /\ train'[k] = train[k] /\ DOMAIN cache \subseteq DOMAIN cache'
    BY <1>2, <1>4, <1>6 DEF TrainInv
  <2> QED  BY <2>1, OtherJobsKeep
<1> QED  BY <1>4, <1>5, <1>6 DEF TrainInv, NamesTrue

LEMMA JobFacts ==
    ASSUME TrainInv, NEW j \in Jobs
    PROVE  /\ train[j] \in JobRecords /\ JobKept(j) /\ train \in [Jobs -> JobRecords]
           /\ disk \in [Ids -> Jobs \cup {None}] /\ models \in [Ids -> Jobs \cup {None}]
           /\ trial \in TrainSettings
BY DEF TrainInv, TrainTypeOK, JobRecords
LEMMA HottestFinite ==
    ASSUME NEW S, IsFiniteSet(S), NEW n
    PROVE  IsFiniteSet(Hottest(S, n)) /\ Hottest(S, n) \subseteq S
<1>1. Hottest(S, n) \subseteq S
  BY DEF Hottest
<1> QED  BY <1>1, FS_Subset

LEMMA DiscoverKeeps ==
    ASSUME TrainInv, objects \subseteq LakeFiles, NEW j \in Jobs, Discover(j)
    PROVE  TrainInv'
<1>1. /\ train[j] \in JobRecords /\ JobKept(j) /\ disk \in [Ids -> Jobs \cup {None}]
      /\ models \in [Ids -> Jobs \cup {None}] /\ train \in [Jobs -> JobRecords]
  BY JobFacts
<1>2. PICK live \in BOOLEAN : LET hot == Hottest(IF live THEN FirstListed(objects) ELSE DemoFiles, TopN) IN
         train' = [train EXCEPT ![j] =
                      [train[j] EXCEPT !.pc = IF live THEN "connect" ELSE "stage", !.live = live,
                           !.mode = IF live THEN "live-minio" ELSE "synthetic", !.hot = hot, !.todo = hot]]
  BY DEF Discover, Goes, Outcomes
<1> DEFINE hot == Hottest(IF live THEN FirstListed(objects) ELSE DemoFiles, TopN)
           pc == IF live THEN "connect" ELSE "stage"
           mode == IF live THEN "live-minio" ELSE "synthetic"
           rec == [train[j] EXCEPT !.pc = pc, !.live = live, !.mode = mode, !.hot = hot, !.todo = hot]
<1>3. IsFiniteSet(hot) /\ hot \in SUBSET Files
  <2>1. /\ IsFiniteSet(FirstListed(objects)) /\ FirstListed(objects) \subseteq Files
        /\ IsFiniteSet(DemoFiles) /\ DemoFiles \subseteq Files
    <3>1. objects \subseteq Nat
      BY LakeAssumption
    <3>2. FirstListed(objects) \subseteq objects
      BY DEF FirstListed
    <3> QED  BY <3>1, <3>2, ListingFinite, TrainingAssumption DEF Files
  <2>2. CASE live
    BY <2>1, <2>2, HottestFinite
  <2>3. CASE ~live
    BY <2>1, <2>3, HottestFinite
  <2> QED  BY <2>2, <2>3
<1>4. train[j].pc = "start" /\ UNCHANGED <<objects, trial, cache, disk, models>>
  BY DEF Discover, At
<1>5. pc \in {"connect", "stage"} /\ mode \in {"live-minio", "synthetic"} /\ live \in BOOLEAN
  OBVIOUS
<1> HIDE DEF hot, pc, mode
<1>6. /\ rec \in JobRecords /\ rec.pc = pc /\ rec.hot = hot /\ rec.todo = hot
      /\ rec.warmed = train[j].warmed /\ rec.skipped = train[j].skipped /\ rec.data = train[j].data
      /\ rec.count = train[j].count /\ rec.source = train[j].source
  BY <1>1, <1>3, <1>5 DEF JobRecords
<1>7. train' = [train EXCEPT ![j] = rec]
  BY <1>2 DEF hot, pc, mode
<1> HIDE DEF rec
<1>8. train'[j] = rec
  BY <1>1, <1>6, <1>7
<1>9. /\ train[j].warmed = 0 /\ train[j].skipped = 0 /\ train[j].source = "none"
      /\ train[j].data = {} /\ train[j].count = 0
  BY <1>1, <1>4 DEF JobKept
<1>10. Staged(j, {})'
  BY <1>6, <1>8, <1>9, FS_EmptySet DEF Staged, InDirectory
<1>11. JobKept(j)'
  BY <1>3, <1>5, <1>6, <1>8, <1>9, <1>10 DEF JobKept, Backed, FromCache
<1> QED  BY <1>1, <1>4, <1>6, <1>7, <1>11, JobSteps

LEMMA ConnectKeeps ==
    ASSUME TrainInv, NEW j \in Jobs, Connect(j)
    PROVE  TrainInv'
<1>1. /\ train[j] \in JobRecords /\ JobKept(j) /\ disk \in [Ids -> Jobs \cup {None}]
      /\ models \in [Ids -> Jobs \cup {None}] /\ train \in [Jobs -> JobRecords]
  BY JobFacts
<1>2. PICK ok \in BOOLEAN :
         train' = [train EXCEPT ![j] =
                      IF ok THEN [train[j] EXCEPT !.pc = "stage"]
                      ELSE [train[j] EXCEPT !.pc = "stage", !.todo = {}, !.skipped = Cardinality(train[j].todo)]]
  BY DEF Connect, Goes, Outcomes
<1>3. train[j].pc = "connect" /\ UNCHANGED <<objects, trial, cache, disk, models>>
  BY DEF Connect, At
<1>4. /\ train[j].warmed = 0 /\ train[j].skipped = 0 /\ train[j].source = "none"
      /\ train[j].data = {} /\ train[j].count = 0 /\ train[j].todo = train[j].hot
      /\ IsFiniteSet(train[j].hot)
  BY <1>1, <1>3 DEF JobKept
<1>5. CASE ok
  <2> DEFINE rec == [train[j] EXCEPT !.pc = "stage"]
  <2>1. /\ rec \in JobRecords /\ rec.pc = "stage" /\ rec.hot = train[j].hot /\ rec.todo = train[j].todo
        /\ rec.warmed = train[j].warmed /\ rec.skipped = train[j].skipped /\ rec.data = train[j].data
        /\ rec.count = train[j].count /\ rec.source = train[j].source
    BY <1>1 DEF JobRecords
  <2>2. train' = [train EXCEPT ![j] = rec]
    BY <1>2, <1>5
  <2> HIDE DEF rec
  <2>3. train'[j] = rec
    BY <1>1, <2>2
  <2>4. Staged(j, {})'
    BY <1>4, <2>1, <2>3, FS_EmptySet DEF Staged, InDirectory
  <2>5. JobKept(j)'
    BY <1>4, <2>1, <2>3, <2>4 DEF JobKept, Backed, FromCache
  <2> QED  BY <1>1, <1>3, <2>1, <2>2, <2>5, JobSteps
<1>6. CASE ~ok
  <2> DEFINE n == Cardinality(train[j].todo)
             rec == [train[j] EXCEPT !.pc = "stage", !.todo = {}, !.skipped = n]
  <2>0. n \in Nat /\ (n = 0 => train[j].hot = {})
    BY <1>4, FS_CardinalityType, FS_EmptySet
  <2> HIDE DEF n
  <2>1. /\ rec \in JobRecords /\ rec.pc = "stage" /\ rec.hot = train[j].hot /\ rec.todo = {}
        /\ rec.warmed = train[j].warmed /\ rec.skipped = n /\ rec.data = train[j].data
        /\ rec.count = train[j].count /\ rec.source = train[j].source
    BY <1>1, <2>0 DEF JobRecords
  <2>2. train' = [train EXCEPT ![j] = rec]
    BY <1>2, <1>6 DEF n
  <2> HIDE DEF rec
  <2>3. train'[j] = rec
    BY <1>1, <2>2
  <2>4. Staged(j, {})'
    BY <1>4, <2>0, <2>1, <2>3, FS_EmptySet DEF Staged, InDirectory
  <2>5. JobKept(j)'
    BY <1>4, <2>1, <2>3, <2>4 DEF JobKept, Backed, FromCache
  <2> QED  BY <1>1, <1>3, <2>1, <2>2, <2>5, JobSteps
<1> QED  BY <1>5, <1>6
LEMMA StageKeeps ==
    ASSUME TrainInv, NEW j \in Jobs, Stage(j)
    PROVE  TrainInv'
<1>1. /\ train[j] \in JobRecords /\ JobKept(j) /\ disk \in [Ids -> Jobs \cup {None}]
      /\ models \in [Ids -> Jobs \cup {None}] /\ train \in [Jobs -> JobRecords]
  BY JobFacts
<1>2. PICK f \in Hottest(train[j].todo, 1) :
         LET kept == f \in DemoFiles /\ LocalName(f) \in DOMAIN cache IN
         \E ok \in Outcomes(IF f \in LakeFiles THEN trial.minioFails ELSE trial.diskFails /\ ~kept) :
          /\ cache' \in IF kept THEN {cache}
                        ELSE IF ok THEN {Holding(LocalName(f), f)}
                        ELSE {cache} \cup {Holding(LocalName(g), g) : g \in {f} \cap DemoFiles}
          /\ Goes(j, IF ok THEN [train[j] EXCEPT !.todo = @ \ {f}, !.warmed = @ + 1]
                     ELSE [train[j] EXCEPT !.todo = @ \ {f}, !.skipped = @ + 1])
  BY DEF Stage
<1>3. train[j].pc = "stage" /\ UNCHANGED <<objects, trial, disk, models>>
  BY DEF Stage, At
<1>4. f \in train[j].todo /\ f \in train[j].hot /\ f \in Files
  BY <1>1, <1>2 DEF Hottest, JobKept, JobRecords
<1>5. PICK ok \in BOOLEAN :
          /\ \/ cache' = cache
             \/ cache' = Holding(LocalName(f), f)
          /\ ok => LocalName(f) \in DOMAIN cache'
          /\ train' = [train EXCEPT ![j] =
                          IF ok THEN [train[j] EXCEPT !.todo = @ \ {f}, !.warmed = @ + 1]
                          ELSE [train[j] EXCEPT !.todo = @ \ {f}, !.skipped = @ + 1]]
  <2>1. LocalName(f) \in DOMAIN Holding(LocalName(f), f)
    BY DEF Holding
  <2>2. PICK ok \in BOOLEAN :
          /\ cache' \in IF f \in DemoFiles /\ LocalName(f) \in DOMAIN cache THEN {cache}
                        ELSE IF ok THEN {Holding(LocalName(f), f)}
                        ELSE {cache} \cup {Holding(LocalName(g), g) : g \in {f} \cap DemoFiles}
          /\ train' = [train EXCEPT ![j] =
                          IF ok THEN [train[j] EXCEPT !.todo = @ \ {f}, !.warmed = @ + 1]
                          ELSE [train[j] EXCEPT !.todo = @ \ {f}, !.skipped = @ + 1]]
    BY <1>2 DEF Goes, Outcomes
  <2>3. /\ cache' = cache \/ cache' = Holding(LocalName(f), f)
        /\ ok => LocalName(f) \in DOMAIN cache'
    BY <2>1, <2>2
  <2> QED  BY <2>2, <2>3
<1>6. DOMAIN cache \subseteq DOMAIN cache'
  BY <1>5 DEF Holding
<1>7. PICK W \in SUBSET Files : Staged(j, W)
  BY <1>1, <1>3 DEF JobKept
<1>8. /\ W \subseteq train[j].hot \ train[j].todo /\ InDirectory(W)
      /\ train[j].warmed <= Cardinality(W)
      /\ train[j].skipped = 0 => W = train[j].hot \ train[j].todo
  BY <1>7 DEF Staged
<1>9. IsFiniteSet(W) /\ Cardinality(W) \in Nat
  BY <1>1, <1>8, FS_Subset, FS_CardinalityType DEF JobKept
<1>10. /\ train[j].warmed \in Nat /\ train[j].skipped \in Nat
       /\ train[j].source = "none" /\ train[j].data = {} /\ train[j].count = 0
       /\ train[j].todo \subseteq train[j].hot /\ IsFiniteSet(train[j].hot)
  BY <1>1, <1>3 DEF JobRecords, JobKept
<1>11. \A V : InDirectory(V) => InDirectory(V)'
  BY <1>6 DEF InDirectory
<1>12. cache' = cache \/ \E g \in Files : cache' = Holding(LocalName(g), g)
  BY <1>4, <1>5
<1>13. CASE ok
  <2> DEFINE rest == train[j].todo \ {f}
             more == train[j].warmed + 1
             rec == [train[j] EXCEPT !.todo = rest, !.warmed = more]
             V == W \cup {f}
  <2>0. rest \in SUBSET Files /\ more \in Nat
    BY <1>1 DEF JobRecords
  <2> HIDE DEF rest, more
  <2>1. /\ rec \in JobRecords /\ rec.pc = "stage" /\ rec.hot = train[j].hot /\ rec.todo = rest
        /\ rec.warmed = more /\ rec.skipped = train[j].skipped /\ rec.data = train[j].data
        /\ rec.count = train[j].count /\ rec.source = train[j].source
    BY <1>1, <1>3, <2>0 DEF JobRecords
  <2>2. train' = [train EXCEPT ![j] = rec]
    BY <1>5, <1>13 DEF rest, more
  <2>1a. rec.todo = train[j].todo \ {f} /\ rec.warmed = train[j].warmed + 1
    BY <2>1 DEF rest, more
  <2> HIDE DEF rec
  <2>3. train'[j] = rec
    BY <1>1, <2>2
  <2>4. Cardinality(V) = Cardinality(W) + 1
    BY <1>4, <1>8, <1>9, FS_AddElement
  <2>5. InDirectory(V)'
    BY <1>5, <1>8, <1>11, <1>13 DEF InDirectory
  <2>6. Staged(j, V)'
    <3>1. V \subseteq rec.hot \ rec.todo
      BY <1>4, <1>8, <2>1, <2>1a
    <3>2. rec.warmed <= Cardinality(V)
      BY <1>8, <1>9, <1>10, <2>1, <2>1a, <2>4
    <3>3. rec.skipped = 0 => V = rec.hot \ rec.todo
      BY <1>4, <1>8, <2>1, <2>1a
    <3> QED  BY <2>3, <2>5, <3>1, <3>2, <3>3 DEF Staged
  <2>7. V \in SUBSET Files
    BY <1>4
  <2> HIDE DEF V
  <2>8. \E U \in SUBSET Files : Staged(j, U)'
    BY <2>6, <2>7
  <2>9. JobKept(j)'
    BY <1>10, <2>1, <2>1a, <2>3, <2>8 DEF JobKept, Backed, FromCache
  <2> QED  BY <1>1, <1>3, <1>12, <2>1, <2>2, <2>9, JobSteps
<1>14. CASE ~ok
  <2> DEFINE rest == train[j].todo \ {f}
             more == train[j].skipped + 1
             rec == [train[j] EXCEPT !.todo = rest, !.skipped = more]
  <2>0. rest \in SUBSET Files /\ more \in Nat
    BY <1>1 DEF JobRecords
  <2> HIDE DEF rest, more
  <2>1. /\ rec \in JobRecords /\ rec.pc = "stage" /\ rec.hot = train[j].hot /\ rec.todo = rest
        /\ rec.warmed = train[j].warmed /\ rec.skipped = more /\ rec.data = train[j].data
        /\ rec.count = train[j].count /\ rec.source = train[j].source
    BY <1>1, <1>3, <2>0 DEF JobRecords
  <2>2. train' = [train EXCEPT ![j] = rec]
    BY <1>5, <1>14 DEF rest, more
  <2>1a. rec.todo = train[j].todo \ {f} /\ rec.skipped = train[j].skipped + 1
    BY <2>1 DEF rest, more
  <2> HIDE DEF rec
  <2>3. train'[j] = rec
    BY <1>1, <2>2
  <2>4. rec.skipped # 0
    BY <1>10, <2>1, <2>1a
  <2>5. Staged(j, W)'
    BY <1>8, <1>11, <2>1, <2>1a, <2>3, <2>4 DEF Staged
  <2>6. JobKept(j)'
    BY <1>10, <2>1, <2>1a, <2>3, <2>5 DEF JobKept, Backed, FromCache
  <2> QED  BY <1>1, <1>3, <1>12, <2>1, <2>2, <2>6, JobSteps
<1> QED  BY <1>13, <1>14

LEMMA MeasureKeeps ==
    ASSUME TrainInv, NEW j \in Jobs, Measure(j)
    PROVE  TrainInv'
<1>1. /\ train[j] \in JobRecords /\ JobKept(j) /\ disk \in [Ids -> Jobs \cup {None}]
      /\ models \in [Ids -> Jobs \cup {None}] /\ train \in [Jobs -> JobRecords]
  BY JobFacts
<1> DEFINE n == Cardinality(InCache(train[j].hot))
           rec == [train[j] EXCEPT !.pc = "read", !.hits = n]
<1>2. /\ train[j].pc = "stage" /\ train[j].todo = {} /\ UNCHANGED <<objects, trial, cache, disk, models>>
      /\ train' = [train EXCEPT ![j] = rec]
  BY DEF Measure, At, Goes
<1>3. PICK W \in SUBSET Files : Staged(j, W)
  BY <1>1, <1>2 DEF JobKept
<1>4. /\ train[j].source = "none" /\ train[j].data = {} /\ train[j].count = 0
      /\ IsFiniteSet(train[j].hot) /\ train[j].warmed \in Nat /\ W \subseteq train[j].hot
      /\ train[j].warmed <= Cardinality(W)
  BY <1>1, <1>2, <1>3 DEF JobRecords, JobKept, Staged
<1>5. W \subseteq InCache(train[j].hot) /\ InCache(train[j].hot) \subseteq train[j].hot
  BY <1>3, <1>4 DEF Staged, InDirectory, InCache
<1>6. /\ n \in Nat /\ Cardinality(W) \in Nat /\ Cardinality(W) <= n
  BY <1>4, <1>5, FS_Subset, FS_CardinalityType
<1>7. n \in Nat /\ train[j].warmed <= n
  BY <1>4, <1>6
<1> HIDE DEF n
<1>8. /\ rec \in JobRecords /\ rec.pc = "read" /\ rec.hot = train[j].hot /\ rec.todo = {}
      /\ rec.warmed = train[j].warmed /\ rec.skipped = train[j].skipped /\ rec.data = train[j].data
      /\ rec.count = train[j].count /\ rec.source = train[j].source /\ rec.hits = n
      /\ rec.todo = train[j].todo
  BY <1>1, <1>2, <1>7 DEF JobRecords
<1>9. train' = [train EXCEPT ![j] = rec]
  BY <1>2
<1> HIDE DEF rec
<1>10. train'[j] = rec
  BY <1>1, <1>9
<1>11. Staged(j, W)'
  BY <1>2, <1>3, <1>8, <1>10 DEF Staged, InDirectory
<1>12. JobKept(j)'
  BY <1>4, <1>7, <1>8, <1>10, <1>11 DEF JobKept, Backed, FromCache
<1> QED  BY <1>1, <1>2, <1>8, <1>9, <1>12, JobSteps

LEMMA ReadKeeps ==
    ASSUME TrainInv, NEW j \in Jobs, Read(j)
    PROVE  TrainInv'
<1>1. /\ train[j] \in JobRecords /\ JobKept(j) /\ disk \in [Ids -> Jobs \cup {None}]
      /\ models \in [Ids -> Jobs \cup {None}] /\ train \in [Jobs -> JobRecords] /\ trial \in TrainSettings
  BY JobFacts
<1>2. train[j].pc = "read" /\ UNCHANGED <<objects, trial, cache, disk, models>>
  BY DEF Read, At
<1>3. /\ train[j].source = "none" /\ train[j].data = {} /\ train[j].count = 0 /\ train[j].todo = {}
      /\ IsFiniteSet(train[j].hot) /\ train[j].hot \in SUBSET Files
  BY <1>1, <1>2 DEF JobRecords, JobKept
<1>4. trial.tableRows \in Nat
  BY <1>1, TrainingAssumption DEF TrainCircumstances
<1>5. ASSUME NEW rec \in JobRecords, train' = [train EXCEPT ![j] = rec], rec.hot = train[j].hot,
             rec.todo = train[j].todo, rec.source # "cache", rec.pc \in {"read_done", "train", "raised"}
      PROVE  TrainInv'
  <2>1. train'[j] = rec
    BY <1>1, <1>5
  <2>2. JobKept(j)'
    BY <1>3, <1>5, <2>1 DEF JobKept, Backed, FromCache
  <2> QED  BY <1>1, <1>2, <1>5, <2>2, JobSteps
<1>6. CASE Goes(j, [train[j] EXCEPT !.pc = "read_done", !.source = "table", !.mode = "live-iceberg",
                                    !.count = trial.tableRows])
  <2> DEFINE rec == [train[j] EXCEPT !.pc = "read_done", !.source = "table", !.mode = "live-iceberg",
                                    !.count = trial.tableRows]
  <2>1. /\ rec \in JobRecords /\ rec.hot = train[j].hot /\ rec.todo = train[j].todo /\ rec.source # "cache"
        /\ rec.pc = "read_done"
    BY <1>1, <1>4 DEF JobRecords
  <2>2. train' = [train EXCEPT ![j] = rec]
    BY <1>6 DEF Goes
  <2> HIDE DEF rec
  <2> QED  BY <1>5, <2>1, <2>2
<1>7. CASE Goes(j, [train[j] EXCEPT !.pc = "raised"])
  <2> DEFINE rec == [train[j] EXCEPT !.pc = "raised"]
  <2>1. /\ rec \in JobRecords /\ rec.hot = train[j].hot /\ rec.todo = train[j].todo /\ rec.source = train[j].source
        /\ rec.pc = "raised"
    BY <1>1 DEF JobRecords
  <2>2. train' = [train EXCEPT ![j] = rec]
    BY <1>7 DEF Goes
  <2> HIDE DEF rec
  <2> QED  BY <1>3, <1>5, <2>1, <2>2
<1>8. CASE Goes(j, [train[j] EXCEPT !.pc = "gather", !.source = "cache", !.todo = train[j].hot])
  <2> DEFINE rec == [train[j] EXCEPT !.pc = "gather", !.source = "cache", !.todo = train[j].hot]
  <2>1. /\ rec \in JobRecords /\ rec.hot = train[j].hot /\ rec.todo = train[j].hot /\ rec.source = "cache"
        /\ rec.pc = "gather" /\ rec.data = train[j].data /\ rec.count = train[j].count
        /\ rec.warmed = train[j].warmed /\ rec.skipped = train[j].skipped /\ rec.hits = train[j].hits
    BY <1>1, <1>3 DEF JobRecords
  <2>2. train' = [train EXCEPT ![j] = rec]
    BY <1>8 DEF Goes
  <2> HIDE DEF rec
  <2>3. train'[j] = rec
    BY <1>1, <2>2
  <2>4. PICK W \in SUBSET Files : Staged(j, W)
    BY <1>1, <1>2 DEF JobKept
  <2>5. Fed(j, W)'
    BY <1>2, <1>3, <2>1, <2>3, <2>4 DEF Staged, Fed, InDirectory, NamedIn
  <2>6. Total(Records, {}) = 0
    BY FS_EmptySet DEF Total, Units
  <2>7. Backed(j)'
    BY <1>1, <1>2, <1>3, <2>1, <2>3, <2>5, <2>6, FS_EmptySet DEF Backed, JobKept, NamedIn
  <2>8. JobKept(j)'
    BY <1>3, <2>1, <2>3, <2>7 DEF JobKept
  <2> QED  BY <1>1, <1>2, <2>1, <2>2, <2>8, JobSteps
<1>9. CASE Goes(j, Synthetic(train[j]))
  <2> DEFINE rec == [train[j] EXCEPT !.pc = "train", !.source = "synthetic", !.data = {}, !.count = 2]
  <2>1. /\ rec \in JobRecords /\ rec.hot = train[j].hot /\ rec.todo = train[j].todo /\ rec.source = "synthetic"
        /\ rec.pc = "train"
    BY <1>1 DEF JobRecords
  <2>2. train' = [train EXCEPT ![j] = rec]
    BY <1>9 DEF Goes, Synthetic
  <2> HIDE DEF rec
  <2> QED  BY <1>5, <2>1, <2>2
<1> QED  BY <1>6, <1>7, <1>8, <1>9 DEF Read, ReadTable
LEMMA GatherKeeps ==
    ASSUME TrainInv, NEW j \in Jobs, Gather(j)
    PROVE  TrainInv'
<1>1. /\ train[j] \in JobRecords /\ JobKept(j) /\ disk \in [Ids -> Jobs \cup {None}]
      /\ models \in [Ids -> Jobs \cup {None}] /\ train \in [Jobs -> JobRecords]
  BY JobFacts
<1>2. train[j].pc = "gather" /\ UNCHANGED <<objects, trial, cache, disk, models>>
  BY DEF Gather, At
<1>3. train[j].source = "cache" /\ IsFiniteSet(train[j].hot) /\ train[j].todo \subseteq train[j].hot
  BY <1>1, <1>2 DEF JobKept
<1>4. /\ IsFiniteSet(train[j].data) /\ NamedIn(train[j].data, train[j].hot \ train[j].todo)
      /\ NamesApart(train[j].hot) => train[j].count = Total(Records, train[j].data)
      /\ train[j].warmed <= train[j].hits
  BY <1>1, <1>2, <1>3 DEF JobKept, Backed, FromCache
<1>5. PICK W \in SUBSET Files : Fed(j, W)
  BY <1>1, <1>2, <1>3 DEF JobKept, Backed, FromCache
<1>6. CASE train[j].todo = {}
  <2> DEFINE rec == [train[j] EXCEPT !.pc = "read_done"]
  <2>1. /\ rec \in JobRecords /\ rec.hot = train[j].hot /\ rec.todo = train[j].todo
        /\ rec.source = train[j].source /\ rec.pc = "read_done" /\ rec.data = train[j].data
        /\ rec.count = train[j].count /\ rec.warmed = train[j].warmed /\ rec.skipped = train[j].skipped
        /\ rec.hits = train[j].hits
    BY <1>1 DEF JobRecords
  <2>2. train' = [train EXCEPT ![j] = rec]
    BY <1>6 DEF Gather, Goes
  <2> HIDE DEF rec
  <2>3. train'[j] = rec
    BY <1>1, <2>2
  <2>4. Fed(j, W)'
    BY <1>2, <1>5, <2>1, <2>3 DEF Fed, InDirectory
  <2>5. Backed(j)'
    BY <1>4, <1>6, <2>1, <2>3, <2>4 DEF Backed, NamesApart, NamedIn
  <2>6. JobKept(j)'
    BY <1>3, <2>1, <2>3, <2>5 DEF JobKept
  <2> QED  BY <1>1, <1>2, <2>1, <2>2, <2>6, JobSteps
<1>7. CASE train[j].todo # {}
  <2>1. PICK f \in Hottest(train[j].todo, 1) :
            LET left == [train[j] EXCEPT !.todo = @ \ {f}]
            IN  Goes(j, IF f \notin InCache({f}) THEN left
                        ELSE IF cache[LocalName(f)] \in NotText THEN [train[j] EXCEPT !.pc = "raised"]
                        ELSE [left EXCEPT !.data = @ \cup {cache[LocalName(f)]},
                                          !.count = @ + Records[cache[LocalName(f)]]])
    BY <1>7 DEF Gather, RecordsUnder
  <2>2. f \in train[j].todo /\ f \in train[j].hot /\ f \in Files
    BY <1>1, <1>3, <2>1 DEF Hottest, JobRecords
  <2> DEFINE rest == train[j].todo \ {f}
             left == [train[j] EXCEPT !.todo = rest]
  <2>3. rest \in SUBSET Files
    BY <1>1 DEF JobRecords
  <2> HIDE DEF rest
  <2>4. /\ left \in JobRecords /\ left.hot = train[j].hot /\ left.todo = rest
        /\ left.source = train[j].source /\ left.pc = "gather" /\ left.data = train[j].data
        /\ left.count = train[j].count /\ left.warmed = train[j].warmed /\ left.skipped = train[j].skipped
        /\ left.hits = train[j].hits
    BY <1>1, <1>2, <2>3 DEF JobRecords
  <2>5. Goes(j, IF f \notin InCache({f}) THEN left
                ELSE IF cache[LocalName(f)] \in NotText THEN [train[j] EXCEPT !.pc = "raised"]
                ELSE [left EXCEPT !.data = @ \cup {cache[LocalName(f)]},
                                  !.count = @ + Records[cache[LocalName(f)]]])
    BY <2>1 DEF rest
  <2> HIDE DEF left
  <2>6. f \notin rest /\ train[j].todo = rest \cup {f} /\ rest \subseteq train[j].hot
    BY <1>3, <2>2 DEF rest
  <2>7. CASE f \notin InCache({f})
    <3>1. train' = [train EXCEPT ![j] = left]
      BY <2>5, <2>7 DEF Goes
    <3>2. train'[j] = left
      BY <1>1, <3>1
    <3>3. f \notin W
      BY <1>5, <2>7 DEF Fed, InDirectory, InCache
    <3>4. Fed(j, W)'
      BY <1>2, <1>5, <2>4, <2>6, <3>2, <3>3 DEF Fed, InDirectory, NamedIn
    <3>5. Backed(j)'
      BY <1>4, <2>4, <2>6, <3>2, <3>4 DEF Backed, NamedIn, NamesApart
    <3>6. JobKept(j)'
      BY <1>3, <2>4, <2>6, <3>2, <3>5 DEF JobKept
    <3> QED  BY <1>1, <1>2, <2>4, <3>1, <3>6, JobSteps
  <2>8. CASE f \in InCache({f}) /\ cache[LocalName(f)] \in NotText
    <3> DEFINE rec == [train[j] EXCEPT !.pc = "raised"]
    <3>1. /\ rec \in JobRecords /\ rec.hot = train[j].hot /\ rec.todo = train[j].todo
          /\ rec.source = train[j].source /\ rec.pc = "raised" /\ rec.data = train[j].data
          /\ rec.count = train[j].count /\ rec.warmed = train[j].warmed /\ rec.skipped = train[j].skipped
          /\ rec.hits = train[j].hits
      BY <1>1 DEF JobRecords
    <3>2. train' = [train EXCEPT ![j] = rec]
      BY <2>5, <2>8 DEF Goes
    <3> HIDE DEF rec
    <3>3. train'[j] = rec
      BY <1>1, <3>2
    <3>4. JobKept(j)'
      BY <1>3, <3>1, <3>3 DEF JobKept, Backed, FromCache
    <3> QED  BY <1>1, <1>2, <3>1, <3>2, <3>4, JobSteps
  <2>9. CASE f \in InCache({f}) /\ cache[LocalName(f)] \notin NotText
    <3> DEFINE g == cache[LocalName(f)]
    <3>1. g \in Files /\ LocalName(g) = LocalName(f)
      BY <2>9 DEF InCache, TrainInv, TrainTypeOK, NamesTrue
    <3> DEFINE data == train[j].data \cup {g}
               count == train[j].count + Records[g]
               rec == [left EXCEPT !.data = data, !.count = count]
    <3>2. train' = [train EXCEPT ![j] = rec]
      BY <2>4, <2>5, <2>9 DEF Goes
    <3> HIDE DEF g
    <3>3. Records[g] \in Nat /\ \A h \in Files : Records[h] \in Nat
      BY <3>1, TrainingAssumption
    <3>4. /\ data \in SUBSET Files /\ count \in Nat /\ train[j].data \in SUBSET Files
          /\ train[j].count \in Nat
      BY <1>1, <3>1, <3>3 DEF JobRecords
    <3>5. NamesApart(train[j].hot) => count = Total(Records, data)
      <4>1. NamesApart(train[j].hot) => g \notin train[j].data
        <5> SUFFICES ASSUME NamesApart(train[j].hot), g \in train[j].data
                     PROVE  FALSE
          OBVIOUS
        <5>1. PICK h \in train[j].hot \ train[j].todo : LocalName(h) = LocalName(g)
          BY <1>4 DEF NamedIn
        <5>2. h = f
          BY <2>2, <3>1, <5>1 DEF NamesApart
        <5> QED  BY <2>2, <5>1, <5>2
      <4>2. IsFiniteSet(Units(Records, train[j].data))
        BY <1>4, <3>3, <3>4, TotalNatural
      <4> QED  BY <1>4, <3>3, <4>1, <4>2, TotalAdds
    <3>6. IsFiniteSet(data)
      BY <1>4, FS_AddElement
    <3>7. /\ g \in data /\ train[j].data \subseteq data
          /\ NamedIn(data, train[j].hot \ rest)
      <4>1. f \in train[j].hot \ rest /\ train[j].hot \ train[j].todo \subseteq train[j].hot \ rest
        BY <2>2, <2>6
      <4> QED  BY <1>4, <3>1, <4>1 DEF NamedIn
    <3> HIDE DEF data, count
    <3>8. /\ rec \in JobRecords /\ rec.hot = train[j].hot /\ rec.todo = rest
          /\ rec.source = train[j].source /\ rec.pc = "gather" /\ rec.data = data
          /\ rec.count = count /\ rec.warmed = train[j].warmed /\ rec.skipped = train[j].skipped
          /\ rec.hits = train[j].hits
      BY <2>4, <3>4 DEF JobRecords
    <3> HIDE DEF rec
    <3>9. train'[j] = rec
      BY <1>1, <3>2
    <3>10. NamedIn(W \ rest, data)
      BY <1>5, <2>6, <3>1, <3>7 DEF Fed, NamedIn
    <3>11. Fed(j, W)'
      <4>1. NamedIn(W \ train'[j].todo, train'[j].data)
        BY <3>8, <3>9, <3>10
      <4> QED  BY <1>2, <1>5, <3>8, <3>9, <4>1 DEF Fed, InDirectory, NamedIn
    <3>12. Backed(j)'
      <4>1. NamedIn(train'[j].data, train'[j].hot \ train'[j].todo)
        BY <3>7, <3>8, <3>9
      <4> QED  BY <1>4, <3>5, <3>6, <3>8, <3>9, <3>11, <4>1 DEF Backed, NamedIn, NamesApart
    <3>13. JobKept(j)'
      BY <1>3, <2>6, <3>8, <3>9, <3>12 DEF JobKept
    <3> QED  BY <1>1, <1>2, <3>2, <3>8, <3>13, JobSteps
  <2> QED  BY <2>7, <2>8, <2>9
<1> QED  BY <1>6, <1>7

\* From the last file on, what a job has read stays as it is.
LEMMA OnlyStageMoves ==
    ASSUME NEW j \in Jobs, JobKept(j), NEW rec, train'[j] = rec, UNCHANGED cache,
           rec.hot = train[j].hot, rec.todo = train[j].todo, rec.data = train[j].data,
           rec.count = train[j].count, rec.warmed = train[j].warmed, rec.skipped = train[j].skipped,
           rec.hits = train[j].hits, rec.source = train[j].source,
           \/ rec.pc \in {"raised", "killed"}
           \/ /\ rec.pc \in {"train", "save", "upload", "done"}
              /\ train[j].pc \in {"read_done", "train", "save", "upload"}
    PROVE  JobKept(j)'
<1>1. \A W : Fed(j, W) => Fed(j, W)'
  BY DEF Fed, InDirectory, NamedIn
<1>2. Backed(j)'
  BY <1>1 DEF JobKept, Backed, FromCache, NamedIn, NamesApart
<1> QED  BY <1>2 DEF JobKept

LEMMA FallBackKeeps ==
    ASSUME TrainInv, NEW j \in Jobs, FallBack(j)
    PROVE  TrainInv'
<1>1. /\ train[j] \in JobRecords /\ JobKept(j) /\ disk \in [Ids -> Jobs \cup {None}]
      /\ models \in [Ids -> Jobs \cup {None}] /\ train \in [Jobs -> JobRecords]
  BY JobFacts
<1>2. train[j].pc = "read_done" /\ UNCHANGED <<objects, trial, cache, disk, models>>
  BY DEF FallBack, At
<1>3. CASE train[j].count > 0
  <2> DEFINE rec == [train[j] EXCEPT !.pc = "train"]
  <2>1. /\ rec \in JobRecords /\ rec.hot = train[j].hot /\ rec.todo = train[j].todo
        /\ rec.source = train[j].source /\ rec.pc = "train" /\ rec.data = train[j].data
        /\ rec.count = train[j].count /\ rec.warmed = train[j].warmed /\ rec.skipped = train[j].skipped
        /\ rec.hits = train[j].hits
    BY <1>1 DEF JobRecords
  <2>2. train' = [train EXCEPT ![j] = rec]
    BY <1>3 DEF FallBack, Goes
  <2> HIDE DEF rec
  <2>3. train'[j] = rec
    BY <1>1, <2>2
  <2>4. JobKept(j)'
    BY <1>1, <1>2, <2>1, <2>3, OnlyStageMoves
  <2> QED  BY <1>1, <1>2, <2>1, <2>2, <2>4, JobSteps
<1>4. CASE ~(train[j].count > 0)
  <2> DEFINE rec == [train[j] EXCEPT !.pc = "train", !.source = "synthetic", !.data = {}, !.count = 2]
  <2>1. /\ rec \in JobRecords /\ rec.hot = train[j].hot /\ rec.todo = train[j].todo
        /\ rec.source = "synthetic" /\ rec.pc = "train"
    BY <1>1 DEF JobRecords
  <2>2. train' = [train EXCEPT ![j] = rec]
    BY <1>4 DEF FallBack, Synthetic, Goes
  <2> HIDE DEF rec
  <2>3. train'[j] = rec
    BY <1>1, <2>2
  <2>4. JobKept(j)'
    BY <1>1, <2>1, <2>3 DEF JobKept, Backed
  <2> QED  BY <1>1, <1>2, <2>1, <2>2, <2>4, JobSteps
<1> QED  BY <1>3, <1>4

LEMMA EndKeeps ==
    ASSUME TrainInv, NEW j \in Jobs, Train(j) \/ Save(j) \/ Upload(j) \/ Kill(j)
    PROVE  TrainInv'
<1>1. /\ train[j] \in JobRecords /\ JobKept(j) /\ disk \in [Ids -> Jobs \cup {None}]
      /\ models \in [Ids -> Jobs \cup {None}] /\ train \in [Jobs -> JobRecords] /\ trial \in TrainSettings
  BY JobFacts
<1>2. UNCHANGED <<objects, trial, cache>>
  BY DEF Train, Save, Upload, Kill
<1>3. disk' \in [Ids -> Jobs \cup {None}] /\ models' \in [Ids -> Jobs \cup {None}]
  <2>1. trial.id[j] \in Ids
    BY <1>1, TrainingAssumption DEF TrainCircumstances
  <2>2. disk' = disk \/ disk' = [disk EXCEPT ![trial.id[j]] = j]
    BY DEF Train, Save, Upload, Kill
  <2>3. models' = models \/ models' = [models EXCEPT ![trial.id[j]] = disk[trial.id[j]]]
    BY DEF Train, Save, Upload, Kill
  <2>4. disk[trial.id[j]] \in Jobs \cup {None}
    BY <1>1, <2>1
  <2> QED  BY <1>1, <2>1, <2>2, <2>3, <2>4
<1>4. PICK pc \in {"raised", "killed", "save", "upload", "done"}, key \in BOOLEAN :
         /\ train' = [train EXCEPT ![j] = [train[j] EXCEPT !.pc = pc, !.key = key]]
         /\ pc \in {"raised", "killed"} \/ train[j].pc \in {"train", "save", "upload"}
  <2> DEFINE Moves(pc, key) ==
               /\ train' = [train EXCEPT ![j] = [train[j] EXCEPT !.pc = pc, !.key = key]]
               /\ pc \in {"raised", "killed"} \/ train[j].pc \in {"train", "save", "upload"}
  <2>0. /\ train[j].key \in BOOLEAN
        /\ \A pc \in {"raised", "killed", "save", "upload", "done"} :
              [train[j] EXCEPT !.pc = pc] = [train[j] EXCEPT !.pc = pc, !.key = train[j].key]
    BY <1>1 DEF JobRecords
  <2>1. CASE Train(j)
    <3>1. PICK pc \in {"raised", "save"} : train' = [train EXCEPT ![j] = [train[j] EXCEPT !.pc = pc]]
      BY <2>1 DEF Train, Goes
    <3>2. train[j].pc = "train"
      BY <2>1 DEF Train, At
    <3>3. Moves(pc, train[j].key)
      BY <2>0, <3>1, <3>2
    <3> QED  BY <2>0, <3>3
  <2>2. CASE Save(j)
    <3>1. PICK pc \in {"raised", "upload"} : train' = [train EXCEPT ![j] = [train[j] EXCEPT !.pc = pc]]
      BY <2>2 DEF Save, Goes
    <3>2. train[j].pc = "save"
      BY <2>2 DEF Save, At
    <3>3. Moves(pc, train[j].key)
      BY <2>0, <3>1, <3>2
    <3> QED  BY <2>0, <3>3
  <2>3. CASE Upload(j)
    <3>1. PICK key \in BOOLEAN : train' = [train EXCEPT ![j] = [train[j] EXCEPT !.pc = "done", !.key = key]]
      BY <2>3 DEF Upload, Goes, Outcomes
    <3>2. train[j].pc = "upload"
      BY <2>3 DEF Upload, At
    <3>3. Moves("done", key)
      BY <3>1, <3>2
    <3> QED  BY <3>3
  <2>4. CASE Kill(j)
    <3>1. train' = [train EXCEPT ![j] = [train[j] EXCEPT !.pc = "killed"]]
      BY <2>4 DEF Kill, Goes
    <3>2. Moves("killed", train[j].key)
      BY <2>0, <3>1
    <3> QED  BY <2>0, <3>2
  <2> QED  BY <2>1, <2>2, <2>3, <2>4
<1> DEFINE rec == [train[j] EXCEPT !.pc = pc, !.key = key]
<1>5. /\ rec \in JobRecords /\ rec.hot = train[j].hot /\ rec.todo = train[j].todo
      /\ rec.source = train[j].source /\ rec.pc = pc /\ rec.data = train[j].data
      /\ rec.count = train[j].count /\ rec.warmed = train[j].warmed /\ rec.skipped = train[j].skipped
      /\ rec.hits = train[j].hits
  BY <1>1 DEF JobRecords
<1>6. train' = [train EXCEPT ![j] = rec]
  BY <1>4
<1> HIDE DEF rec
<1>7. train'[j] = rec
  BY <1>1, <1>6
<1>8. JobKept(j)'
  BY <1>1, <1>2, <1>4, <1>5, <1>7, OnlyStageMoves
<1> QED  BY <1>1, <1>2, <1>3, <1>5, <1>6, <1>8, JobSteps

LEMMA TrainKeeps ==
    ASSUME TrainInv, objects \subseteq LakeFiles, [Next]_vars
    PROVE  TrainInv'
<1>1. CASE UNCHANGED trainVars
  BY <1>1, TrainStutters
<1>2. ASSUME NEW j \in Jobs,
             \/ Discover(j) \/ Connect(j) \/ Stage(j) \/ Measure(j) \/ Read(j) \/ Gather(j) \/ FallBack(j)
             \/ Train(j) \/ Save(j) \/ Upload(j) \/ Kill(j)
      PROVE  TrainInv'
  BY <1>2, DiscoverKeeps, ConnectKeeps, StageKeeps, MeasureKeeps, ReadKeeps, GatherKeeps, FallBackKeeps, EndKeeps
<1> QED  BY <1>1, <1>2 DEF Next, vars, Arrive, TrainNext

LEMMA TrainAlways == Spec => []TrainInv
<1> DEFINE Inv == TrainInv /\ objects \subseteq LakeFiles
<1>1. Init => Inv
  BY TrainStarts, LakeSettingsAssumption DEF Init
<1>2. Inv /\ [Next]_vars => Inv'
  BY TrainKeeps, BucketGrows
<1> QED  BY <1>1, <1>2, PTL DEF Spec

\* Files of different names, each named in B: B has no fewer.
LEMMA NoFewerNames ==
    ASSUME NEW A, NEW B, IsFiniteSet(A), IsFiniteSet(B), NamesApart(A), NamedIn(A, B)
    PROVE  Cardinality(A) <= Cardinality(B)
<1> DEFINE of == [f \in A |-> CHOOSE g \in B : LocalName(g) = LocalName(f)]
<1>1. \A f \in A : of[f] \in B /\ LocalName(of[f]) = LocalName(f)
  BY DEF NamedIn
<1>2. of \in [A -> B]
  BY <1>1
<1> HIDE DEF of
<1>3. \A f, g \in A : f # g => of[f] # of[g]
  BY <1>1 DEF NamesApart
<1>4. ~(Cardinality(B) < Cardinality(A))
  BY <1>2, <1>3, FS_PigeonHole
<1> QED  BY <1>4, FS_CardinalityType

\* For any jobs over one cache directory, any paths and any selection: a job that
\* trains on staged files trains on what lies under names it selected, under all of
\* them when it skipped none; and where no two files it selected share a name, it
\* reports the records of what it has read, which are no fewer files than it warmed.
THEOREM SelectionIsTrained == Spec => []TrainsOnItsSelection
<1>1. TrainInv => TrainsOnItsSelection
  <2> SUFFICES ASSUME TrainInv, NEW j \in Jobs, train[j].source = "cache",
                      train[j].pc \in {"train", "save", "upload", "done"}
               PROVE  /\ Named(train[j].data) \subseteq Named(train[j].hot)
                      /\ train[j].skipped = 0 => Named(train[j].data) = Named(train[j].hot)
                      /\ train[j].warmed <= train[j].hits
                      /\ NamesApart(train[j].hot) =>
                            /\ train[j].count = MapThenSumSet(LAMBDA f : Records[f], train[j].data)
                            /\ train[j].warmed <= Cardinality(train[j].data)
    BY DEF TrainsOnItsSelection
  <2>1. train[j] \in JobRecords /\ JobKept(j)
    BY JobFacts
  <2>2. /\ train[j].data \in SUBSET Files /\ train[j].warmed \in Nat
        /\ IsFiniteSet(train[j].hot)
    BY <2>1 DEF JobRecords, JobKept
  <2>3. /\ \E W \in SUBSET Files : Fed(j, W)
        /\ IsFiniteSet(train[j].data) /\ NamedIn(train[j].data, train[j].hot)
        /\ NamesApart(train[j].hot) => train[j].count = Total(Records, train[j].data)
        /\ train[j].todo = {} /\ train[j].warmed <= train[j].hits
    BY <2>1 DEF JobKept, Backed, FromCache, NamedIn
  <2>4. PICK W \in SUBSET Files : Fed(j, W)
    BY <2>3
  <2>5. /\ W \subseteq train[j].hot /\ train[j].warmed <= Cardinality(W) /\ NamedIn(W, train[j].data)
        /\ train[j].skipped = 0 => W = train[j].hot
    BY <2>3, <2>4 DEF Fed, NamedIn
  <2>6. Named(train[j].data) \subseteq Named(train[j].hot)
    BY <2>3 DEF NamedIn, Named
  <2>7. train[j].skipped = 0 => Named(train[j].hot) \subseteq Named(train[j].data)
    BY <2>5 DEF NamedIn, Named
  <2>8. ASSUME NamesApart(train[j].hot)
        PROVE  /\ train[j].count = MapThenSumSet(LAMBDA f : Records[f], train[j].data)
               /\ train[j].warmed <= Cardinality(train[j].data)
    <3>1. train[j].count = MapThenSumSet(LAMBDA f : Records[f], train[j].data)
      BY <2>2, <2>3, <2>8, RecordsAddUp
    <3>2. IsFiniteSet(W) /\ NamesApart(W)
      BY <2>2, <2>5, <2>8, FS_Subset DEF NamesApart
    <3>3. Cardinality(W) <= Cardinality(train[j].data)
      BY <2>3, <2>5, <3>2, NoFewerNames
    <3>4. Cardinality(W) \in Nat /\ Cardinality(train[j].data) \in Nat
      BY <2>3, <3>2, FS_CardinalityType
    <3> QED  BY <2>2, <2>5, <3>1, <3>3, <3>4
  <2> QED  BY <2>3, <2>6, <2>7, <2>8
<1> QED  BY <1>1, TrainAlways, PTL

\* Every variable of the jobs keeps its type.
THEOREM TrainTypesHold == Spec => []TrainTypeOK
<1>1. TrainInv => TrainTypeOK
  BY DEF TrainInv
<1> QED  BY <1>1, TrainAlways, PTL
=============================================================================
