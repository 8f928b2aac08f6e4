------------------------- MODULE DriftMonitorProofs -------------------------
(***************************************************************************)
(* Theorems about DriftMonitor, for every value of its constants.          *)
(***************************************************************************)
EXTENDS DriftMonitor, TLAPS

(* Arithmetic                                                              *)

LEMMA DivNat ==
    ASSUME NEW a \in Nat, NEW b \in Nat \ {0}
    PROVE  a \div b \in Nat
OBVIOUS

LEMMA TimesNat ==
    ASSUME NEW a \in Nat, NEW b \in Nat
    PROVE  a * b \in Nat
OBVIOUS

\* A moving average of counts is a count.
LEMMA EmaNat ==
    ASSUME NEW old \in Nat, NEW new \in Nat
    PROVE  Ema(old, new) \subseteq Nat
<1> DEFINE sum == old * (AlphaDen - AlphaNum) + new * AlphaNum
<1>1. sum \in Nat
  <2>1. AlphaDen - AlphaNum \in Nat /\ AlphaNum \in Nat
    BY DMAssumption
  <2>2. old * (AlphaDen - AlphaNum) \in Nat /\ new * AlphaNum \in Nat
    BY <2>1, TimesNat
  <2> QED BY <2>2
<1> HIDE DEF sum
<1>2. sum \div AlphaDen \in Nat
  BY <1>1, DivNat, DMAssumption
<1>3. Ema(old, new) \subseteq {sum \div AlphaDen} \cup
        (IF sum \div AlphaDen > 0 THEN {sum \div AlphaDen - 1} ELSE {})
  BY DEF Ema, sum
<1> QED BY <1>2, <1>3

-----------------------------------------------------------------------------
(* Type correctness                                                        *)

Bounds ==
    /\ position <= Len(log)
    /\ committed # NoCommit => committed <= Len(log)
    /\ baseline = None => warmups < WarmupWindows
    /\ pc = "body" => position >= 1
    /\ pc \in {"save", "dump"} => baseline # None
    /\ ~up => pc = "poll" /\ warmups = 0 /\ okCount = 0 /\ recent = <<>>

TypeInv == TypeOK /\ Bounds

LEMMA InitTypes == Init => TypeInv
<1> SUFFICES ASSUME Init PROVE TypeInv
  OBVIOUS
<1> USE DMAssumption DEF Init, NoCommit
<1>1. TypeOK
  <2>1. TopicTypes
    BY DEF TopicTypes
  <2>2. ProcessTypes
    <3>1. up \in BOOLEAN
      OBVIOUS
    <3>2. pc \in {"poll", "body", "save", "dump"} /\ baseline \in Nat \cup {None}
      OBVIOUS
    <3>3. warmups \in 0..WarmupWindows /\ warmupSum \in Nat /\ okCount \in Nat
      OBVIOUS
    <3> QED BY <3>1, <3>2, <3>3 DEF ProcessTypes
  <2>3. StoreTypes
    BY DEF StoreTypes
  <2>4. recent \in Seq(Levels) /\ Len(recent) = 0
    OBVIOUS
  <2> QED BY <2>1, <2>2, <2>3, <2>4 DEF TypeOK
<1>2. Bounds
  BY DEF Bounds
<1> QED BY <1>1, <1>2 DEF TypeInv

LEMMA StartTypes == TypeInv /\ Start => TypeInv'
<1> SUFFICES ASSUME TypeInv, Start PROVE TypeInv'
  OBVIOUS
<1> USE DEF TypeInv, Start, kafka, warmup, NoCommit
<1>8. TypeOK'
  <2>1. TopicTypes'
    BY DMAssumption DEF TypeOK, TopicTypes, ProcessTypes, StoreTypes, Bounds, Loaded
  <2>2. ProcessTypes'
    BY DMAssumption DEF TypeOK, TopicTypes, ProcessTypes, StoreTypes, Bounds, Loaded
  <2>3. StoreTypes'
    <3>1. skipped' \subseteq 1..MaxLog
      <4>1. Len(log) \in Nat /\ Len(log) <= MaxLog /\ skipped \subseteq 1..MaxLog
        BY DEF TypeOK, TopicTypes, StoreTypes
      <4>2. skipped' = 1..Len(log) \/ skipped' = skipped
        OBVIOUS
      <4>3. MaxLog \in Nat
        BY DMAssumption
      <4>4. 1..Len(log) \subseteq 1..MaxLog
        BY <4>1, <4>3
      <4> QED BY <4>1, <4>2, <4>4, Zenon
    <3>2. file' \in Nat \cup {None, Torn} /\ stored' \in BOOLEAN /\ handled' \subseteq 1..MaxLog
      BY DEF TypeOK, StoreTypes
    <3> QED BY <3>1, <3>2 DEF StoreTypes
  <2>4. recent' \in Seq(Levels) /\ Len(recent') <= OkInterval
    BY DMAssumption DEF TypeOK, Loaded
  <2> QED BY <2>1, <2>2, <2>3, <2>4 DEF TypeOK
<1>9. Bounds'
  BY DMAssumption DEF Bounds, TypeOK, TopicTypes, ProcessTypes, StoreTypes
<1> QED BY <1>8, <1>9

LEMMA DiesTypes == TypeInv /\ Dies => TypeInv'
<1> SUFFICES ASSUME TypeInv, Dies PROVE TypeInv'
  OBVIOUS
<1> USE DEF TypeInv, Dies, kafka, NoCommit
<1>1. recent' \in Seq(Levels) /\ Len(recent') = 0
  OBVIOUS
<1>8. TypeOK'
  <2>1. TopicTypes'
    BY <1>1, DMAssumption DEF TypeOK, TopicTypes, ProcessTypes, StoreTypes, Bounds
  <2>2. ProcessTypes'
    <3>1. up' \in BOOLEAN
      OBVIOUS
    <3>2. pc' \in {"poll", "body", "save", "dump"} /\ baseline' \in Nat \cup {None}
      OBVIOUS
    <3>3. warmups' \in 0..WarmupWindows /\ warmupSum' \in Nat /\ okCount' \in Nat
      BY DMAssumption
    <3> QED BY <3>1, <3>2, <3>3 DEF ProcessTypes
  <2>3. StoreTypes'
    BY <1>1, DMAssumption DEF TypeOK, TopicTypes, ProcessTypes, StoreTypes, Bounds
  <2>4. recent' \in Seq(Levels) /\ Len(recent') <= OkInterval
    BY <1>1, DMAssumption DEF TypeOK
  <2> QED BY <2>1, <2>2, <2>3, <2>4 DEF TypeOK
<1>9. Bounds'
  BY <1>1, DMAssumption DEF Bounds, TypeOK, TopicTypes, ProcessTypes, StoreTypes
<1> QED BY <1>8, <1>9

LEMMA FetchTypes == TypeInv /\ Fetch => TypeInv'
<1> SUFFICES ASSUME TypeInv, Fetch PROVE TypeInv'
  OBVIOUS
<1> USE DEF TypeInv, Fetch, kafka, warmup, history, NoCommit
<1>8. TypeOK'
  <2>1. TopicTypes'
    BY DMAssumption DEF TypeOK, TopicTypes, ProcessTypes, StoreTypes, Bounds
  <2>2. ProcessTypes'
    BY DMAssumption DEF TypeOK, TopicTypes, ProcessTypes, StoreTypes, Bounds
  <2>3. StoreTypes'
    BY DMAssumption DEF TypeOK, TopicTypes, ProcessTypes, StoreTypes, Bounds
  <2>4. recent' \in Seq(Levels) /\ Len(recent') <= OkInterval
    BY DMAssumption DEF TypeOK
  <2> QED BY <2>1, <2>2, <2>3, <2>4 DEF TypeOK
<1>9. Bounds'
  BY DMAssumption DEF Bounds, TypeOK, TopicTypes, ProcessTypes, StoreTypes
<1> QED BY <1>8, <1>9

LEMMA AutoCommitTypes == TypeInv /\ AutoCommit => TypeInv'
<1> SUFFICES ASSUME TypeInv, AutoCommit PROVE TypeInv'
  OBVIOUS
<1> USE DEF TypeInv, AutoCommit, warmup, history, NoCommit
<1>8. TypeOK'
  <2>1. TopicTypes'
    BY DMAssumption DEF TypeOK, TopicTypes, ProcessTypes, StoreTypes, Bounds
  <2>2. ProcessTypes'
    BY DMAssumption DEF TypeOK, TopicTypes, ProcessTypes, StoreTypes, Bounds
  <2>3. StoreTypes'
    BY DMAssumption DEF TypeOK, TopicTypes, ProcessTypes, StoreTypes, Bounds
  <2>4. recent' \in Seq(Levels) /\ Len(recent') <= OkInterval
    BY DMAssumption DEF TypeOK
  <2> QED BY <2>1, <2>2, <2>3, <2>4 DEF TypeOK
<1>9. Bounds'
  BY DMAssumption DEF Bounds, TypeOK, TopicTypes, ProcessTypes, StoreTypes
<1> QED BY <1>8, <1>9

LEMMA ProduceTypes ==
    ASSUME NEW m \in Messages, TypeInv, Produce(m)
    PROVE  TypeInv'
<1> USE DEF TypeInv, Produce, warmup, history, NoCommit
<1>1. log' \in Seq(Messages) /\ Len(log') = Len(log) + 1 /\ Len(log) \in Nat
  BY DEF TypeOK, TopicTypes
<1>2. setting \in Circumstances
  BY DMAssumption DEF TypeOK, TopicTypes
<1>3. setting.length \in Nat /\ setting.length <= MaxLog
  BY <1>2, DMAssumption DEF Circumstances
<1>4. Len(log') <= MaxLog
  BY <1>1, <1>3, DMAssumption
<1>8. TypeOK'
  <2>1. TopicTypes'
    BY <1>1, <1>4, DMAssumption DEF TypeOK, TopicTypes, ProcessTypes, StoreTypes, Bounds
  <2>2. ProcessTypes'
    BY <1>1, DMAssumption DEF TypeOK, TopicTypes, ProcessTypes, StoreTypes, Bounds
  <2>3. StoreTypes'
    BY <1>1, DMAssumption DEF TypeOK, TopicTypes, ProcessTypes, StoreTypes, Bounds
  <2>4. recent' \in Seq(Levels) /\ Len(recent') <= OkInterval
    BY <1>1, DMAssumption DEF TypeOK
  <2> QED BY <2>1, <2>2, <2>3, <2>4 DEF TypeOK
<1>9. Bounds'
  BY <1>1, DMAssumption DEF Bounds, TypeOK, TopicTypes, ProcessTypes, StoreTypes
<1> QED BY <1>8, <1>9

LEMMA WarmUpTypes == TypeInv /\ WarmUp => TypeInv'
<1> SUFFICES ASSUME TypeInv, WarmUp PROVE TypeInv'
  OBVIOUS
<1> USE DEF TypeInv, WarmUp, kafka, NoCommit
<1>1. /\ warmups < WarmupWindows /\ warmups' = warmups + 1 /\ warmupSum' \in Nat
      /\ position \in 1..MaxLog /\ up
  BY DMAssumption DEF TypeOK, TopicTypes, ProcessTypes, StoreTypes, Bounds, InBody, Windows
<1>2. warmups' \in 1..WarmupWindows
  BY <1>1, DMAssumption DEF TypeOK, ProcessTypes
<1>3. warmupSum' \div warmups' \in Nat
  BY <1>1, <1>2, DivNat
<1>8. TypeOK'
  <2>1. TopicTypes'
    BY <1>1, <1>2, <1>3, DMAssumption DEF TypeOK, TopicTypes, ProcessTypes, StoreTypes, Bounds
  <2>2. ProcessTypes'
    BY <1>1, <1>2, <1>3, DMAssumption DEF TypeOK, TopicTypes, ProcessTypes, StoreTypes, Bounds
  <2>3. StoreTypes'
    BY <1>1, <1>2, <1>3, DMAssumption DEF TypeOK, TopicTypes, ProcessTypes, StoreTypes, Bounds
  <2>4. recent' \in Seq(Levels) /\ Len(recent') <= OkInterval
    BY <1>1, <1>2, <1>3, DMAssumption DEF TypeOK
  <2> QED BY <2>1, <2>2, <2>3, <2>4 DEF TypeOK
<1>9. Bounds'
  BY <1>1, <1>2, <1>3, DMAssumption DEF Bounds, TypeOK, TopicTypes, ProcessTypes, StoreTypes
<1> QED BY <1>8, <1>9

LEMMA FoundTypes ==
    ASSUME TypeInv, NEW level \in Levels, Found(level)
    PROVE  /\ recent' \in Seq(Levels) /\ Len(recent') <= OkInterval
           /\ handled' \subseteq 1..MaxLog /\ Message \in Nat /\ baseline \in Nat
<1> DEFINE all == Append(recent, level)
<1>1. all \in Seq(Levels) /\ Len(all) = Len(recent) + 1 /\ Len(recent) \in Nat
  BY DEF TypeInv, TypeOK, TopicTypes, ProcessTypes, StoreTypes
<1>2. Len(all) > OkInterval => Tail(all) \in Seq(Levels) /\ Len(Tail(all)) = Len(recent)
  BY <1>1, DMAssumption
<1> HIDE DEF all
<1>3. recent' = IF Len(all) > OkInterval THEN Tail(all) ELSE all
  BY DEF Found, all
<1>4. recent' \in Seq(Levels) /\ Len(recent') <= OkInterval
  BY <1>1, <1>2, <1>3, DMAssumption DEF TypeInv, TypeOK, TopicTypes, ProcessTypes, StoreTypes
<1>5. handled' \subseteq 1..MaxLog
  BY DMAssumption DEF Found, TypeInv, TypeOK, TopicTypes, ProcessTypes, StoreTypes, Bounds, InBody
<1> QED BY <1>4, <1>5 DEF Found, Windows, TypeInv, TypeOK, TopicTypes, ProcessTypes, StoreTypes

LEMMA FoundOkTypes == TypeInv /\ FoundOk => TypeInv'
<1> SUFFICES ASSUME TypeInv, FoundOk PROVE TypeInv'
  OBVIOUS
<1>1. Found("OK") /\ "OK" \in Levels
  BY DEF FoundOk, Levels
<1>2. /\ recent' \in Seq(Levels) /\ Len(recent') <= OkInterval
      /\ handled' \subseteq 1..MaxLog /\ Message \in Nat /\ baseline \in Nat
  BY <1>1, FoundTypes
<1>3. baseline' \in Nat /\ pc' \in {"save", "poll"} /\ okCount' = okCount + 1
  <2>1. Ema(baseline, Message) \subseteq Nat
    BY <1>2, EmaNat
  <2> QED BY <1>2, <2>1 DEF FoundOk
<1>4. UNCHANGED <<setting, log, committed, up, position, warmups, warmupSum, file, skipped, stored>>
  BY <1>1 DEF Found, kafka, warmup
<1>5. up
  BY <1>1 DEF Found, InBody
<1> USE DEF TypeInv, NoCommit
<1>8. TypeOK'
  <2>1. TopicTypes'
    BY <1>2, <1>3, <1>4, DMAssumption DEF TypeOK, TopicTypes, ProcessTypes, StoreTypes, Bounds
  <2>2. ProcessTypes'
    BY <1>2, <1>3, <1>4, DMAssumption DEF TypeOK, TopicTypes, ProcessTypes, StoreTypes, Bounds
  <2>3. StoreTypes'
    BY <1>2, <1>3, <1>4, DMAssumption DEF TypeOK, TopicTypes, ProcessTypes, StoreTypes, Bounds
  <2>4. recent' \in Seq(Levels) /\ Len(recent') <= OkInterval
    BY <1>2, <1>3, <1>4, DMAssumption DEF TypeOK
  <2> QED BY <2>1, <2>2, <2>3, <2>4 DEF TypeOK
<1>9. Bounds'
  BY <1>2, <1>3, <1>4, <1>5, DMAssumption DEF Bounds, TypeOK, TopicTypes, ProcessTypes, StoreTypes
<1> QED BY <1>8, <1>9

LEMMA FoundDriftTypes == TypeInv /\ FoundDrift => TypeInv'
<1> SUFFICES ASSUME TypeInv, FoundDrift PROVE TypeInv'
  OBVIOUS
<1> PICK level \in {"WARNING", "ALERT"} : Found(level)
  BY DEF FoundDrift
<1>1. level \in Levels
  BY DEF Levels
<1>2. /\ recent' \in Seq(Levels) /\ Len(recent') <= OkInterval
      /\ handled' \subseteq 1..MaxLog /\ baseline \in Nat
  BY <1>1, FoundTypes
<1>3. /\ UNCHANGED <<setting, log, committed, up, position, warmups, warmupSum, file, skipped, stored, baseline>>
      /\ okCount' = 0 /\ pc' = "poll" /\ up
  BY DEF Found, kafka, warmup, FoundDrift, InBody
<1> USE DEF TypeInv, NoCommit
<1>8. TypeOK'
  <2>1. TopicTypes'
    BY <1>2, <1>3, DMAssumption DEF TypeOK, TopicTypes, ProcessTypes, StoreTypes, Bounds
  <2>2. ProcessTypes'
    BY <1>2, <1>3, DMAssumption DEF TypeOK, TopicTypes, ProcessTypes, StoreTypes, Bounds
  <2>3. StoreTypes'
    BY <1>2, <1>3, DMAssumption DEF TypeOK, TopicTypes, ProcessTypes, StoreTypes, Bounds
  <2>4. recent' \in Seq(Levels) /\ Len(recent') <= OkInterval
    BY <1>2, <1>3, DMAssumption DEF TypeOK
  <2> QED BY <2>1, <2>2, <2>3, <2>4 DEF TypeOK
<1>9. Bounds'
  BY <1>2, <1>3, DMAssumption DEF Bounds, TypeOK, TopicTypes, ProcessTypes, StoreTypes
<1> QED BY <1>8, <1>9

LEMMA SkipTypes == TypeInv /\ SkipMalformed => TypeInv'
<1> SUFFICES ASSUME TypeInv, SkipMalformed PROVE TypeInv'
  OBVIOUS
<1> USE DEF TypeInv, SkipMalformed, kafka, warmup, history, InBody, NoCommit
<1>8. TypeOK'
  <2>1. TopicTypes'
    BY DMAssumption DEF TypeOK, TopicTypes, ProcessTypes, StoreTypes, Bounds
  <2>2. ProcessTypes'
    BY DMAssumption DEF TypeOK, TopicTypes, ProcessTypes, StoreTypes, Bounds
  <2>3. StoreTypes'
    BY DMAssumption DEF TypeOK, TopicTypes, ProcessTypes, StoreTypes, Bounds
  <2>4. recent' \in Seq(Levels) /\ Len(recent') <= OkInterval
    BY DMAssumption DEF TypeOK
  <2> QED BY <2>1, <2>2, <2>3, <2>4 DEF TypeOK
<1>9. Bounds'
  BY DMAssumption DEF Bounds, TypeOK, TopicTypes, ProcessTypes, StoreTypes
<1> QED BY <1>8, <1>9

LEMMA SaveOpenTypes == TypeInv /\ SaveOpen => TypeInv'
<1> SUFFICES ASSUME TypeInv, SaveOpen PROVE TypeInv'
  OBVIOUS
<1> USE DEF TypeInv, SaveOpen, kafka, warmup, history, Saving, NoCommit
<1>8. TypeOK'
  <2>1. TopicTypes'
    BY DMAssumption DEF TypeOK, TopicTypes, ProcessTypes, StoreTypes, Bounds
  <2>2. ProcessTypes'
    BY DMAssumption DEF TypeOK, TopicTypes, ProcessTypes, StoreTypes, Bounds
  <2>3. StoreTypes'
    BY DMAssumption DEF TypeOK, TopicTypes, ProcessTypes, StoreTypes, Bounds
  <2>4. recent' \in Seq(Levels) /\ Len(recent') <= OkInterval
    BY DMAssumption DEF TypeOK
  <2> QED BY <2>1, <2>2, <2>3, <2>4 DEF TypeOK
<1>9. Bounds'
  BY DMAssumption DEF Bounds, TypeOK, TopicTypes, ProcessTypes, StoreTypes
<1> QED BY <1>8, <1>9

LEMMA SaveFailsTypes == TypeInv /\ SaveFails => TypeInv'
<1> SUFFICES ASSUME TypeInv, SaveFails PROVE TypeInv'
  OBVIOUS
<1> USE DEF TypeInv, SaveFails, kafka, warmup, history, Saving, NoCommit
<1>8. TypeOK'
  <2>1. TopicTypes'
    BY DMAssumption DEF TypeOK, TopicTypes, ProcessTypes, StoreTypes, Bounds
  <2>2. ProcessTypes'
    BY DMAssumption DEF TypeOK, TopicTypes, ProcessTypes, StoreTypes, Bounds
  <2>3. StoreTypes'
    BY DMAssumption DEF TypeOK, TopicTypes, ProcessTypes, StoreTypes, Bounds
  <2>4. recent' \in Seq(Levels) /\ Len(recent') <= OkInterval
    BY DMAssumption DEF TypeOK
  <2> QED BY <2>1, <2>2, <2>3, <2>4 DEF TypeOK
<1>9. Bounds'
  BY DMAssumption DEF Bounds, TypeOK, TopicTypes, ProcessTypes, StoreTypes
<1> QED BY <1>8, <1>9

LEMMA StoredTypes == TypeInv /\ (SaveDump \/ SavePut) => TypeInv'
<1> SUFFICES ASSUME TypeInv, (SaveDump \/ SavePut) PROVE TypeInv'
  OBVIOUS
<1> USE DEF TypeInv, SaveDump, SavePut, Stored, kafka, warmup, Saving, NoCommit
<1>8. TypeOK'
  <2>1. TopicTypes'
    BY DMAssumption DEF TypeOK, TopicTypes, ProcessTypes, StoreTypes, Bounds
  <2>2. ProcessTypes'
    BY DMAssumption DEF TypeOK, TopicTypes, ProcessTypes, StoreTypes, Bounds
  <2>3. StoreTypes'
    BY DMAssumption DEF TypeOK, TopicTypes, ProcessTypes, StoreTypes, Bounds
  <2>4. recent' \in Seq(Levels) /\ Len(recent') <= OkInterval
    BY DMAssumption DEF TypeOK
  <2> QED BY <2>1, <2>2, <2>3, <2>4 DEF TypeOK
<1>9. Bounds'
  BY DMAssumption DEF Bounds, TypeOK, TopicTypes, ProcessTypes, StoreTypes
<1> QED BY <1>8, <1>9

LEMMA TypeInvariant == Spec => []TypeInv
<1>1. TypeInv /\ [Next]_vars => TypeInv'
  <2> SUFFICES ASSUME TypeInv, [Next]_vars PROVE TypeInv'
    OBVIOUS
  <2>1. CASE Next
    BY <2>1, StartTypes, DiesTypes, FetchTypes, AutoCommitTypes, ProduceTypes, WarmUpTypes, FoundOkTypes,
       FoundDriftTypes, SkipTypes, SaveOpenTypes, SaveFailsTypes, StoredTypes
       DEF Next, Body, Save, Crash, DieOnUnreadable
  <2>2. CASE UNCHANGED vars
    <3> USE <2>2 DEF vars, kafka, warmup, history
    <3>1. TopicTypes' /\ ProcessTypes' /\ StoreTypes'
      BY DEF TypeInv, TypeOK, TopicTypes, ProcessTypes, StoreTypes, NoCommit
    <3> QED BY <3>1 DEF TypeInv, TypeOK, Bounds, NoCommit
  <2> QED BY <2>1, <2>2
<1> QED BY InitTypes, <1>1, PTL DEF Spec

\* Every variable keeps its type, and a process without a baseline has not
\* collected its warm-up windows yet: ingest_warmup and update.
THEOREM MonitorTypeCorrect == Spec => []TypeOK
<1>1. TypeInv => TypeOK
  BY DEF TypeInv
<1> QED BY TypeInvariant, <1>1, PTL

-----------------------------------------------------------------------------
(* No window is committed past unseen                                      *)

Seen(n) == log[n] \in Windows => n \in handled \cup skipped

\* CommittedIsHandled is not inductive alone: a commit takes the position, so
\* everything a running process was handed must be known to be seen, but for
\* the message in its hands.
SeenInv ==
    /\ committed # NoCommit => \A n \in 1..committed : Seen(n)
    /\ up => \A n \in 1..position : Seen(n) \/ (n = position /\ pc = "body")

LEMMA ConsumerSees ==
    ASSUME TypeInv, SeenInv, Start \/ Fetch \/ AutoCommit \/ Dies
    PROVE  SeenInv'
<1> USE DEF SeenInv, Seen, kafka, warmup, history, NoCommit
<1>1. CASE Start
  <2>1. CASE committed = NoCommit
    BY <1>1, <2>1 DEF Start
  <2>2. CASE committed # NoCommit
    BY <1>1, <2>2 DEF Start
  <2> QED BY <2>1, <2>2
<1>2. CASE Fetch
  <2>1. position \in Nat
    BY DMAssumption DEF TypeInv, TypeOK, TopicTypes
  <2> QED BY <1>2, <2>1 DEF Fetch
<1>3. CASE AutoCommit
  BY <1>3 DEF AutoCommit
<1>4. CASE Dies
  BY <1>4 DEF Dies
<1> QED BY <1>1, <1>2, <1>3, <1>4

LEMMA BodySees ==
    ASSUME TypeInv, SeenInv, SkipMalformed \/ WarmUp \/ FoundOk \/ FoundDrift \/ Save
    PROVE  SeenInv'
<1>1. /\ UNCHANGED <<log, committed, up, position, skipped>> /\ handled \subseteq handled'
      /\ up /\ pc' \in {"poll", "save", "dump"}
  BY DEF SkipMalformed, WarmUp, FoundOk, FoundDrift, Found, Save, SaveOpen, SaveDump, SavePut, SaveFails,
         Stored, Saving, kafka, warmup, history, InBody
<1>2. pc = "body" => Seen(position)'
  BY <1>1, DMAssumption DEF SkipMalformed, WarmUp, FoundOk, FoundDrift, Found, Save, SaveOpen, SaveDump, SavePut,
         SaveFails, Saving, Seen, InBody, Message, Windows, kafka
<1>3. \A n : Seen(n) => Seen(n)'
  BY <1>1 DEF Seen
<1> QED BY <1>1, <1>2, <1>3 DEF SeenInv, NoCommit

LEMMA ProduceSees ==
    ASSUME NEW m \in Messages, TypeInv, SeenInv, Produce(m)
    PROVE  SeenInv'
<1>1. \A n \in 1..Len(log) : log'[n] = log[n]
  BY DEF Produce, TypeInv, TypeOK, TopicTypes
<1>2. \A n \in 1..Len(log) : Seen(n) => Seen(n)'
  BY <1>1 DEF Seen, Produce, history
<1>3. Len(log) \in Nat /\ position \in Nat /\ position <= Len(log)
  BY DMAssumption DEF TypeInv, TypeOK, TopicTypes, Bounds
<1>4. committed # NoCommit => committed \in Nat /\ committed <= Len(log)
  BY DMAssumption DEF TypeInv, TypeOK, TopicTypes, Bounds, NoCommit
<1>5. UNCHANGED <<committed, up, position, pc>>
  BY DEF Produce
<1> QED BY <1>2, <1>3, <1>4, <1>5 DEF SeenInv, NoCommit

\* Whatever is killed or redelivered, every window the group has committed past
\* was warmed up with, evaluated, or on the topic before the first start: the
\* loop of run and the commits between its iterations.
THEOREM NoWindowIsLost == Spec => []CommittedIsHandled
<1>1. Init => SeenInv
  BY DEF Init, SeenInv
<1>2. TypeInv /\ SeenInv /\ [Next]_vars => SeenInv'
  <2> SUFFICES ASSUME TypeInv, SeenInv, [Next]_vars PROVE SeenInv'
    OBVIOUS
  <2>1. CASE Next
    BY <2>1, ConsumerSees, BodySees, ProduceSees DEF Next, Body, Crash, DieOnUnreadable
  <2>2. CASE UNCHANGED vars
    BY <2>2 DEF vars, kafka, warmup, history, SeenInv, Seen, NoCommit
  <2> QED BY <2>1, <2>2
<1>3. SeenInv => CommittedIsHandled
  BY DEF SeenInv, Seen, CommittedIsHandled
<1> QED BY TypeInvariant, <1>1, <1>2, <1>3, PTL DEF Spec

-----------------------------------------------------------------------------
(* The stored baseline                                                     *)

InUseInv ==
    /\ Faults = {} /\ up /\ pc \in {"poll", "body"} /\ baseline # None => file = baseline
    /\ ~up => pc = "poll"

\* While no storage call fails, a process that is not saving has the baseline
\* that is stored: _load, ingest_warmup and update with their _save.
THEOREM StoredBaselineIsInUse == Spec => []StoredIsInUse
<1>1. Init => InUseInv
  BY DEF Init, InUseInv
<1>2. InUseInv /\ [Next]_vars => InUseInv'
  <2> SUFFICES ASSUME InUseInv, [Next]_vars PROVE InUseInv'
    OBVIOUS
  <2> USE DEF InUseInv, Faults, kafka, warmup, history
  <2>1. CASE Start
    BY <2>1, DMAssumption DEF Start, Loaded
  <2>2. CASE Fetch \/ AutoCommit \/ SkipMalformed
    BY <2>2 DEF Fetch, AutoCommit, SkipMalformed, InBody
  <2>3. CASE Dies
    BY <2>3 DEF Dies
  <2>4. CASE WarmUp
    BY <2>4 DEF WarmUp, InBody
  <2>5. CASE FoundOk \/ FoundDrift
    BY <2>5 DEF FoundOk, FoundDrift, Found, InBody
  <2>6. CASE SaveOpen \/ SaveDump \/ SavePut
    BY <2>6 DEF SaveOpen, SaveDump, SavePut, Stored, Saving
  <2>7. CASE SaveFails
    BY <2>7 DEF SaveFails
  <2>8. ASSUME NEW m, Produce(m) PROVE InUseInv'
    BY <2>8 DEF Produce
  <2>9. CASE UNCHANGED vars
    BY <2>9 DEF vars
  <2> QED BY <2>1, <2>2, <2>3, <2>4, <2>5, <2>6, <2>7, <2>8, <2>9
        DEF Next, Body, Save, Crash, DieOnUnreadable
<1>3. InUseInv => StoredIsInUse
  BY DEF InUseInv, StoredIsInUse
<1> QED BY <1>1, <1>2, <1>3, PTL DEF Spec

\* A stored baseline stays readable, and every process that runs after it was
\* stored has one.
KeptInv ==
    Backend = "minio" /\ "load" \notin Faults =>
        /\ pc # "dump" /\ file # Torn
        /\ stored => file # None /\ (up => baseline # None)

\* On MinIO, with reads that do not fail, no process bootstraps over a stored
\* baseline, whatever PUTs fail and whenever it is killed: _save_minio and
\* _load_minio.
THEOREM MinioBaselineIsKept == Spec => BootstrapWithoutPrior
<1>1. Init => KeptInv
  BY DMAssumption DEF Init, KeptInv
<1>2. TypeInv /\ KeptInv /\ [Next]_vars => KeptInv'
  <2> SUFFICES ASSUME TypeInv, KeptInv, [Next]_vars PROVE KeptInv'
    OBVIOUS
  <2> USE DEF KeptInv, Backend, Faults, kafka, warmup, history
  <2>1. CASE Start
    BY <2>1 DEF Start, Loaded
  <2>2. CASE Fetch \/ AutoCommit \/ SkipMalformed \/ SaveFails
    BY <2>2 DEF Fetch, AutoCommit, SkipMalformed, SaveFails
  <2>3. CASE Dies
    BY <2>3 DEF Dies
  <2>4. CASE WarmUp
    BY <2>4 DEF WarmUp, InBody
  <2>5. CASE FoundOk
    <3>1. Found("OK") /\ baseline' \in Nat \cup {None}
      BY <2>5, FoundOkTypes DEF FoundOk, TypeInv, TypeOK, ProcessTypes
    <3>2. baseline' # None
      <4>1. Message \in Nat /\ baseline \in Nat /\ "OK" \in Levels
        BY <3>1, FoundTypes DEF Levels
      <4>2. Ema(baseline, Message) \subseteq Nat
        BY <4>1, EmaNat
      <4> QED BY <2>5, <4>1, <4>2, DMAssumption DEF FoundOk
    <3> QED BY <2>5, <3>1, <3>2 DEF FoundOk, Found
  <2>6. CASE FoundDrift
    BY <2>6 DEF FoundDrift, Found
  <2>7. CASE SaveOpen
    BY <2>7 DEF SaveOpen
  <2>8. CASE SaveDump \/ SavePut
    BY <2>8, DMAssumption DEF SaveDump, SavePut, Stored, Saving, TypeInv, TypeOK, ProcessTypes, Bounds
  <2>9. ASSUME NEW m, Produce(m) PROVE KeptInv'
    BY <2>9 DEF Produce
  <2>10. CASE UNCHANGED vars
    BY <2>10 DEF vars
  <2> QED BY <2>1, <2>2, <2>3, <2>4, <2>5, <2>6, <2>7, <2>8, <2>9, <2>10
        DEF Next, Body, Save, Crash, DieOnUnreadable
<1>3. KeptInv => (Bootstraps /\ Backend = "minio" /\ "load" \notin Faults => ~stored)
  BY DEF KeptInv, Bootstraps
<1> QED BY TypeInvariant, <1>1, <1>2, <1>3, PTL DEF Spec, BootstrapWithoutPrior

-----------------------------------------------------------------------------
(* Runs of stable windows                                                  *)

\* The count of stable windows is the length of the run that ends the levels
\* found last, as far as these are remembered.
OkRunInv ==
    /\ \A i \in 1..Len(recent) : Len(recent) < i + okCount => recent[i] = "OK"
    /\ okCount <= Len(recent) \/ Len(recent) = OkInterval

LEMMA ModFacts ==
    ASSUME NEW n \in Nat \ {0}, NEW k \in Nat, k > 0, k % n = 0
    PROVE  k >= n
<1> SUFFICES ASSUME k < n PROVE FALSE
  OBVIOUS
<1>1. k % n = k
  OBVIOUS
<1> QED BY <1>1

LEMMA WithinRun ==
    ASSUME NEW n \in Nat \ {0}, NEW i \in 1..n, NEW k \in Nat, k >= n
    PROVE  n < i + k
OBVIOUS

LEMMA FoundOkRuns ==
    ASSUME TypeInv, OkRunInv, FoundOk
    PROVE  OkRunInv'
<1> DEFINE all == Append(recent, "OK")
<1>1. /\ recent \in Seq(Levels) /\ Len(recent) \in Nat /\ Len(recent) <= OkInterval
      /\ okCount \in Nat /\ okCount' = okCount + 1 /\ OkInterval \in Nat \ {0} /\ "OK" \in Levels
  BY DMAssumption DEF TypeInv, TypeOK, ProcessTypes, FoundOk, Levels
<1>2. /\ all \in Seq(Levels) /\ Len(all) = Len(recent) + 1 /\ all[Len(recent) + 1] = "OK"
      /\ \A i \in 1..Len(recent) : all[i] = recent[i]
  BY <1>1
<1>3. recent' = IF Len(all) > OkInterval THEN Tail(all) ELSE all
  BY DEF FoundOk, Found
<1>4. \A i \in 1..Len(all) : Len(all) < i + okCount + 1 => all[i] = "OK"
  <2> SUFFICES ASSUME NEW i \in 1..Len(all), Len(all) < i + okCount + 1 PROVE all[i] = "OK"
    OBVIOUS
  <2>1. CASE i = Len(recent) + 1
    BY <1>2, <2>1
  <2>2. CASE i \in 1..Len(recent)
    BY <1>1, <1>2, <2>2 DEF OkRunInv
  <2> HIDE DEF all
  <2> QED BY <1>1, <1>2, <2>1, <2>2
<1>5. CASE Len(all) > OkInterval
  <2>1. Len(Tail(all)) = Len(all) - 1 /\ \A i \in 1..(Len(all) - 1) : Tail(all)[i] = all[i + 1]
    BY <1>1, <1>2
  <2> HIDE DEF all
  <2>2. Len(recent') = OkInterval /\ \A i \in 1..OkInterval : recent'[i] = all[i + 1]
    BY <1>1, <1>2, <1>3, <1>5, <2>1
  <2>3. ASSUME NEW i \in 1..OkInterval, OkInterval < i + okCount' PROVE recent'[i] = "OK"
    <3>1. i + 1 \in 1..Len(all) /\ Len(all) < i + 1 + okCount + 1
      BY <1>1, <1>2, <1>5, <2>3
    <3> QED BY <1>4, <2>2, <3>1
  <2> QED BY <2>2, <2>3 DEF OkRunInv
<1>6. CASE ~(Len(all) > OkInterval)
  <2> HIDE DEF all
  <2>1. recent' = all
    BY <1>3, <1>6
  <2> QED BY <1>1, <1>2, <1>4, <1>6, <2>1 DEF OkRunInv
<1> QED BY <1>5, <1>6

LEMMA FoundDriftRuns ==
    ASSUME TypeInv, OkRunInv, FoundDrift
    PROVE  OkRunInv'
<1>1. TypeInv' /\ okCount' = 0
  BY FoundDriftTypes DEF FoundDrift
<1>2. Len(recent') \in Nat
  BY <1>1 DEF TypeInv, TypeOK
<1> QED BY <1>1, <1>2 DEF OkRunInv

LEMMA UpdateStep ==
    ASSUME TypeInv, OkRunInv, [Next]_vars,
           up, up', baseline # None, baseline' # baseline
    PROVE  recent' = [i \in 1..OkInterval |-> "OK"]
<1>1. FoundOk /\ okCount' % OkInterval = 0
  <2>1. FoundOk
    BY DEF Next, Body, Save, vars, kafka, warmup, history, Start, Fetch, AutoCommit, Crash, Dies, SkipMalformed,
           DieOnUnreadable, WarmUp, FoundDrift, SaveOpen, SaveDump, SavePut, SaveFails, Stored, Produce
  <2> QED BY <2>1 DEF FoundOk
<1>2. OkRunInv' /\ TypeInv'
  BY <1>1, FoundOkRuns, FoundOkTypes
<1>3. okCount' \in Nat /\ okCount' > 0
  BY <1>1 DEF FoundOk, TypeInv, TypeOK, ProcessTypes
<1>4. okCount' >= OkInterval
  BY <1>1, <1>3, ModFacts, DMAssumption
<1>5. recent' \in Seq(Levels) /\ Len(recent') \in Nat /\ Len(recent') <= OkInterval
  BY <1>2 DEF TypeInv, TypeOK
<1>6. Len(recent') = OkInterval
  BY <1>2, <1>3, <1>4, <1>5, DMAssumption DEF OkRunInv
<1>7. ASSUME NEW i \in 1..OkInterval PROVE recent'[i] = "OK"
  <2>1. OkInterval < i + okCount'
    BY <1>3, <1>4, WithinRun, DMAssumption
  <2> QED BY <1>2, <1>6, <2>1 DEF OkRunInv
<1> QED BY <1>5, <1>6, <1>7

\* The baseline moves only on a window that ends a run of OkInterval stable
\* ones, all found by this process: ok_window_count in run.
THEOREM UpdatesFollowOkRuns == Spec => UpdateAfterOkRun
<1>1. Init => OkRunInv
  BY DMAssumption DEF Init, OkRunInv
<1>2. TypeInv /\ OkRunInv /\ [Next]_vars => OkRunInv'
  <2> SUFFICES ASSUME TypeInv, OkRunInv, [Next]_vars PROVE OkRunInv'
    OBVIOUS
  <2>1. CASE FoundOk
    BY <2>1, FoundOkRuns
  <2>2. CASE FoundDrift
    BY <2>2, FoundDriftRuns
  <2>3. CASE Dies
    BY <2>3, DMAssumption DEF Dies, OkRunInv
  <2>4. ASSUME UNCHANGED <<recent, okCount>> PROVE OkRunInv'
    BY <2>4 DEF OkRunInv
  <2> QED BY <2>1, <2>2, <2>3, <2>4
        DEF Next, Body, Save, Crash, DieOnUnreadable, vars, kafka, warmup, history, Start, Fetch, AutoCommit,
            SkipMalformed, WarmUp, SaveOpen, SaveDump, SavePut, SaveFails, Stored, Produce
<1>3. TypeInv /\ OkRunInv /\ [Next]_vars =>
        (up /\ up' /\ baseline # None /\ baseline' # baseline => recent' = [i \in 1..OkInterval |-> "OK"])
  BY UpdateStep
<1> QED BY TypeInvariant, <1>1, <1>2, <1>3, PTL DEF Spec, UpdateAfterOkRun
=============================================================================
