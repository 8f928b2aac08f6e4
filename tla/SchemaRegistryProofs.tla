------------------------ MODULE SchemaRegistryProofs ------------------------
(***************************************************************************)
(* Proofs about SchemaRegistry, and about the mock and its compatibility   *)
(* check.                                                                  *)
(***************************************************************************)
EXTENDS MockRegistry, SequenceTheorems, TLAPS

(* LRU caches *)

LEMMA RemoveAtType ==
    ASSUME NEW S, NEW c \in Seq(S), NEW i \in DOMAIN c
    PROVE  /\ RemoveAt(c, i) \in Seq(S)
           /\ Len(RemoveAt(c, i)) = Len(c) - 1
           /\ \A j \in DOMAIN RemoveAt(c, i) : \E k \in DOMAIN c : RemoveAt(c, i)[j] = c[k]
<1>1. i \in 1..Len(c) /\ Len(c) \in Nat
  OBVIOUS
<1>2. /\ SubSeq(c, 1, i - 1) \in Seq(S) /\ Len(SubSeq(c, 1, i - 1)) = i - 1
      /\ \A j \in 1..(i - 1) : SubSeq(c, 1, i - 1)[j] = c[j]
  BY <1>1
<1>3. /\ SubSeq(c, i + 1, Len(c)) \in Seq(S) /\ Len(SubSeq(c, i + 1, Len(c))) = Len(c) - i
      /\ \A j \in 1..(Len(c) - i) : SubSeq(c, i + 1, Len(c))[j] = c[i + j]
  BY <1>1
<1>4. RemoveAt(c, i) = SubSeq(c, 1, i - 1) \o SubSeq(c, i + 1, Len(c))
  BY DEF RemoveAt
<1> DEFINE a == SubSeq(c, 1, i - 1)
           b == SubSeq(c, i + 1, Len(c))
<1>5. a \in Seq(S) /\ Len(a) = i - 1 /\ \A j \in 1..(i - 1) : a[j] = c[j]
  BY <1>2
<1>6. b \in Seq(S) /\ Len(b) = Len(c) - i /\ \A j \in 1..(Len(c) - i) : b[j] = c[i + j]
  BY <1>3
<1>7. RemoveAt(c, i) = a \o b
  BY <1>4
<1> HIDE DEF a, b
<1>8. /\ a \o b \in Seq(S) /\ Len(a \o b) = Len(a) + Len(b)
      /\ \A j \in 1..(Len(a) + Len(b)) :
            (a \o b)[j] = IF j <= Len(a) THEN a[j] ELSE b[j - Len(a)]
  BY <1>5, <1>6, ConcatProperties
<1>9. Len(a) + Len(b) = Len(c) - 1
  BY <1>1, <1>5, <1>6
<1>10. ASSUME NEW j \in 1..(Len(c) - 1)
       PROVE  \E k \in DOMAIN c : (a \o b)[j] = c[k]
  <2>1. CASE j <= Len(a)
    <3>1. (a \o b)[j] = c[j] /\ j \in 1..Len(c)
      BY <1>1, <1>5, <1>8, <1>9, <2>1
    <3> QED  BY <3>1
  <2>2. CASE ~(j <= Len(a))
    <3>0. Len(a) = i - 1 /\ i \in 1..Len(c) /\ Len(c) \in Nat /\ j \in 1..(Len(c) - 1)
      BY <1>1, <1>5
    <3>a. j \in 1..(Len(a) + Len(b))
      BY <1>9
    <3>b. (a \o b)[j] = b[j - Len(a)]
      BY <1>8, <2>2, <3>a
    <3>c. j - Len(a) \in 1..(Len(c) - i)
      BY <2>2, <3>0
    <3>1. (a \o b)[j] = b[j - Len(a)] /\ j - Len(a) \in 1..(Len(c) - i)
      BY <3>b, <3>c
    <3>2. (a \o b)[j] = c[i + (j - Len(a))] /\ i + (j - Len(a)) \in 1..Len(c)
      BY <1>1, <1>5, <1>6, <3>1
    <3> QED  BY <3>2
  <2> QED  BY <2>1, <2>2
<1>11. RemoveAt(c, i) \in Seq(S) /\ Len(RemoveAt(c, i)) = Len(c) - 1
  BY <1>7, <1>8, <1>9
<1>12. DOMAIN RemoveAt(c, i) = 1..(Len(c) - 1)
  BY <1>11
<1> QED  BY <1>7, <1>10, <1>11, <1>12

LEMMA CapacityType == TypeOK => Capacity \in Nat \ {0}
<1> SUFFICES ASSUME TypeOK PROVE Capacity \in Nat \ {0}
  OBVIOUS
<1>1. setting.capacity \in Nat
  BY DEF TypeOK, Circumstances
<1> QED  BY <1>1 DEF Capacity

\* Without(cache, key): entries of the cache, one less if the key was there.
LEMMA WithoutType ==
    ASSUME NEW S, NEW c \in Seq(S), NEW k
    PROVE  /\ Without(c, k) \in Seq(S)
           /\ Len(Without(c, k)) <= Len(c)
           /\ Holds(c, k) => Len(Without(c, k)) = Len(c) - 1 /\ Place(c, k) \in DOMAIN c
                             /\ c[Place(c, k)].key = k
           /\ \A j \in DOMAIN Without(c, k) : \E i \in DOMAIN c : Without(c, k)[j] = c[i]
<1>1. CASE Holds(c, k)
  <2>1. Place(c, k) \in DOMAIN c /\ c[Place(c, k)].key = k
    BY <1>1 DEF Holds, Place
  <2>2. Without(c, k) = RemoveAt(c, Place(c, k))
    BY <1>1 DEF Without
  <2>3. Len(c) \in Nat
    OBVIOUS
  <2> QED  BY <1>1, <2>1, <2>2, <2>3, RemoveAtType
<1>2. CASE ~Holds(c, k)
  <2>1. Without(c, k) = c
    BY <1>2 DEF Without
  <2> QED  BY <1>2, <2>1
<1> QED  BY <1>1, <1>2

LEMMA AppendEntries ==
    ASSUME NEW S, NEW c \in Seq(S), NEW e \in S
    PROVE  /\ Append(c, e) \in Seq(S) /\ Len(Append(c, e)) = Len(c) + 1 /\ Len(c) \in Nat
           /\ \A j \in DOMAIN Append(c, e) :
                 Append(c, e)[j] = e \/ \E i \in DOMAIN c : Append(c, e)[j] = c[i]
<1>1. /\ Append(c, e) \in Seq(S) /\ Len(Append(c, e)) = Len(c) + 1 /\ Len(c) \in Nat
      /\ DOMAIN Append(c, e) = 1..(Len(c) + 1) /\ DOMAIN c = 1..Len(c)
      /\ Append(c, e)[Len(c) + 1] = e /\ \A j \in 1..Len(c) : Append(c, e)[j] = c[j]
  OBVIOUS
<1>2. \A j \in 1..(Len(c) + 1) : j = Len(c) + 1 \/ j \in 1..Len(c)
  BY <1>1
<1> QED  BY <1>1, <1>2

LEMMA PutEntries ==
    ASSUME TypeOK, NEW S, NEW c \in Seq(S), NEW e \in S, Len(c) <= Capacity
    PROVE  /\ Put(c, e) \in Seq(S) /\ Len(Put(c, e)) <= Capacity
           /\ Entries(Put(c, e)) \subseteq Entries(c) \cup {e}
<1> DEFINE w == Without(c, e.key)
           longer == Append(w, e)
<1>1. w \in Seq(S) /\ Len(w) <= Len(c) /\ \A j \in DOMAIN w : \E i \in DOMAIN c : w[j] = c[i]
  BY WithoutType
<1>2. /\ longer \in Seq(S) /\ Len(longer) = Len(w) + 1 /\ Len(w) \in Nat
      /\ \A j \in DOMAIN longer : longer[j] = e \/ \E i \in DOMAIN w : longer[j] = w[i]
  BY <1>1, AppendEntries
<1>3. Put(c, e) = IF Len(longer) > Capacity THEN Tail(longer) ELSE longer
  BY DEF Put
<1>4. \A j \in DOMAIN longer : longer[j] = e \/ \E i \in DOMAIN c : longer[j] = c[i]
  BY <1>1, <1>2
<1>5. Len(c) \in Nat /\ Capacity \in Nat
  BY CapacityType
<1> HIDE DEF longer, w
<1>6. longer # <<>>
  BY <1>2
<1>7. /\ Tail(longer) \in Seq(S) /\ Len(Tail(longer)) = Len(longer) - 1
      /\ \A i \in 1..Len(Tail(longer)) : Tail(longer)[i] = longer[i + 1]
  BY <1>2, <1>6, HeadTailProperties
<1>8. \A i \in DOMAIN Tail(longer) : i + 1 \in DOMAIN longer /\ Tail(longer)[i] = longer[i + 1]
  BY <1>2, <1>7
<1>9. Put(c, e) \in Seq(S) /\ Len(Put(c, e)) <= Capacity
  BY <1>1, <1>2, <1>3, <1>5, <1>7
<1>10. \A j \in DOMAIN Put(c, e) : \E i \in DOMAIN longer : Put(c, e)[j] = longer[i]
  BY <1>3, <1>8
<1> QED  BY <1>4, <1>9, <1>10 DEF Entries, ToSet

LEMMA UsedEntries ==
    ASSUME NEW S, NEW c \in Seq(S), NEW k, Holds(c, k)
    PROVE  /\ Used(c, k) \in Seq(S) /\ Len(Used(c, k)) = Len(c)
           /\ Entries(Used(c, k)) \subseteq Entries(c)
           /\ c[Place(c, k)] \in Entries(c) /\ c[Place(c, k)] \in S /\ c[Place(c, k)].key = k
<1> DEFINE w == Without(c, k)
           e == c[Place(c, k)]
<1>1. /\ w \in Seq(S) /\ Len(w) = Len(c) - 1 /\ Place(c, k) \in DOMAIN c /\ e.key = k
      /\ \A j \in DOMAIN w : \E i \in DOMAIN c : w[j] = c[i]
  BY WithoutType
<1>2. e \in S /\ e \in Entries(c) /\ Len(c) \in Nat
  BY <1>1 DEF Entries, ToSet
<1>3. Used(c, k) = Append(w, e)
  BY DEF Used
<1> HIDE DEF w, e
<1>4. /\ Append(w, e) \in Seq(S) /\ Len(Append(w, e)) = Len(w) + 1
      /\ \A j \in DOMAIN Append(w, e) :
            Append(w, e)[j] = e \/ \E i \in DOMAIN w : Append(w, e)[j] = w[i]
  BY <1>1, <1>2, AppendEntries
<1>5. Entries(Append(w, e)) \subseteq Entries(c)
  BY <1>1, <1>2, <1>4 DEF Entries, ToSet
<1>6. Len(Append(w, e)) = Len(c)
  BY <1>1, <1>2, <1>4
<1> QED  BY <1>1, <1>2, <1>3, <1>4, <1>5, <1>6 DEF e

(***************************************************************************)
(* Types                                                                   *)
(***************************************************************************)

\* What a call in progress holds at each of its steps.
Shape(c, mode, msgs) ==
    /\ c.step \notin Returned => c.tries < Attempts
    /\ c.step \in {"get", "post", "delete"} => c.subject \in Subjects /\ c.op # "deserialize"
    /\ c.step = "post" => c.schema \in Schemas
    /\ c.op = "deserialize" => c.message \in msgs
    /\ c.step = "resolve" => c.op = "deserialize"
    /\ c.op = "serialize" /\ c.step = "get" => c.schema \in Schemas \/ mode = "latest"
    /\ c.op = "get_or_register" /\ c.step = "get" => c.schema \in Schemas

CallShape(p) == Shape(call[p], setting.mode[p], messages)

\* A version's id is one that was handed out.
VersionsNamed == \A s \in Subjects : \A v \in DOMAIN versions[s] : versions[s][v].id \in DOMAIN schemas

SerShape(p) == ser[p].id # None => ser[p].schema \in Schemas

TypeInv ==
    /\ TypeOK /\ VersionsNamed
    /\ \A p \in Programs : CallShape(p) /\ SerShape(p)

LEMMA SettingType ==
    ASSUME setting \in Circumstances, NEW p \in Programs
    PROVE  setting.mode[p] \in Modes /\ setting.subject[p] \in Subjects /\ setting.schema[p] \in Schemas
BY DEF Circumstances

LEMMA IdType == MaxIds \in Nat /\ 0 \in Ids /\ None \notin Ids /\ None \notin Schemas /\ Attempts \in Nat \ {0}
                /\ 0 < Attempts /\ 0 \in 0..Attempts
  BY SRAssumption DEF Ids

LEMMA IdleType == Idle \in Calls
  BY SRAssumption DEF Idle, Calls, Returned, Latest

LEMMA DomainIds == TypeOK => \A id \in DOMAIN schemas : id \in Ids /\ schemas[id] \in Schemas
<1> SUFFICES ASSUME TypeOK, NEW id \in DOMAIN schemas PROVE id \in Ids /\ schemas[id] \in Schemas
  OBVIOUS
<1>1. schemas \in Seq(Schemas) /\ Len(schemas) <= MaxIds /\ MaxIds \in Nat
  BY IdType DEF TypeOK
<1>2. id \in 1..Len(schemas) /\ Len(schemas) \in Nat /\ schemas[id] \in Schemas
  BY <1>1
<1> QED  BY <1>1, <1>2 DEF Ids

LEMMA FreshType ==
    ASSUME setting \in Circumstances, NEW p \in Programs
    PROVE  /\ Fresh(p) \in [id : Ids \cup {None}, schema : Schemas \cup {None}]
           /\ Fresh(p).id # None => Fresh(p).schema \in Schemas
  BY SettingType, IdType DEF Fresh

LEMMA TypeInit == Init => TypeInv
<1> SUFFICES ASSUME Init PROVE TypeInv
  OBVIOUS
<1>0. setting \in Circumstances
  BY SRAssumption DEF Init
<1>1. setting.capacity \in Nat
  BY <1>0 DEF Circumstances
<1>2. Capacity \in Nat /\ Len(<<>>) <= Capacity
  BY <1>1 DEF Capacity
<1>3. schemas \in Seq(Schemas) /\ Len(schemas) <= MaxIds
  BY IdType DEF Init
<1>4. versions \in [Subjects -> Seq([id : Ids, state : {"live", "soft", "gone"}])]
  BY DEF Init
<1>5. /\ byId \in [Programs -> Seq(IdEntries)] /\ bySubject \in [Programs -> Seq(SubjectEntries)]
      /\ \A p \in Programs : Len(byId[p]) <= Capacity /\ Len(bySubject[p]) <= Capacity
  BY <1>2 DEF Init
<1>6. /\ writers \in [Programs -> SUBSET IdEntries] /\ messages \subseteq Messages
      /\ call \in [Programs -> Calls]
  BY IdleType DEF Init
<1>7. ser \in [Programs -> [id : Ids \cup {None}, schema : Schemas \cup {None}]]
  BY <1>0, FreshType DEF Init
<1>8. VersionsNamed
  BY DEF Init, VersionsNamed
<1>9. ASSUME NEW p \in Programs PROVE CallShape(p) /\ SerShape(p)
  BY <1>0, FreshType DEF Init, CallShape, Shape, SerShape, Idle, Returned
<1> QED  BY <1>0, <1>3, <1>4, <1>5, <1>6, <1>7, <1>8, <1>9 DEF TypeInv, TypeOK

-----------------------------------------------------------------------------
(* What requests do to the registry *)

Names(id, schema) == id \in DOMAIN schemas /\ schemas[id] = schema

VersionType == [id : Ids, state : {"live", "soft", "gone"}]

RegistryTyped ==
    /\ schemas \in Seq(Schemas) /\ Len(schemas) <= MaxIds
    /\ versions \in [Subjects -> Seq(VersionType)]
    /\ VersionsNamed

\* Ids keep their schema, versions their id, and what is gone stays gone.
Grown ==
    /\ \A i \in DOMAIN schemas : i \in DOMAIN schemas' /\ schemas'[i] = schemas[i]
    /\ \A s \in Subjects : \A v \in DOMAIN versions[s] :
          v \in DOMAIN versions'[s] /\ versions'[s][v].id = versions[s][v].id
    /\ \A id \in DOMAIN schemas : ~Known(id) => ~Known(id)'

LEMMA NothingAsked ==
    ASSUME RegistryTyped, UNCHANGED registry
    PROVE  RegistryTyped' /\ Grown
  BY DEF RegistryTyped, VersionsNamed, Grown, Known, registry

LEMMA PostedGrows ==
    ASSUME RegistryTyped, NEW subject \in Subjects, NEW schema \in Schemas, NEW id \in Ids,
           Posted(subject, schema, id)
    PROVE  RegistryTyped' /\ Grown /\ Names(id, schema)'
<1>1. CASE UNCHANGED registry /\ IsIdOf(id, schema)
  <2>1. RegistryTyped' /\ Grown
    BY <1>1, NothingAsked
  <2> QED  BY <1>1, <2>1 DEF IsIdOf, Names, registry
<1>2. CASE /\ versions' = [versions EXCEPT ![subject] = Append(@, [id |-> id, state |-> "live"])]
           /\ \/ IsIdOf(id, schema) /\ UNCHANGED schemas
              \/ /\ \A i \in DOMAIN schemas : ~IsIdOf(i, schema)
                 /\ id = Len(schemas) + 1 /\ id <= MaxIds
                 /\ schemas' = Append(schemas, schema)
  <2> DEFINE e == [id |-> id, state |-> "live"]
             old == versions[subject]
  <2>1. e \in VersionType /\ e.id = id /\ e.state = "live"
    BY DEF VersionType
  <2>2. old \in Seq(VersionType)
    BY DEF RegistryTyped
  <2>3. /\ Append(old, e) \in Seq(VersionType) /\ DOMAIN Append(old, e) = 1..(Len(old) + 1)
        /\ Len(old) \in Nat /\ DOMAIN old = 1..Len(old)
        /\ Append(old, e)[Len(old) + 1] = e /\ \A v \in 1..Len(old) : Append(old, e)[v] = old[v]
    BY <2>1, <2>2
  <2>4. /\ versions' \in [Subjects -> Seq(VersionType)]
        /\ versions'[subject] = Append(old, e)
        /\ \A s \in Subjects \ {subject} : versions'[s] = versions[s]
    BY <1>2, <2>3 DEF RegistryTyped
  <2>5. /\ schemas' \in Seq(Schemas) /\ Len(schemas') <= MaxIds
        /\ \A i \in DOMAIN schemas : i \in DOMAIN schemas' /\ schemas'[i] = schemas[i]
        /\ id \in DOMAIN schemas' /\ schemas'[id] = schema
    <3>1. CASE IsIdOf(id, schema) /\ UNCHANGED schemas
      BY <3>1 DEF RegistryTyped, IsIdOf
    <3>2. CASE /\ id = Len(schemas) + 1 /\ id <= MaxIds
               /\ schemas' = Append(schemas, schema)
      BY <3>2, IdType DEF RegistryTyped
    <3> QED  BY <1>2, <3>1, <3>2
  <2>6. \A v \in DOMAIN versions'[subject] :
           versions'[subject][v] = e \/ (v \in DOMAIN old /\ versions'[subject][v] = old[v])
    BY <2>3, <2>4
  <2>7. \A v \in DOMAIN old : v \in DOMAIN versions'[subject] /\ versions'[subject][v] = old[v]
    BY <2>3, <2>4
  <2> HIDE DEF e
  <2>8. VersionsNamed'
    <3> SUFFICES ASSUME NEW s \in Subjects, NEW v \in DOMAIN versions'[s]
                 PROVE  versions'[s][v].id \in DOMAIN schemas'
      BY DEF VersionsNamed
    <3>1. CASE s = subject
      BY <2>1, <2>5, <2>6, <3>1 DEF RegistryTyped, VersionsNamed
    <3>2. CASE s # subject
      BY <2>4, <2>5, <3>2 DEF RegistryTyped, VersionsNamed
    <3> QED  BY <3>1, <3>2
  <2>9. \A s \in Subjects : \A v \in DOMAIN versions[s] :
           v \in DOMAIN versions'[s] /\ versions'[s][v].id = versions[s][v].id
    BY <2>4, <2>7
  <2>10. ASSUME NEW j \in DOMAIN schemas, ~Known(j) PROVE ~Known(j)'
    <3>1. j # id
      <4>1. CASE IsIdOf(id, schema)
        BY <2>10, <4>1 DEF IsIdOf
      <4>2. CASE id = Len(schemas) + 1
        BY <4>2 DEF RegistryTyped
      <4> QED  BY <1>2, <4>1, <4>2
    <3> SUFFICES ASSUME NEW s \in Subjects, NEW v \in DOMAIN versions'[s],
                        versions'[s][v].id = j, versions'[s][v].state # "gone"
                 PROVE  FALSE
      BY DEF Known
    <3>2. CASE s = subject
      <4>1. v \in DOMAIN old /\ versions'[subject][v] = old[v]
        BY <2>1, <2>6, <3>1, <3>2
      <4> QED  BY <2>10, <3>2, <4>1 DEF Known
    <3>3. CASE s # subject
      BY <2>4, <2>10, <3>3 DEF Known
    <3> QED  BY <3>2, <3>3
  <2> QED  BY <2>4, <2>5, <2>8, <2>9, <2>10 DEF RegistryTyped, Grown, Names
<1> QED  BY <1>1, <1>2 DEF Posted

LEMMA DeletedGrows ==
    ASSUME RegistryTyped, NEW c, c.subject \in Subjects, Deleted(c)
    PROVE  RegistryTyped' /\ Grown
<1> DEFINE s0 == c.subject
           old == versions[s0]
           state == IF c.op = "purge" THEN "gone" ELSE "soft"
           new == [v \in DOMAIN old |-> IF v \in Targets(s0, c.version)
                                        THEN [old[v] EXCEPT !.state = state] ELSE old[v]]
<1>1. versions' = [versions EXCEPT ![s0] = new] /\ schemas' = schemas
  BY DEF Deleted
<1>2. state \in {"soft", "gone"}
  OBVIOUS
<1>3. old \in Seq(VersionType)
  BY DEF RegistryTyped
<1> HIDE DEF state
<1>4. ASSUME NEW v \in DOMAIN old
      PROVE  /\ new[v] \in VersionType /\ new[v].id = old[v].id
             /\ old[v].state = "gone" => new[v].state = "gone"
  <2>1. old[v] \in VersionType
    BY <1>3
  <2>2. CASE v \in Targets(s0, c.version)
    <3>1. old[v].state # "gone"
      BY <2>2 DEF Targets
    <3>2. new[v] = [old[v] EXCEPT !.state = state]
      BY <2>2
    <3> QED  BY <1>2, <2>1, <3>1, <3>2 DEF VersionType
  <2>3. CASE v \notin Targets(s0, c.version)
    BY <2>1, <2>3
  <2> QED  BY <2>2, <2>3
<1>5. DOMAIN new = DOMAIN old /\ DOMAIN old = 1..Len(old) /\ Len(old) \in Nat
  BY <1>3
<1>a. new \in [1..Len(old) -> VersionType]
  BY <1>4, <1>5
<1> HIDE DEF new
<1>6. new \in Seq(VersionType)
  BY <1>5, <1>a
<1>7. /\ versions' \in [Subjects -> Seq(VersionType)]
      /\ versions'[s0] = new /\ \A s \in Subjects \ {s0} : versions'[s] = versions[s]
  BY <1>1, <1>6 DEF RegistryTyped
<1>8. \A s \in Subjects : DOMAIN versions'[s] = DOMAIN versions[s]
  BY <1>5, <1>7
<1>9. \A s \in Subjects : \A v \in DOMAIN versions[s] :
         /\ versions'[s][v].id = versions[s][v].id
         /\ versions[s][v].state = "gone" => versions'[s][v].state = "gone"
  BY <1>4, <1>7
<1>10. VersionsNamed'
  BY <1>1, <1>8, <1>9 DEF RegistryTyped, VersionsNamed
<1>11. \A id \in DOMAIN schemas : ~Known(id) => ~Known(id)'
  BY <1>8, <1>9 DEF Known
<1> QED  BY <1>1, <1>7, <1>8, <1>9, <1>10, <1>11 DEF RegistryTyped, Grown

-----------------------------------------------------------------------------
(* What steps do to programs and caches *)

CachesTyped ==
    /\ byId \in [Programs -> Seq(IdEntries)] /\ bySubject \in [Programs -> Seq(SubjectEntries)]
    /\ \A p \in Programs : Len(byId[p]) <= Capacity /\ Len(bySubject[p]) <= Capacity
    /\ writers \in [Programs -> SUBSET IdEntries]

Local ==
    /\ ser \in [Programs -> [id : Ids \cup {None}, schema : Schemas \cup {None}]]
    /\ call \in [Programs -> Calls]
    /\ messages \subseteq Messages
    /\ \A p \in Programs : CallShape(p) /\ SerShape(p)

LEMMA TypeParts == TypeInv <=> setting \in Circumstances /\ RegistryTyped /\ CachesTyped /\ Local
  BY DEF TypeInv, TypeOK, RegistryTyped, VersionType, CachesTyped, Local

\* A cached version is or was the one its key names.
WasVersion(e) == \E v \in DOMAIN versions[e.key[1]] :
                    versions[e.key[1]][v].id = e.id /\ e.key[2] \in {Latest, v}

\* What a step adds to the caches is true after it.
NewEntriesTrue ==
    \A p \in Programs :
        /\ \A e \in (Entries(byId[p]) \cup writers[p])' :
              e \in Entries(byId[p]) \cup writers[p] \/ Names(e.key, e.schema)'
        /\ \A e \in Entries(bySubject[p])' :
              e \in Entries(bySubject[p]) \/ (Names(e.id, e.schema)' /\ WasVersion(e)')

\* How a step leaves everything but the registry.
Kept == setting' = setting /\ CachesTyped' /\ NewEntriesTrue /\ Local'

LEMMA CachesUnchanged ==
    ASSUME CachesTyped, UNCHANGED caches, setting' = setting
    PROVE  CachesTyped' /\ NewEntriesTrue
  BY DEF CachesTyped, NewEntriesTrue, caches, Entries, ToSet, Capacity

LEMMA CallTo ==
    ASSUME Local, NEW p \in Programs, NEW c \in Calls, call' = [call EXCEPT ![p] = c],
           Shape(c, setting.mode[p], messages),
           UNCHANGED <<setting, ser, messages>>
    PROVE  Local'
<1>1. call' \in [Programs -> Calls] /\ call'[p] = c /\ \A q \in Programs \ {p} : call'[q] = call[q]
  BY DEF Local
<1>2. ASSUME NEW q \in Programs PROVE CallShape(q)' /\ SerShape(q)'
  <2>1. SerShape(q)'
    BY DEF Local, SerShape
  <2>2. CASE q = p
    BY <1>1, <2>1, <2>2 DEF CallShape
  <2>3. CASE q # p
    BY <1>1, <2>1, <2>3 DEF Local, CallShape
  <2> QED  BY <2>2, <2>3
<1> QED  BY <1>1, <1>2 DEF Local

LEMMA FinishTo ==
    ASSUME Local, setting \in Circumstances, NEW p \in Programs, NEW id \in Ids, NEW schema \in Schemas,
           Finish(p, id, schema), call[p].op # "deserialize", setting' = setting
    PROVE  Local'
<1> DEFINE c == [call[p] EXCEPT !.step = "done", !.id = id, !.got = schema]
<1>1. call[p] \in Calls /\ ser[p] \in [id : Ids \cup {None}, schema : Schemas \cup {None}]
  BY DEF Local
<1>2. c \in Calls
  BY <1>1 DEF Calls, Returned
<1>3. call' = [call EXCEPT ![p] = c]
  BY DEF Finish
<1>4. c.step = "done" /\ c.op = call[p].op
  BY <1>1 DEF Calls
<1>5. \A msgs : Shape(c, setting.mode[p], msgs)
  BY <1>4 DEF Shape, Returned
<1> HIDE DEF c
<1>6. call' \in [Programs -> Calls] /\ call'[p] = c /\ \A q \in Programs \ {p} : call'[q] = call[q]
  BY <1>2, <1>3 DEF Local
<1>7. Framed(p, id, schema) \in Messages
  BY SettingType DEF Framed, Messages
<1>8. messages \subseteq messages' /\ messages' \subseteq Messages
  BY <1>7 DEF Finish, Local
<1>9. ser' = ser \/ ser' = [ser EXCEPT ![p] = [id |-> id, schema |-> schema]]
  BY DEF Finish
<1>10. /\ ser' \in [Programs -> [id : Ids \cup {None}, schema : Schemas \cup {None}]]
       /\ \A q \in Programs : SerShape(q)'
  BY <1>9 DEF Local, SerShape
<1>11. ASSUME NEW q \in Programs PROVE CallShape(q)'
  <2>1. CASE q = p
    BY <1>5, <1>6, <2>1 DEF CallShape
  <2>2. CASE q # p
    BY <1>6, <1>8, <2>2 DEF Local, CallShape, Shape
  <2> QED  BY <2>1, <2>2
<1> QED  BY <1>6, <1>8, <1>10, <1>11 DEF Local

LEMMA ByIdTo ==
    ASSUME CachesTyped, setting' = setting, NEW p \in Programs, NEW cache \in Seq(IdEntries),
           Len(cache) <= Capacity, byId' = [byId EXCEPT ![p] = cache],
           NEW new, Entries(cache) \subseteq Entries(byId[p]) \cup new
    PROVE  /\ byId' \in [Programs -> Seq(IdEntries)]
           /\ \A q \in Programs : Len(byId'[q]) <= Capacity
           /\ \A q \in Programs : \A e \in Entries(byId[q])' :
                 e \in Entries(byId[q]) \/ (q = p /\ e \in new)
<1>1. byId' \in [Programs -> Seq(IdEntries)] /\ byId'[p] = cache
      /\ \A q \in Programs \ {p} : byId'[q] = byId[q]
  BY DEF CachesTyped
<1> QED  BY <1>1 DEF CachesTyped, Entries, ToSet

LEMMA BySubjectTo ==
    ASSUME CachesTyped, setting' = setting, NEW p \in Programs, NEW cache \in Seq(SubjectEntries),
           Len(cache) <= Capacity, bySubject' = [bySubject EXCEPT ![p] = cache],
           NEW new, Entries(cache) \subseteq Entries(bySubject[p]) \cup new
    PROVE  /\ bySubject' \in [Programs -> Seq(SubjectEntries)]
           /\ \A q \in Programs : Len(bySubject'[q]) <= Capacity
           /\ \A q \in Programs : \A e \in Entries(bySubject[q])' :
                 e \in Entries(bySubject[q]) \/ (q = p /\ e \in new)
<1>1. bySubject' \in [Programs -> Seq(SubjectEntries)] /\ bySubject'[p] = cache
      /\ \A q \in Programs \ {p} : bySubject'[q] = bySubject[q]
  BY DEF CachesTyped
<1> QED  BY <1>1 DEF CachesTyped, Entries, ToSet

\* Raising leaves the caches, the registry and the messages alone.
LEMMA ReturnTo ==
    ASSUME TypeInv, NEW p \in Programs, NEW how \in Returned, Return(p, how),
           how = "done" => call[p].op # "deserialize",
           UNCHANGED <<setting, caches, ser, messages>>
    PROVE  Kept
<1> DEFINE c == [Idle EXCEPT !.op = call[p].op, !.message = call[p].message, !.step = how]
<1>1. call[p] \in Calls /\ CallShape(p)
  BY DEF TypeInv, TypeOK
<1>2. c \in Calls /\ c.step = how /\ c.op = call[p].op /\ c.message = call[p].message
  BY <1>1, IdleType DEF Calls, Idle
<1>3. call' = [call EXCEPT ![p] = c]
  BY DEF Return
<1>4. Shape(c, setting.mode[p], messages)
  BY <1>1, <1>2 DEF Shape, CallShape, Returned
<1> HIDE DEF c
<1>5. Local'
  BY <1>2, <1>3, <1>4, CallTo, TypeParts
<1> QED  BY <1>5, CachesUnchanged, TypeParts DEF Kept

-----------------------------------------------------------------------------
(* Each action *)

LEMMA SerializeKeeps ==
    ASSUME TypeInv, NEW p \in Programs, Serialize(p) PROVE Kept
<1>0. setting \in Circumstances /\ Local /\ UNCHANGED <<setting, registry, caches, ser>>
  BY TypeParts DEF Serialize
<1>1. CASE /\ ser[p].id # None /\ UNCHANGED call
           /\ messages' = messages \cup {Framed(p, ser[p].id, ser[p].schema)}
  <2>1. SerShape(p) /\ ser[p] \in [id : Ids \cup {None}, schema : Schemas \cup {None}]
    BY <1>0 DEF Local
  <2>2. Framed(p, ser[p].id, ser[p].schema) \in Messages
    BY <1>0, <1>1, <2>1, SettingType DEF Framed, Messages, SerShape
  <2>3. Local'
    BY <1>0, <1>1, <2>2 DEF Local, CallShape, Shape, SerShape
  <2> QED  BY <1>0, <2>3, CachesUnchanged, TypeParts DEF Kept
<1>2. CASE ser[p].id = None /\ UNCHANGED messages
  <2> DEFINE c == [Idle EXCEPT !.op = "serialize", !.subject = setting.subject[p],
                     !.step = IF setting.mode[p] = "direct" THEN "post" ELSE "get",
                     !.schema = IF setting.mode[p] = "latest" THEN None ELSE setting.schema[p]]
  <2>1. call' = [call EXCEPT ![p] = c]
    BY <1>2 DEF Serialize, Begin
  <2> DEFINE step == IF setting.mode[p] = "direct" THEN "post" ELSE "get"
             schema == IF setting.mode[p] = "latest" THEN None ELSE setting.schema[p]
  <2>a. /\ step \in {"get", "post"}
        /\ step = "post" => setting.mode[p] # "latest"
        /\ schema \in Schemas \cup {None}
        /\ schema \in Schemas \/ setting.mode[p] = "latest"
    BY <1>0, SettingType
  <2>b. c = [Idle EXCEPT !.op = "serialize", !.subject = setting.subject[p],
                         !.step = step, !.schema = schema]
    OBVIOUS
  <2> HIDE DEF c, step, schema
  <2>c. /\ c \in Calls /\ c.op = "serialize" /\ c.subject \in Subjects /\ c.step = step
        /\ c.schema = schema /\ c.tries = 0
    <3>1. Idle \in Calls /\ Idle.tries = 0 /\ setting.subject[p] \in Subjects
      BY <1>0, SettingType, IdleType DEF Idle
    <3>2. step \in {"get", "post"} /\ schema \in Schemas \cup {None}
      BY <2>a
    <3> DEFINE d == [Idle EXCEPT !.op = "serialize", !.subject = setting.subject[p]]
    <3>3. d \in Calls /\ d.op = "serialize" /\ d.subject \in Subjects /\ d.tries = 0
      BY <3>1 DEF Calls
    <3>4. c = [d EXCEPT !.step = step, !.schema = schema]
      BY <2>b
    <3> HIDE DEF d
    <3> QED  BY <3>2, <3>3, <3>4 DEF Calls
  <2>d. c.tries < Attempts
    BY <2>c, IdType
  <2>e. c.step \in {"get", "post"}
    BY <2>a, <2>c
  <2>f. c.step = "post" => c.schema \in Schemas
    BY <2>a, <2>c
  <2>g. c.schema \in Schemas \/ setting.mode[p] = "latest"
    BY <2>a, <2>c
  <2>2. c \in Calls /\ Shape(c, setting.mode[p], messages)
    BY <2>c, <2>d, <2>e, <2>f, <2>g DEF Shape
  <2>3. Local'
    BY <1>0, <1>2, <2>1, <2>2, CallTo
  <2> QED  BY <1>0, <2>3, CachesUnchanged, TypeParts DEF Kept
<1> QED  BY <1>1, <1>2 DEF Serialize

LEMMA DeserializeKeeps ==
    ASSUME TypeInv, NEW p \in Programs, NEW m \in messages, Deserialize(p, m) PROVE Kept
<1>0. /\ setting \in Circumstances /\ Local /\ UNCHANGED <<setting, registry, caches, ser, messages>>
      /\ m \in Messages /\ writers[p] \subseteq IdEntries
  BY TypeParts DEF Deserialize, Local, CachesTyped
<1> DEFINE c == [Idle EXCEPT !.op = "deserialize", !.message = m]
<1>1. \E d : /\ call' = [call EXCEPT ![p] = d]
             /\ \/ d = [c EXCEPT !.step = "resolve"]
                \/ \E e \in writers[p] : d = [c EXCEPT !.got = e.schema]
  BY DEF Deserialize, Begin
<1>2. PICK d : /\ call' = [call EXCEPT ![p] = d]
               /\ \/ d = [c EXCEPT !.step = "resolve"]
                  \/ \E e \in writers[p] : d = [c EXCEPT !.got = e.schema]
  BY <1>1
<1>3. \A e \in writers[p] : e.schema \in Schemas
  BY <1>0 DEF IdEntries
<1>a. c \in Calls /\ c.op = "deserialize" /\ c.message = m /\ c.step = "done" /\ c.tries = 0
  BY <1>0, IdleType DEF Calls, Idle
<1> HIDE DEF c
<1>b. /\ d \in Calls /\ d.op = "deserialize" /\ d.message = m /\ d.tries = 0
      /\ d.step \in {"resolve", "done"}
  BY <1>2, <1>3, <1>a DEF Calls
<1>4. d \in Calls /\ Shape(d, setting.mode[p], messages)
  BY <1>b, IdType DEF Shape, Returned
<1>5. Local'
  BY <1>0, <1>2, <1>4, CallTo
<1> QED  BY <1>0, <1>5, CachesUnchanged, TypeParts DEF Kept

LEMMA AskKeeps ==
    ASSUME TypeInv, NEW p \in Programs, NEW op \in setting.ops, NEW version \in 0..MaxVersions,
           NEW schema \in Schemas, Ask(p, op, version, schema)
    PROVE  Kept
<1>0. setting \in Circumstances /\ Local /\ UNCHANGED <<setting, registry, caches, ser, messages>>
  BY TypeParts DEF Ask
<1>1. op \in {"register", "get_or_register", "get_schema", "delete", "purge"}
  BY <1>0 DEF Circumstances
<1> DEFINE c == [Idle EXCEPT !.op = op, !.subject = setting.subject[p]]
           d == CASE op = "register" -> [c EXCEPT !.step = "post", !.schema = schema]
                  [] op = "get_or_register" -> [c EXCEPT !.step = "get", !.schema = schema]
                  [] op = "get_schema" -> [c EXCEPT !.step = "get", !.version = version]
                  [] OTHER -> [c EXCEPT !.step = "delete", !.version = version]
<1>2. call' = [call EXCEPT ![p] = d]
  BY DEF Ask, Begin
<1>3. c \in Calls /\ c.op = op /\ c.subject \in Subjects /\ c.tries = 0
  BY <1>0, <1>1, SettingType, IdleType DEF Calls, Idle
<1>4. d \in Calls /\ Shape(d, setting.mode[p], messages)
  <2> HIDE DEF c
  <2>1. CASE op = "register"
    <3>1. d = [c EXCEPT !.step = "post", !.schema = schema]
      BY <2>1
    <3>2. /\ d \in Calls /\ d.op = op /\ d.subject \in Subjects /\ d.tries = 0
          /\ d.step = "post" /\ d.schema \in Schemas
      BY <1>3, <3>1 DEF Calls
    <3> QED  BY <2>1, <3>2, IdType DEF Shape
  <2>2. CASE op = "get_or_register"
    <3>1. d = [c EXCEPT !.step = "get", !.schema = schema]
      BY <2>2
    <3>2. /\ d \in Calls /\ d.op = op /\ d.subject \in Subjects /\ d.tries = 0
          /\ d.step = "get" /\ d.schema \in Schemas
      BY <1>3, <3>1 DEF Calls
    <3> QED  BY <2>2, <3>2, IdType DEF Shape
  <2>3. CASE op = "get_schema"
    <3>1. d = [c EXCEPT !.step = "get", !.version = version]
      BY <2>3
    <3>2. /\ d \in Calls /\ d.op = op /\ d.subject \in Subjects /\ d.tries = 0
          /\ d.step = "get"
      BY <1>3, <3>1 DEF Calls
    <3> QED  BY <2>3, <3>2, IdType DEF Shape
  <2>4. CASE op \in {"delete", "purge"}
    <3>1. d = [c EXCEPT !.step = "delete", !.version = version]
      BY <2>4
    <3>2. /\ d \in Calls /\ d.op = op /\ d.subject \in Subjects /\ d.tries = 0
          /\ d.step = "delete"
      BY <1>3, <3>1 DEF Calls
    <3> QED  BY <2>4, <3>2, IdType DEF Shape
  <2> QED  BY <1>1, <2>1, <2>2, <2>3, <2>4
<1> HIDE DEF d
<1>5. Local'
  BY <1>0, <1>2, <1>4, CallTo
<1> QED  BY <1>0, <1>5, CachesUnchanged, TypeParts DEF Kept

LEMMA ToPost ==
    ASSUME TypeInv, NEW p \in Programs, At(p, "get"), Registers(p),
           call' = [call EXCEPT ![p].step = "post", ![p].tries = 0],
           UNCHANGED <<setting, ser, messages>>
    PROVE  Local'
<1> DEFINE c == [call[p] EXCEPT !.step = "post", !.tries = 0]
<1>1. call[p] \in Calls /\ CallShape(p) /\ Local
  BY TypeParts DEF Local
<1> DEFINE d == [call[p] EXCEPT !.step = "post"]
<1>a. /\ d \in Calls /\ d.step = "post" /\ d.op = call[p].op
      /\ d.subject = call[p].subject /\ d.schema = call[p].schema
  BY <1>1 DEF Calls
<1>b. c = [d EXCEPT !.tries = 0]
  OBVIOUS
<1> HIDE DEF d
<1>2. /\ c \in Calls /\ c.step = "post" /\ c.tries = 0 /\ c.op = call[p].op
      /\ c.subject = call[p].subject /\ c.schema = call[p].schema
  BY <1>a, <1>b, IdType DEF Calls
<1>c. call[p].schema \in Schemas /\ call[p].subject \in Subjects /\ call[p].op # "deserialize"
  BY <1>1 DEF CallShape, Shape, At, Registers
<1>3. Shape(c, setting.mode[p], messages)
  BY <1>2, <1>c, IdType DEF Shape
<1>4. call' = [call EXCEPT ![p] = c]
  BY <1>1, <1>b DEF Local, Calls, d
<1> HIDE DEF c
<1> QED  BY <1>1, <1>2, <1>3, <1>4, CallTo

LEMMA GotVersionKeeps ==
    ASSUME TypeInv, NEW p \in Programs, At(p, "get"), NEW entry, entry.id \in Ids,
           entry.schema \in Schemas, GotVersion(p, entry), setting' = setting
    PROVE  Local'
<1>0. setting \in Circumstances /\ Local /\ call[p] \in Calls /\ CallShape(p)
  BY TypeParts DEF Local
<1>1. CASE Registers(p) /\ entry.schema # call[p].schema
  <2>1. call' = [call EXCEPT ![p].step = "post", ![p].tries = 0] /\ UNCHANGED <<ser, messages>>
    BY <1>1 DEF GotVersion
  <2> QED  BY <1>1, <2>1, ToPost
<1>2. CASE ~(Registers(p) /\ entry.schema # call[p].schema)
  <2> DEFINE schema == IF call[p].schema = None THEN entry.schema ELSE call[p].schema
  <2>1. Finish(p, entry.id, schema)
    BY <1>2 DEF GotVersion
  <2>2. schema \in Schemas
    BY <1>0 DEF Calls
  <2>3. call[p].op # "deserialize"
    BY <1>0 DEF CallShape, Shape, At
  <2> HIDE DEF schema
  <2> QED  BY <1>0, <2>1, <2>2, <2>3, FinishTo
<1> QED  BY <1>1, <1>2

LEMMA VersionCachedKeeps ==
    ASSUME TypeInv, NEW p \in Programs, VersionCached(p) PROVE Kept
<1> DEFINE key == SubjectKey(p)
           entry == bySubject[p][Place(bySubject[p], key)]
<1>0. /\ CachesTyped /\ bySubject[p] \in Seq(SubjectEntries) /\ Len(bySubject[p]) <= Capacity
      /\ UNCHANGED <<setting, registry, byId, writers>> /\ At(p, "get")
      /\ Holds(bySubject[p], key) /\ GotVersion(p, entry)
      /\ bySubject' = [bySubject EXCEPT ![p] = Used(bySubject[p], key)]
  BY TypeParts DEF VersionCached, CachesTyped
<1>1. /\ Used(bySubject[p], key) \in Seq(SubjectEntries) /\ Len(Used(bySubject[p], key)) <= Capacity
      /\ Entries(Used(bySubject[p], key)) \subseteq Entries(bySubject[p]) \cup {}
      /\ entry \in SubjectEntries
  BY <1>0, UsedEntries
<1> HIDE DEF key, entry
<1>2. /\ bySubject' \in [Programs -> Seq(SubjectEntries)]
      /\ \A q \in Programs : Len(bySubject'[q]) <= Capacity
      /\ \A q \in Programs : \A e \in Entries(bySubject[q])' : e \in Entries(bySubject[q])
  BY <1>0, <1>1, BySubjectTo, ZenonT(60)
<1>3. Capacity' = Capacity
  BY <1>0 DEF Capacity
<1>4. CachesTyped' /\ NewEntriesTrue
  BY <1>0, <1>2, <1>3 DEF CachesTyped, NewEntriesTrue
<1>5. entry.id \in Ids /\ entry.schema \in Schemas
  BY <1>1 DEF SubjectEntries
<1>6. Local'
  BY <1>0, <1>5, GotVersionKeeps
<1> QED  BY <1>0, <1>4, <1>6 DEF Kept

LEMMA VersionAnsweredKeeps ==
    ASSUME TypeInv, NEW p \in Programs, VersionAnswered(p) PROVE Kept
<1>0. /\ CachesTyped /\ RegistryTyped /\ bySubject[p] \in Seq(SubjectEntries)
      /\ byId[p] \in Seq(IdEntries) /\ TypeOK
      /\ Len(bySubject[p]) <= Capacity /\ Len(byId[p]) <= Capacity
      /\ UNCHANGED <<setting, registry, writers>> /\ At(p, "get")
      /\ call[p] \in Calls /\ CallShape(p)
  BY TypeParts DEF VersionAnswered, CachesTyped, TypeInv, Local
<1>1. PICK v \in Named(call[p].subject, call[p].version) :
         LET id == versions[call[p].subject][v].id
             entry == [key |-> SubjectKey(p), id |-> id, schema |-> schemas[id]]
         IN /\ GotVersion(p, entry)
            /\ bySubject' = [bySubject EXCEPT ![p] = Put(@, entry)]
            /\ byId' = [byId EXCEPT ![p] = Put(@, [key |-> id, schema |-> schemas[id]])]
  BY DEF VersionAnswered
<1>2. PICK subject, id, entry, idEntry :
         /\ subject = call[p].subject /\ id = versions[subject][v].id
         /\ entry = [key |-> SubjectKey(p), id |-> id, schema |-> schemas[id]]
         /\ idEntry = [key |-> id, schema |-> schemas[id]]
         /\ GotVersion(p, entry)
         /\ bySubject' = [bySubject EXCEPT ![p] = Put(bySubject[p], entry)]
         /\ byId' = [byId EXCEPT ![p] = Put(byId[p], idEntry)]
  BY <1>0, <1>1 DEF CachesTyped
<1>3. subject \in Subjects /\ call[p].version \in 0..MaxVersions
  BY <1>0, <1>2 DEF CallShape, Shape, At, Calls
<1>4. v \in DOMAIN versions[subject] /\ call[p].version \in {Latest, v}
  BY <1>2 DEF Named, Live
<1>5. id \in DOMAIN schemas /\ id \in Ids /\ schemas[id] \in Schemas
  BY <1>0, <1>2, <1>3, <1>4, DomainIds DEF RegistryTyped, VersionsNamed
<1>6. SubjectKey(p) = <<subject, call[p].version>>
  BY <1>2 DEF SubjectKey
<1>7. /\ entry \in SubjectEntries /\ entry.id = id /\ entry.schema = schemas[id]
      /\ entry.key = <<subject, call[p].version>>
  BY <1>2, <1>3, <1>5, <1>6 DEF SubjectEntries
<1>8. idEntry \in IdEntries /\ idEntry.key = id /\ idEntry.schema = schemas[id]
  BY <1>2, <1>5 DEF IdEntries
<1>a. schemas' = schemas /\ versions' = versions
  BY <1>0 DEF registry
<1>b. entry.key[1] = subject /\ entry.key[2] \in {Latest, v}
  BY <1>4, <1>7
<1>9. Names(entry.id, entry.schema)' /\ WasVersion(entry)' /\ Names(idEntry.key, idEntry.schema)'
  BY <1>2, <1>4, <1>5, <1>7, <1>8, <1>a, <1>b DEF Names, WasVersion
<1>10. /\ Put(bySubject[p], entry) \in Seq(SubjectEntries) /\ Len(Put(bySubject[p], entry)) <= Capacity
       /\ Entries(Put(bySubject[p], entry)) \subseteq Entries(bySubject[p]) \cup {entry}
  BY <1>0, <1>7, PutEntries
<1>11. /\ Put(byId[p], idEntry) \in Seq(IdEntries) /\ Len(Put(byId[p], idEntry)) <= Capacity
       /\ Entries(Put(byId[p], idEntry)) \subseteq Entries(byId[p]) \cup {idEntry}
  BY <1>0, <1>8, PutEntries
<1>12. /\ bySubject' \in [Programs -> Seq(SubjectEntries)]
       /\ \A q \in Programs : Len(bySubject'[q]) <= Capacity
       /\ \A q \in Programs : \A e \in Entries(bySubject[q])' : e \in Entries(bySubject[q]) \/ e = entry
  BY <1>0, <1>2, <1>10, BySubjectTo, ZenonT(60)
<1>13. /\ byId' \in [Programs -> Seq(IdEntries)]
       /\ \A q \in Programs : Len(byId'[q]) <= Capacity
       /\ \A q \in Programs : \A e \in Entries(byId[q])' : e \in Entries(byId[q]) \/ e = idEntry
  BY <1>0, <1>2, <1>11, ByIdTo, ZenonT(60)
<1>14. Capacity' = Capacity
  BY <1>0 DEF Capacity
<1>15. CachesTyped'
  BY <1>0, <1>12, <1>13, <1>14 DEF CachesTyped
<1>16. NewEntriesTrue
  <2>1. writers' = writers
    BY <1>0
  <2> QED  BY <1>9, <1>12, <1>13, <2>1 DEF NewEntriesTrue
<1>17. Local'
  BY <1>0, <1>2, <1>5, <1>7, GotVersionKeeps
<1> QED  BY <1>0, <1>15, <1>16, <1>17 DEF Kept

LEMMA VersionMissingKeeps ==
    ASSUME TypeInv, NEW p \in Programs, VersionMissing(p) PROVE Kept
<1>0. UNCHANGED <<setting, registry, caches, ser, messages>> /\ At(p, "get")
  BY DEF VersionMissing
<1>1. CASE Registers(p) /\ call' = [call EXCEPT ![p].step = "post", ![p].tries = 0]
  BY <1>0, <1>1, ToPost, CachesUnchanged, TypeParts DEF Kept
<1>2. CASE Return(p, "missing")
  BY <1>0, <1>2, ReturnTo DEF Returned
<1> QED  BY <1>1, <1>2 DEF VersionMissing

LEMMA PostAnsweredKeeps ==
    ASSUME TypeInv, NEW p \in Programs, PostAnswered(p)
    PROVE  Kept /\ RegistryTyped' /\ Grown
<1>0. /\ CachesTyped /\ RegistryTyped /\ Local /\ byId[p] \in Seq(IdEntries) /\ TypeOK
      /\ Len(byId[p]) <= Capacity /\ setting \in Circumstances
      /\ UNCHANGED <<setting, bySubject, writers>>
      /\ call[p] \in Calls /\ CallShape(p)
  BY TypeParts DEF PostAnswered, CachesTyped, TypeInv, Local
<1>1. /\ call[p].subject \in Subjects /\ call[p].op # "deserialize" /\ call[p].schema \in Schemas
  BY <1>0 DEF PostAnswered, At, CallShape, Shape
<1>2. PICK id \in Ids :
          /\ Posted(call[p].subject, call[p].schema, id)
          /\ Finish(p, id, call[p].schema)
          /\ byId' = IF setting.mode[p] \in Python
                     THEN [byId EXCEPT ![p] = Put(@, [key |-> id, schema |-> call[p].schema])]
                     ELSE byId
  BY DEF PostAnswered
<1>3. PICK subject, schema, e :
          /\ subject = call[p].subject /\ schema = call[p].schema
          /\ e = [key |-> id, schema |-> schema]
  OBVIOUS
<1>4. subject \in Subjects /\ schema \in Schemas /\ e \in IdEntries /\ e.key = id /\ e.schema = schema
  BY <1>1, <1>3 DEF IdEntries
<1>5. Posted(subject, schema, id) /\ Finish(p, id, schema)
  BY <1>2, <1>3
<1>6. RegistryTyped' /\ Grown /\ Names(id, schema)'
  BY <1>0, <1>4, <1>5, PostedGrows
<1>7. Local'
  BY <1>0, <1>1, <1>4, <1>5, FinishTo
<1>8. byId' = byId \/ byId' = [byId EXCEPT ![p] = Put(byId[p], e)]
  BY <1>0, <1>2, <1>3 DEF CachesTyped
<1>9. /\ Put(byId[p], e) \in Seq(IdEntries) /\ Len(Put(byId[p], e)) <= Capacity
      /\ Entries(Put(byId[p], e)) \subseteq Entries(byId[p]) \cup {e}
  BY <1>0, <1>4, PutEntries
<1>10. /\ byId' \in [Programs -> Seq(IdEntries)]
       /\ \A q \in Programs : Len(byId'[q]) <= Capacity
       /\ \A q \in Programs : \A x \in Entries(byId[q])' : x \in Entries(byId[q]) \/ x = e
  <2>1. CASE byId' = byId
    BY <1>0, <2>1 DEF CachesTyped, Entries, ToSet
  <2>2. CASE byId' = [byId EXCEPT ![p] = Put(byId[p], e)]
    BY <1>0, <1>9, <2>2, ByIdTo, ZenonT(60)
  <2> QED  BY <1>8, <2>1, <2>2
<1>11. Capacity' = Capacity
  BY <1>0 DEF Capacity
<1>12. CachesTyped'
  BY <1>0, <1>10, <1>11 DEF CachesTyped
<1>13. Names(e.key, e.schema)'
  BY <1>4, <1>6
<1>14. NewEntriesTrue
  BY <1>0, <1>10, <1>13 DEF NewEntriesTrue, Entries, ToSet
<1> QED  BY <1>0, <1>6, <1>7, <1>12, <1>14 DEF Kept

LEMMA ResolvedTo ==
    ASSUME Local, CachesTyped, NEW p \in Programs, NEW id \in Ids, NEW schema \in Schemas,
           Resolved(p, id, schema), UNCHANGED <<setting, ser, messages>>
    PROVE  /\ Local' /\ writers' \in [Programs -> SUBSET IdEntries]
           /\ \A q \in Programs : \A x \in writers'[q] :
                 x \in writers[q] \/ (q = p /\ x = [key |-> id, schema |-> schema])
<1>0. call[p] \in Calls /\ CallShape(p)
  BY DEF Local
<1> DEFINE d == [call[p] EXCEPT !.step = "done", !.got = schema]
<1>1. call' = [call EXCEPT ![p] = d]
  BY DEF Resolved
<1>2. d \in Calls /\ d.step = "done" /\ d.op = call[p].op /\ d.message = call[p].message
  BY <1>0 DEF Calls, Returned
<1> HIDE DEF d
<1>3. Shape(d, setting.mode[p], messages)
  BY <1>0, <1>2 DEF Shape, CallShape, Returned
<1>4. Local'
  BY <1>1, <1>2, <1>3, CallTo
<1>5. [key |-> id, schema |-> schema] \in IdEntries
  BY DEF IdEntries
<1>6. writers' = writers \/ writers' = [writers EXCEPT ![p] = @ \cup {[key |-> id, schema |-> schema]}]
  BY DEF Resolved
<1>7. /\ writers' \in [Programs -> SUBSET IdEntries]
      /\ \A q \in Programs : \A x \in writers'[q] :
            x \in writers[q] \/ (q = p /\ x = [key |-> id, schema |-> schema])
  BY <1>5, <1>6 DEF CachesTyped
<1> QED  BY <1>4, <1>7

\* The message whose schema is resolved.
LEMMA Resolving ==
    ASSUME TypeInv, NEW p \in Programs, At(p, "resolve")
    PROVE  call[p].op = "deserialize" /\ call[p].message \in messages /\ call[p].message.id \in Ids
<1>1. CallShape(p) /\ messages \subseteq Messages
  BY TypeParts DEF Local
<1>2. call[p].op = "deserialize" /\ call[p].message \in messages
  BY <1>1 DEF CallShape, Shape, At
<1> QED  BY <1>1, <1>2 DEF Messages

LEMMA IdCachedKeeps ==
    ASSUME TypeInv, NEW p \in Programs, IdCached(p) PROVE Kept
<1>0. /\ CachesTyped /\ Local /\ byId[p] \in Seq(IdEntries) /\ Len(byId[p]) <= Capacity
      /\ UNCHANGED <<setting, registry, bySubject, ser, messages>> /\ At(p, "resolve")
  BY TypeParts DEF IdCached, CachesTyped
<1>1. PICK id, cache, e :
         /\ id = call[p].message.id /\ cache = byId[p] /\ e = cache[Place(cache, id)]
         /\ Holds(cache, id) /\ Resolved(p, id, e.schema)
         /\ byId' = [byId EXCEPT ![p] = Used(cache, id)]
  BY <1>0 DEF IdCached, CachesTyped
<1>2. /\ Used(cache, id) \in Seq(IdEntries) /\ Len(Used(cache, id)) <= Capacity
      /\ Entries(Used(cache, id)) \subseteq Entries(byId[p]) \cup {}
      /\ e \in Entries(byId[p]) /\ e \in IdEntries /\ e.key = id
  BY <1>0, <1>1, UsedEntries
<1>3. /\ byId' \in [Programs -> Seq(IdEntries)]
      /\ \A q \in Programs : Len(byId'[q]) <= Capacity
      /\ \A q \in Programs : \A x \in Entries(byId[q])' : x \in Entries(byId[q])
  BY <1>0, <1>1, <1>2, ByIdTo, ZenonT(60)
<1>4. id \in Ids /\ e.schema \in Schemas /\ e = [key |-> id, schema |-> e.schema]
  BY <1>2 DEF IdEntries
<1>5. /\ Local' /\ writers' \in [Programs -> SUBSET IdEntries]
      /\ \A q \in Programs : \A x \in writers'[q] : x \in writers[q] \/ (q = p /\ x = e)
  BY <1>0, <1>1, <1>4, ResolvedTo
<1>6. Capacity' = Capacity
  BY <1>0 DEF Capacity
<1>7. CachesTyped'
  BY <1>0, <1>3, <1>5, <1>6 DEF CachesTyped
<1>8. NewEntriesTrue
  BY <1>0, <1>2, <1>3, <1>5 DEF NewEntriesTrue, Entries, ToSet
<1> QED  BY <1>0, <1>5, <1>7, <1>8 DEF Kept

LEMMA IdAnsweredKeeps ==
    ASSUME TypeInv, NEW p \in Programs, IdAnswered(p) PROVE Kept
<1>0. /\ CachesTyped /\ RegistryTyped /\ Local /\ TypeOK
      /\ byId[p] \in Seq(IdEntries) /\ Len(byId[p]) <= Capacity
      /\ UNCHANGED <<setting, registry, bySubject, ser, messages>> /\ At(p, "resolve")
  BY TypeParts DEF IdAnswered, CachesTyped, TypeInv
<1>1. PICK id, e :
         /\ id = call[p].message.id /\ e = [key |-> id, schema |-> schemas[id]]
         /\ Known(id) /\ Resolved(p, id, schemas[id])
         /\ byId' = [byId EXCEPT ![p] = Put(byId[p], e)]
  BY <1>0 DEF IdAnswered, CachesTyped
<1>2. id \in DOMAIN schemas /\ id \in Ids /\ schemas[id] \in Schemas
  BY <1>0, <1>1, DomainIds DEF Known, RegistryTyped, VersionsNamed
<1>3. e \in IdEntries /\ e.key = id /\ e.schema = schemas[id]
  BY <1>1, <1>2 DEF IdEntries
<1>4. Names(e.key, e.schema)'
  BY <1>0, <1>2, <1>3 DEF Names, registry
<1>5. /\ Put(byId[p], e) \in Seq(IdEntries) /\ Len(Put(byId[p], e)) <= Capacity
      /\ Entries(Put(byId[p], e)) \subseteq Entries(byId[p]) \cup {e}
  BY <1>0, <1>3, PutEntries
<1>6. /\ byId' \in [Programs -> Seq(IdEntries)]
      /\ \A q \in Programs : Len(byId'[q]) <= Capacity
      /\ \A q \in Programs : \A x \in Entries(byId[q])' : x \in Entries(byId[q]) \/ x = e
  BY <1>0, <1>1, <1>5, ByIdTo, ZenonT(60)
<1>7. /\ Local' /\ writers' \in [Programs -> SUBSET IdEntries]
      /\ \A q \in Programs : \A x \in writers'[q] : x \in writers[q] \/ (q = p /\ x = e)
  BY <1>0, <1>1, <1>2, ResolvedTo
<1>8. Capacity' = Capacity
  BY <1>0 DEF Capacity
<1>9. CachesTyped'
  BY <1>0, <1>6, <1>7, <1>8 DEF CachesTyped
<1>10. NewEntriesTrue
  BY <1>0, <1>4, <1>6, <1>7 DEF NewEntriesTrue, Entries, ToSet
<1> QED  BY <1>0, <1>7, <1>9, <1>10 DEF Kept

LEMMA IdMissingKeeps ==
    ASSUME TypeInv, NEW p \in Programs, IdMissing(p) PROVE Kept
  BY ReturnTo DEF IdMissing, Returned

LEMMA DeleteAnsweredKeeps ==
    ASSUME TypeInv, NEW p \in Programs, DeleteAnswered(p)
    PROVE  Kept /\ RegistryTyped' /\ Grown
<1>0. /\ RegistryTyped /\ CallShape(p) /\ At(p, "delete")
      /\ UNCHANGED <<setting, caches, ser, messages>>
  BY TypeParts DEF DeleteAnswered, Local
<1>1. call[p].subject \in Subjects /\ call[p].op # "deserialize"
  BY <1>0 DEF CallShape, Shape, At
<1>2. CASE Deleted(call[p]) /\ Return(p, "done")
  BY <1>0, <1>1, <1>2, ReturnTo, DeletedGrows DEF Returned
<1>3. CASE Return(p, "missing") /\ UNCHANGED registry
  BY <1>0, <1>1, <1>3, ReturnTo, NothingAsked DEF Returned
<1> QED  BY <1>2, <1>3 DEF DeleteAnswered

LEMMA RefusedKeeps ==
    ASSUME TypeInv, NEW p \in Programs, Refused(p) PROVE Kept
  BY ReturnTo DEF Refused, Returned

LEMMA UnansweredKeeps ==
    ASSUME TypeInv, NEW p \in Programs, Unanswered(p)
    PROVE  Kept /\ RegistryTyped' /\ Grown
<1>0. /\ RegistryTyped /\ Local /\ CallShape(p) /\ call[p] \in Calls
      /\ UNCHANGED <<setting, caches, ser, messages>> /\ OnTheWire(p)
  BY TypeParts DEF Unanswered, Local
<1>1. RegistryTyped' /\ Grown
  <2>1. CASE UNCHANGED registry
    BY <1>0, <2>1, NothingAsked
  <2>2. CASE At(p, "post") /\ \E id \in Ids : Posted(call[p].subject, call[p].schema, id)
    <3>1. call[p].subject \in Subjects /\ call[p].schema \in Schemas
      BY <1>0, <2>2 DEF CallShape, Shape, At
    <3> QED  BY <1>0, <2>2, <3>1, PostedGrows
  <2>3. CASE At(p, "delete") /\ Deleted(call[p])
    <3>1. call[p].subject \in Subjects
      BY <1>0, <2>3 DEF CallShape, Shape, At
    <3> QED  BY <1>0, <2>3, <3>1, DeletedGrows
  <2> QED  BY <2>1, <2>2, <2>3 DEF Unanswered
<1>2. call[p].step \notin Returned
  BY <1>0 DEF OnTheWire, At, Returned
<1>3. call[p].tries \in 0..Attempts /\ call[p].tries < Attempts /\ Attempts \in Nat
  BY <1>0, <1>2, IdType DEF CallShape, Shape, Calls
<1> DEFINE step == IF call[p].tries + 1 = Attempts THEN "failed" ELSE call[p].step
           d == [call[p] EXCEPT !.tries = call[p].tries + 1]
           c == [d EXCEPT !.step = step]
<1>4. call' = [call EXCEPT ![p] = c]
  BY <1>0 DEF Unanswered, Local, Calls
<1>5. call[p].tries + 1 \in 0..Attempts
  BY <1>3
<1>6. d \in Calls /\ d.tries = call[p].tries + 1 /\ d.step = call[p].step
      /\ d.op = call[p].op /\ d.subject = call[p].subject /\ d.schema = call[p].schema
      /\ d.message = call[p].message
  BY <1>0, <1>5 DEF Calls
<1>7. /\ step \in {"failed", call[p].step}
      /\ step = call[p].step \/ step = "failed"
      /\ step # "failed" => call[p].tries + 1 # Attempts
  BY <1>2 DEF Returned
<1> HIDE DEF step, d
<1>8. /\ c \in Calls /\ c.tries = call[p].tries + 1 /\ c.step = step
      /\ c.op = call[p].op /\ c.subject = call[p].subject /\ c.schema = call[p].schema
      /\ c.message = call[p].message
  BY <1>6, <1>7 DEF Calls, Returned
<1> HIDE DEF c
<1>9. step \notin Returned => c.tries < Attempts
  <2>1. step \notin Returned => step # "failed"
    BY DEF Returned
  <2> QED  BY <1>3, <1>7, <1>8, <2>1
<1>10. Shape(c, setting.mode[p], messages)
  <2>1. CASE step = call[p].step
    BY <1>0, <1>8, <1>9, <2>1 DEF CallShape, Shape
  <2>2. CASE step = "failed"
    BY <1>0, <1>8, <1>9, <2>2 DEF CallShape, Shape
  <2> QED  BY <1>7, <2>1, <2>2
<1>11. Local'
  BY <1>0, <1>4, <1>8, <1>10, CallTo
<1> QED  BY <1>0, <1>1, <1>11, CachesUnchanged, TypeParts DEF Kept

LEMMA CrashKeeps ==
    ASSUME TypeInv, NEW p \in Programs, Crash(p) PROVE Kept
<1>0. /\ CachesTyped /\ Local /\ setting \in Circumstances /\ setting' = setting
      /\ messages' = messages
  BY TypeParts DEF Crash
<1>1. Capacity' = Capacity /\ Capacity \in Nat \ {0}
  BY <1>0, CapacityType DEF Capacity, TypeInv
<1>a. Len(<<>>) = 0 /\ Entries(<<>>) = {}
  BY DEF Entries, ToSet
<1>2. /\ byId' = [byId EXCEPT ![p] = <<>>] /\ bySubject' = [bySubject EXCEPT ![p] = <<>>]
      /\ writers' = [writers EXCEPT ![p] = {}]
  BY DEF Crash
<1>3. CachesTyped'
  BY <1>0, <1>1, <1>2, <1>a DEF CachesTyped
<1>4. \A q \in Programs : /\ byId'[q] = byId[q] \/ byId'[q] = <<>>
                          /\ bySubject'[q] = bySubject[q] \/ bySubject'[q] = <<>>
                          /\ writers'[q] = writers[q] \/ writers'[q] = {}
  BY <1>0, <1>2 DEF CachesTyped
<1>5. NewEntriesTrue
  BY <1>4, <1>a DEF NewEntriesTrue, Entries, ToSet
<1>6. /\ ser' \in [Programs -> [id : Ids \cup {None}, schema : Schemas \cup {None}]]
      /\ \A q \in Programs : SerShape(q)'
  BY <1>0, FreshType DEF Crash, Local, SerShape
<1>7. /\ call' \in [Programs -> Calls] /\ call'[p] = Idle
      /\ \A q \in Programs \ {p} : call'[q] = call[q]
  BY <1>0, IdleType DEF Crash, Local
<1>8. \A q \in Programs : CallShape(q)'
  BY <1>0, <1>7 DEF Local, CallShape, Shape, Idle, Returned
<1> QED  BY <1>0, <1>3, <1>5, <1>6, <1>7, <1>8 DEF Kept, Local

-----------------------------------------------------------------------------
(* Types hold *)

LEMMA StepKeeps ==
    ASSUME TypeInv, NEW p \in Programs, Step(p) PROVE Kept /\ RegistryTyped' /\ Grown
<1>0. RegistryTyped
  BY TypeParts
<1>1. CASE VersionCached(p)
  <2>1. UNCHANGED registry
    BY <1>1 DEF VersionCached
  <2> QED  BY <1>0, <1>1, <2>1, VersionCachedKeeps, NothingAsked
<1>2. CASE VersionAnswered(p)
  <2>1. UNCHANGED registry
    BY <1>2 DEF VersionAnswered
  <2> QED  BY <1>0, <1>2, <2>1, VersionAnsweredKeeps, NothingAsked
<1>3. CASE VersionMissing(p)
  <2>1. UNCHANGED registry
    BY <1>3 DEF VersionMissing
  <2> QED  BY <1>0, <1>3, <2>1, VersionMissingKeeps, NothingAsked
<1>4. CASE PostAnswered(p)
  BY <1>4, PostAnsweredKeeps
<1>5. CASE IdCached(p)
  <2>1. UNCHANGED registry
    BY <1>5 DEF IdCached
  <2> QED  BY <1>0, <1>5, <2>1, IdCachedKeeps, NothingAsked
<1>6. CASE IdAnswered(p)
  <2>1. UNCHANGED registry
    BY <1>6 DEF IdAnswered
  <2> QED  BY <1>0, <1>6, <2>1, IdAnsweredKeeps, NothingAsked
<1>7. CASE IdMissing(p)
  <2>1. UNCHANGED registry
    BY <1>7 DEF IdMissing
  <2> QED  BY <1>0, <1>7, <2>1, IdMissingKeeps, NothingAsked
<1>8. CASE DeleteAnswered(p)
  BY <1>8, DeleteAnsweredKeeps
<1>9. CASE Refused(p)
  <2>1. UNCHANGED registry
    BY <1>9 DEF Refused
  <2> QED  BY <1>0, <1>9, <2>1, RefusedKeeps, NothingAsked
<1>10. CASE Unanswered(p)
  BY <1>10, UnansweredKeeps
<1> QED  BY <1>1, <1>2, <1>3, <1>4, <1>5, <1>6, <1>7, <1>8, <1>9, <1>10 DEF Step

LEMMA NextKeeps ==
    ASSUME TypeInv, [Next]_vars PROVE Kept /\ RegistryTyped' /\ Grown
<1>0. RegistryTyped
  BY TypeParts
<1>1. CASE UNCHANGED vars
  <2>1. UNCHANGED <<setting, registry, caches, ser, call, messages>>
    BY <1>1 DEF vars, registry, caches
  <2>2. Local'
    BY <2>1, TypeParts DEF Local, CallShape, SerShape, Shape
  <2> QED  BY <1>0, <2>1, <2>2, CachesUnchanged, NothingAsked, TypeParts DEF Kept
<1>2. ASSUME NEW p \in Programs, Serialize(p) PROVE Kept /\ RegistryTyped' /\ Grown
  <2>1. UNCHANGED registry
    BY <1>2 DEF Serialize
  <2> QED  BY <1>0, <1>2, <2>1, SerializeKeeps, NothingAsked
<1>3. ASSUME NEW p \in Programs, NEW m \in messages, Deserialize(p, m)
      PROVE  Kept /\ RegistryTyped' /\ Grown
  <2>1. UNCHANGED registry
    BY <1>3 DEF Deserialize
  <2> QED  BY <1>0, <1>3, <2>1, DeserializeKeeps, NothingAsked
<1>4. ASSUME NEW p \in Programs, NEW op \in setting.ops, NEW version \in 0..MaxVersions,
             NEW schema \in Schemas, Ask(p, op, version, schema)
      PROVE  Kept /\ RegistryTyped' /\ Grown
  <2>1. UNCHANGED registry
    BY <1>4 DEF Ask
  <2> QED  BY <1>0, <1>4, <2>1, AskKeeps, NothingAsked
<1>5. ASSUME NEW p \in Programs, Crash(p) PROVE Kept /\ RegistryTyped' /\ Grown
  <2>1. UNCHANGED registry
    BY <1>5 DEF Crash
  <2> QED  BY <1>0, <1>5, <2>1, CrashKeeps, NothingAsked
<1> QED  BY <1>1, <1>2, <1>3, <1>4, <1>5, StepKeeps DEF Next

LEMMA TypeStep == TypeInv /\ [Next]_vars => TypeInv'
<1> SUFFICES ASSUME TypeInv, [Next]_vars PROVE TypeInv'
  OBVIOUS
<1>1. Kept /\ RegistryTyped' /\ setting \in Circumstances
  BY NextKeeps, TypeParts
<1>2. (setting \in Circumstances)' /\ CachesTyped' /\ Local'
  BY <1>1 DEF Kept
<1>3. TypeInv' <=> (setting \in Circumstances)' /\ RegistryTyped' /\ CachesTyped' /\ Local'
  BY DEF TypeInv, TypeOK, RegistryTyped, VersionType, CachesTyped, Local
<1> QED  BY <1>1, <1>2, <1>3

\* Whatever is asked, refused, retried or crashed, every variable keeps its type:
\* caches stay within their capacity and the tries of a call within the attempts.
THEOREM TypesHold == Spec => []TypeOK
<1>1. TypeInv => TypeOK
  BY DEF TypeInv
<1> QED  BY <1>1, TypeInit, TypeStep, PTL DEF Spec

-----------------------------------------------------------------------------
(* Truth *)

\* What a call holds is true: a serializer that asks for a version asks for its own
\* schema or takes the one it gets, a resolved schema is the id's, a missing one's
\* id is gone.
Says(c, mode) ==
    /\ c.op = "serialize" /\ c.step = "get" /\ mode \in Naming => mode = "given" \/ c.schema = None
    /\ c.op = "deserialize" /\ c.step = "done" => Names(c.message.id, c.got)
    /\ c.op = "deserialize" /\ c.step = "missing" /\ c.message.mode \in Naming => ~Known(c.message.id)

SerNamed(p) == setting.mode[p] \in Naming /\ ser[p].id # None => Names(ser[p].id, ser[p].schema)

\* Every id was handed out for some version.
IdsUsed == \A id \in DOMAIN schemas : \E s \in Subjects : \E v \in DOMAIN versions[s] :
              versions[s][v].id = id

Truth ==
    /\ CachesAreTrue /\ HeaderNamesWriterSchema /\ IdsUsed
    /\ \A p \in Programs : SerNamed(p) /\ Says(call[p], setting.mode[p])

\* What a step newly says is true after it.
NewSaid ==
    /\ \A p \in Programs : ser'[p] = ser[p] \/ SerNamed(p)'
    /\ \A m \in messages' : m \in messages \/ (m.mode \in Naming => Names(m.id, m.writer)')
    /\ \A p \in Programs : call'[p] = call[p] \/ Says(call[p], setting.mode[p])'

LEMMA CallSays ==
    ASSUME TypeInv, setting' = setting, NEW p \in Programs, NEW c, call' = [call EXCEPT ![p] = c],
           UNCHANGED <<ser, messages>>, Says(c, setting.mode[p])'
    PROVE  NewSaid
<1>1. call'[p] = c /\ \A q \in Programs \ {p} : call'[q] = call[q]
  BY TypeParts DEF Local
<1>2. Says(call[p], setting.mode[p])'
  BY <1>1 DEF Says
<1> QED  BY <1>1, <1>2 DEF NewSaid

LEMMA ReturnSays ==
    ASSUME TypeInv, setting' = setting, NEW p \in Programs, NEW how \in Returned, Return(p, how),
           UNCHANGED <<ser, messages>>,
           call[p].op = "deserialize" => how \notin {"done", "missing"}
    PROVE  NewSaid
<1> DEFINE c == [Idle EXCEPT !.op = call[p].op, !.message = call[p].message, !.step = how]
<1>1. call[p] \in Calls
  BY TypeParts DEF Local
<1>2. c.step = how /\ c.op = call[p].op
  BY <1>1 DEF Idle
<1>3. call' = [call EXCEPT ![p] = c]
  BY DEF Return
<1>4. how # "get"
  BY DEF Returned
<1> HIDE DEF c
<1>5. PICK d : d = c
  OBVIOUS
<1>6. d.step = how /\ (d.op = "deserialize" => how \notin {"done", "missing"})
      /\ call' = [call EXCEPT ![p] = d]
  BY <1>2, <1>3, <1>5
<1>7. Says(d, setting.mode[p])'
  BY <1>4, <1>6 DEF Says
<1> QED  BY <1>6, <1>7, CallSays

LEMMA FinishSays ==
    ASSUME TypeInv, setting' = setting, NEW p \in Programs, NEW id \in Ids, NEW schema \in Schemas,
           Finish(p, id, schema), call[p].op # "deserialize",
           call[p].op = "serialize" /\ setting.mode[p] \in Naming => Names(id, schema)'
    PROVE  NewSaid
<1>0. Local
  BY TypeParts
<1>1. PICK c : c = [call[p] EXCEPT !.step = "done", !.id = id, !.got = schema]
  OBVIOUS
<1>2. call' = [call EXCEPT ![p] = c]
  BY <1>1 DEF Finish
<1>3. c.step = "done" /\ c.op = call[p].op
  BY <1>0, <1>1 DEF Local, Calls
<1>4. call'[p] = c /\ \A q \in Programs \ {p} : call'[q] = call[q]
  BY <1>0, <1>2 DEF Local
<1>5. Says(call[p], setting.mode[p])'
  BY <1>3, <1>4 DEF Says
<1>6. \A q \in Programs : ser'[q] = ser[q] \/ SerNamed(q)'
  <2>1. CASE call[p].op = "serialize"
    <3>1. ser' = [ser EXCEPT ![p] = [id |-> id, schema |-> schema]]
      BY <2>1 DEF Finish
    <3>2. ser'[p].id = id /\ ser'[p].schema = schema /\ \A q \in Programs \ {p} : ser'[q] = ser[q]
      BY <1>0, <3>1 DEF Local
    <3>3. SerNamed(p)'
      BY <2>1, <3>2 DEF SerNamed, Names
    <3> QED  BY <3>2, <3>3
  <2>2. CASE call[p].op # "serialize"
    BY <2>2 DEF Finish
  <2> QED  BY <2>1, <2>2
<1>7. \A m \in messages' : m \in messages \/ (m.mode \in Naming => Names(m.id, m.writer)')
  <2>1. CASE call[p].op = "serialize"
    <3>1. PICK f : f = Framed(p, id, schema)
      OBVIOUS
    <3>2. f.id = id /\ f.writer = schema /\ f.mode = setting.mode[p]
      BY <3>1 DEF Framed
    <3>3. messages' = messages \cup {f}
      BY <2>1, <3>1 DEF Finish
    <3>4. f.mode \in Naming => Names(f.id, f.writer)'
      BY <2>1, <3>2 DEF Names
    <3> QED  BY <3>3, <3>4
  <2>2. CASE call[p].op # "serialize"
    BY <2>2 DEF Finish
  <2> QED  BY <2>1, <2>2
<1> QED  BY <1>4, <1>5, <1>6, <1>7 DEF NewSaid

LEMMA SerializeSays ==
    ASSUME TypeInv, Truth, NEW p \in Programs, Serialize(p) PROVE NewSaid
<1>0. UNCHANGED <<setting, registry, ser>> /\ setting \in Circumstances
  BY TypeParts DEF Serialize
<1>1. CASE /\ ser[p].id # None /\ UNCHANGED call
           /\ messages' = messages \cup {Framed(p, ser[p].id, ser[p].schema)}
  <2>1. PICK f : f = Framed(p, ser[p].id, ser[p].schema)
    OBVIOUS
  <2>2. f.id = ser[p].id /\ f.writer = ser[p].schema /\ f.mode = setting.mode[p]
    BY <2>1 DEF Framed
  <2>3. f.mode \in Naming => Names(f.id, f.writer)'
    BY <1>0, <1>1, <2>2 DEF Truth, SerNamed, Names, registry
  <2>4. messages' = messages \cup {f}
    BY <1>1, <2>1
  <2> QED  BY <1>0, <1>1, <2>3, <2>4 DEF NewSaid
<1>2. CASE ser[p].id = None /\ UNCHANGED messages
  <2>1. PICK c : c = [Idle EXCEPT !.op = "serialize", !.subject = setting.subject[p],
                     !.step = IF setting.mode[p] = "direct" THEN "post" ELSE "get",
                     !.schema = IF setting.mode[p] = "latest" THEN None ELSE setting.schema[p]]
    OBVIOUS
  <2>2. call' = [call EXCEPT ![p] = c]
    BY <1>2, <2>1 DEF Serialize, Begin
  <2>3. /\ c.op = "serialize"
        /\ c.step = "get" => setting.mode[p] # "direct"
        /\ setting.mode[p] = "latest" => c.schema = None
    BY <2>1 DEF Idle
  <2>4. Says(c, setting.mode[p])'
    BY <1>0, <2>3 DEF Says, Naming
  <2> QED  BY <1>0, <1>2, <2>2, <2>4, CallSays
<1> QED  BY <1>1, <1>2 DEF Serialize

LEMMA DeserializeSays ==
    ASSUME TypeInv, Truth, NEW p \in Programs, NEW m \in messages, Deserialize(p, m) PROVE NewSaid
<1>0. UNCHANGED <<setting, registry, ser, messages>>
  BY DEF Deserialize
<1>1. PICK c : c = [Idle EXCEPT !.op = "deserialize", !.message = m]
  OBVIOUS
<1>2. \E d : /\ call' = [call EXCEPT ![p] = d]
             /\ \/ d = [c EXCEPT !.step = "resolve"]
                \/ \E e \in writers[p] : e.key = m.id /\ d = [c EXCEPT !.got = e.schema]
  BY <1>1 DEF Deserialize, Begin
<1>3. PICK d : /\ call' = [call EXCEPT ![p] = d]
               /\ \/ d = [c EXCEPT !.step = "resolve"]
                  \/ \E e \in writers[p] : e.key = m.id /\ d = [c EXCEPT !.got = e.schema]
  BY <1>2
<1>4. CASE d = [c EXCEPT !.step = "resolve"]
  <2>1. d.step = "resolve"
    BY <1>1, <1>4 DEF Idle
  <2>2. Says(d, setting.mode[p])'
    BY <2>1 DEF Says
  <2> QED  BY <1>0, <1>3, <2>2, CallSays
<1>5. ASSUME NEW e \in writers[p], e.key = m.id, d = [c EXCEPT !.got = e.schema]
      PROVE  NewSaid
  <2>1. d.op = "deserialize" /\ d.step = "done" /\ d.message = m /\ d.got = e.schema
    BY <1>1, <1>5 DEF Idle
  <2>2. Names(m.id, e.schema)
    BY <1>5 DEF Truth, CachesAreTrue, Names
  <2>3. Says(d, setting.mode[p])'
    BY <1>0, <2>1, <2>2 DEF Says, Names, registry
  <2> QED  BY <1>0, <1>3, <2>3, CallSays
<1> QED  BY <1>3, <1>4, <1>5

LEMMA AskSays ==
    ASSUME TypeInv, NEW p \in Programs, NEW op \in setting.ops, NEW version \in 0..MaxVersions,
           NEW schema \in Schemas, Ask(p, op, version, schema)
    PROVE  NewSaid
<1>0. UNCHANGED <<setting, registry, ser, messages>> /\ setting \in Circumstances
  BY TypeParts DEF Ask
<1>1. op # "serialize" /\ op # "deserialize"
  BY <1>0 DEF Circumstances
<1>2. PICK c : c = [Idle EXCEPT !.op = op, !.subject = setting.subject[p]]
  OBVIOUS
<1>3. PICK d :
        d = CASE op = "register" -> [c EXCEPT !.step = "post", !.schema = schema]
              [] op = "get_or_register" -> [c EXCEPT !.step = "get", !.schema = schema]
              [] op = "get_schema" -> [c EXCEPT !.step = "get", !.version = version]
              [] OTHER -> [c EXCEPT !.step = "delete", !.version = version]
  OBVIOUS
<1>4. call' = [call EXCEPT ![p] = d]
  BY <1>2, <1>3 DEF Ask, Begin
<1>5. \/ d = [c EXCEPT !.step = "post", !.schema = schema]
      \/ d = [c EXCEPT !.step = "get", !.schema = schema]
      \/ d = [c EXCEPT !.step = "get", !.version = version]
      \/ d = [c EXCEPT !.step = "delete", !.version = version]
  BY <1>3
<1>6. d.op = op
  BY <1>2, <1>5 DEF Idle
<1>7. Says(d, setting.mode[p])'
  BY <1>1, <1>6 DEF Says
<1> QED  BY <1>0, <1>4, <1>7, CallSays

LEMMA ToPostSays ==
    ASSUME TypeInv, NEW p \in Programs, At(p, "get"), setting' = setting,
           call' = [call EXCEPT ![p].step = "post", ![p].tries = 0], UNCHANGED <<ser, messages>>
    PROVE  NewSaid
<1>0. Local /\ call[p] \in Calls /\ CallShape(p)
  BY TypeParts DEF Local
<1>1. PICK c : c = [call[p] EXCEPT !.step = "post", !.tries = 0]
  OBVIOUS
<1>2. call' = [call EXCEPT ![p] = c]
  BY <1>0, <1>1 DEF Local, Calls
<1>3. c.step = "post"
  BY <1>0, <1>1 DEF Calls
<1>4. Says(c, setting.mode[p])'
  BY <1>3 DEF Says
<1> QED  BY <1>2, <1>4, CallSays

LEMMA GotVersionSays ==
    ASSUME TypeInv, Truth, NEW p \in Programs, At(p, "get"), NEW entry, entry.id \in Ids,
           entry.schema \in Schemas, GotVersion(p, entry), setting' = setting,
           Names(entry.id, entry.schema)'
    PROVE  NewSaid
<1>0. /\ Local /\ call[p] \in Calls /\ CallShape(p) /\ setting \in Circumstances
      /\ Says(call[p], setting.mode[p])
  BY TypeParts DEF Local, Truth
<1>1. CASE Registers(p) /\ entry.schema # call[p].schema
  <2>1. call' = [call EXCEPT ![p].step = "post", ![p].tries = 0] /\ UNCHANGED <<ser, messages>>
    BY <1>1 DEF GotVersion
  <2> QED  BY <2>1, ToPostSays
<1>2. CASE ~(Registers(p) /\ entry.schema # call[p].schema)
  <2>1. PICK schema : schema = IF call[p].schema = None THEN entry.schema ELSE call[p].schema
    OBVIOUS
  <2>2. Finish(p, entry.id, schema)
    BY <1>2, <2>1 DEF GotVersion
  <2>3. schema \in Schemas /\ call[p].op # "deserialize"
    BY <1>0, <2>1 DEF Calls, CallShape, Shape, At
  <2>4. ASSUME call[p].op = "serialize", setting.mode[p] \in Naming
        PROVE  schema = entry.schema
    <3>1. setting.mode[p] = "given" \/ call[p].schema = None
      BY <1>0, <2>4 DEF Says, At
    <3>2. setting.mode[p] = "given" => entry.schema = call[p].schema
      BY <1>2, <2>4 DEF Registers
    <3> QED  BY <2>1, <3>1, <3>2
  <2>5. call[p].op = "serialize" /\ setting.mode[p] \in Naming => Names(entry.id, schema)'
    BY <2>4
  <2> QED  BY <2>2, <2>3, <2>5, FinishSays
<1> QED  BY <1>1, <1>2

LEMMA VersionCachedSays ==
    ASSUME TypeInv, Truth, NEW p \in Programs, VersionCached(p) PROVE NewSaid
<1>0. /\ bySubject[p] \in Seq(SubjectEntries) /\ UNCHANGED <<setting, registry>> /\ At(p, "get")
      /\ Holds(bySubject[p], SubjectKey(p))
      /\ GotVersion(p, bySubject[p][Place(bySubject[p], SubjectKey(p))])
  BY TypeParts DEF VersionCached, CachesTyped
<1>1. PICK entry : entry = bySubject[p][Place(bySubject[p], SubjectKey(p))]
  OBVIOUS
<1>2. entry \in SubjectEntries /\ entry \in Entries(bySubject[p])
  BY <1>0, <1>1, UsedEntries
<1>3. entry.id \in Ids /\ entry.schema \in Schemas /\ Names(entry.id, entry.schema)
  BY <1>2 DEF SubjectEntries, Truth, CachesAreTrue, Names
<1>4. Names(entry.id, entry.schema)'
  BY <1>0, <1>3 DEF Names, registry
<1> QED  BY <1>0, <1>1, <1>3, <1>4, GotVersionSays

LEMMA VersionAnsweredSays ==
    ASSUME TypeInv, Truth, NEW p \in Programs, VersionAnswered(p) PROVE NewSaid
<1>0. /\ RegistryTyped /\ TypeOK /\ UNCHANGED <<setting, registry>> /\ At(p, "get")
      /\ CallShape(p)
  BY TypeParts DEF VersionAnswered, TypeInv, Local
<1>1. PICK v \in Named(call[p].subject, call[p].version) :
         LET id == versions[call[p].subject][v].id
             entry == [key |-> SubjectKey(p), id |-> id, schema |-> schemas[id]]
         IN GotVersion(p, entry)
  BY DEF VersionAnswered
<1>2. PICK id, entry :
         /\ id = versions[call[p].subject][v].id
         /\ entry = [key |-> SubjectKey(p), id |-> id, schema |-> schemas[id]]
         /\ GotVersion(p, entry)
  BY <1>1
<1>3. call[p].subject \in Subjects /\ v \in DOMAIN versions[call[p].subject]
  BY <1>0 DEF CallShape, Shape, At, Named, Live
<1>4. id \in DOMAIN schemas /\ id \in Ids /\ schemas[id] \in Schemas
  BY <1>0, <1>2, <1>3, DomainIds DEF RegistryTyped, VersionsNamed
<1>5. entry.id = id /\ entry.schema = schemas[id]
  BY <1>2
<1>6. Names(entry.id, entry.schema)'
  BY <1>0, <1>4, <1>5 DEF Names, registry
<1> QED  BY <1>0, <1>2, <1>4, <1>5, <1>6, GotVersionSays

LEMMA VersionMissingSays ==
    ASSUME TypeInv, NEW p \in Programs, VersionMissing(p) PROVE NewSaid
<1>0. UNCHANGED <<setting, ser, messages>> /\ At(p, "get") /\ call[p].op # "deserialize"
  BY TypeParts DEF VersionMissing, Local, CallShape, Shape, At
<1>1. CASE call' = [call EXCEPT ![p].step = "post", ![p].tries = 0]
  BY <1>0, <1>1, ToPostSays
<1>2. CASE Return(p, "missing")
  BY <1>0, <1>2, ReturnSays DEF Returned
<1> QED  BY <1>1, <1>2 DEF VersionMissing

LEMMA PostAnsweredSays ==
    ASSUME TypeInv, NEW p \in Programs, PostAnswered(p) PROVE NewSaid
<1>0. RegistryTyped /\ CallShape(p) /\ At(p, "post") /\ setting' = setting
  BY TypeParts DEF PostAnswered, Local
<1>1. call[p].subject \in Subjects /\ call[p].op # "deserialize" /\ call[p].schema \in Schemas
  BY <1>0 DEF At, CallShape, Shape
<1>2. PICK schema : schema = call[p].schema
  OBVIOUS
<1>3. PICK id \in Ids : Posted(call[p].subject, schema, id) /\ Finish(p, id, schema)
  BY <1>2 DEF PostAnswered
<1>4. Names(id, schema)' /\ schema \in Schemas
  BY <1>0, <1>1, <1>2, <1>3, PostedGrows
<1> QED  BY <1>0, <1>1, <1>3, <1>4, FinishSays

LEMMA ResolvedSays ==
    ASSUME TypeInv, Truth, NEW p \in Programs, At(p, "resolve"), NEW schema,
           Names(call[p].message.id, schema), Resolved(p, call[p].message.id, schema),
           UNCHANGED <<setting, registry, ser, messages>>
    PROVE  NewSaid
<1>0. Local /\ call[p] \in Calls /\ call[p].op = "deserialize"
  BY Resolving, TypeParts DEF Local
<1>1. PICK c, m : c = [call[p] EXCEPT !.step = "done", !.got = schema] /\ m = call[p].message
  OBVIOUS
<1>2. call' = [call EXCEPT ![p] = c]
  BY <1>1 DEF Resolved
<1>3. c.op = "deserialize" /\ c.step = "done" /\ c.message = m /\ c.got = schema
  BY <1>0, <1>1 DEF Calls
<1>4. Says(c, setting.mode[p])'
  BY <1>1, <1>3 DEF Says, Names, registry
<1> QED  BY <1>2, <1>4, CallSays

LEMMA IdCachedSays ==
    ASSUME TypeInv, Truth, NEW p \in Programs, IdCached(p) PROVE NewSaid
<1>0. byId[p] \in Seq(IdEntries) /\ UNCHANGED <<setting, registry, ser, messages>> /\ At(p, "resolve")
  BY TypeParts DEF IdCached, CachesTyped
<1>1. PICK id, e : /\ id = call[p].message.id /\ e = byId[p][Place(byId[p], id)]
                   /\ Holds(byId[p], id) /\ Resolved(p, id, e.schema)
  BY DEF IdCached
<1>2. e \in Entries(byId[p]) /\ e.key = id
  BY <1>0, <1>1, UsedEntries
<1>3. Names(id, e.schema)
  BY <1>2 DEF Truth, CachesAreTrue, Names
<1> QED  BY <1>0, <1>1, <1>3, ResolvedSays

LEMMA IdAnsweredSays ==
    ASSUME TypeInv, Truth, NEW p \in Programs, IdAnswered(p) PROVE NewSaid
<1>0. RegistryTyped /\ UNCHANGED <<setting, registry, ser, messages>> /\ At(p, "resolve")
  BY TypeParts DEF IdAnswered
<1>1. Known(call[p].message.id) /\ Resolved(p, call[p].message.id, schemas[call[p].message.id])
  BY DEF IdAnswered
<1>2. Names(call[p].message.id, schemas[call[p].message.id])
  BY <1>0, <1>1 DEF Known, RegistryTyped, VersionsNamed, Names
<1> QED  BY <1>0, <1>1, <1>2, ResolvedSays

LEMMA IdMissingSays ==
    ASSUME TypeInv, NEW p \in Programs, IdMissing(p) PROVE NewSaid
<1>0. UNCHANGED <<setting, registry, ser, messages>> /\ Local /\ call[p] \in Calls
  BY TypeParts DEF IdMissing, Local
<1>1. PICK m, c : /\ m = call[p].message
                  /\ c = [Idle EXCEPT !.op = call[p].op, !.message = m, !.step = "missing"]
  OBVIOUS
<1>2. call' = [call EXCEPT ![p] = c]
  BY <1>1 DEF IdMissing, Return
<1>3. c.step = "missing" /\ c.message = m
  BY <1>1 DEF Idle
<1>4. ~Known(m.id)
  BY <1>1 DEF IdMissing
<1>5. ~Known(m.id)'
  BY <1>0, <1>4 DEF Known, registry
<1>6. Says(c, setting.mode[p])'
  BY <1>3, <1>5 DEF Says
<1> QED  BY <1>0, <1>2, <1>6, CallSays

LEMMA DeleteAnsweredSays ==
    ASSUME TypeInv, NEW p \in Programs, DeleteAnswered(p) PROVE NewSaid
<1>0. UNCHANGED <<setting, ser, messages>> /\ call[p].op # "deserialize"
  BY TypeParts DEF DeleteAnswered, Local, CallShape, Shape, At
<1> QED  BY <1>0, ReturnSays DEF DeleteAnswered, Returned

LEMMA RefusedSays ==
    ASSUME TypeInv, NEW p \in Programs, Refused(p) PROVE NewSaid
  BY ReturnSays DEF Refused, Returned

LEMMA UnansweredSays ==
    ASSUME TypeInv, Truth, NEW p \in Programs, Unanswered(p) PROVE NewSaid
<1>0. /\ UNCHANGED <<setting, ser, messages>> /\ Local /\ call[p] \in Calls
      /\ Says(call[p], setting.mode[p]) /\ OnTheWire(p)
  BY TypeParts DEF Unanswered, Local, Truth
<1>1. PICK step, d, c :
        /\ step = (IF call[p].tries + 1 = Attempts THEN "failed" ELSE call[p].step)
        /\ d = [call[p] EXCEPT !.tries = call[p].tries + 1]
        /\ c = [d EXCEPT !.step = step]
  OBVIOUS
<1>2. call' = [call EXCEPT ![p] = c]
  BY <1>0, <1>1 DEF Unanswered, Local, Calls
<1>3. c.step = step /\ c.op = call[p].op /\ c.schema = call[p].schema
  BY <1>0, <1>1 DEF Calls
<1>4. step = call[p].step \/ step = "failed"
  BY <1>1
<1>5. step # "done" /\ step # "missing"
  BY <1>0, <1>4 DEF OnTheWire, At
<1>6. Says(c, setting.mode[p])'
  BY <1>0, <1>3, <1>4, <1>5 DEF Says
<1> QED  BY <1>0, <1>2, <1>6, CallSays

LEMMA CrashSays ==
    ASSUME TypeInv, NEW p \in Programs, Crash(p) PROVE NewSaid
<1>0. Local /\ setting' = setting /\ messages' = messages
  BY TypeParts DEF Crash
<1>1. /\ call'[p] = Idle /\ \A q \in Programs \ {p} : call'[q] = call[q]
      /\ ser'[p] = Fresh(p) /\ \A q \in Programs \ {p} : ser'[q] = ser[q]
  BY <1>0 DEF Crash, Local
<1>2. SerNamed(p)'
  <2>1. setting.mode[p] \in Naming => Fresh(p).id = None
    BY DEF Fresh, Naming
  <2> QED  BY <1>0, <1>1, <2>1 DEF SerNamed
<1>3. Says(call[p], setting.mode[p])'
  BY <1>1 DEF Says, Idle
<1> QED  BY <1>0, <1>1, <1>2, <1>3 DEF NewSaid

LEMMA StepSays ==
    ASSUME TypeInv, Truth, NEW p \in Programs, Step(p) PROVE NewSaid
  BY VersionCachedSays, VersionAnsweredSays, VersionMissingSays, PostAnsweredSays,
     IdCachedSays, IdAnsweredSays, IdMissingSays, DeleteAnsweredSays, RefusedSays,
     UnansweredSays DEF Step

LEMMA NextSays ==
    ASSUME TypeInv, Truth, [Next]_vars PROVE NewSaid
<1>1. CASE UNCHANGED vars
  BY <1>1 DEF vars, NewSaid
<1>2. ASSUME NEW p \in Programs, NEW m \in messages, Deserialize(p, m) PROVE NewSaid
  BY <1>2, DeserializeSays
<1>3. ASSUME NEW p \in Programs, NEW op \in setting.ops, NEW version \in 0..MaxVersions,
             NEW schema \in Schemas, Ask(p, op, version, schema)
      PROVE  NewSaid
  BY <1>3, AskSays
<1>4. ASSUME NEW p \in Programs, Serialize(p) \/ Step(p) \/ Crash(p) PROVE NewSaid
  BY <1>4, SerializeSays, StepSays, CrashSays
<1> QED  BY <1>1, <1>2, <1>3, <1>4 DEF Next

\* A new id comes with a new version.
LEMMA PostedUsed ==
    ASSUME RegistryTyped, IdsUsed, NEW subject \in Subjects, NEW schema \in Schemas, NEW id \in Ids,
           Posted(subject, schema, id)
    PROVE  IdsUsed'
<1>0. Grown
  BY PostedGrows
<1> SUFFICES ASSUME NEW i \in DOMAIN schemas'
             PROVE  \E s \in Subjects : \E v \in DOMAIN versions'[s] : versions'[s][v].id = i
  BY DEF IdsUsed
<1>1. CASE i \in DOMAIN schemas
  <2>1. PICK s \in Subjects : \E v \in DOMAIN versions[s] : versions[s][v].id = i
    BY <1>1 DEF IdsUsed
  <2> QED  BY <1>0, <2>1 DEF Grown
<1>2. CASE i \notin DOMAIN schemas
  <2>1. /\ versions' = [versions EXCEPT ![subject] = Append(@, [id |-> id, state |-> "live"])]
        /\ id = Len(schemas) + 1 /\ schemas' = Append(schemas, schema)
    BY <1>2 DEF Posted, registry
  <2>2. i = id
    BY <1>2, <2>1 DEF RegistryTyped
  <2>3. versions'[subject] = Append(versions[subject], [id |-> id, state |-> "live"])
    BY <2>1 DEF RegistryTyped
  <2>4. PICK e : e = [id |-> id, state |-> "live"]
    OBVIOUS
  <2>5. versions[subject] \in Seq(VersionType) /\ e \in VersionType /\ e.id = id
    BY <2>4 DEF RegistryTyped, VersionType
  <2>6. /\ Len(versions[subject]) + 1 \in DOMAIN Append(versions[subject], e)
        /\ Append(versions[subject], e)[Len(versions[subject]) + 1] = e
    BY <2>5
  <2> QED  BY <2>2, <2>3, <2>4, <2>5, <2>6
<1> QED  BY <1>1, <1>2

LEMMA SameIdsUsed ==
    ASSUME IdsUsed, Grown, schemas' = schemas PROVE IdsUsed'
<1> SUFFICES ASSUME NEW i \in DOMAIN schemas
             PROVE  \E s \in Subjects : \E v \in DOMAIN versions'[s] : versions'[s][v].id = i
  BY DEF IdsUsed
<1>1. PICK s \in Subjects : \E v \in DOMAIN versions[s] : versions[s][v].id = i
  BY DEF IdsUsed
<1> QED  BY <1>1 DEF Grown

\* Only a POST hands out ids.
LEMMA OnlyPosted ==
    ASSUME TypeInv, [Next]_vars, schemas' # schemas
    PROVE  \E subject \in Subjects, schema \in Schemas, id \in Ids : Posted(subject, schema, id)
<1>1. PICK p \in Programs : PostAnswered(p) \/ Unanswered(p)
  BY DEF Next, Step, vars, registry, Serialize, Deserialize, Ask, VersionCached, VersionAnswered,
         VersionMissing, IdCached, IdAnswered, IdMissing, DeleteAnswered, Deleted, Refused, Crash
<1>2. At(p, "post") /\ \E id \in Ids : Posted(call[p].subject, call[p].schema, id)
  BY <1>1 DEF PostAnswered, Unanswered, Deleted, registry
<1>3. call[p].subject \in Subjects /\ call[p].schema \in Schemas
  BY <1>2, TypeParts DEF Local, CallShape, Shape, At
<1> QED  BY <1>2, <1>3

LEMMA TruthInit == Init => Truth
<1> SUFFICES ASSUME Init PROVE Truth
  OBVIOUS
<1>1. Entries(<<>>) = {}
  BY DEF Entries, ToSet
<1>2. CachesAreTrue
  BY <1>1 DEF Init, CachesAreTrue
<1>3. HeaderNamesWriterSchema /\ IdsUsed
  BY DEF Init, HeaderNamesWriterSchema, IdsUsed
<1>4. ASSUME NEW p \in Programs PROVE SerNamed(p) /\ Says(call[p], setting.mode[p])
  <2>1. call[p] = Idle /\ ser[p] = Fresh(p)
    BY DEF Init
  <2>2. Says(call[p], setting.mode[p])
    BY <2>1 DEF Says, Idle
  <2>3. setting.mode[p] \in Naming => ser[p].id = None
    BY <2>1 DEF Fresh, Naming
  <2> QED  BY <2>2, <2>3 DEF SerNamed
<1> QED  BY <1>2, <1>3, <1>4 DEF Truth

\* What was true of an id or a version stays true of it.
LEMMA StaysTrue ==
    ASSUME Grown
    PROVE  /\ \A id, schema : Names(id, schema) => Names(id, schema)'
           /\ \A e : e.key[1] \in Subjects /\ WasVersion(e) => WasVersion(e)'
<1>1. ASSUME NEW id, NEW schema, Names(id, schema) PROVE Names(id, schema)'
  BY <1>1 DEF Grown, Names
<1>2. ASSUME NEW e, e.key[1] \in Subjects, WasVersion(e) PROVE WasVersion(e)'
  BY <1>2 DEF Grown, WasVersion
<1> QED  BY <1>1, <1>2

LEMMA TruthStep == TypeInv /\ Truth /\ [Next]_vars => Truth'
<1> SUFFICES ASSUME TypeInv, Truth, [Next]_vars PROVE Truth'
  OBVIOUS
<1>1. Kept /\ RegistryTyped /\ Grown /\ NewSaid /\ setting' = setting /\ CachesTyped /\ Local
  BY NextKeeps, NextSays, TypeParts DEF Kept
<1>2. \A id, schema : Names(id, schema) => Names(id, schema)'
  BY <1>1, StaysTrue
<1>3. CachesAreTrue'
  <2> SUFFICES ASSUME NEW p \in Programs
               PROVE  /\ \A e \in (Entries(byId[p]) \cup writers[p])' : Names(e.key, e.schema)'
                      /\ \A e \in Entries(bySubject[p])' : Names(e.id, e.schema)' /\ WasVersion(e)'
    BY DEF CachesAreTrue, Names, WasVersion
  <2>1. ASSUME NEW e \in (Entries(byId[p]) \cup writers[p])' PROVE Names(e.key, e.schema)'
    <3>1. CASE Names(e.key, e.schema)'
      BY <3>1
    <3>2. CASE e \in Entries(byId[p]) \cup writers[p]
      BY <1>2, <3>2 DEF Truth, CachesAreTrue, Names
    <3> QED  BY <1>1, <2>1, <3>1, <3>2 DEF Kept, NewEntriesTrue
  <2>2. ASSUME NEW e \in Entries(bySubject[p])' PROVE Names(e.id, e.schema)' /\ WasVersion(e)'
    <3>1. CASE Names(e.id, e.schema)' /\ WasVersion(e)'
      BY <3>1
    <3>2. CASE e \in Entries(bySubject[p])
      <4>1. e \in SubjectEntries
        BY <1>1, <3>2 DEF CachesTyped, Entries, ToSet
      <4>2. e.key[1] \in Subjects /\ Names(e.id, e.schema) /\ WasVersion(e)
        BY <3>2, <4>1 DEF SubjectEntries, Truth, CachesAreTrue, Names, WasVersion
      <4> QED  BY <1>1, <1>2, <4>2, StaysTrue
    <3> QED  BY <1>1, <2>2, <3>1, <3>2 DEF Kept, NewEntriesTrue
  <2> QED  BY <2>1, <2>2
<1>4. \A m \in messages : m.mode \in Naming => Names(m.id, m.writer)
  BY DEF Truth, HeaderNamesWriterSchema, Names
<1>5. HeaderNamesWriterSchema'
  <2>1. ASSUME NEW m \in messages', m.mode \in Naming PROVE Names(m.id, m.writer)'
    BY <1>1, <1>2, <1>4, <2>1 DEF NewSaid
  <2> QED  BY <2>1 DEF HeaderNamesWriterSchema, Names
<1>6. IdsUsed'
  <2>1. CASE schemas' = schemas
    BY <1>1, <2>1, SameIdsUsed DEF Truth
  <2>2. CASE schemas' # schemas
    BY <1>1, <2>2, OnlyPosted, PostedUsed DEF Truth
  <2> QED  BY <2>1, <2>2
<1>7. ASSUME NEW p \in Programs PROVE SerNamed(p)'
  <2>1. CASE ser'[p] = ser[p]
    <3>1. SerNamed(p)
      BY DEF Truth
    <3>2. PICK id, schema : id = ser[p].id /\ schema = ser[p].schema
      OBVIOUS
    <3>3. setting.mode[p] \in Naming /\ id # None => Names(id, schema)'
      BY <1>2, <3>1, <3>2 DEF SerNamed
    <3> QED  BY <1>1, <2>1, <3>2, <3>3 DEF SerNamed, Names
  <2> QED  BY <1>1, <2>1 DEF NewSaid
<1>8. ASSUME NEW p \in Programs PROVE Says(call[p], setting.mode[p])'
  <2>1. CASE call'[p] = call[p]
    <3>1. PICK c, mode : c = call[p] /\ mode = setting.mode[p]
      OBVIOUS
    <3>2. Says(c, mode) /\ Shape(c, mode, messages)
      BY <1>1, <3>1 DEF Truth, Local, CallShape
    <3>3. c.op = "deserialize" /\ c.message.mode \in Naming => Names(c.message.id, c.message.writer)
      BY <1>4, <3>2 DEF Shape
    <3>4. c.op = "deserialize" /\ c.message.mode \in Naming /\ ~Known(c.message.id)
             => ~Known(c.message.id)'
      BY <1>1, <3>3 DEF Grown, Names
    <3>5. c.op = "deserialize" /\ c.step = "done" => Names(c.message.id, c.got)'
      BY <1>2, <3>2 DEF Says
    <3>6. Says(c, mode)'
      BY <3>2, <3>4, <3>5 DEF Says
    <3> QED  BY <1>1, <2>1, <3>1, <3>6 DEF Says
  <2> QED  BY <1>1, <2>1 DEF NewSaid
<1> QED  BY <1>3, <1>5, <1>6, <1>7, <1>8 DEF Truth

Inv == TypeInv /\ Truth

LEMMA InvStep == Inv /\ [Next]_vars => Inv'
  BY TypeStep, TruthStep DEF Inv

LEMMA Invariance == Spec => []Inv
<1>1. Init => Inv
  BY TypeInit, TruthInit DEF Inv
<1> QED  BY <1>1, InvStep, PTL DEF Spec

\* No cache ever holds an id with another schema than the one it was handed out
\* for, nor a version that never was the subject's.
THEOREM CachesStayTrue == Spec => []CachesAreTrue
<1>1. Inv => CachesAreTrue
  BY DEF Inv, Truth
<1> QED  BY <1>1, Invariance, PTL

\* Every header that a registering serializer writes names the schema of its payload.
THEOREM HeadersName == Spec => []HeaderNamesWriterSchema
<1>1. Inv => HeaderNamesWriterSchema
  BY DEF Inv, Truth
<1> QED  BY <1>1, Invariance, PTL

\* The schema a call holds is the message's.
LEMMA DecodedSame ==
    ASSUME Inv, NEW p \in Programs, call[p].op = "deserialize", At(p, "done"),
           call[p].message.mode \in Naming
    PROVE  call[p].got = call[p].message.writer
<1>1. call[p].message \in messages
  BY TypeParts DEF Inv, Local, CallShape, Shape
<1>2. Names(call[p].message.id, call[p].message.writer)
  BY <1>1 DEF Inv, Truth, HeaderNamesWriterSchema, Names
<1>3. Names(call[p].message.id, call[p].got)
  BY DEF Inv, Truth, Says, At
<1> QED  BY <1>2, <1>3 DEF Names

\* What such a message is decoded with is what it was encoded with, whatever was
\* cached, deleted or registered again in between.
THEOREM Decoding == Spec => []DecodedAsWritten
<1>1. Inv => DecodedAsWritten
  BY DecodedSame DEF DecodedAsWritten
<1> QED  BY <1>1, Invariance, PTL

LEMMA MissingGone ==
    ASSUME Inv, NEW p \in Programs, call[p].op = "deserialize", At(p, "missing"),
           call[p].message.mode \in Naming
    PROVE  /\ ~Known(call[p].message.id)
           /\ \E s \in Subjects : \E v \in DOMAIN versions[s] : versions[s][v].id = call[p].message.id
<1>1. call[p].message \in messages
  BY TypeParts DEF Inv, Local, CallShape, Shape
<1>2. Names(call[p].message.id, call[p].message.writer)
  BY <1>1 DEF Inv, Truth, HeaderNamesWriterSchema, Names
<1>3. ~Known(call[p].message.id)
  BY DEF Inv, Truth, Says, At
<1> QED  BY <1>2, <1>3 DEF Inv, Truth, IdsUsed, Names

\* A message's schema is only ever missing after every version of it was deleted
\* for good.
THEOREM Missing == Spec => []MissingIsGone
<1>1. Inv => MissingIsGone
  BY MissingGone DEF MissingIsGone
<1> QED  BY <1>1, Invariance, PTL

-----------------------------------------------------------------------------
(* What a registration returns, while nobody deletes *)

Keeping == setting.ops \cap {"delete", "purge"} = {}

OfSubject(subject, id) == \E v \in DOMAIN versions[subject] : versions[subject][v].id = id

Registration(c, mode) == c.op \in {"register", "get_or_register"} \/ (c.op = "serialize" /\ mode \in Naming)

\* A registration that is done has an id of its subject that names its schema.
Promise(c, mode) ==
    /\ c.step = "get" => c.op # "register"
    /\ c.step = "delete" => c.op \in {"delete", "purge"} /\ ~Keeping
    /\ c.step = "done" /\ Registration(c, mode) =>
          /\ c.subject \in Subjects /\ OfSubject(c.subject, c.id)
          /\ Names(c.id, c.got) /\ c.schema \in {None, c.got}

AllLive == Keeping => \A s \in Subjects : \A v \in DOMAIN versions[s] : versions[s][v].state = "live"

Promises == AllLive /\ \A p \in Programs : Promise(call[p], setting.mode[p])

NewPromises == \A p \in Programs : call'[p] = call[p] \/ Promise(call[p], setting.mode[p])'

LEMMA CallPromises ==
    ASSUME TypeInv, setting' = setting, NEW p \in Programs, NEW c, call' = [call EXCEPT ![p] = c],
           Promise(c, setting.mode[p])'
    PROVE  NewPromises
<1>1. call'[p] = c /\ \A q \in Programs \ {p} : call'[q] = call[q]
  BY TypeParts DEF Local
<1>2. Promise(call[p], setting.mode[p])'
  BY <1>1 DEF Promise, Registration, OfSubject, Names, Keeping
<1> QED  BY <1>1, <1>2 DEF NewPromises

\* A call that goes on, or ends without success, promises nothing.
LEMMA NoPromise ==
    ASSUME TypeInv, setting' = setting, NEW p \in Programs, NEW c, call' = [call EXCEPT ![p] = c],
           c.step = "get" => c.op # "register", c.step # "delete",
           c.step = "done" => c.op \notin {"register", "get_or_register", "serialize"}
    PROVE  NewPromises
<1>1. Promise(c, setting.mode[p])'
  BY DEF Promise, Registration
<1> QED  BY <1>1, CallPromises

LEMMA ReturnPromises ==
    ASSUME TypeInv, setting' = setting, NEW p \in Programs, NEW how \in Returned \ {"done"}, Return(p, how)
    PROVE  NewPromises
<1>1. PICK c : c = [Idle EXCEPT !.op = call[p].op, !.message = call[p].message, !.step = how]
  OBVIOUS
<1>2. call' = [call EXCEPT ![p] = c]
  BY <1>1 DEF Return
<1>3. c.step = how
  BY <1>1 DEF Idle
<1> QED  BY <1>2, <1>3, NoPromise DEF Returned

LEMMA FinishPromises ==
    ASSUME TypeInv, setting' = setting, NEW p \in Programs, NEW id, NEW schema, Finish(p, id, schema),
           NEW subject, call[p].subject = subject,
           Registration(call[p], setting.mode[p]) =>
              /\ subject \in Subjects /\ OfSubject(subject, id)'
              /\ Names(id, schema)' /\ call[p].schema \in {None, schema}
    PROVE  NewPromises
<1>0. call[p] \in Calls
  BY TypeParts DEF Local
<1>1. PICK c : c = [call[p] EXCEPT !.step = "done", !.id = id, !.got = schema]
  OBVIOUS
<1>2. call' = [call EXCEPT ![p] = c]
  BY <1>1 DEF Finish
<1>3. /\ c.step = "done" /\ c.op = call[p].op /\ c.subject = call[p].subject /\ c.id = id
      /\ c.got = schema /\ c.schema = call[p].schema
  BY <1>0, <1>1 DEF Calls
<1>4. PICK asked, op : asked = call[p].schema /\ op = call[p].op
  OBVIOUS
<1>5. op \in {"register", "get_or_register"} \/ (op = "serialize" /\ setting.mode[p] \in Naming) =>
         /\ subject \in Subjects /\ OfSubject(subject, id)'
         /\ Names(id, schema)' /\ asked \in {None, schema}
  BY <1>4 DEF Registration
<1>6. Promise(c, setting.mode[p])'
  BY <1>3, <1>4, <1>5 DEF Promise, Registration
<1> QED  BY <1>2, <1>6, CallPromises

LEMMA SerializePromises ==
    ASSUME TypeInv, NEW p \in Programs, Serialize(p) PROVE NewPromises
<1>1. CASE UNCHANGED call
  BY <1>1 DEF NewPromises
<1>2. CASE ser[p].id = None
  <2>1. PICK c : c = [Idle EXCEPT !.op = "serialize", !.subject = setting.subject[p],
                     !.step = IF setting.mode[p] = "direct" THEN "post" ELSE "get",
                     !.schema = IF setting.mode[p] = "latest" THEN None ELSE setting.schema[p]]
    OBVIOUS
  <2>2. call' = [call EXCEPT ![p] = c] /\ setting' = setting
    BY <1>2, <2>1 DEF Serialize, Begin
  <2>3. c.op = "serialize" /\ c.step \in {"get", "post"}
    BY <2>1 DEF Idle
  <2> QED  BY <2>2, <2>3, NoPromise
<1> QED  BY <1>1, <1>2 DEF Serialize

LEMMA DeserializePromises ==
    ASSUME TypeInv, NEW p \in Programs, NEW m \in messages, Deserialize(p, m) PROVE NewPromises
<1>1. PICK c : c = [Idle EXCEPT !.op = "deserialize", !.message = m]
  OBVIOUS
<1>2. \E d : /\ call' = [call EXCEPT ![p] = d]
             /\ d = [c EXCEPT !.step = "resolve"] \/ \E e \in writers[p] : d = [c EXCEPT !.got = e.schema]
  BY <1>1 DEF Deserialize, Begin
<1>3. PICK d : /\ call' = [call EXCEPT ![p] = d]
               /\ d = [c EXCEPT !.step = "resolve"] \/ \E e \in writers[p] : d = [c EXCEPT !.got = e.schema]
  BY <1>2
<1>4. d.op = "deserialize" /\ d.step \in {"resolve", "done"}
  BY <1>1, <1>3 DEF Idle
<1> QED  BY <1>3, <1>4, NoPromise DEF Deserialize

LEMMA AskPromises ==
    ASSUME TypeInv, NEW p \in Programs, NEW op \in setting.ops, NEW version \in 0..MaxVersions,
           NEW schema \in Schemas, Ask(p, op, version, schema)
    PROVE  NewPromises
<1>0. setting' = setting /\ setting \in Circumstances
  BY TypeParts DEF Ask
<1>1. op \in {"register", "get_or_register", "get_schema", "delete", "purge"}
  BY <1>0 DEF Circumstances
<1>2. PICK c : c = [Idle EXCEPT !.op = op, !.subject = setting.subject[p]]
  OBVIOUS
<1>3. PICK d :
        d = CASE op = "register" -> [c EXCEPT !.step = "post", !.schema = schema]
              [] op = "get_or_register" -> [c EXCEPT !.step = "get", !.schema = schema]
              [] op = "get_schema" -> [c EXCEPT !.step = "get", !.version = version]
              [] OTHER -> [c EXCEPT !.step = "delete", !.version = version]
  OBVIOUS
<1>4. call' = [call EXCEPT ![p] = d]
  BY <1>2, <1>3 DEF Ask, Begin
<1>5. \/ op = "register" /\ d = [c EXCEPT !.step = "post", !.schema = schema]
      \/ op = "get_or_register" /\ d = [c EXCEPT !.step = "get", !.schema = schema]
      \/ op = "get_schema" /\ d = [c EXCEPT !.step = "get", !.version = version]
      \/ op \in {"delete", "purge"} /\ d = [c EXCEPT !.step = "delete", !.version = version]
  BY <1>1, <1>3
<1>6. /\ d.step = "get" => op # "register"
      /\ d.step = "delete" => op \in {"delete", "purge"}
      /\ d.step # "done" /\ d.op = op
  BY <1>2, <1>5 DEF Idle
<1>7. Promise(d, setting.mode[p])'
  BY <1>0, <1>6 DEF Promise, Keeping
<1> QED  BY <1>0, <1>4, <1>7, CallPromises

LEMMA ToPostPromises ==
    ASSUME TypeInv, NEW p \in Programs, setting' = setting,
           call' = [call EXCEPT ![p].step = "post", ![p].tries = 0]
    PROVE  NewPromises
<1>0. Local /\ call[p] \in Calls
  BY TypeParts DEF Local
<1>1. PICK c : c = [call[p] EXCEPT !.step = "post", !.tries = 0]
  OBVIOUS
<1>2. call' = [call EXCEPT ![p] = c]
  BY <1>0, <1>1 DEF Local, Calls
<1>3. c.step = "post"
  BY <1>0, <1>1 DEF Calls
<1> QED  BY <1>2, <1>3, NoPromise

LEMMA GotVersionPromises ==
    ASSUME TypeInv, Truth, Promises, NEW p \in Programs, At(p, "get"), NEW entry, entry.id \in Ids,
           entry.schema \in Schemas, GotVersion(p, entry), setting' = setting,
           NEW subject, call[p].subject = subject, Names(entry.id, entry.schema)', OfSubject(subject, entry.id)'
    PROVE  NewPromises
<1>0. /\ call[p] \in Calls /\ CallShape(p) /\ Says(call[p], setting.mode[p])
      /\ Promise(call[p], setting.mode[p])
  BY TypeParts DEF Local, Truth, Promises
<1>1. CASE Registers(p) /\ entry.schema # call[p].schema
  BY <1>1, ToPostPromises DEF GotVersion
<1>2. CASE ~(Registers(p) /\ entry.schema # call[p].schema)
  <2>1. PICK schema : schema = IF call[p].schema = None THEN entry.schema ELSE call[p].schema
    OBVIOUS
  <2>2. Finish(p, entry.id, schema)
    BY <1>2, <2>1 DEF GotVersion
  <2>3. subject \in Subjects /\ call[p].op # "register"
    BY <1>0 DEF CallShape, Shape, At, Promise
  <2>4. Registration(call[p], setting.mode[p]) => schema = entry.schema
    <3>1. CASE call[p].op = "get_or_register"
      BY <1>2, <2>1, <3>1 DEF Registers
    <3>2. CASE call[p].op = "serialize" /\ setting.mode[p] \in Naming
      <4>1. setting.mode[p] = "given" \/ call[p].schema = None
        BY <1>0, <3>2 DEF Says, At
      <4> QED  BY <1>2, <2>1, <3>2, <4>1 DEF Registers
    <3> QED  BY <2>3, <3>1, <3>2 DEF Registration
  <2>5. call[p].schema \in {None, schema}
    BY <2>1
  <2>6. Registration(call[p], setting.mode[p]) => Names(entry.id, schema)'
    BY <2>4
  <2> QED  BY <2>2, <2>3, <2>5, <2>6, FinishPromises
<1> QED  BY <1>1, <1>2

LEMMA VersionCachedPromises ==
    ASSUME TypeInv, Truth, Promises, NEW p \in Programs, VersionCached(p) PROVE NewPromises
<1>0. /\ bySubject[p] \in Seq(SubjectEntries) /\ UNCHANGED <<setting, registry>> /\ At(p, "get")
      /\ Holds(bySubject[p], SubjectKey(p))
      /\ GotVersion(p, bySubject[p][Place(bySubject[p], SubjectKey(p))])
  BY TypeParts DEF VersionCached, CachesTyped
<1>1. PICK entry : entry = bySubject[p][Place(bySubject[p], SubjectKey(p))]
  OBVIOUS
<1>2. entry \in SubjectEntries /\ entry \in Entries(bySubject[p]) /\ entry.key = SubjectKey(p)
  BY <1>0, <1>1, UsedEntries
<1>3. entry.id \in Ids /\ entry.schema \in Schemas /\ Names(entry.id, entry.schema)
  BY <1>2 DEF SubjectEntries, Truth, CachesAreTrue, Names
<1>4. OfSubject(call[p].subject, entry.id)
  BY <1>2 DEF Truth, CachesAreTrue, OfSubject, SubjectKey
<1>5. PICK subject : subject = call[p].subject
  OBVIOUS
<1>6. Names(entry.id, entry.schema)' /\ OfSubject(subject, entry.id)'
  BY <1>0, <1>3, <1>4, <1>5 DEF Names, OfSubject, registry
<1> QED  BY <1>0, <1>1, <1>3, <1>5, <1>6, GotVersionPromises

LEMMA VersionAnsweredPromises ==
    ASSUME TypeInv, Truth, Promises, NEW p \in Programs, VersionAnswered(p) PROVE NewPromises
<1>0. /\ RegistryTyped /\ TypeOK /\ UNCHANGED <<setting, registry>> /\ At(p, "get")
      /\ CallShape(p)
  BY TypeParts DEF VersionAnswered, TypeInv, Local
<1>1. PICK v \in Named(call[p].subject, call[p].version) :
         LET id == versions[call[p].subject][v].id
             entry == [key |-> SubjectKey(p), id |-> id, schema |-> schemas[id]]
         IN GotVersion(p, entry)
  BY DEF VersionAnswered
<1>2. PICK id, entry, subject :
         /\ subject = call[p].subject /\ id = versions[subject][v].id
         /\ entry = [key |-> SubjectKey(p), id |-> id, schema |-> schemas[id]]
         /\ GotVersion(p, entry)
  BY <1>1
<1>3. subject \in Subjects /\ v \in DOMAIN versions[subject]
  BY <1>0, <1>2 DEF CallShape, Shape, At, Named, Live
<1>4. id \in DOMAIN schemas /\ id \in Ids /\ schemas[id] \in Schemas
  BY <1>0, <1>2, <1>3, DomainIds DEF RegistryTyped, VersionsNamed
<1>5. entry.id = id /\ entry.schema = schemas[id]
  BY <1>2
<1>6. Names(entry.id, entry.schema)' /\ OfSubject(subject, entry.id)'
  BY <1>0, <1>2, <1>3, <1>4, <1>5 DEF Names, OfSubject, registry
<1> QED  BY <1>0, <1>2, <1>4, <1>5, <1>6, GotVersionPromises

LEMMA VersionMissingPromises ==
    ASSUME TypeInv, NEW p \in Programs, VersionMissing(p) PROVE NewPromises
<1>1. CASE call' = [call EXCEPT ![p].step = "post", ![p].tries = 0]
  BY <1>1, ToPostPromises DEF VersionMissing
<1>2. CASE Return(p, "missing")
  BY <1>2, ReturnPromises DEF Returned, VersionMissing
<1> QED  BY <1>1, <1>2 DEF VersionMissing

\* The id answered is a version of the subject, a live one if there were only live ones.
LEMMA PostedIsOfSubject ==
    ASSUME RegistryTyped, NEW subject \in Subjects, NEW schema \in Schemas, NEW id \in Ids,
           Posted(subject, schema, id), setting' = setting
    PROVE  OfSubject(subject, id)' /\ (AllLive => AllLive')
<1>1. CASE UNCHANGED registry /\ \E v \in Live(subject) : versions[subject][v].id = id
  BY <1>1 DEF OfSubject, AllLive, Live, registry, Keeping
<1>2. CASE versions' = [versions EXCEPT ![subject] = Append(@, [id |-> id, state |-> "live"])]
  <2>1. PICK e : e = [id |-> id, state |-> "live"]
    OBVIOUS
  <2>2. versions[subject] \in Seq(VersionType) /\ e \in VersionType /\ e.id = id /\ e.state = "live"
    BY <2>1 DEF RegistryTyped, VersionType
  <2>3. PICK old : old = versions[subject]
    OBVIOUS
  <2>4. /\ versions'[subject] = Append(old, e) /\ DOMAIN versions' = Subjects
        /\ \A s \in Subjects \ {subject} : versions'[s] = versions[s]
    BY <1>2, <2>1, <2>3 DEF RegistryTyped
  <2>5. /\ DOMAIN Append(old, e) = 1..(Len(old) + 1) /\ DOMAIN old = 1..Len(old) /\ Len(old) \in Nat
        /\ Append(old, e)[Len(old) + 1] = e /\ \A v \in DOMAIN old : Append(old, e)[v] = old[v]
    BY <2>2, <2>3
  <2>6. OfSubject(subject, id)'
    BY <2>2, <2>4, <2>5 DEF OfSubject
  <2>7. ASSUME AllLive, Keeping, NEW s \in Subjects, NEW v \in DOMAIN versions'[s]
        PROVE  versions'[s][v].state = "live"
    <3>1. CASE s = subject
      <4>1. v = Len(old) + 1 \/ v \in DOMAIN old
        BY <2>4, <2>5, <2>7, <3>1
      <4> QED  BY <2>2, <2>3, <2>4, <2>5, <2>7, <3>1, <4>1 DEF AllLive
    <3>2. CASE s # subject
      BY <2>4, <2>7, <3>2 DEF AllLive
    <3> QED  BY <3>1, <3>2
  <2>8. Keeping' <=> Keeping
    BY DEF Keeping
  <2> QED  BY <2>6, <2>7, <2>8 DEF AllLive
<1> QED  BY <1>1, <1>2 DEF Posted

LEMMA PostAnsweredPromises ==
    ASSUME TypeInv, NEW p \in Programs, PostAnswered(p) PROVE NewPromises
<1>0. RegistryTyped /\ CallShape(p) /\ At(p, "post") /\ setting' = setting
  BY TypeParts DEF PostAnswered, Local
<1>1. PICK subject, schema : subject = call[p].subject /\ schema = call[p].schema
  OBVIOUS
<1>2. PICK id \in Ids : Posted(subject, schema, id) /\ Finish(p, id, schema)
  BY <1>1 DEF PostAnswered
<1>3. subject \in Subjects /\ schema \in Schemas
  BY <1>0, <1>1 DEF At, CallShape, Shape
<1>4. Names(id, schema)' /\ OfSubject(subject, id)'
  BY <1>0, <1>2, <1>3, PostedGrows, PostedIsOfSubject
<1> QED  BY <1>0, <1>1, <1>2, <1>3, <1>4, FinishPromises

LEMMA ResolvedPromises ==
    ASSUME TypeInv, NEW p \in Programs, IdCached(p) \/ IdAnswered(p) PROVE NewPromises
<1>0. call[p] \in Calls /\ call[p].op = "deserialize" /\ setting' = setting
  BY Resolving, TypeParts DEF Local, IdCached, IdAnswered
<1>1. PICK schema : Resolved(p, call[p].message.id, schema)
  BY DEF IdCached, IdAnswered
<1>2. PICK c : c = [call[p] EXCEPT !.step = "done", !.got = schema]
  OBVIOUS
<1>3. call' = [call EXCEPT ![p] = c]
  BY <1>1, <1>2 DEF Resolved
<1>4. c.op = "deserialize" /\ c.step = "done"
  BY <1>0, <1>2 DEF Calls
<1> QED  BY <1>0, <1>3, <1>4, NoPromise

LEMMA DeleteAnsweredPromises ==
    ASSUME TypeInv, Promises, NEW p \in Programs, DeleteAnswered(p)
    PROVE  NewPromises /\ ~Keeping
<1>0. At(p, "delete") /\ setting' = setting /\ call[p] \in Calls /\ CallShape(p)
  BY TypeParts DEF DeleteAnswered, Local
<1>1. ~Keeping /\ call[p].op \in {"delete", "purge"}
  BY <1>0 DEF At, Promises, Promise
<1>2. CASE Return(p, "missing")
  BY <1>0, <1>1, <1>2, ReturnPromises DEF Returned
<1>3. CASE Return(p, "done")
  <2>1. PICK c : c = [Idle EXCEPT !.op = call[p].op, !.message = call[p].message, !.step = "done"]
    OBVIOUS
  <2>2. call' = [call EXCEPT ![p] = c]
    BY <1>3, <2>1 DEF Return
  <2>3. c.step = "done" /\ c.op = call[p].op
    BY <2>1 DEF Idle
  <2> QED  BY <1>0, <1>1, <2>2, <2>3, NoPromise
<1> QED  BY <1>1, <1>2, <1>3 DEF DeleteAnswered

LEMMA UnansweredPromises ==
    ASSUME TypeInv, Promises, NEW p \in Programs, Unanswered(p) PROVE NewPromises
<1>0. /\ setting' = setting /\ Local /\ call[p] \in Calls /\ Promise(call[p], setting.mode[p]) /\ OnTheWire(p)
  BY TypeParts DEF Unanswered, Local, Promises
<1>1. PICK step, d, c :
        /\ step = (IF call[p].tries + 1 = Attempts THEN "failed" ELSE call[p].step)
        /\ d = [call[p] EXCEPT !.tries = call[p].tries + 1]
        /\ c = [d EXCEPT !.step = step]
  OBVIOUS
<1>2. call' = [call EXCEPT ![p] = c]
  BY <1>0, <1>1 DEF Unanswered, Local, Calls
<1>3. c.step = step /\ c.op = call[p].op
  BY <1>0, <1>1 DEF Calls
<1>4. step = call[p].step \/ step = "failed"
  BY <1>1
<1>5. step # "done" /\ (step = "delete" => c.op \in {"delete", "purge"} /\ ~Keeping) /\ (step = "get" => c.op # "register")
  BY <1>0, <1>3, <1>4 DEF OnTheWire, At, Promise
<1>6. Promise(c, setting.mode[p])'
  BY <1>0, <1>3, <1>5 DEF Promise, Keeping
<1> QED  BY <1>0, <1>2, <1>6, CallPromises

LEMMA NextPromises ==
    ASSUME TypeInv, Truth, Promises, [Next]_vars PROVE NewPromises
<1>1. CASE UNCHANGED vars
  BY <1>1 DEF vars, NewPromises
<1>2. ASSUME NEW p \in Programs, NEW m \in messages, Deserialize(p, m) PROVE NewPromises
  BY <1>2, DeserializePromises
<1>3. ASSUME NEW p \in Programs, NEW op \in setting.ops, NEW version \in 0..MaxVersions,
             NEW schema \in Schemas, Ask(p, op, version, schema)
      PROVE  NewPromises
  BY <1>3, AskPromises
<1>4. ASSUME NEW p \in Programs, Crash(p) PROVE NewPromises
  <2>1. PICK c : c = Idle
    OBVIOUS
  <2>2. call' = [call EXCEPT ![p] = c] /\ setting' = setting /\ c.op = "none" /\ c.step = "done"
    BY <1>4, <2>1 DEF Crash, Idle
  <2> QED  BY <2>2, NoPromise
<1>5. ASSUME NEW p \in Programs, Refused(p) \/ IdMissing(p) PROVE NewPromises
  BY <1>5, ReturnPromises DEF Refused, IdMissing, Returned
<1>6. ASSUME NEW p \in Programs, Step(p) PROVE NewPromises
  BY <1>5, <1>6, VersionCachedPromises, VersionAnsweredPromises, VersionMissingPromises, PostAnsweredPromises,
     ResolvedPromises, DeleteAnsweredPromises, UnansweredPromises DEF Step
<1> QED  BY <1>1, <1>2, <1>3, <1>4, <1>6, SerializePromises DEF Next

LEMMA PromisesStep == Inv /\ Promises /\ [Next]_vars => Promises'
<1> SUFFICES ASSUME Inv, Promises, [Next]_vars PROVE Promises'
  OBVIOUS
<1>1. /\ TypeInv /\ Truth /\ NewPromises /\ Grown /\ setting' = setting /\ RegistryTyped
      /\ call \in [Programs -> Calls]
  BY NextPromises, NextKeeps, TypeParts DEF Inv, Kept, Local
<1>2. AllLive'
  <2>1. CASE UNCHANGED registry
    BY <1>1, <2>1 DEF Promises, AllLive, Keeping, registry
  <2>2. ASSUME NEW subject \in Subjects, NEW schema \in Schemas, NEW id \in Ids, Posted(subject, schema, id)
        PROVE  AllLive'
    BY <1>1, <2>2, PostedIsOfSubject DEF Promises
  <2>3. ASSUME NEW p \in Programs, PostAnswered(p) \/ Unanswered(p) \/ DeleteAnswered(p)
        PROVE  AllLive'
    <3>1. CASE At(p, "post") /\ \E id \in Ids : Posted(call[p].subject, call[p].schema, id)
      <4>1. call[p].subject \in Subjects /\ call[p].schema \in Schemas
        BY <1>1, <3>1, TypeParts DEF Local, CallShape, Shape, At
      <4> QED  BY <2>2, <3>1, <4>1
    <3>2. CASE At(p, "delete")
      BY <1>1, <3>2 DEF Promises, Promise, At, AllLive, Keeping
    <3> QED  BY <2>1, <2>3, <3>1, <3>2 DEF PostAnswered, Unanswered, DeleteAnswered
  <2> QED  BY <2>1, <2>3 DEF Next, Step, vars, registry, Serialize, Deserialize, Ask, VersionCached,
             VersionAnswered, VersionMissing, IdCached, IdAnswered, IdMissing, Refused, Crash
<1>3. ASSUME NEW p \in Programs PROVE Promise(call[p], setting.mode[p])'
  <2>1. CASE call'[p] = call[p]
    <3>1. PICK c, mode : c = call[p] /\ mode = setting.mode[p]
      OBVIOUS
    <3>2. Promise(c, mode)
      BY <3>1 DEF Promises
    <3>3. c.subject \in Subjects /\ OfSubject(c.subject, c.id) => OfSubject(c.subject, c.id)'
      BY <1>1 DEF Grown, OfSubject
    <3>4. Names(c.id, c.got) => Names(c.id, c.got)'
      BY <1>1, StaysTrue
    <3>5. Promise(c, mode)'
      BY <1>1, <3>2, <3>3, <3>4 DEF Promise, Registration, Keeping
    <3> QED  BY <1>1, <2>1, <3>1, <3>5 DEF Promise, Registration, OfSubject, Names, Keeping
  <2> QED  BY <1>1, <2>1 DEF NewPromises
<1> QED  BY <1>2, <1>3 DEF Promises

\* While nobody deletes, a registration that returns has the id of a live version of
\* its subject, which names the schema that was asked for.
THEOREM RegistrationsHold == Spec => []RegisteredOnReturn
<1>1. Init => Promises
  BY DEF Init, Promises, AllLive, Promise, Registration, Idle
<1>2. Inv /\ Promises => RegisteredOnReturn
  <2> SUFFICES ASSUME Inv, Promises, NEW p \in Programs,
                      setting.ops \cap {"delete", "purge"} = {}, At(p, "done"),
                      Registration(call[p], setting.mode[p])
               PROVE  /\ \E v \in Live(call[p].subject) : versions[call[p].subject][v].id = call[p].id
                      /\ schemas[call[p].id] = call[p].got
                      /\ call[p].schema \in {None, call[p].got}
    BY DEF RegisteredOnReturn, Registration
  <2>1. Promise(call[p], setting.mode[p]) /\ AllLive /\ Keeping
    BY DEF Promises, Keeping
  <2> QED  BY <2>1 DEF Promise, At, Names, OfSubject, AllLive, Live
<1> QED  BY <1>1, <1>2, Invariance, InvStep, PromisesStep, PTL DEF Spec

-----------------------------------------------------------------------------
(* What the compatibility check approves *)

LEMMA FieldCompared ==
    ASSUME NEW new, NEW old, IsSchema(new), IsSchema(old), NEW f \in DOMAIN new \cap DOMAIN old,
           ~Redefined(new, old), "type_changed" \notin ChangeKinds(new, old)
    PROVE  /\ new[f].type.form = old[f].type.form
           /\ new[f].type.branches \subseteq Branches /\ old[f].type.branches \subseteq Branches
           /\ new[f].type.form # "union" =>
                 \/ new[f].type.branches = old[f].type.branches
                 \/ Widened(new[f].type, old[f].type)
           /\ \A b \in new[f].type.branches, c \in old[f].type.branches : b.label = c.label => b = c
<1> DEFINE n == new[f].type
           o == old[f].type
<1>1. n \in Types /\ o \in Types
  BY DEF IsSchema, FieldDefs
<1>2. n.branches \subseteq Branches /\ o.branches \subseteq Branches
  BY <1>1 DEF Types
<1>3. "type_changed" \notin TypeChanges(n, o)
  BY DEF ChangeKinds, FieldChanges
<1>4. \A b \in n.branches, c \in o.branches : b.label = c.label => b = c
  <2>1. \A b \in n.branches, c \in o.branches : b.label = c.label => b.body = c.body
    BY DEF Redefined
  <2> QED  BY <1>2, <2>1 DEF Branches
<1>5. n.form # "union" /\ o.form # "union" => \E b, c \in Branches : n.branches = {b} /\ o.branches = {c}
  BY DEF IsSchema
<1>6. n.form = o.form
  BY <1>3 DEF TypeChanges
<1>7. n.form # "union" => LabelsOf(n) = LabelsOf(o) \/ Widened(n, o)
  BY <1>3 DEF TypeChanges
<1>8. ASSUME n.form # "union", LabelsOf(n) = LabelsOf(o)
      PROVE  n.branches = o.branches
  <2>1. PICK b \in Branches, c \in Branches : n.branches = {b} /\ o.branches = {c}
    BY <1>5, <1>6, <1>8
  <2>2. b.label = c.label
    BY <1>8, <2>1 DEF LabelsOf
  <2> QED  BY <1>4, <2>1, <2>2
<1> QED  BY <1>2, <1>4, <1>6, <1>7, <1>8

\* Approved as BACKWARD, and none of the gaps: the new schema reads what the old one wrote.
LEMMA BackwardReads ==
    ASSUME NEW new, NEW old, IsSchema(new), IsSchema(old), IsBackward(new, old), ~BackwardGap(new, old)
    PROVE  Reads(new, old)
<1>0. /\ "type_changed" \notin ChangeKinds(new, old) /\ "field_added_no_default" \notin ChangeKinds(new, old)
      /\ ~Redefined(new, old)
  BY DEF IsBackward, BackwardGap
<1>1. ASSUME NEW f \in DOMAIN new \cap DOMAIN old
      PROVE  ReadsType(new[f].type, old[f].type)
  <2> SUFFICES ASSUME NEW w \in old[f].type.branches
               PROVE  \E r \in new[f].type.branches : ReadsBranch(r, w)
    BY DEF ReadsType
  <2>1. CASE new[f].type.form = "union"
    <3>1. w.label \in LabelsOf(new[f].type)
      BY <2>1 DEF BackwardGap, LabelsOf
    <3>2. PICK r \in new[f].type.branches : r.label = w.label
      BY <3>1 DEF LabelsOf
    <3>3. r = w
      BY <1>0, <3>2, FieldCompared
    <3> QED  BY <3>3 DEF ReadsBranch
  <2>2. CASE new[f].type.branches = old[f].type.branches
    BY <2>2 DEF ReadsBranch
  <2>3. CASE Widened(new[f].type, old[f].type) /\ new[f].type.form # "union"
    <3>1. PICK r : new[f].type.branches = {r}
      BY <2>3 DEF IsSchema
    <3>2. <<w.label, r.label>> \in NumericWidening
      BY <2>3, <3>1 DEF Widened
    <3> QED  BY <3>1, <3>2 DEF ReadsBranch
  <2> QED  BY <1>0, <2>1, <2>2, <2>3, FieldCompared
<1>2. ASSUME NEW f \in DOMAIN new, f \notin DOMAIN old
      PROVE  new[f].default # NoDefault
  <2>1. "field_added_no_default" \notin FieldChanges(new, old, f)
    BY <1>0 DEF ChangeKinds
  <2>2. new[f].default # NoDefault \/ Nullable(new[f].type)
    BY <1>2, <2>1 DEF FieldChanges
  <2> QED  BY <1>2, <2>2 DEF BackwardGap
<1> QED  BY <1>1, <1>2 DEF Reads

\* Approved as FORWARD, and none of the gaps: the old schema reads what the new one wrote.
LEMMA ForwardReads ==
    ASSUME NEW new, NEW old, IsSchema(new), IsSchema(old), IsForward(new, old), ~ForwardGap(new, old)
    PROVE  Reads(old, new)
<1>0. /\ "type_changed" \notin ChangeKinds(new, old) /\ "field_removed" \notin ChangeKinds(new, old)
      /\ ~Redefined(new, old)
  BY DEF IsForward, ForwardGap
<1>1. ASSUME NEW f \in DOMAIN old
      PROVE  f \in DOMAIN new
  <2>1. "field_removed" \notin FieldChanges(new, old, f)
    BY <1>0 DEF ChangeKinds
  <2> QED  BY <2>1 DEF FieldChanges
<1>2. ASSUME NEW f \in DOMAIN old
      PROVE  ReadsType(old[f].type, new[f].type)
  <2>0. f \in DOMAIN new \cap DOMAIN old
    BY <1>1
  <2> SUFFICES ASSUME NEW w \in new[f].type.branches
               PROVE  \E r \in old[f].type.branches : ReadsBranch(r, w)
    BY DEF ReadsType
  <2>1. CASE new[f].type.form = "union"
    <3>1. w.label \in LabelsOf(old[f].type)
      BY <2>0, <2>1 DEF ForwardGap, LabelsOf
    <3>2. PICK r \in old[f].type.branches : r.label = w.label
      BY <3>1 DEF LabelsOf
    <3>3. r = w
      BY <1>0, <2>0, <3>2, FieldCompared
    <3> QED  BY <3>3 DEF ReadsBranch
  <2>2. CASE new[f].type.branches = old[f].type.branches
    BY <2>2 DEF ReadsBranch
  <2>3. ~Widened(new[f].type, old[f].type)
    BY <2>0 DEF ForwardGap
  <2> QED  BY <1>0, <2>0, <2>1, <2>2, <2>3, FieldCompared
<1> QED  BY <1>1, <1>2 DEF Reads
-----------------------------------------------------------------------------
(* The mock                                                                *)

EntryType == [id : Nat, schema : Texts]
ResolvedType == [key : Nat, schema : Texts]

AnswerOk == answer.old # None =>
    /\ answer.new \in Texts /\ answer.old \in Texts
    /\ answer.ok => IsCompatible(Content[answer.new], Content[answer.old], answer.level)

\* Ids below the next one, each of them in one place of one list and in the map.
MockInv ==
    /\ mock = None \/ mock \in MockCircumstances
    /\ nextId \in Nat \ {0}
    /\ \A s \in DOMAIN store : store[s] \in Seq(EntryType)
    /\ \A id \in DOMAIN idMap : id \in Nat /\ id < nextId
    /\ resolved \in Seq(ResolvedType) /\ \A i \in DOMAIN resolved : resolved[i].key < nextId
    /\ \A s \in DOMAIN store : \A i \in DOMAIN store[s] : store[s][i].id < nextId
    /\ IdsKeepTheirSchema
    /\ AnswerOk

LEMMA RemoveAtPlaces ==
    ASSUME NEW S, NEW c \in Seq(S), NEW i \in DOMAIN c
    PROVE  /\ RemoveAt(c, i) \in Seq(S)
           /\ \A j \in DOMAIN RemoveAt(c, i) :
                 /\ j \in DOMAIN c /\ j + 1 \in DOMAIN c
                 /\ RemoveAt(c, i)[j] = c[IF j < i THEN j ELSE j + 1]
<1> DEFINE a == SubSeq(c, 1, i - 1)
           b == SubSeq(c, i + 1, Len(c))
<1>1. i \in 1..Len(c) /\ Len(c) \in Nat
  OBVIOUS
<1>2. a \in Seq(S) /\ Len(a) = i - 1 /\ \A j \in 1..(i - 1) : a[j] = c[j]
  BY <1>1
<1>3. b \in Seq(S) /\ Len(b) = Len(c) - i /\ \A j \in 1..(Len(c) - i) : b[j] = c[i + j]
  BY <1>1
<1>4. RemoveAt(c, i) = a \o b
  BY DEF RemoveAt
<1> HIDE DEF a, b
<1>5. /\ a \o b \in Seq(S) /\ Len(a \o b) = Len(a) + Len(b)
      /\ \A j \in 1..(Len(a) + Len(b)) :
            (a \o b)[j] = IF j <= Len(a) THEN a[j] ELSE b[j - Len(a)]
  BY <1>2, <1>3, ConcatProperties
<1>6. DOMAIN (a \o b) = 1..(Len(c) - 1)
  BY <1>1, <1>2, <1>3, <1>5
<1>7. ASSUME NEW j \in 1..(Len(c) - 1)
      PROVE  j \in 1..Len(c) /\ j + 1 \in 1..Len(c) /\ (a \o b)[j] = c[IF j < i THEN j ELSE j + 1]
  <2>1. CASE j < i
    BY <1>1, <1>2, <1>3, <1>5, <2>1
  <2>2. CASE ~(j < i)
    <3>1. j \in 1..(Len(a) + Len(b)) /\ ~(j <= Len(a)) /\ j - Len(a) \in 1..(Len(c) - i)
      BY <1>1, <1>2, <1>3, <2>2
    <3>2. (a \o b)[j] = b[j - Len(a)]
      BY <1>5, <3>1
    <3>3. b[j - Len(a)] = c[i + (j - Len(a))]
      BY <1>3, <3>1
    <3>4. i + (j - Len(a)) = j + 1
      BY <1>1, <1>2
    <3> QED  BY <1>1, <2>2, <3>2, <3>3, <3>4
  <2> QED  BY <2>1, <2>2
<1>8. DOMAIN c = 1..Len(c)
  OBVIOUS
<1> QED  BY <1>4, <1>5, <1>6, <1>7, <1>8

\* A cache of any capacity that is given an entry.
LEMMA PutResolvedEntries ==
    ASSUME MockInv, NEW id \in Nat, NEW text \in Texts
    PROVE  /\ PutResolved(id, text) \in Seq(ResolvedType)
           /\ \A j \in DOMAIN PutResolved(id, text) :
                 \/ PutResolved(id, text)[j] = [key |-> id, schema |-> text]
                 \/ \E i \in DOMAIN resolved : PutResolved(id, text)[j] = resolved[i]
<1> DEFINE w == Without(resolved, id)
           e == [key |-> id, schema |-> text]
           longer == Append(w, e)
<1>0. e \in ResolvedType
  BY DEF ResolvedType
<1>1. w \in Seq(ResolvedType) /\ \A j \in DOMAIN w : \E i \in DOMAIN resolved : w[j] = resolved[i]
  BY WithoutType DEF MockInv
<1>3. PutResolved(id, text) = longer \/ PutResolved(id, text) = Tail(longer)
  BY DEF PutResolved
<1> HIDE DEF w, e
<1>2. /\ longer \in Seq(ResolvedType) /\ Len(longer) = Len(w) + 1 /\ Len(w) \in Nat
      /\ \A j \in DOMAIN longer : longer[j] = e \/ \E i \in DOMAIN w : longer[j] = w[i]
  BY <1>0, <1>1, AppendEntries
<1>4. \A j \in DOMAIN longer : longer[j] = e \/ \E i \in DOMAIN resolved : longer[j] = resolved[i]
  BY <1>1, <1>2
<1> HIDE DEF longer
<1>5. longer # <<>>
  BY <1>2
<1>6. /\ Tail(longer) \in Seq(ResolvedType) /\ Len(Tail(longer)) = Len(longer) - 1
      /\ \A i \in 1..Len(Tail(longer)) : Tail(longer)[i] = longer[i + 1]
  BY <1>2, <1>5, HeadTailProperties
<1>7. \A i \in DOMAIN Tail(longer) : i + 1 \in DOMAIN longer /\ Tail(longer)[i] = longer[i + 1]
  BY <1>2, <1>6
<1>8. PutResolved(id, text) \in Seq(ResolvedType)
  BY <1>2, <1>3, <1>6
<1>9. \A j \in DOMAIN PutResolved(id, text) :
         PutResolved(id, text)[j] = e \/ \E i \in DOMAIN resolved : PutResolved(id, text)[j] = resolved[i]
  BY <1>3, <1>4, <1>7
<1> QED  BY <1>8, <1>9 DEF e

LEMMA MockStarts == RegistryInit => MockInv
<1> SUFFICES ASSUME RegistryInit PROVE MockInv
  OBVIOUS
<1>1. mock \in MockCircumstances \cup {None}
  BY MockAssumption DEF RegistryInit
<1>2. store = <<>> /\ idMap = <<>> /\ nextId = 1 /\ resolved = <<>> /\ answer.old = None
  BY DEF RegistryInit, MockInit, NoAnswer
<1> QED  BY <1>1, <1>2 DEF MockInv, IdsKeepTheirSchema, AnswerOk

LEMMA Answered ==
    ASSUME MockInv, answer' = NoAnswer PROVE AnswerOk'
BY DEF NoAnswer, AnswerOk

LEMMA RegisterKeeps ==
    ASSUME MockInv, mock \in MockCircumstances, NEW subject \in mock.subjects, NEW text \in mock.texts,
           MockRegister(subject, text), mock' = mock
    PROVE  MockInv'
<1>0. text \in Texts /\ AnswerOk'
  BY Answered DEF MockCircumstances, MockRegister
<1>1. CASE UNCHANGED listed
  BY <1>0, <1>1 DEF MockInv, IdsKeepTheirSchema, listed
<1>2. CASE FiledAs(subject, text, nextId) /\ nextId' = nextId + 1
  <2>1. PICK list, e : list = ListOf(subject) /\ e = Entry(nextId, text)
    OBVIOUS
  <2>a. nextId \in Nat
    BY DEF MockInv
  <2>b. e \in EntryType /\ e.id = nextId /\ e.schema = text
    BY <1>0, <2>1, <2>a DEF Entry, EntryType
  <2>c. list \in Seq(EntryType)
    BY <2>1 DEF MockInv, ListOf
  <2>2. list \in Seq(EntryType) /\ e \in EntryType /\ e.id = nextId /\ e.schema = text
    BY <2>b, <2>c
  <2>3. /\ DOMAIN store' = {subject} \cup DOMAIN store /\ store'[subject] = Append(list, e)
        /\ \A s \in DOMAIN store \ {subject} : store'[s] = store[s]
    BY <1>2, <2>1 DEF FiledAs, With
  <2>4. /\ DOMAIN idMap' = {nextId} \cup DOMAIN idMap /\ idMap'[nextId] = text
        /\ \A id \in DOMAIN idMap \ {nextId} : idMap'[id] = idMap[id]
    BY <1>2 DEF FiledAs, With
  <2>5. /\ Append(list, e) \in Seq(EntryType) /\ DOMAIN Append(list, e) = 1..(Len(list) + 1)
        /\ DOMAIN list = 1..Len(list) /\ Len(list) \in Nat
        /\ Append(list, e)[Len(list) + 1] = e /\ \A i \in DOMAIN list : Append(list, e)[i] = list[i]
    BY <2>2
  <2>6. /\ resolved' \in Seq(ResolvedType)
        /\ \A j \in DOMAIN resolved' : \/ resolved'[j] = [key |-> nextId, schema |-> text]
                                       \/ \E i \in DOMAIN resolved : resolved'[j] = resolved[i]
    BY <1>0, <1>2, PutResolvedEntries DEF FiledAs, MockInv
  <2>7. \A i \in DOMAIN list : subject \in DOMAIN store /\ list = store[subject]
    BY <2>1 DEF ListOf
  \* An entry is the new one or was there, in the same place.
  <2>8. ASSUME NEW s \in DOMAIN store', NEW i \in DOMAIN store'[s]
        PROVE  \/ s = subject /\ i = Len(list) + 1 /\ store'[s][i] = e
               \/ s \in DOMAIN store /\ i \in DOMAIN store[s] /\ store'[s][i] = store[s][i]
    <3>1. CASE s = subject
      <4>1. i = Len(list) + 1 \/ i \in DOMAIN list
        BY <2>3, <2>5, <3>1
      <4> QED  BY <2>3, <2>5, <2>7, <3>1, <4>1
    <3>2. CASE s # subject
      BY <2>3, <3>2
    <3> QED  BY <3>1, <3>2
  <2>9. nextId \in Nat \ {0} /\ nextId' = nextId + 1 /\ nextId' \in Nat \ {0}
    BY <1>2 DEF MockInv
  <2>10. \A s \in DOMAIN store' : store'[s] \in Seq(EntryType)
    BY <2>3, <2>5 DEF MockInv
  <2>11. \A id \in DOMAIN idMap' : id \in Nat /\ id < nextId'
    BY <2>4, <2>9 DEF MockInv
  <2>12. \A s \in DOMAIN store : \A i \in DOMAIN store[s] : store[s][i] \in EntryType /\ store[s][i].id < nextId
    BY DEF MockInv
  <2>13. \A s \in DOMAIN store' : \A i \in DOMAIN store'[s] : store'[s][i].id < nextId'
    BY <2>2, <2>8, <2>9, <2>12 DEF EntryType
  <2>14. \A i \in DOMAIN resolved : resolved[i] \in ResolvedType /\ resolved[i].key < nextId
    BY DEF MockInv
  <2>15. \A j \in DOMAIN resolved' : resolved'[j].key < nextId'
    BY <2>6, <2>9, <2>14 DEF ResolvedType
  <2>16. ASSUME NEW s \in DOMAIN store', NEW i \in DOMAIN store'[s]
         PROVE  /\ store'[s][i].id \in DOMAIN idMap' /\ idMap'[store'[s][i].id] = store'[s][i].schema
                /\ \A r \in DOMAIN store' : \A j \in DOMAIN store'[r] :
                      store'[r][j].id = store'[s][i].id => r = s /\ j = i
    <3>1. CASE s \in DOMAIN store /\ i \in DOMAIN store[s] /\ store'[s][i] = store[s][i]
      <4>1. store[s][i].id # nextId
        BY <2>9, <2>12, <3>1 DEF EntryType
      <4>2. store[s][i].id \in DOMAIN idMap /\ idMap[store[s][i].id] = store[s][i].schema
        BY <3>1 DEF MockInv, IdsKeepTheirSchema
      <4>3. ASSUME NEW r \in DOMAIN store', NEW j \in DOMAIN store'[r], store'[r][j].id = store[s][i].id
            PROVE  r = s /\ j = i
        <5>1. r \in DOMAIN store /\ j \in DOMAIN store[r] /\ store'[r][j] = store[r][j]
          BY <2>2, <2>8, <4>1, <4>3
        <5> QED  BY <3>1, <4>3, <5>1 DEF MockInv, IdsKeepTheirSchema
      <4> QED  BY <2>4, <3>1, <4>1, <4>2, <4>3
    <3>2. CASE s = subject /\ i = Len(list) + 1 /\ store'[s][i] = e
      <4>1. ASSUME NEW r \in DOMAIN store', NEW j \in DOMAIN store'[r], store'[r][j].id = nextId
            PROVE  r = subject /\ j = Len(list) + 1
        BY <2>8, <2>9, <2>12, <4>1 DEF EntryType
      <4> QED  BY <2>2, <2>4, <3>2, <4>1
    <3> QED  BY <2>8, <3>1, <3>2
  <2>17. ASSUME NEW j \in DOMAIN resolved', resolved'[j].key \in DOMAIN idMap'
         PROVE  idMap'[resolved'[j].key] = resolved'[j].schema
    <3>1. CASE resolved'[j] = [key |-> nextId, schema |-> text]
      BY <2>4, <3>1
    <3>2. ASSUME NEW i \in DOMAIN resolved, resolved'[j] = resolved[i]
          PROVE  idMap'[resolved'[j].key] = resolved'[j].schema
      <4>1. resolved[i].key # nextId
        BY <2>9, <2>14 DEF ResolvedType
      <4> QED  BY <2>4, <2>17, <3>2, <4>1 DEF MockInv, IdsKeepTheirSchema
    <3> QED  BY <2>6, <3>1, <3>2
  <2>18. IdsKeepTheirSchema'
    BY <2>16, <2>17 DEF IdsKeepTheirSchema
  <2> QED  BY <1>0, <2>6, <2>9, <2>10, <2>11, <2>13, <2>15, <2>18 DEF MockInv
<1> QED  BY <1>1, <1>2 DEF MockRegister

LEMMA MockResolveKeeps ==
    ASSUME MockInv, NEW id, MockResolve(id), mock' = mock PROVE MockInv'
<1>1. /\ resolved' \in Seq(ResolvedType) /\ Entries(resolved') \subseteq Entries(resolved)
  BY UsedEntries DEF MockInv, MockResolve
<1>2. \A j \in DOMAIN resolved' : \E i \in DOMAIN resolved : resolved'[j] = resolved[i]
  BY <1>1 DEF Entries, ToSet
<1>3. AnswerOk'
  BY Answered DEF MockResolve
<1> QED  BY <1>1, <1>2, <1>3 DEF MockInv, IdsKeepTheirSchema, MockResolve

LEMMA MockCheckKeeps ==
    ASSUME MockInv, NEW subject, NEW text \in Texts, NEW version, MockCheck(subject, text, version), mock' = mock
    PROVE  MockInv'
<1>1. PICK list, place, level : list = ListOf(subject) /\ place = (IF version = Latest THEN Len(list) ELSE version)
                                /\ level = IF subject \in DOMAIN compat THEN compat[subject] ELSE "BACKWARD"
  OBVIOUS
<1>2. PICK old : old = IF place \in DOMAIN list THEN list[place].schema ELSE None
  OBVIOUS
<1>3. PICK ok : ok = (place \in DOMAIN list => IsCompatible(Content[text], Content[old], level))
  OBVIOUS
<1>4. answer' = [new |-> text, old |-> old, level |-> level, ok |-> ok]
  BY <1>1, <1>2, <1>3 DEF MockCheck
<1>5. place \in DOMAIN list => old \in Texts
  <2>1. place \in DOMAIN list => list = store[subject] /\ subject \in DOMAIN store
    BY <1>1 DEF ListOf
  <2>2. place \in DOMAIN list => list \in Seq(EntryType)
    BY <2>1 DEF MockInv
  <2>3. place \in DOMAIN list => list[place] \in EntryType
    BY <2>2
  <2> QED  BY <1>2, <2>3 DEF EntryType
<1>6. AnswerOk'
  <2>1. answer'.new = text /\ answer'.old = old /\ answer'.level = level /\ answer'.ok = ok
    BY <1>4
  <2>2. old # None => place \in DOMAIN list
    BY <1>2
  <2>3. ok /\ old # None => IsCompatible(Content[text], Content[old], level)
    BY <1>3, <2>2
  <2> QED  BY <1>5, <2>1, <2>2, <2>3 DEF AnswerOk
<1> QED  BY <1>6 DEF MockInv, IdsKeepTheirSchema, MockCheck, listed

\* What is left of the map, or of a list, still agrees.
LEMMA LessKeeps ==
    ASSUME MockInv, mock' = mock, nextId' = nextId, resolved' = resolved, AnswerOk',
           DOMAIN store' \subseteq DOMAIN store,
           DOMAIN idMap' \subseteq DOMAIN idMap, \A id \in DOMAIN idMap' : idMap'[id] = idMap[id],
           \A s \in DOMAIN store' : store'[s] \in Seq(EntryType),
           NEW moved,
           \A s \in DOMAIN store' : \A i \in DOMAIN store'[s] :
              /\ moved[s][i] \in DOMAIN store[s] /\ store'[s][i] = store[s][moved[s][i]]
              /\ store'[s][i].id \in DOMAIN idMap'
              /\ \A j \in DOMAIN store'[s] : moved[s][i] = moved[s][j] => i = j
    PROVE  MockInv'
<1>1. ASSUME NEW s \in DOMAIN store', NEW i \in DOMAIN store'[s], NEW r \in DOMAIN store', NEW j \in DOMAIN store'[r],
             store'[r][j].id = store'[s][i].id
      PROVE  r = s /\ j = i
  <2>1. r = s /\ moved[r][j] = moved[s][i]
    BY <1>1 DEF MockInv, IdsKeepTheirSchema
  <2> QED  BY <2>1
<1>2. \A s \in DOMAIN store' : \A i \in DOMAIN store'[s] :
         idMap'[store'[s][i].id] = store'[s][i].schema /\ store'[s][i].id < nextId'
  BY DEF MockInv, IdsKeepTheirSchema
<1>3. \A i \in DOMAIN resolved' : resolved'[i].key \in DOMAIN idMap' => idMap'[resolved'[i].key] = resolved'[i].schema
  BY DEF MockInv, IdsKeepTheirSchema
<1>4. IdsKeepTheirSchema'
  BY <1>1, <1>2, <1>3 DEF IdsKeepTheirSchema
<1> QED  BY <1>2, <1>4 DEF MockInv

LEMMA DeleteSubjectKeeps ==
    ASSUME MockInv, NEW subject, NEW permanent \in BOOLEAN, MockDeleteSubject(subject, permanent), mock' = mock
    PROVE  MockInv'
<1>1. /\ DOMAIN store' = DOMAIN store \ {subject} /\ \A s \in DOMAIN store' : store'[s] = store[s]
  BY DEF MockDeleteSubject, Drop, Restrict
<1>2. PICK ids : ids = IF permanent THEN {e.id : e \in ToSet(store[subject])} ELSE {}
  OBVIOUS
<1>3. /\ DOMAIN idMap' = DOMAIN idMap \ ids /\ \A id \in DOMAIN idMap' : idMap'[id] = idMap[id]
  BY <1>2 DEF MockDeleteSubject, Drop, Restrict
<1>4. PICK moved : moved = [s \in DOMAIN store |-> [i \in DOMAIN store[s] |-> i]]
  OBVIOUS
<1>5. ASSUME NEW s \in DOMAIN store', NEW i \in DOMAIN store'[s]
      PROVE  store[s][i].id \notin ids
  <2> SUFFICES ASSUME store[s][i].id \in ids PROVE FALSE
    OBVIOUS
  <2>1. PICK j \in DOMAIN store[subject] : store[subject][j].id = store[s][i].id
    BY <1>2 DEF ToSet
  <2> QED  BY <1>1, <2>1 DEF MockInv, IdsKeepTheirSchema, MockDeleteSubject
<1>6. \A s \in DOMAIN store' : \A i \in DOMAIN store'[s] :
         /\ moved[s][i] \in DOMAIN store[s] /\ store'[s][i] = store[s][moved[s][i]]
         /\ store'[s][i].id \in DOMAIN idMap'
         /\ \A j \in DOMAIN store'[s] : moved[s][i] = moved[s][j] => i = j
  BY <1>1, <1>3, <1>4, <1>5 DEF MockInv, IdsKeepTheirSchema
<1>7. AnswerOk' /\ nextId' = nextId /\ resolved' = resolved
  BY Answered DEF MockDeleteSubject
<1>8. \A s \in DOMAIN store' : store'[s] \in Seq(EntryType)
  BY <1>1 DEF MockInv
<1> QED  BY <1>1, <1>3, <1>6, <1>7, <1>8, LessKeeps

LEMMA DeleteVersionKeeps ==
    ASSUME MockInv, NEW subject, NEW version, NEW permanent \in BOOLEAN,
           MockDeleteVersion(subject, version, permanent), mock' = mock
    PROVE  MockInv'
<1>0. subject \in DOMAIN store /\ version \in DOMAIN store[subject]
  BY DEF MockDeleteVersion, ListOf
<1>1. PICK list, shorter : list = store[subject] /\ shorter = RemoveAt(list, version)
  OBVIOUS
<1>2. list \in Seq(EntryType) /\ version \in DOMAIN list
  BY <1>0, <1>1 DEF MockInv
<1>3. /\ shorter \in Seq(EntryType)
      /\ \A j \in DOMAIN shorter :
            /\ j \in DOMAIN list /\ j + 1 \in DOMAIN list
            /\ shorter[j] = list[IF j < version THEN j ELSE j + 1]
  BY <1>1, <1>2, RemoveAtPlaces
<1>4. /\ DOMAIN store' = DOMAIN store /\ store'[subject] = shorter
      /\ \A s \in DOMAIN store \ {subject} : store'[s] = store[s]
  BY <1>0, <1>1 DEF MockDeleteVersion
<1>5. PICK ids : ids = IF permanent THEN {list[version].id} ELSE {}
  OBVIOUS
<1>6. /\ DOMAIN idMap' = DOMAIN idMap \ ids /\ \A id \in DOMAIN idMap' : idMap'[id] = idMap[id]
  BY <1>1, <1>5 DEF MockDeleteVersion, Drop, Restrict
<1>7. PICK moved : moved = [s \in DOMAIN store |-> [i \in DOMAIN store[s] |->
                              IF s = subject /\ ~(i < version) THEN i + 1 ELSE i]]
  OBVIOUS
<1>8. \A i \in DOMAIN list : i \in Nat
  BY <1>2
<1>9. version \in Nat
  BY <1>2, <1>8
<1>10. ASSUME NEW s \in DOMAIN store', NEW i \in DOMAIN store'[s]
       PROVE  /\ moved[s][i] \in DOMAIN store[s] /\ store'[s][i] = store[s][moved[s][i]]
              /\ store'[s][i].id \in DOMAIN idMap'
              /\ \A j \in DOMAIN store'[s] : moved[s][i] = moved[s][j] => i = j
  <2>1. CASE s = subject
    <3>1. i \in DOMAIN shorter /\ i \in DOMAIN list /\ i + 1 \in DOMAIN list
      BY <1>3, <1>4, <2>1
    <3>2. moved[s][i] = (IF i < version THEN i ELSE i + 1) /\ moved[s][i] \in DOMAIN list
          /\ store'[s][i] = list[moved[s][i]]
      BY <1>1, <1>3, <1>4, <1>7, <2>1, <3>1
    <3>3. moved[s][i] # version
      BY <1>8, <1>9, <3>1, <3>2
    <3>4. list[moved[s][i]].id # list[version].id /\ list[moved[s][i]].id \in DOMAIN idMap
      BY <1>0, <1>1, <1>2, <3>2, <3>3 DEF MockInv, IdsKeepTheirSchema
    <3>5. ASSUME NEW j \in DOMAIN store'[s], moved[s][i] = moved[s][j]
          PROVE  i = j
      <4>1. j \in DOMAIN list /\ moved[s][j] = IF j < version THEN j ELSE j + 1
        BY <1>1, <1>3, <1>4, <1>7, <2>1
      <4> QED  BY <1>8, <1>9, <3>1, <3>2, <3>5, <4>1
    <3> QED  BY <1>1, <1>5, <1>6, <2>1, <3>2, <3>4, <3>5
  <2>2. CASE s # subject
    <3>1. store'[s] = store[s] /\ s \in DOMAIN store
      BY <1>4, <2>2
    <3>2. \A j \in DOMAIN store[s] : moved[s][j] = j
      BY <1>7, <2>2, <3>1
    <3>3. store[s][i].id \notin ids /\ store[s][i].id \in DOMAIN idMap
      BY <1>0, <1>1, <1>2, <1>5, <2>2, <3>1 DEF MockInv, IdsKeepTheirSchema
    <3> QED  BY <1>6, <3>1, <3>2, <3>3
  <2> QED  BY <2>1, <2>2
<1>11. AnswerOk' /\ nextId' = nextId /\ resolved' = resolved
  BY Answered DEF MockDeleteVersion
<1>12. \A s \in DOMAIN store' : store'[s] \in Seq(EntryType)
  BY <1>3, <1>4 DEF MockInv
<1> QED  BY <1>4, <1>6, <1>10, <1>11, <1>12, LessKeeps

LEMMA MockKeeps == MockInv /\ [RegistryNext]_<<vars, mockVars>> => MockInv'
<1> SUFFICES ASSUME MockInv, [RegistryNext]_<<vars, mockVars>> PROVE MockInv'
  OBVIOUS
<1>1. CASE UNCHANGED mockVars
  BY <1>1 DEF mockVars, MockInv, IdsKeepTheirSchema, AnswerOk
<1>2. CASE mock # None /\ MockNext /\ mock' = mock
  <2>1. mock \in MockCircumstances /\ mock.texts \subseteq Texts
    BY <1>2 DEF MockInv, MockCircumstances
  <2>2. ASSUME NEW s \in mock.subjects, NEW l \in mock.levels, MockSetLevel(s, l)
        PROVE  MockInv'
    BY <1>2, <2>2, Answered DEF MockSetLevel, MockInv, IdsKeepTheirSchema, listed
  <2>3. ASSUME NEW s \in mock.subjects, NEW t \in mock.texts, MockRegister(s, t)
        PROVE  MockInv'
    BY <1>2, <2>1, <2>3, RegisterKeeps
  <2>4. ASSUME NEW s \in mock.subjects, NEW t \in mock.texts, NEW v \in 0..mock.ids, MockCheck(s, t, v)
        PROVE  MockInv'
    BY <1>2, <2>1, <2>4, MockCheckKeeps
  <2>5. ASSUME NEW s \in mock.subjects, NEW permanent \in BOOLEAN, MockDeleteSubject(s, permanent)
        PROVE  MockInv'
    BY <1>2, <2>5, DeleteSubjectKeeps
  <2>6. ASSUME NEW s \in mock.subjects, NEW permanent \in BOOLEAN, NEW v \in 1..mock.ids,
               MockDeleteVersion(s, v, permanent)
        PROVE  MockInv'
    BY <1>2, <2>6, DeleteVersionKeeps
  <2>7. ASSUME NEW id \in 1..mock.ids, MockResolve(id)
        PROVE  MockInv'
    BY <1>2, <2>7, MockResolveKeeps
  <2> QED  BY <1>2, <2>2, <2>3, <2>4, <2>5, <2>6, <2>7 DEF MockNext
<1> QED  BY <1>1, <1>2 DEF RegistryNext

LEMMA MockInvariance == RegistrySpec => []MockInv
  BY MockStarts, MockKeeps, PTL DEF RegistrySpec

\* However subjects and versions are registered, deleted and registered again: an id
\* stands for one schema in lists, map and cache, and is of one version.
THEOREM MockIdsKeep == RegistrySpec => []IdsKeepTheirSchema
<1>1. MockInv => IdsKeepTheirSchema
  BY DEF MockInv
<1> QED  BY <1>1, MockInvariance, PTL

\* For any schemas, versions and level: what the check approves can be read, but for
\* the gaps of the comparison.
THEOREM ApprovedReads == RegistrySpec => []ApprovedIsReadable
<1>1. MockInv => ApprovedIsReadable
  <2> SUFFICES ASSUME MockInv, answer.ok, answer.old # None
               PROVE  LET new == Content[answer.new]
                          old == Content[answer.old]
                      IN /\ WantsBackward(answer.level) /\ ~BackwardGap(new, old) => Reads(new, old)
                         /\ WantsForward(answer.level) /\ ~ForwardGap(new, old) => Reads(old, new)
    BY DEF ApprovedIsReadable
  <2>1. PICK new, old, level : new = Content[answer.new] /\ old = Content[answer.old] /\ level = answer.level
    OBVIOUS
  <2>2. IsSchema(new) /\ IsSchema(old) /\ IsCompatible(new, old, level)
    BY <2>1, MockAssumption DEF MockInv, AnswerOk
  <2>3. WantsBackward(level) /\ ~BackwardGap(new, old) => Reads(new, old)
    BY <2>2, BackwardReads DEF IsCompatible
  <2>4. WantsForward(level) /\ ~ForwardGap(new, old) => Reads(old, new)
    BY <2>2, ForwardReads DEF IsCompatible
  <2> QED  BY <2>1, <2>3, <2>4
<1> QED  BY <1>1, MockInvariance, PTL

\* Programs with a server are as in SchemaRegistry, whose theorems hold here too.
THEOREM ServersAsBefore == RegistrySpec => Spec
<1>1. RegistryInit => Init
  BY DEF RegistryInit
<1>2. [RegistryNext]_<<vars, mockVars>> => [Next]_vars
  BY DEF RegistryNext
<1> QED  BY <1>1, <1>2, PTL DEF RegistrySpec, Spec
=============================================================================
