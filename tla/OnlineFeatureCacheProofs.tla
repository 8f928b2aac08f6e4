----------------------- MODULE OnlineFeatureCacheProofs -----------------------
(***************************************************************************)
(* Theorems about OnlineFeatureCache for any finite set of users and any   *)
(* sets of readers, objects and windows.                                   *)
(***************************************************************************)
EXTENDS OnlineFeatureCache, FiniteSetTheorems, WellFoundedInduction, TLAPS

\* The newest of some windows is one of them.
LEMMA NewestIsMember ==
    ASSUME NEW ws \in SUBSET Windows, ws # {}
    PROVE  Newest(ws) \in ws
<1> DEFINE Less == OpToRel(<, Nat)
           below == {MaxWindow - w : w \in ws}
<1>1. below \subseteq Nat /\ below # {}
    <2>1. \A w \in ws : MaxWindow - w \in Nat
        BY OFCAssumption DEF Windows
    <2>2. PICK w \in ws : TRUE
        OBVIOUS
    <2> QED
        BY <2>1, <2>2
<1>2. IsWellFoundedOn(Less, Nat)
    BY NatLessThanWellFounded
<1>3. \E d \in below : \A e \in below : ~(<<e, d>> \in Less)
    <2> HIDE DEF Less, below
    <2> QED BY <1>1, <1>2, WFMin
<1>4. PICK d \in below : \A e \in below : d <= e
    <2>1. \A d, e \in Nat : <<e, d>> \notin Less => d <= e
        BY DEF OpToRel
    <2> HIDE DEF Less, below
    <2> QED BY <1>1, <1>3, <2>1
<1>5. PICK w \in ws : d = MaxWindow - w
    BY <1>4
<1>6. \A x \in ws : w >= x
    <2>1. MaxWindow \in Nat /\ \A x \in ws : x \in Nat /\ d <= MaxWindow - x
        BY <1>4, OFCAssumption DEF Windows
    <2> QED BY <2>1, <1>5
<1> QED
    BY <1>6 DEF Newest, Max

LEMMA LatestOfType ==
    ASSUME NEW rows \in SUBSET Vector, NEW u \in Users
    PROVE  /\ LatestOf(rows, u) \in Vector \cup {Nothing}
           /\ LatestOf(rows, u) # Nothing => LatestOf(rows, u) \in rows /\ LatestOf(rows, u).user = u
<1> DEFINE windows == {fv.window : fv \in {row \in rows : row.user = u}}
<1>1. LatestOf(rows, u) = IF windows = {} THEN Nothing ELSE [user |-> u, window |-> Newest(windows)]
    BY DEF LatestOf
<1>2. CASE windows = {}
    BY <1>1, <1>2
<1>3. CASE windows # {}
    <2>1. windows \in SUBSET Windows
        BY DEF Vector
    <2> HIDE DEF windows
    <2>2. Newest(windows) \in windows
        BY <1>3, <2>1, NewestIsMember
    <2> USE DEF windows
    <2>3. PICK fv \in rows : fv.user = u /\ fv.window = Newest(windows)
        BY <2>2
    <2>4. fv = [user |-> u, window |-> Newest(windows)]
        BY <2>3 DEF Vector
    <2> QED
        BY <1>1, <1>3, <2>3, <2>4
<1> QED
    BY <1>2, <1>3

\* What a read returns are vectors, each of them a row of its user.
LEMMA ReadRows ==
    ASSUME NEW range \in SUBSET Windows, NEW rows \in RowsRead(range)
    PROVE  rows \in SUBSET Vector /\ \A fv \in rows : IsRowOf(fv, fv.user)
<1>1. ASSUME NEW fv \in Vector, fv \in FromTable(range) \cup FromFiles(range) \cup MadeUp(range)
      PROVE  IsRowOf(fv, fv.user)
    <2>1. fv.user \in Users /\ fv.window \in Windows
        BY DEF Vector
    <2>2. fv.window \in RowsFor(fv.user)
        <3>1. CASE fv \in FromFiles(range)
            <4>1. PICK day \in range : <<fv.window, day>> \in raw[fv.user]
                BY <3>1 DEF FromFiles
            <4>2. fv.window \in {filed[1] : filed \in raw[fv.user]}
                BY <4>1
            <4> QED
                BY <4>2 DEF RowsFor
        <3> QED
            BY <1>1, <2>1, <3>1 DEF FromTable, MadeUp, RowsFor
    <2> QED
        BY <2>2 DEF IsRowOf
<1>2. /\ FromTable(range) \subseteq Vector /\ FromFiles(range) \subseteq Vector
      /\ MadeUp(range) \subseteq Vector
    BY DEF FromTable, FromFiles, MadeUp
<1>3. rows = FromTable(range) \/ rows = MadeUp(range) \/ rows \subseteq FromFiles(range)
    <2>1. rows = FromTable(range) \/ rows \in Downloads(range)
        BY DEF RowsRead
    <2>2. rows \in Downloads(range) => rows = MadeUp(range) \/ rows \subseteq FromFiles(range)
        BY DEF Downloads
    <2> QED
        BY <2>1, <2>2
<1> QED
    BY <1>1, <1>2, <1>3

\* No vector is the placeholder of a missing one.
LEMMA NothingIsNoVector == Nothing \notin Vector /\ Unset \notin Vector /\ Unset # Nothing
BY OFCAssumption DEF Nothing, Vector, Windows

LEMMA PutTypes ==
    ASSUME TypeOK, NEW fv \in Vector
    PROVE  /\ RedisPut(fv) \in [Users -> Vector \cup {Nothing}]
           /\ MinioPut(fv) \in [Keys -> Vector \cup {Nothing}]
BY OFCAssumption DEF TypeOK, RedisPut, MinioPut, ServingKey, Vector

-----------------------------------------------------------------------------
(* Type correctness                                                        *)

TypeInv == TypeOK /\ Held

LEMMA InitTypeInv == Init => TypeInv
BY OFCAssumption DEF Init, TypeInv, TypeOK, Held, NoResult, Stages, Windows

LEMMA CallTypeInv ==
    ASSUME TypeInv, NEW r \in Readers, NEW how \in {"get", "mget"},
           NEW users \in SUBSET Users, Call(r, how, users)
    PROVE  TypeInv'
<1> USE DEF TypeInv, Call, stores, jobVars, NoResult
<1>1. TypeOK'
    BY DEF TypeOK, Stages
<1>2. Held'
    BY NothingIsNoVector DEF Held, TypeOK
<1> QED
    BY <1>1, <1>2

LEMMA L1ReadTypeInv ==
    ASSUME TypeInv, NEW r \in Readers, L1Read(r)
    PROVE  TypeInv'
<1> USE DEF TypeInv, stores, jobVars
<1>1. PICK hits \in SUBSET ask[r] :
         /\ \A u \in hits : redis[u] # Nothing
         /\ result' = [result EXCEPT ![r] =
                         [u \in Users |-> IF u \in hits THEN redis[u] ELSE Unset]]
         /\ tally' = [tally EXCEPT ![r] = @ + Cardinality(hits)]
         /\ pc' = [pc EXCEPT ![r] = IF hits = ask[r] THEN "idle"
                                    ELSE IF HasMinio THEN "l2" ELSE "l3"]
    <2> DEFINE H(ok) == IF HasRedis /\ ok
                        THEN {u \in ask[r] : redis[u] # Nothing} ELSE {}
    <2>1. PICK ok \in Succeeds("redis") :
            /\ result' = [result EXCEPT ![r] =
                            [u \in Users |-> IF u \in H(ok) THEN redis[u] ELSE Unset]]
            /\ tally' = [tally EXCEPT ![r] = @ + Cardinality(H(ok))]
            /\ pc' = [pc EXCEPT ![r] = IF H(ok) = ask[r] THEN "idle"
                                       ELSE IF HasMinio THEN "l2" ELSE "l3"]
        BY DEF L1Read
    <2>2. H(ok) \in SUBSET ask[r] /\ \A u \in H(ok) : redis[u] # Nothing
        OBVIOUS
    <2> HIDE DEF H
    <2> QED
        BY <2>1, <2>2
<1>2. Cardinality(hits) \in Nat
    BY <1>1, FS_Subset, FS_CardinalityType, OFCAssumption DEF TypeOK
<1>3. TypeOK'
    BY <1>1, <1>2 DEF TypeOK, Stages, L1Read
<1>4. Held'
    BY <1>1 DEF Held, TypeOK, L1Read
<1> QED
    BY <1>3, <1>4

LEMMA L2ReadTypeInv ==
    ASSUME TypeInv, NEW r \in Readers, NEW u \in Users, L2Read(r, u)
    PROVE  TypeInv'
<1> USE DEF TypeInv, stores, jobVars
<1>1. PICK found \in Vector \cup {Nothing} :
         /\ result' = [result EXCEPT ![r] =
                [result[r] EXCEPT ![u] = IF found = Nothing THEN L2Miss(r) ELSE found]]
         /\ fills' = [fills EXCEPT ![r] = IF found = Nothing THEN @ ELSE @ \cup {u}]
    <2>1. objects[ServingKey(u)] \in Vector \cup {Nothing}
        BY OFCAssumption DEF TypeOK, ServingKey
    <2> QED
        BY <2>1 DEF L2Read
<1>2. L2Miss(r) \in {Unset, Nothing}
    BY DEF L2Miss
<1>3. PICK stage \in Stages :
         /\ pc' = [pc EXCEPT ![r] = stage]
         /\ stage \notin {"l3redis", "l3minio"}
         /\ stage \notin {"l2", "fill"} => fills'[r] = {}
    BY DEF L2Read, Stages
<1>4. TypeOK'
    BY <1>1, <1>2, <1>3 DEF TypeOK, L2Read
<1>5. Held'
    <2>1. \A q \in Readers : \A v \in fills'[q] : result'[q][v] \in Vector
        <3>1. u \notin fills[r]
            BY NothingIsNoVector DEF L2Read, Unanswered, Held
        <3> QED
            BY <1>1, <3>1 DEF Held, TypeOK
    <2>2. \A q \in Readers : pc'[q] \notin {"l2", "fill"} => fills'[q] = {}
        BY <1>1, <1>3 DEF Held, TypeOK, L2Read
    <2>3. \A q \in Readers : pc'[q] \in {"l3redis", "l3minio"} => hand'[q] \in Vector
        BY <1>3 DEF Held, TypeOK, L2Read
    <2> QED
        BY <2>1, <2>2, <2>3 DEF Held, L2Read
<1> QED
    BY <1>4, <1>5

LEMMA L2FillTypeInv ==
    ASSUME TypeInv, NEW r \in Readers, NEW u \in Users, L2Fill(r, u)
    PROVE  TypeInv'
<1> USE DEF TypeInv, stores, jobVars, L2Fill
<1>1. redis' \in [Users -> Vector \cup {Nothing}]
    BY PutTypes DEF TypeOK, Held
<1>2. TypeOK'
    BY <1>1 DEF TypeOK, Stages
<1>3. Held'
    BY DEF Held, TypeOK
<1> QED
    BY <1>2, <1>3

LEMMA L3TypeInv ==
    ASSUME TypeInv, NEW r \in Readers,
           \/ L3FillRedis(r) \/ L3FillMinio(r)
           \/ \E u \in Users : L3Miss(r, u) \/ \E w \in Windows : L3Hit(r, u, w)
    PROVE  TypeInv'
<1> USE DEF TypeInv, stores, jobVars
<1>1. \A res : L3Goes(r, res) \in {"idle", "l3"}
    BY DEF L3Goes
<1>2. CASE L3FillRedis(r)
    <2>1. redis' \in [Users -> Vector \cup {Nothing}]
        BY <1>2, PutTypes DEF L3FillRedis, TypeOK, Held
    <2>2. TypeOK'
        BY <1>2, <2>1 DEF L3FillRedis, TypeOK, Stages
    <2>3. Held'
        BY <1>2 DEF L3FillRedis, Held, TypeOK
    <2> QED
        BY <2>2, <2>3
<1>3. CASE L3FillMinio(r)
    <2>1. objects' \in [Keys -> Vector \cup {Nothing}]
        BY <1>3, PutTypes DEF L3FillMinio, TypeOK, Held
    <2>2. TypeOK'
        BY <1>1, <1>3, <2>1 DEF L3FillMinio, TypeOK, Stages
    <2>3. Held'
        BY <1>1, <1>3 DEF L3FillMinio, Held, TypeOK
    <2> QED
        BY <2>2, <2>3
<1>4. ASSUME NEW u \in Users, L3Miss(r, u)
      PROVE  TypeInv'
    <2>1. TypeOK'
        BY <1>1, <1>4 DEF L3Miss, TypeOK, Stages
    <2>2. Held'
        BY <1>1, <1>4 DEF L3Miss, Held, TypeOK
    <2> QED
        BY <2>1, <2>2
<1>5. ASSUME NEW u \in Users, NEW w \in Windows, L3Hit(r, u, w)
      PROVE  TypeInv'
    <2>1. [user |-> u, window |-> w] \in Vector
        BY DEF Vector
    <2>2. TypeOK'
        BY <1>5, <2>1 DEF L3Hit, TypeOK, Stages
    <2>3. Held'
        BY <1>5, <2>1 DEF L3Hit, Held, TypeOK
    <2> QED
        BY <2>2, <2>3
<1> QED
    BY <1>2, <1>3, <1>4, <1>5

LEMMA JobTypeInv ==
    ASSUME TypeInv, JobWorks \/ \E range \in SUBSET Windows : JobRead(range)
    PROVE  TypeInv'
<1> USE DEF TypeInv, stores, readers
<1>1. ASSUME NEW range \in SUBSET Windows, JobRead(range)
      PROVE  TypeInv'
    <2>1. vectors' \in [Users -> Vector \cup {Nothing}]
        <3>1. PICK rows \in RowsRead(range) : vectors' = [u \in Users |-> LatestOf(rows, u)]
            BY <1>1 DEF JobRead
        <3> QED
            BY <3>1, LatestOfType, ReadRows
    <2>2. TypeOK'
        BY <1>1, <2>1 DEF JobRead, TypeOK
    <2>3. Held'
        BY <1>1 DEF JobRead, Held
    <2> QED
        BY <2>2, <2>3
<1>2. ASSUME NEW u \in Users, JobPut(u)
      PROVE  TypeInv'
    <2>1. vectors[u] \in Vector
        BY <1>2 DEF JobPut, Held, TypeOK
    <2>2. TypeOK'
        BY <1>2, <2>1, PutTypes DEF JobPut, TypeOK, Succeeds
    <2>3. Held'
        BY <1>2 DEF JobPut, Held
    <2> QED
        BY <2>2, <2>3
<1>3. ASSUME NEW u \in Users, JobWarm(u)
      PROVE  TypeInv'
    <2>1. vectors[u] \in Vector
        BY <1>3 DEF JobWarm, Held, TypeOK
    <2>2. TypeOK'
        BY <1>3, <2>1, PutTypes DEF JobWarm, TypeOK
    <2>3. Held'
        BY <1>3 DEF JobWarm, Held
    <2> QED
        BY <2>2, <2>3
<1>4. ASSUME NEW warmRedis \in BOOLEAN, JobPutsDone(warmRedis)
      PROVE  TypeInv'
    BY <1>4 DEF JobPutsDone, TypeOK, Held
<1>5. ASSUME JobEnds
      PROVE  TypeInv'
    BY <1>5 DEF JobEnds, TypeOK, Held
<1> QED
    BY <1>1, <1>2, <1>3, <1>4, <1>5 DEF JobWorks

LEMMA EnvironmentTypeInv ==
    ASSUME TypeInv, Environment
    PROVE  TypeInv'
<1> USE DEF TypeInv, readers, jobVars
<1>1. ASSUME NEW u \in Users, NEW w \in Windows, Append(u, w)
      PROVE  TypeInv'
    BY <1>1 DEF Append, TypeOK, Held
<1>2. ASSUME NEW u \in Users, Expire(u)
      PROVE  TypeInv'
    BY <1>2 DEF Expire, TypeOK, Held
<1>3. ASSUME NEW u \in Users, NEW w \in Windows, NEW day \in Windows, Deliver(u, w, day)
      PROVE  TypeInv'
    BY <1>3 DEF Deliver, TypeOK, Held
<1> QED
    BY <1>1, <1>2, <1>3 DEF Environment

LEMMA NextTypeInv == TypeInv /\ [Next]_vars => TypeInv'
<1> SUFFICES ASSUME TypeInv, [Next]_vars PROVE TypeInv'
    OBVIOUS
<1>1. ASSUME NEW r \in Readers, Request(r)
      PROVE  TypeInv'
    BY <1>1, CallTypeInv DEF Request, CallGet, CallMget
<1>2. ASSUME NEW r \in Readers, Lookup(r)
      PROVE  TypeInv'
    BY <1>2, L1ReadTypeInv, L2ReadTypeInv, L2FillTypeInv, L3TypeInv DEF Lookup
<1>3. ASSUME UNCHANGED vars
      PROVE  TypeInv'
    BY <1>3 DEF vars, stores, readers, jobVars, TypeInv, TypeOK, Held
<1> QED
    BY <1>1, <1>2, <1>3, JobTypeInv, EnvironmentTypeInv DEF Next

\* Every variable keeps its type, whatever the mapping of users to objects.
THEOREM CacheTypeCorrect == Spec => []TypeOK
<1>1. TypeInv => TypeOK
    BY DEF TypeInv
<1> QED
    BY <1>1, InitTypeInv, NextTypeInv, PTL DEF Spec

-----------------------------------------------------------------------------
(* Rows                                                                    *)

RowsInv == TypeInv /\ CachesHoldRows /\ CarriedAreRows

LEMMA RowsStay ==
    /\ UNCHANGED <<offline, raw>> => \A u : RowsFor(u)' = RowsFor(u)
    /\ \A u : offline[u] \subseteq offline'[u] /\ raw[u] \subseteq raw'[u] => RowsFor(u) \subseteq RowsFor(u)'
BY DEF RowsFor

\* No two user ids share an object.
OwnObjects == \A u, v \in Users : ServingKey(u) = ServingKey(v) => u = v

LEMMA InitRowsInv == Init => RowsInv
<1> SUFFICES ASSUME Init PROVE RowsInv
    OBVIOUS
<1>1. CachesHoldRows /\ CarriedAreRows
    BY NothingIsNoVector, OFCAssumption
       DEF Init, CachesHoldRows, IsRowOf, CarriedAreRows, AnswersAreRows, ServingKey, NoResult
<1> QED
    BY <1>1, InitTypeInv DEF RowsInv

\* Storing a row under its user leaves rows everywhere.
LEMMA PutKeepsRows ==
    ASSUME RowsInv, OwnObjects, NEW fv \in Vector, IsRowOf(fv, fv.user),
           UNCHANGED <<offline, raw>>,
           redis' \in {redis, RedisPut(fv)}, objects' \in {objects, MinioPut(fv)}
    PROVE  CachesHoldRows'
<1> USE OFCAssumption DEF RowsInv, TypeInv, TypeOK, CachesHoldRows
<1>1. fv.user \in Users /\ fv.window \in Windows /\ fv # Nothing
    BY NothingIsNoVector DEF Vector
<1>2. \A u \in Users : redis'[u] # Nothing => IsRowOf(redis'[u], u)
    BY <1>1 DEF RedisPut
<1>3. \A u \in Users : objects'[ServingKey(u)] # Nothing => IsRowOf(objects'[ServingKey(u)], u)
    BY <1>1 DEF MinioPut, OwnObjects, ServingKey
<1> QED
    BY RowsStay, <1>2, <1>3 DEF ServingKey, IsRowOf

LEMMA CallRowsInv ==
    ASSUME RowsInv, NEW r \in Readers, NEW how \in {"get", "mget"},
           NEW users \in SUBSET Users, Call(r, how, users)
    PROVE  CachesHoldRows' /\ CarriedAreRows'
<1> USE DEF RowsInv, TypeInv, TypeOK, Call, stores, jobVars
<1>1. CachesHoldRows'
    BY RowsStay DEF CachesHoldRows, IsRowOf, ServingKey
<1>2. CarriedAreRows'
    BY RowsStay, NothingIsNoVector DEF CarriedAreRows, AnswersAreRows, IsRowOf, NoResult
<1> QED
    BY <1>1, <1>2

LEMMA ReadRowsInv ==
    ASSUME RowsInv, NEW r \in Readers,
           L1Read(r) \/ \E u \in Users : L2Read(r, u) \/ L3Miss(r, u)
    PROVE  CachesHoldRows' /\ CarriedAreRows'
<1> USE NothingIsNoVector DEF RowsInv, TypeInv, TypeOK, stores, jobVars
<1>1. CachesHoldRows'
    BY RowsStay DEF CachesHoldRows, IsRowOf, ServingKey, L1Read, L2Read, L3Miss
<1>2. \A u \in Users : result'[r][u] \in Vector => IsRowOf(result'[r][u], u)
    <2>1. CASE L1Read(r)
        <3>1. \A u \in Users : result'[r][u] \in {redis[u], Unset}
            BY <2>1 DEF L1Read
        <3>2. \A u \in Users : redis[u] # Nothing => IsRowOf(redis[u], u)
            BY DEF CachesHoldRows
        <3>3. Unset \notin Vector
            BY OFCAssumption
        <3> QED
            BY <3>1, <3>2, <3>3
    <2>2. ASSUME NEW v \in Users, L2Read(r, v)
          PROVE  \A u \in Users : result'[r][u] \in Vector => IsRowOf(result'[r][u], u)
        <3>1. result'[r][v] \in {objects[ServingKey(v)], Nothing, Unset}
            BY <2>2 DEF L2Read, L2Miss
        <3>2. \A u \in Users \ {v} : result'[r][u] = result[r][u]
            BY <2>2 DEF L2Read
        <3>3. result'[r][v] \in Vector => IsRowOf(result'[r][v], v)
            BY RowsStay, <3>1 DEF CachesHoldRows, IsRowOf
        <3>4. \A u \in Users : result[r][u] \in Vector => IsRowOf(result[r][u], u)
            BY DEF CarriedAreRows, AnswersAreRows
        <3> QED
            BY <3>2, <3>3, <3>4
    <2>3. ASSUME NEW v \in Users, L3Miss(r, v)
          PROVE  \A u \in Users : result'[r][u] \in Vector => IsRowOf(result'[r][u], u)
        BY <2>3 DEF L3Miss, CarriedAreRows, AnswersAreRows
    <2> QED
        BY <2>1, <2>2, <2>3
<1>3. UNCHANGED <<offline, raw, hand, vectors>> /\ \A q \in Readers \ {r} : result'[q] = result[q]
    BY DEF L1Read, L2Read, L3Miss
<1>4. CarriedAreRows'
    BY RowsStay, <1>2, <1>3 DEF CarriedAreRows, AnswersAreRows, IsRowOf
<1> QED
    BY <1>1, <1>4

LEMMA L3HitRowsInv ==
    ASSUME RowsInv, NEW r \in Readers, NEW u \in Users, NEW w \in Windows, L3Hit(r, u, w)
    PROVE  CachesHoldRows' /\ CarriedAreRows'
<1> USE DEF RowsInv, TypeInv, TypeOK, L3Hit, stores, jobVars
<1>1. CachesHoldRows'
    BY RowsStay DEF CachesHoldRows, IsRowOf, ServingKey
<1>2. CarriedAreRows'
    <2>1. PICK fv \in Vector : /\ fv = [user |-> u, window |-> w] /\ IsRowOf(fv, u)
                               /\ result' = [result EXCEPT ![r][u] = fv]
                               /\ hand' = [hand EXCEPT ![r] = fv]
        BY DEF Vector, IsRowOf, RowsFor
    <2>2. UNCHANGED <<offline, raw, vectors>>
        OBVIOUS
    <2>3. \A q \in Readers, v \in Users : result'[q][v] \in {result[q][v], fv}
                                       /\ (result'[q][v] # result[q][v] => v = u)
        BY <2>1
    <2>4. \A q \in Readers : hand'[q] \in {hand[q], fv}
        BY <2>1
    <2>5. fv.user = u
        BY <2>1
    <2> HIDE DEF L3Hit, TypeOK, TypeInv
    <2> QED
        BY RowsStay, <2>1, <2>2, <2>3, <2>4, <2>5 DEF CarriedAreRows, AnswersAreRows, IsRowOf
<1> QED
    BY <1>1, <1>2

LEMMA FillRowsInv ==
    ASSUME RowsInv, OwnObjects, NEW r \in Readers,
           \/ L3FillRedis(r) \/ L3FillMinio(r)
           \/ \E u \in Users : L2Fill(r, u)
    PROVE  CachesHoldRows' /\ CarriedAreRows'
<1> USE DEF RowsInv, TypeInv, Held
<1>1. CachesHoldRows'
    <2>1. CASE L3FillRedis(r)
        <3>1. hand[r] \in Vector /\ IsRowOf(hand[r], hand[r].user)
            BY <2>1 DEF L3FillRedis, CarriedAreRows, Vector
        <3>2. redis' \in {redis, RedisPut(hand[r])} /\ UNCHANGED <<offline, raw, objects>>
            BY <2>1 DEF L3FillRedis
        <3> QED
            BY <3>1, <3>2, PutKeepsRows
    <2>2. CASE L3FillMinio(r)
        <3>1. hand[r] \in Vector /\ IsRowOf(hand[r], hand[r].user)
            BY <2>2 DEF L3FillMinio, CarriedAreRows, Vector
        <3>2. objects' \in {objects, MinioPut(hand[r])} /\ UNCHANGED <<offline, raw, redis>>
            BY <2>2 DEF L3FillMinio
        <3> QED
            BY <3>1, <3>2, PutKeepsRows
    <2>3. ASSUME NEW u \in Users, L2Fill(r, u)
          PROVE  CachesHoldRows'
        <3>1. result[r][u] \in Vector /\ IsRowOf(result[r][u], u)
            BY <2>3 DEF L2Fill, CarriedAreRows, AnswersAreRows
        <3> QED
            BY <2>3, <3>1, PutKeepsRows DEF L2Fill, IsRowOf
    <2> QED
        BY <2>1, <2>2, <2>3
<1>2. UNCHANGED <<offline, raw, result, vectors>>
    BY DEF L3FillRedis, L3FillMinio, L2Fill, jobVars
<1>3. \A q \in Readers : hand'[q] \in {hand[q], Nothing}
    BY DEF L3FillRedis, L3FillMinio, L2Fill, TypeOK
<1>4. CarriedAreRows'
    <2>1. \A q \in Readers, u \in Users : hand'[q] \in Vector /\ hand'[q].user = u => IsRowOf(hand'[q], u)
        BY <1>3, NothingIsNoVector DEF CarriedAreRows
    <2> QED
        BY RowsStay, <1>2, <2>1 DEF CarriedAreRows, AnswersAreRows, IsRowOf
<1> QED
    BY <1>1, <1>4

LEMMA JobRowsInv ==
    ASSUME RowsInv, OwnObjects, JobWorks \/ \E range \in SUBSET Windows : JobRead(range)
    PROVE  CachesHoldRows' /\ CarriedAreRows'
<1> USE DEF RowsInv, TypeInv, stores, readers
<1>1. ASSUME NEW range \in SUBSET Windows, JobRead(range)
      PROVE  CachesHoldRows' /\ CarriedAreRows'
    <2>1. \A u \in Users : vectors'[u] # Nothing => IsRowOf(vectors'[u], u)
        <3>1. PICK rows \in RowsRead(range) : vectors' = [u \in Users |-> LatestOf(rows, u)]
            BY <1>1 DEF JobRead
        <3> QED
            BY <3>1, LatestOfType, ReadRows
    <2> QED
        BY RowsStay, <1>1, <2>1 DEF JobRead, CachesHoldRows, CarriedAreRows, AnswersAreRows, IsRowOf, ServingKey
<1>2. ASSUME NEW u \in Users, JobPut(u) \/ JobWarm(u)
      PROVE  CachesHoldRows' /\ CarriedAreRows'
    <2>1. vectors[u] \in Vector /\ IsRowOf(vectors[u], u)
        BY <1>2 DEF JobPut, JobWarm, Held, TypeOK, CarriedAreRows, AnswersAreRows
    <2>2. CachesHoldRows'
        BY RowsStay, <1>2, <2>1, PutKeepsRows DEF JobPut, JobWarm, IsRowOf
    <2>3. CarriedAreRows'
        BY RowsStay, <1>2 DEF JobPut, JobWarm, CarriedAreRows, AnswersAreRows, IsRowOf
    <2> QED
        BY <2>2, <2>3
<1>3. ASSUME JobEnds \/ \E warmRedis \in BOOLEAN : JobPutsDone(warmRedis)
      PROVE  CachesHoldRows' /\ CarriedAreRows'
    <2>1. UNCHANGED <<offline, raw, redis, objects, result, hand, vectors>>
        BY <1>3 DEF JobEnds, JobPutsDone
    <2> QED
        BY RowsStay, <2>1 DEF CachesHoldRows, CarriedAreRows, AnswersAreRows, IsRowOf, ServingKey
<1> QED
    BY <1>1, <1>2, <1>3 DEF JobWorks

LEMMA EnvironmentRowsInv ==
    ASSUME RowsInv, Environment
    PROVE  CachesHoldRows' /\ CarriedAreRows'
<1> USE OFCAssumption DEF RowsInv, TypeInv, TypeOK, readers, jobVars
<1>1. ASSUME UNCHANGED <<redis, objects, result, hand, vectors>>,
             \A v \in Users : offline[v] \subseteq offline'[v] /\ raw[v] \subseteq raw'[v]
      PROVE  CachesHoldRows' /\ CarriedAreRows'
    <2>1. \A v \in Users : RowsFor(v) \subseteq RowsFor(v)'
        BY <1>1, RowsStay
    <2>2. CachesHoldRows'
        BY RowsStay, <1>1, <2>1 DEF CachesHoldRows, IsRowOf, ServingKey
    <2>3. CarriedAreRows'
        BY RowsStay, <1>1, <2>1 DEF CarriedAreRows, AnswersAreRows, IsRowOf, Vector
    <2> QED
        BY <2>2, <2>3
<1>3. ASSUME NEW u \in Users, NEW w \in Windows,
             Append(u, w) \/ \E day \in Windows : Deliver(u, w, day)
      PROVE  CachesHoldRows' /\ CarriedAreRows'
    <2>1. UNCHANGED <<redis, objects, result, hand, vectors>>
        BY <1>3 DEF Append, Deliver
    <2>2. \A v \in Users : offline[v] \subseteq offline'[v] /\ raw[v] \subseteq raw'[v]
        <3>1. CASE Append(u, w)
            BY <3>1 DEF Append
        <3>2. ASSUME NEW day \in Windows, Deliver(u, w, day)
              PROVE  \A v \in Users : offline[v] \subseteq offline'[v] /\ raw[v] \subseteq raw'[v]
            <4>1. offline' = offline /\ raw' = [raw EXCEPT ![u] = @ \cup {<<w, day>>}]
                BY <3>2 DEF Deliver
            <4>2. DOMAIN raw = Users
                OBVIOUS
            <4> HIDE DEF TypeOK
            <4> QED
                BY <4>1, <4>2
        <3> QED
            BY <1>3, <3>1, <3>2
    <2> HIDE DEF TypeOK
    <2> QED
        BY <1>1, <2>1, <2>2
<1>2. ASSUME NEW u \in Users, Expire(u)
      PROVE  CachesHoldRows' /\ CarriedAreRows'
    <2>1. UNCHANGED <<offline, raw, objects, result, hand, vectors>>
        BY <1>2 DEF Expire
    <2>2. \A v \in Users : redis'[v] \in {redis[v], Nothing}
        BY <1>2 DEF Expire
    <2> QED
        BY RowsStay, <2>1, <2>2 DEF CachesHoldRows, CarriedAreRows, AnswersAreRows, IsRowOf, ServingKey
<1> QED
    BY <1>2, <1>3 DEF Environment

LEMMA NextRowsInv == OwnObjects /\ RowsInv /\ [Next]_vars => RowsInv'
<1> SUFFICES ASSUME OwnObjects, RowsInv, [Next]_vars PROVE RowsInv'
    OBVIOUS
<1>1. TypeInv'
    BY NextTypeInv DEF RowsInv
<1>2. ASSUME NEW r \in Readers, Request(r)
      PROVE  CachesHoldRows' /\ CarriedAreRows'
    BY <1>2, CallRowsInv DEF Request, CallGet, CallMget
<1>3. ASSUME NEW r \in Readers, Lookup(r)
      PROVE  CachesHoldRows' /\ CarriedAreRows'
    BY <1>3, ReadRowsInv, L3HitRowsInv, FillRowsInv DEF Lookup
<1>4. ASSUME UNCHANGED vars
      PROVE  CachesHoldRows' /\ CarriedAreRows'
    BY RowsStay, <1>4 DEF vars, stores, readers, jobVars, RowsInv, CachesHoldRows, IsRowOf,
                CarriedAreRows, AnswersAreRows, IsRowOf, ServingKey
<1> QED
    BY <1>1, <1>2, <1>3, <1>4, JobRowsInv, EnvironmentRowsInv DEF Next, RowsInv

\* With an object per user, every vector a cache level holds is a row of the
\* user it is filed under, and every call answers with its users' vectors, whichever
\* store the job has read.
THEOREM CachesAreSound ==
    ASSUME OwnObjects
    PROVE  Spec => []RowsOfTheirUser
<1>1. RowsInv => RowsOfTheirUser
    BY DEF RowsInv, RowsOfTheirUser, CarriedAreRows, AnswersAreRows
<1>2. RowsInv /\ [Next]_vars => RowsInv'
    BY NextRowsInv
<1> QED
    BY <1>1, <1>2, InitRowsInv, PTL DEF Spec

-----------------------------------------------------------------------------
(* Honest misses                                                           *)

ModesInv == TypeInv /\ ReaderModes

LEMMA NextModesInv == ModesInv /\ [Next]_vars => ModesInv'
<1> SUFFICES ASSUME ModesInv, [Next]_vars PROVE ReaderModes'
    BY NextTypeInv DEF ModesInv
<1> USE DEF ModesInv, TypeInv, TypeOK, ReaderModes, HasMinio, stores, readers, jobVars
<1>1. ASSUME NEW r \in Readers, Request(r)
      PROVE  ReaderModes'
    BY <1>1 DEF Request, CallGet, CallMget, Call
<1>2. ASSUME NEW r \in Readers, Lookup(r)
      PROVE  ReaderModes'
    <2>1. UNCHANGED setting /\ \A q \in Readers \ {r} : pc'[q] = pc[q]
        BY <1>2 DEF Lookup, L1Read, L2Read, L2Fill, L3Miss, L3Hit, L3FillRedis, L3FillMinio
    <2>2. pc'[r] = "l2" => HasMinio
        BY <1>2 DEF Lookup, L1Read, L2Read, L2Fill, L3Miss, L3Hit, L3FillRedis,
                    L3FillMinio, L3Goes
    <2> QED
        BY <2>1, <2>2
<1>3. ASSUME NEW range \in SUBSET Windows, JobRead(range)
      PROVE  ReaderModes'
    BY <1>3 DEF JobRead
<1>4. CASE JobWorks
    BY <1>4 DEF JobWorks, JobPut, JobWarm, JobPutsDone, JobEnds
<1>5. CASE Environment
    BY <1>5 DEF Environment, Append, Deliver, Expire
<1>6. CASE UNCHANGED vars
    BY <1>6 DEF vars
<1> QED
    BY <1>1, <1>2, <1>3, <1>4, <1>5, <1>6 DEF Next

\* Where Iceberg answers, a get, or a batch call without a MinIO client, gives up on a
\* user only when the table has no row for it, whatever other services fail.
THEOREM NoneIsHonest == Spec => NoneMeansAbsent
<1> DEFINE Honest(r, u) ==
      /\ "iceberg" \notin Faults /\ (op[r] = "get" \/ ~HasMinio)
      /\ GivesUpOn(r, u)
      => offline[u] = {}
<1>1. Init => ModesInv
    BY InitTypeInv, OFCAssumption DEF Init, ModesInv, ReaderModes
<1>2. ModesInv /\ [Next]_vars => \A r \in Readers, u \in Users : Honest(r, u)
    <2> SUFFICES ASSUME ModesInv, [Next]_vars, NEW r \in Readers, NEW u \in Users,
                        "iceberg" \notin Faults, op[r] = "get" \/ ~HasMinio,
                        result[r][u] # Nothing, result'[r][u] = Nothing
                 PROVE  offline[u] = {}
        BY DEF GivesUpOn
    <2> USE NothingIsNoVector DEF ModesInv, TypeInv, TypeOK, stores, readers, jobVars
    <2>1. ASSUME NEW q \in Readers, Request(q)
          PROVE  FALSE
        <3>1. result' = [result EXCEPT ![q] = NoResult]
            BY <2>1 DEF Request, CallGet, CallMget, Call
        <3> QED
            BY <3>1 DEF NoResult
    <2>2. ASSUME NEW q \in Readers, Lookup(q)
          PROVE  offline[u] = {}
        <3>1. ~L1Read(q)
            <4>1. L1Read(q) => result'[q][u] # Nothing
                BY DEF L1Read
            <4> QED
                BY <4>1 DEF L1Read
        <3>2. ASSUME NEW v \in Users, L2Read(q, v)
              PROVE  FALSE
            <4>0. q = r
                BY <3>2 DEF L2Read
            <4>1. L2Miss(q) = Unset
                BY <3>2, <4>0 DEF L2Read, L2Miss, ReaderModes
            <4>2. result'[q][v] # Nothing
                BY <3>2, <4>1 DEF L2Read
            <4> QED
                BY <3>2, <4>2 DEF L2Read
        <3>3. ASSUME NEW v \in Users, L3Miss(q, v)
              PROVE  offline[u] = {}
            BY <3>3 DEF L3Miss
        <3>4. ASSUME NEW v \in Users, NEW w \in Windows, L3Hit(q, v, w)
              PROVE  FALSE
            BY <3>4 DEF L3Hit, Nothing, Windows
        <3>5. ~L3FillRedis(q) /\ ~L3FillMinio(q) /\ \A v \in Users : ~L2Fill(q, v)
            BY DEF L3FillRedis, L3FillMinio, L2Fill
        <3> QED
            BY <2>2, <3>1, <3>2, <3>3, <3>4, <3>5 DEF Lookup
    <2>3. ASSUME NEW range \in SUBSET Windows, JobRead(range)
          PROVE  FALSE
        BY <2>3 DEF JobRead
    <2>4. ~JobWorks /\ ~Environment /\ ~UNCHANGED vars
        BY DEF JobWorks, JobPut, JobWarm, JobPutsDone, JobEnds, Environment, Append,
               Deliver, Expire, vars
    <2> QED
        BY <2>1, <2>2, <2>3, <2>4 DEF Next
<1>3. ModesInv /\ [Next]_vars =>
        [\A r \in Readers, u \in Users : Honest(r, u)]_vars
    BY <1>2
<1> QED
    BY <1>1, <1>3, NextModesInv, PTL DEF Spec, NoneMeansAbsent
=============================================================================
