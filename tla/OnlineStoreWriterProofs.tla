----------------------- MODULE OnlineStoreWriterProofs -----------------------
(***************************************************************************)
(* Proofs about OnlineStoreWriter: what its sorted set holds after writes  *)
(* in any order, and that redelivered records leave no trace.              *)
(***************************************************************************)
EXTENDS OnlineStoreWriter, FiniteSetTheorems, WellFoundedInduction, TLAPS

-----------------------------------------------------------------------------
(* The order of a sorted set, and its highest members                      *)

\* A set of numbers has a least one: induction without a predicate as parameter.
LEMMA LeastNumber ==
    ASSUME NEW T, T \subseteq Nat, T # {}
    PROVE  \E x \in T : \A y \in T : x <= y
<1>1. PICK x \in T : \A y \in T : ~(<<y, x>> \in OpToRel(<, Nat))
  BY WFMin, NatLessThanWellFounded
<1>2. \A y \in T : ~(y < x)
  BY <1>1 DEF OpToRel
<1> QED  BY <1>2

LEMMA RecordFields ==
    ASSUME NEW m \in Records
    PROVE  /\ m = [window |-> m.window, count |-> m.count]
           /\ m.window \in Nat /\ m.count \in Nat
<1>1. Counts \subseteq Nat /\ MaxWindow \in Nat
  BY OSWAssumption
<1>2. m = [window |-> m.window, count |-> m.count]
  BY DEF Records
<1>3. m.window \in 1..MaxWindow /\ m.count \in Counts
  BY DEF Records
<1> QED  BY <1>1, <1>2, <1>3

LEMMA BelowOrder ==
    ASSUME NEW a \in Records, NEW b \in Records, NEW c \in Records
    PROVE  /\ ~Below(a, a)
           /\ Below(a, b) /\ Below(b, c) => Below(a, c)
           /\ a = b \/ Below(a, b) \/ Below(b, a)
           /\ Below(a, b) => ~Below(b, a)
<1>1. \A x \in {a, b, c} : x.window \in Nat /\ x.count \in Nat
  BY RecordFields
<1>2. a.window = b.window /\ a.count = b.count => a = b
  BY RecordFields
<1>3. /\ a.window \in Int /\ b.window \in Int /\ c.window \in Int
      /\ a.count \in Int /\ b.count \in Int /\ c.count \in Int
  BY <1>1
<1> QED  BY <1>2, <1>3 DEF Below

Above(h, m) == {x \in h : Below(m, x)}

LEMMA AboveFinite ==
    ASSUME NEW h, IsFiniteSet(h), NEW m
    PROVE  IsFiniteSet(Above(h, m)) /\ Cardinality(Above(h, m)) \in Nat
<1>1. Above(h, m) \subseteq h
  BY DEF Above
<1> QED  BY <1>1, FS_Subset, FS_CardinalityType

\* Of more records there are at least as many above.
LEMMA AboveGrows ==
    ASSUME NEW g, NEW h, IsFiniteSet(h), g \subseteq h, NEW m
    PROVE  Cardinality(Above(g, m)) <= Cardinality(Above(h, m))
<1>1. Above(g, m) \subseteq Above(h, m) /\ IsFiniteSet(Above(h, m))
  BY AboveFinite DEF Above
<1> QED  BY <1>1, FS_Subset

\* A higher record has fewer above it.
LEMMA AboveShrinks ==
    ASSUME NEW h, IsFiniteSet(h), h \subseteq Records, NEW m \in Records, NEW y \in h, Below(m, y)
    PROVE  /\ Above(h, y) \subseteq Above(h, m)
           /\ Cardinality(Above(h, y)) < Cardinality(Above(h, m))
<1>1. Above(h, y) \subseteq Above(h, m)
  <2> SUFFICES ASSUME NEW x \in h, Below(y, x) PROVE Below(m, x)
    BY DEF Above
  <2>1. m \in Records /\ y \in Records /\ x \in Records
    OBVIOUS
  <2> QED  BY <2>1, BelowOrder
<1>2. y \in Above(h, m) /\ y \notin Above(h, y)
  BY BelowOrder DEF Above
<1>3. IsFiniteSet(Above(h, m))
  BY AboveFinite
<1>4. /\ IsFiniteSet(Above(h, y)) /\ Cardinality(Above(h, y)) <= Cardinality(Above(h, m))
      /\ Cardinality(Above(h, y)) # Cardinality(Above(h, m))
  BY <1>1, <1>2, <1>3, FS_Subset
<1>5. Cardinality(Above(h, y)) \in Nat /\ Cardinality(Above(h, m)) \in Nat
  BY <1>3, <1>4, FS_CardinalityType
<1> QED  BY <1>1, <1>4, <1>5

LEMMA HighestMember ==
    ASSUME NEW T, IsFiniteSet(T), T # {}, T \subseteq Records
    PROVE  \E m \in T : Above(T, m) = {}
<1> DEFINE sizes == {Cardinality(Above(T, m)) : m \in T}
<1>1. sizes \subseteq Nat /\ sizes # {}
  BY AboveFinite
<1>2. PICK n \in sizes : \A o \in sizes : n <= o
  BY <1>1, LeastNumber
<1>3. PICK m \in T : Cardinality(Above(T, m)) = n
  BY <1>2
<1>4. ASSUME NEW y \in Above(T, m) PROVE FALSE
  <2>1. y \in T /\ Below(m, y) /\ m \in Records
    BY <1>4 DEF Above
  <2>2. Cardinality(Above(T, y)) < n /\ Cardinality(Above(T, y)) \in sizes
    BY <1>3, <2>1, AboveShrinks
  <2>3. n \in Nat /\ Cardinality(Above(T, y)) \in Nat /\ n <= Cardinality(Above(T, y))
    BY <1>1, <1>2, <2>2
  <2> QED  BY <2>2, <2>3
<1> QED  BY <1>4

LEMMA LowestMember ==
    ASSUME NEW T, T # {}, T \subseteq Records
    PROVE  \E m \in T : \A x \in T : x = m \/ Below(m, x)
<1> DEFINE windows == {m.window : m \in T}
<1>1. windows \subseteq Nat /\ windows # {}
  BY RecordFields
<1>2. PICK w \in windows : \A v \in windows : w <= v
  BY <1>1, LeastNumber
<1> DEFINE counts == {m.count : m \in {x \in T : x.window = w}}
<1>3. counts \subseteq Nat /\ counts # {}
  <2>1. \A m \in T : m.count \in Nat
    BY RecordFields
  <2>2. \E m \in T : m.window = w
    BY <1>2
  <2> QED  BY <2>1, <2>2
<1>4. PICK c \in counts : \A d \in counts : c <= d
  BY <1>3, LeastNumber
<1>5. PICK m \in T : m.window = w /\ m.count = c
  BY <1>4
<1>6. ASSUME NEW x \in T PROVE x = m \/ Below(m, x)
  <2>1. ~Below(x, m)
    <3>1. m.window <= x.window /\ (x.window = m.window => m.count <= x.count)
      BY <1>2, <1>4, <1>5
    <3>2. x.window \in Nat /\ m.window \in Nat /\ x.count \in Nat /\ m.count \in Nat
      BY RecordFields
    <3> QED  BY <3>1, <3>2 DEF Below
  <2> QED  BY <2>1, BelowOrder
<1> QED  BY <1>6

LEMMA HighestAbove ==
    ASSUME NEW h, NEW k PROVE Highest(h, k) = {m \in h : Cardinality(Above(h, m)) < k}
BY DEF Highest, Above

\* No more than k members are among the k highest.
LEMMA HighestBound ==
    ASSUME NEW h, IsFiniteSet(h), h \subseteq Records, NEW k \in Nat
    PROVE  IsFiniteSet(Highest(h, k)) /\ Cardinality(Highest(h, k)) <= k
<1> DEFINE g == Highest(h, k)
<1>1. g \subseteq h /\ \A m \in g : Cardinality(Above(h, m)) < k
  BY HighestAbove
<1> HIDE DEF g
<1>2. IsFiniteSet(g)
  BY <1>1, FS_Subset
<1>3. CASE g = {}
  BY <1>3, FS_EmptySet DEF g
<1>4. CASE g # {}
  <2>1. PICK m \in g : \A x \in g : x = m \/ Below(m, x)
    BY <1>1, <1>4, LowestMember
  <2>2. g \ {m} \subseteq Above(h, m) /\ IsFiniteSet(Above(h, m))
    BY <1>1, <2>1, AboveFinite DEF Above
  <2>3. Cardinality(g \ {m}) <= Cardinality(Above(h, m))
    BY <2>2, FS_Subset
  <2>4. Cardinality(g \ {m}) = Cardinality(g) - 1
    BY <1>2, <2>1, FS_RemoveElement
  <2>5. Cardinality(g) \in Nat /\ Cardinality(Above(h, m)) \in Nat /\ Cardinality(Above(h, m)) < k
    BY <1>1, <1>2, <2>1, AboveFinite, FS_CardinalityType
  <2> QED  BY <1>2, <2>3, <2>4, <2>5 DEF g
<1> QED  BY <1>3, <1>4

\* Above a member that is not among the k highest there are k that are.
LEMMA HighestFull ==
    ASSUME NEW h, IsFiniteSet(h), h \subseteq Records, NEW k \in Nat,
           NEW m \in Records, NEW y \in h, Below(m, y), y \notin Highest(h, k)
    PROVE  ~(Cardinality(Above(Highest(h, k), m)) < k)
<1> DEFINE g == Highest(h, k)
           lost == {x \in h : Below(m, x) /\ x \notin g}
<1>1. g \subseteq h /\ \A x \in h \ g : ~(Cardinality(Above(h, x)) < k)
  BY HighestAbove
<1> HIDE DEF g
<1>2. y \in lost /\ lost \subseteq h
  BY DEF g
<1>3. IsFiniteSet(lost)
  BY <1>2, FS_Subset
<1>4. PICK x \in lost : Above(lost, x) = {}
  BY <1>2, <1>3, HighestMember
<1>5. x \in h /\ Below(m, x) /\ x \in Records
  BY <1>2, <1>4
<1>6. Above(h, x) \subseteq Above(g, m)
  <2> SUFFICES ASSUME NEW z \in h, Below(x, z) PROVE z \in g /\ Below(m, z)
    BY DEF Above
  <2>1. Below(m, z)
    BY <1>5, BelowOrder
  <2>2. z \in lost => z \in Above(lost, x)
    BY DEF Above
  <2> QED  BY <1>4, <2>1, <2>2
<1>7. IsFiniteSet(Above(g, m))
  BY <1>1, FS_Subset, AboveFinite
<1>8. Cardinality(Above(h, x)) <= Cardinality(Above(g, m))
  BY <1>6, <1>7, FS_Subset
<1>9. Cardinality(Above(h, x)) \in Nat /\ Cardinality(Above(g, m)) \in Nat
  BY <1>7, AboveFinite, FS_CardinalityType
<1>10. ~(Cardinality(Above(h, x)) < k)
  BY <1>1, <1>4, <1>5
<1> QED  BY <1>8, <1>9, <1>10 DEF g

-----------------------------------------------------------------------------
(* Records in the store are records of the topic                           *)

Handed == hand # NoRecord => up /\ position >= 1 /\ hand = log[position]

Fetched == position <= Len(log) /\ (committed # NoCommit => committed <= Len(log))

Recorded == /\ written \subseteq 1..Len(log)
            /\ \A n \in written : log[n] \in Records

StoreInv == TypeOK /\ Handed /\ Fetched /\ Recorded

LEMMA Bounds == MaxLog \in Nat /\ NoCommit \in Nat /\ NoCommit = MaxLog + 1
BY OSWAssumption DEF NoCommit

LEMMA SettingFields ==
    ASSUME NEW s \in Settings
    PROVE  /\ s.messages \subseteq Records \cup {Malformed, NonNumeric}
           /\ s.length \in 0..MaxLog
BY OSWAssumption DEF Circumstances

\* The messages a topic may carry are three kinds apart, and none is NoRecord.
LEMMA Messages ==
    /\ NoRecord \notin Records \cup {Malformed, NonNumeric}
    /\ Malformed # NonNumeric /\ Malformed \notin Records /\ NonNumeric \notin Records
BY OSWAssumption

LEMMA HistAfterRecords ==
    ASSUME NEW h, h \subseteq Records, NEW rec \in Records
    PROVE  HistAfter(h, rec) \subseteq Records /\ HistAfter(h, rec) \subseteq h \cup {rec}
BY DEF HistAfter, Capped, Pruned, Highest

LEMMA StoreTypes == Spec => []StoreInv
<1>1. Init => StoreInv
  <2> SUFFICES ASSUME Init PROVE StoreInv
    OBVIOUS
  <2>1. log \in Seq(setting.messages) /\ Len(log) = 0
    BY DEF Init
  <2>2. setting \in Settings /\ setting.length \in Nat
    BY SettingFields, Bounds DEF Init
  <2>3. TypeOK
    <3>1. Len(log) <= setting.length /\ committed \in 0..NoCommit /\ position \in 0..MaxLog
      BY <2>1, <2>2, Bounds DEF Init
    <3> QED  BY <2>1, <2>2, <3>1 DEF Init, TypeOK
  <2> QED  BY <2>1, <2>3 DEF Init, StoreInv, Handed, Fetched, Recorded
<1>2. StoreInv /\ [Next]_vars => StoreInv'
  <2> SUFFICES ASSUME StoreInv, [Next]_vars PROVE StoreInv'
    OBVIOUS
  <2> USE DEF StoreInv
  <2>b. /\ MaxLog \in Nat /\ NoCommit = MaxLog + 1 /\ Len(log) \in Nat /\ position \in Nat
        /\ setting.length \in 0..MaxLog /\ Len(log) <= MaxLog
    BY Bounds, SettingFields DEF TypeOK
  <2> USE DEF TypeOK, Handed, Fetched, Recorded
  <2>1. CASE Start
    <3>1. hand = NoRecord
      BY <2>1 DEF Start
    <3>2. position' \in 0..MaxLog /\ position' <= Len(log)
      BY <2>1, <2>b DEF Start
    <3> QED  BY <2>1, <3>1, <3>2, <2>b DEF Start
  <2>2. CASE Fetch
    <3>1. /\ position' = position + 1 /\ hand' = log[position + 1] /\ up /\ position < Len(log)
          /\ UNCHANGED <<setting, log, committed, up, latest, hist, written>>
      BY <2>2 DEF Fetch
    <3>2. position + 1 \in 1..Len(log) /\ position + 1 \in 1..MaxLog /\ position + 1 \in 0..MaxLog
      BY <3>1, <2>b
    <3>3. log[position + 1] \in setting.messages
      BY <3>2
    <3> QED  BY <3>1, <3>2, <3>3, <2>b
  <2>3. CASE SkipMalformed
    BY <2>3 DEF SkipMalformed
  <2>4. CASE DieOnNonNumeric
    BY <2>4 DEF DieOnNonNumeric
  <2>5. CASE Write
    <3>1. /\ hand \in Records /\ latest' = hand /\ hist' = HistAfter(hist, hand)
          /\ written' = written \cup {position} /\ hand' = NoRecord
          /\ UNCHANGED <<setting, log, committed, up, position>>
      BY <2>5 DEF Write
    <3>2. HistAfter(hist, hand) \subseteq Records
      BY <3>1, HistAfterRecords
    <3>3. position \in 1..Len(log) /\ position \in 1..MaxLog /\ log[position] \in Records
      BY <3>1, <2>b, Messages
    <3> QED  BY <3>1, <3>2, <3>3, <2>b
  <2>6. CASE WriteFails
    BY <2>6 DEF WriteFails
  <2>7. CASE AutoCommit
    BY <2>7, <2>b DEF AutoCommit
  <2>8. CASE IdleExit
    <3>1. committed' \in 0..NoCommit /\ committed' <= Len(log)
      BY <2>8, <2>b DEF IdleExit
    <3> QED  BY <2>8, <3>1 DEF IdleExit
  <2>9. CASE Shutdown
    <3>1. committed' \in 0..NoCommit /\ committed' <= Len(log)
      BY <2>9, <2>b DEF Shutdown
    <3> QED  BY <2>9, <3>1 DEF Shutdown
  <2>10. CASE Crash
    BY <2>10 DEF Crash
  <2>11. ASSUME NEW m \in Records \cup {Malformed, NonNumeric}, Produce(m) PROVE StoreInv'
    <3>1. /\ Len(log) < setting.length /\ m \in setting.messages /\ log' = Append(log, m)
          /\ UNCHANGED <<setting, committed, up, position, hand, latest, hist, written>>
      BY <2>11 DEF Produce
    <3>2. /\ log' \in Seq(setting.messages) /\ Len(log') = Len(log) + 1
          /\ \A n \in 1..Len(log) : log'[n] = log[n]
      BY <3>1
    <3>3. TypeOK'
      BY <3>1, <3>2, <2>b
    <3>4. Handed'
      BY <3>1, <3>2, <2>b
    <3>5. Fetched' /\ Recorded'
      BY <3>1, <3>2, <2>b
    <3> QED  BY <3>3, <3>4, <3>5
  <2>12. CASE ExpireHist
    BY <2>12 DEF ExpireHist
  <2>13. CASE ExpireLatest
    BY <2>13 DEF ExpireLatest
  <2>14. CASE UNCHANGED vars
    BY <2>14 DEF vars
  <2> QED  BY <2>1, <2>2, <2>3, <2>4, <2>5, <2>6, <2>7, <2>8, <2>9, <2>10, <2>11, <2>12, <2>13,
             <2>14 DEF Next, Handle
<1> QED  BY <1>1, <1>2, PTL DEF Spec

\* Types hold in every state of a writer: a message in hand is the one its consumer
\* counted last, and every offset called written is a record of the topic.
THEOREM WriterTypes == Spec => []TypeOK
<1>1. StoreInv => TypeOK
  BY DEF StoreInv
<1> QED  BY <1>1, StoreTypes, PTL

-----------------------------------------------------------------------------
(* The history against everything ever written                             *)

Gone(all, rec) ==
    \/ \E other \in all : rec.window + HistSpan <= other.window
    \/ Cardinality(Above(all, rec)) > MaxHist

LEMMA GoneAsSaid == \A rec : MayBeGone(rec) <=> Gone(WrittenRecords, rec)
BY DEF MayBeGone, Gone, Above

LEMMA GoneGrows ==
    ASSUME NEW all, IsFiniteSet(all), NEW some, some \subseteq all, NEW rec, Gone(some, rec)
    PROVE  Gone(all, rec)
<1>1. CASE \E other \in some : rec.window + HistSpan <= other.window
  BY <1>1 DEF Gone
<1>2. CASE Cardinality(Above(some, rec)) > MaxHist
  <2>1. Cardinality(Above(some, rec)) <= Cardinality(Above(all, rec))
    BY AboveGrows
  <2>2. IsFiniteSet(some)
    BY FS_Subset
  <2>3. Cardinality(Above(some, rec)) \in Nat /\ Cardinality(Above(all, rec)) \in Nat
    BY <2>2, AboveFinite
  <2>4. MaxHist \in Nat
    BY OSWAssumption
  <2> QED  BY <1>2, <2>1, <2>3, <2>4 DEF Gone
<1> QED  BY <1>1, <1>2 DEF Gone

\* One transaction keeps what is due of the old history and of its record.
LEMMA TransactionExact ==
    ASSUME NEW all, IsFiniteSet(all), all \subseteq Records, NEW h, h \subseteq all,
           NEW rec \in all
    PROVE  /\ HistAfter(h, rec) \subseteq h \cup {rec}
           /\ \A m \in (h \cup {rec}) \ HistAfter(h, rec) : Gone(all, m)
           /\ Cardinality(HistAfter(h, rec)) <= MaxHist + 1
           /\ \A m \in HistAfter(h, rec) : m.window + HistSpan > rec.window
<1> DEFINE kept == Pruned(h \cup {rec}, rec)
<1>1. /\ kept \subseteq h \cup {rec} /\ kept \subseteq all
      /\ \A m \in kept : m.window + HistSpan > rec.window
      /\ \A m \in (h \cup {rec}) \ kept : ~(m.window + HistSpan > rec.window)
  BY DEF Pruned
<1>2. HistAfter(h, rec) = Highest(kept, MaxHist + 1)
  BY DEF HistAfter, Capped
<1> HIDE DEF kept
<1>3. IsFiniteSet(kept) /\ kept \subseteq Records
  BY <1>1, FS_Subset
<1>4. MaxHist + 1 \in Nat /\ MaxHist \in Nat /\ HistSpan \in Nat
  BY OSWAssumption
<1>5. /\ Highest(kept, MaxHist + 1) \subseteq kept
      /\ \A m \in kept \ Highest(kept, MaxHist + 1) :
            ~(Cardinality(Above(kept, m)) < MaxHist + 1)
  BY HighestAbove
<1>6. Cardinality(HistAfter(h, rec)) <= MaxHist + 1
  BY <1>2, <1>3, <1>4, HighestBound
<1>7. ASSUME NEW m \in (h \cup {rec}) \ HistAfter(h, rec) PROVE Gone(all, m)
  <2>1. CASE m \in kept
    <3>1. ~(Cardinality(Above(kept, m)) < MaxHist + 1)
      BY <1>2, <1>5, <1>7, <2>1
    <3>2. Cardinality(Above(kept, m)) \in Nat
      BY <1>3, AboveFinite
    <3>3. Gone(kept, m)
      BY <1>4, <3>1, <3>2 DEF Gone
    <3> QED  BY <1>1, <3>3, GoneGrows
  <2>2. CASE m \notin kept
    <3>1. ~(m.window + HistSpan > rec.window) /\ m \in Records /\ rec \in Records
      BY <1>1, <1>7, <2>2
    <3>2. m.window + HistSpan <= rec.window
      BY <1>4, <3>1, RecordFields
    <3> QED  BY <3>2 DEF Gone
  <2> QED  BY <2>1, <2>2
<1> QED  BY <1>1, <1>2, <1>5, <1>6, <1>7

LEMMA WrittenFinite ==
    ASSUME StoreInv
    PROVE  IsFiniteSet(WrittenRecords) /\ WrittenRecords \subseteq Records
<1>1. written \subseteq 1..MaxLog /\ \A n \in written : log[n] \in Records
  BY DEF StoreInv, TypeOK, Recorded
<1>2. IsFiniteSet(1..MaxLog)
  BY Bounds, FS_Interval
<1>3. IsFiniteSet(written)
  BY <1>1, <1>2, FS_Subset
<1> DEFINE read == [n \in written |-> log[n]]
<1>4. IsFiniteSet({log[n] : n \in written})
  <2>1. read \in Surjection(written, {log[n] : n \in written})
    BY DEF Surjection
  <2> QED  BY <1>3, <2>1, FS_Surjection
<1> QED  BY <1>1, <1>4 DEF WrittenRecords

LEMMA SameRecords ==
    ASSUME StoreInv,
           UNCHANGED written, Len(log') >= Len(log), \A n \in 1..Len(log) : log'[n] = log[n]
    PROVE  WrittenRecords' = WrittenRecords
<1>1. \A n \in written : n \in 1..Len(log)
  BY DEF StoreInv, Recorded
<1> QED  BY <1>1 DEF WrittenRecords

\* Whatever the order, the failures, the kills and the replays, the sorted set
\* holds every written record that is due, nothing a day older than the
\* snapshot, and no more than the rank bound leaves (OnlineStoreWriter.write's
\* one transaction).
THEOREM HistoryHolds == Spec => []HistoryExact
<1>1. Init => HistoryExact
  <2> SUFFICES ASSUME Init PROVE HistoryExact
    OBVIOUS
  <2>1. WrittenRecords = {} /\ hist = {} /\ latest = NoRecord
    BY DEF Init, WrittenRecords
  <2>2. Cardinality(hist) <= MaxHist + 1
    BY <2>1, FS_EmptySet, OSWAssumption
  <2> QED  BY <2>1, <2>2 DEF HistoryExact
<1>2. HistoryExact /\ StoreInv /\ StoreInv' /\ [Next]_vars => HistoryExact'
  <2> SUFFICES ASSUME HistoryExact, StoreInv, StoreInv', [Next]_vars PROVE HistoryExact'
    OBVIOUS
  <2>f. IsFiniteSet(WrittenRecords) /\ WrittenRecords \subseteq Records
    BY WrittenFinite
  <2>s. ASSUME UNCHANGED <<setting, hist, latest, WrittenRecords>> PROVE HistoryExact'
    BY <2>s DEF HistoryExact, MayBeGone
  <2>u. UNCHANGED <<log, written>> => UNCHANGED WrittenRecords
    BY DEF WrittenRecords
  <2>1. CASE Start
    BY <2>1, <2>s, <2>u DEF Start
  <2>2. CASE Fetch
    BY <2>2, <2>s, <2>u DEF Fetch
  <2>3. CASE SkipMalformed
    BY <2>3, <2>s, <2>u DEF SkipMalformed
  <2>4. CASE DieOnNonNumeric
    BY <2>4, <2>s, <2>u DEF DieOnNonNumeric
  <2>5. CASE Write
    <3>1. /\ hand \in Records /\ latest' = hand /\ hist' = HistAfter(hist, hand)
          /\ written' = written \cup {position} /\ UNCHANGED <<setting, log>>
      BY <2>5 DEF Write
    <3>2. hand = log[position]
      BY <3>1, Messages DEF StoreInv, Handed
    <3> DEFINE all == WrittenRecords \cup {hand}
    <3>3. WrittenRecords' = all
      BY <3>1, <3>2 DEF WrittenRecords
    <3>4. IsFiniteSet(all) /\ all \subseteq Records /\ hist \subseteq all /\ hand \in all
      BY <2>f, <3>1, FS_AddElement DEF HistoryExact
    <3> HIDE DEF all
    <3>5. /\ HistAfter(hist, hand) \subseteq hist \cup {hand}
          /\ \A m \in (hist \cup {hand}) \ HistAfter(hist, hand) : Gone(all, m)
          /\ Cardinality(HistAfter(hist, hand)) <= MaxHist + 1
          /\ \A m \in HistAfter(hist, hand) : m.window + HistSpan > hand.window
      BY <3>4, TransactionExact
    <3>6. ASSUME NEW m \in all \ HistAfter(hist, hand) PROVE setting.keysExpire \/ Gone(all, m)
      <4>1. CASE m \in hist \cup {hand}
        BY <3>5, <3>6, <4>1
      <4>2. CASE m \notin hist \cup {hand}
        <5>1. m \in WrittenRecords \ hist /\ WrittenRecords \subseteq all
          BY <3>6, <4>2 DEF all
        <5>2. setting.keysExpire \/ Gone(WrittenRecords, m)
          BY <5>1, GoneAsSaid DEF HistoryExact
        <5> QED  BY <3>4, <5>1, <5>2, GoneGrows
      <4> QED  BY <4>1, <4>2
    <3>7. \A rec : MayBeGone(rec)' <=> Gone(all, rec)
      BY <3>3 DEF MayBeGone, Gone, Above
    <3> QED  BY <3>1, <3>3, <3>4, <3>5, <3>6, <3>7 DEF HistoryExact
  <2>6. CASE WriteFails
    BY <2>6, <2>s, <2>u DEF WriteFails
  <2>7. CASE AutoCommit
    BY <2>7, <2>s, <2>u DEF AutoCommit
  <2>8. CASE IdleExit
    BY <2>8, <2>s, <2>u DEF IdleExit
  <2>9. CASE Shutdown
    BY <2>9, <2>s, <2>u DEF Shutdown
  <2>10. CASE Crash
    BY <2>10, <2>s, <2>u DEF Crash
  <2>11. ASSUME NEW m \in Records \cup {Malformed, NonNumeric}, Produce(m) PROVE HistoryExact'
    <3>1. /\ log' = Append(log, m) /\ log \in Seq(setting.messages)
          /\ UNCHANGED <<setting, latest, hist, written>>
      BY <2>11 DEF Produce, StoreInv, TypeOK
    <3>2. Len(log') >= Len(log) /\ \A n \in 1..Len(log) : log'[n] = log[n]
      BY <3>1
    <3> QED  BY <3>1, <3>2, <2>s, SameRecords
  <2>12. CASE ExpireHist
    <3>1. setting.keysExpire /\ hist' = {} /\ UNCHANGED <<setting, log, latest, written>>
      BY <2>12 DEF ExpireHist
    <3>2. Cardinality(hist') <= MaxHist + 1
      BY <3>1, FS_EmptySet, OSWAssumption
    <3> QED  BY <3>1, <3>2, <2>u DEF HistoryExact
  <2>13. CASE ExpireLatest
    <3>1. hist = {} /\ latest' = NoRecord /\ UNCHANGED <<setting, log, hist, written>>
      BY <2>13 DEF ExpireLatest
    <3> QED  BY <3>1, <2>u DEF HistoryExact, MayBeGone
  <2>14. CASE UNCHANGED vars
    BY <2>14, <2>s, <2>u DEF vars
  <2> QED  BY <2>1, <2>2, <2>3, <2>4, <2>5, <2>6, <2>7, <2>8, <2>9, <2>10, <2>11, <2>12, <2>13,
             <2>14 DEF Next, Handle
<1> QED  BY <1>1, <1>2, StoreTypes, PTL DEF Spec

-----------------------------------------------------------------------------
(* Capping first makes no difference to what pruning and capping leave     *)

LEMMA KeptUpwards ==
    ASSUME NEW rec \in Records, NEW m \in Records, NEW x \in Records,
           m.window + HistSpan > rec.window, Below(m, x)
    PROVE  x.window + HistSpan > rec.window
<1>1. HistSpan \in Nat /\ m.window <= x.window
  BY OSWAssumption, RecordFields DEF Below
<1> QED  BY <1>1, RecordFields

LEMMA CappedBefore ==
    ASSUME NEW all, IsFiniteSet(all), all \subseteq Records, NEW rec \in Records, NEW k \in Nat
    PROVE  Highest(Pruned(Highest(all, k) \cup {rec}, rec), k) =
           Highest(Pruned(all \cup {rec}, rec), k)
<1> DEFINE top  == Highest(all, k)
           few  == Pruned(top \cup {rec}, rec)
           many == Pruned(all \cup {rec}, rec)
<1>1. /\ top \subseteq all /\ \A m \in all : m \in top <=> Cardinality(Above(all, m)) < k
  BY HighestAbove
<1>2. /\ \A m : m \in few <=> m \in top \cup {rec} /\ m.window + HistSpan > rec.window
      /\ \A m : m \in many <=> m \in all \cup {rec} /\ m.window + HistSpan > rec.window
  BY DEF Pruned
<1>3. HistSpan \in Nat \ {0} /\ rec.window \in Nat
  BY OSWAssumption, RecordFields
<1>full. ASSUME NEW m \in Records, NEW y \in all, Below(m, y), y \notin top
         PROVE  ~(Cardinality(Above(top, m)) < k)
  BY <1>full, HighestFull
<1> HIDE DEF top, few, many
<1>4. rec \in few /\ few \subseteq many /\ many \subseteq all \cup {rec}
  BY <1>1, <1>2, <1>3
<1>5. IsFiniteSet(all \cup {rec})
  BY FS_AddElement
<1>6. /\ IsFiniteSet(many) /\ IsFiniteSet(few) /\ IsFiniteSet(top)
      /\ many \subseteq Records /\ few \subseteq Records /\ top \subseteq Records
  BY <1>1, <1>4, <1>5, FS_Subset
<1>7. \A m \in many : /\ Cardinality(Above(few, m)) \in Nat /\ Cardinality(Above(many, m)) \in Nat
                      /\ Cardinality(Above(all, m)) \in Nat /\ Cardinality(Above(top, m)) \in Nat
                      /\ Cardinality(Above(few, m)) <= Cardinality(Above(many, m))
  BY <1>4, <1>6, AboveFinite, AboveGrows
<1>8. ASSUME NEW m \in many, Cardinality(Above(many, m)) < k
      PROVE  m \in few /\ Cardinality(Above(few, m)) < k
  <2>1. Above(all, m) \subseteq Above(many, m)
    <3> SUFFICES ASSUME NEW x \in all, Below(m, x) PROVE x \in many
      BY DEF Above
    <3>1. m.window + HistSpan > rec.window /\ m \in Records /\ x \in Records
      BY <1>2, <1>6
    <3>2. x.window + HistSpan > rec.window
      BY <3>1, KeptUpwards
    <3> QED  BY <1>2, <3>2
  <2>2. Cardinality(Above(all, m)) <= Cardinality(Above(many, m))
    BY <1>6, <2>1, AboveFinite, FS_Subset
  <2>3. Cardinality(Above(all, m)) < k
    BY <1>7, <1>8, <2>2
  <2>4. m \in few
    BY <1>1, <1>2, <2>3
  <2> QED  BY <1>7, <1>8, <2>4
<1>9. ASSUME NEW m \in few, Cardinality(Above(few, m)) < k
      PROVE  Cardinality(Above(many, m)) < k
  <2>0. m \in many /\ m \in Records
    BY <1>4, <1>6
  <2>1. CASE Above(many, m) \subseteq few
    <3>1. Above(many, m) \subseteq Above(few, m)
      BY <2>1 DEF Above
    <3>2. Cardinality(Above(many, m)) <= Cardinality(Above(few, m))
      BY <1>6, <3>1, AboveFinite, FS_Subset
    <3> QED  BY <1>7, <1>9, <2>0, <3>2
  <2>2. CASE ~(Above(many, m) \subseteq few)
    <3>1. PICK y : y \in many /\ Below(m, y) /\ y \notin few
      BY <2>2 DEF Above
    <3>2. y \in all /\ y \notin top
      BY <1>2, <1>4, <3>1
    <3>3. ~(Cardinality(Above(top, m)) < k)
      BY <1>full, <2>0, <3>1, <3>2
    <3>4. Above(top, m) \subseteq Above(few, m)
      <4> SUFFICES ASSUME NEW x \in top, Below(m, x) PROVE x \in few
        BY DEF Above
      <4>1. m.window + HistSpan > rec.window /\ x \in Records
        BY <1>2, <1>6
      <4>2. x.window + HistSpan > rec.window
        BY <2>0, <4>1, KeptUpwards
      <4> QED  BY <1>2, <4>2
    <3>5. Cardinality(Above(top, m)) <= Cardinality(Above(few, m))
      BY <1>6, <3>4, AboveFinite, FS_Subset
    <3> QED  BY <1>7, <1>9, <2>0, <3>3, <3>5
  <2> QED  BY <2>1, <2>2
<1>10. /\ Highest(few, k) = {m \in few : Cardinality(Above(few, m)) < k}
       /\ Highest(many, k) = {m \in many : Cardinality(Above(many, m)) < k}
  BY HighestAbove
<1>11. Highest(few, k) = Highest(many, k)
  BY <1>4, <1>8, <1>9, <1>10
<1> QED  BY <1>11 DEF few, many, top

Cap == MaxHist + 1

LEMMA OnTop ==
    ASSUME NEW all, IsFiniteSet(all), all \subseteq Records, NEW rec \in Records
    PROVE  HistAfter(Highest(all, Cap), rec) = Highest(Pruned(all \cup {rec}, rec), Cap)
<1>1. Cap \in Nat
  BY OSWAssumption DEF Cap
<1> QED  BY <1>1, CappedBefore DEF HistAfter, Capped, Cap

-----------------------------------------------------------------------------
(* Replays leave no trace                                                  *)

\* The offset up to which the consumer's work is done: what follows is handed
\* out (again) by this process or by the next.
Resume ==
    IF up THEN (IF hand = NoRecord THEN position ELSE position - 1)
    ELSE IF committed = NoCommit THEN Len(log) ELSE committed

\* No record written after offset i and up to offset n prunes record m.
Lasts(m, i, n) ==
    \A j \in written : i < j /\ j <= n => log[j].window < m.window + HistSpan

\* The history is what the cap leaves of a set of records, each of which was
\* written at an offset no later one up to n prunes; and every record that
\* nothing written later prunes is one of them.
HistoryFrom(all, n) ==
    /\ hist = Highest(all, Cap)
    /\ \A m \in all : \E i \in written : log[i] = m /\ Lasts(m, i, n)
    /\ \A i \in written : i <= n /\ Lasts(log[i], i, MaxLog) => log[i] \in all

LatestFrom(n) ==
    written # {} => \E h \in written : latest = log[h] /\ \A j \in written : j <= n => j <= h

PassedOver ==
    /\ committed = NoCommit => \A j \in written : j <= Resume
    /\ up /\ committed # NoCommit => committed <= Resume

ReplayInv ==
    NothingGivenUp =>
        /\ \E all \in SUBSET Records : HistoryFrom(all, Resume)
        /\ LatestFrom(Resume)
        /\ PassedOver

\* A step that writes nothing and passes over no written record, or goes back.
LEMMA Moves ==
    ASSUME UNCHANGED <<hist, latest, written>>, \A n \in written : log'[n] = log[n],
           \A j \in written : j <= Resume' => j <= Resume,
           NEW all, HistoryFrom(all, Resume), LatestFrom(Resume)
    PROVE  HistoryFrom(all, Resume)' /\ LatestFrom(Resume)'
<1> DEFINE n == Resume
<1>1. /\ hist = Highest(all, Cap)
      /\ \A m \in all : \E i \in written : log[i] = m /\ Lasts(m, i, n)
      /\ \A i \in written : i <= n /\ Lasts(log[i], i, MaxLog) => log[i] \in all
      /\ written # {} => \E h \in written : latest = log[h] /\ \A j \in written : j <= n => j <= h
  BY DEF HistoryFrom, LatestFrom
<1>2. \A m : \A i : Lasts(m, i, n) => Lasts(m, i, n)'
  BY DEF Lasts
<1>3. \A m : \A i : Lasts(m, i, MaxLog)' => Lasts(m, i, MaxLog)
  BY DEF Lasts
<1>4. \A m \in all : \E i \in written' : log'[i] = m /\ Lasts(m, i, n)'
  BY <1>1, <1>2
<1>5. \A i \in written' : i <= n' /\ Lasts(log[i], i, MaxLog)' => log'[i] \in all
  <2> SUFFICES ASSUME NEW i \in written', i <= n', Lasts(log[i], i, MaxLog)' PROVE log'[i] \in all
    OBVIOUS
  <2>1. i \in written /\ i <= n /\ log'[i] = log[i]
    OBVIOUS
  <2>2. Lasts(log[i], i, MaxLog)
    BY <2>1 DEF Lasts
  <2> QED  BY <1>1, <2>1, <2>2
<1>6. written' # {} =>
        \E h \in written' : latest' = log'[h] /\ \A j \in written' : j <= n' => j <= h
  BY <1>1
<1> QED  BY <1>1, <1>4, <1>5, <1>6 DEF HistoryFrom, LatestFrom

LEMMA ResumeRange ==
    ASSUME StoreInv
    PROVE  /\ Resume \in Nat /\ Resume <= Len(log) /\ Len(log) \in Nat /\ position \in Nat
           /\ Len(log) <= MaxLog /\ MaxLog \in Nat /\ committed \in Nat
           /\ NoCommit \in Nat /\ position # NoCommit
           /\ hand # NoRecord => Resume = position - 1
           /\ written \subseteq 1..Len(log)
<1>1. /\ MaxLog \in Nat /\ NoCommit = MaxLog + 1 /\ Len(log) \in Nat /\ position \in Nat
      /\ setting.length \in 0..MaxLog /\ Len(log) <= MaxLog /\ committed \in Nat
      /\ position <= MaxLog
  BY Bounds, SettingFields DEF StoreInv, TypeOK
<1>2. /\ position <= Len(log) /\ (committed # NoCommit => committed <= Len(log))
      /\ (hand # NoRecord => up /\ position >= 1) /\ written \subseteq 1..Len(log)
  BY DEF StoreInv, Fetched, Handed, Recorded
<1> QED  BY <1>1, <1>2 DEF Resume

LEMMA WriteReplays ==
    ASSUME StoreInv, Write, LatestFrom(Resume), PassedOver,
           NEW all \in SUBSET Records, HistoryFrom(all, Resume)
    PROVE  (\E some \in SUBSET Records : HistoryFrom(some, Resume)')
           /\ LatestFrom(Resume)' /\ PassedOver'
<1> DEFINE rec == hand
<1>1. /\ hand \in Records /\ latest' = hand /\ hist' = HistAfter(hist, hand) /\ hand' = NoRecord
      /\ written' = written \cup {position} /\ UNCHANGED <<setting, log, committed, up, position>>
  BY DEF Write
<1>2. /\ hand # NoRecord /\ up /\ hand = log[position] /\ position >= 1
      /\ position <= Len(log)
  BY <1>1, Messages DEF StoreInv, Handed, Fetched
<1>3. /\ Resume = position - 1 /\ Resume' = position /\ position \in Nat /\ MaxLog \in Nat
      /\ position <= MaxLog /\ written \subseteq Nat /\ committed \in Nat
  <2>1. Resume' = position
    BY <1>1, <1>2 DEF Resume
  <2> QED  BY <1>2, <2>1, ResumeRange
<1>4. /\ hist = Highest(all, Cap)
      /\ \A m \in all : \E i \in written : log[i] = m /\ Lasts(m, i, Resume)
      /\ \A i \in written : i <= Resume /\ Lasts(log[i], i, MaxLog) => log[i] \in all
  BY DEF HistoryFrom
<1> DEFINE some == Pruned(all \cup {rec}, rec)
<1>5. /\ \A m : m \in some <=> m \in all \cup {rec} /\ m.window + HistSpan > rec.window
      /\ some \subseteq all \cup {rec}
  BY DEF Pruned
<1>6. hist' = Highest(some, Cap)
  <2>1. all \subseteq WrittenRecords
    BY <1>4 DEF WrittenRecords
  <2>2. IsFiniteSet(all)
    BY <2>1, WrittenFinite, FS_Subset
  <2> QED  BY <1>1, <1>4, <2>2, OnTop
<1> HIDE DEF some
<1>7. ASSUME NEW m \in some
      PROVE  \E i \in written' : log'[i] = m /\ Lasts(m, i, Resume)'
  <2>1. CASE m = rec
    <3>1. Lasts(m, position, Resume)'
      BY <1>1, <1>3 DEF Lasts
    <3> QED  BY <1>1, <1>2, <2>1, <3>1
  <2>2. CASE m # rec
    <3>1. m \in all /\ rec.window < m.window + HistSpan
      <4>1. m \in Records /\ rec \in Records /\ HistSpan \in Nat
        BY <1>1, <1>5, OSWAssumption
      <4>2. m \in all /\ m.window + HistSpan > rec.window
        BY <1>5, <2>2
      <4> QED  BY <4>1, <4>2, RecordFields
    <3>2. PICK i \in written : log[i] = m /\ Lasts(m, i, Resume)
      BY <1>4, <3>1
    <3>3. Lasts(m, i, Resume)'
      <4> SUFFICES ASSUME NEW j \in written', i < j, j <= position
                   PROVE  log[j].window < m.window + HistSpan
        BY <1>1, <1>3 DEF Lasts
      <4>1. CASE j = position
        BY <1>2, <3>1, <4>1
      <4>2. CASE j # position
        <5>1. j \in written /\ j <= Resume
          BY <1>1, <1>3, <4>2
        <5> QED  BY <3>2, <5>1 DEF Lasts
      <4> QED  BY <4>1, <4>2
    <3> QED  BY <1>1, <3>2, <3>3
  <2> QED  BY <2>1, <2>2
<1>8. ASSUME NEW i \in written', i <= position, Lasts(log[i], i, MaxLog)'
      PROVE  log'[i] \in some
  <2>1. CASE i = position
    <3>1. rec.window + HistSpan > rec.window
      BY <1>1, OSWAssumption, RecordFields
    <3> QED  BY <1>1, <1>2, <1>5, <2>1, <3>1
  <2>2. CASE i # position
    <3>1. i \in written /\ i <= Resume /\ i \in Nat /\ i < position
      BY <1>1, <1>3, <1>8, <2>2
    <3>2. \A j \in written' : i < j /\ j <= MaxLog => log[j].window < log[i].window + HistSpan
      BY <1>1, <1>8 DEF Lasts
    <3>3. Lasts(log[i], i, MaxLog)
      BY <1>1, <3>2 DEF Lasts
    <3>4. rec.window < log[i].window + HistSpan
      BY <1>1, <1>2, <1>3, <3>1, <3>2
    <3>5. log[i] \in all /\ log[i] \in Records
      BY <1>4, <3>1, <3>3
    <3>6. log[i].window + HistSpan > rec.window
      BY <1>1, <3>4, <3>5, OSWAssumption, RecordFields
    <3> QED  BY <1>1, <1>5, <3>5, <3>6
  <2> QED  BY <2>1, <2>2
<1>9. some \in SUBSET Records
  BY <1>1, <1>5
<1>10. PICK chosen \in SUBSET Records : chosen = some
  BY <1>9
<1>11. HistoryFrom(chosen, Resume)'
  BY <1>3, <1>6, <1>7, <1>8, <1>10 DEF HistoryFrom
<1>12. LatestFrom(Resume)'
  <2>1. latest' = log'[position] /\ position \in written'
    BY <1>1, <1>2
  <2> QED  BY <1>3, <2>1 DEF LatestFrom
<1>13. PassedOver'
  <2>1. (committed = NoCommit)' => \A j \in written' : j <= position
    BY <1>1, <1>3 DEF PassedOver
  <2>2. (up /\ committed # NoCommit)' => committed' <= position
    BY <1>1, <1>2, <1>3 DEF PassedOver
  <2> QED  BY <1>3, <2>1, <2>2 DEF PassedOver
<1> QED  BY <1>11, <1>12, <1>13

LEMMA MovesKeep ==
    ASSUME StoreInv, ReplayInv, UNCHANGED <<setting, hist, latest, written>>,
           \A n \in written : log'[n] = log[n],
           NothingGivenUp => (\A j \in written : j <= Resume' => j <= Resume) /\ PassedOver'
    PROVE  ReplayInv'
<1> SUFFICES ASSUME NothingGivenUp'
             PROVE  (\E all \in SUBSET Records : HistoryFrom(all, Resume)')
                    /\ LatestFrom(Resume)' /\ PassedOver'
  BY DEF ReplayInv
<1>1. NothingGivenUp
  BY DEF NothingGivenUp
<1>2. PICK all \in SUBSET Records : HistoryFrom(all, Resume)
  BY <1>1 DEF ReplayInv
<1>3. LatestFrom(Resume)
  BY <1>1 DEF ReplayInv
<1>4. (\A j \in written : j <= Resume' => j <= Resume) /\ PassedOver'
  BY <1>1
<1>5. HistoryFrom(all, Resume)' /\ LatestFrom(Resume)'
  BY <1>2, <1>3, <1>4, Moves
<1> QED  BY <1>4, <1>5

LEMMA Replays == Spec => []ReplayInv
<1>1. Init => ReplayInv
  <2> SUFFICES ASSUME Init PROVE ReplayInv
    OBVIOUS
  <2>1. written = {} /\ hist = {} /\ latest = NoRecord /\ ~up
    BY DEF Init
  <2>2. Highest({}, Cap) = {}
    BY DEF Highest
  <2>3. HistoryFrom({}, Resume)
    BY <2>1, <2>2 DEF HistoryFrom
  <2>4. LatestFrom(Resume) /\ PassedOver
    BY <2>1 DEF LatestFrom, PassedOver
  <2> QED  BY <2>3, <2>4 DEF ReplayInv
<1>2. ReplayInv /\ StoreInv /\ StoreInv' /\ [Next]_vars => ReplayInv'
  <2> SUFFICES ASSUME ReplayInv, StoreInv, StoreInv', [Next]_vars PROVE ReplayInv'
    OBVIOUS
  <2>r. /\ Resume \in Nat /\ Resume <= Len(log) /\ Len(log) \in Nat /\ position \in Nat
        /\ Len(log) <= MaxLog /\ MaxLog \in Nat /\ committed \in Nat
        /\ NoCommit \in Nat /\ position # NoCommit
        /\ hand # NoRecord => Resume = position - 1
        /\ written \subseteq 1..Len(log)
    BY ResumeRange
  <2>p. NothingGivenUp => /\ committed = NoCommit => \A j \in written : j <= Resume
                          /\ up /\ committed # NoCommit => committed <= Resume
    BY DEF ReplayInv, PassedOver
  <2>w. hand \notin Records /\ hand # NoRecord => position \notin written
    BY DEF StoreInv, Handed, Recorded
  <2>d. ~up => hand = NoRecord
    BY DEF StoreInv, Handed
  <2>h. hand = NoRecord /\ up => Resume = position
    BY DEF Resume
  <2>1. CASE Start
    <3>1. /\ ~up /\ up' /\ position' = (IF committed = NoCommit THEN Len(log) ELSE committed)
          /\ UNCHANGED <<setting, log, committed, hand, latest, hist, written>>
      BY <2>1 DEF Start
    <3>2. Resume' = Resume
      BY <2>d, <3>1 DEF Resume
    <3>3. committed # NoCommit => Resume = committed
      BY <3>1 DEF Resume
    <3>4. NothingGivenUp => PassedOver'
      BY <2>p, <2>r, <3>1, <3>2, <3>3 DEF PassedOver
    <3> QED  BY <3>1, <3>2, <3>4, MovesKeep
  <2>2. CASE Fetch
    <3>1. /\ up /\ hand = NoRecord /\ position' = position + 1
          /\ UNCHANGED <<setting, log, committed, up, latest, hist, written>>
      BY <2>2 DEF Fetch
    <3>2. Resume' = Resume
      <4>1. position + 1 \in 1..Len(log) /\ hand' = log[position + 1]
        BY <2>2, <2>r DEF Fetch
      <4>2. log \in Seq(setting.messages) /\ setting \in Settings
        BY DEF StoreInv, TypeOK
      <4>3. hand' \in setting.messages
        BY <4>1, <4>2
      <4>4. hand' # NoRecord
        BY <4>2, <4>3, SettingFields, Messages
      <4> QED  BY <2>r, <2>h, <3>1, <4>4 DEF Resume
    <3>3. NothingGivenUp => PassedOver'
      BY <2>p, <3>1, <3>2 DEF PassedOver
    <3> QED  BY <3>1, <3>2, <3>3, MovesKeep
  <2>3. CASE SkipMalformed
    <3>1. /\ hand = Malformed /\ hand' = NoRecord
          /\ UNCHANGED <<setting, log, committed, up, position, latest, hist, written>>
      BY <2>3 DEF SkipMalformed
    <3>2. hand # NoRecord /\ hand \notin Records /\ up
      BY <2>d, <3>1, Messages
    <3>3. Resume' = position /\ Resume = position - 1
      BY <2>r, <3>1, <3>2 DEF Resume
    <3>4. \A j \in written : j <= Resume' => j <= Resume
      BY <2>r, <2>w, <3>2, <3>3
    <3>5. NothingGivenUp => PassedOver'
      BY <2>p, <2>r, <3>1, <3>3 DEF PassedOver
    <3> QED  BY <3>1, <3>4, <3>5, MovesKeep
  <2>down. ASSUME up, up' = FALSE, UNCHANGED <<setting, log, committed, latest, hist, written>>
           PROVE  ReplayInv'
    <3>1. Resume' = IF committed = NoCommit THEN Len(log) ELSE committed
      BY <2>down DEF Resume
    <3>2. NothingGivenUp => \A j \in written : j <= Resume' => j <= Resume
      BY <2>p, <2>r, <2>down, <3>1
    <3>3. NothingGivenUp => PassedOver'
      BY <2>r, <2>down, <3>1 DEF PassedOver
    <3> QED  BY <2>down, <3>2, <3>3, MovesKeep
  <2>4. CASE DieOnNonNumeric
    <3>1. hand # NoRecord
      BY <2>4, Messages DEF DieOnNonNumeric
    <3> QED  BY <2>4, <2>d, <2>down, <3>1 DEF DieOnNonNumeric
  <2>5. CASE Write
    <3>1. UNCHANGED setting
      BY <2>5 DEF Write
    <3> SUFFICES ASSUME NothingGivenUp'
                 PROVE  (\E all \in SUBSET Records : HistoryFrom(all, Resume)')
                        /\ LatestFrom(Resume)' /\ PassedOver'
      BY DEF ReplayInv
    <3>2. NothingGivenUp
      BY <3>1 DEF NothingGivenUp
    <3>3. PICK all \in SUBSET Records : HistoryFrom(all, Resume)
      BY <3>2 DEF ReplayInv
    <3>4. LatestFrom(Resume) /\ PassedOver
      BY <3>2 DEF ReplayInv
    <3> QED  BY <2>5, <3>3, <3>4, WriteReplays
  <2>6. CASE WriteFails
    <3>1. ~NothingGivenUp /\ UNCHANGED setting
      BY <2>6 DEF WriteFails, NothingGivenUp
    <3> QED  BY <3>1 DEF ReplayInv, NothingGivenUp
  <2>7. CASE AutoCommit
    <3>1. /\ up /\ hand = NoRecord /\ committed' = position
          /\ UNCHANGED <<setting, log, up, position, hand, latest, hist, written>>
      BY <2>7 DEF AutoCommit
    <3>2. Resume' = position /\ Resume = position
      BY <3>1 DEF Resume
    <3>3. PassedOver'
      BY <2>r, <3>1, <3>2 DEF PassedOver, NoCommit
    <3> QED  BY <3>1, <3>2, <3>3, MovesKeep
  <2>8. CASE IdleExit
    <3>1. /\ up /\ hand = NoRecord /\ committed' = position /\ ~up'
          /\ UNCHANGED <<setting, log, position, hand, latest, hist, written>>
      BY <2>8 DEF IdleExit
    <3>2. Resume' = position /\ Resume = position
      BY <2>r, <3>1 DEF Resume, NoCommit
    <3>3. PassedOver'
      BY <2>r, <3>1, <3>2 DEF PassedOver, NoCommit
    <3> QED  BY <3>1, <3>2, <3>3, MovesKeep
  <2>9. CASE Shutdown
    <3>1. ~NothingGivenUp /\ UNCHANGED setting
      BY <2>9 DEF Shutdown, NothingGivenUp
    <3> QED  BY <3>1 DEF ReplayInv, NothingGivenUp
  <2>10. CASE Crash
    BY <2>10, <2>down DEF Crash
  <2>11. ASSUME NEW m \in Records \cup {Malformed, NonNumeric}, Produce(m) PROVE ReplayInv'
    <3>1. /\ log' = Append(log, m) /\ log \in Seq(setting.messages)
          /\ UNCHANGED <<setting, committed, up, position, hand, latest, hist, written>>
      BY <2>11 DEF Produce, StoreInv, TypeOK
    <3>2. Len(log') = Len(log) + 1 /\ \A n \in 1..Len(log) : log'[n] = log[n]
      BY <3>1
    <3>3. Resume' = Resume \/ (~up /\ committed = NoCommit /\ Resume' = Len(log) + 1
                               /\ Resume = Len(log))
      BY <3>1, <3>2 DEF Resume
    <3>4. \A j \in written : j <= Resume' => j <= Resume
      BY <2>r, <3>3
    <3>5. NothingGivenUp => PassedOver'
      <4>1. CASE Resume' = Resume
        BY <2>p, <3>1, <4>1 DEF PassedOver
      <4>2. CASE ~up /\ Resume' = Len(log) + 1
        BY <2>r, <3>1, <4>2 DEF PassedOver
      <4> QED  BY <3>3, <4>1, <4>2
    <3>6. \A n \in written : log'[n] = log[n]
      BY <2>r, <3>2
    <3> QED  BY <3>1, <3>4, <3>5, <3>6, MovesKeep
  <2>12. CASE ExpireHist
    <3>1. ~NothingGivenUp /\ UNCHANGED setting
      BY <2>12 DEF ExpireHist, NothingGivenUp
    <3> QED  BY <3>1 DEF ReplayInv, NothingGivenUp
  <2>13. CASE ExpireLatest
    <3>1. ~NothingGivenUp /\ UNCHANGED setting
      BY <2>13 DEF ExpireLatest, NothingGivenUp
    <3> QED  BY <3>1 DEF ReplayInv, NothingGivenUp
  <2>14. CASE UNCHANGED vars
    <3>1. /\ UNCHANGED <<setting, log, hist, latest, written>>
          /\ UNCHANGED <<committed, up, position, hand>>
      BY <2>14 DEF vars
    <3>2. Resume' = Resume
      BY <3>1 DEF Resume
    <3>3. NothingGivenUp => PassedOver'
      BY <2>p, <3>1, <3>2 DEF PassedOver
    <3> QED  BY <3>1, <3>2, <3>3, MovesKeep
  <2> QED  BY <2>1, <2>2, <2>3, <2>4, <2>5, <2>6, <2>7, <2>8, <2>9, <2>10, <2>11, <2>12, <2>13,
             <2>14 DEF Next, Handle
<1> QED  BY <1>1, <1>2, StoreTypes, PTL DEF Spec

\* The records that no record written later prunes, among the first n offsets.
Alive(n) == {log[i] : i \in {j \in written : j <= n /\ Lasts(log[j], j, n)}}

LEMMA AliveSteps ==
    ASSUME StoreInv, NEW n \in 1..MaxLog
    PROVE  /\ n \in written => Alive(n) = Pruned(Alive(n - 1) \cup {log[n]}, log[n])
           /\ n \notin written => Alive(n) = Alive(n - 1)
           /\ Alive(n) \subseteq WrittenRecords /\ Alive(0) = {}
<1>1. /\ written \subseteq 1..Len(log) /\ Len(log) \in Nat /\ \A i \in written : log[i] \in Records
  BY ResumeRange DEF StoreInv, Recorded
<1>2. \A k, m : m \in Alive(k) <=> \E i \in written : m = log[i] /\ i <= k /\ Lasts(log[i], i, k)
  BY DEF Alive
<1>3. HistSpan \in Nat \ {0} /\ n \in Nat /\ MaxLog \in Nat
  BY Bounds, OSWAssumption
<1>4. ASSUME n \notin written PROVE Alive(n) = Alive(n - 1)
  <2>1. \A i \in written : i <= n <=> i <= n - 1
    BY <1>1, <1>3, <1>4
  <2>2. \A m, i : Lasts(m, i, n) <=> Lasts(m, i, n - 1)
    BY <2>1 DEF Lasts
  <2> QED  BY <1>2, <2>1, <2>2
<1>5. ASSUME n \in written PROVE Alive(n) = Pruned(Alive(n - 1) \cup {log[n]}, log[n])
  <2>0. log[n] \in Records /\ log[n].window + HistSpan > log[n].window
    <3>1. log[n] \in Records
      BY <1>1, <1>5
    <3> QED  BY <1>3, <3>1, RecordFields
  <2>1. ASSUME NEW i \in written, i <= n - 1
        PROVE  Lasts(log[i], i, n) <=>
               Lasts(log[i], i, n - 1) /\ log[i].window + HistSpan > log[n].window
    <3>1. i \in Nat /\ i < n /\ log[i] \in Records /\ i <= n - 1 /\ i < n
      BY <1>1, <1>3, <2>1
    <3>2. \A j \in written : j <= n <=> j <= n - 1 \/ j = n
      BY <1>1, <1>3
    <3>3. log[i].window + HistSpan > log[n].window <=> log[n].window < log[i].window + HistSpan
      BY <1>3, <2>0, <3>1, RecordFields
    <3>4. n <= n /\ i < n
      BY <1>3, <3>1
    <3> QED  BY <1>5, <3>2, <3>3, <3>4 DEF Lasts
  <2>2. Lasts(log[n], n, n)
    <3>1. \A j \in written : ~(n < j /\ j <= n)
      BY <1>1, <1>3
    <3> QED  BY <3>1 DEF Lasts
  <2>3. \A i \in written : i <= n <=> i <= n - 1 \/ i = n
    BY <1>1, <1>3
  <2>4. \A m : m \in Alive(n) <=>
               m = log[n] \/ (m \in Alive(n - 1) /\ m.window + HistSpan > log[n].window)
    <3>1. n <= n
      BY <1>3
    <3> QED  BY <1>2, <1>5, <2>1, <2>2, <2>3, <3>1
  <2>5. \A m : m \in Pruned(Alive(n - 1) \cup {log[n]}, log[n]) <=>
               m \in Alive(n - 1) \cup {log[n]} /\ m.window + HistSpan > log[n].window
    BY DEF Pruned
  <2> DEFINE old == Alive(n - 1)
             now == Alive(n)
             kept == Pruned(old \cup {log[n]}, log[n])
  <2>6. \A m : m \in now <=> m \in kept
    BY <2>0, <2>4, <2>5
  <2> HIDE DEF now, kept
  <2>7. now = kept
    BY <2>6
  <2> QED  BY <2>7 DEF now, kept
<1>6. Alive(n) \subseteq WrittenRecords
  BY DEF Alive, WrittenRecords
<1>7. Alive(0) = {}
  <2>1. \A i \in written : ~(i <= 0)
    BY <1>1
  <2> QED  BY <1>2, <2>1
<1> QED  BY <1>4, <1>5, <1>6, <1>7

\* One delivery of each written record leaves what the cap leaves of the alive.
LEMMA OncePerRecordHolds ==
    ASSUME StoreInv, NEW n \in 0..MaxLog
    PROVE  OncePerRecord[n] = Highest(Alive(n), Cap)
<1> DEFINE top  == [k \in 0..MaxLog |-> Highest(Alive(k), Cap)]
           step(f) == [k \in 0..MaxLog |->
                          IF k = 0 THEN {}
                          ELSE IF k \in written THEN HistAfter(f[k - 1], log[k])
                          ELSE f[k - 1]]
<1>1. MaxLog \in Nat /\ written \subseteq Nat
  BY ResumeRange
<1>2. ASSUME NEW k \in 1..MaxLog
      PROVE  Highest(Alive(k), Cap) =
             IF k \in written THEN HistAfter(Highest(Alive(k - 1), Cap), log[k])
             ELSE Highest(Alive(k - 1), Cap)
  <2>1. CASE k \notin written
    BY <2>1, AliveSteps
  <2>2. CASE k \in written
    <3>1. log[k] \in Records
      BY <2>2 DEF StoreInv, Recorded
    <3>2. Alive(k - 1) \subseteq WrittenRecords
      BY DEF Alive, WrittenRecords
    <3>3. IsFiniteSet(Alive(k - 1)) /\ Alive(k - 1) \subseteq Records
      BY <3>2, WrittenFinite, FS_Subset
    <3>4. HistAfter(Highest(Alive(k - 1), Cap), log[k])
            = Highest(Pruned(Alive(k - 1) \cup {log[k]}, log[k]), Cap)
      BY <3>1, <3>3, OnTop
    <3> QED  BY <2>2, <3>4, AliveSteps
  <2> QED  BY <2>1, <2>2
<1>3. Highest(Alive(0), Cap) = {}
  <2>1. Alive(0) = {}
    <3>1. \A i \in written : ~(i <= 0)
      BY ResumeRange
    <3> QED  BY <3>1 DEF Alive
  <2> QED  BY <2>1 DEF Highest
<1>4. top = step(top)
  <2> SUFFICES ASSUME NEW k \in 0..MaxLog PROVE top[k] = step(top)[k]
    OBVIOUS
  <2>1. CASE k = 0
    BY <1>3, <2>1
  <2>2. CASE k # 0
    <3>1. k \in 1..MaxLog /\ k - 1 \in 0..MaxLog
      BY <1>1, <2>2
    <3> QED  BY <1>2, <2>2, <3>1
  <2> QED  BY <2>1, <2>2
<1>5. OncePerRecord = CHOOSE f : f = step(f)
  BY DEF OncePerRecord
<1>6. OncePerRecord = step(OncePerRecord)
  BY <1>4, <1>5
<1> DEFINE bad == {k \in 0..MaxLog : OncePerRecord[k] # top[k]}
<1>7. ASSUME bad # {} PROVE FALSE
  <2>1. bad \subseteq Nat
    BY <1>1
  <2>2. PICK k \in bad : \A i \in bad : k <= i
    BY <1>7, <2>1, LeastNumber
  <2>3. k \in 0..MaxLog /\ OncePerRecord[k] # top[k]
    BY <2>2
  <2>4. CASE k = 0
    BY <1>3, <1>6, <2>3, <2>4
  <2>5. CASE k # 0
    <3>1. k \in 1..MaxLog /\ k - 1 \in 0..MaxLog /\ k - 1 \notin bad
      BY <1>1, <2>2, <2>3, <2>5
    <3>2. OncePerRecord[k - 1] = top[k - 1]
      BY <3>1
    <3>3. OncePerRecord[k] = IF k \in written THEN HistAfter(OncePerRecord[k - 1], log[k])
                             ELSE OncePerRecord[k - 1]
      BY <1>6, <2>3, <2>5
    <3>4. OncePerRecord[k] = Highest(Alive(k), Cap)
      BY <1>2, <3>1, <3>2, <3>3
    <3> QED  BY <2>3, <3>4
  <2> QED  BY <2>4, <2>5
<1> QED  BY <1>7

\* A consumer that has caught up, after whatever kills and replays, has left the
\* last record it ever wrote as the snapshot and the history that one delivery
\* of each written record gives: writing a record again changes nothing.
THEOREM ReplaysLeaveNoTrace == Spec => []ReplayIdempotent
<1>1. ReplayInv /\ StoreInv => ReplayIdempotent
  <2> SUFFICES ASSUME ReplayInv, StoreInv, NothingGivenUp, CaughtUp
               PROVE  latest = log[Max(written)] /\ hist = OncePerRecord[Len(log)]
    BY DEF ReplayIdempotent
  <2>1. /\ Resume = Len(log) /\ Len(log) \in Nat /\ Len(log) <= MaxLog
        /\ written \subseteq 1..Len(log) /\ written # {} /\ MaxLog \in Nat
    BY ResumeRange DEF CaughtUp, Resume
  <2>2. PICK h \in written : latest = log[h] /\ \A j \in written : j <= Resume => j <= h
    BY <2>1 DEF ReplayInv, LatestFrom
  <2>3. \A j \in written : j <= h /\ j \in Nat
    BY <2>1, <2>2
  <2>4. Max(written) = h
    <3>1. /\ Max(written) \in written /\ \A j \in written : Max(written) >= j
      BY <2>2, <2>3 DEF Max
    <3> QED  BY <2>2, <2>3, <3>1
  <2>5. PICK all \in SUBSET Records : HistoryFrom(all, Resume)
    BY DEF ReplayInv
  <2>6. \A i \in written : i <= Len(log) /\ i <= MaxLog
    BY <2>1
  <2>7. \A m, i : Lasts(m, i, Len(log)) <=> Lasts(m, i, MaxLog)
    BY <2>6 DEF Lasts
  <2>8. all = Alive(Len(log))
    <3>1. \A m \in all : m \in Alive(Len(log))
      BY <2>1, <2>5, <2>6 DEF HistoryFrom, Alive
    <3>2. \A m \in Alive(Len(log)) : m \in all
      BY <2>1, <2>5, <2>6, <2>7 DEF HistoryFrom, Alive
    <3> QED  BY <3>1, <3>2
  <2>9. hist = Highest(Alive(Len(log)), Cap)
    BY <2>5, <2>8 DEF HistoryFrom
  <2>10. Len(log) \in 0..MaxLog
    BY <2>1
  <2> QED  BY <2>2, <2>4, <2>9, <2>10, OncePerRecordHolds
<1> QED  BY <1>1, Replays, StoreTypes, PTL
=============================================================================
