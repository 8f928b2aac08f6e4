------------------------------- MODULE CdcSchema -------------------------------
(***************************************************************************)
(* What the stream jobs do with one CDC message: the row is read through   *)
(* the registered aliases, classified, validated and written again.        *)
(*                                                                         *)
(* A row is a function on the columns it has; a value is a text, a number  *)
(* or null.  Text columns hold texts, none of which is a number.           *)
(***************************************************************************)
EXTENDS Integers, Sequences, FiniteSets, SequencesExt

CONSTANTS None,
          Identity,  \* what Object.toString() gives
          MaxInt,    \* Integer.MAX_VALUE
          TsFloor, MaxSkew,
          LongIds    \* texts beyond the length of a user id

ASSUME SchemaAssumption == MaxInt \in Nat /\ TsFloor \in Nat /\ MaxSkew \in Nat

Text(t) == <<"text", t>>
Num(n) == <<"num", n>>
Null == <<"null", 0>>
Blank == " "

-----------------------------------------------------------------------------
(* Aliases: pairs <<alias, canonical name>> in the order of registration    *)

WellFormed(pair) == pair[1] # Blank /\ pair[2] # Blank

\* LinkedHashMap.put: a known alias keeps its place.
Register(aliases, pair) ==
    LET known == {i \in DOMAIN aliases : aliases[i][1] = pair[1]}
    IN IF known = {} THEN Append(aliases, pair) ELSE [i \in DOMAIN aliases |-> IF i \in known THEN pair ELSE aliases[i]]

BuiltIn == <<<<"uid", "user_id">>, <<"type", "event_type">>, <<"ts", "created_at">>>>

WithDefaults(spec) == FoldLeft(Register, BuiltIn, SelectSeq(spec, WellFormed))

NamesOf(canonical, aliases) ==
    LET Means(pair) == pair[2] = canonical
        others == SelectSeq(aliases, Means)
    IN <<canonical>> \o [i \in DOMAIN others |-> others[i][1]]

Value(row, column) == IF column \in DOMAIN row /\ row[column] # Null THEN row[column] ELSE None

\* Mutant: only the canonical column is looked at.
ResolveCanonical(row, aliases, canonical) == Value(row, canonical)

\* The canonical column before its aliases.
Resolve(row, aliases, canonical) ==
    LET values == [i \in DOMAIN NamesOf(canonical, aliases) |-> Value(row, NamesOf(canonical, aliases)[i])]
        found == {i \in DOMAIN values : values[i] # None}
    IN IF found = {} THEN None ELSE values[CHOOSE i \in found : \A k \in found : i <= k]

HasFieldOrAlias(row, aliases, canonical) == \E n \in Range(NamesOf(canonical, aliases)) : n \in DOMAIN row

TextOf(v) == IF v = None THEN None ELSE v[2]
LongOf(v) == IF v = None THEN None ELSE IF v[1] = "num" THEN v[2] ELSE 0

-----------------------------------------------------------------------------
(* SchemaEvolutionHandler                                                  *)

Beyond(n) == n > MaxInt \/ n < 0 - MaxInt - 1

Change(type, column, level) == [type |-> type, column |-> column, level |-> level]

TypeChanges(v) ==
    IF v = None THEN {}
    ELSE IF v[1] = "text" THEN {Change("INCOMPATIBLE_TYPE", "created_at", "BREAKING")}
    ELSE IF Beyond(v[2]) THEN {Change("WIDEN_TYPE", "created_at", "BACKWARD")} ELSE {}

NormalizeRow(row, aliases) ==
    [user |-> TextOf(Resolve(row, aliases, "user_id")), kind |-> TextOf(Resolve(row, aliases, "event_type")),
     at |-> LongOf(Resolve(row, aliases, "created_at")),
     extra |-> [c \in {"session_id", "ip_address", "metadata"} |-> TextOf(Value(row, c))]]

\* A dropped column is FORWARD whatever the column is.
DetectedChanges(row, aliases) ==
    TypeChanges(Resolve(row, aliases, "created_at"))
    \cup IF HasFieldOrAlias(row, aliases, "user_id") THEN {} ELSE {Change("DROP_COLUMN", "user_id", "FORWARD")}

DetectVersion(row, after) ==
    IF "metadata" \in DOMAIN row \/ (after.at # None /\ Beyond(after.at)) THEN "V3"
    ELSE IF {"session_id", "ip_address"} \cap DOMAIN row # {} THEN "V2"
    ELSE IF after.user # None \/ after.kind # None THEN "V1" ELSE "UNKNOWN"

Handle(m, aliases) ==
    LET event == [op |-> m.op, ts |-> m.ts, after |-> None, changes |-> {}, version |-> "UNKNOWN"]
        after == NormalizeRow(m.after, aliases)
    IN IF m.after = None THEN event
       ELSE [event EXCEPT !.after = after, !.changes = DetectedChanges(m.after, aliases),
                          !.version = DetectVersion(m.after, after)]

\* A tombstone or a message that is no JSON is no event.
Deserialize(m, aliases) == IF m = None THEN None ELSE Handle(m, aliases)

\* From one operator to the next the event is copied, and the copy has the
\* initial values in its transient fields.
Copied(e) == [e EXCEPT !.changes = {}, !.version = "UNKNOWN"]

\* CdcEvent as JSON: every column, null when it has no value.
ToJson(e) ==
    LET In(t, tag) == IF t = None THEN Null ELSE <<tag, t>>
        row == e.after
    IN [op |-> e.op, ts |-> e.ts, of |-> IF row = None THEN None ELSE row.user,
        after |-> IF row = None THEN None
                  ELSE [user_id |-> In(row.user, "text"), event_type |-> In(row.kind, "text"),
                        created_at |-> In(row.at, "num"), session_id |-> In(row.extra["session_id"], "text"),
                        ip_address |-> In(row.extra["ip_address"], "text"), metadata |-> In(row.extra["metadata"], "text")]]

-----------------------------------------------------------------------------
(* SchemaEvolutionFilter, CdcEventValidator                                *)

DeadLetter(e, change) ==
    [raw |-> Identity, type |-> change.type, column |-> change.column, version |-> e.version, level |-> change.level]

CarriesRow(e) == e.op \in {"c", "r"}
LacksUserId(e) == e.after = None \/ e.after.user = None

\* The dead letter of an event that must not pass, or None.
Classify(e) ==
    LET breaking == {c \in e.changes : c.level = "BREAKING"}
    IN IF breaking # {} THEN DeadLetter(e, CHOOSE c \in breaking : TRUE)
       ELSE IF CarriesRow(e) /\ LacksUserId(e) THEN DeadLetter(e, Change("DROP_COLUMN", "user_id", "BREAKING"))
       ELSE None

\* The kind of violation, or None.
Validate(e, now) ==
    IF e.op \notin {"c", "u", "d", "r"} THEN "SCHEMA_MISMATCH"
    ELSE IF e.ts < TsFloor \/ e.ts > now + MaxSkew THEN "RANGE_VIOLATION"
    ELSE IF ~CarriesRow(e) THEN None
    ELSE IF LacksUserId(e) \/ e.after.user = Blank THEN "NULL_FIELD"
    ELSE IF e.after.user \in LongIds THEN "RANGE_VIOLATION"
    ELSE IF e.after.kind \in {None, Blank} THEN "NULL_FIELD" ELSE None
=============================================================================
