--------------------------- MODULE SchemaRegistry ---------------------------
(***************************************************************************)
(* schema-registry/client.py and avro_serde.py, and their Java             *)
(* counterparts in stream-processor/.../registry: programs that register   *)
(* Avro schemas, frame messages with the id they were given, and resolve   *)
(* the ids of other programs' messages, over HTTP and through caches that  *)
(* nothing invalidates.                                                    *)
(*                                                                         *)
(* The registry is the external Confluent service.  A message is its       *)
(* header's id and the schema its payload was encoded with; the payload    *)
(* itself, JSON fallback, and requests that neither change nor cache       *)
(* anything (compatibility, listings) are left out.                        *)
(***************************************************************************)
EXTENDS Naturals, Sequences, SequencesExt

CONSTANTS Programs, Subjects, Schemas,
          MaxIds,      \* bound on the ids the registry hands out
          MaxVersions, \* bound on the versions of a subject
          Attempts,    \* _RETRY_ATTEMPTS, MAX_RETRIES
          Settings,    \* the circumstances considered
          None

Ids == 0..MaxIds
Latest == 0

\* How a program's serializer finds its id: AvroSerializer with a schema,
\* without one, with auto_register=False; AvroConfluentSerializationSchema in
\* the process that built it, and on a task manager it was shipped to.
Modes == {"given", "latest", "unregistered", "direct", "shipped"}
Python == {"given", "latest", "unregistered"}

\* Each program's serializer, the cache size, whether requests may go
\* unanswered, schemas be deleted and programs be restarted, and what programs
\* do apart from serializing and deserializing.
Circumstances ==
    [mode : [Programs -> Modes], subject : [Programs -> Subjects],
     schema : [Programs -> Schemas], capacity : Nat,
     unanswered : BOOLEAN, crashes : BOOLEAN, ops : SUBSET
        {"register", "get_or_register", "get_schema", "delete", "purge"}]

ASSUME SRAssumption ==
    /\ MaxIds \in Nat /\ MaxVersions \in Nat /\ Attempts \in Nat \ {0}
    /\ Settings \subseteq Circumstances
    /\ None \notin Ids \cup Schemas

VARIABLES setting,
          schemas,   \* the schema of each id the registry has handed out
          versions,  \* the versions of each subject: an id, and live, soft or gone
          byId,      \* _by_id_cache, SchemaCache: least recently used first
          bySubject, \* _subject_cache
          writers,   \* AvroDeserializer._parsed_writers
          ser,       \* the serializer's _schema_id and _schema_str
          call,      \* what each program is doing, or how its last call ended
          messages   \* what has been serialized

registry == <<schemas, versions>>
caches == <<byId, bySubject, writers>>
vars == <<setting, schemas, versions, byId, bySubject, writers, ser, call, messages>>

Messages == [id : Ids, writer : Schemas, mode : Modes]
Returned == {"done", "missing", "rejected", "failed"}
Calls == [op : {"none", "serialize", "deserialize", "register", "get_or_register",
                "get_schema", "delete", "purge"},
          step : {"get", "post", "resolve", "delete"} \cup Returned,
          subject : Subjects \cup {None}, version : 0..MaxVersions,
          schema : Schemas \cup {None}, message : Messages \cup {None},
          tries : 0..Attempts, id : Ids \cup {None}, got : Schemas \cup {None}]

Entries(cache) == ToSet(cache)
IdEntries == [key : Ids, schema : Schemas]
SubjectEntries == [key : Subjects \X (0..MaxVersions), id : Ids, schema : Schemas]
Capacity == IF setting.capacity = 0 THEN 1 ELSE setting.capacity

TypeOK ==
    /\ setting \in Circumstances
    /\ schemas \in Seq(Schemas) /\ Len(schemas) <= MaxIds
    /\ versions \in [Subjects -> Seq([id : Ids, state : {"live", "soft", "gone"}])]
    /\ byId \in [Programs -> Seq(IdEntries)] /\ bySubject \in [Programs -> Seq(SubjectEntries)]
    /\ \A p \in Programs : Len(byId[p]) <= Capacity /\ Len(bySubject[p]) <= Capacity
    /\ writers \in [Programs -> SUBSET IdEntries]
    /\ ser \in [Programs -> [id : Ids \cup {None}, schema : Schemas \cup {None}]]
    /\ call \in [Programs -> Calls]
    /\ messages \subseteq Messages

Idle == [op |-> "none", step |-> "done", subject |-> None, version |-> Latest,
         schema |-> None, message |-> None, tries |-> 0, id |-> None, got |-> None]

\* _schema_id is None or -1 at first.  Java serialization leaves out the transient
\* field and its initializer does not run again: it is 0, which counts as registered.
Fresh(p) == IF setting.mode[p] = "shipped" THEN [id |-> 0, schema |-> setting.schema[p]]
            ELSE [id |-> None, schema |-> None]

Init ==
    /\ setting \in Settings
    /\ schemas = <<>> /\ versions = [s \in Subjects |-> <<>>]
    /\ byId = [p \in Programs |-> <<>>] /\ bySubject = [p \in Programs |-> <<>>]
    /\ writers = [p \in Programs |-> {}]
    /\ ser = [p \in Programs |-> Fresh(p)]
    /\ call = [p \in Programs |-> Idle]
    /\ messages = {}

-----------------------------------------------------------------------------
(* The registry                                                            *)

Live(subject) == {v \in DOMAIN versions[subject] : versions[subject][v].state = "live"}

\* The version a GET names, or nothing.
Named(subject, version) ==
    IF version = Latest THEN {v \in Live(subject) : \A w \in Live(subject) : w <= v}
    ELSE Live(subject) \cap {version}

\* Ids outlive soft deletion.
Known(id) == \E s \in Subjects : \E v \in DOMAIN versions[s] :
                versions[s][v].id = id /\ versions[s][v].state # "gone"

IsIdOf(id, schema) == id \in DOMAIN schemas /\ schemas[id] = schema /\ Known(id)

\* POST: the live version of that schema, else a new version under the schema's
\* id, else a new id.
Posted(subject, schema, id) ==
    \/ /\ \E v \in Live(subject) : versions[subject][v].id = id /\ IsIdOf(id, schema)
       /\ UNCHANGED registry
    \/ /\ \A v \in Live(subject) : schemas[versions[subject][v].id] # schema
       /\ Len(versions[subject]) < MaxVersions
       /\ versions' = [versions EXCEPT ![subject] = Append(@, [id |-> id, state |-> "live"])]
       /\ \/ IsIdOf(id, schema) /\ UNCHANGED schemas
          \/ /\ \A i \in DOMAIN schemas : ~IsIdOf(i, schema)
             /\ id = Len(schemas) + 1 /\ id <= MaxIds
             /\ schemas' = Append(schemas, schema)

Targets(subject, version) ==
    {v \in DOMAIN versions[subject] :
        versions[subject][v].state # "gone" /\ version \in {Latest, v}}

\* Only what was soft-deleted can be deleted for good.
Deletable(c) ==
    LET states == {versions[c.subject][v].state : v \in Targets(c.subject, c.version)}
    IN IF c.op = "purge" THEN states = {"soft"} ELSE "live" \in states

Deleted(c) ==
    /\ versions' = [versions EXCEPT ![c.subject] = [v \in DOMAIN @ |->
                       IF v \in Targets(c.subject, c.version)
                       THEN [@[v] EXCEPT !.state = IF c.op = "purge" THEN "gone" ELSE "soft"]
                       ELSE @[v]]]
    /\ UNCHANGED schemas

-----------------------------------------------------------------------------
(* LRU caches                                                              *)

Holds(cache, key) == \E i \in DOMAIN cache : cache[i].key = key
Place(cache, key) == CHOOSE i \in DOMAIN cache : cache[i].key = key
Without(cache, key) == IF Holds(cache, key) THEN RemoveAt(cache, Place(cache, key)) ELSE cache

\* get: move_to_end.
Used(cache, key) == Append(Without(cache, key), cache[Place(cache, key)])

\* Mutant: evicts nothing.
PutUnbounded(cache, entry) == Append(Without(cache, entry.key), entry)

\* put: the entry moves to the end, popitem(last=False) above the capacity.
Put(cache, entry) ==
    LET longer == Append(Without(cache, entry.key), entry)
    IN IF Len(longer) > Capacity THEN Tail(longer) ELSE longer

-----------------------------------------------------------------------------
(* Calls                                                                   *)

Free(p) == call[p].step \in Returned
At(p, step) == call[p].step = step

\* The call raises, or has nothing to return.
Return(p, how) ==
    call' = [call EXCEPT ![p] =
                [Idle EXCEPT !.op = call[p].op, !.message = call[p].message, !.step = how]]

Begin(p, c) == Free(p) /\ call' = [call EXCEPT ![p] = c]

Framed(p, id, schema) == [id |-> id, writer |-> schema, mode |-> setting.mode[p]]

\* _ensure_initialized, ensureSchemaRegistered: once there is an id, nothing is
\* asked any more.
Serialize(p) ==
    /\ Free(p)
    /\ \/ /\ ser[p].id # None
          /\ messages' = messages \cup {Framed(p, ser[p].id, ser[p].schema)}
          /\ UNCHANGED call
       \/ /\ ser[p].id = None
          /\ Begin(p, [Idle EXCEPT !.op = "serialize", !.subject = setting.subject[p],
                         !.step = IF setting.mode[p] = "direct" THEN "post" ELSE "get",
                         !.schema = IF setting.mode[p] = "latest" THEN None ELSE setting.schema[p]])
          /\ UNCHANGED messages
    /\ UNCHANGED <<setting, registry, caches, ser>>

\* Mutant: the writer schema is parsed once, like the reader schema.
DeserializeWithFirst(p, m) ==
    /\ LET c == [Idle EXCEPT !.op = "deserialize", !.message = m]
       IN IF writers[p] = {} THEN Begin(p, [c EXCEPT !.step = "resolve"])
          ELSE \E e \in writers[p] : Begin(p, [c EXCEPT !.got = e.schema])
    /\ UNCHANGED <<setting, registry, caches, ser, messages>>

\* _get_writer_schema: the deserializer's own table is asked first.
Deserialize(p, m) ==
    /\ LET c == [Idle EXCEPT !.op = "deserialize", !.message = m]
           parsed == {e \in writers[p] : e.key = m.id}
       IN IF parsed = {} THEN Begin(p, [c EXCEPT !.step = "resolve"])
          ELSE \E e \in parsed : Begin(p, [c EXCEPT !.got = e.schema])
    /\ UNCHANGED <<setting, registry, caches, ser, messages>>

\* The calls a program makes on its SchemaRegistryClient itself.
Ask(p, op, version, schema) ==
    /\ op \in setting.ops /\ setting.mode[p] \in Python
    /\ LET c == [Idle EXCEPT !.op = op, !.subject = setting.subject[p]]
       IN Begin(p, CASE op = "register" -> [c EXCEPT !.step = "post", !.schema = schema]
                     [] op = "get_or_register" -> [c EXCEPT !.step = "get", !.schema = schema]
                     [] op = "get_schema" -> [c EXCEPT !.step = "get", !.version = version]
                     [] OTHER -> [c EXCEPT !.step = "delete", !.version = version])
    /\ UNCHANGED <<setting, registry, caches, ser, messages>>

\* The id is the caller's, or the serializer's, which then writes its message.
Finish(p, id, schema) ==
    /\ call' = [call EXCEPT ![p].step = "done", ![p].id = id, ![p].got = schema]
    /\ IF call[p].op = "serialize"
       THEN /\ ser' = [ser EXCEPT ![p] = [id |-> id, schema |-> schema]]
            /\ messages' = messages \cup {Framed(p, id, schema)}
       ELSE UNCHANGED <<ser, messages>>

-----------------------------------------------------------------------------
(* get_schema                                                              *)

SubjectKey(p) == <<call[p].subject, call[p].version>>

\* Mutant: auto_register is not looked at.
RegistersDirectly(p) == call[p].op = "get_or_register"

\* Whether the caller is get_or_register.
Registers(p) == \/ call[p].op = "get_or_register"
                \/ call[p].op = "serialize" /\ setting.mode[p] = "given"

\* Mutant: the latest version will do.
GotVersionAny(p, entry) ==
    Finish(p, entry.id, IF call[p].schema = None THEN entry.schema ELSE call[p].schema)

\* What the caller does with the version it got.
GotVersion(p, entry) ==
    IF Registers(p) /\ entry.schema # call[p].schema
    THEN /\ call' = [call EXCEPT ![p].step = "post", ![p].tries = 0]
         /\ UNCHANGED <<ser, messages>>
    ELSE Finish(p, entry.id, IF call[p].schema = None THEN entry.schema ELSE call[p].schema)

VersionCached(p) ==
    /\ At(p, "get") /\ Holds(bySubject[p], SubjectKey(p))
    /\ GotVersion(p, bySubject[p][Place(bySubject[p], SubjectKey(p))])
    /\ bySubject' = [bySubject EXCEPT ![p] = Used(@, SubjectKey(p))]
    /\ UNCHANGED <<setting, registry, byId, writers>>

\* Mutant: the schema is remembered under the version's number.
VersionRemembered(p) ==
    /\ At(p, "get") /\ ~Holds(bySubject[p], SubjectKey(p))
    /\ \E v \in Named(call[p].subject, call[p].version) :
          LET id == versions[call[p].subject][v].id
              entry == [key |-> SubjectKey(p), id |-> id, schema |-> schemas[id]]
          IN /\ GotVersion(p, entry)
             /\ bySubject' = [bySubject EXCEPT ![p] = Put(@, entry)]
             /\ byId' = [byId EXCEPT ![p] = Put(@, [key |-> v, schema |-> schemas[id]])]
    /\ UNCHANGED <<setting, registry, writers>>

VersionAnswered(p) ==
    /\ At(p, "get") /\ ~Holds(bySubject[p], SubjectKey(p))
    /\ \E v \in Named(call[p].subject, call[p].version) :
          LET id == versions[call[p].subject][v].id
              entry == [key |-> SubjectKey(p), id |-> id, schema |-> schemas[id]]
          IN /\ GotVersion(p, entry)
             /\ bySubject' = [bySubject EXCEPT ![p] = Put(@, entry)]
             /\ byId' = [byId EXCEPT ![p] = Put(@, [key |-> id, schema |-> schemas[id]])]
    /\ UNCHANGED <<setting, registry, writers>>

\* SchemaNotFoundError: get_or_register goes on to register.
VersionMissing(p) ==
    /\ At(p, "get") /\ ~Holds(bySubject[p], SubjectKey(p))
    /\ Named(call[p].subject, call[p].version) = {}
    /\ IF Registers(p) THEN call' = [call EXCEPT ![p].step = "post", ![p].tries = 0]
       ELSE Return(p, "missing")
    /\ UNCHANGED <<setting, registry, caches, ser, messages>>

-----------------------------------------------------------------------------
(* register_schema, registerSchema                                         *)

\* The Python client remembers the schema under its id.
PostAnswered(p) ==
    /\ At(p, "post")
    /\ \E id \in Ids :
          /\ Posted(call[p].subject, call[p].schema, id)
          /\ Finish(p, id, call[p].schema)
          /\ byId' = IF setting.mode[p] \in Python
                     THEN [byId EXCEPT ![p] = Put(@, [key |-> id, schema |-> call[p].schema])]
                     ELSE byId
    /\ UNCHANGED <<setting, bySubject, writers>>

-----------------------------------------------------------------------------
(* get_schema_by_id, getOrFetchSchema                                      *)

\* Only the Python deserializer keeps a table of its own.
Resolved(p, id, schema) ==
    /\ writers' = IF setting.mode[p] \in Python
                  THEN [writers EXCEPT ![p] = @ \cup {[key |-> id, schema |-> schema]}]
                  ELSE writers
    /\ call' = [call EXCEPT ![p].step = "done", ![p].got = schema]

IdCached(p) ==
    LET id == call[p].message.id
    IN /\ At(p, "resolve") /\ Holds(byId[p], id)
       /\ Resolved(p, id, byId[p][Place(byId[p], id)].schema)
       /\ byId' = [byId EXCEPT ![p] = Used(@, id)]
       /\ UNCHANGED <<setting, registry, bySubject, ser, messages>>

IdAnswered(p) ==
    LET id == call[p].message.id
    IN /\ At(p, "resolve") /\ ~Holds(byId[p], id) /\ Known(id)
       /\ Resolved(p, id, schemas[id])
       /\ byId' = [byId EXCEPT ![p] = Put(@, [key |-> id, schema |-> schemas[id]])]
       /\ UNCHANGED <<setting, registry, bySubject, ser, messages>>

IdMissing(p) ==
    /\ At(p, "resolve") /\ ~Holds(byId[p], call[p].message.id) /\ ~Known(call[p].message.id)
    /\ Return(p, "missing")
    /\ UNCHANGED <<setting, registry, caches, ser, messages>>

-----------------------------------------------------------------------------
(* delete_subject, delete_version                                          *)

DeleteAnswered(p) ==
    /\ At(p, "delete")
    /\ IF Deletable(call[p]) THEN Deleted(call[p]) /\ Return(p, "done")
       ELSE Return(p, "missing") /\ UNCHANGED registry
    /\ UNCHANGED <<setting, caches, ser, messages>>

-----------------------------------------------------------------------------
(* _request, request                                                       *)

\* The request goes to the registry.
OnTheWire(p) ==
    \/ At(p, "get") /\ ~Holds(bySubject[p], SubjectKey(p))
    \/ At(p, "resolve") /\ ~Holds(byId[p], call[p].message.id)
    \/ At(p, "post") \/ At(p, "delete")

\* 4xx other than 404, such as an incompatible schema: raised at once.
Refused(p) ==
    /\ OnTheWire(p)
    /\ Return(p, "rejected")
    /\ UNCHANGED <<setting, registry, caches, ser, messages>>

\* A 5xx or no reply at all: the request is sent again, up to Attempts times; the
\* registry may have carried it out.
Unanswered(p) ==
    /\ setting.unanswered /\ OnTheWire(p)
    /\ \/ UNCHANGED registry
       \/ At(p, "post") /\ \E id \in Ids : Posted(call[p].subject, call[p].schema, id)
       \/ At(p, "delete") /\ Deletable(call[p]) /\ Deleted(call[p])
    /\ call' = [call EXCEPT ![p].tries = @ + 1,
                            ![p].step = IF call[p].tries + 1 = Attempts THEN "failed" ELSE @]
    /\ UNCHANGED <<setting, caches, ser, messages>>

Crash(p) ==
    /\ setting.crashes
    /\ byId' = [byId EXCEPT ![p] = <<>>] /\ bySubject' = [bySubject EXCEPT ![p] = <<>>]
    /\ writers' = [writers EXCEPT ![p] = {}]
    /\ ser' = [ser EXCEPT ![p] = Fresh(p)]
    /\ call' = [call EXCEPT ![p] = Idle]
    /\ UNCHANGED <<setting, registry, messages>>

-----------------------------------------------------------------------------
Step(p) ==
    \/ VersionCached(p) \/ VersionAnswered(p) \/ VersionMissing(p) \/ PostAnswered(p)
    \/ IdCached(p) \/ IdAnswered(p) \/ IdMissing(p) \/ DeleteAnswered(p)
    \/ Refused(p) \/ Unanswered(p)

Next ==
    \E p \in Programs :
        \/ Serialize(p)
        \/ \E m \in messages : Deserialize(p, m)
        \/ \E op \in setting.ops, version \in 0..MaxVersions, schema \in Schemas :
              Ask(p, op, version, schema)
        \/ Step(p) \/ Crash(p)

Spec == Init /\ [][Next]_vars

-----------------------------------------------------------------------------
(* Safety                                                                  *)

\* Nothing invalidates a cache, and ids are cached for good: whatever is deleted,
\* registered again, evicted or retried, every cached schema is the one its id was
\* handed out for, and a cached version is or was that subject's.
CachesAreTrue ==
    \A p \in Programs :
        /\ \A e \in Entries(byId[p]) \cup writers[p] :
              e.key \in DOMAIN schemas /\ schemas[e.key] = e.schema
        /\ \A e \in Entries(bySubject[p]) :
              /\ e.id \in DOMAIN schemas /\ schemas[e.id] = e.schema
              /\ \E v \in DOMAIN versions[e.key[1]] :
                    versions[e.key[1]][v].id = e.id /\ e.key[2] \in {Latest, v}

\* The serializers that register their schema, or take the registered one for
\* their own.
Naming == {"given", "latest", "direct"}

\* The id in a message's header names the schema its payload was encoded with.
\* Not so without auto_register, where the latest id is taken whatever its schema,
\* nor for a serializer that was shipped.
HeaderNamesWriterSchema ==
    \A m \in messages : m.mode \in Naming =>
        m.id \in DOMAIN schemas /\ schemas[m.id] = m.writer

\* What any program decodes such a message with is what it was encoded with.
DecodedAsWritten ==
    \A p \in Programs :
        call[p].op = "deserialize" /\ At(p, "done") /\ call[p].message.mode \in Naming =>
            call[p].got = call[p].message.writer

\* A deserializer finds no schema only when there were versions of it and every one
\* was deleted for good; soft deletions, restarts and evictions do not matter.
MissingIsGone ==
    \A p \in Programs :
        call[p].op = "deserialize" /\ At(p, "missing") /\ call[p].message.mode \in Naming =>
            /\ ~Known(call[p].message.id)
            /\ \E s \in Subjects : \E v \in DOMAIN versions[s] :
                  versions[s][v].id = call[p].message.id

\* "Return the schema ID, registering the schema first if not already present":
\* as long as nobody deletes, the id returned is live under the subject and names the schema
\* that was asked for, through lost replies and stale caches.
RegisteredOnReturn ==
    \A p \in Programs :
        LET c == call[p]
        IN /\ setting.ops \cap {"delete", "purge"} = {}
           /\ At(p, "done")
           /\ \/ c.op \in {"register", "get_or_register"}
              \/ c.op = "serialize" /\ setting.mode[p] \in Naming
           => /\ \E v \in Live(c.subject) : versions[c.subject][v].id = c.id
              /\ schemas[c.id] = c.got
              /\ c.schema \in {None, c.got}
=============================================================================
