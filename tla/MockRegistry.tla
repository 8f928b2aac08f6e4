----------------------------- MODULE MockRegistry -----------------------------
(***************************************************************************)
(* MockSchemaRegistryClient of schema-registry/client.py, the in-memory    *)
(* registry of local development and CI, with the compatibility check it   *)
(* delegates to evolve.py; and the two kinds of deployment together.       *)
(*                                                                         *)
(* Its calls are made in one thread, so that each is one action.           *)
(***************************************************************************)
EXTENDS SchemaRegistry, SchemaEvolution, Functions

CONSTANTS Content,      \* what the schema texts say
          Deployments   \* the programs with a server, and the mocks, considered

Texts == DOMAIN Content

\* The subjects, texts and levels used, how many ids are handed out, the size of the
\* inherited cache and whether anything is deleted.
MockCircumstances == [subjects : SUBSET Subjects, texts : SUBSET Texts, levels : SUBSET Levels,
                      ids : Nat, capacity : Nat, deletes : BOOLEAN]

ASSUME MockAssumption ==
    /\ None \notin MockCircumstances \cup Texts
    /\ Deployments \subseteq Settings \X (MockCircumstances \cup {None})
    /\ \A t \in Texts : IsSchema(Content[t])

VARIABLES mock,     \* the mock's circumstances, None where the programs have a server
          store,    \* _store: the entries of each subject that has a list
          idMap,    \* _id_map
          nextId,   \* _next_id
          resolved, \* _by_id_cache
          compat,   \* _compat
          answer    \* the last answer of check_compatibility

mockVars == <<mock, store, idMap, nextId, resolved, compat, answer>>
listed == <<store, idMap, nextId, resolved>>

NoAnswer == [new |-> None, old |-> None, level |-> None, ok |-> FALSE]

MockInit ==
    /\ store = <<>> /\ idMap = <<>> /\ nextId = 1 /\ resolved = <<>>
    /\ compat = <<>> /\ answer = NoAnswer

Entry(id, text) == [id |-> id, schema |-> text]
ListOf(subject) == IF subject \in DOMAIN store THEN store[subject] ELSE <<>>
With(function, key, value) == [k \in DOMAIN function \cup {key} |-> IF k = key THEN value ELSE function[k]]
Drop(function, keys) == Restrict(function, DOMAIN function \ keys)

\* put, into the inherited cache.
PutResolved(id, text) ==
    LET longer == Append(Without(resolved, id), [key |-> id, schema |-> text])
    IN IF Len(longer) > (IF mock.capacity = 0 THEN 1 ELSE mock.capacity) THEN Tail(longer) ELSE longer

\* Filed under the id, a text is in the list, the map and the cache.
FiledAs(subject, text, id) ==
    /\ nextId <= mock.ids
    /\ store' = With(store, subject, Append(ListOf(subject), Entry(id, text)))
    /\ idMap' = With(idMap, id, text)
    /\ resolved' = PutResolved(id, text)

\* Mutant: ids are counted from the map.
MockRegisterCounted(subject, text) ==
    LET id == Cardinality(DOMAIN idMap) + 1
    IN /\ IF \E i \in DOMAIN ListOf(subject) : ListOf(subject)[i].schema = text
          THEN UNCHANGED listed
          ELSE FiledAs(subject, text, id) /\ nextId' = nextId + 1
       /\ answer' = NoAnswer /\ UNCHANGED compat

\* register_schema, and get_or_register, which looks at the latest one first: a text
\* of the subject's list keeps its id.
MockRegister(subject, text) ==
    /\ IF \E i \in DOMAIN ListOf(subject) : ListOf(subject)[i].schema = text
       THEN UNCHANGED listed
       ELSE FiledAs(subject, text, nextId) /\ nextId' = nextId + 1
    /\ answer' = NoAnswer /\ UNCHANGED compat

\* get_schema_by_id: what the cache has is served, also after the id was deleted; what
\* the map has is not cached.
MockResolve(id) ==
    /\ Holds(resolved, id) /\ resolved' = Used(resolved, id)
    /\ answer' = NoAnswer /\ UNCHANGED <<store, idMap, nextId, compat>>

\* check_compatibility, against the latest version or a numbered one: a subject without
\* one, and whatever else goes wrong, is compatible.
MockCheck(subject, text, version) ==
    LET list == ListOf(subject)
        level == IF subject \in DOMAIN compat THEN compat[subject] ELSE "BACKWARD"
        place == IF version = Latest THEN Len(list) ELSE version
        known == place \in DOMAIN list
        old == IF known THEN list[place].schema ELSE None
    IN /\ answer' = [new |-> text, old |-> old, level |-> level,
                     ok |-> known => IsCompatible(Content[text], Content[old], level)]
       /\ UNCHANGED <<listed, compat>>

MockSetLevel(subject, level) ==
    /\ compat' = With(compat, subject, level)
    /\ answer' = NoAnswer /\ UNCHANGED listed

\* delete_subject: the list goes, the ids only for good.
MockDeleteSubject(subject, permanent) ==
    /\ mock.deletes /\ subject \in DOMAIN store
    /\ store' = Drop(store, {subject})
    /\ idMap' = IF permanent THEN Drop(idMap, {e.id : e \in ToSet(store[subject])}) ELSE idMap
    /\ answer' = NoAnswer /\ UNCHANGED <<nextId, resolved, compat>>

\* delete_version: the later versions move up.
MockDeleteVersion(subject, version, permanent) ==
    /\ mock.deletes /\ version \in DOMAIN ListOf(subject)
    /\ store' = [store EXCEPT ![subject] = RemoveAt(@, version)]
    /\ idMap' = IF permanent THEN Drop(idMap, {store[subject][version].id}) ELSE idMap
    /\ answer' = NoAnswer /\ UNCHANGED <<nextId, resolved, compat>>

MockNext ==
    \/ \E s \in mock.subjects :
          \/ \E t \in mock.texts : MockRegister(s, t)
          \/ \E t \in mock.texts, v \in 0..mock.ids : MockCheck(s, t, v)
          \/ \E l \in mock.levels : MockSetLevel(s, l)
          \/ \E permanent \in BOOLEAN :
                \/ MockDeleteSubject(s, permanent)
                \/ \E v \in 1..mock.ids : MockDeleteVersion(s, v, permanent)
    \/ \E id \in 1..mock.ids : MockResolve(id)

-----------------------------------------------------------------------------
(* Programs with a registry server, or one with the mock                   *)

RegistryInit == Init /\ MockInit /\ \E d \in Deployments : setting = d[1] /\ mock = d[2]

RegistryNext ==
    \/ mock = None /\ Next /\ UNCHANGED mockVars
    \/ mock # None /\ MockNext /\ UNCHANGED <<vars, mock>>

RegistrySpec == RegistryInit /\ [][RegistryNext]_<<vars, mockVars>>

-----------------------------------------------------------------------------
(* Safety                                                                  *)

\* Lists, map and cache agree on what an id stands for although deletions empty them
\* separately, and a version that is listed can be resolved.
IdsKeepTheirSchema ==
    /\ \A s \in DOMAIN store : \A i \in DOMAIN store[s] :
          LET e == store[s][i]
          IN /\ e.id \in DOMAIN idMap /\ idMap[e.id] = e.schema
             /\ \A r \in DOMAIN store : \A j \in DOMAIN store[r] :
                   store[r][j].id = e.id => r = s /\ j = i
    /\ \A i \in DOMAIN resolved :
          resolved[i].key \in DOMAIN idMap => idMap[resolved[i].key] = resolved[i].schema

\* "New schema can read data written with the old schema", and the other way round:
\* what the check approves reads so, but for the gaps that are named.
ApprovedIsReadable ==
    LET new == Content[answer.new]
        old == Content[answer.old]
    IN answer.ok /\ answer.old # None =>
          /\ WantsBackward(answer.level) /\ ~BackwardGap(new, old) => Reads(new, old)
          /\ WantsForward(answer.level) /\ ~ForwardGap(new, old) => Reads(old, new)
=============================================================================
