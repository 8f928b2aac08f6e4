-------------------------- MODULE MCSchemaRegistry --------------------------
(* The circumstances sr.cfg checks, one subject each, and two mocks         *)
EXTENDS MockRegistry

CONSTANTS p1, p2, s1, s2, topic, other, plain, row1, row2

Circumstance(mode1, mode2, schema2, capacity, unanswered, crashes, ops) ==
    [mode |-> (p1 :> mode1 @@ p2 :> mode2), subject |-> [p \in Programs |-> topic],
     schema |-> (p1 :> s1 @@ p2 :> schema2), capacity |-> capacity,
     unanswered |-> unanswered, crashes |-> crashes, ops |-> ops]

Still == Circumstance("given", "given", s2, 1, FALSE, FALSE, {})

MCSettings ==
    { \* Two versions of a schema and caches of one entry; crashes and lost replies.
      Circumstance("given", "given", s2, 1, TRUE, TRUE, {}),
      \* A program that takes the latest version while the other registers several.
      Circumstance("given", "latest", s2, 0, FALSE, FALSE, {"get_or_register"}),
      \* Java and Python programs; schemas are deleted and registered again.
      Circumstance("given", "direct", s2, 1, FALSE, FALSE, {"delete", "purge"}),
      \* The same with lost replies.
      Circumstance("given", "direct", s1, 1, TRUE, FALSE, {"delete"}),
      \* Serializers whose header is not the registry's.
      Circumstance("unregistered", "shipped", s2, 2, FALSE, FALSE, {"register", "get_schema"}),
      \* The programs of the mocks, which have no server.
      Still }

\* One field x of any of these types, alone or beside a required y.
scalar(l) == [form |-> "scalar", branches |-> {[label |-> l, body |-> plain]}]
union(bs) == [form |-> "union", branches |-> {[label |-> b[1], body |-> b[2]] : b \in bs}]
logical(b) == [form |-> "annotated", branches |-> {[label |-> "long", body |-> b]}]
field(t, d) == [type |-> t, default |-> d]

null == <<"null", plain>>
MCContent ==
    <<"x" :> field(scalar("int"), NoDefault),
      "x" :> field(scalar("long"), "zero"),
      "x" :> field(scalar("string"), NoDefault),
      "x" :> field(union({null, <<"Row", row1>>}), "null"),
      "x" :> field(union({null, <<"Row", row2>>}), "null") @@ "y" :> field(scalar("int"), "zero"),
      "x" :> field(union({null, <<"Row", row1>>, <<"string", plain>>}), "null") @@ "y" :> field(scalar("int"), NoDefault),
      "x" :> field(logical(row1), NoDefault) @@ "y" :> field(union({null, <<"string", plain>>}), NoDefault),
      "x" :> field(logical(row2), NoDefault)>>

\* Every pair of texts at every level; and deletions under two subjects.
Checks == [subjects |-> {topic}, texts |-> DOMAIN MCContent, levels |-> Levels, ids |-> 2,
           capacity |-> 1, deletes |-> FALSE]
Deletions == [subjects |-> {topic, other}, texts |-> {1, 2}, levels |-> {}, ids |-> 4,
              capacity |-> 2, deletes |-> TRUE]

MCDeployments == (MCSettings \ {Still}) \X {None} \cup {Still} \X {Checks, Deletions}
=============================================================================
