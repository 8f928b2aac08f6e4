--------------------------- MODULE SchemaEvolution ---------------------------
(***************************************************************************)
(* schema-registry/evolve.py: the changes between two versions of an Avro  *)
(* record schema, and the compatibility levels decided from them.          *)
(*                                                                         *)
(* A schema is a function from field names to a type and a default.  A     *)
(* type is a scalar name, a union, or an object with annotations (such as  *)
(* a logical type); its branches have the label _type_label gives them and *)
(* a body, the rest of the definition.  A record that is a field's type by *)
(* itself is compared like the outermost one, and left out.                *)
(***************************************************************************)
EXTENDS Naturals

CONSTANTS Bodies,    \* definitions behind a name: of a record, of a logical type
          Defaults,  \* defaults, null among them
          NoDefault

ASSUME EvolutionAssumption == NoDefault \notin Defaults

Labels == {"null", "string", "int", "long", "float", "double", "Row"}
Branches == [label : Labels, body : Bodies]
Types == [form : {"scalar", "union", "annotated"}, branches : SUBSET Branches]
FieldDefs == [type : Types, default : Defaults \cup {NoDefault}]

\* Only unions have several branches.
IsSchema(schema) ==
    \A f \in DOMAIN schema :
        /\ schema[f] \in FieldDefs
        /\ schema[f].type.form # "union" => \E b \in Branches : schema[f].type.branches = {b}

NumericWidening == {<<"int", "long">>, <<"int", "float">>, <<"int", "double">>,
                    <<"long", "float">>, <<"long", "double">>, <<"float", "double">>}

LabelsOf(type) == {b.label : b \in type.branches}
Nullable(type) == "null" \in LabelsOf(type) /\ type.form # "annotated"

\* _compare_scalar_types.
Widened(new, old) ==
    /\ new.form = "scalar" /\ old.form = "scalar"
    /\ \A b \in new.branches, c \in old.branches : <<c.label, b.label>> \in NumericWidening

\* Mutant: the pair is looked up the wrong way round.
TypeChangesReversed(new, old) ==
    IF new.form # old.form THEN {"type_changed"}
    ELSE IF new.form = "union"
    THEN {k \in {"field_added", "field_removed"} :
             IF k = "field_added" THEN LabelsOf(new) \ LabelsOf(old) # {}
             ELSE LabelsOf(old) \ LabelsOf(new) # {}}
    ELSE IF LabelsOf(new) = LabelsOf(old) THEN {}
    ELSE IF Widened(old, new) THEN {"type_widened"} ELSE {"type_changed"}

\* _compare: unions and objects of a type are told apart by their labels only.
TypeChanges(new, old) ==
    IF new.form # old.form THEN {"type_changed"}
    ELSE IF new.form = "union"
    THEN {k \in {"field_added", "field_removed"} :
             IF k = "field_added" THEN LabelsOf(new) \ LabelsOf(old) # {}
             ELSE LabelsOf(old) \ LabelsOf(new) # {}}
    ELSE IF LabelsOf(new) = LabelsOf(old) THEN {}
    ELSE IF Widened(new, old) THEN {"type_widened"} ELSE {"type_changed"}

\* _compare_records, _compare_field: the kinds of change at one field.
FieldChanges(new, old, f) ==
    IF f \notin DOMAIN new THEN {"field_removed"}
    ELSE IF f \notin DOMAIN old
    THEN IF new[f].default # NoDefault \/ Nullable(new[f].type)
         THEN {"field_added"} ELSE {"field_added_no_default"}
    ELSE TypeChanges(new[f].type, old[f].type) \cup
         {k \in {"default_changed"} : /\ NoDefault \notin {new[f].default, old[f].default}
                                      /\ new[f].default # old[f].default}

ChangeKinds(new, old) == UNION {FieldChanges(new, old, f) : f \in DOMAIN new \cup DOMAIN old}

IsBackward(new, old) == ChangeKinds(new, old) \cap {"field_added_no_default", "type_changed"} = {}
IsForward(new, old) == ChangeKinds(new, old) \cap {"field_removed", "type_changed"} = {}

Levels == {"NONE", "BACKWARD", "FORWARD", "FULL",
           "BACKWARD_TRANSITIVE", "FORWARD_TRANSITIVE", "FULL_TRANSITIVE"}

\* The transitive levels are the others; a level that is not known is FULL.
WantsBackward(level) == level \notin {"NONE", "FORWARD", "FORWARD_TRANSITIVE"}
WantsForward(level) == level \notin {"NONE", "BACKWARD", "BACKWARD_TRANSITIVE"}

IsCompatible(new, old, level) ==
    /\ WantsBackward(level) => IsBackward(new, old)
    /\ WantsForward(level) => IsForward(new, old)

-----------------------------------------------------------------------------
(* What Avro's schema resolution does with the two versions (fastavro)     *)

ReadsBranch(reader, writer) == reader = writer \/ <<writer.label, reader.label>> \in NumericWidening

\* Whatever branch a value was written with, the reader has one for it.
ReadsType(reader, writer) ==
    \A w \in writer.branches : \E r \in reader.branches : ReadsBranch(r, w)

\* A field the writer does not know takes the reader's default.
Reads(reader, writer) ==
    \A f \in DOMAIN reader :
        IF f \in DOMAIN writer THEN ReadsType(reader[f].type, writer[f].type)
        ELSE reader[f].default # NoDefault

\* What the comparison does not look at: definitions of one name that differ.
Redefined(new, old) ==
    \E f \in DOMAIN new \cap DOMAIN old :
        \E b \in new[f].type.branches, c \in old[f].type.branches :
            b.label = c.label /\ b.body # c.body

\* Where an approval says less than "New schema can read data written with the old
\* schema": a nullable field needs a default all the same, and a union that loses a
\* branch counts as FORWARD-breaking only.
BackwardGap(new, old) ==
    \/ Redefined(new, old)
    \/ \E f \in DOMAIN new \ DOMAIN old : new[f].default = NoDefault /\ Nullable(new[f].type)
    \/ \E f \in DOMAIN new \cap DOMAIN old :
          /\ new[f].type.form = "union"
          /\ LabelsOf(old[f].type) \ LabelsOf(new[f].type) # {}

\* And less than "Old schema can read data written with the new schema": widened
\* numbers and new branches of a union break nothing.
ForwardGap(new, old) ==
    \/ Redefined(new, old)
    \/ \E f \in DOMAIN new \cap DOMAIN old :
          \/ Widened(new[f].type, old[f].type)
          \/ /\ new[f].type.form = "union"
             /\ LabelsOf(new[f].type) \ LabelsOf(old[f].type) # {}
=============================================================================
