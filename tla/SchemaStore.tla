----------------------------- MODULE SchemaStore -----------------------------
(***************************************************************************)
(* The types that the Handler knows: schemas_, the registry of type        *)
(* objects of the process, and what the application keeps of the types     *)
(* that were reported to it, which outlives the enabler.                   *)
(*                                                                         *)
(* A type reaches the Handler from the pipe, when a remote participant has *)
(* announced it, or because a topic is announced or published and its type *)
(* is looked up: in schemas_, in the registry, and last by a query to the  *)
(* application.  add_schema and get_type_identifier hold Handler::mtx_     *)
(* through the callbacks they make, so each is one step.                   *)
(*                                                                         *)
(* A type has a name and an identifier, a hash of its definition: two      *)
(* participants may use one name for different types.  The application is  *)
(* that of the examples: it saves each type that is reported in a file and *)
(* answers a query from that file.                                         *)
(***************************************************************************)
EXTENDS Naturals

CONSTANTS TypeNames,
          TypeIds,    \* type identifiers
          NameOf,     \* the name in the type object of each
          DependsOn,  \* the types that each is built from, theirs included
          Files,
          FileOf,     \* the file of a type name, without :, / and \
          NoEntry     \* absence of a key in a map, or of a file

\* DynamicTypesCollection: the type itself is its last item.  The order of
\* the dependencies before it is that of an unordered set.
Collection == [main : TypeIds, deps : SUBSET TypeIds]

ASSUME SchemaAssumption ==
    /\ NameOf \in [TypeIds -> TypeNames]
    /\ DependsOn \in [TypeIds -> SUBSET TypeIds]
    /\ \A t \in TypeIds : t \notin DependsOn[t]
    /\ \A t \in TypeIds : \A d \in DependsOn[t] : DependsOn[d] \subseteq DependsOn[t]
    /\ FileOf \in [TypeNames -> Files]
    /\ NoEntry \notin TypeIds \cup Collection

VARIABLES
    schemas,     \* Handler::schemas_, by type name
    registered,  \* type objects in the registry of the process
    pending,     \* discovered types on their way to add_schema
    files,       \* the collection the application keeps in each file
    told,        \* the type of each name that the application has been told
                 \* of, or has told of, in this session
    origin,      \* where the schema of each type comes from
    reports,     \* number of times each type was reported in this session
    identified,  \* types that get_type_identifier found in this session
    maimed       \* types reported without one of their dependencies

vars == <<schemas, registered, pending, files, told, origin, reports, identified,
          maimed>>

Init ==
    /\ schemas = [n \in TypeNames |-> NoEntry]
    /\ registered = {}
    /\ pending = {}
    /\ files = [f \in Files |-> NoEntry]
    /\ told = [n \in TypeNames |-> NoEntry]
    /\ origin = [n \in TypeNames |-> "none"]
    /\ reports = [n \in TypeNames |-> 0]
    /\ identified = {}
    /\ maimed = {}

\* What add_data and get_serialized_data look for first.
HasSchema(n) == schemas[n] # NoEntry

\* A type object can be made a DynamicType once all it refers to is registered.
Builds(R, t) == {t} \cup DependsOn[t] \subseteq R

-----------------------------------------------------------------------------
(* Reporting a type: write_schema.                                         *)

\* Mutated form: the dependencies of dependencies are left out.
Dependencies_Direct(t) ==
    {d \in DependsOn[t] : \A e \in DependsOn[t] : d \notin DependsOn[e]}

\* dependent_typeids, asked for with the dependencies of dependencies.
Dependencies(t) == DependsOn[t]

\* Mutated form: the last item is the name.
CollectionsOf_NameLast(t) == [main : {NameOf[t]}, deps : SUBSET Dependencies(t)]

\* The items of serialize_dynamic_type: a dependency that fails to be
\* serialized is left out without an error.
CollectionsOf(t) == [main : {t}, deps : SUBSET Dependencies(t)]

\* save_type_to_file: a file that exists is left as it is.
SavesType(n, c) ==
    \/ /\ files[FileOf[n]] = NoEntry
       /\ files' = [files EXCEPT ![FileOf[n]] = c]
    \/ UNCHANGED files

\* The schema is in the map before it is written, and stays there, never to
\* be reported, if writing it fails.
WriteSchema(t) ==
    LET n == NameOf[t] IN
    \/ \E c \in CollectionsOf(t) :
          /\ SavesType(n, c)
          /\ told' = [told EXCEPT ![n] = t]
          /\ reports' = [reports EXCEPT ![n] = @ + 1]
          /\ origin' = [origin EXCEPT ![n] = "reported"]
          /\ maimed' = IF c.deps = Dependencies(t) THEN maimed ELSE maimed \cup {n}
    \/ /\ origin' = [origin EXCEPT ![n] = "unreported"]
       /\ UNCHANGED <<files, told, reports, maimed>>

\* Mutated form: a type of that name in the map is replaced.
AddSchema_Replaces(t) ==
    schemas' = [schemas EXCEPT ![NameOf[t]] = t] /\ WriteSchema(t)

\* Mutated form: what is in the map is thought to be the application's own.
AddSchema_NotWritten(t) ==
    IF HasSchema(NameOf[t])
    THEN UNCHANGED <<schemas, files, told, origin, reports, maimed>>
    ELSE /\ schemas' = [schemas EXCEPT ![NameOf[t]] = t]
         /\ origin' = [origin EXCEPT ![NameOf[t]] = "provided"]
         /\ UNCHANGED <<files, told, reports, maimed>>

\* add_schema_nts_ with write_schema: the first type of a name is the one
\* that is kept.
AddSchema(t) ==
    IF HasSchema(NameOf[t])
    THEN UNCHANGED <<schemas, files, told, origin, reports, maimed>>
    ELSE schemas' = [schemas EXCEPT ![NameOf[t]] = t] /\ WriteSchema(t)

-----------------------------------------------------------------------------
(* Discovery.                                                              *)

\* Fast DDS has resolved a type of a remote participant and all it refers to.
Discover(t) ==
    /\ registered' = registered \cup {t} \cup DependsOn[t]
    /\ pending' = pending \cup {t}
    /\ UNCHANGED <<schemas, files, told, origin, reports, identified, maimed>>

ReceiveType(t) ==
    /\ t \in pending
    /\ pending' = pending \ {t}
    /\ AddSchema(t)
    /\ UNCHANGED <<registered, identified>>

-----------------------------------------------------------------------------
(* get_type_identifier.                                                    *)

IdentifyFromSchemas(n) ==
    /\ HasSchema(n)
    /\ identified' = identified \cup {n}
    /\ UNCHANGED <<schemas, registered, pending, files, told, origin, reports, maimed>>

\* Whether the registry finds a type object by name is up to Fast DDS.  One
\* that cannot be built is queried instead.
IdentifyFromRegistry(n) ==
    \E t \in registered :
        /\ ~HasSchema(n)
        /\ NameOf[t] = n
        /\ Builds(registered, t)
        /\ AddSchema(t)
        /\ identified' = identified \cup {n}
        /\ UNCHANGED <<registered, pending>>

\* register_type_nts_ fails on an item: any of the dependencies before it
\* have been registered.
RegistrationFails(c) ==
    /\ \E done \in SUBSET c.deps : registered' = registered \cup done
    /\ UNCHANGED <<schemas, told, origin, identified>>

\* register_type_nts_ returns true.
Registers(c, n) ==
    /\ registered' = registered \cup c.deps \cup {c.main}
    /\ NameOf[c.main] = n

\* All the items are registered before the name of the last one is looked at.
RegistersAnother(c, n) ==
    /\ NameOf[c.main] # n
    /\ registered' = registered \cup c.deps \cup {c.main}
    /\ UNCHANGED <<schemas, told, origin, identified>>

\* Mutated form: a type that cannot be built is added all the same.
AddProvided_NotBuilt(t) ==
    IF ~HasSchema(NameOf[t])
    THEN /\ schemas' = [schemas EXCEPT ![NameOf[t]] = t]
         /\ told' = [told EXCEPT ![NameOf[t]] = t]
         /\ origin' = [origin EXCEPT ![NameOf[t]] = "provided"]
    ELSE UNCHANGED <<schemas, told, origin>>

\* add_schema_nts_ without write_schema.
AddProvided(t) ==
    IF Builds(registered', t) /\ ~HasSchema(NameOf[t])
    THEN /\ schemas' = [schemas EXCEPT ![NameOf[t]] = t]
         /\ told' = [told EXCEPT ![NameOf[t]] = t]
         /\ origin' = [origin EXCEPT ![NameOf[t]] = "provided"]
    ELSE UNCHANGED <<schemas, told, origin>>

\* load_type_from_file, upon a query: the file may be that of another name.
LoadedType(n) == files[FileOf[n]]

\* The application answers with what is in the file of that name, if there
\* is one.  Whether add_schema_nts_ could build the type is not looked at.
IdentifyFromApplication(n) ==
    LET c == LoadedType(n) IN
    /\ ~HasSchema(n)
    /\ c # NoEntry
    /\ \/ RegistrationFails(c)
       \/ RegistersAnother(c, n)
       \/ /\ Registers(c, n)
          /\ AddProvided(c.main)
          /\ identified' = identified \cup {n}
    /\ UNCHANGED <<pending, files, reports, maimed>>

-----------------------------------------------------------------------------
\* The enabler is destroyed and made again, in the same process, whose
\* registry is that of the DomainParticipantFactory, or in another one.
Restart ==
    /\ schemas' = [n \in TypeNames |-> NoEntry]
    /\ pending' = {}
    /\ told' = [n \in TypeNames |-> NoEntry]
    /\ origin' = [n \in TypeNames |-> "none"]
    /\ reports' = [n \in TypeNames |-> 0]
    /\ identified' = {}
    /\ registered' \in {registered, {}}
    /\ UNCHANGED <<files, maimed>>

Next ==
    \/ \E t \in TypeIds : Discover(t) \/ ReceiveType(t)
    \/ \E n \in TypeNames : \/ IdentifyFromSchemas(n)
                            \/ IdentifyFromRegistry(n)
                            \/ IdentifyFromApplication(n)
    \/ Restart

Spec == Init /\ [][Next]_vars

-----------------------------------------------------------------------------
(* Properties.                                                             *)

TypeOK ==
    /\ schemas \in [TypeNames -> TypeIds \cup {NoEntry}]
    /\ registered \subseteq TypeIds
    /\ pending \subseteq TypeIds
    /\ files \in [Files -> Collection \cup {NoEntry}]
    /\ told \in [TypeNames -> TypeIds \cup {NoEntry}]
    /\ origin \in [TypeNames -> {"none", "reported", "unreported", "provided"}]
    /\ reports \in [TypeNames -> Nat]
    /\ identified \subseteq TypeNames
    /\ maimed \subseteq TypeNames

\* The definition that the samples of a type are converted with is the one
\* that the application was told of in this session or has given itself,
\* whichever participants and earlier sessions have used its name, unless
\* write_schema failed to report it.
SchemaAgreesWithApplication ==
    \A n \in TypeNames :
        HasSchema(n) /\ origin[n] # "unreported" => told[n] = schemas[n]

\* Callbacks.hpp: the notification is about the reception of a new type.  A
\* type is reported once in a session, and not at all if the application
\* itself has provided it.
NewTypeIsReportedOnce ==
    \A n \in TypeNames :
        /\ reports[n] <= 1
        /\ origin[n] = "provided" => reports[n] = 0

\* Everything that a schema is built from is in the registry, where
\* write_schema and the endpoints of its topics look for it, whichever way
\* the type came and whatever an earlier registration has left half done.
SchemaIsRegistered ==
    \A n \in TypeNames : HasSchema(n) => Builds(registered, schemas[n])

\* A type that get_type_identifier has found has its schema, so that it can
\* be published, though nobody looks at what add_schema_nts_ returned: what
\* the application has saved of a type, even in an earlier process, is
\* enough to build it, unless a dependency failed to be serialized.
IdentifiedTypeIsUsable == \A n \in identified \ maimed : HasSchema(n)

=============================================================================
