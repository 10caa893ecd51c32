-------------------------- MODULE SchemaStoreProofs --------------------------
(***************************************************************************)
(* Proofs about SchemaStore: what holds of the types whatever their names, *)
(* their dependencies and the files of the application are.                *)
(***************************************************************************)
EXTENDS SchemaStore, TLAPS

\* A type on its way from the pipe can be built.
PendingIsRegistered == \A t \in pending : Builds(registered, t)

SchemaHasItsName == \A n \in TypeNames : HasSchema(n) => NameOf[schemas[n]] = n

\* A type is not reported before its schema is in the map.
ReportsInv ==
    \A n \in TypeNames :
        /\ reports[n] <= 1
        /\ ~HasSchema(n) => reports[n] = 0
        /\ origin[n] = "provided" => reports[n] = 0

\* A file has all that its type depends on, unless the type was reported
\* without one of its dependencies.
FilesComplete ==
    \A f \in Files :
        files[f] # NoEntry /\ NameOf[files[f].main] \notin maimed =>
            files[f].deps = DependsOn[files[f].main]

IInv ==
    /\ TypeOK
    /\ PendingIsRegistered
    /\ SchemaHasItsName
    /\ SchemaIsRegistered
    /\ SchemaAgreesWithApplication
    /\ ReportsInv
    /\ FilesComplete
    /\ IdentifiedTypeIsUsable

USE SchemaAssumption

-----------------------------------------------------------------------------
\* The invariant holds before anything is discovered.
LEMMA InitInv == Init => IInv
BY DEF Init, IInv, TypeOK, PendingIsRegistered, SchemaHasItsName, SchemaIsRegistered,
       SchemaAgreesWithApplication, ReportsInv, FilesComplete, IdentifiedTypeIsUsable,
       HasSchema

\* What add_schema_nts_ changes is about the name of the type it is given.
LEMMA AddSchemaFrame ==
    ASSUME IInv, NEW t \in TypeIds, AddSchema(t)
    PROVE  /\ \A n \in TypeNames : n # NameOf[t] =>
                 /\ schemas'[n] = schemas[n]
                 /\ told'[n] = told[n]
                 /\ origin'[n] = origin[n]
                 /\ reports'[n] = reports[n]
           /\ HasSchema(NameOf[t])'
           /\ HasSchema(NameOf[t]) => UNCHANGED <<schemas, told, origin, reports, maimed, files>>
           /\ maimed \subseteq maimed'
<1> DEFINE n == NameOf[t]
<1>1. n \in TypeNames
  OBVIOUS
<1>2. t # NoEntry
  OBVIOUS
<1>3. CASE HasSchema(n)
  BY <1>3 DEF AddSchema, HasSchema
<1>4. CASE ~HasSchema(n)
  <2>1. schemas' = [schemas EXCEPT ![n] = t] /\ WriteSchema(t)
    BY <1>4 DEF AddSchema
  <2>2. HasSchema(n)'
    BY <1>1, <1>2, <2>1 DEF IInv, TypeOK, HasSchema
  <2>3. QED
    BY <1>4, <2>1, <2>2 DEF IInv, TypeOK, WriteSchema
<1>5. QED
  BY <1>3, <1>4

\* The types of the map are kept when a schema is added.
LEMMA AddSchemaType ==
    ASSUME IInv, NEW t \in TypeIds, AddSchema(t)
    PROVE  /\ schemas' \in [TypeNames -> TypeIds \cup {NoEntry}]
           /\ files' \in [Files -> Collection \cup {NoEntry}]
           /\ told' \in [TypeNames -> TypeIds \cup {NoEntry}]
           /\ origin' \in [TypeNames -> {"none", "reported", "unreported", "provided"}]
           /\ reports' \in [TypeNames -> Nat]
           /\ maimed' \subseteq TypeNames
<1> DEFINE n == NameOf[t]
<1>1. CASE HasSchema(n)
  BY <1>1 DEF AddSchema, IInv, TypeOK
<1>2. CASE ~HasSchema(n)
  <2>1. schemas' = [schemas EXCEPT ![n] = t] /\ WriteSchema(t)
    BY <1>2 DEF AddSchema
  <2>2. schemas' \in [TypeNames -> TypeIds \cup {NoEntry}]
    BY <2>1 DEF IInv, TypeOK
  <2>3. ASSUME NEW c \in CollectionsOf(t), SavesType(n, c)
        PROVE  files' \in [Files -> Collection \cup {NoEntry}]
    <3>1. c \in Collection
      BY <2>3 DEF CollectionsOf, Collection, Dependencies
    <3>2. QED
      BY <2>3, <3>1 DEF SavesType, IInv, TypeOK
  <2>4. QED
    BY <2>1, <2>2, <2>3 DEF WriteSchema, IInv, TypeOK
<1>3. QED
  BY <1>1, <1>2

\* A file that is saved has all the dependencies, or the type is maimed.
LEMMA AddSchemaFiles ==
    ASSUME IInv, NEW t \in TypeIds, AddSchema(t)
    PROVE  FilesComplete'
<1> DEFINE n == NameOf[t]
<1>1. CASE HasSchema(n)
  BY <1>1 DEF AddSchema, IInv, FilesComplete
<1>2. CASE ~HasSchema(n)
  <2>1. WriteSchema(t)
    BY <1>2 DEF AddSchema
  <2>2. CASE UNCHANGED <<files, maimed>>
    BY <2>2 DEF IInv, FilesComplete
  <2>3. ASSUME NEW c \in CollectionsOf(t), SavesType(n, c),
               maimed' = IF c.deps = Dependencies(t) THEN maimed ELSE maimed \cup {n}
        PROVE  FilesComplete'
    <3>1. c.main = t /\ (n \notin maimed' => c.deps = DependsOn[t])
      BY <2>3 DEF CollectionsOf, Dependencies
    <3>2. maimed \subseteq maimed'
      BY <2>3
    <3>3. SUFFICES ASSUME NEW f \in Files, files'[f] # NoEntry,
                          NameOf[files'[f].main] \notin maimed'
                   PROVE  files'[f].deps = DependsOn[files'[f].main]
      BY DEF FilesComplete
    <3>4. files'[f] = files[f] \/ files'[f] = c
      BY <2>3 DEF SavesType, IInv, TypeOK
    <3>5. QED
      BY <3>1, <3>2, <3>3, <3>4 DEF IInv, FilesComplete
  <2>4. QED
    BY <2>1, <2>2, <2>3 DEF WriteSchema
<1>3. QED
  BY <1>1, <1>2

\* What is said of the entry of the name holds of the entry that is added.
LEMMA AddSchemaEntry ==
    ASSUME IInv, NEW t \in TypeIds, AddSchema(t), Builds(registered, t),
           registered' = registered
    PROVE  /\ SchemaHasItsName'
           /\ SchemaIsRegistered'
           /\ SchemaAgreesWithApplication'
           /\ ReportsInv'
<1> DEFINE n == NameOf[t]
<1>1. n \in TypeNames /\ t # NoEntry
  OBVIOUS
<1>2. CASE HasSchema(n)
  <2>1. UNCHANGED <<schemas, told, origin, reports>>
    BY <1>2 DEF AddSchema
  <2>2. QED
    BY <2>1 DEF IInv, SchemaHasItsName, SchemaIsRegistered, SchemaAgreesWithApplication,
                ReportsInv, HasSchema
<1>3. CASE ~HasSchema(n)
  <2>1. schemas' = [schemas EXCEPT ![n] = t] /\ WriteSchema(t)
    BY <1>3 DEF AddSchema
  <2>2. schemas'[n] = t
    BY <1>1, <2>1 DEF IInv, TypeOK
  <2>3. reports[n] = 0
    BY <1>1, <1>3 DEF IInv, ReportsInv
  <2>4. \/ told'[n] = t /\ reports'[n] = 1 /\ origin'[n] = "reported"
        \/ origin'[n] = "unreported" /\ reports'[n] = 0
    BY <1>1, <2>1, <2>3 DEF WriteSchema, IInv, TypeOK
  <2>5. ASSUME NEW m \in TypeNames
        PROVE  /\ HasSchema(m)' => NameOf[schemas'[m]] = m
               /\ HasSchema(m)' => Builds(registered', schemas'[m])
               /\ HasSchema(m)' /\ origin'[m] # "unreported" => told'[m] = schemas'[m]
               /\ reports'[m] <= 1
               /\ ~HasSchema(m)' => reports'[m] = 0
               /\ origin'[m] = "provided" => reports'[m] = 0
    <3>1. CASE m = n
      BY <1>1, <2>2, <2>4, <3>1 DEF HasSchema
    <3>2. CASE m # n
      <4>1. /\ schemas'[m] = schemas[m] /\ told'[m] = told[m]
            /\ origin'[m] = origin[m] /\ reports'[m] = reports[m]
        BY <3>2, AddSchemaFrame
      <4>2. QED
        BY <4>1 DEF IInv, SchemaHasItsName, SchemaIsRegistered,
                    SchemaAgreesWithApplication, ReportsInv, HasSchema
    <3>3. QED
      BY <3>1, <3>2
  <2>6. QED
    BY <2>5 DEF SchemaHasItsName, SchemaIsRegistered, SchemaAgreesWithApplication,
                ReportsInv
<1>4. QED
  BY <1>2, <1>3

-----------------------------------------------------------------------------
(* One lemma for each action.                                              *)

\* A discovery registers the type and all it depends on.
LEMMA DiscoverInv ==
    ASSUME IInv, NEW t \in TypeIds, Discover(t)
    PROVE  IInv'
<1>1. registered \subseteq registered'
  BY DEF Discover
<1>2. TypeOK'
  BY DEF Discover, IInv, TypeOK
<1>3. PendingIsRegistered'
  BY DEF Discover, IInv, PendingIsRegistered, Builds
<1>4. SchemaIsRegistered'
  BY <1>1 DEF Discover, IInv, SchemaIsRegistered, HasSchema, Builds
<1>5. SchemaHasItsName' /\ SchemaAgreesWithApplication' /\ ReportsInv' /\ FilesComplete'
  BY DEF Discover, IInv, SchemaHasItsName, SchemaAgreesWithApplication, ReportsInv,
         FilesComplete, HasSchema
<1>6. IdentifiedTypeIsUsable'
  BY DEF Discover, IInv, IdentifiedTypeIsUsable, HasSchema
<1>7. QED
  BY <1>2, <1>3, <1>4, <1>5, <1>6 DEF IInv

\* The names that have a schema keep one when a schema is added.
LEMMA AddSchemaKeeps ==
    ASSUME IInv, NEW t \in TypeIds, AddSchema(t), NEW n \in TypeNames, HasSchema(n)
    PROVE  HasSchema(n)'
BY AddSchemaFrame DEF HasSchema

\* A type that the pipe delivers.
LEMMA ReceiveTypeInv ==
    ASSUME IInv, NEW t \in TypeIds, ReceiveType(t)
    PROVE  IInv'
<1>1. AddSchema(t) /\ Builds(registered, t) /\ registered' = registered
  BY DEF ReceiveType, IInv, PendingIsRegistered
<1>2. TypeOK'
  BY <1>1, AddSchemaType DEF ReceiveType, IInv, TypeOK
<1>3. PendingIsRegistered'
  BY DEF ReceiveType, IInv, PendingIsRegistered, Builds
<1>4. FilesComplete'
  BY <1>1, AddSchemaFiles
<1>5. SchemaHasItsName' /\ SchemaIsRegistered' /\ SchemaAgreesWithApplication' /\ ReportsInv'
  BY <1>1, AddSchemaEntry
<1>6. IdentifiedTypeIsUsable'
  <2>1. maimed \subseteq maimed' /\ identified' = identified
    BY <1>1, AddSchemaFrame DEF ReceiveType
  <2>2. QED
    BY <1>1, <2>1, AddSchemaKeeps DEF IInv, TypeOK, IdentifiedTypeIsUsable
<1>7. QED
  BY <1>2, <1>3, <1>4, <1>5, <1>6 DEF IInv

\* A type found in the map.
LEMMA IdentifyFromSchemasInv ==
    ASSUME IInv, NEW n \in TypeNames, IdentifyFromSchemas(n)
    PROVE  IInv'
<1>1. TypeOK'
  BY DEF IdentifyFromSchemas, IInv, TypeOK
<1>2. PendingIsRegistered' /\ SchemaIsRegistered' /\ FilesComplete'
  BY DEF IdentifyFromSchemas, IInv, PendingIsRegistered, SchemaIsRegistered, FilesComplete,
         HasSchema, Builds
<1>3. SchemaHasItsName' /\ SchemaAgreesWithApplication' /\ ReportsInv'
  BY DEF IdentifyFromSchemas, IInv, SchemaHasItsName, SchemaAgreesWithApplication,
         ReportsInv, HasSchema
<1>4. IdentifiedTypeIsUsable'
  BY DEF IdentifyFromSchemas, IInv, IdentifiedTypeIsUsable, HasSchema
<1>5. QED
  BY <1>1, <1>2, <1>3, <1>4 DEF IInv

\* A type found in the registry.
LEMMA IdentifyFromRegistryInv ==
    ASSUME IInv, NEW n \in TypeNames, IdentifyFromRegistry(n)
    PROVE  IInv'
<1>1. PICK t \in registered : /\ NameOf[t] = n
                              /\ Builds(registered, t)
                              /\ AddSchema(t)
  BY DEF IdentifyFromRegistry
<1>2. t \in TypeIds
  BY <1>1 DEF IInv, TypeOK
<1>3. UNCHANGED <<registered, pending>> /\ identified' = identified \cup {n}
  BY DEF IdentifyFromRegistry
<1>4. TypeOK'
  BY <1>1, <1>2, <1>3, AddSchemaType DEF IInv, TypeOK
<1>5. PendingIsRegistered'
  BY <1>3 DEF IInv, PendingIsRegistered, Builds
<1>6. FilesComplete'
  BY <1>1, <1>2, AddSchemaFiles
<1>7. SchemaHasItsName' /\ SchemaIsRegistered' /\ SchemaAgreesWithApplication' /\ ReportsInv'
  BY <1>1, <1>2, <1>3, AddSchemaEntry
<1>8. IdentifiedTypeIsUsable'
  <2>1. maimed \subseteq maimed' /\ HasSchema(n)'
    BY <1>1, <1>2, AddSchemaFrame
  <2>2. QED
    BY <1>1, <1>2, <1>3, <2>1, AddSchemaKeeps DEF IInv, TypeOK, IdentifiedTypeIsUsable
<1>9. QED
  BY <1>4, <1>5, <1>6, <1>7, <1>8 DEF IInv

\* Registering more types takes nothing from what is built already.
LEMMA MoreRegisteredInv ==
    ASSUME IInv, registered \subseteq registered', registered' \subseteq TypeIds,
           UNCHANGED <<schemas, pending, files, told, origin, reports, maimed, identified>>
    PROVE  IInv'
<1>1. TypeOK'
  BY DEF IInv, TypeOK
<1>2. PendingIsRegistered' /\ SchemaIsRegistered'
  BY DEF IInv, PendingIsRegistered, SchemaIsRegistered, Builds, HasSchema
<1>3. SchemaHasItsName' /\ SchemaAgreesWithApplication' /\ ReportsInv' /\ FilesComplete'
  BY DEF IInv, SchemaHasItsName, SchemaAgreesWithApplication, ReportsInv, FilesComplete,
         HasSchema
<1>4. IdentifiedTypeIsUsable'
  BY DEF IInv, IdentifiedTypeIsUsable, HasSchema
<1>5. QED
  BY <1>1, <1>2, <1>3, <1>4 DEF IInv

\* A type that the application provides.
LEMMA IdentifyFromApplicationInv ==
    ASSUME IInv, NEW n \in TypeNames, IdentifyFromApplication(n)
    PROVE  IInv'
<1> DEFINE c == LoadedType(n)
<1>1. /\ c \in Collection /\ c.main \in TypeIds /\ c.deps \subseteq TypeIds
      /\ ~HasSchema(n)
      /\ UNCHANGED <<pending, files, reports, maimed>>
  BY DEF IdentifyFromApplication, LoadedType, IInv, TypeOK, Collection
<1>2. CASE RegistrationFails(c)
  BY <1>1, <1>2, MoreRegisteredInv DEF RegistrationFails, IInv, TypeOK
<1>3. CASE RegistersAnother(c, n)
  BY <1>1, <1>3, MoreRegisteredInv DEF RegistersAnother, IInv, TypeOK
<1>4. CASE Registers(c, n) /\ AddProvided(c.main) /\ identified' = identified \cup {n}
  <2> DEFINE t == c.main
  <2>1. /\ NameOf[t] = n /\ t \in TypeIds /\ t # NoEntry
        /\ registered' = registered \cup c.deps \cup {t}
        /\ registered \subseteq registered' /\ registered' \subseteq TypeIds
    BY <1>1, <1>4 DEF Registers, IInv, TypeOK
  <2>2. CASE Builds(registered', t)
    <3>1. /\ schemas' = [schemas EXCEPT ![n] = t]
          /\ told' = [told EXCEPT ![n] = t]
          /\ origin' = [origin EXCEPT ![n] = "provided"]
      BY <1>1, <1>4, <2>1, <2>2 DEF AddProvided
    <3>2. TypeOK'
      BY <1>1, <1>4, <2>1, <3>1 DEF IInv, TypeOK
    <3>3. PendingIsRegistered' /\ FilesComplete'
      BY <1>1, <2>1 DEF IInv, PendingIsRegistered, FilesComplete, Builds
    <3>4. ASSUME NEW m \in TypeNames
          PROVE  /\ HasSchema(m)' => NameOf[schemas'[m]] = m
                 /\ HasSchema(m)' => Builds(registered', schemas'[m])
                 /\ HasSchema(m)' => (origin'[m] # "unreported" => told'[m] = schemas'[m])
                 /\ reports'[m] <= 1
                 /\ ~HasSchema(m)' => reports'[m] = 0
                 /\ origin'[m] = "provided" => reports'[m] = 0
      <4>1. CASE m = n
        BY <1>1, <2>1, <2>2, <3>1, <4>1
           DEF HasSchema, IInv, TypeOK, ReportsInv
      <4>2. CASE m # n
        <5>1. /\ schemas'[m] = schemas[m] /\ told'[m] = told[m]
              /\ origin'[m] = origin[m] /\ reports'[m] = reports[m]
          BY <1>1, <3>1, <4>2 DEF IInv, TypeOK
        <5>2. QED
          BY <2>1, <5>1 DEF IInv, SchemaHasItsName, SchemaIsRegistered, Builds,
                            SchemaAgreesWithApplication, ReportsInv, HasSchema
      <4>3. QED
        BY <4>1, <4>2
    <3>5. SchemaHasItsName' /\ SchemaIsRegistered' /\ SchemaAgreesWithApplication' /\ ReportsInv'
      BY <3>4 DEF SchemaHasItsName, SchemaIsRegistered, SchemaAgreesWithApplication, ReportsInv
    <3>6. IdentifiedTypeIsUsable'
      BY <1>1, <1>4, <2>1, <3>1 DEF IInv, TypeOK, IdentifiedTypeIsUsable, HasSchema
    <3>7. QED
      BY <3>2, <3>3, <3>5, <3>6 DEF IInv
  <2>3. CASE ~Builds(registered', t)
    <3>1. UNCHANGED <<schemas, told, origin>>
      BY <1>4, <2>3 DEF AddProvided
    <3>2. n \in maimed
      BY <1>1, <2>1, <2>3 DEF IdentifyFromApplication, LoadedType, IInv, FilesComplete, Builds
    <3>3. TypeOK'
      BY <1>1, <1>4, <2>1, <3>1 DEF IInv, TypeOK
    <3>4. PendingIsRegistered' /\ SchemaIsRegistered' /\ FilesComplete'
      BY <1>1, <2>1, <3>1 DEF IInv, PendingIsRegistered, SchemaIsRegistered, FilesComplete,
                              Builds, HasSchema
    <3>5. SchemaHasItsName' /\ SchemaAgreesWithApplication' /\ ReportsInv'
      BY <1>1, <3>1 DEF IInv, SchemaHasItsName, SchemaAgreesWithApplication, ReportsInv,
                        HasSchema
    <3>6. IdentifiedTypeIsUsable'
      BY <1>1, <1>4, <3>1, <3>2 DEF IInv, IdentifiedTypeIsUsable, HasSchema
    <3>7. QED
      BY <3>3, <3>4, <3>5, <3>6 DEF IInv
  <2>4. QED
    BY <2>2, <2>3
<1>5. QED
  BY <1>2, <1>3, <1>4 DEF IdentifyFromApplication

\* Of what the invariant speaks of, a restart leaves the files.
LEMMA RestartInv ==
    ASSUME IInv, Restart
    PROVE  IInv'
<1>1. TypeOK'
  BY DEF Restart, IInv, TypeOK
<1>2. PendingIsRegistered' /\ SchemaHasItsName' /\ SchemaIsRegistered'
  BY DEF Restart, PendingIsRegistered, SchemaHasItsName, SchemaIsRegistered, HasSchema
<1>3. SchemaAgreesWithApplication' /\ ReportsInv' /\ IdentifiedTypeIsUsable'
  BY DEF Restart, SchemaAgreesWithApplication, ReportsInv, IdentifiedTypeIsUsable, HasSchema
<1>4. FilesComplete'
  BY DEF Restart, IInv, FilesComplete
<1>5. QED
  BY <1>1, <1>2, <1>3, <1>4 DEF IInv

-----------------------------------------------------------------------------
\* Every step keeps the invariant.
LEMMA NextInv == IInv /\ [Next]_vars => IInv'
<1>1. CASE Next
  BY <1>1, DiscoverInv, ReceiveTypeInv, IdentifyFromSchemasInv, IdentifyFromRegistryInv,
     IdentifyFromApplicationInv, RestartInv DEF Next
<1>2. CASE UNCHANGED vars
  BY <1>2, MoreRegisteredInv DEF vars, IInv, TypeOK
<1>3. QED
  BY <1>1, <1>2

\* The inductive invariant: the map, the reports and the files agree with
\* one another and with the registry.
THEOREM InvariantHolds == Spec => []IInv
<1>1. Init => IInv
  BY InitInv
<1>2. IInv /\ [Next]_vars => IInv'
  BY NextInv
<1>3. QED
  BY <1>1, <1>2, PTL DEF Spec

\* The map, the registry and the files keep their types.
THEOREM TypeCorrect == Spec => []TypeOK
<1>1. IInv => TypeOK
  BY DEF IInv
<1>2. QED
  BY <1>1, InvariantHolds, PTL

\* Samples are converted with the definition that the application has.
THEOREM SchemasAgree == Spec => []SchemaAgreesWithApplication
<1>1. IInv => SchemaAgreesWithApplication
  BY DEF IInv
<1>2. QED
  BY <1>1, InvariantHolds, PTL

\* A type is reported once in a session, or provided.
THEOREM NewTypesReportedOnce == Spec => []NewTypeIsReportedOnce
<1>1. IInv => NewTypeIsReportedOnce
  BY DEF IInv, ReportsInv, NewTypeIsReportedOnce
<1>2. QED
  BY <1>1, InvariantHolds, PTL

\* What a schema is built from is in the registry.
THEOREM SchemasRegistered == Spec => []SchemaIsRegistered
<1>1. IInv => SchemaIsRegistered
  BY DEF IInv
<1>2. QED
  BY <1>1, InvariantHolds, PTL

\* A type that was found can be published, whatever was saved and when.
THEOREM IdentifiedTypesUsable == Spec => []IdentifiedTypeIsUsable
<1>1. IInv => IdentifiedTypeIsUsable
  BY DEF IInv
<1>2. QED
  BY <1>1, InvariantHolds, PTL

=============================================================================
