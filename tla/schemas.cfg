SPECIFICATION Spec
CONSTANTS
    pose = pose
    point = point
    float = float
    file_1 = file_1
    file_2 = file_2
    TypeNames = {pose, point, float}
    TypeIds <- MCTypeIds
    NameOf <- MCNameOf
    DependsOn <- MCDependsOn
    Files = {file_1, file_2}
    FileOf <- MCFileOf
    NoEntry = NoEntry
INVARIANTS
    TypeOK
    SchemaAgreesWithApplication
    NewTypeIsReportedOnce
    SchemaIsRegistered
    IdentifiedTypeIsUsable
