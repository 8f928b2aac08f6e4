CONSTANTS
    p1 = p1
    p2 = p2
    s1 = s1
    s2 = s2
    topic = topic
    other = other
    plain = plain
    row1 = row1
    row2 = row2
    NoDefault = NoDefault
    Bodies = {plain, row1, row2}
    Defaults = {"zero", "null"}
    Content <- MCContent
    Deployments <- MCDeployments
    None = None
    Programs = {p1, p2}
    Subjects = {topic, other}
    Schemas = {s1, s2}
    MaxIds = 3
    MaxVersions = 3
    Attempts = 2
    Settings <- MCSettings
SPECIFICATION RegistrySpec
CHECK_DEADLOCK FALSE
INVARIANTS
    TypeOK
    CachesAreTrue
    HeaderNamesWriterSchema
    DecodedAsWritten
    RegisteredOnReturn
    IdsKeepTheirSchema
    ApprovedIsReadable
