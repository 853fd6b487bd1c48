SPECIFICATION Spec
CONSTANTS
    Openers = {o1, o2}
    Packages = {"old", "new", "bad"}
    Raws = {1, 2, 3, 4}
    Meanings = {1, 3, 4}
    MeaningOf <- MCMeaningOf
    FilesOf <- MCFilesOf
    NMigrations = 2
    None = None
    MaxOpens = 5
INVARIANTS
    TypeOK
    RestampsKeepMeaning
    OpenStoreRepairable
    RestampsAuditable
    SteadyOpenWritesNothing
PROPERTIES
    ImplementsSchemaStore
    RefusalIsReal
