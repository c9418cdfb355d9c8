SPECIFICATION Spec
CONSTANTS
    None = None
    MaxAge = 0
    Campuses = {"Bogota"}
    Archives <- SmallArchives
    Parsed <- Parses
    Fits <- ValidRule
    Answerable <- CountsExist
    DependsOn <- DirectDependencies
    Cyclic <- HasCycles
INVARIANTS RowsReadBack DiffsAreExact OffersTellTheirSource
PROPERTIES PublishedCatalogueStands OffersReachStudents
CHECK_DEADLOCK FALSE
