SPECIFICATION Spec
CONSTANTS
    Offers <- AllOffers
    Settings <- AllSettings
    BatchSize = 2
INVARIANTS
    TypeOK
    NoSilentLoss
    GapsHaveReasons
    RequestBudget
PROPERTIES
    Reports
