SPECIFICATION Spec
CONSTANTS
    FullHomes <- MCFullHomes
    Kitchens <- MCKitchens
    Wardrobes <- MCWardrobes
    Keys = {"k1"}
    Versions = {"v1", "v2"}
    Lower <- MCLower
    Spelling <- MCSpelling
    Numeral <- MCNumeral
    Figures <- MCFigures
    Shown <- MCShown
    Parts <- MCParts
    MaxQuotes = 2
INVARIANTS
    TypeOK
    
    OldPricesAreReplays
    StoredQuotesReprice
    PricesArePositive
