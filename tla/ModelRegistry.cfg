SPECIFICATION Spec
CONSTANTS
    openai = openai
    azure = azure
    gpt = gpt
    Providers = {openai, azure}
    Models = {gpt}
    Order <- MCOrder
    MaxList = 2
    Covers <- MCCovers
    Absent = Absent
    None = None
INVARIANTS
    TypeOK
    BareNamesFirstProvider
    MetadataAccounted
    ListingCurrent
PROPERTY ServedStays
