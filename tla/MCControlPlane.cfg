\* Two requests at once in each area of the control plane, and every question to
\* its algorithms.  An area may run out of ids and then rests.
SPECIFICATION Spec
CONSTANTS
    None = None
    b0 = b0
    b1 = b1
    m1 = m1
    x = x
    c2 = c2
    i1 = i1
    i2 = i2
    t1 = t1
    t2 = t2
    t3 = t3
    k1 = k1
    k2 = k2
    u1 = u1
    u2 = u2
    Slots = {s1, s2}
    ProjectIds = {p1}
    EventIds = {e1}
    Authors = {u1, u2}
    Bodies = {b0, b1}
    NoBody = b0
    Customers = {d1}
    Patches <- MCPatches
    SectionPatches <- MCSectionPatches
    ParcelPatches <- MCParcelPatches
    ZoningPatches <- MCZoningPatches
    ClientIds = {i1, i2}
    Companies = {c1, c2}
    ContactEmails = {m1}
    Persons = {x}
    Remarks = {n1}
    ClientBodies <- MCClientBodies
    ClientPatches <- MCClientPatches
    TenantIds = {t1, t2, t3}
    SlugBases = {"a", "b", "platform"}
    PlatformBase = "platform"
    Users = {u1}
    Configs = {"default", "edited"}
    DefaultConfig = "default"
    MaxVersion = 2
    Deployment <- MCDeployment
    ScopeKeys = {k1, k2}
    Rails = {"r1", "r2"}
    SeedScopes <- MCSeedScopes
    RuleQuestions <- MCRuleQuestions
    BriefQuestions <- MCBriefQuestions
    Bases = {"local", "prod", "dev"}
    LocalBase = "local"
    DevBase = "dev"
    Origins = {"app", "dev app"}
    DevOrigins = {"dev app"}
    Contents <- MCContents
    ComputeQuestions <- MCComputeQuestions
    Stem = "stem"
    LegacyAliases <- MCLegacyAliases
    ZoningDsiFieldCodes = {"SETBACKS"}
    AlwaysKeepCodes = {"PROPERTY_ADDRESS"}
    ModelPresets = {"haiku", "opus"}
    Blank = Blank
    NotText = NotText
    PromptQuestions <- MCPromptQuestions
    Areas = {"project clients", "sections", "parcel", "zoning", "notes", "companies",
             "fresh", "slugs", "llm", "purge", "guard rails", "data routing",
             "file store", "rules", "briefs", "compute", "prompts"}
SYMMETRY Symmetry
CONSTRAINT Interesting
INVARIANTS
    RowsAgree
    CorpusReplaysSection
    StoredStatesLoad
    CompaniesKeepTheirFiles
    
    CopiesFollowBaseline
    PurgeIsComplete
    VersionMatchesScopes
    OriginsDecide
    RestartsChangeNothing
    MostSpecificScopeDecides
    BriefsAreGrounded
    ComputedScenarioAgrees
    PromptLabDecides
    ExecutorsAgree
CHECK_DEADLOCK FALSE
