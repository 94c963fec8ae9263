\* Every event of one session, and edits of the data files in between.
SPECIFICATION SandboxSpec
CONSTANTS
    Unit = 2
    Grain = 4
    Junk = Junk
    Refused = Refused
    NoModel = NoModel
    RevenueLeverKeys <- MCRevenueLeverKeys
    InvestmentLeverKeys <- MCInvestmentLeverKeys
    ScoreCategories <- MCScoreCategories
    Contributions <- MCContributions
    Versions <- MCVersions
    PresetIds = {"baseline", "investment"}
    ProfileIds = {"balanced", "housing"}
    LeverRange <- MCLeverRange
    SliderRange <- MCSliderRange
    FloatError <- MCFloatError
    Tolerance = 1
    Savable <- MCSavable
INVARIANTS
    PossibleInputs
    MarkTellsPreset
    FullEffectWhenReached
    OverallBetween
    NothingMovedNeutral
PROPERTIES
    ResetReturnsToPreset
    LoadRestores
    SoonerIsNeverLess
    RevenueNeverHurts
    ScoresFollowLevers
