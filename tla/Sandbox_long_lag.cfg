\* The same controls; docs/engine.md on the final year.
SPECIFICATION SandboxSpec
CONSTANTS
    Unit = 2
    Grain = 4
    Junk = Junk
    Refused = Refused
    NoModel = NoModel
    RevenueLeverKeys <- MCRevenueLeverKeys
    InvestmentLeverKeys <- MCInvestmentLeverKeys
    ScoreCategories <- MCScoreCategories
    Contributions <- MCContributions
    Versions <- MCVersions
    PresetIds = {"baseline", "investment"}
    ProfileIds = {"balanced", "housing"}
    LeverRange <- MCLeverRange
    SliderRange <- MCSliderRange
    FloatError <- MCFloatError
    Tolerance = 1
    Savable <- MCSavable
INVARIANTS
    FullEffectAtTheEnd
