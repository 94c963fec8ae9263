----------------------------- MODULE MC_Sandbox -----------------------------
(***************************************************************************)
(* Two levers with the coefficients of CONTRIBUTIONS, and the shipped data *)
(* files cut to them.  The files are edited well once and badly in three   *)
(* ways.                                                                   *)
(***************************************************************************)
EXTENDS Sandbox

MCRevenueLeverKeys == <<"corporate">>
MCInvestmentLeverKeys == <<"housing">>
MCScoreCategories ==
    <<"fiscal_sustainability", "economic_growth", "poverty_reduction", "housing_affordability",
      "nhs_demand_impact", "income_equality", "implementation_complexity">>

Coefficients(corporate, housing) ==
    [k \in Levers |-> IF k = "corporate" THEN corporate ELSE housing]

MCContributions ==
    [economic_growth |-> Coefficients(-20, 20),
     poverty_reduction |-> Coefficients(0, 25),
     housing_affordability |-> Coefficients(0, 70),
     nhs_demand_impact |-> Coefficients(0, 10),
     income_equality |-> Coefficients(15, 10)]

MCLeverRange == [k \in Levers |-> IF k = "corporate" THEN {-20, 0, 20} ELSE {0, 50, 100}]

MCSliderRange ==
    [years |-> {5, 6}, lag_years |-> {0, 3, 6}, growth_baseline |-> {0, 2},
     revenue_feedback_rate |-> {0, 1, 2}, cost_reduction_rate |-> {0, 1},
     implementation_quality |-> {2}, optimism_penalty |-> {1}]

\* 0.7 / 100 is below 0.007; 0 and 100 percent are exact.
MCFloatError == [v \in Fraction |-> IF v = 1 THEN -1 ELSE 0]

-----------------------------------------------------------------------------
Metric(metric, value) == [metric |-> metric, value |-> value]

ShippedBaseline ==
    [rows |-> <<Metric("Total receipts", 1232), Metric("Total spending", 1368),
                Metric("Implied GDP", 3054)>>]

\* A note in a row of its own, and a figure given twice.
EditedBaseline ==
    [rows |-> <<Metric("Total receipts", 1232), Metric("", Junk), Metric("Implied GDP", 3054),
                Metric("Total spending", 1368), Metric("Total receipts", 1050)>>]

\* Spending and receipts entered as a balance.
WrongBaseline ==
    [rows |-> <<Metric("Total receipts", 0), Metric("Total spending", -136),
                Metric("Implied GDP", 3054)>>]

\* Growth and feedback in grains.
Preset(id, corporate, housing, lag, growth, feedback) ==
    [id |-> id,
     revenue_levers |-> [corporate |-> corporate],
     investment_levers |-> [housing |-> housing],
     assumptions |->
        [years |-> 6, lag_years |-> lag, growth_baseline |-> growth,
         revenue_feedback_rate |-> feedback, cost_reduction_rate |-> ToFloat(0),
         implementation_quality |-> ToFloat(2), optimism_penalty |-> ToFloat(1)]]

YamlList(entries) == [schema_version |-> 1, entries |-> entries]

ShippedScenarios ==
    YamlList(<<Preset("baseline", 0, 0, 3, 0, 0),
               Preset("investment", 20, 50, 3, ToFloat(2), ToFloat(2))>>)

\* A lever off its slider's value by the tolerance, growth off the steps of
\* its slider and off the parts, and a rate that is not the slider's float.
EditedScenarios ==
    YamlList(<<Preset("investment", 19, 100, 3, Grain + 1, 2 * Grain),
               Preset("baseline", 0, 0, 3, 0, 0)>>)

\* A block copied for a new preset that has kept its id.
DoubleScenarios == YamlList(<<Preset("baseline", 0, 0, 3, 0, 0), Preset("baseline", 0, 50, 3, 0, 0)>>)

Balanced == [c \in Categories |-> 1]
Housing ==
    [c \in Categories |->
        CASE c = "fiscal_sustainability" -> 3
          [] c = "housing_affordability" -> 5
          [] OTHER -> 0]

ProfilesOf(balanced, housing) ==
    YamlList(<<[id |-> "balanced", weights |-> balanced], [id |-> "housing", weights |-> housing]>>)

ShippedProfiles == ProfilesOf(Balanced, Housing)

\* A profile that weighs nothing.
IdleProfiles == ProfilesOf([c \in Categories |-> 0], Housing)

Version(baseline, scenarios, profiles) ==
    [baseline |-> baseline, scenarios |-> scenarios, profiles |-> profiles]

MCVersions ==
    {Version(ShippedBaseline, ShippedScenarios, ShippedProfiles),
     Version(EditedBaseline, EditedScenarios, ShippedProfiles),
     Version(WrongBaseline, ShippedScenarios, ShippedProfiles),
     Version(ShippedBaseline, DoubleScenarios, ShippedProfiles),
     Version(ShippedBaseline, EditedScenarios, IdleProfiles)}

MCSavable ==
    {Inputs(Scenario(Preset("", 20, 100, 0, 0, 0)).levers,
            [years |-> 5, lag_years |-> 3, growth_baseline |-> 2,
             revenue_feedback_rate |-> 1, cost_reduction_rate |-> 1,
             implementation_quality |-> 2, optimism_penalty |-> 1])}
=============================================================================
