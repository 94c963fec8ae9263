------------------------------- MODULE Scoring -------------------------------
(***************************************************************************)
(* The scores of model/scoring.py: pure functions from the levers and the  *)
(* projection to seven category scores, and from those and a weighting     *)
(* profile to one overall score.  A score is in hundredths of a point.     *)
(***************************************************************************)
EXTENDS FiscalModel

CONSTANTS
    ScoreCategories,  \* SCORE_CATEGORIES, in their order
    Contributions     \* category -> lever -> hundredths of a point per billion

Members(keys) == {keys[i] : i \in 1 .. Len(keys)}

LeverKeys == RevenueLeverKeys \o InvestmentLeverKeys

Levers == Members(RevenueLeverKeys) \cup Members(InvestmentLeverKeys)

Categories == Members(ScoreCategories)

Outcomes == DOMAIN Contributions

ASSUME ScoringAssumption ==
    /\ Len(LeverKeys) \in Nat /\ Members(LeverKeys) = Levers
    /\ Members(RevenueLeverKeys) \cap Members(InvestmentLeverKeys) = {}
    /\ \A c \in Outcomes : Contributions[c] \in [Levers -> Int]
    /\ Len(ScoreCategories) \in Nat
    /\ Categories = Outcomes \cup {"fiscal_sustainability", "implementation_complexity"}
    /\ Outcomes \cap {"fiscal_sustainability", "implementation_complexity"} = {}

\* A weight may be nought, not all of them.
Weights == {w \in [Categories -> Nat] : \E c \in Categories : w[c] > 0}

Magnitude(v) == IF v < 0 THEN -v ELSE v

Clamp(v) == IF v < 0 THEN 0 ELSE IF v > 10000 THEN 10000 ELSE v

OutcomeScore(category, levers) ==
    Clamp(5000 + Total([k \in Levers |-> Contributions[category][k] * levers[k]], LeverKeys))

\* Wrong: the two ends of the band are swapped.
FiscalSustainabilityInverted(a, rows) ==
    Clamp(((rows[a.years].deficit_pct + 30) * 10000) \div 120)

\* 100 at a surplus of 3 percent of GDP in the final year, 0 at a deficit of 9.
FiscalSustainabilityScore(a, rows) ==
    Clamp(((90 - rows[a.years].deficit_pct) * 10000) \div 120)

ActiveLevers(levers) ==
    Total([k \in Levers |-> IF levers[k] = 0 THEN 0 ELSE 1], LeverKeys)

Gross(levers) == Total([k \in Levers |-> Magnitude(levers[k])], LeverKeys)

\* Wrong: a cut pays for a rise.
ComplexityOfNet(levers) ==
    Clamp(10000 - 25 * Magnitude(Total(levers, LeverKeys)) - 200 * ActiveLevers(levers))

\* Wrong: every lever counts as moved.
ComplexityOfAll(levers) == Clamp(10000 - 25 * Gross(levers) - 200 * Len(LeverKeys))

\* 0.25 points off for each billion moved, and 2 for each lever moved.
ComplexityScore(levers) ==
    Clamp(10000 - 25 * Gross(levers) - 200 * ActiveLevers(levers))

ScoreCategoriesOf(a, rows, levers) ==
    [c \in Categories |->
        CASE c = "fiscal_sustainability" -> FiscalSustainabilityScore(a, rows)
          [] c = "implementation_complexity" -> ComplexityScore(levers)
          [] OTHER -> OutcomeScore(c, levers)]

Weighed(scores, weights) ==
    Total([c \in Categories |-> scores[c] * weights[c]], ScoreCategories)

\* Wrong: the weights are taken to be normalised to one each.
OverallOfEqual(scores, weights) ==
    Clamp(Weighed(scores, weights) \div Len(ScoreCategories))

\* build_scorecard: the weighted average.
Overall(scores, weights) ==
    Clamp(Weighed(scores, weights) \div Total(weights, ScoreCategories))
=============================================================================
