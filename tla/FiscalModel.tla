----------------------------- MODULE FiscalModel -----------------------------
(***************************************************************************)
(* The engine of model/fiscal_model.py: compute_fiscal, a pure function    *)
(* from the levers and the feedback assumptions to one row per year.       *)
(*                                                                         *)
(* The floats of the code are exact here: a rate and the growth are whole  *)
(* numbers of parts, Unit of them to 1, the money of a row is in parts,    *)
(* Parts(a) of them to a billion, and so is GDP, whose parts grow finer    *)
(* with the years.  Only a percentage of GDP is cut, to tenths.            *)
(***************************************************************************)
EXTENDS Totals

CONSTANTS
    Unit,                 \* parts of a rate
    RevenueLeverKeys,     \* REVENUE_LEVER_KEYS, and
    InvestmentLeverKeys   \* INVESTMENT_LEVER_KEYS, in their order

ASSUME FiscalAssumption ==
    /\ Unit \in Nat \ {0}
    /\ Len(RevenueLeverKeys) \in Nat /\ Len(InvestmentLeverKeys) \in Nat

\* What Baseline accepts, in billions a year.
Baselines == [receipts : Nat, spending : Nat, gdp : Nat \ {0}]

Fraction == 0 .. Unit

\* What FeedbackAssumptions accepts, a part in grains.
AssumptionsIn(grain) ==
    LET Rates == 0 .. Unit * grain
    IN  [years : Nat \ {0}, lag_years : Nat,
         growth_baseline : 1 - Unit * grain .. Unit * grain,
         revenue_feedback_rate : Rates, cost_reduction_rate : Rates,
         implementation_quality : Rates, optimism_penalty : Rates]

FeedbackAssumptions == AssumptionsIn(1)

\* Wrong: the ramp is as long as the projection.
RampFromStart(a) == a.years

\* The years the ramp takes: max(1, years - lag_years).
RampLength(a) == IF a.lag_years < a.years THEN a.years - a.lag_years ELSE 1

\* Wrong: the lag is left to the division.
LagFactorUnguarded(a, year) ==
    IF year - a.lag_years < RampLength(a) THEN year - a.lag_years ELSE RampLength(a)

\* lag_factor, in parts of RampLength: nothing in the lag, then up to all.
LagFactor(a, year) ==
    IF year <= a.lag_years THEN 0
    ELSE IF year - a.lag_years < RampLength(a) THEN year - a.lag_years
    ELSE RampLength(a)

Parts(a) == Unit * Unit * Unit * RampLength(a)

\* quality_adjusted_return, in parts of Unit * Unit.
QualityAdjustedReturn(a) == a.implementation_quality * (Unit - a.optimism_penalty)

Feedback(a, investment, rate, year) ==
    investment * rate * QualityAdjustedReturn(a) * LagFactor(a, year)

\* start * factor ** year, of the years up to the last.
Compound(start, factor, last) ==
    LET value[year \in 0 .. last] ==
            IF year = 0 THEN start ELSE value[year - 1] * factor
    IN  value

\* The GDP of a year, in parts of its GdpParts.
GdpIn(baseline, a) == Compound(baseline.gdp, Unit + a.growth_baseline, a.years)

GdpParts(a) == Compound(1, Unit, a.years)

Row(baseline, a, revenue, investment, year) ==
    LET gained == Feedback(a, investment, a.revenue_feedback_rate, year)
        saved == Feedback(a, investment, a.cost_reduction_rate, year)
        receipts == (baseline.receipts + revenue) * Parts(a) + gained
        spending == (baseline.spending + investment) * Parts(a) - saved
        gdp == GdpIn(baseline, a)[year]
    IN  [gdp |-> gdp, receipts |-> receipts, spending |-> spending,
         deficit |-> spending - receipts,
         deficit_pct |-> (1000 * (spending - receipts) * GdpParts(a)[year]) \div (Parts(a) * gdp),
         revenue_feedback |-> gained, cost_reduction |-> saved]

ComputeFiscal(baseline, a, levers) ==
    [year \in 0 .. a.years |->
        Row(baseline, a, Total(levers, RevenueLeverKeys),
            Total(levers, InvestmentLeverKeys), year)]
=============================================================================
