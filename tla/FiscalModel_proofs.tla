-------------------------- MODULE FiscalModel_proofs --------------------------
(***************************************************************************)
(* What compute_fiscal promises for every baseline, revenue, investment,   *)
(* rate, horizon and lag that Baseline and FeedbackAssumptions accept.     *)
(***************************************************************************)
EXTENDS FiscalModel, Totals_proofs

LEMMA ProductGrows ==
    ASSUME NEW k \in Nat, NEW x \in Int, NEW y \in Int, x <= y
    PROVE  k * x <= k * y
OBVIOUS

LEMMA ProductNat ==
    ASSUME NEW x \in Nat, NEW y \in Nat
    PROVE  x * y \in Nat
OBVIOUS

\* The whole quotient, with its remainder left out.
LEMMA QuotientIs ==
    ASSUME NEW x \in Int, NEW d \in Nat \ {0}
    PROVE  /\ x \div d \in Int
           /\ d * (x \div d) <= x
           /\ x < d * (x \div d) + d
<1>1. x \div d \in Int
  OBVIOUS
<1>2. x = d * (x \div d) + (x % d)
  OBVIOUS
<1>3. x % d \in 0 .. d - 1
  OBVIOUS
<1> DEFINE q == d * (x \div d)
<1>4. q \in Int
  BY <1>1
<1> HIDE DEF q
<1>5. x = q + (x % d) 
  BY <1>2 DEF q
<1>6. q <= x /\ x < q + d
  BY <1>3, <1>4, <1>5
<1> QED BY <1>1, <1>6 DEF q

\* It is the greatest number that goes in, so comparisons come down to it.
LEMMA AtMostQuotient ==
    ASSUME NEW x \in Int, NEW d \in Nat \ {0}, NEW n \in Int
    PROVE  /\ n * d <= x => n <= x \div d
           /\ x <= n * d => x \div d <= n
<1> DEFINE q == x \div d
<1>1. q \in Int /\ d * q <= x /\ x < d * q + d
  BY QuotientIs
<1> HIDE DEF q
<1>2. ASSUME n * d <= x PROVE n <= q
  <2>1. CASE q + 1 <= n
    <3>1. d * (q + 1) <= d * n
      BY <2>1, <1>1, ProductGrows
    <3>2. d * (q + 1) = d * q + d /\ d * n = n * d
      BY <1>1
    <3>3. d * q \in Int /\ d * n \in Int
      BY <1>1
    <3> QED BY <1>1, <1>2, <3>1, <3>2, <3>3
  <2> QED BY <2>1, <1>1
<1>3. ASSUME x <= n * d PROVE q <= n
  <2>1. CASE n + 1 <= q
    <3>1. d * (n + 1) <= d * q
      BY <2>1, <1>1, ProductGrows
    <3>2. d * (n + 1) = n * d + d
      BY <1>1
    <3>3. d * q \in Int /\ n * d \in Int
      BY <1>1
    <3> QED BY <1>1, <1>3, <3>1, <3>2, <3>3
  <2> QED BY <2>1, <1>1
<1> QED BY <1>2, <1>3 DEF q

\* More, divided by the same, is no less.
LEMMA QuotientGrows ==
    ASSUME NEW x \in Int, NEW y \in Int, NEW d \in Nat \ {0}, x <= y
    PROVE  x \div d <= y \div d
<1> DEFINE q == x \div d
<1>1. q \in Int /\ d * q <= x
  BY QuotientIs
<1> HIDE DEF q
<1>2. q * d <= y
  <2>1. q * d = d * q /\ q * d \in Int
    BY <1>1
  <2> QED BY <1>1, <2>1
<1>3. q <= y \div d
  BY <1>1, <1>2, AtMostQuotient
<1> QED BY <1>3 DEF q

-----------------------------------------------------------------------------
\* The factor is a fraction of the ramp, which takes a year at least.
LEMMA RampBounds ==
    ASSUME NEW a \in FeedbackAssumptions, NEW year \in Nat
    PROVE  /\ RampLength(a) \in Nat \ {0}
           /\ LagFactor(a, year) \in 0 .. RampLength(a)
BY DEF FeedbackAssumptions, AssumptionsIn, RampLength, LagFactor

LEMMA RampRises ==
    ASSUME NEW a \in FeedbackAssumptions, NEW year \in Nat
    PROVE  LagFactor(a, year) <= LagFactor(a, year + 1)
BY DEF FeedbackAssumptions, AssumptionsIn, RampLength, LagFactor

\* The heart of SoonerIsNeverLess, without the division: the difference of
\* the two sides is (a.lag_years - b.lag_years) * (b.years - year), and what
\* the longer horizon of a adds.
LEMMA SoonerRamp ==
    ASSUME NEW a \in FeedbackAssumptions, NEW b \in FeedbackAssumptions,
           b.lag_years <= a.lag_years, b.years <= a.years,
           NEW year \in 0 .. b.years
    PROVE  LagFactor(a, year) * RampLength(b) <= LagFactor(b, year) * RampLength(a)
<1>1. CASE year <= a.lag_years
  <2>1. LagFactor(a, year) = 0
    BY <1>1 DEF LagFactor
  <2>2. /\ LagFactor(b, year) \in Nat
        /\ RampLength(a) \in Nat
        /\ RampLength(b) \in Nat
    BY RampBounds DEF FeedbackAssumptions, AssumptionsIn
  <2>3. LagFactor(b, year) * RampLength(a) \in Nat
    BY <2>2, ProductNat
  <2>4. 0 * RampLength(b) = 0
    BY <2>2
  <2> QED
    BY <2>1, <2>3, <2>4
<1>2. CASE ~(year <= a.lag_years)
  <2> DEFINE la == a.lag_years
             lb == b.lag_years
             ya == a.years
             yb == b.years
  <2>1. /\ la \in Nat /\ lb \in Nat /\ ya \in Nat /\ yb \in Nat /\ year \in Nat
        /\ lb <= la /\ la < year /\ year <= yb /\ yb <= ya
    BY <1>2 DEF FeedbackAssumptions, AssumptionsIn
  <2>2. /\ LagFactor(a, year) = year - la /\ RampLength(a) = ya - la
        /\ LagFactor(b, year) = year - lb /\ RampLength(b) = yb - lb
    BY <2>1 DEF LagFactor, RampLength
  <2> HIDE DEF la, lb, ya, yb
  <2>3. (la - lb) * (yb - year) \in Nat
    BY <2>1, ProductNat
  <2>4. (year - la) * (yb - lb) + (la - lb) * (yb - year) = (year - lb) * (yb - la)
    BY <2>1
  <2>5. (year - lb) * (yb - la) <= (year - lb) * (ya - la)
    BY <2>1, ProductGrows
  <2>6. /\ (year - la) * (yb - lb) \in Int
        /\ (year - lb) * (yb - la) \in Int
        /\ (year - lb) * (ya - la) \in Int
    BY <2>1
  <2>7. (year - la) * (yb - lb) <= (year - lb) * (ya - la)
    BY <2>3, <2>4, <2>5, <2>6
  <2> QED
    BY <2>2, <2>7
<1> QED
  BY <1>1, <1>2

\* What a year's investment returns when the ramp has ended.
FullFeedback(a, investment, rate) == investment * rate * QualityAdjustedReturn(a)

LEMMA FullFeedbackNat ==
    ASSUME NEW a \in FeedbackAssumptions, NEW investment \in Nat, NEW rate \in Fraction
    PROVE  FullFeedback(a, investment, rate) \in Nat
<1>1. Unit \in Nat
  BY FiscalAssumption
<1>2. a.implementation_quality \in Nat /\ Unit - a.optimism_penalty \in Nat
  BY <1>1 DEF FeedbackAssumptions, AssumptionsIn, Fraction
<1>3. QualityAdjustedReturn(a) \in Nat
  BY <1>2, ProductNat DEF QualityAdjustedReturn
<1>4. rate \in Nat
  BY <1>1 DEF Fraction
<1>5. investment * rate \in Nat
  BY <1>4, ProductNat
<1> QED
  BY <1>3, <1>5, ProductNat DEF FullFeedback

\* Investment never returns less in the next year, and nothing is returned in
\* the lag (the loop of compute_fiscal).
THEOREM FeedbackRises ==
    ASSUME NEW a \in FeedbackAssumptions, NEW investment \in Nat, NEW rate \in Fraction,
           NEW year \in Nat
    PROVE  /\ Feedback(a, investment, rate, year) <= Feedback(a, investment, rate, year + 1)
           /\ year <= a.lag_years => Feedback(a, investment, rate, year) = 0
<1>1. FullFeedback(a, investment, rate) \in Nat
  BY FullFeedbackNat
<1>2. /\ LagFactor(a, year) \in Int
      /\ LagFactor(a, year + 1) \in Int
  BY RampBounds
<1>3. LagFactor(a, year) <= LagFactor(a, year + 1)
  BY RampRises
<1>4. \A y \in Nat : Feedback(a, investment, rate, y) = FullFeedback(a, investment, rate) * LagFactor(a, y)
  BY DEF Feedback, FullFeedback
<1>5. Feedback(a, investment, rate, year) <= Feedback(a, investment, rate, year + 1)
  <2>1. FullFeedback(a, investment, rate) * LagFactor(a, year)
           <= FullFeedback(a, investment, rate) * LagFactor(a, year + 1)
    BY <1>1, <1>2, <1>3, ProductGrows
  <2> QED
    BY <2>1, <1>4
<1>6. ASSUME year <= a.lag_years PROVE Feedback(a, investment, rate, year) = 0
  <2>1. LagFactor(a, year) = 0
    BY <1>6 DEF LagFactor
  <2>2. FullFeedback(a, investment, rate) * 0 = 0
    BY <1>1
  <2> QED
    BY <2>1, <2>2, <1>4
<1> QED
  BY <1>5, <1>6

\* When the lag ends before the horizon, all of the return is there in the
\* final year; otherwise none of it ever is.
THEOREM FeedbackAtTheEnd ==
    ASSUME NEW a \in FeedbackAssumptions, NEW investment \in Nat, NEW rate \in Fraction
    PROVE  Feedback(a, investment, rate, a.years) =
              IF a.lag_years < a.years
              THEN FullFeedback(a, investment, rate) * RampLength(a)
              ELSE 0
<1>1. FullFeedback(a, investment, rate) \in Nat
  BY FullFeedbackNat
<1>2. Feedback(a, investment, rate, a.years)
         = FullFeedback(a, investment, rate) * LagFactor(a, a.years)
  BY DEF Feedback, FullFeedback
<1>3. LagFactor(a, a.years) = IF a.lag_years < a.years THEN RampLength(a) ELSE 0
  BY DEF FeedbackAssumptions, AssumptionsIn, LagFactor, RampLength
<1>4. FullFeedback(a, investment, rate) * 0 = 0
  BY <1>1
<1> QED
  BY <1>2, <1>3, <1>4

\* With the same rates, a shorter lag and a nearer horizon never take
\* feedback away from a year that both show, whatever the two ramps are.
THEOREM SoonerFeedback ==
    ASSUME NEW a \in FeedbackAssumptions, NEW b \in FeedbackAssumptions,
           b.lag_years <= a.lag_years, b.years <= a.years,
           QualityAdjustedReturn(a) = QualityAdjustedReturn(b),
           NEW investment \in Nat, NEW rate \in Fraction, NEW year \in 0 .. b.years
    PROVE  Feedback(a, investment, rate, year) * Parts(b)
              <= Feedback(b, investment, rate, year) * Parts(a)
<1> DEFINE full == FullFeedback(a, investment, rate)
           cube == Unit * Unit * Unit
<1>1. full \in Nat
  BY FullFeedbackNat
<1>2. cube \in Nat
  BY FiscalAssumption, ProductNat
<1>3. /\ LagFactor(a, year) \in Int /\ LagFactor(b, year) \in Int
      /\ RampLength(a) \in Int /\ RampLength(b) \in Int
  BY RampBounds DEF FeedbackAssumptions, AssumptionsIn
<1>4. /\ Feedback(a, investment, rate, year) = full * LagFactor(a, year)
      /\ Feedback(b, investment, rate, year) = full * LagFactor(b, year)
      /\ Parts(a) = cube * RampLength(a)
      /\ Parts(b) = cube * RampLength(b)
  BY DEF Feedback, FullFeedback, Parts
<1> HIDE DEF full, cube
<1>5. full * cube \in Nat
  BY <1>1, <1>2, ProductNat
<1>6. /\ LagFactor(a, year) * RampLength(b) \in Int
      /\ LagFactor(b, year) * RampLength(a) \in Int
  BY <1>3
<1>7. (full * cube) * (LagFactor(a, year) * RampLength(b))
         <= (full * cube) * (LagFactor(b, year) * RampLength(a))
  BY <1>5, <1>6, SoonerRamp, ProductGrows
<1>8. \A x, y \in Int : (full * x) * (cube * y) = (full * cube) * (x * y)
  BY <1>1, <1>2
<1>9. /\ Feedback(a, investment, rate, year) * Parts(b)
            = (full * cube) * (LagFactor(a, year) * RampLength(b))
      /\ Feedback(b, investment, rate, year) * Parts(a)
            = (full * cube) * (LagFactor(b, year) * RampLength(a))
  BY <1>3, <1>4, <1>8
<1> QED
  BY <1>7, <1>9

-----------------------------------------------------------------------------
\* Compound values stay positive.
LEMMA CompoundPositive ==
    ASSUME NEW start \in Nat \ {0}, NEW factor \in Nat \ {0}, NEW last \in Nat
    PROVE  \A year \in 0 .. last : Compound(start, factor, last)[year] \in Nat \ {0}
<1> DEFINE step == [i \in 1 .. last |-> [v \in Int |-> v * factor]]
           Body(t) == [n \in 0 .. last |-> IF n = 0 THEN start ELSE t[n - 1] * factor]
           p == Compound(start, factor, last)
<1>1. step \in [1 .. last -> [Int -> Int]]
  <2>1. \A v \in Int : v * factor \in Int
    OBVIOUS
  <2> QED BY <2>1
<1>2. PICK s : Iterated(s, start, step, last)
  <2>1. last \in 0 .. last /\ start \in Int
    OBVIOUS
  <2> HIDE DEF step
  <2>2. \A n \in 0 .. last : \E s : Iterated(s, start, step, n)
    BY <1>1, <2>1, IteratedExists
  <2> QED BY <2>1, <2>2, Zenon
<1>3. s = Body(s)
  <2>1. ASSUME NEW i \in 1 .. last PROVE s[i] = s[i - 1] * factor
    <3>1. s[i] = step[i][s[i - 1]] /\ s[i - 1] \in Int
      <4>1. i - 1 \in 0 .. last
        OBVIOUS
      <4> HIDE DEF step
      <4> QED BY <1>2, <4>1 DEF Iterated
    <3> QED BY <3>1
  <2> HIDE DEF step
  <2> QED BY <2>1, <1>2 DEF Iterated
<1>4. p = Body(p)
  <2>1. p = CHOOSE t : t = Body(t)
    BY DEF Compound
  <2> HIDE DEF Body, p
  <2> QED BY <1>3, <2>1
<1>5. p[0] = start
  BY <1>4
<1>6. ASSUME NEW i \in 1 .. last PROVE p[i] = p[i - 1] * factor
  <2>1. i \in 0 .. last /\ i # 0
    OBVIOUS
  <2>2. Body(p)[i] = p[i - 1] * factor
    BY <2>1
  <2> HIDE DEF Body, p
  <2> QED BY <1>4, <2>2
<1> DEFINE S == {n \in Nat : n <= last => p[n] \in Nat \ {0}}
<1> HIDE DEF p
<1>7. 0 \in S
  BY <1>5
<1>8. ASSUME NEW n \in S PROVE n + 1 \in S
  <2>1. CASE n + 1 <= last
    <3>1. p[n] \in Nat \ {0} /\ n + 1 \in 1 .. last /\ (n + 1) - 1 = n
      BY <2>1
    <3>2. p[n + 1] = p[n] * factor
      BY <1>6, <3>1
    <3>3. \A x, y \in Nat \ {0} : x * y \in Nat \ {0}
      OBVIOUS
    <3> QED BY <3>1, <3>2, <3>3
  <2> QED BY <2>1
<1>9. \A n \in Nat : n \in S
  <2>1. S \subseteq Nat
    OBVIOUS
  <2> HIDE DEF S
  <2> QED BY <1>7, <1>8, <2>1, SetInduction
<1> QED BY <1>9 DEF p

\* GDP stays positive, whatever growth FeedbackAssumptions accepts: the
\* denominator of the deficit as a percentage is never nought.
LEMMA GdpPositive ==
    ASSUME NEW baseline \in Baselines, NEW a \in FeedbackAssumptions
    PROVE  \A year \in 0 .. a.years :
              GdpIn(baseline, a)[year] \in Nat \ {0} /\ GdpParts(a)[year] \in Nat \ {0}
<1>1. /\ a.years \in Nat /\ 1 \in Nat \ {0} /\ Unit \in Nat \ {0}
      /\ Unit + a.growth_baseline \in Nat \ {0} /\ baseline.gdp \in Nat \ {0}
  BY FiscalAssumption DEF FeedbackAssumptions, AssumptionsIn, Baselines
<1> QED BY <1>1, CompoundPositive DEF GdpIn, GdpParts

LEMMA PartsPositive ==
    ASSUME NEW a \in FeedbackAssumptions
    PROVE  Parts(a) \in Nat \ {0}
<1>1. Unit \in Nat \ {0}
  BY FiscalAssumption
<1>2. RampLength(a) \in Nat \ {0}
  BY RampBounds DEF FeedbackAssumptions, AssumptionsIn
<1>3. \A x, y \in Nat \ {0} : x * y \in Nat \ {0}
  OBVIOUS
<1>4. Unit * Unit \in Nat \ {0}
  BY <1>1, <1>3
<1>5. Unit * Unit * Unit \in Nat \ {0}
  BY <1>1, <1>3, <1>4
<1> QED BY <1>2, <1>3, <1>5 DEF Parts

LEMMA FeedbackInt ==
    ASSUME NEW a \in FeedbackAssumptions, NEW investment \in Int, NEW rate \in Fraction,
           NEW year \in Nat
    PROVE  Feedback(a, investment, rate, year) \in Int
<1>1. Unit \in Int /\ a.implementation_quality \in Int /\ a.optimism_penalty \in Int
  BY FiscalAssumption DEF FeedbackAssumptions, AssumptionsIn
<1>2. QualityAdjustedReturn(a) \in Int
  BY <1>1 DEF QualityAdjustedReturn
<1>3. LagFactor(a, year) \in Int /\ rate \in Int
  BY RampBounds, FiscalAssumption DEF FeedbackAssumptions, AssumptionsIn, Fraction
<1>4. investment * rate \in Int
  BY <1>3
<1> QED BY <1>2, <1>3, <1>4 DEF Feedback

LEMMA RatesAreFractions ==
    ASSUME NEW a \in FeedbackAssumptions
    PROVE  a.revenue_feedback_rate \in Fraction /\ a.cost_reduction_rate \in Fraction
BY FiscalAssumption DEF FeedbackAssumptions, AssumptionsIn, Fraction

\* What comes back in a year, both ways.
Returned(a, investment, year) ==
    Feedback(a, investment, a.revenue_feedback_rate, year)
    + Feedback(a, investment, a.cost_reduction_rate, year)

\* What is spent and not received in a year before revenue levers and returns.
NetSpending(baseline, investment) == baseline.spending + investment - baseline.receipts

\* The deficit of a year, in parts.
LEMMA DeficitIs ==
    ASSUME NEW baseline \in Baselines, NEW a \in FeedbackAssumptions, NEW r \in Int,
           NEW investment \in Int, NEW year \in Nat
    PROVE  /\ Returned(a, investment, year) \in Int
           /\ NetSpending(baseline, investment) \in Int
           /\ Row(baseline, a, r, investment, year).deficit
                 = (NetSpending(baseline, investment) - r) * Parts(a)
                   - Returned(a, investment, year)
<1> DEFINE g == Feedback(a, investment, a.revenue_feedback_rate, year)
           c == Feedback(a, investment, a.cost_reduction_rate, year)
           p == Parts(a)
<1>1. g \in Int /\ c \in Int /\ p \in Int
  BY FeedbackInt, RatesAreFractions, PartsPositive
<1>2. baseline.spending \in Int /\ baseline.receipts \in Int
  BY DEF Baselines
<1>3. Row(baseline, a, r, investment, year).deficit
         = ((baseline.spending + investment) * p - c) - ((baseline.receipts + r) * p + g)
  BY DEF Row
<1> HIDE DEF g, c, p
<1>4. ((baseline.spending + investment) * p - c) - ((baseline.receipts + r) * p + g)
         = (baseline.spending + investment - baseline.receipts - r) * p - (g + c)
  BY <1>1, <1>2
<1> QED BY <1>1, <1>2, <1>3, <1>4 DEF g, c, p, Returned, NetSpending

\* With the same spending, more revenue means a lower deficit in every year,
\* and never a greater one as a percentage of GDP, growing or shrinking.
THEOREM MoreRevenueLessDeficit ==
    ASSUME NEW baseline \in Baselines, NEW a \in FeedbackAssumptions,
           NEW r \in Int, NEW s \in Int, r < s, NEW investment \in Int,
           NEW year \in 0 .. a.years
    PROVE  /\ Row(baseline, a, s, investment, year).deficit
                 < Row(baseline, a, r, investment, year).deficit
           /\ Row(baseline, a, s, investment, year).deficit_pct \in Int
           /\ Row(baseline, a, r, investment, year).deficit_pct \in Int
           /\ Row(baseline, a, s, investment, year).deficit_pct
                 <= Row(baseline, a, r, investment, year).deficit_pct
<1> DEFINE old == Row(baseline, a, r, investment, year)
           new == Row(baseline, a, s, investment, year)
           p == Parts(a)
           gdp == GdpIn(baseline, a)[year]
           fine == GdpParts(a)[year]
           back == Returned(a, investment, year)
           net == NetSpending(baseline, investment)
<1>1. year \in Nat
  BY DEF FeedbackAssumptions, AssumptionsIn
<1>2. p \in Nat \ {0} /\ gdp \in Nat \ {0} /\ fine \in Nat \ {0}
  BY PartsPositive, GdpPositive
<1>3. net \in Int /\ back \in Int
  BY <1>1, DeficitIs
<1>4. old.deficit = (net - r) * p - back /\ new.deficit = (net - s) * p - back
  BY <1>1, DeficitIs
<1>5. /\ old.deficit_pct = (1000 * old.deficit * fine) \div (p * gdp)
      /\ new.deficit_pct = (1000 * new.deficit * fine) \div (p * gdp)
  BY DEF Row
<1> HIDE DEF old, new, p, gdp, fine, back, net
<1>6. (net - r) * p = (net - s) * p + (s - r) * p
  BY <1>2, <1>3
<1>7. (s - r) * p \in Nat \ {0}
  BY <1>2
<1>8. (net - s) * p \in Int
  BY <1>2, <1>3
<1>9. new.deficit < old.deficit /\ new.deficit \in Int /\ old.deficit \in Int
  BY <1>3, <1>4, <1>6, <1>7, <1>8
<1>10. p * gdp \in Nat \ {0}
  BY <1>2
<1>11. /\ 1000 * new.deficit * fine \in Int /\ 1000 * old.deficit * fine \in Int
       /\ 1000 * new.deficit * fine <= 1000 * old.deficit * fine
  <2>1. /\ 1000 * new.deficit \in Int /\ 1000 * old.deficit \in Int
        /\ 1000 * new.deficit <= 1000 * old.deficit
    BY <1>9
  <2> DEFINE x == 1000 * new.deficit
             y == 1000 * old.deficit
  <2> HIDE DEF x, y
  <2>2. fine * x <= fine * y /\ fine * x = x * fine /\ fine * y = y * fine
    BY <1>2, <2>1, ProductGrows DEF x, y
  <2> QED BY <1>2, <2>1, <2>2 DEF x, y
<1>12. /\ new.deficit_pct \in Int /\ old.deficit_pct \in Int
       /\ new.deficit_pct <= old.deficit_pct
  BY <1>5, <1>10, <1>11, QuotientIs, QuotientGrows
<1> QED BY <1>9, <1>12 DEF old, new

LEMMA PercentageInt ==
    ASSUME NEW baseline \in Baselines, NEW a \in FeedbackAssumptions,
           NEW r \in Int, NEW investment \in Int, NEW year \in 0 .. a.years
    PROVE  Row(baseline, a, r, investment, year).deficit_pct \in Int
<1>1. r + 1 \in Int /\ r < r + 1
  OBVIOUS
<1> QED BY <1>1, MoreRevenueLessDeficit

\* With no levers moved, the deficit stays what it was.
LEMMA IdleDeficit ==
    ASSUME NEW baseline \in Baselines, NEW a \in FeedbackAssumptions, NEW year \in Nat
    PROVE  Row(baseline, a, 0, 0, year).deficit
              = (baseline.spending - baseline.receipts) * Parts(a)
<1>1. 0 \in Int
  OBVIOUS
<1>2. /\ Returned(a, 0, year) \in Int
      /\ Row(baseline, a, 0, 0, year).deficit
            = (NetSpending(baseline, 0) - 0) * Parts(a) - Returned(a, 0, year)
  BY <1>1, DeficitIs, Zenon
<1>3. Returned(a, 0, year) = 0
  <2>1. ASSUME NEW rate \in Fraction PROVE Feedback(a, 0, rate, year) = 0
    <3>1. FullFeedback(a, 0, rate) = 0
      <4>1. rate \in Int /\ QualityAdjustedReturn(a) \in Int
        <5>1. Unit \in Int /\ a.implementation_quality \in Int /\ a.optimism_penalty \in Int
          BY FiscalAssumption DEF FeedbackAssumptions, AssumptionsIn
        <5> QED BY <5>1, FiscalAssumption DEF Fraction, QualityAdjustedReturn
      <4>2. 0 * rate = 0
        BY <4>1
      <4>3. 0 * QualityAdjustedReturn(a) = 0
        BY <4>1
      <4> QED BY <4>2, <4>3, Zenon DEF FullFeedback
    <3>2. Feedback(a, 0, rate, year) = FullFeedback(a, 0, rate) * LagFactor(a, year)
      BY Zenon DEF Feedback, FullFeedback
    <3>3. LagFactor(a, year) \in Int
      BY RampBounds DEF FeedbackAssumptions, AssumptionsIn
    <3>4. 0 * LagFactor(a, year) = 0
      BY <3>3
    <3> QED BY <3>1, <3>2, <3>4, Zenon
  <2>2. 0 + 0 = 0
    OBVIOUS
  <2> QED BY <2>1, <2>2, RatesAreFractions, Zenon DEF Returned
<1>4. /\ baseline.spending \in Int /\ baseline.receipts \in Int /\ Parts(a) \in Int
  BY PartsPositive DEF Baselines
<1>5. NetSpending(baseline, 0) - 0 = baseline.spending - baseline.receipts
  BY <1>4 DEF NetSpending
<1> DEFINE d == (baseline.spending - baseline.receipts) * Parts(a)
<1>6. d \in Int
  BY <1>4
<1>7. Row(baseline, a, 0, 0, year).deficit = d - 0
  BY <1>2, <1>3, <1>5, Zenon
<1> HIDE DEF d
<1>8. d - 0 = d
  BY <1>6
<1> QED BY <1>7, <1>8, Zenon DEF d
=============================================================================
