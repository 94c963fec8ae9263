--------------------------- MODULE Sandbox_proofs ---------------------------
(***************************************************************************)
(* The promises of Sandbox for every set of levers, coefficients, presets, *)
(* profiles, slider ranges and versions of the data files that its         *)
(* assumptions allow.                                                      *)
(***************************************************************************)
EXTENDS Sandbox, FiscalModel_proofs

-----------------------------------------------------------------------------
(* Sums over levers and categories.                                        *)

LEMMA AddendsOver ==
    ASSUME NEW keys, Len(keys) \in Nat, NEW S, Members(keys) \subseteq S, NEW f \in [S -> Int]
    PROVE  Addends(f, keys, Int)
<1>1. \A i \in 1 .. Len(keys) : keys[i] \in S
  BY DEF Members
<1> QED BY <1>1 DEF Addends

LEMMA TotalOver ==
    ASSUME NEW keys, Len(keys) \in Nat, NEW S, Members(keys) \subseteq S, NEW f \in [S -> Int]
    PROVE  Total(f, keys) \in Int
BY AddendsOver, TotalInt

\* Sums compare as their values do, key by key.
LEMMA TotalsCompare ==
    ASSUME NEW keys, Len(keys) \in Nat, NEW S, Members(keys) \subseteq S,
           NEW f \in [S -> Int], NEW g \in [S -> Int],
           \A k \in Members(keys) : f[k] <= g[k]
    PROVE  /\ Total(f, keys) \in Int /\ Total(g, keys) \in Int
           /\ Total(f, keys) <= Total(g, keys)
           /\ (\E k \in Members(keys) : f[k] < g[k]) => Total(f, keys) < Total(g, keys)
<1>1. Addends(f, keys, Int) /\ Addends(g, keys, Int)
  BY AddendsOver
<1>2. \A i \in 1 .. Len(keys) : f[keys[i]] <= g[keys[i]]
  BY DEF Members
<1>3. (\E k \in Members(keys) : f[k] < g[k])
         => \E i \in 1 .. Len(keys) : f[keys[i]] < g[keys[i]]
  BY DEF Members
<1>4. Total(f, keys) \in Int /\ Total(g, keys) \in Int
  BY TotalOver
<1> QED BY <1>1, <1>2, <1>3, <1>4, TotalAtMost

\* A sum of zeros, over keys of a function.
LEMMA TotalNought ==
    ASSUME NEW keys, Len(keys) \in Nat, NEW f, \A k \in Members(keys) : f[k] = 0
    PROVE  Total(f, keys) = 0
<1>1. \A i \in 1 .. Len(keys) : f[keys[i]] = 0
  BY DEF Members
<1> QED BY <1>1, TotalOfZeros

LEMMA KeysOfLevers ==
    /\ Len(RevenueLeverKeys) \in Nat /\ Members(RevenueLeverKeys) \subseteq Levers
    /\ Len(InvestmentLeverKeys) \in Nat /\ Members(InvestmentLeverKeys) \subseteq Levers
    /\ Len(LeverKeys) \in Nat /\ Members(LeverKeys) = Levers
    /\ Len(ScoreCategories) \in Nat /\ Members(ScoreCategories) = Categories
BY FiscalAssumption, ScoringAssumption DEF Levers, Categories

-----------------------------------------------------------------------------
(* The scores.                                                             *)

Points == {n \in Nat : n <= 10000}

LEMMA ClampGrows ==
    ASSUME NEW x \in Int, NEW y \in Int, x <= y
    PROVE  Clamp(x) <= Clamp(y) /\ Clamp(x) \in Points
BY DEF Clamp, Points

LEMMA ClampRange ==
    ASSUME NEW x \in Int
    PROVE  Clamp(x) \in Points
BY DEF Clamp, Points

\* One lever moves: where its coefficient points, the outcome does not fall.
LEMMA OutcomeFollows ==
    ASSUME NEW c \in Outcomes, NEW l \in [Levers -> Int], NEW m \in [Levers -> Int],
           NEW k \in Levers, \A j \in Levers \ {k} : m[j] = l[j],
           Contributions[c][k] * (m[k] - l[k]) >= 0
    PROVE  OutcomeScore(c, l) <= OutcomeScore(c, m)
<1> DEFINE coeff == Contributions[c]
           f == [j \in Levers |-> coeff[j] * l[j]]
           g == [j \in Levers |-> coeff[j] * m[j]]
<1>1. coeff \in [Levers -> Int]
  BY ScoringAssumption
<1> HIDE DEF coeff
<1>2. f \in [Levers -> Int] /\ g \in [Levers -> Int]
  BY <1>1
<1>3. ASSUME NEW j \in Levers PROVE f[j] <= g[j]
  <2>1. CASE j = k
    <3>1. coeff[k] \in Int /\ l[k] \in Int /\ m[k] \in Int
      BY <1>1
    <3>2. coeff[k] * m[k] = coeff[k] * l[k] + coeff[k] * (m[k] - l[k])
      BY <3>1
    <3>3. coeff[k] * l[k] \in Int /\ coeff[k] * (m[k] - l[k]) \in Int
      BY <3>1
    <3>4. coeff[k] * l[k] <= coeff[k] * m[k]
      BY <3>2, <3>3 DEF coeff
    <3> QED BY <2>1, <3>4
  <2>2. CASE j # k
    <3>1. f[j] = g[j] /\ f[j] \in Int
      BY <1>2, <2>2
    <3> QED BY <3>1
  <2> QED BY <2>1, <2>2
<1> HIDE DEF f, g
<1>4. /\ Total(f, LeverKeys) \in Int /\ Total(g, LeverKeys) \in Int
      /\ Total(f, LeverKeys) <= Total(g, LeverKeys)
  BY <1>2, <1>3, KeysOfLevers, TotalsCompare
<1>5. Clamp(5000 + Total(f, LeverKeys)) <= Clamp(5000 + Total(g, LeverKeys))
  BY <1>4, ClampGrows
<1> QED BY <1>5 DEF OutcomeScore, f, g, coeff

Indicators(l) == [k \in Levers |-> IF l[k] = 0 THEN 0 ELSE 1]
Magnitudes(l) == [k \in Levers |-> Magnitude(l[k])]

LEMMA MagnitudeNat ==
    ASSUME NEW l \in [Levers -> Int]
    PROVE  Magnitudes(l) \in [Levers -> Int] /\ Indicators(l) \in [Levers -> Int]
BY DEF Magnitudes, Magnitude, Indicators

\* One lever moves away from zero: delivery gets no easier.
LEMMA ComplexityFollows ==
    ASSUME NEW l \in [Levers -> Int], NEW m \in [Levers -> Int],
           NEW k \in Levers, \A j \in Levers \ {k} : m[j] = l[j],
           Magnitude(l[k]) <= Magnitude(m[k])
    PROVE  ComplexityScore(m) <= ComplexityScore(l)
<1>1. ASSUME NEW j \in Levers
      PROVE  Magnitudes(l)[j] <= Magnitudes(m)[j] /\ Indicators(l)[j] <= Indicators(m)[j]
  <2>1. CASE j = k
    BY <2>1 DEF Magnitudes, Indicators, Magnitude
  <2>2. CASE j # k
    BY <2>2 DEF Magnitudes, Indicators, Magnitude
  <2> QED BY <2>1, <2>2
<1>2. /\ Magnitudes(l) \in [Levers -> Int] /\ Indicators(l) \in [Levers -> Int]
      /\ Magnitudes(m) \in [Levers -> Int] /\ Indicators(m) \in [Levers -> Int]
  BY MagnitudeNat
<1>3. /\ Total(Magnitudes(l), LeverKeys) \in Int /\ Total(Magnitudes(m), LeverKeys) \in Int
      /\ Total(Magnitudes(l), LeverKeys) <= Total(Magnitudes(m), LeverKeys)
  BY <1>1, <1>2, KeysOfLevers, TotalsCompare
<1>4. /\ Total(Indicators(l), LeverKeys) \in Int /\ Total(Indicators(m), LeverKeys) \in Int
      /\ Total(Indicators(l), LeverKeys) <= Total(Indicators(m), LeverKeys)
  BY <1>1, <1>2, KeysOfLevers, TotalsCompare
<1>5. /\ Gross(l) = Total(Magnitudes(l), LeverKeys) /\ Gross(m) = Total(Magnitudes(m), LeverKeys)
      /\ ActiveLevers(l) = Total(Indicators(l), LeverKeys)
      /\ ActiveLevers(m) = Total(Indicators(m), LeverKeys)
  BY DEF Gross, ActiveLevers, Magnitudes, Indicators
<1>6. 10000 - 25 * Gross(m) - 200 * ActiveLevers(m) <= 10000 - 25 * Gross(l) - 200 * ActiveLevers(l)
  BY <1>3, <1>4, <1>5
<1>7. /\ 10000 - 25 * Gross(m) - 200 * ActiveLevers(m) \in Int
      /\ 10000 - 25 * Gross(l) - 200 * ActiveLevers(l) \in Int
  BY <1>3, <1>4, <1>5
<1> DEFINE x == 10000 - 25 * Gross(m) - 200 * ActiveLevers(m)
           y == 10000 - 25 * Gross(l) - 200 * ActiveLevers(l)
<1> HIDE DEF x, y
<1>8. x \in Int /\ y \in Int /\ x <= y
  BY <1>6, <1>7 DEF x, y
<1>9. Clamp(x) <= Clamp(y)
  BY <1>8, ClampGrows
<1> QED BY <1>9 DEF ComplexityScore, x, y

\* A lower final deficit, as a percentage, is no less sustainable.
LEMMA SustainabilityFollows ==
    ASSUME NEW a, NEW rows, NEW others,
           rows[a.years].deficit_pct \in Int, others[a.years].deficit_pct \in Int,
           others[a.years].deficit_pct <= rows[a.years].deficit_pct
    PROVE  FiscalSustainabilityScore(a, rows) <= FiscalSustainabilityScore(a, others)
<1> DEFINE n == rows[a.years].deficit_pct
           m == others[a.years].deficit_pct
           x == (90 - n) * 10000
           y == (90 - m) * 10000
<1>1. x \in Int /\ y \in Int /\ x <= y
  <2>1. n \in Int /\ m \in Int /\ m <= n
    OBVIOUS
  <2> HIDE DEF n, m
  <2> QED BY <2>1
<1> HIDE DEF x, y
<1>2. 120 \in Nat \ {0}
  OBVIOUS
<1>3. x \div 120 \in Int /\ y \div 120 \in Int /\ x \div 120 <= y \div 120
  BY <1>1, <1>2, QuotientIs, QuotientGrows
<1>4. Clamp(x \div 120) <= Clamp(y \div 120)
  BY <1>3, ClampGrows
<1>5. FiscalSustainabilityScore(a, rows) = Clamp(x \div 120)
  BY DEF FiscalSustainabilityScore, x, n
<1>6. FiscalSustainabilityScore(a, others) = Clamp(y \div 120)
  BY DEF FiscalSustainabilityScore, y, m
<1> HIDE DEF n, m
<1> QED BY <1>4, <1>5, <1>6

Scores == [Categories -> Points]

LEMMA WeightsTotal ==
    ASSUME NEW w \in Weights
    PROVE  Total(w, ScoreCategories) \in Nat \ {0}
<1> DEFINE none == [c \in Categories |-> 0]
<1>1. w \in [Categories -> Int] /\ none \in [Categories -> Int]
  BY DEF Weights
<1>2. \A c \in Categories : none[c] <= w[c]
  BY DEF Weights
<1>3. \E c \in Categories : none[c] < w[c]
  BY DEF Weights
<1>4. Total(none, ScoreCategories) = 0
  BY KeysOfLevers, TotalNought
<1> HIDE DEF none
<1>5. /\ Total(w, ScoreCategories) \in Int
      /\ Total(none, ScoreCategories) < Total(w, ScoreCategories)
  BY <1>1, <1>2, <1>3, KeysOfLevers, TotalsCompare
<1> QED BY <1>4, <1>5

LEMMA WeighedBy ==
    ASSUME NEW s \in Scores, NEW w \in Weights, NEW n \in Int
    PROVE  /\ Weighed(s, w) \in Int
           /\ (\A c \in Categories : w[c] > 0 => n <= s[c])
                 => n * Total(w, ScoreCategories) <= Weighed(s, w)
           /\ (\A c \in Categories : w[c] > 0 => s[c] <= n)
                 => Weighed(s, w) <= n * Total(w, ScoreCategories)
<1> DEFINE f == [c \in Categories |-> s[c] * w[c]]
           g == [c \in Categories |-> n * w[c]]
<1>1. /\ w \in [Categories -> Int] /\ f \in [Categories -> Int] /\ g \in [Categories -> Int]
      /\ \A c \in Categories : w[c] \in Nat /\ s[c] \in Int
      /\ \A c \in Categories : f[c] = s[c] * w[c] /\ g[c] = n * w[c]
  <2>1. \A c \in Categories : w[c] \in Nat /\ s[c] \in Int
    BY DEF Weights, Scores, Points
  <2>2. \A x \in Int, y \in Int : x * y \in Int
    OBVIOUS
  <2>3. \A c \in Categories : s[c] * w[c] \in Int /\ n * w[c] \in Int
    BY <2>1, <2>2
  <2> QED BY <2>1, <2>3 DEF Weights
<1>2. Weighed(s, w) = Total(f, ScoreCategories)
  BY DEF Weighed
<1> HIDE DEF f, g
<1>3. Addends(w, ScoreCategories, Int)
  BY <1>1, KeysOfLevers, AddendsOver
<1>4. \A i \in 1 .. Len(ScoreCategories) : g[ScoreCategories[i]] = n * w[ScoreCategories[i]]
  BY <1>1, KeysOfLevers DEF Members
<1>5. Total(g, ScoreCategories) = n * Total(w, ScoreCategories)
  BY <1>3, <1>4, KeysOfLevers, TotalScaled
<1>6. ASSUME \A c \in Categories : w[c] > 0 => n <= s[c]
      PROVE  Total(g, ScoreCategories) <= Total(f, ScoreCategories)
  <2>1. ASSUME NEW c \in Categories PROVE g[c] <= f[c]
    <3>1. CASE w[c] > 0
      <4>1. w[c] * n <= w[c] * s[c]
        BY <1>1, <1>6, <3>1, ProductGrows
      <4> QED BY <1>1, <4>1
    <3>2. CASE w[c] = 0
      <4>1. n * 0 = 0 /\ s[c] * 0 = 0
        BY <1>1
      <4> QED BY <1>1, <3>2, <4>1
    <3> QED BY <1>1, <3>1, <3>2
  <2> QED BY <1>1, <2>1, KeysOfLevers, TotalsCompare
<1>7. ASSUME \A c \in Categories : w[c] > 0 => s[c] <= n
      PROVE  Total(f, ScoreCategories) <= Total(g, ScoreCategories)
  <2>1. ASSUME NEW c \in Categories PROVE f[c] <= g[c]
    <3>1. CASE w[c] > 0
      <4>1. w[c] * s[c] <= w[c] * n
        BY <1>1, <1>7, <3>1, ProductGrows
      <4> QED BY <1>1, <4>1
    <3>2. CASE w[c] = 0
      <4>1. n * 0 = 0 /\ s[c] * 0 = 0
        BY <1>1
      <4> QED BY <1>1, <3>2, <4>1
    <3> QED BY <1>1, <3>1, <3>2
  <2> QED BY <1>1, <2>1, KeysOfLevers, TotalsCompare
<1>8. Total(f, ScoreCategories) \in Int
  BY <1>1, KeysOfLevers, TotalOver
<1> QED BY <1>2, <1>5, <1>6, <1>7, <1>8

\* The weighted average lies between the scores that have a weight: were they
\* all above it, or all below, so would be their average.
THEOREM AverageBetween ==
    ASSUME NEW s \in Scores, NEW w \in Weights
    PROVE  /\ \E c \in Categories : w[c] > 0 /\ s[c] <= Overall(s, w)
           /\ \E c \in Categories : w[c] > 0 /\ Overall(s, w) <= s[c]
<1> DEFINE o == Overall(s, w)
           W == Total(w, ScoreCategories)
           x == Weighed(s, w)
           q == x \div W
<1>1. W \in Nat \ {0} /\ x \in Int
  BY WeightsTotal, WeighedBy
<1>2. q \in Int /\ o = Clamp(q) /\ o \in Points
  <2>1. q \in Int
    BY <1>1, QuotientIs
  <2>2. o = Clamp(q)
    BY Zenon DEF Overall
  <2> HIDE DEF q, o
  <2> QED BY <2>1, <2>2, ClampRange
<1>3. PICK some \in Categories : w[some] > 0
  BY DEF Weights
<1>4. \A c \in Categories : s[c] \in Points
  BY DEF Scores
<1> HIDE DEF o, W, x, q
<1>5. ASSUME \A c \in Categories : w[c] > 0 => ~(s[c] <= o) PROVE FALSE
  <2>1. \A c \in Categories : w[c] > 0 => o + 1 <= s[c]
    BY <1>2, <1>4, <1>5 DEF Points
  <2>2. o + 1 \in Int
    BY <1>2 DEF Points
  <2>3. (o + 1) * W <= x
    BY <2>1, <2>2, WeighedBy DEF W, x
  <2>4. o + 1 <= q
    BY <1>1, <2>2, <2>3, AtMostQuotient DEF q
  <2>5. o + 1 <= 10000
    BY <1>2, <1>3, <1>4, <2>1 DEF Points
  <2> QED BY <1>2, <2>4, <2>5 DEF Clamp, Points
<1>6. ASSUME \A c \in Categories : w[c] > 0 => ~(o <= s[c]) PROVE FALSE
  <2>1. \A c \in Categories : w[c] > 0 => s[c] <= o - 1
    BY <1>2, <1>4, <1>6 DEF Points
  <2>2. o - 1 \in Int
    BY <1>2 DEF Points
  <2>3. x <= (o - 1) * W
    BY <2>1, <2>2, WeighedBy DEF W, x
  <2>4. q <= o - 1
    BY <1>1, <2>2, <2>3, AtMostQuotient DEF q
  <2>5. 0 <= o - 1
    BY <1>2, <1>3, <1>4, <2>1 DEF Points
  <2> QED BY <1>2, <2>4, <2>5 DEF Clamp, Points
<1> QED BY <1>5, <1>6 DEF o

\* Every category has a score in the range.
LEMMA ScoresInRange ==
    ASSUME NEW a, NEW rows, rows[a.years].deficit_pct \in Int, NEW l \in [Levers -> Int]
    PROVE  ScoreCategoriesOf(a, rows, l) \in Scores
<1>2. FiscalSustainabilityScore(a, rows) \in Points
  <2> DEFINE x == (90 - rows[a.years].deficit_pct) * 10000
  <2>1. x \in Int /\ 120 \in Nat \ {0}
    OBVIOUS
  <2> HIDE DEF x
  <2>2. x \div 120 \in Int
    BY <2>1, QuotientIs
  <2>3. FiscalSustainabilityScore(a, rows) = Clamp(x \div 120)
    BY Zenon DEF FiscalSustainabilityScore, x
  <2> QED BY <2>2, <2>3, ClampRange
<1>3. ComplexityScore(l) \in Points
  <2>1. Total(Magnitudes(l), LeverKeys) \in Int /\ Total(Indicators(l), LeverKeys) \in Int
    BY KeysOfLevers, MagnitudeNat, TotalOver
  <2>2. Gross(l) \in Int /\ ActiveLevers(l) \in Int
    BY <2>1 DEF Gross, ActiveLevers, Magnitudes, Indicators
  <2>3. 10000 - 25 * Gross(l) - 200 * ActiveLevers(l) \in Int
    BY <2>2
  <2> QED BY <2>3, ClampRange DEF ComplexityScore
<1>4. ASSUME NEW c \in Outcomes PROVE OutcomeScore(c, l) \in Points
  <2> DEFINE coeff == Contributions[c]
             f == [k \in Levers |-> coeff[k] * l[k]]
  <2>1. coeff \in [Levers -> Int]
    BY ScoringAssumption
  <2> HIDE DEF coeff
  <2>2. f \in [Levers -> Int]
    BY <2>1
  <2> HIDE DEF f
  <2>3. Total(f, LeverKeys) \in Int
    BY <2>2, KeysOfLevers, TotalOver
  <2>4. 5000 + Total(f, LeverKeys) \in Int
    BY <2>3
  <2>5. OutcomeScore(c, l) = Clamp(5000 + Total(f, LeverKeys))
    BY Zenon DEF OutcomeScore, f, coeff
  <2> QED BY <2>4, <2>5, ClampRange
<1> QED BY <1>2, <1>3, <1>4, ScoringAssumption DEF ScoreCategoriesOf, Scores

\* What ScoreCategoriesOf gives each category.
LEMMA ScoreOf ==
    ASSUME NEW a, NEW rows, NEW l
    PROVE  /\ ScoreCategoriesOf(a, rows, l)["fiscal_sustainability"]
                 = FiscalSustainabilityScore(a, rows)
           /\ ScoreCategoriesOf(a, rows, l)["implementation_complexity"] = ComplexityScore(l)
           /\ \A c \in Outcomes : ScoreCategoriesOf(a, rows, l)[c] = OutcomeScore(c, l)
BY ScoringAssumption DEF ScoreCategoriesOf

\* Nothing moved: neutral outcomes, nothing hard to deliver.
LEMMA NeutralScores ==
    ASSUME NEW l \in [Levers -> Int], \A k \in Levers : l[k] = 0
    PROVE  /\ \A c \in Outcomes : OutcomeScore(c, l) = 5000
           /\ ComplexityScore(l) = 10000
<1>1. ASSUME NEW c \in Outcomes PROVE OutcomeScore(c, l) = 5000
  <2> DEFINE coeff == Contributions[c]
             f == [k \in Levers |-> coeff[k] * l[k]]
  <2>1. coeff \in [Levers -> Int]
    BY ScoringAssumption
  <2> HIDE DEF coeff
  <2>2. \A k \in Levers : f[k] = 0
    BY <2>1
  <2> HIDE DEF f
  <2>3. Total(f, LeverKeys) = 0
    BY <2>2, KeysOfLevers, TotalNought
  <2> QED BY <2>3 DEF OutcomeScore, Clamp, f, coeff
<1>2. ComplexityScore(l) = 10000
  <2>1. \A k \in Levers : Magnitudes(l)[k] = 0 /\ Indicators(l)[k] = 0
    BY DEF Magnitudes, Indicators, Magnitude
  <2>2. Total(Magnitudes(l), LeverKeys) = 0 /\ Total(Indicators(l), LeverKeys) = 0
    BY <2>1, KeysOfLevers, TotalNought
  <2> QED BY <2>2 DEF ComplexityScore, Gross, ActiveLevers, Magnitudes, Indicators, Clamp
<1> QED BY <1>1, <1>2

-----------------------------------------------------------------------------
(* What the loaders let through.                                           *)

LEMMA BaselineLoaded ==
    ASSUME NEW doc, LoadBaseline(doc) # Refused
    PROVE  LoadBaseline(doc) \in Baselines
BY DEF LoadBaseline

LEMMA EntryOf ==
    ASSUME NEW entries, NEW id \in IdsOf(entries)
    PROVE  \E i \in DOMAIN entries : Entry(entries, id) = entries[i]
<1>1. \E i \in DOMAIN entries : entries[i].id = id
  BY DEF IdsOf
<1> QED BY <1>1 DEF Entry

LEMMA ScenariosLoaded ==
    ASSUME NEW doc, LoadScenarios(doc) # Refused
    PROVE  /\ LoadScenarios(doc).first \in DOMAIN LoadScenarios(doc).of
           /\ \A id \in DOMAIN LoadScenarios(doc).of :
                 LoadScenarios(doc).of[id].assumptions \in AssumptionsIn(Grain)
<1> DEFINE scenarios == LoadScenarios(doc)
<1>1. /\ Listed(doc) /\ \A i \in DOMAIN doc.entries : IsScenario(doc.entries[i])
      /\ scenarios.first = doc.entries[1].id
      /\ DOMAIN scenarios.of = IdsOf(doc.entries)
      /\ \A id \in IdsOf(doc.entries) : scenarios.of[id] = Scenario(Entry(doc.entries, id))
  BY DEF LoadScenarios
<1> HIDE DEF scenarios
<1>2. scenarios.first \in DOMAIN scenarios.of
  BY <1>1 DEF Listed, IdsOf
<1>3. ASSUME NEW id \in DOMAIN scenarios.of
      PROVE  scenarios.of[id].assumptions \in AssumptionsIn(Grain)
  <2>1. PICK i \in DOMAIN doc.entries : Entry(doc.entries, id) = doc.entries[i]
    BY <1>1, <1>3, EntryOf
  <2>2. scenarios.of[id] = Scenario(doc.entries[i]) /\ IsScenario(doc.entries[i])
    BY <1>1, <1>3, <2>1
  <2>3. Scenario(doc.entries[i]).assumptions = doc.entries[i].assumptions
    BY DEF Scenario, Inputs
  <2> QED BY <2>2, <2>3 DEF IsScenario
<1> QED BY <1>2, <1>3 DEF scenarios

LEMMA ProfilesLoaded ==
    ASSUME NEW doc, LoadWeightingProfiles(doc) # Refused
    PROVE  /\ LoadWeightingProfiles(doc).first \in DOMAIN LoadWeightingProfiles(doc).of
           /\ \A id \in DOMAIN LoadWeightingProfiles(doc).of :
                 LoadWeightingProfiles(doc).of[id] \in Weights
<1> DEFINE profiles == LoadWeightingProfiles(doc)
<1>1. /\ Listed(doc) /\ \A i \in DOMAIN doc.entries : doc.entries[i].weights \in Weights
      /\ profiles.first = doc.entries[1].id
      /\ DOMAIN profiles.of = IdsOf(doc.entries)
      /\ \A id \in IdsOf(doc.entries) : profiles.of[id] = Entry(doc.entries, id).weights
  BY DEF LoadWeightingProfiles
<1> HIDE DEF profiles
<1>2. profiles.first \in DOMAIN profiles.of
  BY <1>1 DEF Listed, IdsOf
<1>3. ASSUME NEW id \in DOMAIN profiles.of PROVE profiles.of[id] \in Weights
  <2>1. PICK i \in DOMAIN doc.entries : Entry(doc.entries, id) = doc.entries[i]
    BY <1>1, <1>3, EntryOf
  <2> QED BY <1>1, <1>3, <2>1
<1> QED BY <1>2, <1>3 DEF profiles

\* The inputs have a position of the sliders.
Settable(inputs) == OnSliders(InputsToState(inputs))

\* And it gives them back.
Restorable(inputs) ==
    /\ Settable(inputs)
    /\ CurrentInputs(InputsToState(inputs).levers, InputsToState(inputs).assumptions) = inputs

GoodLoad(ld) ==
    /\ ld.baseline \in Baselines
    /\ ld.scenarios.first \in PresetIds /\ ld.profiles.first \in ProfileIds
    /\ \A id \in PresetIds : ld.scenarios.of[id].assumptions \in AssumptionsIn(Grain)
    /\ \A id \in PresetIds : Settable(ld.scenarios.of[id])
    /\ \A id \in ProfileIds : ld.profiles.of[id] \in Weights

LEMMA LoadedIsGood ==
    ASSUME NEW v \in Versions, FirstRefused(v) = "none"
    PROVE  GoodLoad(Load(v))
<1>1. /\ LoadBaseline(v.baseline) # Refused
      /\ LoadScenarios(v.scenarios) # Refused
      /\ LoadWeightingProfiles(v.profiles) # Refused
  BY DEF FirstRefused
<1>2. /\ Load(v).baseline = LoadBaseline(v.baseline)
      /\ Load(v).scenarios = LoadScenarios(v.scenarios)
      /\ Load(v).profiles = LoadWeightingProfiles(v.profiles)
  BY DEF Load
<1>3. /\ DOMAIN LoadScenarios(v.scenarios).of = PresetIds
      /\ DOMAIN LoadWeightingProfiles(v.profiles).of = ProfileIds
      /\ \A id \in PresetIds : Settable(LoadScenarios(v.scenarios).of[id])
  BY SandboxAssumption, Zenon DEF Settable
<1>4. LoadBaseline(v.baseline) \in Baselines
  BY <1>1, BaselineLoaded
<1>5. /\ LoadScenarios(v.scenarios).first \in PresetIds
      /\ \A id \in PresetIds :
            LoadScenarios(v.scenarios).of[id].assumptions \in AssumptionsIn(Grain)
  BY <1>1, <1>3, ScenariosLoaded
<1>6. /\ LoadWeightingProfiles(v.profiles).first \in ProfileIds
      /\ \A id \in ProfileIds : LoadWeightingProfiles(v.profiles).of[id] \in Weights
  BY <1>1, <1>3, ProfilesLoaded
<1> QED BY <1>2, <1>3, <1>4, <1>5, <1>6, Zenon DEF GoodLoad

-----------------------------------------------------------------------------
(* The sliders and what they are saved as.                                 *)

LEMMA RoundedIs ==
    ASSUME NEW v \in Int, FloatError[v] \in Int,
           -Grain < 2 * FloatError[v], 2 * FloatError[v] < Grain
    PROVE  Rounded(ToFloat(v)) = v
<1> DEFINE g == 2 * Grain
           e == FloatError[v]
           x == 2 * ToFloat(v) + Grain
           p == v * g
<1>1. g \in Nat \ {0} /\ Grain \in Int /\ e \in Int
  BY DataFilesAssumption
<1>2. p \in Int /\ Grain * v \in Int /\ 2 * (Grain * v) = p
  BY <1>1
<1>3. x = p + (2 * e + Grain)
  BY <1>1, <1>2 DEF ToFloat
<1>4. (v + 1) * g = p + g
  BY <1>1
<1> HIDE DEF p, x, e
<1>5. x \in Int /\ p <= x /\ x < p + g
  BY <1>1, <1>2, <1>3 DEF e
<1>6. x \div g \in Int /\ g * (x \div g) <= x
  BY <1>1, <1>5, QuotientIs
<1>7. v <= x \div g
  BY <1>1, <1>5, AtMostQuotient DEF p
<1>8. x \div g < v + 1
  <2>1. CASE v + 1 <= x \div g
    <3>1. g * (v + 1) <= g * (x \div g)
      BY <1>1, <1>6, <2>1, ProductGrows
    <3>2. g * (v + 1) = p + g
      BY <1>1, <1>4
    <3>3. g * (x \div g) \in Int
      BY <1>1, <1>6
    <3> QED BY <1>1, <1>2, <1>5, <1>6, <3>1, <3>2, <3>3
  <2> QED BY <1>6, <2>1
<1> HIDE DEF g
<1>9. x \div g = v
  BY <1>6, <1>7, <1>8
<1> QED BY <1>9 DEF Rounded, x, g

LEMMA SlidersAre ==
    ASSUME NEW l, NEW a
    PROVE  /\ Inputs(l, a).levers = l /\ Inputs(l, a).assumptions = a
           /\ OnSliders(Inputs(l, a)) <=>
                 /\ l \in [Levers -> Int]
                 /\ \A k \in Levers : Within(l[k], LeverRange[k])
                 /\ a \in FeedbackAssumptions
                 /\ \A k \in DOMAIN SliderRange : Within(a[k], SliderRange[k])
BY DEF Inputs, OnSliders

SliderKeys == {"years", "lag_years", "growth_baseline", "revenue_feedback_rate",
               "cost_reduction_rate", "implementation_quality", "optimism_penalty"}

LEMMA RangesAre ==
    /\ DOMAIN SliderRange = SliderKeys
    /\ SliderRange["years"] \subseteq Nat \ {0} /\ SliderRange["lag_years"] \subseteq Nat
    /\ SliderRange["growth_baseline"] \subseteq Fraction
    /\ SliderRange["revenue_feedback_rate"] \subseteq Fraction
    /\ SliderRange["cost_reduction_rate"] \subseteq Fraction
    /\ SliderRange["implementation_quality"] \subseteq Fraction
    /\ SliderRange["optimism_penalty"] \subseteq Fraction
    /\ \A k \in SliderKeys : SliderRange[k] \subseteq Int
<1>1. SliderRange \in
         [years : SUBSET (Nat \ {0}), lag_years : SUBSET Nat,
          growth_baseline : SUBSET Fraction,
          revenue_feedback_rate : SUBSET Fraction,
          cost_reduction_rate : SUBSET Fraction,
          implementation_quality : SUBSET Fraction,
          optimism_penalty : SUBSET Fraction]
  BY SandboxAssumption
<1>2. /\ DOMAIN SliderRange = SliderKeys
      /\ SliderRange["years"] \subseteq Nat \ {0} /\ SliderRange["lag_years"] \subseteq Nat
      /\ SliderRange["growth_baseline"] \subseteq Fraction
      /\ SliderRange["revenue_feedback_rate"] \subseteq Fraction
      /\ SliderRange["cost_reduction_rate"] \subseteq Fraction
      /\ SliderRange["implementation_quality"] \subseteq Fraction
      /\ SliderRange["optimism_penalty"] \subseteq Fraction
  BY <1>1 DEF SliderKeys
<1>3. Fraction \subseteq Int
  BY FiscalAssumption DEF Fraction
<1>4. \A k \in SliderKeys : SliderRange[k] \subseteq Int
  <2>1. /\ SliderRange["years"] \subseteq Int /\ SliderRange["lag_years"] \subseteq Int
    BY <1>2
  <2>2. /\ SliderRange["growth_baseline"] \subseteq Int
        /\ SliderRange["revenue_feedback_rate"] \subseteq Int
        /\ SliderRange["cost_reduction_rate"] \subseteq Int
        /\ SliderRange["implementation_quality"] \subseteq Int
        /\ SliderRange["optimism_penalty"] \subseteq Int
    BY <1>2, <1>3
  <2> QED BY <2>1, <2>2, Zenon DEF SliderKeys
<1> QED BY <1>2, <1>4

\* What is between two fractions is one.
LEMMA WithinFractions ==
    ASSUME NEW range \in SUBSET Fraction, NEW v \in Int, Within(v, range)
    PROVE  v \in Fraction
BY FiscalAssumption DEF Within, Fraction

LEMMA PercentagesAre ==
    ASSUME NEW l, NEW a, OnSliders(Inputs(l, a)), NEW k \in SliderKeys \ {"years", "lag_years"}
    PROVE  a[k] \in Fraction
<1>1. a \in FeedbackAssumptions /\ Within(a[k], SliderRange[k])
  BY SlidersAre, RangesAre
<1>2. SliderRange[k] \in SUBSET Fraction
  BY RangesAre DEF SliderKeys
<1>3. a[k] \in Int
  BY <1>1, FiscalAssumption DEF FeedbackAssumptions, AssumptionsIn, SliderKeys
<1> QED BY <1>1, <1>2, <1>3, WithinFractions

LEMMA RoundTrip ==
    ASSUME NEW l, NEW a, OnSliders(Inputs(l, a))
    PROVE  InputsToState(CurrentInputs(l, a)) = Inputs(l, a)
<1>1. a \in FeedbackAssumptions
  BY SlidersAre
<1>2. ASSUME NEW k \in SliderKeys \ {"years", "lag_years"}
      PROVE  Rounded(ToFloat(a[k])) = a[k]
  <2>1. a[k] \in Fraction /\ a[k] \in Int
    BY PercentagesAre, FiscalAssumption DEF Fraction
  <2>2. /\ FloatError[a[k]] \in Int
        /\ -Grain < 2 * FloatError[a[k]] /\ 2 * FloatError[a[k]] < Grain
    BY <2>1, SandboxAssumption
  <2> QED BY <2>1, <2>2, RoundedIs
<1>3. /\ Rounded(ToFloat(a.growth_baseline)) = a.growth_baseline
      /\ Rounded(ToFloat(a.revenue_feedback_rate)) = a.revenue_feedback_rate
      /\ Rounded(ToFloat(a.cost_reduction_rate)) = a.cost_reduction_rate
      /\ Rounded(ToFloat(a.implementation_quality)) = a.implementation_quality
      /\ Rounded(ToFloat(a.optimism_penalty)) = a.optimism_penalty
  BY <1>2 DEF SliderKeys
<1>4. a = [years |-> a.years, lag_years |-> a.lag_years,
           growth_baseline |-> a.growth_baseline,
           revenue_feedback_rate |-> a.revenue_feedback_rate,
           cost_reduction_rate |-> a.cost_reduction_rate,
           implementation_quality |-> a.implementation_quality,
           optimism_penalty |-> a.optimism_penalty]
  BY <1>1 DEF FeedbackAssumptions, AssumptionsIn
<1> QED BY <1>3, <1>4, Zenon DEF InputsToState, CurrentInputs, Inputs

LEMMA SavedRestorable ==
    ASSUME NEW l, NEW a, OnSliders(Inputs(l, a))
    PROVE  Restorable(CurrentInputs(l, a))
<1>1. InputsToState(CurrentInputs(l, a)) = Inputs(l, a)
  BY RoundTrip
<1>2. Inputs(l, a).levers = l /\ Inputs(l, a).assumptions = a
  BY SlidersAre
<1> QED BY <1>1, <1>2, Zenon DEF Restorable, Settable

LEMMA ToleranceAbove == ~(0 > Tolerance)
BY SandboxAssumption

\* A percentage that rounds to v is less than a part from the float of v.
LEMMA RoundedNear ==
    ASSUME NEW x \in Int, NEW v \in Int, v = Rounded(x), FloatError[v] \in Int,
           -Grain < 2 * FloatError[v], 2 * FloatError[v] < Grain
    PROVE  Magnitude(ToFloat(v) - x) < Grain
<1> DEFINE g == 2 * Grain
           e == FloatError[v]
           p == Grain * v
<1>1. g \in Nat \ {0} /\ Grain \in Nat \ {0} /\ e \in Int /\ p \in Int /\ 2 * p = g * v
  BY DataFilesAssumption
<1>2. 2 * x + Grain \in Int
  BY <1>1
<1>3. g * v <= 2 * x + Grain /\ 2 * x + Grain < g * v + g
  <2> HIDE DEF g
  <2>1. v = (2 * x + Grain) \div g
    BY DEF Rounded, g
  <2> QED BY <1>1, <1>2, <2>1, QuotientIs
<1>4. ToFloat(v) = p + e
  BY DEF ToFloat
<1> HIDE DEF p, e
<1>5. 2 * p <= 2 * x + Grain /\ 2 * x + Grain < 2 * p + 2 * Grain
  BY <1>1, <1>3
<1>6. -Grain < (p + e) - x /\ (p + e) - x < Grain
  BY <1>1, <1>5 DEF e
<1>7. (p + e) - x \in Int
  BY <1>1
<1> DEFINE d == (p + e) - x
<1> HIDE DEF d
<1>8. Magnitude(d) < Grain
  BY <1>1, <1>6, <1>7 DEF d, Magnitude
<1> QED BY <1>4, <1>8, Zenon DEF d

LEMMA Populated ==
    ASSUME NEW inputs, Settable(inputs), Populate(inputs)
    PROVE  /\ OnSliders(Inputs(levers', assumptions'))
           /\ Inputs(levers', assumptions') = InputsToState(inputs)
           /\ Restorable(inputs) => CurrentInputs(levers', assumptions') = inputs
<1>1. InputsToState(inputs) =
         Inputs(InputsToState(inputs).levers, InputsToState(inputs).assumptions)
  BY DEF InputsToState, Inputs
<1>2. Inputs(levers', assumptions') = InputsToState(inputs)
  BY <1>1, Zenon DEF Populate
<1>3. Restorable(inputs) => CurrentInputs(levers', assumptions') = inputs
  BY Zenon DEF Populate, Restorable
<1> QED BY <1>2, <1>3, Zenon DEF Settable

-----------------------------------------------------------------------------
(* The inductive invariant: the files of the last run that loaded were     *)
(* good, the controls and the saved model are positions of the sliders,    *)
(* and the page shows what the controls give.                              *)

SandboxInv ==
    /\ files \in Versions
    /\ GoodLoad(loaded)
    /\ preset \in PresetIds /\ profile \in ProfileIds
    /\ OnSliders(Inputs(levers, assumptions))
    /\ saved # NoModel => Restorable(saved)
    /\ Drawn => shown = Render(loaded, preset, levers, assumptions, profile)

LEMMA BodyIs ==
    ASSUME files \in Versions, GoodLoad(loaded), Body
    PROVE  /\ GoodLoad(loaded')
           /\ Drawn' => shown' = Render(loaded', preset', levers', assumptions', profile')
<1>1. CASE FirstRefused(files) = "none"
  <2>1. loaded' = Load(files)
    BY <1>1, Zenon DEF Body
  <2>2. shown' = Render(loaded', preset', levers', assumptions', profile')
    BY <1>1, Zenon DEF Body
  <2>3. GoodLoad(Load(files))
    BY <1>1, LoadedIsGood
  <2> QED BY <2>1, <2>2, <2>3, Zenon
<1>2. CASE FirstRefused(files) # "none"
  <2>1. loaded' = loaded /\ shown' = Stopped(FirstRefused(files))
    BY <1>2, Zenon DEF Body
  <2>2. Stopped(FirstRefused(files)).stopped = FirstRefused(files)
    BY Zenon DEF Stopped
  <2>3. ~Drawn'
    BY <1>2, <2>1, <2>2, Zenon DEF Drawn
  <2>4. GoodLoad(loaded')
    BY <2>1, Zenon
  <2> QED BY <2>3, <2>4, Zenon
<1> QED BY <1>1, <1>2, Zenon

\* A run of the body on controls that are good again.
LEMMA RunKeeps ==
    ASSUME SandboxInv, Body, files' = files,
           preset' \in PresetIds, profile' \in ProfileIds,
           OnSliders(Inputs(levers', assumptions')),
           saved' # NoModel => Restorable(saved')
    PROVE  SandboxInv'
<1>1. /\ GoodLoad(loaded')
      /\ Drawn' => shown' = Render(loaded', preset', levers', assumptions', profile')
  BY BodyIs, Zenon DEF SandboxInv
<1>2. files' \in Versions
  BY Zenon DEF SandboxInv
<1> QED BY <1>1, <1>2, Zenon DEF SandboxInv

LEMMA LeverMoved ==
    ASSUME OnSliders(Inputs(levers, assumptions)),
           NEW k \in Levers, NEW v \in LeverRange[k],
           levers' = [levers EXCEPT ![k] = v], assumptions' = assumptions
    PROVE  OnSliders(Inputs(levers', assumptions'))
<1>1. /\ levers \in [Levers -> Int] /\ \A j \in Levers : Within(levers[j], LeverRange[j])
      /\ assumptions \in FeedbackAssumptions
      /\ \A j \in DOMAIN SliderRange : Within(assumptions[j], SliderRange[j])
  BY SlidersAre
<1>2. v \in Int
  BY SandboxAssumption, Zenon
<1>3. levers' \in [Levers -> Int] /\ \A j \in Levers : Within(levers'[j], LeverRange[j])
  <2>1. Within(v, LeverRange[k])
    BY <1>2 DEF Within
  <2> QED BY <1>1, <1>2, <2>1
<1>4. /\ assumptions' \in FeedbackAssumptions
      /\ \A j \in DOMAIN SliderRange : Within(assumptions'[j], SliderRange[j])
  BY <1>1, Zenon
<1> QED BY <1>3, <1>4, SlidersAre, Zenon

LEMMA AssumptionMoved ==
    ASSUME OnSliders(Inputs(levers, assumptions)),
           NEW k \in DOMAIN SliderRange, NEW v \in SliderRange[k],
           assumptions' = [assumptions EXCEPT ![k] = v], levers' = levers
    PROVE  OnSliders(Inputs(levers', assumptions'))
<1>1. /\ levers \in [Levers -> Int] /\ \A j \in Levers : Within(levers[j], LeverRange[j])
      /\ assumptions \in FeedbackAssumptions
      /\ \A j \in DOMAIN SliderRange : Within(assumptions[j], SliderRange[j])
  BY SlidersAre
<1> DEFINE b == [assumptions EXCEPT ![k] = v]
<1>2. DOMAIN assumptions = SliderKeys
  BY <1>1 DEF FeedbackAssumptions, AssumptionsIn, SliderKeys
<1>3. \A j \in SliderKeys : Within(b[j], SliderRange[j]) /\ b[j] \in Int
  <2>1. v \in Int /\ Within(v, SliderRange[k])
    BY RangesAre DEF Within
  <2>2. \A j \in SliderKeys : assumptions[j] \in Int
    BY <1>1, FiscalAssumption DEF FeedbackAssumptions, AssumptionsIn, SliderKeys
  <2> QED BY <1>1, <1>2, <2>1, <2>2, RangesAre
<1>4. b = [years |-> b.years, lag_years |-> b.lag_years,
           growth_baseline |-> b.growth_baseline,
           revenue_feedback_rate |-> b.revenue_feedback_rate,
           cost_reduction_rate |-> b.cost_reduction_rate,
           implementation_quality |-> b.implementation_quality,
           optimism_penalty |-> b.optimism_penalty]
  <2>1. assumptions = [j \in SliderKeys |-> assumptions[j]]
    BY <1>1 DEF FeedbackAssumptions, AssumptionsIn, SliderKeys
  <2>2. b = [j \in SliderKeys |-> b[j]]
    BY <2>1
  <2> HIDE DEF b
  <2> QED BY <2>2 DEF SliderKeys
<1> HIDE DEF b
<1>5. /\ b.years \in Nat \ {0} /\ b.lag_years \in Nat
      /\ b.growth_baseline \in Fraction
      /\ b.revenue_feedback_rate \in Fraction /\ b.cost_reduction_rate \in Fraction
      /\ b.implementation_quality \in Fraction /\ b.optimism_penalty \in Fraction
  <2>1. b.years \in Nat \ {0} /\ b.lag_years \in Nat
    BY <1>3, RangesAre DEF SliderKeys, Within
  <2>2. /\ Within(b.growth_baseline, SliderRange["growth_baseline"]) /\ b.growth_baseline \in Int
        /\ Within(b.revenue_feedback_rate, SliderRange["revenue_feedback_rate"])
        /\ b.revenue_feedback_rate \in Int
        /\ Within(b.cost_reduction_rate, SliderRange["cost_reduction_rate"])
        /\ b.cost_reduction_rate \in Int
        /\ Within(b.implementation_quality, SliderRange["implementation_quality"])
        /\ b.implementation_quality \in Int
        /\ Within(b.optimism_penalty, SliderRange["optimism_penalty"])
        /\ b.optimism_penalty \in Int
    BY <1>3 DEF SliderKeys
  <2> HIDE DEF b
  <2> QED BY <2>1, <2>2, RangesAre, WithinFractions
<1>6. 0 .. Unit * 1 = Fraction
  BY FiscalAssumption DEF Fraction
<1>7. b.growth_baseline \in 1 - Unit * 1 .. Unit * 1
  BY <1>5, FiscalAssumption DEF Fraction
<1>8. b \in FeedbackAssumptions
  BY <1>4, <1>5, <1>6, <1>7 DEF FeedbackAssumptions, AssumptionsIn
<1>9. \A j \in DOMAIN SliderRange : Within(b[j], SliderRange[j])
  BY <1>3, RangesAre, Zenon
<1>10. assumptions' = b
  BY DEF b
<1> QED BY <1>1, <1>8, <1>9, <1>10, SlidersAre, Zenon

LEMMA SandboxStarts == SandboxInit => SandboxInv
<1> SUFFICES ASSUME SandboxInit PROVE SandboxInv
  OBVIOUS
<1>1. files \in Versions /\ FirstRefused(files) = "none" /\ loaded = Load(files)
  BY DEF SandboxInit
<1>2. GoodLoad(loaded)
  BY <1>1, LoadedIsGood
<1>3. preset = loaded.scenarios.first /\ profile = loaded.profiles.first /\ saved = NoModel
  BY Zenon DEF SandboxInit
<1>4. preset \in PresetIds /\ profile \in ProfileIds
  BY <1>2, <1>3, Zenon DEF GoodLoad
<1> DEFINE inputs == loaded.scenarios.of[preset]
<1>5. /\ levers = InputsToState(inputs).levers
      /\ assumptions = InputsToState(inputs).assumptions
      /\ shown = Render(loaded, preset, levers, assumptions, profile)
  BY Zenon DEF SandboxInit
<1>6. Settable(inputs)
  BY <1>2, <1>4, Zenon DEF GoodLoad
<1> HIDE DEF inputs
<1>7. InputsToState(inputs) =
         Inputs(InputsToState(inputs).levers, InputsToState(inputs).assumptions)
  BY DEF InputsToState, Inputs
<1>8. OnSliders(Inputs(levers, assumptions))
  BY <1>5, <1>6, <1>7, Zenon DEF Settable
<1> QED BY <1>1, <1>2, <1>3, <1>4, <1>5, <1>8, Zenon DEF SandboxInv

LEMMA SandboxSteps == SandboxInv /\ [SandboxNext]_sandboxVars => SandboxInv'
<1> SUFFICES ASSUME SandboxInv, [SandboxNext]_sandboxVars PROVE SandboxInv'
  OBVIOUS
<1> USE DEF controls
<1>1. ASSUME NEW k \in Levers, NEW v \in LeverRange[k], MoveLever(k, v) PROVE SandboxInv'
  <2>1. OnSliders(Inputs(levers', assumptions'))
    <3>1. levers' = [levers EXCEPT ![k] = v] /\ assumptions' = assumptions
      BY <1>1, Zenon DEF MoveLever
    <3> QED BY <3>1, LeverMoved, Zenon DEF SandboxInv
  <2> QED BY <1>1, <2>1, RunKeeps, Zenon DEF MoveLever, SandboxInv
<1>2. ASSUME NEW k \in DOMAIN SliderRange, NEW v \in SliderRange[k], MoveAssumption(k, v)
      PROVE  SandboxInv'
  <2>1. OnSliders(Inputs(levers', assumptions'))
    <3>1. assumptions' = [assumptions EXCEPT ![k] = v] /\ levers' = levers
      BY <1>2, Zenon DEF MoveAssumption
    <3> QED BY <3>1, AssumptionMoved, Zenon DEF SandboxInv
  <2> QED BY <1>2, <2>1, RunKeeps, Zenon DEF MoveAssumption, SandboxInv
<1>3. ASSUME NEW id \in PresetIds, ChoosePreset(id) PROVE SandboxInv'
  <2>1. OnSliders(Inputs(levers', assumptions'))
    <3>1. Settable(loaded.scenarios.of[id]) /\ Populate(loaded.scenarios.of[id])
      BY <1>3, Zenon DEF ChoosePreset, ApplySelectedScenario, SandboxInv, GoodLoad
    <3> QED BY <3>1, Populated, Zenon
  <2> QED BY <1>3, <2>1, RunKeeps, Zenon DEF ChoosePreset, SandboxInv
<1>4. CASE Reset
  <2>1. OnSliders(Inputs(levers', assumptions'))
    <3>1. Settable(loaded.scenarios.of[preset]) /\ Populate(loaded.scenarios.of[preset])
      BY <1>4, Zenon DEF Reset, ApplySelectedScenario, SandboxInv, GoodLoad
    <3> QED BY <3>1, Populated, Zenon
  <2> QED BY <1>4, <2>1, RunKeeps, Zenon DEF Reset, SandboxInv
<1>5. ASSUME NEW id \in ProfileIds, ChooseProfile(id) PROVE SandboxInv'
  BY <1>5, RunKeeps, Zenon DEF ChooseProfile, SandboxInv
<1>6. CASE SaveModel
  <2>1. saved' = CurrentInputs(levers, assumptions)
    BY <1>6, Zenon DEF SaveModel
  <2>2. Restorable(saved')
    BY <2>1, SavedRestorable, Zenon DEF SandboxInv
  <2> QED BY <1>6, <2>2, RunKeeps, Zenon DEF SaveModel, SandboxInv
<1>7. CASE LoadModel
  <2>1. OnSliders(Inputs(levers', assumptions'))
    BY <1>7, Populated, Zenon DEF LoadModel, SandboxInv, Restorable
  <2> QED BY <1>7, <2>1, RunKeeps, Zenon DEF LoadModel, SandboxInv
<1>8. CASE Rerun
  BY <1>8, RunKeeps, Zenon DEF Rerun, SandboxInv
<1>9. CASE Reload
  <2>1. CASE FirstRefused(files) = "none"
    <3> DEFINE ld == Load(files)
    <3>1. GoodLoad(ld)
      BY <2>1, LoadedIsGood DEF SandboxInv
    <3>2. /\ preset' = ld.scenarios.first
          /\ Populate(ld.scenarios.of[ld.scenarios.first])
          /\ profile' = ld.profiles.first
      BY <1>9, <2>1, Zenon DEF Reload
    <3> HIDE DEF ld
    <3>3. OnSliders(Inputs(levers', assumptions'))
      BY <3>1, <3>2, Populated, Zenon DEF GoodLoad
    <3>4. preset' \in PresetIds /\ profile' \in ProfileIds
      BY <3>1, <3>2, Zenon DEF GoodLoad
    <3> QED BY <1>9, <3>3, <3>4, RunKeeps, Zenon DEF Reload, SandboxInv
  <2>2. CASE FirstRefused(files) # "none"
    BY <1>9, <2>2, RunKeeps, Zenon DEF Reload, SandboxInv
  <2> QED BY <2>1, <2>2, Zenon
<1>10. ASSUME NEW v \in Versions, EditFiles(v) PROVE SandboxInv'
  BY <1>10, Zenon DEF EditFiles, SandboxInv, Drawn
<1>11. CASE UNCHANGED sandboxVars
  BY <1>11, Zenon DEF sandboxVars, SandboxInv, Drawn
<1> QED
  BY <1>1, <1>2, <1>3, <1>4, <1>5, <1>6, <1>7, <1>8, <1>9, <1>10, <1>11, Zenon DEF SandboxNext

THEOREM AlwaysSandboxInv == SandboxSpec => []SandboxInv
BY SandboxStarts, SandboxSteps, PTL DEF SandboxSpec

-----------------------------------------------------------------------------
(* What is on the page, and the controls it is computed from.              *)

LEMMA PageIs ==
    ASSUME SandboxInv, Drawn
    PROVE  /\ shown.rows = ComputeFiscal(loaded.baseline, assumptions, levers)
           /\ shown.scores = ScoreCategoriesOf(assumptions, shown.rows, levers)
           /\ shown.overall = Overall(shown.scores, loaded.profiles.of[profile])
           /\ shown.custom =
                 IsCustom(levers, assumptions, InputsToState(loaded.scenarios.of[preset]))
<1> DEFINE page == Render(loaded, preset, levers, assumptions, profile)
<1>1. shown = page
  BY Zenon DEF SandboxInv
<1>2. /\ page.rows = ComputeFiscal(loaded.baseline, assumptions, levers)
      /\ page.scores = ScoreCategoriesOf(assumptions, page.rows, levers)
      /\ page.overall = Overall(page.scores, loaded.profiles.of[profile])
      /\ page.custom =
            IsCustom(levers, assumptions, InputsToState(loaded.scenarios.of[preset]))
  BY Zenon DEF Render
<1> HIDE DEF page
<1> QED BY <1>1, <1>2, Zenon

LEMMA ControlsAre ==
    ASSUME SandboxInv
    PROVE  /\ levers \in [Levers -> Int] /\ assumptions \in FeedbackAssumptions
           /\ Total(levers, RevenueLeverKeys) \in Int
           /\ Total(levers, InvestmentLeverKeys) \in Nat
           /\ loaded.baseline \in Baselines
<1>1. /\ levers \in [Levers -> Int] /\ \A k \in Levers : Within(levers[k], LeverRange[k])
      /\ assumptions \in FeedbackAssumptions
  BY SlidersAre, Zenon DEF SandboxInv
<1>3. Total(levers, RevenueLeverKeys) \in Int
  BY <1>1, KeysOfLevers, TotalOver
<1> DEFINE none == [k \in Levers |-> 0]
<1>4. none \in [Levers -> Int]
  OBVIOUS
<1>5. \A k \in Members(InvestmentLeverKeys) : levers[k] \in Nat
  <2>1. ASSUME NEW k \in Members(InvestmentLeverKeys) PROVE levers[k] \in Nat
    <3>1. k \in Levers /\ LeverRange[k] \subseteq Nat
      BY KeysOfLevers, SandboxAssumption
    <3> QED BY <1>1, <3>1 DEF Within
  <2> QED BY <2>1
<1>6. \A k \in Members(InvestmentLeverKeys) : none[k] <= levers[k]
  BY <1>5, KeysOfLevers
<1>7. Total(none, InvestmentLeverKeys) = 0
  <2>1. \A k \in Members(InvestmentLeverKeys) : none[k] = 0
    BY KeysOfLevers
  <2> HIDE DEF none
  <2> QED BY <2>1, KeysOfLevers, TotalNought
<1> HIDE DEF none
<1>8. /\ Total(levers, InvestmentLeverKeys) \in Int
      /\ Total(none, InvestmentLeverKeys) <= Total(levers, InvestmentLeverKeys)
  BY <1>1, <1>4, <1>6, KeysOfLevers, TotalsCompare
<1>9. Total(levers, InvestmentLeverKeys) \in Nat
  BY <1>7, <1>8
<1> QED BY <1>1, <1>3, <1>9, Zenon DEF SandboxInv, GoodLoad

LEMMA RowIs ==
    ASSUME SandboxInv, Drawn, NEW year \in 0 .. assumptions.years
    PROVE  shown.rows[year] =
              Row(loaded.baseline, assumptions, Total(levers, RevenueLeverKeys),
                  Total(levers, InvestmentLeverKeys), year)
<1>1. shown.rows = ComputeFiscal(loaded.baseline, assumptions, levers)
  BY PageIs
<1> QED BY <1>1, Zenon DEF ComputeFiscal

LEMMA FeedbackIs ==
    ASSUME SandboxInv, Drawn, NEW year \in 0 .. assumptions.years
    PROVE  shown.rows[year].revenue_feedback =
              Feedback(assumptions, Total(levers, InvestmentLeverKeys),
                       assumptions.revenue_feedback_rate, year)
<1> DEFINE row == Row(loaded.baseline, assumptions, Total(levers, RevenueLeverKeys),
                      Total(levers, InvestmentLeverKeys), year)
<1>1. row.revenue_feedback =
         Feedback(assumptions, Total(levers, InvestmentLeverKeys),
                  assumptions.revenue_feedback_rate, year)
  BY Zenon DEF Row
<1>2. shown.rows[year] = row
  BY RowIs, Zenon
<1> HIDE DEF row
<1> QED BY <1>1, <1>2, Zenon

-----------------------------------------------------------------------------
(* The promises.                                                           *)

\* What a page is computed from is possible, whatever the files are made to
\* hold.
THEOREM InputsStayPossible == SandboxSpec => []PossibleInputs
<1>1. SandboxInv => PossibleInputs
  BY Zenon DEF SandboxInv, GoodLoad, PossibleInputs
<1> QED BY <1>1, AlwaysSandboxInv, PTL

\* What is shown as an unmodified preset would be saved as that preset, to the
\* tolerance and a part, and what is shown as custom as something else.
THEOREM MarkIsTrue == SandboxSpec => []MarkTellsPreset
<1>1. ASSUME SandboxInv, Drawn PROVE MarkTellsPreset
  <2> DEFINE chosen == loaded.scenarios.of[preset]
             state == InputsToState(chosen)
             inputs == CurrentInputs(levers, assumptions)
  <2>1. /\ OnSliders(Inputs(levers, assumptions)) /\ OnSliders(state)
        /\ chosen.assumptions \in AssumptionsIn(Grain)
    BY <1>1, Zenon DEF SandboxInv, GoodLoad, Settable
  <2>2. shown.custom = IsCustom(levers, assumptions, state)
    BY <1>1, PageIs, Zenon
  <2>3. /\ inputs.levers = levers
        /\ state.levers = chosen.levers
        /\ levers \in [Levers -> Int] /\ state.levers \in [Levers -> Int]
    BY <2>1, SlidersAre, Zenon DEF CurrentInputs, InputsToState, Inputs, OnSliders
  <2>4. ASSUME shown.custom PROVE inputs # chosen
    <3> SUFFICES ASSUME inputs = chosen PROVE FALSE
      OBVIOUS
    <3>1. state = Inputs(levers, assumptions)
      BY <2>1, RoundTrip, Zenon
    <3> HIDE DEF state
    <3>2. state.levers = levers /\ state.assumptions = assumptions
      BY <3>1 DEF Inputs
    <3>3. ~IsCustom(levers, assumptions, state)
      <4>1. \A k \in Levers : levers[k] - levers[k] = 0
        BY <2>3
      <4>2. \A k \in Levers : Magnitude(levers[k] - state.levers[k]) = 0
        BY <3>2, <4>1 DEF Magnitude
      <4> QED BY <3>2, <4>2, ToleranceAbove DEF IsCustom
    <3> QED BY <2>2, <2>4, <3>3, Zenon
  <2>5. ASSUME ~shown.custom PROVE Alike(inputs, chosen)
    <3>1. /\ \A k \in Levers : ~(Magnitude(levers[k] - state.levers[k]) > Tolerance)
          /\ assumptions = state.assumptions
      BY <2>2, <2>5, Zenon DEF IsCustom
    <3>2. \A k \in Levers : Magnitude(inputs.levers[k] - chosen.levers[k]) <= Tolerance
      <4> HIDE DEF inputs, chosen, state
      <4>1. \A k \in Levers : Magnitude(levers[k] - state.levers[k]) \in Int
        BY <2>3 DEF Magnitude
      <4> QED BY <2>3, <3>1, <4>1, SandboxAssumption
    <3>3. /\ state.assumptions.years = chosen.assumptions.years
          /\ state.assumptions.lag_years = chosen.assumptions.lag_years
          /\ inputs.assumptions.years = assumptions.years
          /\ inputs.assumptions.lag_years = assumptions.lag_years
      BY Zenon DEF InputsToState, CurrentInputs, Inputs
    <3>4. ASSUME NEW k \in SliderKeys \ {"years", "lag_years"}
          PROVE  Magnitude(inputs.assumptions[k] - chosen.assumptions[k]) < Grain
      <4>1. inputs.assumptions[k] = ToFloat(assumptions[k])
        BY DEF CurrentInputs, Inputs, SliderKeys
      <4>2. state.assumptions[k] = Rounded(chosen.assumptions[k])
        BY DEF InputsToState, Inputs, SliderKeys
      <4>3. assumptions[k] \in Fraction /\ assumptions[k] \in Int
        BY <2>1, PercentagesAre, FiscalAssumption DEF Fraction
      <4>4. chosen.assumptions[k] \in Int
        BY <2>1, FiscalAssumption, DataFilesAssumption DEF AssumptionsIn, SliderKeys
      <4>5. /\ FloatError[assumptions[k]] \in Int
            /\ -Grain < 2 * FloatError[assumptions[k]] /\ 2 * FloatError[assumptions[k]] < Grain
        BY <4>3, SandboxAssumption
      <4>6. assumptions[k] = Rounded(chosen.assumptions[k])
        BY <3>1, <4>2, Zenon
      <4> HIDE DEF chosen, state, inputs
      <4>7. Magnitude(ToFloat(assumptions[k]) - chosen.assumptions[k]) < Grain
        BY <4>3, <4>4, <4>5, <4>6, RoundedNear
      <4> QED BY <4>1, <4>7, Zenon
    <3>5. \A k \in SliderKeys \ {"years", "lag_years"} :
             Magnitude(inputs.assumptions[k] - chosen.assumptions[k]) < Grain
      BY <3>4, Zenon
    <3> HIDE DEF inputs, chosen, state
    <3> QED BY <3>1, <3>2, <3>3, <3>5, RangesAre DEF Alike
  <2> HIDE DEF inputs, chosen
  <2>6. IF shown.custom THEN inputs # chosen ELSE Alike(inputs, chosen)
    BY <2>4, <2>5, Zenon
  <2> QED BY <2>6, Zenon DEF MarkTellsPreset, inputs, chosen
<1>2. SandboxInv => MarkTellsPreset
  BY <1>1, Zenon DEF MarkTellsPreset
<1> QED BY <1>2, AlwaysSandboxInv, PTL

\* Nothing in the lag, never less from year to year, and all of it at the end
\* when the lag is shorter than the projection.
THEOREM FullEffectIsReached == SandboxSpec => []FullEffectWhenReached
<1>1. ASSUME SandboxInv PROVE FullEffectWhenReached
  <2> SUFFICES ASSUME Drawn
               PROVE  /\ assumptions.lag_years < assumptions.years
                            => shown.rows[assumptions.years].revenue_feedback
                                  = FullEffect(assumptions, levers)
                      /\ \A year \in 0 .. assumptions.years - 1 :
                            shown.rows[year].revenue_feedback
                               <= shown.rows[year + 1].revenue_feedback
                      /\ \A year \in 0 .. assumptions.years :
                            year <= assumptions.lag_years
                               => shown.rows[year].revenue_feedback = 0
    BY Zenon DEF FullEffectWhenReached
  <2> DEFINE i == Total(levers, InvestmentLeverKeys)
             r == assumptions.revenue_feedback_rate
             N == assumptions.years
  <2>1. /\ assumptions \in FeedbackAssumptions /\ i \in Nat /\ r \in Fraction
        /\ N \in Nat \ {0}
    BY <1>1, ControlsAre, RatesAreFractions DEF FeedbackAssumptions, AssumptionsIn
  <2>2. \A year \in 0 .. N :
           shown.rows[year].revenue_feedback = Feedback(assumptions, i, r, year)
    BY <1>1, FeedbackIs, Zenon
  <2>3. FullFeedback(assumptions, i, r) * RampLength(assumptions) = FullEffect(assumptions, levers)
    BY Zenon DEF FullFeedback, FullEffect
  <2> HIDE DEF i, r, N
  <2>4. assumptions.lag_years < N
           => Feedback(assumptions, i, r, N) = FullEffect(assumptions, levers)
    BY <2>1, <2>3, FeedbackAtTheEnd, Zenon DEF N
  <2>5. N \in 0 .. N /\ \A year \in 0 .. N - 1 : year \in 0 .. N /\ year + 1 \in 0 .. N
    BY <2>1
  <2>6. \A year \in 0 .. N :
           /\ Feedback(assumptions, i, r, year) <= Feedback(assumptions, i, r, year + 1)
           /\ year <= assumptions.lag_years => Feedback(assumptions, i, r, year) = 0
    <3>1. \A year \in 0 .. N : year \in Nat
      BY <2>1
    <3> QED BY <2>1, <3>1, FeedbackRises, Zenon
  <2>7. assumptions.lag_years < N
           => shown.rows[N].revenue_feedback = FullEffect(assumptions, levers)
    BY <2>2, <2>4, <2>5, Zenon
  <2>8. \A year \in 0 .. N - 1 :
           shown.rows[year].revenue_feedback <= shown.rows[year + 1].revenue_feedback
    BY <2>2, <2>5, <2>6, Zenon
  <2>9. \A year \in 0 .. N :
           year <= assumptions.lag_years => shown.rows[year].revenue_feedback = 0
    BY <2>2, <2>6, Zenon
  <2> QED BY <2>7, <2>8, <2>9, Zenon DEF N
<1> QED BY <1>1, AlwaysSandboxInv, PTL

\* The overall score is between the scores that have a weight.
THEOREM OverallIsBetween == SandboxSpec => []OverallBetween
<1>1. ASSUME SandboxInv, Drawn
      PROVE  /\ shown.scores \in Scores
             /\ loaded.profiles.of[profile] \in Weights
  <2>1. 0 \in Nat /\ assumptions.years \in 0 .. assumptions.years
    BY <1>1, ControlsAre DEF FeedbackAssumptions, AssumptionsIn
  <2> DEFINE row == Row(loaded.baseline, assumptions, Total(levers, RevenueLeverKeys),
                        Total(levers, InvestmentLeverKeys), assumptions.years)
  <2>2. shown.rows[assumptions.years] = row
    BY <1>1, <2>1, RowIs, Zenon
  <2>3. row.deficit_pct \in Int
    BY <1>1, <2>1, ControlsAre, PercentageInt
  <2> HIDE DEF row
  <2>4. shown.rows[assumptions.years].deficit_pct \in Int
    BY <2>2, <2>3, Zenon
  <2>5. levers \in [Levers -> Int]
    BY <1>1, ControlsAre
  <2>6. ScoreCategoriesOf(assumptions, shown.rows, levers) \in Scores
    BY <2>4, <2>5, ScoresInRange
  <2>7. shown.scores = ScoreCategoriesOf(assumptions, shown.rows, levers)
    BY <1>1, PageIs, Zenon
  <2> QED BY <1>1, <2>6, <2>7, Zenon DEF SandboxInv, GoodLoad
<1>2. ASSUME SandboxInv PROVE OverallBetween
  <2> SUFFICES ASSUME Drawn
               PROVE  /\ \E c \in Categories : loaded.profiles.of[profile][c] > 0
                                                /\ shown.scores[c] <= shown.overall
                      /\ \E c \in Categories : loaded.profiles.of[profile][c] > 0
                                                /\ shown.overall <= shown.scores[c]
    BY DEF OverallBetween
  <2> DEFINE s == shown.scores
             w == loaded.profiles.of[profile]
  <2>1. s \in Scores /\ w \in Weights
    BY <1>1, <1>2, Zenon
  <2>2. shown.overall = Overall(s, w)
    BY <1>2, PageIs, Zenon
  <2> HIDE DEF s, w
  <2>3. /\ \E c \in Categories : w[c] > 0 /\ s[c] <= Overall(s, w)
        /\ \E c \in Categories : w[c] > 0 /\ Overall(s, w) <= s[c]
    BY <2>1, AverageBetween, Zenon
  <2> QED BY <2>2, <2>3, Zenon DEF s, w
<1> QED BY <1>2, AlwaysSandboxInv, PTL

\* With every lever at zero the baseline is carried forward, and the scores
\* are neutral.
THEOREM NothingMovedIsNeutral == SandboxSpec => []NothingMovedNeutral
<1>1. ASSUME SandboxInv PROVE NothingMovedNeutral
  <2> SUFFICES ASSUME Drawn, \A k \in Levers : levers[k] = 0
               PROVE  /\ \A year \in 0 .. assumptions.years :
                            shown.rows[year].deficit =
                               (loaded.baseline.spending - loaded.baseline.receipts)
                                  * Parts(assumptions)
                      /\ \A c \in Outcomes : shown.scores[c] = 5000
                      /\ shown.scores["implementation_complexity"] = 10000
    BY DEF NothingMovedNeutral
  <2>1. /\ \A k \in Members(RevenueLeverKeys) : levers[k] = 0
        /\ \A k \in Members(InvestmentLeverKeys) : levers[k] = 0
    BY KeysOfLevers
  <2>2. Total(levers, RevenueLeverKeys) = 0 /\ Total(levers, InvestmentLeverKeys) = 0
    BY <2>1, KeysOfLevers, TotalNought
  <2>3. ASSUME NEW year \in 0 .. assumptions.years
        PROVE  shown.rows[year].deficit =
                  (loaded.baseline.spending - loaded.baseline.receipts) * Parts(assumptions)
    <3> DEFINE row == Row(loaded.baseline, assumptions, 0, 0, year)
    <3>1. shown.rows[year] = row
      BY <1>1, <2>2, RowIs, Zenon
    <3>2. /\ loaded.baseline \in Baselines /\ assumptions \in FeedbackAssumptions
          /\ year \in Nat
      BY <1>1, ControlsAre DEF FeedbackAssumptions, AssumptionsIn
    <3>3. row.deficit = (loaded.baseline.spending - loaded.baseline.receipts) * Parts(assumptions)
      BY <3>2, IdleDeficit
    <3> HIDE DEF row
    <3> QED BY <3>1, <3>3, Zenon
  <2>4. levers \in [Levers -> Int]
    BY <1>1, ControlsAre
  <2>5. /\ \A c \in Outcomes : OutcomeScore(c, levers) = 5000
        /\ ComplexityScore(levers) = 10000
    BY <2>4, NeutralScores
  <2>6. shown.scores = ScoreCategoriesOf(assumptions, shown.rows, levers)
    BY <1>1, PageIs, Zenon
  <2>7. /\ \A c \in Outcomes : shown.scores[c] = 5000
        /\ shown.scores["implementation_complexity"] = 10000
    <3> DEFINE sc == ScoreCategoriesOf(assumptions, shown.rows, levers)
    <3>1. /\ sc["implementation_complexity"] = ComplexityScore(levers)
          /\ \A c \in Outcomes : sc[c] = OutcomeScore(c, levers)
      BY ScoreOf, Zenon
    <3>2. shown.scores = sc
      BY <2>6
    <3> HIDE DEF sc
    <3> QED BY <2>5, <3>1, <3>2
  <2> QED BY <2>3, <2>7
<1> QED BY <1>1, AlwaysSandboxInv, PTL

\* A reset, and a preset chosen, show that preset: unless its file changed
\* after the page was drawn.
THEOREM ResetShowsPreset == SandboxSpec => ResetReturnsToPreset
<1>1. ASSUME SandboxInv, SandboxInv', NEW id \in PresetIds, preset' = id,
             Populate(loaded.scenarios.of[id]),
             shown'.stopped = "none", shown'.custom
      PROVE  loaded'.scenarios # loaded.scenarios
  <2>1. Settable(loaded.scenarios.of[id])
    BY <1>1, Zenon DEF SandboxInv, GoodLoad
  <2>2. Inputs(levers', assumptions') = InputsToState(loaded.scenarios.of[id])
    BY <1>1, <2>1, Populated, Zenon
  <2>3. shown' = Render(loaded', preset', levers', assumptions', profile')
    BY <1>1, Zenon DEF SandboxInv, Drawn
  <2> DEFINE page == Render(loaded', preset', levers', assumptions', profile')
             state == InputsToState(loaded.scenarios.of[id])
  <2>4. page.custom =
           IsCustom(levers', assumptions', InputsToState(loaded'.scenarios.of[preset']))
    BY Zenon DEF Render
  <2>5. shown'.custom = page.custom
    BY <2>3, Zenon
  <2> HIDE DEF page
  <2>6. IsCustom(levers', assumptions', InputsToState(loaded'.scenarios.of[id]))
    BY <1>1, <2>4, <2>5, Zenon
  <2>7. ~IsCustom(levers', assumptions', state)
    <3>1. state.levers \in [Levers -> Int]
      BY <2>1, Zenon DEF Settable, OnSliders
    <3>2. levers' = state.levers /\ assumptions' = state.assumptions
      BY <1>1, Zenon DEF Populate
    <3> HIDE DEF state
    <3>3. \A k \in Levers : state.levers[k] - state.levers[k] = 0
      BY <3>1
    <3>4. \A k \in Levers : Magnitude(levers'[k] - state.levers[k]) = 0
      BY <3>2, <3>3 DEF Magnitude
    <3> QED BY <3>2, <3>4, ToleranceAbove DEF IsCustom
  <2> QED BY <2>6, <2>7, Zenon DEF state
<1>2. SandboxInv /\ SandboxInv' /\ [SandboxNext]_sandboxVars
         => [(Reset \/ \E id \in PresetIds : ChoosePreset(id))
                => (shown'.stopped = "none" /\ shown'.custom
                       => loaded'.scenarios # loaded.scenarios)]_sandboxVars
  <2> SUFFICES ASSUME SandboxInv, SandboxInv', shown'.stopped = "none", shown'.custom,
                      Reset \/ \E id \in PresetIds : ChoosePreset(id)
               PROVE  loaded'.scenarios # loaded.scenarios
    BY Zenon
  <2>1. CASE Reset
    BY <1>1, <2>1, Zenon DEF Reset, ApplySelectedScenario, SandboxInv
  <2>2. ASSUME NEW id \in PresetIds, ChoosePreset(id)
        PROVE  loaded'.scenarios # loaded.scenarios
    BY <1>1, <2>2, Zenon DEF ChoosePreset, ApplySelectedScenario
  <2> QED BY <2>1, <2>2, Zenon
<1> QED BY <1>2, AlwaysSandboxInv, PTL DEF SandboxSpec, ResetReturnsToPreset

\* A loaded model would be saved again as what it was.
THEOREM LoadedAsSaved == SandboxSpec => LoadRestores
<1>1. ASSUME SandboxInv, LoadModel PROVE CurrentInputs(levers', assumptions') = saved
  BY <1>1, Populated, Zenon DEF LoadModel, SandboxInv, Restorable
<1>2. SandboxInv /\ [SandboxNext]_sandboxVars
         => [LoadModel => CurrentInputs(levers', assumptions') = saved]_sandboxVars
  BY <1>1, Zenon
<1> QED BY <1>2, AlwaysSandboxInv, PTL DEF SandboxSpec, LoadRestores

-----------------------------------------------------------------------------
(* The promises about two pages, one after the other.                      *)

\* What the two pages are computed from, and what they have of it.
PageFollows ==
    Drawn =>
    /\ levers \in [Levers -> Int] /\ assumptions \in FeedbackAssumptions
    /\ Total(levers, RevenueLeverKeys) \in Int
    /\ Total(levers, InvestmentLeverKeys) \in Nat
    /\ loaded.baseline \in Baselines
    /\ \A year \in 0 .. assumptions.years :
          /\ shown.rows[year] =
                Row(loaded.baseline, assumptions, Total(levers, RevenueLeverKeys),
                    Total(levers, InvestmentLeverKeys), year)
          /\ shown.rows[year].revenue_feedback =
                Feedback(assumptions, Total(levers, InvestmentLeverKeys),
                         assumptions.revenue_feedback_rate, year)
    /\ shown.scores["fiscal_sustainability"] = FiscalSustainabilityScore(assumptions, shown.rows)
    /\ shown.scores["implementation_complexity"] = ComplexityScore(levers)
    /\ \A c \in Outcomes : shown.scores[c] = OutcomeScore(c, levers)

LEMMA AlwaysPageFollows == SandboxSpec => []PageFollows
<1>1. ASSUME SandboxInv, Drawn PROVE PageFollows
  <2> DEFINE sc == ScoreCategoriesOf(assumptions, shown.rows, levers)
  <2>1. /\ sc["fiscal_sustainability"] = FiscalSustainabilityScore(assumptions, shown.rows)
        /\ sc["implementation_complexity"] = ComplexityScore(levers)
        /\ \A c \in Outcomes : sc[c] = OutcomeScore(c, levers)
    BY ScoreOf, Zenon
  <2>2. shown.scores = sc
    BY <1>1, PageIs
  <2> HIDE DEF sc
  <2> QED BY <1>1, <2>1, <2>2, ControlsAre, RowIs, FeedbackIs, Zenon DEF PageFollows
<1>2. SandboxInv => PageFollows
  BY <1>1, Zenon DEF PageFollows
<1> QED BY <1>2, AlwaysSandboxInv, PTL

\* Sooner never takes feedback away.
THEOREM SoonerNeverLess == SandboxSpec => SoonerIsNeverLess
<1>1. ASSUME PageFollows, PageFollows', Drawn, Drawn',
             levers' = levers, Rates(assumptions') = Rates(assumptions),
             assumptions'.lag_years <= assumptions.lag_years,
             assumptions'.years <= assumptions.years,
             NEW year \in 0 .. assumptions'.years
      PROVE  shown.rows[year].revenue_feedback * Parts(assumptions')
                <= shown'.rows[year].revenue_feedback * Parts(assumptions)
  <2> DEFINE a == assumptions
             b == assumptions'
             i == Total(levers, InvestmentLeverKeys)
             r == assumptions.revenue_feedback_rate
  <2>1. a \in FeedbackAssumptions /\ b \in FeedbackAssumptions /\ i \in Nat
    BY <1>1, Zenon DEF PageFollows
  <2>2. r \in Fraction
    BY <2>1, RatesAreFractions
  <2>3. /\ b.revenue_feedback_rate = r
        /\ b.implementation_quality = a.implementation_quality
        /\ b.optimism_penalty = a.optimism_penalty
    BY <1>1 DEF Rates
  <2>4. QualityAdjustedReturn(a) = QualityAdjustedReturn(b)
    BY <2>3, Zenon DEF QualityAdjustedReturn
  <2>5. year \in 0 .. a.years
    BY <1>1, <2>1 DEF FeedbackAssumptions, AssumptionsIn
  <2>6. shown.rows[year].revenue_feedback = Feedback(a, i, r, year)
    BY <1>1, <2>5, Zenon DEF PageFollows
  <2>7. shown'.rows[year].revenue_feedback = Feedback(b, i, r, year)
    BY <1>1, <2>3, Zenon DEF PageFollows
  <2>8. b.lag_years <= a.lag_years /\ b.years <= a.years /\ year \in 0 .. b.years
    BY <1>1
  <2> HIDE DEF a, b, i, r
  <2>9. Feedback(a, i, r, year) * Parts(b) <= Feedback(b, i, r, year) * Parts(a)
    BY <2>1, <2>2, <2>4, <2>8, SoonerFeedback
  <2> QED BY <2>6, <2>7, <2>9 DEF a, b
<1>2. PageFollows /\ PageFollows'
         => [Drawn /\ shown'.stopped = "none"
             /\ levers' = levers /\ Rates(assumptions') = Rates(assumptions)
             /\ assumptions'.lag_years <= assumptions.lag_years
             /\ assumptions'.years <= assumptions.years
                => \A year \in 0 .. assumptions'.years :
                      shown.rows[year].revenue_feedback * Parts(assumptions')
                         <= shown'.rows[year].revenue_feedback * Parts(assumptions)]_sandboxVars
  BY <1>1, Zenon DEF Drawn
<1> QED BY <1>2, AlwaysPageFollows, PTL DEF SandboxSpec, SoonerIsNeverLess

\* More revenue, a lower deficit in every year, no less sustainable.
THEOREM RevenueDoesNotHurt == SandboxSpec => RevenueNeverHurts
<1>1. ASSUME PageFollows, PageFollows', Drawn, Drawn',
             loaded'.baseline = loaded.baseline, assumptions' = assumptions,
             \A k \in Members(InvestmentLeverKeys) : levers'[k] = levers[k],
             \A k \in Members(RevenueLeverKeys) : levers'[k] >= levers[k],
             levers' # levers
      PROVE  /\ \A year \in 0 .. assumptions.years :
                   shown'.rows[year].deficit < shown.rows[year].deficit
             /\ shown'.scores["fiscal_sustainability"]
                   >= shown.scores["fiscal_sustainability"]
  <2> DEFINE b == loaded.baseline
             a == assumptions
             l == levers
             m == levers'
             i == Total(l, InvestmentLeverKeys)
             r == Total(l, RevenueLeverKeys)
             s == Total(m, RevenueLeverKeys)
             old == shown.rows
             new == shown'.rows
  <2>1. /\ b \in Baselines /\ a \in FeedbackAssumptions
        /\ l \in [Levers -> Int] /\ m \in [Levers -> Int]
        /\ i \in Int /\ r \in Int /\ s \in Int
    <3>1. i \in Nat /\ Nat \subseteq Int
      BY <1>1 DEF PageFollows
    <3> QED BY <1>1, <3>1, Zenon DEF PageFollows
  <2>2. \A year \in 0 .. a.years : old[year] = Row(b, a, r, i, year)
    BY <1>1, Zenon DEF PageFollows
  <2>3. \A year \in 0 .. a.years : new[year] = Row(b, a, s, Total(m, InvestmentLeverKeys), year)
    BY <1>1, Zenon DEF PageFollows
  <2>4. /\ shown.scores["fiscal_sustainability"] = FiscalSustainabilityScore(a, old)
        /\ shown'.scores["fiscal_sustainability"] = FiscalSustainabilityScore(a, new)
    BY <1>1, Zenon DEF PageFollows
  <2>5. /\ \A k \in Members(InvestmentLeverKeys) : m[k] = l[k]
        /\ \A k \in Members(RevenueLeverKeys) : l[k] <= m[k]
        /\ m # l
    BY <1>1
  <2> HIDE DEF b, a, l, m, i, r, s, old, new
  <2>6. Total(m, InvestmentLeverKeys) = i
    <3>1. \A k \in Members(InvestmentLeverKeys) : m[k] <= l[k] /\ l[k] <= m[k]
      BY <2>1, <2>5, KeysOfLevers
    <3>2. /\ Total(m, InvestmentLeverKeys) \in Int /\ Total(l, InvestmentLeverKeys) \in Int
          /\ Total(m, InvestmentLeverKeys) <= Total(l, InvestmentLeverKeys)
      BY <2>1, <3>1, KeysOfLevers, TotalsCompare
    <3>3. Total(l, InvestmentLeverKeys) <= Total(m, InvestmentLeverKeys)
      BY <2>1, <3>1, KeysOfLevers, TotalsCompare
    <3> QED BY <3>2, <3>3 DEF i
  <2>7. r < s
    <3>1. PICK k \in Levers : l[k] # m[k]
      BY <2>1, <2>5
    <3>2. k \in Members(RevenueLeverKeys)
      BY <2>5, <3>1 DEF Levers
    <3>3. l[k] < m[k]
      BY <2>1, <2>5, <3>1, <3>2
    <3>4. \E j \in Members(RevenueLeverKeys) : l[j] < m[j]
      BY <3>2, <3>3
    <3> QED BY <2>1, <2>5, <3>4, KeysOfLevers, TotalsCompare DEF r, s
  <2>8. ASSUME NEW year \in 0 .. a.years
        PROVE  /\ new[year].deficit < old[year].deficit
               /\ new[year].deficit_pct \in Int /\ old[year].deficit_pct \in Int
               /\ new[year].deficit_pct <= old[year].deficit_pct
    <3>1. /\ Row(b, a, s, i, year).deficit < Row(b, a, r, i, year).deficit
          /\ Row(b, a, s, i, year).deficit_pct \in Int
          /\ Row(b, a, r, i, year).deficit_pct \in Int
          /\ Row(b, a, s, i, year).deficit_pct <= Row(b, a, r, i, year).deficit_pct
      BY <2>1, <2>7, MoreRevenueLessDeficit
    <3>2. old[year] = Row(b, a, r, i, year) /\ new[year] = Row(b, a, s, i, year)
      BY <2>2, <2>3, <2>6, Zenon
    <3> QED BY <3>1, <3>2, Zenon
  <2>9. a.years \in 0 .. a.years
    BY <2>1 DEF FeedbackAssumptions, AssumptionsIn
  <2>10. FiscalSustainabilityScore(a, old) <= FiscalSustainabilityScore(a, new)
    BY <2>8, <2>9, SustainabilityFollows
  <2>11. shown'.scores["fiscal_sustainability"] >= shown.scores["fiscal_sustainability"]
    BY <2>4, <2>10
  <2> QED BY <2>8, <2>11 DEF a, old, new
<1>2. PageFollows /\ PageFollows'
         => [Drawn /\ shown'.stopped = "none"
             /\ loaded'.baseline = loaded.baseline /\ assumptions' = assumptions
             /\ (\A k \in Members(InvestmentLeverKeys) : levers'[k] = levers[k])
             /\ (\A k \in Members(RevenueLeverKeys) : levers'[k] >= levers[k])
             /\ levers' # levers
                => /\ \A year \in 0 .. assumptions.years :
                         shown'.rows[year].deficit < shown.rows[year].deficit
                   /\ shown'.scores["fiscal_sustainability"]
                         >= shown.scores["fiscal_sustainability"]]_sandboxVars
  BY <1>1, Zenon DEF Drawn
<1> QED BY <1>2, AlwaysPageFollows, PTL DEF SandboxSpec, RevenueNeverHurts

\* The scores follow the one lever that moves.
THEOREM ScoresFollow == SandboxSpec => ScoresFollowLevers
<1>1. ASSUME PageFollows, PageFollows', Drawn, Drawn',
             NEW k \in Levers, \A j \in Levers \ {k} : levers'[j] = levers[j]
      PROVE  /\ \A c \in Outcomes :
                   Contributions[c][k] * (levers'[k] - levers[k]) >= 0
                      => shown'.scores[c] >= shown.scores[c]
             /\ Magnitude(levers'[k]) >= Magnitude(levers[k])
                   => shown'.scores["implementation_complexity"]
                         <= shown.scores["implementation_complexity"]
  <2> DEFINE l == levers
             m == levers'
             sc == shown.scores
             tc == shown'.scores
  <2>1. /\ l \in [Levers -> Int] /\ m \in [Levers -> Int]
        /\ sc["implementation_complexity"] = ComplexityScore(l)
        /\ tc["implementation_complexity"] = ComplexityScore(m)
        /\ \A c \in Outcomes : sc[c] = OutcomeScore(c, l)
        /\ \A c \in Outcomes : tc[c] = OutcomeScore(c, m)
    BY <1>1, Zenon DEF PageFollows
  <2>2. \A j \in Levers \ {k} : m[j] = l[j]
    BY <1>1
  <2> HIDE DEF l, m, sc, tc
  <2>3. ASSUME NEW c \in Outcomes, Contributions[c][k] * (m[k] - l[k]) >= 0
        PROVE  tc[c] >= sc[c]
    <3>1. OutcomeScore(c, l) <= OutcomeScore(c, m)
      BY <2>1, <2>2, <2>3, OutcomeFollows
    <3> QED BY <2>1, <3>1
  <2>4. ASSUME Magnitude(m[k]) >= Magnitude(l[k])
        PROVE  tc["implementation_complexity"] <= sc["implementation_complexity"]
    <3>1. ComplexityScore(m) <= ComplexityScore(l)
      BY <2>1, <2>2, <2>4, ComplexityFollows
    <3> QED BY <2>1, <3>1
  <2> QED BY <2>3, <2>4, Zenon DEF l, m, sc, tc
<1>2. PageFollows /\ PageFollows'
         => [Drawn /\ shown'.stopped = "none" =>
             \A k \in Levers :
                levers'[k] # levers[k] /\ (\A j \in Levers \ {k} : levers'[j] = levers[j])
                   => /\ \A c \in Outcomes :
                            Contributions[c][k] * (levers'[k] - levers[k]) >= 0
                               => shown'.scores[c] >= shown.scores[c]
                      /\ Magnitude(levers'[k]) >= Magnitude(levers[k])
                            => shown'.scores["implementation_complexity"]
                                  <= shown.scores["implementation_complexity"]]_sandboxVars
  BY <1>1, Zenon DEF Drawn
<1> QED BY <1>2, AlwaysPageFollows, PTL DEF SandboxSpec, ScoresFollowLevers
=============================================================================
