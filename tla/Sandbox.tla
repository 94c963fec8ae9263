------------------------------- MODULE Sandbox -------------------------------
(***************************************************************************)
(* The scenario controls of app.py and what the page shows for them.  One  *)
(* browser session: every event first runs the callback of its widget, a   *)
(* function of the previous run of the script, and then the script body,   *)
(* which reads the three data files again and computes the projection and  *)
(* the scores.  The files are edited by hand at any time.  Saving a model  *)
(* and loading it are here what they do to the controls; the store itself  *)
(* and its owners are in PolicyApp.                                        *)
(***************************************************************************)
EXTENDS DataFiles

CONSTANTS
    Versions,     \* what the three files may hold, one after the other
    PresetIds,    \* the ids of the presets, and
    ProfileIds,   \* of the weighting profiles, in every version that loads
    LeverRange,   \* lever -> the values its slider may be moved to
    SliderRange,  \* assumption -> the values its slider may be moved to
    FloatError,   \* percentage -> what the float v / 100 is off, in grains
    Tolerance,    \* 1e-9, of the levers' unit
    Savable,      \* bound: the controls are saved as a model only at these
    NoModel

VARIABLES
    files,        \* the data files
    saved,        \* the inputs of a saved model, or NoModel
    preset,       \* session_state["scenario_select"]
    levers,       \* the lever sliders
    assumptions,  \* the assumption sliders
    profile,      \* session_state["weighting_select"]
    loaded,       \* the globals of the last run, which its callbacks see
    shown         \* what the page shows

controls == <<preset, levers, assumptions, profile>>
sandboxVars == <<files, saved, controls, loaded, shown>>

-----------------------------------------------------------------------------
\* _current_inputs: a rate is the float v / 100 of its slider's percentage,
\* which is a whole number of parts.
ToFloat(v) == Grain * v + FloatError[v]

CurrentInputs(l, a) ==
    Inputs(l, [years |-> a.years, lag_years |-> a.lag_years,
               growth_baseline |-> ToFloat(a.growth_baseline),
               revenue_feedback_rate |-> ToFloat(a.revenue_feedback_rate),
               cost_reduction_rate |-> ToFloat(a.cost_reduction_rate),
               implementation_quality |-> ToFloat(a.implementation_quality),
               optimism_penalty |-> ToFloat(a.optimism_penalty)])

\* round(x * 100, 4): a part stands for 0.0001 percent.
Rounded(x) == (2 * x + Grain) \div (2 * Grain)

\* _inputs_to_state: what the inputs of a preset or of a saved model set.
InputsToState(inputs) ==
    LET a == inputs.assumptions
    IN  Inputs(inputs.levers,
               [years |-> a.years, lag_years |-> a.lag_years,
                growth_baseline |-> Rounded(a.growth_baseline),
                revenue_feedback_rate |-> Rounded(a.revenue_feedback_rate),
                cost_reduction_rate |-> Rounded(a.cost_reduction_rate),
                implementation_quality |-> Rounded(a.implementation_quality),
                optimism_penalty |-> Rounded(a.optimism_penalty)])

\* A slider holds what it is set to, off its steps too, between its ends.
Within(v, range) == \E low, high \in range : low <= v /\ v <= high

OnSliders(state) ==
    /\ state.levers \in [Levers -> Int]
    /\ \A k \in Levers : Within(state.levers[k], LeverRange[k])
    /\ state.assumptions \in FeedbackAssumptions
    /\ \A k \in DOMAIN SliderRange : Within(state.assumptions[k], SliderRange[k])

\* Every version that loads has the same ids and puts its presets within the
\* sliders; what Streamlit does with a value beyond them is not modelled.
ASSUME SandboxAssumption ==
    /\ \A v \in Versions : FirstRefused(v) = "none" =>
          /\ DOMAIN LoadScenarios(v.scenarios).of = PresetIds
          /\ DOMAIN LoadWeightingProfiles(v.profiles).of = ProfileIds
          /\ \A p \in PresetIds : OnSliders(InputsToState(LoadScenarios(v.scenarios).of[p]))
    /\ \A k \in Levers : LeverRange[k] \subseteq Int
    /\ \A k \in Members(InvestmentLeverKeys) : LeverRange[k] \subseteq Nat
    /\ SliderRange \in
          [years : SUBSET (Nat \ {0}), lag_years : SUBSET Nat,
           growth_baseline : SUBSET Fraction,
           revenue_feedback_rate : SUBSET Fraction,
           cost_reduction_rate : SUBSET Fraction,
           implementation_quality : SUBSET Fraction,
           optimism_penalty : SUBSET Fraction]
    /\ \A v \in Fraction :
          FloatError[v] \in Int /\ -Grain < 2 * FloatError[v] /\ 2 * FloatError[v] < Grain
    /\ Tolerance \in Nat

-----------------------------------------------------------------------------
Stopped(file) == [stopped |-> file]

Drawn == shown.stopped = "none"

\* is_custom: levers are compared to the tolerance; percentages are whole
\* numbers of parts, a part is more than the tolerance, and so it is equality.
IsCustom(l, a, state) ==
    \/ \E k \in Levers : Magnitude(l[k] - state.levers[k]) > Tolerance
    \/ a # state.assumptions

\* Wrong: the assumptions may be moved without a mark.
RenderLeversMarked(ld, p, l, a, w) ==
    LET rows == ComputeFiscal(ld.baseline, a, l)
        scores == ScoreCategoriesOf(a, rows, l)
    IN  [stopped |-> "none", rows |-> rows, scores |-> scores,
         overall |-> Overall(scores, ld.profiles.of[w]),
         custom |-> IsCustom(l, a, Inputs(ld.scenarios.of[p].levers, a))]

\* The script body on these controls, once the files are loaded.
Render(ld, p, l, a, w) ==
    LET rows == ComputeFiscal(ld.baseline, a, l)
        scores == ScoreCategoriesOf(a, rows, l)
    IN  [stopped |-> "none", rows |-> rows, scores |-> scores,
         overall |-> Overall(scores, ld.profiles.of[w]),
         custom |-> IsCustom(l, a, InputsToState(ld.scenarios.of[p]))]

Body ==
    IF FirstRefused(files) = "none"
    THEN /\ loaded' = Load(files)
         /\ shown' = Render(Load(files), preset', levers', assumptions', profile')
    ELSE /\ shown' = Stopped(FirstRefused(files))
         /\ UNCHANGED loaded

\* Wrong: int(x * 100).
PopulateTruncated(inputs) ==
    /\ levers' = inputs.levers
    /\ assumptions' =
          [k \in DOMAIN inputs.assumptions |->
              IF k \in {"years", "lag_years"} THEN inputs.assumptions[k]
              ELSE inputs.assumptions[k] \div Grain]

\* Every slider is set, from a preset or a saved model.
Populate(inputs) ==
    /\ levers' = InputsToState(inputs).levers
    /\ assumptions' = InputsToState(inputs).assumptions

-----------------------------------------------------------------------------
MoveLever(k, v) ==
    /\ Drawn /\ v # levers[k]
    /\ levers' = [levers EXCEPT ![k] = v]
    /\ UNCHANGED <<files, saved, preset, assumptions, profile>>
    /\ Body

MoveAssumption(k, v) ==
    /\ Drawn /\ v # assumptions[k]
    /\ assumptions' = [assumptions EXCEPT ![k] = v]
    /\ UNCHANGED <<files, saved, preset, levers, profile>>
    /\ Body

\* Wrong: the sliders of the assumptions are left where they are.
ApplyLeversOnly(id) ==
    /\ levers' = InputsToState(loaded.scenarios.of[id]).levers
    /\ UNCHANGED assumptions

\* _apply_selected_scenario, with the presets of the run that drew the page.
ApplySelectedScenario(id) == Populate(loaded.scenarios.of[id])

ChoosePreset(id) ==
    /\ Drawn /\ id # preset
    /\ preset' = id
    /\ ApplySelectedScenario(id)
    /\ UNCHANGED <<files, saved, profile>>
    /\ Body

\* "Reset to preset values" is enabled on custom controls.
Reset ==
    /\ Drawn /\ shown.custom
    /\ ApplySelectedScenario(preset)
    /\ UNCHANGED <<files, saved, preset, profile>>
    /\ Body

ChooseProfile(id) ==
    /\ Drawn /\ id # profile
    /\ profile' = id
    /\ UNCHANGED <<files, saved, preset, levers, assumptions>>
    /\ Body

SaveModel ==
    /\ Drawn /\ Inputs(levers, assumptions) \in Savable
    /\ saved' = CurrentInputs(levers, assumptions)
    /\ UNCHANGED <<files, controls>>
    /\ Body

LoadModel ==
    /\ Drawn /\ saved # NoModel
    /\ Populate(saved)
    /\ UNCHANGED <<files, saved, preset, profile>>
    /\ Body

\* An event of any other panel.
Rerun ==
    /\ Drawn
    /\ UNCHANGED <<files, saved, controls>>
    /\ Body

\* A new session, seeded from the first preset when its script gets there.
Reload ==
    /\ IF FirstRefused(files) = "none"
       THEN LET ld == Load(files)
            IN  /\ preset' = ld.scenarios.first
                /\ Populate(ld.scenarios.of[ld.scenarios.first])
                /\ profile' = ld.profiles.first
       ELSE UNCHANGED controls
    /\ UNCHANGED <<files, saved>>
    /\ Body

\* A curator edits the files; the page is not told.
EditFiles(v) ==
    /\ v # files
    /\ files' = v
    /\ UNCHANGED <<saved, controls, loaded, shown>>

-----------------------------------------------------------------------------
SandboxInit ==
    /\ files \in {v \in Versions : FirstRefused(v) = "none"}
    /\ loaded = Load(files)
    /\ saved = NoModel
    /\ preset = loaded.scenarios.first
    /\ levers = InputsToState(loaded.scenarios.of[preset]).levers
    /\ assumptions = InputsToState(loaded.scenarios.of[preset]).assumptions
    /\ profile = loaded.profiles.first
    /\ shown = Render(loaded, preset, levers, assumptions, profile)

SandboxNext ==
    \/ \E k \in Levers : \E v \in LeverRange[k] : MoveLever(k, v)
    \/ \E k \in DOMAIN SliderRange : \E v \in SliderRange[k] : MoveAssumption(k, v)
    \/ \E id \in PresetIds : ChoosePreset(id)
    \/ Reset
    \/ \E id \in ProfileIds : ChooseProfile(id)
    \/ SaveModel
    \/ LoadModel
    \/ Rerun
    \/ Reload
    \/ \E v \in Versions : EditFiles(v)

SandboxSpec == SandboxInit /\ [][SandboxNext]_sandboxVars

-----------------------------------------------------------------------------
(* What the page promises.                                                 *)

\* "The engine can never run on impossible inputs" (docs/engine.md), whatever
\* the files are made to hold: what a page is computed from, what a reset
\* would set and what is saved is as the loaders and constructors demand.
PossibleInputs ==
    /\ loaded.baseline \in Baselines
    /\ \A id \in PresetIds : loaded.scenarios.of[id].assumptions \in AssumptionsIn(Grain)
    /\ \A id \in ProfileIds : loaded.profiles.of[id] \in Weights
    /\ preset \in PresetIds /\ profile \in ProfileIds
    /\ OnSliders(Inputs(levers, assumptions))

\* a and b are told apart by less than the page can show.
Alike(a, b) ==
    /\ \A k \in Levers : Magnitude(a.levers[k] - b.levers[k]) <= Tolerance
    /\ \A k \in DOMAIN SliderRange :
          IF k \in {"years", "lag_years"} THEN a.assumptions[k] = b.assumptions[k]
          ELSE Magnitude(a.assumptions[k] - b.assumptions[k]) < Grain

\* "Custom" and "Preset: ... (unmodified)" (app.py): the page says the second
\* only when the controls, as they would be saved, are within the tolerance
\* and one part of what the file has for the preset, which need not be a value
\* of the sliders nor the float they divide to; and it says the first only
\* when the controls would be saved as something else than the preset.
MarkTellsPreset ==
    Drawn => LET inputs == CurrentInputs(levers, assumptions)
             IN  IF shown.custom THEN inputs # loaded.scenarios.of[preset]
                 ELSE Alike(inputs, loaded.scenarios.of[preset])

\* "The Reset to preset values button returns every control to the selected
\* preset" (docs/scenarios.md), and so does choosing another: the page is not
\* marked as custom then, unless the file of the presets has changed since the
\* page was drawn, whose presets the callback still uses.
ResetReturnsToPreset ==
    [][(Reset \/ \E id \in PresetIds : ChoosePreset(id))
          => (shown'.stopped = "none" /\ shown'.custom
                 => loaded'.scenarios # loaded.scenarios)]_sandboxVars

\* A model that is loaded into the sliders, at any time, would be saved again
\* as what it was (_current_inputs after _inputs_to_state).
LoadRestores == [][LoadModel => CurrentInputs(levers', assumptions') = saved]_sandboxVars

Rates(a) == <<a.revenue_feedback_rate, a.cost_reduction_rate,
              a.implementation_quality, a.optimism_penalty>>

\* A shorter lag and a nearer horizon never take feedback away from a year,
\* although the horizon sets the speed of the ramp and the lag may be longer
\* than the projection (compute_fiscal's max(1, years - lag_years)).
SoonerIsNeverLess ==
    [][Drawn /\ shown'.stopped = "none"
       /\ levers' = levers /\ Rates(assumptions') = Rates(assumptions)
       /\ assumptions'.lag_years <= assumptions.lag_years
       /\ assumptions'.years <= assumptions.years
          => \A year \in 0 .. assumptions'.years :
                shown.rows[year].revenue_feedback * Parts(assumptions')
                   <= shown'.rows[year].revenue_feedback * Parts(assumptions)]_sandboxVars

\* The whole of the effect of this year's investment, at the end of the ramp.
FullEffect(a, l) ==
    Total(l, InvestmentLeverKeys) * a.revenue_feedback_rate * QualityAdjustedReturn(a) * RampLength(a)

\* Nothing comes back in the lag, what comes back never falls from one year to
\* the next, and when the lag ends before the horizon all of it is there in
\* the final year (compute_fiscal's lag_factor).
FullEffectWhenReached ==
    Drawn =>
    LET a == assumptions
        fb(year) == shown.rows[year].revenue_feedback
    IN  /\ a.lag_years < a.years => fb(a.years) = FullEffect(a, levers)
        /\ \A year \in 0 .. a.years - 1 : fb(year) <= fb(year + 1)
        /\ \A year \in 0 .. a.years : year <= a.lag_years => fb(year) = 0

\* "Full effect is always reached at the final projection year"
\* (docs/engine.md).
FullEffectAtTheEnd ==
    Drawn => shown.rows[assumptions.years].revenue_feedback = FullEffect(assumptions, levers)

\* More revenue from the same spending lowers the deficit of every year, and
\* never the sustainability score.
RevenueNeverHurts ==
    [][Drawn /\ shown'.stopped = "none"
       /\ loaded'.baseline = loaded.baseline /\ assumptions' = assumptions
       /\ (\A k \in Members(InvestmentLeverKeys) : levers'[k] = levers[k])
       /\ (\A k \in Members(RevenueLeverKeys) : levers'[k] >= levers[k])
       /\ levers' # levers
          => /\ \A year \in 0 .. assumptions.years :
                   shown'.rows[year].deficit < shown.rows[year].deficit
             /\ shown'.scores["fiscal_sustainability"]
                   >= shown.scores["fiscal_sustainability"]]_sandboxVars

\* When one lever moves, an outcome score moves with the sign of the published
\* coefficient or is clamped where it was, and moving the lever further from
\* zero never makes the scenario easier to deliver, whatever the others do.
ScoresFollowLevers ==
    [][Drawn /\ shown'.stopped = "none" =>
       \A k \in Levers :
          levers'[k] # levers[k] /\ (\A j \in Levers \ {k} : levers'[j] = levers[j])
             => /\ \A c \in Outcomes :
                      Contributions[c][k] * (levers'[k] - levers[k]) >= 0
                         => shown'.scores[c] >= shown.scores[c]
                /\ Magnitude(levers'[k]) >= Magnitude(levers[k])
                      => shown'.scores["implementation_complexity"]
                            <= shown.scores["implementation_complexity"]]_sandboxVars

\* Whatever the profile, the overall score lies between the least and the
\* greatest score of the categories it gives a weight (build_scorecard).
OverallBetween ==
    Drawn =>
    LET weighed == {c \in Categories : loaded.profiles.of[profile][c] > 0}
    IN  /\ \E c \in weighed : shown.scores[c] <= shown.overall
        /\ \E c \in weighed : shown.overall <= shown.scores[c]

\* With every lever at zero the baseline is carried forward: its deficit in
\* every year, neutral outcomes, nothing hard to deliver.
NothingMovedNeutral ==
    Drawn /\ (\A k \in Levers : levers[k] = 0)
       => /\ \A year \in 0 .. assumptions.years :
                shown.rows[year].deficit = (loaded.baseline.spending - loaded.baseline.receipts) * Parts(assumptions)
          /\ \A c \in Outcomes : shown.scores[c] = 5000
          /\ shown.scores["implementation_complexity"] = 10000
=============================================================================
