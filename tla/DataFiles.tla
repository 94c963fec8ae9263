------------------------------ MODULE DataFiles ------------------------------
(***************************************************************************)
(* The three files a page is computed from, which their curators edit by   *)
(* hand, and what load_baseline, load_scenarios and                        *)
(* load_weighting_profiles make of them: all that the page needs of the    *)
(* file, or Refused.  A file, a block or a value that is not what it       *)
(* should be at all (missing, not a mapping, text for a number, nan) is    *)
(* Junk.  The names and summaries, read and checked as the ids are, are    *)
(* left out.                                                               *)
(***************************************************************************)
EXTENDS Scoring

CONSTANTS
    Grain,    \* a float holds a part to one in Grain
    Junk,
    Refused

ASSUME DataFilesAssumption == Grain \in Nat \ {0}

-----------------------------------------------------------------------------
(* baseline.csv: its rows, whose metrics may be blank or come twice.       *)

NamedRows(rows) == {i \in DOMAIN rows : rows[i].metric # ""}

\* The last row of a metric is the one that counts.
ValueOf(rows, metric) ==
    rows[CHOOSE i \in NamedRows(rows) :
            /\ rows[i].metric = metric
            /\ \A j \in NamedRows(rows) : rows[j].metric = metric => j <= i].value

BaselineIn(rows) ==
    [receipts |-> ValueOf(rows, "Total receipts"),
     spending |-> ValueOf(rows, "Total spending"),
     gdp |-> ValueOf(rows, "Implied GDP")]

\* Wrong: the ranges are left to Baseline, which checks GDP alone.
LoadBaselineUnchecked(doc) ==
    IF /\ doc # Junk
       /\ \A i \in NamedRows(doc.rows) : doc.rows[i].value \in Int
       /\ \A metric \in {"Total receipts", "Total spending", "Implied GDP"} :
             \E i \in NamedRows(doc.rows) : doc.rows[i].metric = metric
       /\ BaselineIn(doc.rows).gdp > 0
    THEN BaselineIn(doc.rows)
    ELSE Refused

LoadBaseline(doc) ==
    IF /\ doc # Junk
       /\ \A i \in NamedRows(doc.rows) : doc.rows[i].value \in Int
       /\ \A metric \in {"Total receipts", "Total spending", "Implied GDP"} :
             \E i \in NamedRows(doc.rows) : doc.rows[i].metric = metric
       /\ BaselineIn(doc.rows) \in Baselines
    THEN BaselineIn(doc.rows)
    ELSE Refused

-----------------------------------------------------------------------------
(* The two YAML files: a version, and a list of entries with an id each.   *)

IdsOf(entries) == {entries[i].id : i \in DOMAIN entries}

Listed(doc) ==
    /\ doc # Junk
    /\ doc.schema_version = 1
    /\ doc.entries # Junk /\ 1 \in DOMAIN doc.entries
    /\ \A i \in DOMAIN doc.entries :
          /\ doc.entries[i] # Junk
          /\ doc.entries[i].id # ""
          /\ \A j \in DOMAIN doc.entries :
                i # j => doc.entries[i].id # doc.entries[j].id

Entry(entries, id) == entries[CHOOSE i \in DOMAIN entries : entries[i].id = id]

\* A scenario sets every lever and every assumption, and nothing else.
IsScenario(raw) ==
    /\ raw.revenue_levers \in [Members(RevenueLeverKeys) -> Int]
    /\ raw.investment_levers \in [Members(InvestmentLeverKeys) -> Int]
    /\ raw.assumptions \in AssumptionsIn(Grain)

Inputs(l, a) == [levers |-> l, assumptions |-> a]

Scenario(raw) ==
    Inputs([k \in Levers |-> IF k \in Members(RevenueLeverKeys)
                             THEN raw.revenue_levers[k] ELSE raw.investment_levers[k]],
           raw.assumptions)

\* The dict keeps the order of the file, of which the page needs the first.
LoadScenarios(doc) ==
    IF Listed(doc) /\ \A i \in DOMAIN doc.entries : IsScenario(doc.entries[i])
    THEN [first |-> doc.entries[1].id,
          of |-> [id \in IdsOf(doc.entries) |-> Scenario(Entry(doc.entries, id))]]
    ELSE Refused

LoadWeightingProfiles(doc) ==
    IF Listed(doc) /\ \A i \in DOMAIN doc.entries : doc.entries[i].weights \in Weights
    THEN [first |-> doc.entries[1].id,
          of |-> [id \in IdsOf(doc.entries) |-> Entry(doc.entries, id).weights]]
    ELSE Refused

-----------------------------------------------------------------------------
(* What the script body reads, in this order, stopping at the first file   *)
(* that is refused.                                                        *)

FirstRefused(files) ==
    CASE LoadBaseline(files.baseline) = Refused -> "baseline"
      [] LoadScenarios(files.scenarios) = Refused -> "scenarios"
      [] LoadWeightingProfiles(files.profiles) = Refused -> "profiles"
      [] OTHER -> "none"

Load(files) ==
    [baseline |-> LoadBaseline(files.baseline),
     scenarios |-> LoadScenarios(files.scenarios),
     profiles |-> LoadWeightingProfiles(files.profiles)]
=============================================================================
