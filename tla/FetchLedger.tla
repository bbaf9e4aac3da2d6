---------------------------- MODULE FetchLedger ----------------------------
(***************************************************************************)
(* The ledger of the raw dump: what fetch_manifest.json says about an      *)
(* endpoint that keeps one file per security and year (daily, adj_factor,  *)
(* daily_basic), and the files themselves.  A run of 01 reads the          *)
(* manifest, decides per file whether to trust, verify or re-pull it, and  *)
(* merges what it found into the manifest at its very end; it may be       *)
(* killed before.  Runs do not overlap (the updater's lock covers the      *)
(* dump).                                                                  *)
(*                                                                         *)
(* src/data/tushare/fetcher.py, fetch_manifest.py,                         *)
(* scripts/data_pipeline/01_fetch_tushare.py                               *)
(***************************************************************************)
EXTENDS Integers, FiniteSets, FiniteSetsExt

CONSTANTS
    Tickers,      \* 1..n, in the order of the universe
    Window,       \* the days each of them is listed
    YearLength,   \* days of a year
    LastYear,     \* the years are 1..LastYear
    Trading,      \* the exchange calendar
    Ranges,       \* the <<start, end>> arguments of the runs
    MinShort      \* SYSTEMIC_SHORTFALL_MIN_CHECKED

Years == 1..LastYear
Days == 1..(LastYear * YearLength)
Year(y) == ((y - 1) * YearLength + 1)..(y * YearLength)
YearOf(d) == ((d - 1) \div YearLength) + 1
Units == Tickers \X Years
Systemic == <<0, 0>>                  \* the unit "systemic-shortfall"
Prerequisite == <<0, 1>>              \* the unit "prerequisite stock_basic incomplete"
EndpointHoles == {Systemic, Prerequisite}
NoManifest == [lo |-> 0, hi |-> 0, holes |-> {}]
NoFile == {0}

ASSUME LedgerAssumption ==
    /\ IsFiniteSet(Tickers) /\ Tickers = 1..Cardinality(Tickers)
    /\ YearLength \in Nat \ {0} /\ LastYear \in Nat \ {0}
    /\ Window \in [Tickers -> SUBSET Days] /\ Trading \subseteq Days
    /\ \A r \in Ranges : r[1] \in Days /\ r[2] \in Days /\ r[1] <= r[2]

VARIABLES
    file,        \* the days in the file of each unit, NoFile if there is none
    manifest,    \* fetch_manifest.json: coverage [lo, hi] and holes
    published,   \* the last day the vendor has published
    run,         \* the run of 01, if one is alive
    warned,      \* sessions an answer ended short of, and no later one had
    attempted    \* units with a prior hole that the run came back to

ledgerVars == <<file, manifest, published, run, warned, attempted>>

(* at: the next unit in the order of the loop; mark: the watermark of      *)
(* assume_verified_ranges, {} if there is none or the run re-verifies all. *)
Run == [lo : Days, hi : Days, at : Nat, wrote : BOOLEAN, verified : BOOLEAN,
        holes : SUBSET (Units \cup EndpointHoles), short : [Years -> SUBSET Tickers],
        mark : SUBSET Days]

NoRun == [lo |-> 0]
Alive == run # NoRun

LedgerTypeOK ==
    /\ file \in [Units -> {NoFile} \cup SUBSET Days]
    /\ manifest = NoManifest
       \/ manifest \in [lo : Days, hi : Days, holes : SUBSET (Units \cup EndpointHoles)]
    /\ published \in Days \cup {0}
    /\ run = NoRun \/ run \in Run
    /\ warned \subseteq Tickers \X Days
    /\ attempted \subseteq Units

LedgerInit ==
    /\ file = [u \in Units |-> NoFile]
    /\ manifest = NoManifest
    /\ published = 0
    /\ run = NoRun
    /\ warned = {}
    /\ attempted = {}
---------------------------------------------------------------------------
(* Trading day by trading day the vendor publishes what happened.          *)
VendorPublishes ==
    /\ published + 1 \in Days
    /\ published' = published + 1
    /\ UNCHANGED <<file, manifest, run, warned, attempted>>

(* The loop over the years and, in each, over the securities.              *)
LoopStart(lo) == (YearOf(lo) - 1) * Cardinality(Tickers)
LoopEnd(hi) == YearOf(hi) * Cardinality(Tickers)

Complete(m) == m # NoManifest /\ m.holes = {}

Watermark(m) == IF Complete(m) THEN m.lo..m.hi ELSE {}

StartRun(r, all) ==
    /\ ~Alive
    /\ run' = [lo |-> r[1], hi |-> r[2], at |-> LoopStart(r[1]),
               wrote |-> FALSE, verified |-> FALSE, holes |-> {}, short |-> [y \in Years |-> {}],
               mark |-> IF all THEN {} ELSE Watermark(manifest)]
    /\ UNCHANGED <<file, manifest, published, warned, attempted>>

(* Killed, or aborted by an error that is not worth a retry: the manifest  *)
(* stays as it was.                                                        *)
RunDies ==
    /\ Alive
    /\ run' = NoRun /\ attempted' = {}
    /\ UNCHANGED <<file, manifest, published, warned>>

(* --reset-manifest, "the ONLY path that deletes the manifest".            *)
ResetManifest ==
    /\ ~Alive
    /\ manifest' = NoManifest
    /\ UNCHANGED <<file, published, run, warned, attempted>>
---------------------------------------------------------------------------
(* The unit the loop has come to, and the slice of the request it gets.    *)
UnitAt == <<(run.at % Cardinality(Tickers)) + 1, (run.at \div Cardinality(Tickers)) + 1>>
InLoop == Alive /\ run.at < LoopEnd(run.hi)

Slice(y) == (run.lo..run.hi) \cap Year(y)
Listed(u) == Slice(u[2]) \cap Window[u[1]]
Expected(u) == Listed(u) \cap Trading

(* A past year is scanned again unless its whole slice was attested.       *)
ScanYear(y) ==
    LET sessions == {d \in Trading : d <= Max(Slice(y))} IN
    \/ y = YearOf(run.hi)
    \/ run.mark = {}
    \/ sessions # {} /\ Max(sessions) > Max(run.mark)
    \/ Min(Slice(y)) < Min(run.mark)

CameBackTo(u) == attempted \cup ({u} \cap manifest.holes)

Exists(u) == file[u] # NoFile
Forced(u) == u \in manifest.holes       \* force_retry, read at the start
HolidayOnly(u) == Exists(u) /\ Expected(u) = {} /\ Listed(u) # {}

FreshAtEnd(u) ==                                            \* mutant: only the end counts
    IF Expected(u) = {} THEN file[u] = {}
    ELSE file[u] # {} /\ Max(file[u]) >= Max(Expected(u))

(* _read_file_trade_date_bounds and _placeholder_is_clean.                 *)
Fresh(u) ==
    IF Expected(u) = {} THEN file[u] = {}
    ELSE file[u] # {} /\ Min(file[u]) <= Min(Expected(u)) /\ Max(file[u]) >= Max(Expected(u))

(* _scan_year_freshness, and the skip of a holiday-only slice.             *)
SkipsBlind(u) == Exists(u) /\ ~Forced(u) /\ ~ScanYear(u[2])
SkipsVerified(u) ==
    /\ Exists(u) /\ ~SkipsBlind(u)
    /\ HolidayOnly(u) \/ (~Forced(u) /\ Fresh(u))
Pulls(u) == ~SkipsBlind(u) /\ ~SkipsVerified(u)

(* _year_overwrite_refusal: the request must cover the history it replaces.*)
Covers(u) == file[u] \subseteq Min(Slice(u[2]))..Max(Slice(u[2]))
OverwritableAnyway(u) == u \in Units                        \* mutant

Overwritable(u) == Exists(u) => Covers(u)

(* The list of securities is not there because stock_basic failed earlier  *)
(* in this run: one hole for the endpoint, and no unit is looked at.       *)
PrerequisiteHole ==
    /\ InLoop /\ run.at = LoopStart(run.lo)
    /\ run' = [run EXCEPT !.at = LoopEnd(run.hi), !.holes = {Prerequisite}]
    /\ UNCHANGED <<file, manifest, published, warned, attempted>>

Skip ==
    /\ InLoop
    /\ LET u == UnitAt IN
       /\ ~Pulls(u)
       /\ run' = [run EXCEPT !.at = @ + 1, !.verified = @ \/ SkipsVerified(u)]
       /\ attempted' = IF SkipsVerified(u) THEN CameBackTo(u) ELSE attempted
    /\ UNCHANGED <<file, manifest, published, warned>>

(* Retries exhausted, or the overwrite refused: the file stays, with a hole*)
PullHoles ==
    /\ InLoop
    /\ Pulls(UnitAt)
    /\ run' = [run EXCEPT !.at = @ + 1, !.holes = @ \cup {UnitAt}]
    /\ attempted' = CameBackTo(UnitAt)
    /\ UNCHANGED <<file, manifest, published, warned>>

(* The vendor answers with every listed session it has published.  An      *)
(* answer that ends before the expected last session is counted, and warned*)
(* about.                                                                  *)
PullAnswers ==
    /\ InLoop
    /\ LET u == UnitAt
           answer == {d \in Expected(u) : d <= published}
           isShort == Expected(u) # {} /\ Max(Expected(u)) \notin answer IN
       /\ Pulls(u) /\ Overwritable(u)
       /\ file' = [file EXCEPT ![u] = answer]
       /\ run' = [run EXCEPT !.at = @ + 1, !.wrote = TRUE,
                             !.short[u[2]] = IF isShort THEN @ \cup {u[1]} ELSE @]
       /\ warned' = (warned \ {<<u[1], d>> : d \in answer})
                        \cup {<<u[1], d>> : d \in IF isShort THEN Expected(u) \ answer ELSE {}}
       /\ attempted' = CameBackTo(u)
    /\ UNCHANGED <<manifest, published>>
---------------------------------------------------------------------------
(* _check_systemic_shortfall: more than nine tenths of a year's securities.*)
Universe(y) == {t \in Tickers : Expected(<<t, y>>) # {}}

IsSystemic ==
    \E y \in YearOf(run.lo)..YearOf(run.hi) :
        /\ Cardinality(run.short[y]) >= MinShort
        /\ Cardinality(run.short[y]) * 10 > Cardinality(Universe(y)) * 9

HolesAdded == manifest.holes \cup run.holes                  \* mutant: a prior hole is carried

HolesOfRun == run.holes \cup (IF IsSystemic THEN {Systemic} ELSE {})

NarrowerIfInside ==                                         \* mutant: an overlap passes
    manifest.holes # {} /\ run.lo > manifest.lo /\ run.hi < manifest.hi

(* merge_manifest refuses a narrower run over holes, and a gap.            *)
Narrower == manifest.holes # {} /\ (run.lo > manifest.lo \/ run.hi < manifest.hi)
Disjoint == run.lo - manifest.hi > 1 \/ manifest.lo - run.hi > 1

MergeRefused == manifest # NoManifest /\ (Narrower \/ Disjoint)

MergedIntoNothing ==                                        \* mutant: a first merge is not told apart
    [lo |-> Min({manifest.lo, run.lo}), hi |-> Max({manifest.hi, run.hi}), holes |-> HolesOfRun]

Merged ==
    IF manifest = NoManifest \/ run.wrote \/ run.verified
    THEN [lo |-> IF manifest = NoManifest THEN run.lo ELSE Min({manifest.lo, run.lo}),
          hi |-> IF manifest = NoManifest THEN run.hi ELSE Max({manifest.hi, run.hi}),
          holes |-> HolesOfRun]
    ELSE [manifest EXCEPT !.holes = HolesOfRun]

AtEnd == Alive /\ ~InLoop

MergeManifest ==
    /\ AtEnd /\ ~MergeRefused
    /\ manifest' = Merged
    /\ run' = NoRun /\ attempted' = {}
    /\ UNCHANGED <<file, published, warned>>

RefuseMerge ==
    /\ AtEnd /\ MergeRefused
    /\ run' = NoRun /\ attempted' = {}
    /\ UNCHANGED <<file, manifest, published, warned>>

RunStep == PrerequisiteHole \/ Skip \/ PullHoles \/ PullAnswers \/ MergeManifest \/ RefuseMerge

LedgerNext ==
    \/ VendorPublishes
    \/ \E r \in Ranges, all \in BOOLEAN : StartRun(r, all)
    \/ RunDies
    \/ ResetManifest
    \/ RunStep

LedgerSpec == LedgerInit /\ [][LedgerNext]_ledgerVars
---------------------------------------------------------------------------
(* The sessions of a unit that the manifest vouches for.                   *)
Covered(u) == (manifest.lo..manifest.hi) \cap Year(u[2]) \cap Window[u[1]] \cap Trading

(* "coverage+holes must together reflect the real state of every unit"     *)
(* (fetch_manifest.py:263): inside the coverage, a unit without a hole has *)
(* every session, but for those the vendor's last answer ended short of,   *)
(* which the run warned of (fetcher.py:1580-1602).  A hole of the endpoint *)
(* as a whole stands for all of its units.                                 *)
CoverageIsTrue ==
    manifest # NoManifest /\ manifest.holes \cap EndpointHoles = {} =>
        \A u \in Units \ manifest.holes :
            \A d \in Covered(u) : d \in file[u] \/ <<u[1], d>> \in warned

(* A session that is on disk stays: a clipped request never replaces a file *)
(* that reaches further (fetcher.py:1456-1512).  The vendor of this model  *)
(* does not take back what it published.                                   *)
HistorySurvives ==
    [][\A u \in Units : file[u] \ NoFile \subseteq file'[u]]_ledgerVars

(* Inside the coverage a hole is dropped only by a run that came back to   *)
(* its unit (fetch_manifest.py:47-50), or that says in its place that it   *)
(* looked at no unit at all: what that sentence promises is not kept by    *)
(* the prerequisite hole, but such a manifest is not complete, and the     *)
(* next run trusts nothing.                                                *)
InCoverage(u) == Year(u[2]) \cap (manifest.lo..manifest.hi) # {}

CoveredHolesAreRetried ==
    [][MergeManifest /\ Prerequisite \notin manifest'.holes =>
          \A u \in manifest.holes \ (manifest'.holes \cup EndpointHoles) :
              InCoverage(u) => u \in attempted]_ledgerVars

(* The scheduler's runs ask for the whole range, and the vendor answers.   *)
Undisturbed ==
    \/ VendorPublishes
    \/ \E r \in Ranges : r = <<1, Max(Days)>> /\ StartRun(r, FALSE)
    \/ Skip \/ MergeManifest \/ RefuseMerge
    \/ IF InLoop /\ Overwritable(UnitAt) THEN PullAnswers ELSE PullHoles

LedgerFairSpec == LedgerSpec /\ WF_ledgerVars(Undisturbed) /\ WF_ledgerVars(VendorPublishes)

(* Whatever killed, narrower, failed and reset runs left behind, full runs *)
(* that are answered end in a manifest that covers everything and has no   *)
(* holes: no hole is carried for ever, no refusal is final.                *)
LedgerHeals ==
    <>[][Undisturbed]_ledgerVars =>
        <>[](Complete(manifest) /\ manifest.lo = 1 /\ manifest.hi = Max(Days))
===========================================================================
