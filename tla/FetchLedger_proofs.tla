------------------------ MODULE FetchLedger_proofs ------------------------
(***************************************************************************)
(* Proofs about the ledger of the raw dump, for any securities, calendar,  *)
(* years and ranges of the runs: what the manifest vouches for is on disk  *)
(* or was warned about, no run takes a session from disk, and no run drops *)
(* a hole it did not come back to.                                         *)
(***************************************************************************)
EXTENDS FetchLedger, FiniteSetTheorems, WellFoundedInduction, TLAPS

Size == Cardinality(Tickers)

(* The place of a unit in the order of the loop, and those a run has been  *)
(* at.                                                                     *)
Index(u) == (u[2] - 1) * Size + (u[1] - 1)
Visited(u) == YearOf(run.lo) <= u[2] /\ Index(u) < run.at

SessionsOf(u) == Year(u[2]) \cap Window[u[1]] \cap Trading

(* A file holds published sessions of its unit, without a gap.             *)
Files ==
    \A u \in Units : Exists(u) =>
        /\ file[u] \subseteq {d \in SessionsOf(u) : d <= published}
        /\ \A d \in SessionsOf(u) : \A x, y \in file[u] : x <= d /\ d <= y => d \in file[u]

(* A session that is on disk, or that the vendor's last answer ended short *)
(* of.                                                                     *)
Known(u, d) == d \in file[u] \/ <<u[1], d>> \in warned

(* What a run has found out so far: of the units it left behind without a  *)
(* hole it knows every session it was asked for, and it came back to every *)
(* prior hole among them.  A run without the list of securities has found  *)
(* out nothing, and says so.                                               *)
Findings ==
    Alive =>
        /\ run.lo <= run.hi
        /\ run.mark \in {{}, Watermark(manifest)}
        /\ (YearOf(run.lo) - 1) * Size <= run.at
        /\ Prerequisite \notin run.holes =>
            /\ \A u \in Units \ run.holes : Visited(u) => \A d \in Expected(u) : Known(u, d)
            /\ \A u \in Units \cap manifest.holes : Visited(u) => u \in attempted

LedgerInv == LedgerTypeOK /\ Files /\ Findings /\ CoverageIsTrue
---------------------------------------------------------------------------
(* Arithmetic of the loop and of the calendar.                             *)
LEMMA Multiples ==
    ASSUME NEW a \in Int, NEW b \in Int, NEW n \in Nat, a <= b
    PROVE  a * n <= b * n /\ a * n \in Int /\ b * n \in Int
<1>1. /\ b * n = a * n + (b - a) * n /\ (b - a) * n >= 0
      /\ a * n \in Int /\ b * n \in Int /\ (b - a) * n \in Int
  BY Z3
<1> QED
  BY <1>1

LEMMA Product ==
    ASSUME NEW a \in Int, NEW n \in Int PROVE (a - 1) * n = a * n - n /\ a * n \in Int
BY Z3

LEMMA Quotient ==
    ASSUME NEW a \in Nat, NEW n \in Nat \ {0}
    PROVE  /\ a \div n \in Nat /\ a % n \in 0..(n - 1)
           /\ a = (a \div n) * n + (a % n)
           /\ (a \div n) * n <= a /\ a < (a \div n) * n + n
BY Z3

(* There is only one way to write a number in base n.                      *)
LEMMA QuotientUnique ==
    ASSUME NEW q \in Int, NEW p \in Int, NEW n \in Nat \ {0},
           NEW r \in 0..(n - 1), NEW s \in 0..(n - 1), q * n + r = p * n + s
    PROVE  q = p /\ r = s
<1>1. q * n \in Int /\ p * n \in Int
  BY Z3
<1>2. ASSUME q < p PROVE FALSE
  <2>1. (q + 1) * n <= p * n
    BY <1>2, Multiples
  <2>2. (q + 1) * n = q * n + n
    BY Z3
  <2> QED
    BY <1>1, <2>1, <2>2
<1>3. ASSUME p < q PROVE FALSE
  <2>1. (p + 1) * n <= q * n
    BY <1>3, Multiples
  <2>2. (p + 1) * n = p * n + n
    BY Z3
  <2> QED
    BY <1>1, <2>1, <2>2
<1> QED
  BY <1>1, <1>2, <1>3

(* A non-empty set of naturals has a least element, a non-empty set of     *)
(* days also a greatest one.                                               *)
LEMMA LeastNatural == ASSUME NEW S \in SUBSET Nat, S # {} PROVE \E x \in S : \A y \in S : x <= y
<1> DEFINE R == OpToRel(<, Nat)
<1>1. IsWellFoundedOn(R, Nat)
  BY NatLessThanWellFounded
<1>2. \A x, y \in Nat : y < x => <<y, x>> \in R
  BY DEF OpToRel
<1> HIDE DEF R
<1>3. PICK x \in S : \A y \in S : ~(<<y, x>> \in R)
  BY <1>1, WFMin
<1>4. x \in Nat /\ \A y \in S : y \in Nat /\ ~(y < x)
  BY <1>2, <1>3
<1> QED
  BY <1>4

LEMMA LastDayNat == LastYear * YearLength \in Nat /\ Days \subseteq Nat \ {0}
<1>1. \A a, b \in Nat : a * b \in Nat
  BY Z3
<1> QED
  BY <1>1, LedgerAssumption DEF Days

LEMMA Extremes ==
    ASSUME NEW S \in SUBSET Days, S # {}
    PROVE  /\ Min(S) \in S /\ \A y \in S : Min(S) <= y
           /\ Max(S) \in S /\ \A y \in S : y <= Max(S)
<1> DEFINE last == LastYear * YearLength
           T == {last - y : y \in S}
<1>1. S \subseteq Nat /\ last \in Nat /\ \A y \in S : y <= last
  BY LastDayNat DEF Days
<1> HIDE DEF last
<1>2. \E x \in S : \A y \in S : x <= y
  BY <1>1, LeastNatural
<1>3. T \subseteq Nat /\ T # {}
  <2>1. \A y \in S : last - y \in Nat
    BY <1>1
  <2> QED
    BY <2>1
<1>4. PICK t \in T : \A y \in T : t <= y
  BY <1>3, LeastNatural
<1>5. PICK x \in S : t = last - x
  BY <1>4
<1>6. \A y \in S : x >= y
  BY <1>1, <1>4, <1>5
<1>7. Min(S) \in S /\ \A y \in S : Min(S) =< y
  BY <1>2 DEF Min
<1>8. Max(S) \in S /\ \A y \in S : Max(S) >= y
  BY <1>6 DEF Max
<1> QED
  BY <1>1, <1>7, <1>8

(* A day is a day of one year, and the years follow each other.            *)
LEMMA YearIs ==
    ASSUME NEW y \in Years
    PROVE  Year(y) = (y * YearLength - YearLength + 1)..(y * YearLength) /\ y * YearLength \in Int
BY Product, LedgerAssumption DEF Year, Years

LEMMA DayOfYear ==
    ASSUME NEW y \in Years, NEW d \in Year(y)
    PROVE  d \in Days /\ YearOf(d) = y
<1>1. /\ y \in Nat /\ 1 <= y /\ y <= LastYear /\ YearLength \in Nat \ {0} /\ LastYear \in Nat
      /\ y * YearLength \in Int /\ LastYear * YearLength \in Int /\ y - 1 \in Int
  BY YearIs, LedgerAssumption, LastDayNat DEF Years
<1>2. d \in Int /\ y * YearLength - YearLength + 1 <= d /\ d <= y * YearLength
  BY <1>1, YearIs
<1>3. 1 * YearLength <= y * YearLength /\ y * YearLength <= LastYear * YearLength
  BY <1>1, Multiples
<1>4. d \in Days /\ d - 1 \in Nat
  <2>1. 1 * YearLength = YearLength
    BY <1>1
  <2> QED
    BY <1>1, <1>2, <1>3, <2>1 DEF Days
<1> DEFINE q == (d - 1) \div YearLength
           r == (d - 1) % YearLength
           s == d - 1 - (y * YearLength - YearLength)
<1>5. q \in Nat /\ r \in 0..(YearLength - 1) /\ d - 1 = q * YearLength + r
  BY <1>1, <1>4, Quotient
<1>6. s \in 0..(YearLength - 1) /\ d - 1 = (y - 1) * YearLength + s
  BY <1>1, <1>2, Product
<1>7. q = y - 1
  <2> HIDE DEF q, r, s
  <2>1. q * YearLength + r = (y - 1) * YearLength + s
    BY <1>5, <1>6
  <2> QED
    BY <1>1, <1>5, <1>6, <2>1, QuotientUnique
<1> QED
  BY <1>1, <1>4, <1>7 DEF YearOf

LEMMA YearOfDay ==
    ASSUME NEW d \in Days
    PROVE  YearOf(d) \in Years /\ d \in Year(YearOf(d))
<1> DEFINE q == (d - 1) \div YearLength
           r == (d - 1) % YearLength
<1>1. d - 1 \in Nat /\ YearLength \in Nat \ {0} /\ LastYear \in Nat \ {0}
      /\ LastYear * YearLength \in Nat /\ d - 1 < LastYear * YearLength
  BY LedgerAssumption, LastDayNat DEF Days
<1>2. q \in Nat /\ r \in 0..(YearLength - 1) /\ d - 1 = q * YearLength + r
  BY <1>1, Quotient
<1> HIDE DEF q, r
<1>3. q < LastYear
  <2> SUFFICES ASSUME LastYear <= q PROVE FALSE
    BY <1>1, <1>2
  <2>1. LastYear * YearLength <= q * YearLength /\ q * YearLength \in Int
    BY <1>1, <1>2, Multiples
  <2> QED
    BY <1>1, <1>2, <2>1
<1>4. q + 1 \in Years
  BY <1>1, <1>2, <1>3 DEF Years
<1>5. d \in Year(q + 1)
  <2>1. (q + 1) * YearLength \in Int /\ q * YearLength = (q + 1) * YearLength - YearLength
    BY <1>1, <1>2, Product
  <2> QED
    BY <1>1, <1>2, <1>4, <2>1, YearIs DEF Days
<1>6. YearOf(d) = q + 1
  BY DEF YearOf, q
<1> QED
  BY <1>4, <1>5, <1>6

LEMMA LaterYears ==
    ASSUME NEW c \in Days, NEW d \in Days, c <= d
    PROVE  YearOf(c) <= YearOf(d)
<1>1. YearOf(c) \in Years /\ YearOf(d) \in Years /\ c \in Year(YearOf(c)) /\ d \in Year(YearOf(d))
  BY YearOfDay
<1> DEFINE y == YearOf(c)
           z == YearOf(d)
<1> HIDE DEF y, z
<1> SUFFICES ASSUME y \in Years, z \in Years, c \in Year(y), d \in Year(z), z < y PROVE FALSE
  BY <1>1 DEF y, z, Years
<1>2. z \in Int /\ y \in Int /\ YearLength \in Nat /\ z <= y - 1
  BY LedgerAssumption DEF Years
<1>3. z * YearLength <= (y - 1) * YearLength
  BY <1>2, Multiples
<1> QED
  BY <1>2, <1>3, YearIs, Product DEF Days

(* The slice of a year the request reaches is not empty, and has no gap.   *)
LEMMA SliceOf ==
    ASSUME run.lo \in Days, run.hi \in Days, run.lo <= run.hi,
           NEW y \in Years, YearOf(run.lo) <= y, y <= YearOf(run.hi)
    PROVE  /\ Slice(y) \subseteq Days /\ Slice(y) # {}
           /\ Min(Slice(y)) \in Slice(y) /\ Max(Slice(y)) \in Slice(y)
           /\ \A d \in Slice(y) : Min(Slice(y)) <= d /\ d <= Max(Slice(y))
           /\ Min(Slice(y))..Max(Slice(y)) \subseteq Slice(y)
<1>1. Slice(y) \subseteq Days
  BY DayOfYear DEF Slice
<1>2. Slice(y) # {}
  <2> DEFINE first == y * YearLength - YearLength + 1
  <2>1. y \in Int /\ YearLength \in Nat \ {0} /\ y * YearLength \in Int /\ Year(y) = first..(y * YearLength)
    BY YearIs, LedgerAssumption DEF Years
  <2>2. first \in Year(y) /\ first \in Days
    <3>1. first \in Year(y)
      BY <2>1
    <3> QED
      BY <3>1, DayOfYear
  <2>3. CASE YearOf(run.lo) = y
    BY <2>3, YearOfDay DEF Slice, Days
  <2>4. CASE YearOf(run.lo) < y
    <3>1. run.lo <= first
      <4>1. ASSUME first < run.lo PROVE y <= YearOf(run.lo)
        <5>1. YearOf(first) = y
          BY <2>2, DayOfYear
        <5> HIDE DEF first
        <5> QED
          BY <2>2, <4>1, <5>1, LaterYears DEF Days
      <4> QED
        BY <2>1, <2>4, <4>1, YearOfDay DEF Days, Years
    <3>2. first <= run.hi
      <4>1. YearOf(run.hi) \in Years /\ run.hi \in Year(YearOf(run.hi))
        BY YearOfDay
      <4> DEFINE z == YearOf(run.hi)
      <4> HIDE DEF z
      <4>2. z \in Years /\ run.hi \in Year(z) /\ y <= z
        BY <4>1 DEF z
      <4>3. y * YearLength <= z * YearLength /\ z * YearLength \in Int
        BY <2>1, <4>2, Multiples DEF Years
      <4> QED
        BY <2>1, <4>2, <4>3, YearIs DEF Days
    <3> HIDE DEF first
    <3> QED
      BY <2>2, <3>1, <3>2 DEF Slice, Days
  <2> QED
    BY <2>3, <2>4, YearOfDay DEF Years
<1>3. /\ Min(Slice(y)) \in Slice(y) /\ Max(Slice(y)) \in Slice(y)
      /\ \A d \in Slice(y) : Min(Slice(y)) <= d /\ d <= Max(Slice(y))
  BY <1>1, <1>2, Extremes
<1>4. ASSUME NEW a \in Slice(y), NEW b \in Slice(y) PROVE a..b \subseteq Slice(y)
  <2>1. /\ a \in Year(y) /\ b \in Year(y) /\ run.lo <= a /\ b <= run.hi /\ a \in Nat /\ b \in Nat
        /\ run.lo \in Nat /\ run.hi \in Nat
    <3>1. {a, b, run.lo, run.hi} \subseteq Nat
      BY <1>1, LastDayNat
    <3>2. a \in run.lo..run.hi /\ b \in run.lo..run.hi /\ a \in Year(y) /\ b \in Year(y)
      BY DEF Slice
    <3> QED
      BY <3>1, <3>2
  <2>2. a..b \subseteq Year(y)
    BY <2>1, YearIs, LedgerAssumption DEF Years
  <2>3. a..b \subseteq run.lo..run.hi
    BY <2>1
  <2> QED
    BY <2>2, <2>3 DEF Slice
<1> QED
  BY <1>1, <1>2, <1>3, <1>4

(* Securities are numbered from one to their number.                       *)
LEMMA Numbered == Size \in Nat /\ Tickers = 1..Size
BY LedgerAssumption, FS_CardinalityType DEF Size

(* A unit comes after the units of the years before it.                    *)
LEMMA IndexOf ==
    ASSUME NEW u \in Units
    PROVE  /\ u[1] \in 1..Size /\ u[2] \in Years /\ u = <<u[1], u[2]>>
           /\ u[2] * Size \in Int /\ Index(u) = u[2] * Size - Size + u[1] - 1
           /\ Index(u) \in Nat
<1>1. u[1] \in 1..Size /\ u[2] \in Years /\ u = <<u[1], u[2]>> /\ Size \in Nat /\ u[2] \in Nat /\ 1 <= u[2]
  BY Numbered DEF Units, Years
<1>2. u[2] * Size \in Int /\ (u[2] - 1) * Size = u[2] * Size - Size
  BY <1>1, Product
<1>3. 1 * Size <= u[2] * Size
  BY <1>1, Multiples
<1> QED
  BY <1>1, <1>2, <1>3 DEF Index

(* The run and what it has come to.                                        *)
LEMMA RunTyped ==
    ASSUME LedgerInv, Alive
    PROVE  /\ run \in Run /\ run.lo \in Days /\ run.hi \in Days /\ run.at \in Nat
           /\ run.lo <= run.hi /\ run.holes \subseteq Units \cup EndpointHoles
           /\ run.short \in [Years -> SUBSET Tickers] /\ run.mark \subseteq Days
BY DEF LedgerInv, LedgerTypeOK, Alive, Findings, Run

LEMMA AtUnit ==
    ASSUME LedgerInv, InLoop
    PROVE  /\ UnitAt \in Units /\ Index(UnitAt) = run.at
           /\ YearOf(run.lo) <= UnitAt[2] /\ UnitAt[2] <= YearOf(run.hi)
           /\ \A v \in Units : Index(v) = run.at => v = UnitAt
<1> DEFINE q == run.at \div Size
           r == run.at % Size
           first == YearOf(run.lo)
           last == YearOf(run.hi)
<1>1. Alive /\ run.at \in Nat /\ Size \in Nat /\ first \in Years /\ last \in Years
  BY RunTyped, YearOfDay, Numbered DEF InLoop
<1>2. run.at < last * Size /\ (first - 1) * Size <= run.at
  BY <1>1 DEF InLoop, LoopEnd, Size, LedgerInv, Findings
<1>3. Size # 0
  BY <1>1, <1>2 DEF Years
<1>4. /\ q \in Nat /\ r \in 0..(Size - 1) /\ run.at = q * Size + r
      /\ q * Size \in Int
  <2>1. q \in Nat /\ r \in 0..(Size - 1) /\ run.at = q * Size + r
    BY <1>1, <1>3, Quotient
  <2> HIDE DEF q
  <2> QED
    BY <2>1, <1>1, Product
<1>5. UnitAt = <<r + 1, q + 1>>
  BY DEF UnitAt, Size
<1> HIDE DEF q, r, first, last
<1>6. q < last
  <2> SUFFICES ASSUME last <= q PROVE FALSE
    BY <1>1, <1>4 DEF Years
  <2>1. last * Size <= q * Size /\ last * Size \in Int
    BY <1>1, <1>4, Multiples DEF Years
  <2> QED
    BY <1>1, <1>2, <1>4, <2>1
<1>7. first <= q + 1
  <2> SUFFICES ASSUME q + 1 <= first - 1 PROVE FALSE
    BY <1>1, <1>4 DEF Years
  <2>1. (q + 1) * Size <= (first - 1) * Size /\ (first - 1) * Size \in Int /\ (q + 1) * Size \in Int
    BY <1>1, <1>4, Multiples DEF Years
  <2>2. (q + 1) * Size = q * Size + Size
    BY <1>1, <1>4, Z3
  <2> QED
    BY <1>1, <1>2, <1>4, <2>1, <2>2
<1>8. UnitAt \in Units
  <2>1. r + 1 \in Tickers
    BY <1>1, <1>3, <1>4, Numbered
  <2>2. q + 1 \in Years
    BY <1>1, <1>4, <1>6, LedgerAssumption DEF Years
  <2> QED
    BY <1>5, <2>1, <2>2 DEF Units
<1>9. UnitAt[2] = q + 1 /\ UnitAt[1] = r + 1
  BY <1>5
<1>10. Index(UnitAt) = run.at
  BY <1>4, <1>9, <1>1 DEF Index
<1>11. ASSUME NEW v \in Units, Index(v) = run.at PROVE v = UnitAt
  <2> DEFINE p == v[2] - 1
             s == v[1] - 1
  <2>1. p \in Int /\ s \in 0..(Size - 1) /\ v = <<s + 1, p + 1>>
    BY <1>1, IndexOf DEF Years
  <2>2. q * Size + r = p * Size + s
    BY <1>4, <1>11 DEF Index
  <2> HIDE DEF p, s
  <2>3. q = p /\ r = s
    BY <1>1, <1>3, <1>4, <2>1, <2>2, QuotientUnique
  <2> QED
    BY <1>5, <2>1, <2>3
<1> QED
  BY <1>6, <1>7, <1>8, <1>9, <1>10, <1>11, <1>1, <1>4 DEF first, last, Years

(* When the loop is over it has been at every unit of the years it was     *)
(* asked for.                                                              *)
LEMMA AllVisited ==
    ASSUME LedgerInv, AtEnd, NEW u \in Units, YearOf(run.lo) <= u[2], u[2] <= YearOf(run.hi)
    PROVE  Visited(u)
<1> DEFINE last == YearOf(run.hi)
<1>1. Alive /\ run.at \in Nat /\ last \in Years /\ last * Size \in Int /\ ~(run.at < last * Size)
      /\ Size \in Nat
  BY RunTyped, YearOfDay, Numbered, Product DEF AtEnd, InLoop, LoopEnd, Size, Years
<1>2. u[2] * Size <= last * Size
  BY <1>1, IndexOf, Multiples DEF Years
<1>3. Index(u) < run.at
  BY <1>1, <1>2, IndexOf
<1> QED
  BY <1>3 DEF Visited
---------------------------------------------------------------------------
(* The dump is empty and there is no manifest.                             *)
LEMMA LedgerInitInv == LedgerInit => LedgerInv
BY DEF LedgerInit, LedgerInv, LedgerTypeOK, Files, Findings, CoverageIsTrue, Exists, Alive, NoManifest

(* What the vendor publishes is not yet on disk.                           *)
LEMMA PublishStep == ASSUME LedgerInv, VendorPublishes PROVE LedgerInv'
<1>1. LedgerTypeOK'
  BY DEF VendorPublishes, LedgerInv, LedgerTypeOK
<1>2. Files'
  <2> SUFFICES ASSUME NEW u \in Units, Exists(u)
               PROVE  /\ file[u] \subseteq {d \in SessionsOf(u) : d <= published'}
                      /\ \A d \in SessionsOf(u) : \A x, y \in file[u] : x <= d /\ d <= y => d \in file[u]
    BY DEF Files, VendorPublishes, SessionsOf, Exists
  <2>1. \A d \in SessionsOf(u) : d \in Nat
    BY LedgerAssumption, LastDayNat DEF SessionsOf
  <2>2. published \in Nat /\ published' = published + 1
    BY LastDayNat DEF VendorPublishes, LedgerInv, LedgerTypeOK
  <2>3. \A d \in SessionsOf(u) : d <= published => d <= published'
    BY <2>1, <2>2
  <2> QED
    BY <2>3 DEF LedgerInv, Files
<1> QED
  BY <1>1, <1>2 DEF VendorPublishes, LedgerInv, Findings, CoverageIsTrue, Covered, Known, Alive, Visited,
     Expected, Listed, Slice, Watermark, Complete

(* A run begins before the first unit of the years it was asked for.       *)
LEMMA StartStep ==
    ASSUME LedgerInv, NEW r \in Ranges, NEW all \in BOOLEAN, StartRun(r, all)
    PROVE  LedgerInv'
<1> DEFINE first == YearOf(r[1])
<1>1. r[1] \in Days /\ r[2] \in Days /\ r[1] <= r[2] /\ first \in Years
  BY LedgerAssumption, YearOfDay
<1>2. (first - 1) * Size \in Nat /\ (first - 1) * Size = first * Size - Size /\ first * Size \in Int
  <2>1. first \in Int /\ 1 <= first /\ Size \in Nat
    BY <1>1, Numbered DEF Years
  <2> HIDE DEF first
  <2>2. 1 * Size <= first * Size
    BY <2>1, Multiples
  <2> QED
    BY <2>1, <2>2, Product
<1>3. Watermark(manifest) \subseteq Days
  <2>1. ASSUME manifest # NoManifest PROVE manifest.lo \in Days /\ manifest.hi \in Days
    BY <2>1 DEF LedgerInv, LedgerTypeOK
  <2>2. ASSUME NEW a \in Days, NEW b \in Days PROVE a..b \subseteq Days
    BY LastDayNat DEF Days
  <2> QED
    BY <2>1, <2>2 DEF Watermark, Complete
<1>4. /\ run'.lo = r[1] /\ run'.hi = r[2] /\ run'.at = (first - 1) * Size /\ run'.holes = {}
      /\ run'.mark = IF all THEN {} ELSE Watermark(manifest)
  BY DEF StartRun, LoopStart, Size
<1> HIDE DEF first
<1>5. run' \in Run
  <2>1. run' = [lo |-> r[1], hi |-> r[2], at |-> (first - 1) * Size,
                wrote |-> FALSE, verified |-> FALSE, holes |-> {}, short |-> [y \in Years |-> {}],
                mark |-> IF all THEN {} ELSE Watermark(manifest)]
    BY DEF StartRun, LoopStart, Size, first
  <2> QED
    BY <1>1, <1>2, <1>3, <2>1 DEF Run
<1>6. ASSUME NEW u \in Units PROVE ~Visited(u)'
  <2> SUFFICES ASSUME first <= u[2], Index(u) < (first - 1) * Size PROVE FALSE
    BY <1>4 DEF Visited, first, Index
  <2>1. first * Size <= u[2] * Size
    BY <1>1, IndexOf, Numbered, Multiples DEF Years
  <2> QED
    BY <1>2, <2>1, IndexOf, Numbered
<1>7. LedgerTypeOK' /\ Files' /\ CoverageIsTrue'
  BY <1>5 DEF StartRun, LedgerInv, LedgerTypeOK, Files, CoverageIsTrue, Covered, SessionsOf, Exists
<1>8. Findings'
  <2>1. (YearOf(run.lo)' - 1) * Size <= run'.at
    BY <1>2, <1>4 DEF first
  <2>2. Watermark(manifest)' = Watermark(manifest)
    BY DEF StartRun, Watermark, Complete
  <2> QED
    BY <1>1, <1>4, <1>6, <2>1, <2>2 DEF Findings, YearOf
<1> QED
  BY <1>7, <1>8 DEF LedgerInv

(* Without a run nothing is found out, and the rest stays as it is.        *)
LEMMA RunEnds ==
    ASSUME LedgerInv, run' = NoRun, attempted' = {}, UNCHANGED <<file, manifest, published, warned>>
    PROVE  LedgerInv'
BY DEF LedgerInv, LedgerTypeOK, Files, Findings, Alive, CoverageIsTrue, Covered, SessionsOf, Exists

LEMMA ResetStep == ASSUME LedgerInv, ResetManifest PROVE LedgerInv'
BY DEF ResetManifest, LedgerInv, LedgerTypeOK, Files, Findings, Alive, CoverageIsTrue, SessionsOf, Exists

(* One unit of the loop: nothing that was known is forgotten; the unit has *)
(* a hole or all its sessions are known, and a prior hole is noted.        *)
LEMMA OneUnit ==
    ASSUME LedgerInv, InLoop,
           run' \in Run, run'.lo = run.lo, run'.hi = run.hi, run'.mark = run.mark,
           run'.at = run.at + 1, run.holes \subseteq run'.holes,
           UNCHANGED <<manifest, published>>,
           file' \in [Units -> {NoFile} \cup SUBSET Days], Files',
           warned' \subseteq Tickers \X Days,
           attempted \subseteq attempted', attempted' \subseteq Units,
           \A u \in Units : \A d \in SessionsOf(u) : Known(u, d) => Known(u, d)',
           \A u \in Units : u = UnitAt => u \in run'.holes \/ \A d \in Expected(u) : Known(u, d)',
           \A u \in Units \cap manifest.holes : u = UnitAt => u \in attempted'
    PROVE  LedgerInv'
<1>1. LedgerTypeOK'
  BY DEF LedgerInv, LedgerTypeOK
<1>2. CoverageIsTrue'
  BY DEF LedgerInv, CoverageIsTrue, Covered, SessionsOf, Known
<1>3. ASSUME NEW u \in Units, Visited(u)' PROVE Visited(u) \/ u = UnitAt
  <2>1. Index(u) \in Nat /\ run.at \in Nat /\ Index(u)' = Index(u)
    BY IndexOf, RunTyped DEF InLoop, Index
  <2>2. Index(u) < run.at \/ Index(u) = run.at
    BY <1>3, <2>1 DEF Visited
  <2> QED
    BY <1>3, <2>2, AtUnit DEF Visited, YearOf
<1>4. \A u \in Units : Expected(u)' = Expected(u) /\ Expected(u) \subseteq SessionsOf(u)
  BY DEF Expected, Listed, Slice, SessionsOf
<1>5. Findings'
  <2>1. Alive /\ run.lo <= run.hi /\ run.mark \in {{}, Watermark(manifest)}
        /\ (YearOf(run.lo) - 1) * Size <= run.at /\ run.at \in Nat
    BY RunTyped DEF InLoop, LedgerInv, Findings
  <2>2. (YearOf(run.lo)' - 1) * Size <= run'.at
    <3>1. (YearOf(run.lo) - 1) * Size \in Int
      BY <2>1, RunTyped, YearOfDay, Numbered, Product DEF Years
    <3> QED
      BY <2>1, <3>1 DEF YearOf
  <2>3. ASSUME Prerequisite \notin run'.holes, NEW u \in Units \ run'.holes, Visited(u)',
               NEW d \in Expected(u)'
        PROVE  Known(u, d)'
    BY <1>3, <1>4, <2>1, <2>3 DEF LedgerInv, Findings
  <2>4. ASSUME Prerequisite \notin run'.holes, NEW u \in Units \cap manifest.holes, Visited(u)'
        PROVE  u \in attempted'
    BY <1>3, <2>1, <2>4 DEF LedgerInv, Findings
  <2>5. Watermark(manifest)' = Watermark(manifest)
    BY DEF Watermark, Complete
  <2> QED
    BY <2>1, <2>2, <2>3, <2>4, <2>5 DEF Findings
<1> QED
  BY <1>1, <1>2, <1>5 DEF LedgerInv

(* Without the list of securities nothing is looked at, nothing is known.  *)
LEMMA PrerequisiteStep == ASSUME LedgerInv, PrerequisiteHole PROVE LedgerInv'
<1>1. /\ InLoop /\ Alive /\ UNCHANGED <<file, manifest, published, warned, attempted>>
      /\ run' = [run EXCEPT !.at = LoopEnd(run.hi), !.holes = {Prerequisite}]
  BY DEF PrerequisiteHole, InLoop
<1>2. run.at \in Nat /\ run.at < LoopEnd(run.hi) /\ LoopEnd(run.hi) \in Nat
  <2> DEFINE last == YearOf(run.hi)
  <2>1. run.at \in Nat /\ last \in Years /\ Size \in Nat
    BY <1>1, RunTyped, YearOfDay, Numbered
  <2> HIDE DEF last
  <2>2. last * Size \in Int
    BY <2>1, Product DEF Years
  <2>3. run.at < last * Size
    BY <1>1 DEF InLoop, LoopEnd, Size, last
  <2>4. last * Size \in Nat
    BY <2>1, <2>2, <2>3
  <2> QED
    BY <2>1, <2>3, <2>4 DEF LoopEnd, Size, last
<1>3. /\ run' \in Run /\ run'.lo = run.lo /\ run'.hi = run.hi /\ run'.mark = run.mark
      /\ run'.at = LoopEnd(run.hi) /\ run'.holes = {Prerequisite}
  BY <1>1, <1>2, RunTyped DEF Run, EndpointHoles
<1>4. LedgerTypeOK' /\ Files' /\ CoverageIsTrue'
  BY <1>1, <1>3 DEF LedgerInv, LedgerTypeOK, Files, CoverageIsTrue, Covered, SessionsOf, Exists
<1>5. Findings'
  <2>1. /\ run.lo <= run.hi /\ run.mark \in {{}, Watermark(manifest)}
        /\ (YearOf(run.lo) - 1) * Size <= run.at /\ (YearOf(run.lo) - 1) * Size \in Int
    <3>1. YearOf(run.lo) \in Years /\ Size \in Nat
      BY <1>1, RunTyped, YearOfDay, Numbered
    <3>2. (YearOf(run.lo) - 1) * Size \in Int
      BY <3>1, Product DEF Years
    <3> QED
      BY <1>1, <3>2 DEF LedgerInv, Findings
  <2>2. (YearOf(run.lo)' - 1) * Size <= run'.at
    BY <1>2, <1>3, <2>1 DEF YearOf
  <2>3. Watermark(manifest)' = Watermark(manifest)
    BY <1>1 DEF Watermark, Complete
  <2> QED
    BY <1>3, <2>1, <2>2, <2>3 DEF Findings
<1> QED
  BY <1>4, <1>5 DEF LedgerInv

(* A slice that was attested before: the manifest has no holes, and covers *)
(* every session of the slice.                                             *)
LEMMA BlindIsKnown ==
    ASSUME LedgerInv, InLoop, SkipsBlind(UnitAt), NEW d \in Expected(UnitAt)
    PROVE  Known(UnitAt, d)
<1> DEFINE u == UnitAt
           y == u[2]
           sessions == {e \in Trading : e <= Max(Slice(y))}
<1>1. /\ Alive /\ u \in Units /\ y \in Years /\ YearOf(run.lo) <= y /\ y <= YearOf(run.hi)
      /\ run.lo \in Days /\ run.hi \in Days /\ run.lo <= run.hi
  BY AtUnit, IndexOf, RunTyped DEF InLoop
<1>2. ~ScanYear(y)
  BY DEF SkipsBlind
<1>3. /\ ~(Min(Slice(y)) < Min(run.mark))
      /\ sessions # {} => ~(Max(sessions) > Max(run.mark))
  BY <1>2 DEF ScanYear
<1>4. d \in Slice(y) /\ d \in Trading /\ d \in Window[u[1]] /\ d \in Year(y)
  BY DEF Expected, Listed, Slice
<1> HIDE DEF u, y
<1>5. /\ Slice(y) \subseteq Days /\ Min(Slice(y)) \in Slice(y)
      /\ Min(Slice(y)) <= d /\ d <= Max(Slice(y))
  BY <1>1, <1>4, SliceOf
<1>6. sessions \subseteq Days /\ d \in sessions
  BY <1>4, <1>5, LedgerAssumption
<1> HIDE DEF sessions
<1>7. Max(sessions) \in sessions /\ d <= Max(sessions)
  BY <1>6, Extremes
<1>8. run.mark # {} /\ run.mark = Watermark(manifest) /\ run.mark \subseteq Days
  BY <1>1, <1>2, RunTyped DEF ScanYear, LedgerInv, Findings
<1>9. Min(run.mark) \in run.mark /\ Max(run.mark) \in run.mark
  BY <1>8, Extremes
<1>10. /\ manifest # NoManifest /\ manifest.holes = {} /\ run.mark = manifest.lo..manifest.hi
       /\ manifest.lo \in Days /\ manifest.hi \in Days
  BY <1>8 DEF Watermark, Complete, LedgerInv, LedgerTypeOK
<1>11. d \in manifest.lo..manifest.hi
  <2>1. {d, Min(Slice(y)), Max(sessions), Min(run.mark), Max(run.mark), manifest.lo, manifest.hi} \subseteq Nat
    BY <1>4, <1>5, <1>6, <1>7, <1>8, <1>9, <1>10, LastDayNat
  <2>2. Min(run.mark) <= Min(Slice(y)) /\ Max(sessions) <= Max(run.mark)
    BY <1>2, <1>3, <1>6, <2>1 DEF ScanYear
  <2>3. manifest.lo <= Min(run.mark) /\ Max(run.mark) <= manifest.hi
    BY <1>9, <1>10, <2>1
  <2> QED
    BY <1>5, <1>7, <2>1, <2>2, <2>3
<1>12. d \in Covered(u)
  BY <1>4, <1>11 DEF Covered, y
<1> QED
  BY <1>1, <1>10, <1>12 DEF LedgerInv, CoverageIsTrue, Known, u

(* A file that reaches from the first to the last expected session has     *)
(* them all.                                                               *)
LEMMA VerifiedIsKnown ==
    ASSUME LedgerInv, InLoop, SkipsVerified(UnitAt), NEW d \in Expected(UnitAt)
    PROVE  Known(UnitAt, d)
<1> DEFINE u == UnitAt
<1>1. u \in Units /\ Exists(u) /\ Expected(u) # {} /\ Fresh(u)
  BY AtUnit DEF SkipsVerified, HolidayOnly
<1> HIDE DEF u
<1>2. file[u] # {} /\ Min(file[u]) <= Min(Expected(u)) /\ Max(file[u]) >= Max(Expected(u))
  BY <1>1 DEF Fresh
<1>3. Expected(u) \subseteq SessionsOf(u) /\ SessionsOf(u) \subseteq Days
  BY LedgerAssumption DEF Expected, Listed, Slice, SessionsOf
<1>4. file[u] \subseteq Days /\ \A e \in SessionsOf(u) : \A x, y \in file[u] : x <= e /\ e <= y => e \in file[u]
  BY <1>1, <1>3 DEF LedgerInv, Files
<1>5. /\ Min(file[u]) \in file[u] /\ Max(file[u]) \in file[u]
      /\ Min(Expected(u)) \in Expected(u) /\ Max(Expected(u)) \in Expected(u)
      /\ Min(Expected(u)) <= d /\ d <= Max(Expected(u))
  BY <1>1, <1>2, <1>3, <1>4, Extremes DEF u
<1>6. Min(file[u]) <= d /\ d <= Max(file[u])
  <2>1. {d, Min(file[u]), Max(file[u]), Min(Expected(u)), Max(Expected(u))} \subseteq Nat
    BY <1>3, <1>4, <1>5, LastDayNat DEF u
  <2> QED
    BY <1>2, <1>5, <2>1
<1>7. d \in SessionsOf(u)
  BY <1>3 DEF u
<1> QED
  BY <1>4, <1>5, <1>6, <1>7 DEF Known, u

LEMMA SkipStep == ASSUME LedgerInv, Skip PROVE LedgerInv'
<1> DEFINE u == UnitAt
<1>1. /\ InLoop /\ Alive /\ u \in Units /\ (SkipsBlind(u) \/ SkipsVerified(u))
      /\ UNCHANGED <<file, manifest, published, warned>>
      /\ run' = [run EXCEPT !.at = @ + 1, !.verified = @ \/ SkipsVerified(u)]
      /\ attempted' = IF SkipsVerified(u) THEN attempted \cup ({u} \cap manifest.holes) ELSE attempted
  BY AtUnit DEF Skip, Pulls, CameBackTo, InLoop
<1>2. SkipsVerified(u) \in BOOLEAN
  BY DEF SkipsVerified
<1>3. /\ run' \in Run /\ run'.lo = run.lo /\ run'.hi = run.hi /\ run'.mark = run.mark
      /\ run'.at = run.at + 1 /\ run'.holes = run.holes
  <2> DEFINE b == run.verified \/ SkipsVerified(u)
  <2>1. b \in BOOLEAN /\ run' = [run EXCEPT !.at = run.at + 1, !.verified = b]
    BY <1>1, <1>2
  <2>2. run \in Run /\ run.at + 1 \in Nat
    BY <1>1, RunTyped
  <2> HIDE DEF b
  <2> QED
    BY <2>1, <2>2 DEF Run
<1>4. \A d \in Expected(u) : Known(u, d)
  BY <1>1, BlindIsKnown, VerifiedIsKnown
<1>5. \A v \in Units : \A d : Known(v, d)' = Known(v, d)
  BY <1>1 DEF Known
<1>6. u \in manifest.holes => u \in attempted'
  BY <1>1 DEF SkipsBlind, Forced
<1>7. attempted \subseteq attempted' /\ attempted' \subseteq Units
  BY <1>1 DEF LedgerInv, LedgerTypeOK
<1>8. Files'
  BY <1>1 DEF LedgerInv, Files, SessionsOf, Exists
<1> QED
  BY <1>1, <1>3, <1>4, <1>5, <1>6, <1>7, <1>8, OneUnit DEF LedgerInv, LedgerTypeOK

LEMMA PullHolesStep == ASSUME LedgerInv, PullHoles PROVE LedgerInv'
<1> DEFINE u == UnitAt
<1>1. /\ InLoop /\ Alive /\ u \in Units /\ UNCHANGED <<file, manifest, published, warned>>
      /\ run' = [run EXCEPT !.at = @ + 1, !.holes = @ \cup {u}]
      /\ attempted' = attempted \cup ({u} \cap manifest.holes)
  BY AtUnit DEF PullHoles, CameBackTo, InLoop
<1>2. /\ run' \in Run /\ run'.lo = run.lo /\ run'.hi = run.hi /\ run'.mark = run.mark
      /\ run'.at = run.at + 1 /\ run'.holes = run.holes \cup {u}
  <2> HIDE DEF u
  <2>1. run.holes \cup {u} \in SUBSET (Units \cup EndpointHoles) /\ run.at + 1 \in Nat
    BY <1>1, RunTyped
  <2> QED
    BY <1>1, <2>1, RunTyped DEF Run
<1>3. \A v \in Units : \A d : Known(v, d)' = Known(v, d)
  BY <1>1 DEF Known
<1>4. attempted \subseteq attempted' /\ attempted' \subseteq Units
  BY <1>1 DEF LedgerInv, LedgerTypeOK
<1>5. Files'
  BY <1>1 DEF LedgerInv, Files, SessionsOf, Exists
<1> QED
  BY <1>1, <1>2, <1>3, <1>4, <1>5, OneUnit DEF LedgerInv, LedgerTypeOK

(* An answer has what the file had, and replaces nothing else.             *)
LEMMA AnswerKeeps ==
    ASSUME LedgerInv, PullAnswers, NEW v \in Units
    PROVE  file[v] \ NoFile \subseteq file'[v]
<1> DEFINE u == UnitAt
           answer == {d \in Expected(u) : d <= published}
<1>1. /\ InLoop /\ Alive /\ u \in Units /\ Overwritable(u) /\ file' = [file EXCEPT ![u] = answer]
      /\ u[2] \in Years /\ YearOf(run.lo) <= u[2] /\ u[2] <= YearOf(run.hi)
  BY AtUnit, IndexOf DEF PullAnswers, InLoop
<1>2. file'[v] = IF v = u THEN answer ELSE file[v]
  BY <1>1 DEF LedgerInv, LedgerTypeOK
<1>3. ASSUME Exists(u) PROVE file[u] \subseteq answer
  <2> HIDE DEF u
  <2>1. Min(Slice(u[2]))..Max(Slice(u[2])) \subseteq Slice(u[2])
    BY <1>1, RunTyped, SliceOf
  <2>2. file[u] \subseteq Slice(u[2])
    BY <1>1, <1>3, <2>1 DEF Overwritable, Covers
  <2>3. \A d \in file[u] : d \in SessionsOf(u) /\ d <= published
    BY <1>1, <1>3 DEF LedgerInv, Files
  <2> QED
    BY <2>2, <2>3 DEF Expected, Listed, SessionsOf
<1> HIDE DEF u, answer
<1> QED
  BY <1>2, <1>3 DEF Exists

LEMMA PullAnswersStep == ASSUME LedgerInv, PullAnswers PROVE LedgerInv'
<1> DEFINE u == UnitAt
           answer == {d \in Expected(u) : d <= published}
           isShort == Expected(u) # {} /\ Max(Expected(u)) \notin answer
           short == IF isShort THEN run.short[u[2]] \cup {u[1]} ELSE run.short[u[2]]
<1>1. /\ InLoop /\ Alive /\ u \in Units /\ u[1] \in Tickers /\ u[2] \in Years
      /\ UNCHANGED <<manifest, published>>
      /\ file' = [file EXCEPT ![u] = answer]
      /\ run' = [run EXCEPT !.at = @ + 1, !.wrote = TRUE,
                            !.short[u[2]] = IF isShort THEN @ \cup {u[1]} ELSE @]
      /\ warned' = (warned \ {<<u[1], d>> : d \in answer})
                       \cup {<<u[1], d>> : d \in IF isShort THEN Expected(u) \ answer ELSE {}}
      /\ attempted' = attempted \cup ({u} \cap manifest.holes)
  BY AtUnit, IndexOf, Numbered DEF PullAnswers, CameBackTo, InLoop
<1>2. /\ run \in Run /\ u[1] \in Tickers /\ u[2] \in Years /\ published \in Nat
      /\ Expected(u) \subseteq SessionsOf(u) /\ SessionsOf(u) \subseteq Days /\ SessionsOf(u) \subseteq Year(u[2])
  BY <1>1, RunTyped, LastDayNat, LedgerAssumption
     DEF LedgerInv, LedgerTypeOK, SessionsOf, Expected, Listed, Slice
<1> HIDE DEF u
<1>3. answer \subseteq SessionsOf(u) /\ answer \subseteq Days /\ answer \subseteq Nat
  BY <1>2, LastDayNat
<1>4. /\ run' \in Run /\ run'.lo = run.lo /\ run'.hi = run.hi /\ run'.mark = run.mark
      /\ run'.at = run.at + 1 /\ run'.holes = run.holes
  <2> HIDE DEF isShort
  <2>1. run' = [run EXCEPT !.at = @ + 1, !.wrote = TRUE, !.short = [run.short EXCEPT ![u[2]] = short]]
    BY <1>1
  <2>2. [run.short EXCEPT ![u[2]] = short] \in [Years -> SUBSET Tickers]
    BY <1>1, <1>2, RunTyped
  <2> HIDE DEF short
  <2>3. run.at + 1 \in Nat
    BY <1>1, RunTyped
  <2> DEFINE new == [run.short EXCEPT ![u[2]] = short]
  <2>4. new \in [Years -> SUBSET Tickers] /\ run' = [run EXCEPT !.at = run.at + 1, !.wrote = TRUE, !.short = new]
    BY <2>1, <2>2
  <2> HIDE DEF new
  <2> QED
    BY <1>2, <2>3, <2>4 DEF Run
<1>5. \A v \in Units : file'[v] = IF v = u THEN answer ELSE file[v]
  BY <1>1 DEF LedgerInv, LedgerTypeOK
<1>6. /\ file' \in [Units -> {NoFile} \cup SUBSET Days] /\ warned' \subseteq Tickers \X Days
      /\ attempted \subseteq attempted' /\ attempted' \subseteq Units
  <2> HIDE DEF answer, isShort
  <2>1. file' \in [Units -> {NoFile} \cup SUBSET Days]
    BY <1>1, <1>3 DEF LedgerInv, LedgerTypeOK
  <2>2. warned' \subseteq Tickers \X Days
    BY <1>1, <1>2 DEF LedgerInv, LedgerTypeOK
  <2> QED
    BY <1>1, <2>1, <2>2 DEF LedgerInv, LedgerTypeOK
<1>7. Files'
  <2> SUFFICES ASSUME NEW v \in Units, Exists(v)'
               PROVE  /\ file'[v] \subseteq {d \in SessionsOf(v) : d <= published}
                      /\ \A d \in SessionsOf(v) : \A x, y \in file'[v] : x <= d /\ d <= y => d \in file'[v]
    BY <1>1 DEF Files, SessionsOf
  <2>1. CASE v # u
    BY <1>5, <2>1 DEF LedgerInv, Files, Exists
  <2>2. CASE v = u
    <3>1. file'[v] = answer
      BY <1>5, <2>2
    <3>2. ASSUME NEW d \in SessionsOf(v), NEW x \in answer, NEW y \in answer, x <= d, d <= y
          PROVE  d \in answer
      <4>1. {d, x, y, published} \subseteq Nat
        BY <1>2, <1>3, <2>2, LastDayNat
      <4>2. x \in Slice(u[2]) /\ y \in Slice(u[2]) /\ d \in Year(u[2]) /\ y <= published
        BY <1>2, <2>2 DEF Expected, Listed
      <4>3. d \in run.lo..run.hi
        BY <4>1, <4>2, <3>2, RunTyped, <1>1, LastDayNat DEF Slice
      <4>4. d \in Expected(u)
        BY <2>2, <4>2, <4>3 DEF SessionsOf, Expected, Listed, Slice
      <4> QED
        BY <3>2, <4>1, <4>2, <4>4
    <3> QED
      BY <1>3, <2>2, <3>1, <3>2
  <2> QED
    BY <2>1, <2>2
<1>8. ASSUME NEW v \in Units, NEW d \in SessionsOf(v), Known(v, d) PROVE Known(v, d)'
  <2>1. CASE d \in file[v]
    <3>1. d \notin NoFile
      BY LedgerAssumption, LastDayNat DEF SessionsOf, NoFile
    <3> QED
      BY <2>1, <3>1, AnswerKeeps DEF Known
  <2>2. CASE <<v[1], d>> \in warned
    <3>1. ASSUME v[1] = u[1], d \in answer PROVE v = u
      <4>1. v[2] \in Years /\ d \in Year(v[2]) /\ d \in Year(u[2])
        BY <1>2, <1>3, <3>1, IndexOf DEF SessionsOf
      <4>2. v[2] = u[2]
        BY <1>2, <4>1, DayOfYear
      <4> QED
        BY <1>1, <3>1, <4>2 DEF Units
    <3>2. CASE v[1] = u[1] /\ d \in answer
      BY <1>5, <3>1, <3>2 DEF Known
    <3>3. CASE ~(v[1] = u[1] /\ d \in answer)
      <4>1. <<v[1], d>> \notin {<<u[1], e>> : e \in answer}
        BY <3>3
      <4> HIDE DEF answer, isShort
      <4> QED
        BY <1>1, <2>2, <4>1 DEF Known
    <3> QED
      BY <3>2, <3>3
  <2> QED
    BY <1>8, <2>1, <2>2 DEF Known
<1>9. ASSUME NEW v \in Units, v = u, NEW d \in Expected(u) PROVE Known(v, d)'
  <2>1. CASE d \in answer
    BY <1>5, <1>9, <2>1 DEF Known
  <2>2. CASE d \notin answer
    <3>1. isShort
      <4>1. Expected(u) \subseteq Days /\ Expected(u) # {}
        BY <1>2
      <4>2. Max(Expected(u)) \in Expected(u) /\ d <= Max(Expected(u))
        BY <4>1, Extremes
      <4>3. d \in Nat /\ Max(Expected(u)) \in Nat
        BY <4>1, <4>2, LastDayNat
      <4> QED
        BY <1>2, <2>2, <4>1, <4>2, <4>3
    <3>2. <<u[1], d>> \in {<<u[1], e>> : e \in IF isShort THEN Expected(u) \ answer ELSE {}}
      BY <2>2, <3>1
    <3> HIDE DEF answer, isShort
    <3> QED
      BY <1>1, <1>9, <3>2 DEF Known
  <2> QED
    BY <2>1, <2>2
<1>10. u \in manifest.holes => u \in attempted'
  BY <1>1
<1> HIDE DEF answer, isShort, short
<1>11. \A v \in Units : v = UnitAt => \A d \in Expected(v) : Known(v, d)'
  BY <1>9 DEF u
<1>12. \A v \in Units \cap manifest.holes : v = UnitAt => v \in attempted'
  BY <1>10 DEF u
<1> QED
  BY <1>1, <1>4, <1>6, <1>7, <1>8, <1>11, <1>12, OneUnit

(* The extremes of two days.                                               *)
LEMMA Hull ==
    ASSUME NEW a \in Days, NEW b \in Days
    PROVE  /\ Min({a, b}) \in Days /\ Max({a, b}) \in Days
           /\ Min({a, b}) = a \/ Min({a, b}) = b
           /\ Max({a, b}) = a \/ Max({a, b}) = b
<1>1. Min({a, b}) \in {a, b} /\ Max({a, b}) \in {a, b}
  BY Extremes
<1> QED
  BY <1>1

(* A run whose merge is not refused: over holes it covers all that was     *)
(* covered; otherwise its range and the coverage overlap or touch.         *)
LEMMA MergedCovers ==
    ASSUME LedgerInv, AtEnd, ~MergeRefused,
           NEW d \in Days, manifest' = Merged, manifest'.lo <= d, d <= manifest'.hi
    PROVE  \/ run.lo <= d /\ d <= run.hi
           \/ manifest # NoManifest /\ manifest.holes = {} /\ manifest.lo <= d /\ d <= manifest.hi
<1>1. {d, run.lo, run.hi} \subseteq Days /\ Days \subseteq Nat
  BY RunTyped, LastDayNat DEF AtEnd
<1>2. CASE manifest = NoManifest
  BY <1>2 DEF Merged
<1>3. CASE manifest # NoManifest
  <2> DEFINE a == manifest.lo
             b == manifest.hi
  <2>1. /\ manifest \in [lo : Days, hi : Days, holes : SUBSET (Units \cup EndpointHoles)]
        /\ a \in Days /\ b \in Days /\ ~Narrower /\ ~Disjoint
    BY <1>3 DEF LedgerInv, LedgerTypeOK, MergeRefused
  <2>2. /\ manifest'.lo = a \/ manifest'.lo = run.lo
        /\ manifest'.hi = b \/ manifest'.hi = run.hi
    <3>1. /\ Min({manifest.lo, run.lo}) = a \/ Min({manifest.lo, run.lo}) = run.lo
          /\ Max({manifest.hi, run.hi}) = b \/ Max({manifest.hi, run.hi}) = run.hi
      BY <1>1, <2>1, Hull
    <3> QED
      BY <1>3, <2>1, <3>1 DEF Merged
  <2>3. a \in Nat /\ b \in Nat /\ run.lo \in Nat /\ run.hi \in Nat /\ d \in Nat
    BY <1>1, <2>1
  <2>4. manifest.holes = {} \/ (run.lo <= a /\ b <= run.hi)
    BY <2>1, <2>3 DEF Narrower
  <2>5. run.lo <= b + 1 /\ a <= run.hi + 1
    BY <2>1, <2>3 DEF Disjoint
  <2>6. (run.lo <= d /\ d <= run.hi) \/ (a <= d /\ d <= b)
    BY <2>2, <2>3, <2>5
  <2>7. manifest.holes # {} => run.lo <= d /\ d <= run.hi
    BY <2>2, <2>3, <2>4
  <2> QED
    BY <1>3, <2>6, <2>7
<1> QED
  BY <1>2, <1>3

(* At its end a run knows every session of a unit without a hole that it   *)
(* was asked for.                                                          *)
LEMMA AskedIsKnown ==
    ASSUME LedgerInv, AtEnd, Prerequisite \notin run.holes, NEW u \in Units \ run.holes,
           NEW d \in SessionsOf(u), run.lo <= d, d <= run.hi
    PROVE  Known(u, d)
<1>1. Alive /\ run.lo \in Days /\ run.hi \in Days /\ d \in Days /\ d \in Year(u[2]) /\ u[2] \in Years
  BY RunTyped, IndexOf, LedgerAssumption DEF AtEnd, SessionsOf
<1>2. YearOf(d) = u[2]
  BY <1>1, DayOfYear
<1>3. YearOf(run.lo) <= u[2] /\ u[2] <= YearOf(run.hi)
  BY <1>1, <1>2, LaterYears
<1>4. d \in Expected(u)
  BY <1>1, LastDayNat DEF Expected, Listed, Slice, SessionsOf
<1> QED
  BY <1>1, <1>3, <1>4, AllVisited DEF LedgerInv, Findings

(* The holes of the manifest are those of the last run.                    *)
LEMMA MergedHoles == ASSUME LedgerInv, manifest' = Merged PROVE manifest'.holes = HolesOfRun
<1>1. manifest # NoManifest => manifest \in [lo : Days, hi : Days, holes : SUBSET (Units \cup EndpointHoles)]
  BY DEF LedgerInv, LedgerTypeOK
<1> HIDE DEF HolesOfRun
<1> QED
  BY <1>1 DEF Merged

LEMMA MergeStep == ASSUME LedgerInv, MergeManifest PROVE LedgerInv'
<1>1. /\ AtEnd /\ Alive /\ ~MergeRefused /\ manifest' = Merged /\ run' = NoRun /\ attempted' = {}
      /\ UNCHANGED <<file, published, warned>>
  BY DEF MergeManifest, AtEnd
<1>2. HolesOfRun \subseteq Units \cup EndpointHoles /\ run.lo \in Days /\ run.hi \in Days
  BY <1>1, RunTyped DEF HolesOfRun, EndpointHoles
<1>3. manifest' \in [lo : Days, hi : Days, holes : SUBSET (Units \cup EndpointHoles)]
      /\ manifest'.holes = HolesOfRun
  <2> HIDE DEF HolesOfRun
  <2>1. CASE manifest = NoManifest
    BY <1>1, <1>2, <2>1 DEF Merged
  <2>2. CASE manifest # NoManifest
    <3>1. manifest \in [lo : Days, hi : Days, holes : SUBSET (Units \cup EndpointHoles)]
      BY <2>2 DEF LedgerInv, LedgerTypeOK
    <3>2. Min({manifest.lo, run.lo}) \in Days /\ Max({manifest.hi, run.hi}) \in Days
      BY <1>2, <3>1, Hull
    <3> QED
      BY <1>1, <1>2, <2>2, <3>1, <3>2 DEF Merged
  <2> QED
    BY <2>1, <2>2
<1>4. LedgerTypeOK' /\ Files' /\ Findings'
  BY <1>1, <1>3 DEF LedgerInv, LedgerTypeOK, Files, Findings, Alive, Exists, SessionsOf
<1>5. CoverageIsTrue'
  <2> SUFFICES ASSUME HolesOfRun \cap EndpointHoles = {},
                      NEW u \in Units \ HolesOfRun, NEW d \in Covered(u)'
               PROVE  Known(u, d)
    BY <1>1, <1>3 DEF CoverageIsTrue, Known
  <2>0. Prerequisite \notin run.holes
    BY DEF HolesOfRun, EndpointHoles
  <2>1. d \in SessionsOf(u) /\ d \in Days /\ u \notin run.holes
    BY LedgerAssumption DEF Covered, SessionsOf, HolesOfRun
  <2>2. manifest'.lo <= d /\ d <= manifest'.hi
    BY <1>3, <2>1, LastDayNat DEF Covered
  <2>3. CASE run.lo <= d /\ d <= run.hi
    BY <1>1, <2>0, <2>1, <2>3, AskedIsKnown
  <2>4. CASE manifest # NoManifest /\ manifest.holes = {} /\ manifest.lo <= d /\ d <= manifest.hi
    <3>1. d \in Covered(u)
      <4>1. {d, manifest.lo, manifest.hi} \subseteq Nat
        BY <2>1, <2>4, LastDayNat DEF LedgerInv, LedgerTypeOK
      <4> QED
        BY <2>1, <2>4, <4>1 DEF Covered, SessionsOf
    <3> QED
      BY <2>4, <3>1 DEF LedgerInv, CoverageIsTrue, Known
  <2> QED
    BY <1>1, <2>1, <2>2, <2>3, <2>4, MergedCovers
<1> QED
  BY <1>4, <1>5 DEF LedgerInv

LEMMA LedgerNextInv == LedgerInv /\ [LedgerNext]_ledgerVars => LedgerInv'
<1> SUFFICES ASSUME LedgerInv, [LedgerNext]_ledgerVars PROVE LedgerInv'
  OBVIOUS
<1>1. CASE VendorPublishes
  BY <1>1, PublishStep
<1>2. ASSUME NEW r \in Ranges, NEW all \in BOOLEAN, StartRun(r, all) PROVE LedgerInv'
  BY <1>2, StartStep
<1>3. CASE RunDies \/ RefuseMerge
  BY <1>3, RunEnds DEF RunDies, RefuseMerge
<1>4. CASE ResetManifest
  BY <1>4, ResetStep
<1>5. CASE PrerequisiteHole \/ Skip \/ PullHoles \/ PullAnswers
  BY <1>5, PrerequisiteStep, SkipStep, PullHolesStep, PullAnswersStep
<1>6. CASE MergeManifest
  BY <1>6, MergeStep
<1>7. CASE UNCHANGED ledgerVars
  BY <1>7 DEF ledgerVars, LedgerInv, LedgerTypeOK, Files, Findings, Alive, CoverageIsTrue, Covered,
     SessionsOf, Exists, Known, Visited, Index, Expected, Listed, Slice, Watermark, Complete
<1> QED
  BY <1>1, <1>2, <1>3, <1>4, <1>5, <1>6, <1>7 DEF LedgerNext, RunStep
---------------------------------------------------------------------------
(* What is known of the dump holds in every reachable state.               *)
THEOREM LedgerInductive == LedgerSpec => []LedgerInv
BY LedgerInitInv, LedgerNextInv, PTL DEF LedgerSpec

(* The files, the manifest and the run are well formed.                    *)
THEOREM LedgerTypes == LedgerSpec => []LedgerTypeOK
<1>1. LedgerInv => LedgerTypeOK
  BY DEF LedgerInv
<1> QED
  BY <1>1, LedgerInductive, PTL

(* What the manifest covers without a hole is on disk, but for what an     *)
(* answer ended short of and the run warned about, whatever runs were      *)
(* killed, refused, narrower or answered in part (fetch_manifest.py:263).  *)
THEOREM CoverageTrue == LedgerSpec => []CoverageIsTrue
<1>1. LedgerInv => CoverageIsTrue
  BY DEF LedgerInv
<1> QED
  BY <1>1, LedgerInductive, PTL

(* No run takes a session from disk (fetcher.py:1456-1512).                *)
THEOREM HistoryKept == LedgerSpec => HistorySurvives
<1>1. ASSUME LedgerInv, [LedgerNext]_ledgerVars
      PROVE  [\A u \in Units : file[u] \ NoFile \subseteq file'[u]]_ledgerVars
  <2>1. CASE PullAnswers
    BY <1>1, <2>1, AnswerKeeps
  <2>2. CASE ~PullAnswers
    <3>1. UNCHANGED file
      BY <1>1, <2>2 DEF LedgerNext, RunStep, VendorPublishes, StartRun, RunDies, ResetManifest,
         PrerequisiteHole, Skip, PullHoles, MergeManifest, RefuseMerge, ledgerVars
    <3> QED
      BY <3>1
  <2> QED
    BY <2>1, <2>2
<1> QED
  BY <1>1, LedgerInductive, PTL DEF LedgerSpec, HistorySurvives

(* No run drops a hole of the coverage it did not come back to, unless it  *)
(* looked at nothing and says so (fetch_manifest.py:47-50,                 *)
(* fetcher.py:1639-1657).                                                  *)
THEOREM HolesRetried == LedgerSpec => CoveredHolesAreRetried
<1>1. ASSUME LedgerInv, MergeManifest, Prerequisite \notin manifest'.holes,
             NEW u \in manifest.holes \ (manifest'.holes \cup EndpointHoles), InCoverage(u)
      PROVE  u \in attempted
  <2>1. AtEnd /\ Alive /\ ~MergeRefused
    BY <1>1 DEF MergeManifest, AtEnd
  <2>2. manifest # NoManifest /\ manifest.holes # {} /\ u \in Units
        /\ manifest.lo \in Days /\ manifest.hi \in Days
    BY <1>1 DEF LedgerInv, LedgerTypeOK, NoManifest
  <2>3. run.lo <= manifest.lo /\ manifest.hi <= run.hi /\ run.lo \in Days /\ run.hi \in Days
    <3>1. run.lo \in Days /\ run.hi \in Days /\ ~Narrower
      BY <1>1, <2>1, <2>2, RunTyped DEF MergeRefused
    <3>2. manifest.lo \in Nat /\ manifest.hi \in Nat /\ run.lo \in Nat /\ run.hi \in Nat
      BY <2>2, <3>1, LastDayNat
    <3> QED
      BY <2>2, <3>1, <3>2 DEF Narrower
  <2>4. PICK d \in Year(u[2]) : d \in manifest.lo..manifest.hi
    BY <1>1 DEF InCoverage
  <2>5. d \in Days /\ YearOf(d) = u[2]
    BY <2>2, <2>4, IndexOf, DayOfYear
  <2>6. run.lo <= d /\ d <= run.hi
    <3>1. {d, run.lo, run.hi, manifest.lo, manifest.hi} \subseteq Nat
      BY <2>2, <2>3, <2>5, LastDayNat
    <3> QED
      BY <2>3, <2>4, <3>1
  <2>7. YearOf(run.lo) <= u[2] /\ u[2] <= YearOf(run.hi)
    BY <2>3, <2>5, <2>6, LaterYears
  <2>8. Prerequisite \notin run.holes
    <3>1. run.holes \subseteq HolesOfRun
      BY DEF HolesOfRun
    <3> HIDE DEF HolesOfRun
    <3>2. manifest'.holes = HolesOfRun
      BY <1>1, <2>1, MergedHoles DEF MergeManifest
    <3> QED
      BY <1>1, <3>1, <3>2
  <2> QED
    BY <1>1, <2>1, <2>2, <2>7, <2>8, AllVisited DEF LedgerInv, Findings
<1>2. LedgerInv =>
        (MergeManifest /\ Prerequisite \notin manifest'.holes =>
           \A u \in manifest.holes \ (manifest'.holes \cup EndpointHoles) :
             InCoverage(u) => u \in attempted)
  BY <1>1
<1> QED
  BY <1>2, LedgerInductive, PTL DEF CoveredHolesAreRetried
===========================================================================
