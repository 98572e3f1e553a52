--------------------------- MODULE ExposureSearch ---------------------------
(***************************************************************************)
(* The exposure search of a camera calibration                             *)
(* (tasks/profiles/exposure_search.py): gains in ascending order outside,  *)
(* a bisection of the exposure inside, and the two selections made from    *)
(* the probes, the recommended one and the longest safe one of each gain.  *)
(*                                                                         *)
(* What a probe sees is not foreseen: light, noise and stale frames decide *)
(* it, and it may be a different answer each time.                         *)
(*                                                                         *)
(* The code halves intervals in floating point, a few times, where halving *)
(* is exact.  Here exposures are integers: bounds count Grid[0], and after *)
(* k halvings an interval is a multiple of Grid[k].  A camera that cannot   *)
(* tell its bounds is one that answers Config.                             *)
(***************************************************************************)
EXTENDS Integers, Sequences, FiniteSets

CONSTANTS
    GainPlans,   \* the lists gains_db a plan may hold
    Config,      \* min_exposure_us and max_exposure_us of the plan
    ApiBounds,   \* what read_exposure_bounds_us may answer
    Iterations,
    Grid,
    MaxSignal    \* bound: p_signal is told apart in so many steps

Intervals == [min : Nat \ {0}, max : Nat \ {0}]

ASSUME SearchAssumption ==
    /\ \A plan \in GainPlans : plan \in Seq(Nat) /\ plan # <<>>
    /\ Config \in Intervals /\ Config.min =< Config.max
    /\ \A b \in ApiBounds : b \in Intervals /\ b.min =< b.max
    /\ Iterations \in Nat \ {0}
    /\ Grid \in [0 .. Iterations -> Nat \ {0}]
    /\ \A k \in 0 .. Iterations - 1 : Grid[k] = 2 * Grid[k + 1]
    /\ MaxSignal \in Nat

\* The brightest pixel: below full_scale * safety_fraction, between that and
\* full_scale, or saturated (or not finite).
Peaks == {"safe", "over_limit", "saturated"}

\* What a burst is judged by: its peak, p_signal in steps, and usable_signal,
\* which also asks for a dynamic range, so that the stronger of two signals may
\* be the one that is not usable.  Neither is looked at in an unsafe probe.
Answers == {a \in [peak : Peaks, signal : 0 .. MaxSignal, usable : BOOLEAN] :
              a.peak # "safe" => a.signal = 0 /\ ~a.usable}

ProbeRow == [search : Nat, gain : Nat, span : Intervals, exposure : Nat,
             seen : Answers]

VARIABLES
    gains,    \* the sorted list
    index,    \* the gain being searched
    stage,
    span,     \* the effective bounds of this gain
    low,      \* safe_low
    high,     \* unsafe_high
    halvings, \* midpoints probed
    trial,    \* rows of the bisection under way
    rows      \* rows of the gains that are finished

vars == <<gains, index, stage, span, low, high, halvings, trial, rows>>

Ascending(plan) ==
    {s \in [DOMAIN plan -> {plan[i] : i \in DOMAIN plan}] :
       /\ \A i, j \in DOMAIN plan : i < j => s[i] =< s[j]
       /\ \A g \in {plan[i] : i \in DOMAIN plan} :
            Cardinality({i \in DOMAIN plan : s[i] = g})
              = Cardinality({i \in DOMAIN plan : plan[i] = g})}

SearchInit ==
    /\ \E plan \in GainPlans : gains \in Ascending(plan)
    /\ index = 1 /\ stage = "bounds" /\ span = Config
    /\ low = 0 /\ high = 0 /\ halvings = 0
    /\ trial = {} /\ rows = {}

----------------------------------------------------------------------------
\* Bounds.  They are read again for every gain.

Clamped(api) ==
    [min |-> IF api.min > Config.min THEN api.min ELSE Config.min,
     max |-> IF api.max < Config.max THEN api.max ELSE Config.max]

ResolveBounds ==
    /\ stage = "bounds"
    /\ \E api \in ApiBounds :
         /\ Clamped(api).min =< Clamped(api).max
         /\ span' = Clamped(api)
    /\ stage' = "lower_bound"
    /\ UNCHANGED <<gains, index, low, high, halvings, trial, rows>>

\* The read raises, or the camera cannot expose as the plan asks.
BoundsRefused ==
    /\ stage = "bounds"
    /\ stage' = "raised"
    /\ UNCHANGED <<gains, index, span, low, high, halvings, trial, rows>>

----------------------------------------------------------------------------
\* Probes

RowAt(exposure, answer) ==
    [search |-> index, gain |-> gains[index], span |-> span,
     exposure |-> exposure, seen |-> answer]

BinarySafe(row) == row.seen.peak = "safe"

PsfSafe(row) == row.seen.peak # "saturated"

\* The rows of a finished bisection are kept and the next gain begins.
GainDone(found) ==
    /\ rows' = rows \cup found
    /\ trial' = {}
    /\ index' = index + 1
    /\ stage' = IF index = Len(gains) THEN "returned" ELSE "bounds"

ProbeLower ==
    /\ stage = "lower_bound"
    /\ \E answer \in Answers :
         LET row == RowAt(span.min * Grid[0], answer)
         IN  /\ BinarySafe(row)
             /\ trial' = {row}
    /\ stage' = "upper_bound"
    /\ UNCHANGED <<gains, index, span, low, high, halvings, rows>>

\* ExposureLowerBoundUnsafeError: fatal at the first gain; at a later one the
\* gains before it are the result.
\* Mutation of AfterUnsafeLower: the first gain is not told apart.
ReturnAnyway == "returned"

AfterUnsafeLower == IF index = 1 THEN "raised" ELSE "returned"

LowerUnsafe ==
    /\ stage = "lower_bound"
    /\ stage' = AfterUnsafeLower
    /\ UNCHANGED <<gains, index, span, low, high, halvings, trial, rows>>

ProbeUpper ==
    /\ stage = "upper_bound"
    /\ \E answer \in Answers :
         LET row == RowAt(span.max * Grid[0], answer)
         IN  \/ /\ BinarySafe(row)
                /\ GainDone(trial \cup {row})
                /\ UNCHANGED <<low, high, halvings>>
             \/ /\ ~BinarySafe(row)
                /\ trial' = trial \cup {row}
                /\ stage' = "midpoint"
                /\ low' = span.min * Grid[0]
                /\ high' = span.max * Grid[0]
                /\ halvings' = 0
                /\ UNCHANGED <<index, rows>>
    /\ UNCHANGED <<gains, span>>

Middle == (low + high) \div 2

\* Mutation of Narrow: the wrong end moves.
NarrowWrongEnd(row) ==
    \/ ~BinarySafe(row) /\ low' = row.exposure /\ UNCHANGED high
    \/ BinarySafe(row) /\ high' = row.exposure /\ UNCHANGED low

Narrow(row) ==
    \/ BinarySafe(row) /\ low' = row.exposure /\ UNCHANGED high
    \/ ~BinarySafe(row) /\ high' = row.exposure /\ UNCHANGED low

\* Mutations of Another: a midpoint too many, a midpoint too few.
OneMore == halvings + 1 =< Iterations
OneLess == halvings + 2 < Iterations

Another == halvings + 1 < Iterations

ProbeMidpoint ==
    /\ stage = "midpoint"
    /\ halvings' = halvings + 1
    /\ \E answer \in Answers :
         LET row == RowAt(Middle, answer)
         IN  /\ Narrow(row)
             /\ \/ /\ Another
                   /\ trial' = trial \cup {row}
                   /\ UNCHANGED <<index, stage, rows>>
                \/ /\ ~Another
                   /\ GainDone(trial \cup {row})
    /\ UNCHANGED <<gains, span>>

\* Setting the camera or a burst raises.
ProbeRaises ==
    /\ stage \in {"lower_bound", "upper_bound", "midpoint"}
    /\ stage' = "raised"
    /\ UNCHANGED <<gains, index, span, low, high, halvings, trial, rows>>

SearchNext ==
    \/ ResolveBounds \/ BoundsRefused
    \/ ProbeLower \/ LowerUnsafe \/ ProbeUpper \/ ProbeMidpoint \/ ProbeRaises

SearchSpec == SearchInit /\ [][SearchNext]_vars

----------------------------------------------------------------------------
\* Selections from the rows of a search that returned

SafeRows == {r \in rows : PsfSafe(r) /\ BinarySafe(r)}

Usable(row) == row.seen.usable

Pool == LET usable == {r \in SafeRows : Usable(r)}
        IN  IF usable # {} THEN usable ELSE SafeRows

\* Mutation of Preferred: of equal signals the shorter exposure wins.
ShortestPreferred(a, b) ==
    \/ a.gain < b.gain
    \/ a.gain = b.gain /\ a.seen.signal > b.seen.signal
    \/ a.gain = b.gain /\ a.seen.signal = b.seen.signal /\ a.exposure =< b.exposure

Preferred(a, b) ==
    \/ a.gain < b.gain
    \/ a.gain = b.gain /\ a.seen.signal > b.seen.signal
    \/ a.gain = b.gain /\ a.seen.signal = b.seen.signal /\ a.exposure >= b.exposure

\* select_recommended_probe: rows that tie have the same setting.
Recommended == {r \in Pool : \A other \in Pool : Preferred(r, other)}

\* safe_exposure_profiles_by_gain
Published == {r \in SafeRows :
                \A other \in SafeRows :
                  other.gain = r.gain => other.exposure =< r.exposure}

----------------------------------------------------------------------------
\* Properties

SearchTypeOK ==
    /\ gains \in Seq(Nat) /\ gains # <<>>
    /\ index \in 1 .. Len(gains) + 1
    /\ stage \in {"bounds", "lower_bound", "upper_bound", "midpoint",
                  "returned", "raised"}
    /\ span \in Intervals
    /\ low \in Nat /\ high \in Nat
    /\ halvings \in 0 .. Iterations
    /\ trial \subseteq ProbeRow /\ rows \subseteq ProbeRow

(***************************************************************************)
(* However the light behaves during a bisection, what it found safe and    *)
(* what it found unsafe never cross: every safe exposure is below every    *)
(* unsafe one, except where the bounds leave only one exposure to probe.   *)
(***************************************************************************)
NoCrossing ==
    \A r, u \in trial \cup rows :
      r.search = u.search /\ BinarySafe(r) /\ ~BinarySafe(u)
        => r.exposure < u.exposure \/ r.span.min = r.span.max

(***************************************************************************)
(* A published exposure is the largest the search can vouch for: it is the *)
(* upper bound, or an exposure one last interval longer was seen unsafe in *)
(* the same bisection.                                                     *)
(***************************************************************************)
PublishedIsTight ==
    stage = "returned" =>
      \A r \in Published :
        \/ r.exposure = r.span.max * Grid[0]
        \/ \E u \in rows :
             /\ u.search = r.search /\ ~BinarySafe(u)
             /\ u.exposure
                  = r.exposure + (r.span.max - r.span.min) * Grid[Iterations]

(***************************************************************************)
(* A search that returns always has something to recommend and to publish: *)
(* "no PSF-safe exposure candidate was found" cannot follow it.            *)
(***************************************************************************)
ReturnedHasProfile ==
    stage = "returned" => Recommended # {} /\ Published # {}

\* The scene was steady: at one gain longer exposures gave no weaker signal and
\* no smaller dynamic range, hence no less usable a signal.
Steady ==
    \A a, b \in SafeRows : a.gain = b.gain /\ a.exposure =< b.exposure
                             => /\ a.seen.signal =< b.seen.signal
                                /\ Usable(a) => Usable(b)

(***************************************************************************)
(* In a steady scene the two selections agree: the recommended exposure is *)
(* the one published for its gain, however many gains were searched and    *)
(* whether or not any of them gave a usable signal.                        *)
(***************************************************************************)
RecommendedIsPublished ==
    stage = "returned" /\ Steady =>
      \A r \in Recommended : \E p \in Published :
        p.gain = r.gain /\ p.exposure = r.exposure
=============================================================================
