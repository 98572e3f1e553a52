-------------------------- MODULE ProfileChainProofs --------------------------
(***************************************************************************)
(* Proofs about profile calibration: the exposure search (ExposureSearch)   *)
(* and the chain of programs that run it (ProfileChain).                    *)
(*                                                                         *)
(* The search, for every list of gains, every pair of bounds and any number *)
(* of halvings: the types, that safe and unsafe exposures do not cross,     *)
(* that what is published is tight, that there is something to publish and  *)
(* to recommend, and that in a steady scene the two agree.                  *)
(*                                                                         *)
(* The chain, for every set of plans, pupils and ids, every number of files *)
(* and every order in which the programs are run or fail.                   *)
(* What a search answers does not matter here: the chain rests on what the  *)
(* LCD shows and where the light is while one runs.  The argument follows   *)
(* a file from the program that writes it to those that are given it:       *)
(* each program has an invariant that says how the apparatus stands at      *)
(* each of its steps (the Benches), which gives what its file was made      *)
(* under (FilesCalibrated), which is what the next program relies on.       *)
(* Profiles are only ever added, so what a capture was made with is still   *)
(* there when its survey is built (CaptureFits, SurveyFits).                *)
(***************************************************************************)
EXTENDS ProfileChain, TLAPS, SequenceTheorems, WellFoundedInduction

-----------------------------------------------------------------------------
(* The search.                                                              *)

Gaps == span.max - span.min

\* While a gain is searched there is one.
Searching == stage \in {"bounds", "lower_bound", "upper_bound", "midpoint"}
                => index =< Len(gains)

\* Rows belong to the bisection they are kept for.
Placed ==
    /\ \A r \in rows : r.search < index
    /\ \A r \in trial : r.search = index /\ r.span = span
    /\ \A r \in rows \cup trial : r.gain = gains[r.search]
    /\ stage \in {"bounds", "lower_bound", "returned"} => trial = {}

\* After the lower bound there is one safe row, at the lower bound.
LowerSafe ==
    stage = "upper_bound" =>
      /\ trial # {}
      /\ \A r \in trial : BinarySafe(r) /\ r.exposure = span.min * Grid[0]

\* The bracket: safe rows up to low, unsafe rows from high on, one at each.
Bracket ==
    stage = "midpoint" =>
      /\ halvings < Iterations
      /\ high = low + Gaps * Grid[halvings]
      /\ \A r \in trial : BinarySafe(r) => r.exposure =< low
      /\ \A r \in trial : ~BinarySafe(r) => high =< r.exposure
      /\ \E r \in trial : BinarySafe(r) /\ r.exposure = low
      /\ \E r \in trial : ~BinarySafe(r) /\ r.exposure = high

Ordered == stage \in {"lower_bound", "upper_bound", "midpoint"}
             => span.min =< span.max

Last(seen, r) == \A o \in seen : o.search = r.search /\ BinarySafe(o)
                                     => o.exposure =< r.exposure

TightRow(seen, r) ==
    \/ r.exposure = r.span.max * Grid[0]
    \/ \E u \in seen :
         /\ u.search = r.search /\ ~BinarySafe(u)
         /\ u.exposure
              = r.exposure + (r.span.max - r.span.min) * Grid[Iterations]

\* The longest safe row of a finished bisection is tight.
Tight == \A r \in rows : BinarySafe(r) /\ Last(rows, r) => TightRow(rows, r)

SearchInv == /\ SearchTypeOK /\ Searching /\ Placed /\ LowerSafe /\ Bracket /\ Ordered
             /\ Tight /\ NoCrossing
----------------------------------------------------------------------------
\* Arithmetic of the halvings.

LEMMA HalfStep ==
    ASSUME NEW m \in Nat, NEW k \in 0 .. Iterations, k < Iterations
    PROVE  /\ m * Grid[k] \in Nat /\ m * Grid[k + 1] \in Nat
           /\ m * Grid[k] = m * Grid[k + 1] + m * Grid[k + 1]
<1>1. Iterations \in Nat /\ k \in 0 .. Iterations - 1 /\ k + 1 \in 0 .. Iterations
  BY SearchAssumption
<1>2. Grid[k] \in Nat /\ Grid[k + 1] \in Nat /\ Grid[k] = 2 * Grid[k + 1]
  BY <1>1, SearchAssumption
<1>3. \A g \in Nat : m * (2 * g) = m * g + m * g /\ m * g \in Nat /\ m * (2 * g) \in Nat
  OBVIOUS
<1> QED  BY <1>2, <1>3

LEMMA HalfSum ==
    ASSUME NEW l \in Nat, NEW w \in Nat
    PROVE  (l + (l + (w + w))) \div 2 = l + w
OBVIOUS

\* A bound in the units of the exposures; a wider interval is a longer one.
LEMMA Scaled ==
    ASSUME NEW b \in Nat \ {0}, NEW c \in Nat, b =< c
    PROVE  /\ b * Grid[0] \in Nat /\ c * Grid[0] \in Nat /\ c - b \in Nat
           /\ c * Grid[0] = b * Grid[0] + (c - b) * Grid[0]
           /\ b < c => b * Grid[0] < c * Grid[0]
<1>1. Grid[0] \in Nat \ {0}
  BY SearchAssumption
<1>2. PICK g \in Nat \ {0} : g = Grid[0]
  BY <1>1
<1>3. PICK d \in Nat : c = b + d
  <2> WITNESS c - b \in Nat
  <2> QED  OBVIOUS
<1>4. (b + d) * g = b * g + d * g /\ (d > 0 => d * g > 0) /\ b * g \in Nat /\ d * g \in Nat
  BY SMT
<1>5. c - b = d
  BY <1>3
<1> QED  BY <1>2, <1>3, <1>4, <1>5

\* A gap that is not closed stays open however often it is halved.
LEMMA StillOpen ==
    ASSUME NEW m \in Nat, NEW k \in 0 .. Iterations, m # 0
    PROVE  m * Grid[k] > 0
<1>1. Grid[k] \in Nat \ {0}
  BY SearchAssumption
<1>2. \A g \in Nat \ {0} : m * g > 0
  OBVIOUS
<1> QED  BY <1>1, <1>2

\* Clamped bounds are bounds.
LEMMA ClampedTyped ==
    ASSUME NEW api \in ApiBounds
    PROVE  Clamped(api) \in Intervals
BY SearchAssumption DEF Clamped, Intervals

\* The row of a probe is a row, of this bisection.
LEMMA RowTyped ==
    ASSUME SearchTypeOK, index =< Len(gains), NEW e \in Nat, NEW a \in Answers
    PROVE  /\ RowAt(e, a) \in ProbeRow
           /\ RowAt(e, a).search = index /\ RowAt(e, a).span = span
           /\ RowAt(e, a).gain = gains[index] /\ RowAt(e, a).exposure = e
           /\ RowAt(e, a).seen = a
<1>1. gains[index] \in Nat /\ index \in Nat
  BY DEF SearchTypeOK
<1> QED  BY <1>1 DEF RowAt, ProbeRow, SearchTypeOK
----------------------------------------------------------------------------
\* What finishing a bisection keeps.

LEMMA Finishing ==
    ASSUME SearchInv, index =< Len(gains), NEW seen \in SUBSET ProbeRow,
           \A r \in seen : r.search = index /\ r.gain = gains[index],
           \A r, u \in seen : BinarySafe(r) /\ ~BinarySafe(u)
             => r.exposure < u.exposure \/ r.span.min = r.span.max,
           \A r \in seen : BinarySafe(r) /\ Last(seen, r) => TightRow(seen, r),
           GainDone(seen), gains' = gains, span' = span,
           low' \in Nat, high' \in Nat, halvings' \in 0 .. Iterations
    PROVE  SearchInv'
<1>1. index \in Nat /\ index' = index + 1 /\ rows' = rows \cup seen /\ trial' = {}
  BY DEF GainDone, SearchInv, SearchTypeOK
<1>2. stage' \in {"bounds", "returned"} /\ (stage' = "bounds" => index' =< Len(gains))
  <2>1. Len(gains) \in Nat /\ (index # Len(gains) => index + 1 =< Len(gains))
    BY DEF SearchInv, SearchTypeOK
  <2> QED  BY <1>1, <2>1 DEF GainDone
<1>3. SearchTypeOK'
  <2>1. index' \in 1 .. Len(gains') + 1
    BY <1>1 DEF SearchInv, SearchTypeOK
  <2> QED  BY <1>1, <1>2, <2>1 DEF SearchInv, SearchTypeOK
<1>4. Searching' /\ LowerSafe' /\ Bracket' /\ Ordered'
  BY <1>2 DEF Searching, LowerSafe, Bracket, Ordered
<1>5. Placed'
  <2>1. \A r \in rows' : r.search < index'
    BY <1>1 DEF SearchInv, Placed, SearchTypeOK, ProbeRow
  <2>2. \A r \in rows' \cup trial' : r.gain = gains'[r.search]
    BY <1>1 DEF SearchInv, Placed
  <2> QED  BY <1>1, <2>1, <2>2 DEF Placed
<1>6. \A r \in rows, u \in seen : r.search # u.search
  BY <1>1 DEF SearchInv, Placed
<1>7. NoCrossing'
  <2> SUFFICES ASSUME NEW r \in rows \cup seen, NEW u \in rows \cup seen,
                      r.search = u.search, BinarySafe(r), ~BinarySafe(u)
               PROVE  r.exposure < u.exposure \/ r.span.min = r.span.max
    BY <1>1 DEF NoCrossing, BinarySafe
  <2>1. CASE r \in rows /\ u \in rows
    BY <2>1 DEF SearchInv, NoCrossing
  <2>2. CASE r \in seen /\ u \in seen
    BY <2>2
  <2> QED  BY <1>6, <2>1, <2>2
<1>8. Tight'
  <2> SUFFICES ASSUME NEW r \in rows \cup seen, BinarySafe(r),
                      Last(rows \cup seen, r)
               PROVE  TightRow(rows \cup seen, r)
    BY <1>1 DEF Tight, Last, TightRow, BinarySafe
  <2>1. CASE r \in rows
    <3>1. Last(rows, r)
      BY DEF Last
    <3>2. TightRow(rows, r)
      BY <2>1, <3>1 DEF SearchInv, Tight
    <3> QED  BY <3>2 DEF TightRow
  <2>2. CASE r \in seen
    <3>1. Last(seen, r)
      BY DEF Last
    <3>2. TightRow(seen, r)
      BY <2>2, <3>1
    <3> QED  BY <3>2 DEF TightRow
  <2> QED  BY <2>1, <2>2
<1> QED  BY <1>3, <1>4, <1>5, <1>7, <1>8 DEF SearchInv

\* Ending early keeps every row where it is.
LEMMA Ending ==
    ASSUME SearchInv, stage' \in {"returned", "raised"},
           stage' = "returned" => trial = {},
           UNCHANGED <<gains, index, span, low, high, halvings, trial, rows>>
    PROVE  SearchInv'
<1>1. SearchTypeOK'
  BY DEF SearchInv, SearchTypeOK
<1>2. Searching' /\ LowerSafe' /\ Bracket' /\ Ordered'
  BY DEF Searching, LowerSafe, Bracket, Ordered
<1>3. Placed'
  BY DEF SearchInv, Placed
<1>4. Tight' /\ NoCrossing'
  BY DEF SearchInv, Tight, NoCrossing, Last, TightRow, BinarySafe
<1> QED  BY <1>1, <1>2, <1>3, <1>4 DEF SearchInv
----------------------------------------------------------------------------
\* The actions.

LEMMA ResolveBoundsStep ==
    ASSUME SearchInv, ResolveBounds
    PROVE  SearchInv'
<1>1. PICK api \in ApiBounds :
        Clamped(api).min =< Clamped(api).max /\ span' = Clamped(api)
  BY DEF ResolveBounds
<1>2. span' \in Intervals /\ span'.min =< span'.max
  BY <1>1, ClampedTyped
<1>3. stage' = "lower_bound" /\ trial = {}
  BY DEF ResolveBounds, SearchInv, Placed
<1>4. SearchTypeOK' /\ Searching'
  BY <1>2 DEF ResolveBounds, SearchInv, SearchTypeOK, Searching
<1>5. LowerSafe' /\ Bracket' /\ Ordered'
  BY <1>2, <1>3 DEF LowerSafe, Bracket, Ordered
<1>6. Placed'
  BY <1>3 DEF ResolveBounds, SearchInv, Placed
<1>7. Tight' /\ NoCrossing'
  BY DEF ResolveBounds, SearchInv, Tight, NoCrossing, Last, TightRow, BinarySafe
<1> QED  BY <1>4, <1>5, <1>6, <1>7 DEF SearchInv

LEMMA ProbeLowerStep ==
    ASSUME SearchInv, ProbeLower
    PROVE  SearchInv'
<1>0. /\ stage = "lower_bound" /\ stage' = "upper_bound" /\ index =< Len(gains)
      /\ UNCHANGED <<gains, index, span, low, high, halvings, rows>>
  BY DEF ProbeLower, SearchInv, Searching
<1>1. span \in Intervals /\ span.min =< span.max /\ span.min \in Nat \ {0}
      /\ span.max \in Nat
  BY <1>0 DEF SearchInv, SearchTypeOK, Ordered, Intervals
<1>2. PICK a \in Answers : /\ BinarySafe(RowAt(span.min * Grid[0], a))
                           /\ trial' = {RowAt(span.min * Grid[0], a)}
  BY DEF ProbeLower
<1>3. span.min * Grid[0] \in Nat
  BY <1>1, Scaled
<1> DEFINE row == RowAt(span.min * Grid[0], a)
<1>4. /\ row \in ProbeRow /\ row.search = index /\ row.span = span
      /\ row.gain = gains[index] /\ row.exposure = span.min * Grid[0]
  BY <1>0, <1>3, RowTyped DEF SearchInv
<1>5. BinarySafe(row) /\ trial' = {row}
  BY <1>2
<1> HIDE DEF row
<1>6. SearchTypeOK'
  BY <1>0, <1>4, <1>5 DEF SearchInv, SearchTypeOK
<1>7. Searching' /\ Bracket' /\ Ordered'
  BY <1>0, <1>1 DEF Searching, Bracket, Ordered
<1>8. LowerSafe'
  BY <1>0, <1>4, <1>5 DEF LowerSafe, BinarySafe
<1>9. Placed'
  BY <1>0, <1>4, <1>5 DEF SearchInv, Placed
<1>10. Tight'
  BY <1>0 DEF SearchInv, Tight, Last, TightRow, BinarySafe
<1>11. NoCrossing'
  <2>1. \A r \in rows : r.search # row.search
    BY <1>4 DEF SearchInv, Placed, SearchTypeOK
  <2> QED  BY <1>0, <1>5, <2>1 DEF SearchInv, NoCrossing, BinarySafe
<1> QED  BY <1>6, <1>7, <1>8, <1>9, <1>10, <1>11 DEF SearchInv

\* Adding a row that crosses none of its bisection keeps NoCrossing.
LEMMA OneMoreRow ==
    ASSUME SearchInv, NEW row \in ProbeRow, row.search = index,
           trial' = trial \cup {row}, rows' = rows,
           \A r \in trial : BinarySafe(r) /\ ~BinarySafe(row)
             => r.exposure < row.exposure \/ r.span.min = r.span.max,
           \A r \in trial : ~BinarySafe(r) /\ BinarySafe(row)
             => row.exposure < r.exposure \/ row.span.min = row.span.max
    PROVE  NoCrossing'
<1>1. \A r \in rows : r.search # index
  BY DEF SearchInv, Placed, SearchTypeOK
<1> SUFFICES ASSUME NEW r \in trial \cup {row} \cup rows,
                    NEW u \in trial \cup {row} \cup rows,
                    r.search = u.search, BinarySafe(r), ~BinarySafe(u)
             PROVE  r.exposure < u.exposure \/ r.span.min = r.span.max
  BY DEF NoCrossing, BinarySafe
<1>2. CASE r \in trial \cup rows /\ u \in trial \cup rows
  BY <1>2 DEF SearchInv, NoCrossing
<1>3. CASE r = row
  <2>1. u \in trial
    BY <1>1, <1>3
  <2> QED  BY <1>3, <2>1
<1>4. CASE u = row
  <2>1. r \in trial
    BY <1>1, <1>4
  <2> QED  BY <1>4, <2>1
<1> QED  BY <1>2, <1>3, <1>4

LEMMA ProbeUpperStep ==
    ASSUME SearchInv, ProbeUpper
    PROVE  SearchInv'
<1>0. stage = "upper_bound" /\ index =< Len(gains) /\ UNCHANGED <<gains, span>>
  BY DEF ProbeUpper, SearchInv, Searching
<1>1. /\ span \in Intervals /\ span.min =< span.max /\ span.min \in Nat \ {0}
      /\ span.max \in Nat
  BY <1>0 DEF SearchInv, SearchTypeOK, Ordered, Intervals
<1>2. PICK a \in Answers :
        LET row == RowAt(span.max * Grid[0], a)
        IN  \/ /\ BinarySafe(row)
               /\ GainDone(trial \cup {row})
               /\ UNCHANGED <<low, high, halvings>>
            \/ /\ ~BinarySafe(row)
               /\ trial' = trial \cup {row}
               /\ stage' = "midpoint"
               /\ low' = span.min * Grid[0]
               /\ high' = span.max * Grid[0]
               /\ halvings' = 0
               /\ UNCHANGED <<index, rows>>
  BY DEF ProbeUpper
<1>3. PICK bot \in Nat, top \in Nat, gap \in Nat :
        /\ bot = span.min * Grid[0] /\ top = span.max * Grid[0]
        /\ gap = (span.max - span.min) * Grid[0]
        /\ top = bot + gap /\ (span.min < span.max => bot < top)
  <2>1. (span.max - span.min) * Grid[0] \in Nat
    <3>1. span.max - span.min \in Nat
      BY <1>1, Scaled
    <3>2. 0 \in 0 .. Iterations /\ 0 < Iterations
      BY SearchAssumption
    <3> QED  BY <3>1, <3>2, HalfStep
  <2> QED  BY <1>1, <2>1, Scaled
<1> DEFINE row == RowAt(span.max * Grid[0], a)
<1>4. /\ row \in ProbeRow /\ row.search = index /\ row.span = span
      /\ row.gain = gains[index] /\ row.exposure = top
  BY <1>0, <1>3, RowTyped DEF SearchInv
<1>5. \/ /\ BinarySafe(row) /\ GainDone(trial \cup {row})
         /\ UNCHANGED <<low, high, halvings>>
      \/ /\ ~BinarySafe(row) /\ trial' = trial \cup {row} /\ stage' = "midpoint"
         /\ low' = bot /\ high' = top /\ halvings' = 0
         /\ UNCHANGED <<index, rows>>
  BY <1>2, <1>3
<1> HIDE DEF row
<1>6. /\ trial # {} /\ trial \in SUBSET ProbeRow
      /\ \A r \in trial : /\ BinarySafe(r) /\ r.exposure = bot /\ r.search = index
                          /\ r.span = span /\ r.gain = gains[index]
  BY <1>0, <1>3 DEF SearchInv, LowerSafe, Placed, SearchTypeOK
<1>7. CASE BinarySafe(row) /\ GainDone(trial \cup {row})
           /\ UNCHANGED <<low, high, halvings>>
  <2> DEFINE seen == trial \cup {row}
  <2>1. seen \in SUBSET ProbeRow
    BY <1>4, <1>6
  <2>2. \A r \in seen : r.search = index /\ r.gain = gains[index] /\ BinarySafe(r)
                         /\ r.span = span
    BY <1>4, <1>6, <1>7
  <2>3. ASSUME NEW r \in seen, Last(seen, r)
        PROVE  r.exposure = r.span.max * Grid[0]
    <3>1. row.exposure =< r.exposure
      BY <1>4, <1>7, <2>2, <2>3 DEF Last
    <3>2. r.exposure = bot \/ r.exposure = top
      BY <1>4, <1>6
    <3>3. r.exposure = top
      BY <1>3, <1>4, <3>1, <3>2
    <3> QED  BY <1>3, <2>2, <3>3
  <2>4. low' \in Nat /\ high' \in Nat /\ halvings' \in 0 .. Iterations
    BY <1>7 DEF SearchInv, SearchTypeOK
  <2>5. GainDone(seen) /\ gains' = gains /\ span' = span
    BY <1>0, <1>7
  <2>6. \A r \in seen : BinarySafe(r) /\ Last(seen, r) => TightRow(seen, r)
    BY <2>3 DEF TightRow
  <2> HIDE DEF seen
  <2> QED  BY <1>0, <2>1, <2>2, <2>4, <2>5, <2>6, Finishing
<1>8. CASE /\ ~BinarySafe(row) /\ trial' = trial \cup {row} /\ stage' = "midpoint"
           /\ low' = bot /\ high' = top /\ halvings' = 0
           /\ UNCHANGED <<index, rows>>
  <2>1. SearchTypeOK'
    <3>1. 0 \in 0 .. Iterations
      BY SearchAssumption
    <3> QED  BY <1>0, <1>3, <1>4, <1>8, <3>1 DEF SearchInv, SearchTypeOK
  <2>2. Searching' /\ LowerSafe' /\ Ordered'
    BY <1>0, <1>1, <1>8 DEF Searching, LowerSafe, Ordered
  <2>3. Placed'
    <3>1. \A r \in rows' : r.search < index'
      BY <1>8 DEF SearchInv, Placed
    <3>2. \A r \in trial' : r.search = index' /\ r.span = span'
      BY <1>0, <1>4, <1>6, <1>8
    <3>3. \A r \in rows' \cup trial' : r.gain = gains'[r.search]
      BY <1>0, <1>4, <1>6, <1>8 DEF SearchInv, Placed
    <3> QED  BY <1>8, <3>1, <3>2, <3>3 DEF Placed
  <2>4. Bracket'
    <3>1. 0 < Iterations
      BY SearchAssumption
    <3>2. high' = low' + (span.max - span.min) * Grid[0]
      BY <1>3, <1>8
    <3>3. \A r \in trial' : BinarySafe(r) => r.exposure =< low'
      BY <1>3, <1>6, <1>8
    <3>4. \A r \in trial' : ~BinarySafe(r) => high' =< r.exposure
      BY <1>3, <1>4, <1>6, <1>8
    <3>5. \E r \in trial' : BinarySafe(r) /\ r.exposure = low'
      BY <1>6, <1>8
    <3>6. \E r \in trial' : ~BinarySafe(r) /\ r.exposure = high'
      BY <1>4, <1>8
    <3> QED  BY <1>0, <1>8, <3>1, <3>2, <3>3, <3>4, <3>5, <3>6 DEF Bracket, Gaps, BinarySafe
  <2>5. Tight'
    BY <1>8 DEF SearchInv, Tight, Last, TightRow, BinarySafe
  <2>6. NoCrossing'
    <3>1. \A r \in trial : r.exposure < row.exposure \/ r.span.min = r.span.max
      BY <1>1, <1>3, <1>4, <1>6
    <3> QED  BY <1>4, <1>6, <1>8, <3>1, OneMoreRow
  <2> QED  BY <2>1, <2>2, <2>3, <2>4, <2>5, <2>6 DEF SearchInv
<1> QED  BY <1>5, <1>7, <1>8

LEMMA ProbeMidpointStep ==
    ASSUME SearchInv, ProbeMidpoint
    PROVE  SearchInv'
<1>0. /\ stage = "midpoint" /\ index =< Len(gains) /\ UNCHANGED <<gains, span>>
      /\ halvings' = halvings + 1
  BY DEF ProbeMidpoint, SearchInv, Searching
<1>1. /\ span \in Intervals /\ span.min =< span.max /\ span.min \in Nat \ {0}
      /\ span.max \in Nat /\ Gaps \in Nat
  BY <1>0 DEF SearchInv, SearchTypeOK, Ordered, Intervals, Gaps
<1>2. /\ halvings \in 0 .. Iterations /\ halvings < Iterations
      /\ halvings' \in 0 .. Iterations /\ low \in Nat /\ high \in Nat
  BY <1>0, SearchAssumption DEF SearchInv, SearchTypeOK, Bracket
\* The bracket is twice w wide, and w is open unless the bounds coincide.
<1>3. PICK w \in Nat : /\ w = Gaps * Grid[halvings + 1]
                       /\ high = low + (w + w)
                       /\ span.min = span.max \/ w > 0
  <2>1. Gaps * Grid[halvings + 1] \in Nat
        /\ Gaps * Grid[halvings] = Gaps * Grid[halvings + 1] + Gaps * Grid[halvings + 1]
    BY <1>1, <1>2, HalfStep
  <2>2. high = low + Gaps * Grid[halvings]
    BY <1>0 DEF SearchInv, Bracket
  <2>3. span.min = span.max \/ Gaps * Grid[halvings + 1] > 0
    <3>1. halvings + 1 \in 0 .. Iterations
      BY <1>2, SearchAssumption
    <3>2. Gaps # 0 => Gaps * Grid[halvings + 1] > 0
      BY <1>1, <3>1, StillOpen
    <3>3. Gaps = 0 => span.min = span.max
      BY <1>1 DEF Gaps
    <3> QED  BY <3>2, <3>3
  <2> QED  BY <2>1, <2>2, <2>3
<1>4. Middle = low + w /\ Middle \in Nat
  BY <1>2, <1>3, HalfSum DEF Middle
<1>5. PICK a \in Answers :
        LET row == RowAt(Middle, a)
        IN  /\ Narrow(row)
            /\ \/ /\ Another
                  /\ trial' = trial \cup {row}
                  /\ UNCHANGED <<index, stage, rows>>
               \/ /\ ~Another
                  /\ GainDone(trial \cup {row})
  BY DEF ProbeMidpoint
<1> DEFINE row == RowAt(Middle, a)
<1>6. /\ row \in ProbeRow /\ row.search = index /\ row.span = span
      /\ row.gain = gains[index] /\ row.exposure = low + w
  BY <1>0, <1>4, RowTyped DEF SearchInv
<1>7. \/ BinarySafe(row) /\ low' = low + w /\ high' = high
      \/ ~BinarySafe(row) /\ high' = low + w /\ low' = low
  BY <1>5, <1>6 DEF Narrow
<1>8. \/ Another /\ trial' = trial \cup {row} /\ UNCHANGED <<index, stage, rows>>
      \/ ~Another /\ GainDone(trial \cup {row})
  BY <1>5
<1> HIDE DEF row
<1>9. /\ trial \in SUBSET ProbeRow
      /\ \A r \in trial : /\ r.search = index /\ r.span = span
                          /\ r.gain = gains[index] /\ r.exposure \in Nat
      /\ \A r \in trial : BinarySafe(r) => r.exposure =< low
      /\ \A r \in trial : ~BinarySafe(r) => high =< r.exposure
      /\ \E r \in trial : BinarySafe(r) /\ r.exposure = low
      /\ \E r \in trial : ~BinarySafe(r) /\ r.exposure = high
  BY <1>0 DEF SearchInv, Bracket, Placed, SearchTypeOK, ProbeRow
<1>10. \A r \in trial : /\ BinarySafe(r) => r.exposure < row.exposure \/ span.min = span.max
                        /\ ~BinarySafe(r) => row.exposure < r.exposure \/ span.min = span.max
  BY <1>2, <1>3, <1>6, <1>9
<1>11. low' \in Nat /\ high' \in Nat
  BY <1>2, <1>3, <1>7
<1>12. CASE Another /\ trial' = trial \cup {row} /\ UNCHANGED <<index, stage, rows>>
  <2>1. SearchTypeOK'
    BY <1>0, <1>2, <1>6, <1>11, <1>12 DEF SearchInv, SearchTypeOK
  <2>2. Searching' /\ LowerSafe' /\ Ordered'
    BY <1>0, <1>1, <1>12 DEF SearchInv, Searching, LowerSafe, Ordered
  <2>3. Placed'
    <3>1. \A r \in rows' : r.search < index'
      BY <1>12 DEF SearchInv, Placed
    <3>2. \A r \in trial' : r.search = index' /\ r.span = span'
      BY <1>0, <1>6, <1>9, <1>12
    <3>3. \A r \in rows' \cup trial' : r.gain = gains'[r.search]
      BY <1>0, <1>6, <1>9, <1>12 DEF SearchInv, Placed
    <3> QED  BY <1>0, <1>12, <3>1, <3>2, <3>3 DEF Placed
  <2>4. Bracket'
    <3>1. halvings' < Iterations
      BY <1>0, <1>12 DEF Another
    <3>2. high' = low' + w
      BY <1>2, <1>3, <1>7
    <3>3. high' = low' + Gaps' * Grid[halvings']
      BY <1>0, <1>3, <3>2 DEF Gaps
    <3>4. \A r \in trial' : BinarySafe(r) => r.exposure =< low'
      BY <1>2, <1>3, <1>6, <1>7, <1>9, <1>12
    <3>5. \A r \in trial' : ~BinarySafe(r) => high' =< r.exposure
      BY <1>2, <1>3, <1>6, <1>7, <1>9, <1>12
    <3>6. \E r \in trial' : BinarySafe(r) /\ r.exposure = low'
      BY <1>6, <1>7, <1>9, <1>12
    <3>7. \E r \in trial' : ~BinarySafe(r) /\ r.exposure = high'
      BY <1>6, <1>7, <1>9, <1>12
    <3> QED  BY <3>1, <3>3, <3>4, <3>5, <3>6, <3>7 DEF Bracket, BinarySafe
  <2>5. Tight'
    BY <1>12 DEF SearchInv, Tight, Last, TightRow, BinarySafe
  <2>6. NoCrossing'
    BY <1>6, <1>9, <1>10, <1>12, OneMoreRow
  <2> QED  BY <2>1, <2>2, <2>3, <2>4, <2>5, <2>6 DEF SearchInv
<1>13. CASE ~Another /\ GainDone(trial \cup {row})
  <2> DEFINE seen == trial \cup {row}
  <2>1. /\ seen \in SUBSET ProbeRow
        /\ \A r \in seen : r.search = index /\ r.gain = gains[index] /\ r.span = span
    BY <1>6, <1>9
  <2>2. ASSUME NEW r \in seen, NEW u \in seen, BinarySafe(r), ~BinarySafe(u)
        PROVE  r.exposure < u.exposure \/ r.span.min = r.span.max
    <3>1. CASE r \in trial /\ u \in trial
      BY <2>2, <1>9, <3>1 DEF SearchInv, NoCrossing
    <3>2. CASE r = row \/ u = row
      BY <2>1, <2>2, <1>10, <3>2
    <3> QED  BY <3>1, <3>2
  <2>3. Grid[Iterations] = Grid[halvings + 1]
    BY <1>2, <1>13, SearchAssumption DEF Another
  <2>4. ASSUME NEW r \in seen, BinarySafe(r), Last(seen, r)
        PROVE  \E u \in seen : /\ u.search = r.search /\ ~BinarySafe(u)
                                /\ u.exposure = r.exposure + w
    <3>1. CASE BinarySafe(row)
      <4>1. row.exposure =< r.exposure
        BY <2>1, <2>4, <3>1, <1>6 DEF Last
      <4>3. r.exposure = low + w
        <5>1. CASE r = row
          BY <1>6, <5>1
        <5>2. CASE r \in trial
          <6>1. r.exposure \in Nat /\ r.exposure =< low /\ low + w =< r.exposure
            BY <1>6, <1>9, <2>4, <4>1, <5>2
          <6> QED  BY <1>2, <6>1
        <5> QED  BY <5>1, <5>2
      <4>4. PICK u \in trial : ~BinarySafe(u) /\ u.exposure = high
        BY <1>9
      <4>5. u.exposure = r.exposure + w
        BY <1>2, <1>3, <4>3, <4>4
      <4> QED  BY <2>1, <4>4, <4>5
    <3>2. CASE ~BinarySafe(row)
      <4>1. r \in trial /\ r.exposure =< low /\ r.exposure \in Nat
        BY <1>9, <2>4, <3>2
      <4>2. PICK s \in trial : BinarySafe(s) /\ s.exposure = low
        BY <1>9
      <4>3. s.exposure =< r.exposure
        BY <2>1, <2>4, <4>2 DEF Last
      <4>4. row.exposure = r.exposure + w
        BY <1>2, <1>6, <4>1, <4>2, <4>3
      <4> QED  BY <2>1, <3>2, <4>4
    <3> QED  BY <3>1, <3>2
  <2>5. \A r \in seen : BinarySafe(r) /\ Last(seen, r) => TightRow(seen, r)
    <3> SUFFICES ASSUME NEW r \in seen, BinarySafe(r), Last(seen, r)
                 PROVE  TightRow(seen, r)
      OBVIOUS
    <3>1. (r.span.max - r.span.min) * Grid[Iterations] = w
      BY <1>3, <2>1, <2>3 DEF Gaps
    <3> QED  BY <2>4, <3>1 DEF TightRow
  <2>6. GainDone(seen) /\ gains' = gains /\ span' = span
    BY <1>0, <1>13
  <2> HIDE DEF seen
  <2> QED  BY <1>0, <1>2, <1>11, <2>1, <2>2, <2>5, <2>6, Finishing
<1> QED  BY <1>8, <1>12, <1>13
----------------------------------------------------------------------------
\* The theorems.

\* A sorted list of gains is one.
LEMMA AscendingTyped ==
    ASSUME NEW plan \in GainPlans, NEW sorted \in Ascending(plan)
    PROVE  sorted \in Seq(Nat) /\ sorted # <<>>
<1>1. plan \in Seq(Nat) /\ plan # <<>> /\ Len(plan) \in Nat /\ Len(plan) >= 1
      /\ DOMAIN plan = 1 .. Len(plan) /\ {plan[i] : i \in DOMAIN plan} \subseteq Nat
  BY SearchAssumption
<1>2. sorted \in [1 .. Len(plan) -> Nat]
  BY <1>1 DEF Ascending
<1> QED  BY <1>1, <1>2

\* A search that has just begun.
LEMMA Fresh ==
    ASSUME gains \in Seq(Nat), gains # <<>>, index = 1, stage = "bounds",
           span = Config, low = 0, high = 0, halvings = 0, trial = {}, rows = {}
    PROVE  SearchInv
<1>1. Len(gains) \in Nat /\ Len(gains) >= 1
  OBVIOUS
<1>2. SearchTypeOK /\ Searching
  BY <1>1, SearchAssumption DEF SearchTypeOK, Searching
<1>3. Placed /\ LowerSafe /\ Bracket /\ Ordered /\ Tight /\ NoCrossing
  BY DEF Placed, LowerSafe, Bracket, Ordered, Tight, NoCrossing
<1> QED  BY <1>2, <1>3 DEF SearchInv

LEMMA SearchInvInit == SearchInit => SearchInv
BY AscendingTyped, Fresh DEF SearchInit

LEMMA SearchInvNext == SearchInv /\ [SearchNext]_vars => SearchInv'
<1> SUFFICES ASSUME SearchInv, [SearchNext]_vars PROVE SearchInv'
  OBVIOUS
<1>1. CASE ResolveBounds
  BY <1>1, ResolveBoundsStep
<1>2. CASE BoundsRefused
  BY <1>2, Ending DEF BoundsRefused
<1>3. CASE ProbeLower
  BY <1>3, ProbeLowerStep
<1>4. CASE LowerUnsafe
  <2>1. trial = {}
    BY <1>4 DEF LowerUnsafe, SearchInv, Placed
  <2> QED  BY <1>4, <2>1, Ending DEF LowerUnsafe, AfterUnsafeLower
<1>5. CASE ProbeUpper
  BY <1>5, ProbeUpperStep
<1>6. CASE ProbeMidpoint
  BY <1>6, ProbeMidpointStep
<1>7. CASE ProbeRaises
  BY <1>7, Ending DEF ProbeRaises
<1>8. CASE UNCHANGED vars
  <2>1. SearchTypeOK' /\ Searching' /\ Ordered'
    BY <1>8 DEF vars, SearchInv, SearchTypeOK, Searching, Ordered
  <2>2. Placed' /\ LowerSafe'
    BY <1>8 DEF vars, SearchInv, Placed, LowerSafe, BinarySafe
  <2>3. Bracket'
    BY <1>8 DEF vars, SearchInv, Bracket, Gaps, BinarySafe
  <2>4. Tight' /\ NoCrossing'
    BY <1>8 DEF vars, SearchInv, Tight, NoCrossing, Last, TightRow, BinarySafe
  <2> QED  BY <2>1, <2>2, <2>3, <2>4 DEF SearchInv
<1> QED
  BY <1>1, <1>2, <1>3, <1>4, <1>5, <1>6, <1>7, <1>8 DEF SearchNext

\* The combined invariant of the search.
THEOREM SearchInvariant == SearchSpec => []SearchInv
<1> QED  BY SearchInvInit, SearchInvNext, PTL DEF SearchSpec

\* Types: exposures stay natural numbers of the grid, the gain searched is one
\* of the plan's, and no more midpoints are probed than the plan asks for.
THEOREM SearchTyped == SearchSpec => []SearchTypeOK
<1>1. SearchInv => SearchTypeOK
  BY DEF SearchInv
<1> QED  BY <1>1, SearchInvariant, PTL

\* However the light behaves, for every plan: evaluate_exposure_binary_search
\* never finds an exposure safe that is as long as one it found unsafe.
THEOREM SearchNeverCrosses == SearchSpec => []NoCrossing
<1>1. SearchInv => NoCrossing
  BY DEF SearchInv
<1> QED  BY <1>1, SearchInvariant, PTL

LEMMA TightPublished == ASSUME SearchInv PROVE PublishedIsTight
<1> SUFFICES ASSUME NEW r \in Published PROVE TightRow(rows, r)
  BY DEF PublishedIsTight, TightRow
<1>1. r \in rows /\ BinarySafe(r)
  BY DEF Published, SafeRows
<1>2. ASSUME NEW o \in rows, o.search = r.search, BinarySafe(o)
      PROVE  o.exposure =< r.exposure
  <2>1. o.gain = r.gain
    BY <1>1, <1>2 DEF SearchInv, Placed
  <2>2. o \in SafeRows
    BY <1>2 DEF SafeRows, PsfSafe, BinarySafe
  <2> QED  BY <2>1, <2>2 DEF Published
<1>3. Last(rows, r)
  BY <1>2 DEF Last
<1> QED  BY <1>1, <1>3 DEF SearchInv, Tight

\* What safe_exposure_profiles_by_gain publishes is the upper bound, or one last
\* interval below an exposure seen unsafe, for every plan and all bounds.
THEOREM SearchPublishesTight == SearchSpec => []PublishedIsTight
<1>1. SearchInv => PublishedIsTight
  BY TightPublished
<1> QED  BY <1>1, SearchInvariant, PTL

----------------------------------------------------------------------------
\* Least and greatest numbers, and the row of the greatest exposure.

LEMMA Least ==
    ASSUME NEW T \in SUBSET Nat, T # {}
    PROVE  \E x \in T : \A y \in T : x =< y
<1>1. PICK x \in T : \A y \in T : <<y, x>> \notin OpToRel(<, Nat)
  <2> DEFINE R == OpToRel(<, Nat)
  <2>1. IsWellFoundedOn(R, Nat)
    BY NatLessThanWellFounded, Zenon
  <2> HIDE DEF R
  <2>2. \E x \in T : \A y \in T : <<y, x>> \notin R
    BY <2>1, WFMin, Zenon
  <2> QED  BY <2>2 DEF R
<1>2. \A y \in T : ~(y < x)
  BY <1>1 DEF OpToRel
<1> QED  BY <1>2

LEMMA Greatest ==
    ASSUME NEW T \in SUBSET Nat, T # {}, NEW b \in Nat, \A y \in T : y =< b
    PROVE  \E x \in T : \A y \in T : y =< x
<1> DEFINE U == {n \in Nat : \E y \in T : y + n = b}
<1>1. U \in SUBSET Nat
  OBVIOUS
<1>2. U # {}
  <2>1. PICK y \in T : TRUE
    OBVIOUS
  <2>2. b - y \in Nat /\ y + (b - y) = b
    BY <2>1
  <2> QED  BY <2>2
<1>3. PICK n \in U : \A k \in U : n =< k
  BY <1>1, <1>2, Least
<1>4. PICK x \in T : x + n = b
  BY <1>3
<1>5. ASSUME NEW y \in T PROVE y =< x
  <2>1. b - y \in U
    <3>1. b - y \in Nat /\ y + (b - y) = b
      BY <1>5
    <3> QED  BY <3>1
  <2>2. n =< b - y
    BY <1>3, <2>1
  <2> QED  BY <1>3, <1>4, <2>2
<1> QED  BY <1>5

LEMMA Longest ==
    ASSUME NEW X, X # {}, NEW b \in Nat,
           \A r \in X : r.exposure \in Nat /\ r.exposure =< b
    PROVE  \E r \in X : \A o \in X : o.exposure =< r.exposure
<1> DEFINE T == {r.exposure : r \in X}
<1>1. T \in SUBSET Nat /\ T # {} /\ \A y \in T : y =< b
  OBVIOUS
<1> HIDE DEF T
<1>2. PICK e \in T : \A y \in T : y =< e
  BY <1>1, Greatest
<1> QED  BY <1>2 DEF T
----------------------------------------------------------------------------
\* A gain that is finished has a safe row, and so has a search that returned;
\* there is an exposure longer than any that was probed.

Supplied ==
    /\ index > 1 \/ stage = "returned" => \E r \in rows : BinarySafe(r)
    /\ \E b \in Nat : \A r \in trial \cup rows : r.exposure =< b

LEMMA BoundOfOneMore ==
    ASSUME SearchTypeOK, Supplied, NEW row \in ProbeRow
    PROVE  \E b \in Nat : \A r \in trial \cup {row} \cup rows : r.exposure =< b
<1>1. PICK b \in Nat : \A r \in trial \cup rows : r.exposure =< b
  BY DEF Supplied
<1>2. row.exposure \in Nat /\ \A r \in trial \cup rows : r.exposure \in Nat
  BY DEF SearchTypeOK, ProbeRow
<1>3. b + row.exposure \in Nat
  BY <1>2
<1>4. \A r \in trial \cup {row} \cup rows : r.exposure =< b + row.exposure
  BY <1>1, <1>2
<1> QED  BY <1>3, <1>4

\* A probe adds one row; if it ends the bisection, there is a safe one.
LEMMA SuppliedByProbe ==
    ASSUME SearchInv, Supplied, NEW row \in ProbeRow,
           \/ /\ trial' = trial \cup {row} /\ UNCHANGED <<index, rows>>
              /\ stage # "returned" /\ stage' # "returned"
           \/ GainDone(trial \cup {row}) /\ \E r \in trial \cup {row} : BinarySafe(r)
    PROVE  Supplied'
<1>1. PICK b \in Nat : \A r \in trial \cup {row} \cup rows : r.exposure =< b
  BY BoundOfOneMore DEF SearchInv
<1>2. trial' \cup rows' \subseteq trial \cup {row} \cup rows
  BY DEF GainDone
<1>3. (index > 1 \/ stage = "returned" => \E r \in rows : BinarySafe(r))'
  <2>1. CASE GainDone(trial \cup {row}) /\ \E r \in trial \cup {row} : BinarySafe(r)
    BY <2>1 DEF GainDone, BinarySafe
  <2>2. CASE UNCHANGED <<index, rows>> /\ stage' # "returned"
    BY <2>2 DEF Supplied, BinarySafe
  <2> QED  BY <2>1, <2>2
<1> QED  BY <1>1, <1>2, <1>3 DEF Supplied

LEMMA SuppliedNext ==
    ASSUME SearchInv, Supplied, [SearchNext]_vars
    PROVE  Supplied'
<1>1. CASE UNCHANGED <<index, trial, rows>> /\ (stage' # "returned" \/ stage' = stage)
  BY <1>1 DEF Supplied, BinarySafe
<1>2. CASE LowerUnsafe
  <2>1. stage' = "returned" => index > 1
    BY <1>2 DEF LowerUnsafe, AfterUnsafeLower, SearchInv, SearchTypeOK
  <2> QED  BY <1>2, <2>1 DEF LowerUnsafe, Supplied, BinarySafe
<1>3. CASE ProbeLower
  <2>0. /\ stage = "lower_bound" /\ stage' = "upper_bound" /\ index =< Len(gains)
        /\ UNCHANGED <<index, rows>> /\ trial = {}
    BY <1>3 DEF ProbeLower, SearchInv, Searching, Placed
  <2>1. PICK a \in Answers : trial' = {RowAt(span.min * Grid[0], a)}
    BY <1>3 DEF ProbeLower
  <2>2. span.min * Grid[0] \in Nat
    BY <2>0, Scaled DEF SearchInv, SearchTypeOK, Ordered, Intervals
  <2>3. RowAt(span.min * Grid[0], a) \in ProbeRow
    BY <2>0, <2>2, RowTyped DEF SearchInv
  <2> QED  BY <2>0, <2>1, <2>3, SuppliedByProbe
<1>4. CASE ProbeUpper
  <2>0. stage = "upper_bound" /\ index =< Len(gains)
    BY <1>4 DEF ProbeUpper, SearchInv, Searching
  <2>1. PICK a \in Answers :
          \/ GainDone(trial \cup {RowAt(span.max * Grid[0], a)})
          \/ /\ trial' = trial \cup {RowAt(span.max * Grid[0], a)}
             /\ stage' = "midpoint" /\ UNCHANGED <<index, rows>>
    BY <1>4 DEF ProbeUpper
  <2>2. span.max * Grid[0] \in Nat
    BY <2>0, Scaled DEF SearchInv, SearchTypeOK, Ordered, Intervals
  <2>3. RowAt(span.max * Grid[0], a) \in ProbeRow
    BY <2>0, <2>2, RowTyped DEF SearchInv
  <2>4. \E r \in trial : BinarySafe(r)
    BY <2>0 DEF SearchInv, LowerSafe
  <2> QED  BY <2>0, <2>1, <2>3, <2>4, SuppliedByProbe
<1>5. CASE ProbeMidpoint
  <2>0. stage = "midpoint" /\ index =< Len(gains)
    BY <1>5 DEF ProbeMidpoint, SearchInv, Searching
  <2>1. PICK a \in Answers :
          /\ Narrow(RowAt(Middle, a))
          /\ \/ GainDone(trial \cup {RowAt(Middle, a)})
             \/ /\ trial' = trial \cup {RowAt(Middle, a)}
                /\ UNCHANGED <<index, stage, rows>>
    BY <1>5 DEF ProbeMidpoint
  <2>2. Middle \in Nat
    BY DEF SearchInv, SearchTypeOK, Middle
  <2>3. RowAt(Middle, a) \in ProbeRow
    BY <2>0, <2>2, RowTyped DEF SearchInv
  <2>4. \E r \in trial : BinarySafe(r)
    BY <2>0 DEF SearchInv, Bracket
  <2> QED  BY <2>0, <2>1, <2>3, <2>4, SuppliedByProbe
<1>6. CASE ResolveBounds \/ BoundsRefused \/ ProbeRaises \/ UNCHANGED vars
  BY <1>1, <1>6 DEF ResolveBounds, BoundsRefused, ProbeRaises, vars
<1> QED  BY <1>2, <1>3, <1>4, <1>5, <1>6 DEF SearchNext

LEMMA SuppliedAtFirst ==
    ASSUME index = 1, stage = "bounds", trial = {}, rows = {}
    PROVE  Supplied
<1>1. \A r \in trial \cup rows : r.exposure =< 0
  OBVIOUS
<1> QED  BY <1>1 DEF Supplied

\* Whatever the probes see, evaluate_gain_binary_search returns only after a gain
\* whose lower bound was safe.
THEOREM SearchSupplied == SearchSpec => []Supplied
<1>1. SearchInit => Supplied
  BY SuppliedAtFirst DEF SearchInit
<1>2. SearchInv /\ Supplied /\ [SearchNext]_vars => Supplied'
  BY SuppliedNext
<1> QED  BY <1>1, <1>2, SearchInvariant, PTL DEF SearchSpec

LEMMA ProfileReturned ==
    ASSUME SearchTypeOK, Supplied, stage = "returned"
    PROVE  Recommended # {} /\ Published # {}
<1>1. PICK b \in Nat : \A r \in rows : r.exposure =< b
  BY DEF Supplied
<1>2. \A r \in rows : r.exposure \in Nat /\ r.gain \in Nat
                      /\ r.seen.signal \in Nat /\ r.seen.signal =< MaxSignal
  BY SearchAssumption DEF SearchTypeOK, ProbeRow, Answers
<1>3. PICK safe \in SafeRows : TRUE
  BY DEF Supplied, SafeRows, PsfSafe, BinarySafe
<1>4. SafeRows \subseteq rows
  BY DEF SafeRows
<1>5. Published # {}
  <2> DEFINE X == {o \in SafeRows : o.gain = safe.gain}
  <2>1. X # {} /\ \A r \in X : r.exposure \in Nat /\ r.exposure =< b
    BY <1>1, <1>2, <1>3, <1>4
  <2>2. PICK r \in X : \A o \in X : o.exposure =< r.exposure
    BY <2>1, Longest
  <2>3. r \in Published
    BY <2>2 DEF Published
  <2> QED  BY <2>3
<1>6. Recommended # {}
  <2>1. Pool \subseteq rows /\ Pool # {}
    BY <1>3, <1>4 DEF Pool
  <2> DEFINE G == {r.gain : r \in Pool}
  <2>2. PICK g \in G : \A h \in G : g =< h
    <3>1. G \in SUBSET Nat /\ G # {}
      BY <1>2, <2>1
    <3> HIDE DEF G
    <3> QED  BY <3>1, Least
  <2> DEFINE S == {r.seen.signal : r \in {o \in Pool : o.gain = g}}
  <2>3. PICK s \in S : \A t \in S : t =< s
    <3>1. S \in SUBSET Nat /\ S # {} /\ \A t \in S : t =< MaxSignal
      BY <1>2, <2>1, <2>2
    <3>2. MaxSignal \in Nat
      BY SearchAssumption
    <3> HIDE DEF S
    <3> QED  BY <3>1, <3>2, Greatest
  <2> DEFINE X == {o \in Pool : o.gain = g /\ o.seen.signal = s}
  <2>4. X # {} /\ \A r \in X : r.exposure \in Nat /\ r.exposure =< b
    BY <1>1, <1>2, <2>1, <2>3
  <2>5. PICK r \in X : \A o \in X : o.exposure =< r.exposure
    BY <2>4, Longest
  <2>6. ASSUME NEW o \in Pool PROVE Preferred(r, o)
    <3>1. /\ r.gain = g /\ r.seen.signal = s
          /\ o.gain \in Nat /\ g \in Nat /\ o.exposure \in Nat /\ r.exposure \in Nat
          /\ o.seen.signal \in Nat /\ s \in Nat
      BY <1>2, <2>1, <2>5
    <3>2. g =< o.gain
      BY <2>2
    <3>3. o.gain = g => o.seen.signal =< s
      BY <2>3
    <3>4. o.gain = g /\ o.seen.signal = s => o.exposure =< r.exposure
      BY <2>5
    <3> QED  BY <3>1, <3>2, <3>3, <3>4 DEF Preferred
  <2>7. r \in Recommended
    BY <2>5, <2>6 DEF Recommended
  <2> QED  BY <2>7
<1> QED  BY <1>5, <1>6

\* A search that returns gives select_recommended_probe a row to recommend and
\* safe_exposure_profiles_by_gain one to publish, for every plan.
THEOREM SearchReturnsProfile == SearchSpec => []ReturnedHasProfile
<1>1. SearchInv /\ Supplied => ReturnedHasProfile
  BY ProfileReturned DEF SearchInv, ReturnedHasProfile
<1> QED  BY <1>1, SearchInvariant, SearchSupplied, PTL

LEMMA LongestRecommended ==
    ASSUME SearchTypeOK, Steady, NEW r \in Recommended
    PROVE  r \in Published
<1>1. \A o \in SafeRows : o.exposure \in Nat /\ o.gain \in Nat /\ o.seen.signal \in Nat
  BY SearchAssumption DEF SafeRows, SearchTypeOK, ProbeRow, Answers
<1>2. r \in Pool /\ r \in SafeRows
  BY DEF Recommended, Pool
<1>3. ASSUME NEW o \in SafeRows, o.gain = r.gain, r.exposure < o.exposure
      PROVE  FALSE
  <2>1. r.seen.signal =< o.seen.signal /\ (Usable(r) => Usable(o))
    BY <1>1, <1>2, <1>3 DEF Steady
  <2>2. o \in Pool
    BY <1>2, <1>3, <2>1 DEF Pool
  <2>3. Preferred(r, o)
    BY <2>2 DEF Recommended
  <2> QED  BY <1>1, <1>2, <1>3, <2>1, <2>3 DEF Preferred
<1> QED  BY <1>1, <1>2, <1>3 DEF Published

LEMMA SelectionsAgree == SearchTypeOK => RecommendedIsPublished
<1> SUFFICES ASSUME SearchTypeOK, Steady, NEW r \in Recommended
             PROVE  \E p \in Published : p.gain = r.gain /\ p.exposure = r.exposure
  BY DEF RecommendedIsPublished
<1>1. r \in Published
  BY LongestRecommended
<1> QED  BY <1>1

\* In a steady scene the recommended exposure is the longest safe one of its
\* gain, and so the one published, whichever gains gave a usable signal.
THEOREM RecommendedAsPublished == SearchSpec => []RecommendedIsPublished
<1> QED  BY SelectionsAgree, SearchTyped, PTL

-----------------------------------------------------------------------------
(* The chain.                                                               *)

\* The condition of a search with the whole LCD open in pass-through light,
\* and of one with a pupil open at a wavelength.
OpenLcd == [mask |-> Solid, light |-> Pass]
InBand(p, w) == [mask |-> p.aperture, light |-> w]

\* What the profile files were made under.
CameraCalibrated(c) ==
  \/ c.family = "broadband_passthrough" /\ DOMAIN c.settings = {Pass} /\ c.settings[Pass] = OpenLcd
  \/ /\ c.family = "per_band_pupil_open"
     /\ \E p \in pupils :
          c.depends = p.id /\ \A w \in DOMAIN c.settings : c.settings[w] = InBand(p, w)

FilesCalibrated ==
  PupilScannedAsCalibrated /\ \A c \in cameras : CameraCalibrated(c)

-----------------------------------------------------------------------------
(* The programs: what they were given and where they stand.                 *)

PlanEntry == [effective : Bands, setpoint : Bands \cup {None}]

BroadbandJob == [task : {"broadband"}, requires : {None}, pupil : {None}, camera : {None}, waves : {<<>>}]
PupilJob == [task : {"pupil"}, requires : [camera : CameraIds], pupil : {None}, camera : cameras,
             waves : {<<>>}]
BandJob == [task : {"per_band"}, requires : [pupil : PupilIds], pupil : pupils, camera : {None},
            waves : Seq(Nat \ {Pass})]
CaptureJob == [task : {"capture"}, requires : Requirements, pupil : pupils, camera : cameras,
               waves : Seq(PlanEntry), masks : Apertures, enable_tls : BOOLEAN]

JobOK ==
  \/ step \in {"idle", "writing", "manifest"}
  \/ /\ job \in BroadbandJob
     /\ step \in {"open", "show", "pass", "search", "searching", "profile", "close"}
  \/ /\ job \in PupilJob
     /\ step \in {"open", "check", "pass", "apply", "bright", "bars", "dark", "radii", "profile", "close"}
  \/ /\ job \in BandJob
     /\ step \in {"open", "check", "show", "move", "search", "searching", "profile", "close"}
  \/ /\ job \in CaptureJob
     /\ step \in {"open", "check", "setting", "move", "frames", "finish", "close"}

\* Between programs nothing is left of the last one.
IdleBench == step \in {"idle", "writing", "manifest", "open"} => found = <<>> /\ samples = {}

BroadbandBench ==
  job \in BroadbandJob =>
    /\ step \in {"pass", "search", "searching"} => lcd = Solid
    /\ step \in {"search", "searching"} => light = Pass
    /\ step \in {"show", "pass", "search", "searching", "profile"} =>
         \A k \in DOMAIN found : found[k] = OpenLcd

PupilBench ==
  job \in PupilJob =>
    /\ step \in {"pass", "apply", "bright", "bars", "dark", "radii", "profile"} =>
         job.camera.family = "broadband_passthrough"
    /\ step \in {"apply", "bright", "bars", "dark", "radii", "profile"} => light = Pass
    /\ step \in {"bright", "bars", "dark", "radii", "profile"} => setting = OpenLcd
    /\ step \in {"check", "pass", "apply", "bright"} => samples = {}
    /\ step \in {"bars", "dark", "radii", "profile"} => samples = {[light |-> Pass, setting |-> OpenLcd]}

BandBench ==
  job \in BandJob =>
    /\ step \in {"open", "check", "show", "move", "search", "searching"} => job.waves # <<>>
    /\ step \in {"move", "search", "searching"} => lcd = job.pupil.aperture
    /\ step \in {"search", "searching"} => light = Head(job.waves)
    /\ step \in {"check", "show", "move", "search", "searching", "profile"} =>
         \A k \in DOMAIN found : found[k] = InBand(job.pupil, k)

\* A row of a capture made with pupil p and camera profile c.
RowFits(r, p, c) ==
  /\ r.mask = p.aperture
  /\ r.entry.effective \in DOMAIN c.settings /\ r.setting = c.settings[r.entry.effective]
  /\ r.entry.setpoint = r.entry.effective => r.light = r.entry.effective

CaptureBench ==
  job \in CaptureJob =>
    /\ step \in {"open", "check", "setting", "move", "frames", "finish"} => capture = None
    /\ step \in {"open", "check", "setting", "move", "frames"} => job.waves # <<>>
    /\ step = "check" => samples = {}
    /\ step \in {"setting", "move", "frames", "finish"} =>
         /\ PsfDependencies(job.requires, job.pupil, job.camera, Effective(job.waves))
         /\ job.masks = job.pupil.aperture
         /\ \A r \in samples : RowFits(r, job.pupil, job.camera)
    /\ step \in {"move", "frames"} => setting = SettingOf(Head(job.waves))
    /\ step = "frames" /\ Head(job.waves).setpoint # None => light = Head(job.waves).setpoint

\* The capture file was made with profiles that are still there.
MadeWith(p, c) ==
  /\ PsfDependencies(capture.requires, p, c, {})
  /\ \A r \in capture.rows : RowFits(r, p, c)

CaptureFits == capture # None => \E p \in pupils, c \in cameras : MadeWith(p, c)

SurveyFits ==
  /\ survey \in [pupil : pupils \cup {None}, file : {None, "partial", "complete"}, manifest : BOOLEAN]
  /\ survey.manifest => survey.file = "complete"
  /\ step = "manifest" => survey.file = "complete"
  /\ step \in {"writing", "manifest"} => survey.file # None
  /\ survey.file # None =>
       /\ capture # None /\ survey.pupil \in pupils
       /\ survey.pupil.id = capture.requires.pupil

ChainInv ==
  /\ FilesCalibrated /\ JobOK
  /\ IdleBench /\ BroadbandBench /\ PupilBench /\ BandBench /\ CaptureBench
  /\ CaptureFits /\ SurveyFits

-----------------------------------------------------------------------------
(* Programs are told apart by their task.                                   *)

LEMMA TaskOfJob ==
  /\ job \in BroadbandJob => job.task = "broadband"
  /\ job \in PupilJob => job.task = "pupil"
  /\ job \in BandJob => job.task = "per_band"
  /\ job \in CaptureJob => job.task = "capture"
BY DEF BroadbandJob, PupilJob, BandJob, CaptureJob

\* Away from "idle" a program's task says what it was given.
LEMMA JobOfTask ==
  ASSUME JobOK, step \notin {"idle", "writing", "manifest"}
  PROVE  /\ job.task = "broadband" => job \in BroadbandJob
         /\ job.task = "pupil" => job \in PupilJob
         /\ job.task = "per_band" => job \in BandJob
         /\ job.task = "capture" => job \in CaptureJob
BY TaskOfJob DEF JobOK

\* The steps that are one program's own.
LEMMA JobOfStep ==
  ASSUME JobOK
  PROVE  /\ step \in {"apply", "bright", "bars", "dark", "radii"} => job \in PupilJob
         /\ step \in {"setting", "frames", "finish"} => job \in CaptureJob
         /\ step = "pass" => job \in BroadbandJob \/ job \in PupilJob
         /\ step = "search" \/ step = "searching" => job \in BroadbandJob \/ job \in BandJob
         /\ step = "move" => job \in BandJob \/ job \in CaptureJob
BY DEF JobOK

LEMMA JobsStay ==
  ASSUME UNCHANGED fileVars
  PROVE  /\ PupilJob' = PupilJob /\ BandJob' = BandJob /\ CaptureJob' = CaptureJob
BY DEF fileVars, PupilJob, BandJob, CaptureJob

\* A step that leaves the files alone and is not one of the survey's.
LEMMA FilesStay ==
  ASSUME ChainInv, UNCHANGED <<fileVars, endVars>>, step' \notin {"writing", "manifest"}
  PROVE  FilesCalibrated' /\ CaptureFits' /\ SurveyFits'
<1>1. FilesCalibrated'
  BY DEF ChainInv, fileVars, FilesCalibrated, PupilScannedAsCalibrated, CameraCalibrated
<1>2. CaptureFits'
  BY DEF ChainInv, fileVars, endVars, CaptureFits, MadeWith
<1>3. SurveyFits'
  BY DEF ChainInv, fileVars, endVars, SurveyFits
<1> QED BY <1>1, <1>2, <1>3

\* The benches of the other programs do not matter.
Benches == IdleBench /\ BroadbandBench /\ PupilBench /\ BandBench /\ CaptureBench


-----------------------------------------------------------------------------
(* A program begins, opens its devices, ends.                               *)

LEMMA BeginStep == ChainInv /\ (Calibrate \/ CaptureDataset) => (JobOK /\ Benches)'
<1> SUFFICES ASSUME ChainInv, Calibrate \/ CaptureDataset PROVE (JobOK /\ Benches)'
  OBVIOUS
<1>1. /\ step = "idle" /\ step' = "open" /\ capture = None
      /\ UNCHANGED <<fileVars, found, samples, capture>>
  BY DEF Calibrate, CaptureDataset, Goto, endVars
<1>2. \/ job' \in BroadbandJob
      \/ job' \in PupilJob
      \/ job' \in BandJob /\ job'.waves # <<>>
      \/ job' \in CaptureJob /\ job'.waves # <<>>
  <2>1. CASE Calibrate
    <3>1. CASE job' = [task |-> "broadband", requires |-> None, pupil |-> None, camera |-> None, waves |-> <<>>]
      BY <3>1 DEF BroadbandJob
    <3>2. ASSUME NEW id \in CameraIds, NEW c \in cameras,
                 job' = [task |-> "pupil", requires |-> [camera |-> id], pupil |-> None, camera |-> c,
                         waves |-> <<>>]
          PROVE  job' \in PupilJob
      BY <3>2 DEF PupilJob
    <3>3. ASSUME NEW id \in PupilIds, NEW p \in pupils, NEW waves \in BandPlans,
                 job' = [task |-> "per_band", requires |-> [pupil |-> id], pupil |-> p, camera |-> None,
                         waves |-> waves]
          PROVE  job' \in BandJob /\ job'.waves # <<>>
      BY <3>3, ChainAssumption DEF BandJob
    <3> QED BY <2>1, <3>1, <3>2, <3>3 DEF Calibrate, Given
  <2>2. CASE CaptureDataset
    <3>1. PICK req \in Requirements, p \in pupils, c \in cameras, e \in CapturePlans,
               inside \in Apertures, tls \in BOOLEAN :
            job' = [task |-> "capture", requires |-> req, pupil |-> p, camera |-> c,
                    waves |-> e, masks |-> inside, enable_tls |-> tls]
      BY <2>2 DEF CaptureDataset
    <3>2. e # <<>> /\ e \in Seq(PlanEntry)
      BY ChainAssumption DEF PlanEntry
    <3> QED BY <3>1, <3>2 DEF CaptureJob
  <2> QED BY <2>1, <2>2
<1>3. JobOK'
  BY <1>1, <1>2, JobsStay DEF JobOK, BroadbandJob
<1>4. found' = <<>> /\ samples' = {}
  BY <1>1 DEF ChainInv, IdleBench
<1>5. job' \in BandJob => job'.waves # <<>>
  BY <1>2 DEF BroadbandJob, PupilJob, BandJob, CaptureJob
<1>6. job' \in CaptureJob => job'.waves # <<>>
  BY <1>2 DEF BroadbandJob, PupilJob, BandJob, CaptureJob
<1>7. Benches'
  BY <1>1, <1>4, <1>5, <1>6, JobsStay DEF Benches, IdleBench, BroadbandBench, PupilBench, BandBench, CaptureBench
<1> QED BY <1>3, <1>7

LEMMA OpenStep == ChainInv /\ OpenDevices => (JobOK /\ Benches)'
<1> SUFFICES ASSUME ChainInv, OpenDevices PROVE (JobOK /\ Benches)'
  OBVIOUS
<1>1. /\ step = "open" /\ step' = (IF job.task = "broadband" THEN "show" ELSE "check")
      /\ UNCHANGED <<fileVars, job, found, samples, capture>>
  BY DEF OpenDevices, Goto, endVars
<1>2. JobOK'
  BY <1>1, TaskOfJob, JobsStay DEF ChainInv, JobOK, BroadbandJob
<1>3. found' = <<>> /\ samples' = {}
  BY <1>1 DEF ChainInv, IdleBench
<1>4. Benches'
  BY <1>1, <1>3, JobsStay DEF ChainInv, Benches, IdleBench, BroadbandBench, PupilBench, BandBench,
                              CaptureBench, BroadbandJob
<1> QED BY <1>2, <1>4

LEMMA EndStep == ChainInv /\ (Close \/ Abandon) => (JobOK /\ Benches)'
<1> SUFFICES ASSUME ChainInv, Close \/ Abandon PROVE (JobOK /\ Benches)'
  OBVIOUS
<1>1. step' = "idle" /\ found' = <<>> /\ samples' = {}
  BY DEF Close, Abandon, Finished, Goto
<1> QED BY <1>1 DEF JobOK, Benches, IdleBench, BroadbandBench, PupilBench, BandBench, CaptureBench

-----------------------------------------------------------------------------
(* The calibrations: what is shown and where the light is during a search.  *)

\* The steps of the broadband calibration up to the end of its search.
LEMMA BroadbandStep ==
  ASSUME ChainInv, job \in BroadbandJob, ShowSolid \/ PassThrough \/ BeginSearch \/ Search \/ Select
  PROVE  (JobOK /\ Benches)'
<1>1. /\ job.task = "broadband" /\ job.waves = <<>>
      /\ job \notin PupilJob /\ job \notin BandJob /\ job \notin CaptureJob
  BY DEF BroadbandJob, PupilJob, BandJob, CaptureJob
<1>2. UNCHANGED <<fileVars, job>>
  BY <1>1 DEF ShowSolid, PassThrough, BeginSearch, Search, Select
<1>3. job' \notin PupilJob' /\ job' \notin BandJob' /\ job' \notin CaptureJob'
  BY <1>1, <1>2, JobsStay
<1>4. \/ ShowSolid /\ step' = "pass"
      \/ PassThrough /\ step' = "search"
      \/ BeginSearch /\ step' = "searching"
      \/ Search /\ step' = step /\ step = "searching"
      \/ Select /\ step = "searching" /\ step' = "profile"
  BY <1>1 DEF ShowSolid, PassThrough, BeginSearch, Search, Select, Goto
<1>5. JobOK'
  BY <1>2, <1>4 DEF JobOK, BroadbandJob
<1>6. BroadbandBench'
  <2>1. CASE ShowSolid
    BY <2>1, <1>2, <1>4 DEF ShowSolid, Show, Goto, ChainInv, BroadbandBench
  <2>2. CASE PassThrough \/ BeginSearch \/ Search
    BY <2>2, <1>1, <1>2 DEF PassThrough, BeginSearch, Search, Goto, labVars, ChainInv, BroadbandBench
  <2>3. CASE Select
    <3>1. found' = [k \in DOMAIN found \cup {Pass} |->
                      IF k = Pass THEN [mask |-> lcd, light |-> light] ELSE found[k]]
      BY <2>3, <1>1 DEF Select, Keep, Key
    <3>2. [mask |-> lcd, light |-> light] = OpenLcd
      BY <2>3 DEF Select, ChainInv, BroadbandBench, OpenLcd
    <3>3. \A k \in DOMAIN found' : found'[k] = OpenLcd
      BY <2>3, <3>1, <3>2 DEF Select, ChainInv, BroadbandBench
    <3>4. step' = "profile"
      BY <2>3, <1>1 DEF Select, Goto
    <3> QED BY <3>3, <3>4 DEF BroadbandBench
  <2> QED BY <2>1, <2>2, <2>3, <1>4
<1>7. IdleBench'
  BY <1>4, <1>1 DEF IdleBench
<1> QED BY <1>3, <1>5, <1>6, <1>7 DEF Benches, PupilBench, BandBench, CaptureBench

LEMMA LongIsNotEmpty ==
  ASSUME NEW S, NEW s \in Seq(S), Len(s) > 0
  PROVE  s # <<>>
BY EmptySeq

LEMMA TailOfWaves ==
  ASSUME NEW S, NEW s \in Seq(S), Len(s) > 1
  PROVE  Tail(s) \in Seq(S) /\ Tail(s) # <<>>
<1>1. s # <<>>
  OBVIOUS
<1>2. Tail(s) \in Seq(S) /\ Len(Tail(s)) = Len(s) - 1
  BY <1>1, HeadTailProperties
<1>3. Len(Tail(s)) > 0
  BY <1>2
<1> QED BY <1>2, <1>3, LongIsNotEmpty

\* The steps of the per-band calibration up to the end of its last search.
LEMMA BandStep ==
  ASSUME ChainInv, job \in BandJob,
         CheckBands \/ ShowPupil \/ MoveToBand \/ BeginSearch \/ Search \/ Select
  PROVE  (JobOK /\ Benches)'
<1>1. /\ job.task = "per_band" /\ job.waves \in Seq(Nat \ {Pass}) /\ job.pupil \in pupils
      /\ job \notin BroadbandJob /\ job \notin PupilJob /\ job \notin CaptureJob
  BY DEF BroadbandJob, PupilJob, BandJob, CaptureJob
<1>2. UNCHANGED fileVars
  BY DEF CheckBands, ShowPupil, MoveToBand, BeginSearch, Search, Select
<1>3. \/ /\ UNCHANGED job
         /\ \/ CheckBands /\ step = "check" /\ step' = "show"
            \/ ShowPupil /\ step = "show" /\ step' = "move"
            \/ MoveToBand /\ step = "move" /\ step' = "search"
            \/ BeginSearch /\ step = "search" /\ step' = "searching"
            \/ Search /\ step = "searching" /\ step' = "searching"
            \/ Select /\ step = "searching" /\ step' = "profile"
      \/ /\ Select /\ step = "searching" /\ step' = "move"
         /\ Len(job.waves) > 1 /\ job' = [job EXCEPT !.waves = Tail(job.waves)]
  BY <1>1 DEF CheckBands, ShowPupil, MoveToBand, BeginSearch, Search, Select, Goto
<1>4. job' \in BandJob /\ job'.pupil = job.pupil /\ job'.task = job.task
  <2>1. CASE UNCHANGED job
    BY <2>1, <1>1
  <2>2. CASE Len(job.waves) > 1 /\ job' = [job EXCEPT !.waves = Tail(job.waves)]
    <3>1. Tail(job.waves) \in Seq(Nat \ {Pass})
      BY <2>2, <1>1, TailOfWaves
    <3> QED BY <2>2, <3>1 DEF BandJob
  <2> QED BY <1>3, <2>1, <2>2
<1>5. job' \notin BroadbandJob' /\ job' \notin PupilJob' /\ job' \notin CaptureJob' /\ job' \in BandJob'
  BY <1>2, <1>4, JobsStay DEF BroadbandJob, PupilJob, BandJob, CaptureJob
<1>6. JobOK'
  BY <1>3, <1>5 DEF JobOK
<1>7. job'.waves # <<>> \/ step' = "profile"
  BY <1>1, <1>3, TailOfWaves DEF ChainInv, BandBench, BandJob
<1>8. BandBench'
  <2>1. CASE CheckBands \/ ShowPupil \/ MoveToBand \/ BeginSearch \/ Search
    BY <2>1, <1>1, <1>7, <1>3 DEF CheckBands, ShowPupil, Show, MoveToBand, BeginSearch, Search, Goto, labVars,
                        Select, ChainInv, BandBench
  <2>2. CASE Select
    <3>1. /\ lcd = job.pupil.aperture /\ light = Head(job.waves) /\ job.waves # <<>>
          /\ \A k \in DOMAIN found : found[k] = InBand(job.pupil, k)
      BY <2>2 DEF Select, ChainInv, BandBench
    <3>2. found' = [k \in DOMAIN found \cup {light} |->
                      IF k = light THEN [mask |-> lcd, light |-> light] ELSE found[k]]
      BY <2>2, <3>1 DEF Select, Keep, Key
    <3>3. \A k \in DOMAIN found' : found'[k] = InBand(job.pupil, k)
      BY <3>1, <3>2 DEF InBand
    <3>4. lcd' = lcd /\ step' \in {"profile", "move"}
      BY <2>2 DEF Select, labVars, Goto
    <3> QED BY <1>4, <1>7, <3>1, <3>3, <3>4 DEF BandBench
  <2> QED BY <2>1, <2>2
<1>9. IdleBench'
  BY <1>3 DEF IdleBench
<1> QED BY <1>5, <1>6, <1>8, <1>9 DEF Benches, BroadbandBench, PupilBench, CaptureBench

\* A calibration's profile is what its searches left.
LEMMA CameraWritten ==
  ASSUME ChainInv, WriteCameraProfile
  PROVE  ChainInv'
<1>0. PICK id \in CameraIds :
        LET w == IF job.task = "broadband" THEN BroadbandProfile(id) ELSE BandProfile(id)
        IN  CameraValid(w) /\ cameras' = cameras \cup {w}
  BY DEF WriteCameraProfile
<1> DEFINE c == IF job.task = "broadband" THEN BroadbandProfile(id) ELSE BandProfile(id)
<1>1. /\ c = IF job.task = "broadband" THEN BroadbandProfile(id) ELSE BandProfile(id)
      /\ CameraValid(c) /\ cameras' = cameras \cup {c}
  BY <1>0
<1> HIDE DEF c
<1>2. /\ step = "profile" /\ step' = "close" /\ UNCHANGED <<pupils, job, endVars>>
      /\ job \in BroadbandJob \/ job \in BandJob
  BY JobOfTask DEF WriteCameraProfile, Goto, ChainInv
<1>3. CameraCalibrated(c)
  <2>1. CASE job \in BroadbandJob
    <3>1. c.family = "broadband_passthrough" /\ c.settings = found
      BY <2>1, <1>1, TaskOfJob DEF BroadbandProfile
    <3>2. DOMAIN found = {Pass}
      BY <1>1, <3>1 DEF CameraValid
    <3>3. found[Pass] = OpenLcd
      BY <3>2, <2>1, <1>2 DEF ChainInv, BroadbandBench
    <3> QED BY <3>1, <3>2, <3>3 DEF CameraCalibrated
  <2>2. CASE job \in BandJob
    <3>1. c.family = "per_band_pupil_open" /\ c.settings = found /\ c.depends = job.pupil.id
      BY <2>2, <1>1, TaskOfJob DEF BandProfile
    <3>2. job.pupil \in pupils /\ \A k \in DOMAIN found : found[k] = InBand(job.pupil, k)
      BY <2>2, <1>2 DEF ChainInv, BandBench, BandJob
    <3> QED BY <3>1, <3>2 DEF CameraCalibrated
  <2> QED BY <1>2, <2>1, <2>2
<1>4. FilesCalibrated'
  BY <1>1, <1>2, <1>3 DEF ChainInv, FilesCalibrated, PupilScannedAsCalibrated, CameraCalibrated
<1>5. JobOK'
  BY <1>1, <1>2 DEF JobOK, BroadbandJob, BandJob
<1>6. Benches'
  BY <1>2 DEF Benches, IdleBench, BroadbandBench, PupilBench, BandBench, CaptureBench
<1>7. CaptureFits' /\ SurveyFits'
  BY <1>1, <1>2 DEF endVars, ChainInv, CaptureFits, MadeWith, SurveyFits
<1> QED BY <1>4, <1>5, <1>6, <1>7 DEF ChainInv, Benches

-----------------------------------------------------------------------------
(* The pupil scan: its setting was searched in the light it scans in.       *)

LEMMA ScanStep ==
  ASSUME ChainInv, job \in PupilJob,
         CheckScan \/ PassThrough \/ ApplyScanSetting \/ Bright \/ ScanAxes \/ Dark \/ RadiusScan
  PROVE  (JobOK /\ Benches)'
<1>1. /\ job.task = "pupil" /\ job.camera \in cameras
      /\ job \notin BroadbandJob /\ job \notin BandJob /\ job \notin CaptureJob
  BY DEF BroadbandJob, PupilJob, BandJob, CaptureJob
<1>2. UNCHANGED <<fileVars, job>>
  BY DEF CheckScan, PassThrough, ApplyScanSetting, Bright, ScanAxes, Dark, RadiusScan, Shot
<1>3. job' \notin BroadbandJob' /\ job' \notin BandJob' /\ job' \notin CaptureJob' /\ job' \in PupilJob'
  BY <1>1, <1>2, JobsStay DEF BroadbandJob
<1>4. \/ CheckScan /\ step = "check" /\ step' = "pass"
      \/ PassThrough /\ step = "pass" /\ step' = "apply"
      \/ ApplyScanSetting /\ step = "apply" /\ step' = "bright"
      \/ Bright /\ step = "bright" /\ step' = "bars"
      \/ ScanAxes /\ step = "bars" /\ step' = "dark"
      \/ Dark /\ step = "dark" /\ step' = "radii"
      \/ RadiusScan /\ step = "radii" /\ step' = "profile"
  BY <1>1 DEF CheckScan, PassThrough, ApplyScanSetting, Bright, ScanAxes, Dark, RadiusScan, Goto
<1>5. JobOK' /\ IdleBench'
  BY <1>3, <1>4 DEF JobOK, IdleBench
<1>6. PupilBench'
  <2>1. CASE CheckScan
    BY <2>1, <1>2, <1>4 DEF CheckScan, ScanAccepts, ChainInv, PupilBench
  <2>2. CASE PassThrough
    BY <2>2, <1>2, <1>4 DEF PassThrough, ChainInv, PupilBench
  <2>3. CASE ApplyScanSetting
    <3>1. Pass \in DOMAIN job.camera.settings /\ job.camera.settings[Pass] = OpenLcd
      <4>1. CameraCalibrated(job.camera)
        BY <1>1 DEF ChainInv, FilesCalibrated
      <4>2. job.camera.family = "broadband_passthrough"
        BY <2>3 DEF ApplyScanSetting, ChainInv, PupilBench
      <4> QED BY <4>1, <4>2 DEF CameraCalibrated
    <3> QED BY <2>3, <1>2, <1>4, <3>1 DEF ApplyScanSetting, ChainInv, PupilBench
  <2>4. CASE Bright \/ ScanAxes \/ Dark \/ RadiusScan
    <3>1. /\ light = Pass /\ setting = OpenLcd /\ UNCHANGED <<light, setting>>
          /\ samples' = samples \cup {[light |-> Pass, setting |-> OpenLcd]}
          /\ samples \in {{}, {[light |-> Pass, setting |-> OpenLcd]}}
          /\ job.camera.family = "broadband_passthrough"
      BY <2>4, <1>4 DEF Bright, ScanAxes, Dark, RadiusScan, Shot, ChainInv, PupilBench
    <3>2. samples' = {[light |-> Pass, setting |-> OpenLcd]}
      BY <3>1
    <3>3. step' \in {"bars", "dark", "radii", "profile"}
      BY <2>4, <1>4 DEF Bright, ScanAxes, Dark, RadiusScan, Goto
    <3> QED BY <1>2, <3>1, <3>2, <3>3 DEF PupilBench
  <2> QED BY <1>4, <2>1, <2>2, <2>3, <2>4
<1> QED BY <1>3, <1>5, <1>6 DEF Benches, BroadbandBench, BandBench, CaptureBench

LEMMA PupilWritten ==
  ASSUME ChainInv, WritePupilProfile
  PROVE  ChainInv'
<1>1. PICK id \in PupilIds, a \in Apertures :
        pupils' = pupils \cup {[id |-> id, aperture |-> a, camera |-> job.requires.camera, scanned |-> samples]}
  BY DEF WritePupilProfile
<1>2. /\ step = "profile" /\ step' = "close" /\ UNCHANGED <<cameras, job, endVars>>
      /\ job \in PupilJob
  BY JobOfTask DEF WritePupilProfile, Goto, ChainInv
<1>3. samples = {[light |-> Pass, setting |-> OpenLcd]}
  BY <1>2 DEF ChainInv, PupilBench
<1>4. PupilScannedAsCalibrated'
  BY <1>1, <1>3 DEF ChainInv, FilesCalibrated, PupilScannedAsCalibrated, OpenLcd
<1>5. FilesCalibrated'
  BY <1>1, <1>2, <1>4 DEF ChainInv, FilesCalibrated, CameraCalibrated
<1>6. JobOK'
  BY <1>2 DEF JobOK, PupilJob
<1>7. Benches'
  BY <1>2 DEF Benches, IdleBench, BroadbandBench, PupilBench, BandBench, CaptureBench
<1>8. CaptureFits' /\ SurveyFits'
  BY <1>1, <1>2 DEF endVars, ChainInv, CaptureFits, MadeWith, SurveyFits
<1> QED BY <1>5, <1>6, <1>7, <1>8 DEF ChainInv, Benches

-----------------------------------------------------------------------------
(* The capture.                                                             *)

\* What is left of a plan has no other wavelengths than the plan.
LEMMA EffectiveShrinks ==
  ASSUME NEW s \in Seq(PlanEntry), s # <<>>
  PROVE  /\ Head(s) \in PlanEntry /\ Head(s).effective \in Effective(s)
         /\ Tail(s) \in Seq(PlanEntry) /\ Effective(Tail(s)) \subseteq Effective(s)
         /\ Len(s) # 1 => Tail(s) # <<>>
<1>1. /\ Head(s) \in PlanEntry /\ Tail(s) \in Seq(PlanEntry) /\ Len(Tail(s)) = Len(s) - 1
      /\ \A i \in 1 .. Len(Tail(s)) : Tail(s)[i] = s[i + 1]
  BY HeadTailProperties
<1>2. Len(s) \in Nat /\ Len(s) > 0 /\ DOMAIN s = 1 .. Len(s) /\ Head(s) = s[1]
  BY EmptySeq, LenProperties
<1>3. Head(s).effective \in Effective(s)
  BY <1>2 DEF Effective
<1>4. DOMAIN Tail(s) = 1 .. Len(Tail(s))
  BY <1>1, LenProperties
<1>5. Effective(Tail(s)) \subseteq Effective(s)
  <2>1. ASSUME NEW i \in DOMAIN Tail(s) PROVE Tail(s)[i].effective \in Effective(s)
    <3>1. i + 1 \in DOMAIN s /\ Tail(s)[i] = s[i + 1]
      BY <1>1, <1>2, <1>4
    <3> QED BY <3>1 DEF Effective
  <2> QED BY <2>1 DEF Effective
<1>6. ASSUME Len(s) # 1 PROVE Tail(s) # <<>>
  <2>1. Len(Tail(s)) > 0
    BY <1>1, <1>2, <1>6
  <2> QED BY <1>1, <2>1, LongIsNotEmpty
<1> QED BY <1>1, <1>3, <1>5, <1>6

LEMMA CaptureStep ==
  ASSUME ChainInv, job \in CaptureJob,
         CheckCapture \/ ApplyBandSetting \/ ApplyIllumination \/ TakeFrames
  PROVE  (JobOK /\ Benches)'
<1>1. /\ job.task = "capture" /\ job.waves \in Seq(PlanEntry) /\ job.waves # <<>>
      /\ job \notin BroadbandJob /\ job \notin PupilJob /\ job \notin BandJob
  BY DEF BroadbandJob, PupilJob, BandJob, CaptureJob, ChainInv, CaptureBench,
         CheckCapture, ApplyBandSetting, ApplyIllumination, TakeFrames
<1>2. UNCHANGED <<fileVars, capture>>
  BY DEF CheckCapture, ApplyBandSetting, ApplyIllumination, TakeFrames, endVars
<1>3. \/ CheckCapture /\ UNCHANGED job /\ step = "check" /\ step' = "setting"
      \/ ApplyBandSetting /\ UNCHANGED job /\ step = "setting" /\ step' = "move"
      \/ ApplyIllumination /\ UNCHANGED job /\ step = "move" /\ step' = "frames"
      \/ /\ TakeFrames /\ job' = [job EXCEPT !.waves = Tail(job.waves)] /\ step = "frames"
         /\ step' = IF Len(job.waves) = 1 THEN "finish" ELSE "setting"
  BY DEF CheckCapture, ApplyBandSetting, ApplyIllumination, TakeFrames, Goto
<1>4. /\ job' \in CaptureJob /\ job'.task = job.task /\ job'.pupil = job.pupil /\ job'.camera = job.camera
      /\ job'.requires = job.requires /\ job'.masks = job.masks
      /\ job'.waves = IF step = "frames" THEN Tail(job.waves) ELSE job.waves
  <2>1. CASE UNCHANGED job /\ step # "frames"
    BY <2>1
  <2>2. CASE job' = [job EXCEPT !.waves = Tail(job.waves)] /\ step = "frames"
    <3>1. Tail(job.waves) \in Seq(PlanEntry)
      BY <1>1, EffectiveShrinks
    <3> QED BY <2>2, <3>1 DEF CaptureJob
  <2> QED BY <1>3, <2>1, <2>2
<1>5. job' \notin BroadbandJob' /\ job' \notin PupilJob' /\ job' \notin BandJob' /\ job' \in CaptureJob'
  BY <1>2, <1>4, JobsStay DEF BroadbandJob, PupilJob, BandJob, CaptureJob
<1>6. JobOK' /\ IdleBench'
  BY <1>3, <1>5 DEF JobOK, IdleBench
<1>7. step' = "finish" \/ job'.waves # <<>>
  BY <1>1, <1>3, <1>4, EffectiveShrinks
<1>8. capture' = None /\ step' \in {"setting", "move", "frames", "finish"}
  BY <1>2, <1>3 DEF ChainInv, CaptureBench
<1>9. CASE CheckCapture
  <2>1. /\ PsfDependencies(job.requires, job.pupil, job.camera, Effective(job.waves))
        /\ job.masks = job.pupil.aperture /\ samples' = {} /\ step' = "setting" /\ UNCHANGED job
    BY <1>9, <1>3 DEF CheckCapture, MasksInside, ChainInv, CaptureBench, Goto
  <2>2. CaptureBench'
    BY <2>1, <1>7, <1>8 DEF CaptureBench, PsfDependencies
  <2> QED BY <2>2, <1>5, <1>6 DEF Benches, BroadbandBench, PupilBench, BandBench
<1>10. ASSUME step \in {"setting", "move", "frames"}
       PROVE  /\ PsfDependencies(job'.requires, job'.pupil, job'.camera, Effective(job'.waves))
              /\ job'.masks = job'.pupil.aperture
              /\ \A r \in samples : RowFits(r, job'.pupil, job'.camera)
              /\ Head(job.waves).effective \in DOMAIN job.camera.settings
  <2>1. /\ PsfDependencies(job.requires, job.pupil, job.camera, Effective(job.waves))
        /\ job.masks = job.pupil.aperture
        /\ \A r \in samples : RowFits(r, job.pupil, job.camera)
    BY <1>10 DEF ChainInv, CaptureBench
  <2>2. Effective(job'.waves) \subseteq Effective(job.waves)
    BY <1>1, <1>4, EffectiveShrinks
  <2> QED BY <2>1, <2>2, <1>1, <1>4, EffectiveShrinks DEF PsfDependencies
<1>11. CASE ApplyBandSetting
  <2>1. /\ step = "setting" /\ step' = "move" /\ UNCHANGED <<job, samples>>
        /\ setting' = SettingOf(Head(job.waves))
    BY <1>11 DEF ApplyBandSetting, Goto
  <2>2. CaptureBench'
    BY <2>1, <1>7, <1>8, <1>10 DEF CaptureBench, PsfDependencies, RowFits, SettingOf
  <2> QED BY <2>2, <1>5, <1>6 DEF Benches, BroadbandBench, PupilBench, BandBench
<1>12. CASE ApplyIllumination
  <2>1. /\ step = "move" /\ step' = "frames" /\ UNCHANGED <<job, samples, setting>>
        /\ setting = SettingOf(Head(job.waves))
        /\ Head(job.waves).setpoint # None => light' = Head(job.waves).setpoint
    BY <1>12 DEF ApplyIllumination, Goto, ChainInv, CaptureBench
  <2>2. CaptureBench'
    BY <2>1, <1>7, <1>8, <1>10 DEF CaptureBench, PsfDependencies, RowFits, SettingOf
  <2> QED BY <2>2, <1>5, <1>6 DEF Benches, BroadbandBench, PupilBench, BandBench
<1>13. CASE TakeFrames
  <2>1. /\ step = "frames" /\ step' \in {"setting", "finish"}
        /\ setting = SettingOf(Head(job.waves))
        /\ Head(job.waves).setpoint # None => light = Head(job.waves).setpoint
        /\ samples' = samples \cup
             {[entry |-> Head(job.waves), mask |-> job.masks, light |-> light, setting |-> setting]}
    BY <1>13 DEF TakeFrames, Goto, Show, ChainInv, CaptureBench
  <2> DEFINE row == [entry |-> Head(job.waves), mask |-> job.masks, light |-> light, setting |-> setting]
  <2>2. Head(job.waves).effective # None
    <3>1. Head(job.waves).effective \in Bands
      BY <1>1, EffectiveShrinks DEF PlanEntry
    <3> QED BY <3>1, ChainAssumption
  <2>3. RowFits(row, job'.pupil, job'.camera)
    BY <2>1, <2>2, <1>4, <1>10 DEF RowFits, SettingOf
  <2>4. \A r \in samples' : RowFits(r, job'.pupil, job'.camera)
    BY <2>1, <2>3, <1>10
  <2>5. \A r \in samples' : RowFits(r, job.pupil, job.camera)'
    BY <2>4 DEF RowFits
  <2>6. PsfDependencies(job.requires, job.pupil, job.camera, Effective(job.waves))'
    BY <2>1, <1>10 DEF PsfDependencies, Effective
  <2>7. CaptureBench'
    BY <2>1, <2>5, <2>6, <1>7, <1>8, <1>10 DEF CaptureBench
  <2> QED BY <2>7, <1>5, <1>6 DEF Benches, BroadbandBench, PupilBench, BandBench
<1> QED BY <1>3, <1>9, <1>11, <1>12, <1>13

\* The file says with which profiles its rows were taken.
LEMMA CaptureWritten ==
  ASSUME ChainInv, FinishCapture
  PROVE  ChainInv'
<1>1. /\ step = "finish" /\ step' = "close" /\ UNCHANGED <<fileVars, job, survey>>
      /\ capture' = [requires |-> job.requires, rows |-> samples]
      /\ job \in CaptureJob
  BY JobOfStep DEF FinishCapture, Goto, ChainInv
<1>2. /\ job.pupil \in pupils /\ job.camera \in cameras
      /\ PsfDependencies(job.requires, job.pupil, job.camera, Effective(job.waves))
      /\ \A r \in samples : RowFits(r, job.pupil, job.camera)
  BY <1>1 DEF ChainInv, CaptureBench, CaptureJob
<1>3. FilesCalibrated'
  BY <1>1 DEF ChainInv, fileVars, FilesCalibrated, PupilScannedAsCalibrated, CameraCalibrated
<1>4. JobOK'
  BY <1>1, JobsStay DEF JobOK
<1>5. Benches'
  BY <1>1 DEF Benches, IdleBench, BroadbandBench, PupilBench, BandBench, CaptureBench
<1>6. CaptureFits'
  <2>1. MadeWith(job.pupil, job.camera)'
    BY <1>1, <1>2 DEF MadeWith, PsfDependencies, RowFits, fileVars
  <2> QED BY <1>1, <1>2, <2>1 DEF CaptureFits, MadeWith, PsfDependencies, RowFits, fileVars
<1>7. SurveyFits'
  <2>1. survey.file = None
    BY <1>1 DEF ChainInv, CaptureBench, SurveyFits
  <2> QED BY <1>1, <2>1 DEF ChainInv, SurveyFits, fileVars
<1> QED BY <1>3, <1>4, <1>5, <1>6, <1>7 DEF ChainInv, Benches

-----------------------------------------------------------------------------
(* The survey.                                                              *)

LEMMA SurveyStep ==
  ASSUME ChainInv, BuildSurvey \/ WriteSurvey \/ WriteManifest \/ SurveyFails
  PROVE  ChainInv'
<1>1. /\ step \in {"idle", "writing", "manifest"} /\ step' \in {"idle", "writing", "manifest"}
      /\ UNCHANGED <<fileVars, capture, found, samples>>
  BY DEF BuildSurvey, WriteSurvey, WriteManifest, SurveyFails, Goto, endVars
<1>2. FilesCalibrated' /\ CaptureFits'
  BY <1>1 DEF ChainInv, fileVars, FilesCalibrated, PupilScannedAsCalibrated, CameraCalibrated,
              CaptureFits, MadeWith
<1>3. JobOK' /\ Benches'
  BY <1>1 DEF ChainInv, JobOK, Benches, IdleBench, BroadbandBench, PupilBench, BandBench, CaptureBench
<1>4. SurveyFits'
  <2>1. CASE BuildSurvey
    <3>1. PICK p \in pupils, c \in cameras :
            ManifestsFit(p, c) /\ survey' = [NoSurvey EXCEPT !.pupil = p, !.file = "partial"]
      BY <2>1 DEF BuildSurvey
    <3>2. capture # None /\ step' = "writing"
      BY <2>1 DEF BuildSurvey, Goto
    <3>3. survey' = [pupil |-> p, file |-> "partial", manifest |-> FALSE]
      BY <3>1 DEF NoSurvey
    <3>4. survey'.file # None
      BY <3>3, ChainAssumption
    <3>5. p.id = capture.requires.pupil
      BY <3>1 DEF ManifestsFit, PsfDependencies
    <3>6. survey' \in [pupil : pupils \cup {None}, file : {None, "partial", "complete"}, manifest : BOOLEAN]
      BY <3>3
    <3> QED BY <1>1, <3>2, <3>3, <3>4, <3>5, <3>6 DEF SurveyFits, fileVars
  <2>2. CASE WriteSurvey
    <3>1. /\ survey \in [pupil : pupils \cup {None}, file : {None, "partial", "complete"}, manifest : BOOLEAN]
          /\ survey.file # None /\ capture # None /\ survey.pupil \in pupils
          /\ survey.pupil.id = capture.requires.pupil
      BY <2>2 DEF WriteSurvey, ChainInv, SurveyFits
    <3>2. survey' = [survey EXCEPT !.file = "complete"] /\ step' = "manifest"
      BY <2>2 DEF WriteSurvey, Goto
    <3>3. survey'.file = "complete" /\ survey'.pupil = survey.pupil /\ survey'.manifest = survey.manifest
      BY <3>1, <3>2
    <3>4. survey' \in [pupil : pupils \cup {None}, file : {None, "partial", "complete"}, manifest : BOOLEAN]
      BY <3>1, <3>2
    <3>5. survey'.manifest => survey'.file = "complete"
      BY <3>3
    <3>6. UNCHANGED <<pupils, capture>>
      BY <1>1 DEF fileVars
    <3> QED BY <3>1, <3>2, <3>3, <3>4, <3>5, <3>6, ChainAssumption DEF SurveyFits
  <2>3. CASE WriteManifest
    BY <2>3, <1>1 DEF WriteManifest, Goto, ChainInv, SurveyFits, fileVars
  <2>4. CASE SurveyFails
    BY <2>4, <1>1 DEF SurveyFails, Goto, ChainInv, SurveyFits, fileVars, endVars
  <2> QED BY <2>1, <2>2, <2>3, <2>4
<1> QED BY <1>2, <1>3, <1>4 DEF ChainInv, Benches

-----------------------------------------------------------------------------
(* Together.                                                                *)

LEMMA ChainInitially == ChainInit => ChainInv
<1> SUFFICES ASSUME ChainInit PROVE ChainInv
  OBVIOUS
<1>1. /\ step = "idle" /\ cameras = {} /\ pupils = {} /\ capture = None
      /\ found = <<>> /\ samples = {} /\ survey = NoSurvey
  BY DEF ChainInit
<1>2. FilesCalibrated /\ JobOK /\ CaptureFits /\ SurveyFits
  BY <1>1 DEF FilesCalibrated, PupilScannedAsCalibrated, JobOK, CaptureFits, SurveyFits, NoSurvey
<1>3. Benches
  BY <1>1 DEF Benches, IdleBench, BroadbandBench, PupilBench, BandBench, CaptureBench
<1> QED BY <1>2, <1>3 DEF ChainInv, Benches

\* The programs' own steps write no file.
LEMMA BenchStep ==
  ASSUME ChainInv,
         \/ Calibrate \/ CaptureDataset \/ OpenDevices \/ Close \/ Abandon
         \/ ShowSolid \/ CheckScan \/ CheckBands \/ PassThrough \/ ShowPupil \/ MoveToBand
         \/ BeginSearch \/ Search \/ Select
         \/ ApplyScanSetting \/ Bright \/ ScanAxes \/ Dark \/ RadiusScan
         \/ CheckCapture \/ ApplyBandSetting \/ ApplyIllumination \/ TakeFrames
  PROVE  ChainInv'
<1>1. UNCHANGED <<fileVars, endVars>>
  BY DEF Calibrate, CaptureDataset, OpenDevices, Close, Abandon, ShowSolid, CheckScan, CheckBands,
         PassThrough, ShowPupil, MoveToBand, BeginSearch, Search, Select, ApplyScanSetting, Shot,
         Bright, ScanAxes, Dark, RadiusScan, CheckCapture, ApplyBandSetting, ApplyIllumination, TakeFrames
<1>2. step' \notin {"writing", "manifest"}
  BY DEF Calibrate, CaptureDataset, OpenDevices, Close, Abandon, Finished, ShowSolid, CheckScan, CheckBands,
         PassThrough, ShowPupil, MoveToBand, BeginSearch, Search, Select, ApplyScanSetting,
         Bright, ScanAxes, Dark, RadiusScan, CheckCapture, ApplyBandSetting, ApplyIllumination, TakeFrames,
         Goto
<1>3. (JobOK /\ Benches)'
  <2>1. CASE Calibrate \/ CaptureDataset \/ OpenDevices \/ Close \/ Abandon
    BY <2>1, BeginStep, OpenStep, EndStep
  <2>2. CASE ShowSolid
    <3>1. job \in BroadbandJob
      BY <2>2, JobOfTask DEF ShowSolid, ChainInv
    <3> QED BY <2>2, <3>1, BroadbandStep
  <2>3. CASE CheckScan \/ ApplyScanSetting \/ Bright \/ ScanAxes \/ Dark \/ RadiusScan
    <3>1. job \in PupilJob
      BY <2>3, JobOfTask, JobOfStep
         DEF CheckScan, ApplyScanSetting, Bright, ScanAxes, Dark, RadiusScan, ChainInv
    <3> QED BY <2>3, <3>1, ScanStep
  <2>4. CASE CheckBands \/ ShowPupil \/ MoveToBand
    <3>1. job \in BandJob
      BY <2>4, JobOfTask DEF CheckBands, ShowPupil, MoveToBand, ChainInv
    <3> QED BY <2>4, <3>1, BandStep
  <2>5. CASE PassThrough
    <3>1. job \in BroadbandJob \/ job \in PupilJob
      BY <2>5, JobOfStep DEF PassThrough, ChainInv
    <3> QED BY <2>5, <3>1, BroadbandStep, ScanStep
  <2>6. CASE BeginSearch \/ Search \/ Select
    <3>1. job \in BroadbandJob \/ job \in BandJob
      BY <2>6, JobOfStep DEF BeginSearch, Search, Select, ChainInv
    <3> QED BY <2>6, <3>1, BroadbandStep, BandStep
  <2>7. CASE CheckCapture \/ ApplyBandSetting \/ ApplyIllumination \/ TakeFrames
    <3>1. job \in CaptureJob
      BY <2>7, JobOfTask, JobOfStep
         DEF CheckCapture, ApplyBandSetting, ApplyIllumination, TakeFrames, ChainInv
    <3> QED BY <2>7, <3>1, CaptureStep
  <2> QED BY <2>1, <2>2, <2>3, <2>4, <2>5, <2>6, <2>7
<1> QED BY <1>1, <1>2, <1>3, FilesStay DEF ChainInv, Benches

LEMMA ChainStutters == ChainInv /\ UNCHANGED chainVars => ChainInv'
<1> SUFFICES ASSUME ChainInv, UNCHANGED chainVars PROVE ChainInv'
  OBVIOUS
<1>1. UNCHANGED <<lcd, light, setting, cameras, pupils, job, step, found, samples, capture, survey>>
  BY DEF chainVars, labVars, fileVars, endVars
<1>2. (JobOK /\ Benches)'
  BY <1>1, JobsStay DEF ChainInv, fileVars, JobOK, BroadbandJob, Benches, IdleBench, BroadbandBench,
                        PupilBench, BandBench, CaptureBench, PsfDependencies, Effective, RowFits, SettingOf
<1>3. FilesCalibrated' /\ CaptureFits' /\ SurveyFits'
  BY <1>1 DEF ChainInv, FilesCalibrated, PupilScannedAsCalibrated, CameraCalibrated, CaptureFits, MadeWith,
              SurveyFits
<1> QED BY <1>2, <1>3 DEF ChainInv, Benches

(***************************************************************************)
(* Whatever programs the operator runs, with whatever files, and wherever  *)
(* they fail: every file was made under the conditions its kind stands     *)
(* for, a running program's apparatus stands as its next step needs it,    *)
(* and a capture's and a survey's profiles are among the files.            *)
(***************************************************************************)
THEOREM ChainInvariance == ChainSpec => []ChainInv
<1>1. ChainInv /\ [ChainNext]_chainVars => ChainInv'
  BY BenchStep, CameraWritten, PupilWritten, CaptureWritten, SurveyStep, ChainStutters DEF ChainNext
<1> QED BY <1>1, ChainInitially, PTL DEF ChainSpec

(***************************************************************************)
(* A pupil profile is scanned in pass-through light with a setting that    *)
(* was searched in that light with the whole LCD open, whichever programs  *)
(* ran before.                                                             *)
(***************************************************************************)
THEOREM ScanIsCalibrated == ChainSpec => []PupilScannedAsCalibrated
<1>1. ChainInv => PupilScannedAsCalibrated
  BY DEF ChainInv, FilesCalibrated
<1> QED BY <1>1, ChainInvariance, PTL

(***************************************************************************)
(* A survey with a manifest is complete and, if ids are unique, its frames *)
(* were taken inside its pupil, with settings searched with that pupil     *)
(* open at the wavelength the plan calls effective.                        *)
(***************************************************************************)
THEOREM SurveyCalibrated == ChainSpec => []SurveyIsCalibrated
<1>1. ChainInv => SurveyIsCalibrated
  <2> SUFFICES ASSUME ChainInv, survey.manifest PROVE SurveyIsCalibrated
    BY DEF SurveyIsCalibrated
  <2>1. survey.file = "complete" /\ survey.file # None
    BY ChainAssumption DEF ChainInv, SurveyFits
  <2>2. capture # None /\ survey.pupil \in pupils /\ survey.pupil.id = capture.requires.pupil
    BY <2>1 DEF ChainInv, SurveyFits
  <2>3. ASSUME OneProfilePerId, NEW r \in capture.rows
        PROVE  /\ r.mask = survey.pupil.aperture
               /\ r.setting = [mask |-> survey.pupil.aperture, light |-> r.entry.effective]
               /\ r.entry.setpoint = r.entry.effective => r.light = r.entry.effective
    <3>1. PICK p \in pupils, c \in cameras : MadeWith(p, c)
      BY <2>2 DEF ChainInv, CaptureFits
    <3>2. p = survey.pupil
      BY <2>2, <2>3, <3>1 DEF MadeWith, PsfDependencies, OneProfilePerId
    <3>3. c.family = "per_band_pupil_open" /\ c.depends = p.id /\ RowFits(r, p, c)
      BY <2>3, <3>1 DEF MadeWith, PsfDependencies
    <3>4. PICK q \in pupils : c.depends = q.id /\ \A w \in DOMAIN c.settings : c.settings[w] = InBand(q, w)
      BY <3>1, <3>3 DEF ChainInv, FilesCalibrated, CameraCalibrated
    <3>5. q = p
      BY <2>3, <3>3, <3>4 DEF OneProfilePerId
    <3> QED BY <3>2, <3>3, <3>4, <3>5 DEF RowFits, InBand
  <2> QED BY <2>1, <2>3 DEF SurveyIsCalibrated
<1> QED BY <1>1, ChainInvariance, PTL

-----------------------------------------------------------------------------
(* The searches of the chain.  A program begins each of them anew, keeps    *)
(* nothing of it when it has selected, and leaves it alone otherwise.       *)

LEMMA SearchAfresh ==
  ASSUME NEW sorted \in Seq(Nat), sorted # <<>>, SearchFrom(sorted)
  PROVE  (SearchInv /\ Supplied)'
<1>1. /\ gains' \in Seq(Nat) /\ gains' # <<>> /\ index' = 1 /\ stage' = "bounds" /\ span' = Config
      /\ low' = 0 /\ high' = 0 /\ halvings' = 0 /\ trial' = {} /\ rows' = {}
  BY DEF SearchFrom
<1>2. SearchTypeOK' /\ Searching'
  <2>1. Len(gains') \in Nat /\ Len(gains') >= 1
    BY <1>1
  <2> QED BY <1>1, <2>1, SearchAssumption DEF SearchTypeOK, Searching
<1>3. (Placed /\ LowerSafe /\ Bracket /\ Ordered /\ Tight /\ NoCrossing)'
  BY <1>1 DEF Placed, LowerSafe, Bracket, Ordered, Tight, NoCrossing
<1>4. Supplied'
  <2>1. \A r \in trial' \cup rows' : r.exposure =< 0
    BY <1>1
  <2> QED BY <1>1, <2>1 DEF Supplied
<1> QED BY <1>2, <1>3, <1>4 DEF SearchInv

LEMMA SearchGoesOn ==
  ASSUME SearchInv, Supplied, [ChainNext]_chainVars
  PROVE  (SearchInv /\ Supplied)'
<1>1. NoGains \in Seq(Nat) /\ NoGains # <<>>
  BY DEF NoGains
<1>2. CASE Close \/ Abandon \/ Select
  BY <1>1, <1>2, SearchAfresh DEF Close, Abandon, Finished, Select
<1>3. CASE BeginSearch
  BY <1>3, AscendingTyped, SearchAfresh DEF BeginSearch
<1>4. CASE [SearchNext]_vars
  BY <1>4, SearchInvNext, SuppliedNext
<1>5. CASE Search
  BY <1>4, <1>5 DEF Search
<1>6. CASE UNCHANGED vars
  BY <1>4, <1>6
<1>7. CASE \/ Calibrate \/ CaptureDataset \/ OpenDevices
           \/ ShowSolid \/ CheckScan \/ CheckBands \/ PassThrough \/ ShowPupil \/ MoveToBand
           \/ WriteCameraProfile
           \/ ApplyScanSetting \/ Bright \/ ScanAxes \/ Dark \/ RadiusScan \/ WritePupilProfile
           \/ CheckCapture \/ ApplyBandSetting \/ ApplyIllumination \/ TakeFrames \/ FinishCapture
           \/ BuildSurvey \/ WriteSurvey \/ WriteManifest \/ SurveyFails
  BY <1>6, <1>7
     DEF Calibrate, CaptureDataset, OpenDevices, ShowSolid, CheckScan, CheckBands, PassThrough,
         ShowPupil, MoveToBand, WriteCameraProfile, ApplyScanSetting, Shot, Bright, ScanAxes, Dark,
         RadiusScan, WritePupilProfile, CheckCapture, ApplyBandSetting, ApplyIllumination, TakeFrames,
         FinishCapture, BuildSurvey, WriteSurvey, WriteManifest, SurveyFails
<1> QED BY <1>2, <1>3, <1>5, <1>6, <1>7 DEF ChainNext, chainVars

(***************************************************************************)
(* What holds of a search holds of every search a calibration makes,       *)
(* whatever was searched before it and however the one before it ended.    *)
(***************************************************************************)
THEOREM SearchesOfTheChain ==
  ChainSpec => [](/\ SearchTypeOK /\ NoCrossing /\ PublishedIsTight
                  /\ ReturnedHasProfile /\ RecommendedIsPublished)
<1>1. ChainInit => SearchInv /\ Supplied
  BY Fresh, SuppliedAtFirst DEF ChainInit, NoGains
<1>2. SearchInv /\ Supplied /\ [ChainNext]_chainVars => (SearchInv /\ Supplied)'
  BY SearchGoesOn
<1>3. SearchInv /\ Supplied => /\ SearchTypeOK /\ NoCrossing /\ PublishedIsTight
                               /\ ReturnedHasProfile /\ RecommendedIsPublished
  BY TightPublished, ProfileReturned, SelectionsAgree DEF SearchInv, ReturnedHasProfile
<1> QED BY <1>1, <1>2, <1>3, PTL DEF ChainSpec
=============================================================================
