----------------------------- MODULE CaptureProofs -----------------------------
(***************************************************************************)
(* Proofs about RawCaptureWriter and about its caller, CaptureRun, for      *)
(* every plan, every set of shapes and metadata values, every ring, burst   *)
(* and settling time, and every number of calls and runs.                   *)
(*                                                                          *)
(* First the writer, whoever calls it.  Its memory (nWritten and            *)
(* committedWl) is what makes a row whole: the completed rows are those     *)
(* before nWritten, and committedWl holds exactly the wavelengths they      *)
(* share.  RowsAreCounted states this; with it WriterTypeOK,                *)
(* CommittedRowsWhole and FlagsTruthful are inductive.                      *)
(*                                                                          *)
(* Then run_capture_dataset.  Every step of it is a step of the writer or   *)
(* leaves the writer alone, so that what holds of any caller holds of the   *)
(* run.  What the run adds is proved from relations that hold at every      *)
(* point of the task: between the point and the writer (TaskHoldsWriter,    *)
(* LoopCounts), between the point and the apparatus (ApparatusIsSet), and   *)
(* between the exposures waited for and the frames still in the ring        *)
(* (SettlingFrames, BurstIsNow).                                            *)
(***************************************************************************)
EXTENDS CaptureRun, TLAPS, FiniteSetTheorems, SequenceTheorems

\* The writer's count and the bitmap of the file.
RowsAreCounted ==
  /\ file = "open" <=> writer \in {"open", "unwinding", "flagged"}
  /\ file = "absent" => writer = "new" /\ Completed = {}
  /\ writer = "new" => nWritten = 0 /\ committedWl = {}
  /\ writer = "open" => /\ Completed = 0 .. nWritten - 1
                        /\ committedWl = {given[r].at.wi : r \in Completed}
  /\ writer = "unwinding" => nWritten < NC /\ Completed = 0 .. nWritten
  /\ writer = "flagged" => Completed = 0 .. nWritten - 1
  /\ file = "absent" \/ writer \in {"open", "unwinding"} =>
       flags = FreshFlags /\ versions = {FreshFlags}

WriterInv == WriterTypeOK /\ RowsAreCounted /\ CommittedRowsWhole /\ FlagsTruthful

-----------------------------------------------------------------------------
(* Arithmetic of the schedule w * NM + m.                                   *)

LEMMA ProductMonotone ==
  ASSUME NEW a \in Nat, NEW b \in Nat, NEW n \in Nat, a <= b
  PROVE  a * n <= b * n
OBVIOUS

LEMMA ProductStep ==
  ASSUME NEW a \in Nat, NEW n \in Nat
  PROVE  (a + 1) * n = a * n + n
OBVIOUS

\* The schedule has NW * NM rows, at least one.
LEMMA NCType == NC \in Nat \ {0}
BY WriterAssumption, ProductMonotone DEF NC

\* Every pair of a wavelength and a mask has a row ...
LEMMA ScheduleInRange ==
  ASSUME NEW w \in 0 .. NW - 1, NEW m \in 0 .. NM - 1
  PROVE  w * NM + m \in RowIds
<1>1. (w + 1) * NM <= NW * NM
  BY WriterAssumption, ProductMonotone
<1>2. (w + 1) * NM = w * NM + NM
  BY WriterAssumption, ProductStep
<1>3. w * NM \in Nat /\ NW * NM \in Nat
  BY WriterAssumption
<1> QED BY <1>1, <1>2, <1>3, WriterAssumption DEF RowIds, NC

\* ... and no two pairs share one.
LEMMA ScheduleInjective ==
  ASSUME NEW w \in 0 .. NW - 1, NEW m \in 0 .. NM - 1,
         NEW v \in 0 .. NW - 1, NEW k \in 0 .. NM - 1,
         w * NM + m = v * NM + k
  PROVE  w = v /\ m = k
<1>1. w * NM \in Nat /\ v * NM \in Nat
  BY WriterAssumption
<1>2. ~ (w < v)
  <2>1. SUFFICES ASSUME w < v PROVE FALSE
    OBVIOUS
  <2>2. (w + 1) * NM <= v * NM
    BY <2>1, WriterAssumption, ProductMonotone
  <2> QED BY <2>2, <1>1, WriterAssumption, ProductStep
<1>3. ~ (v < w)
  <2>1. SUFFICES ASSUME v < w PROVE FALSE
    OBVIOUS
  <2>2. (v + 1) * NM <= w * NM
    BY <2>1, WriterAssumption, ProductMonotone
  <2> QED BY <2>2, <1>1, WriterAssumption, ProductStep
<1>4. w = v
  BY <1>2, <1>3
<1> QED BY <1>4, <1>1, WriterAssumption

-----------------------------------------------------------------------------
(* The bitmap and what finalize computes from it.                           *)

\* A completed row is the one its indices name.
LEMMA CompletedRow ==
  ASSUME WriterTypeOK, CommittedRowsWhole, file # "abandoned",
         NEW r \in Completed
  PROVE  /\ rows[r].at \in Capture /\ rows[r].at = given[r].at
         /\ rows[r].at.ci = r
         /\ r = rows[r].at.wi * NM + rows[r].at.mi
<1>1. r \in RowIds
  BY DEF Completed
<1>2. rows[r].at \in Capture \cup {NoCapture}
  BY <1>1 DEF WriterTypeOK
<1>3. rows[r].at = given[r].at /\ given[r].at.ci = r /\ r = given[r].at.wi * NM + given[r].at.mi
  BY DEF CommittedRowsWhole
<1>4. rows[r].at # NoCapture
  BY <1>1, <1>3 DEF NoCapture, RowIds
<1> QED BY <1>2, <1>3, <1>4

\* The schedule is complete exactly when every bit is set.
LEMMA CompleteIsAllRows ==
  ASSUME WriterTypeOK, CommittedRowsWhole, file # "abandoned"
  PROVE  ScheduleIsComplete <=> Completed = RowIds
<1>1. SUFFICES ASSUME Completed = RowIds PROVE ScheduleIsComplete
  BY DEF ScheduleIsComplete
<1>2. \A r \in RowIds : /\ rows[r].at \in Capture /\ rows[r].at.ci = r
                        /\ r = rows[r].at.wi * NM + rows[r].at.mi
  BY <1>1, CompletedRow
<1>3. {rows[r].at.ci : r \in RowIds} = RowIds
  BY <1>2
<1>4. {<<rows[r].at.wi, rows[r].at.mi>> : r \in RowIds} = (0 .. NW - 1) \X (0 .. NM - 1)
  <2>1. ASSUME NEW r \in RowIds
        PROVE  <<rows[r].at.wi, rows[r].at.mi>> \in (0 .. NW - 1) \X (0 .. NM - 1)
    BY <1>2 DEF Capture
  <2>2. ASSUME NEW w \in 0 .. NW - 1, NEW m \in 0 .. NM - 1
        PROVE  \E r \in RowIds : <<rows[r].at.wi, rows[r].at.mi>> = <<w, m>>
    <3>1. w * NM + m \in RowIds
      BY ScheduleInRange
    <3>2. PICK r \in RowIds : r = w * NM + m
      BY <3>1
    <3>3. rows[r].at.wi \in 0 .. NW - 1 /\ rows[r].at.mi \in 0 .. NM - 1
      BY <1>2 DEF Capture
    <3>4. w * NM + m = rows[r].at.wi * NM + rows[r].at.mi
      BY <1>2, <3>2
    <3>5. rows[r].at.wi = w /\ rows[r].at.mi = m
      BY <3>3, <3>4, ScheduleInjective
    <3> QED BY <3>5
  <2> QED BY <2>1, <2>2
<1> QED BY <1>1, <1>2, <1>3, <1>4 DEF ScheduleIsComplete

\* The flags finalize writes, when the completed rows are the first n.
LEMMA FlagsOfPrefix ==
  ASSUME WriterTypeOK, CommittedRowsWhole, file # "abandoned",
         NEW n \in 0 .. NC, Completed = 0 .. n - 1
  PROVE  /\ Cardinality(Completed) = n
         /\ LastCompleted = n - 1
         /\ ScheduleIsComplete <=> n = NC
<1>1. n \in Nat /\ NC \in Nat
  BY NCType
<1>2. Cardinality(Completed) = n
  BY <1>1, FS_Interval
<1>3. LastCompleted = n - 1
  <2>1. CASE n = 0
    <3>1. Completed = {}
      BY <2>1
    <3> QED BY <2>1, <3>1 DEF LastCompleted
  <2>2. CASE n # 0
    <3>1. n - 1 \in Completed /\ \A q \in Completed : q <= n - 1
      BY <1>1, <2>2
    <3>2. \A r \in Completed : (\A q \in Completed : q <= r) => r = n - 1
      BY <1>1, <3>1
    <3>3. (CHOOSE r \in Completed : \A q \in Completed : q <= r) = n - 1
      BY <3>1, <3>2
    <3>4. rows[n - 1].at.ci = n - 1
      BY <3>1, CompletedRow
    <3>5. Completed # {}
      BY <3>1
    <3> QED BY <3>3, <3>4, <3>5 DEF LastCompleted
  <2> QED BY <2>1, <2>2
<1>4. ScheduleIsComplete <=> n = NC
  <2>1. Completed = RowIds <=> n = NC
    BY <1>1, NCType DEF RowIds
  <2> QED BY <2>1, CompleteIsAllRows
<1> QED BY <1>2, <1>3, <1>4

-----------------------------------------------------------------------------
(* The invariant.                                                           *)

LEMMA InitWriterInv == WriterInit => WriterInv
<1> SUFFICES ASSUME WriterInit PROVE WriterInv
  OBVIOUS
<1> USE DEF WriterInit
<1>1. Completed = {}
  BY DEF Completed, FreshRow
<1>2. WriterTypeOK
  BY NCType, WriterAssumption
  DEF WriterTypeOK, Flags, RowIds, FreshRow, FreshFlags, NoWlMeta, WlMeta, Both
<1>3. RowsAreCounted
  BY <1>1 DEF RowsAreCounted
<1>4. CommittedRowsWhole /\ FlagsTruthful
  BY <1>1 DEF CommittedRowsWhole, FlagsTruthful
<1> QED BY <1>2, <1>3, <1>4 DEF WriterInv

LEMMA OpenInv == ASSUME WriterInv, Open PROVE WriterInv'
<1> USE DEF WriterInv, Open, OpenFile
<1>1. Completed' = {}
  BY DEF Completed, FreshRow
<1>2. nWritten = 0 /\ committedWl = {}
  BY DEF RowsAreCounted
<1>3. WriterTypeOK'
  BY NCType, WriterAssumption DEF WriterTypeOK, Flags, FreshRow, FreshFlags, NoWlMeta, WlMeta, Both
<1>4. RowsAreCounted'
  <2>1. {given'[r].at.wi : r \in Completed'} = {}
    BY <1>1
  <2>2. 0 .. nWritten' - 1 = {}
    BY <1>2
  <2> QED BY <1>1, <1>2, <2>1, <2>2 DEF RowsAreCounted
<1>5. CommittedRowsWhole' /\ FlagsTruthful'
  BY <1>1 DEF CommittedRowsWhole, FlagsTruthful
<1> QED BY <1>3, <1>4, <1>5

\* A row all of whose parts, and the bit, come from one call.
LEMMA FullRow ==
  ASSUME NEW row, NEW c, NEW call
  PROVE  Written(row, c, call, Parts + 1) =
           [avg |-> call, burst |-> IF StoreBurst THEN call ELSE row.burst,
            at |-> c, camera |-> call, completed |-> TRUE]
<1>1. Parts = 4 /\ Parts + 1 = 5
  BY DEF Parts
<1> QED BY <1>1, WriterAssumption DEF Written

\* What both commits of a row do to the file: row nWritten becomes the call's.
LEMMA CommitRow ==
  ASSUME WriterInv, NEW c \in Capture, NEW s \in Shapes, NEW x \in Metas,
         MayAppend(c), WriteRow(c, s, x)
  PROVE  /\ nWritten \in RowIds /\ c.ci = nWritten
         /\ Completed' = 0 .. nWritten
         /\ given'[nWritten].at = c
         /\ \A r \in Completed : given'[r] = given[r]
         /\ \A d \in RowIds : rows'[d] = rows[d] \/ d = nWritten
         /\ rows' \in [RowIds -> [avg : Nat, burst : Nat, at : Capture \cup {NoCapture},
                                 camera : Nat, completed : BOOLEAN]]
         /\ given' \in [RowIds -> Call \cup {NoCall}]
         /\ wlmeta' \in [0 .. NW - 1 -> WlMeta]
         /\ shape' = s /\ bshape' \in Shapes \cup {NoShape} /\ calls' \in Nat
         /\ rows'[nWritten].avg = calls + 1 /\ rows'[nWritten].at = c
         /\ rows'[nWritten].completed
         /\ wlmeta'[c.wi] = Both(x) /\ \A w \in committedWl : wlmeta'[w] = wlmeta[w]
         /\ CommittedRowsWhole'
<1> USE DEF WriterInv, MayAppend, WriteRow
<1>1. nWritten \in RowIds /\ c.ci = nWritten /\ c.ci = c.wi * NM + c.mi
  BY NCType DEF InSchedule, RowIds, WriterTypeOK
<1>2. Completed = 0 .. nWritten - 1 /\ committedWl = {given[r].at.wi : r \in Completed}
  BY DEF RowsAreCounted
<1>3. rows'[nWritten] = [avg |-> calls + 1,
                         burst |-> IF StoreBurst THEN calls + 1 ELSE rows[nWritten].burst,
                         at |-> c, camera |-> calls + 1, completed |-> TRUE]
  <2>1. rows'[nWritten] = Written(rows[nWritten], c, calls + 1, Parts + 1)
    BY <1>1 DEF WriterTypeOK
  <2> QED BY <2>1, FullRow
<1>4. \A d \in RowIds : rows'[d] = rows[d] \/ d = nWritten
  BY DEF WriterTypeOK
<1>5. rows' \in [RowIds -> [avg : Nat, burst : Nat, at : Capture \cup {NoCapture},
                           camera : Nat, completed : BOOLEAN]]
  <2>1. rows'[nWritten] \in [avg : Nat, burst : Nat, at : Capture \cup {NoCapture},
                            camera : Nat, completed : BOOLEAN]
    <3>1. rows[nWritten].burst \in Nat /\ calls + 1 \in Nat
      BY <1>1 DEF WriterTypeOK
    <3>2. (IF StoreBurst THEN calls + 1 ELSE rows[nWritten].burst) \in Nat
      BY <3>1, WriterAssumption
    <3> HIDE DEF WriterInv, MayAppend, WriteRow
    <3> QED BY <1>3, <3>1, <3>2
  <2> QED BY <1>1, <2>1 DEF WriterTypeOK
<1>6. Completed' = 0 .. nWritten
  <2>1. Completed' = Completed \cup {nWritten}
    BY <1>1, <1>3, <1>4 DEF Completed
  <2>2. nWritten \in Nat
    BY DEF WriterTypeOK
  <2> QED BY <1>2, <2>1, <2>2
<1>7. /\ given' \in [RowIds -> Call \cup {NoCall}]
      /\ given'[nWritten] = [call |-> calls + 1, at |-> c, shape |-> s, meta |-> x]
      /\ \A r \in RowIds : r # nWritten => given'[r] = given[r]
  BY <1>1 DEF WriterTypeOK, Call
<1>8. \A r \in Completed : given'[r] = given[r] /\ rows'[r] = rows[r] /\ r # nWritten
  BY <1>1, <1>2, <1>4, <1>7 DEF Completed, RowIds
<1>9. wlmeta' \in [0 .. NW - 1 -> WlMeta]
  BY DEF WriterTypeOK, Capture, WlMeta, Both
<1>10. bshape' \in Shapes \cup {NoShape} /\ calls' \in Nat
  BY DEF WriterTypeOK
<1>11. wlmeta'[c.wi] = Both(x)
  BY DEF SameMetadata, WriterTypeOK, Capture
<1>12. \A w \in committedWl : wlmeta'[w] = wlmeta[w]
  BY DEF WriterTypeOK, Capture
<1>13. CommittedRowsWhole'
  <2>1. SUFFICES ASSUME NEW r \in Completed', file # "abandoned"
        PROVE /\ rows'[r].avg = given'[r].call /\ rows'[r].camera = given'[r].call
              /\ StoreBurst => rows'[r].burst = given'[r].call
              /\ rows'[r].at = given'[r].at /\ given'[r].at.ci = r
              /\ r = given'[r].at.wi * NM + given'[r].at.mi
              /\ wlmeta'[given'[r].at.wi] = Both(given'[r].meta)
              /\ shape' = given'[r].shape /\ (StoreBurst => bshape' = given'[r].shape)
    BY DEF CommittedRowsWhole
  <2>2. CASE r = nWritten
    BY <2>2, <1>1, <1>3, <1>7, <1>11
  <2>3. CASE r # nWritten
    <3>1. r \in Completed /\ nWritten # 0
      BY <1>2, <1>6, <2>3 DEF WriterTypeOK
    <3>2. rows'[r] = rows[r] /\ given'[r] = given[r]
      BY <1>8, <3>1
    <3>3. given[r].at.wi \in committedWl
      BY <1>2, <3>1
    <3>4. wlmeta'[given[r].at.wi] = wlmeta[given[r].at.wi]
      BY <1>12, <3>3
    <3>5. shape' = shape /\ (StoreBurst => bshape' = bshape)
      BY <3>1 DEF FitsShape
    <3> QED BY <2>1, <3>1, <3>2, <3>4, <3>5 DEF CommittedRowsWhole
  <2> QED BY <2>2, <2>3
<1>14. rows'[nWritten].avg = calls + 1 /\ rows'[nWritten].at = c /\ rows'[nWritten].completed
  BY <1>3
<1>15. given'[nWritten].at = c
  BY <1>7
<1>16. shape' = s
  OBVIOUS
<1> HIDE DEF WriterInv, MayAppend, WriteRow
<1> QED BY <1>1, <1>4, <1>5, <1>6, <1>7, <1>8, <1>9, <1>10, <1>11, <1>12, <1>13, <1>14,
           <1>15, <1>16

LEMMA AppendCaptureInv ==
  ASSUME WriterInv, NEW c \in Capture, NEW s \in Shapes, NEW x \in Metas,
         AppendCapture(c, s, x)
  PROVE  WriterInv'
<1> USE DEF WriterInv, AppendCapture, MayAppend
<1>1. /\ nWritten \in RowIds /\ Completed' = 0 .. nWritten /\ given'[nWritten].at = c
      /\ \A r \in Completed : given'[r] = given[r]
  BY CommitRow
<1>2. WriterTypeOK'
  <2>1. nWritten' \in 0 .. NC /\ committed' \in SUBSET Capture
          /\ committedWl' \in SUBSET (0 .. NW - 1)
    <3>1. nWritten' \in 0 .. NC
      BY <1>1, NCType DEF RowIds
    <3>2. c.wi \in 0 .. NW - 1
      BY DEF Capture
    <3> QED BY <3>1, <3>2 DEF WriterTypeOK
  <2> QED BY CommitRow, <2>1 DEF WriterTypeOK, WriteRow
<1>3. RowsAreCounted'
  <2>1. Completed' = 0 .. nWritten' - 1 /\ Completed' = Completed \cup {nWritten}
    <3>1. nWritten \in Nat /\ nWritten' = nWritten + 1 /\ Completed = 0 .. nWritten - 1
      BY DEF RowsAreCounted, WriterTypeOK
    <3> QED BY <1>1, <3>1
  <2>2. committedWl' = {given'[r].at.wi : r \in Completed'}
    BY <1>1, <2>1 DEF RowsAreCounted
  <2>3. file' = file /\ writer' = "open" /\ flags' = flags /\ versions' = versions
    BY DEF WriteRow
  <2> QED BY <2>1, <2>2, <2>3 DEF RowsAreCounted
<1>4. CommittedRowsWhole'
  BY CommitRow
<1>5. FlagsTruthful'
  BY DEF FlagsTruthful, RowsAreCounted, WriteRow
<1> QED BY <1>2, <1>3, <1>4, <1>5

LEMMA AppendInterruptedInv ==
  ASSUME WriterInv, NEW c \in Capture, NEW s \in Shapes, NEW x \in Metas,
         AppendInterrupted(c, s, x)
  PROVE  WriterInv'
<1> USE DEF WriterInv, AppendInterrupted, MayAppend
<1>1. nWritten \in RowIds /\ Completed' = 0 .. nWritten
  BY CommitRow
<1>2. WriterTypeOK'
  BY CommitRow DEF WriterTypeOK, WriteRow
<1>3. RowsAreCounted'
  BY <1>1, NCType DEF RowsAreCounted, WriteRow, RowIds
<1>4. CommittedRowsWhole'
  BY CommitRow
<1>5. FlagsTruthful'
  BY DEF FlagsTruthful, RowsAreCounted, WriteRow
<1> QED BY <1>2, <1>3, <1>4, <1>5

\* A call that raises half-way leaves every completed row, and all that the
\* completed rows share, as they were.
LEMMA AppendFailsInv ==
  ASSUME WriterInv, NEW c \in Capture, NEW s \in Shapes, NEW x \in Metas,
         NEW k \in 0 .. Parts, AppendFails(c, s, x, k)
  PROVE  WriterInv'
<1> USE DEF WriterInv, AppendFails, MayAppend
<1>1. nWritten \in RowIds
  BY NCType DEF RowIds, WriterTypeOK
<1>2. Completed = 0 .. nWritten - 1 /\ committedWl = {given[r].at.wi : r \in Completed}
  BY DEF RowsAreCounted
<1>3. /\ rows'[nWritten] = Written(rows[nWritten], c, calls + 1, k)
      /\ \A d \in RowIds : d # nWritten => rows'[d] = rows[d]
  BY <1>1 DEF WriterTypeOK
<1>4. /\ rows'[nWritten].completed = rows[nWritten].completed
      /\ rows'[nWritten] \in [avg : Nat, burst : Nat, at : Capture \cup {NoCapture},
                              camera : Nat, completed : BOOLEAN]
  <2>1. rows[nWritten] \in [avg : Nat, burst : Nat, at : Capture \cup {NoCapture},
                            camera : Nat, completed : BOOLEAN]
    BY <1>1 DEF WriterTypeOK
  <2>2. ~ (k > Parts)
    BY DEF Parts
  <2>3. rows'[nWritten] =
          [avg |-> IF k >= 1 THEN calls + 1 ELSE rows[nWritten].avg,
           burst |-> IF k >= 2 /\ StoreBurst THEN calls + 1 ELSE rows[nWritten].burst,
           at |-> IF k >= 3 THEN c ELSE rows[nWritten].at,
           camera |-> IF k >= Parts THEN calls + 1 ELSE rows[nWritten].camera,
           completed |-> rows[nWritten].completed]
    BY <1>3, <2>1, <2>2 DEF Written
  <2>4. calls + 1 \in Nat
    BY DEF WriterTypeOK
  <2> QED BY <2>1, <2>3, <2>4
<1>5. Completed' = Completed
  BY <1>1, <1>3, <1>4 DEF Completed
<1>6. /\ shape' \in Shapes \cup {NoShape} /\ bshape' \in Shapes \cup {NoShape}
      /\ nWritten # 0 => shape' = shape /\ (StoreBurst => bshape' = bshape)
  BY DEF FitsShape, WriterTypeOK, Parts
<1>7. /\ wlmeta' \in [0 .. NW - 1 -> WlMeta]
      /\ \A w \in committedWl : wlmeta'[w] = wlmeta[w]
  <2>1. c.wi \in 0 .. NW - 1 /\ committedWl \in SUBSET (0 .. NW - 1)
    BY DEF Capture, WriterTypeOK
  <2>2. CASE wlmeta' = wlmeta
    BY <2>2 DEF WriterTypeOK
  <2>3. CASE c.wi \notin committedWl /\ wlmeta' = [wlmeta EXCEPT ![c.wi] = OneOf(x, @)]
    <3>1. OneOf(x, wlmeta[c.wi]) \in WlMeta
      BY <2>1 DEF WriterTypeOK, WlMeta, OneOf
    <3> QED BY <2>1, <2>3, <3>1 DEF WriterTypeOK
  <2>4. CASE c.wi \notin committedWl /\ wlmeta' = [wlmeta EXCEPT ![c.wi] = Both(x)]
    BY <2>1, <2>4 DEF WriterTypeOK, WlMeta, Both
  <2> QED BY <2>2, <2>3, <2>4
<1>8. WriterTypeOK'
  <2>1. rows' \in [RowIds -> [avg : Nat, burst : Nat, at : Capture \cup {NoCapture},
                             camera : Nat, completed : BOOLEAN]]
    BY <1>1, <1>4 DEF WriterTypeOK
  <2>2. calls' \in Nat
    BY DEF WriterTypeOK
  <2> QED BY <1>6, <1>7, <2>1, <2>2 DEF WriterTypeOK, memoryVars
<1>9. RowsAreCounted'
  BY <1>5 DEF RowsAreCounted, memoryVars
<1>10. CommittedRowsWhole'
  <2>1. SUFFICES ASSUME NEW r \in Completed, file # "abandoned"
        PROVE /\ rows'[r].avg = given[r].call /\ rows'[r].camera = given[r].call
              /\ StoreBurst => rows'[r].burst = given[r].call
              /\ rows'[r].at = given[r].at /\ given[r].at.ci = r
              /\ r = given[r].at.wi * NM + given[r].at.mi
              /\ wlmeta'[given[r].at.wi] = Both(given[r].meta)
              /\ shape' = given[r].shape /\ (StoreBurst => bshape' = given[r].shape)
    BY <1>5 DEF CommittedRowsWhole
  <2>2. rows'[r] = rows[r] /\ nWritten # 0
    BY <1>1, <1>2, <1>3 DEF Completed, RowIds
  <2>3. wlmeta'[given[r].at.wi] = wlmeta[given[r].at.wi]
    BY <1>2, <1>7
  <2> QED BY <1>6, <2>1, <2>2, <2>3 DEF CommittedRowsWhole
<1>11. FlagsTruthful'
  BY DEF FlagsTruthful, RowsAreCounted, memoryVars
<1> QED BY <1>8, <1>9, <1>10, <1>11

LEMMA WriteFlagsInv ==
  ASSUME WriterInv, NEW error \in BOOLEAN, WriteFlags(error)
  PROVE  WriterInv'
<1> USE DEF WriterInv, WriteFlags
<1>1. Completed' = Completed /\ file = "open" /\ file # "abandoned"
  BY DEF Completed, RowsAreCounted
<1>2. PICK n \in 0 .. NC : Completed = 0 .. n - 1
  <2>1. CASE writer \in {"open", "flagged"}
    BY <2>1 DEF RowsAreCounted, WriterTypeOK
  <2>2. CASE writer = "unwinding"
    <3>1. nWritten + 1 \in 0 .. NC /\ Completed = 0 .. (nWritten + 1) - 1
      BY <2>2, NCType DEF RowsAreCounted, WriterTypeOK
    <3> QED BY <3>1
  <2> QED BY <2>1, <2>2
<1>3. Cardinality(Completed) = n /\ LastCompleted = n - 1 /\ (ScheduleIsComplete <=> n = NC)
  BY <1>1, <1>2, FlagsOfPrefix
<1>4. FinalFlags(error) = [complete |-> ScheduleIsComplete, succeeded |-> ~ error,
                           written |-> n, last |-> n - 1]
  BY <1>3 DEF FinalFlags
<1>5. WriterTypeOK'
  <2>1. FinalFlags(error) \in Flags
    <3>1. ScheduleIsComplete \in BOOLEAN
      BY DEF ScheduleIsComplete
    <3>2. n \in 0 .. NC /\ n - 1 \in -1 .. NC - 1
      BY NCType
    <3> QED BY <1>4, <3>1, <3>2 DEF Flags
  <2> QED BY <1>3, <2>1 DEF WriterTypeOK
<1>6. RowsAreCounted'
  BY <1>1, <1>2, <1>3 DEF RowsAreCounted
<1>7. CommittedRowsWhole'
  BY <1>1 DEF CommittedRowsWhole
<1>8. FlagsTruthful'
  <2>1. Cardinality(Completed') = n /\ Completed' = 0 .. n - 1
    BY <1>1, <1>2, <1>3
  <2>2. flags'.written = n /\ flags'.last = n - 1
    BY <1>4
  <2>3. (flags'.complete <=> n = NC) /\ (flags'.succeeded <=> ~ error)
    <3>1. flags' = [complete |-> ScheduleIsComplete, succeeded |-> ~ error,
                    written |-> n, last |-> n - 1]
      BY <1>4
    <3> HIDE DEF WriterInv, WriteFlags
    <3>2. flags'.complete = ScheduleIsComplete /\ flags'.succeeded = (~ error)
      BY <3>1
    <3> QED BY <1>3, <3>2
  <2> QED BY <1>3, <2>1, <2>2, <2>3 DEF FlagsTruthful
<1> QED BY <1>5, <1>6, <1>7, <1>8

LEMMA CloseFileInv == ASSUME WriterInv, CloseFile PROVE WriterInv'
<1> USE DEF WriterInv, CloseFile
<1>1. Completed' = Completed /\ file # "abandoned"
  BY DEF Completed, RowsAreCounted
<1>2. WriterTypeOK'
  BY DEF WriterTypeOK
<1>3. RowsAreCounted'
  BY <1>1 DEF RowsAreCounted
<1>4. CommittedRowsWhole' /\ FlagsTruthful'
  BY <1>1 DEF CommittedRowsWhole, FlagsTruthful
<1> QED BY <1>2, <1>3, <1>4

LEMMA DieInv == ASSUME WriterInv, Die PROVE WriterInv'
BY DEF WriterInv, Die, WriterTypeOK, RowsAreCounted, CommittedRowsWhole,
       FlagsTruthful, Completed

LEMMA NewRunInv == ASSUME WriterInv, NewRun PROVE WriterInv'
<1> USE DEF WriterInv, NewRun, fileVars
<1>1. Completed' = Completed
  BY DEF Completed
<1>2. WriterTypeOK'
  BY NCType DEF WriterTypeOK
<1>3. RowsAreCounted'
  BY <1>1 DEF RowsAreCounted
<1>4. CommittedRowsWhole' /\ FlagsTruthful'
  BY <1>1 DEF CommittedRowsWhole, FlagsTruthful
<1> QED BY <1>2, <1>3, <1>4

LEMMA NextWriterInv == WriterInv /\ [WriterNext]_writerVars => WriterInv'
<1> SUFFICES ASSUME WriterInv, [WriterNext]_writerVars PROVE WriterInv'
  OBVIOUS
<1>1. CASE Open
  BY <1>1, OpenInv
<1>2. CASE AppendStep
  BY <1>2, AppendCaptureInv, AppendInterruptedInv, AppendFailsInv DEF AppendStep
<1>3. CASE Finalize
  BY <1>3, WriteFlagsInv, CloseFileInv DEF Finalize
<1>4. CASE Die
  BY <1>4, DieInv
<1>5. CASE NewRun
  BY <1>5, NewRunInv
<1>6. CASE UNCHANGED writerVars
  <2> USE <1>6 DEF writerVars, fileVars, memoryVars
  <2>1. Completed' = Completed
    BY DEF Completed
  <2>2. WriterTypeOK' /\ RowsAreCounted'
    BY <2>1 DEF WriterInv, WriterTypeOK, RowsAreCounted
  <2>3. CommittedRowsWhole' /\ FlagsTruthful'
    BY <2>1 DEF WriterInv, CommittedRowsWhole, FlagsTruthful
  <2> QED BY <2>2, <2>3 DEF WriterInv
<1> QED BY <1>1, <1>2, <1>3, <1>4, <1>5, <1>6 DEF WriterNext

LEMMA WriterInvariance == WriterSpec => []WriterInv
BY InitWriterInv, NextWriterInv, PTL DEF WriterSpec

(* Every state of a run, whatever fails in it, is well typed.               *)
THEOREM WriterTypeCorrect == WriterSpec => []WriterTypeOK
BY WriterInvariance, PTL DEF WriterInv

(* A completed row is entirely the work of one call of append_capture.      *)
THEOREM CompletedRowsAreWhole == WriterSpec => []CommittedRowsWhole
BY WriterInvariance, PTL DEF WriterInv

(* The flags of a finalized file say what its rows say.                     *)
THEOREM FlagsAreTruthful == WriterSpec => []FlagsTruthful
BY WriterInvariance, PTL DEF WriterInv

-----------------------------------------------------------------------------
(* The file implements CaptureLedger.                                       *)

\* The wavelength of a completed row is in the writer's memory.
LEMMA WavelengthIsCommitted ==
  ASSUME WriterInv, writer = "open", NEW r \in Completed
  PROVE  /\ r \in RowIds /\ rows[r].at \in Capture
         /\ rows[r].at.wi \in committedWl
<1>1. file # "abandoned" /\ committedWl = {given[q].at.wi : q \in Completed}
  BY DEF WriterInv, RowsAreCounted
<1>2. rows[r].at \in Capture /\ rows[r].at = given[r].at
  BY <1>1, CompletedRow DEF WriterInv
<1> QED BY <1>1, <1>2 DEF Completed

LEMMA CommitEnters ==
  ASSUME WriterInv, NEW c \in Capture, NEW s \in Shapes, NEW x \in Metas,
         MayAppend(c), WriteRow(c, s, x)
  PROVE  Ledger!LedgerNext
<1> DEFINE e == [wavelength |-> c.wi, mask |-> c.mi, call |-> calls + 1, meta |-> Both(x)]
           E == [r \in RowIds |-> Entry(r)]
<1>1. /\ writer = "open" /\ file = "open" /\ file' = "open"
      /\ Completed = 0 .. nWritten - 1 /\ nWritten \in RowIds
      /\ c.ci = nWritten /\ nWritten = c.wi * NM + c.mi
      /\ c.wi \in 0 .. NW - 1 /\ c.mi \in 0 .. NM - 1
  BY CommitRow DEF MayAppend, InSchedule, WriteRow, WriterInv, RowsAreCounted, Capture
<1>2. calls + 1 \in 1 .. MaxCalls
  BY WriterAssumption DEF WriterInv, WriterTypeOK, MayAppend
<1>3. \A q \in RowIds : (q < nWritten <=> q \in Completed) /\ (q \in Completed <=> rows[q].completed)
  BY <1>1 DEF Completed, RowIds
<1>4. Entry(nWritten) = Ledger!Blank
  BY <1>1, <1>3 DEF Entry, Ledger!Blank, Ledger!Both, Both, RowIds
<1>5. \A q \in Completed : Entry(q) = [wavelength |-> rows[q].at.wi, mask |-> rows[q].at.mi,
                                     call |-> rows[q].avg, meta |-> wlmeta[rows[q].at.wi]]
  BY <1>1, <1>3 DEF Entry, Completed
<1>6. \A q \in Completed : Entry(q) # Ledger!Blank
  <2>1. SUFFICES ASSUME NEW q \in Completed PROVE Entry(q).wavelength # Ledger!Blank.wavelength
    OBVIOUS
  <2>2. rows[q].at.wi \in 0 .. NW - 1
    BY <1>1, WavelengthIsCommitted DEF Capture
  <2>3. Entry(q).wavelength = rows[q].at.wi
    BY <1>5
  <2>4. Ledger!Blank.wavelength = NW
    BY DEF Ledger!Blank
  <2> QED BY <2>2, <2>3, <2>4, WriterAssumption
<1>7. \A q \in Completed : rows[q].at.wi = c.wi => wlmeta[rows[q].at.wi] = Both(x)
  <2>1. c.wi \in committedWl => wlmeta[c.wi] = Both(x)
    BY DEF WriteRow, SameMetadata
  <2> QED BY <1>1, <2>1, WavelengthIsCommitted
<1>8. ASSUME NEW q \in RowIds, Entry(q) # Ledger!Blank, Entry(q).wavelength = c.wi
      PROVE  Entry(q).meta = Both(x)
  <2>1. q \in Completed
    BY <1>3, <1>8 DEF Entry, Ledger!Blank, Ledger!Both, Both
  <2>2. Entry(q).wavelength = rows[q].at.wi /\ Entry(q).meta = wlmeta[rows[q].at.wi]
    BY <2>1, <1>5
  <2> QED BY <2>1, <2>2, <1>7, <1>8
<1> PICK n \in RowIds : n = nWritten
  BY <1>1
<1>9. Entry(n)' = e
  <2>1. /\ rows'[nWritten].avg = calls + 1 /\ rows'[nWritten].at = c
        /\ rows'[nWritten].completed /\ wlmeta'[c.wi] = Both(x)
    BY CommitRow
  <2> QED BY <1>1, <2>1 DEF Entry
<1>10. \A q \in RowIds : q # n => Entry(q)' = Entry(q)
  <2>1. SUFFICES ASSUME NEW q \in RowIds, q # n PROVE Entry(q)' = Entry(q)
    OBVIOUS
  <2>2. rows'[q] = rows[q]
    BY <2>1, CommitRow
  <2>3. rows[q].completed => wlmeta'[rows[q].at.wi] = wlmeta[rows[q].at.wi]
    BY <1>1, <1>3, CommitRow, WavelengthIsCommitted
  <2> QED BY <1>1, <2>2, <2>3 DEF Entry
<1>11. E' = [E EXCEPT ![n] = e]
  <2>1. E' = [q \in RowIds |-> Entry(q)']
    OBVIOUS
  <2> HIDE DEF e
  <2>2. \A q \in RowIds : Entry(q)' = [E EXCEPT ![n] = e][q]
    BY <1>9, <1>10
  <2> QED BY <2>1, <2>2
<1>12. Verdict = "open" /\ Verdict' = "open"
  BY <1>1 DEF Verdict
<1>13. Ledger!Row = RowIds
  BY DEF Ledger!Row, RowIds, NC
<1>14. Ledger!Agrees(e)
  <2>1. \A q \in RowIds : E[q] = Entry(q)
    OBVIOUS
  <2>2. e.wavelength = c.wi /\ e.meta = Both(x)
    OBVIOUS
  <2> HIDE DEF e
  <2> QED BY <2>1, <2>2, <1>8, <1>13 DEF Ledger!Agrees
<1>15. E[nWritten] = Ledger!Blank /\ \A q \in RowIds : q < nWritten => E[q] # Ledger!Blank
  <2>1. \A q \in RowIds : E[q] = Entry(q)
    OBVIOUS
  <2> HIDE DEF E
  <2> QED BY <1>1, <1>3, <1>4, <1>6, <2>1
<1>16. Ledger!Both(x) = Both(x)
  BY DEF Ledger!Both, Both
<1>17. Ledger!Enter
  <2> HIDE DEF E
  <2>1. /\ nWritten \in Ledger!Row /\ c.wi \in 0 .. NW - 1 /\ c.mi \in 0 .. NM - 1
        /\ calls + 1 \in 1 .. MaxCalls /\ x \in Metas
    BY <1>1, <1>2, <1>13
  <2>2. E = [r \in RowIds |-> Entry(r)]
    BY DEF E
  <2>3. E' = [r \in RowIds |-> Entry(r)]'
    BY DEF E
  <2>4. e = [wavelength |-> c.wi, mask |-> c.mi, call |-> calls + 1, meta |-> Ledger!Both(x)]
    BY <1>16
  <2> HIDE DEF e
  <2> QED BY <1>1, <1>11, <1>12, <1>13, <1>14, <1>15, <2>1, <2>2, <2>3, <2>4 DEF Ledger!Enter
<1> QED BY <1>12, <1>17 DEF Ledger!LedgerNext

\* A call that raises enters nothing: to the ledger it is a stutter.
LEMMA FailureEntersNothing ==
  ASSUME WriterInv, NEW c \in Capture, NEW s \in Shapes, NEW x \in Metas,
         NEW k \in 0 .. Parts, AppendFails(c, s, x, k)
  PROVE  /\ \A q \in RowIds : Entry(q)' = Entry(q)
         /\ Verdict' = Verdict
<1>1. /\ writer = "open" /\ file = "open" /\ file' = "open"
      /\ Completed = 0 .. nWritten - 1 /\ nWritten \in RowIds
  BY NCType DEF AppendFails, MayAppend, WriterInv, RowsAreCounted, WriterTypeOK, RowIds
<1>2. ~ rows[nWritten].completed
  BY <1>1 DEF Completed, RowIds
<1>3. /\ \A q \in RowIds : q # nWritten => rows'[q] = rows[q]
      /\ rows'[nWritten] = Written(rows[nWritten], c, calls + 1, k)
  BY <1>1 DEF AppendFails, WriterInv, WriterTypeOK
<1>4. ~ rows'[nWritten].completed
  <2>1. ~ (k > Parts)
    BY DEF Parts
  <2>2. rows'[nWritten].completed = rows[nWritten].completed
    BY <1>3, <2>1 DEF Written
  <2> QED BY <1>2, <2>2
<1>5. \A w \in committedWl : wlmeta'[w] = wlmeta[w]
  <2>1. wlmeta' = wlmeta \/ (c.wi \notin committedWl
          /\ \E v \in {OneOf(x, wlmeta[c.wi]), Both(x)} : wlmeta' = [wlmeta EXCEPT ![c.wi] = v])
    BY DEF AppendFails
  <2>2. wlmeta \in [0 .. NW - 1 -> WlMeta] /\ committedWl \in SUBSET (0 .. NW - 1)
    BY DEF WriterInv, WriterTypeOK
  <2> QED BY <2>1, <2>2
<1>6. ASSUME NEW q \in RowIds PROVE Entry(q)' = Entry(q)
  <2>1. CASE q = nWritten
    BY <2>1, <1>2, <1>4 DEF Entry
  <2>2. CASE q # nWritten
    <3>1. rows'[q] = rows[q]
      BY <1>3, <2>2
    <3>2. rows[q].completed => wlmeta'[rows[q].at.wi] = wlmeta[rows[q].at.wi]
      BY <1>1, <1>5, WavelengthIsCommitted DEF Completed
    <3> QED BY <1>1, <3>1, <3>2 DEF Entry
  <2> QED BY <2>1, <2>2
<1> QED BY <1>1, <1>6 DEF Verdict

LEMMA LedgerInitially ==
  ASSUME WriterInit
  PROVE  Ledger!LedgerInit
<1>1. Ledger!Row = RowIds
  BY DEF Ledger!Row, RowIds, NC
<1>2. \A r \in RowIds : Entry(r) = Ledger!Blank
  BY DEF WriterInit, FreshRow, Entry, Ledger!Blank, Ledger!Both, Both
<1>3. Verdict = "open"
  BY DEF WriterInit, Verdict
<1> QED BY <1>1, <1>2, <1>3 DEF Ledger!LedgerInit

LEMMA LedgerStep ==
  ASSUME WriterInv, [WriterNext]_writerVars
  PROVE  [Ledger!LedgerNext]_(Ledger!ledgerVars)
<1> DEFINE E == [r \in RowIds |-> Entry(r)]
<1>0. SUFFICES \/ Ledger!LedgerNext
               \/ (\A q \in RowIds : Entry(q)' = Entry(q)) /\ Verdict' = Verdict
  BY DEF Ledger!ledgerVars
<1>1. CASE Open
  <2>1. file = "absent" /\ file' = "open" /\ Completed = {}
    BY <1>1 DEF Open, OpenFile, WriterInv, RowsAreCounted
  <2>2. \A q \in RowIds : ~ rows[q].completed /\ ~ rows'[q].completed
    BY <1>1, <2>1 DEF Open, FreshRow, Completed
  <2> QED BY <2>1, <2>2 DEF Entry, Verdict
<1>2. CASE AppendStep
  <2>1. PICK c \in Capture, s \in Shapes, x \in Metas :
          \/ AppendCapture(c, s, x) \/ AppendInterrupted(c, s, x)
          \/ \E k \in 0 .. Parts : AppendFails(c, s, x, k)
    BY <1>2 DEF AppendStep
  <2>2. CASE AppendCapture(c, s, x) \/ AppendInterrupted(c, s, x)
    BY <2>2, CommitEnters DEF AppendCapture, AppendInterrupted
  <2>3. CASE \E k \in 0 .. Parts : AppendFails(c, s, x, k)
    BY <2>3, FailureEntersNothing
  <2> QED BY <2>1, <2>2, <2>3
<1>3. CASE \E error \in BOOLEAN : WriteFlags(error)
  <2>1. file = "open" /\ file' = "open" /\ rows' = rows /\ wlmeta' = wlmeta
    BY <1>3 DEF WriteFlags, WriterInv, RowsAreCounted
  <2> QED BY <2>1 DEF Entry, Verdict
<1>4. CASE CloseFile \/ Die
  <2>1. /\ file = "open" /\ file' \in {"closed", "abandoned"}
        /\ rows' = rows /\ wlmeta' = wlmeta
    BY <1>4 DEF CloseFile, Die, WriterInv, RowsAreCounted
  <2>2. Ledger!Row = RowIds /\ \A r \in RowIds : E[r] = Entry(r)
    BY DEF Ledger!Row, RowIds, NC
  <2>3. Verdict = "open" /\ Verdict' = IF SurveyAccepts' THEN "accepted" ELSE "rejected"
    BY <2>1 DEF Verdict
  <2>4. CASE file' = "abandoned" /\ ~ SurveyAccepts'
    <3>1. \A q \in RowIds : Entry(q)' = Ledger!Blank
      BY <2>4 DEF Entry, Ledger!Blank, Ledger!Both, Both
    <3>2. E' = [r \in RowIds |-> IF r \in RowIds THEN Ledger!Blank ELSE E[r]]
      BY <3>1
    <3>3. RowIds \in SUBSET RowIds
      OBVIOUS
    <3>4. Ledger!Lose
      BY <2>2, <2>3, <2>4, <3>2, <3>3 DEF Ledger!Lose
    <3> QED BY <2>3, <3>4 DEF Ledger!LedgerNext
  <2>5. CASE file' = "closed" \/ SurveyAccepts'
    <3>1. \A q \in RowIds : Entry(q)' = Entry(q)
      BY <2>1, <2>5 DEF Entry
    <3>2. ASSUME SurveyAccepts'
          PROVE  \A r \in RowIds : Entry(r) # Ledger!Blank
      <4>1. Completed' = RowIds
        BY <3>2 DEF SurveyAccepts, ScheduleIsComplete
      <4>2. Completed = RowIds
        BY <2>1, <4>1 DEF Completed
      <4>3. ASSUME NEW r \in RowIds PROVE Entry(r).wavelength # Ledger!Blank.wavelength
        <5>1. rows[r].at \in Capture /\ rows[r].completed
          BY <2>1, <4>2, CompletedRow DEF WriterInv, Completed
        <5>2. Entry(r).wavelength \in 0 .. NW - 1
          BY <2>1, <5>1 DEF Entry, Capture
        <5>3. Ledger!Blank.wavelength = NW
          BY DEF Ledger!Blank
        <5> QED BY <5>2, <5>3, WriterAssumption
      <4> QED BY <4>3
    <3>3. E' = E
      BY <3>1
    <3>4. Ledger!Settle
      BY <2>2, <2>3, <3>2, <3>3 DEF Ledger!Settle
    <3> QED BY <2>3, <3>4 DEF Ledger!LedgerNext
  <2> QED BY <2>1, <2>4, <2>5
<1>5. CASE NewRun \/ UNCHANGED writerVars
  <2>1. UNCHANGED <<file, rows, wlmeta, flags>>
    BY <1>5 DEF NewRun, writerVars, fileVars
  <2> QED BY <2>1 DEF Entry, Verdict, SurveyAccepts, ScheduleIsComplete, Completed
<1> QED BY <1>1, <1>2, <1>3, <1>4, <1>5 DEF WriterNext, Finalize

(* The file of a capture run is a ledger: entries whole, in schedule order, *)
(* never changed, and accepted by the survey builder only when all are in.  *)
THEOREM WriterImplementsLedger == WriterSpec => ImplementsLedger
<1>1. WriterInit => Ledger!LedgerInit
  BY LedgerInitially
<1>2. WriterInv /\ [WriterNext]_writerVars => [Ledger!LedgerNext]_(Ledger!ledgerVars)
  BY LedgerStep
<1> QED BY <1>1, <1>2, WriterInvariance, PTL
        DEF WriterSpec, ImplementsLedger, Ledger!LedgerSpec

-----------------------------------------------------------------------------
(***************************************************************************)
(* The task that calls the writer.                                          *)
(***************************************************************************)

\* The task between the start of a wavelength and its first mask.
Preparing == {"discard", "light", "moving", "ready"}
Looping == {"wavelength"} \cup Preparing \cup {"mask", "settle", "burst", "append"}

\* What the writer is at each point of the task.
TaskHoldsWriter ==
  /\ pc \in {"start", "open"} => writer = "new"
  /\ pc \in (InTry \ {"close"}) \cup {"ready", "appended"} => writer = "open"
  /\ pc \in {"close", "flagged"} => writer = "flagged"
  /\ pc \in {"failed", "closing"} => writer \in {"open", "flagged"}
  /\ pc = "close" => Completed = RowIds /\ flags.succeeded
  /\ pc = "flagged" => ~ flags.succeeded
  /\ pc = "interrupted" => writer = "unwinding"
  /\ pc \in Ended \cup {"finished"} => writer \in {"new", "closed", "dead"}
  /\ pc \in {"finished", "done"} => file = "closed" /\ SurveyAccepts
  /\ pc = "raised" /\ writer # "new" /\ file = "closed" => ~ flags.succeeded

\* "completed" is the last thing a run says, and no later run gets past the path.
CompletedIsLast == disk.completed => writer = "new" \/ pc = "done"

\* The loop variables and the rows the writer has counted.
LoopCounts ==
  /\ pc = "setup" => nWritten = 0
  /\ pc \in {"wavelength"} \cup Preparing => mi = 0
  /\ pc \in Looping => nWritten = Index
  /\ pc = "appended" => nWritten = Index + 1
  /\ pc = "finish" => nWritten = NC

\* The camera parameters the plan asks for at wavelength w.
Parameters(w) == IF plan.profile THEN w ELSE OfPlan

\* What the apparatus is set to at each point of the task.
ApparatusIsSet ==
  /\ pc = "wavelength" /\ ~ plan.profile => setting = OfPlan
  /\ pc \in Preparing \cup {"mask", "settle", "burst", "append", "appended"}
       => setting = Parameters(wi)
  /\ plan.tls /\ pc \in {"ready", "mask", "settle", "burst", "append", "appended"}
       => light = wi
  /\ pc \in {"settle", "burst", "append"} => display = mi

\* While the display settles, the exposures that ended since the mask was shown
\* are of this capture, all but the first.
SettlingFrames ==
  pc \in {"settle", "burst"} =>
    /\ waited > 0 => exposing = Now
    /\ \A p \in 1 .. Len(recent) : p > Len(recent) + 1 - waited => recent[p] = Now
    /\ pc = "burst" => waited = LcdSettle

\* With a settling time that covers the ring, so is the whole burst.
BurstIsNow ==
  LcdSettle > RING /\ pc \in {"burst", "append"} =>
    \A i \in 1 .. Len(burst) : burst[i] = Now

RunInv ==
  /\ RunTypeOK /\ WriterInv /\ TaskHoldsWriter /\ LoopCounts
  /\ ApparatusIsSet /\ SettlingFrames /\ BurstIsNow
  /\ FramesMatchPlan /\ StatusNotAhead /\ CompletedIsAccepted /\ CompletedIsLast

-----------------------------------------------------------------------------
(* The task is a caller of the writer.                                      *)

LEMMA IndexIsARow ==
  ASSUME wi \in 0 .. NW - 1, mi \in 0 .. NM - 1
  PROVE  This \in Capture /\ Index \in RowIds /\ Index \in 0 .. NC - 1
BY ScheduleInRange DEF This, Index, Capture, RowIds

\* The end of the try, and of the except clause.
LEMMA FinalizingLeaves ==
  ASSUME Finalizing
  PROVE  /\ UNCHANGED <<plan, wi, mi, display, light, setting, exposing, recent, unread,
                        waited, burst, taken, disk>>
         /\ pc \in {"finish", "close", "closing", "flagged"}
         /\ pc' \in {"close", "finished", "flagged", "raised"}
         /\ Finalize \/ Die
BY DEF Finalizing, Finish, CloseFinished, FlagError, CloseFailed, FinalizeFails, Finalize,
       Goto, apparatusVars

LEMMA RunStepIsWriterStep ==
  ASSUME RunTypeOK, [RunNext]_runVars
  PROVE  [WriterNext]_writerVars
<1>1. This \in Capture
  BY IndexIsARow DEF RunTypeOK
<1>2. CASE OpenWriter
  BY <1>2 DEF OpenWriter, WriterNext
<1>3. CASE AppendBurst
  <2>1. AppendStep
    BY <1>1, <1>3 DEF AppendBurst, AppendStep
  <2> QED BY <2>1 DEF WriterNext
<1>4. CASE Finalizing
  BY <1>4, FinalizingLeaves DEF WriterNext
<1>5. CASE Stop
  BY <1>5 DEF Stop, WriterNext
<1>6. CASE Again
  BY <1>6 DEF Again, WriterNext
<1>7. CASE Start \/ Refuse \/ Setup \/ ApplyProfile \/ DiscardFrames \/ MoveTLS \/ TLSIdle
  BY <1>7 DEF Start, Refuse, Setup, ApplyProfile, DiscardFrames, Recv, MoveTLS, TLSIdle
<1>8. CASE WavelengthReady \/ ShowMask \/ Settle \/ AcquireBurst \/ Appended \/ Complete
  BY <1>8 DEF WavelengthReady, ShowMask, Settle, AcquireBurst, Recv, Appended, Complete
<1>9. CASE ReportError \/ Raise \/ Expose \/ UNCHANGED runVars
  BY <1>9 DEF ReportError, Raise, Expose, runVars
<1> QED BY <1>2, <1>3, <1>4, <1>5, <1>6, <1>7, <1>8, <1>9 DEF RunNext, TaskStep

-----------------------------------------------------------------------------
(* The frames of the ring.                                                  *)

\* A frame enters the ring, which gives up its oldest when it is full.
LEMMA NewestOfRing ==
  ASSUME NEW S, NEW s \in Seq(S), NEW c \in S, Len(s) <= RING,
         NEW t, t = Newest(Append(s, c))
  PROVE  /\ t \in Seq(S) /\ Len(t) <= RING
         /\ Len(t) = IF Len(s) < RING THEN Len(s) + 1 ELSE RING
         /\ t[Len(t)] = c
<1> DEFINE a == Append(s, c)
<1>1. /\ a \in Seq(S) /\ Len(a) = Len(s) + 1 /\ a[Len(s) + 1] = c
      /\ \A p \in 1 .. Len(s) : a[p] = s[p]
  BY AppendProperties
<1>2. Len(s) \in Nat /\ RING \in Nat \ {0} /\ a # <<>>
  BY <1>1, RunAssumption, EmptySeq
<1> HIDE DEF a
<1>3. CASE Len(s) < RING
  <2>1. t = a
    BY <1>1, <1>2, <1>3 DEF Newest, a
  <2> QED BY <2>1, <1>1, <1>2, <1>3
<1>4. CASE Len(s) = RING
  <2>1. t = Tail(a)
    BY <1>1, <1>2, <1>4 DEF Newest, a
  <2>2. t \in Seq(S) /\ Len(t) = Len(s) /\ \A p \in 1 .. Len(s) : t[p] = a[p + 1]
    BY <2>1, <1>1, <1>2, HeadTailProperties
  <2> QED BY <2>2, <1>1, <1>2, <1>4
<1>5. Len(s) < RING \/ Len(s) = RING
  BY <1>2
<1> QED BY <1>3, <1>4, <1>5

\* The others keep their order.
LEMMA NewestKeepsOrder ==
  ASSUME NEW S, NEW s \in Seq(S), NEW c \in S, Len(s) <= RING,
         NEW t, t = Newest(Append(s, c)), NEW p \in 1 .. Len(t) - 1
  PROVE  t[p] = IF Len(s) < RING THEN s[p] ELSE s[p + 1]
<1> DEFINE a == Append(s, c)
<1>1. /\ a \in Seq(S) /\ Len(a) = Len(s) + 1
      /\ \A i \in 1 .. Len(s) : a[i] = s[i]
  BY AppendProperties
<1>2. Len(s) \in Nat /\ RING \in Nat \ {0} /\ a # <<>>
  BY <1>1, RunAssumption, EmptySeq
<1> HIDE DEF a
<1>3. CASE Len(s) < RING
  <2>1. t = a
    BY <1>1, <1>2, <1>3 DEF Newest, a
  <2> QED BY <2>1, <1>1, <1>2, <1>3
<1>4. CASE Len(s) = RING
  <2>1. t = Tail(a)
    BY <1>1, <1>2, <1>4 DEF Newest, a
  <2>2. Len(t) = Len(s) /\ \A i \in 1 .. Len(s) : t[i] = a[i + 1]
    BY <2>1, <1>1, <1>2, HeadTailProperties
  <2>3. p \in 1 .. Len(s) /\ p + 1 \in 1 .. Len(s)
    BY <1>2, <2>2
  <2> QED BY <2>2, <2>3, <1>1, <1>4
<1> QED BY <1>2, <1>3, <1>4

\* recv_frame returns one of the frames that are newer than the last.
LEMMA ReceivedFrame ==
  ASSUME RunTypeOK, NEW n \in Nat, Recv(n)
  PROVE  /\ unread' \in 0 .. Len(recent)
         /\ \E p \in 1 .. Len(recent) :
              /\ recent[p] \in Condition
              /\ burst' = Append(burst, recent[p])
<1>1. PICK p \in Len(recent) - unread + 1 .. Len(recent) :
        burst' = Append(burst, recent[p]) /\ unread' = Len(recent) - p
  BY DEF Recv
<1>2. recent \in Seq(Condition) /\ Len(recent) \in Nat /\ unread \in 0 .. Len(recent)
  BY DEF RunTypeOK
<1>3. p \in 1 .. Len(recent) /\ unread' \in 0 .. Len(recent)
  BY <1>1, <1>2
<1>4. recent[p] \in Condition
  BY <1>2, <1>3, ElementOfSeq
<1> QED BY <1>1, <1>3, <1>4

\* A packet more: those received before stay.
LEMMA BurstGrows ==
  ASSUME NEW S, NEW s \in Seq(S), NEW c \in S, NEW t, t = Append(s, c)
  PROVE  /\ t \in Seq(S)
         /\ \A i \in 1 .. Len(t) : t[i] = c \/ (i \in 1 .. Len(s) /\ t[i] = s[i])
BY AppendProperties

-----------------------------------------------------------------------------
(* Types.                                                                   *)

Labels == InTry \cup Ended \cup {"start", "open", "ready", "appended", "finished",
                                 "interrupted", "failed", "closing", "flagged"}
Phases == {"none", "starting", "wavelength_ready", "mask_shown", "burst_captured",
           "capture_appended", "completed", "error"}

LEMMA NowIsTyped ==
  Now \in Condition <=> /\ display \in Nothing .. NM - 1 /\ light \in Moving .. NW - 1
                        /\ setting \in Nothing .. OfPlan
BY DEF Now, Condition

LEMMA NowIsTypedNext ==
  Now' \in Condition <=> /\ display' \in Nothing .. NM - 1 /\ light' \in Moving .. NW - 1
                         /\ setting' \in Nothing .. OfPlan
BY DEF Now, Condition

LEMMA MixedIsTyped == Mixed \in Condition
BY WriterAssumption DEF Mixed, Condition, Nothing, Moving, OfPlan

LEMMA UpdateTyped ==
  ASSUME disk \in Progress, NEW phase \in Phases, NEW index \in Nothing .. NC,
         Update(phase, index)
  PROVE  disk' \in Progress
<1> DEFINE new == StateJson(phase, index)
<1>1. disk' = disk \/ disk' = new
  BY DEF Update
<1>2. new = [phase |-> phase, index |-> index, completed |-> phase = "completed",
             error |-> phase = "error"]
  BY DEF StateJson
<1>3. (phase = "completed") \in BOOLEAN /\ (phase = "error") \in BOOLEAN
  OBVIOUS
<1> HIDE DEF new
<1>4. new \in Progress
  BY <1>2, <1>3 DEF Progress, Phases
<1> QED BY <1>1, <1>4

LEMMA InitRunType == RunInit => RunTypeOK
<1> SUFFICES ASSUME RunInit PROVE RunTypeOK
  OBVIOUS
<1> USE DEF RunInit
<1>1. WriterTypeOK
  BY InitWriterInv DEF WriterInv
<1>2. Now \in Condition /\ wi \in 0 .. NW - 1 /\ mi \in 0 .. NM - 1
  BY WriterAssumption, NowIsTyped DEF Nothing, Moving, OfPlan
<1>3. recent \in Seq(Condition) /\ Len(recent) = 0 /\ burst \in Seq(Condition)
  BY EmptySeq
<1>4. waited \in 0 .. LcdSettle /\ unread \in 0 .. Len(recent) /\ Len(recent) <= RING
  BY <1>3, RunAssumption
<1>5. disk \in Progress
  BY NCType DEF NoProgress, Progress, Nothing
<1> QED BY <1>1, <1>2, <1>3, <1>4, <1>5, MixedIsTyped DEF RunTypeOK
\* What the camera and the task leave alone when they do not move anything.
LEMMA RunTypeKept ==
  ASSUME RunTypeOK, WriterTypeOK', [RunNext]_runVars
  PROVE  RunTypeOK'
<1> USE DEF Goto, apparatusVars, InTry, Ended
<1>1. /\ Index \in 0 .. NC - 1 /\ NC \in Nat \ {0} /\ NW \in Nat \ {0} /\ NM \in Nat \ {0}
      /\ LcdSettle \in Nat /\ RING \in Nat \ {0}
  BY IndexIsARow, NCType, WriterAssumption, RunAssumption DEF RunTypeOK
<1>2. /\ display \in Nothing .. NM - 1 /\ light \in Moving .. NW - 1
      /\ setting \in Nothing .. OfPlan
      /\ wi \in 0 .. NW - 1 /\ mi \in 0 .. NM - 1 /\ disk \in Progress
      /\ burst \in Seq(Condition) /\ recent \in Seq(Condition) /\ exposing \in Condition
  BY NowIsTyped DEF RunTypeOK
<1>3. Now' \in Condition
  <2>1. /\ display' \in Nothing .. NM - 1 /\ light' \in Moving .. NW - 1
        /\ setting' \in Nothing .. OfPlan
    <3> USE <1>1, <1>2 DEF Nothing, Moving, OfPlan
    <3>1. CASE Setup \/ ApplyProfile \/ MoveTLS \/ TLSIdle \/ ShowMask \/ Again
      BY <3>1 DEF Setup, ApplyProfile, MoveTLS, TLSIdle, ShowMask, Again
    <3>2. CASE Start \/ Refuse \/ OpenWriter \/ DiscardFrames \/ WavelengthReady \/ Settle
      BY <3>2 DEF Start, Refuse, OpenWriter, DiscardFrames, Recv, WavelengthReady, Settle
    <3>3. CASE AcquireBurst \/ AppendBurst \/ Appended \/ Finish \/ Complete
      BY <3>3 DEF AcquireBurst, Recv, AppendBurst, Appended, Finish, Complete
    <3>4. CASE ReportError \/ Finalizing \/ Expose \/ Raise \/ Stop \/ UNCHANGED runVars
      BY <3>4, FinalizingLeaves DEF ReportError, Expose, Raise, Stop, runVars
    <3> QED BY <3>1, <3>2, <3>3, <3>4 DEF RunNext, TaskStep
  <2> QED BY <2>1, NowIsTypedNext
<1>4. pc' \in Labels /\ plan' = plan
  <2> USE DEF RunTypeOK, Labels
  <2>1. CASE Start \/ Refuse \/ OpenWriter \/ Setup \/ ApplyProfile \/ DiscardFrames
    BY <2>1 DEF Start, Refuse, OpenWriter, Setup, ApplyProfile, DiscardFrames, Recv
  <2>2. CASE MoveTLS \/ TLSIdle \/ WavelengthReady \/ ShowMask \/ Settle \/ AcquireBurst
    BY <2>2 DEF MoveTLS, TLSIdle, WavelengthReady, ShowMask, Settle, AcquireBurst, Recv
  <2>3. CASE AppendBurst \/ Appended \/ Complete \/ ReportError \/ Finalizing
    BY <2>3, FinalizingLeaves DEF AppendBurst, Appended, Complete, ReportError
  <2>4. CASE Expose \/ Raise \/ Stop \/ Again \/ UNCHANGED runVars
    BY <2>4 DEF Expose, Raise, Stop, Again, runVars
  <2> QED BY <2>1, <2>2, <2>3, <2>4 DEF RunNext, TaskStep
<1>5. wi' \in 0 .. NW - 1 /\ mi' \in 0 .. NM - 1
  <2> USE <1>1, <1>2
  <2>1. CASE Start \/ Refuse \/ OpenWriter \/ Setup \/ ApplyProfile \/ DiscardFrames
    BY <2>1 DEF Start, Refuse, OpenWriter, Setup, ApplyProfile, DiscardFrames, Recv
  <2>2. CASE MoveTLS \/ TLSIdle \/ WavelengthReady \/ ShowMask \/ Settle \/ AcquireBurst
    BY <2>2 DEF MoveTLS, TLSIdle, WavelengthReady, ShowMask, Settle, AcquireBurst, Recv
  <2>3. CASE Appended
    <3>1. CASE mi + 1 < NM
      BY <2>3, <3>1 DEF Appended
    <3>2. CASE ~ (mi + 1 < NM)
      BY <2>3, <3>2 DEF Appended
    <3> QED BY <3>1, <3>2
  <2>4. CASE AppendBurst \/ Complete \/ ReportError \/ Finalizing
    BY <2>4, FinalizingLeaves DEF AppendBurst, Complete, ReportError
  <2>5. CASE Expose \/ Raise \/ Stop \/ Again \/ UNCHANGED runVars
    BY <2>5 DEF Expose, Raise, Stop, Again, runVars
  <2> QED BY <2>1, <2>2, <2>3, <2>4, <2>5 DEF RunNext, TaskStep
<1>6. /\ recent' \in Seq(Condition) /\ Len(recent') <= RING
      /\ unread' \in 0 .. Len(recent') /\ waited' \in 0 .. LcdSettle
      /\ exposing' \in Condition
  <2>0. /\ Len(recent) \in Nat /\ Len(recent) <= RING /\ waited \in 0 .. LcdSettle
        /\ unread \in 0 .. Len(recent)
    BY <1>2 DEF RunTypeOK
  <2> USE <1>1, <1>2, <2>0, MixedIsTyped
  <2>1. CASE Expose
    <3>1. /\ recent' \in Seq(Condition) /\ Len(recent') <= RING
          /\ Len(recent') = IF Len(recent) < RING THEN Len(recent) + 1 ELSE RING
      <4>1. recent' = Newest(Append(recent, exposing))
        BY <2>1 DEF Expose
      <4> QED BY ONLY <1>2, <2>0, <4>1, NewestOfRing
    <3>2. exposing' \in Condition
      BY <2>1 DEF Expose, RunTypeOK
    <3>3. unread' \in 0 .. Len(recent')
      BY <2>1, <3>1 DEF Expose
    <3>4. waited' \in 0 .. LcdSettle
      BY <2>1 DEF Expose
    <3> QED BY <3>1, <3>2, <3>3, <3>4
  <2>2. CASE DiscardFrames \/ AcquireBurst
    BY <2>2, ReceivedFrame, RunAssumption DEF DiscardFrames, AcquireBurst, Recv
  <2>3. CASE Again
    BY <2>3, EmptySeq DEF Again
  <2>4. CASE Start \/ Refuse \/ OpenWriter \/ Setup \/ ApplyProfile \/ MoveTLS \/ TLSIdle
    BY <2>4 DEF Start, Refuse, OpenWriter, Setup, ApplyProfile, MoveTLS, TLSIdle
  <2>5. CASE WavelengthReady \/ ShowMask \/ Settle \/ AppendBurst \/ Appended
    BY <2>5 DEF WavelengthReady, ShowMask, Settle, AppendBurst, Appended
  <2>6. CASE Complete \/ ReportError \/ Finalizing \/ Raise \/ Stop \/ UNCHANGED runVars
    BY <2>6, FinalizingLeaves DEF Complete, ReportError, Raise, Stop, runVars
  <2> QED BY <2>1, <2>2, <2>3, <2>4, <2>5, <2>6 DEF RunNext, TaskStep
<1>7. burst' \in Seq(Condition)
  <2> USE <1>2
  <2>1. CASE DiscardFrames \/ AcquireBurst
    BY <2>1, ReceivedFrame, RunAssumption, BurstGrows DEF DiscardFrames, AcquireBurst
  <2>2. CASE ApplyProfile \/ Settle \/ Again
    BY <2>2, EmptySeq DEF ApplyProfile, Settle, Again
  <2>3. CASE Start \/ Refuse \/ OpenWriter \/ Setup \/ MoveTLS \/ TLSIdle
    BY <2>3 DEF Start, Refuse, OpenWriter, Setup, MoveTLS, TLSIdle
  <2>4. CASE WavelengthReady \/ ShowMask \/ AppendBurst \/ Appended \/ Expose
    BY <2>4 DEF WavelengthReady, ShowMask, AppendBurst, Appended, Expose
  <2>5. CASE Complete \/ ReportError \/ Finalizing \/ Raise \/ Stop \/ UNCHANGED runVars
    BY <2>5, FinalizingLeaves DEF Complete, ReportError, Raise, Stop, runVars
  <2> QED BY <2>1, <2>2, <2>3, <2>4, <2>5 DEF RunNext, TaskStep
<1>8. taken' \in [RowIds -> SUBSET Condition]
  <2>1. Frames \in SUBSET Condition
    BY <1>2, ElementOfSeq DEF Frames
  <2>2. taken \in [RowIds -> SUBSET Condition]
    BY DEF RunTypeOK
  <2>3. CASE AppendBurst
    BY <2>1, <2>2, <2>3 DEF AppendBurst
  <2>4. CASE Start \/ Refuse \/ OpenWriter \/ Setup \/ ApplyProfile \/ DiscardFrames
    BY <2>2, <2>4 DEF Start, Refuse, OpenWriter, Setup, ApplyProfile, DiscardFrames, Recv
  <2>5. CASE MoveTLS \/ TLSIdle \/ WavelengthReady \/ ShowMask \/ Settle \/ AcquireBurst
    BY <2>2, <2>5 DEF MoveTLS, TLSIdle, WavelengthReady, ShowMask, Settle, AcquireBurst, Recv
  <2>6. CASE Appended \/ Complete \/ ReportError \/ Finalizing
    BY <2>2, <2>6, FinalizingLeaves DEF Appended, Complete, ReportError
  <2>7. CASE Expose \/ Raise \/ Stop \/ Again \/ UNCHANGED runVars
    BY <2>2, <2>7 DEF Expose, Raise, Stop, Again, runVars
  <2> QED BY <2>3, <2>4, <2>5, <2>6, <2>7 DEF RunNext, TaskStep
<1>9. disk' \in Progress
  <2> USE <1>1, <1>2 DEF Nothing, Phases
  <2>1. CASE Start \/ WavelengthReady \/ ShowMask
    BY <2>1, UpdateTyped DEF Start, WavelengthReady, ShowMask
  <2>2. CASE AcquireBurst
    BY <2>2, UpdateTyped DEF AcquireBurst, Recv
  <2>3. CASE Appended \/ Complete \/ ReportError
    BY <2>3, UpdateTyped DEF Appended, NextIndex, Complete, ReportError
  <2>4. CASE Refuse \/ OpenWriter \/ Setup \/ ApplyProfile \/ DiscardFrames \/ MoveTLS \/ TLSIdle
    BY <2>4 DEF Refuse, OpenWriter, Setup, ApplyProfile, DiscardFrames, Recv, MoveTLS, TLSIdle
  <2>5. CASE Settle \/ AppendBurst \/ Finalizing
    BY <2>5, FinalizingLeaves DEF Settle, AppendBurst
  <2>6. CASE Expose \/ Raise \/ Stop \/ Again \/ UNCHANGED runVars
    BY <2>6 DEF Expose, Raise, Stop, Again, runVars
  <2> QED BY <2>1, <2>2, <2>3, <2>4, <2>5, <2>6 DEF RunNext, TaskStep
<1> QED
  <2>1. plan' \in [tls : BOOLEAN, profile : BOOLEAN]
    BY <1>4 DEF RunTypeOK
  <2> QED BY <1>3, <1>4, <1>5, <1>6, <1>7, <1>8, <1>9, <2>1 DEF RunTypeOK, Labels

-----------------------------------------------------------------------------
(* The writer at each point of the task.                                    *)

\* Nothing changes a file that its writer has left.
LEMMA ClosedIsFinal ==
  ASSUME WriterInv, file = "closed", [WriterNext]_writerVars
  PROVE  UNCHANGED fileVars
<1>1. writer \notin {"open", "unwinding", "flagged"}
  BY DEF WriterInv, RowsAreCounted
<1>2. UNCHANGED writerVars \/ NewRun
  BY <1>1 DEF WriterNext, Open, OpenFile, AppendStep, AppendCapture, AppendInterrupted,
              AppendFails, MayAppend, Finalize, WriteFlags, CloseFile, Die
<1> QED BY <1>2 DEF writerVars, NewRun

LEMMA AcceptedStays ==
  ASSUME WriterInv, file = "closed", SurveyAccepts, [WriterNext]_writerVars
  PROVE  file' = "closed" /\ SurveyAccepts'
<1>1. UNCHANGED fileVars
  BY ClosedIsFinal
<1> QED BY <1>1 DEF fileVars, SurveyAccepts, ScheduleIsComplete, Completed

\* A run that comes to its end without an error leaves a file that is accepted.
LEMMA FinishAccepts ==
  ASSUME WriterInv, writer = "flagged", Completed = RowIds, flags.succeeded, CloseFile
  PROVE  file' = "closed" /\ SurveyAccepts'
<1>1. file = "open"
  BY DEF WriterInv, RowsAreCounted
<1>2. ScheduleIsComplete
  BY <1>1, CompleteIsAllRows DEF WriterInv
<1>3. flags.complete
  <2>1. Completed = 0 .. NC - 1
    BY DEF RowIds
  <2>2. Cardinality(Completed) = NC
    BY <1>1, <2>1, NCType, FlagsOfPrefix DEF WriterInv
  <2> QED BY <2>2 DEF WriterInv, FlagsTruthful
<1>4. ScheduleIsComplete'
  BY <1>2 DEF CloseFile, ScheduleIsComplete, Completed
<1> QED BY <1>3, <1>4 DEF SurveyAccepts, CloseFile

LEMMA TaskHoldsWriterKept ==
  ASSUME RunTypeOK, WriterInv, TaskHoldsWriter, LoopCounts, [RunNext]_runVars
  PROVE  TaskHoldsWriter'
<1> USE DEF TaskHoldsWriter, Goto, InTry, Ended
<1>0. file = "closed" /\ SurveyAccepts => file' = "closed" /\ SurveyAccepts'
  BY AcceptedStays, RunStepIsWriterStep
<1>1. CASE Start \/ Refuse \/ Setup \/ ApplyProfile \/ DiscardFrames \/ MoveTLS \/ TLSIdle
  BY <1>1 DEF Start, Refuse, Setup, ApplyProfile, DiscardFrames, Recv, MoveTLS, TLSIdle,
              writerVars, fileVars, memoryVars
<1>2. CASE WavelengthReady \/ ShowMask \/ Settle \/ AcquireBurst
  BY <1>2 DEF WavelengthReady, ShowMask, Settle, AcquireBurst, Recv,
              writerVars, fileVars, memoryVars
<1>3. CASE Appended \/ ReportError \/ Raise
  BY <1>3 DEF Appended, ReportError, Raise, writerVars, fileVars, memoryVars
<1>4. CASE OpenWriter
  BY <1>4 DEF OpenWriter, Open
<1>5. CASE AppendBurst
  BY <1>5 DEF AppendBurst, AppendCapture, AppendInterrupted, AppendFails, memoryVars
<1>6. CASE Finish
  <2>1. Completed = RowIds
    BY <1>6 DEF Finish, LoopCounts, WriterInv, RowsAreCounted, RowIds
  <2>2. Completed' = Completed /\ flags'.succeeded /\ writer' = "flagged" /\ pc' = "close"
    BY <1>6 DEF Finish, WriteFlags, FinalFlags, Completed
  <2> QED BY <2>1, <2>2
<1>7. CASE CloseFinished
  <2>1. file' = "closed" /\ SurveyAccepts'
    BY <1>7, FinishAccepts DEF CloseFinished
  <2>2. pc' = "finished" /\ writer' = "closed"
    BY <1>7 DEF CloseFinished, CloseFile
  <2> QED BY <2>1, <2>2
<1>8. CASE FlagError
  <2>1. ~ flags'.succeeded /\ writer' = "flagged" /\ pc' = "flagged"
    BY <1>8 DEF FlagError, WriteFlags, FinalFlags
  <2> QED BY <2>1
<1>11. CASE CloseFailed
  BY <1>11 DEF CloseFailed, CloseFile
<1>12. CASE FinalizeFails
  BY <1>12 DEF FinalizeFails, Die
<1>13. CASE Complete
  BY <1>0, <1>13 DEF Complete, writerVars, memoryVars
<1>14. CASE Expose \/ UNCHANGED runVars
  <2>1. UNCHANGED <<writerVars, pc>>
    BY <1>14 DEF Expose, runVars
  <2>2. Completed' = Completed
    BY <2>1 DEF writerVars, fileVars, Completed
  <2> QED BY <1>0, <2>1, <2>2 DEF writerVars, fileVars, memoryVars
<1>9. CASE Stop
  BY <1>9 DEF Stop, Die, WriterInv, WriterTypeOK, writerVars, memoryVars
<1>10. CASE Again
  BY <1>10 DEF Again, NewRun
<1> QED BY <1>1, <1>2, <1>3, <1>4, <1>5, <1>6, <1>7, <1>8, <1>9, <1>10, <1>11, <1>12, <1>13,
           <1>14 DEF RunNext, TaskStep, Finalizing

-----------------------------------------------------------------------------
(* The loop variables.                                                      *)

\* The last mask of a wavelength, and of the last wavelength.
LEMMA EndOfLoops ==
  ASSUME NEW w \in 0 .. NW - 1, NEW m \in 0 .. NM - 1, ~ (m + 1 < NM)
  PROVE  /\ w * NM + m + 1 = (w + 1) * NM + 0
         /\ ~ (w + 1 < NW) => w * NM + m + 1 = NC
<1>1. m = NM - 1 /\ NM \in Nat \ {0} /\ NW \in Nat \ {0}
  BY WriterAssumption
<1>2. (w + 1) * NM = w * NM + NM /\ w * NM \in Nat
  BY <1>1, ProductStep
<1>3. ~ (w + 1 < NW) => w + 1 = NW
  BY <1>1
<1> QED BY <1>1, <1>2, <1>3 DEF NC

LEMMA LoopCountsKept ==
  ASSUME RunTypeOK, WriterInv, TaskHoldsWriter, LoopCounts, [RunNext]_runVars
  PROVE  LoopCounts'
<1> USE DEF LoopCounts, Goto, InTry, Ended, Looping, Preparing, Index
<1>0. wi \in 0 .. NW - 1 /\ mi \in 0 .. NM - 1 /\ nWritten \in 0 .. NC
  BY DEF RunTypeOK, WriterInv, WriterTypeOK
<1>1. CASE Start \/ Refuse \/ ApplyProfile \/ DiscardFrames \/ MoveTLS \/ TLSIdle
  BY <1>1 DEF Start, Refuse, ApplyProfile, DiscardFrames, Recv, MoveTLS, TLSIdle,
              writerVars, memoryVars
<1>2. CASE WavelengthReady \/ ShowMask \/ Settle \/ AcquireBurst
  BY <1>2 DEF WavelengthReady, ShowMask, Settle, AcquireBurst, Recv, writerVars, memoryVars
<1>3. CASE ReportError \/ Raise \/ Expose \/ Complete \/ UNCHANGED runVars
  BY <1>3 DEF ReportError, Raise, Expose, Complete, runVars, writerVars, memoryVars
<1>4. CASE OpenWriter
  BY <1>4 DEF OpenWriter, Open, TaskHoldsWriter, WriterInv, RowsAreCounted
<1>5. CASE Setup
  <2>1. 0 * NM + 0 = 0
    BY WriterAssumption
  <2> QED BY <1>5, <2>1 DEF Setup, writerVars, memoryVars
<1>6. CASE AppendBurst
  BY <1>6 DEF AppendBurst, AppendCapture
<1>7. CASE Appended
  <2>1. nWritten' = nWritten /\ nWritten = wi * NM + mi + 1 /\ wi * NM \in Nat
    BY <1>0, <1>7, WriterAssumption DEF Appended, writerVars, memoryVars
  <2>2. CASE mi + 1 < NM
    BY <1>0, <1>7, <2>1, <2>2 DEF Appended
  <2>3. CASE ~ (mi + 1 < NM)
    <3>1. nWritten = (wi + 1) * NM + 0 /\ (~ (wi + 1 < NW) => nWritten = NC)
      BY <1>0, <2>1, <2>3, EndOfLoops
    <3> QED BY <1>7, <2>1, <2>3, <3>1 DEF Appended
  <2> QED BY <2>2, <2>3
<1>8. CASE Finalizing \/ Stop \/ Again
  BY <1>8, FinalizingLeaves DEF Stop, Again
<1> QED BY <1>1, <1>2, <1>3, <1>4, <1>5, <1>6, <1>7, <1>8 DEF RunNext, TaskStep

-----------------------------------------------------------------------------
(* The apparatus.                                                           *)

LEMMA ApparatusIsSetKept ==
  ASSUME RunTypeOK, ApparatusIsSet, [RunNext]_runVars
  PROVE  ApparatusIsSet'
<1> USE DEF ApparatusIsSet, Goto, InTry, Ended, Preparing, Parameters, OfPlan, apparatusVars
<1>1. CASE Start \/ Refuse \/ OpenWriter \/ Setup \/ DiscardFrames \/ MoveTLS \/ TLSIdle
  BY <1>1 DEF Start, Refuse, OpenWriter, Setup, DiscardFrames, Recv, MoveTLS, TLSIdle
<1>2. CASE ApplyProfile
  BY <1>2 DEF ApplyProfile
<1>3. CASE WavelengthReady \/ ShowMask \/ Settle \/ AcquireBurst
  BY <1>3 DEF WavelengthReady, ShowMask, Settle, AcquireBurst, Recv
<1>4. CASE AppendBurst
  BY <1>4 DEF AppendBurst
<1>5. CASE Appended
  BY <1>5 DEF Appended
<1>6. CASE ReportError \/ Raise \/ Expose \/ Complete \/ UNCHANGED runVars
  BY <1>6 DEF ReportError, Raise, Expose, Complete, runVars
<1>7. CASE Finalizing \/ Stop \/ Again
  BY <1>7, FinalizingLeaves DEF Stop, Again
<1> QED BY <1>1, <1>2, <1>3, <1>4, <1>5, <1>6, <1>7 DEF RunNext, TaskStep

-----------------------------------------------------------------------------
(* The frames of the ring while the display settles.                        *)

\* What the apparatus is set to does not change from the mask to the row.
LEMMA NowStays ==
  ASSUME [RunNext]_runVars,
         pc \in {"settle", "burst", "append"}, pc' \in {"settle", "burst", "append"}
  PROVE  /\ UNCHANGED <<display, light, setting, wi, mi>> /\ Now' = Now
         /\ Expose \/ Settle \/ AcquireBurst \/ UNCHANGED runVars
<1> USE DEF Goto, InTry, Ended, apparatusVars
<1>1. Expose \/ Settle \/ AcquireBurst \/ UNCHANGED runVars
  BY FinalizingLeaves
     DEF RunNext, TaskStep, Start, Refuse, OpenWriter, Setup, ApplyProfile, DiscardFrames,
         MoveTLS, TLSIdle, WavelengthReady, ShowMask, AppendBurst, Appended,
         Complete, ReportError, Raise, Stop, Again
<1>2. UNCHANGED <<display, light, setting, wi, mi>>
  BY <1>1 DEF Expose, Settle, AcquireBurst, Recv, runVars
<1> QED BY <1>1, <1>2 DEF Now

\* Those labels are reached from one another, but for the showing of the mask.
LEMMA SettlingIsEntered ==
  ASSUME [RunNext]_runVars, pc' \in {"settle", "burst", "append"},
         pc \notin {"settle", "burst", "append"}
  PROVE  ShowMask
<1> USE DEF Goto, InTry, Ended
<1>1. CASE Start \/ Refuse \/ OpenWriter \/ Setup \/ ApplyProfile \/ DiscardFrames \/ MoveTLS
  BY <1>1 DEF Start, Refuse, OpenWriter, Setup, ApplyProfile, DiscardFrames, Recv, MoveTLS
<1>2. CASE TLSIdle \/ WavelengthReady \/ ShowMask \/ Settle \/ AcquireBurst \/ AppendBurst
  BY <1>2 DEF TLSIdle, WavelengthReady, Settle, AcquireBurst, AppendBurst
<1>3. CASE Appended \/ Complete \/ ReportError \/ Finalizing
  BY <1>3, FinalizingLeaves DEF Appended, Complete, ReportError
<1>4. CASE Raise \/ Stop \/ Again \/ Expose \/ UNCHANGED runVars
  BY <1>4 DEF Raise, Stop, Again, Expose, runVars
<1> QED BY <1>1, <1>2, <1>3, <1>4 DEF RunNext, TaskStep

\* An exposure more: the frame that was at q in the ring is now at p.
LEMMA ShiftedPlace ==
  ASSUME NEW p \in Int, NEW q \in Int, NEW n \in Int, NEW m \in Int,
         NEW v \in Int, NEW w \in Int,
         q = p + n + 1 - m, p > m + 1 - v, v <= w + 1
  PROVE  q > n + 1 - w
OBVIOUS

LEMMA SettlingFramesKept ==
  ASSUME RunTypeOK, SettlingFrames, [RunNext]_runVars
  PROVE  SettlingFrames'
<1> SUFFICES ASSUME pc' \in {"settle", "burst"} PROVE SettlingFrames'
  BY DEF SettlingFrames
<1>0. /\ recent \in Seq(Condition) /\ Len(recent) \in Nat /\ Len(recent) <= RING
      /\ exposing \in Condition /\ waited \in 0 .. LcdSettle /\ waited \in Nat
      /\ LcdSettle \in Nat /\ RING \in Nat \ {0}
  BY RunAssumption DEF RunTypeOK
<1>1. CASE ShowMask
  <2>1. waited' = 0 /\ recent' = recent /\ pc' = "settle"
    BY <1>1 DEF ShowMask, Goto
  <2> QED BY <1>0, <2>1 DEF SettlingFrames
<1>2. CASE ~ ShowMask
  <2>1. pc \in {"settle", "burst", "append"}
    BY <1>2, SettlingIsEntered
  <2>2. Now' = Now /\ (Expose \/ Settle \/ AcquireBurst \/ UNCHANGED runVars)
    BY <2>1, NowStays
  <2>3. CASE Settle
    BY <2>2, <2>3 DEF Settle, Settled, SettlingFrames, apparatusVars, Goto
  <2>4. CASE AcquireBurst \/ UNCHANGED runVars
    BY <2>2, <2>4 DEF AcquireBurst, Recv, runVars, SettlingFrames, apparatusVars, Goto
  <2>5. CASE Expose
    <3>1. /\ recent' = Newest(Append(recent, exposing)) /\ exposing' = Now /\ pc' = pc
          /\ waited' = IF waited < LcdSettle THEN waited + 1 ELSE waited
      BY <2>5 DEF Expose
    <3>2. /\ Len(recent') <= RING /\ Len(recent') \in Nat /\ recent'[Len(recent')] = exposing
          /\ Len(recent') = IF Len(recent) < RING THEN Len(recent) + 1 ELSE RING
          /\ \A p \in 1 .. Len(recent') - 1 :
               recent'[p] = IF Len(recent) < RING THEN recent[p] ELSE recent[p + 1]
      <4>1. PICK t : t = recent'
        OBVIOUS
      <4>2. t = Newest(Append(recent, exposing))
        BY <3>1, <4>1
      <4>3. t \in Seq(Condition) /\ Len(t) <= RING /\ t[Len(t)] = exposing
        BY ONLY <1>0, <4>2, NewestOfRing
      <4>4. Len(t) = IF Len(recent) < RING THEN Len(recent) + 1 ELSE RING
        BY ONLY <1>0, <4>2, NewestOfRing
      <4>5. ASSUME NEW p \in 1 .. Len(t) - 1
            PROVE  t[p] = IF Len(recent) < RING THEN recent[p] ELSE recent[p + 1]
        BY <1>0, <4>2, NewestKeepsOrder
      <4>6. Len(t) \in Nat
        BY <4>3
      <4> QED BY ONLY <4>1, <4>3, <4>4, <4>5, <4>6
    <3>3. /\ waited > 0 => exposing = Now
          /\ \A p \in 1 .. Len(recent) : p > Len(recent) + 1 - waited => recent[p] = Now
          /\ pc = "burst" => waited = LcdSettle
      BY <3>1 DEF SettlingFrames
    <3>4. waited' \in Nat /\ waited' <= waited + 1
      BY <1>0, <3>1
    <3>5. ASSUME NEW p \in 1 .. Len(recent'), p > Len(recent') + 1 - waited'
          PROVE  recent'[p] = Now'
      <4>1. CASE p = Len(recent')
        <5>1. waited > 0
          BY <1>0, <3>2, <3>5, <3>4, <4>1
        <5> QED BY <2>2, <3>2, <3>3, <4>1, <5>1
      <4>2. CASE p # Len(recent')
        <5>1. PICK q \in 1 .. Len(recent) : q = p + Len(recent) + 1 - Len(recent')
                                            /\ recent'[p] = recent[q]
          <6>1. CASE Len(recent) < RING
            BY <1>0, <3>2, <4>2, <6>1
          <6>2. CASE Len(recent) = RING
            BY <1>0, <3>2, <4>2, <6>2
          <6> QED BY <1>0, <6>1, <6>2
        <5>2. q > Len(recent) + 1 - waited
          <6>1. p \in Nat /\ q = p + Len(recent) + 1 - Len(recent') /\ p > Len(recent') + 1 - waited'
            BY <3>5, <5>1
          <6>2. /\ p \in Int /\ q \in Int /\ Len(recent) \in Int /\ Len(recent') \in Int
                /\ waited \in Int /\ waited' \in Int /\ waited' <= waited + 1
            BY <1>0, <3>2, <3>4, <5>1
          <6> QED BY ONLY <6>1, <6>2, ShiftedPlace
        <5> QED BY <2>2, <3>3, <5>1, <5>2
      <4> QED BY <4>1, <4>2
    <3>6. pc' = "burst" => waited' = LcdSettle
      BY <1>0, <3>1, <3>3
    <3> QED BY <2>2, <3>1, <3>5, <3>6 DEF SettlingFrames
  <2> QED BY <2>2, <2>3, <2>4, <2>5
<1> QED BY <1>1, <1>2

LEMMA BurstIsNowKept ==
  ASSUME RunTypeOK, SettlingFrames, BurstIsNow, [RunNext]_runVars
  PROVE  BurstIsNow'
<1> SUFFICES ASSUME LcdSettle > RING, pc' \in {"burst", "append"}
             PROVE  \A i \in 1 .. Len(burst') : burst'[i] = Now'
  BY DEF BurstIsNow
<1>1. pc \in {"settle", "burst", "append"}
  BY SettlingIsEntered DEF ShowMask, Goto
<1>2. Now' = Now /\ (Expose \/ Settle \/ AcquireBurst \/ UNCHANGED runVars)
  BY <1>1, NowStays
<1>3. CASE Settle
  <2>1. burst' = <<>> /\ Len(burst') = 0
    BY <1>3, EmptySeq DEF Settle
  <2> QED BY <2>1
<1>4. CASE Expose \/ UNCHANGED runVars
  BY <1>2, <1>4 DEF Expose, runVars, BurstIsNow
<1>5. CASE AcquireBurst
  <2>1. pc = "burst" /\ \A i \in 1 .. Len(burst) : burst[i] = Now
    BY <1>5 DEF AcquireBurst, BurstIsNow
  <2>2. CASE UNCHANGED burst
    BY <1>2, <2>1, <2>2
  <2>3. CASE Recv(K)
    <3>1. PICK p \in 1 .. Len(recent) :
            recent[p] \in Condition /\ burst' = Append(burst, recent[p])
      BY <2>3, ReceivedFrame, RunAssumption
    <3>2. waited = LcdSettle /\ Len(recent) <= RING /\ Len(recent) \in Nat
      BY <2>1 DEF SettlingFrames, RunTypeOK
    <3>3. recent[p] = Now
      BY <2>1, <3>2, RunAssumption DEF SettlingFrames
    <3>4. \A i \in 1 .. Len(burst') :
            burst'[i] = recent[p] \/ (i \in 1 .. Len(burst) /\ burst'[i] = burst[i])
      BY <3>1, BurstGrows DEF RunTypeOK
    <3> QED BY <1>2, <2>1, <3>3, <3>4
  <2> QED BY <1>5, <2>2, <2>3 DEF AcquireBurst
<1> QED BY <1>2, <1>3, <1>4, <1>5

-----------------------------------------------------------------------------
(* The rows and what was stored in them.                                    *)

\* A call of append_capture that raises completes no row and touches none that is.
LEMMA FailureKeepsRows ==
  ASSUME WriterInv, NEW c \in Capture, NEW s \in Shapes, NEW x \in Metas,
         NEW k \in 0 .. Parts, AppendFails(c, s, x, k)
  PROVE  /\ Completed' = Completed
         /\ \A r \in Completed : rows'[r] = rows[r]
<1>1. writer = "open" /\ Completed = 0 .. nWritten - 1 /\ nWritten \in RowIds
  BY NCType DEF AppendFails, MayAppend, WriterInv, RowsAreCounted, WriterTypeOK, RowIds
<1>2. /\ \A q \in RowIds : q # nWritten => rows'[q] = rows[q]
      /\ rows'[nWritten] = Written(rows[nWritten], c, calls + 1, k)
  BY <1>1 DEF AppendFails, WriterInv, WriterTypeOK
<1>3. ~ (k > Parts)
  BY DEF Parts
<1>4. rows'[nWritten].completed = rows[nWritten].completed
  BY <1>2, <1>3 DEF Written
<1>5. nWritten \notin Completed
  BY <1>1 DEF RowIds
<1> QED BY <1>2, <1>4, <1>5 DEF Completed

\* Whatever is not a commit leaves the completed rows of a file that is kept.
LEMMA RowsKept ==
  ASSUME WriterInv, file' # "abandoned",
         \/ Open \/ NewRun \/ UNCHANGED writerVars \/ Die
         \/ Finalize
         \/ \E c \in Capture, s \in Shapes, x \in Metas :
              \E k \in 0 .. Parts : AppendFails(c, s, x, k)
  PROVE  /\ file # "abandoned" /\ Completed' = Completed
         /\ \A r \in Completed : rows'[r] = rows[r]
<1>1. CASE Open
  <2>1. file = "absent" /\ Completed = {}
    BY <1>1 DEF Open, OpenFile, WriterInv, RowsAreCounted
  <2>2. Completed' = {}
    BY <1>1 DEF Open, Completed, FreshRow
  <2> QED BY <2>1, <2>2
<1>2. CASE NewRun \/ UNCHANGED writerVars
  BY <1>2 DEF NewRun, writerVars, fileVars, Completed
<1>3. CASE Die
  BY <1>3 DEF Die
<1>4. CASE Finalize
  BY <1>4 DEF Finalize, WriteFlags, CloseFile, Completed, WriterInv, RowsAreCounted
<1>5. CASE \E c \in Capture, s \in Shapes, x \in Metas :
             \E k \in 0 .. Parts : AppendFails(c, s, x, k)
  <2>1. file # "abandoned"
    BY <1>5 DEF AppendFails, MayAppend, WriterInv, RowsAreCounted
  <2> QED BY <1>5, <2>1, FailureKeepsRows
<1> QED BY <1>1, <1>2, <1>3, <1>4, <1>5

\* A step of the run commits the row of its burst, or none.
LEMMA RunStepRows ==
  ASSUME RunTypeOK, WriterInv, [RunNext]_runVars
  PROVE  \/ /\ pc = "append" /\ writer = "open"
            /\ taken' = [taken EXCEPT ![Index] = Frames]
            /\ \E s \in Shapes, x \in Metas :
                 AppendCapture(This, s, x) \/ AppendInterrupted(This, s, x)
         \/ /\ taken' = taken
            /\ \/ Open \/ NewRun \/ UNCHANGED writerVars \/ Die
               \/ Finalize
               \/ \E c \in Capture, s \in Shapes, x \in Metas :
                    \E k \in 0 .. Parts : AppendFails(c, s, x, k)
<1>1. This \in Capture
  BY IndexIsARow DEF RunTypeOK
<1>2. CASE AppendBurst
  <2>1. PICK s \in Shapes, x \in Metas :
          \/ AppendCapture(This, s, x) /\ taken' = [taken EXCEPT ![Index] = Frames]
          \/ AppendInterrupted(This, s, x) /\ taken' = [taken EXCEPT ![Index] = Frames]
          \/ \E k \in 0 .. Parts : AppendFails(This, s, x, k) /\ UNCHANGED taken
    BY <1>2 DEF AppendBurst
  <2>2. pc = "append"
    BY <1>2 DEF AppendBurst
  <2>3. CASE \E k \in 0 .. Parts : AppendFails(This, s, x, k) /\ UNCHANGED taken
    BY <1>1, <2>3
  <2>4. ASSUME AppendCapture(This, s, x) \/ AppendInterrupted(This, s, x)
        PROVE  writer = "open"
    BY <2>4 DEF AppendCapture, AppendInterrupted, MayAppend
  <2> QED BY <2>1, <2>2, <2>3, <2>4
<1>3. CASE OpenWriter
  BY <1>3 DEF OpenWriter
<1>4. CASE Finalizing
  BY <1>4, FinalizingLeaves
<1>10. CASE Stop \/ Again
  BY <1>10 DEF Stop, Again
<1>5. CASE Start \/ Refuse \/ Setup \/ ApplyProfile \/ DiscardFrames \/ MoveTLS \/ TLSIdle
  BY <1>5 DEF Start, Refuse, Setup, ApplyProfile, DiscardFrames, Recv, MoveTLS, TLSIdle
<1>6. CASE WavelengthReady \/ ShowMask \/ Settle \/ AcquireBurst \/ Appended \/ Complete
  BY <1>6 DEF WavelengthReady, ShowMask, Settle, AcquireBurst, Recv, Appended, Complete
<1>7. CASE ReportError \/ Raise \/ Expose \/ UNCHANGED runVars
  BY <1>7 DEF ReportError, Raise, Expose, runVars
<1> QED BY <1>2, <1>3, <1>4, <1>5, <1>6, <1>7, <1>10 DEF RunNext, TaskStep

\* plan does not change.
LEMMA PlanStays == ASSUME [RunNext]_runVars PROVE plan' = plan
<1>1. CASE Start \/ Refuse \/ OpenWriter \/ Setup \/ ApplyProfile \/ DiscardFrames \/ MoveTLS
  BY <1>1 DEF Start, Refuse, OpenWriter, Setup, ApplyProfile, DiscardFrames, Recv, MoveTLS
<1>2. CASE TLSIdle \/ WavelengthReady \/ ShowMask \/ Settle \/ AcquireBurst \/ AppendBurst
  BY <1>2 DEF TLSIdle, WavelengthReady, ShowMask, Settle, AcquireBurst, Recv, AppendBurst
<1>3. CASE Appended \/ Complete \/ ReportError \/ Finalizing
  BY <1>3, FinalizingLeaves DEF Appended, Complete, ReportError
<1>4. CASE Raise \/ Stop \/ Again \/ Expose \/ UNCHANGED runVars
  BY <1>4 DEF Raise, Stop, Again, Expose, runVars
<1> QED BY <1>1, <1>2, <1>3, <1>4 DEF RunNext, TaskStep

LEMMA FramesMatchPlanKept ==
  ASSUME RunTypeOK, WriterInv, LoopCounts, ApparatusIsSet, BurstIsNow, FramesMatchPlan,
         [RunNext]_runVars
  PROVE  FramesMatchPlan'
<1>1. SUFFICES ASSUME LcdSettle > RING, file' # "abandoned",
                      NEW r \in Completed', NEW c \in taken'[r]
               PROVE  /\ c.mask = rows'[r].at.mi
                      /\ plan.tls => c.light = rows'[r].at.wi
                      /\ c.setting = Parameters(rows'[r].at.wi)
  BY PlanStays DEF FramesMatchPlan, Parameters, OfPlan
<1>2. CASE /\ pc = "append" /\ writer = "open"
           /\ taken' = [taken EXCEPT ![Index] = Frames]
           /\ \E s \in Shapes, x \in Metas :
                AppendCapture(This, s, x) \/ AppendInterrupted(This, s, x)
  <2>1. This \in Capture /\ This.wi = wi /\ This.mi = mi
    BY IndexIsARow DEF RunTypeOK, This
  <2>2. PICK s \in Shapes, x \in Metas : MayAppend(This) /\ WriteRow(This, s, x)
    BY <1>2 DEF AppendCapture, AppendInterrupted
  <2>3. /\ Completed' = 0 .. nWritten /\ rows'[nWritten].at = This /\ nWritten \in RowIds
        /\ \A d \in RowIds : rows'[d] = rows[d] \/ d = nWritten
    BY <2>1, <2>2, CommitRow
  <2>4. nWritten = Index /\ r \in RowIds
    BY <1>2 DEF LoopCounts, Looping, Completed
  <2>5. /\ file # "abandoned" /\ Completed = 0 .. nWritten - 1
        /\ taken \in [RowIds -> SUBSET Condition]
    BY <1>2 DEF WriterInv, RowsAreCounted, RunTypeOK
  <2>6. CASE r = nWritten
    <3>1. taken'[r] = Frames
      BY <1>2, <2>4, <2>5, <2>6
    <3>2. c = Now
      BY <1>1, <1>2, <3>1 DEF Frames, BurstIsNow
    <3>3. display = mi /\ (plan.tls => light = wi) /\ setting = Parameters(wi)
      BY <1>2 DEF ApparatusIsSet
    <3> QED BY <2>1, <2>3, <2>6, <3>2, <3>3 DEF Now
  <2>7. CASE r # nWritten
    <3>1. r \in Completed /\ rows'[r] = rows[r] /\ taken'[r] = taken[r]
      BY <1>2, <2>3, <2>4, <2>5, <2>7 DEF RowIds
    <3> QED BY <1>1, <2>5, <3>1 DEF FramesMatchPlan, Parameters
  <2> QED BY <2>6, <2>7
<1>3. CASE /\ taken' = taken
           /\ \/ Open \/ NewRun \/ UNCHANGED writerVars \/ Die
              \/ Finalize
              \/ \E d \in Capture, s \in Shapes, x \in Metas :
                   \E k \in 0 .. Parts : AppendFails(d, s, x, k)
  <2>1. file # "abandoned" /\ r \in Completed /\ rows'[r] = rows[r] /\ c \in taken[r]
    BY <1>1, <1>3, RowsKept
  <2> QED BY <1>1, <2>1 DEF FramesMatchPlan, Parameters
<1> QED BY <1>2, <1>3, RunStepRows

-----------------------------------------------------------------------------
(* state.json.                                                              *)

LEMMA CompletedIsFinite ==
  ASSUME NEW S \in SUBSET RowIds
  PROVE  IsFiniteSet(S) /\ Cardinality(S) \in Nat
<1>1. IsFiniteSet(RowIds)
  BY NCType, FS_Interval DEF RowIds
<1>2. IsFiniteSet(S)
  BY <1>1, FS_Subset
<1> QED BY <1>2, FS_CardinalityType

\* The writer's count, while it is open, is that of the file.
LEMMA CompletedCount ==
  ASSUME WriterInv, writer = "open"
  PROVE  Cardinality(Completed) = nWritten
<1>1. Completed = 0 .. nWritten - 1 /\ nWritten \in 0 .. NC /\ file # "abandoned"
  BY DEF WriterInv, RowsAreCounted, WriterTypeOK
<1> QED BY <1>1, FlagsOfPrefix DEF WriterInv

\* No row of a file that is kept is lost.
LEMMA CompletedGrows ==
  ASSUME RunTypeOK, WriterInv, [RunNext]_runVars, file' # "abandoned"
  PROVE  file # "abandoned" /\ Cardinality(Completed) <= Cardinality(Completed')
<1>1. file # "abandoned" /\ Completed \subseteq Completed'
  <2>1. CASE \E s \in Shapes, x \in Metas :
               AppendCapture(This, s, x) \/ AppendInterrupted(This, s, x)
    <3>1. PICK s \in Shapes, x \in Metas : MayAppend(This) /\ WriteRow(This, s, x)
      BY <2>1 DEF AppendCapture, AppendInterrupted
    <3>2. This \in Capture
      BY IndexIsARow DEF RunTypeOK
    <3>3. Completed' = 0 .. nWritten
      BY <3>1, <3>2, CommitRow
    <3>4. writer = "open" /\ nWritten \in 0 .. NC
      BY <3>1 DEF MayAppend, WriterInv, WriterTypeOK
    <3>5. Completed = 0 .. nWritten - 1 /\ file # "abandoned"
      BY <3>4 DEF WriterInv, RowsAreCounted
    <3> QED BY <3>3, <3>4, <3>5
  <2>2. CASE \/ Open \/ NewRun \/ UNCHANGED writerVars \/ Die
             \/ Finalize
             \/ \E d \in Capture, s \in Shapes, x \in Metas :
                  \E k \in 0 .. Parts : AppendFails(d, s, x, k)
    BY <2>2, RowsKept
  <2> QED BY <2>1, <2>2, RunStepRows
<1>2. IsFiniteSet(Completed')
  BY CompletedIsFinite DEF Completed
<1> QED BY <1>1, <1>2, FS_Subset

\* An update that reaches the disk.
LEMMA Published ==
  ASSUME NEW phase, NEW index, Update(phase, index), disk' # disk
  PROVE  disk'.index = index /\ (disk'.completed => phase = "completed")
<1>1. disk' = [phase |-> phase, index |-> index, completed |-> phase = "completed",
              error |-> phase = "error"]
  BY DEF Update, StateJson
<1>2. disk'.index = index
  BY <1>1
<1>3. disk'.completed = (phase = "completed")
  BY <1>1
<1> QED BY <1>2, <1>3

\* What a step publishes is true when it is published.
LEMMA PublishedIsTrue ==
  ASSUME RunTypeOK, WriterInv, TaskHoldsWriter, LoopCounts, [RunNext]_runVars, disk' # disk
  PROVE  /\ UNCHANGED writerVars
         /\ disk'.index <= Cardinality(Completed)
         /\ disk'.completed => file = "closed" /\ SurveyAccepts /\ pc' = "done"
<1>1. Cardinality(Completed) \in Nat /\ (writer = "open" => Cardinality(Completed) = nWritten)
  BY CompletedIsFinite, CompletedCount DEF Completed
<1>2. CASE Start
  <2>1. UNCHANGED writerVars /\ Update("starting", 0)
    BY <1>2 DEF Start
  <2>2. disk'.index = 0 /\ ~ disk'.completed
    BY <2>1, Published
  <2> QED BY <1>1, <2>1, <2>2
<1>3. CASE WavelengthReady \/ ShowMask
  <2>1. PICK phase \in {"wavelength_ready", "mask_shown"} : Update(phase, Index)
    BY <1>3 DEF WavelengthReady, ShowMask
  <2>2. disk'.index = Index /\ ~ disk'.completed
    BY <2>1, Published
  <2>3. pc \in {"ready", "mask"} /\ UNCHANGED writerVars
    BY <1>3 DEF WavelengthReady, ShowMask
  <2>4. Cardinality(Completed) = Index
    BY <1>1, <2>3 DEF TaskHoldsWriter, LoopCounts, InTry, Looping, Preparing
  <2> QED BY <1>1, <2>2, <2>3, <2>4
<1>4. CASE AcquireBurst
  <2>1. pc = "burst" /\ UNCHANGED writerVars /\ Update("burst_captured", Index)
    BY <1>4 DEF AcquireBurst, Recv
  <2>2. disk'.index = Index /\ ~ disk'.completed
    BY <2>1, Published
  <2>3. Cardinality(Completed) = Index
    BY <1>1, <2>1 DEF TaskHoldsWriter, LoopCounts, InTry, Looping, Preparing
  <2> QED BY <1>1, <2>1, <2>2, <2>3
<1>5. CASE Appended
  <2>1. pc = "appended" /\ UNCHANGED writerVars /\ Update("capture_appended", Index + 1)
    BY <1>5 DEF Appended, NextIndex
  <2>2. disk'.index = Index + 1 /\ ~ disk'.completed
    BY <2>1, Published
  <2>3. Cardinality(Completed) = Index + 1
    BY <1>1, <2>1 DEF TaskHoldsWriter, LoopCounts
  <2> QED BY <1>1, <2>1, <2>2, <2>3
<1>6. CASE Complete
  <2>1. /\ file = "closed" /\ SurveyAccepts /\ pc' = "done"
        /\ UNCHANGED writerVars /\ Update("completed", NC)
    BY <1>6 DEF Complete, TaskHoldsWriter, Goto
  <2>2. disk'.index = NC
    BY <2>1, Published
  <2>3. Cardinality(Completed) = NC
    BY <2>1, NCType, FS_Interval DEF SurveyAccepts, ScheduleIsComplete, RowIds
  <2> QED BY <1>1, <2>1, <2>2, <2>3
<1>7. CASE ReportError
  <2>1. UNCHANGED writerVars /\ Update("error", -1)
    BY <1>7 DEF ReportError, Nothing
  <2>2. disk'.index = -1 /\ ~ disk'.completed
    BY <2>1, Published
  <2> QED BY <1>1, <2>1, <2>2
<1>8. CASE Refuse \/ OpenWriter \/ Setup \/ ApplyProfile \/ DiscardFrames \/ MoveTLS
  BY <1>8 DEF Refuse, OpenWriter, Setup, ApplyProfile, DiscardFrames, Recv, MoveTLS
<1>9. CASE TLSIdle \/ Settle \/ AppendBurst \/ Finalizing
  BY <1>9, FinalizingLeaves DEF TLSIdle, Settle, AppendBurst
<1>10. CASE Expose \/ Raise \/ Stop \/ Again \/ UNCHANGED runVars
  BY <1>10 DEF Expose, Raise, Stop, Again, runVars
<1> QED BY <1>2, <1>3, <1>4, <1>5, <1>6, <1>7, <1>8, <1>9, <1>10 DEF RunNext, TaskStep

LEMMA StatusNotAheadKept ==
  ASSUME RunTypeOK, WriterInv, TaskHoldsWriter, LoopCounts, StatusNotAhead, [RunNext]_runVars
  PROVE  StatusNotAhead'
<1>1. SUFFICES ASSUME file' # "abandoned" PROVE disk'.index <= Cardinality(Completed')
  BY DEF StatusNotAhead
<1>2. file # "abandoned" /\ Cardinality(Completed) <= Cardinality(Completed')
  BY <1>1, CompletedGrows
<1>3. CASE disk' = disk
  <2>1. disk.index \in Int
    BY NCType DEF RunTypeOK, Progress, Nothing
  <2>2. disk.index <= Cardinality(Completed)
    BY <1>2 DEF StatusNotAhead
  <2>3. Cardinality(Completed) \in Nat /\ Cardinality(Completed') \in Nat
    BY CompletedIsFinite DEF Completed
  <2> QED BY <1>2, <1>3, <2>1, <2>2, <2>3
<1>4. CASE disk' # disk
  <2>1. UNCHANGED writerVars /\ disk'.index <= Cardinality(Completed)
    BY <1>4, PublishedIsTrue
  <2>2. Completed' = Completed
    BY <2>1 DEF writerVars, fileVars, Completed
  <2> QED BY <2>1, <2>2
<1> QED BY <1>3, <1>4

LEMMA CompletedIsAcceptedKept ==
  ASSUME RunTypeOK, WriterInv, TaskHoldsWriter, LoopCounts, CompletedIsAccepted,
         [RunNext]_runVars
  PROVE  CompletedIsAccepted'
<1>1. file = "closed" /\ SurveyAccepts => file' = "closed" /\ SurveyAccepts'
  BY AcceptedStays, RunStepIsWriterStep
<1> QED BY <1>1, PublishedIsTrue DEF CompletedIsAccepted

LEMMA CompletedIsLastKept ==
  ASSUME RunTypeOK, WriterInv, TaskHoldsWriter, LoopCounts, CompletedIsAccepted,
         CompletedIsLast, [RunNext]_runVars
  PROVE  CompletedIsLast'
<1>1. SUFFICES ASSUME disk'.completed, disk' = disk
               PROVE  writer' = "new" \/ pc' = "done"
  BY PublishedIsTrue DEF CompletedIsLast
<1>2. file = "closed"
  BY <1>1 DEF CompletedIsAccepted
<1>3. CASE writer = "new"
  <2>1. [WriterNext]_writerVars
    BY RunStepIsWriterStep
  <2> QED BY <1>2, <1>3, <2>1
          DEF WriterNext, Open, OpenFile, AppendStep, AppendCapture, AppendInterrupted,
              AppendFails, MayAppend, Finalize, WriteFlags, CloseFile, Die, NewRun,
              writerVars, memoryVars
<1>4. CASE pc = "done"
  <2>1. Again \/ UNCHANGED runVars
    BY <1>4, FinalizingLeaves
       DEF RunNext, TaskStep, Start, Refuse, OpenWriter, Setup, ApplyProfile, DiscardFrames,
           MoveTLS, TLSIdle, WavelengthReady, ShowMask, Settle, AcquireBurst, AppendBurst,
           Appended, Complete, ReportError, Raise, Stop, Expose, InTry, Ended
  <2> QED BY <1>4, <2>1 DEF Again, NewRun, runVars
<1> QED BY <1>1, <1>3, <1>4 DEF CompletedIsLast

-----------------------------------------------------------------------------
(* The invariant of a run.                                                  *)

LEMMA InitRunInv == RunInit => RunInv
<1> SUFFICES ASSUME RunInit PROVE RunInv
  OBVIOUS
<1>1. RunTypeOK /\ WriterInv
  BY InitRunType, InitWriterInv DEF RunInit
<1>2. pc = "start" /\ writer = "new" /\ file = "absent" /\ disk = NoProgress
  BY DEF RunInit, WriterInit
<1>3. TaskHoldsWriter /\ LoopCounts /\ ApparatusIsSet /\ SettlingFrames /\ BurstIsNow
  BY <1>2 DEF TaskHoldsWriter, LoopCounts, ApparatusIsSet, SettlingFrames, BurstIsNow,
              InTry, Ended, Looping, Preparing
<1>4. Completed = {}
  BY <1>1, <1>2 DEF WriterInv, RowsAreCounted
<1>5. FramesMatchPlan /\ CompletedIsAccepted /\ CompletedIsLast
  BY <1>2, <1>4 DEF FramesMatchPlan, CompletedIsAccepted, CompletedIsLast, NoProgress
<1>6. StatusNotAhead
  <2>1. Cardinality(Completed) \in Nat
    BY CompletedIsFinite DEF Completed
  <2> QED BY <1>2, <2>1 DEF StatusNotAhead, NoProgress, Nothing
<1> QED BY <1>1, <1>3, <1>5, <1>6 DEF RunInv

LEMMA NextRunInv == RunInv /\ [RunNext]_runVars => RunInv'
<1> SUFFICES ASSUME RunInv, [RunNext]_runVars PROVE RunInv'
  OBVIOUS
<1> USE DEF RunInv
<1>1. WriterInv'
  BY RunStepIsWriterStep, NextWriterInv
<1>2. RunTypeOK'
  BY <1>1, RunTypeKept DEF WriterInv
<1>3. TaskHoldsWriter' /\ LoopCounts' /\ ApparatusIsSet'
  BY TaskHoldsWriterKept, LoopCountsKept, ApparatusIsSetKept
<1>4. SettlingFrames' /\ BurstIsNow' /\ FramesMatchPlan'
  BY SettlingFramesKept, BurstIsNowKept, FramesMatchPlanKept
<1>5. StatusNotAhead' /\ CompletedIsAccepted' /\ CompletedIsLast'
  BY StatusNotAheadKept, CompletedIsAcceptedKept, CompletedIsLastKept
<1> QED BY <1>1, <1>2, <1>3, <1>4, <1>5

(* The relations between the point a run has reached, its file, its         *)
(* apparatus and its status hold whatever fails and wherever it is stopped. *)
THEOREM RunInvariance == RunSpec => []RunInv
BY InitRunInv, NextRunInv, PTL DEF RunSpec

(* A run is a caller of RawCaptureWriter: whatever is proved of the writer  *)
(* holds of the run.                                                        *)
THEOREM RunIsWriter == RunSpec => WriterSpec
<1>1. RunInit => WriterInit
  BY DEF RunInit
<1>2. RunInv /\ [RunNext]_runVars => [WriterNext]_writerVars
  BY RunStepIsWriterStep DEF RunInv
<1> QED BY <1>1, <1>2, RunInvariance, PTL DEF RunSpec, WriterSpec

(* Every state of a run is well typed.                                      *)
THEOREM RunTypeCorrect == RunSpec => []RunTypeOK
BY RunInvariance, PTL DEF RunInv

(* With a settling time that covers the ring and the exposure in progress,  *)
(* every stored frame was exposed under its capture's mask, wavelength and  *)
(* camera parameters (capture_dataset.py:384-408).                          *)
THEOREM StoredFramesMatchPlan == RunSpec => []FramesMatchPlan
BY RunInvariance, PTL DEF RunInv

(* state.json never promises more captures than the file holds              *)
(* (capture_dataset.py:425-458).                                            *)
THEOREM StatusIsNotAhead == RunSpec => []StatusNotAhead
BY RunInvariance, PTL DEF RunInv

(* A file whose status says "completed" is one the survey builder accepts,  *)
(* and stays one (capture_dataset.py:460-468).                              *)
THEOREM CompletedRunIsAccepted == RunSpec => []CompletedIsAccepted
BY RunInvariance, PTL DEF RunInv

(* A run that raises after it created its file never said it completed, and *)
(* the file it managed to close is rejected, also when an earlier close     *)
(* raised over flags of success (capture_dataset.py:460-482,                *)
(* raw_capture_h5.py:653-656).                                              *)
THEOREM RaisedRunIsRejected == RunSpec => []RaisedIsRejected
<1>1. RunInv => RaisedIsRejected
  BY DEF RunInv, TaskHoldsWriter, CompletedIsLast, RaisedIsRejected, SurveyAccepts
<1> QED BY <1>1, RunInvariance, PTL

(* The file of a run is the ledger that CaptureLedger promises.             *)
THEOREM RunImplementsLedger == RunSpec => ImplementsLedger
BY RunIsWriter, WriterImplementsLedger, PTL

(* The rows of a run's file are each the work of one call, and the flags of *)
(* a finalized one are true (raw_capture_h5.py:495-656).                    *)
THEOREM RunFileIsTruthful == RunSpec => [](CommittedRowsWhole /\ FlagsTruthful)
BY RunIsWriter, CompletedRowsAreWhole, FlagsAreTruthful, PTL
=============================================================================
