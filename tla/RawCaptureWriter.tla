--------------------------- MODULE RawCaptureWriter ---------------------------
(***************************************************************************)
(* RawCaptureWriter (tasks/raw_capture_h5.py): one HDF5 file, one row per   *)
(* capture of the wavelength-major schedule.  append_capture writes a row   *)
(* part by part and may raise between two parts; the row counts only when   *)
(* its "completed" bit is set.  The caller is free to offer any capture     *)
(* again after an error.  The file outlives its writer: after a kill, or    *)
(* when a later run is given the same path.                                 *)
(*                                                                          *)
(* A call of append_capture stands for the pixels and the camera metadata   *)
(* it was given; the illumination and TLS metadata, shared by the rows of a *)
(* wavelength, is a value of its own.                                       *)
(***************************************************************************)
EXTENDS Integers, Sequences, FiniteSets

CONSTANTS
  NW, NM,      \* wavelengths and masks of the plan
  StoreBurst,  \* plan.store_burst
  Shapes,      \* spatial shapes of a frame
  NoShape,     \* the (1, 1) the datasets are created with
  Metas,       \* values of the metadata shared by the rows of a wavelength
  NoMeta,      \* nothing written yet
  MaxCalls,    \* bound: calls of append_capture that pass validation
  MaxRuns      \* bound: writers created for the path

NC == NW * NM  \* plan.n_captures

ASSUME WriterAssumption ==
  /\ NW \in Nat \ {0} /\ NM \in Nat \ {0}
  /\ StoreBurst \in BOOLEAN
  /\ NoShape \notin Shapes /\ NoMeta \notin Metas
  /\ MaxCalls \in Nat /\ MaxRuns \in Nat

VARIABLES
  file,      \* the path: "absent", "open", "closed", or "abandoned" by a dead writer
  rows,      \* the per-capture datasets
  shape,     \* spatial shape of raw/frames_avg
  bshape,    \* spatial shape of raw/frames
  wlmeta,    \* the per-wavelength datasets
  flags,     \* capture/processing_flags_json
  versions,  \* what flags has been: a writer that dies may leave any of them
  writer,    \* the object: "new", "open", "unwinding", "flagged" once finalize
             \* has written the flags, "closed" or "dead"
  nWritten,  \* _n_written
  committed, \* _committed_capture_indices and _committed_capture_combinations
  committedWl, \* _committed_wavelength_indices
  calls,     \* calls of append_capture that passed validation
  given,     \* history: what the call that committed a row was given
  failed,    \* history: finalize was given an error, or never called
  runs

fileVars == <<file, rows, shape, bshape, wlmeta, flags, versions>>
memoryVars == <<writer, nWritten, committed, committedWl>>
writerVars == <<fileVars, memoryVars, calls, given, failed, runs>>

RowIds == 0 .. NC - 1
Capture == [ci : RowIds, wi : 0 .. NW - 1, mi : 0 .. NM - 1]
Call == [call : Nat, at : Capture, shape : Shapes, meta : Metas]

NoCapture == [ci |-> -1, wi |-> -1, mi |-> -1]

NoCall == [call |-> 0, at |-> NoCapture, shape |-> NoShape, meta |-> NoMeta]

\* Parts hold the number of the call that wrote them; -1 is the fill value.
FreshRow == [avg |-> 0, burst |-> 0, at |-> NoCapture, camera |-> 0,
             completed |-> FALSE]
FreshFlags == [complete |-> FALSE, succeeded |-> FALSE, written |-> 0, last |-> -1]
Flags == [complete : BOOLEAN, succeeded : BOOLEAN, written : 0 .. NC, last : -1 .. NC - 1]
Both(v) == [illumination |-> v, tls |-> v]
OneOf(v, old) == [illumination |-> v, tls |-> old.tls]
WlMeta == [illumination : Metas \cup {NoMeta}, tls : Metas \cup {NoMeta}]
NoWlMeta == [w \in 0 .. NW - 1 |-> Both(NoMeta)]

-----------------------------------------------------------------------------
\* Mutation of OpenFile: mode "w" instead of "x".
OpenTruncates == file' = "open" /\ writer = "new"

\* h5py.File(path, "x") followed by _init_structure
OpenFile == file' = "open" /\ writer = "new" /\ file = "absent"

Open ==
  /\ OpenFile
  /\ rows' = [r \in RowIds |-> FreshRow]
  /\ shape' = NoShape /\ bshape' = NoShape
  /\ wlmeta' = NoWlMeta
  /\ flags' = FreshFlags /\ versions' = {FreshFlags}
  /\ writer' = "open"
  /\ UNCHANGED <<nWritten, committed, committedWl, calls, given, failed, runs>>

\* The validation of the three indices.
InSchedule(c) ==
  /\ c.ci = c.wi * NM + c.mi
  /\ \A d \in committed : d.ci # c.ci /\ <<d.wi, d.mi>> # <<c.wi, c.mi>>
  /\ c.ci = nWritten

MayAppend(c) ==
  /\ writer = "open"
  /\ nWritten < NC
  /\ InSchedule(c)
  /\ calls < MaxCalls

\* A dataset takes a new shape only before the first commit.
FitsShape(now, s) == now = s \/ nWritten = 0

\* _write_or_validate_wavelength_metadata: written by the first commit of a
\* wavelength, compared by the later ones.
SameMetadata(wi, x) == wi \in committedWl => wlmeta[wi] = Both(x)

\* The first k parts of a row, in the order of the writes: the average, the
\* burst, the indices, the camera and LCD metadata; after them the bit.
Parts == 4

\* Mutation of Written: camera metadata that a failed call left is kept.
WrittenOnce(row, c, call, k) ==
  [avg |-> IF k >= 1 THEN call ELSE row.avg,
   burst |-> IF k >= 2 /\ StoreBurst THEN call ELSE row.burst,
   at |-> IF k >= 3 THEN c ELSE row.at,
   camera |-> IF k >= Parts /\ row.camera = 0 THEN call ELSE row.camera,
   completed |-> IF k > Parts THEN TRUE ELSE row.completed]

Written(row, c, call, k) ==
  [avg |-> IF k >= 1 THEN call ELSE row.avg,
   burst |-> IF k >= 2 /\ StoreBurst THEN call ELSE row.burst,
   at |-> IF k >= 3 THEN c ELSE row.at,
   camera |-> IF k >= Parts THEN call ELSE row.camera,
   completed |-> IF k > Parts THEN TRUE ELSE row.completed]

\* Everything append_capture writes before it commits.
WriteRow(c, s, x) ==
  /\ FitsShape(shape, s) /\ shape' = s
  /\ IF StoreBurst THEN FitsShape(bshape, s) /\ bshape' = s ELSE UNCHANGED bshape
  /\ SameMetadata(c.wi, x)
  /\ wlmeta' = IF c.wi \in committedWl THEN wlmeta
                                       ELSE [wlmeta EXCEPT ![c.wi] = Both(x)]
  /\ rows' = [rows EXCEPT ![nWritten] =
                Written(@, c, calls + 1, Parts + 1)]
  /\ calls' = calls + 1
  /\ given' = [given EXCEPT ![nWritten] =
                 [call |-> calls + 1, at |-> c, shape |-> s, meta |-> x]]
  /\ UNCHANGED <<file, flags, versions, failed, runs>>

AppendCapture(c, s, x) ==
  /\ MayAppend(c)
  /\ WriteRow(c, s, x)
  /\ nWritten' = nWritten + 1
  /\ committed' = committed \cup {c}
  /\ committedWl' = committedWl \cup {c.wi}
  /\ UNCHANGED writer

\* KeyboardInterrupt after the bit is set and before it is counted.  It is not
\* an Exception: it passes the caller's handlers and ends the run.
AppendInterrupted(c, s, x) ==
  /\ MayAppend(c)
  /\ WriteRow(c, s, x)
  /\ writer' = "unwinding"
  /\ UNCHANGED <<nWritten, committed, committedWl>>

\* The call raises after k parts: a frame of the wrong shape, an error of the
\* file, metadata that differs from the wavelength's (k = Parts) or that is
\* written only in part.
AppendFails(c, s, x, k) ==
  /\ MayAppend(c)
  /\ k >= 1 => FitsShape(shape, s)
  /\ k >= 2 /\ StoreBurst => FitsShape(bshape, s)
  /\ shape' \in IF FitsShape(shape, s) /\ k = 0 THEN {shape, s}
                ELSE IF k >= 1 THEN {s} ELSE {shape}
  /\ bshape' \in IF ~ StoreBurst \/ k = 0 THEN {bshape}
                 ELSE IF k >= 2 THEN {s}
                 ELSE IF FitsShape(bshape, s) THEN {bshape, s} ELSE {bshape}
  /\ rows' = [rows EXCEPT ![nWritten] = Written(@, c, calls + 1, k)]
  /\ wlmeta' \in IF k < Parts \/ c.wi \in committedWl THEN {wlmeta}
                 ELSE {wlmeta, [wlmeta EXCEPT ![c.wi] = OneOf(x, @)],
                       [wlmeta EXCEPT ![c.wi] = Both(x)]}
  /\ calls' = calls + 1
  /\ UNCHANGED <<file, flags, versions, memoryVars, given, failed, runs>>

-----------------------------------------------------------------------------
Completed == {r \in RowIds : rows[r].completed}

\* Mutation of LastCompleted: one past the last row.
RowAfterLast == Cardinality(Completed)

LastCompleted ==
  IF Completed = {} THEN -1
  ELSE rows[CHOOSE r \in Completed : \A q \in Completed : q <= r].at.ci

\* _capture_schedule_is_complete, used by finalize and by the survey builder.
ScheduleIsComplete ==
  /\ Completed = RowIds
  /\ {rows[r].at.ci : r \in RowIds} = RowIds
  /\ {<<rows[r].at.wi, rows[r].at.mi>> : r \in RowIds} = (0 .. NW - 1) \X (0 .. NM - 1)
  /\ \A r \in RowIds : rows[r].at.ci = rows[r].at.wi * NM + rows[r].at.mi

\* Mutation of FinalFlags: the rows the writer counted, not those of the file.
FlagsFromMemory(error) ==
  [complete |-> ScheduleIsComplete, succeeded |-> ~ error,
   written |-> nWritten, last |-> LastCompleted]

FinalFlags(error) ==
  [complete |-> ScheduleIsComplete, succeeded |-> ~ error,
   written |-> Cardinality(Completed), last |-> LastCompleted]

\* finalize up to file.close().  A close that raises leaves the object as it
\* is, and the handlers finalize it again, with the error.
WriteFlags(error) ==
  /\ writer = "open" \/ (writer \in {"unwinding", "flagged"} /\ error)
  /\ flags' = FinalFlags(error)
  /\ versions' = versions \cup {FinalFlags(error)}
  /\ nWritten' = Cardinality(Completed)
  /\ writer' = "flagged"
  /\ failed' = error
  /\ UNCHANGED <<file, rows, shape, bshape, wlmeta, committed, committedWl,
                 calls, given, runs>>

CloseFile ==
  /\ writer = "flagged"
  /\ file' = "closed" /\ writer' = "closed"
  /\ UNCHANGED <<rows, shape, bshape, wlmeta, flags, versions, nWritten, committed,
                 committedWl, calls, given, failed, runs>>

Finalize == (\E error \in BOOLEAN : WriteFlags(error)) \/ CloseFile

\* The process is killed, or leaves without closing the file: any of the flags
\* written so far may be the last that reached the disk.  HDF5 may have lost
\* rows as well; only the verdict on such a file rests on them.
Die ==
  /\ writer \in {"open", "unwinding", "flagged"}
  /\ flags' \in versions
  /\ file' = "abandoned" /\ writer' = "dead"
  /\ UNCHANGED <<rows, shape, bshape, wlmeta, versions, nWritten, committed,
                 committedWl, calls, given, failed, runs>>

\* A later run constructs a writer for the same path.
NewRun ==
  /\ writer \in {"closed", "dead"}
  /\ runs < MaxRuns
  /\ writer' = "new"
  /\ nWritten' = 0 /\ committed' = {} /\ committedWl' = {}
  /\ runs' = runs + 1
  /\ UNCHANGED <<fileVars, calls, given, failed>>

\* build_full_frame_psf_survey: what it demands of its source.
SurveyAccepts ==
  /\ file # "absent"
  /\ flags.succeeded /\ flags.complete
  /\ ScheduleIsComplete

-----------------------------------------------------------------------------
WriterInit ==
  /\ file = "absent"
  /\ rows = [r \in RowIds |-> FreshRow]
  /\ shape = NoShape /\ bshape = NoShape /\ wlmeta = NoWlMeta
  /\ flags = FreshFlags /\ versions = {FreshFlags}
  /\ writer = "new" /\ nWritten = 0 /\ committed = {} /\ committedWl = {}
  /\ calls = 0 /\ given = [r \in RowIds |-> NoCall]
  /\ failed = TRUE /\ runs = 1

AppendStep ==
  \E c \in Capture, s \in Shapes, x \in Metas :
    \/ AppendCapture(c, s, x)
    \/ AppendInterrupted(c, s, x)
    \/ \E k \in 0 .. Parts : AppendFails(c, s, x, k)

WriterNext == Open \/ AppendStep \/ Finalize \/ Die \/ NewRun

WriterSpec == WriterInit /\ [][WriterNext]_writerVars

-----------------------------------------------------------------------------
WriterTypeOK ==
  /\ file \in {"absent", "open", "closed", "abandoned"}
  /\ rows \in [RowIds -> [avg : Nat, burst : Nat, at : Capture \cup {NoCapture},
                          camera : Nat, completed : BOOLEAN]]
  /\ shape \in Shapes \cup {NoShape} /\ bshape \in Shapes \cup {NoShape}
  /\ wlmeta \in [0 .. NW - 1 -> WlMeta]
  /\ flags \in Flags /\ versions \in SUBSET Flags
  /\ writer \in {"new", "open", "unwinding", "flagged", "closed", "dead"}
  /\ nWritten \in 0 .. NC
  /\ committed \in SUBSET Capture /\ committedWl \in SUBSET (0 .. NW - 1)
  /\ calls \in Nat /\ given \in [RowIds -> Call \cup {NoCall}]
  /\ failed \in BOOLEAN /\ runs \in Nat

(* A completed row is one call's: its pixels, its indices, its camera       *)
(* metadata and the metadata of its wavelength are all those the same call  *)
(* of append_capture was given, however many calls failed half-way on that  *)
(* row before (raw_capture_h5.py:495-566).                                  *)
CommittedRowsWhole ==
  file # "abandoned" => \A r \in Completed :
    LET g == given[r] IN
    /\ rows[r].avg = g.call /\ rows[r].camera = g.call
    /\ StoreBurst => rows[r].burst = g.call
    /\ rows[r].at = g.at /\ g.at.ci = r /\ r = g.at.wi * NM + g.at.mi
    /\ wlmeta[g.at.wi] = Both(g.meta)
    /\ shape = g.shape /\ (StoreBurst => bshape = g.shape)

(* The flags of a finalized file agree with its rows, also when the commit  *)
(* of a row was interrupted before the writer counted it, and say whether   *)
(* the run failed, also when an earlier finalize had written others before  *)
(* its close raised (raw_capture_h5.py:610-656).                            *)
FlagsTruthful ==
  file = "closed" \/ writer = "flagged" =>
    /\ flags.written = Cardinality(Completed)
    /\ Completed = 0 .. flags.written - 1
    /\ flags.last = flags.written - 1
    /\ flags.complete <=> flags.written = NC
    /\ flags.succeeded <=> ~ failed

(* The file promises what CaptureLedger says: entries whole, in order and   *)
(* immutable until the writer dies, and accepted only when complete; a      *)
(* later run with the same path changes nothing (raw_capture_h5.py:144).    *)
Entry(r) ==
  IF rows[r].completed /\ (file # "abandoned" \/ SurveyAccepts)
  THEN [wavelength |-> rows[r].at.wi, mask |-> rows[r].at.mi, call |-> rows[r].avg,
        meta |-> wlmeta[rows[r].at.wi]]
  ELSE [wavelength |-> NW, mask |-> NM, call |-> 0, meta |-> Both(NoMeta)]

Verdict ==
  IF file \in {"absent", "open"} THEN "open"
  ELSE IF SurveyAccepts THEN "accepted" ELSE "rejected"

Ledger == INSTANCE CaptureLedger WITH
  entries <- [r \in RowIds |-> Entry(r)], verdict <- Verdict, Calls <- 1 .. MaxCalls

ImplementsLedger == Ledger!LedgerSpec

=============================================================================
