# Verification of optic_system

TLA+ models of the acquisition software, the TLC runs that check them on small
instances, and proofs that TLAPS checks for instances of every size.  Source
paths are relative to the repository (`src/`).

## 1. The system

A laboratory acquisition program.  A GUI session or a capture script drives a
camera, an LCD that displays masks and a tunable light source (TLS), and writes
raw captures to HDF5 files that are analysed offline.

| Component | Code | State | Operations |
|---|---|---|---|
| Camera sidecar | `devices/camera_service_impl.py` | camera, ring of shared memory, layout, `running`, `widx`, `seq`, `stop_event` | requests over REQ/REP, capture loop, shutdown |
| Camera backend | `devices/camera_backend_flycapture2.py`, `camera_frame_layout.py` | open, capturing, configuration | open, apply_config, start/stop, capture |
| Frame stream client | `devices/frame_stream.py` | SUB socket, mapping, last packet | `recv_frame`, `close` |
| Camera service client | `devices/camera_service.py` | handle of the sidecar | ping, launch, requests with a timeout, shutdown |
| Session controller | `control/` | `SessionState`, TLS executor | `start`, `dispatch`, `shutdown` |
| TLS service | `devices/tls_service.py` | device, last status | connect, set, move, disconnect |
| LCD service | `devices/lcd_service.py` | backend, current mask, published state | initialize, show, close |
| Capture helpers | `capture/` | worker thread | `capture_one`, preview loop |
| GUI | `gui/`, `app/main_gui.py` | window, pending frame, event queue | callbacks, poll, close |
| Capture task | `tasks/capture_dataset.py` | position in the plan, status | the wavelength and mask loops |
| Raw capture file | `tasks/raw_capture_h5.py` | HDF5 datasets, commit counters | open, append, finalize |
| PSF survey | `tasks/psf/` | survey file, manifest | build, size and source checks |
| Profiles | `tasks/profiles/` | profile artifacts | exposure search, pupil scan |
| Run status | `diagnostics/run_status.py` | JSON and mask files | atomic replacement, readers |
| Monitor | `scripts/monitor_run_status.py` | what it shows | refresh |

Interactions.  The controller calls the camera client (messages to the sidecar
process), the LCD and the TLS (calls), and receives frames through callbacks of
the preview worker.  Sidecar and stream client share memory under one global
name, `flycap2_ring_A`, and a PUB/SUB channel on which only notifications
travel.  The capture task calls everything synchronously and publishes status
files that a separate monitor process polls.

What is hard in it: the sidecar's two threads and the notification sent outside
their lock; a reader that copies the ring without a lock; a segment that is
destroyed and recreated under a name readers have mapped, with different rules
on Windows and POSIX; requests that fail between two device calls; a sidecar
that is killed; a capture row written in many steps, retried after a failure;
background moves of the TLS that outlive a session; requests that time out at
the client and are served all the same; sidecars launched by two programs at
once; status files replaced and read one by one; profiles tied to each other by
nothing but ids an operator chooses.

The properties that make each part correct are the hazards of `PROJECT.json`
and the sections below.

## 2. Plan

The modules, in the order they were written, all of them done:

1. `CameraSidecar`, composed with its reader in `FrameStream`, which implements
   the abstract `FrameDelivery`.
2. `RawCaptureWriter`, which implements the abstract `CaptureLedger`.
3. Proofs about 1: `CameraSidecarProofs`, and `FrameStreamProofs` upon it.
4. `CaptureRun`: `run_capture_dataset` over the apparatus, the writer of 2 and
   the published status.  `CaptureProofs` is about 2 and 4.
5. `ExposureSearch`.
6. `TLSSession`: session controller and TLS service with background moves.
   `TLSSessionProofs`.
7. `SidecarLifecycle`: programs that launch, use and leave sidecars.
   `SidecarLifecycleProofs`.
8. `StatusFiles`: a run that publishes against a monitor that reads.
   `StatusFilesProofs`.
9. `PreviewSession`: the GUI's main thread, its session and the preview thread.
   `PreviewSessionProofs`.
10. `ProfileChain`: calibrations, which extend `ExposureSearch`, then capture and
    survey.  `ProfileChainProofs` is about 5 and 10.

How they meet: `FrameStream` extends `CameraSidecar`, `CaptureRun` extends
`RawCaptureWriter`, `ProfileChain` extends `ExposureSearch`.  The others share a
boundary with one of these and reduce what is behind it: `SidecarLifecycle`
reduces the sidecar to its camera, `CaptureRun` the frame stream to a ring,
`PreviewSession` a camera call to its outcome, `ProfileChain` a capture to the
conditions its frames were taken under.

Every safety invariant and both refinements the runs check are theorems (section
5).  What could follow: the variants behind the liveness properties as action
properties (each step of a receive, a move or a search brings it nearer its end),
and consequences of the abstract specifications that a reader of `FrameDelivery`
or `CaptureLedger` would draw.

## 3. Models

### CameraSidecar

The variables `cam`, `shm`, `layout`, `running`, `widx` and `seq` are the fields
of `CameraServiceState`.  `phase` stands for `stop_event` and the control
thread's position relative to it, `spc` for the position of the stream thread
(`armed`: between the two checks of `stream_loop`; `writing`: inside the write
of a slot, the lock held; `publish`: after it, the lock released), `main` for
the main thread.  A request handler holds the lock from its first change to its
last and is one action; it waits while a slot is written.  Requests that read
or write properties of the device change none of these variables.

Every call a handler makes to the device or the operating system may raise:
`OpenCamera` has an outcome for each stage, `ReconfigureFails` is
`_reconfigure_locked` cut off at each call.  A captured frame is numbered;
its number stands for its pixels and for its SHA-256.  A slot has two halves
because its write and its copy take time.  Segments are numbered by creation,
`named` is the one the operating system finds under `SHM_NAME`, `mapped` the one
a reader process maps.  With `Windows` a name lives until the last handle is
closed, so creating a ring fails while a reader is attached to the old one;
on POSIX unlinking frees the name at once and readers keep the dead segment.
The PUB socket is used by both threads without a lock: when they send at the
same time the parts may mix (`Garbled`).  `SidecarSpec` is a sidecar beside
anyone who maps its ring (`Subscribe`, `Attach`, `Detach`, `Take`); its theorems
are carried over to the sidecar with the reader of `FrameStream`, which is what
the runs check.

### FrameStream and FrameDelivery

`FrameStream` adds `recv_frame` step by step: wait, read a notification, drain
the queue, map the ring, copy the first and the second half, compare the digest,
retry.  `expired` is the passing of the deadline, which may happen at any moment
of a call.  `FrameDelivery` says what the caller may rely on: each packet is one
captured frame, whole, with the layout it was captured with, later than the
packet before.  `last` and `frames` map to its variables.

### RawCaptureWriter and CaptureLedger

A call of `append_capture` is numbered and its number stands for the pixels and
camera metadata it was given; illumination and TLS metadata, shared by the rows
of a wavelength, are a value of their own, with a part for each of its two
groups of datasets.  `AppendFails` cuts the call off after any part of the row;
`AppendInterrupted` is a KeyboardInterrupt after the completed bit and before
the counters.  `finalize` writes its flags (`WriteFlags`) and then closes the
file (`CloseFile`), which may raise: the writer then still holds the file, and a
handler's `finalize` writes the flags of the error over the first ones.  `Die`
is the end of the process without a close; any of the flags written so far
(`versions`) may be the last that reached the disk.  `NewRun` is a later run
that is given the same path.  `SurveyAccepts` is what
`build_full_frame_psf_survey` demands of its source.  `CaptureLedger` says:
entries are whole, entered in schedule order and immutable; the file is accepted
only when all are there; a file whose writer died may have lost any of them.
What HDF5
had not flushed when the writer died is unknown, so nothing is claimed of the
rows of an abandoned file; for the verdict on it they are taken as written, the
worst case, and the flags are any of those written.  A file is accepted after
its writer died only if it had been flagged as complete and successful, and only
its close was missing.

### CaptureRun

`CaptureRun` uses the writer of `RawCaptureWriter` as it is and adds the task
around it, from the plan to the published result.  `pc` is the position in
`run_capture_dataset`, `wi` and `mi` are its loop variables; `display`, `light`
and `setting` are what LCD, TLS and camera are set to, together the condition
of the apparatus.

The camera runs freely: `Expose` may happen at any moment and puts a frame into
the ring.  A frame stands for the condition it was exposed under; one during
which the condition changed is `Mixed`.  The transport is abstract: `Recv` gives
any frame of the ring not yet given.  `FrameStream` is where that is justified.
`state.json` is `disk`, a value of its own, because an update is lost when the
file cannot be replaced in five attempts.  Any call of a device or of the writer
may raise, the first `finalize` between its flags and its close, and that of the
except clause before its flags or after them; the run may be interrupted
(KeyboardInterrupt) or killed, and a second run may be given the same plan and
path.  Validation of masks and of the runtime policy is a refusal before the
file exists.

### ExposureSearch

One action per probe: lower bound, upper bound, midpoints.  What a probe sees is
chosen freely, and may be another thing the next time, so that nothing rests on
the light being steady; `Steady` is a premise only where the two selections are
compared.  `trial` holds the rows of the bisection under way, `rows` those of
finished gains, because the code throws the former away when a lower bound is
unsafe.  A row's `seen` has three parts: the peak, the signal the published row
is chosen by, and whether the row is usable, which in the code also depends on
the dynamic range and so is an answer of its own: of two safe rows the stronger
may be the unusable one.  `Steady` says of both that they do not get worse with
a longer exposure.  The bounds are read again for each gain and may differ.
Peaks and signals are data in as many steps as the code's thresholds tell apart.
Exposures are integers on the grid on which halving is exact.

### TLSSession

Two threads call one service without a lock.  `call[t]` is the call of a thread:
operation, argument, position and the status it read or will return.  `dev` is
the vendor's device: it may raise at any call, may still be turning after a
timeout, and answers `get_status` while it moves, as the `moving` of its status
is for.  A status is replaced as a whole; the code reads the fields one after
the other, which TLC would only have more interleavings of.  `file` is
`tls_state.json`: each publication writes it or gives up (`WriteState`), because
the service swallows a write that has used up its attempts.  The GUI builds the
service without a status directory, which is the case that every write is lost.
`overlap`, `failed` and `lost` (the newest write was given up) are history
variables that the properties use.  `set_grating` changes no part of a status
that is modelled.

### SidecarLifecycle

A program is the GUI, which runs a `SessionController`, or a script.  `step` is
the statement of the program, `at` and `try` the position in `_ensure_sidecar`,
`cur` the process it has just started, `handle` the client's `SidecarHandle`,
`flags` what a session believes to be open.  `sock` is the REQ socket of the
request under way; a request that has reached one of the places of `inbox` is
served though its sender has given up, which is what a timeout means here.  The
places have no order: the sidecar takes the requests of different sockets in
any.  Only one process can bind the ports; one that cannot ends by itself.  A
script may be interrupted while it uses the camera, and Ctrl+C reaches the
sidecar it has started; sidecars may die and may be started by hand.

### StatusFiles

Masks are numbered as they are shown; a status file is the number of the mask it
speaks of, for `lcd_state.json` with the preview it names.  A progress is the
mask of the capture that `capture_index` counts to and how it counts (`stage`):
while the frames of a mask are taken it is the one shown, but `wavelength_ready`
and `capture_appended` publish the index of the next capture while the old mask
is still displayed.  `Due` is then the oldest mask that fits.  `at` is the next
write of the run, `view` what the monitor has read in this refresh and the read
it makes next.  Every replacement may be given up (five attempts are denied, or
there is no space), and then the old file stays.  On Windows a read may also
find nothing, because the file is being replaced.  A run may end or be killed
between any two writes and the next one use the same directory.  Both monitors
are there: the window and the terminal differ in what they read (`Reads`).

### PreviewSession

`main` is the statement of the main thread in `app/main_gui.py`, `worker` that
of the preview thread.  `told` is the session's account of the LCD, `lastMask`
and `backend` are the service's and what is on the LCD.  `slot`, `polled` and
`panel` are the stations of a frame on its way to the window.  The poll is three
steps of the main thread, with the preview thread between any two: it takes the
pending frame (`Poll`), clears the slot (`Empty`) and draws (`ShowPolled`), which
may raise; the frame is then logged and gone (`unshown`).  `owed` is the newest
frame handed over outside the gap between the first two.  Every call of a
device may raise, the close of the LCD's backend too, which then stays open, and
shutdown catches each one; shutdown runs from the window's
closing, from a failed start and from the program's `finally`, and more than
once.  `stop` waits for the thread for one second, which may be too short:
`late` says that it was.

### ProfileChain

The files are `cameras`, `pupils`, `capture` and `survey`; `job` is the program
that runs with the files and the plan it was given, `step` what it is about to
do.  A camera setting stands for the condition it was searched under, since its
being right depends on nothing else the system controls: what the LCD showed
and where the light source was.  A pupil is one of a few apertures, a free
choice of the fit.  `apply_camera_params` sets a setting, `capture` keeps the
conditions of its rows.  Programs take any file, ids are chosen freely, so one
id may be given to two profiles, and every program may be abandoned at every
step; light source and camera stay as they were left.  The search inside is
`ExposureSearch` itself, step by step.  A program uses the devices alone.
Between searches the variables of the search are those of one that has not begun.

## 4. Runs

| Run | What it shows | Bounds |
|---|---|---|
| `stream_windows` | a slot keeps its frame until the ring has gone round; packets are whole and less than a ring old; copies are rejected only when their slot was reused | 1 layout, ring of 2, 4 frames, 2 segments, calls with a timeout |
| `stream_posix` | camera, ring, name and notifications stay consistent through failed requests, an interrupt, a kill and a restart; sidecar and reader implement `FrameDelivery` where rings are replaced under the reader | 2 layouts, ring of 1, 2 frames, 2 segments, 1 restart |
| `stream_live` | every call with a timeout returns, whatever the camera delivers meanwhile | 1 layout, ring of 1, frames without end, 2 segments |
| `capture_run` | frames are filed under the condition they were exposed with; rows are whole, flags true, the ledger is implemented; what is published of the progress is true; the file of a completed run is accepted, one closed by a run that raised is not | the task, and beside it any other caller of the writer; 2 wavelengths, 2 masks, 2 shapes, 2 metadata values, 6 calls of the writer, 2 runs, ring of 2, bursts of 2, 1 discarded frame, LCD settle of 3 exposures |
| `profile_chain` | safe and unsafe exposures do not cross, what is published is tight, the selections agree; a pupil is scanned with a setting of its light; a survey's frames were taken as its profiles were calibrated | 2 ids of each kind, 2 apertures, 2 bands, 4 profile files; 2 gains, equal or not; 2 pairs of bounds; 2 halvings; 2 signal levels, usable or not, in the first calibration |
| `sidecar_lifecycle` | no launched process is forgotten; the camera is closed when all programs have ended | a GUI and a script, both may launch, 2 Python commands, 2 processes, 1 request waiting |
| `status_files` | settled files agree; pictures are never older than the texts shown beside them | Windows, 2 masks shown, any number of runs and refreshes |
| `preview_session` | the LCD shows what the session says; the newest frame arrives; a shutdown is quiet; the preview thread lets go | 2 masks, 4 frames |
| `tls_session` | session and service agree, and with device and file where nothing failed; every move ends | 4 commands, 2 wavelengths |
| `tls_session_stale` | violation, see 7 | the same |
| `capture_raised` | violation, see 7 | 1 capture, 1 call, 1 run |
| `stream_posix_remap` | violation, see 7 | 2 layouts, ring of 2, 3 frames, 2 segments |

The bounds suffice for the cases that matter: a ring of two slots is overwritten
twice by four frames, and a ring of one slot by every further frame; two
segments are the least with which a reader can be attached to the wrong one, two
layouts the least with which it can decode with the wrong one.  The notification
pipe and the inbox hold one or two messages, as the high-water marks of one in
the code do.  Two gains are the least with which a search can stop at a higher
one, two halvings the least with which both ends of the bracket can have moved.
Four commands can connect, move, and give two others during the move.  Six
calls fill the four rows of the plan and leave two that fail on the way.  The task
ends at the first call that fails; `MCCaptureRun` therefore lets the writer alone
be called in every way its interface allows as well, so that a call is retried on
a row that holds parts of another, and a writer whose commit was interrupted is
finalized.  In `stream_live` the producer has no last frame: `MCFrameStreamLive`
forgets frames that nothing refers to any more and numbers the others anew, so
that the run is finite and overwriting may go on for ever; the bound on frames is
never reached.  Four frames let one come in the gap of the poll and others
before, while and after one is drawn.  In `profile_chain` the first calibration
sees signal and usability in every combination, the later ones only usable rows
that are strong and unusable ones that are weak, as a search keeps nothing of the
one before it.  Four profiles are two of a pupil, a
broadband and a per-band one: one more than a survey rests on, so that two
pupils can be confused.  Profiles are made before the capture, because a survey
cannot tell when a file was made.  Two programs and two processes are the least
with which a ping is answered by another program's sidecar.  Two masks are the
least with which a picture can be older than its text.  The proofs lift all of
these bounds for the safety properties.

`FramesMatchPlan` needs an LCD settle time longer than a ring of exposures: with
`LcdSettle` equal to the size of the ring TLC finds a frame of the mask before
in the burst.  The capture plan's default is 500 ms; the calibration tasks' is
20 ms, which nothing in the code compares with the frame rate.
`docs/architecture.md:12` asks the experiment for "sufficient" settling.  The
property is thus a statement about plans that give it.

Symmetry is declared for layouts, shapes, metadata values, ids and apertures,
which the models only compare; never in a run with liveness.

Deadlock is checked except where the system may stop: a finished run has nothing
left to do in `capture_run`, nor has the laboratory after its survey in
`profile_chain`, nor have programs that have ended in `sidecar_lifecycle` and
`preview_session`; in `tls_session` the operator may give no further command;
and in `stream_posix`, where calls have no timeout, a reader may wait for ever
for a sidecar that has ended.  The other runs of the stream check it.

Fairness.  `MovesEnd` assumes weak fairness of the worker: it is a thread of the
executor and every call it makes to the device is given a timeout.  The operator
promises nothing.  `StreamReleased` assumes weak fairness of the preview thread:
its receive has a timeout and it looks at the stop event after each.
`RecvReturns` assumes weak fairness of the reader's own steps
(the consumer's thread is scheduled; none of its steps waits for another
process, because `poll` has a deadline) and of the clock.  Frames, requests
and new calls are not promised.

## 5. Proofs

Every safety invariant of the passing runs is proved for every value of the
constants, and so are the two refinements.  None of the invariants that matter is
inductive as it stands; each module proves one that is (`SidecarInv`,
`StreamInv`, `WriterInv`, `RunInv`, `SearchInv`, `ChainInv`, `TLSInv`, `LifeInv`,
`StatusInv`, `SessionInv`), from the initial states and step by step, and the
theorems follow from it.

**`CameraSidecarProofs`**: the types of the sidecar and the invariants about it
that `stream_posix` and `stream_windows` check, for every set of layouts, ring
size, pipe capacity and bound, on Windows and POSIX.  `SidecarInv` adds

- `WritingHolds`: while a slot is written camera, ring and layout are those the
  capture was checked against, which is what the lock is for;
- `GoneReleases`: a process that is gone holds no ring;
- `NotesTruthfulInv`: the segment a notification names exists.  It is preserved
  because history is append-only (`PastKept`) and only one step makes a
  notification (`NotesKept`, `OneNoteAdded`);
- `NotesPlaced`: counted round the ring, a notification is as far behind the
  write index as behind the sequence number.  `RoundTheRing` is the arithmetic:
  while a notification lags by less than the ring size, the index being written
  is not its own.

**`FrameStreamProofs`**: the invariants of `stream_windows` about the reader and
the refinement of `FrameDelivery`, for every ring and socket.  `StreamIsSidecar`
says that a reader only does to the sidecar's variables what its specification
allows, so that `SidecarInv` holds beside a reader too.  `StreamInv` adds

- `HeldIsKnown`: a notification stays truthful and in its place after the reader
  has taken it, and `InOrder`, `LastIsBehind`: notifications come in the order of
  their frames and later than the last packet, through the pipe, the socket's
  queue and a lost message.  This is what `StreamImplementsDelivery` needs;
- `SlotsRecent`: how many frames of its ring are younger than what a slot holds
  is read off the slot's distance from the write index.  With `CopyRecent`, the
  same of a copy that is half done, it bounds staleness (`BoundedStaleness`);
- `FreshIsFound`: on Windows, a slot that is neither reused nor replaced holds
  what its notification promised, so a rejected copy proves reuse.  On POSIX
  this is false; `stream_posix_remap` shows it.  The theorem
  `RejectionsAreReuse` has `Windows` as its premise for that reason alone.

**`CaptureProofs`**: first the writer, called in every way its interface allows,
for plans of any size.  `WriterInv` adds `RowsAreCounted`: the completed rows are
a prefix of the schedule as long as the counter says, except between an interrupt
and finalize, when there may be one more.  Then the run: each of its steps is a
step of the writer or leaves it alone (`RunIsWriter`), so rows, flags and ledger
carry over (`RunFileIsTruthful`, `RunImplementsLedger`).  `RunInv` adds

- `TaskHoldsWriter` and `LoopCounts`: at each statement the state of the writer
  and the number of its rows, from which `StatusNotAhead`, `CompletedIsAccepted`
  and `RaisedIsRejected` follow, whatever was lost, raised or killed.  The last
  speaks of a file the run got closed, with the error in its flags even if those
  of success were there before; section 7 has the other case;
- `ApparatusIsSet`: what LCD, light source and camera are set to there;
- `SettlingFrames`: of the frames in the ring, those exposed after the mask was
  shown are as many as exposures were waited for, less the one in progress; so a
  burst taken after more exposures than the ring holds is of now (`BurstIsNow`).

`StoredFramesMatchPlan` has this settling time as the premise of the invariant
itself; section 4 says why it is needed.

**`ProfileChainProofs`**: first the search, for every list of gains, all bounds
and any number of halvings.  `SearchInv` adds

- `Bracket`: safe rows lie up to `low`, unsafe rows from `high` on, there is one
  at each, and the two are apart by the width of the bounds, halved as often as
  midpoints were probed (`HalfStep`, `HalfSum`, `StillOpen` are the arithmetic);
- `Placed`: rows belong to the bisection, and so to the gain, they are kept for;
- `Tight`: the longest safe row of a finished bisection is the upper bound or
  one last interval below an unsafe row;
- and beside it `Supplied`: finished gains have left a safe row.  That such rows
  have a best one (`ReturnedHasProfile`) is drawn from the library's minimum of a
  well-founded relation (`Least`, `Greatest`).

`SearchesOfTheChain` carries all five properties over to the searches of the
calibration programs, each of which begins with `SearchFrom`.  The chain itself
does not depend on what a search answers.  `ChainInv` follows a file: a bench
(`BroadbandBench`, `PupilBench`, `BandBench`, `CaptureBench`) says how LCD, light
and setting stand at each step of a program; this gives what its file was made
under (`FilesCalibrated`), which the next program relies on; `CaptureFits` and
`SurveyFits` say that the profiles a capture and a survey were made with are among
the files and passed the checks of the code.  Unique ids are a premise of
`SurveyIsCalibrated` itself, as files with the same id cannot be told apart.

**`TLSSessionProofs`**: `AccountsAgree` and the types, for any wavelengths and
number of commands.  Without an overlap one thread at a time is in the service
(`OneActive`); `Connection` follows its call place by place as to what session
and service know of the connection, whatever raises, and `Course` as to device,
status, answer and, unless its last write was lost, file, while nothing has
raised.

**`SidecarLifecycleProofs`**: `OwnedIsAccounted` and `CameraReleased`, for any
number of programs, processes, Python commands and waiting requests.  A client
that launches holds no handle yet (`ClientShape`), so a process it has started is
never overwritten.  For the camera: whenever one is open, or a waiting request
could make it stream, some program has yet to close it (`HotIsOwned`,
`Responsible`).  It is preserved because one sidecar serves (`OneServes`), a
waiting request is the one its sender waits for (`LiveFits`), and an abandoned
`OpenCamera` is recorded in `lost` (`OrphansOpenNothing`).

**`StatusFilesProofs`**: the four invariants of `status_files`, for any number of
masks, on Windows and POSIX.  `FilesInv` is about the run alone: files only become
newer, and each is written before the one that names it.  `ViewInv` relates what
a monitor has read so far to the files as they are now: a step of the run keeps it
because files only become newer (`RunStepRenews`), a read because of the order of
the reads.  That a picture fits the progress beside it uses what a published
progress promises (`Due`): the mask of its capture when it is shown, the one
before it when the progress counts ahead.

**`PreviewSessionProofs`**: `LcdAsTold`, `NewestOnPanel` and
`QuietAfterShutdown`, for any masks and frames.  `LcdInv` relates display, service
and session until the reset of a shutdown, `SlotInv` the stations of a frame to
the newest one owed at each of the poll's three steps, whether drawing it
succeeds or raises, and `QuietInv` says
that past a join that did not give up there is no thread.

Assumptions are the named `ASSUME`s of the modules, which TLC evaluates in every
run: positive sizes and bounds, Boolean switches, exposure bounds in order and a
grid on which each width is twice the next, plans that are not empty, programs
that are GUIs or scripts and not both, and "none" values that are not members of
the sets they complete (no layout or metadata value is the missing one, no mask is
the closed display, no TLS status is the file that is not there).  None of them
restricts what the code can do.

Only model-checked: liveness (`RecvReturns`, `MovesEnd`, `StreamReleased`),
which rests on fairness and so on ENABLED, which the prover does not handle; and
the three violations of section 7, which are counterexamples and not theorems.

## 6. Not modelled

Pixel formats, the packing of masks, image processing and floating-point
analysis, among it the fits of the pupil scan; parsing of plans and arguments;
the look of the GUI; logging.

- Session controller: camera property commands, which change nothing the models
  hold and keep no state but the last reply.
- TLS service: identity, grating and error texts.  A failed `set_pass_through`
  leaves target 0 in the service and in `tls_state.json` and the old target in
  the session, which is why `AccountsAgree` speaks of targets only where nothing
  raised.
- Writer: masks, LCD and runtime metadata, written once with the file.
- Chain of profiles: report files (a profile may be there without one), gratings
  (a profile does not record the one it was found with), valid pixel masks,
  settle times and discarded frames, which `CaptureRun` has for the capture, LCD
  identity and geometry, settings changed by hand, captures without profiles,
  which a survey refuses, and dry runs with fake devices, which it does not.
  `SurveyIsCalibrated`
  speaks of entries whose setpoint is the effective wavelength: a setting is
  looked up by the latter and the light source goes to the former, and a plan
  may give two different ones.
- `FrameCaptureHelper.capture_average`, which no program calls, and its
  `timeout_s` beside that of the stream: a stream without a receive timeout
  never lets it look at the clock.

## 7. Findings

`stream_posix_remap`.  A digest mismatch is explained in
`devices/frame_stream.py:241` by "The producer reused this slot, possibly during
our copy."  On POSIX there is another cause: after a reopened camera or a
reconfiguration that changes the layout, the ring is a new segment under the old
name; `_ensure_shm` (line 113) keeps its mapping because the name is the same,
and every fresh, intact frame is rejected until `close()`.  The digest check
keeps wrong pixels from being returned (`ImplementsDelivery` holds), so the
effect is a stream that only times out.  On Windows, the laboratory's platform,
the situation is a different one: the name lives while the reader is attached,
and the reconfiguration itself fails.

`tls_session_stale`.  `tests/test_tls_controller.py:148` says, after
`TLSMoveFinished`, `assert state.tls_moving is False`.  With one more command
during the move it need not be so: the command reads a status that says moving,
the worker finishes and applies its own, then the command applies what it had
read.  The session says moving until another command is given, with nothing
moving.  Nothing orders the two `_apply_tls_status`; the GUI does not disable
its buttons during a move.

`capture_raised`.  `README.md:82` says that "incomplete/failed runs cannot become
a survey".  `finalize` writes `capture_complete` and `run_succeeded`
(`raw_capture_h5.py:653`) and then closes the file (line 654).  When the close
raises, the except clause of `run_capture_dataset` calls `finalize` again with
the error (`capture_dataset.py:479`); if that raises too, which is likely on a
file that is half closed, the run has failed and the flags of success may be what
is on the disk.  All rows are there and whole, as far as they reached it; it is
the statement about the run that is wrong.  `RaisedIsRejected` is what does
hold: a file that a failed run gets closed is rejected.
