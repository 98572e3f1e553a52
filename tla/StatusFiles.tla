------------------------------ MODULE StatusFiles ------------------------------
(***************************************************************************)
(* The status directory: files a capture run publishes and a monitor in     *)
(* another process reads (diagnostics/run_status.py, the publishing half of *)
(* devices/lcd_service.py, scripts/monitor_run_status.py).                  *)
(*                                                                          *)
(* Each file is written to a temporary and moved over the old one, so what  *)
(* a read returns is whole; what several reads return need not belong       *)
(* together, and a write may be given up (its five attempts denied, no      *)
(* space), which the run survives.  The masks shown are numbered through    *)
(* all runs in this directory; a frame and its stats have the number of the *)
(* mask they were taken with.                                               *)
(***************************************************************************)
EXTENDS Naturals, Sequences

CONSTANTS
  Windows,   \* a file cannot be opened while it is being replaced
  MaxShown   \* bound: masks shown in all runs

ASSUME StatusAssumption == Windows \in BOOLEAN /\ MaxShown \in Nat \ {0}

VARIABLES
  file,     \* the contents of the files
  at,       \* the run: the write it is about to make, or "idle"
  shown,    \* masks shown so far
  display,  \* the mask on the LCD, 0 when there is none
  pub,      \* RunStatusPublisher._state
  lost,     \* history: the newest write of lcd_state.json was given up
  view      \* one refresh of a monitor

writerVars == <<file, at, shown, display, pub, lost>>
statusVars == <<writerVars, view>>

None == 0

\* state.json: the mask of the capture that capture_index counts to, whether the
\* phase says that it is shown, that it is the next one or the first one of this
\* run, and whether the fields latest_frame_preview and frame_stats are set.
Fresh == [mask |-> None, stage |-> "none", frame |-> FALSE, stats |-> FALSE]

\* A JSON file that is not there; a preview or stats that are not are None.
Absent == [absent |-> TRUE]

-----------------------------------------------------------------------------
(* Publishing.                                                              *)

\* _replace_status_file: the old content stays until the new one is there.
Replaced(f, new) == file' = [file EXCEPT ![f] = new]
GivenUp == UNCHANGED file

\* RunStatusPublisher.update: the new status is kept even if it is not written.
Update(status) ==
  /\ pub' = status
  /\ Replaced("state", status) \/ GivenUp

-----------------------------------------------------------------------------
(* The run: what follows a write that succeeds and one that raises.         *)

Begin ==
  /\ at = "idle" /\ shown < MaxShown
  /\ at' = "starting"
  /\ UNCHANGED <<file, shown, display, pub, lost, view>>

\* A new publisher knows nothing of the files that are there.
Starting ==
  /\ at = "starting"
  /\ Update(Fresh)
  /\ at' \in {"wavelength_ready", "error"}
  /\ UNCHANGED <<shown, display, lost, view>>

\* show_mono_mask: the backend shows the mask, or raises and fails the run.
Show ==
  /\ at = "show"
  /\ \/ /\ shown < MaxShown
        /\ shown' = shown + 1
        /\ display' = shown + 1
        /\ at' = "png"
     \/ at' = "error" /\ UNCHANGED <<shown, display>>
  /\ UNCHANGED <<file, pub, lost, view>>

\* write_mask_preview: a PNG, else an array, else no preview.
PreviewPng ==
  /\ at = "png"
  /\ \/ Replaced("png", display) /\ at' = "lcd"
     \/ GivenUp /\ at' = "npy"
  /\ UNCHANGED <<shown, display, pub, lost, view>>

\* Mutation of PreviewNpy: the state goes on naming the PNG.
NamesThePng ==
  /\ at = "npy"
  /\ Replaced("npy", display) /\ at' = "lcd"
  /\ UNCHANGED <<shown, display, pub, lost, view>>

PreviewNpy ==
  /\ at = "npy"
  /\ \/ Replaced("npy", display) /\ at' = "lcdnpy"
     \/ GivenUp /\ at' = "lcdnull"
  /\ UNCHANGED <<shown, display, pub, lost, view>>

PreviewOf(step) == CASE step = "lcd" -> "png" [] step = "lcdnpy" -> "npy" [] OTHER -> "null"

\* write_lcd_state names the preview that was written; a failure is swallowed.
PublishLcd ==
  /\ at \in {"lcd", "lcdnpy", "lcdnull"}
  /\ \/ /\ Replaced("lcd", [mask |-> display, preview |-> PreviewOf(at)])
        /\ lost' = FALSE
     \/ GivenUp /\ lost' = TRUE
  /\ at' = "mask_shown"
  /\ UNCHANGED <<shown, display, pub, view>>

\* What follows an update: the loops over wavelengths and masks, the burst.  The
\* devices and the file, which have no part here, may raise instead.
After == [wavelength_ready |-> {"show"},
          mask_shown |-> {"burst_captured", "error"},
          burst_captured |-> {"frame"},
          appended |-> {"show", "wavelength_ready", "completed", "error"},
          completed |-> {"closelcd"}, error |-> {"closelcd"}]

\* What follows the diagnostics: append_capture writes the rows or raises.
Appending == {"appended", "error"}

\* Mutation of Counted: a mask counts as shown when its wavelength is ready.
CountedAsShown(status) ==
  IF at = "error" THEN [status EXCEPT !.mask = None, !.stage = "none"]
  ELSE IF at \in {"wavelength_ready", "mask_shown", "burst_captured"}
  THEN [status EXCEPT !.mask = IF at = "wavelength_ready" THEN shown + 1 ELSE shown,
                      !.stage = "shown"]
  ELSE [status EXCEPT !.mask = shown + 1, !.stage = "next"]

\* capture_index: of the mask on the LCD while its frames are taken, of the next
\* one from capture_appended to mask_shown, and None in an error.
Counted(status) ==
  IF at = "error" THEN [status EXCEPT !.mask = None, !.stage = "none"]
  ELSE IF at \in {"mask_shown", "burst_captured"}
  THEN [status EXCEPT !.mask = shown, !.stage = "shown"]
  ELSE [status EXCEPT !.mask = shown + 1,
                      !.stage = IF display = None THEN "first" ELSE "next"]

Progress ==
  /\ at \in DOMAIN After
  /\ Update(Counted(pub))
  /\ at' \in After[at]
  /\ UNCHANGED <<shown, display, lost, view>>

\* _publish_capture_diagnostics writes a file, then the update that names it,
\* and stops at the first call that raises.
Diagnostic(f, update) ==
  /\ at = f
  /\ \/ Replaced(f, display) /\ at' = update
     \/ GivenUp /\ at' \in Appending
  /\ UNCHANGED <<shown, display, pub, lost, view>>

Naming(update, status, next) ==
  /\ at = update
  /\ pub' = status
  /\ \/ Replaced("state", status) /\ at' \in next
     \/ GivenUp /\ at' \in Appending
  /\ UNCHANGED <<shown, display, lost, view>>

WriteFramePreview ==
  \/ Diagnostic("frame", "frameState")
  \/ Naming("frameState", [pub EXCEPT !.frame = TRUE], {"stats"})

WriteFrameStats ==
  \/ Diagnostic("stats", "statsState")
  \/ Naming("statsState", [pub EXCEPT !.stats = TRUE], {"log"})

\* The rows of the log are left out; the update that follows one is not.
AppendLog == Naming("log", pub, Appending)

\* LCDService.close, whatever the run came to.
CloseLcd ==
  /\ at = "closelcd"
  /\ display' = None
  /\ \/ Replaced("lcd", [mask |-> None, preview |-> "null"]) /\ lost' = FALSE
     \/ GivenUp /\ lost' = TRUE
  /\ at' = "idle"
  /\ UNCHANGED <<shown, pub, view>>

\* The process is killed and its window goes; the next run finds its files.
Killed ==
  /\ at # "idle"
  /\ at' = "idle"
  /\ display' = None
  /\ UNCHANGED <<file, shown, pub, lost, view>>

-----------------------------------------------------------------------------
(* A monitor.  One refresh makes its reads in the order of its mode; every   *)
(* read of a JSON file may come back as None (not there, or being replaced). *)

\* Mutation of Reads: the GUI reads both pictures first.
PicturesFirst == [gui |-> <<"state", "lcd", "frame", "mask", "statsName", "stats">>,
                  terminal |-> <<"state", "statsName", "stats", "frameName", "frame", "lcd", "mask">>]

\* (tls_state.json and the log are left out.  The terminal says of a picture
\* only that it could be read; "lcd" is then the read that found its name, and
\* the text of a later read of the same file is left out.)
Reads == [gui |-> <<"state", "statsName", "stats", "lcd", "frame", "mask">>,
          terminal |-> <<"state", "statsName", "stats", "frameName", "frame", "lcd", "mask">>]
NoView == [mode |-> "none", next |-> 1, state |-> Absent, named |-> FALSE,
           stats |-> None, lcd |-> Absent, frame |-> None, mask |-> None, lost |-> FALSE]

\* What a read of f may return.
Read(f) == IF Windows THEN {file[f], Absent} ELSE {file[f]}

\* _read_preview_file, _load_preview_image: an image that cannot be read is
\* not shown.
ReadImage(f) == IF Windows THEN {file[f], None} ELSE {file[f]}

Reading(what) ==
  /\ view.mode # "none"
  /\ view.next <= Len(Reads[view.mode])
  /\ Reads[view.mode][view.next] = what
Got(v) == view' = [v EXCEPT !.next = @ + 1] /\ UNCHANGED writerVars

Refresh(mode) ==
  /\ view.mode = "none"
  /\ view' = [NoView EXCEPT !.mode = mode]
  /\ UNCHANGED writerVars

\* The oldest mask that fits a status: that of the capture it counts to, when it
\* is shown, else that of the capture before it in the same run.
Due(status) ==
  CASE status.stage = "shown" -> status.mask
    [] status.stage = "next" -> status.mask - 1
    [] OTHER -> None

\* What a refresh keeps of a status: the mask that is due beside it, and in the
\* GUI whether it names a frame.
Kept(status) ==
  [mask |-> Due(status), frame |-> view.mode = "gui" /\ status.frame]

\* RunStatusReader.read
ReadState ==
  /\ Reading("state")
  /\ \E got \in Read("state") :
       Got([view EXCEPT !.state = IF got = Absent THEN Absent ELSE Kept(got)])

\* read_frame_stats and the terminal's read_frame_preview read the state for
\* themselves, and then the file it names.
NameOf == [stats |-> "statsName", frame |-> "frameName"]

ReadName ==
  \E f \in DOMAIN NameOf :
    /\ Reading(NameOf[f])
    /\ \E got \in Read("state") : Got([view EXCEPT !.named = got # Absent /\ got[f]])

ReadStats ==
  /\ Reading("stats")
  /\ \E got \in ReadImage("stats") :
       Got([view EXCEPT !.stats = IF view.named THEN got ELSE None, !.named = FALSE])

ReadLcd ==
  /\ Reading("lcd")
  /\ \E got \in Read("lcd") : Got([view EXCEPT !.lcd = got, !.lost = lost])

\* In the GUI the path of the frame is that of the state it shows.
ReadFrame ==
  /\ Reading("frame")
  /\ LET named == IF view.mode = "gui" THEN view.state # Absent /\ view.state.frame
                 ELSE view.named IN
       \E got \in ReadImage("frame") :
         Got([view EXCEPT !.frame = IF named THEN got ELSE None, !.named = FALSE])

\* Mutation of MaskFiles: the first file that is there, whatever the state names.
AnyPreview(lcd) == {"npy", "png"}

\* _mask_preview_path, read_mask_preview: the key of lcd_state.json decides;
\* without it, any file that is there will do.
MaskFiles(lcd) ==
  IF lcd = Absent THEN {"npy", "png"}
  ELSE IF lcd.preview = "null" THEN {} ELSE {lcd.preview}

\* The first file in the order of the names; the terminal tries the next when
\* it cannot be read.
Tried(there) ==
  IF (Windows /\ view.mode = "terminal") \/ "npy" \notin there THEN there ELSE {"npy"}

ReadMask ==
  /\ Reading("mask")
  /\ LET there == {f \in MaskFiles(view.lcd) : file[f] # None} IN
       \E got \in IF there = {} THEN {None} ELSE UNION {ReadImage(f) : f \in Tried(there)} :
         Got([view EXCEPT !.mask = got])

EndRefresh ==
  /\ view.mode # "none" /\ view.next > Len(Reads[view.mode])
  /\ view' = NoView
  /\ UNCHANGED writerVars

-----------------------------------------------------------------------------
StatusInit ==
  /\ file = [state |-> Absent, lcd |-> Absent,
             png |-> None, npy |-> None, frame |-> None, stats |-> None]
  /\ at = "idle" /\ shown = 0 /\ display = None
  /\ pub = Fresh /\ lost = FALSE
  /\ view = NoView

RunStep ==
  \/ Begin \/ Starting \/ Show \/ PreviewPng \/ PreviewNpy \/ PublishLcd \/ Progress
  \/ WriteFramePreview \/ WriteFrameStats \/ AppendLog \/ CloseLcd \/ Killed

MonitorStep ==
  \/ \E mode \in DOMAIN Reads : Refresh(mode)
  \/ ReadState \/ ReadName \/ ReadStats \/ ReadLcd \/ ReadFrame \/ ReadMask \/ EndRefresh

StatusNext == RunStep \/ MonitorStep

StatusSpec == StatusInit /\ [][StatusNext]_statusVars

-----------------------------------------------------------------------------
\* While a run is in progress and no write of lcd_state.json was given up, what
\* that file says is what the LCD shows, and the preview it names is of that
\* mask (LCDService._publish_lcd_state_and_mask_preview).
SettledPreview ==
  at \notin {"idle", "png", "npy", "lcd", "lcdnpy", "lcdnull"} /\ ~lost /\ display # None =>
    /\ file["lcd"].mask = display
    /\ file["lcd"].preview # "null" => file[file["lcd"].preview] = display

\* The image shown beside an LCD state, or read under its name, is of the mask it names or of a later
\* one, never of an earlier one: the preview is replaced before the state that
\* names it, and the monitor reads them in the opposite order.
ImageNotOlderThanState ==
  view.mask # None /\ view.lcd # Absent => view.mask >= view.lcd.mask

\* A frame shown beside stats is the one they were computed from, or a later
\* one, also when its writes fail or a new run uses the directory.
FrameNotOlderThanStats ==
  view.stats # None /\ view.frame # None => view.frame >= view.stats

\* The mask shown with the progress of a capture is not older than the progress:
\* beside mask_shown and burst_captured it is that of the capture counted, beside
\* wavelength_ready, capture_appended and completed, which count to the next one,
\* that of the capture before it, or a later one, unless a write of lcd_state.json
\* was given up.  (It may well be older than the frame beside it: the GUI reads
\* the frame after the LCD state, and a PNG that follows an array leaves the array
\* as it is.)
MaskNotOlderThanProgress ==
  view.mask # None /\ view.lcd # Absent /\ view.state # Absent /\ ~view.lost =>
    view.mask >= view.state.mask
=============================================================================
