--------------------------- MODULE StatusFilesProofs ---------------------------
(***************************************************************************)
(* Proofs about StatusFiles, for every number of masks, on both platforms   *)
(* and for every interleaving of a run with a monitor.  The argument has    *)
(* two halves.  FilesInv speaks of the run and its files alone: masks are   *)
(* numbered upwards, so a file only ever becomes newer, and each file is    *)
(* written before the one that names it.  ViewInv relates what a monitor    *)
(* has read so far to the files as they are now; a step of the run keeps it *)
(* because files only become newer (RunStepRenews), a read because of the   *)
(* order of the reads.                                                      *)
(***************************************************************************)
EXTENDS StatusFiles, Integers, TLAPS

Stages == {"none", "shown", "next", "first"}
StateDoc == [mask : Nat, stage : Stages, frame : BOOLEAN, stats : BOOLEAN]
LcdDoc == [mask : Nat, preview : {"png", "npy", "null"}]

\* The writes of a run at which a mask is on the LCD.
Showing == {"png", "npy", "lcd", "lcdnpy", "lcdnull", "mask_shown",
            "burst_captured", "frame", "frameState", "stats", "statsState", "log", "appended"}
Steps == Showing \cup {"idle", "starting", "wavelength_ready", "show", "completed", "error",
                            "closelcd"}

Names == {"state", "lcd", "png", "npy", "frame", "stats"}

FilesTypeOK ==
  /\ DOMAIN file = Names /\ file = [f \in Names |-> file[f]]
  /\ file["state"] \in StateDoc \cup {Absent}
  /\ file["lcd"] \in LcdDoc \cup {Absent}
  /\ \A f \in {"png", "npy", "frame", "stats"} : file[f] \in Nat
  /\ at \in Steps /\ shown \in Nat /\ display \in {None, shown}
  /\ pub \in StateDoc /\ lost \in BOOLEAN

StateRead == [mask : Int, frame : BOOLEAN] \cup {Absent}
LcdRead == LcdDoc \cup {Absent}
Modes == {"none", "gui", "terminal"}
Positions == Nat \ {0}

ViewTypeOK == view \in [mode : Modes, next : Positions, state : StateRead, named : BOOLEAN,
                        stats : Nat, lcd : LcdRead, frame : Nat, mask : Nat, lost : BOOLEAN]

\* lcd_state.json names a preview.
NamesPreview(lcd) == lcd # Absent /\ lcd.preview # "null"

\* No file is newer than the newest mask.
NothingAhead ==
  /\ \A f \in {"png", "npy", "frame", "stats"} : file[f] <= shown
  /\ Due(pub) <= shown
  /\ file["state"] # Absent => Due(file["state"]) <= shown
  /\ file["lcd"] # Absent => file["lcd"].mask <= shown

\* What the step the run has reached says of the files written before it.
WrittenBefore ==
  /\ at \in Showing => display = shown /\ shown > 0
  /\ at \in {"idle", "starting"} => display = None
  /\ at = "lcd" => file["png"] = display
  /\ at = "lcdnpy" => file["npy"] = display
  /\ at \in {"frameState", "stats", "statsState", "log"} => file["frame"] = display
  /\ at \notin {"idle", "png", "npy", "lcd", "lcdnpy", "lcdnull"} /\ ~lost /\ display # None =>
       /\ file["lcd"] # Absent /\ file["lcd"].mask = display
       /\ NamesPreview(file["lcd"]) => file[file["lcd"].preview] = display

\* Each file is at least as new as the one that follows it.
FilesInOrder ==
  /\ file["stats"] <= file["frame"]
  /\ NamesPreview(file["lcd"]) => file["lcd"].mask <= file[file["lcd"].preview]
  /\ ~lost /\ NamesPreview(file["lcd"]) =>
       /\ Due(pub) <= file["lcd"].mask
       /\ file["state"] # Absent => Due(file["state"]) <= file["lcd"].mask

FilesInv == FilesTypeOK /\ NothingAhead /\ WrittenBefore /\ FilesInOrder

\* What a refresh has not come to is not there.
ReadInOrder ==
  /\ view.mode = "gui" =>
       /\ view.next <= 4 => view.lcd = Absent
       /\ view.next <= 5 => view.frame = None
       /\ view.next <= 6 => view.mask = None
  /\ view.mode = "terminal" =>
       /\ view.next <= 5 => view.frame = None
       /\ view.next <= 6 => view.lcd = Absent
       /\ view.next <= 7 => view.mask = None

\* What has been read, and the files that are still to be read.
ViewAgainstFiles ==
  /\ view.stats <= file["frame"]
  /\ view.state # Absent =>
       /\ view.state.mask <= shown
       /\ ~lost /\ NamesPreview(file["lcd"]) => view.state.mask <= file["lcd"].mask
  /\ NamesPreview(view.lcd) =>
       /\ view.lcd.mask <= file[view.lcd.preview]
       /\ view.state # Absent /\ ~view.lost => view.state.mask <= view.lcd.mask
  /\ view.mask # None /\ view.lcd # Absent => NamesPreview(view.lcd)

ViewInv ==
  /\ ViewTypeOK /\ ReadInOrder /\ ViewAgainstFiles
  /\ ImageNotOlderThanState /\ FrameNotOlderThanStats /\ MaskNotOlderThanProgress

StatusInv == FilesInv /\ ViewInv

-----------------------------------------------------------------------------
(* The files.                                                               *)

LEMMA AbsentIsNoDoc == Absent \notin StateDoc /\ Absent \notin LcdDoc
BY DEF Absent, StateDoc, LcdDoc

LEMMA DueIsMask == \A status \in StateDoc : Due(status) \in Int
BY DEF Due, StateDoc, None

\* An update is of the mask on the LCD, or of none in an error.
LEMMA DueOfCounted ==
  ASSUME FilesTypeOK, WrittenBefore, at \in DOMAIN After
  PROVE  /\ Counted(pub) \in StateDoc
         /\ Due(Counted(pub)) = IF at = "error" THEN None ELSE display
<1>1. shown \in Nat /\ display \in {None, shown} /\ pub \in StateDoc
  BY DEF FilesTypeOK
<1>2. CASE at = "error"
  BY <1>1, <1>2 DEF Counted, Due, StateDoc, Stages, None
<1>3. CASE at \in {"mask_shown", "burst_captured"}
  <2>1. display = shown
    BY <1>3 DEF WrittenBefore, Showing
  <2> QED BY <1>1, <1>3, <2>1 DEF Counted, Due, StateDoc, Stages
<1>4. CASE at \in {"wavelength_ready", "appended", "completed"}
  <2>1. at = "appended" => display = shown /\ shown > 0
    BY DEF WrittenBefore, Showing
  <2> DEFINE stage == IF display = None THEN "first" ELSE "next"
  <2>2. Counted(pub) = [pub EXCEPT !.mask = shown + 1, !.stage = stage]
    BY <1>4 DEF Counted
  <2>3. stage \in {"first", "next"} /\ shown + 1 \in Nat
    BY <1>1
  <2> HIDE DEF stage
  <2>4. Counted(pub) \in StateDoc /\ Counted(pub).mask = shown + 1 /\ Counted(pub).stage = stage
    BY <1>1, <2>2, <2>3 DEF StateDoc, Stages
  <2>5. stage = IF display = None THEN "first" ELSE "next"
    BY DEF stage
  <2> QED BY <1>1, <1>4, <2>4, <2>5 DEF Due, None
<1> QED BY <1>2, <1>3, <1>4 DEF After

\* A file is moved over the old one; the others are left.
LEMMA ReplacedFile ==
  ASSUME FilesTypeOK, NEW f \in Names, NEW new, Replaced(f, new)
  PROVE  /\ DOMAIN file' = Names /\ file' = [g \in Names |-> file'[g]]
         /\ file'[f] = new
         /\ \A g \in Names : g # f => file'[g] = file[g]
BY DEF FilesTypeOK, Replaced

\* A preview, a frame or its stats are written, all of the newest mask.
LEMMA WriteKeeps ==
  ASSUME FilesInv, NEW f \in {"png", "npy", "frame", "stats"}, Replaced(f, display),
         display = shown, f = "stats" => file["frame"] = display,
         UNCHANGED <<shown, display, pub, lost>>, at' \in Steps
  PROVE  FilesTypeOK' /\ NothingAhead' /\ FilesInOrder'
<1>1. /\ DOMAIN file' = Names /\ file' = [g \in Names |-> file'[g]] /\ file'[f] = shown
      /\ \A g \in Names : g # f => file'[g] = file[g]
  BY ReplacedFile DEF FilesInv, Names
<1>2. FilesTypeOK'
  BY <1>1 DEF FilesInv, FilesTypeOK, Names
<1>3. NothingAhead'
  BY <1>1 DEF FilesInv, FilesTypeOK, NothingAhead, Names
<1>4. NamesPreview(file["lcd"]) => file["lcd"].preview \in {"png", "npy"} /\ file["lcd"].mask <= shown
  BY DEF FilesInv, FilesTypeOK, NothingAhead, NamesPreview, LcdDoc
<1>5. FilesInOrder'
  BY <1>1, <1>4 DEF FilesInv, FilesTypeOK, NothingAhead, FilesInOrder, NamesPreview, Names
<1> QED BY <1>2, <1>3, <1>5

\* A status is published, or kept for the next write.
LEMMA UpdateKeeps ==
  ASSUME FilesInv, NEW status \in StateDoc, Update(status), Due(status) <= shown,
         ~lost /\ NamesPreview(file["lcd"]) => Due(status) <= file["lcd"].mask,
         UNCHANGED <<shown, display, lost>>, at' \in Steps
  PROVE  /\ FilesTypeOK' /\ NothingAhead' /\ FilesInOrder'
         /\ \A g \in Names : g # "state" => file'[g] = file[g]
<1>1. pub' = status
  BY DEF Update
<1>2. CASE Replaced("state", status)
  <2>1. /\ DOMAIN file' = Names /\ file' = [g \in Names |-> file'[g]] /\ file'["state"] = status
        /\ \A g \in Names : g # "state" => file'[g] = file[g]
    BY <1>2, ReplacedFile DEF FilesInv, Names
  <2>2. FilesTypeOK'
    BY <1>1, <2>1 DEF FilesInv, FilesTypeOK, Names
  <2>3. NothingAhead'
    BY <1>1, <2>1 DEF FilesInv, FilesTypeOK, NothingAhead, Names
  <2>4. NamesPreview(file["lcd"]) => file["lcd"].preview \in {"png", "npy"}
    BY DEF FilesInv, FilesTypeOK, NamesPreview, LcdDoc
  <2>5. FilesInOrder'
    BY <1>1, <2>1, <2>4 DEF FilesInv, FilesInOrder, NamesPreview, Names
  <2> QED BY <2>1, <2>2, <2>3, <2>5
<1>3. CASE GivenUp
  BY <1>1, <1>3 DEF GivenUp, FilesInv, FilesTypeOK, NothingAhead, FilesInOrder
<1> QED BY <1>2, <1>3 DEF Update

-----------------------------------------------------------------------------
(* Every step of the run keeps FilesInv.                                    *)

LEMMA FilesInitially == StatusInit => FilesInv
<1> SUFFICES ASSUME StatusInit PROVE FilesInv
  OBVIOUS
<1>1. FilesTypeOK
  <2>1. DOMAIN file = Names /\ file = [f \in Names |-> file[f]]
    BY DEF StatusInit, Names
  <2>2. file["state"] = Absent /\ file["lcd"] = Absent
    BY DEF StatusInit
  <2>3. \A f \in {"png", "npy", "frame", "stats"} : file[f] \in Nat
    BY DEF StatusInit, None
  <2>4. pub \in StateDoc
    BY DEF StatusInit, Fresh, StateDoc, Stages, None
  <2> QED BY <2>1, <2>2, <2>3, <2>4 DEF StatusInit, FilesTypeOK, Steps
<1> QED BY <1>1 DEF StatusInit, FilesInv, NothingAhead, WrittenBefore, FilesInOrder, Showing, Fresh,
                    Due, None, NamesPreview

LEMMA StartKeeps == FilesInv /\ (Begin \/ Starting) => FilesInv'
<1> SUFFICES ASSUME FilesInv, Begin \/ Starting PROVE FilesInv'
  OBVIOUS
<1>1. CASE Begin
  BY <1>1 DEF Begin, FilesInv, FilesTypeOK, NothingAhead, WrittenBefore, FilesInOrder, Steps, Showing
<1>2. CASE Starting
  <2>1. Fresh \in StateDoc /\ Due(Fresh) = 0
    BY DEF Fresh, Due, StateDoc, Stages, None
  <2>2. NamesPreview(file["lcd"]) => file["lcd"].mask \in Nat
    BY DEF NamesPreview, FilesInv, FilesTypeOK, LcdDoc
  <2>3. FilesTypeOK' /\ NothingAhead' /\ FilesInOrder'
    BY <1>2, <2>1, <2>2, UpdateKeeps DEF Starting, FilesInv, FilesTypeOK, Steps
  <2>4. WrittenBefore'
    BY <1>2 DEF Starting, FilesInv, WrittenBefore, Showing
  <2> QED BY <2>3, <2>4 DEF FilesInv
<1> QED BY <1>1, <1>2

LEMMA ShowKeeps == FilesInv /\ Show => FilesInv'
<1> SUFFICES ASSUME FilesInv, Show PROVE FilesInv'
  OBVIOUS
<1> USE DEF FilesInv, FilesTypeOK
<1>1. CASE shown' = shown + 1 /\ display' = shown + 1 /\ at' = "png" /\ UNCHANGED <<file, pub, lost>>
  <2>1. shown' \in Nat /\ shown < shown'
     BY <1>1
  <2>2. FilesTypeOK'
    BY <1>1, <2>1 DEF Steps, Showing
  <2>3. NothingAhead'
    BY <1>1, <2>1, AbsentIsNoDoc, DueIsMask DEF LcdDoc, NothingAhead
  <2>4. WrittenBefore'
    BY <1>1, <2>1 DEF WrittenBefore, Showing
  <2>5. FilesInOrder'
    BY <1>1 DEF FilesInOrder, NamesPreview
  <2> QED BY <2>2, <2>3, <2>4, <2>5
<1>2. CASE at' = "error" /\ UNCHANGED <<file, pub, lost, shown, display>>
  <2>1. FilesTypeOK' /\ NothingAhead' /\ FilesInOrder'
    BY <1>2 DEF Steps, NothingAhead, FilesInOrder, NamesPreview
  <2>2. WrittenBefore'
    BY <1>2 DEF WrittenBefore, Showing, Show, NamesPreview
  <2> QED BY <2>1, <2>2
<1> QED BY <1>1, <1>2 DEF Show

LEMMA PreviewKeeps == FilesInv /\ (PreviewPng \/ PreviewNpy) => FilesInv'
<1> SUFFICES ASSUME FilesInv, PreviewPng \/ PreviewNpy PROVE FilesInv'
  OBVIOUS
<1>1. display = shown /\ shown > 0 /\ UNCHANGED <<shown, display, pub, lost>>
  BY DEF PreviewPng, PreviewNpy, FilesInv, WrittenBefore, Showing
<1>2. at' \in {"lcd", "npy", "lcdnpy", "lcdnull"}
  BY DEF PreviewPng, PreviewNpy
<1>3. CASE \/ at' = "lcd" /\ Replaced("png", display)
           \/ at' = "lcdnpy" /\ Replaced("npy", display)
  <2>1. FilesTypeOK' /\ NothingAhead' /\ FilesInOrder'
    BY <1>1, <1>3, WriteKeeps DEF Steps, Showing
  <2>2. WrittenBefore'
    BY <1>1, <1>3, ReplacedFile DEF WrittenBefore, FilesInv, Names, Showing
  <2> QED BY <2>1, <2>2 DEF FilesInv
<1>4. CASE GivenUp /\ at' \in {"npy", "lcdnull"}
  BY <1>1, <1>4 DEF GivenUp, FilesInv, FilesTypeOK, NothingAhead, WrittenBefore, FilesInOrder,
                    Steps, Showing
<1> QED BY <1>3, <1>4 DEF PreviewPng, PreviewNpy

LEMMA PublishLcdKeeps == FilesInv /\ PublishLcd => FilesInv'
<1> SUFFICES ASSUME FilesInv, PublishLcd PROVE FilesInv'
  OBVIOUS
<1> USE DEF FilesInv, FilesTypeOK
<1> DEFINE doc == [mask |-> display, preview |-> PreviewOf(at)]
<1>1. /\ at \in {"lcd", "lcdnpy", "lcdnull"} /\ at' = "mask_shown"
      /\ UNCHANGED <<shown, display, pub>>
      /\ display = shown /\ shown \in Nat /\ shown > 0
  BY DEF PublishLcd, WrittenBefore, Showing
<1>2. doc \in LcdDoc /\ doc.mask = display /\ doc.preview = PreviewOf(at)
  BY <1>1 DEF PreviewOf, LcdDoc
<1>3. NamesPreview(doc) => doc.preview \in {"png", "npy"} /\ file[doc.preview] = display
  BY <1>1, <1>2 DEF PreviewOf, NamesPreview, WrittenBefore
<1>4. CASE Replaced("lcd", doc) /\ lost' = FALSE
  <2> HIDE DEF doc
  <2>1. /\ DOMAIN file' = Names /\ file' = [g \in Names |-> file'[g]]
        /\ file'["lcd"] = doc
        /\ \A g \in Names : g # "lcd" => file'[g] = file[g]
    BY <1>4, ReplacedFile DEF Names
  <2>2. FilesTypeOK'
    BY <1>1, <1>2, <1>4, <2>1 DEF Steps, Showing, Names
  <2>3. NothingAhead'
    BY <1>1, <1>2, <2>1 DEF NothingAhead, Names
  <2>4. WrittenBefore'
    BY <1>1, <1>2, <1>3, <2>1, AbsentIsNoDoc DEF WrittenBefore, Names, Showing
  <2>5. FilesInOrder'
    BY <1>1, <1>2, <1>3, <2>1 DEF FilesInOrder, NothingAhead, NamesPreview, Names
  <2> QED BY <2>2, <2>3, <2>4, <2>5
<1>5. CASE GivenUp /\ lost' = TRUE
  BY <1>1, <1>5 DEF GivenUp, NothingAhead, WrittenBefore, FilesInOrder, Steps, Showing
<1> QED BY <1>4, <1>5 DEF PublishLcd

LEMMA ProgressKeeps == FilesInv /\ Progress => FilesInv'
<1> SUFFICES ASSUME FilesInv, Progress PROVE FilesInv'
  OBVIOUS
<1> DEFINE status == Counted(pub)
<1>1. /\ at \in {"wavelength_ready", "mask_shown", "burst_captured", "appended", "completed", "error"}
      /\ at' \in {"show", "burst_captured", "frame", "wavelength_ready", "completed", "error", "closelcd"}
      /\ Update(status) /\ UNCHANGED <<shown, display, lost>>
      /\ at' \in {"burst_captured", "frame"} => at \in Showing
  BY DEF Progress, After, Showing
<1>2. status \in StateDoc /\ Due(status) = IF at = "error" THEN None ELSE display
  BY <1>1, DueOfCounted DEF FilesInv, After
<1> HIDE DEF status
<1>3. NamesPreview(file["lcd"]) => file["lcd"].mask \in Nat
  BY DEF NamesPreview, FilesInv, FilesTypeOK, LcdDoc
<1>4. ~lost /\ NamesPreview(file["lcd"]) => Due(status) <= file["lcd"].mask
  BY <1>1, <1>2, <1>3 DEF FilesInv, FilesTypeOK, WrittenBefore, None
<1>5. Due(status) <= shown
  BY <1>2 DEF FilesInv, FilesTypeOK, None
<1>6. /\ FilesTypeOK' /\ NothingAhead' /\ FilesInOrder'
      /\ \A g \in Names : g # "state" => file'[g] = file[g]
  BY <1>1, <1>2, <1>4, <1>5, UpdateKeeps DEF Steps, Showing
<1>7. NamesPreview(file["lcd"]) => file["lcd"].preview \in {"png", "npy"}
  BY DEF FilesInv, FilesTypeOK, NamesPreview, LcdDoc
<1>8. WrittenBefore'
  BY <1>1, <1>6, <1>7 DEF FilesInv, WrittenBefore, Names, Showing, NamesPreview
<1> QED BY <1>6, <1>8 DEF FilesInv

LEMMA DiagnosticKeeps ==
  FilesInv /\ (Diagnostic("frame", "frameState") \/ Diagnostic("stats", "statsState")) => FilesInv'
<1> SUFFICES ASSUME FilesInv, NEW f \in {"frame", "stats"}, NEW update \in {"frameState", "statsState"},
                    Diagnostic(f, update), f = "frame" <=> update = "frameState"
             PROVE  FilesInv'
  OBVIOUS
<1>1. /\ at = f /\ display = shown /\ shown > 0 /\ UNCHANGED <<shown, display, pub, lost>>
      /\ f = "stats" => file["frame"] = display
  BY DEF Diagnostic, FilesInv, WrittenBefore, Showing
<1>2. CASE Replaced(f, display) /\ at' = update
  <2>1. FilesTypeOK' /\ NothingAhead' /\ FilesInOrder'
    BY <1>1, <1>2, WriteKeeps DEF Steps, Showing
  <2>2. file'[f] = display /\ \A g \in Names : g # f => file'[g] = file[g]
    BY <1>2, ReplacedFile DEF FilesInv, Names
  <2>3. NamesPreview(file["lcd"]) => file["lcd"].preview \in {"png", "npy"}
    BY DEF FilesInv, FilesTypeOK, NamesPreview, LcdDoc
  <2>4. WrittenBefore'
    BY <1>1, <1>2, <2>2, <2>3 DEF FilesInv, WrittenBefore, Names, Showing, NamesPreview
  <2> QED BY <2>1, <2>4 DEF FilesInv
<1>3. CASE GivenUp /\ at' \in Appending
  BY <1>1, <1>3 DEF GivenUp, FilesInv, FilesTypeOK, NothingAhead, WrittenBefore, FilesInOrder,
                    Steps, Showing, Appending
<1> QED BY <1>2, <1>3 DEF Diagnostic

LEMMA NamingKeeps ==
  ASSUME FilesInv, NEW update \in {"frameState", "statsState", "log"},
         NEW status \in StateDoc, Due(status) = Due(pub),
         NEW next \in {{"stats"}, {"log"}, Appending}, Naming(update, status, next)
  PROVE  FilesInv'
<1>1. /\ at = update /\ Update(status) /\ UNCHANGED <<shown, display, lost>>
      /\ at' \in {"stats", "log", "appended", "error"}
  BY DEF Naming, Update, Appending
<1>2. /\ FilesTypeOK' /\ NothingAhead' /\ FilesInOrder'
      /\ \A g \in Names : g # "state" => file'[g] = file[g]
  BY <1>1, UpdateKeeps DEF FilesInv, NothingAhead, FilesInOrder, Steps, Showing
<1>3. NamesPreview(file["lcd"]) => file["lcd"].preview \in {"png", "npy"}
  BY DEF FilesInv, FilesTypeOK, NamesPreview, LcdDoc
<1>4. WrittenBefore'
  BY <1>1, <1>2, <1>3 DEF FilesInv, WrittenBefore, Names, Showing, NamesPreview
<1> QED BY <1>2, <1>4 DEF FilesInv

LEMMA DiagnosticsKeep ==
  FilesInv /\ (WriteFramePreview \/ WriteFrameStats \/ AppendLog) => FilesInv'
<1> SUFFICES ASSUME FilesInv, WriteFramePreview \/ WriteFrameStats \/ AppendLog PROVE FilesInv'
  OBVIOUS
<1>1. ASSUME NEW status \in {pub, [pub EXCEPT !.frame = TRUE], [pub EXCEPT !.stats = TRUE]}
      PROVE  status \in StateDoc /\ Due(status) = Due(pub)
  BY DEF FilesInv, FilesTypeOK, StateDoc, Due
<1>2. CASE Naming("frameState", [pub EXCEPT !.frame = TRUE], {"stats"})
  BY <1>1, <1>2, NamingKeeps
<1>3. CASE Naming("statsState", [pub EXCEPT !.stats = TRUE], {"log"})
  BY <1>1, <1>3, NamingKeeps
<1>4. CASE Naming("log", pub, Appending)
  BY <1>1, <1>4, NamingKeeps
<1> QED BY <1>2, <1>3, <1>4, DiagnosticKeeps DEF WriteFramePreview, WriteFrameStats, AppendLog

LEMMA EndKeeps == FilesInv /\ (CloseLcd \/ Killed) => FilesInv'
<1> SUFFICES ASSUME FilesInv, CloseLcd \/ Killed PROVE FilesInv'
  OBVIOUS
<1> USE DEF FilesInv, FilesTypeOK
<1>1. at' = "idle" /\ display' = None /\ shown' = shown /\ pub' = pub
  BY DEF CloseLcd, Killed
<1> DEFINE dark == [mask |-> None, preview |-> "null"]
<1>2. CASE Replaced("lcd", dark) /\ lost' = FALSE
  <2>1. dark \in LcdDoc /\ dark.mask = 0 /\ dark.preview = "null"
    BY DEF LcdDoc, None
  <2> HIDE DEF dark
  <2>2. /\ DOMAIN file' = Names /\ file' = [g \in Names |-> file'[g]]
        /\ file'["lcd"] = dark
        /\ \A g \in Names : g # "lcd" => file'[g] = file[g]
    BY <1>2, ReplacedFile DEF Names
  <2>3. FilesTypeOK'
    BY <1>1, <1>2, <2>1, <2>2 DEF Steps, Names
  <2>4. NothingAhead' /\ WrittenBefore' /\ FilesInOrder'
    BY <1>1, <2>1, <2>2 DEF NothingAhead, WrittenBefore, FilesInOrder, NamesPreview, Names, Showing
  <2> QED BY <2>3, <2>4
<1>3. CASE UNCHANGED file /\ lost' \in {lost, TRUE}
  BY <1>1, <1>3 DEF NothingAhead, WrittenBefore, FilesInOrder, Steps, Showing
<1> QED BY <1>2, <1>3 DEF CloseLcd, Killed, GivenUp

LEMMA RunStepKeepsFiles == FilesInv /\ RunStep => FilesInv'
BY StartKeeps, ShowKeeps, PreviewKeeps, PublishLcdKeeps, ProgressKeeps,
   DiagnosticsKeep, EndKeeps DEF RunStep

-----------------------------------------------------------------------------
(* What a step of the run does to what a monitor has read.                  *)

\* The pictures only become newer, and an LCD state is the old one or names
\* the newest mask.
LEMMA RunStepRenews ==
  ASSUME FilesInv, RunStep
  PROVE  /\ UNCHANGED view /\ shown <= shown'
         /\ \A f \in {"png", "npy", "frame"} : file[f] <= file'[f]
         /\ ~lost' /\ NamesPreview(file'["lcd"]) =>
              \/ file'["lcd"].mask = shown'
              \/ ~lost /\ file'["lcd"] = file["lcd"]
<1> USE DEF FilesInv, FilesTypeOK
<1>1. CASE PreviewPng \/ PreviewNpy \/ WriteFramePreview \/ WriteFrameStats \/ AppendLog
  <2>1. UNCHANGED <<view, shown, display, lost>> /\ display = shown
    BY <1>1 DEF PreviewPng, PreviewNpy, WriteFramePreview, WriteFrameStats, AppendLog,
                Diagnostic, Naming, WrittenBefore, Showing
  <2>2. UNCHANGED file \/ \E f \in Names \ {"lcd", "state"} : Replaced(f, display)
                       \/ \E status : Replaced("state", status)
    BY <1>1 DEF PreviewPng, PreviewNpy, WriteFramePreview, WriteFrameStats, AppendLog,
                Diagnostic, Naming, GivenUp, Names
  <2>3. file'["lcd"] = file["lcd"] /\ \A f \in {"png", "npy", "frame"} : file'[f] \in {file[f], shown}
    BY <2>1, <2>2, ReplacedFile DEF Names
  <2> QED BY <2>1, <2>3 DEF NothingAhead
<1>2. CASE Starting \/ Progress
  <2>1. UNCHANGED <<view, shown, lost>> /\ \E status : Update(status)
    BY <1>2 DEF Starting, Progress
  <2>2. \A g \in Names : g # "state" => file'[g] = file[g]
    BY <2>1, ReplacedFile DEF Update, GivenUp, Names
  <2> QED BY <2>1, <2>2 DEF Names
<1>3. CASE PublishLcd \/ CloseLcd
  <2>1. UNCHANGED <<view, shown>>
    BY <1>3 DEF PublishLcd, CloseLcd
  <2>2. CASE PublishLcd /\ Replaced("lcd", [mask |-> display, preview |-> PreviewOf(at)])
    <3>1. file'["lcd"].mask = shown
      BY <2>2, ReplacedFile DEF PublishLcd, WrittenBefore, Showing, Names
    <3>2. \A g \in Names : g # "lcd" => file'[g] = file[g]
      BY <2>2, ReplacedFile DEF Names
    <3> QED BY <2>1, <3>1, <3>2 DEF Names
  <2>3. CASE CloseLcd /\ Replaced("lcd", [mask |-> None, preview |-> "null"])
    <3>1. ~NamesPreview(file'["lcd"])
      BY <2>3, ReplacedFile DEF NamesPreview, Names
    <3>2. \A g \in Names : g # "lcd" => file'[g] = file[g]
      BY <2>3, ReplacedFile DEF Names
    <3> QED BY <2>1, <3>1, <3>2 DEF Names
  <2>4. CASE UNCHANGED file /\ lost' = TRUE
    BY <2>1, <2>4
  <2> QED BY <1>3, <2>2, <2>3, <2>4 DEF PublishLcd, CloseLcd, GivenUp
<1>4. CASE Begin \/ Show \/ Killed
  <2>1. UNCHANGED <<view, file, lost>> /\ shown' \in {shown, shown + 1}
    BY <1>4 DEF Begin, Show, Killed
  <2> QED BY <2>1
<1> QED BY <1>1, <1>2, <1>3, <1>4 DEF RunStep

LEMMA RunStepKeepsView == FilesInv /\ FilesInv' /\ ViewInv /\ RunStep => ViewInv'
<1> SUFFICES ASSUME FilesInv, FilesInv', ViewInv, RunStep PROVE ViewInv'
  OBVIOUS
<1>1. /\ UNCHANGED view /\ shown <= shown'
      /\ \A f \in {"png", "npy", "frame"} : file[f] <= file'[f]
      /\ ~lost' /\ NamesPreview(file'["lcd"]) =>
           \/ file'["lcd"].mask = shown'
           \/ ~lost /\ file'["lcd"] = file["lcd"]
  BY RunStepRenews
<1>2. ViewTypeOK' /\ ReadInOrder' /\ ImageNotOlderThanState' /\ FrameNotOlderThanStats'
      /\ MaskNotOlderThanProgress'
  BY <1>1 DEF ViewInv, ViewTypeOK, ReadInOrder, ImageNotOlderThanState, FrameNotOlderThanStats,
              MaskNotOlderThanProgress
<1>3. /\ shown \in Nat /\ shown' \in Nat
      /\ \A f \in {"png", "npy", "frame"} : file[f] \in Nat /\ file'[f] \in Nat
  BY DEF FilesInv, FilesTypeOK
<1>4. /\ view.stats \in Nat
      /\ view.state # Absent => view.state.mask \in Int
      /\ NamesPreview(view.lcd) => view.lcd.mask \in Nat /\ view.lcd.preview \in {"png", "npy"}
  BY DEF ViewInv, ViewTypeOK, NamesPreview, StateRead, LcdRead, LcdDoc
<1>5. view.stats <= file'["frame"]
  <2>1. view.stats <= file["frame"]
    BY DEF ViewInv, ViewAgainstFiles
  <2> QED BY <2>1, <1>1, <1>3, <1>4
<1>6. ASSUME view.state # Absent
      PROVE  /\ view.state.mask <= shown'
             /\ ~lost' /\ NamesPreview(file'["lcd"]) => view.state.mask <= file'["lcd"].mask
  <2>1. /\ view.state.mask <= shown
        /\ ~lost /\ NamesPreview(file["lcd"]) => view.state.mask <= file["lcd"].mask
    BY <1>6 DEF ViewInv, ViewAgainstFiles
  <2>2. view.state.mask <= shown'
    BY <2>1, <1>1, <1>3, <1>4, <1>6
  <2> QED BY <2>1, <2>2, <1>1
<1>7. NamesPreview(view.lcd) => view.lcd.mask <= file'[view.lcd.preview]
  BY <1>1, <1>3, <1>4 DEF ViewInv, ViewAgainstFiles
<1>8. ViewAgainstFiles'
  BY <1>1, <1>5, <1>6, <1>7 DEF ViewInv, ViewAgainstFiles
<1> QED BY <1>2, <1>8 DEF ViewInv

-----------------------------------------------------------------------------
(* A refresh.                                                               *)

\* Where each read stands in the order of its mode.
LEMMA ReadingPositions ==
  ASSUME ViewTypeOK
  PROVE  /\ Reading("state") => view.mode \in {"gui", "terminal"} /\ view.next = 1
         /\ Reading("frameName") => view.mode = "terminal" /\ view.next = 4
         /\ Reading("statsName") => view.mode \in {"gui", "terminal"} /\ view.next = 2
         /\ Reading("stats") => view.mode \in {"gui", "terminal"} /\ view.next = 3
         /\ Reading("lcd") => \/ view.mode = "gui" /\ view.next = 4
                              \/ view.mode = "terminal" /\ view.next = 6
         /\ Reading("frame") => view.mode \in {"gui", "terminal"} /\ view.next = 5
         /\ Reading("mask") => \/ view.mode = "gui" /\ view.next = 6
                               \/ view.mode = "terminal" /\ view.next = 7
<1>1. view.mode \in {"none", "gui", "terminal"} /\ view.next \in Nat \ {0}
  BY DEF ViewTypeOK, Modes, Positions
<1>2. CASE view.mode = "gui"
  <2>1. Reads[view.mode] = <<"state", "statsName", "stats", "lcd", "frame", "mask">>
    BY <1>2 DEF Reads
  <2>2. Len(Reads[view.mode]) = 6 /\ (view.next <= 6 => view.next \in {1, 2, 3, 4, 5, 6})
    BY <1>1, <2>1
  <2> QED BY <1>1, <1>2, <2>1, <2>2 DEF Reading
<1>3. CASE view.mode = "terminal"
  <2>1. Reads[view.mode] = <<"state", "statsName", "stats", "frameName", "frame", "lcd", "mask">>
    BY <1>3 DEF Reads
  <2>2. Len(Reads[view.mode]) = 7 /\ (view.next <= 7 => view.next \in {1, 2, 3, 4, 5, 6, 7})
    BY <1>1, <2>1
  <2> QED BY <1>1, <1>3, <2>1, <2>2 DEF Reading
<1> QED BY <1>1, <1>2, <1>3 DEF Reading

\* A read of a JSON file returns what it holds, or nothing.
LEMMA ReadReturns ==
  ASSUME FilesInv
  PROVE  /\ Read("state") \subseteq {file["state"], Absent} /\ file["state"] \in StateDoc \cup {Absent}
         /\ Read("lcd") \subseteq {file["lcd"], Absent} /\ Read("lcd") \subseteq LcdRead
         /\ \A f \in {"png", "npy", "frame", "stats"} :
              ReadImage(f) \subseteq {file[f], None} /\ file[f] \in Nat
BY DEF Read, ReadImage, FilesInv, FilesTypeOK, LcdRead

LEMMA BeginKeepsView ==
  ASSUME FilesInv, ViewInv, (\E mode \in DOMAIN Reads : Refresh(mode)) \/ EndRefresh
  PROVE  ViewInv'
<1>1. NoView.state = Absent /\ NoView.lcd = Absent /\ NoView.mask = None /\ NoView.frame = None
      /\ NoView.stats = None /\ NoView.next = 1
  BY DEF NoView
<1>2. /\ UNCHANGED writerVars
      /\ view' = NoView \/ \E mode \in Modes : view' = [NoView EXCEPT !.mode = mode]
  <2>1. DOMAIN Reads = {"gui", "terminal"}
    BY DEF Reads
  <2> QED BY <2>1 DEF Refresh, EndRefresh, Modes
<1>3. ViewTypeOK'
  <2>1. 1 \in Positions /\ Absent \in StateRead /\ Absent \in LcdRead /\ 0 \in Nat
    BY DEF Positions, StateRead, LcdRead
  <2>2. "none" \in Modes
    BY DEF Modes
  <2>3. NoView \in [mode : Modes, next : Positions, state : StateRead, named : BOOLEAN,
                   stats : Nat, lcd : LcdRead, frame : Nat, mask : Nat, lost : BOOLEAN]
    BY <2>1, <2>2 DEF NoView, None
  <2> HIDE DEF NoView
  <2> QED BY <1>2, <2>3 DEF ViewTypeOK
<1>4. view'.state = Absent /\ view'.lcd = Absent /\ view'.mask = None /\ view'.frame = None
      /\ view'.stats = None
  BY <1>1, <1>2 DEF NoView
<1>5. ReadInOrder' /\ ViewAgainstFiles'
  BY <1>2, <1>4 DEF ReadInOrder, ViewAgainstFiles, NamesPreview, None, writerVars, FilesInv, FilesTypeOK
<1> QED BY <1>3, <1>4, <1>5 DEF ViewInv, ImageNotOlderThanState, FrameNotOlderThanStats,
                                MaskNotOlderThanProgress

LEMMA ReadStateKeepsView ==
  ASSUME FilesInv, ViewInv, ReadState
  PROVE  ViewInv'
<1> DEFINE Known(got) == IF got = Absent THEN Absent ELSE Kept(got)
<1>1. Reading("state") /\ \E got \in Read("state") : Got([view EXCEPT !.state = Known(got)])
  BY DEF ReadState
<1>2. PICK got \in Read("state") :
        /\ UNCHANGED writerVars
        /\ view' = [view EXCEPT !.state = Known(got), !.next = view.next + 1]
  BY <1>1 DEF Got, ViewInv, ViewTypeOK
<1>3. /\ got \in {file["state"], Absent} /\ Known(got) \in StateRead
      /\ Known(got) # Absent => got = file["state"] /\ got # Absent /\ Known(got).mask = Due(got)
  <2>1. got \in {file["state"], Absent} /\ got \in StateDoc \cup {Absent}
    BY <1>2, ReadReturns
  <2>2. CASE got # Absent
    <3>1. got \in StateDoc /\ Due(got) \in Int /\ got.frame \in BOOLEAN
      BY <2>1, <2>2, DueIsMask DEF StateDoc
    <3>2. Known(got) = Kept(got) /\ Kept(got) \in StateRead /\ Kept(got).mask = Due(got)
      BY <2>2, <3>1 DEF Kept, StateRead
    <3> QED BY <2>1, <2>2, <3>2
  <2>3. CASE got = Absent
    BY <2>1, <2>3 DEF StateRead
  <2> QED BY <2>2, <2>3
<1> HIDE DEF Known
<1>4. /\ view.mode \in {"gui", "terminal"} /\ view.next = 1
      /\ view.lcd = Absent /\ view.mask = None /\ view.frame = None
  BY <1>1, ReadingPositions DEF ViewInv, ReadInOrder
<1>5. ViewTypeOK'
  <2>1. view.next + 1 \in Positions
    BY DEF ViewInv, ViewTypeOK, Positions
  <2> QED BY <1>2, <1>3, <2>1 DEF ViewInv, ViewTypeOK
<1>6. /\ view'.state = Known(got) /\ view'.lcd = Absent /\ view'.mask = None /\ view'.frame = None
      /\ view'.stats = view.stats /\ view'.next = view.next + 1 /\ view'.mode = view.mode
  BY <1>2, <1>4 DEF ViewInv, ViewTypeOK
<1>7. ReadInOrder'
  BY <1>6 DEF ReadInOrder
<1>8. ViewAgainstFiles'
  BY <1>2, <1>3, <1>6 DEF ViewInv, ViewAgainstFiles, NamesPreview, writerVars, FilesInv, NothingAhead,
                          FilesInOrder
<1> QED BY <1>5, <1>6, <1>7, <1>8 DEF ViewInv, ImageNotOlderThanState, FrameNotOlderThanStats,
                                      MaskNotOlderThanProgress

LEMMA ReadStatsKeepsView ==
  ASSUME FilesInv, ViewInv, ReadName \/ ReadStats
  PROVE  ViewInv'
<1>1. UNCHANGED writerVars
  BY DEF ReadName, ReadStats, Got
<1>2. /\ (view.mode = "gui" /\ view.next \in {2, 3}) \/ (view.mode = "terminal" /\ view.next \in {2, 3, 4})
      /\ view.frame = None /\ view.mask = None
  <2>1. Reading("statsName") \/ Reading("frameName") \/ Reading("stats")
    <3>1. DOMAIN NameOf = {"stats", "frame"} /\ NameOf["stats"] = "statsName" /\ NameOf["frame"] = "frameName"
      BY DEF NameOf
    <3> QED BY <3>1 DEF ReadName, ReadStats
  <2>2. (view.mode = "gui" /\ view.next \in {2, 3}) \/ (view.mode = "terminal" /\ view.next \in {2, 3, 4})
    BY <2>1, ReadingPositions DEF ViewInv
  <2> QED BY <2>2 DEF ViewInv, ReadInOrder
<1>3. /\ view'.next = view.next + 1 /\ view'.mode = view.mode
      /\ view'.state = view.state /\ view'.lcd = view.lcd /\ view'.lost = view.lost
      /\ view'.mask = None /\ view'.frame = None
      /\ view'.stats \in {view.stats, None, file["stats"]}
      /\ ViewTypeOK'
  <2>0. view.next + 1 \in Positions /\ None \in Nat
    BY DEF ViewInv, ViewTypeOK, Positions, None
  <2>1. CASE ReadName
    <3>1. PICK got \in Read("state"), f \in DOMAIN NameOf :
            view' = [[view EXCEPT !.named = got # Absent /\ got[f]] EXCEPT !.next = @ + 1]
      BY <2>1 DEF ReadName, Got
    <3>2. (got # Absent /\ got[f]) \in BOOLEAN
      OBVIOUS
    <3> QED BY <1>2, <2>0, <3>1, <3>2 DEF ViewInv, ViewTypeOK
  <2>2. CASE ReadStats
    <3>1. PICK got \in ReadImage("stats") :
            view' = [[view EXCEPT !.stats = IF view.named THEN got ELSE None, !.named = FALSE]
                       EXCEPT !.next = @ + 1]
      BY <2>2 DEF ReadStats, Got
    <3>2. got \in {file["stats"], None} /\ got \in Nat
      BY ReadReturns DEF None
    <3> QED BY <1>2, <2>0, <3>1, <3>2 DEF ViewInv, ViewTypeOK, None
  <2> QED BY <2>1, <2>2
<1>4. ReadInOrder'
  BY <1>2, <1>3 DEF ReadInOrder, ViewInv
<1>5. view'.stats <= file'["frame"]
  BY <1>1, <1>3 DEF writerVars, None, ViewInv, ViewAgainstFiles, FilesInv, FilesTypeOK, FilesInOrder
<1>6. ViewAgainstFiles'
  BY <1>1, <1>3, <1>5 DEF writerVars, ViewInv, ViewAgainstFiles
<1> QED BY <1>3, <1>4, <1>6 DEF ViewInv, ImageNotOlderThanState, FrameNotOlderThanStats,
                                MaskNotOlderThanProgress

LEMMA ReadLcdKeepsView ==
  ASSUME FilesInv, ViewInv, ReadLcd
  PROVE  ViewInv'
<1>1. PICK got \in Read("lcd") :
        view' = [[view EXCEPT !.lcd = got, !.lost = lost] EXCEPT !.next = @ + 1]
  BY DEF ReadLcd, Got
<1>2. UNCHANGED writerVars /\ Reading("lcd")
  BY DEF ReadLcd, Got
<1>3. /\ (view.mode = "gui" /\ view.next = 4) \/ (view.mode = "terminal" /\ view.next = 6)
      /\ view.mask = None
  BY <1>2, ReadingPositions DEF ViewInv, ReadInOrder
<1>4. view.next + 1 \in Positions /\ lost \in BOOLEAN /\ got \in LcdRead /\ got \in {file["lcd"], Absent}
  BY <1>1, ReadReturns DEF ViewInv, ViewTypeOK, Positions, FilesInv, FilesTypeOK
<1>5. /\ ViewTypeOK'
      /\ view'.next = view.next + 1 /\ view'.mode = view.mode
      /\ view'.state = view.state /\ view'.stats = view.stats /\ view'.lcd = got /\ view'.lost = lost
      /\ view'.mask = view.mask /\ view'.frame = view.frame
  BY <1>1, <1>4 DEF ViewInv, ViewTypeOK
<1>6. ReadInOrder'
  BY <1>3, <1>5 DEF ReadInOrder, ViewInv
<1>7. NamesPreview(got) => got = file["lcd"]
  BY <1>4 DEF NamesPreview
<1>8. ViewAgainstFiles'
  BY <1>2, <1>3, <1>5, <1>7 DEF writerVars, ViewInv, ViewAgainstFiles, FilesInv, FilesInOrder
<1> QED BY <1>3, <1>5, <1>6, <1>8 DEF ViewInv, ImageNotOlderThanState, FrameNotOlderThanStats,
                                      MaskNotOlderThanProgress

LEMMA ReadFrameKeepsView ==
  ASSUME FilesInv, ViewInv, ReadFrame
  PROVE  ViewInv'
<1> DEFINE named == IF view.mode = "gui" THEN view.state # Absent /\ view.state.frame ELSE view.named
<1>1. PICK got \in ReadImage("frame") :
        view' = [[view EXCEPT !.frame = IF named THEN got ELSE None, !.named = FALSE] EXCEPT !.next = @ + 1]
  BY DEF ReadFrame, Got
<1> HIDE DEF named
<1>2. UNCHANGED writerVars /\ Reading("frame")
  BY DEF ReadFrame, Got
<1>3. view.mode \in {"gui", "terminal"} /\ view.next = 5
  BY <1>2, ReadingPositions DEF ViewInv
<1>4. view.next + 1 \in Positions /\ None \in Nat /\ got \in Nat /\ got \in {file["frame"], None}
  BY <1>1, ReadReturns DEF ViewInv, ViewTypeOK, Positions, None
<1>5. /\ ViewTypeOK'
      /\ view'.next = view.next + 1 /\ view'.mode = view.mode
      /\ view'.state = view.state /\ view'.stats = view.stats /\ view'.lcd = view.lcd
      /\ view'.lost = view.lost /\ view'.mask = view.mask /\ view'.frame \in {None, file["frame"]}
  BY <1>1, <1>4 DEF ViewInv, ViewTypeOK
<1>6. ReadInOrder'
  BY <1>3, <1>5 DEF ReadInOrder, ViewInv
<1>7. ViewAgainstFiles'
  BY <1>2, <1>5 DEF writerVars, ViewInv, ViewAgainstFiles
<1>8. FrameNotOlderThanStats'
  BY <1>5 DEF FrameNotOlderThanStats, ViewInv, ViewAgainstFiles
<1> QED BY <1>5, <1>6, <1>7, <1>8 DEF ViewInv, ImageNotOlderThanState, MaskNotOlderThanProgress

LEMMA ReadMaskKeepsView ==
  ASSUME FilesInv, ViewInv, ReadMask
  PROVE  ViewInv'
<1> DEFINE there == {f \in MaskFiles(view.lcd) : file[f] # None}
           images == IF there = {} THEN {None} ELSE UNION {ReadImage(f) : f \in Tried(there)}
<1>1. PICK got \in images : view' = [[view EXCEPT !.mask = got] EXCEPT !.next = @ + 1]
  BY DEF ReadMask, Got
<1>2. UNCHANGED writerVars /\ Reading("mask")
  BY DEF ReadMask, Got
<1>3. (view.mode = "gui" /\ view.next = 6) \/ (view.mode = "terminal" /\ view.next = 7)
  BY <1>2, ReadingPositions DEF ViewInv
<1>4. there \subseteq {"png", "npy"}
  BY DEF MaskFiles, ViewInv, ViewTypeOK, LcdRead, LcdDoc
<1>5. got = None \/ \E f \in there : got = file[f]
  BY <1>1, <1>4, ReadReturns DEF Tried
<1>6. got \in Nat /\ view.next + 1 \in Positions
  BY <1>4, <1>5, ReadReturns DEF None, ViewInv, ViewTypeOK, Positions
<1> HIDE DEF images
<1>7. /\ ViewTypeOK'
      /\ view'.next = view.next + 1 /\ view'.mode = view.mode
      /\ view'.state = view.state /\ view'.stats = view.stats /\ view'.lcd = view.lcd
      /\ view'.lost = view.lost /\ view'.mask = got /\ view'.frame = view.frame
  BY <1>1, <1>6 DEF ViewInv, ViewTypeOK
<1>8. ReadInOrder'
  BY <1>3, <1>7 DEF ReadInOrder, ViewInv
<1>9. got # None /\ view.lcd # Absent => NamesPreview(view.lcd) /\ got = file[view.lcd.preview]
  BY <1>5 DEF MaskFiles, NamesPreview
<1>10. ViewAgainstFiles'
  BY <1>2, <1>7, <1>9 DEF writerVars, ViewInv, ViewAgainstFiles
<1>11. ImageNotOlderThanState'
  <2>1. got # None /\ view.lcd # Absent => got >= view.lcd.mask
    BY <1>9 DEF ViewInv, ViewAgainstFiles
  <2> QED BY <1>7, <2>1 DEF ImageNotOlderThanState
<1>12. MaskNotOlderThanProgress'
  <2>1. ASSUME got # None, view.lcd # Absent, view.state # Absent, ~view.lost
        PROVE  got >= view.state.mask
    <3>1. NamesPreview(view.lcd) /\ view.lcd.mask <= got
      BY <1>9, <2>1 DEF ViewInv, ViewAgainstFiles
    <3>2. view.state.mask <= view.lcd.mask
      BY <3>1, <2>1 DEF ViewInv, ViewAgainstFiles
    <3>3. view.lcd.mask \in Nat /\ view.state.mask \in Int
      BY <2>1 DEF ViewInv, ViewTypeOK, LcdRead, StateRead, LcdDoc
    <3> QED BY <3>1, <3>2, <3>3, <1>6
  <2> QED BY <1>7, <2>1 DEF MaskNotOlderThanProgress
<1> QED BY <1>7, <1>8, <1>10, <1>11, <1>12 DEF ViewInv, FrameNotOlderThanStats

LEMMA MonitorStepKeeps == StatusInv /\ MonitorStep => StatusInv'
<1> SUFFICES ASSUME StatusInv, MonitorStep PROVE StatusInv'
  OBVIOUS
<1>1. UNCHANGED writerVars
  BY DEF MonitorStep, Refresh, ReadState, ReadName, ReadStats, ReadLcd, ReadFrame, ReadMask, EndRefresh, Got
<1>2. FilesInv'
  BY <1>1 DEF writerVars, StatusInv, FilesInv, FilesTypeOK, NothingAhead, WrittenBefore, FilesInOrder
<1>3. ViewInv'
  BY BeginKeepsView, ReadStateKeepsView, ReadStatsKeepsView, ReadLcdKeepsView, ReadFrameKeepsView,
     ReadMaskKeepsView DEF MonitorStep, StatusInv
<1> QED BY <1>2, <1>3 DEF StatusInv

-----------------------------------------------------------------------------
(* The theorems.                                                            *)

LEMMA StatusInitially == StatusInit => StatusInv
<1> SUFFICES ASSUME StatusInit PROVE StatusInv
  OBVIOUS
<1>1. view = NoView /\ file["frame"] = 0 /\ shown = 0
  BY DEF StatusInit, None
<1>2. ViewTypeOK
  <2>1. 1 \in Positions /\ Absent \in StateRead /\ Absent \in LcdRead /\ 0 \in Nat /\ "none" \in Modes
    BY DEF Positions, StateRead, LcdRead, Modes
  <2> QED BY <1>1, <2>1 DEF NoView, ViewTypeOK, None
<1>3. ReadInOrder /\ ViewAgainstFiles
  BY <1>1 DEF ReadInOrder, ViewAgainstFiles, NoView, NamesPreview, None
<1>4. ImageNotOlderThanState /\ FrameNotOlderThanStats /\ MaskNotOlderThanProgress
  BY <1>1 DEF ImageNotOlderThanState, FrameNotOlderThanStats, MaskNotOlderThanProgress, NoView
<1> QED BY <1>2, <1>3, <1>4, FilesInitially DEF StatusInv, ViewInv

\* FilesInv and ViewInv hold of every run, killed or not, and every monitor.
THEOREM StatusInvariance == StatusSpec => []StatusInv
<1>1. StatusInv /\ [StatusNext]_statusVars => StatusInv'
  <2> SUFFICES ASSUME StatusInv, [StatusNext]_statusVars PROVE StatusInv'
    OBVIOUS
  <2>1. CASE RunStep
    BY <2>1, RunStepKeepsFiles, RunStepKeepsView DEF StatusInv
  <2>2. CASE MonitorStep
    BY <2>2, MonitorStepKeeps
  <2>3. CASE UNCHANGED statusVars
    BY <2>3 DEF statusVars, writerVars, StatusInv, FilesInv, FilesTypeOK, NothingAhead, WrittenBefore,
                FilesInOrder, ViewInv, ViewTypeOK, ReadInOrder, ViewAgainstFiles, ImageNotOlderThanState,
                FrameNotOlderThanStats, MaskNotOlderThanProgress
  <2> QED BY <2>1, <2>2, <2>3 DEF StatusNext
<1> QED BY <1>1, StatusInitially, PTL DEF StatusSpec

\* Between two writes of the LCD state of a run, the file says what the panel
\* shows and the preview it names is of that mask.
THEOREM PreviewSettles == StatusSpec => []SettledPreview
<1>1. StatusInv => SettledPreview
  BY DEF StatusInv, FilesInv, WrittenBefore, SettledPreview, NamesPreview
<1> QED BY <1>1, StatusInvariance, PTL

\* The picture a monitor has is never older than the LCD state it read.
THEOREM ImageFollowsState == StatusSpec => []ImageNotOlderThanState
<1>1. StatusInv => ImageNotOlderThanState
  BY DEF StatusInv, ViewInv
<1> QED BY <1>1, StatusInvariance, PTL

\* A frame is never older than the stats beside it.
THEOREM FrameFollowsStats == StatusSpec => []FrameNotOlderThanStats
<1>1. StatusInv => FrameNotOlderThanStats
  BY DEF StatusInv, ViewInv
<1> QED BY <1>1, StatusInvariance, PTL

\* The mask beside the progress of a capture is not older than the one on the
\* LCD when the progress was published, although most updates count to the
\* capture that comes next.
THEOREM MaskFollowsProgress == StatusSpec => []MaskNotOlderThanProgress
<1>1. StatusInv => MaskNotOlderThanProgress
  BY DEF StatusInv, ViewInv
<1> QED BY <1>1, StatusInvariance, PTL
=============================================================================
