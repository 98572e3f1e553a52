------------------------------ MODULE CaptureRun ------------------------------
(***************************************************************************)
(* run_capture_dataset (tasks/capture_dataset.py): for every wavelength and *)
(* mask of the plan it moves the TLS, shows the mask, lets the display      *)
(* settle, takes a burst from the free-running camera and appends it to the *)
(* raw capture file of RawCaptureWriter, while it publishes its progress in *)
(* state.json for a monitor that is another process.                        *)
(*                                                                          *)
(* The camera exposes one frame after the other whatever the task does.  A  *)
(* frame stands for the optical condition it was exposed under, Mixed when  *)
(* that changed meanwhile.  The frame transport is what FrameStream.tla is  *)
(* checked to be: packets come in order, and each is one of the last RING   *)
(* frames of the ring.                                                      *)
(***************************************************************************)
EXTENDS RawCaptureWriter

CONSTANTS
  RING,       \* slots of the shared ring
  K,          \* plan.camera.frames_per_capture
  Discard,    \* frames dropped after the camera parameters of a profile change
  LcdSettle   \* exposures that end within plan.lcd_settle_ms

ASSUME RunAssumption ==
  RING \in Nat \ {0} /\ K \in Nat \ {0} /\ Discard \in Nat /\ LcdSettle \in Nat

VARIABLES
  plan,       \* whether the run moves a TLS and has a CameraProfile
  pc,         \* where run_capture_dataset is
  wi, mi,     \* its loop variables
  display, light, setting,  \* what the LCD, the TLS and the camera are set to
  exposing,   \* the condition of the exposure in progress
  recent,     \* the last RING frames, oldest first
  unread,     \* how many of them are newer than the last packet returned
  waited,     \* exposures ended since the mask was shown, up to LcdSettle
  burst,      \* the packets of the burst being taken
  taken,      \* history: the frames of the capture each row was committed with
  disk        \* state.json

apparatusVars == <<display, light, setting, exposing, recent>>
runVars == <<writerVars, plan, pc, wi, mi, apparatusVars, unread, waited,
             burst, taken, disk>>

\* The camera parameters of wavelength w's profile are w, those of the plan NW.
Nothing == -1
Moving == -2
OfPlan == NW
Condition == [mask : Nothing .. NM - 1, light : Moving .. NW - 1,
              setting : Nothing .. OfPlan]
Mixed == [mask |-> Nothing, light |-> Nothing, setting |-> Nothing]
Now == [mask |-> display, light |-> light, setting |-> setting]

Progress == [phase : {"none", "starting", "wavelength_ready", "mask_shown",
                      "burst_captured", "capture_appended", "completed", "error"},
             index : Nothing .. NC, completed : BOOLEAN, error : BOOLEAN]

InTry == {"setup", "wavelength", "discard", "light", "moving", "mask", "settle",
          "burst", "append", "finish", "close"}
Ended == {"done", "raised", "gone"}

\* capture_index of the loop, and the row it belongs to.
Index == wi * NM + mi
This == [ci |-> Index, wi |-> wi, mi |-> mi]

-----------------------------------------------------------------------------
(* The camera: an exposure ends, its frame enters the ring, the next begins.*)

\* Mutation of Newest: the ring never gives up a frame.
AllOf(s) == s

Newest(s) == IF Len(s) > RING THEN Tail(s) ELSE s

Expose ==
  /\ pc \notin Ended
  /\ recent' = Newest(Append(recent, exposing))
  /\ exposing' = Now
  /\ unread' = IF unread < RING THEN unread + 1 ELSE RING
  /\ waited' = IF waited < LcdSettle THEN waited + 1 ELSE waited
  /\ UNCHANGED <<writerVars, plan, pc, wi, mi, display, light, setting, burst,
                 taken, disk>>

(* recv_frame, the only call that waits for the camera.                     *)
Recv(n) ==
  /\ Len(burst) < n
  /\ \E p \in Len(recent) - unread + 1 .. Len(recent) :
       /\ burst' = Append(burst, recent[p])
       /\ unread' = Len(recent) - p
  /\ UNCHANGED <<writerVars, plan, pc, wi, mi, apparatusVars, waited, taken, disk>>

\* Every update writes all of the state.  Index -1 is None.
StateJson(phase, index) == [phase |-> phase, index |-> index,
                            completed |-> phase = "completed", error |-> phase = "error"]

\* Replacing the file may fail after its retries, which is only warned about.
Update(phase, index) == disk' \in {disk, StateJson(phase, index)}

Goto(label) == pc' = label

-----------------------------------------------------------------------------
Start ==
  /\ pc = "start"
  /\ Update("starting", 0)
  /\ Goto("open")
  /\ UNCHANGED <<writerVars, plan, wi, mi, apparatusVars, unread, waited, burst, taken>>

\* Before the try: a rejected plan, device or mask, or a path that exists.
Refuse ==
  /\ pc \in {"start", "open"}
  /\ Goto("raised")
  /\ UNCHANGED <<writerVars, plan, wi, mi, apparatusVars, unread, waited, burst,
                 taken, disk>>

OpenWriter ==
  /\ pc = "open"
  /\ Open
  /\ Goto("setup")
  /\ UNCHANGED <<plan, wi, mi, apparatusVars, unread, waited, burst, taken, disk>>

\* The parameters of the plan, then in ApplyProfile those of a profile.
Setup ==
  /\ pc = "setup"
  /\ setting' = OfPlan
  /\ exposing' = Mixed
  /\ wi' = 0 /\ mi' = 0
  /\ Goto("wavelength")
  /\ UNCHANGED <<writerVars, plan, display, light, recent, unread, waited, burst,
                 taken, disk>>

ApplyProfile ==
  /\ pc = "wavelength"
  /\ burst' = <<>>
  /\ IF plan.profile THEN /\ setting' = wi /\ exposing' = Mixed
                          /\ Goto("discard")
                     ELSE /\ UNCHANGED <<setting, exposing>>
                          /\ Goto("light")
  /\ UNCHANGED <<writerVars, plan, wi, mi, display, light, recent, unread, waited,
                 taken, disk>>

DiscardFrames ==
  /\ pc = "discard"
  /\ \/ Recv(Discard)
     \/ /\ Len(burst) = Discard
        /\ Goto("light")
        /\ UNCHANGED <<writerVars, plan, wi, mi, apparatusVars, unread, waited,
                       burst, taken, disk>>

\* apply_illumination_to_tls: set_wavelength, move, wait_until_idle.
MoveTLS ==
  /\ pc = "light"
  /\ IF plan.tls THEN light' = Moving /\ exposing' = Mixed /\ Goto("moving")
     ELSE UNCHANGED <<light, exposing>> /\ Goto("ready")
  /\ UNCHANGED <<writerVars, plan, wi, mi, display, setting, recent, unread, waited,
                 burst, taken, disk>>

TLSIdle ==
  /\ pc = "moving"
  /\ light' = wi
  /\ exposing' = Mixed
  /\ Goto("ready")
  /\ UNCHANGED <<writerVars, plan, wi, mi, display, setting, recent, unread, waited,
                 burst, taken, disk>>

WavelengthReady ==
  /\ pc = "ready"
  /\ Update("wavelength_ready", Index)
  /\ Goto("mask")
  /\ UNCHANGED <<writerVars, plan, wi, mi, apparatusVars, unread, waited, burst, taken>>

ShowMask ==
  /\ pc = "mask"
  /\ display' = mi
  /\ exposing' = Mixed
  /\ waited' = 0
  /\ Update("mask_shown", Index)
  /\ Goto("settle")
  /\ UNCHANGED <<writerVars, plan, wi, mi, light, setting, recent, unread, burst, taken>>

\* Mutation of Settled: the burst begins as soon as the mask is shown.
SettledAtOnce == TRUE

Settled == waited = LcdSettle

Settle ==
  /\ pc = "settle"
  /\ Settled
  /\ burst' = <<>>
  /\ Goto("burst")
  /\ UNCHANGED <<writerVars, plan, wi, mi, apparatusVars, unread, waited, taken, disk>>

AcquireBurst ==
  /\ pc = "burst"
  /\ \/ Recv(K)
     \/ /\ Len(burst) = K
        /\ Update("burst_captured", Index)
        /\ Goto("append")
        /\ UNCHANGED <<writerVars, plan, wi, mi, apparatusVars, unread, waited,
                       burst, taken>>

Frames == {burst[i] : i \in 1 .. Len(burst)}

\* tls_status is taken once for each wavelength.
AppendBurst ==
  /\ pc = "append"
  /\ \E s \in Shapes, x \in Metas :
       \/ /\ AppendCapture(This, s, x)
          /\ taken' = [taken EXCEPT ![Index] = Frames]
          /\ Goto("appended")
       \/ /\ AppendInterrupted(This, s, x)
          /\ taken' = [taken EXCEPT ![Index] = Frames]
          /\ Goto("interrupted")
       \/ \E k \in 0 .. Parts :
            /\ AppendFails(This, s, x, k)
            /\ Goto("failed")
            /\ UNCHANGED taken
  /\ UNCHANGED <<plan, wi, mi, apparatusVars, unread, waited, burst, disk>>

\* Mutation of NextIndex: counted twice.
IndexAfterNext == Index + 2

NextIndex == Index + 1

Appended ==
  /\ pc = "appended"
  /\ Update("capture_appended", NextIndex)
  /\ IF mi + 1 < NM THEN mi' = mi + 1 /\ UNCHANGED wi /\ Goto("mask")
     ELSE IF wi + 1 < NW THEN mi' = 0 /\ wi' = wi + 1 /\ Goto("wavelength")
     ELSE UNCHANGED <<wi, mi>> /\ Goto("finish")
  /\ UNCHANGED <<writerVars, plan, apparatusVars, unread, waited, burst, taken>>

Finish ==
  /\ pc = "finish"
  /\ WriteFlags(FALSE)
  /\ Goto("close")
  /\ UNCHANGED <<plan, wi, mi, apparatusVars, unread, waited, burst, taken, disk>>

\* Mutation of CloseFinished: an exception of file.close() is swallowed.
CloseAnyway ==
  /\ pc = "close"
  /\ CloseFile \/ UNCHANGED writerVars
  /\ Goto("finished")
  /\ UNCHANGED <<plan, wi, mi, apparatusVars, unread, waited, burst, taken, disk>>

CloseFinished ==
  /\ pc = "close"
  /\ CloseFile
  /\ Goto("finished")
  /\ UNCHANGED <<plan, wi, mi, apparatusVars, unread, waited, burst, taken, disk>>

Complete ==
  /\ pc = "finished"
  /\ Update("completed", NC)
  /\ Goto("done")
  /\ UNCHANGED <<writerVars, plan, wi, mi, apparatusVars, unread, waited, burst, taken>>

\* A device, the file or a check raises; what was set stays set.
Raise ==
  /\ pc \in InTry
  /\ Goto("failed")
  /\ UNCHANGED <<writerVars, plan, wi, mi, apparatusVars, unread, waited, burst,
                 taken, disk>>

\* The except clause: the status first, then the file.
ReportError ==
  /\ pc = "failed"
  /\ Update("error", Nothing)
  /\ Goto("closing")
  /\ UNCHANGED <<writerVars, plan, wi, mi, apparatusVars, unread, waited, burst, taken>>

\* Mutation of FlagError: finalize is not told of the error.
FlagNoError ==
  /\ pc = "closing"
  /\ WriteFlags(FALSE)
  /\ Goto("flagged")
  /\ UNCHANGED <<plan, wi, mi, apparatusVars, unread, waited, burst, taken, disk>>

\* Its finalize replaces the flags of one whose close raised.
FlagError ==
  /\ pc = "closing"
  /\ WriteFlags(TRUE)
  /\ Goto("flagged")
  /\ UNCHANGED <<plan, wi, mi, apparatusVars, unread, waited, burst, taken, disk>>

CloseFailed ==
  /\ pc = "flagged"
  /\ CloseFile
  /\ Goto("raised")
  /\ UNCHANGED <<plan, wi, mi, apparatusVars, unread, waited, burst, taken, disk>>

\* This finalize raises in its turn, before or after the flags.
FinalizeFails ==
  /\ pc \in {"closing", "flagged"}
  /\ Die
  /\ Goto("raised")
  /\ UNCHANGED <<plan, wi, mi, apparatusVars, unread, waited, burst, taken, disk>>

\* KeyboardInterrupt or a kill: neither is an Exception.
Stop ==
  /\ pc \notin Ended
  /\ IF writer \in {"open", "unwinding", "flagged"} THEN Die ELSE UNCHANGED writerVars
  /\ Goto("gone")
  /\ UNCHANGED <<plan, wi, mi, apparatusVars, unread, waited, burst, taken, disk>>

\* The command is given again with the same output and status directory.
Again ==
  /\ pc \in Ended
  /\ NewRun
  /\ Goto("start")
  /\ display' = Nothing /\ exposing' = Mixed
  /\ recent' = <<>> /\ unread' = 0 /\ burst' = <<>>
  /\ UNCHANGED <<plan, wi, mi, light, setting, waited, taken, disk>>

-----------------------------------------------------------------------------
NoProgress == [phase |-> "none", index |-> Nothing, completed |-> FALSE, error |-> FALSE]

RunInit ==
  /\ WriterInit
  /\ plan \in [tls : BOOLEAN, profile : BOOLEAN]
  /\ pc = "start" /\ wi = 0 /\ mi = 0
  /\ display = Nothing /\ light = Nothing /\ setting = Nothing
  /\ exposing = Mixed /\ recent = <<>> /\ unread = 0 /\ waited = 0 /\ burst = <<>>
  /\ taken = [r \in RowIds |-> {}]
  /\ disk = NoProgress

Finalizing == Finish \/ CloseFinished \/ FlagError \/ CloseFailed \/ FinalizeFails

TaskStep ==
  \/ Start \/ Refuse \/ OpenWriter \/ Setup \/ ApplyProfile \/ DiscardFrames
  \/ MoveTLS \/ TLSIdle \/ WavelengthReady \/ ShowMask \/ Settle \/ AcquireBurst
  \/ AppendBurst \/ Appended \/ Finalizing \/ Complete \/ ReportError

RunNext == TaskStep \/ Expose \/ Raise \/ Stop \/ Again

RunSpec == RunInit /\ [][RunNext]_runVars

-----------------------------------------------------------------------------
RunTypeOK ==
  /\ WriterTypeOK
  /\ plan \in [tls : BOOLEAN, profile : BOOLEAN]
  /\ pc \in InTry \cup Ended \cup {"start", "open", "ready", "appended", "finished",
                                   "interrupted", "failed", "closing", "flagged"}
  /\ wi \in 0 .. NW - 1 /\ mi \in 0 .. NM - 1
  /\ Now \in Condition /\ exposing \in Condition
  /\ recent \in Seq(Condition) /\ Len(recent) <= RING
  /\ unread \in 0 .. Len(recent) /\ waited \in 0 .. LcdSettle
  /\ burst \in Seq(Condition)
  /\ taken \in [RowIds -> SUBSET Condition]
  /\ disk \in Progress

(* The frames stored for a capture were exposed, from beginning to end,     *)
(* under the mask, the wavelength and the camera parameters of that         *)
(* capture, when the settling time covers the ring and the exposure in      *)
(* progress.  Nothing else separates a burst from the frames of the mask    *)
(* before it (capture_dataset.py:384-408).                                  *)
FramesMatchPlan ==
  LcdSettle > RING /\ file # "abandoned" =>
    \A r \in Completed : \A c \in taken[r] :
      /\ c.mask = rows[r].at.mi
      /\ plan.tls => c.light = rows[r].at.wi
      /\ c.setting = IF plan.profile THEN rows[r].at.wi ELSE OfPlan

(* state.json never promises more captures than the file holds, whatever    *)
(* updates were lost (capture_dataset.py:425-458).                          *)
StatusNotAhead == file # "abandoned" => disk.index <= Cardinality(Completed)

(* A monitor that reads "completed" can hand the file to the survey: it is  *)
(* closed, complete and accepted (capture_dataset.py:460-468).              *)
CompletedIsAccepted == disk.completed => file = "closed" /\ SurveyAccepts

(* A run that raises after it created the file never says it completed, and *)
(* the file it closes is one that analysis rejects, also when flags of      *)
(* success were in it before a close raised (capture_dataset.py:460-482,    *)
(* raw_capture_h5.py:653-656).                                              *)
RaisedIsRejected ==
  pc = "raised" /\ writer # "new" =>
    /\ ~ disk.completed
    /\ file = "closed" => ~ SurveyAccepts

(* "incomplete/failed runs cannot become a survey" (README.md:82): whatever *)
(* raised, the file of a run that raised is rejected, closed or not.        *)
FailedRunsRejected == pc = "raised" /\ writer # "new" => ~ SurveyAccepts

=============================================================================
