---------------------------- MODULE PreviewSession ----------------------------
(***************************************************************************)
(* The GUI program (app/main_gui.py): its main thread starts a session      *)
(* (control/session_controller.py), runs the window's callbacks             *)
(* (gui/main_window.py, gui/bindings.py) and shuts the session down, while  *)
(* the thread of capture/preview_worker.py takes frames from its stream     *)
(* client and hands them to the window through the session and its bus.     *)
(* The LCD service (devices/lcd_service.py) is called by the main thread.   *)
(*                                                                          *)
(* SidecarLifecycle has the requests to the sidecar, TLSSession the TLS     *)
(* part of the session; here a camera call succeeds or raises.              *)
(***************************************************************************)
EXTENDS Naturals, FiniteSets

CONSTANTS
  Masks,      \* masks the window can show
  NoMask,     \* no mask has been shown
  MaxFrames   \* bound: frames the stream delivers

Closed == "closed"   \* a backend that is not open

ASSUME SessionAssumption ==
  NoMask \notin Masks /\ Closed \notin Masks /\ MaxFrames \in Nat \ {0}

VARIABLES
  main,      \* what the main thread is about to do
  back,      \* where it goes on when shutdown returns
  session,   \* _started and _shutting_down
  stop,      \* PreviewWorker._stop
  worker,    \* what the preview thread is about to do
  sub,       \* the SUB socket of its stream client is open
  frame,     \* the number of the newest frame it has taken
  slot,      \* MainWindow._latest_frame_event, 0 for None
  polled,    \* the frame _poll_event_queue holds
  panel,     \* the frame the preview panel shows
  owed,      \* history: the newest frame put in the slot, but for those that
             \* came while it was being emptied
  unshown,   \* history: the newest frame whose display raised
  backend,   \* LCDService._backend: the mask it shows, or Closed
  lastMask,  \* LCDService._last_mask_id
  told,      \* state.lcd_connected and state.lcd_current_mask_id
  late,      \* history: stop gave up waiting for the preview thread
  wrote      \* history: the preview thread wrote the state of an ended session

previewVars == <<worker, sub, frame>>
windowVars == <<slot, polled, panel, owed, unshown>>
lcdVars == <<backend, lastMask, told>>
mainVars == <<main, back, session>>
sessionVars == <<mainVars, stop, previewVars, windowVars, lcdVars, late, wrote>>

Idle == [started |-> FALSE, shutting |-> FALSE]

-----------------------------------------------------------------------------
(* LCDService and what the session says of it.                              *)

\* initialize opens a backend, or raises; it does nothing to one that is open.
Initialized == IF backend = Closed THEN {NoMask, Closed} ELSE {backend}

\* Mutation of ShowMask: the session is told first.
ToldFirst(m) ==
  \E b \in Initialized :
    /\ told' = [connected |-> TRUE, mask |-> m]
    /\ \/ b # Closed /\ backend' = m /\ lastMask' = m
       \/ backend' = b /\ UNCHANGED lastMask

\* show_*: metadata first, then the backend shows the mask, then the session
\* says so; a backend that raises shows nothing new, and nothing is said.
ShowMask(m) ==
  \E b \in Initialized :
    \/ /\ b # Closed
       /\ backend' = m /\ lastMask' = m
       /\ told' = [connected |-> TRUE, mask |-> m]
    \/ /\ backend' = b
       /\ UNCHANGED <<lastMask, told>>

\* _initialize_lcd: what the metadata says, then the all-transmissive mask; an
\* exception anywhere is a warning and "not connected".
InitializeLcd ==
  \E b \in Initialized :
    \/ /\ b # Closed
       /\ backend' = "startup" /\ lastMask' = "startup"
       /\ told' = [connected |-> TRUE, mask |-> "startup"]
    \/ /\ backend' = b
       /\ told' = [connected |-> FALSE,
                   mask |-> IF b = Closed THEN told.mask ELSE lastMask]
       /\ UNCHANGED lastMask

\* close; a backend that raises stays, with the mask it was told to show.
CloseLcd ==
  /\ \/ backend' = Closed /\ lastMask' = NoMask
     \/ backend # Closed /\ UNCHANGED <<backend, lastMask>>
  /\ UNCHANGED told

-----------------------------------------------------------------------------
(* main_gui.main and SessionController.start, up to the window.             *)

Goto(label) == main' = label

\* Open the camera and start its stream; a call that raises shuts the session
\* down at once and is reported.
Start ==
  /\ main = "start"
  /\ Goto("lcd") \/ Goto("stop")
  /\ UNCHANGED <<back, session, stop, previewVars, windowVars, lcdVars, late, wrote>>

StartLcd ==
  /\ main = "lcd"
  /\ InitializeLcd
  /\ Goto("worker")
  /\ UNCHANGED <<back, session, stop, previewVars, windowVars, late, wrote>>

\* PreviewWorker.start
StartWorker ==
  /\ main = "worker"
  /\ stop' = FALSE
  /\ worker' = "check"
  /\ session' = [session EXCEPT !.started = TRUE]
  /\ Goto("metadata")
  /\ UNCHANGED <<back, sub, frame, windowVars, lcdVars, late, wrote>>

\* _log_device_metadata asks the LCD service, which opens its backend again if
\* the session was shut down; then the window is built and subscribes.
LogMetadata ==
  /\ main = "metadata"
  /\ backend' \in Initialized
  /\ Goto("loop")
  /\ UNCHANGED <<back, session, stop, previewVars, windowVars, lastMask, told,
                 late, wrote>>

-----------------------------------------------------------------------------
(* Callbacks of the window.                                                 *)

\* _poll_event_queue takes the frame and empties the slot in two statements.
Poll ==
  /\ main = "loop" /\ slot # 0
  /\ polled' = slot
  /\ Goto("taken")
  /\ UNCHANGED <<back, session, stop, previewVars, slot, panel, owed, unshown, lcdVars,
                 late, wrote>>

Empty ==
  /\ main = "taken"
  /\ slot' = 0
  /\ Goto("display")
  /\ UNCHANGED <<back, session, stop, previewVars, polled, panel, owed, unshown, lcdVars,
                 late, wrote>>

\* Mutation of ShowPolled: the slot is emptied when the frame has been shown.
EmptiesWhenShown ==
  /\ main = "display"
  /\ \/ panel' = polled /\ UNCHANGED unshown
     \/ unshown' = polled /\ UNCHANGED panel
  /\ slot' = 0 /\ polled' = 0
  /\ Goto("loop")
  /\ UNCHANGED <<back, session, stop, previewVars, owed, lcdVars, late, wrote>>

\* _handle_event shows the frame, or raises: that is logged, and the frame gone.
ShowPolled ==
  /\ main = "display"
  /\ \/ panel' = polled /\ UNCHANGED unshown
     \/ unshown' = polled /\ UNCHANGED panel
  /\ polled' = 0
  /\ Goto("loop")
  /\ UNCHANGED <<back, session, stop, previewVars, slot, owed, lcdVars, late, wrote>>

Callback == main = "loop"

\* dispatch of an LCD command; an exception is reported and swallowed.
LcdCommand(m) ==
  /\ Callback
  /\ ShowMask(m)
  /\ UNCHANGED <<mainVars, stop, previewVars, windowVars, late, wrote>>

\* The button, and the window's close box; the session has been shut down when
\* the window goes.  main shuts down once more when the main loop has ended.
CloseWindow ==
  /\ Callback
  /\ Goto("stop")
  /\ back' = "destroy"
  /\ UNCHANGED <<session, stop, previewVars, windowVars, lcdVars, late, wrote>>

\* The button's shutdown reports an error of its first failing step only after
\* the others; dispatch swallows it, and the window goes in any case.
Destroy ==
  /\ main = "destroy"
  /\ Goto("stop")
  /\ back' = "exit"
  /\ UNCHANGED <<session, stop, previewVars, windowVars, lcdVars, late, wrote>>

-----------------------------------------------------------------------------
(* SessionController.shutdown.                                              *)

\* _shutting_down, then PreviewWorker.stop.
Stop ==
  /\ main = "stop"
  /\ session' = [session EXCEPT !.shutting = TRUE]
  /\ stop' = TRUE
  /\ Goto("join")
  /\ UNCHANGED <<back, previewVars, windowVars, lcdVars, late, wrote>>

\* Mutation of Join: the thread is told to stop and left to itself.
NoJoin ==
  /\ main = "join"
  /\ Goto("release")
  /\ UNCHANGED <<back, session, stop, previewVars, windowVars, lcdVars, late, wrote>>

\* The thread has ended (or never was started), or a second has passed.
Join ==
  /\ main = "join"
  /\ late' = (late \/ worker \notin {"none", "ended"})
  /\ Goto("release")
  /\ UNCHANGED <<back, session, stop, previewVars, windowVars, lcdVars, wrote>>

\* Every device is closed, whatever the others raise.
Release ==
  /\ main = "release"
  /\ CloseLcd
  /\ Goto("reset")
  /\ UNCHANGED <<back, session, stop, previewVars, windowVars, late, wrote>>

\* The finally clause.
Reset ==
  /\ main = "reset"
  /\ session' = Idle
  /\ told' = [connected |-> FALSE, mask |-> NoMask]
  /\ Goto(back)
  /\ UNCHANGED <<back, stop, previewVars, windowVars, backend, lastMask, late, wrote>>

-----------------------------------------------------------------------------
(* PreviewWorker._run, on its own thread.                                   *)

\* What the thread writes now is about a session that is over.
Over == ~session.started

\* Before the window is there.
Starting == {"start", "lcd", "worker", "metadata"}

\* The while condition, and the finally clause.
Check ==
  /\ worker = "check"
  /\ IF stop THEN worker' = "ended" /\ sub' = FALSE
             ELSE worker' = "recv" /\ UNCHANGED sub
  /\ UNCHANGED <<mainVars, stop, frame, windowVars, lcdVars, late, wrote>>

\* Mutation of RecvFails: no receive timeout.
NeverTimesOut == FALSE /\ UNCHANGED sessionVars

\* recv_frame returns a frame.  One may come from a stream this session has
\* stopped, or could not stop.
RecvFrame ==
  /\ worker = "recv"
  /\ frame < MaxFrames
  /\ frame' = frame + 1
  /\ sub' = TRUE
  /\ worker' = "packet"
  /\ UNCHANGED <<mainVars, stop, windowVars, lcdVars, late, wrote>>

\* zmq.Again after the receive timeout, or a frame that cannot be decoded; a
\* worker told to stop does not report it, nor the first few timeouts.
RecvFails ==
  /\ worker = "recv"
  /\ sub' = TRUE
  /\ worker' \in IF stop THEN {"check"} ELSE {"check", "error"}
  /\ UNCHANGED <<mainVars, stop, frame, windowVars, lcdVars, late, wrote>>

\* _handle_preview_packet writes the state, which also clears last_error; it may
\* raise on a frame's meta.
HandlePacket ==
  /\ worker = "packet"
  /\ \/ worker' = "publish" /\ wrote' = (wrote \/ Over)
     \/ worker' = "error" /\ UNCHANGED wrote
  /\ UNCHANGED <<mainVars, stop, sub, frame, windowVars, lcdVars, late>>

\* The bus calls the window's _enqueue_event, once the window has subscribed.
Publish ==
  /\ worker = "publish"
  /\ IF main \in Starting THEN UNCHANGED <<slot, owed>>
     ELSE slot' = frame /\ owed' = IF main = "taken" THEN owed ELSE frame
  /\ worker' = "check"
  /\ UNCHANGED <<mainVars, stop, sub, frame, polled, panel, unshown, lcdVars, late, wrote>>

\* _handle_preview_error looks at _shutting_down, then writes and publishes.
HandleError ==
  /\ worker = "error"
  /\ worker' = IF session.shutting THEN "check" ELSE "warn"
  /\ UNCHANGED <<mainVars, stop, sub, frame, windowVars, lcdVars, late, wrote>>

Warn ==
  /\ worker = "warn"
  /\ worker' = "check"
  /\ wrote' = (wrote \/ Over)
  /\ UNCHANGED <<mainVars, stop, sub, frame, windowVars, lcdVars, late>>

-----------------------------------------------------------------------------
SessionInit ==
  /\ main = "start" /\ back = "metadata" /\ session = Idle
  /\ stop = FALSE /\ worker = "none" /\ sub = FALSE /\ frame = 0
  /\ slot = 0 /\ polled = 0 /\ panel = 0 /\ owed = 0 /\ unshown = 0
  /\ backend = Closed /\ lastMask = NoMask
  /\ told = [connected |-> FALSE, mask |-> NoMask]
  /\ late = FALSE /\ wrote = FALSE

MainStep ==
  \/ Start \/ StartLcd \/ StartWorker \/ LogMetadata \/ Poll \/ Empty \/ ShowPolled
  \/ \E m \in Masks : LcdCommand(m)
  \/ CloseWindow \/ Destroy \/ Stop \/ Join \/ Release \/ Reset

WorkerStep ==
  \/ Check \/ RecvFrame \/ RecvFails \/ HandlePacket \/ Publish \/ HandleError \/ Warn

SessionNext == MainStep \/ WorkerStep

\* The preview thread runs, and its recv_frame returns: the GUI gives the stream
\* client a receive timeout.  Nothing makes anyone close the window.
SessionSpec == SessionInit /\ [][SessionNext]_sessionVars /\ WF_sessionVars(WorkerStep)

-----------------------------------------------------------------------------
\* What the session says of the LCD is so whenever a callback may run: a display
\* it calls connected is open and shows the mask it names, whichever call failed
\* before (SessionController._update_lcd_state, _initialize_lcd).
LcdAsTold ==
  main = "loop" /\ told.connected => backend = told.mask /\ lastMask = told.mask

\* A frame handed to the window is on the panel, on its way there, overtaken by
\* a later one there, or was logged when its display raised.  A frame that comes
\* between the two statements that take one is not owed that, the next one is
\* (MainWindow._poll_event_queue).
NewestOnPanel == \E f \in {panel, slot, polled, unshown} : f >= owed

\* After shutdown has returned the preview thread writes nothing of the session
\* and reports nothing, unless stop gave up waiting for it.
QuietAfterShutdown == wrote => late

\* A preview thread told to stop ends, and closes the socket that is its own to
\* close (PreviewWorker._run).
StreamReleased == stop /\ worker # "none" ~> worker = "ended" /\ ~sub
=============================================================================
