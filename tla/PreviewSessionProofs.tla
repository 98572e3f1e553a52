------------------------- MODULE PreviewSessionProofs -------------------------
(***************************************************************************)
(* Proofs about PreviewSession, for every set of masks, every number of     *)
(* frames and every interleaving of the two threads.  The two threads meet  *)
(* in the slot of the window and in the join of shutdown, and each of the   *)
(* invariants says what one of them may rely on there: what is in the slot  *)
(* while a frame is taken out of it (SlotInv), that no thread is left once  *)
(* a shutdown that did not give up has passed the join (QuietInv), and      *)
(* that a display that was said to be connected is open (LcdInv).           *)
(***************************************************************************)
EXTENDS PreviewSession, TLAPS

Ended == {"none", "ended"}

SessionTypeOK ==
  /\ session \in [started : BOOLEAN, shutting : BOOLEAN]
  /\ back \in {"metadata", "destroy", "exit"}
  /\ frame \in Nat
  /\ worker \in {"packet", "publish"} => frame > 0

\* The display; from the close to the reset of a shutdown the session still
\* tells what was so before.
LcdInv ==
  main # "reset" /\ told.connected =>
    /\ told.mask \in Masks \cup {"startup"}
    /\ backend = told.mask /\ lastMask = told.mask

\* The slot: what is in it is the newest frame owed or a later one; what is not
\* in it any more has been taken, and from there shown or logged.
SlotInv ==
  /\ owed \in Nat /\ slot \in Nat /\ polled \in Nat /\ panel \in Nat /\ unshown \in Nat
  /\ owed <= frame
  /\ slot # 0 => slot >= owed
  /\ main = "taken" => polled >= owed
  /\ main = "display" /\ slot = 0 => polled >= owed
  /\ main \notin {"taken", "display"} /\ slot = 0 => panel >= owed \/ unshown >= owed

\* The join: past it, and when the session is not running, there is no thread.
QuietInv ==
  /\ wrote => late
  /\ ~late /\ (main \in {"release", "reset"} \/ ~session.started) => worker \in Ended

SessionInv == SessionTypeOK /\ LcdInv /\ SlotInv /\ QuietInv

-----------------------------------------------------------------------------
\* An open backend is neither opened again nor closed by initialize.
LEMMA OpenStaysOpen ==
  ASSUME backend \in Masks \cup {"startup"}
  PROVE  Initialized = {backend} /\ backend # Closed
BY SessionAssumption DEF Initialized, Closed

LEMMA SessionInitially == SessionInit => SessionInv
BY DEF SessionInit, SessionInv, SessionTypeOK, LcdInv, SlotInv, QuietInv, Idle, Ended

-----------------------------------------------------------------------------
(* The display: only the main thread's calls of the LCD service matter.     *)

LEMMA LcdKeeps == SessionInv /\ SessionNext => LcdInv'
<1> SUFFICES ASSUME SessionInv, SessionNext PROVE LcdInv'
  OBVIOUS
<1> USE DEF SessionInv, LcdInv
<1>1. ASSUME NEW m \in Masks, LcdCommand(m) PROVE LcdInv'
  <2>1. main = "loop" /\ main' = main
    BY <1>1 DEF LcdCommand, Callback, mainVars
  <2>2. PICK b \in Initialized :
          \/ /\ backend' = m /\ lastMask' = m
             /\ told' = [connected |-> TRUE, mask |-> m]
          \/ /\ backend' = b
             /\ UNCHANGED <<lastMask, told>>
    BY <1>1 DEF LcdCommand, ShowMask
  <2> QED BY <2>1, <2>2, OpenStaysOpen
<1>2. CASE StartLcd
  <2>1. PICK b \in Initialized :
          \/ backend' = "startup" /\ lastMask' = "startup" /\ told' = [connected |-> TRUE, mask |-> "startup"]
          \/ told' = [connected |-> FALSE, mask |-> IF b = Closed THEN told.mask ELSE lastMask]
    BY <1>2 DEF StartLcd, InitializeLcd
  <2> QED BY <2>1
<1>3. CASE LogMetadata
  BY <1>3, OpenStaysOpen DEF LogMetadata
<1>4. CASE Release \/ Reset
  BY <1>4 DEF Release, Reset, Goto
<1>5. CASE \/ Start \/ StartWorker \/ Poll \/ Empty \/ ShowPolled \/ CloseWindow \/ Destroy \/ Stop \/ Join
  <2>1. UNCHANGED lcdVars /\ main # "reset"
    BY <1>5 DEF Start, StartWorker, Poll, Empty, ShowPolled, CloseWindow, Destroy, Stop, Join, Callback
  <2> QED BY <2>1 DEF lcdVars
<1>6. CASE WorkerStep
  <2>1. UNCHANGED <<lcdVars, main>>
    BY <1>6 DEF WorkerStep, Check, RecvFrame, RecvFails, HandlePacket, Publish, HandleError, Warn, mainVars
  <2> QED BY <2>1 DEF lcdVars
<1> QED BY <1>1, <1>2, <1>3, <1>4, <1>5, <1>6 DEF SessionNext, MainStep

-----------------------------------------------------------------------------
(* The slot: the window empties it in two statements, the thread fills it.  *)

LEMMA SlotKeeps == SessionInv /\ SessionNext => SlotInv'
<1> SUFFICES ASSUME SessionInv, SessionNext PROVE SlotInv'
  OBVIOUS
<1> USE DEF SessionInv, SlotInv
<1>1. CASE Poll \/ Empty \/ ShowPolled
  BY <1>1 DEF Poll, Empty, ShowPolled, Goto, previewVars
<1>2. CASE Publish
  <2>1. /\ UNCHANGED <<main, frame, polled, panel, unshown>> /\ frame \in Nat /\ frame > 0
    BY <1>2 DEF Publish, SessionTypeOK, mainVars
  <2>2. \/ UNCHANGED <<slot, owed>>
        \/ slot' = frame /\ owed' = IF main = "taken" THEN owed ELSE frame
    BY <1>2 DEF Publish
  <2> QED BY <2>1, <2>2
<1>3. CASE \/ Start \/ StartLcd \/ StartWorker \/ LogMetadata \/ CloseWindow \/ Destroy \/ Stop
           \/ Join \/ Release \/ \E m \in Masks : LcdCommand(m)
           \/ Check \/ RecvFrame \/ RecvFails \/ HandlePacket \/ HandleError \/ Warn
  <2>1. /\ UNCHANGED windowVars /\ frame' \in {frame, frame + 1}
        /\ \/ main' = main
           \/ main \notin {"taken", "display"} /\ main' \notin {"taken", "display"}
    BY <1>3 DEF Start, StartLcd, StartWorker, LogMetadata, CloseWindow, Destroy, Stop, Join, Release,
                LcdCommand, Callback, Check, RecvFrame, RecvFails, HandlePacket, HandleError, Warn,
                Goto, mainVars, previewVars
  <2>2. frame \in Nat /\ owed' <= frame'
    BY <2>1 DEF windowVars, SessionTypeOK
  <2> QED BY <2>1, <2>2 DEF windowVars
<1>4. CASE Reset
  BY <1>4 DEF Reset, Goto, SessionTypeOK, windowVars, previewVars
<1> QED BY <1>1, <1>2, <1>3, <1>4 DEF SessionNext, MainStep, WorkerStep

-----------------------------------------------------------------------------
(* The join: who may be running, and what it writes.                        *)

LEMMA TypeKeeps == SessionInv /\ SessionNext => SessionTypeOK'
<1> SUFFICES ASSUME SessionInv, SessionNext PROVE SessionTypeOK'
  OBVIOUS
<1> USE DEF SessionInv, SessionTypeOK
<1>1. session' \in [started : BOOLEAN, shutting : BOOLEAN]
  <2>1. session' \in {session, Idle, [session EXCEPT !.started = TRUE], [session EXCEPT !.shutting = TRUE]}
    BY DEF SessionNext, MainStep, WorkerStep, Start, StartLcd, StartWorker, LogMetadata, Poll, Empty, ShowPolled,
         LcdCommand, CloseWindow, Destroy, Stop, Join, Release, Reset, mainVars,
         Check, RecvFrame, RecvFails, HandlePacket, Publish, HandleError, Warn
  <2>2. Idle \in [started : BOOLEAN, shutting : BOOLEAN]
    BY DEF Idle
  <2>3. /\ [session EXCEPT !.started = TRUE] \in [started : BOOLEAN, shutting : BOOLEAN]
        /\ [session EXCEPT !.shutting = TRUE] \in [started : BOOLEAN, shutting : BOOLEAN]
    OBVIOUS
  <2> QED BY <2>1, <2>2, <2>3
<1>2. frame' \in Nat /\ (worker' \in {"packet", "publish"} => frame' > 0)
  BY DEF SessionNext, MainStep, WorkerStep, Start, StartLcd, StartWorker, LogMetadata, Poll, Empty, ShowPolled,
         LcdCommand, CloseWindow, Destroy, Stop, Join, Release, Reset, previewVars,
         Check, RecvFrame, RecvFails, HandlePacket, Publish, HandleError, Warn
<1>3. back' \in {"metadata", "destroy", "exit"}
  BY DEF SessionNext, MainStep, WorkerStep, Start, StartLcd, StartWorker, LogMetadata, Poll, Empty,
         ShowPolled, LcdCommand, CloseWindow, Destroy, Stop, Join, Release, Reset, mainVars,
         Check, RecvFrame, RecvFails, HandlePacket, Publish, HandleError, Warn
<1> QED BY <1>1, <1>2, <1>3

LEMMA QuietKeeps == SessionInv /\ SessionNext => QuietInv'
<1> SUFFICES ASSUME SessionInv, SessionNext PROVE QuietInv'
  OBVIOUS
<1> USE DEF SessionInv, QuietInv, SessionTypeOK
<1>1. CASE StartWorker
  BY <1>1 DEF StartWorker, Goto
<1>2. CASE Stop
  BY <1>2 DEF Stop, Goto, previewVars
<1>3. CASE Join
  BY <1>3 DEF Join, Goto, mainVars, previewVars, Ended
<1>4. CASE Release \/ Reset
  BY <1>4 DEF Release, Reset, Goto, Idle, previewVars
<1>5. CASE \/ Start \/ StartLcd \/ LogMetadata \/ Poll \/ Empty \/ ShowPolled \/ CloseWindow \/ Destroy
           \/ \E m \in Masks : LcdCommand(m)
  <2>1. /\ UNCHANGED <<session, worker, late, wrote>>
        /\ main' \in {main, "lcd", "stop", "worker", "loop", "taken", "display"}
    BY <1>5 DEF Start, StartLcd, LogMetadata, Poll, Empty, ShowPolled, CloseWindow, Destroy, LcdCommand,
                Goto, mainVars, previewVars
  <2> QED BY <2>1
<1>6. CASE WorkerStep
  <2>1. UNCHANGED <<main, session, late>> /\ worker \notin Ended
    BY <1>6 DEF WorkerStep, Check, RecvFrame, RecvFails, HandlePacket, Publish, HandleError, Warn,
                mainVars, Ended
  <2>2. wrote' \in {wrote, wrote \/ Over}
    BY <1>6 DEF WorkerStep, Check, RecvFrame, RecvFails, HandlePacket, Publish, HandleError, Warn
  <2> QED BY <2>1, <2>2 DEF Over
<1> QED BY <1>1, <1>2, <1>3, <1>4, <1>5, <1>6 DEF SessionNext, MainStep

-----------------------------------------------------------------------------
(* The theorems.  They hold without the fairness of SessionSpec.            *)

\* The invariant of the two threads.
THEOREM SessionInvariance == SessionSpec => []SessionInv
<1>1. SessionInv /\ [SessionNext]_sessionVars => SessionInv'
  <2> SUFFICES ASSUME SessionInv, [SessionNext]_sessionVars PROVE SessionInv'
    OBVIOUS
  <2>1. CASE SessionNext
    BY <2>1, TypeKeeps, LcdKeeps, SlotKeeps, QuietKeeps DEF SessionInv
  <2>2. CASE UNCHANGED sessionVars
    BY <2>2 DEF sessionVars, mainVars, previewVars, windowVars, lcdVars, SessionInv, SessionTypeOK,
                LcdInv, SlotInv, QuietInv
  <2> QED BY <2>1, <2>2
<1> QED BY <1>1, SessionInitially, PTL DEF SessionSpec

\* A callback that finds the LCD connected finds the mask it is told of on it.
THEOREM LcdShowsWhatIsTold == SessionSpec => []LcdAsTold
<1>1. SessionInv => LcdAsTold
  BY DEF SessionInv, LcdInv, LcdAsTold
<1> QED BY <1>1, SessionInvariance, PTL

\* Every frame handed to the window outside the two statements that take one, or
\* a later one, is on the panel, on its way there or in the log.
THEOREM NewestReachesPanel == SessionSpec => []NewestOnPanel
<1>1. SessionInv => NewestOnPanel
  BY DEF SessionInv, SlotInv, NewestOnPanel
<1> QED BY <1>1, SessionInvariance, PTL

\* A shutdown that waited for the preview thread leaves nobody who writes.
THEOREM ShutdownIsQuiet == SessionSpec => []QuietAfterShutdown
<1>1. SessionInv => QuietAfterShutdown
  BY DEF SessionInv, QuietInv, QuietAfterShutdown
<1> QED BY <1>1, SessionInvariance, PTL
=============================================================================
