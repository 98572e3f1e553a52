----------------------------- MODULE TLSSession -----------------------------
(***************************************************************************)
(* The tunable light source in a GUI session: SessionController            *)
(* (control/session_controller.py) on the GUI's thread, its one worker     *)
(* that runs moves, and TLSService (devices/tls_service.py), which both    *)
(* threads call and which has no lock.                                     *)
(*                                                                         *)
(* A call of the service is cut where another thread can come between: a   *)
(* status is replaced as a whole, tls_state.json is written from the       *)
(* status of that moment, and the device is called.  Identity, grating and *)
(* error texts of a status are left out.  Every call of the device may     *)
(* raise, and every write of the file may be lost.                         *)
(***************************************************************************)
EXTENDS Naturals

CONSTANTS
    Wavelengths,   \* targets an operator may set
    NoValue,
    MaxCommands    \* bound: commands dispatched in the session

PassThrough == 0

Values == Wavelengths \cup {PassThrough, NoValue}

TLSStatus == [connected : BOOLEAN, current : Values, target : Values,
              moving : BOOLEAN]

ASSUME TLSAssumption ==
    /\ Wavelengths \subseteq Nat \ {PassThrough}
    /\ NoValue \notin Nat \cup TLSStatus
    /\ MaxCommands \in Nat \ {0}

Disconnected == [connected |-> FALSE, current |-> NoValue, target |-> NoValue,
                 moving |-> FALSE]

Operations == {"connect", "disconnect", "set_grating", "set_wavelength",
               "set_pass_through", "move", "get_status", "close"}

Settings == {"set_grating", "set_wavelength"}

Moves == {"move", "set_pass_through"}
Drops == {"disconnect", "close"}

Places == {"idle", "submit", "enter", "announce", "announced", "device",
           "moving", "read", "refresh", "dropped", "written", "failed",
           "noted", "return", "raised", "reset"}

Threads == {"gui", "worker"}

VARIABLES
    dev,        \* external: the device, as its get_status would tell it
    held,       \* TLSService._device is not None
    status,     \* TLSService._last_status
    file,       \* tls_state.json
    lost,       \* history: its last write was lost, or there is no status_dir
    session,    \* the tls fields of SessionState
    call,       \* of each thread: [op, arg, at, raw]
    queue,      \* moves submitted and not begun
    ended,      \* shutdown() has run
    commands,
    overlap,    \* history: a command was given while a move was under way
    failed      \* history: a call of the service has raised

tlsVars == <<dev, held, status, file, lost, session, call, queue, ended, commands,
             overlap, failed>>

NoCall == [op |-> "get_status", arg |-> NoValue, at |-> "idle", raw |-> NoValue]

TLSInit ==
    /\ dev = Disconnected /\ held = FALSE
    /\ status = Disconnected /\ file = NoValue /\ lost = FALSE /\ session = Disconnected
    /\ call = [t \in Threads |-> NoCall]
    /\ queue = 0 /\ ended = FALSE /\ commands = 0
    /\ overlap = FALSE /\ failed = FALSE

At(t, op, place) == call[t].op \in op /\ call[t].at = place
Go(t, place) == call' = [call EXCEPT ![t].at = place]

Busy == call["worker"].at # "idle" \/ queue > 0
Rest == call["gui"].at = "idle" /\ ~Busy

fileVars == <<file, lost>>
serviceVars == <<held, status, fileVars>>
controlVars == <<session, queue, ended, commands, overlap, failed>>

----------------------------------------------------------------------------
\* TLSService, called by thread t.

\* _require_device; get_status and disconnect also know a missing device.
Enter(t) ==
    /\ call[t].at = "enter"
    /\ \/ /\ call[t].op = "connect"
          /\ held' = TRUE /\ Go(t, "device")
       \/ /\ call[t].op \in Moves /\ held
          /\ Go(t, "announce") /\ UNCHANGED held
       \/ /\ call[t].op \in Settings \cup Drops /\ held
          /\ Go(t, "device") /\ UNCHANGED held
       \/ /\ call[t].op = "get_status"
          /\ IF held THEN Go(t, "read")
             ELSE call' = [call EXCEPT ![t].at = "return", ![t].raw = status]
          /\ UNCHANGED held
       \/ /\ call[t].op \in Drops /\ ~held
          /\ Go(t, "dropped") /\ UNCHANGED held
       \/ /\ call[t].op \in Moves \cup Settings /\ ~held
          /\ Go(t, "failed") /\ UNCHANGED held
    /\ UNCHANGED <<dev, status, fileVars, controlVars>>

\* The device object cannot be made: module missing, factory raising.
NoDevice(t) ==
    /\ At(t, {"connect"}, "enter") /\ ~held
    /\ Go(t, "failed")
    /\ UNCHANGED <<dev, serviceVars, controlVars>>

\* move and set_pass_through tell of the motion before they ask for it.
Announce(t) ==
    /\ call[t].at = "announce"
    /\ status' = [status EXCEPT !.moving = TRUE,
                    !.target = IF call[t].op = "move" THEN @ ELSE PassThrough]
    /\ Go(t, "announced")
    /\ UNCHANGED <<dev, held, fileVars, controlVars>>

\* _publish_tls_state: a write whose retries are exhausted is given up in
\* silence, and without a status_dir there is none.
WriteState ==
    \/ file' = status /\ lost' = FALSE
    \/ UNCHANGED file /\ lost' = TRUE

PublishMoving(t) ==
    /\ call[t].at = "announced"
    /\ WriteState
    /\ Go(t, "device")
    /\ UNCHANGED <<dev, held, status, controlVars>>

\* The call of the device.  One that is not connected refuses a setting.
CallDevice(t) ==
    /\ call[t].at = "device"
    /\ \/ /\ call[t].op = "connect"
          /\ \E c \in Wavelengths : dev' = [dev EXCEPT !.connected = TRUE, !.current = c]
          /\ Go(t, "read")
       \/ /\ call[t].op \in Drops
          /\ dev' = [Disconnected EXCEPT !.target = dev.target]
          /\ Go(t, "dropped")
       \/ /\ call[t].op \in Settings /\ dev.connected
          /\ dev' = [dev EXCEPT !.target = IF call[t].op = "set_grating" THEN @
                                           ELSE call[t].arg]
          /\ Go(t, "read")
       \/ /\ call[t].op \in Moves /\ dev.connected
          /\ dev' = [dev EXCEPT !.moving = TRUE,
                       !.target = IF call[t].op = "move" THEN @ ELSE PassThrough]
          /\ Go(t, "moving")
    /\ UNCHANGED <<serviceVars, controlVars>>

MoveDone(t) ==
    /\ call[t].at = "moving"
    /\ dev' = IF dev.connected
              THEN [dev EXCEPT !.moving = FALSE, !.current = dev.target]
              ELSE dev
    /\ Go(t, "read")
    /\ UNCHANGED <<serviceVars, controlVars>>

\* The device raises; after a timeout it may still be turning.
DeviceRaises(t) ==
    /\ \/ call[t].at \in {"device", "moving"}
       \/ call[t].at = "read" /\ held
    /\ dev' \in {dev, [dev EXCEPT !.moving = FALSE]}
    /\ Go(t, "failed")
    /\ UNCHANGED <<serviceVars, controlVars>>

\* _safe_get_status, in whose place the last status is used without a device.
ReadStatus(t) ==
    /\ call[t].at = "read"
    /\ call' = [call EXCEPT ![t].at = "refresh",
                            ![t].raw = IF held THEN dev ELSE NoValue]
    /\ UNCHANGED <<dev, serviceVars, controlVars>>

Normal(raw) == IF raw = NoValue THEN status ELSE raw

Overridden(t, s) ==
    [s EXCEPT !.target = CASE call[t].op = "set_wavelength" -> call[t].arg
                           [] call[t].op = "set_pass_through" -> PassThrough
                           [] OTHER -> @,
              !.moving = IF call[t].op \in Moves THEN FALSE ELSE @]

\* _refresh_status; only get_status does not write the file after it.
Refresh(t) ==
    /\ call[t].at = "refresh"
    /\ status' = Overridden(t, Normal(call[t].raw))
    /\ call' = [call EXCEPT ![t].raw = status',
                            ![t].at = IF call[t].op = "get_status" THEN "return"
                                      ELSE "written"]
    /\ UNCHANGED <<dev, held, fileVars, controlVars>>

\* _disconnected_status
Drop(t) ==
    /\ call[t].at = "dropped"
    /\ status' = [Disconnected EXCEPT !.target = status.target]
    /\ Go(t, "written")
    /\ UNCHANGED <<dev, held, fileVars, controlVars>>

\* The file after the call; disconnect reads the status again to return it, and
\* close() forgets the device.
PublishStatus(t) ==
    /\ call[t].at = "written"
    /\ WriteState
    /\ held' = (held /\ call[t].op # "close")
    /\ call' = [call EXCEPT ![t].at = "return",
                            ![t].raw = IF call[t].op \in Drops THEN status ELSE @]
    /\ UNCHANGED <<dev, status, controlVars>>

\* Mutation of Wrapped: the error is noted and nothing else.
WrappedOnly(s) == s

\* _wrap_exception
Wrapped(s) == [s EXCEPT !.moving = FALSE]

WrapError(t) ==
    /\ call[t].at = "failed"
    /\ status' = Wrapped(status)
    /\ Go(t, "noted")
    /\ failed' = TRUE
    /\ UNCHANGED <<dev, held, fileVars, session, queue, ended, commands, overlap>>

PublishError(t) ==
    /\ call[t].at = "noted"
    /\ WriteState
    /\ held' = (held /\ call[t].op # "close")
    /\ Go(t, "raised")
    /\ UNCHANGED <<dev, status, controlVars>>

ServiceStep(t) ==
    \/ Enter(t) \/ NoDevice(t) \/ Announce(t) \/ PublishMoving(t)
    \/ CallDevice(t) \/ MoveDone(t) \/ DeviceRaises(t)
    \/ ReadStatus(t) \/ Refresh(t) \/ Drop(t) \/ PublishStatus(t)
    \/ WrapError(t) \/ PublishError(t)

----------------------------------------------------------------------------
\* SessionController

Calling(op, arg) == [op |-> op, arg |-> arg, at |-> "enter", raw |-> NoValue]

Given ==
    /\ call["gui"].at = "idle" /\ ~ended /\ commands < MaxCommands
    /\ commands' = commands + 1
    /\ overlap' = (overlap \/ Busy)

\* dispatch: a command that calls the service and waits for it.
Dispatch ==
    /\ Given
    /\ \/ \E op \in {"connect", "disconnect", "set_grating", "set_pass_through",
                    "get_status"} :
            call' = [call EXCEPT !["gui"] = Calling(op, NoValue)]
       \/ \E w \in Wavelengths :
            call' = [call EXCEPT !["gui"] = Calling("set_wavelength", w)]
    /\ UNCHANGED <<dev, serviceVars, session, queue, ended, failed>>

\* _move_tls: the session says moving, then the move is submitted.
MoveTLS ==
    /\ Given
    /\ session' = [session EXCEPT !.moving = TRUE]
    /\ Go("gui", "submit")
    /\ UNCHANGED <<dev, serviceVars, queue, ended, failed>>

\* Mutation of Queued: the move is submitted twice.
QueuedTwice == queue + 2

Queued == queue + 1

SubmitMove ==
    /\ call["gui"].at = "submit"
    /\ queue' = Queued
    /\ Go("gui", "idle")
    /\ UNCHANGED <<dev, serviceVars, session, ended, commands, overlap, failed>>

\* Mutation of WorkerFree: a move waits for a device.
WorkerReady == call["worker"].at = "idle" /\ held

WorkerFree == call["worker"].at = "idle"

\* The executor's thread takes the next move.
RunMove ==
    /\ WorkerFree /\ queue > 0
    /\ queue' = queue - 1
    /\ call' = [call EXCEPT !["worker"] = Calling("move", NoValue)]
    /\ UNCHANGED <<dev, serviceVars, session, ended, commands, overlap, failed>>

\* _apply_tls_status
Apply(t) ==
    /\ call[t].at = "return" /\ call[t].op # "close"
    /\ session' = call[t].raw
    /\ call' = [call EXCEPT ![t] = NoCall]
    /\ UNCHANGED <<dev, serviceVars, queue, ended, commands, overlap, failed>>

ShuttingDown == call["gui"].op = "close" /\ call["gui"].at # "idle"

\* The except clause of dispatch, and _handle_tls_error for the worker, which
\* is silent during a shutdown.
ShowError(t) ==
    /\ call[t].at = "raised" /\ call[t].op # "close"
    /\ session' = IF t = "worker" /\ ShuttingDown THEN session
                  ELSE [session EXCEPT !.moving = FALSE]
    /\ call' = [call EXCEPT ![t] = NoCall]
    /\ UNCHANGED <<dev, serviceVars, queue, ended, commands, overlap, failed>>

\* shutdown(): tls_service.close, whether it raises or not, ...
Shutdown ==
    /\ Given
    /\ call' = [call EXCEPT !["gui"] = Calling("close", NoValue)]
    /\ UNCHANGED <<dev, serviceVars, session, queue, ended, failed>>

\* ... then the queued moves are cancelled; the one that runs is not waited for.
CancelMoves ==
    /\ At("gui", {"close"}, "return") \/ At("gui", {"close"}, "raised")
    /\ queue' = 0
    /\ Go("gui", "reset")
    /\ UNCHANGED <<dev, serviceVars, session, ended, commands, overlap, failed>>

ResetSession ==
    /\ call["gui"].at = "reset"
    /\ session' = Disconnected
    /\ ended' = TRUE
    /\ call' = [call EXCEPT !["gui"] = NoCall]
    /\ UNCHANGED <<dev, serviceVars, queue, commands, overlap, failed>>

GuiStep ==
    \/ Dispatch \/ MoveTLS \/ SubmitMove \/ Shutdown \/ CancelMoves
    \/ ResetSession \/ ServiceStep("gui") \/ Apply("gui") \/ ShowError("gui")

WorkerStep ==
    \/ RunMove \/ ServiceStep("worker") \/ Apply("worker") \/ ShowError("worker")

TLSNext == GuiStep \/ WorkerStep

\* The worker is a thread of the executor and every call of the device has a
\* timeout; the operator promises nothing.
TLSSpec == TLSInit /\ [][TLSNext]_tlsVars /\ WF_tlsVars(WorkerStep)

----------------------------------------------------------------------------
TLSTypeOK ==
    /\ dev \in TLSStatus /\ held \in BOOLEAN /\ status \in TLSStatus
    /\ file \in TLSStatus \cup {NoValue} /\ lost \in BOOLEAN /\ session \in TLSStatus
    /\ call \in [Threads -> [op : Operations, arg : Values, at : Places,
                             raw : TLSStatus \cup {NoValue}]]
    /\ queue \in 0 .. MaxCommands /\ commands \in 0 .. MaxCommands
    /\ ended \in BOOLEAN /\ overlap \in BOOLEAN /\ failed \in BOOLEAN

(***************************************************************************)
(* If no command was given while a move was under way, then at rest the    *)
(* session and the service agree whether the light source is connected and *)
(* moves, whatever raised on the way.  If nothing raised they agree on     *)
(* everything, nothing moves, the device, when there is one, is as they    *)
(* say, and so is tls_state.json unless its last write was lost            *)
(* (tls_service.py:269-290).                                               *)
(***************************************************************************)
AccountsAgree ==
    Rest /\ ~overlap =>
      /\ \/ ended
         \/ session.connected = status.connected /\ session.moving = status.moving
      /\ ~failed => /\ ended \/ session = status
                    /\ ~status.moving
                    /\ held => dev = status
                    /\ ~lost => file \in {NoValue, status}

(***************************************************************************)
(* Every move that was asked for comes to an end: it finishes, fails or is *)
(* cancelled, and the worker is free again.                                *)
(***************************************************************************)
MovesEnd == [](Busy => <>(call["worker"].at = "idle" /\ queue = 0))

(***************************************************************************)
(* tests/test_tls_controller.py:148 says of the session after a move has   *)
(* finished that it is not moving: with no call nor move under way, after  *)
(* calls of which none has raised.                                         *)
(***************************************************************************)
RestIsStill == Rest /\ ~failed => ~session.moving
=============================================================================
