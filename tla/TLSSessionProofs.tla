--------------------------- MODULE TLSSessionProofs ---------------------------
(***************************************************************************)
(* Proofs about TLSSession, for any number of wavelengths and commands.    *)
(* While no command is given during a move, one thread at a time is in the *)
(* service (OneActive) and its call is Current.  Connection says what that *)
(* call leaves of the agreement between session and service at each of its *)
(* places, whatever raises; Course what the device, the status, the file   *)
(* and the answer have in common there, as long as nothing has raised.     *)
(***************************************************************************)
EXTENDS TLSSession, TLAPS

\* What a thread can be doing at each place, and the answers that are typed.
OpFits(t) ==
    /\ t = "worker" => call[t].op # "close" /\ call[t].at \notin {"submit", "reset"}
    /\ call[t].at \in {"announce", "announced", "moving"} => call[t].op \in Moves
    /\ call[t].at \in {"read", "refresh"} => call[t].op \notin Drops
    /\ call[t].at = "dropped" => call[t].op \in Drops
    /\ call[t].at \in {"idle", "submit"} => call[t].op = "get_status"
    /\ call[t].at \in {"noted", "raised"} => failed
    /\ call[t].at = "written" /\ call[t].op \notin Drops => call[t].raw \in TLSStatus
    /\ call[t].at = "return" => call[t].raw \in TLSStatus

\* A queued move was a command.
QueueCounted == queue + (IF call["gui"].at = "submit" THEN 1 ELSE 0) <= commands

TLSShape == TLSTypeOK /\ (\A t \in Threads : OpFits(t)) /\ QueueCounted

\* One thread is in the service, or none.
OneActive ==
    /\ call["gui"].at # "idle" => call["worker"].at = "idle" /\ queue = 0
    /\ call["worker"].at # "idle" => queue = 0
    /\ queue <= 1

Current == IF call["worker"].at # "idle" THEN call["worker"] ELSE call["gui"]

\* Of call k: until the status is refreshed the session knows whether the light
\* source is connected; after that the answer tells it.
Connection(k) ==
    /\ k.at \notin {"written", "return"} /\ k.op # "close" =>
         ended \/ session.connected = status.connected
    /\ k.at \in {"noted", "raised"} => ~status.moving
    /\ k.at = "written" /\ k.op \notin Drops => k.raw = status
    /\ k.at = "return" => k.raw = status

\* The service knows the device, and the file what the service knows unless its
\* last write was lost.
Known == (held => dev = status) /\ ~status.moving
Told == lost \/ file \in {NoValue, status}

\* Of call k, when nothing has raised.
Course(k) ==
    /\ k.at \notin {"moving", "failed"} => ~dev.moving
    /\ k.at \in {"idle", "submit", "enter", "announce"} => Known /\ Told
    /\ k.at \in {"announce", "announced", "device", "moving", "read", "refresh"} => held
    /\ k.at = "device" /\ k.op \in Drops => Known
    /\ k.at = "moving" => /\ dev.connected
                          /\ k.op = "set_pass_through" => dev.target = PassThrough
    /\ k.at \in {"read", "refresh"} =>
         /\ k.op = "get_status" => Known /\ Told
         /\ k.op = "set_wavelength" => dev.target = k.arg
         /\ k.op = "set_pass_through" => dev.target = PassThrough
    /\ k.at = "refresh" => k.raw = dev
    /\ k.at = "dropped" => (held => dev = [Disconnected EXCEPT !.target = status.target])
    /\ k.at = "written" => Known
    /\ k.at \in {"return", "reset"} => Known /\ Told

ConnectedAtRest ==
    Rest => \/ ended
            \/ session.connected = status.connected /\ session.moving = status.moving

TLSInv ==
    /\ TLSShape
    /\ ~overlap => OneActive /\ Connection(Current) /\ ConnectedAtRest
    /\ ~overlap /\ ~failed => Course(Current) /\ (Rest => ended \/ session = status)

----------------------------------------------------------------------------
(* Types.                                                                  *)

LEMMA StatusTyped ==
    ASSUME NEW s \in TLSStatus, NEW v \in Values, NEW b \in BOOLEAN
    PROVE  /\ s.connected \in BOOLEAN /\ s.current \in Values
           /\ s.target \in Values /\ s.moving \in BOOLEAN
           /\ [s EXCEPT !.moving = b] \in TLSStatus
           /\ [s EXCEPT !.target = v] \in TLSStatus
           /\ [s EXCEPT !.connected = TRUE, !.current = v] \in TLSStatus
           /\ [s EXCEPT !.moving = b, !.target = v] \in TLSStatus
           /\ [s EXCEPT !.moving = b, !.current = v] \in TLSStatus
<1> USE DEF TLSStatus
<1> HIDE DEF Values
<1> QED OBVIOUS

LEMMA DisconnectedTyped ==
    /\ Disconnected \in TLSStatus
    /\ \A s \in TLSStatus : [Disconnected EXCEPT !.target = s.target] \in TLSStatus
<1>1. NoValue \in Values
    BY DEF Values
<1>2. Disconnected \in TLSStatus
    BY <1>1 DEF Disconnected, TLSStatus
<1>3. \A s \in TLSStatus : s.target \in Values
    BY DEF TLSStatus
<1>4. \A v \in Values : [Disconnected EXCEPT !.target = v] \in TLSStatus
    BY <1>2, StatusTyped
<1> QED BY <1>2, <1>3, <1>4

CallType == [op : Operations, arg : Values, at : Places, raw : TLSStatus \cup {NoValue}]

\* Moving on to another place.
LEMMA GoTyped ==
    ASSUME call \in [Threads -> CallType], NEW t \in Threads, NEW p \in Places, Go(t, p)
    PROVE  /\ call' \in [Threads -> CallType]
           /\ call'[t].at = p /\ call'[t].op = call[t].op
           /\ call'[t].arg = call[t].arg /\ call'[t].raw = call[t].raw
           /\ \A u \in Threads : u # t => call'[u] = call[u]
<1>1. call[t] \in CallType
    OBVIOUS
<1>2. [call[t] EXCEPT !.at = p] \in CallType
    <2> HIDE DEF Operations, Values, Places, TLSStatus
    <2> QED BY <1>1 DEF CallType
<1>3. call'[t] = [call[t] EXCEPT !.at = p]
    BY DEF Go
<1>4. /\ call'[t].at = p /\ call'[t].op = call[t].op
      /\ call'[t].arg = call[t].arg /\ call'[t].raw = call[t].raw
    BY <1>1, <1>3 DEF CallType
<1> QED BY <1>2, <1>4 DEF Go

LEMMA ReadStatusCall ==
    ASSUME TLSTypeOK, NEW t \in Threads, ReadStatus(t)
    PROVE  /\ call' \in [Threads -> CallType]
           /\ call'[t].at = "refresh" /\ call'[t].op = call[t].op
           /\ call'[t].arg = call[t].arg /\ (held => call'[t].raw = dev)
           /\ \A u \in Threads : u # t => call'[u] = call[u]
<1> DEFINE r == IF held THEN dev ELSE NoValue
           m == [call[t] EXCEPT !.at = "refresh", !.raw = r]
<1>1. /\ call \in [Threads -> CallType] /\ call[t] \in CallType
      /\ r \in TLSStatus \cup {NoValue} /\ "refresh" \in Places
    BY DEF TLSTypeOK, CallType, Places
<1>2. call' = [call EXCEPT ![t] = m]
    BY <1>1 DEF ReadStatus, CallType
<1>3. held => r = dev
    OBVIOUS
<1> HIDE DEF r
<1>4. m \in CallType /\ m.at = "refresh" /\ m.op = call[t].op /\ m.arg = call[t].arg /\ m.raw = r
    BY <1>1 DEF CallType
<1> HIDE DEF m
<1> QED BY <1>1, <1>2, <1>3, <1>4

LEMMA RefreshCall ==
    ASSUME TLSTypeOK, NEW t \in Threads, Refresh(t)
    PROVE  /\ status' \in TLSStatus /\ call' \in [Threads -> CallType]
           /\ call'[t].at = IF call[t].op = "get_status" THEN "return" ELSE "written"
           /\ call'[t].op = call[t].op /\ call'[t].arg = call[t].arg /\ call'[t].raw = status'
           /\ \A u \in Threads : u # t => call'[u] = call[u]
<1> DEFINE p == IF call[t].op = "get_status" THEN "return" ELSE "written"
           m == [call[t] EXCEPT !.at = p, !.raw = status']
<1>1. /\ call \in [Threads -> CallType] /\ call[t] \in CallType
      /\ p \in Places /\ status \in TLSStatus
    BY DEF TLSTypeOK, CallType, Places
<1>2. status' \in TLSStatus
    <2>1. call[t].raw \in TLSStatus \cup {NoValue} /\ call[t].arg \in Values
        BY <1>1 DEF CallType
    <2>2. Normal(call[t].raw) \in TLSStatus
        BY <1>1, <2>1 DEF Normal
    <2> QED BY <2>1, <2>2, StatusTyped DEF Refresh, Overridden, Values
<1>3. call' = [call EXCEPT ![t] = m]
    BY <1>1 DEF Refresh, CallType
<1> HIDE DEF p
<1>4. m \in CallType /\ m.at = p /\ m.op = call[t].op /\ m.arg = call[t].arg /\ m.raw = status'
    BY <1>1, <1>2 DEF CallType
<1> HIDE DEF m
<1> QED BY <1>1, <1>2, <1>3, <1>4 DEF p

LEMMA PublishStatusCall ==
    ASSUME TLSTypeOK, NEW t \in Threads, PublishStatus(t)
    PROVE  /\ call' \in [Threads -> CallType]
           /\ call'[t].at = "return" /\ call'[t].op = call[t].op /\ call'[t].arg = call[t].arg
           /\ call'[t].raw = IF call[t].op \in Drops THEN status ELSE call[t].raw
           /\ \A u \in Threads : u # t => call'[u] = call[u]
<1> DEFINE r == IF call[t].op \in Drops THEN status ELSE call[t].raw
           m == [call[t] EXCEPT !.at = "return", !.raw = r]
<1>1. /\ call \in [Threads -> CallType] /\ call[t] \in CallType
      /\ "return" \in Places /\ status \in TLSStatus
    BY DEF TLSTypeOK, CallType, Places
<1>2. r \in TLSStatus \cup {NoValue}
    BY <1>1 DEF CallType
<1>3. call' = [call EXCEPT ![t] = m]
    BY <1>1 DEF PublishStatus, CallType
<1> HIDE DEF r
<1>4. m \in CallType /\ m.at = "return" /\ m.op = call[t].op /\ m.arg = call[t].arg /\ m.raw = r
    BY <1>1, <1>2 DEF CallType
<1> HIDE DEF m
<1> QED BY <1>1, <1>3, <1>4 DEF r

\* Where a call goes from its entry.
LEMMA EnterCall ==
    ASSUME TLSTypeOK, NEW t \in Threads, Enter(t)
    PROVE  /\ call' \in [Threads -> CallType] /\ call[t].at = "enter"
           /\ call'[t].op = call[t].op /\ call'[t].arg = call[t].arg
           /\ \A u \in Threads : u # t => call'[u] = call[u]
           /\ \/ call'[t].at = "device" /\ call[t].op = "connect" /\ held'
              \/ call'[t].at = "device" /\ call[t].op \in Settings \cup Drops /\ held /\ held'
              \/ call'[t].at = "announce" /\ call[t].op \in Moves /\ held /\ held'
              \/ call'[t].at = "read" /\ call[t].op = "get_status" /\ held /\ held'
              \/ /\ call'[t].at = "return" /\ call[t].op = "get_status"
                 /\ call'[t].raw = status /\ held' = held
              \/ call'[t].at = "dropped" /\ call[t].op \in Drops /\ ~held /\ held' = held
              \/ call'[t].at = "failed" /\ held' = held
<1>1. call \in [Threads -> CallType] /\ status \in TLSStatus /\ call[t].at = "enter"
    BY DEF TLSTypeOK, CallType, Enter
<1>2. CASE call[t].op = "connect" /\ held' = TRUE /\ Go(t, "device")
    BY <1>1, <1>2, GoTyped DEF Places
<1>3. CASE call[t].op \in Moves /\ held /\ Go(t, "announce") /\ UNCHANGED held
    BY <1>1, <1>3, GoTyped DEF Places
<1>4. CASE call[t].op \in Settings \cup Drops /\ held /\ Go(t, "device") /\ UNCHANGED held
    BY <1>1, <1>4, GoTyped DEF Places
<1>5. CASE call[t].op = "get_status" /\ held /\ Go(t, "read") /\ UNCHANGED held
    BY <1>1, <1>5, GoTyped DEF Places
<1>6. CASE /\ call[t].op = "get_status" /\ UNCHANGED held
           /\ call' = [call EXCEPT ![t].at = "return", ![t].raw = status]
    <2> DEFINE m == [call[t] EXCEPT !.at = "return", !.raw = status]
    <2>1. call' = [call EXCEPT ![t] = m]
        BY <1>1, <1>6 DEF CallType
    <2>2. /\ m \in CallType /\ m.at = "return" /\ m.op = call[t].op /\ m.arg = call[t].arg
          /\ m.raw = status
        BY <1>1 DEF CallType, Places
    <2> HIDE DEF m
    <2> QED BY <1>1, <1>6, <2>1, <2>2
<1>7. CASE call[t].op \in Drops /\ ~held /\ Go(t, "dropped") /\ UNCHANGED held
    BY <1>1, <1>7, GoTyped DEF Places
<1>8. CASE ~held /\ Go(t, "failed") /\ UNCHANGED held
    BY <1>1, <1>8, GoTyped DEF Places
<1> QED BY <1>2, <1>3, <1>4, <1>5, <1>6, <1>7, <1>8 DEF Enter

\* What a step of thread t in the service does to the calls.
LEMMA ServiceCalls ==
    ASSUME TLSTypeOK, NEW t \in Threads, ServiceStep(t)
    PROVE  /\ call' \in [Threads -> CallType]
           /\ call[t].at \notin {"idle", "submit", "reset"}
           /\ call'[t].at \notin {"idle", "submit", "reset"}
           /\ call'[t].op = call[t].op /\ call'[t].arg = call[t].arg
           /\ \A u \in Threads : u # t => call'[u] = call[u]
           /\ UNCHANGED <<session, queue, ended, commands, overlap>>
<1> USE DEF controlVars
<1>1. call \in [Threads -> CallType]
    BY DEF TLSTypeOK, CallType
<1>2. CASE Enter(t)
    BY <1>2, EnterCall DEF Enter
<1>3. CASE NoDevice(t) \/ Announce(t) \/ PublishMoving(t) \/ CallDevice(t) \/ MoveDone(t)
    <2>1. \E p \in {"announced", "read", "dropped", "moving", "failed", "device"} : Go(t, p)
        BY <1>3 DEF NoDevice, Announce, PublishMoving, CallDevice, MoveDone
    <2> QED BY <1>1, <1>3, <2>1, GoTyped
            DEF NoDevice, At, Announce, PublishMoving, CallDevice, MoveDone, Places
<1>4. CASE DeviceRaises(t) \/ Drop(t) \/ WrapError(t) \/ PublishError(t)
    <2>1. \E p \in {"failed", "written", "noted", "raised"} : Go(t, p)
        BY <1>4 DEF DeviceRaises, Drop, WrapError, PublishError
    <2> QED BY <1>1, <1>4, <2>1, GoTyped
            DEF DeviceRaises, Drop, WrapError, PublishError, Places
<1>5. CASE ReadStatus(t)
    BY <1>5, ReadStatusCall DEF ReadStatus
<1>6. CASE Refresh(t)
    <2>1. call[t].at = "refresh" /\ UNCHANGED controlVars
        BY <1>6 DEF Refresh
    <2>2. call'[t].at \in {"return", "written"}
        BY <1>6, RefreshCall
    <2> QED BY <1>6, <2>1, <2>2, RefreshCall
<1>7. CASE PublishStatus(t)
    <2>1. call[t].at = "written" /\ UNCHANGED controlVars
        BY <1>7 DEF PublishStatus
    <2> QED BY <1>7, <2>1, PublishStatusCall
<1> QED BY <1>2, <1>3, <1>4, <1>5, <1>6, <1>7 DEF ServiceStep

\* What a step of thread t in the service does to the rest, and where it leads.
LEMMA ServiceKeepsShape ==
    ASSUME TLSShape, NEW t \in Threads, ServiceStep(t)
    PROVE  TLSShape'
<1>1. /\ call' \in [Threads -> CallType] /\ call[t].at \notin {"idle", "submit", "reset"}
      /\ call'[t].at \notin {"idle", "submit", "reset"}
      /\ call'[t].op = call[t].op /\ call'[t].arg = call[t].arg
      /\ \A u \in Threads : u # t => call'[u] = call[u]
      /\ UNCHANGED <<session, queue, ended, commands, overlap>>
    BY ServiceCalls DEF TLSShape
<1>2. /\ call \in [Threads -> CallType] /\ status \in TLSStatus /\ dev \in TLSStatus
      /\ file \in TLSStatus \cup {NoValue} /\ held \in BOOLEAN /\ failed \in BOOLEAN /\ lost \in BOOLEAN
      /\ OpFits(t)
    BY DEF TLSShape, TLSTypeOK, CallType
<1>3. QueueCounted'
    BY <1>1 DEF QueueCounted, TLSShape, Threads
<1> SUFFICES /\ dev' \in TLSStatus /\ held' \in BOOLEAN /\ status' \in TLSStatus
             /\ file' \in TLSStatus \cup {NoValue} /\ failed' \in BOOLEAN /\ lost' \in BOOLEAN
             /\ OpFits(t)' /\ (failed => failed')
    <2>1. ASSUME NEW u \in Threads, u # t, failed => failed' PROVE OpFits(u)'
        BY <1>1, <2>1 DEF TLSShape, OpFits
    <2> QED BY <1>1, <1>3, <2>1 DEF TLSShape, TLSTypeOK, CallType
<1> USE <1>1, <1>2 DEF fileVars, serviceVars, controlVars, OpFits, At
<1>4. CASE Enter(t)
    <2>1. UNCHANGED <<dev, status, file, lost, controlVars>> /\ held' \in BOOLEAN
        BY <1>4 DEF Enter
    <2>2. /\ call'[t].at = "announce" => call[t].op \in Moves
          /\ call'[t].at = "read" => call[t].op \notin Drops
          /\ call'[t].at = "dropped" => call[t].op \in Drops
          /\ call'[t].at = "return" => call'[t].raw = status
          /\ call'[t].at \in {"device", "announce", "read", "return", "dropped", "failed"}
        BY <1>4, EnterCall DEF TLSShape, Drops
    <2> QED BY <2>1, <2>2
<1>5. CASE NoDevice(t) \/ PublishMoving(t) \/ PublishError(t)
    BY <1>5, GoTyped DEF NoDevice, PublishMoving, PublishError, WriteState, Places
<1>6. CASE Announce(t)
    <2>1. status' \in TLSStatus
        BY <1>6 DEF Announce, TLSStatus, Values
    <2>2. call'[t].at = "announced"
        BY <1>6, GoTyped DEF Announce, Places
    <2> QED BY <1>6, <2>1, <2>2 DEF Announce
<1>7. CASE CallDevice(t)
    <2>1. dev' \in TLSStatus
        <3>1. call[t].arg \in Values /\ Wavelengths \subseteq Values /\ PassThrough \in Values
            BY DEF CallType, Values
        <3>2. dev.target \in Values
            BY DEF TLSStatus
        <3>3. CASE call[t].op \in Drops
            BY <1>7, <3>3, DisconnectedTyped DEF CallDevice, Drops, Settings, Moves
        <3>4. CASE call[t].op \notin Drops
            BY <1>7, <3>1, <3>2, <3>4 DEF CallDevice, TLSStatus
        <3> QED BY <3>3, <3>4
    <2>2. call'[t].at \in {"read", "dropped", "moving"}
        BY <1>7, GoTyped DEF CallDevice, Places
    <2>3. /\ call'[t].at = "read" => call[t].op \notin Drops
          /\ call'[t].at = "dropped" => call[t].op \in Drops
          /\ call'[t].at = "moving" => call[t].op \in Moves
        BY <1>7, GoTyped DEF CallDevice, Places, Drops, Settings, Moves
    <2> QED BY <1>7, <2>1, <2>2, <2>3 DEF CallDevice
<1>8. CASE MoveDone(t)
    <2>1. dev' \in TLSStatus
        BY <1>8 DEF MoveDone, TLSStatus
    <2>2. call'[t].at = "read"
        BY <1>8, GoTyped DEF MoveDone, Places
    <2> QED BY <1>8, <2>1, <2>2 DEF MoveDone, Moves, Drops
<1>9. CASE DeviceRaises(t)
    <2>1. dev' \in TLSStatus
        BY <1>9 DEF DeviceRaises, TLSStatus
    <2>2. call'[t].at = "failed"
        BY <1>9, GoTyped DEF DeviceRaises, Places
    <2> QED BY <1>9, <2>1, <2>2 DEF DeviceRaises
<1>10. CASE ReadStatus(t)
    <2>1. UNCHANGED <<dev, serviceVars, controlVars>> /\ call[t].at = "read"
        BY <1>10 DEF ReadStatus
    <2>2. call'[t].at = "refresh"
        BY <1>10, ReadStatusCall DEF TLSShape
    <2> QED BY <2>1, <2>2
<1>11. CASE Refresh(t)
    <2>1. UNCHANGED <<dev, held, file, lost, controlVars>> /\ call[t].at = "refresh"
        BY <1>11 DEF Refresh
    <2>2. /\ status' \in TLSStatus /\ call'[t].raw = status'
          /\ call'[t].at \in {"return", "written"}
        BY <1>11, RefreshCall DEF TLSShape
    <2> QED BY <2>1, <2>2
<1>12. CASE Drop(t)
    <2>1. status' \in TLSStatus /\ call'[t].at = "written"
        BY <1>12, DisconnectedTyped, GoTyped DEF Drop, Places
    <2> QED BY <1>12, <2>1 DEF Drop
<1>13. CASE PublishStatus(t)
    <2>1. /\ UNCHANGED <<dev, status, controlVars>> /\ call[t].at = "written"
          /\ file' \in {file, status} /\ lost' \in BOOLEAN /\ held' \in BOOLEAN
        BY <1>13 DEF PublishStatus, WriteState
    <2>2. /\ call'[t].at = "return"
          /\ call'[t].raw = IF call[t].op \in Drops THEN status ELSE call[t].raw
        BY <1>13, PublishStatusCall DEF TLSShape
    <2>3. call'[t].raw \in TLSStatus
        BY <2>1, <2>2
    <2> QED BY <2>1, <2>2, <2>3
<1>14. CASE WrapError(t)
    <2>1. status' \in TLSStatus
        BY <1>14 DEF WrapError, Wrapped, TLSStatus
    <2>2. call'[t].at = "noted"
        BY <1>14, GoTyped DEF WrapError, Places
    <2> QED BY <1>14, <2>1, <2>2 DEF WrapError
<1> QED BY <1>4, <1>5, <1>6, <1>7, <1>8, <1>9, <1>10, <1>11, <1>12, <1>13, <1>14
        DEF ServiceStep

\* A command or the worker gives thread t another call.
LEMMA NewCall ==
    ASSUME TLSShape, NEW t \in Threads, NEW m \in CallType,
           call' = [call EXCEPT ![t] = m]
    PROVE  /\ call' \in [Threads -> CallType] /\ call'[t] = m
           /\ \A u \in Threads : u # t => call'[u] = call[u]
BY DEF TLSShape, TLSTypeOK, CallType

LEMMA CallingTyped ==
    /\ NoCall \in CallType /\ NoCall.at = "idle" /\ NoCall.op = "get_status"
    /\ \A op \in Operations, arg \in Values :
         /\ Calling(op, arg) \in CallType
         /\ Calling(op, arg).op = op /\ Calling(op, arg).at = "enter"
<1>1. /\ NoValue \in Values /\ "get_status" \in Operations
      /\ "idle" \in Places /\ "enter" \in Places
    BY DEF Values, Operations, Places
<1> QED BY <1>1 DEF NoCall, Calling, CallType

\* What a command given to the GUI makes of its call.
LEMMA CommandCall ==
    ASSUME TLSShape, Dispatch \/ Shutdown \/ MoveTLS
    PROVE  /\ call' \in [Threads -> CallType]
           /\ call'["worker"] = call["worker"]
           /\ \/ call'["gui"].at = "enter" /\ ~MoveTLS
              \/ call'["gui"].at = "submit" /\ call'["gui"].op = call["gui"].op /\ MoveTLS
<1>1. /\ "gui" \in Threads /\ "worker" \in Threads
      /\ call \in [Threads -> CallType] /\ call["gui"].at = "idle"
    BY DEF Threads, TLSShape, TLSTypeOK, CallType, Dispatch, Shutdown, MoveTLS, Given
<1>2. CASE MoveTLS
    <2>1. Go("gui", "submit") /\ "submit" \in Places
        BY <1>2 DEF MoveTLS, Places
    <2> QED BY <1>1, <1>2, <2>1, GoTyped
<1>3. CASE Dispatch \/ Shutdown
    <2>1. \E op \in Operations, arg \in Values : call' = [call EXCEPT !["gui"] = Calling(op, arg)]
        <3>1. CASE Dispatch
            BY <3>1 DEF Dispatch, Operations, Values
        <3>2. CASE Shutdown
            BY <3>2 DEF Shutdown, Operations, Values
        <3> QED BY <1>3, <3>1, <3>2
    <2>2. PICK m \in CallType : m.at = "enter" /\ call' = [call EXCEPT !["gui"] = m]
        BY <2>1, CallingTyped
    <2>3. /\ call' \in [Threads -> CallType] /\ call'["gui"].at = "enter"
          /\ call'["worker"] = call["worker"]
        BY <1>1, <2>2, NewCall
    <2>4. CASE MoveTLS
        BY <1>2, <2>4
    <2> QED BY <2>3, <2>4
<1> QED BY <1>2, <1>3

\* What the session controller's other steps make of the calls.
LEMMA ControlCalls ==
    ASSUME TLSShape
    PROVE  /\ SubmitMove => /\ call' \in [Threads -> CallType]
                            /\ call'["gui"].at = "idle" /\ call'["gui"].op = call["gui"].op
                            /\ call'["worker"] = call["worker"]
           /\ CancelMoves => /\ call' \in [Threads -> CallType]
                             /\ call'["gui"].at = "reset" /\ call'["gui"].op = "close"
                             /\ call'["worker"] = call["worker"]
           /\ ResetSession => /\ call' \in [Threads -> CallType]
                              /\ call'["gui"] = NoCall /\ call'["worker"] = call["worker"]
           /\ RunMove => /\ call' \in [Threads -> CallType]
                         /\ call'["worker"].at = "enter" /\ call'["worker"].op = "move"
                         /\ call'["gui"] = call["gui"]
           /\ \A t \in Threads : Apply(t) \/ ShowError(t) =>
                /\ call' \in [Threads -> CallType] /\ call'[t] = NoCall
                /\ \A u \in Threads : u # t => call'[u] = call[u]
<1>1. /\ "gui" \in Threads /\ "worker" \in Threads /\ "gui" # "worker"
      /\ call \in [Threads -> CallType]
    BY DEF Threads, TLSShape, TLSTypeOK, CallType
<1>2. ASSUME SubmitMove
      PROVE  /\ call' \in [Threads -> CallType]
             /\ call'["gui"].at = "idle" /\ call'["gui"].op = call["gui"].op
             /\ call'["worker"] = call["worker"]
    <2>1. Go("gui", "idle") /\ "idle" \in Places
        BY <1>2 DEF SubmitMove, Places
    <2> QED BY <1>1, <2>1, GoTyped
<1>3. ASSUME CancelMoves
      PROVE  /\ call' \in [Threads -> CallType]
             /\ call'["gui"].at = "reset" /\ call'["gui"].op = "close"
             /\ call'["worker"] = call["worker"]
    <2>1. Go("gui", "reset") /\ "reset" \in Places /\ call["gui"].op = "close"
        BY <1>3 DEF CancelMoves, Places, At
    <2> QED BY <1>1, <2>1, GoTyped
<1>4. ASSUME ResetSession
      PROVE  /\ call' \in [Threads -> CallType]
             /\ call'["gui"] = NoCall /\ call'["worker"] = call["worker"]
    BY <1>1, <1>4, NewCall, CallingTyped DEF ResetSession
<1>5. ASSUME RunMove
      PROVE  /\ call' \in [Threads -> CallType]
             /\ call'["worker"].at = "enter" /\ call'["worker"].op = "move"
             /\ call'["gui"] = call["gui"]
    <2>1. call' = [call EXCEPT !["worker"] = Calling("move", NoValue)]
        BY <1>5 DEF RunMove
    <2>2. "move" \in Operations /\ NoValue \in Values
        BY DEF Operations, Values
    <2>3. /\ Calling("move", NoValue) \in CallType
          /\ Calling("move", NoValue).at = "enter" /\ Calling("move", NoValue).op = "move"
        BY <2>2, CallingTyped
    <2> QED BY <1>1, <2>1, <2>3, NewCall
<1>6. ASSUME NEW t \in Threads, Apply(t) \/ ShowError(t)
      PROVE  /\ call' \in [Threads -> CallType] /\ call'[t] = NoCall
             /\ \A u \in Threads : u # t => call'[u] = call[u]
    BY <1>6, NewCall, CallingTyped DEF Apply, ShowError
<1> QED BY <1>2, <1>3, <1>4, <1>5, <1>6

\* The session controller's steps.
ControlStep ==
    \/ Dispatch \/ MoveTLS \/ SubmitMove \/ Shutdown \/ CancelMoves \/ ResetSession \/ RunMove
    \/ \E t \in Threads : Apply(t) \/ ShowError(t)

LEMMA ControlKeepsShape ==
    ASSUME TLSShape, ControlStep
    PROVE  TLSShape'
<1>1. /\ "gui" \in Threads /\ "worker" \in Threads /\ Threads = {"gui", "worker"}
      /\ OpFits("gui") /\ OpFits("worker") /\ session \in TLSStatus
      /\ queue \in Nat /\ commands \in Nat /\ commands <= MaxCommands /\ MaxCommands \in Nat
      /\ queue + (IF call["gui"].at = "submit" THEN 1 ELSE 0) <= commands
    BY TLSAssumption DEF Threads, TLSShape, TLSTypeOK, QueueCounted
<1>2. UNCHANGED <<dev, serviceVars, failed>> /\ ended' \in BOOLEAN /\ overlap' \in BOOLEAN
    BY DEF ControlStep, TLSShape, TLSTypeOK, Dispatch, MoveTLS, SubmitMove, Shutdown,
           CancelMoves, ResetSession, RunMove, Apply, ShowError, Given
<1>0. \A b \in BOOLEAN : [session EXCEPT !.moving = b] \in TLSStatus
    <2> HIDE DEF TLSStatus
    <2>1. \A s \in TLSStatus, b \in BOOLEAN : [s EXCEPT !.moving = b] \in TLSStatus
        BY DEF TLSStatus
    <2> QED BY <1>1, <2>1
<1> SUFFICES /\ call' \in [Threads -> CallType] /\ session' \in TLSStatus
             /\ queue' \in Nat /\ commands' \in Nat /\ commands' <= MaxCommands
             /\ queue' + (IF call'["gui"].at = "submit" THEN 1 ELSE 0) <= commands'
             /\ OpFits("gui")' /\ OpFits("worker")'
    <2>1. queue' \in Nat /\ commands' \in Nat /\ commands' <= MaxCommands
          /\ queue' + (IF call'["gui"].at = "submit" THEN 1 ELSE 0) <= commands'
          => queue' \in 0 .. MaxCommands /\ commands' \in 0 .. MaxCommands
        BY <1>1
    <2> QED BY <1>1, <1>2, <2>1
            DEF TLSShape, TLSTypeOK, CallType, QueueCounted, fileVars, serviceVars
<1>3. CASE Dispatch \/ Shutdown \/ MoveTLS
    <2>1. /\ call' \in [Threads -> CallType] /\ call'["worker"] = call["worker"]
          /\ \/ call'["gui"].at = "enter"
             \/ call'["gui"].at = "submit" /\ call'["gui"].op = call["gui"].op
        BY <1>3, CommandCall
    <2>2. /\ call["gui"].at = "idle" /\ commands < MaxCommands /\ commands' = commands + 1
          /\ queue' = queue
        BY <1>3 DEF Dispatch, Shutdown, MoveTLS, Given
    <2>3. session' \in TLSStatus
        BY <1>0, <1>1, <1>3 DEF Dispatch, Shutdown, MoveTLS
    <2>4. OpFits("gui")' /\ OpFits("worker")'
        BY <1>1, <1>2, <2>1, <2>2 DEF OpFits
    <2>5. /\ queue' \in Nat /\ commands' \in Nat /\ commands' <= MaxCommands
          /\ queue' + (IF call'["gui"].at = "submit" THEN 1 ELSE 0) <= commands'
        BY <1>1, <2>2
    <2> QED BY <2>1, <2>3, <2>4, <2>5
<1>4. CASE SubmitMove
    <2>1. /\ call' \in [Threads -> CallType] /\ call'["worker"] = call["worker"]
          /\ call'["gui"].at = "idle" /\ call'["gui"].op = call["gui"].op
        BY <1>4, ControlCalls
    <2>2. /\ call["gui"].at = "submit" /\ queue' = queue + 1
          /\ UNCHANGED <<session, commands>>
        BY <1>4 DEF SubmitMove, Queued
    <2>3. OpFits("gui")' /\ OpFits("worker")'
        BY <1>1, <1>2, <2>1, <2>2 DEF OpFits
    <2> QED BY <1>1, <2>1, <2>2, <2>3
<1>5. CASE CancelMoves \/ ResetSession
    <2>1. /\ call' \in [Threads -> CallType] /\ call'["worker"] = call["worker"]
          /\ \/ call'["gui"].at = "reset"
             \/ call'["gui"].at = "idle" /\ call'["gui"].op = "get_status"
        BY <1>5, ControlCalls, CallingTyped
    <2>2. queue' \in {queue, 0} /\ commands' = commands /\ session' \in TLSStatus
        BY <1>1, <1>5, DisconnectedTyped DEF CancelMoves, ResetSession
    <2>3. OpFits("gui")' /\ OpFits("worker")'
        BY <1>1, <1>2, <2>1 DEF OpFits
    <2> QED BY <1>1, <2>1, <2>2, <2>3
<1>6. CASE RunMove
    <2>1. /\ call' \in [Threads -> CallType] /\ call'["gui"] = call["gui"]
          /\ call'["worker"].at = "enter" /\ call'["worker"].op = "move"
        BY <1>6, ControlCalls
    <2>2. queue > 0 /\ queue' = queue - 1 /\ UNCHANGED <<session, commands>>
        BY <1>6 DEF RunMove
    <2>3. OpFits("gui")' /\ OpFits("worker")'
        BY <1>1, <1>2, <2>1 DEF OpFits
    <2> QED BY <1>1, <2>1, <2>2, <2>3
<1>7. ASSUME NEW t \in Threads, Apply(t) \/ ShowError(t)
      PROVE  /\ call' \in [Threads -> CallType] /\ session' \in TLSStatus
             /\ queue' \in Nat /\ commands' \in Nat /\ commands' <= MaxCommands
             /\ queue' + (IF call'["gui"].at = "submit" THEN 1 ELSE 0) <= commands'
             /\ OpFits("gui")' /\ OpFits("worker")'
    <2>1. /\ call' \in [Threads -> CallType] /\ call'[t].at = "idle"
          /\ call'[t].op = "get_status"
          /\ \A u \in Threads : u # t => call'[u] = call[u]
        BY <1>7, ControlCalls, CallingTyped
    <2>2. queue' = queue /\ commands' = commands
        BY <1>7 DEF Apply, ShowError
    <2>3. session' \in TLSStatus
        BY <1>0, <1>1, <1>7 DEF Apply, ShowError, TLSShape, OpFits
    <2>4. \A u \in Threads : OpFits(u)'
        BY <1>1, <1>2, <2>1 DEF OpFits
    <2> QED BY <1>1, <2>1, <2>2, <2>3, <2>4
<1> QED BY <1>3, <1>4, <1>5, <1>6, <1>7 DEF ControlStep

----------------------------------------------------------------------------
(* A step in the service, while one thread is there.                       *)

\* Session and service stay in agreement, whatever raises.
LEMMA ServiceKeepsConnection ==
    ASSUME TLSShape, NEW t \in Threads, ServiceStep(t), Connection(call[t])
    PROVE  Connection(call[t])'
<1>1. /\ call[t].at \notin {"idle", "submit", "reset"} /\ call'[t].op = call[t].op
      /\ UNCHANGED <<session, ended>>
    BY ServiceCalls DEF TLSShape
<1>2. /\ call \in [Threads -> CallType] /\ status \in TLSStatus /\ TLSTypeOK
    BY DEF TLSShape, TLSTypeOK, CallType
<1> USE <1>1, <1>2 DEF fileVars, serviceVars, Connection, At
<1>3. CASE Enter(t)
    <2>1. status' = status
        BY <1>3 DEF Enter
    <2>2. /\ call[t].at = "enter"
          /\ call'[t].at \in {"device", "announce", "read", "return", "dropped", "failed"}
          /\ call'[t].at = "return" => call'[t].raw = status
        BY <1>3, EnterCall
    <2> QED BY <2>1, <2>2
<1>4. CASE NoDevice(t) \/ PublishMoving(t) \/ CallDevice(t) \/ MoveDone(t) \/ DeviceRaises(t)
    <2>1. status' = status /\ \E p \in {"device", "read", "dropped", "moving", "failed"} : Go(t, p)
        BY <1>4 DEF NoDevice, PublishMoving, CallDevice, MoveDone, DeviceRaises
    <2>2. call'[t].at \in {"device", "read", "dropped", "moving", "failed"}
        BY <2>1, GoTyped DEF Places
    <2>3. call[t].at \notin {"written", "return"}
        BY <1>4 DEF NoDevice, PublishMoving, CallDevice, MoveDone, DeviceRaises
    <2> QED BY <2>1, <2>2, <2>3
<1>5. CASE Announce(t)
    <2>1. status'.connected = status.connected /\ call[t].at = "announce"
        BY <1>5 DEF Announce, TLSStatus
    <2>2. call'[t].at = "announced"
        BY <1>5, GoTyped DEF Announce, Places
    <2> QED BY <2>1, <2>2
<1>6. CASE ReadStatus(t)
    <2>1. status' = status /\ call[t].at = "read"
        BY <1>6 DEF ReadStatus
    <2>2. call'[t].at = "refresh"
        BY <1>6, ReadStatusCall
    <2> QED BY <2>1, <2>2
<1>7. CASE Refresh(t)
    <2>1. call'[t].at \in {"return", "written"} /\ call'[t].raw = status'
        BY <1>7, RefreshCall
    <2> QED BY <2>1
<1>8. CASE Drop(t)
    <2>1. call'[t].at = "written" /\ call[t].op \in Drops
        BY <1>8, GoTyped DEF Drop, Places, TLSShape, OpFits
    <2> QED BY <2>1
<1>9. CASE PublishStatus(t)
    <2>1. call[t].at = "written" /\ status' = status
        BY <1>9 DEF PublishStatus
    <2>2. /\ call'[t].at = "return"
          /\ call'[t].raw = IF call[t].op \in Drops THEN status ELSE call[t].raw
        BY <1>9, PublishStatusCall
    <2> QED BY <2>1, <2>2
<1>10. CASE WrapError(t)
    <2>1. /\ status'.connected = status.connected /\ ~status'.moving
          /\ call[t].at = "failed"
        BY <1>10 DEF WrapError, Wrapped, TLSStatus
    <2>2. call'[t].at = "noted"
        BY <1>10, GoTyped DEF WrapError, Places
    <2> QED BY <2>1, <2>2
<1>11. CASE PublishError(t)
    <2>1. status' = status /\ call[t].at = "noted"
        BY <1>11 DEF PublishError
    <2>2. call'[t].at = "raised"
        BY <1>11, GoTyped DEF PublishError, Places
    <2> QED BY <2>1, <2>2
<1> QED BY <1>3, <1>4, <1>5, <1>6, <1>7, <1>8, <1>9, <1>10, <1>11 DEF ServiceStep

\* A status with its own fields is itself.
LEMMA SameStatus ==
    ASSUME NEW s \in TLSStatus
    PROVE  /\ [s EXCEPT !.target = s.target, !.moving = s.moving] = s
           /\ \A v, b : v = s.target /\ b = s.moving =>
                [s EXCEPT !.target = v, !.moving = b] = s
BY DEF TLSStatus

\* What Refresh stores is the device's status, when nothing has raised.
LEMMA RefreshStores ==
    ASSUME TLSShape, NEW t \in Threads, Refresh(t), Course(call[t])
    PROVE  status' = dev /\ ~status'.moving
<1>1. /\ call[t].at = "refresh" /\ status' = Overridden(t, Normal(call[t].raw))
      /\ dev \in TLSStatus /\ call \in [Threads -> CallType]
    BY DEF Refresh, TLSShape, TLSTypeOK, CallType
<1>2. call[t].raw = dev /\ ~dev.moving
    BY <1>1 DEF Course
<1>3. dev # NoValue /\ dev.moving = FALSE
    BY <1>1, <1>2, TLSAssumption DEF TLSStatus
<1>4. Normal(call[t].raw) = dev
    BY <1>2, <1>3 DEF Normal
<1> DEFINE v == CASE call[t].op = "set_wavelength" -> call[t].arg
                  [] call[t].op = "set_pass_through" -> PassThrough
                  [] OTHER -> dev.target
           b == IF call[t].op \in Moves THEN FALSE ELSE dev.moving
<1>5. v = dev.target /\ b = dev.moving
    BY <1>1, <1>3 DEF Course
<1>6. status' = [dev EXCEPT !.target = v, !.moving = b]
    BY <1>1, <1>4 DEF Overridden
<1> HIDE DEF v, b
<1> QED BY <1>1, <1>3, <1>5, <1>6, SameStatus

LEMMA ServiceKeepsCourse ==
    ASSUME TLSShape, NEW t \in Threads, ServiceStep(t), Course(call[t]), ~failed'
    PROVE  Course(call[t])'
<1>1. /\ call[t].at \notin {"idle", "submit", "reset"}
      /\ call'[t].op = call[t].op /\ call'[t].arg = call[t].arg
    BY ServiceCalls DEF TLSShape
<1>2. /\ call \in [Threads -> CallType] /\ status \in TLSStatus /\ dev \in TLSStatus
      /\ held \in BOOLEAN /\ TLSTypeOK /\ OpFits(t)
    BY DEF TLSShape, TLSTypeOK, CallType
<1> USE <1>1, <1>2 DEF fileVars, serviceVars, Course, Known, Told, At
<1>3. CASE Enter(t)
    <2>1. UNCHANGED <<dev, status, file, lost>> /\ call[t].at = "enter" /\ Known /\ Told /\ ~dev.moving
        BY <1>3 DEF Enter
    <2>2. \/ call'[t].at = "device" /\ call[t].op = "connect" /\ held'
          \/ call'[t].at = "device" /\ held /\ held'
          \/ call'[t].at = "announce" /\ held /\ held'
          \/ call'[t].at = "read" /\ call[t].op = "get_status" /\ held /\ held'
          \/ call'[t].at = "return" /\ call[t].op = "get_status" /\ held' = held
          \/ call'[t].at = "dropped" /\ ~held /\ held' = held
          \/ call'[t].at = "failed"
        BY <1>3, EnterCall
    <2> QED BY <2>1, <2>2 DEF Drops, Settings
<1>4. CASE NoDevice(t) \/ DeviceRaises(t)
    <2>1. call'[t].at = "failed"
        BY <1>4, GoTyped DEF NoDevice, DeviceRaises, Places
    <2> QED BY <2>1
<1>5. CASE Announce(t)
    <2>1. /\ UNCHANGED <<dev, held>> /\ call[t].at = "announce" /\ call[t].op \in Moves
        BY <1>5 DEF Announce, OpFits
    <2>2. call'[t].at = "announced"
        BY <1>5, GoTyped DEF Announce, Places
    <2> QED BY <2>1, <2>2
<1>6. CASE PublishMoving(t)
    <2>1. /\ UNCHANGED <<dev, held>> /\ call[t].at = "announced" /\ call[t].op \in Moves
        BY <1>6 DEF PublishMoving, OpFits
    <2>2. call'[t].at = "device"
        BY <1>6, GoTyped DEF PublishMoving, Places
    <2> QED BY <2>1, <2>2 DEF Moves, Drops
<1>7. CASE CallDevice(t)
    <2>1. UNCHANGED <<held, status, file, lost>> /\ call[t].at = "device" /\ held /\ ~dev.moving
        BY <1>7 DEF CallDevice
    <2>2. CASE call[t].op = "connect"
        <3>1. Go(t, "read") /\ ~dev'.moving
            BY <1>7, <2>1, <2>2 DEF CallDevice, Drops, Settings, Moves, TLSStatus
        <3>2. call'[t].at = "read"
            BY <3>1, GoTyped DEF Places
        <3> QED BY <2>1, <2>2, <3>1, <3>2
    <2>3. CASE call[t].op \in Drops
        <3>1. Go(t, "dropped") /\ dev' = [Disconnected EXCEPT !.target = dev.target]
            BY <1>7, <2>1, <2>3 DEF CallDevice, Drops, Settings, Moves
        <3>2. call'[t].at = "dropped"
            BY <3>1, GoTyped DEF Places
        <3>3. dev = status /\ ~dev'.moving
            BY <2>1, <2>3, <3>1 DEF Disconnected
        <3> QED BY <2>1, <2>3, <3>1, <3>2, <3>3
    <2>4. CASE call[t].op \in Settings
        <3>1. /\ Go(t, "read") /\ ~dev'.moving
              /\ call[t].op = "set_wavelength" => dev'.target = call[t].arg
            BY <1>7, <2>1, <2>4 DEF CallDevice, Drops, Settings, Moves, TLSStatus
        <3>2. call'[t].at = "read"
            BY <3>1, GoTyped DEF Places
        <3> QED BY <2>1, <2>4, <3>1, <3>2 DEF Settings
    <2>5. CASE call[t].op \in Moves
        <3>1. /\ Go(t, "moving") /\ dev'.connected
              /\ call[t].op = "set_pass_through" => dev'.target = PassThrough
            BY <1>7, <2>1, <2>5 DEF CallDevice, Drops, Settings, Moves, TLSStatus
        <3>2. call'[t].at = "moving"
            BY <3>1, GoTyped DEF Places
        <3> QED BY <2>1, <2>5, <3>1, <3>2 DEF Moves
    <2> QED BY <1>7, <2>2, <2>3, <2>4, <2>5 DEF CallDevice
<1>8. CASE MoveDone(t)
    <2>1. /\ UNCHANGED <<held, status, file, lost>> /\ call[t].at = "moving" /\ call[t].op \in Moves
          /\ ~dev'.moving /\ dev'.target = dev.target
        BY <1>8 DEF MoveDone, OpFits, TLSStatus
    <2>2. call'[t].at = "read"
        BY <1>8, GoTyped DEF MoveDone, Places
    <2> QED BY <2>1, <2>2 DEF Moves
<1>9. CASE ReadStatus(t)
    <2>1. UNCHANGED <<dev, held, status, file, lost>> /\ call[t].at = "read"
        BY <1>9 DEF ReadStatus
    <2>2. call'[t].at = "refresh" /\ (held => call'[t].raw = dev)
        BY <1>9, ReadStatusCall
    <2> QED BY <2>1, <2>2
<1>10. CASE Refresh(t)
    <2>1. UNCHANGED <<dev, held, file, lost>> /\ call[t].at = "refresh" /\ held
        BY <1>10 DEF Refresh
    <2>2. status' = dev /\ ~status'.moving
        BY <1>10, RefreshStores
    <2>3. call'[t].at = IF call[t].op = "get_status" THEN "return" ELSE "written"
        BY <1>10, RefreshCall
    <2> QED BY <2>1, <2>2, <2>3
<1>11. CASE Drop(t)
    <2>1. /\ UNCHANGED <<dev, held>> /\ call[t].at = "dropped"
          /\ status' = [Disconnected EXCEPT !.target = status.target]
        BY <1>11 DEF Drop
    <2>2. ~status'.moving
        BY <2>1 DEF Disconnected
    <2>3. call'[t].at = "written"
        BY <1>11, GoTyped DEF Drop, Places
    <2> QED BY <2>1, <2>2, <2>3
<1>12. CASE PublishStatus(t)
    <2>1. /\ UNCHANGED <<dev, status>> /\ call[t].at = "written"
          /\ (lost' \/ file' = status) /\ (held' => held)
        BY <1>12 DEF PublishStatus, WriteState
    <2>2. call'[t].at = "return"
        BY <1>12, PublishStatusCall
    <2> QED BY <2>1, <2>2
<1>13. CASE WrapError(t) \/ PublishError(t)
    <2>1. failed'
        BY <1>13 DEF WrapError, PublishError, controlVars, OpFits
    <2> QED BY <2>1
<1> QED BY <1>3, <1>4, <1>5, <1>6, <1>7, <1>8, <1>9, <1>10, <1>11, <1>12, <1>13
        DEF ServiceStep

----------------------------------------------------------------------------
(* The invariant.                                                          *)

\* Dispatching a command or a move: nothing is under way, or it is overlap.
LEMMA CommandKeepsAgreement ==
    ASSUME TLSInv, Dispatch \/ Shutdown \/ MoveTLS, ~overlap'
    PROVE  /\ OneActive' /\ Connection(Current)' /\ ConnectedAtRest'
           /\ ~failed' => Course(Current)' /\ (Rest => ended \/ session = status)'
<1>1. /\ call["gui"].at = "idle" /\ call["worker"].at = "idle" /\ ~(queue > 0) /\ ~overlap
      /\ UNCHANGED <<dev, held, status, file, lost, queue, ended, failed>>
      /\ session'.connected = session.connected
    BY DEF Dispatch, Shutdown, MoveTLS, Given, Busy, fileVars, serviceVars, TLSInv, TLSShape,
           TLSTypeOK, TLSStatus
<1>2. /\ call'["worker"] = call["worker"]
      /\ call'["gui"].at \in {"enter", "submit"}
    BY CommandCall DEF TLSInv
<1>3. queue = 0 /\ Rest
    BY <1>1 DEF TLSInv, TLSShape, TLSTypeOK, Rest, Busy
<1>4. OneActive' /\ ConnectedAtRest'
    BY <1>1, <1>2, <1>3 DEF OneActive, ConnectedAtRest, Rest, Busy
<1>5. Current' = call'["gui"] /\ Current = call["gui"]
    BY <1>1, <1>2 DEF Current
<1>6. Connection(Current)'
    BY <1>1, <1>2, <1>3, <1>5 DEF Connection, TLSInv, ConnectedAtRest
<1>7. ASSUME ~failed'
      PROVE  Course(Current)' /\ (Rest => ended \/ session = status)'
    BY <1>1, <1>2, <1>5, <1>7 DEF Course, Known, Told, TLSInv, Rest
<1> QED BY <1>4, <1>6, <1>7

\* The controller's own steps, and the worker taking a move.
LEMMA ControlKeepsAgreement ==
    ASSUME TLSInv, SubmitMove \/ CancelMoves \/ ResetSession \/ RunMove, ~overlap'
    PROVE  /\ OneActive' /\ Connection(Current)' /\ ConnectedAtRest'
           /\ ~failed' => Course(Current)' /\ (Rest => ended \/ session = status)'
<1>1. /\ UNCHANGED <<dev, held, status, file, lost, overlap, failed>> /\ ~overlap /\ TLSShape
      /\ OneActive /\ Connection(Current) /\ queue \in Nat
      /\ OpFits("gui") /\ OpFits("worker")
      /\ ~failed => Course(Current)
    BY DEF SubmitMove, CancelMoves, ResetSession, RunMove, fileVars, serviceVars, TLSInv, TLSShape,
           TLSTypeOK, Threads
<1>2. CASE SubmitMove
    <2>1. /\ call["gui"].at = "submit" /\ queue' = queue + 1 /\ UNCHANGED <<session, ended>>
          /\ call["gui"].op = "get_status"
        BY <1>1, <1>2 DEF SubmitMove, Queued, OpFits
    <2>2. /\ call'["gui"].at = "idle" /\ call'["gui"].op = call["gui"].op
          /\ call'["worker"] = call["worker"]
        BY <1>1, <1>2, ControlCalls
    <2>3. queue = 0 /\ call["worker"].at = "idle"
        BY <1>1, <2>1 DEF OneActive
    <2>4. OneActive' /\ ConnectedAtRest' /\ ~Rest'
        BY <1>1, <2>1, <2>2, <2>3 DEF OneActive, ConnectedAtRest, Rest, Busy
    <2>5. Current' = call'["gui"] /\ Current = call["gui"]
        BY <2>2, <2>3 DEF Current
    <2>6. Connection(Current)'
        BY <1>1, <2>1, <2>2, <2>5 DEF Connection
    <2>7. ~failed' => Course(Current)'
        BY <1>1, <2>1, <2>2, <2>5 DEF Course, Known, Told
    <2> QED BY <2>4, <2>6, <2>7
<1>3. CASE CancelMoves
    <2>1. /\ call["gui"].at \in {"return", "raised"} /\ queue' = 0 /\ UNCHANGED <<session, ended>>
        BY <1>1, <1>3 DEF CancelMoves, At
    <2>2. /\ call'["gui"].at = "reset" /\ call'["gui"].op = "close"
          /\ call'["worker"] = call["worker"]
        BY <1>1, <1>3, ControlCalls
    <2>3. queue = 0 /\ call["worker"].at = "idle"
        BY <1>1, <2>1 DEF OneActive
    <2>4. OneActive' /\ ConnectedAtRest' /\ ~Rest'
        BY <1>1, <2>1, <2>2, <2>3 DEF OneActive, ConnectedAtRest, Rest, Busy
    <2>5. Current' = call'["gui"] /\ Current = call["gui"]
        BY <2>2, <2>3 DEF Current
    <2>6. Connection(Current)'
        BY <2>2, <2>5 DEF Connection
    <2>7. ~failed' => Course(Current)'
        BY <1>1, <2>1, <2>2, <2>5 DEF Course, Known, Told, OpFits
    <2> QED BY <2>4, <2>6, <2>7
<1>4. CASE ResetSession
    <2>1. call["gui"].at = "reset" /\ queue' = queue /\ ended'
        BY <1>1, <1>4 DEF ResetSession
    <2>2. /\ call'["gui"].at = "idle" /\ call'["worker"] = call["worker"]
        BY <1>1, <1>4, ControlCalls, CallingTyped
    <2>3. queue = 0 /\ call["worker"].at = "idle"
        BY <1>1, <2>1 DEF OneActive
    <2>4. OneActive' /\ ConnectedAtRest'
        BY <1>1, <2>1, <2>2, <2>3 DEF OneActive, ConnectedAtRest
    <2>5. Current' = call'["gui"] /\ Current = call["gui"]
        BY <2>2, <2>3 DEF Current
    <2>6. Connection(Current)'
        BY <2>1, <2>2, <2>5 DEF Connection
    <2>7. ~failed' => Course(Current)'
        BY <1>1, <2>1, <2>2, <2>5 DEF Course, Known, Told
    <2> QED BY <2>1, <2>4, <2>6, <2>7
<1>5. CASE RunMove
    <2>1. /\ call["worker"].at = "idle" /\ queue > 0 /\ queue' = queue - 1
          /\ UNCHANGED <<session, ended>>
        BY <1>1, <1>5 DEF RunMove, WorkerFree
    <2>2. /\ call'["worker"].at = "enter" /\ call'["worker"].op = "move"
          /\ call'["gui"] = call["gui"]
        BY <1>1, <1>5, ControlCalls
    <2>3. queue = 1 /\ call["gui"].at = "idle" /\ call["gui"].op = "get_status"
        BY <1>1, <2>1 DEF OneActive, OpFits
    <2>4. OneActive' /\ ConnectedAtRest' /\ ~Rest'
        BY <1>1, <2>1, <2>2, <2>3 DEF OneActive, ConnectedAtRest, Rest, Busy
    <2>5. Current' = call'["worker"] /\ Current = call["gui"]
        BY <2>1, <2>2 DEF Current
    <2>6. Connection(Current)'
        BY <1>1, <2>1, <2>2, <2>3, <2>5 DEF Connection
    <2>7. ~failed' => Course(Current)'
        BY <1>1, <2>1, <2>2, <2>3, <2>5 DEF Course, Known, Told
    <2> QED BY <2>4, <2>6, <2>7
<1> QED BY <1>2, <1>3, <1>4, <1>5

\* A thread is in the service: its call is the current one.
LEMMA ActiveIsCurrent ==
    ASSUME TLSShape, OneActive, NEW t \in Threads, call[t].at # "idle"
    PROVE  /\ Current = call[t] /\ queue = 0
           /\ \A u \in Threads : u # t => call[u].at = "idle"
BY DEF OneActive, Current, Threads

\* The answer, or the error, reaches the session.
LEMMA AnswerKeepsAgreement ==
    ASSUME TLSInv, NEW t \in Threads, Apply(t) \/ ShowError(t), ~overlap'
    PROVE  /\ OneActive' /\ Connection(Current)' /\ ConnectedAtRest'
           /\ ~failed' => Course(Current)' /\ (Rest => ended \/ session = status)'
<1>1. /\ UNCHANGED <<dev, held, status, file, lost, queue, ended, overlap, failed>>
      /\ ~overlap /\ TLSShape /\ OneActive /\ Connection(Current) /\ OpFits(t)
      /\ call[t].op # "close" /\ call[t].at \in {"return", "raised"}
      /\ ~failed => Course(Current)
    BY DEF Apply, ShowError, fileVars, serviceVars, TLSInv, TLSShape
<1>2. /\ Current = call[t] /\ queue = 0
      /\ \A u \in Threads : u # t => call[u].at = "idle"
    BY <1>1, ActiveIsCurrent
<1>3. /\ call'[t].at = "idle" /\ \A u \in Threads : u # t => call'[u] = call[u]
    BY <1>1, ControlCalls, CallingTyped
<1>4. \A u \in Threads : call'[u].at = "idle"
    BY <1>2, <1>3
<1>5. call'["gui"].at = "idle" /\ call'["worker"].at = "idle" /\ queue' = 0
    BY <1>1, <1>2, <1>4 DEF Threads
<1>6. OneActive'
    BY <1>5 DEF OneActive
<1>7. Current' = call'["gui"]
    BY <1>5 DEF Current
<1>8. CASE Apply(t)
    <2>1. session' = status /\ call[t].at = "return"
        BY <1>1, <1>2, <1>8 DEF Apply, Connection
    <2>2. session' = status'
        BY <1>1, <2>1
    <2>3. ConnectedAtRest' /\ Connection(Current)'
        BY <1>5, <1>7, <2>2 DEF ConnectedAtRest, Connection
    <2>4. ~failed' => Course(Current)'
        BY <1>1, <1>2, <1>5, <1>7, <2>1 DEF Course, Known, Told
    <2> QED BY <1>6, <2>2, <2>3, <2>4
<1>9. CASE ShowError(t)
    <2>1. failed /\ ~status.moving /\ (ended \/ session.connected = status.connected)
        BY <1>1, <1>2, <1>9 DEF ShowError, Connection, OpFits
    <2>2. ~ShuttingDown \/ t # "worker"
        BY <1>2, <1>9 DEF ShuttingDown, Threads
    <2>3. session' = [session EXCEPT !.moving = FALSE]
        BY <1>9, <2>2 DEF ShowError
    <2>4. session'.connected = session.connected /\ session'.moving = status.moving
        BY <1>1, <2>1, <2>3 DEF TLSShape, TLSTypeOK, TLSStatus
    <2>5. ConnectedAtRest' /\ Connection(Current)'
        BY <1>1, <1>5, <1>7, <2>1, <2>4 DEF ConnectedAtRest, Connection
    <2> QED BY <1>1, <1>6, <2>1, <2>5
<1> QED BY <1>8, <1>9

LEMMA ServiceKeepsAgreement ==
    ASSUME TLSInv, NEW t \in Threads, ServiceStep(t), ~overlap'
    PROVE  /\ OneActive' /\ Connection(Current)' /\ ConnectedAtRest'
           /\ ~failed' => Course(Current)' /\ (Rest => ended \/ session = status)'
<1>1. /\ call[t].at # "idle" /\ call'[t].at # "idle"
      /\ \A u \in Threads : u # t => call'[u] = call[u]
      /\ UNCHANGED <<session, queue, ended, overlap>>
    BY ServiceCalls DEF TLSInv, TLSShape
<1>2. TLSShape /\ ~overlap /\ OneActive /\ Connection(Current)
    BY <1>1 DEF TLSInv
<1>3. /\ Current = call[t] /\ queue = 0
      /\ \A u \in Threads : u # t => call[u].at = "idle"
    BY <1>1, <1>2, ActiveIsCurrent
<1>4. \A u \in Threads : u # t => call'[u].at = "idle"
    BY <1>1, <1>3
<1>5. OneActive'
    BY <1>1, <1>3, <1>4 DEF OneActive, Threads
<1>6. Current' = call'[t]
    BY <1>1, <1>4 DEF Current, Threads
<1>7. ~Rest'
    BY <1>1 DEF Rest, Busy, Threads
<1>8. Connection(Current)'
    <2>1. Connection(call[t])'
        BY <1>2, <1>3, ServiceKeepsConnection
    <2> QED BY ONLY <2>1, <1>6 DEF Connection
<1>9. ASSUME ~failed' PROVE Course(Current)'
    <2>1. ~failed
        BY <1>9 DEF ServiceStep, Enter, NoDevice, Announce, PublishMoving, CallDevice, MoveDone,
                    DeviceRaises, ReadStatus, Refresh, Drop, PublishStatus, WrapError,
                    PublishError, controlVars
    <2>2. Course(call[t])
        BY <1>2, <1>3, <2>1 DEF TLSInv
    <2>3. Course(call[t])'
        BY <1>2, <1>9, <2>2, ServiceKeepsCourse
    <2> QED BY ONLY <2>3, <1>6 DEF Course
<1> QED BY <1>5, <1>7, <1>8, <1>9 DEF ConnectedAtRest

LEMMA TLSInitially == TLSInit => TLSInv
<1> SUFFICES ASSUME TLSInit PROVE TLSInv
    OBVIOUS
<1>1. /\ "gui" \in Threads /\ "worker" \in Threads /\ Threads = {"gui", "worker"}
      /\ Disconnected \in TLSStatus
    BY DisconnectedTyped DEF Threads
<1>2. NoCall \in CallType /\ NoCall.at = "idle" /\ NoCall.op = "get_status"
    BY CallingTyped
<1>3. TLSTypeOK
    <2>1. call \in [Threads -> CallType]
        BY <1>2 DEF TLSInit
    <2>2. 0 \in 0 .. MaxCommands
        BY TLSAssumption
    <2> HIDE DEF TLSStatus, Threads, Disconnected
    <2> QED BY <1>1, <2>1, <2>2 DEF TLSInit, TLSTypeOK, CallType
<1>4. \A t \in Threads : call[t].at = "idle" /\ call[t].op = "get_status"
    BY <1>2 DEF TLSInit
<1>5. TLSShape
    BY <1>1, <1>3, <1>4 DEF TLSShape, OpFits, QueueCounted, TLSInit
<1>6. Current = call["gui"] /\ ~Disconnected.moving
    BY <1>1, <1>4 DEF Current, Disconnected
<1>7. OneActive /\ Connection(Current) /\ ConnectedAtRest
    BY <1>1, <1>4, <1>6 DEF OneActive, Connection, ConnectedAtRest, TLSInit
<1>8. Course(Current) /\ session = status
    BY <1>1, <1>4, <1>6 DEF Course, Known, Told, TLSInit
<1> QED BY <1>5, <1>7, <1>8 DEF TLSInv

LEMMA TLSStep == TLSInv /\ [TLSNext]_tlsVars => TLSInv'
<1> SUFFICES ASSUME TLSInv, [TLSNext]_tlsVars PROVE TLSInv'
    OBVIOUS
<1>1. CASE UNCHANGED tlsVars
    <2>1. /\ (\A t \in Threads : OpFits(t)') /\ TLSTypeOK' /\ QueueCounted'
        BY <1>1 DEF TLSInv, TLSShape, TLSTypeOK, OpFits, QueueCounted, tlsVars
    <2>2. Current' = Current
        BY <1>1 DEF Current, tlsVars
    <2>3. /\ OneActive => OneActive'
          /\ Connection(Current) => Connection(Current)'
          /\ ConnectedAtRest => ConnectedAtRest'
          /\ Course(Current) => Course(Current)'
          /\ (Rest => ended \/ session = status) => (Rest => ended \/ session = status)'
        BY <1>1, <2>2 DEF OneActive, Connection, ConnectedAtRest, Course, Known, Told, Rest,
                          Busy, tlsVars
    <2> QED BY <1>1, <2>1, <2>3 DEF TLSInv, TLSShape, tlsVars
<1>2. CASE TLSNext
    <2>1. ControlStep \/ \E t \in Threads : ServiceStep(t)
        BY <1>2 DEF TLSNext, GuiStep, WorkerStep, ControlStep, Threads
    <2>2. TLSShape'
        BY <2>1, ControlKeepsShape, ServiceKeepsShape DEF TLSInv
    <2>3. ASSUME ~overlap'
          PROVE  /\ OneActive' /\ Connection(Current)' /\ ConnectedAtRest'
                 /\ ~failed' => Course(Current)' /\ (Rest => ended \/ session = status)'
        BY <2>1, <2>3, CommandKeepsAgreement, ControlKeepsAgreement, AnswerKeepsAgreement,
           ServiceKeepsAgreement DEF ControlStep
    <2> QED BY <2>2, <2>3 DEF TLSInv
<1> QED BY <1>1, <1>2

(***************************************************************************)
(* Every state of a session with the light source, whatever the threads    *)
(* and the device do, satisfies the invariant: what the session, the       *)
(* service, the file and the device have in common at each place of the    *)
(* one call under way.                                                     *)
(***************************************************************************)
THEOREM TLSInvariance == TLSSpec => []TLSInv
<1>1. TLSInit => TLSInv
    BY TLSInitially
<1>2. TLSInv /\ [TLSNext]_tlsVars => TLSInv'
    BY TLSStep
<1> QED BY <1>1, <1>2, PTL DEF TLSSpec

(***************************************************************************)
(* The statuses, calls and counters are always of their types.             *)
(***************************************************************************)
THEOREM TLSTypeCorrect == TLSSpec => []TLSTypeOK
<1>1. TLSInv => TLSTypeOK
    BY DEF TLSInv, TLSShape
<1> QED BY <1>1, TLSInvariance, PTL

(***************************************************************************)
(* If no command was given while a move was under way, then at rest the    *)
(* session and the service agree on the connection and the motion whatever *)
(* raised; if nothing raised they agree on everything, nothing moves, the  *)
(* device they hold is as they say, and so is the file unless its last     *)
(* write was lost.                                                         *)
(***************************************************************************)
THEOREM AccountsAreKept == TLSSpec => []AccountsAgree
<1>1. TLSInv => AccountsAgree
    <2> SUFFICES ASSUME TLSInv, Rest, ~overlap PROVE AccountsAgree
        BY DEF AccountsAgree
    <2>1. ended \/ (session.connected = status.connected /\ session.moving = status.moving)
        BY DEF TLSInv, ConnectedAtRest
    <2>2. ASSUME ~failed
          PROVE  /\ (ended \/ session = status) /\ ~status.moving
                 /\ held => dev = status
                 /\ ~lost => file \in {NoValue, status}
        <3>1. Course(Current) /\ (ended \/ session = status)
            BY <2>2 DEF TLSInv
        <3>2. Current.at = "idle"
            BY DEF Current, Rest, Busy
        <3> QED BY <3>1, <3>2 DEF Course, Known, Told
    <2> QED BY <2>1, <2>2 DEF AccountsAgree
<1> QED BY <1>1, TLSInvariance, PTL
=============================================================================
