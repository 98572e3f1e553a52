--------------------------- MODULE SidecarLifecycle ---------------------------
(***************************************************************************)
(* The life of sidecar processes and of the programs that use them.         *)
(* A program (the GUI with its SessionController, or a capture script) owns *)
(* a CameraServiceClient (devices/camera_service.py), which launches a      *)
(* sidecar when none answers a ping and sends each request over a REQ       *)
(* socket of its own, with a timeout.  What the sidecar does with a request *)
(* is reduced to the camera being closed, open or streaming; CameraSidecar  *)
(* has the rest.                                                            *)
(*                                                                          *)
(* A request that has reached the sidecar is served even when its sender    *)
(* has given up and closed the socket; requests of different sockets are    *)
(* served in any order.                                                     *)
(***************************************************************************)
EXTENDS Integers

CONSTANTS
  Guis,        \* programs that run a SessionController
  Scripts,     \* programs that run scripts/capture_dataset.py
  AutoSidecar, \* those started without --no-auto-sidecar
  Candidates,  \* Python commands to try
  Nobody,      \* launched by no program that runs
  MaxProcs,    \* bound: sidecar processes that are there at a time
  MaxInbox     \* bound: requests waiting at the sidecar

Programs == Guis \cup Scripts

ASSUME LifecycleAssumption ==
  /\ Guis \cap Scripts = {}
  /\ AutoSidecar \subseteq Programs
  /\ Nobody \notin Programs
  /\ Candidates \in Nat \ {0}
  /\ MaxProcs \in Nat \ {0} /\ MaxInbox \in Nat

VARIABLES
  procs,   \* the sidecar processes, by number
  inbox,   \* requests the REP socket has received, each in a place of its own
  step,    \* where a program is
  at,      \* where its client is in _request and _ensure_sidecar
  sock,    \* the client's REQ socket
  handle,  \* client._sidecar: NoHandle, External or the process it launched
  try,     \* the Python command being tried
  cur,     \* the process launched with it, 0 when there is none
  flags,   \* state.camera_open and state.stream_running of a session
  quit,    \* the program ends after the shutdown under way
  lost     \* history: an OpenCamera or CloseCamera was given up

clientVars == <<at, sock, handle, try, cur>>
progVars == <<step, flags, quit>>
lifeVars == <<procs, inbox, clientVars, progVars, lost>>

Process == [by : Programs \cup {Nobody},
            st : {"starting", "serving", "killed", "gone"},
            cam : {"closed", "open", "streaming", "left"}]

NoHandle == -1
External == 0
Procs == 1 .. MaxProcs

\* The places of the inbox, and what an empty one holds.
Slots == 1 .. MaxInbox
NoRequest == [from |-> Nobody, op |-> "Ping", live |-> FALSE]
Nothing == [i \in Slots |-> NoRequest]

NoFlags == [camera |-> FALSE, stream |-> FALSE]

Ops == {"Ping", "OpenCamera", "GetCameraInfo", "StartStream", "SetProperty",
        "StopStream", "CloseCamera"}
Requests == [from : Programs \cup {Nobody}, op : Ops, live : BOOLEAN]
Changing == {"OpenCamera", "StartStream", "StopStream", "CloseCamera"}
Steps == {"exit", "open", "info", "stream", "running", "idle", "command",
          "stop", "close", "release"}

-----------------------------------------------------------------------------
(* Sidecar processes.                                                       *)

Alive(p) == procs[p].st \in {"starting", "serving"}
Serving == {p \in Procs : procs[p].st = "serving"}

\* A number that no process has and no program remembers.
Free(p) == procs[p].st = "gone" /\ \A c \in Programs : p \notin {handle[c], cur[c]}

\* Popen, or a sidecar started from a shell.
Started(p, by) == [procs EXCEPT ![p] = [by |-> by, st |-> "starting", cam |-> "closed"]]

\* Processes that are killed end at once or a little later; with a process
\* go its camera and the requests its socket holds.
Ended(p, st) == [procs EXCEPT ![p] =
  [by |-> IF st = "gone" THEN Nobody ELSE @.by, st |-> st, cam |-> "closed"]]
InboxWithout(p) == IF procs[p].st = "serving" THEN Nothing ELSE inbox

\* A sidecar nobody has a handle of: started from a shell, or left behind with
\* its camera open by a program that was killed.
ByHand(p) ==
  /\ Free(p)
  /\ \/ procs' = Started(p, Nobody)
     \/ /\ Serving = {}
        /\ procs' = [procs EXCEPT ![p] = [by |-> Nobody, st |-> "serving", cam |-> "left"]]
  /\ UNCHANGED <<inbox, clientVars, progVars, lost>>

\* main binds both ports and serves, or finds one of them taken and exits.
Bind(p) ==
  /\ procs[p].st = "starting"
  /\ \/ Serving = {} /\ procs' = [procs EXCEPT ![p].st = "serving"]
     \/ /\ \E q \in Procs : procs[q].st \in {"serving", "killed"}
        /\ procs' = Ended(p, "gone")
  /\ UNCHANGED <<inbox, clientVars, progVars, lost>>

\* A process that was killed is gone, or one dies of itself.
ProcDies(p) ==
  /\ procs[p].st # "gone"
  /\ procs' = Ended(p, "gone")
  /\ inbox' = InboxWithout(p)
  /\ UNCHANGED <<clientVars, progVars, lost>>

\* What handle_request may answer, and the state of the camera it leaves: only
\* Ping, StopStream and CloseCamera cannot fail.
Answers(op, cam) ==
  CASE op = "Ping" -> {[good |-> TRUE, cam |-> cam]}
    [] op = "OpenCamera" ->
         {[good |-> TRUE, cam |-> "open"], [good |-> FALSE, cam |-> "closed"]}
    [] op = "StartStream" ->
         {IF cam = "closed" THEN [good |-> FALSE, cam |-> cam]
          ELSE [good |-> TRUE, cam |-> "streaming"],
          [good |-> FALSE, cam |-> cam]}
    [] op = "StopStream" ->
         {[good |-> TRUE, cam |-> IF cam = "streaming" THEN "open" ELSE cam]}
    [] op = "CloseCamera" -> {[good |-> TRUE, cam |-> "closed"]}
    [] OTHER -> {[good |-> g, cam |-> cam] :
                   g \in IF cam = "closed" THEN {FALSE} ELSE BOOLEAN}

\* The control loop serves a request; nobody takes the answer when the sender
\* has closed its socket.
Serve(i) == \E p \in Serving : \E a \in Answers(inbox[i].op, procs[p].cam) :
  /\ inbox[i] # NoRequest
  /\ procs' = [procs EXCEPT ![p].cam = a.cam]
  /\ inbox' = [inbox EXCEPT ![i] = NoRequest]
  /\ sock' = IF inbox[i].live
             THEN [sock EXCEPT ![inbox[i].from] =
                     IF a.good THEN "ok" ELSE "refused"]
             ELSE sock
  /\ UNCHANGED <<at, handle, try, cur, progVars, lost>>

-----------------------------------------------------------------------------
(* A request.  SetProperty stands for every operation that needs a camera   *)
(* and changes neither whether it is open nor whether it streams.           *)

OpOf(s) == CASE s = "open" -> "OpenCamera" [] s = "info" -> "GetCameraInfo"
             [] s = "stream" -> "StartStream" [] s = "command" -> "SetProperty"
             [] s = "stop" -> "StopStream" [] s = "close" -> "CloseCamera"
Wanted(c) == IF at[c] \in {"ping", "poll"} THEN "Ping" ELSE OpOf(step[c])

GivenUp(op) == lost \/ op \in {"OpenCamera", "CloseCamera"}

\* A request is on its way until a sidecar serves the port.
Deliver(c) ==
  /\ sock[c] = "out" /\ Serving # {}
  /\ \E i \in Slots :
       /\ inbox[i] = NoRequest
       /\ inbox' = [inbox EXCEPT ![i] = [from |-> c, op |-> Wanted(c), live |-> TRUE]]
  /\ sock' = [sock EXCEPT ![c] = "in"]
  /\ UNCHANGED <<procs, at, handle, try, cur, progVars, lost>>

Send(c) == sock' = [sock EXCEPT ![c] = "out"]

\* The socket is closed; a request that has arrived stays, without a sender.
\* One that would change nothing is left out, as nobody could tell.
Abandoned(c) ==
  [i \in Slots |-> IF inbox[i].from # c THEN inbox[i]
                   ELSE IF inbox[i].op \in Changing THEN [inbox[i] EXCEPT !.live = FALSE]
                   ELSE NoRequest]

\* Where the shutdown of a session begins: it stops and closes what the
\* session has recorded as running and open.
ShutdownFrom(f) ==
  IF f.stream THEN "stop" ELSE IF f.camera THEN "close" ELSE "release"

\* Mutation of AfterFailure: a failed StopStream ends the shutdown.
AfterFailureStops(c, s) ==
  CASE s = "stop" /\ c \in Guis -> "release"
    [] s = "close" -> "release"
    [] s # "close" /\ c \in Scripts -> IF s = "stop" THEN "close" ELSE "stop"
    [] s = "command" /\ c \in Guis -> IF flags[c].stream THEN "running" ELSE "idle"
    [] OTHER -> ShutdownFrom(flags[c])

\* The step after one whose request failed.  A script cleans up whatever it
\* has; a session undoes what it has recorded, and a failed command is shown.
AfterFailure(c, s) ==
  CASE s = "stop" -> IF c \in Guis /\ ~ flags[c].camera THEN "release" ELSE "close"
    [] s = "close" -> "release"
    [] s \notin {"stop", "close"} /\ c \in Scripts -> "stop"
    [] s = "command" /\ c \in Guis -> IF flags[c].stream THEN "running" ELSE "idle"
    [] OTHER -> ShutdownFrom(flags[c])

AfterSuccess(c, s) ==
  CASE s = "open" -> IF c \in Guis THEN "info" ELSE "stream"
    [] s = "info" -> "stream"
    [] s = "stream" -> "running"
    [] s = "command" /\ c \in Scripts -> "running"
    [] OTHER -> AfterFailure(c, s)

\* What the session records of a request that succeeded.
Recorded(c, s) ==
  CASE c \in Guis /\ s = "open" -> [flags[c] EXCEPT !.camera = TRUE]
    [] c \in Guis /\ s = "stream" -> [flags[c] EXCEPT !.stream = TRUE]
    [] OTHER -> flags[c]

Proceed(c, good) ==
  /\ step' = [step EXCEPT ![c] = IF good THEN AfterSuccess(c, step[c])
                                 ELSE AfterFailure(c, step[c])]
  /\ flags' = IF good THEN [flags EXCEPT ![c] = Recorded(c, step[c])] ELSE flags
  /\ at' = [at EXCEPT ![c] = "idle"]
  /\ UNCHANGED quit

\* _request: a sidecar is ensured first, unless the client has had one.
Request(c) ==
  /\ at[c] = "idle" /\ step[c] \in {"open", "info", "stream", "command", "stop", "close"}
  /\ IF handle[c] = NoHandle /\ c \in AutoSidecar
     THEN at' = [at EXCEPT ![c] = "ping"] /\ Send(c)
     ELSE at' = [at EXCEPT ![c] = "request"] /\ Send(c)
  /\ UNCHANGED <<procs, inbox, handle, try, cur, progVars, lost>>

Answered(c) ==
  /\ at[c] = "request" /\ sock[c] \in {"ok", "refused"}
  /\ Proceed(c, sock[c] = "ok")
  /\ sock' = [sock EXCEPT ![c] = "closed"]
  /\ UNCHANGED <<procs, inbox, handle, try, cur, lost>>

TimedOut(c) ==
  /\ at[c] = "request" /\ sock[c] \in {"out", "in"}
  /\ Proceed(c, FALSE)
  /\ sock' = [sock EXCEPT ![c] = "closed"]
  /\ inbox' = Abandoned(c)
  /\ lost' = GivenUp(OpOf(step[c]))
  /\ UNCHANGED <<procs, handle, try, cur>>

-----------------------------------------------------------------------------
(* _ensure_sidecar.                                                         *)

\* The request that asked for the sidecar follows.
Ensured(c, h) ==
  /\ handle' = [handle EXCEPT ![c] = h]
  /\ at' = [at EXCEPT ![c] = "request"]
  /\ cur' = [cur EXCEPT ![c] = 0]
  /\ try' = [try EXCEPT ![c] = 0]
  /\ Send(c)
  /\ UNCHANGED progVars

Pong(c) ==
  /\ at[c] \in {"ping", "poll"} /\ sock[c] = "ok"
  /\ Ensured(c, IF at[c] = "ping" THEN External ELSE cur[c])
  /\ UNCHANGED <<procs, inbox, lost>>

\* No answer: the launch begins, or goes on unless the process has exited.
NoPong(c) ==
  /\ at[c] \in {"ping", "poll"} /\ sock[c] \in {"out", "in"}
  /\ sock' = [sock EXCEPT ![c] = "closed"]
  /\ inbox' = Abandoned(c)
  /\ \/ at[c] = "ping" /\ at' = [at EXCEPT ![c] = "launch"] /\ try' = [try EXCEPT ![c] = 1]
     \/ /\ at[c] = "poll" /\ UNCHANGED try
        /\ at' = [at EXCEPT ![c] = IF procs[cur[c]].st = "gone" THEN "giveup" ELSE "await"]
  /\ UNCHANGED <<procs, handle, cur, progVars, lost>>

Popen(c) ==
  /\ at[c] = "launch" /\ try[c] <= Candidates
  /\ \E p \in Procs : /\ Free(p)
                     /\ procs' = Started(p, c)
                     /\ cur' = [cur EXCEPT ![c] = p]
  /\ at' = [at EXCEPT ![c] = "await"]
  /\ UNCHANGED <<inbox, sock, handle, try, progVars, lost>>

PopenFails(c) ==
  /\ at[c] = "launch" /\ try[c] <= Candidates
  /\ try' = [try EXCEPT ![c] = @ + 1]
  /\ UNCHANGED <<procs, inbox, at, sock, handle, cur, progVars, lost>>

Poll(c) ==
  /\ at[c] = "await"
  /\ at' = [at EXCEPT ![c] = "poll"] /\ Send(c)
  /\ UNCHANGED <<procs, inbox, handle, try, cur, progVars, lost>>

\* _terminate_process: terminate and wait, then kill without waiting.
Terminate(p) ==
  IF p \in Procs /\ Alive(p)
  THEN \E st \in {"gone", "killed"} :
         procs' = Ended(p, st) /\ inbox' = InboxWithout(p)
  ELSE UNCHANGED <<procs, inbox>>

\* Mutation of GiveUp: the process that did not answer in time is left alone.
GiveUpLeaves(c) ==
  /\ at[c] \in {"await", "giveup"}
  /\ UNCHANGED <<procs, inbox>>
  /\ at' = [at EXCEPT ![c] = "launch"]
  /\ try' = [try EXCEPT ![c] = @ + 1]
  /\ cur' = [cur EXCEPT ![c] = 0]
  /\ UNCHANGED <<sock, handle, progVars, lost>>

\* The process has exited or max_wait_s has passed, which may be at any turn
\* of the loop.
GiveUp(c) ==
  /\ at[c] \in {"await", "giveup"}
  /\ Terminate(cur[c])
  /\ at' = [at EXCEPT ![c] = "launch"]
  /\ try' = [try EXCEPT ![c] = @ + 1]
  /\ cur' = [cur EXCEPT ![c] = 0]
  /\ UNCHANGED <<sock, handle, progVars, lost>>

\* No command is left to try: the RuntimeError is the answer to the request.
EnsureRaises(c) ==
  /\ at[c] = "launch" /\ try[c] > Candidates
  /\ Proceed(c, FALSE)
  /\ try' = [try EXCEPT ![c] = 0]
  /\ lost' = GivenUp(OpOf(step[c]))
  /\ UNCHANGED <<procs, inbox, sock, handle, cur>>

-----------------------------------------------------------------------------
(* Programs.                                                                *)

Launch(c) ==
  /\ step[c] = "exit"
  /\ step' = [step EXCEPT ![c] = "open"]
  /\ quit' = [quit EXCEPT ![c] = c \in Scripts]
  /\ UNCHANGED <<procs, inbox, clientVars, flags, lost>>

\* The GUI's window stays open, and takes commands, when a session has failed
\* to start or was shut down.
Command(c) ==
  /\ step[c] = "running" \/ (step[c] = "idle" /\ c \in Guis)
  /\ step' = [step EXCEPT ![c] = "command"]
  /\ UNCHANGED <<procs, inbox, clientVars, flags, quit, lost>>

\* The session is shut down, by a command or because the window is closed;
\* a script has finished or failed.
EndSession(c) ==
  /\ step[c] \in {"running", "idle"}
  /\ step' = [step EXCEPT ![c] = IF c \in Scripts THEN "stop" ELSE ShutdownFrom(flags[c])]
  /\ \E q \in BOOLEAN :
       /\ c \in Scripts \/ step[c] = "idle" => q
       /\ quit' = [quit EXCEPT ![c] = q]
  /\ UNCHANGED <<procs, inbox, clientVars, flags, lost>>

\* CameraServiceClient.close, and the session's state is reset.
Release(c) ==
  /\ step[c] = "release"
  /\ Terminate(handle[c])
  /\ handle' = [handle EXCEPT ![c] = NoHandle]
  /\ flags' = [flags EXCEPT ![c] = NoFlags]
  /\ step' = [step EXCEPT ![c] = IF quit[c] THEN "exit" ELSE "idle"]
  /\ quit' = [quit EXCEPT ![c] = FALSE]
  /\ UNCHANGED <<at, sock, try, cur, lost>>

\* Ctrl+C reaches a script and the sidecars it has started.
Interrupt(c) ==
  /\ c \in Scripts /\ step[c] \in {"open", "stream", "running", "command"}
  /\ procs' = [p \in Procs |-> IF procs[p].by = c /\ Alive(p)
                THEN [procs[p] EXCEPT !.st = "killed", !.cam = "closed"] ELSE procs[p]]
  /\ inbox' = IF \E p \in Serving : procs[p].by = c THEN Nothing ELSE Abandoned(c)
  /\ lost' = (lost \/ step[c] = "open")
  /\ sock' = [sock EXCEPT ![c] = "closed"]
  /\ at' = [at EXCEPT ![c] = "idle"] /\ cur' = [cur EXCEPT ![c] = 0]
  /\ step' = [step EXCEPT ![c] = "stop"]
  /\ try' = [try EXCEPT ![c] = 0]
  /\ UNCHANGED <<handle, flags, quit>>

-----------------------------------------------------------------------------
LifeInit ==
  /\ procs = [p \in Procs |-> [by |-> Nobody, st |-> "gone", cam |-> "closed"]]
  /\ inbox = Nothing /\ lost = FALSE
  /\ step = [c \in Programs |-> "exit"]
  /\ at = [c \in Programs |-> "idle"]
  /\ sock = [c \in Programs |-> "closed"]
  /\ handle = [c \in Programs |-> NoHandle]
  /\ try = [c \in Programs |-> 0] /\ cur = [c \in Programs |-> 0]
  /\ flags = [c \in Programs |-> NoFlags]
  /\ quit = [c \in Programs |-> FALSE]

ClientStep(c) ==
  \/ Request(c) \/ Answered(c) \/ TimedOut(c)
  \/ Pong(c) \/ NoPong(c) \/ Popen(c) \/ PopenFails(c) \/ Poll(c)
  \/ GiveUp(c) \/ EnsureRaises(c) \/ Release(c)

LifeNext ==
  \/ \E p \in Procs : ByHand(p) \/ Bind(p) \/ ProcDies(p)
  \/ \E i \in Slots : Serve(i)
  \/ \E c \in Programs :
       \/ ClientStep(c) \/ Deliver(c)
       \/ Launch(c) \/ Command(c) \/ EndSession(c) \/ Interrupt(c)

LifeSpec == LifeInit /\ [][LifeNext]_lifeVars

-----------------------------------------------------------------------------
LifeTypeOK ==
  /\ procs \in [Procs -> Process]
  /\ inbox \in [Slots -> Requests]
  /\ step \in [Programs -> Steps]
  /\ at \in [Programs -> {"idle", "request", "ping", "launch", "await", "poll", "giveup"}]
  /\ sock \in [Programs -> {"closed", "out", "in", "ok", "refused"}]
  /\ handle \in [Programs -> {NoHandle, External} \cup Procs]
  /\ try \in [Programs -> 0 .. Candidates + 1]
  /\ cur \in [Programs -> {0} \cup Procs]
  /\ flags \in [Programs -> [camera : BOOLEAN, stream : BOOLEAN]]
  /\ quit \in [Programs -> BOOLEAN]
  /\ lost \in BOOLEAN

\* Every live sidecar a program has started is the one it is waiting for or
\* the one it will terminate when it closes, so that no sidecar outlives its
\* program and keeps camera and ports.
OwnedIsAccounted ==
  \A p \in Procs :
    procs[p].by \in Programs /\ Alive(p) => p \in {handle[procs[p].by], cur[procs[p].by]}

\* When every program has ended the camera is closed, in whichever sidecar is
\* left: only an OpenCamera or CloseCamera that was given up can leave it open.
CameraReleased ==
  (\A c \in Programs : step[c] = "exit") /\ ~ lost
    => \A p \in Procs : procs[p].cam \in {"closed", "left"}
=============================================================================
