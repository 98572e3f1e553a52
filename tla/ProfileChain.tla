---------------------------- MODULE ProfileChain ----------------------------
(***************************************************************************)
(* From calibration to survey (docs/profile_task_chain.md): the three      *)
(* stages of scripts/calibrate_profiles.py, each a program that leaves a   *)
(* profile file, the capture that uses two of these files                  *)
(* (tasks/capture_dataset.py) and the survey made from the capture         *)
(* (tasks/psf/build_full_frame_psf_survey.py).  Nothing but profile ids    *)
(* ties the files to each other, and an operator gives any file to any     *)
(* program, in any order.                                                  *)
(*                                                                         *)
(* A camera setting stands for the condition it was found under: what the  *)
(* LCD showed and where the light source was.  The search that finds one   *)
(* is ExposureSearch, step by step.  Only one program uses the devices at  *)
(* a time; how a capture files its frames is in CaptureRun.  A dry run     *)
(* uses no devices and is left out.                                        *)
(***************************************************************************)
EXTENDS ExposureSearch

CONSTANTS
    CameraIds, PupilIds, None,
    Apertures,     \* pupils a scan may find: the LCD shows one or another part
    BandPlans,     \* wavelengths of a per-band plan, in order
    CapturePlans,  \* entries [effective, setpoint] of a capture plan, in order
    MaxFiles       \* bound: profile files of the laboratory

\* Where the light source is: at a wavelength, letting all light pass, or
\* somewhere on its way.
Pass == 0
Between == -1

Bands == UNION {{waves[i] : i \in DOMAIN waves} : waves \in BandPlans}
Closed == "closed"
Solid == "solid"
Masks == Apertures \cup {Closed, Solid, "bar", "dark", "window"}
Lights == Bands \cup {Pass, Between}
Condition == [mask : Masks, light : Lights]

ASSUME ChainAssumption ==
    /\ None \notin CameraIds \cup PupilIds \cup Condition \cup Bands
    /\ None \notin {"partial", "complete"}
    /\ Apertures \cap {Closed, Solid, "bar", "dark", "window"} = {}
    /\ \A waves \in BandPlans : waves \in Seq(Nat \ {Pass}) /\ waves # <<>>
    /\ \A p \in CapturePlans :
         p # <<>> /\ p \in Seq([effective : Bands, setpoint : Bands \cup {None}])
    /\ MaxFiles \in Nat

VARIABLES
    lcd, light,  \* the apparatus: what is shown, where the light source is
    setting,     \* where the camera's parameters come from, None: not a profile
    cameras,     \* CameraProfile files
    pupils,      \* PupilProfile files
    job,         \* the program that runs and what it was given
    step,        \* what it is about to do
    found,       \* settings selected so far, by wavelength key
    samples,     \* history: conditions of the frames it has taken
    capture,     \* the raw capture file, None before it is complete
    survey       \* the survey's two files

labVars == <<lcd, light, setting>>
fileVars == <<cameras, pupils>>
endVars == <<capture, survey>>
chainVars == <<vars, labVars, fileVars, job, step, found, samples, endVars>>

Goto(s) == step' = s
NoJob == [task |-> None]

\* A search keeps nothing of the one before it.
SearchFrom(sorted) ==
    /\ gains' = sorted
    /\ index' = 1 /\ stage' = "bounds" /\ span' = Config
    /\ low' = 0 /\ high' = 0 /\ halvings' = 0 /\ trial' = {} /\ rows' = {}

\* No search is under way: the gains are of no matter.
NoGains == <<0>>

----------------------------------------------------------------------------
\* What a file must satisfy before it is written, and what a program asks of
\* the files it is given.

CameraValid(c) ==
    \/ /\ c.family = "broadband_passthrough"
       /\ c.depends = None /\ DOMAIN c.settings = {Pass}
    \/ /\ c.family = "per_band_pupil_open"
       /\ c.depends # None /\ c.wavelengths \subseteq DOMAIN c.settings

\* Mutation of ScanAccepts: any camera profile that was asked for.
ScanAcceptsAny(requires, c) == c.id = requires.camera

ScanAccepts(requires, c) ==
    /\ c.id = requires.camera
    /\ c.family = "broadband_passthrough" /\ c.depends = None

\* Mutation of PsfDependencies: the profile of another pupil will do.
AnyPupil(requires, p, c, waves) ==
    /\ requires.pupil = p.id /\ requires.camera = c.id
    /\ c.family = "per_band_pupil_open"
    /\ waves \subseteq DOMAIN c.settings

PsfDependencies(requires, p, c, waves) ==
    /\ requires.pupil = p.id /\ requires.camera = c.id
    /\ c.family = "per_band_pupil_open"
    /\ c.depends = p.id
    /\ waves \subseteq DOMAIN c.settings

\* Profile-dependent settings are looked up by the effective wavelength.
Effective(entries) == {entries[i].effective : i \in DOMAIN entries}

----------------------------------------------------------------------------
\* Programs begin, fail and end.

Given(task, requires, p, c, waves) ==
    job' = [task |-> task, requires |-> requires, pupil |-> p, camera |-> c,
            waves |-> waves]

Requirements == [pupil : PupilIds, camera : CameraIds]

\* New output paths are asked for, so a profile is never overwritten.  Files
\* made after a capture are no more to its survey than files made before it.
Calibrate ==
    /\ step = "idle" /\ capture = None
    /\ Cardinality(cameras) + Cardinality(pupils) < MaxFiles
    /\ \/ Given("broadband", None, None, None, <<>>)
       \/ \E id \in CameraIds, c \in cameras :
            Given("pupil", [camera |-> id], None, c, <<>>)
       \/ \E id \in PupilIds, p \in pupils, waves \in BandPlans :
            Given("per_band", [pupil |-> id], p, None, waves)
    /\ Goto("open")
    /\ UNCHANGED <<vars, labVars, fileVars, found, samples, endVars>>

\* The plan brings its masks; the operator says whether there is a light source.
CaptureDataset ==
    /\ step = "idle" /\ capture = None
    /\ \E req \in Requirements, p \in pupils, c \in cameras, e \in CapturePlans,
         inside \in Apertures, tls \in BOOLEAN :
           job' = [task |-> "capture", requires |-> req, pupil |-> p, camera |-> c,
                   waves |-> e, masks |-> inside, enable_tls |-> tls]
    /\ Goto("open")
    /\ UNCHANGED <<vars, labVars, fileVars, found, samples, endVars>>

\* A window that has just been opened shows no mask; the light source is where
\* it was left.
OpenDevices ==
    /\ step = "open"
    /\ lcd' = Closed
    /\ Goto(IF job.task = "broadband" THEN "show" ELSE "check")
    /\ UNCHANGED <<vars, light, setting, fileVars, job, found, samples, endVars>>

Finished ==
    /\ SearchFrom(NoGains)
    /\ job' = NoJob /\ found' = <<>> /\ samples' = {}
    /\ lcd' = Closed
    /\ Goto("idle")

\* Closing the devices.  Neither light source nor camera is set back.
Close ==
    /\ step = "close"
    /\ Finished
    /\ UNCHANGED <<light, setting, fileVars, endVars>>

\* Anything raises, or the program is killed.  A light source on its way may be
\* anywhere.
Abandon ==
    /\ step \notin {"idle", "close", "writing", "manifest"}
    /\ Finished
    /\ light' \in IF step \in {"pass", "move"} THEN Lights ELSE {light}
    /\ UNCHANGED <<setting, fileVars, endVars>>

----------------------------------------------------------------------------
\* What the stages do with the devices

Show(mask) == lcd' = mask

ShowSolid ==
    /\ step = "show" /\ job.task = "broadband"
    /\ Show(Solid)
    /\ Goto("pass")
    /\ UNCHANGED <<vars, light, setting, fileVars, job, found, samples, endVars>>

CheckScan ==
    /\ step = "check" /\ job.task = "pupil"
    /\ ScanAccepts(job.requires, job.camera)
    /\ Goto("pass")
    /\ UNCHANGED <<vars, labVars, fileVars, job, found, samples, endVars>>

CheckBands ==
    /\ step = "check" /\ job.task = "per_band"
    /\ job.requires.pupil = job.pupil.id
    /\ Goto("show")
    /\ UNCHANGED <<vars, labVars, fileVars, job, found, samples, endVars>>

PassThrough ==
    /\ step = "pass"
    /\ light' = Pass
    /\ Goto(IF job.task = "broadband" THEN "search" ELSE "apply")
    /\ UNCHANGED <<vars, lcd, setting, fileVars, job, found, samples, endVars>>

ShowPupil ==
    /\ step = "show" /\ job.task = "per_band"
    /\ Show(job.pupil.aperture)
    /\ Goto("move")
    /\ UNCHANGED <<vars, light, setting, fileVars, job, found, samples, endVars>>

\* set_wavelength_nm, move, wait_until_idle
MoveToBand ==
    /\ step = "move" /\ job.task = "per_band"
    /\ light' = Head(job.waves)
    /\ Goto("search")
    /\ UNCHANGED <<vars, lcd, setting, fileVars, job, found, samples, endVars>>

----------------------------------------------------------------------------
\* A search, and what is kept of it

BeginSearch ==
    /\ step = "search"
    /\ \E plan \in GainPlans : \E sorted \in Ascending(plan) : SearchFrom(sorted)
    /\ setting' = None
    /\ Goto("searching")
    /\ UNCHANGED <<lcd, light, fileVars, job, found, samples, endVars>>

Search ==
    /\ step = "searching"
    /\ SearchNext
    /\ UNCHANGED <<labVars, fileVars, job, step, found, samples, endVars>>

\* _wavelength_key; a band that comes twice keeps what was found last.
Key(waves) == IF waves = <<>> THEN Pass ELSE Head(waves)

Keep(key) ==
    found' = [k \in DOMAIN found \cup {key} |->
                IF k = key THEN [mask |-> lcd, light |-> light] ELSE found[k]]

\* select_recommended_probe raises if there is nothing to recommend.
Select ==
    /\ step = "searching" /\ stage = "returned"
    /\ Recommended # {}
    /\ Keep(Key(job.waves))
    /\ SearchFrom(NoGains)
    /\ IF Len(job.waves) =< 1
       THEN Goto("profile") /\ UNCHANGED job
       ELSE Goto("move") /\ job' = [job EXCEPT !.waves = Tail(@)]
    /\ UNCHANGED <<labVars, fileVars, samples, endVars>>

BroadbandProfile(id) ==
    [id |-> id, family |-> "broadband_passthrough", depends |-> None,
     wavelengths |-> {}, settings |-> found]

BandProfile(id) ==
    [id |-> id, family |-> "per_band_pupil_open", depends |-> job.pupil.id,
     wavelengths |-> DOMAIN found, settings |-> found]

\* The id comes from the plan.
WriteCameraProfile ==
    /\ step = "profile" /\ job.task \in {"broadband", "per_band"}
    /\ \E id \in CameraIds :
         LET c == IF job.task = "broadband" THEN BroadbandProfile(id)
                  ELSE BandProfile(id)
         IN  CameraValid(c) /\ cameras' = cameras \cup {c}
    /\ Goto("close")
    /\ UNCHANGED <<vars, labVars, pupils, job, found, samples, endVars>>

----------------------------------------------------------------------------
\* The pupil scan

\* apply_camera_params, 300 ms and 80 frames discarded; a parameter that is None
\* is left as it is.
ApplyScanSetting ==
    /\ step = "apply"
    /\ setting' = IF Pass \in DOMAIN job.camera.settings
                  THEN job.camera.settings[Pass] ELSE setting
    /\ Goto("bright")
    /\ UNCHANGED <<vars, lcd, light, fileVars, job, found, samples, endVars>>

\* _capture_mask: show, settle, take a burst.
Shot(mask) ==
    /\ Show(mask)
    /\ samples' = samples \cup {[light |-> light, setting |-> setting]}
    /\ UNCHANGED <<vars, light, setting, fileVars, job, found, endVars>>

Bright == step = "bright" /\ Shot(Solid) /\ Goto("bars")

\* Bars across both axes; then the bars' energies are fitted.
ScanAxes == step = "bars" /\ Shot("bar") /\ Goto("dark")

Dark == step = "dark" /\ Shot("dark") /\ Goto("radii")

\* Growing windows about the fitted centre; an ellipse is fitted to them.
RadiusScan == step = "radii" /\ Shot("window") /\ Goto("profile")

WritePupilProfile ==
    /\ step = "profile" /\ job.task = "pupil"
    /\ \E id \in PupilIds, a \in Apertures :
         pupils' = pupils \cup {[id |-> id, aperture |-> a,
                                 camera |-> job.requires.camera,
                                 scanned |-> samples]}
    /\ Goto("close")
    /\ UNCHANGED <<vars, labVars, cameras, job, found, samples, endVars>>

----------------------------------------------------------------------------
\* The capture, as far as it depends on profiles

\* No mask of the plan opens the LCD outside the pupil.
MasksInside(p) == job.masks = p.aperture

CheckCapture ==
    /\ step = "check" /\ job.task = "capture"
    /\ PsfDependencies(job.requires, job.pupil, job.camera, Effective(job.waves))
    /\ MasksInside(job.pupil)
    /\ Goto("setting")
    /\ UNCHANGED <<vars, labVars, fileVars, job, found, samples, endVars>>

SettingOf(entry) == job.camera.settings[entry.effective]

ApplyBandSetting ==
    /\ step = "setting"
    /\ setting' = SettingOf(Head(job.waves))
    /\ Goto("move")
    /\ UNCHANGED <<vars, lcd, light, fileVars, job, found, samples, endVars>>

\* apply_illumination_to_tls, or no light source and no setpoint; it then stays
\* where it is.  Everything else raises.
ApplyIllumination ==
    /\ step = "move" /\ job.task = "capture"
    /\ (Head(job.waves).setpoint # None) = job.enable_tls
    /\ light' = IF Head(job.waves).setpoint = None THEN light
                ELSE Head(job.waves).setpoint
    /\ Goto("frames")
    /\ UNCHANGED <<vars, lcd, setting, fileVars, job, found, samples, endVars>>

TakeFrames ==
    /\ step = "frames"
    /\ Show(job.masks)
    /\ samples' = samples \cup
         {[entry |-> Head(job.waves), mask |-> lcd', light |-> light,
           setting |-> setting]}
    /\ job' = [job EXCEPT !.waves = Tail(@)]
    /\ Goto(IF Len(job.waves) = 1 THEN "finish" ELSE "setting")
    /\ UNCHANGED <<vars, light, setting, fileVars, found, endVars>>

\* The file records the ids that were required, nothing of the profiles.
FinishCapture ==
    /\ step = "finish"
    /\ capture' = [requires |-> job.requires, rows |-> samples]
    /\ Goto("close")
    /\ UNCHANGED <<vars, labVars, fileVars, job, found, samples, survey>>

----------------------------------------------------------------------------
\* The survey: the program is given two profile files again.

NoSurvey == [pupil |-> None, file |-> None, manifest |-> FALSE]

\* validate_profile_manifests
ManifestsFit(p, c) ==
    PsfDependencies(capture.requires, p, c, {r.entry.effective : r \in capture.rows})

\* An output that exists is refused.
BuildSurvey ==
    /\ step = "idle" /\ capture # None /\ survey = NoSurvey
    /\ \E p \in pupils, c \in cameras :
         /\ ManifestsFit(p, c)
         /\ survey' = [NoSurvey EXCEPT !.pupil = p, !.file = "partial"]
    /\ Goto("writing")
    /\ UNCHANGED <<vars, labVars, fileVars, job, found, samples, capture>>

WriteSurvey ==
    /\ step = "writing"
    /\ survey' = [survey EXCEPT !.file = "complete"]
    /\ Goto("manifest")
    /\ UNCHANGED <<vars, labVars, fileVars, job, found, samples, capture>>

WriteManifest ==
    /\ step = "manifest"
    /\ survey' = [survey EXCEPT !.manifest = TRUE]
    /\ Goto("idle")
    /\ UNCHANGED <<vars, labVars, fileVars, job, found, samples, capture>>

\* What was written stays.
SurveyFails ==
    /\ step \in {"writing", "manifest"}
    /\ Goto("idle")
    /\ UNCHANGED <<vars, labVars, fileVars, job, found, samples, endVars>>

----------------------------------------------------------------------------
ChainInit ==
    /\ gains = NoGains /\ index = 1 /\ stage = "bounds" /\ span = Config
    /\ low = 0 /\ high = 0 /\ halvings = 0 /\ trial = {} /\ rows = {}
    /\ lcd = Closed /\ light = Between /\ setting = None
    /\ cameras = {} /\ pupils = {}
    /\ job = NoJob /\ step = "idle" /\ found = <<>> /\ samples = {}
    /\ capture = None /\ survey = NoSurvey

ChainNext ==
    \/ Calibrate \/ CaptureDataset \/ OpenDevices \/ Close \/ Abandon
    \/ ShowSolid \/ CheckScan \/ CheckBands \/ PassThrough \/ ShowPupil \/ MoveToBand
    \/ BeginSearch \/ Search \/ Select \/ WriteCameraProfile
    \/ ApplyScanSetting \/ Bright \/ ScanAxes \/ Dark \/ RadiusScan
    \/ WritePupilProfile
    \/ CheckCapture \/ ApplyBandSetting \/ ApplyIllumination \/ TakeFrames
    \/ FinishCapture
    \/ BuildSurvey \/ WriteSurvey \/ WriteManifest \/ SurveyFails

ChainSpec == ChainInit /\ [][ChainNext]_chainVars

----------------------------------------------------------------------------
(***************************************************************************)
(* Every pupil profile was scanned from the first frame to the last in     *)
(* pass-through light, with a camera setting that was searched in that     *)
(* light and with the whole LCD open, whatever the programs run before it  *)
(* left behind (scan_pupil_broadband.py:228-247).                          *)
(***************************************************************************)
PupilScannedAsCalibrated ==
    \A p \in pupils :
      p.scanned = {[light |-> Pass, setting |-> [mask |-> Solid, light |-> Pass]]}

\* No id was given to two different profiles.
OneProfilePerId ==
    /\ \A a, b \in pupils : a.id = b.id => a = b
    /\ \A a, b \in cameras : a.id = b.id => a = b

(***************************************************************************)
(* A survey with a manifest is complete; and if no id was given twice, its *)
(* frames were taken inside the pupil of the profile it was made with,     *)
(* with a camera setting that was searched with that pupil open at the     *)
(* wavelength the plan calls effective, and in that light where the plan   *)
(* sends the light source there - in whatever order, and with whatever     *)
(* files, the operator ran the programs (profile_requirements.py:53-103).  *)
(***************************************************************************)
SurveyIsCalibrated ==
    survey.manifest =>
      /\ survey.file = "complete"
      /\ OneProfilePerId =>
           \A r \in capture.rows :
             /\ r.mask = survey.pupil.aperture
             /\ r.setting = [mask |-> survey.pupil.aperture,
                             light |-> r.entry.effective]
             /\ r.entry.setpoint = r.entry.effective =>
                  r.light = r.entry.effective
=============================================================================
