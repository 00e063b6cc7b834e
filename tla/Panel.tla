------------------------------- MODULE Panel -------------------------------
(***************************************************************************)
(* The handlers of the web panel that change settings (src/internal/web/   *)
(* api.go) with the places the settings live in: the detector's engine,    *)
(* the Config in memory (src/internal/config/config.go), its file, and the *)
(* Scanner that scan requests start and stop.  A handler takes no lock of  *)
(* its own: it reads the engine, computes the new settings, gives them to  *)
(* the engine, announces that and saves them, and other requests come      *)
(* between any two of these.  A save may fail, the process may be killed.  *)
(*                                                                         *)
(* Detection settings are a set of detectors, each an ID with its content. *)
(* Config.mu is held from the assignment to the rename, so a save is one   *)
(* step here; its steps, and the rules, which the same file holds, are     *)
(* Manager's.                                                              *)
(***************************************************************************)
EXTENDS Scanner

CONSTANTS
  Callers,
  Detectors, \* detectors a request may name: [id, v]
  Profiles,  \* what imports bring: [detection, scan]
  MaxCalls   \* bound on the requests other than to stop a scan

VARIABLES
  engine, \* DetectorEngine.config
  memory, \* Config: its Detection and Scan
  file,   \* the same in the file
  req,    \* each caller's request
  calls

panelVars == <<engine, memory, file, req, calls>>
vars == <<scanVars, panelVars>>

Settings == {ds \in SUBSET Detectors : \A x, y \in ds : x.id = y.id => x = y}
Remembered == {NoOptions} \cup Options

ASSUME PanelAssumption ==
  /\ MaxCalls \in Nat
  /\ Profiles \subseteq [detection : Settings, scan : Options]

NoRequest ==
  [pc |-> "idle", import |-> FALSE, wanted |-> {}, previous |-> {}, options |-> NoOptions,
   cancel |-> 0, was |-> {}, alone |-> FALSE]

Init ==
  /\ ScanInit
  /\ engine \in {{}, Detectors} \cap Settings
  /\ memory = [detection |-> engine, scan |-> NoOptions] /\ file = memory
  /\ req = [c \in Callers |-> NoRequest] /\ calls = 0

-----------------------------------------------------------------------------
\* Caller c begins with r; from now on none that is under way is alone.
Begin(c, r) ==
  /\ req[c].pc = "idle"
  /\ LET busy == \E d \in Callers : req[d].pc # "idle"
     IN  req' = [d \in Callers |->
                   IF d = c THEN [r EXCEPT !.alone = ~busy, !.was = IF busy THEN {} ELSE engine]
                            ELSE [req[d] EXCEPT !.alone = FALSE, !.was = {}]]
  /\ UNCHANGED <<engine, memory, file>>

Proceed(c, r) == req' = [req EXCEPT ![c] = r] /\ UNCHANGED calls

To(c, pc) == [req[c] EXCEPT !.pc = pc]

Apply(ds) == [NoRequest EXCEPT !.pc = "apply", !.wanted = ds]

\* handleDetectors, PUT: all settings at once.
PutDetectors(c, ds) == Begin(c, Apply(ds)) /\ UNCHANGED scanVars

\* handleDetectors, POST: one more than the engine has, under an ID of its own.
PostDetector(c, x) ==
  /\ engine \cup {x} \in Settings /\ x \notin engine
  /\ Begin(c, Apply(engine \cup {x})) /\ UNCHANGED scanVars

\* handleDetectorItem, PUT and DELETE: the engine's, with one changed or gone.
PutDetector(c, x) ==
  \E old \in engine :
    /\ old.id = x.id
    /\ Begin(c, Apply((engine \ {old}) \cup {x})) /\ UNCHANGED scanVars

DeleteDetector(c, x) ==
  x \in engine /\ Begin(c, Apply(engine \ {x})) /\ UNCHANGED scanVars

\* handleProfile, once the rules are replaced.
ImportProfile(c, p) ==
  /\ Begin(c, [Apply(p.detection) EXCEPT !.import = TRUE, !.options = p.scan])
  /\ UNCHANGED scanVars

\* handleScan, POST: refused while a scan runs; then its options are kept.
PostScan(c, o) ==
  /\ Begin(c, [NoRequest EXCEPT !.pc = "setScan", !.options = o])
  /\ Start(o)

\* handleScan, DELETE: Scanner.Stop, which reads the cancel function ...
DeleteScan(c) ==
  /\ scan.cancel # 0
  /\ Begin(c, [NoRequest EXCEPT !.pc = "cancel", !.cancel = scan.cancel])
  /\ stopped' = TRUE
  /\ UNCHANGED <<scan, run, probe, answer>>

\* ... and calls it.
StopScan(c) ==
  /\ req[c].pc = "cancel" /\ Cancel(req[c].cancel)
  /\ Proceed(c, NoRequest) /\ UNCHANGED <<engine, memory, file>>

-----------------------------------------------------------------------------
(* applyDetectionConfig.                                                    *)

ReadPrevious(c) ==
  /\ req[c].pc = "apply"
  /\ Proceed(c, [To(c, "configure") EXCEPT !.previous = engine])
  /\ UNCHANGED <<scanVars, engine, memory, file>>

Configure(c) ==
  /\ req[c].pc = "configure"
  /\ engine' = req[c].wanted
  /\ Proceed(c, To(c, "notify"))
  /\ UNCHANGED <<scanVars, memory, file>>

\* SetDetectionConfig announces the change, which saves the Config as it is.
Notify(c) ==
  /\ req[c].pc = "notify"
  /\ file' \in {file, memory}
  /\ Proceed(c, To(c, "setDetection"))
  /\ UNCHANGED <<scanVars, engine, memory>>

\* SetDetection: in memory first, then the save.
SetDetection(c) ==
  /\ req[c].pc = "setDetection"
  /\ memory' = [memory EXCEPT !.detection = req[c].wanted]
  /\ \/ file' = memory'
        /\ Proceed(c, IF req[c].import THEN To(c, "setScan") ELSE NoRequest)
     \/ file' = file
        /\ Proceed(c, To(c, "rollback"))
  /\ UNCHANGED <<scanVars, engine>>

\* Faulty: the engine keeps what could not be saved.
RollbackNot(c) ==
  /\ req[c].pc = "rollback"
  /\ Proceed(c, To(c, "notifyRollback"))
  /\ UNCHANGED <<scanVars, engine, memory, file>>

\* The save failed: the engine gets back what it had ...
Rollback(c) ==
  /\ req[c].pc = "rollback"
  /\ engine' = req[c].previous
  /\ Proceed(c, To(c, "notifyRollback"))
  /\ UNCHANGED <<scanVars, memory, file>>

\* ... and announces that too.
NotifyRollback(c) ==
  /\ req[c].pc = "notifyRollback"
  /\ file' \in {file, memory}
  /\ Proceed(c, NoRequest)
  /\ UNCHANGED <<scanVars, engine, memory>>

\* SetScan; that the save failed is reported and nothing is taken back.
SetScan(c) ==
  /\ req[c].pc = "setScan"
  /\ memory' = [memory EXCEPT !.scan = req[c].options]
  /\ file' \in {file, memory'}
  /\ Proceed(c, NoRequest)
  /\ UNCHANGED <<scanVars, engine>>

\* The process is killed and boots again: main, config.Load.
Restart ==
  /\ engine' = file.detection /\ memory' = file /\ UNCHANGED <<file, calls>>
  /\ req' = [c \in Callers |-> NoRequest]
  /\ scan' = [scan EXCEPT !.number = 0, !.running = FALSE, !.cancel = 0,
                          !.options = NoOptions, !.total = 0, !.done = 0, !.hosts = NoHosts]
  /\ run' = NoRun /\ stopped' = FALSE
  /\ probe' = [j \in JobIds |-> "none"] /\ answer' = [j \in JobIds |-> "none"]

-----------------------------------------------------------------------------
Request(c) ==
  \/ /\ calls < MaxCalls /\ calls' = calls + 1
     /\ \/ \E ds \in Settings : PutDetectors(c, ds)
        \/ \E x \in Detectors : PostDetector(c, x) \/ PutDetector(c, x) \/ DeleteDetector(c, x)
        \/ \E p \in Profiles : ImportProfile(c, p)
        \/ \E o \in Options : PostScan(c, o)
  \/ DeleteScan(c) /\ UNCHANGED calls

Handle(c) ==
  \/ StopScan(c)
  \/ ReadPrevious(c) \/ Configure(c) \/ Notify(c) \/ SetDetection(c)
  \/ Rollback(c) \/ NotifyRollback(c) \/ SetScan(c)

Next ==
  \/ \E c \in Callers : Request(c) \/ Handle(c)
  \/ (RunStep \/ \E j \in JobIds : ProbeStep(j)) /\ UNCHANGED panelVars
  \/ Restart

Spec == Init /\ [][Next]_vars /\ ScanFairness

-----------------------------------------------------------------------------
(* Properties.                                                              *)

\* Every variable has its type, and progress does not exceed the total.
TypeOK ==
  /\ ScanTypeOK
  /\ engine \in Settings
  /\ memory \in [detection : Settings, scan : Remembered]
  /\ file \in [detection : Settings, scan : Remembered]
  /\ req \in [Callers ->
       [pc : {"idle", "apply", "configure", "notify", "setDetection", "rollback",
              "notifyRollback", "setScan", "cancel"},
        import : BOOLEAN, wanted : Settings, previous : Settings, options : Remembered,
        cancel : Nat, was : Settings, alone : BOOLEAN]]
  /\ calls \in 0..MaxCalls

Returns(c, pc) == req[c].alone /\ req[c].pc = pc /\ Handle(c) /\ req'[c].pc = "idle"

\* A request that no other overlaps changes the settings as a whole or not at
\* all.  When a change of detectors is accepted, engine, memory and file have
\* it; so they do after an import, whose options for scans are at least in
\* memory.  When it is refused because it could not be saved, the engine has
\* what it had when the request came (applyDetectionConfig).  When a scan is
\* accepted, the options remembered are those of the scan that was started.
LoneChangeIsWhole ==
  [][\A c \in Callers :
       /\ Returns(c, "notifyRollback") => engine' = req[c].was
       /\ Returns(c, "setDetection") \/ (Returns(c, "setScan") /\ req[c].import) =>
            {engine', memory'.detection, file'.detection} = {req[c].wanted}
       /\ Returns(c, "setScan") =>
            /\ memory'.scan = req[c].options
            /\ ~req[c].import => scan'.options = req[c].options]_vars

=============================================================================
